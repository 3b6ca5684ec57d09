--------------------------- MODULE QuotaLocksProofs ---------------------------
(***************************************************************************)
(* Proofs about QuotaLocks, for any users, logins, limits and days, and    *)
(* any number of compiles and verbs at once: what SQLite's locks keep true *)
(* (LocksHold), and with it that the transactions implement Quota.         *)
(***************************************************************************)
EXTENDS QuotaLocks, TLAPS

(* The records of a compile inside IncrementCompile.                       *)
Counting == [at : {"count", "insert", "commit", "pending"},
             user : Users, limit : Limits, day : Days]

(* A compile that has stamped its day is such a record.                    *)
LEMMA GateShape ==
  ASSUME NEW r \in Gate
  PROVE  /\ r.user \in Users
         /\ r.at = "day" => r.limit \in Limits
         /\ r.at \in {"count", "insert", "commit", "pending"} => r \in Counting
BY DEF Gate, Counting

(* Its phase may change and nothing else.                                  *)
LEMMA CountingExcept ==
  ASSUME NEW r \in Counting, NEW at \in {"count", "insert", "commit", "pending"}
  PROVE  LET s == [r EXCEPT !.at = at] IN
         /\ s \in Counting /\ s \in Gate
         /\ s.at = at /\ s.user = r.user /\ s.limit = r.limit /\ s.day = r.day
BY DEF Counting, Gate

(* The absence of a call is no call, and that of a row no row.             *)
LEMMA NotNone == None \notin Gate /\ None \notin Verb /\ None \notin Row
BY QuotaAssumption

(* Limits and days are naturals.                                           *)
LEMMA Naturals ==
  Limits \subseteq Nat /\ Days \subseteq Nat /\ 0 \in Days /\ quotaPerDay \in Limits
BY QuotaAssumption DEF Limits, Days

(* A verb's phase may change and nothing else.                             *)
LEMMA VerbExcept ==
  ASSUME NEW v \in Verb, NEW at \in Phase
  PROVE  LET s == [v EXCEPT !.at = at] IN
         /\ s \in Verb /\ s.at = at /\ s.op = v.op
         /\ v.op # "reset_today" => s.login = v.login
         /\ v.op = "delete_user" => s.user = v.user
<1>1. CASE v \in [op : {"sign_in"}, at : Phase, user : Users, login : Logins]
  BY <1>1 DEF Verb
<1>2. CASE v \in [op : {"set_quota"}, at : Phase, login : Logins, quota : Overrides \cup {None}]
  BY <1>2 DEF Verb
<1>3. CASE v \in [op : {"reset_today"}, at : Phase, user : Users, day : Days]
  BY <1>3 DEF Verb
<1>4. CASE v \in [op : {"delete_user"}, at : Phase, user : Users, login : Logins]
  BY <1>4 DEF Verb
<1>. QED
  BY <1>1, <1>2, <1>3, <1>4 DEF Verb

-----------------------------------------------------------------------------
(* Types.                                                                  *)

(* The limit in force is one that somebody set.                            *)
LEMMA LimitType ==
  ASSUME TypeOK, NEW u \in Users
  PROVE  EffectiveQuota(u) \in Limits
<1>1. CASE users[u] = None
  BY <1>1 DEF EffectiveQuota, Limits
<1>2. CASE users[u] # None
  <2>1. users[u] \in Row
    BY <1>2 DEF TypeOK
  <2>2. users[u].quota \in Overrides \cup {None}
    BY <2>1 DEF Row
  <2>. QED
    BY <1>2, <2>2 DEF EffectiveQuota, Limits
<1>. QED
  BY <1>1, <1>2

(* What a verb leaves in users and compiles is well formed.                *)
LEMMA AfterTypes ==
  ASSUME TypeOK, NEW v \in Verb
  PROVE  /\ UsersAfter(v) \in [Users -> Row \cup {None}]
         /\ CompilesAfter(v) \in [Users -> [Days -> Nat]]
<1>1. CASE v.op = "sign_in"
  <2>1. v.user \in Users /\ v.login \in Logins
    BY <1>1 DEF Verb
  <2>2. ASSUME NEW o \in Overrides \cup {None}
        PROVE  [login |-> v.login, quota |-> o] \in Row
    BY <2>1 DEF Row
  <2>3. (IF users[v.user] = None THEN None ELSE users[v.user].quota) \in Overrides \cup {None}
    BY <2>1 DEF TypeOK, Row
  <2>. QED
    BY <1>1, <2>2, <2>3 DEF UsersAfter, CompilesAfter, TypeOK
<1>2. CASE v.op = "set_quota"
  <2>1. [login |-> v.login, quota |-> v.quota] \in Row
    BY <1>2 DEF Verb, Row
  <2>. QED
    BY <1>2, <2>1 DEF UsersAfter, CompilesAfter, TypeOK
<1>3. CASE v.op = "reset_today"
  <2>1. v.user \in Users /\ v.day \in Days
    BY <1>3 DEF Verb
  <2>. QED
    BY <1>3, <2>1 DEF UsersAfter, CompilesAfter, TypeOK
<1>4. CASE v.op = "delete_user"
  <2>1. v.user \in Users
    BY <1>4 DEF Verb
  <2>. QED
    BY <1>4, <2>1 DEF UsersAfter, CompilesAfter, TypeOK
<1>5. v.op \in {"sign_in", "set_quota", "reset_today", "delete_user"}
  BY DEF Verb
<1>. QED
  BY <1>1, <1>2, <1>3, <1>4, <1>5

(* The database starts in its types.                                       *)
LEMMA InitType == Init => TypeOK
BY Naturals, QuotaAssumption DEF Init, TypeOK, Days

(* A compile's step keeps the types.                                       *)
LEMMA GateType ==
  ASSUME TypeOK, NEW q \in Requests, Start(q) \/ GateStep(q) \/ Cancel(q)
  PROVE  TypeOK'
<1>. DEFINE r == requests[q]
<1>1. requests[q] # None => r \in Gate
  BY DEF TypeOK
<1>2. ASSUME NEW s \in Gate \cup {None}, requests' = [requests EXCEPT ![q] = s]
      PROVE  requests' \in [Requests -> Gate \cup {None}]
  BY <1>2 DEF TypeOK
<1>3. CASE Start(q)
  <2>1. PICK u \in Users : requests' = [requests EXCEPT ![q] = [at |-> "limit", user |-> u]]
    BY <1>3 DEF Start
  <2>2. [at |-> "limit", user |-> u] \in Gate
    BY DEF Gate
  <2>. QED
    BY <1>2, <1>3, <2>1, <2>2 DEF Start, TypeOK
<1>4. CASE ReadLimit(q)
  <2>1. r \in Gate /\ r.user \in Users
    BY <1>1, <1>4, GateShape DEF ReadLimit, At
  <2>2. PICK limit \in {EffectiveQuota(r.user), quotaPerDay} :
          requests' = [requests EXCEPT ![q] = [at |-> "day", user |-> r.user, limit |-> limit]]
    BY <1>4 DEF ReadLimit
  <2>3. limit \in Limits
    BY <2>1, LimitType, Naturals
  <2>4. [at |-> "day", user |-> r.user, limit |-> limit] \in Gate
    BY <2>1, <2>3 DEF Gate
  <2>. QED
    BY <1>2, <1>4, <2>2, <2>4 DEF ReadLimit, TypeOK
<1>5. CASE StampDay(q)
  <2>1. r \in Gate /\ r.user \in Users /\ r.limit \in Limits
    BY <1>1, <1>5, GateShape DEF StampDay, At
  <2>2. [at |-> "count", user |-> r.user, limit |-> r.limit, day |-> day] \in Gate
    BY <2>1 DEF Gate, TypeOK
  <2>. QED
    BY <1>2, <1>5, <2>2 DEF StampDay, UtcDate, TypeOK
<1>6. ASSUME At(q, "count") \/ At(q, "insert") \/ At(q, "commit") \/ At(q, "pending")
      PROVE  r \in Counting
  BY <1>1, <1>6, GateShape DEF At
<1>7. CASE ReadCount(q)
  BY <1>2, <1>6, <1>7, CountingExcept DEF ReadCount, TypeOK
<1>8. CASE ReadTimesOut(q)
  BY <1>2, <1>8 DEF ReadTimesOut, TypeOK
<1>9. CASE Insert(q)
  BY <1>2, <1>6, <1>9, CountingExcept DEF Insert, TypeOK
<1>10. CASE WaitForReaders(q)
  BY <1>2, <1>6, <1>10, CountingExcept DEF WaitForReaders, TypeOK
<1>11. CASE Commit(q)
  <2>1. r.user \in Users /\ r.day \in Days
    BY <1>6, <1>11 DEF Commit, Counting
  <2>2. compiles' \in [Users -> [Days -> Nat]]
    BY <1>11, <2>1 DEF Commit, TypeOK
  <2>. QED
    BY <1>2, <1>11, <2>2 DEF Commit, TypeOK
<1>12. CASE Cancel(q)
  BY <1>2, <1>12 DEF Cancel, Release, TypeOK
<1>. QED
  BY <1>3, <1>4, <1>5, <1>7, <1>8, <1>9, <1>10, <1>11, <1>12 DEF GateStep

(* So does a verb's.                                                       *)
LEMMA VerbType ==
  ASSUME TypeOK, NEW w \in Writers, BeginVerb(w) \/ VerbStep(w) \/ CancelVerb(w)
  PROVE  TypeOK'
<1>1. verbs[w] # None => verbs[w] \in Verb
  BY DEF TypeOK
<1>2. ASSUME NEW s \in Verb \cup {None}, verbs' = [verbs EXCEPT ![w] = s]
      PROVE  verbs' \in [Writers -> Verb \cup {None}]
  BY <1>2 DEF TypeOK
<1>3. CASE BeginVerb(w)
  <2>1. PICK v \in Verb : verbs' = [verbs EXCEPT ![w] = v]
    <3>1. CASE \E u \in Users, l \in Logins : verbs' = [verbs EXCEPT ![w] =
                 [op |-> "sign_in", at |-> "write", user |-> u, login |-> l]]
      BY <3>1 DEF Verb, Phase
    <3>2. CASE \E l \in Logins, n \in Quotas : verbs' = [verbs EXCEPT ![w] =
                 [op |-> "set_quota", at |-> "write", login |-> l, quota |-> n]]
      BY <3>2 DEF Verb, Phase, Quotas
    <3>3. CASE \E u \in Users : verbs' = [verbs EXCEPT ![w] =
                 [op |-> "reset_today", at |-> "write", user |-> u, day |-> day]]
      BY <3>3 DEF Verb, Phase, TypeOK
    <3>4. CASE \E l \in Logins : \E u \in Named(l) : verbs' = [verbs EXCEPT ![w] =
                 [op |-> "delete_user", at |-> "write", user |-> u, login |-> l]]
      BY <3>4 DEF Verb, Phase, Named
    <3>. QED
      BY <1>3, <3>1, <3>2, <3>3, <3>4 DEF BeginVerb
  <2>. QED
    BY <1>2, <1>3, <2>1 DEF BeginVerb, TypeOK
<1>4. CASE WriteVerb(w)
  BY <1>1, <1>2, <1>4, VerbExcept DEF WriteVerb, VerbAt, Phase, TypeOK
<1>5. CASE WriteBusy(w)
  BY <1>2, <1>5 DEF WriteBusy, TypeOK
<1>6. CASE VerbWaits(w)
  BY <1>1, <1>2, <1>6, VerbExcept DEF VerbWaits, VerbAt, Phase, TypeOK
<1>7. CASE CommitVerb(w)
  BY <1>1, <1>2, <1>7, AfterTypes DEF CommitVerb, VerbAt, TypeOK
<1>8. CASE CancelVerb(w)
  BY <1>2, <1>8 DEF CancelVerb, Release, TypeOK
<1>. QED
  BY <1>3, <1>4, <1>5, <1>6, <1>7, <1>8 DEF VerbStep

(* Every step keeps the types.                                             *)
LEMMA StepType == TypeOK /\ [Next]_vars => TypeOK'
<1>. SUFFICES ASSUME TypeOK, [Next]_vars PROVE TypeOK'
  OBVIOUS
<1>1. CASE Midnight
  BY <1>1, QuotaAssumption DEF Midnight, TypeOK, Days
<1>2. CASE UNCHANGED vars
  BY <1>2 DEF vars, TypeOK
<1>. QED
  BY <1>1, <1>2, GateType, VerbType DEF Next

-----------------------------------------------------------------------------
(* What the locks keep true.                                               *)

(* The inductive invariant.                                                *)
Inv == TypeOK /\ LocksHold

InTx(q)     == At(q, "insert") \/ At(q, "commit") \/ At(q, "pending")
HoldsQ(q)   == At(q, "commit") \/ At(q, "pending")
HoldsW(w)   == VerbAt(w, "commit") \/ VerbAt(w, "pending")
HasUnit(q)  == Count(q) < requests[q].limit
RowStays(w) == verbs[w] # None =>
  /\ verbs[w].op = "delete_user" => verbs[w].user \in Named(verbs[w].login)
  /\ verbs[w].op = "set_quota" /\ verbs[w].at # "write" => Named(verbs[w].login) # {}

(* LocksHold, call by call.                                                *)
LEMMA CallByCall ==
  LocksHold <=>
    /\ \A q \in Requests : (InTx(q) => HasUnit(q)) /\ (HoldsQ(q) <=> reserved = q)
    /\ \A w \in Writers : (HoldsW(w) <=> reserved = w) /\ RowStays(w)
BY DEF LocksHold, UnitLeft, OneWriter, RowsStay, InTx, HoldsQ, HoldsW, HasUnit, RowStays

(* The same of the next state.                                             *)
LEMMA CallByCallNext ==
  LocksHold' <=>
    /\ \A q \in Requests : (InTx(q)' => HasUnit(q)') /\ (HoldsQ(q)' <=> reserved' = q)
    /\ \A w \in Writers : (HoldsW(w)' <=> reserved' = w) /\ RowStays(w)'
BY DEF LocksHold, UnitLeft, OneWriter, RowsStay, InTx, HoldsQ, HoldsW, HasUnit, RowStays

(* The empty database has no transaction.                                  *)
LEMMA InitInv == Init => Inv
<1>. SUFFICES ASSUME Init PROVE LocksHold
  BY InitType DEF Inv
<1>. QED
  BY CallByCall, QuotaAssumption DEF Init, InTx, HoldsQ, HoldsW, RowStays, At, VerbAt

(* A call that does not move, while its counter and rows do not, keeps     *)
(* what the locks gave it.                                                 *)
LEMMA StillGate ==
  ASSUME NEW q \in Requests, requests'[q] = requests[q], UNCHANGED compiles
  PROVE  /\ InTx(q)' <=> InTx(q)
         /\ HoldsQ(q)' <=> HoldsQ(q)
         /\ HasUnit(q)' <=> HasUnit(q)
BY DEF InTx, HoldsQ, HasUnit, At, Count
LEMMA StillVerb ==
  ASSUME NEW w \in Writers, verbs'[w] = verbs[w], UNCHANGED users
  PROVE  /\ HoldsW(w)' <=> HoldsW(w)
         /\ RowStays(w)' <=> RowStays(w)
BY DEF HoldsW, RowStays, VerbAt, Named

(* A compile's step keeps what the locks keep true.                        *)
LEMMA GateLocks ==
  ASSUME Inv, NEW q \in Requests, Start(q) \/ GateStep(q) \/ Cancel(q)
  PROVE  LocksHold'
<1>. DEFINE r == requests[q]
<1>1. /\ \A p \in Requests : (InTx(p) => HasUnit(p)) /\ (HoldsQ(p) <=> reserved = p)
      /\ \A w \in Writers : (HoldsW(w) <=> reserved = w) /\ RowStays(w)
  BY CallByCall DEF Inv
<1>2. \A w \in Writers : (HoldsW(w)' <=> HoldsW(w)) /\ RowStays(w)'
  BY <1>1, StillVerb DEF Start, GateStep, ReadLimit, StampDay, ReadCount, ReadTimesOut,
       Insert, WaitForReaders, Commit, Cancel
<1>3. /\ r # None => r \in Gate
      /\ InTx(q) \/ At(q, "count") => r \in Counting
      /\ requests \in [Requests -> Gate \cup {None}]
  BY GateShape DEF Inv, TypeOK, InTx, At
<1>4. \A p \in Requests \ {q} : requests'[p] = requests[p]
  BY <1>3 DEF Start, GateStep, ReadLimit, StampDay, ReadCount, ReadTimesOut,
       Insert, WaitForReaders, Commit, Cancel
<1>5. ASSUME UNCHANGED <<compiles, reserved>>, InTx(q)' => HasUnit(q)', HoldsQ(q)' <=> HoldsQ(q)
      PROVE  LocksHold'
  <2>1. ASSUME NEW p \in Requests
        PROVE  (InTx(p)' => HasUnit(p)') /\ (HoldsQ(p)' <=> reserved' = p)
    BY <1>1, <1>4, <1>5, StillGate
  <2>. QED
    BY <1>1, <1>2, <1>5, <2>1, CallByCallNext
<1>6. CASE Start(q) \/ ReadLimit(q) \/ StampDay(q) \/ ReadTimesOut(q)
  <2>1. ~InTx(q)
    BY <1>6 DEF Start, ReadLimit, StampDay, ReadTimesOut, InTx, At
  <2>2. ~InTx(q)'
    BY <1>3, <1>6 DEF Start, ReadLimit, StampDay, ReadTimesOut, InTx, At
  <2>3. UNCHANGED <<compiles, reserved>>
    BY <1>6 DEF Start, ReadLimit, StampDay, ReadTimesOut
  <2>. QED
    BY <1>5, <2>1, <2>2, <2>3 DEF HoldsQ, InTx
<1>7. CASE ReadCount(q)
  <2>. DEFINE s == [r EXCEPT !.at = "insert"]
  <2>1. r \in Counting /\ r.at = "count" /\ r # None
    BY <1>3, <1>7 DEF ReadCount, At
  <2>2. s \in Counting /\ s.at = "insert" /\ s.user = r.user /\ s.limit = r.limit /\ s.day = r.day
    BY <2>1, CountingExcept
  <2>3. requests'[q] = IF Spent(q) THEN None ELSE s
    BY <1>3, <1>7 DEF ReadCount
  <2>4. UNCHANGED <<compiles, reserved>>
    BY <1>7 DEF ReadCount
  <2>5. ~HoldsQ(q) /\ ~HoldsQ(q)'
    BY <2>1, <2>2, <2>3 DEF HoldsQ, At
  <2>6. ASSUME InTx(q)'
        PROVE  HasUnit(q)'
    <3>1. ~Spent(q) /\ requests'[q] = s
      BY <2>3, <2>6 DEF InTx, At
    <3>2. Count(q) \in Nat /\ r.limit \in Nat
      BY <2>1, Naturals DEF Inv, TypeOK, Count, Counting
    <3>3. Count(q) < r.limit
      BY <3>1, <3>2 DEF Spent
    <3>. QED
      BY <2>2, <2>4, <3>1, <3>3 DEF HasUnit, Count
  <2>. QED
    BY <1>5, <2>4, <2>5, <2>6
<1>8. CASE Insert(q)
  <2>. DEFINE s == [r EXCEPT !.at = "commit"]
  <2>1. r \in Counting /\ r.at = "insert" /\ InTx(q) /\ ~HoldsQ(q)
    BY <1>3, <1>8 DEF Insert, At, InTx, HoldsQ
  <2>2. s \in Counting /\ s \in Gate /\ s.at = "commit" /\ s.user = r.user
          /\ s.limit = r.limit /\ s.day = r.day
    BY <2>1, CountingExcept
  <2>3. CASE reserved # None
    <3>1. requests'[q] = None /\ UNCHANGED <<compiles, reserved>>
      BY <1>3, <1>8, <2>3 DEF Insert
    <3>. QED
      BY <1>5, <2>1, <3>1 DEF InTx, HoldsQ, At
  <2>4. CASE reserved = None
    <3>1. requests'[q] = s /\ UNCHANGED compiles /\ reserved' = q
      BY <1>3, <1>8, <2>4 DEF Insert
    <3>2. s # None
      BY <2>2, NotNone
    <3>3. HoldsQ(q)' /\ HasUnit(q)'
      BY <1>1, <2>1, <2>2, <3>1, <3>2 DEF HoldsQ, At, HasUnit, Count
    <3>4. ASSUME NEW p \in Requests
          PROVE  (InTx(p)' => HasUnit(p)') /\ (HoldsQ(p)' <=> reserved' = p)
      BY <1>1, <1>4, <2>4, <3>1, <3>3, StillGate, QuotaAssumption
    <3>5. ASSUME NEW w \in Writers
          PROVE  (HoldsW(w)' <=> reserved' = w) /\ RowStays(w)'
      BY <1>1, <1>2, <2>4, <3>1, QuotaAssumption
    <3>. QED
      BY <3>4, <3>5, CallByCallNext
  <2>. QED
    BY <2>3, <2>4
<1>9. CASE WaitForReaders(q)
  <2>. DEFINE s == [r EXCEPT !.at = "pending"]
  <2>1. r \in Counting /\ r.at = "commit" /\ InTx(q) /\ HoldsQ(q)
    BY <1>3, <1>9 DEF WaitForReaders, At, InTx, HoldsQ
  <2>2. s \in Gate /\ s.at = "pending" /\ s.user = r.user /\ s.limit = r.limit /\ s.day = r.day
    BY <2>1, CountingExcept
  <2>3. requests'[q] = s /\ UNCHANGED <<compiles, reserved>>
    BY <1>3, <1>9 DEF WaitForReaders
  <2>4. HoldsQ(q)' /\ HasUnit(q)'
    BY <1>1, <2>1, <2>2, <2>3, NotNone DEF HoldsQ, At, HasUnit, Count
  <2>. QED
    BY <1>5, <2>1, <2>3, <2>4
<1>10. CASE Commit(q)
  <2>1. requests'[q] = None /\ reserved' = None /\ Readers \subseteq {q}
    BY <1>3, <1>10 DEF Commit, Alone
  <2>2. ASSUME NEW p \in Requests
        PROVE  ~InTx(p)' /\ ~HoldsQ(p)'
    <3>1. CASE p = q
      BY <2>1, <3>1 DEF InTx, HoldsQ, At
    <3>2. CASE p # q
      BY <1>4, <2>1, <3>2 DEF Readers, InTx, HoldsQ, At
    <3>. QED
      BY <3>1, <3>2
  <2>3. ASSUME NEW w \in Writers
        PROVE  ~HoldsW(w)' /\ RowStays(w)'
    BY <1>2, <2>1, QuotaAssumption DEF Readers, HoldsW, VerbAt
  <2>. QED
    BY <2>1, <2>2, <2>3, CallByCallNext, QuotaAssumption
<1>11. CASE Cancel(q)
  <2>1. requests'[q] = None /\ UNCHANGED compiles
          /\ reserved' = IF reserved = q THEN None ELSE reserved
    BY <1>3, <1>11 DEF Cancel, Release
  <2>2. ASSUME NEW p \in Requests
        PROVE  (InTx(p)' => HasUnit(p)') /\ (HoldsQ(p)' <=> reserved' = p)
    <3>1. CASE p = q
      BY <2>1, <3>1, QuotaAssumption DEF InTx, HoldsQ, At
    <3>2. CASE p # q
      BY <1>1, <1>4, <2>1, <3>2, StillGate, QuotaAssumption
    <3>. QED
      BY <3>1, <3>2
  <2>3. ASSUME NEW w \in Writers
        PROVE  (HoldsW(w)' <=> reserved' = w) /\ RowStays(w)'
    BY <1>1, <1>2, <2>1, QuotaAssumption
  <2>. QED
    BY <2>2, <2>3, CallByCallNext
<1>. QED
  BY <1>6, <1>7, <1>8, <1>9, <1>10, <1>11 DEF GateStep

(* So does a verb's: a commit is alone, so no count and no row that others *)
(* have read changes under them.                                           *)
LEMMA VerbLocks ==
  ASSUME Inv, NEW w \in Writers, BeginVerb(w) \/ VerbStep(w) \/ CancelVerb(w)
  PROVE  LocksHold'
<1>. DEFINE v == verbs[w]
<1>1. /\ \A q \in Requests : (InTx(q) => HasUnit(q)) /\ (HoldsQ(q) <=> reserved = q)
      /\ \A x \in Writers : (HoldsW(x) <=> reserved = x) /\ RowStays(x)
  BY CallByCall DEF Inv
<1>2. /\ v # None => v \in Verb
      /\ verbs \in [Writers -> Verb \cup {None}]
      /\ UNCHANGED requests
  BY DEF Inv, TypeOK, BeginVerb, VerbStep, WriteVerb, WriteBusy, VerbWaits, CommitVerb, CancelVerb
<1>3. \A x \in Writers \ {w} : verbs'[x] = verbs[x]
  BY <1>2 DEF BeginVerb, VerbStep, WriteVerb, WriteBusy, VerbWaits, CommitVerb, CancelVerb
<1>4. ASSUME UNCHANGED compiles, NEW q \in Requests
      PROVE  (InTx(q)' => HasUnit(q)') /\ (HoldsQ(q)' <=> HoldsQ(q))
  BY <1>1, <1>2, <1>4, StillGate
<1>5. ASSUME UNCHANGED <<compiles, users, reserved>>,
             HoldsW(w)' <=> HoldsW(w), RowStays(w)'
      PROVE  LocksHold'
  <2>1. ASSUME NEW x \in Writers
        PROVE  (HoldsW(x)' <=> reserved' = x) /\ RowStays(x)'
    BY <1>1, <1>3, <1>5, StillVerb
  <2>. QED
    BY <1>1, <1>4, <1>5, <2>1, CallByCallNext
<1>6. CASE BeginVerb(w)
  <2>1. PICK s \in Verb :
          /\ verbs'[w] = s /\ s.at = "write"
          /\ s.op = "delete_user" => s.user \in Named(s.login)
    <3>1. CASE \E u \in Users, l \in Logins : verbs' = [verbs EXCEPT ![w] =
                 [op |-> "sign_in", at |-> "write", user |-> u, login |-> l]]
      BY <1>2, <3>1 DEF Verb, Phase
    <3>2. CASE \E l \in Logins, n \in Quotas : verbs' = [verbs EXCEPT ![w] =
                 [op |-> "set_quota", at |-> "write", login |-> l, quota |-> n]]
      BY <1>2, <3>2 DEF Verb, Phase, Quotas
    <3>3. CASE \E u \in Users : verbs' = [verbs EXCEPT ![w] =
                 [op |-> "reset_today", at |-> "write", user |-> u, day |-> day]]
      BY <1>2, <3>3 DEF Verb, Phase, Inv, TypeOK
    <3>4. CASE \E l \in Logins : \E u \in Named(l) : verbs' = [verbs EXCEPT ![w] =
                 [op |-> "delete_user", at |-> "write", user |-> u, login |-> l]]
      <4>1. PICK l \in Logins : \E u \in Named(l) : verbs' = [verbs EXCEPT ![w] =
                   [op |-> "delete_user", at |-> "write", user |-> u, login |-> l]]
        BY <3>4
      <4>. PICK u \in Named(l) : verbs' = [verbs EXCEPT ![w] =
                   [op |-> "delete_user", at |-> "write", user |-> u, login |-> l]]
        BY <4>1
      <4>2. [op |-> "delete_user", at |-> "write", user |-> u, login |-> l] \in Verb
        BY DEF Verb, Phase, Named
      <4>. QED
        BY <1>2, <4>2
    <3>. QED
      BY <1>6, <3>1, <3>2, <3>3, <3>4 DEF BeginVerb
  <2>2. v = None /\ UNCHANGED <<compiles, users, reserved>>
    BY <1>6 DEF BeginVerb
  <2>3. ~HoldsW(w) /\ ~HoldsW(w)'
    BY <2>1, <2>2 DEF HoldsW, VerbAt
  <2>4. RowStays(w)'
    BY <2>1, <2>2 DEF RowStays, Named
  <2>. QED
    BY <1>5, <2>2, <2>3, <2>4
<1>7. ASSUME v \in Verb, NEW at \in {"commit", "pending"},
             verbs'[w] = [v EXCEPT !.at = at], UNCHANGED users,
             v.op = "set_quota" => Named(v.login) # {}
      PROVE  HoldsW(w)' /\ RowStays(w)'
  <2>. DEFINE s == [v EXCEPT !.at = at]
  <2>0. at \in Phase /\ v \in Verb
    BY <1>7 DEF Phase
  <2>. HIDE DEF v
  <2>1. /\ s \in Verb /\ s.at = at /\ s.op = v.op
        /\ v.op # "reset_today" => s.login = v.login
        /\ v.op = "delete_user" => s.user = v.user
    BY <2>0, VerbExcept
  <2>. USE DEF v
  <2>2. HoldsW(w)'
    BY <1>7, <2>1, NotNone DEF HoldsW, VerbAt
  <2>3. RowStays(w)'
    BY <1>1, <1>7, <2>1, NotNone DEF RowStays, Named
  <2>. QED
    BY <2>2, <2>3
<1>8. CASE WriteVerb(w)
  <2>1. v \in Verb /\ ~HoldsW(w) /\ reserved = None /\ UNCHANGED <<users, compiles>>
    BY <1>2, <1>8 DEF WriteVerb, VerbAt, HoldsW
  <2>2. CASE NoSuchUser(w)
    <3>1. verbs'[w] = None /\ UNCHANGED reserved
      BY <1>2, <1>8, <2>2 DEF WriteVerb
    <3>. QED
      BY <1>5, <2>1, <3>1 DEF HoldsW, VerbAt, RowStays
  <2>3. CASE ~NoSuchUser(w)
    <3>1. verbs'[w] = [v EXCEPT !.at = "commit"] /\ reserved' = w
      BY <1>2, <1>8, <2>3 DEF WriteVerb
    <3>2. v.op = "set_quota" => Named(v.login) # {}
      BY <2>3 DEF NoSuchUser
    <3>3. HoldsW(w)' /\ RowStays(w)'
      BY <1>7, <2>1, <3>1, <3>2
    <3>4. ASSUME NEW x \in Writers
          PROVE  (HoldsW(x)' <=> reserved' = x) /\ RowStays(x)'
      BY <1>1, <1>3, <2>1, <3>1, <3>3, StillVerb, QuotaAssumption
    <3>5. ASSUME NEW q \in Requests
          PROVE  (InTx(q)' => HasUnit(q)') /\ (HoldsQ(q)' <=> reserved' = q)
      BY <1>1, <1>4, <2>1, <3>1, QuotaAssumption
    <3>. QED
      BY <3>4, <3>5, CallByCallNext
  <2>. QED
    BY <2>2, <2>3
<1>9. CASE WriteBusy(w)
  <2>1. ~HoldsW(w) /\ verbs'[w] = None /\ UNCHANGED <<compiles, users, reserved>>
    BY <1>2, <1>9 DEF WriteBusy, VerbAt, HoldsW
  <2>. QED
    BY <1>5, <2>1 DEF HoldsW, VerbAt, RowStays
<1>10. CASE VerbWaits(w)
  <2>1. /\ v \in Verb /\ HoldsW(w) /\ v.at = "commit"
        /\ verbs'[w] = [v EXCEPT !.at = "pending"]
        /\ UNCHANGED <<compiles, users, reserved>>
    BY <1>2, <1>10 DEF VerbWaits, VerbAt, HoldsW
  <2>2. v.op = "set_quota" => Named(v.login) # {}
    BY <1>1, <2>1, NotNone DEF RowStays
  <2>3. HoldsW(w)' /\ RowStays(w)'
    BY <1>7, <2>1, <2>2
  <2>. QED
    BY <1>5, <2>1, <2>3
<1>11. CASE CommitVerb(w)
  <2>1. /\ verbs'[w] = None /\ reserved' = None /\ Readers \subseteq {w}
        /\ HoldsW(w)
    BY <1>2, <1>11 DEF CommitVerb, Alone, HoldsW
  <2>2. ASSUME NEW q \in Requests
        PROVE  ~InTx(q)' /\ ~HoldsQ(q)'
    BY <1>2, <2>1, QuotaAssumption DEF Readers, InTx, HoldsQ, At
  <2>3. ASSUME NEW x \in Writers
        PROVE  ~HoldsW(x)' /\ RowStays(x)'
    <3>1. CASE x = w
      BY <2>1, <3>1 DEF HoldsW, VerbAt, RowStays
    <3>2. CASE x # w
      <4>1. x \notin Readers
        BY <2>1, <3>2
      <4>2. verbs[x] # None => verbs[x].op # "delete_user" /\ verbs[x].at = "write"
        BY <4>1 DEF Readers
      <4>. QED
        BY <1>3, <3>2, <4>2 DEF HoldsW, VerbAt, RowStays
    <3>. QED
      BY <3>1, <3>2
  <2>. QED
    BY <2>1, <2>2, <2>3, CallByCallNext, QuotaAssumption
<1>12. CASE CancelVerb(w)
  <2>1. verbs'[w] = None /\ UNCHANGED <<compiles, users>>
          /\ reserved' = IF reserved = w THEN None ELSE reserved
    BY <1>2, <1>12 DEF CancelVerb, Release
  <2>2. ASSUME NEW x \in Writers
        PROVE  (HoldsW(x)' <=> reserved' = x) /\ RowStays(x)'
    <3>1. CASE x = w
      BY <2>1, <3>1, QuotaAssumption DEF HoldsW, VerbAt, RowStays
    <3>2. CASE x # w
      BY <1>1, <1>3, <2>1, <3>2, StillVerb, QuotaAssumption
    <3>. QED
      BY <3>1, <3>2
  <2>3. ASSUME NEW q \in Requests
        PROVE  (InTx(q)' => HasUnit(q)') /\ (HoldsQ(q)' <=> reserved' = q)
    BY <1>1, <1>4, <2>1, QuotaAssumption
  <2>. QED
    BY <2>2, <2>3, CallByCallNext
<1>. QED
  BY <1>6, <1>8, <1>9, <1>10, <1>11, <1>12 DEF VerbStep

(* Every step keeps the inductive invariant.                               *)
LEMMA StepInv == Inv /\ [Next]_vars => Inv'
<1>. SUFFICES ASSUME Inv, [Next]_vars PROVE Inv'
  OBVIOUS
<1>1. TypeOK'
  BY StepType DEF Inv
<1>2. ASSUME UNCHANGED <<users, compiles, requests, verbs, reserved>>
      PROVE  LocksHold'
  BY <1>2 DEF Inv, LocksHold, UnitLeft, OneWriter, RowsStay, At, VerbAt, Named, Count
<1>3. Midnight => LocksHold'
  BY <1>2 DEF Midnight
<1>4. UNCHANGED vars => LocksHold'
  BY <1>2 DEF vars
<1>. QED
  BY <1>1, <1>3, <1>4, GateLocks, VerbLocks DEF Next, Inv

(* The invariant holds in every state, fairness or not.                    *)
THEOREM InvHolds == Spec => []Inv
BY InitInv, StepInv, PTL DEF Spec

(* Every variable stays in its type.                                       *)
THEOREM TypeCorrect == Spec => []TypeOK
BY InvHolds, PTL DEF Inv

(* What a transaction has read stays true until it ends.                   *)
THEOREM LocksAlwaysHold == Spec => []LocksHold
BY InvHolds, PTL DEF Inv

-----------------------------------------------------------------------------
(* The transactions implement Quota.                                       *)

Abs == [q \in Requests |-> Uncounted(requests[q])]

(* A compile in its transaction is, to Quota, one that has not counted.    *)
LEMMA UncountedIs ==
  ASSUME NEW r \in Gate
  PROVE  /\ r.at \in {"limit", "day", "count"} => Uncounted(r) = r
         /\ r.at \in {"insert", "commit", "pending"} =>
              Uncounted(r) = [at |-> "count", user |-> r.user, limit |-> r.limit, day |-> r.day]
<1>1. CASE r.at \in {"limit", "day", "count"}
  BY <1>1 DEF Uncounted
<1>2. CASE r.at \in {"insert", "commit", "pending"}
  <2>1. r \in Counting /\ r # None
    BY <1>2, GateShape, NotNone
  <2>2. [r EXCEPT !.at = "count"]
          = [at |-> "count", user |-> r.user, limit |-> r.limit, day |-> r.day]
    BY <2>1 DEF Counting
  <2>. QED
    BY <1>2, <2>1, <2>2 DEF Uncounted
<1>. QED
  BY <1>1, <1>2

(* One compile moves, and the others stay where they were for Quota too.   *)
LEMMA AbsStep ==
  ASSUME TypeOK, NEW q \in Requests, NEW s, requests' = [requests EXCEPT ![q] = s]
  PROVE  /\ Abs' = [Abs EXCEPT ![q] = Uncounted(s)]
         /\ Abs[q] = Uncounted(requests[q])
<1>1. requests' \in [Requests -> Gate \cup {None, s}]
  BY DEF TypeOK
<1>. QED
  BY <1>1 DEF Abs, TypeOK, Uncounted

(* The initial states are Quota's.                                         *)
LEMMA AbsInit == Init => Q!Init
BY DEF Init, Q!Init, Uncounted, Q!Days, Days

(* The step of a compile is a step of Quota, or invisible to it.           *)
LEMMA GateRefines ==
  ASSUME Inv, NEW q \in Requests, Start(q) \/ GateStep(q) \/ Cancel(q)
  PROVE  Q!Next \/ UNCHANGED Q!vars
<1>. DEFINE r == requests[q]
<1>1. /\ r # None => r \in Gate
      /\ InTx(q) \/ At(q, "count") => r \in Counting
  BY GateShape DEF Inv, TypeOK, InTx, At
<1>2. ASSUME NEW s, requests' = [requests EXCEPT ![q] = s]
      PROVE  Abs' = [Abs EXCEPT ![q] = Uncounted(s)] /\ Abs[q] = Uncounted(r)
  BY <1>2, AbsStep DEF Inv
<1>3. Uncounted(None) = None
  BY DEF Uncounted
<1>4. CASE Start(q)
  <2>1. PICK u \in Users : users[u] # None
          /\ requests' = [requests EXCEPT ![q] = [at |-> "limit", user |-> u]]
    BY <1>4 DEF Start
  <2>2. [at |-> "limit", user |-> u] \in Gate
    BY DEF Gate
  <2>3. Uncounted([at |-> "limit", user |-> u]) = [at |-> "limit", user |-> u]
    BY <2>2, UncountedIs
  <2>5. Abs' = [Abs EXCEPT ![q] = [at |-> "limit", user |-> u]] /\ Abs[q] = None
    BY <1>2, <1>3, <1>4, <2>1, <2>3 DEF Start
  <2>4. Q!Start(q)
    BY <1>4, <2>1, <2>5 DEF Start, Q!Start, Abs
  <2>. QED
    BY <2>4 DEF Q!Next
<1>5. CASE ReadLimit(q)
  <2>1. r \in Gate /\ r.at = "limit" /\ r # None /\ r.user \in Users
    BY <1>1, <1>5, GateShape DEF ReadLimit, At
  <2>2. Uncounted(r) = r
    BY <2>1, UncountedIs
  <2>3. PICK limit \in {EffectiveQuota(r.user), quotaPerDay} :
          requests' = [requests EXCEPT ![q] = [at |-> "day", user |-> r.user, limit |-> limit]]
    BY <1>5 DEF ReadLimit
  <2>. DEFINE s == [at |-> "day", user |-> r.user, limit |-> limit]
  <2>4. Uncounted(s) = s
    BY DEF Uncounted
  <2>5. Q!EffectiveQuota(r.user) = EffectiveQuota(r.user)
    BY DEF Q!EffectiveQuota, EffectiveQuota
  <2>6. Abs' = [Abs EXCEPT ![q] = s] /\ Abs[q] = r
    BY <1>2, <2>2, <2>3, <2>4
  <2>7. Q!ReadLimit(q)
    BY <1>5, <2>1, <2>5, <2>6 DEF ReadLimit, Q!ReadLimit, Q!At, Abs
  <2>. QED
    BY <2>7 DEF Q!Next
<1>6. CASE StampDay(q)
  <2>1. r \in Gate /\ r.at = "day" /\ r # None
    BY <1>1, <1>6 DEF StampDay, At
  <2>2. Uncounted(r) = r
    BY <2>1, UncountedIs
  <2>. DEFINE s == IF r.limit <= 0 THEN None
                   ELSE [at |-> "count", user |-> r.user, limit |-> r.limit, day |-> day]
  <2>3. requests' = [requests EXCEPT ![q] = s]
    BY <1>6 DEF StampDay, UtcDate
  <2>4. Uncounted(s) = s
    BY DEF Uncounted
  <2>5. Abs' = [Abs EXCEPT ![q] = s] /\ Abs[q] = r
    BY <1>2, <2>2, <2>3, <2>4
  <2>6. Q!StampDay(q)
    BY <1>6, <2>1, <2>5 DEF StampDay, Q!StampDay, Q!At, Abs
  <2>. QED
    BY <2>6 DEF Q!Next
<1>7. ASSUME At(q, "count") \/ InTx(q),
             requests' = [requests EXCEPT ![q] = None], UNCHANGED <<day, users, compiles>>
      PROVE  Q!Next
  <2>1. r \in Counting /\ r \in Gate /\ r # None
    BY <1>1, <1>7 DEF At, InTx
  <2>2. Uncounted(r).at = "count" /\ Uncounted(r) # None
    <3>1. CASE r.at = "count"
      BY <2>1, <3>1, UncountedIs
    <3>2. CASE r.at \in {"insert", "commit", "pending"}
      <4>1. Uncounted(r) = [at |-> "count", user |-> r.user, limit |-> r.limit, day |-> r.day]
        BY <2>1, <3>2, UncountedIs
      <4>2. Uncounted(r) \in Gate
        BY <2>1, <4>1 DEF Counting, Gate
      <4>. QED
        BY <4>1, <4>2, NotNone
    <3>. QED
      BY <2>1, <3>1, <3>2 DEF Counting
  <2>3. Abs' = [Abs EXCEPT ![q] = None] /\ Abs[q] = Uncounted(r)
    BY <1>2, <1>3, <1>7
  <2>4. Q!Refuse(q)
    BY <1>7, <2>2, <2>3 DEF Q!Refuse, Q!At, Abs
  <2>. QED
    BY <2>4 DEF Q!Next
<1>8. ASSUME NEW at \in {"insert", "commit", "pending"}, At(q, "count") \/ InTx(q),
             requests' = [requests EXCEPT ![q] = [r EXCEPT !.at = at]],
             UNCHANGED <<day, users, compiles>>
      PROVE  UNCHANGED Q!vars
  <2>. DEFINE s == [r EXCEPT !.at = at]
              c == [at |-> "count", user |-> r.user, limit |-> r.limit, day |-> r.day]
  <2>1. r \in Counting /\ r \in Gate
    BY <1>1, <1>8 DEF At, InTx
  <2>2. s \in Gate /\ s.at = at /\ s.user = r.user /\ s.limit = r.limit /\ s.day = r.day
    <3>1. at \in {"count", "insert", "commit", "pending"}
      OBVIOUS
    <3>. QED
      BY <2>1, <3>1, CountingExcept
  <2>3. Uncounted(s) = c
    BY <2>2, UncountedIs
  <2>4. Uncounted(r) = c
    <3>1. CASE r.at = "count"
      <4>1. r = c
        BY <2>1, <3>1 DEF Counting
      <4>. QED
        BY <2>1, <3>1, <4>1, UncountedIs
    <3>2. CASE r.at \in {"insert", "commit", "pending"}
      BY <2>1, <3>2, UncountedIs
    <3>. QED
      BY <2>1, <3>1, <3>2 DEF Counting
  <2>5. Abs' = [Abs EXCEPT ![q] = Abs[q]]
    BY <1>2, <1>8, <2>3, <2>4
  <2>6. Abs' = Abs
    BY <2>5 DEF Abs
  <2>. QED
    BY <1>8, <2>6 DEF Q!vars, Abs
<1>9. CASE ReadCount(q)
  BY <1>7, <1>8, <1>9 DEF ReadCount
<1>10. CASE ReadTimesOut(q)
  BY <1>7, <1>10 DEF ReadTimesOut
<1>11. CASE Insert(q)
  <2>1. r \in Counting /\ InTx(q)
    BY <1>1, <1>11 DEF Insert, InTx
  <2>. QED
    BY <1>7, <1>8, <1>11, <2>1 DEF Insert
<1>12. CASE WaitForReaders(q)
  <2>1. InTx(q)
    BY <1>12 DEF WaitForReaders, InTx
  <2>. QED
    BY <1>8, <1>12, <2>1 DEF WaitForReaders
<1>13. CASE Commit(q)
  <2>1. InTx(q) /\ HasUnit(q)
    BY <1>13, CallByCall DEF Commit, InTx, Inv
  <2>2. r \in Counting /\ r \in Gate /\ r.at \in {"insert", "commit", "pending"}
    BY <1>1, <2>1 DEF InTx, At
  <2>. DEFINE c == [at |-> "count", user |-> r.user, limit |-> r.limit, day |-> r.day]
  <2>3. Uncounted(r) = c
    BY <2>2, UncountedIs
  <2>4. c \in Gate /\ c # None
    BY <2>2, NotNone DEF Counting, Gate
  <2>5. Abs' = [Abs EXCEPT ![q] = None] /\ Abs[q] = c
    BY <1>2, <1>3, <1>13, <2>3 DEF Commit
  <2>6. Abs[q] # None /\ Abs[q].at = "count"
        /\ Abs[q].user = r.user /\ Abs[q].limit = r.limit /\ Abs[q].day = r.day
    BY <2>4, <2>5
  <2>7. compiles[Abs[q].user][Abs[q].day] < Abs[q].limit
    BY <2>1, <2>6 DEF HasUnit, Count
  <2>9. compiles' = [compiles EXCEPT ![r.user] = [@ EXCEPT ![r.day] = compiles[r.user][r.day] + 1]]
    BY <1>13 DEF Commit
  <2>10. compiles' = [compiles EXCEPT ![Abs[q].user][Abs[q].day] = @ + 1]
    BY <2>6, <2>9
  <2>11. UNCHANGED <<day, users>>
    BY <1>13 DEF Commit
  <2>8. Q!Increment(q)
    BY <2>5, <2>6, <2>7, <2>10, <2>11 DEF Q!Increment, Q!At, Abs
  <2>. QED
    BY <2>8 DEF Q!Next
<1>14. CASE Cancel(q)
  BY <1>7, <1>14 DEF Cancel, InTx
<1>. QED
  BY <1>4, <1>5, <1>6, <1>9, <1>10, <1>11, <1>12, <1>13, <1>14 DEF GateStep

(* A counter is cleared of a day that has come.                            *)
DaysCome == \A w \in Writers :
  verbs[w] # None /\ verbs[w].op = "reset_today" => verbs[w].day \in 0 .. day

(* Asking names today, and later days only add to those that have come.    *)
LEMMA DaysStayCome == TypeOK /\ DaysCome /\ [Next]_vars => DaysCome'
<1>. SUFFICES ASSUME TypeOK, DaysCome, [Next]_vars PROVE DaysCome'
  OBVIOUS
<1>1. day \in Nat /\ day' \in Nat /\ day <= day'
  <2>1. CASE Midnight
    BY <2>1, Naturals DEF Midnight, TypeOK
  <2>2. CASE UNCHANGED day
    BY <2>2, Naturals DEF TypeOK
  <2>. QED
    BY <2>1, <2>2 DEF Next, vars, Start, GateStep, Cancel, ReadLimit, StampDay, ReadCount,
         ReadTimesOut, Insert, WaitForReaders, Commit, BeginVerb, VerbStep, CancelVerb,
         WriteVerb, WriteBusy, VerbWaits, CommitVerb
<1>2. SUFFICES ASSUME NEW w \in Writers, verbs'[w] # None, verbs'[w].op = "reset_today"
               PROVE  verbs'[w].day \in 0 .. day'
  BY DEF DaysCome
<1>3. ASSUME verbs'[w] = verbs[w] PROVE verbs'[w].day \in 0 .. day'
  BY <1>1, <1>2, <1>3 DEF DaysCome
<1>4. ASSUME NEW at \in Phase, verbs[w] \in Verb, verbs[w] # None,
             verbs'[w] = [verbs[w] EXCEPT !.at = at]
      PROVE  verbs'[w].day \in 0 .. day'
  <2>1. verbs[w].op = "reset_today"
    BY <1>2, <1>4, VerbExcept
  <2>2. verbs'[w].day = verbs[w].day
    BY <1>4, <2>1 DEF Verb
  <2>. QED
    BY <1>1, <1>4, <2>1, <2>2 DEF DaysCome
<1>5. ASSUME BeginVerb(w) PROVE verbs'[w].day \in 0 .. day'
  BY <1>1, <1>2, <1>5 DEF BeginVerb, TypeOK
<1>6. ASSUME WriteVerb(w) \/ VerbWaits(w) PROVE verbs'[w].day \in 0 .. day'
  <2>1. verbs[w] \in Verb /\ verbs[w] # None
    BY <1>6 DEF TypeOK, WriteVerb, VerbWaits, VerbAt
  <2>2. verbs'[w] = [verbs[w] EXCEPT !.at = "commit"] \/ verbs'[w] = [verbs[w] EXCEPT !.at = "pending"]
    BY <1>2, <1>6, <2>1 DEF TypeOK, WriteVerb, VerbWaits
  <2>. QED
    BY <1>4, <2>1, <2>2 DEF Phase
<1>7. ASSUME WriteBusy(w) \/ CommitVerb(w) \/ CancelVerb(w) PROVE verbs'[w] = None
  BY <1>7 DEF TypeOK, WriteBusy, CommitVerb, CancelVerb
<1>8. ASSUME NEW x \in Writers \ {w}, BeginVerb(x) \/ VerbStep(x) \/ CancelVerb(x)
      PROVE  verbs'[w] = verbs[w]
  BY <1>8 DEF TypeOK, BeginVerb, VerbStep, CancelVerb, WriteVerb, WriteBusy, VerbWaits, CommitVerb
<1>9. ASSUME NEW q \in Requests, Start(q) \/ GateStep(q) \/ Cancel(q)
      PROVE  verbs' = verbs
  BY <1>9 DEF Start, GateStep, Cancel, ReadLimit, StampDay, ReadCount,
         ReadTimesOut, Insert, WaitForReaders, Commit
<1>10. Midnight \/ UNCHANGED vars => verbs' = verbs
  BY DEF Midnight, vars
<1>11. CASE \E x \in Writers : BeginVerb(x) \/ VerbStep(x) \/ CancelVerb(x)
  <2>1. PICK x \in Writers : BeginVerb(x) \/ VerbStep(x) \/ CancelVerb(x)
    BY <1>11
  <2>2. CASE x = w
    BY <1>2, <1>5, <1>6, <1>7, <2>1, <2>2 DEF VerbStep
  <2>. QED
    BY <1>3, <1>8, <2>1, <2>2
<1>. QED
  BY <1>3, <1>9, <1>10, <1>11 DEF Next

(* A verb's commit is a step of Quota, and its other steps are invisible.  *)
LEMMA VerbRefines ==
  ASSUME Inv, DaysCome, NEW w \in Writers, BeginVerb(w) \/ VerbStep(w) \/ CancelVerb(w)
  PROVE  Q!Next \/ UNCHANGED Q!vars
<1>. DEFINE v == verbs[w]
<1>1. UNCHANGED <<day, requests>>
  BY DEF BeginVerb, VerbStep, WriteVerb, WriteBusy, VerbWaits, CommitVerb, CancelVerb
<1>2. Abs' = Abs
  BY <1>1 DEF Abs
<1>3. CASE UNCHANGED <<users, compiles>>
  BY <1>1, <1>2, <1>3 DEF Q!vars, Abs
<1>4. CASE CommitVerb(w)
  <2>1. /\ v \in Verb /\ v # None /\ v.at # "write"
        /\ users' = UsersAfter(v) /\ compiles' = CompilesAfter(v)
    BY <1>4 DEF CommitVerb, VerbAt, Inv, TypeOK
  <2>2. RowStays(w)
    BY CallByCall DEF Inv
  <2>3. CASE v.op = "sign_in"
    <3>1. v.user \in Users /\ v.login \in Logins
      BY <2>1, <2>3 DEF Verb
    <3>2. users' = [users EXCEPT ![v.user] =
            [login |-> v.login, quota |-> IF users[v.user] = None THEN None ELSE users[v.user].quota]]
      BY <2>1, <2>3 DEF UsersAfter
    <3>3. compiles' = compiles
      BY <2>1, <2>3 DEF CompilesAfter
    <3>4. Q!UpsertGitHubUser
      BY <1>1, <1>2, <3>1, <3>2, <3>3 DEF Q!UpsertGitHubUser, Abs
    <3>. QED
      BY <3>4 DEF Q!Next
  <2>4. CASE v.op = "set_quota"
    <3>1. v.login \in Logins /\ v.quota \in Overrides \cup {None}
      BY <2>1, <2>4 DEF Verb
    <3>2. users' = [u \in Users |->
            IF u \in Named(v.login) THEN [login |-> v.login, quota |-> v.quota] ELSE users[u]]
      BY <2>1, <2>4 DEF UsersAfter
    <3>3. compiles' = compiles /\ Named(v.login) # {}
      BY <2>1, <2>2, <2>4 DEF CompilesAfter, RowStays
    <3>4. Q!SetQuota
      BY <1>1, <1>2, <3>1, <3>2, <3>3 DEF Q!SetQuota, Q!Named, Named, Abs
    <3>. QED
      BY <3>4 DEF Q!Next
  <2>5. CASE v.op = "reset_today"
    <3>1. v.user \in Users /\ v.day \in 0 .. day
      BY <2>1, <2>5 DEF Verb, DaysCome
    <3>2. users' = users /\ compiles' = [compiles EXCEPT ![v.user][v.day] = 0]
      BY <2>1, <2>5 DEF UsersAfter, CompilesAfter
    <3>3. Q!ResetTodayCompiles
      BY <1>1, <1>2, <3>1, <3>2 DEF Q!ResetTodayCompiles, Abs
    <3>. QED
      BY <3>3 DEF Q!Next
  <2>6. CASE v.op = "delete_user"
    <3>1. v.login \in Logins /\ v.user \in Named(v.login)
      BY <2>1, <2>2, <2>6 DEF Verb, RowStays
    <3>2. users' = [u \in Users |-> IF u \in Named(v.login) THEN None ELSE users[u]]
      BY <2>1, <2>6 DEF UsersAfter
    <3>3. compiles' = [compiles EXCEPT ![v.user] = [d \in Days |-> 0]]
      BY <2>1, <2>6 DEF CompilesAfter
    <3>4. Q!DeleteUser
      BY <1>1, <1>2, <3>1, <3>2, <3>3 DEF Q!DeleteUser, Q!Named, Named, Q!Days, Days, Abs
    <3>. QED
      BY <3>4 DEF Q!Next
  <2>. QED
    BY <2>1, <2>3, <2>4, <2>5, <2>6 DEF Verb
<1>. QED
  BY <1>3, <1>4 DEF BeginVerb, VerbStep, WriteVerb, WriteBusy, VerbWaits, CancelVerb

(* Every step is a step of Quota, or invisible to it.                      *)
LEMMA StepRefines == Inv /\ DaysCome /\ [Next]_vars => [Q!Next]_(Q!vars)
<1>. SUFFICES ASSUME Inv, DaysCome, [Next]_vars PROVE Q!Next \/ UNCHANGED Q!vars
  OBVIOUS
<1>1. CASE Midnight
  <2>1. Abs' = Abs
    BY <1>1 DEF Midnight, Abs
  <2>2. Q!Midnight
    BY <1>1, <2>1 DEF Midnight, Q!Midnight, Abs
  <2>. QED
    BY <2>2 DEF Q!Next
<1>2. CASE UNCHANGED vars
  <2>1. Abs' = Abs
    BY <1>2 DEF vars, Abs
  <2>. QED
    BY <1>2, <2>1 DEF vars, Q!vars, Abs
<1>. QED
  BY <1>1, <1>2, GateRefines, VerbRefines DEF Next

(* SQLite's transactions, deferred or not, interleave to what one-step     *)
(* calls would do: no unit is taken twice and none is lost.                *)
THEOREM TransactionsImplementQuota == Spec => ImplementsQuota
<1>1. Init => DaysCome
  BY DEF Init, DaysCome
<1>2. Inv => TypeOK
  BY DEF Inv
<1>. QED
  BY <1>1, <1>2, InvHolds, AbsInit, DaysStayCome, StepRefines, PTL DEF Spec, ImplementsQuota, Q!Spec

-----------------------------------------------------------------------------
(* A unit is taken below the limit.                                        *)

(* No verb makes a counter grow.                                           *)
LEMMA VerbsNeverCount ==
  ASSUME TypeOK, NEW v \in Verb, NEW u \in Users, NEW d \in Days
  PROVE  ~(CompilesAfter(v)[u][d] > compiles[u][d])
<1>1. compiles \in [Users -> [Days -> Nat]] /\ compiles[u][d] \in Nat
  BY DEF TypeOK
<1>2. CASE v.op = "reset_today"
  <2>1. CompilesAfter(v) = [compiles EXCEPT ![v.user][v.day] = 0]
    BY <1>2 DEF CompilesAfter
  <2>2. CompilesAfter(v)[u][d] \in {0, compiles[u][d]}
    BY <1>1, <2>1
  <2>. QED
    BY <1>1, <2>2
<1>3. CASE v.op = "delete_user"
  <2>1. CompilesAfter(v) = [compiles EXCEPT ![v.user] = [e \in Days |-> 0]]
    BY <1>3 DEF CompilesAfter
  <2>2. CompilesAfter(v)[u][d] \in {0, compiles[u][d]}
    BY <1>1, <2>1
  <2>. QED
    BY <1>1, <2>2
<1>. QED
  BY <1>1, <1>2, <1>3 DEF CompilesAfter

(* A step that makes a counter grow is the commit of a compile.            *)
LEMMA CountedByCommit ==
  ASSUME Inv, [Next]_vars, NEW u \in Users, NEW d \in Days, compiles'[u][d] > compiles[u][d]
  PROVE  \E q \in Requests : Commit(q)
<1>1. compiles[u][d] \in Nat
  BY DEF Inv, TypeOK
<1>2. ~UNCHANGED compiles
  BY <1>1
<1>3. ASSUME NEW w \in Writers PROVE ~CommitVerb(w)
  <2>1. SUFFICES ASSUME CommitVerb(w) PROVE FALSE
    OBVIOUS
  <2>2. verbs[w] \in Verb /\ compiles' = CompilesAfter(verbs[w])
    BY <2>1 DEF CommitVerb, VerbAt, Inv, TypeOK
  <2>. QED
    BY <2>2, VerbsNeverCount DEF Inv
<1>. QED
  BY <1>2, <1>3 DEF Next, vars, Start, GateStep, Cancel, ReadLimit, StampDay, ReadCount,
       ReadTimesOut, Insert, WaitForReaders, BeginVerb, VerbStep, CancelVerb, WriteVerb,
       WriteBusy, VerbWaits, Midnight

(* However compiles interleave, a counter never passes the limit that the  *)
(* compile which takes its unit has read.                                  *)
THEOREM AdmissionBounded == Spec => AdmittedWithinLimit
<1>1. ASSUME Inv, [Next]_vars, NEW u \in Users, NEW d \in Days, compiles'[u][d] > compiles[u][d]
      PROVE  \E q \in Requests :
               /\ At(q, "commit") \/ At(q, "pending")
               /\ requests[q].user = u /\ requests[q].day = d
               /\ compiles'[u][d] = compiles[u][d] + 1
               /\ compiles'[u][d] <= requests[q].limit
  <2>1. PICK q \in Requests : Commit(q)
    BY <1>1, CountedByCommit
  <2>. DEFINE r == requests[q]
  <2>2. InTx(q) /\ HasUnit(q)
    BY <1>1, <2>1, CallByCall DEF Commit, InTx, Inv
  <2>3. r \in Counting /\ r.limit \in Nat
    BY <1>1, <2>2, GateShape, Naturals DEF Inv, TypeOK, InTx, At, Counting
  <2>4. compiles \in [Users -> [Days -> Nat]] /\ compiles[u][d] \in Nat
    BY <1>1 DEF Inv, TypeOK
  <2>5. compiles' = [compiles EXCEPT ![r.user] = [@ EXCEPT ![r.day] = compiles[r.user][r.day] + 1]]
    BY <2>1 DEF Commit
  <2>6. r.user = u /\ r.day = d
    BY <1>1, <2>4, <2>5
  <2>7. compiles'[u][d] = compiles[u][d] + 1
    BY <2>4, <2>5, <2>6
  <2>8. compiles[u][d] < r.limit
    BY <2>2, <2>6 DEF HasUnit, Count
  <2>9. At(q, "commit") \/ At(q, "pending")
    BY <2>1 DEF Commit
  <2>. QED
    BY <2>3, <2>4, <2>6, <2>7, <2>8, <2>9
<1>2. Inv /\ [Next]_vars =>
        [\A u \in Users, d \in Days : compiles'[u][d] > compiles[u][d] =>
           \E q \in Requests :
             /\ At(q, "commit") \/ At(q, "pending")
             /\ requests[q].user = u /\ requests[q].day = d
             /\ compiles'[u][d] = compiles[u][d] + 1
             /\ compiles'[u][d] <= requests[q].limit]_vars
  BY <1>1
<1>. QED
  BY <1>2, InvHolds, PTL DEF Spec, AdmittedWithinLimit
=============================================================================
