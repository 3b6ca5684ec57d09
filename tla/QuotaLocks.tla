------------------------------ MODULE QuotaLocks ------------------------------
(***************************************************************************)
(* The compile quota as the code takes it: IncrementCompile reads the      *)
(* count and then writes it in a deferred transaction, and the             *)
(* administrator's verbs and a sign-in are transactions of their own, on   *)
(* one SQLite database in rollback-journal mode with a busy timeout, which *)
(* is what Open asks for.                                                  *)
(*                                                                         *)
(* The locks are SQLite's.  A read takes SHARED, which a transaction keeps *)
(* to its end.  The first write takes RESERVED, which one transaction can  *)
(* hold; a transaction that has read does not wait for it but fails at     *)
(* once.  A commit needs every other SHARED lock gone, and while it waits  *)
(* no new one is given (PENDING).  A statement that waits may time out.    *)
(***************************************************************************)
EXTENDS Integers

CONSTANTS
  Users, Logins, Requests, Overrides, quotaPerDay, MaxDay, None,
  Writers     \* connections on which a verb or a sign-in may run

Limits == Overrides \cup {quotaPerDay}
Days   == 0 .. MaxDay
Row    == [login : Logins, quota : Overrides \cup {None}]

VARIABLES
  day, users, compiles,
  requests,   \* compile calls; from "insert" on inside IncrementCompile's transaction
  verbs,      \* the transactions of administrators and sign-ins
  reserved    \* the transaction that holds RESERVED

vars == <<day, users, compiles, requests, verbs, reserved>>

Gate == [at : {"limit"}, user : Users]
          \cup [at : {"day"}, user : Users, limit : Limits]
          \cup [at : {"count", "insert", "commit", "pending"},
                user : Users, limit : Limits, day : Days]

Phase == {"write", "commit", "pending"}
Verb  == [op : {"sign_in"}, at : Phase, user : Users, login : Logins]
           \cup [op : {"set_quota"}, at : Phase, login : Logins, quota : Overrides \cup {None}]
           \cup [op : {"reset_today"}, at : Phase, user : Users, day : Days]
           \cup [op : {"delete_user"}, at : Phase, user : Users, login : Logins]

ASSUME QuotaAssumption ==
  /\ Overrides \subseteq Nat /\ quotaPerDay \in Nat
  /\ MaxDay \in Nat
  /\ None \notin Overrides \cup Row \cup Gate \cup Verb
  /\ None \notin Requests \cup Writers
  /\ Requests \cap Writers = {}

TypeOK ==
  /\ day \in Days
  /\ users \in [Users -> Row \cup {None}]
  /\ compiles \in [Users -> [Days -> Nat]]
  /\ requests \in [Requests -> Gate \cup {None}]
  /\ verbs \in [Writers -> Verb \cup {None}]
  /\ reserved \in Requests \cup Writers \cup {None}

Init ==
  /\ day = 0
  /\ users = [u \in Users |-> None]
  /\ compiles = [u \in Users |-> [d \in Days |-> 0]]
  /\ requests = [q \in Requests |-> None]
  /\ verbs = [w \in Writers |-> None]
  /\ reserved = None

At(q, at)     == requests[q] # None /\ requests[q].at = at
VerbAt(w, at) == verbs[w] # None /\ verbs[w].at = at
Named(l)      == {u \in Users : users[u] # None /\ users[u].login = l}

(* Who holds SHARED: a compile that has read its count, DeleteUser once it *)
(* has read the row, and everyone who holds more.                          *)
Readers ==
  {q \in Requests : At(q, "insert") \/ At(q, "commit") \/ At(q, "pending")}
    \cup {w \in Writers : verbs[w] # None /\ (verbs[w].op = "delete_user" \/ verbs[w].at # "write")}
Pending == (\E q \in Requests : At(q, "pending")) \/ (\E w \in Writers : VerbAt(w, "pending"))
Alone(t) == Readers \subseteq {t}

-----------------------------------------------------------------------------
(* A compile at the gate: handleCompileTypst and IncrementCompile.         *)

Start(q) ==
  /\ requests[q] = None
  /\ \E u \in Users :
       /\ users[u] # None
       /\ requests' = [requests EXCEPT ![q] = [at |-> "limit", user |-> u]]
  /\ UNCHANGED <<day, users, compiles, verbs, reserved>>

EffectiveQuota(u) ==
  IF users[u] = None THEN quotaPerDay
  ELSE IF users[u].quota = None THEN quotaPerDay ELSE users[u].quota

(* A read that fails leaves the default.                                   *)
ReadLimit(q) ==
  /\ At(q, "limit")
  /\ \E limit \in {EffectiveQuota(requests[q].user), quotaPerDay} :
       requests' = [requests EXCEPT ![q] =
         [at |-> "day", user |-> requests[q].user, limit |-> limit]]
  /\ UNCHANGED <<day, users, compiles, verbs, reserved>>

UtcDate == day
StampDay(q) ==
  /\ At(q, "day")
  /\ requests' = [requests EXCEPT ![q] =
       IF requests[q].limit <= 0 THEN None
       ELSE [at |-> "count", user |-> requests[q].user, limit |-> requests[q].limit, day |-> UtcDate]]
  /\ UNCHANGED <<day, users, compiles, verbs, reserved>>

Count(q) == compiles[requests[q].user][requests[q].day]

OneMore(q) == Count(q) > requests[q].limit \* mutant
Spent(q)   == Count(q) >= requests[q].limit

(* SELECT count: the quota is spent, or the transaction now holds SHARED.  *)
ReadCount(q) ==
  /\ At(q, "count") /\ ~Pending
  /\ requests' = [requests EXCEPT ![q] =
       IF Spent(q) THEN None ELSE [requests[q] EXCEPT !.at = "insert"]]
  /\ UNCHANGED <<day, users, compiles, verbs, reserved>>

ReadTimesOut(q) ==
  /\ At(q, "count") /\ Pending
  /\ requests' = [requests EXCEPT ![q] = None]
  /\ UNCHANGED <<day, users, compiles, verbs, reserved>>

Patient(q) == \* mutant: a reader waits for RESERVED
  /\ At(q, "insert") /\ reserved = None
  /\ reserved' = q
  /\ requests' = [requests EXCEPT ![q].at = "commit"]
  /\ UNCHANGED <<day, users, compiles, verbs>>

(* The upsert: RESERVED, or SQLITE_BUSY at once and a rollback.            *)
Insert(q) ==
  /\ At(q, "insert")
  /\ IF reserved = None
     THEN /\ reserved' = q
          /\ requests' = [requests EXCEPT ![q].at = "commit"]
     ELSE /\ requests' = [requests EXCEPT ![q] = None]
          /\ UNCHANGED reserved
  /\ UNCHANGED <<day, users, compiles, verbs>>

WaitForReaders(q) ==
  /\ At(q, "commit") /\ ~Alone(q)
  /\ requests' = [requests EXCEPT ![q].at = "pending"]
  /\ UNCHANGED <<day, users, compiles, verbs, reserved>>

Commit(q) ==
  /\ At(q, "commit") \/ At(q, "pending")
  /\ Alone(q)
  /\ compiles' = [compiles EXCEPT ![requests[q].user][requests[q].day] = @ + 1]
  /\ requests' = [requests EXCEPT ![q] = None]
  /\ reserved' = None
  /\ UNCHANGED <<day, users, verbs>>

(* The client goes away, or the server stops: a rollback.                  *)
Release(t) == reserved' = IF reserved = t THEN None ELSE reserved
Cancel(q) ==
  /\ At(q, "insert") \/ At(q, "commit") \/ At(q, "pending")
  /\ requests' = [requests EXCEPT ![q] = None]
  /\ Release(q)
  /\ UNCHANGED <<day, users, compiles, verbs>>

-----------------------------------------------------------------------------
(* Administrators' verbs and sign-ins.                                     *)

(* The form of a quota: inherit the default, unlimited or a number a day.  *)
Quotas == Overrides \cup {None}

(* DeleteUser starts by reading one of the rows with the login; the others *)
(* start by writing.  reset_today names the day on which it was asked for. *)
BeginVerb(w) ==
  /\ verbs[w] = None
  /\ \/ \E u \in Users, l \in Logins :
          verbs' = [verbs EXCEPT ![w] = [op |-> "sign_in", at |-> "write", user |-> u, login |-> l]]
     \/ \E l \in Logins, n \in Quotas :
          verbs' = [verbs EXCEPT ![w] =
            [op |-> "set_quota", at |-> "write", login |-> l, quota |-> n]]
     \/ \E u \in Users :
          verbs' = [verbs EXCEPT ![w] =
            [op |-> "reset_today", at |-> "write", user |-> u, day |-> day]]
     \/ /\ ~Pending
        /\ \E l \in Logins : \E u \in Named(l) :
             verbs' = [verbs EXCEPT ![w] =
               [op |-> "delete_user", at |-> "write", user |-> u, login |-> l]]
  /\ UNCHANGED <<day, users, compiles, requests, reserved>>

(* Nobody has signed in under the login: ErrNoSuchUser, and a rollback.    *)
NeverMissing(w) == FALSE \* mutant: RowsAffected is not looked at
NoSuchUser(w)   == verbs[w].op = "set_quota" /\ Named(verbs[w].login) = {}

WriteVerb(w) ==
  /\ VerbAt(w, "write")
  /\ reserved = None /\ (verbs[w].op = "delete_user" \/ ~Pending)
  /\ IF NoSuchUser(w)
     THEN verbs' = [verbs EXCEPT ![w] = None] /\ UNCHANGED reserved
     ELSE verbs' = [verbs EXCEPT ![w].at = "commit"] /\ reserved' = w
  /\ UNCHANGED <<day, users, compiles, requests>>

(* Another transaction holds RESERVED: DeleteUser has read and fails at    *)
(* once, the others wait and time out.                                     *)
WriteBusy(w) ==
  /\ VerbAt(w, "write") /\ reserved # None
  /\ verbs' = [verbs EXCEPT ![w] = None]
  /\ UNCHANGED <<day, users, compiles, requests, reserved>>

VerbWaits(w) ==
  /\ VerbAt(w, "commit") /\ ~Alone(w)
  /\ verbs' = [verbs EXCEPT ![w].at = "pending"]
  /\ UNCHANGED <<day, users, compiles, requests, reserved>>

UsersAfter(v) ==
  CASE v.op = "sign_in" ->
         [users EXCEPT ![v.user] =
           [login |-> v.login, quota |-> IF users[v.user] = None THEN None ELSE users[v.user].quota]]
    [] v.op = "set_quota" ->
         [u \in Users |->
           IF u \in Named(v.login) THEN [login |-> v.login, quota |-> v.quota] ELSE users[u]]
    [] v.op = "delete_user" ->
         [u \in Users |-> IF u \in Named(v.login) THEN None ELSE users[u]]
    [] OTHER -> users
CountersStay(v) == \* mutant: DeleteUser forgets the counters
  IF v.op = "reset_today" THEN [compiles EXCEPT ![v.user][v.day] = 0] ELSE compiles
CompilesAfter(v) ==
  CASE v.op = "reset_today" -> [compiles EXCEPT ![v.user][v.day] = 0]
    [] v.op = "delete_user" -> [compiles EXCEPT ![v.user] = [d \in Days |-> 0]]
    [] OTHER -> compiles

CommitVerb(w) ==
  /\ VerbAt(w, "commit") \/ VerbAt(w, "pending")
  /\ Alone(w)
  /\ users' = UsersAfter(verbs[w])
  /\ compiles' = CompilesAfter(verbs[w])
  /\ verbs' = [verbs EXCEPT ![w] = None]
  /\ reserved' = None
  /\ UNCHANGED <<day, requests>>

CancelVerb(w) ==
  /\ verbs[w] # None
  /\ verbs' = [verbs EXCEPT ![w] = None]
  /\ Release(w)
  /\ UNCHANGED <<day, users, compiles, requests>>

Midnight ==
  /\ day < MaxDay /\ day' = day + 1
  /\ UNCHANGED <<users, compiles, requests, verbs, reserved>>

-----------------------------------------------------------------------------
GateStep(q) ==
  \/ ReadLimit(q) \/ StampDay(q) \/ ReadCount(q) \/ ReadTimesOut(q)
  \/ Insert(q) \/ WaitForReaders(q) \/ Commit(q)
VerbStep(w) == WriteVerb(w) \/ WriteBusy(w) \/ VerbWaits(w) \/ CommitVerb(w)

Next ==
  \/ \E q \in Requests : Start(q) \/ GateStep(q) \/ Cancel(q)
  \/ \E w \in Writers : BeginVerb(w) \/ VerbStep(w) \/ CancelVerb(w)
  \/ Midnight

(* A call that can go on does: the Go scheduler and SQLite's busy handler. *)
Fairness ==
  /\ \A q \in Requests : WF_vars(GateStep(q))
  /\ \A w \in Writers : WF_vars(VerbStep(w))

Spec     == Init /\ [][Next]_vars
FairSpec == Spec /\ Fairness
-----------------------------------------------------------------------------
(* Properties.                                                             *)

(* What the locks keep true under every interleaving: the count that a     *)
(* compile has read still has a unit left, RESERVED has one holder and a   *)
(* holder has written, and the row a verb has read or written under is     *)
(* still there when it commits.                                            *)
UnitLeft == \A q \in Requests :
  At(q, "insert") \/ At(q, "commit") \/ At(q, "pending") => Count(q) < requests[q].limit
OneWriter ==
  /\ \A q \in Requests : At(q, "commit") \/ At(q, "pending") <=> reserved = q
  /\ \A w \in Writers : VerbAt(w, "commit") \/ VerbAt(w, "pending") <=> reserved = w
RowsStay == \A w \in Writers : verbs[w] # None =>
  /\ verbs[w].op = "delete_user" => verbs[w].user \in Named(verbs[w].login)
  /\ verbs[w].op = "set_quota" /\ verbs[w].at # "write" => Named(verbs[w].login) # {}
LocksHold == UnitLeft /\ OneWriter /\ RowsStay

(* What the quota promises, with a transaction still to commit as a gate   *)
(* that has not counted yet: no interleaving of transactions takes a unit  *)
(* that is not there, loses one, or shows a verb half done.                *)
Uncounted(r) ==
  IF r # None /\ r.at \in {"insert", "commit", "pending"} THEN [r EXCEPT !.at = "count"] ELSE r
Q == INSTANCE Quota WITH requests <- [q \in Requests |-> Uncounted(requests[q])]
ImplementsQuota == Q!Spec

(* A counter only grows to the limit its compile read: two compiles that   *)
(* have both read the last unit do not both take it.                       *)
AdmittedWithinLimit ==
  [][\A u \in Users, d \in Days : compiles'[u][d] > compiles[u][d] =>
       \E q \in Requests :
         /\ At(q, "commit") \/ At(q, "pending")
         /\ requests[q].user = u /\ requests[q].day = d
         /\ compiles'[u][d] = compiles[u][d] + 1
         /\ compiles'[u][d] <= requests[q].limit]_vars

(* No wait for a lock lasts: of compiles and verbs that hold SHARED and    *)
(* want more, one goes through and the others fail.                        *)
CallsReturn ==
  /\ \A q \in Requests : requests[q] # None ~> requests[q] = None
  /\ \A w \in Writers : verbs[w] # None ~> verbs[w] = None
=============================================================================
