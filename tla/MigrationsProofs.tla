--------------------------- MODULE MigrationsProofs ---------------------------
(***************************************************************************)
(* Proofs about Migrations, for any pods, binaries and number of           *)
(* revisions and faults: the history of revisions stays true, and no pod   *)
(* serves a schema it does not know.                                       *)
(***************************************************************************)
EXTENDS Migrations, WellFoundedInduction, TLAPS

(* What a pod that is starting has learnt stays true until it acts on it.  *)
StepsTrue == \A p \in Pods :
  /\ At(p, "stamp") => applied[1] > 0
  /\ At(p, "apply") \/ At(p, "tx") =>
       /\ 1 .. (pods[p].next - 1) \subseteq recorded
       /\ pods[p].next = 1 => applied[1] = 0 \/ 1 \in recorded
  /\ At(p, "tx") => pods[p].next <= Latest[p]

(* Where pods do not overlap, nobody else has moved the schema meanwhile.  *)
AloneTrue == ~overlap => \A p \in Pods : pods[p] # None =>
  /\ \A o \in Pods \ {p} : pods[o] = None
  /\ At(p, "baseline") \/ At(p, "stamp") => recorded = {}
  /\ At(p, "apply") \/ At(p, "tx") =>
       recorded = 1 .. (pods[p].next - 1) /\ pods[p].next - 1 <= Latest[p]

(* The inductive invariant.                                                *)
Inv == TypeOK /\ HistoryTrue /\ ServesKnownSchema /\ StepsTrue /\ AloneTrue

-----------------------------------------------------------------------------
(* The parts of a starting pod's record.                                   *)
LEMMA StartupShape ==
  ASSUME NEW s \in Startup
  PROVE  /\ s.at \in {"read", "baseline", "stamp", "open", "apply", "tx"}
         /\ s.at \in {"apply", "tx"} => s.next \in 1 .. Newest + 1
         /\ s.at = "apply" => [s EXCEPT !.at = "tx"] = [at |-> "tx", next |-> s.next]
BY DEF Startup

(* Each phase that a step can reach is well formed.                        *)
LEMMA Phases ==
  /\ [at |-> "read"] \in Startup /\ [at |-> "baseline"] \in Startup
  /\ [at |-> "stamp"] \in Startup /\ [at |-> "open"] \in Startup
  /\ \A n \in 1 .. Newest + 1 :
       [at |-> "apply", next |-> n] \in Startup /\ [at |-> "tx", next |-> n] \in Startup
  /\ None \notin Startup
BY MigrationsAssumption DEF Startup

(* Where a pod goes on with revision n.                                    *)
LEMMA ApplyIs ==
  ASSUME NEW n \in 1 .. Newest + 1
  PROVE  /\ Apply(n) \in Startup /\ Apply(n) # None
         /\ Apply(n).at = "apply" /\ Apply(n).next = n
<1>1. Apply(n) = [at |-> "apply", next |-> n]
  BY DEF Apply
<1>2. [at |-> "apply", next |-> n] \in Startup
  BY Phases
<1>3. Apply(n) \in Startup /\ Apply(n) # None
  BY <1>1, <1>2, Phases
<1>. QED
  BY <1>1, <1>3

(* A binary's revisions are revisions.                                     *)
LEMMA Numbers ==
  /\ Newest \in Nat \ {0} /\ 1 \in Revisions
  /\ \A p \in Pods : Latest[p] \in Nat /\ Latest[p] >= 1 /\ Latest[p] <= Newest
BY MigrationsAssumption DEF Revisions

(* Every set of naturals that is not empty has a least member.             *)
LEMMA Least ==
  ASSUME NEW S \in SUBSET Nat, S # {}
  PROVE  \E m \in S : \A n \in S : m <= n
<1>. DEFINE R == OpToRel(<, Nat)
<1>1. \A x, y \in Nat : <<y, x>> \in R <=> y < x
  BY DEF OpToRel
<1>2. IsWellFoundedOn(R, Nat)
  BY NatLessThanWellFounded
<1>. HIDE DEF R
<1>3. \E x \in S : \A y \in S : ~(<<y, x>> \in R)
  BY <1>2, WFMin
<1>4. PICK x \in S : \A y \in S : ~(<<y, x>> \in R)
  BY <1>3
<1>5. ASSUME NEW y \in S PROVE x <= y
  <2>1. x \in Nat /\ y \in Nat
    OBVIOUS
  <2>2. ~(y < x)
    BY <1>1, <1>4, <2>1
  <2>. QED
    BY <2>1, <2>2
<1>. QED
  BY <1>5

(* MAX(revision), without a gap, is the number of recorded revisions.      *)
LEMMA RevisionIs ==
  ASSUME TypeOK, HistoryTrue
  PROVE  /\ SchemaRevision \in 0 .. Newest
         /\ recorded = 1 .. SchemaRevision
<1>1. CASE recorded = {}
  BY <1>1, Numbers DEF SchemaRevision
<1>2. CASE recorded # {}
  <2>. DEFINE Bounds == {n \in Nat : \A r \in recorded : r <= n}
  <2>1. recorded \subseteq 1 .. Newest
    BY DEF TypeOK, Revisions
  <2>2. Newest \in Bounds
    BY <2>1, Numbers
  <2>3. PICK m \in Bounds : \A n \in Bounds : m <= n
    <3>1. Bounds # {} /\ Bounds \in SUBSET Nat
      BY <2>2
    <3>. HIDE DEF Bounds
    <3>. QED
      BY <3>1, Least
  <2>4. m \in Nat /\ m >= 1
    <3>1. PICK r \in recorded : TRUE
      BY <1>2
    <3>2. r \in 1 .. Newest /\ m >= r /\ m \in Nat
      BY <2>1, <2>3, <3>1
    <3>. QED
      BY <3>2
  <2>5. m \in recorded
    <3>1. SUFFICES ASSUME m \notin recorded PROVE FALSE
      OBVIOUS
    <3>2. ASSUME NEW r \in recorded PROVE r <= m - 1
      BY <2>1, <2>4, <3>1, <3>2
    <3>3. m - 1 \in Bounds
      BY <2>4, <3>2
    <3>. QED
      BY <2>3, <2>4, <3>3
  <2>6. m = SchemaRevision
    <3>1. ASSUME NEW r \in recorded, \A s \in recorded : s <= r PROVE r = m
      BY <2>1, <2>4, <2>5, <3>1
    <3>. QED
      BY <1>2, <2>5, <3>1 DEF SchemaRevision
  <2>7. 1 .. m \subseteq recorded
    BY <2>5 DEF HistoryTrue
  <2>8. recorded \subseteq 1 .. m
    BY <2>1
  <2>9. m <= Newest
    BY <2>1, <2>5, Numbers
  <2>10. recorded = 1 .. m
    BY <2>7, <2>8
  <2>11. m \in 0 .. Newest
    BY <2>4, <2>9, Numbers
  <2>. HIDE DEF Bounds
  <2>. QED
    BY <2>6, <2>10, <2>11
<1>. QED
  BY <1>1, <1>2

(* The same, of a pod's record after the step that writes it.              *)
LEMMA Written ==
  ASSUME TypeOK, NEW p \in Pods, NEW s, To(p, s)
  PROVE  /\ pods'[p] = s
         /\ \A q \in Pods \ {p} : pods'[q] = pods[q]
         /\ s \in Startup \cup {None} => pods' \in [Pods -> Startup \cup {None}]
BY DEF TypeOK, To

-----------------------------------------------------------------------------
(* A volume starts with a true history and no pod.                         *)
LEMMA InitInv == Init => Inv
<1>. SUFFICES ASSUME Init PROVE Inv
  OBVIOUS
<1>1. pods = [p \in Pods |-> None] /\ recorded \subseteq Revisions
  BY Numbers DEF Init, Revisions
<1>2. HistoryTrue /\ applied \in [Revisions -> Nat]
  <2>1. CASE recorded = {} /\ applied = [r \in Revisions |-> 0]
    BY <2>1 DEF HistoryTrue
  <2>3. CASE recorded = {} /\ applied = [r \in Revisions |-> IF r = 1 THEN 1 ELSE 0]
    BY <2>3, Numbers DEF HistoryTrue
  <2>2. CASE \E n \in Revisions :
               recorded = 1 .. n /\ applied = [r \in Revisions |-> IF r <= n THEN 1 ELSE 0]
    BY <2>2, Numbers DEF HistoryTrue, Revisions
  <2>. QED
    BY <2>1, <2>2, <2>3 DEF Init
<1>3. ServesKnownSchema /\ StepsTrue /\ AloneTrue
  BY <1>1 DEF ServesKnownSchema, StepsTrue, AloneTrue, Open, At
<1>4. TypeOK
  BY <1>1, <1>2, MigrationsAssumption DEF Init, TypeOK
<1>. QED
  BY <1>2, <1>3, <1>4 DEF Inv

(* A step that leaves the schema alone and moves one pod to a phase that   *)
(* is true of the schema keeps the invariant.                              *)
LEMMA MoveInv ==
  ASSUME Inv, NEW p \in Pods, NEW s \in Startup \cup {None}, To(p, s),
         UNCHANGED <<overlap, recorded, applied>>,
         writer' \in Pods \cup {None}, faults' \in 0 .. MaxFaults,
         s # None => overlap \/ \A o \in Pods \ {p} : pods[o] = None,
         s # None /\ s.at = "open" =>
           1 .. Latest[p] \subseteq recorded /\ (overlap \/ recorded = 1 .. Latest[p]),
         s # None /\ s.at = "stamp" => applied[1] > 0,
         s # None /\ s.at \in {"baseline", "stamp"} => overlap \/ recorded = {},
         s # None /\ s.at \in {"apply", "tx"} =>
           /\ 1 .. (s.next - 1) \subseteq recorded
           /\ s.next = 1 => applied[1] = 0 \/ 1 \in recorded
           /\ overlap \/ (recorded = 1 .. (s.next - 1) /\ s.next - 1 <= Latest[p]),
         s # None /\ s.at = "tx" => s.next <= Latest[p]
  PROVE  Inv'
<1>1. pods'[p] = s /\ \A q \in Pods \ {p} : pods'[q] = pods[q]
  BY Written DEF Inv
<1>2. TypeOK'
  BY Written DEF Inv, TypeOK
<1>3. HistoryTrue'
  BY DEF Inv, HistoryTrue
<1>4. ServesKnownSchema'
  BY <1>1 DEF Inv, ServesKnownSchema, Open, At
<1>5. StepsTrue'
  BY <1>1 DEF Inv, StepsTrue, At
<1>6. AloneTrue'
  BY <1>1 DEF Inv, AloneTrue, At
<1>. QED
  BY <1>2, <1>3, <1>4, <1>5, <1>6 DEF Inv

(* A step that records the first revision that is not recorded, with its   *)
(* statements applied once, and leaves its pod after it, does so too.      *)
LEMMA GrowInv ==
  ASSUME Inv, NEW p \in Pods, NEW n \in Revisions, To(p, Apply(n + 1)), pods[p] # None,
         1 .. (n - 1) \subseteq recorded, n \notin recorded,
         recorded' = recorded \cup {n}, applied' \in [Revisions -> Nat],
         applied'[n] = 1, \A r \in Revisions \ {n} : applied'[r] = applied[r],
         n # 1 \/ applied[1] \in {0, 1}, n <= Latest[p],
         overlap \/ recorded = 1 .. (n - 1),
         UNCHANGED <<overlap, faults>>, writer' \in Pods \cup {None}
  PROVE  Inv'
<1>1. /\ TypeOK /\ HistoryTrue /\ recorded \subseteq Revisions
      /\ n \in Nat /\ n >= 1 /\ n <= Newest
  BY Numbers DEF Inv, TypeOK, Revisions
<1>. DEFINE s == Apply(n + 1)
<1>2. s \in Startup /\ s # None /\ s.at = "apply" /\ s.next = n + 1
  <2>1. n + 1 \in 1 .. Newest + 1
    BY <1>1, Numbers
  <2>. QED
    BY <2>1, ApplyIs
<1>3. pods'[p] = s /\ \A q \in Pods \ {p} : pods'[q] = pods[q]
  BY <1>1, Written
<1>. HIDE DEF s
<1>4. TypeOK'
  <2>1. pods' \in [Pods -> Startup \cup {None}]
    BY <1>1, <1>2, Written DEF s
  <2>. QED
    BY <1>1, <2>1 DEF TypeOK
<1>5. n # 1 => 1 \in recorded
  BY <1>1
<1>6. 1 .. n \subseteq recorded'
  BY <1>1
<1>7. HistoryTrue'
  <2>1. ASSUME NEW r \in recorded' PROVE 1 .. r \subseteq recorded' /\ applied'[r] = 1
    BY <1>1, <1>6, <2>1 DEF HistoryTrue
  <2>2. ASSUME NEW r \in Revisions \ recorded' PROVE applied'[r] = 0
    BY <1>1, <1>5, <2>2 DEF HistoryTrue
  <2>. QED
    BY <2>1, <2>2 DEF HistoryTrue
<1>8. 1 \in recorded' /\ 1 .. (s.next - 1) = 1 .. n
  BY <1>1, <1>2, <1>5
<1>9. ServesKnownSchema'
  <2>1. ASSUME NEW q \in Pods, Open(q)'
        PROVE  1 .. Latest[q] \subseteq recorded' /\ (overlap' \/ recorded' = 1 .. Latest[q])
    <3>1. q # p
      BY <1>2, <1>3, <2>1 DEF Open, At
    <3>2. Open(q) /\ pods[q] # None
      BY <1>3, <2>1, <3>1 DEF Open, At
    <3>3. overlap
      BY <3>1, <3>2 DEF Inv, AloneTrue
    <3>. QED
      BY <3>2, <3>3 DEF Inv, ServesKnownSchema
  <2>. QED
    BY <2>1 DEF ServesKnownSchema
<1>10. StepsTrue'
  <2>1. ASSUME NEW q \in Pods
        PROVE  /\ At(q, "stamp")' => applied'[1] > 0
               /\ (At(q, "apply") \/ At(q, "tx"))' => 1 .. (pods'[q].next - 1) \subseteq recorded'
               /\ At(q, "tx")' => pods'[q].next <= Latest[q]
    <3>1. CASE q = p
      BY <1>2, <1>3, <1>6, <1>8, <3>1 DEF At
    <3>2. CASE q # p
      <4>1. pods'[q] = pods[q] /\ (At(q, "stamp") => applied'[1] > 0)
        BY <1>1, <1>3, <3>2, Numbers DEF Inv, StepsTrue
      <4>. QED
        BY <4>1 DEF Inv, StepsTrue, At
    <3>. QED
      BY <3>1, <3>2
  <2>. QED
    BY <1>8, <2>1 DEF StepsTrue
<1>11. AloneTrue'
  <2>1. SUFFICES ASSUME ~overlap, NEW q \in Pods, pods'[q] # None
                 PROVE  /\ \A o \in Pods \ {q} : pods'[o] = None
                        /\ ~(At(q, "baseline") \/ At(q, "stamp"))'
                        /\ (At(q, "apply") \/ At(q, "tx"))' =>
                             recorded' = 1 .. (pods'[q].next - 1)
                             /\ pods'[q].next - 1 <= Latest[q]
    BY DEF AloneTrue
  <2>2. \A o \in Pods \ {p} : pods[o] = None
    BY <2>1 DEF Inv, AloneTrue
  <2>3. q = p
    BY <1>3, <2>1, <2>2
  <2>4. recorded' = 1 .. n /\ s.next - 1 = n
    BY <1>1, <1>2, <2>1
  <2>. QED
    BY <1>2, <1>3, <2>2, <2>3, <2>4 DEF At
<1>. QED
  BY <1>4, <1>7, <1>9, <1>10, <1>11 DEF Inv

(* The stamp of an old database is such a step.                            *)
LEMMA StampInv ==
  ASSUME Inv, NEW p \in Pods, Stamp(p), ~Duplicate(1)
  PROVE  Inv'
<1>1. /\ TypeOK /\ HistoryTrue /\ recorded \subseteq Revisions
      /\ applied \in [Revisions -> Nat] /\ 1 \notin recorded
  BY DEF Inv, TypeOK, Duplicate
<1>2. recorded = {}
  <2>1. ASSUME NEW r \in recorded PROVE FALSE
    BY <1>1, <2>1 DEF HistoryTrue, Revisions
  <2>. QED
    BY <2>1
<1>3. At(p, "stamp") /\ pods[p] # None /\ applied[1] > 0
  BY DEF Stamp, At, Inv, StepsTrue
<1>4. applied[1] = 1
  BY <1>1, <1>2, <1>3, Numbers DEF HistoryTrue
<1>5. /\ To(p, Apply(2)) /\ recorded' = recorded \cup {1}
      /\ UNCHANGED <<overlap, applied, writer, faults>>
  BY DEF Stamp
<1>6. 1 .. (1 - 1) = {} /\ 1 + 1 = 2 /\ writer \in Pods \cup {None}
  BY <1>1 DEF TypeOK
<1>. QED
  BY <1>1, <1>2, <1>3, <1>4, <1>5, <1>6, GrowInv, Numbers

(* So is the commit of a revision.                                         *)
LEMMA RecordInv ==
  ASSUME Inv, NEW p \in Pods, RecordRevision(p), ~Duplicate(pods[p].next)
  PROVE  Inv'
<1>. DEFINE n == pods[p].next
<1>1. /\ TypeOK /\ HistoryTrue /\ recorded \subseteq Revisions
      /\ applied \in [Revisions -> Nat] /\ n \notin recorded
  BY DEF Inv, TypeOK, Duplicate
<1>2. /\ At(p, "tx") /\ pods[p] # None /\ n <= Latest[p] /\ 1 .. (n - 1) \subseteq recorded
      /\ n = 1 => applied[1] = 0
      /\ overlap \/ recorded = 1 .. (n - 1)
  <2>1. At(p, "tx") /\ pods[p] # None
    BY DEF RecordRevision, At
  <2>2. /\ n <= Latest[p] /\ 1 .. (n - 1) \subseteq recorded
        /\ n = 1 => applied[1] = 0 \/ 1 \in recorded
    BY <2>1 DEF Inv, StepsTrue
  <2>3. overlap \/ recorded = 1 .. (n - 1)
    BY <2>1 DEF Inv, AloneTrue
  <2>. QED
    BY <1>1, <2>1, <2>2, <2>3
<1>3. n \in Revisions
  <2>1. pods[p] \in Startup /\ pods[p].at = "tx"
    BY <1>1, <1>2 DEF TypeOK, At
  <2>2. n \in 1 .. Newest + 1
    BY <2>1, StartupShape
  <2>. HIDE DEF n
  <2>. QED
    BY <1>2, <2>2, Numbers DEF Revisions
<1>4. applied[n] = 0
  <2>1. CASE n = 1
    BY <1>2, <2>1
  <2>2. CASE n # 1
    BY <1>1, <1>3, <2>2 DEF HistoryTrue
  <2>. QED
    BY <2>1, <2>2
<1>5. /\ recorded' = recorded \cup {n} /\ applied' = [applied EXCEPT ![n] = @ + 1]
      /\ To(p, Apply(n + 1)) /\ writer' = None /\ UNCHANGED <<overlap, faults>>
  BY DEF RecordRevision
<1>. HIDE DEF n
<1>6. /\ applied' \in [Revisions -> Nat] /\ applied'[n] = 1
      /\ \A r \in Revisions \ {n} : applied'[r] = applied[r]
  BY <1>1, <1>3, <1>4, <1>5
<1>. QED
  BY <1>1, <1>2, <1>3, <1>5, <1>6, GrowInv

(* Every step keeps the invariant.                                         *)
LEMMA StepInv == Inv /\ [Next]_vars => Inv'
<1>. SUFFICES ASSUME Inv, [Next]_vars PROVE Inv'
  OBVIOUS
<1>1. CASE UNCHANGED vars
  BY <1>1 DEF vars, Inv, TypeOK, HistoryTrue, ServesKnownSchema, StepsTrue, AloneTrue, Open, At
<1>2. SUFFICES ASSUME NEW p \in Pods, Start(p) \/ runMigrations(p) \/ Fault(p) \/ Stop(p)
               PROVE  Inv'
  BY <1>1 DEF Next
<1>. DEFINE r == pods[p]
<1>3. /\ TypeOK /\ HistoryTrue
      /\ r # None => r \in Startup
      /\ At(p, "stamp") => applied[1] > 0
      /\ At(p, "apply") \/ At(p, "tx") =>
           /\ 1 .. (r.next - 1) \subseteq recorded
           /\ r.next = 1 => applied[1] = 0 \/ 1 \in recorded
      /\ At(p, "tx") => r.next <= Latest[p]
      /\ ~overlap /\ r # None =>
           /\ \A o \in Pods \ {p} : pods[o] = None
           /\ At(p, "baseline") \/ At(p, "stamp") => recorded = {}
           /\ At(p, "apply") \/ At(p, "tx") =>
                recorded = 1 .. (r.next - 1) /\ r.next - 1 <= Latest[p]
  BY DEF Inv, StepsTrue, AloneTrue, TypeOK
<1>4. writer \in Pods \cup {None} /\ faults \in 0 .. MaxFaults /\ overlap \in BOOLEAN
  BY <1>3 DEF TypeOK
<1>5. At(p, "apply") \/ At(p, "tx") => r.next \in 1 .. Newest + 1
  BY <1>3, StartupShape DEF At
<1>6. ASSUME To(p, None), UNCHANGED <<overlap, recorded, applied>>,
             writer' \in Pods \cup {None}, faults' \in 0 .. MaxFaults
      PROVE  Inv'
  BY <1>6, MoveInv
<1>7. CASE Start(p)
  <2>. DEFINE s == [at |-> "read"]
  <2>1. s \in Startup /\ s # None /\ s.at = "read"
    BY Phases
  <2>2. To(p, s) /\ UNCHANGED <<overlap, recorded, applied, writer, faults>>
        /\ (overlap \/ \A o \in Pods \ {p} : pods[o] = None)
    BY <1>7 DEF Start
  <2>. HIDE DEF s
  <2>. QED
    BY <1>4, <2>1, <2>2, MoveInv
<1>8. CASE ReadRevision(p)
  <2>1. SchemaRevision \in 0 .. Newest /\ recorded = 1 .. SchemaRevision
    BY <1>3, RevisionIs
  <2>2. At(p, "read") /\ UNCHANGED <<overlap, recorded, applied, writer, faults>>
        /\ r # None
    BY <1>8 DEF ReadRevision, At
  <2>3. CASE SchemaRevision = 0
    <3>. DEFINE s == [at |-> "baseline"]
    <3>1. s \in Startup /\ s # None /\ s.at = "baseline" /\ recorded = {}
      BY <2>1, <2>3, Phases
    <3>2. To(p, s)
      BY <1>8, <2>3 DEF ReadRevision
    <3>. HIDE DEF s
    <3>. QED
      BY <1>3, <1>4, <2>2, <3>1, <3>2, MoveInv
  <2>4. CASE SchemaRevision # 0 /\ TooNew(p, SchemaRevision)
    BY <1>4, <1>6, <1>8, <2>2, <2>4 DEF ReadRevision
  <2>5. CASE SchemaRevision # 0 /\ ~TooNew(p, SchemaRevision)
    <3>. DEFINE s == Apply(SchemaRevision + 1)
    <3>1. s \in Startup /\ s # None /\ s.at = "apply" /\ s.next = SchemaRevision + 1
      <4>1. SchemaRevision + 1 \in 1 .. Newest + 1
        BY <2>1, Numbers
      <4>. QED
        BY <4>1, ApplyIs
    <3>2. SchemaRevision <= Latest[p] /\ s.next - 1 = SchemaRevision /\ s.next # 1
      BY <2>1, <2>5, <3>1, Numbers DEF TooNew
    <3>3. To(p, s)
      BY <1>8, <2>5 DEF ReadRevision
    <3>. HIDE DEF s
    <3>. QED
      BY <1>3, <1>4, <2>1, <2>2, <3>1, <3>2, <3>3, MoveInv
  <2>. QED
    BY <2>3, <2>4, <2>5
<1>9. CASE TableExists(p)
  <2>1. At(p, "baseline") /\ UNCHANGED <<overlap, recorded, applied, writer, faults>>
        /\ r # None
    BY <1>9 DEF TableExists, At
  <2>2. CASE applied[1] > 0
    <3>. DEFINE s == [at |-> "stamp"]
    <3>1. s \in Startup /\ s # None /\ s.at = "stamp"
      BY Phases
    <3>2. To(p, s)
      BY <1>9, <2>2 DEF TableExists
    <3>. HIDE DEF s
    <3>. QED
      BY <1>3, <1>4, <2>1, <2>2, <3>1, <3>2, MoveInv
  <2>3. CASE ~(applied[1] > 0)
    <3>. DEFINE s == Apply(1)
    <3>1. s \in Startup /\ s # None /\ s.at = "apply" /\ s.next = 1
      <4>1. 1 \in 1 .. Newest + 1
        BY Numbers
      <4>. QED
        BY <4>1, ApplyIs
    <3>2. applied[1] = 0
      BY <1>3, <2>3, Numbers DEF TypeOK
    <3>3. 1 .. (s.next - 1) = {} /\ s.next - 1 <= Latest[p]
      BY <3>1, Numbers
    <3>4. To(p, s)
      BY <1>9, <2>3 DEF TableExists
    <3>. HIDE DEF s
    <3>. QED
      BY <1>3, <1>4, <2>1, <3>1, <3>2, <3>3, <3>4, MoveInv
  <2>. QED
    BY <2>2, <2>3
<1>10. CASE RunStatements(p)
  <2>. DEFINE s == [at |-> "tx", next |-> r.next]
  <2>1. At(p, "apply") /\ UNCHANGED <<overlap, recorded, applied, faults>>
        /\ r # None /\ writer' = p /\ r.next <= Latest[p]
    BY <1>10 DEF RunStatements, At
  <2>2. r \in Startup /\ r.at = "apply"
    BY <1>3, <2>1 DEF At
  <2>3. To(p, s)
    BY <1>10, <2>2, StartupShape DEF RunStatements
  <2>4. s \in Startup /\ s # None /\ s.at = "tx" /\ s.next = r.next
    BY <1>5, <2>1, Phases
  <2>. HIDE DEF s
  <2>. QED
    BY <1>3, <1>4, <2>1, <2>3, <2>4, MoveInv
<1>11. CASE Serve(p)
  <2>. DEFINE s == [at |-> "open"]
  <2>1. At(p, "apply") /\ UNCHANGED <<overlap, recorded, applied, writer, faults>>
        /\ r # None /\ r.next > Latest[p] /\ To(p, s)
    BY <1>11 DEF Serve, At
  <2>2. s \in Startup /\ s # None /\ s.at = "open"
    BY Phases
  <2>3. 1 .. Latest[p] \subseteq recorded
    BY <1>3, <1>5, <2>1, Numbers
  <2>4. overlap \/ recorded = 1 .. Latest[p]
    <3>1. SUFFICES ASSUME ~overlap PROVE recorded = 1 .. Latest[p]
      OBVIOUS
    <3>2. recorded = 1 .. (r.next - 1) /\ r.next - 1 <= Latest[p]
      BY <1>3, <2>1, <3>1
    <3>3. r.next - 1 = Latest[p]
      BY <1>5, <2>1, <3>2, Numbers
    <3>. QED
      BY <3>2, <3>3
  <2>. HIDE DEF s
  <2>. QED
    BY <1>3, <1>4, <2>1, <2>2, <2>3, <2>4, MoveInv
<1>12. CASE Fault(p)
  <2>1. writer' \in Pods \cup {None} /\ faults' \in 0 .. MaxFaults
    BY <1>4, <1>12, MigrationsAssumption DEF Fault, Rollback
  <2>. QED
    BY <1>6, <1>12, <2>1 DEF Fault
<1>13. CASE Stop(p)
  BY <1>4, <1>6, <1>13 DEF Stop
<1>14. CASE Stamp(p)
  <2>1. At(p, "stamp") /\ r # None /\ UNCHANGED <<overlap, applied, writer, faults>>
    BY <1>14 DEF Stamp, At
  <2>2. CASE Duplicate(1)
    BY <1>4, <1>6, <1>14, <2>1, <2>2 DEF Stamp
  <2>3. CASE ~Duplicate(1)
    BY <1>14, <2>3, StampInv
  <2>. QED
    BY <2>2, <2>3
<1>15. CASE RecordRevision(p)
  <2>1. At(p, "tx") /\ r # None /\ writer' = None /\ UNCHANGED <<overlap, faults>>
    BY <1>15 DEF RecordRevision, At
  <2>2. CASE Duplicate(r.next)
    BY <1>4, <1>6, <1>15, <2>1, <2>2 DEF RecordRevision
  <2>3. CASE ~Duplicate(r.next)
    BY <1>15, <2>3, RecordInv
  <2>. QED
    BY <2>2, <2>3
<1>. QED
  BY <1>2, <1>7, <1>8, <1>9, <1>10, <1>11, <1>12, <1>13, <1>14, <1>15 DEF runMigrations

(* The invariant holds in every state, fairness or not.                    *)
THEOREM InvHolds == Spec => []Inv
BY InitInv, StepInv, PTL DEF Spec

(* Every variable stays in its type.                                       *)
THEOREM TypeCorrect == Spec => []TypeOK
BY InvHolds, PTL DEF Inv

(* However many pods overlap, crash and retry, every revision is applied   *)
(* exactly once and in order.                                              *)
THEOREM HistoryStaysTrue == Spec => []HistoryTrue
BY InvHolds, PTL DEF Inv

(* A pod serves a schema with all of its revisions, and with no other      *)
(* where pods do not overlap.                                              *)
THEOREM ServesOnlyKnownSchemas == Spec => []ServesKnownSchema
BY InvHolds, PTL DEF Inv
=============================================================================
