------------------------------ MODULE Migrations ------------------------------
(***************************************************************************)
(* The start of a pod on its database: runMigrations finds the schema's    *)
(* revision, stamps a database from before revisions, refuses one that is  *)
(* newer than the binary, and applies what is missing, each revision in    *)
(* one transaction with its row in schema_migrations.  Pods of different   *)
(* binaries follow each other or, if the deployment lets them, overlap;    *)
(* each may crash, fail or be stopped anywhere and start again.            *)
(***************************************************************************)
EXTENDS Integers

CONSTANTS
  Pods,
  Latest,     \* the latestRevision of each pod's binary
  Newest,     \* the last revision there is
  MaxFaults,  \* bound: crashes and failed statements in one behaviour
  None        \* a pod that is not running, a database nobody writes

Revisions == 1 .. Newest
Startup   == [at : {"read"}]
               \cup [at : {"baseline", "stamp", "open"}]
               \cup [at : {"apply", "tx"}, next : 1 .. Newest + 1]

ASSUME MigrationsAssumption ==
  /\ Newest \in Nat \ {0} /\ MaxFaults \in Nat
  /\ Latest \in [Pods -> Revisions]
  /\ None \notin Pods \cup Startup

VARIABLES
  overlap,   \* whether a pod may start while another runs (maxSurge, docker run)
  recorded,  \* the revisions in schema_migrations
  applied,   \* how often the statements of each revision are in the schema
  pods,      \* how far each pod is
  writer,    \* the pod that holds SQLite's write lock
  faults

vars == <<overlap, recorded, applied, pods, writer, faults>>

TypeOK ==
  /\ overlap \in BOOLEAN
  /\ recorded \subseteq Revisions
  /\ applied \in [Revisions -> Nat]
  /\ pods \in [Pods -> Startup \cup {None}]
  /\ writer \in Pods \cup {None}
  /\ faults \in 0 .. MaxFaults

(* A new volume, one from before schema_migrations, or one that earlier    *)
(* binaries have brought to some revision.                                 *)
Init ==
  /\ overlap \in BOOLEAN
  /\ \/ recorded = {} /\ applied = [r \in Revisions |-> 0]
     \/ recorded = {} /\ applied = [r \in Revisions |-> IF r = 1 THEN 1 ELSE 0]
     \/ \E n \in Revisions :
          /\ recorded = 1 .. n
          /\ applied = [r \in Revisions |-> IF r <= n THEN 1 ELSE 0]
  /\ pods = [p \in Pods |-> None]
  /\ writer = None
  /\ faults = 0

At(p, at) == pods[p] # None /\ pods[p].at = at
Open(p)   == At(p, "open")

SchemaRevision ==
  IF recorded = {} THEN 0 ELSE CHOOSE r \in recorded : \A s \in recorded : s <= r

-----------------------------------------------------------------------------
To(p, s) == pods' = [pods EXCEPT ![p] = s]
Apply(n) == [at |-> "apply", next |-> n]

(* Open, as far as CREATE TABLE IF NOT EXISTS schema_migrations.           *)
Start(p) ==
  /\ pods[p] = None
  /\ overlap \/ \A o \in Pods : pods[o] = None
  /\ To(p, [at |-> "read"])
  /\ UNCHANGED <<overlap, recorded, applied, writer, faults>>

AcceptsNewer(p, current) == FALSE \* mutant
TooNew(p, current)       == current > Latest[p]

(* ErrSchemaTooNew ends the process.                                       *)
ReadRevision(p) ==
  /\ At(p, "read")
  /\ To(p, IF SchemaRevision = 0 THEN [at |-> "baseline"]
           ELSE IF TooNew(p, SchemaRevision) THEN None
           ELSE Apply(SchemaRevision + 1))
  /\ UNCHANGED <<overlap, recorded, applied, writer, faults>>

(* Revision 1 made users; only the old blobs make it without a row.        *)
TableExists(p) ==
  /\ At(p, "baseline")
  /\ To(p, IF applied[1] > 0 THEN [at |-> "stamp"] ELSE Apply(1))
  /\ UNCHANGED <<overlap, recorded, applied, writer, faults>>

(* A second row of a revision breaks the primary key, and ends the process.*)
Ignored(r)   == FALSE \* mutant: INSERT OR IGNORE
Duplicate(r) == r \in recorded

Stamp(p) ==
  /\ At(p, "stamp") /\ writer = None
  /\ IF Duplicate(1)
     THEN To(p, None) /\ UNCHANGED recorded
     ELSE To(p, Apply(2)) /\ recorded' = recorded \cup {1}
  /\ UNCHANGED <<overlap, applied, writer, faults>>

(* The statements of the next revision, which take the write lock.         *)
RunStatements(p) ==
  /\ At(p, "apply") /\ pods[p].next <= Latest[p] /\ writer = None
  /\ To(p, [pods[p] EXCEPT !.at = "tx"])
  /\ writer' = p
  /\ UNCHANGED <<overlap, recorded, applied, faults>>

(* The row and the commit, or a rollback of all of it.                     *)
RecordRevision(p) ==
  /\ At(p, "tx")
  /\ IF Duplicate(pods[p].next)
     THEN To(p, None) /\ UNCHANGED <<recorded, applied>>
     ELSE /\ recorded' = recorded \cup {pods[p].next}
          /\ applied' = [applied EXCEPT ![pods[p].next] = @ + 1]
          /\ To(p, Apply(pods[p].next + 1))
  /\ writer' = None
  /\ UNCHANGED <<overlap, faults>>

Serve(p) ==
  /\ At(p, "apply") /\ pods[p].next > Latest[p]
  /\ To(p, [at |-> "open"])
  /\ UNCHANGED <<overlap, recorded, applied, writer, faults>>

(* A crash, a statement that fails or a lock that is not given in time:    *)
(* the transaction is rolled back and the process ends.                    *)
KeepsLock(p)  == UNCHANGED writer \* mutant
Rollback(p)   == writer' = IF writer = p THEN None ELSE writer
Fault(p) ==
  /\ pods[p] # None /\ faults < MaxFaults
  /\ To(p, None)
  /\ Rollback(p)
  /\ faults' = faults + 1
  /\ UNCHANGED <<overlap, recorded, applied>>

(* The deployment takes a serving pod down.                                *)
Stop(p) ==
  /\ Open(p)
  /\ To(p, None)
  /\ UNCHANGED <<overlap, recorded, applied, writer, faults>>

runMigrations(p) ==
  ReadRevision(p) \/ TableExists(p) \/ Stamp(p) \/ RunStatements(p) \/ RecordRevision(p) \/ Serve(p)

Next == \E p \in Pods : Start(p) \/ runMigrations(p) \/ Fault(p) \/ Stop(p)

(* A process that runs goes on; nothing makes the deployment start one.    *)
Fairness == \A p \in Pods : WF_vars(runMigrations(p))

Spec     == Init /\ [][Next]_vars
FairSpec == Spec /\ Fairness
-----------------------------------------------------------------------------
(* Properties.                                                             *)

(* However pods overlap, crash and retry, the recorded revisions have no   *)
(* gap, each is in the schema exactly once, and nothing is in the schema   *)
(* without its row except what the old blobs made.                         *)
HistoryTrue ==
  /\ \A r \in recorded : 1 .. r \subseteq recorded
  /\ \A r \in recorded : applied[r] = 1
  /\ \A r \in Revisions \ recorded : applied[r] = 0 \/ (r = 1 /\ recorded = {} /\ applied[1] = 1)

(* A pod serves only a schema with all of its own revisions, and, where    *)
(* pods do not overlap, with no revision it does not know.                 *)
ServesKnownSchema ==
  \A p \in Pods : Open(p) =>
    /\ 1 .. Latest[p] \subseteq recorded
    /\ overlap \/ recorded = 1 .. Latest[p]

(* A pod of the newest binary that is started again and again serves in    *)
(* the end: faults that stop leave nothing behind that fails every start.  *)
RestartsServe ==
  \A p \in Pods : Latest[p] = Newest /\ []<>(pods[p] # None) => <>Open(p)
=============================================================================
