----------------------------- MODULE PublishProofs -----------------------------
(***************************************************************************)
(* Proofs about Publish, for any sets of users, packages, files and        *)
(* requests, and for any reading of what typst accepts.                    *)
(***************************************************************************)
EXTENDS Publish, TLAPS

(* A non-empty set of paths has a first one.                               *)
LEMMA FirstIn ==
  ASSUME NEW F, F # {}
  PROVE  First(F) \in F
BY DEF First

(* The bounds of the model are naturals.                                   *)
LEMMA Bounds == MaxEdits \in Nat /\ MaxFaults \in Nat
BY PublishAssumption

(* A torn file holds a content; an absent one does not.                    *)
LEMMA Contained == Torn \in Contents /\ Missing \notin Contents
BY PublishAssumption

(* What the seed writes are contents of files of a package of the built-   *)
(* in namespace.                                                           *)
LEMMA Seedlings ==
  /\ House \in Packages /\ House[1] = Builtin
  /\ Bundled \in [Files -> File]
BY PublishAssumption

(* The absence of a directory is not a directory.                          *)
LEMMA NotDirs == None \notin Dir
BY PublishAssumption

(* A directory just made has no file.                                      *)
LEMMA EmptyType == Empty \in Dir /\ Present(Empty) = {}
BY DEF Empty, Dir, File, Present

-----------------------------------------------------------------------------
(* Types.                                                                  *)

(* The server starts in its types.                                         *)
LEMMA InitType == Init => TypeOK
<1>. SUFFICES ASSUME Init PROVE TypeOK
  OBVIOUS
<1>1. requests \in [Requests -> Request]
  <2>. DEFINE x == [at |-> "new", user |-> None, dest |-> None, files |-> {},
                    left |-> {}, staged |-> Empty, view |-> {},
                    touched |-> FALSE, calm |-> FALSE]
  <2>1. x \in Request
    BY EmptyType DEF Request
  <2>2. requests = [r \in Requests |-> x]
    BY DEF Init
  <2>. QED
    BY <2>1, <2>2
<1>2. edits \in 0 .. MaxEdits /\ faults \in 0 .. MaxFaults
  BY Bounds DEF Init
<1>. QED
  BY <1>1, <1>2 DEF Init, TypeOK

(* One file more, and the directory is still one.                          *)
LEMMA DirExcept ==
  ASSUME NEW d \in Dir, NEW f \in Files, NEW c \in File
  PROVE  [d EXCEPT ![f] = c] \in Dir
BY DEF Dir

(* Copying one file of the list keeps a request in its type.               *)
LEMMA CopiedType ==
  ASSUME NEW q \in Request, NEW f \in q.left, q.at \in {"stage", "install"},
         NEW label \in {"check", "published"}
  PROVE  /\ Copied(q, f, label) \in Request
         /\ Copied(q, f, label).left = q.left \ {f}
         /\ Copied(q, f, label).at \in {label, q.at}
         /\ Copied(q, f, label).at = q.at \/ q.left = {f}
         /\ Copied(q, f, label).user = q.user /\ Copied(q, f, label).dest = q.dest
         /\ Copied(q, f, label).files = q.files /\ Copied(q, f, label).view = q.view
         /\ Copied(q, f, label).staged = q.staged
         /\ Copied(q, f, label).touched = q.touched /\ Copied(q, f, label).calm = q.calm
BY DEF Copied, Request

(* Files cut short are contents, and absent directories stay absent.       *)
LEMMA CutShortType ==
  ASSUME TypeOK, NEW cut \in SUBSET Requests
  PROVE  CutShort(cut) \in [Packages -> Dir \cup {None}]
<1>. SUFFICES ASSUME NEW p \in Packages, store[p] # None
              PROVE  CutShort(cut)[p] \in Dir
  BY DEF CutShort
<1>. DEFINE opened(f) == \E r \in cut : requests[r].dest = p /\ f = First(requests[r].left)
<1>1. store[p] \in Dir
  BY DEF TypeOK
<1>2. CutShort(cut)[p] = [f \in Files |-> IF opened(f) THEN Torn ELSE store[p][f]]
  BY DEF CutShort
<1>. HIDE DEF opened
<1>. QED
  BY <1>1, <1>2, Contained DEF Dir, File

(* Noting that a source changed keeps the requests in their type.          *)
LEMMA TouchType ==
  ASSUME TypeOK, NEW u \in Users
  PROVE  Touch(u) \in [Requests -> Request]
<1>1. \A r \in Requests : [requests[r] EXCEPT !.touched = TRUE] \in Request
  BY DEF TypeOK, Request
<1>. QED
  BY <1>1 DEF Touch, TypeOK

(* A request that ends early stays in its type.                            *)
LEMMA EndedType ==
  ASSUME TypeOK, NEW r \in Requests, Live(r), NEW label \in {"refused", "aborted"}
  PROVE  [requests[r] EXCEPT !.at = label] \in Request
<1>1. requests[r] \in Request /\ requests[r].at # "new"
  BY DEF TypeOK, Live
<1>. QED
  BY <1>1 DEF Request

(* The seed writes directories of files.                                   *)
LEMMA SeededType ==
  ASSUME TypeOK, NEW f \in Files, NEW c \in File
  PROVE  [store EXCEPT ![House] = Seeded(@, f, c)] \in [Packages -> Dir \cup {None}]
<1>1. (IF store[House] = None THEN Empty ELSE store[House]) \in Dir
  BY EmptyType, Seedlings DEF TypeOK
<1>2. Seeded(store[House], f, c) \in Dir
  BY <1>1, DirExcept DEF Seeded
<1>. QED
  BY <1>2 DEF TypeOK

(* The parameters of the steps of one publish, with the request they leave.*)
LEMMA BeginType ==
  ASSUME TypeOK, NEW r \in Requests, NEW u \in Users, NEW p \in Packages, Begin(r, u, p)
  PROVE  TypeOK'
<1>. DEFINE x == [requests[r] EXCEPT !.at = "stat", !.user = u, !.dest = p,
                    !.files = Present(source[u]), !.touched = put[u] # None]
<1>1. Present(source[u]) \subseteq Files /\ (put[u] # None) \in BOOLEAN
  BY DEF Present
<1>2. requests[r] \in Request /\ requests[r].left = {} /\ requests[r].staged = Empty
  BY DEF Begin, At, TypeOK, Request
<1>3. x \in Request
  BY <1>1, <1>2, EmptyType DEF Request
<1>4. requests' = [requests EXCEPT ![r] = x]
  BY DEF Begin, Become
<1>. QED
  BY <1>3, <1>4 DEF Begin, TypeOK

(* The steps that only move their own request keep the types.              *)
LEMMA PrivateType ==
  ASSUME TypeOK, NEW r \in Requests,
         \/ StatDest(r) \/ BuildView(r) \/ StageFile(r) \/ CompileCheck(r)
         \/ PublishFails(r)
  PROVE  TypeOK'
<1>. DEFINE q == requests[r]
<1>1. q \in Request
  BY DEF TypeOK
<1>2. CASE StatDest(r)
  <2>. DEFINE x == [q EXCEPT !.at = IF Taken(q.dest) THEN "refused" ELSE "view"]
  <2>1. x \in Request
    BY <1>1, <1>2 DEF StatDest, At, Request
  <2>2. requests' = [requests EXCEPT ![r] = x]
    BY <1>2 DEF StatDest, Become
  <2>. QED
    BY <1>2, <2>1, <2>2 DEF StatDest, TypeOK
<1>3. CASE BuildView(r)
  <2>. DEFINE x == [q EXCEPT !.at = "stage", !.left = q.files,
                             !.view = CheckView(q.user, q.dest)]
  <2>1. CheckView(q.user, q.dest) \subseteq Packages
    BY DEF CheckView, PackageView
  <2>2. x \in Request
    BY <1>1, <1>3, <2>1 DEF BuildView, At, Request
  <2>3. requests' = [requests EXCEPT ![r] = x]
    BY <1>3 DEF BuildView, ToInstall, Become
  <2>. QED
    BY <1>3, <2>2, <2>3 DEF BuildView, TypeOK
<1>4. CASE StageFile(r)
  <2>. DEFINE f == First(q.left)
              c == source[q.user][f]
              d == [q.staged EXCEPT ![f] = c]
              y == Copied(q, f, "check")
              x == [y EXCEPT !.staged = d]
  <2>1. /\ q.at = "stage" /\ q.user \in Users /\ f \in q.left /\ f \in Files
        /\ q.staged \in Dir /\ f \in q.files /\ Present(q.staged) \subseteq q.files
    BY <1>1, <1>4, FirstIn DEF StageFile, At, Request
  <2>2. c \in File
    BY <2>1 DEF TypeOK, Dir
  <2>3. d \in Dir /\ Present(d) \subseteq q.files
    BY <2>1, <2>2 DEF Dir, Present
  <2>4. /\ y \in Request /\ y.files = q.files /\ y.at \in {"check", "stage"}
    BY <1>1, <2>1, CopiedType
  <2>. HIDE DEF y
  <2>5. x \in Request
    BY <2>3, <2>4 DEF Request
  <2>6. CASE c = Missing
    <3>1. requests' = [requests EXCEPT ![r] = [q EXCEPT !.at = "refused"]]
      BY <1>4, <2>6 DEF StageFile, Become
    <3>2. Live(r)
      BY <2>1 DEF Live
    <3>3. [q EXCEPT !.at = "refused"] \in Request
      BY <3>2, EndedType
    <3>. QED
      BY <1>4, <3>1, <3>3 DEF StageFile, TypeOK
  <2>7. CASE c # Missing
    <3>1. requests' = [requests EXCEPT ![r] = x]
      BY <1>4, <2>7 DEF StageFile, Become, y
    <3>. QED
      BY <1>4, <2>5, <3>1 DEF StageFile, TypeOK
  <2>. QED
    BY <2>6, <2>7
<1>5. CASE CompileCheck(r)
  <2>. DEFINE x == [q EXCEPT !.at = "mkdir", !.calm = Calm(q)]
  <2>1. q.at = "check" /\ Calm(q) \in BOOLEAN
    BY <1>5 DEF CompileCheck, At, Calm
  <2>2. x \in Request /\ [q EXCEPT !.at = "refused"] \in Request
    BY <1>1, <2>1 DEF Request
  <2>3. \/ requests' = [requests EXCEPT ![r] = x]
        \/ requests' = [requests EXCEPT ![r] = [q EXCEPT !.at = "refused"]]
    BY <1>5 DEF CompileCheck, Become
  <2>. QED
    BY <1>5, <2>2, <2>3 DEF CompileCheck, TypeOK
<1>6. CASE PublishFails(r)
  <2>1. Live(r)
    BY <1>6 DEF PublishFails, Live
  <2>2. [q EXCEPT !.at = "refused"] \in Request
    BY <2>1, EndedType
  <2>3. requests' = [requests EXCEPT ![r] = [q EXCEPT !.at = "refused"]]
    BY <1>6 DEF PublishFails, Become
  <2>4. faults' \in 0 .. MaxFaults
    BY <1>6, Bounds DEF PublishFails, Fault, TypeOK
  <2>. QED
    BY <1>6, <2>2, <2>3, <2>4 DEF PublishFails, TypeOK
<1>. QED
  BY <1>2, <1>3, <1>4, <1>5, <1>6

(* Where a publish has begun to write, there is a directory.               *)
Opened == \A r \in Requests :
  requests[r].at \in {"install", "published", "aborted"} => store[requests[r].dest] # None

(* The steps that write to the store keep the types.                       *)
LEMMA InstallType ==
  ASSUME TypeOK, Opened, NEW r \in Requests,
         MkdirDest(r) \/ InstallFile(r) \/ InstallFails(r)
  PROVE  TypeOK'
<1>. DEFINE q == requests[r]
<1>1. q \in Request
  BY DEF TypeOK
<1>2. CASE MkdirDest(r)
  <2>. DEFINE x == [q EXCEPT !.at = "install", !.left = q.files]
  <2>1. x \in Request
    BY <1>1, <1>2 DEF MkdirDest, At, Request
  <2>2. requests' = [requests EXCEPT ![r] = x]
    BY <1>2 DEF MkdirDest, ToInstall, Become
  <2>3. store' \in [Packages -> Dir \cup {None}]
    BY <1>2, EmptyType DEF MkdirDest, TypeOK
  <2>. QED
    BY <1>2, <2>1, <2>2, <2>3 DEF MkdirDest, TypeOK
<1>3. CASE InstallFile(r)
  <2>. DEFINE f == First(q.left)
              c == source[q.user][f]
              x == Copied(q, f, "published")
  <2>1. /\ q.at = "install" /\ q.user \in Users /\ q.dest \in Packages
        /\ f \in q.left /\ f \in Files
    BY <1>1, <1>3, FirstIn DEF InstallFile, At, Request
  <2>2. c \in File
    BY <2>1 DEF TypeOK, Dir
  <2>3. x \in Request
    BY <1>1, <2>1, CopiedType
  <2>. HIDE DEF x
  <2>4. CASE c = Missing
    <3>1. /\ requests' = [requests EXCEPT ![r] = [q EXCEPT !.at = "aborted"]]
          /\ store' = store
      BY <1>3, <2>4, Contained DEF InstallFile, Become
    <3>2. Live(r)
      BY <2>1 DEF Live
    <3>3. [q EXCEPT !.at = "aborted"] \in Request
      BY <3>2, EndedType
    <3>. QED
      BY <1>3, <3>1, <3>3 DEF InstallFile, TypeOK
  <2>5. CASE c # Missing
    <3>1. /\ requests' = [requests EXCEPT ![r] = x]
          /\ store' = [store EXCEPT ![q.dest][f] = c]
      BY <1>3, <2>5 DEF InstallFile, Become, x
    <3>2. [store[q.dest] EXCEPT ![f] = c] \in Dir
      <4>1. store[q.dest] \in Dir
        BY <2>1 DEF TypeOK, Opened
      <4>. QED
        BY <2>1, <2>2, <4>1, DirExcept
    <3>3. store' \in [Packages -> Dir \cup {None}]
      BY <2>1, <3>1, <3>2 DEF TypeOK
    <3>. QED
      BY <1>3, <2>3, <3>1, <3>3 DEF InstallFile, TypeOK
  <2>. QED
    BY <2>4, <2>5
<1>4. CASE InstallFails(r)
  <2>1. Live(r)
    BY <1>4 DEF InstallFails, At, Live
  <2>2. [q EXCEPT !.at = "aborted"] \in Request
    BY <2>1, EndedType
  <2>3. requests' = [requests EXCEPT ![r] = [q EXCEPT !.at = "aborted"]]
    BY <1>4 DEF InstallFails, Become
  <2>4. faults' \in 0 .. MaxFaults
    BY <1>4, Bounds DEF InstallFails, Fault, TypeOK
  <2>5. store' \in [Packages -> Dir \cup {None}]
    BY <1>4, CutShortType DEF InstallFails
  <2>. QED
    BY <1>4, <2>2, <2>3, <2>4, <2>5 DEF InstallFails, TypeOK
<1>. QED
  BY <1>2, <1>3, <1>4

(* Every step keeps the types.                                             *)
LEMMA StepType == TypeOK /\ Opened /\ [Next]_vars => TypeOK'
<1>. SUFFICES ASSUME TypeOK, Opened, [Next]_vars PROVE TypeOK'
  OBVIOUS
<1>1. CASE \E r \in Requests :
             \/ \E u \in Users, p \in Packages : Begin(r, u, p)
             \/ StatDest(r) \/ BuildView(r) \/ StageFile(r) \/ CompileCheck(r)
             \/ MkdirDest(r) \/ InstallFile(r) \/ PublishFails(r) \/ InstallFails(r)
  BY <1>1, BeginType, PrivateType, InstallType
<1>2. ASSUME NEW u \in Users, NEW f \in Files, NEW c \in Contents, PutFileOpen(u, f, c)
      PROVE  TypeOK'
  <2>1. [source[u] EXCEPT ![f] = Torn] \in Dir
    BY Contained, DirExcept DEF TypeOK, File
  <2>2. source' \in [Users -> Dir]
    BY <1>2, <2>1 DEF PutFileOpen, TypeOK
  <2>3. put' \in [Users -> (Files \X Contents) \cup {None}]
    BY <1>2 DEF PutFileOpen, TypeOK
  <2>4. edits' \in 0 .. MaxEdits
    BY <1>2, Bounds DEF PutFileOpen, TypeOK
  <2>5. requests' \in [Requests -> Request]
    BY <1>2, TouchType DEF PutFileOpen
  <2>. QED
    BY <1>2, <2>2, <2>3, <2>4, <2>5 DEF PutFileOpen, TypeOK
<1>3. ASSUME NEW u \in Users, PutFileWrite(u)
      PROVE  TypeOK'
  <2>1. PICK f \in Files, c \in Contents : put[u] = <<f, c>>
    BY <1>3 DEF PutFileWrite, TypeOK
  <2>2. [source[u] EXCEPT ![f] = c] \in Dir
    BY DirExcept DEF TypeOK, File
  <2>3. source' = [source EXCEPT ![u][f] = c]
    BY <1>3, <2>1 DEF PutFileWrite
  <2>4. source' \in [Users -> Dir]
    BY <2>2, <2>3 DEF TypeOK
  <2>5. put' \in [Users -> (Files \X Contents) \cup {None}]
    BY <1>3 DEF PutFileWrite, TypeOK
  <2>6. requests' \in [Requests -> Request]
    BY <1>3, TouchType DEF PutFileWrite
  <2>. QED
    BY <1>3, <2>4, <2>5, <2>6 DEF PutFileWrite, TypeOK
<1>4. ASSUME NEW u \in Users, NEW f \in Files, RemoveSource(u, f)
      PROVE  TypeOK'
  <2>1. [source[u] EXCEPT ![f] = Missing] \in Dir
    BY DirExcept DEF TypeOK, File
  <2>2. source' \in [Users -> Dir]
    BY <1>4, <2>1 DEF RemoveSource, TypeOK
  <2>3. edits' \in 0 .. MaxEdits
    BY <1>4, Bounds DEF RemoveSource, TypeOK
  <2>4. requests' \in [Requests -> Request]
    BY <1>4, TouchType DEF RemoveSource
  <2>. QED
    BY <1>4, <2>2, <2>3, <2>4 DEF RemoveSource, TypeOK
<1>5. CASE Crash
  <2>1. requests' \in [Requests -> Request]
    <3>1. \A r \in Requests : Live(r) =>
            /\ [requests[r] EXCEPT !.at = "aborted"] \in Request
            /\ [requests[r] EXCEPT !.at = "refused"] \in Request
      BY EndedType
    <3>2. requests' = [r \in Requests |->
            IF ~Live(r) THEN requests[r]
            ELSE [requests[r] EXCEPT !.at = IF At(r, "install") THEN "aborted" ELSE "refused"]]
      BY <1>5 DEF Crash
    <3>3. \A r \in Requests :
            requests'[r] \in {requests[r], [requests[r] EXCEPT !.at = "aborted"],
                              [requests[r] EXCEPT !.at = "refused"]}
            /\ (~Live(r) => requests'[r] = requests[r])
      BY <3>2
    <3>. QED
      BY <3>1, <3>2, <3>3 DEF TypeOK
  <2>2. store' \in [Packages -> Dir \cup {None}]
    BY <1>5, CutShortType DEF Crash
  <2>3. faults' \in 0 .. MaxFaults
    BY <1>5, Bounds DEF Crash, Fault, TypeOK
  <2>4. put' \in [Users -> (Files \X Contents) \cup {None}]
    BY <1>5 DEF Crash
  <2>. QED
    BY <1>5, <2>1, <2>2, <2>3, <2>4 DEF Crash, TypeOK
<1>6. CASE SeedFile
  <2>. DEFINE f == First(ToSeed)
  <2>1. f \in Files /\ Bundled[f] \in File
    BY <1>6, FirstIn, Seedlings DEF SeedFile, ToSeed, Present
  <2>2. store' \in [Packages -> Dir \cup {None}]
    BY <1>6, <2>1, SeededType DEF SeedFile, TypeOK
  <2>. QED
    BY <1>6, <2>1, <2>2 DEF SeedFile, TypeOK
<1>7. CASE SeedDone
  BY <1>7 DEF SeedDone, TypeOK
<1>8. CASE SeedCut
  <2>. DEFINE f == First(ToSeed)
  <2>1. f \in Files /\ Torn \in File
    BY <1>8, FirstIn, Contained DEF SeedCut, ToSeed, Present, File
  <2>2. store' \in [Packages -> Dir \cup {None}]
    BY <1>8, <2>1, SeededType DEF SeedCut, TypeOK
  <2>3. faults' \in 0 .. MaxFaults
    BY <1>8, Bounds DEF SeedCut, Fault, TypeOK
  <2>. QED
    BY <1>8, <2>2, <2>3 DEF SeedCut, TypeOK
<1>9. CASE UNCHANGED vars
  BY <1>9 DEF vars, TypeOK
<1>. QED
  BY <1>1, <1>2, <1>3, <1>4, <1>5, <1>6, <1>7, <1>8, <1>9 DEF Next

-----------------------------------------------------------------------------
(* What a step does to one publish, to one version and to one source.      *)

Halted(r) == \E label \in {"refused", "aborted"} :
  /\ requests'[r] = [requests[r] EXCEPT !.at = label]
  /\ label = "aborted" <=> At(r, "install")

(* What the steps of other actors do to a request: nothing, a note that    *)
(* its source changed, or an end.                                          *)
LEMMA RequestFrame ==
  ASSUME TypeOK, [Next]_vars, NEW r \in Requests
  PROVE  \/ requests'[r] = requests[r]
         \/ Live(r) /\ requests'[r] = [requests[r] EXCEPT !.touched = TRUE]
         \/ Live(r) /\ Halted(r)
         \/ \E u \in Users, p \in Packages : Begin(r, u, p)
         \/ StatDest(r) \/ BuildView(r) \/ StageFile(r) \/ CompileCheck(r)
         \/ MkdirDest(r) \/ InstallFile(r)
<1>1. CASE \E q \in Requests : \E u \in Users, p \in Packages : Begin(q, u, p)
  BY <1>1 DEF Begin, Become, TypeOK
<1>2. CASE \E q \in Requests :
             \/ StatDest(q) \/ BuildView(q) \/ StageFile(q) \/ CompileCheck(q)
             \/ MkdirDest(q) \/ InstallFile(q)
  <2>1. PICK q \in Requests :
             \/ StatDest(q) \/ BuildView(q) \/ StageFile(q) \/ CompileCheck(q)
             \/ MkdirDest(q) \/ InstallFile(q)
    BY <1>2
  <2>2. \E x : Become(q, x)
    BY <2>1, Zenon DEF StatDest, BuildView, StageFile, CompileCheck, MkdirDest, InstallFile
  <2>3. q # r => requests'[r] = requests[r]
    BY <2>2 DEF Become, TypeOK
  <2>. QED
    BY <2>1, <2>3
<1>3. CASE \E q \in Requests : PublishFails(q) \/ InstallFails(q)
  <2>1. PICK q \in Requests : PublishFails(q) \/ InstallFails(q)
    BY <1>3
  <2>2. \E label \in {"refused", "aborted"} :
          /\ requests' = [requests EXCEPT ![q] = [requests[q] EXCEPT !.at = label]]
          /\ label = "aborted" <=> At(q, "install")
    BY <2>1 DEF PublishFails, InstallFails, Become, At
  <2>3. Live(q)
    BY <2>1 DEF PublishFails, InstallFails, Live, At
  <2>. QED
    BY <2>2, <2>3 DEF Halted, TypeOK
<1>4. CASE \E u \in Users : requests' = Touch(u)
  BY <1>4 DEF Touch, TypeOK
<1>5. CASE Crash
  BY <1>5 DEF Crash, Halted, TypeOK
<1>6. CASE UNCHANGED requests
  BY <1>6
<1>. QED
  BY <1>1, <1>2, <1>3, <1>4, <1>5, <1>6
  DEF Next, vars, PutFileOpen, PutFileWrite, RemoveSource, SeedFile, SeedDone, SeedCut

(* Only a publish of p that is installing writes to p; it moves on by it.  *)
Writing(r, p) ==
  /\ requests[r].dest = p /\ requests[r].at \in {"mkdir", "install"}
  /\ requests'[r] # requests[r]
  /\ requests'[r].dest = p /\ requests'[r].at \in {"install", "published", "aborted"}

(* Cutting writes short changes only versions being installed.             *)
LEMMA CutFrame ==
  ASSUME TypeOK, NEW cut \in SUBSET Requests, store' = CutShort(cut),
         NEW p \in Packages, store'[p] # store[p]
  PROVE  \E r \in cut : requests[r].dest = p
<1>. SUFFICES ASSUME \A r \in cut : requests[r].dest # p
              PROVE  store'[p] = store[p]
  OBVIOUS
<1>1. CASE store[p] = None
  BY <1>1 DEF CutShort
<1>2. CASE store[p] # None
  <2>1. store'[p] = [f \in Files |-> store[p][f]]
    BY <1>2 DEF CutShort
  <2>. QED
    BY <1>2, <2>1 DEF TypeOK, Dir
<1>. QED
  BY <1>1, <1>2

(* A version changes only under a publish that writes to it; the seed      *)
(* leaves a whole built-in package alone.                                  *)
LEMMA StoreFrame ==
  ASSUME TypeOK, [Next]_vars, NEW p \in Packages, store'[p] # store[p],
         p = House => store[p] # None /\ Whole(store[p])
  PROVE  \E r \in Requests : Writing(r, p)
<1>1. CASE \E r \in Requests : MkdirDest(r)
  <2>1. PICK r \in Requests : MkdirDest(r)
    BY <1>1
  <2>. DEFINE q == requests[r]
  <2>2. q \in Request /\ q.at = "mkdir"
    BY <2>1 DEF MkdirDest, At, TypeOK
  <2>3. q.dest = p
    BY <2>1 DEF MkdirDest, TypeOK
  <2>4. requests'[r] = [q EXCEPT !.at = "install", !.left = q.files]
    BY <2>1 DEF MkdirDest, ToInstall, Become, TypeOK
  <2>5. requests'[r].dest = p /\ requests'[r].at = "install"
    BY <2>2, <2>3, <2>4 DEF Request
  <2>. QED
    BY <2>2, <2>3, <2>5 DEF Writing
<1>2. CASE \E r \in Requests : InstallFile(r)
  <2>1. PICK r \in Requests : InstallFile(r)
    BY <1>2
  <2>. DEFINE q == requests[r]
              f == First(q.left)
              x == Copied(q, f, "published")
  <2>2. q \in Request /\ q.at = "install" /\ f \in q.left
    BY <2>1, FirstIn DEF InstallFile, At, TypeOK
  <2>3. q.dest = p /\ Become(r, x)
    BY <2>1 DEF InstallFile, TypeOK
  <2>4. /\ x.dest = q.dest /\ x.at \in {"published", "install"}
        /\ x.left = q.left \ {f}
    BY <2>2, CopiedType
  <2>. HIDE DEF x
  <2>5. requests'[r] = x
    BY <2>3 DEF Become, TypeOK
  <2>6. x # q
    BY <2>2, <2>4
  <2>. QED
    BY <2>2, <2>3, <2>4, <2>5, <2>6 DEF Writing
<1>3. ASSUME NEW r \in Requests, InstallFails(r)
      PROVE  \E q \in Requests : Writing(q, p)
  <2>1. requests[r] \in Request /\ requests[r].at = "install"
    BY <1>3 DEF InstallFails, At, TypeOK
  <2>2. requests'[r] = [requests[r] EXCEPT !.at = "aborted"]
    BY <1>3 DEF InstallFails, Become, TypeOK
  <2>3. requests'[r].at = "aborted" /\ requests'[r].dest = requests[r].dest
    BY <2>1, <2>2 DEF Request
  <2>4. requests[r].dest = p
    BY <1>3, CutFrame DEF InstallFails
  <2>. QED
    BY <2>1, <2>3, <2>4 DEF Writing
<1>4. CASE Crash
  <2>1. PICK cut \in SUBSET {r \in Requests : At(r, "install")} : store' = CutShort(cut)
    BY <1>4 DEF Crash
  <2>2. PICK r \in cut : requests[r].dest = p
    BY <2>1, CutFrame
  <2>3. r \in Requests /\ requests[r] \in Request /\ requests[r].at = "install"
    BY <2>1 DEF At, TypeOK
  <2>4. requests'[r] = [requests[r] EXCEPT !.at = "aborted"]
    BY <1>4, <2>3 DEF Crash, Live, At
  <2>5. requests'[r].at = "aborted" /\ requests'[r].dest = requests[r].dest
    BY <2>3, <2>4 DEF Request
  <2>. QED
    BY <2>2, <2>3, <2>5 DEF Writing
<1>5. CASE SeedFile \/ SeedCut
  <2>1. First(ToSeed) \in Files
    BY <1>5, FirstIn DEF SeedFile, SeedCut, ToSeed, Present
  <2>2. p = House => ~Seedable(First(ToSeed))
    BY <2>1 DEF Seedable, Whole
  <2>. QED
    BY <1>5, <2>2 DEF SeedFile, SeedCut, TypeOK
<1>6. CASE UNCHANGED store
  BY <1>6
<1>. QED
  BY <1>1, <1>2, <1>3, <1>4, <1>5, <1>6
  DEF Next, vars, Begin, StatDest, BuildView, StageFile, CompileCheck, PublishFails,
      PutFileOpen, PutFileWrite, RemoveSource, SeedDone

(* What is in the store is never removed from it.                          *)
LEMMA StoreStays ==
  ASSUME TypeOK, Opened, [Next]_vars, NEW p \in Packages, store[p] # None
  PROVE  store'[p] # None /\ \A f \in Files : store[p][f] # Missing => store'[p][f] # Missing
<1>. store[p] \in Dir
  BY DEF TypeOK
<1>1. CASE \E r \in Requests : MkdirDest(r)
  BY <1>1 DEF MkdirDest, TypeOK
<1>2. CASE \E r \in Requests : InstallFile(r)
  <2>1. PICK r \in Requests : InstallFile(r)
    BY <1>2
  <2>. DEFINE q == requests[r]
              f == First(q.left)
              c == source[q.user][f]
              d == [store[p] EXCEPT ![f] = c]
  <2>2. UNCHANGED store \/ (c # Missing /\ store' = [store EXCEPT ![q.dest][f] = c])
    BY <2>1 DEF InstallFile
  <2>3. q \in Request /\ q.user \in Users /\ f \in Files
    BY <2>1, FirstIn DEF InstallFile, At, TypeOK, Request
  <2>4. d \in Dir
    BY <2>3, DirExcept DEF TypeOK, Dir
  <2>5. store'[p] = store[p] \/ (c # Missing /\ store'[p] = d)
    BY <2>2 DEF TypeOK
  <2>. QED
    BY <2>4, <2>5, NotDirs DEF Dir
<1>3. CASE \E cut \in SUBSET Requests : store' = CutShort(cut)
  <2>1. PICK cut \in SUBSET Requests : store' = CutShort(cut)
    BY <1>3
  <2>. DEFINE opened(f) == \E r \in cut : requests[r].dest = p /\ f = First(requests[r].left)
  <2>2. store'[p] = [f \in Files |-> IF opened(f) THEN Torn ELSE store[p][f]]
    BY <2>1 DEF CutShort
  <2>3. store'[p] \in Dir
    <3>. HIDE DEF opened
    <3>. QED
      BY <2>2, Contained DEF Dir, File
  <2>4. \A f \in Files : store'[p][f] \in {Torn, store[p][f]}
    <3>. HIDE DEF opened
    <3>. QED
      BY <2>2
  <2>. QED
    BY <2>3, <2>4, NotDirs, Contained
<1>4. CASE SeedFile \/ SeedCut
  <2>1. PICK f \in Files, c \in File :
          \/ UNCHANGED store
          \/ Seedable(f) /\ store' = [store EXCEPT ![House] = Seeded(@, f, c)]
    <3>. DEFINE f == First(ToSeed)
    <3>1. f \in Files /\ Bundled[f] \in File /\ Torn \in File
      BY <1>4, FirstIn, Seedlings, Contained
      DEF SeedFile, SeedCut, ToSeed, Present, File
    <3>. QED
      BY <1>4, <3>1 DEF SeedFile, SeedCut
  <2>. DEFINE d == [store[p] EXCEPT ![f] = c]
  <2>2. d \in Dir
    BY DirExcept
  <2>3. store'[p] = store[p] \/ (p = House /\ store'[p] = d /\ store[p][f] = Missing)
    BY <2>1 DEF TypeOK, Seeded, Seedable
  <2>. QED
    BY <2>2, <2>3, NotDirs DEF Dir
<1>5. CASE UNCHANGED store
  BY <1>5
<1>. QED
  BY <1>1, <1>2, <1>3, <1>4, <1>5
  DEF Next, vars, Begin, StatDest, BuildView, StageFile, CompileCheck, PublishFails,
      InstallFails, Crash, PutFileOpen, PutFileWrite, RemoveSource, SeedDone

(* A source changes only under publishes that are then marked touched.     *)
LEMMA SourceFrame ==
  ASSUME TypeOK, [Next]_vars, NEW r \in Requests, Live(r), ~requests'[r].touched
  PROVE  source'[requests[r].user] = source[requests[r].user]
<1>. DEFINE u == requests[r].user
<1>1. requests[r] \in Request /\ u \in Users
  BY DEF TypeOK, Live, Request
<1>2. CASE \E v \in Users : requests' = Touch(v) /\ \E d : source' = [source EXCEPT ![v] = d]
  <2>1. PICK v \in Users : requests' = Touch(v) /\ \E d : source' = [source EXCEPT ![v] = d]
    BY <1>2
  <2>2. v # u
    BY <1>1, <2>1 DEF Touch, Request
  <2>. QED
    BY <1>1, <2>1, <2>2 DEF TypeOK
<1>3. CASE UNCHANGED source
  BY <1>3
<1>4. CASE \E v \in Users : \/ PutFileWrite(v)
                            \/ \E f \in Files : RemoveSource(v, f)
                            \/ \E f \in Files, c \in Contents : PutFileOpen(v, f, c)
  <2>1. PICK v \in Users : \/ PutFileWrite(v)
                           \/ \E f \in Files : RemoveSource(v, f)
                           \/ \E f \in Files, c \in Contents : PutFileOpen(v, f, c)
    BY <1>4
  <2>2. requests' = Touch(v)
    BY <2>1 DEF PutFileWrite, RemoveSource, PutFileOpen
  <2>3. \E f, c : source' = [source EXCEPT ![v][f] = c]
    BY <2>1 DEF PutFileWrite, RemoveSource, PutFileOpen
  <2>. QED
    BY <1>2, <2>2, <2>3
<1>. QED
  BY <1>3, <1>4
  DEF Next, vars, Begin, StatDest, BuildView, StageFile, CompileCheck, PublishFails,
      MkdirDest, InstallFile, InstallFails, Crash, SeedFile, SeedDone, SeedCut

(* How a publish that is past its listing may have changed: the same, or   *)
(* touched, ended, or moved on by a step of its own.                       *)
Same(r) ==
  LET q == requests[r]
      x == requests'[r]
  IN /\ x.user = q.user /\ x.dest = q.dest /\ x.files = q.files /\ x.left = q.left
     /\ x.staged = q.staged /\ x.view = q.view /\ x.calm = q.calm
     /\ q.touched => x.touched

(* The ways in which one request can change in a step.                     *)
LEMMA Moves ==
  ASSUME TypeOK, [Next]_vars, NEW r \in Requests
  PROVE  \/ Same(r) /\ requests'[r].at = requests[r].at
         \/ /\ Same(r) /\ Live(r)
            /\ \/ requests'[r].at = "refused" /\ requests[r].at # "install"
               \/ requests'[r].at = "aborted" /\ requests[r].at = "install"
         \/ \E u \in Users, p \in Packages : Begin(r, u, p)
         \/ /\ Same(r) /\ requests[r].at = "stat"
            /\ \/ requests'[r].at = "refused"
               \/ requests'[r].at = "view" /\ ~Taken(requests[r].dest)
         \/ BuildView(r) \/ StageFile(r) \/ CompileCheck(r)
         \/ MkdirDest(r) \/ InstallFile(r)
<1>1. requests[r] \in Request
  BY DEF TypeOK
<1>2. CASE requests'[r] = requests[r]
  BY <1>2 DEF Same
<1>3. CASE Live(r) /\ requests'[r] = [requests[r] EXCEPT !.touched = TRUE]
  BY <1>1, <1>3 DEF Same, Request
<1>4. CASE Live(r) /\ Halted(r)
  BY <1>1, <1>4 DEF Same, Halted, At, Request
<1>5. CASE StatDest(r)
  <2>1. requests'[r] = [requests[r] EXCEPT !.at =
          IF Taken(requests[r].dest) THEN "refused" ELSE "view"]
    BY <1>5 DEF StatDest, Become, TypeOK
  <2>. QED
    BY <1>1, <1>5, <2>1 DEF Same, Request, StatDest, At
<1>. QED
  BY <1>2, <1>3, <1>4, <1>5, RequestFrame

(* What Begin does to its request.                                         *)
LEMMA BeginMove ==
  ASSUME TypeOK, NEW r \in Requests, NEW u \in Users, NEW p \in Packages, Begin(r, u, p)
  PROVE  /\ requests[r].at = "new"
         /\ requests'[r].at = "stat" /\ requests'[r].dest = p
         /\ requests'[r].user = u /\ requests'[r].files = Present(source[u])
         /\ source' = source /\ p # House
<1>1. requests'[r] = [requests[r] EXCEPT !.at = "stat", !.user = u, !.dest = p,
                        !.files = Present(source[u]), !.touched = put[u] # None]
  BY DEF Begin, Become, TypeOK
<1>2. requests[r] \in Request /\ p # House
  BY Seedlings DEF TypeOK, Begin, Authorised
<1>. QED
  BY <1>1, <1>2 DEF Request, Begin, At

(* What BuildView does to its request.                                     *)
LEMMA ViewMove ==
  ASSUME TypeOK, NEW r \in Requests, BuildView(r)
  PROVE  /\ requests[r].at = "view" /\ requests'[r].at = "stage"
         /\ requests'[r].dest = requests[r].dest /\ requests'[r].user = requests[r].user
         /\ requests'[r].files = requests[r].files /\ requests'[r].left = requests[r].files
         /\ requests'[r].touched = requests[r].touched
         /\ source' = source
<1>. DEFINE q == requests[r]
<1>1. requests'[r] = [q EXCEPT !.at = "stage", !.left = q.files,
                               !.view = CheckView(q.user, q.dest)]
  BY DEF BuildView, ToInstall, Become, TypeOK
<1>2. q \in Request
  BY DEF TypeOK
<1>. QED
  BY <1>1, <1>2 DEF Request, BuildView, At

(* What StageFile does to its request.                                     *)
LEMMA StageMove ==
  ASSUME TypeOK, NEW r \in Requests, StageFile(r)
  PROVE  LET q == requests[r]
             x == requests'[r]
             f == First(q.left)
             c == source[q.user][f]
         IN /\ q.at = "stage" /\ f \in q.left /\ x.dest = q.dest /\ source' = source
            /\ \/ x.at = "refused"
               \/ /\ x.user = q.user /\ x.files = q.files /\ x.touched = q.touched
                  /\ x.left = q.left \ {f} /\ x.staged = [q.staged EXCEPT ![f] = c]
                  /\ x.at = "stage" \/ (x.at = "check" /\ x.left = {})
<1>. DEFINE q == requests[r]
            f == First(q.left)
            c == source[q.user][f]
            y == Copied(q, f, "check")
            d == [q.staged EXCEPT ![f] = c]
<1>1. q \in Request /\ q.at = "stage" /\ f \in q.left /\ source' = source
  BY FirstIn DEF StageFile, At, TypeOK
<1>2. CASE c = Missing
  <2>1. requests'[r] = [q EXCEPT !.at = "refused"]
    BY <1>2 DEF StageFile, Become, TypeOK
  <2>. QED
    BY <1>1, <2>1 DEF Request
<1>3. CASE c # Missing
  <2>1. requests'[r] = [y EXCEPT !.staged = d]
    BY <1>3 DEF StageFile, Become, TypeOK
  <2>2. /\ y \in Request /\ y.left = q.left \ {f} /\ y.at \in {"check", "stage"}
        /\ y.at = "stage" \/ q.left = {f}
        /\ y.user = q.user /\ y.dest = q.dest /\ y.files = q.files
        /\ y.touched = q.touched
    BY <1>1, CopiedType
  <2>. HIDE DEF y, d
  <2>3. LET x == requests'[r]
        IN /\ x.at = y.at /\ x.left = y.left /\ x.user = y.user /\ x.dest = y.dest
           /\ x.files = y.files /\ x.touched = y.touched /\ x.staged = d
    BY <2>1, <2>2 DEF Request
  <2>. QED
    BY <1>1, <2>2, <2>3 DEF d
<1>. QED
  BY <1>2, <1>3

(* What CompileCheck does to its request.                                  *)
LEMMA CheckMove ==
  ASSUME TypeOK, NEW r \in Requests, CompileCheck(r)
  PROVE  LET q == requests[r]
             x == requests'[r]
         IN /\ q.at = "check" /\ source' = source /\ store' = store
            /\ x.user = q.user /\ x.dest = q.dest /\ x.files = q.files
            /\ x.touched = q.touched /\ x.staged = q.staged /\ x.view = q.view
            /\ x.at = "refused" \/ (x.at = "mkdir" /\ Verdict(q) /\ x.calm = Calm(q))
<1>. DEFINE q == requests[r]
<1>1. q \in Request /\ Calm(q) \in BOOLEAN
  BY DEF TypeOK, Calm
<1>2. \/ requests'[r] = [q EXCEPT !.at = "refused"]
      \/ Verdict(q) /\ requests'[r] = [q EXCEPT !.at = "mkdir", !.calm = Calm(q)]
  BY DEF CompileCheck, Become, TypeOK
<1>. QED
  BY <1>1, <1>2 DEF CompileCheck, At, Request

(* What MkdirDest does to its request and its version.                     *)
LEMMA MkdirMove ==
  ASSUME TypeOK, NEW r \in Requests, MkdirDest(r)
  PROVE  LET q == requests[r]
             x == requests'[r]
         IN /\ q.at = "mkdir" /\ x.at = "install" /\ source' = source
            /\ x.user = q.user /\ x.dest = q.dest /\ x.files = q.files
            /\ x.left = q.files /\ x.view = q.view /\ x.calm = q.calm
            /\ x.touched = q.touched /\ x.staged = q.staged
            /\ store' = [store EXCEPT ![q.dest] = IF @ = None THEN Empty ELSE @]
<1>. DEFINE q == requests[r]
<1>1. requests'[r] = [q EXCEPT !.at = "install", !.left = q.files]
  BY DEF MkdirDest, ToInstall, Become, TypeOK
<1>2. q \in Request
  BY DEF TypeOK
<1>. QED
  BY <1>1, <1>2 DEF MkdirDest, At, Request

(* What InstallFile does to its request and its version.                   *)
LEMMA InstallMove ==
  ASSUME TypeOK, NEW r \in Requests, InstallFile(r)
  PROVE  LET q == requests[r]
             x == requests'[r]
             f == First(q.left)
             c == source[q.user][f]
         IN /\ q.at = "install" /\ f \in q.left /\ source' = source
            /\ x.user = q.user /\ x.dest = q.dest /\ x.files = q.files
            /\ x.touched = q.touched /\ x.staged = q.staged
            /\ x.view = q.view /\ x.calm = q.calm
            /\ \/ x.at = "aborted"
               \/ /\ x.at = "install" \/ (x.at = "published" /\ x.left = {})
                  /\ x.left = q.left \ {f}
                  /\ store' = [store EXCEPT ![q.dest][f] = c]
<1>. DEFINE q == requests[r]
            f == First(q.left)
            c == source[q.user][f]
            y == Copied(q, f, "published")
<1>1. q \in Request /\ q.at = "install" /\ f \in q.left /\ source' = source
  BY FirstIn DEF InstallFile, At, TypeOK
<1>2. CASE requests'[r] = [q EXCEPT !.at = "aborted"]
  BY <1>1, <1>2 DEF Request
<1>3. CASE requests'[r] = y /\ store' = [store EXCEPT ![q.dest][f] = c]
  <2>1. /\ y.left = q.left \ {f} /\ y.at \in {"published", "install"}
        /\ y.at = "install" \/ q.left = {f}
        /\ y.user = q.user /\ y.dest = q.dest /\ y.files = q.files
        /\ y.staged = q.staged /\ y.touched = q.touched
        /\ y.view = q.view /\ y.calm = q.calm
    BY <1>1, CopiedType
  <2>. HIDE DEF y
  <2>. QED
    BY <1>1, <1>3, <2>1
<1>. QED
  BY <1>2, <1>3 DEF InstallFile, Become, TypeOK

(* A publish that stays where it is writes nothing.                        *)
LEMMA OwnWrites ==
  ASSUME TypeOK, [Next]_vars, NEW r \in Requests, Same(r),
         requests'[r].at = requests[r].at, requests'[r].at \in {"install", "published"},
         ~requests'[r].touched, NEW p \in Packages, Writing(r, p)
  PROVE  FALSE
<1>. DEFINE q == requests[r]
            x == requests'[r]
<1>1. q \in Request /\ x = q
  <2>1. CASE x = q
    BY <2>1 DEF TypeOK
  <2>2. CASE Live(r) /\ x = [q EXCEPT !.touched = TRUE]
    BY <2>2 DEF TypeOK, Request
  <2>3. CASE Live(r) /\ Halted(r)
    BY <2>3 DEF TypeOK, Request, Halted
  <2>4. ~InstallFile(r)
    BY InstallMove DEF Same
  <2>. QED
    BY <2>1, <2>2, <2>3, <2>4, RequestFrame, BeginMove, ViewMove, StageMove, CheckMove,
       MkdirMove DEF StatDest, At
<1>. QED
  BY <1>1 DEF Writing

-----------------------------------------------------------------------------
(* The inductive invariant.                                                *)

(* A publish never targets the built-in package.                           *)
Foreign == \A r \in Requests :
  requests[r].at # "new" => requests[r].dest \in Packages \ {House}

(* A version exists only because some publish wrote to it.                 *)
Owned == \A p \in Packages \ {House} : store[p] # None => Writers(p) # {}

(* What is staged from a source that did not change is what is in it.      *)
Unstaged(q) == CASE q.at \in {"new", "stat", "view"} -> Files
                 [] q.at = "stage" -> q.left
                 [] OTHER -> {}
Copies == \A r \in Requests : Live(r) /\ ~requests[r].touched =>
  \A f \in requests[r].files \ Unstaged(requests[r]) :
    requests[r].staged[f] = source[requests[r].user][f]

(* A publish past the check staged a package that is in order.             *)
Checked == \A r \in Requests :
  requests[r].at \in {"mkdir", "install", "published"} => Whole(requests[r].staged)

(* The only writer of a version, whose source did not change, has put into *)
(* the store what it staged, but for the files still to come.              *)
Installed == \A r \in Requests :
  LET q == requests[r]
  IN q.at \in {"install", "published"} /\ ~q.touched /\ Writers(q.dest) = {r} =>
       \A f \in Files : store[q.dest][f] =
         IF q.at = "install" /\ f \in q.left THEN Missing ELSE q.staged[f]

Inv == TypeOK /\ Opened /\ Foreign /\ Owned /\ Copies /\ Checked /\ Installed

(* The invariant holds at the start.                                       *)
LEMMA InitInv == Init => Inv
<1>. SUFFICES ASSUME Init PROVE Inv
  OBVIOUS
<1>1. TypeOK
  BY InitType
<1>2. \A r \in Requests : requests[r].at = "new"
  BY DEF Init
<1>3. \A p \in Packages : store[p] = None
  BY DEF Init
<1>. QED
  BY <1>1, <1>2, <1>3
  DEF Inv, Opened, Foreign, Owned, Copies, Checked, Installed, Live

(* A request that is installing goes on having a directory to write to.    *)
LEMMA OpenedStep == TypeOK /\ Opened /\ Foreign /\ [Next]_vars => Opened'
<1>. SUFFICES ASSUME TypeOK, Opened, Foreign, [Next]_vars, NEW r \in Requests,
                     requests'[r].at \in {"install", "published", "aborted"}
              PROVE  store'[requests'[r].dest] # None
  BY DEF Opened
<1>1. CASE requests[r].at \in {"install", "published", "aborted"}
           /\ requests'[r].dest = requests[r].dest
  BY <1>1, StoreStays DEF Opened, Foreign
<1>2. CASE MkdirDest(r)
  <2>. DEFINE q == requests[r]
  <2>1. /\ q.at = "mkdir" /\ requests'[r].dest = q.dest
        /\ store' = [store EXCEPT ![q.dest] = IF @ = None THEN Empty ELSE @]
    BY <1>2, MkdirMove
  <2>2. q.dest \in Packages
    BY <2>1 DEF Foreign
  <2>. QED
    BY <2>1, <2>2, EmptyType, NotDirs DEF TypeOK
<1>. QED
  BY <1>1, <1>2, Moves, BeginMove, ViewMove, StageMove, CheckMove, InstallMove DEF Same

(* No publish gets to the built-in package.                                *)
LEMMA ForeignStep == TypeOK /\ Foreign /\ [Next]_vars => Foreign'
<1>. SUFFICES ASSUME TypeOK, Foreign, [Next]_vars, NEW r \in Requests,
                     requests'[r].at # "new"
              PROVE  requests'[r].dest \in Packages \ {House}
  BY DEF Foreign
<1>1. CASE requests[r].at # "new" /\ requests'[r].dest = requests[r].dest
  BY <1>1 DEF Foreign
<1>2. CASE \E u \in Users, p \in Packages : Begin(r, u, p)
  BY <1>2, BeginMove
<1>. QED
  BY <1>1, <1>2, Moves, ViewMove, StageMove, CheckMove, MkdirMove, InstallMove
  DEF Same, Live

(* A writer of a version remains one.                                      *)
LEMMA WritersGrow ==
  ASSUME TypeOK, [Next]_vars, NEW p \in Packages
  PROVE  Writers(p) \subseteq Writers(p)'
<1>. SUFFICES ASSUME NEW r \in Requests, requests[r].dest = p,
                     requests[r].at \in {"install", "published", "aborted"}
              PROVE  /\ requests'[r].dest = p
                     /\ requests'[r].at \in {"install", "published", "aborted"}
  BY DEF Writers
<1>1. CASE Same(r) /\ \/ requests'[r].at = requests[r].at
                       \/ requests'[r].at = "aborted"
  BY <1>1 DEF Same
<1>2. CASE InstallFile(r)
  BY <1>2, InstallMove
<1>3. /\ ~BuildView(r) /\ ~StageFile(r) /\ ~CompileCheck(r) /\ ~MkdirDest(r)
      /\ ~\E u \in Users, q \in Packages : Begin(r, u, q)
  BY BeginMove, StageMove, ViewMove, CheckMove, MkdirMove
<1>4. \/ Same(r) /\ requests'[r].at = requests[r].at
      \/ Same(r) /\ requests'[r].at = "aborted"
      \/ InstallFile(r)
  BY <1>3, Moves DEF Live
<1>. QED
  BY <1>1, <1>2, <1>4

(* A version that exists goes on having a publish that wrote it.           *)
LEMMA OwnedStep == TypeOK /\ Owned /\ [Next]_vars => Owned'
<1>. SUFFICES ASSUME TypeOK, Owned, [Next]_vars, NEW p \in Packages \ {House},
                     store'[p] # None
              PROVE  Writers(p)' # {}
  BY DEF Owned
<1>1. CASE store'[p] = store[p]
  BY <1>1, WritersGrow DEF Owned
<1>2. CASE store'[p] # store[p]
  BY <1>2, StoreFrame DEF Writing, Writers
<1>. QED
  BY <1>1, <1>2

(* The staged copy goes on agreeing with an untouched source.              *)
LEMMA CopiesStep == TypeOK /\ TypeOK' /\ Copies /\ [Next]_vars => Copies'
<1>. SUFFICES ASSUME TypeOK, TypeOK', Copies, [Next]_vars, NEW r \in Requests,
                     Live(r)', ~requests'[r].touched,
                     NEW f \in requests'[r].files \ Unstaged(requests'[r])
              PROVE  requests'[r].staged[f] = source'[requests'[r].user][f]
  BY DEF Copies
<1>. DEFINE q == requests[r]
            x == requests'[r]
<1>1. q \in Request
  BY DEF TypeOK
<1>2. CASE Same(r) /\ x.at = q.at
  <2>1. Live(r)
    BY <1>2 DEF Live
  <2>2. Unstaged(x) = Unstaged(q) /\ ~q.touched
    BY <1>1, <1>2 DEF Same, Unstaged
  <2>3. source'[q.user] = source[q.user]
    BY <2>1, SourceFrame
  <2>. QED
    BY <1>2, <2>1, <2>2, <2>3 DEF Same, Copies
<1>3. x.at \notin {"refused", "aborted", "published"}
  BY DEF Live
<1>4. CASE x.at \in {"stat", "view"}
  <2>1. Unstaged(x) = Files
    BY <1>4 DEF Unstaged
  <2>2. x.files \subseteq Files
    BY DEF TypeOK, Request
  <2>. QED
    BY <2>1, <2>2
<1>5. CASE BuildView(r)
  BY <1>5, ViewMove DEF Unstaged
<1>6. CASE StageFile(r)
  <2>. DEFINE g == First(q.left)
              c == source[q.user][g]
  <2>1. /\ q.at = "stage" /\ g \in q.left /\ source' = source
        /\ x.user = q.user /\ x.files = q.files /\ x.touched = q.touched
        /\ x.left = q.left \ {g} /\ x.staged = [q.staged EXCEPT ![g] = c]
        /\ x.at = "stage" \/ (x.at = "check" /\ x.left = {})
    BY <1>3, <1>6, StageMove
  <2>2. f \in q.files /\ (f = g \/ f \notin q.left) /\ f \in Files
    BY <1>1, <2>1 DEF Unstaged, Request
  <2>3. q.staged \in Dir
    BY <1>1 DEF Request
  <2>4. f # g => q.staged[f] = source[q.user][f]
    BY <2>1, <2>2 DEF Copies, Live, Unstaged
  <2>. QED
    BY <2>1, <2>2, <2>3, <2>4 DEF Dir
<1>7. CASE CompileCheck(r)
  BY <1>3, <1>7, CheckMove DEF Copies, Live, Unstaged
<1>8. CASE MkdirDest(r)
  BY <1>8, MkdirMove DEF Copies, Live, Unstaged
<1>9. CASE InstallFile(r)
  <2>1. /\ q.at = "install" /\ x.at = "install" /\ source' = source
        /\ x.user = q.user /\ x.files = q.files /\ x.touched = q.touched
        /\ x.staged = q.staged
    BY <1>3, <1>9, InstallMove
  <2>2. Live(r) /\ Unstaged(q) = {} /\ Unstaged(x) = {}
    BY <2>1 DEF Live, Unstaged
  <2>. QED
    BY <2>1, <2>2 DEF Copies
<1>. QED
  BY <1>2, <1>3, <1>4, <1>5, <1>6, <1>7, <1>8, <1>9, Moves, BeginMove

(* What passed the check goes on being whole.                              *)
LEMMA CheckedStep == TypeOK /\ Checked /\ [Next]_vars => Checked'
<1>. SUFFICES ASSUME TypeOK, Checked, [Next]_vars, NEW r \in Requests,
                     requests'[r].at \in {"mkdir", "install", "published"}
              PROVE  Whole(requests'[r].staged)
  BY DEF Checked, Whole
<1>1. CASE requests[r].at \in {"mkdir", "install", "published"}
           /\ requests'[r].staged = requests[r].staged
  BY <1>1 DEF Checked
<1>2. CASE CompileCheck(r)
  BY <1>2, CheckMove DEF Verdict, Loads
<1>. QED
  BY <1>1, <1>2, Moves, BeginMove, ViewMove, StageMove, MkdirMove, InstallMove DEF Same

(* A version with one writer goes on holding what that writer has copied.  *)
LEMMA InstalledStep ==
  /\ TypeOK /\ TypeOK' /\ Opened /\ Foreign /\ Owned /\ Copies /\ Installed
  /\ [Next]_vars
  => Installed'
<1>. SUFFICES ASSUME TypeOK, TypeOK', Opened, Foreign, Owned, Copies, Installed,
                     [Next]_vars, NEW r \in Requests,
                     requests'[r].at \in {"install", "published"},
                     ~requests'[r].touched, Writers(requests[r].dest)' = {r},
                     NEW f \in Files
              PROVE  store'[requests'[r].dest][f] =
                       IF requests'[r].at = "install" /\ f \in requests'[r].left
                       THEN Missing ELSE requests'[r].staged[f]
  BY Zenon DEF Installed
<1>. DEFINE q == requests[r]
            x == requests'[r]
            p == q.dest
<1>1. q \in Request /\ x \in Request
  BY DEF TypeOK
<1>2. CASE Same(r) /\ x.at = q.at
  <2>1. p \in Packages \ {House} /\ x.dest = p /\ ~q.touched
    BY <1>2 DEF Same, Foreign
  <2>2. r \in Writers(p) /\ Writers(p) \subseteq {r}
    BY <1>2, <2>1, WritersGrow DEF Writers, Same
  <2>3. store'[p] = store[p]
    <3>1. SUFFICES ASSUME store'[p] # store[p] PROVE FALSE
      OBVIOUS
    <3>2. PICK s \in Requests : Writing(s, p)
      BY <2>1, <3>1, StoreFrame
    <3>3. s = r
      BY <2>1, <3>2 DEF Writing, Writers
    <3>. QED
      BY <1>2, <2>1, <3>1, <3>2, <3>3, OwnWrites
  <2>. QED
    BY <1>2, <2>1, <2>2, <2>3 DEF Same, Installed
<1>3. CASE MkdirDest(r)
  <2>1. /\ q.at = "mkdir" /\ x.at = "install" /\ source' = source
        /\ x.dest = p /\ x.left = q.files /\ x.staged = q.staged
        /\ store' = [store EXCEPT ![p] = IF @ = None THEN Empty ELSE @]
    BY <1>3, MkdirMove
  <2>2. p \in Packages \ {House}
    BY <2>1 DEF Foreign
  <2>3. Writers(p) = {}
    <3>1. Writers(p) \subseteq {r}
      BY <2>1, <2>2, WritersGrow
    <3>2. r \notin Writers(p)
      BY <2>1 DEF Writers
    <3>. QED
      BY <3>1, <3>2
  <2>4. store[p] = None /\ store'[p] = Empty
    BY <2>1, <2>2, <2>3 DEF Owned, TypeOK
  <2>5. f \notin q.files => q.staged[f] = Missing
    BY <1>1 DEF Request, Present
  <2>. QED
    BY <2>1, <2>4, <2>5 DEF Empty
<1>4. CASE InstallFile(r)
  <2>. DEFINE g == First(q.left)
              c == source[q.user][g]
  <2>1. /\ q.at = "install" /\ g \in q.left
        /\ x.dest = p /\ x.staged = q.staged /\ x.touched = q.touched
        /\ x.at = "install" \/ (x.at = "published" /\ x.left = {})
        /\ x.left = q.left \ {g}
        /\ store' = [store EXCEPT ![p][g] = c]
    BY <1>4, InstallMove
  <2>2. p \in Packages \ {House} /\ g \in Files /\ g \in q.files
    BY <1>1, <2>1 DEF Foreign, Request
  <2>3. Writers(p) = {r}
    BY <2>1, <2>2, WritersGrow DEF Writers
  <2>4. store[p] \in Dir
    BY <2>1, <2>2 DEF Opened, TypeOK
  <2>5. store'[p] = [store[p] EXCEPT ![g] = c]
    BY <2>1, <2>2 DEF TypeOK
  <2>6. c = q.staged[g]
    BY <2>1, <2>2 DEF Copies, Live, Unstaged
  <2>7. store[p][f] = IF f \in q.left THEN Missing ELSE q.staged[f]
    BY <2>1, <2>3 DEF Installed
  <2>8. store'[p][f] = IF f = g THEN c ELSE store[p][f]
    BY <2>4, <2>5 DEF Dir
  <2>9. IF x.at = "install" /\ f \in x.left THEN f \in q.left /\ f # g
        ELSE f = g \/ f \notin q.left
    BY <2>1
  <2>. QED
    BY <2>1, <2>6, <2>7, <2>8, <2>9
<1>. QED
  BY <1>2, <1>3, <1>4, Moves, BeginMove, ViewMove, StageMove, CheckMove

(* The invariant is inductive.                                             *)
LEMMA StepInv == Inv /\ [Next]_vars => Inv'
<1>. SUFFICES ASSUME Inv, [Next]_vars PROVE Inv'
  OBVIOUS
<1>1. TypeOK'
  BY StepType DEF Inv
<1>2. Opened' /\ Foreign' /\ Owned'
  BY OpenedStep, ForeignStep, OwnedStep DEF Inv
<1>3. Copies' /\ Checked'
  BY <1>1, CopiesStep, CheckedStep DEF Inv
<1>4. Installed'
  BY <1>1, InstalledStep DEF Inv
<1>. QED
  BY <1>1, <1>2, <1>3, <1>4 DEF Inv

-----------------------------------------------------------------------------
(* The theorems.                                                           *)

(* The inductive invariant holds in every state the server reaches.        *)
THEOREM InvHolds == Spec => []Inv
BY InitInv, StepInv, PTL DEF Spec

(* Every variable stays in its type.                                       *)
THEOREM TypeCorrect == Spec => []TypeOK
BY InvHolds, PTL DEF Inv

(* The invariant implies what is promised of an undisturbed publish.       *)
LEMMA AsChecked == Inv => PublishedAsChecked
<1>. SUFFICES ASSUME Inv, NEW r \in Requests, Undisturbed(r)
              PROVE  /\ store[requests[r].dest] = requests[r].staged
                     /\ Whole(store[requests[r].dest])
  BY DEF PublishedAsChecked
<1>. DEFINE q == requests[r]
<1>1. q.at = "published" /\ ~q.touched /\ Writers(q.dest) = {r}
  BY DEF Undisturbed, Published, At
<1>2. \A f \in Files : store[q.dest][f] = q.staged[f]
  BY <1>1 DEF Inv, Installed
<1>3. q.staged \in Dir /\ store[q.dest] \in Dir
  BY <1>1 DEF Inv, TypeOK, Request, Opened, Foreign
<1>4. store[q.dest] = q.staged
  BY <1>2, <1>3 DEF Dir
<1>. QED
  BY <1>1, <1>4 DEF Inv, Checked

(* What an undisturbed publish leaves in the store is what was checked.    *)
THEOREM PublishesWhatWasChecked == Spec => []PublishedAsChecked
BY InvHolds, AsChecked, PTL

(* No publish passes the stat of a version that exists.                    *)
LEMMA NotInFlightStep ==
  ASSUME Inv, [Next]_vars, NEW p \in Packages, Settled(p)
  PROVE  ~InFlight(p)'
<1>. SUFFICES ASSUME NEW r \in Requests, requests'[r].dest = p,
                     requests'[r].at \in {"view", "stage", "check", "mkdir", "install"}
              PROVE  FALSE
  BY DEF InFlight
<1>. DEFINE q == requests[r]
<1>1. ~(q.dest = p /\ q.at \in {"view", "stage", "check", "mkdir", "install"})
  BY DEF Settled, InFlight
<1>2. ~(Same(r) /\ requests'[r].at = q.at)
  BY <1>1 DEF Same
<1>3. ~BuildView(r) /\ ~StageFile(r) /\ ~CompileCheck(r) /\ ~MkdirDest(r) /\ ~InstallFile(r)
  BY <1>1, ViewMove, StageMove, CheckMove, MkdirMove, InstallMove DEF Inv
<1>4. \A u \in Users, v \in Packages : ~Begin(r, u, v)
  BY BeginMove DEF Inv
<1>. QED
  BY <1>2, <1>3, <1>4, Moves DEF Inv, Same, Settled, Taken

(* Only a publish past the stat writes, and it writes to its own version.  *)
LEMMA SettledStep ==
  ASSUME Inv, [Next]_vars, NEW p \in Packages, Settled(p), p = House => Whole(store[p])
  PROVE  store'[p] = store[p] /\ Settled(p)'
<1>1. store'[p] = store[p]
  BY StoreFrame DEF Inv, Foreign, Settled, InFlight, Writing
<1>. QED
  BY <1>1, NotInFlightStep DEF Settled

(* A settled version stays as it is.                                       *)
THEOREM SettledVersionsAreImmutable == Spec => SettledVersionsStay
<1>1. Inv /\ [Next]_vars =>
        [\A p \in Packages \ {House} :
           Settled(p) => Settled(p)' /\ store'[p] = store[p]]_vars
  BY SettledStep
<1>. QED
  BY <1>1, InvHolds, PTL DEF Spec, SettledVersionsStay

(* A calm check rests on settled packages that load from each other.       *)
RestsOn(deps, d) ==
  /\ ImportsOf(d) \subseteq deps
  /\ \A p \in deps : Settled(p) /\ Whole(store[p]) /\ ImportsOf(store[p]) \subseteq deps
Grounded == \A r \in Requests :
  LET q == requests[r]
  IN q.at \in {"mkdir", "install", "published"} /\ q.calm =>
       \E deps \in SUBSET q.view : RestsOn(deps, q.staged)

RestsStepped(deps, d) ==
  /\ ImportsOf(d) \subseteq deps
  /\ \A p \in deps : /\ Settled(p)' /\ Whole(store'[p])
                     /\ ImportsOf(store'[p]) \subseteq deps

(* Settled packages that load from each other go on doing so.              *)
LEMMA RestsStep ==
  ASSUME Inv, [Next]_vars, NEW deps \in SUBSET Packages, NEW d, RestsOn(deps, d)
  PROVE  RestsStepped(deps, d)
<1>1. \A p \in deps : store'[p] = store[p] /\ Settled(p)'
  BY SettledStep DEF RestsOn
<1>. QED
  BY <1>1 DEF RestsOn, RestsStepped

(* What a calm check rested on stays in place.                             *)
LEMMA GroundedStep == Inv /\ Grounded /\ [Next]_vars => Grounded'
<1>. SUFFICES ASSUME Inv, Grounded, [Next]_vars, NEW r \in Requests,
                     requests'[r].at \in {"mkdir", "install", "published"},
                     requests'[r].calm
              PROVE  \E deps \in SUBSET requests'[r].view :
                       RestsStepped(deps, requests'[r].staged)
  BY DEF Grounded, RestsOn, RestsStepped, ImportsOf, Present, Whole
<1>. DEFINE q == requests[r]
            x == requests'[r]
<1>1. q \in Request /\ q.view \subseteq Packages
  BY DEF Inv, TypeOK, Request
<1>2. /\ x.staged = q.staged /\ x.view = q.view
      /\ \E deps \in SUBSET q.view : RestsOn(deps, q.staged)
  <2>1. CASE /\ x.staged = q.staged /\ x.view = q.view /\ x.calm = q.calm
             /\ q.at \in {"mkdir", "install", "published"}
    BY <2>1 DEF Grounded
  <2>2. CASE CompileCheck(r)
    <3>1. x.staged = q.staged /\ x.view = q.view /\ Verdict(q) /\ Calm(q)
      BY <2>2, CheckMove DEF Inv
    <3>2. PICK deps \in SUBSET {p \in q.view : store[p] # None} :
            /\ ImportsOf(q.staged) \subseteq deps
            /\ \A p \in deps : Whole(store[p]) /\ ImportsOf(store[p]) \subseteq deps
      BY <3>1 DEF Verdict, Loads
    <3>3. RestsOn(deps, q.staged) /\ deps \subseteq q.view
      BY <3>1, <3>2 DEF RestsOn, Settled, Calm
    <3>. QED
      BY <3>1, <3>3
  <2>. QED
    BY <2>1, <2>2, Moves, BeginMove, ViewMove, StageMove, MkdirMove, InstallMove
    DEF Inv, Same
<1>3. PICK deps \in SUBSET q.view : RestsOn(deps, q.staged)
  BY <1>2
<1>4. RestsStepped(deps, q.staged)
  BY <1>1, <1>3, RestsStep
<1>. QED
  BY <1>2, <1>3, <1>4

(* So an undisturbed version loads with what its check could see.          *)
LEMMA KeepsCompiling == Inv /\ Grounded => PublishedKeepsCompiling
<1>. SUFFICES ASSUME Inv, Grounded, NEW r \in Requests, Undisturbed(r), requests[r].calm
              PROVE  Loads(store[requests[r].dest], requests[r].view)
  BY DEF PublishedKeepsCompiling
<1>. DEFINE q == requests[r]
<1>1. store[q.dest] = q.staged /\ Whole(q.staged)
  BY AsChecked DEF PublishedAsChecked
<1>2. PICK deps \in SUBSET q.view : RestsOn(deps, q.staged)
  BY DEF Grounded, Undisturbed, Published, At
<1>3. deps \in SUBSET {p \in q.view : store[p] # None}
  BY <1>2 DEF RestsOn, Settled
<1>. QED
  BY <1>1, <1>2, <1>3 DEF Loads, RestsOn

(* Undisturbed and checked in calm, a version compiles for ever: what it   *)
(* rests on was settled at the check, and settled versions stay.           *)
THEOREM PublishedVersionsKeepCompiling == Spec => []PublishedKeepsCompiling
<1>1. Init => Grounded
  BY DEF Init, Grounded
<1>. QED
  BY <1>1, InitInv, StepInv, GroundedStep, KeepsCompiling, PTL DEF Spec

(* The files a start has visited are there.                                *)
Filled == boot \in {"seeding", "up"} =>
  /\ \A f \in seeded : ~Seedable(f)
  /\ boot = "up" => Present(Bundled) \subseteq seeded

(* What the seed has visited stays present.                                *)
LEMMA FilledStep == Inv /\ Filled /\ [Next]_vars => Filled'
<1>. SUFFICES ASSUME Inv, Filled, [Next]_vars, boot' \in {"seeding", "up"}
              PROVE  /\ \A f \in seeded' : ~Seedable(f)'
                     /\ boot' = "up" => Present(Bundled) \subseteq seeded'
  BY DEF Filled, Present
<1>. USE DEF Inv
<1>1. \A f \in Files : ~Seedable(f) => ~Seedable(f)'
  BY StoreStays, Seedlings DEF Seedable
<1>2. seeded \subseteq Files
  BY DEF TypeOK
<1>3. CASE SeedFile
  <2>. DEFINE f == First(ToSeed)
  <2>1. f \in Files /\ Bundled[f] # Missing
    BY <1>3, FirstIn DEF SeedFile, ToSeed, Present
  <2>2. CASE Seedable(f)
    <3>1. store' = [store EXCEPT ![House] = Seeded(@, f, Bundled[f])]
      BY <1>3, <2>2 DEF SeedFile
    <3>2. (IF store[House] = None THEN Empty ELSE store[House]) \in Dir
      BY EmptyType, Seedlings DEF TypeOK
    <3>3. Bundled[f] \in File
      BY <2>1, Seedlings
    <3>4. store'[House] = Seeded(store[House], f, Bundled[f])
      BY <3>1, Seedlings DEF TypeOK
    <3>5. store'[House] \in Dir /\ store'[House][f] = Bundled[f]
      BY <2>1, <3>2, <3>3, <3>4, DirExcept DEF Seeded, Dir
    <3>. QED
      BY <1>1, <1>2, <1>3, <2>1, <3>5, NotDirs DEF SeedFile, Filled, Seedable
  <2>3. CASE ~Seedable(f)
    BY <1>1, <1>2, <1>3, <2>1, <2>3 DEF SeedFile, Filled
  <2>. QED
    BY <2>2, <2>3
<1>4. CASE SeedDone
  BY <1>1, <1>2, <1>4 DEF SeedDone, Filled, ToSeed
<1>5. CASE Crash
  BY <1>5 DEF Crash
<1>6. CASE SeedCut
  BY <1>6 DEF SeedCut
<1>7. CASE UNCHANGED <<boot, seeded>>
  BY <1>1, <1>2, <1>7 DEF Filled
<1>. QED
  BY <1>3, <1>4, <1>5, <1>6, <1>7
  DEF Next, vars, Begin, StatDest, BuildView, StageFile, CompileCheck, PublishFails,
      MkdirDest, InstallFile, InstallFails, PutFileOpen, PutFileWrite, RemoveSource

(* A seed that ran to its end left no gap.                                 *)
THEOREM SeedLeavesNoGap == Spec => []SeedFillsGaps
<1>1. Init => Filled
  BY DEF Init, Filled
<1>2. Inv /\ Filled => SeedFillsGaps
  BY DEF Filled, SeedFillsGaps, Seedable
<1>. QED
  BY <1>1, <1>2, InitInv, StepInv, FilledStep, PTL DEF Spec
=============================================================================
