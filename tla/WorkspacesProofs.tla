--------------------------- MODULE WorkspacesProofs ---------------------------
(***************************************************************************)
(* Theorems about Workspaces for every number of users, documents, fonts,  *)
(* concurrent requests, ticks and faults, and for every pair of lifetimes. *)
(***************************************************************************)
EXTENDS Workspaces, TLAPS

-----------------------------------------------------------------------------
(* Types.                                                                  *)

(* A running request and its directories.                                  *)
LEMMA RunningType ==
  ASSUME TypeOK, NEW r \in Requests, Running(r)
  PROVE  /\ requests[r] \in Request
         /\ Home(r) \in Dir /\ Raw(requests[r].user) \in Dir
         /\ requests[r].user \in Users
  BY DEF TypeOK, Running, Request, Home, DirName, Raw, Dir

(* A request that moves on to a step of the resolver.                      *)
LEMMA GotoType ==
  ASSUME TypeOK, NEW r \in Requests, Running(r),
         NEW label \in {"stat", "legacy", "rename", "make", "ready"}, Goto(r, label)
  PROVE  requests' \in [Requests -> Request \cup {None}]
  BY RunningType DEF TypeOK, Goto, Request

(* A request that returns.                                                 *)
LEMMA ReturnType ==
  ASSUME TypeOK, NEW r \in Requests, Return(r)
  PROVE  requests' \in [Requests -> Request \cup {None}]
  BY DEF TypeOK, Return

(* Writing or removing one path of one directory.                          *)
LEMMA WriteType ==
  ASSUME TypeOK, NEW d \in Dir, NEW p \in Paths, NEW t \in Nat \cup {None},
         files' = [files EXCEPT ![d][p] = t]
  PROVE  files' \in [Dir -> [Paths -> Nat \cup {None}]]
  BY DEF TypeOK

(* A compile's deferred removal of its staged copy.                        *)
LEMMA UnstageType ==
  ASSUME TypeOK, NEW r \in Requests, Running(r), Unstage(r)
  PROVE  files' \in [Dir -> [Paths -> Nat \cup {None}]]
  <1>1. Home(r) \in Dir
    BY RunningType
  <1>2. [p \in Paths |-> IF p = requests[r].staged THEN None ELSE files[Home(r)][p]]
          \in [Paths -> Nat \cup {None}]
    BY <1>1 DEF TypeOK
  <1> QED
    BY <1>1, <1>2 DEF TypeOK, Unstage

(* The steps of a request keep the types.                                  *)
LEMMA RequestTypes == TypeOK /\ RequestStep => TypeOK'
  <1> SUFFICES ASSUME TypeOK, RequestStep PROVE TypeOK'
    OBVIOUS
  <1> USE WorkspacesAssumption
  <1>0. clock \in Nat
    BY DEF TypeOK
  <1> PICK r \in Requests :
        \/ \E op \in Op, u \in Users, p \in Paths : CallTool(r, op, u, p)
        \/ \E l \in links : LookupPDFLink(r, l)
        \/ StatCurrent(r) \/ StatLegacy(r) \/ Rename(r) \/ NewScopedFS(r)
        \/ Fail(r) \/ PutFile(r) \/ DeleteFile(r) \/ RunTypst(r) \/ MintPDFLink(r)
        \/ ServeContent(r)
        \/ \E s \in Staged : Stage(r, s)
    BY DEF RequestStep
  <1>1. CASE \E op \in Op, u \in Users, p \in Paths : CallTool(r, op, u, p)
    BY <1>1 DEF TypeOK, CallTool, Request, Op, tables, disk
  <1>2. ASSUME NEW l \in links, LookupPDFLink(r, l) PROVE TypeOK'
    <2>1. l.user \in Users /\ l.path \in Paths
      BY DEF TypeOK, Link, Paths
    <2>2. requests' \in [Requests -> Request \cup {None}]
      BY <1>2, <2>1 DEF TypeOK, LookupPDFLink, Request, Op
    <2>3. links' \subseteq Link
      BY <1>2 DEF TypeOK, LookupPDFLink
    <2> QED
      BY <1>2, <2>2, <2>3 DEF TypeOK, LookupPDFLink, disk
  <1>3. CASE StatCurrent(r) \/ StatLegacy(r)
    BY <1>3, GotoType DEF TypeOK, StatCurrent, StatLegacy, AfterStatLegacy, At, tables, disk
  <1>4. CASE Rename(r)
    <2>1. Running(r) /\ Home(r) \in Dir /\ Raw(requests[r].user) \in Dir
      BY <1>4, RunningType DEF Rename, At
    <2>2. dirs' \subseteq Dir /\ files' \in [Dir -> [Paths -> Nat \cup {None}]]
      BY <1>4, <2>1 DEF TypeOK, Rename, NoFiles, disk
    <2>3. requests' \in [Requests -> Request \cup {None}]
      BY <1>4, <2>1, GotoType DEF TypeOK, Rename, Goto
    <2> QED
      BY <1>4, <2>2, <2>3 DEF TypeOK, Rename, tables
  <1>5. CASE NewScopedFS(r)
    BY <1>5, GotoType, RunningType DEF TypeOK, NewScopedFS, At, tables
  <1>6. CASE Fail(r)
    BY <1>6, ReturnType, UnstageType DEF TypeOK, Fail, tables
  <1>7. CASE PutFile(r)
    <2>1. Home(r) \in Dir /\ requests[r].path \in Paths
      BY <1>7, RunningType DEF PutFile, At, Request
    <2> QED
      BY <1>0, <1>7, <2>1, WriteType, ReturnType DEF TypeOK, PutFile, tables
  <1>12. CASE DeleteFile(r)
    <2>1. Home(r) \in Dir /\ requests[r].path \in Paths
      BY <1>12, RunningType DEF DeleteFile, At, Request
    <2> QED
      BY <1>12, <2>1, WriteType, ReturnType DEF TypeOK, DeleteFile, tables
  <1>8. CASE RunTypst(r)
    <2>1. Running(r) /\ Home(r) \in Dir /\ PDF(requests[r].path) \in Paths
      BY <1>8, RunningType DEF RunTypst, At, Request, Paths, Outputs
    <2>2. requests' \in [Requests -> Request \cup {None}]
      BY <1>8, <2>1, RunningType DEF TypeOK, RunTypst, At, Goto, Request
    <2> QED
      BY <1>0, <1>8, <2>1, <2>2, WriteType DEF TypeOK, RunTypst, tables
  <1>9. CASE MintPDFLink(r)
    <2>1. Running(r) /\ requests[r].user \in Users /\ PDF(requests[r].path) \in Outputs
      BY <1>9, RunningType DEF MintPDFLink, At, Request, Outputs
    <2>2. links' \subseteq Link
      BY <1>0, <1>9, <2>1 DEF TypeOK, MintPDFLink, Link
    <2> QED
      BY <1>9, <2>1, <2>2, UnstageType, ReturnType DEF TypeOK, MintPDFLink
  <1>10. CASE ServeContent(r)
    BY <1>10, ReturnType DEF TypeOK, ServeContent, tables, disk
  <1>11. ASSUME NEW s \in Staged, Stage(r, s) PROVE TypeOK'
    <2>1. Running(r) /\ Home(r) \in Dir /\ s \in Paths
      BY <1>11, RunningType DEF Stage, At, Paths
    <2>2. [requests[r] EXCEPT !.at = "staged", !.staged = s] \in Request
      <3> DEFINE q == requests[r]
      <3>1. q \in Request /\ q.op = "compile_typst"
        BY <1>11, <2>1, RunningType DEF Stage
      <3> HIDE DEF q
      <3>2. [q EXCEPT !.at = "staged", !.staged = s] \in Request
        BY <3>1 DEF Request
      <3> QED
        BY <3>2 DEF q
    <2>3. requests' \in [Requests -> Request \cup {None}]
      BY <1>11, <2>2 DEF TypeOK, Stage
    <2> QED
      BY <1>0, <1>11, <2>1, <2>3, WriteType DEF TypeOK, Stage, tables
  <1> QED
    BY <1>1, <1>2, <1>3, <1>4, <1>5, <1>6, <1>7, <1>8, <1>9, <1>10, <1>11, <1>12

(* The steps of the sweeper keep the types.                                *)
LEMMA SweepTypes == TypeOK /\ SweepStep => TypeOK'
  <1> SUFFICES ASSUME TypeOK, SweepStep PROVE TypeOK'
    OBVIOUS
  <1> USE WorkspacesAssumption, NoneAssumption DEF InPass
  <1>1. CASE DeleteExpiredPDFLinks
    <2>1. clock \in Nat
      BY DEF TypeOK
    <2>2. pass' \in Pass
      BY <1>1, <2>1 DEF TypeOK, DeleteExpiredPDFLinks, Pass
    <2> QED
      BY <1>1, <2>2 DEF TypeOK, DeleteExpiredPDFLinks, disk
  <1>2. CASE LivePersistedPaths
    <2>1. pass'.live \in SUBSET (Dir \X Outputs)
      BY <1>2 DEF TypeOK, LivePersistedPaths, Pass, Link, LiveKey, Raw, Dir
    <2> QED
      BY <1>2, <2>1 DEF TypeOK, LivePersistedPaths, Pass, tables, disk
  <1>3. CASE ReadRoot
    BY <1>3 DEF TypeOK, ReadRoot, Pass, tables, disk
  <1>4. ASSUME NEW d \in Dir, SweepUser(d) PROVE TypeOK'
    BY <1>4 DEF TypeOK, SweepUser, Pass, tables, disk
  <1>5. CASE StatFile
    <2> DEFINE p == CHOOSE x \in pass.paths : TRUE
    <2>1. p \in pass.paths
      BY <1>5 DEF StatFile
    <2>2. p \in Paths
      BY <2>1 DEF TypeOK, Pass
    <2> HIDE DEF p
    <2>3. pass' \in Pass
      BY <1>5, <2>2 DEF TypeOK, StatFile, Pass, p
    <2> QED
      BY <1>5, <2>3 DEF TypeOK, StatFile, tables, disk
  <1>6. CASE RemoveFile
    <2>1. pass.dir \in Dir /\ pass.victim \in Paths
      BY <1>6 DEF TypeOK, RemoveFile, Pass
    <2>2. pass' \in Pass
      BY <1>6 DEF TypeOK, RemoveFile, Pass
    <2> QED
      BY <1>6, <2>1, <2>2, WriteType DEF TypeOK, RemoveFile, tables
  <1>7. CASE RecordWorkspaceUsage
    BY <1>7 DEF TypeOK, RecordWorkspaceUsage, Pass, disk
  <1>8. CASE EndPass
    BY <1>8 DEF TypeOK, EndPass, AtRest, Pass, tables, disk
  <1> QED
    BY <1>1, <1>2, <1>3, <1>4, <1>5, <1>6, <1>7, <1>8 DEF SweepStep

(* Every step keeps the types.                                             *)
LEMMA TypeOKStep == TypeOK /\ [Next]_vars => TypeOK'
  <1> SUFFICES ASSUME TypeOK, [Next]_vars PROVE TypeOK'
    OBVIOUS
  <1> USE WorkspacesAssumption
  <1>1. CASE PassFails
    <2>1. AfterPass \in Pass
      BY DEF AfterPass, AtRest, Pass
    <2>2. [pass EXCEPT !.at = "next", !.dir = None, !.paths = {}, !.victim = None] \in Pass
      BY DEF TypeOK, Pass
    <2> QED
      BY <1>1, <2>1, <2>2 DEF TypeOK, PassFails, tables, disk
  <1>2. ASSUME NEW u \in Users, DeleteUser(u) \/ SignIn(u) PROVE TypeOK'
    BY <1>2 DEF TypeOK, DeleteUser, SignIn, disk
  <1>3. ASSUME NEW u \in Users, RemoveUserWorkspace(u) PROVE TypeOK'
    BY <1>3 DEF TypeOK, RemoveUserWorkspace, NoFiles, tables
  <1>4. CASE Crash
    BY <1>4 DEF TypeOK, Crash, AtRest, Pass, tables, disk
  <1>5. CASE Tick
    BY <1>5 DEF TypeOK, Tick, tables, disk
  <1>6. CASE UNCHANGED vars
    BY <1>6 DEF TypeOK, vars, tables, disk
  <1> QED
    BY <1>1, <1>2, <1>3, <1>4, <1>5, <1>6, RequestTypes, SweepTypes DEF Next, AdminStep

(* The initial states are of the right types.                              *)
LEMMA TypeCorrectAtInit == Init => TypeOK
  BY WorkspacesAssumption DEF Init, TypeOK, AtRest, Pass, Link, Raw, Dir

(* TypeOK holds in every state of every behaviour.                         *)
THEOREM TypeCorrect == Spec => []TypeOK
  BY TypeCorrectAtInit, TypeOKStep, PTL DEF Spec

-----------------------------------------------------------------------------
(* The inductive invariant.                                                *)

(* A request about to make its user's directory leaves no legacy directory *)
(* behind it; the legacy name is never created again.                      *)
MakersMigrated ==
  \A r \in Requests : At(r, "make") => Raw(requests[r].user) \notin dirs

SplitInv == TypeOK /\ NoSplitWorkspace /\ MakersMigrated

(* Directories of distinct users, and of distinct forms, are distinct.     *)
LEMMA DistinctDirs ==
  /\ \A u, v : Raw(u) # DirName(v)
  /\ \A u, v : Raw(u) = Raw(v) => u = v
  /\ \A u, v : DirName(u) = DirName(v) => u = v
  BY DEF Raw, DirName

(* Every step keeps one workspace per user, and the makers in order.       *)
LEMMA SplitStep == SplitInv /\ [Next]_vars => SplitInv'
  <1> SUFFICES ASSUME SplitInv, [Next]_vars PROVE NoSplitWorkspace' /\ MakersMigrated'
    BY TypeOKStep DEF SplitInv
  <1> USE DistinctDirs
  <1>1. ASSUME dirs' \subseteq dirs,
               \A r \in Requests : At(r, "make")' => At(r, "make") /\ requests'[r] = requests[r]
        PROVE  NoSplitWorkspace' /\ MakersMigrated'
    BY <1>1 DEF SplitInv, NoSplitWorkspace, MakersMigrated
  <1>2. ASSUME NEW r \in Requests, StatCurrent(r) \/ StatLegacy(r)
        PROVE  NoSplitWorkspace' /\ MakersMigrated'
    <2>1. requests[r].user \in Users /\ dirs' = dirs
      BY <1>2, RunningType DEF SplitInv, StatCurrent, StatLegacy, At, disk
    <2>2. At(r, "make")' => Raw(requests[r].user) \notin dirs
      <3> DEFINE q == requests[r]
      <3>0. q \in Request /\ q.user \in Users
        BY <1>2, <2>1, RunningType DEF SplitInv, StatCurrent, StatLegacy, At
      <3>1. ASSUME StatCurrent(r), At(r, "make")' PROVE Raw(q.user) \notin dirs
        <4>1. requests'[r] = [q EXCEPT !.at = IF Home(r) \in dirs THEN "make" ELSE "legacy"]
          BY <3>1 DEF SplitInv, TypeOK, StatCurrent, Goto
        <4>2. DirName(q.user) \in dirs
          BY <3>0, <3>1, <4>1 DEF Home, At, Request
        <4> QED
          BY <3>0, <4>2 DEF SplitInv, NoSplitWorkspace
      <3>2. ASSUME StatLegacy(r), At(r, "make")' PROVE Raw(q.user) \notin dirs
        <4>1. requests'[r] = [q EXCEPT !.at = AfterStatLegacy(q.user)]
          BY <3>2 DEF SplitInv, TypeOK, StatLegacy, Goto
        <4> QED
          BY <3>0, <3>2, <4>1 DEF AfterStatLegacy, At, Request
      <3> QED
        BY <1>2, <3>1, <3>2
    <2>3. requests'[r].user = requests[r].user
      BY <1>2, RunningType DEF SplitInv, TypeOK, StatCurrent, StatLegacy, At, Goto, Request
    <2>4. \A x \in Requests : x # r => requests'[x] = requests[x]
      BY <1>2 DEF SplitInv, TypeOK, StatCurrent, StatLegacy, Goto
    <2> QED
      BY <2>1, <2>2, <2>3, <2>4 DEF SplitInv, NoSplitWorkspace, MakersMigrated, At, Running
  <1>3. ASSUME NEW r \in Requests, Rename(r) PROVE NoSplitWorkspace' /\ MakersMigrated'
    <2> DEFINE u == requests[r].user
    <2>1. u \in Users /\ requests[r] \in Request
      BY <1>3, RunningType DEF SplitInv, Rename, At
    <2>2. \A x \in Requests : x # r => requests'[x] = requests[x]
      BY <1>3 DEF SplitInv, TypeOK, Rename, Goto
    <2>3. CASE Movable(r)
      <3>1. dirs' = (dirs \ {Raw(u)}) \cup {DirName(u)}
        BY <1>3, <2>3 DEF Rename, Home
      <3>2. requests'[r].user = u
        BY <1>3, <2>1, <2>3 DEF SplitInv, TypeOK, Rename, Goto, Request
      <3> HIDE DEF u
      <3> QED
        BY <2>1, <2>2, <3>1, <3>2 DEF SplitInv, NoSplitWorkspace, MakersMigrated, At, Running
    <2>4. CASE ~Movable(r)
      <3>1. dirs' = dirs
        BY <1>3, <2>4 DEF Rename, disk
      <3>2. At(r, "make")' => requests'[r].user = u /\ DirName(u) \in dirs
        BY <1>3, <2>1, <2>4 DEF SplitInv, TypeOK, Rename, Home, Request, At, Running
      <3> HIDE DEF u
      <3> QED
        BY <2>1, <2>2, <3>1, <3>2 DEF SplitInv, NoSplitWorkspace, MakersMigrated, At, Running
    <2> QED
      BY <2>3, <2>4
  <1>4. ASSUME NEW r \in Requests, NewScopedFS(r) PROVE NoSplitWorkspace' /\ MakersMigrated'
    <2> DEFINE u == requests[r].user
    <2>1. u \in Users /\ requests[r] \in Request /\ Raw(u) \notin dirs
      BY <1>4, RunningType DEF SplitInv, MakersMigrated, NewScopedFS, At
    <2>2. dirs' = dirs \cup {DirName(u)}
      BY <1>4 DEF NewScopedFS, Home
    <2>3. ~At(r, "make")' /\ \A x \in Requests : x # r => requests'[x] = requests[x]
      BY <1>4, <2>1 DEF SplitInv, TypeOK, NewScopedFS, Goto, At, Request
    <2> HIDE DEF u
    <2> QED
      BY <2>1, <2>2, <2>3 DEF SplitInv, NoSplitWorkspace, MakersMigrated, At, Running
  <1>5. ASSUME NEW r \in Requests,
               \/ \E op \in Op, u \in Users, p \in Paths : CallTool(r, op, u, p)
               \/ \E l \in links : LookupPDFLink(r, l)
               \/ Fail(r) \/ PutFile(r) \/ DeleteFile(r) \/ RunTypst(r) \/ MintPDFLink(r)
               \/ ServeContent(r)
               \/ \E s \in Staged : Stage(r, s)
        PROVE  NoSplitWorkspace' /\ MakersMigrated'
    <2>1. dirs' = dirs
      BY <1>5 DEF CallTool, LookupPDFLink, Fail, PutFile, DeleteFile, RunTypst, MintPDFLink,
         ServeContent, Stage, disk
    <2>2. \A x \in Requests : x # r => requests'[x] = requests[x]
      BY <1>5 DEF SplitInv, TypeOK, CallTool, LookupPDFLink, Fail, PutFile, DeleteFile, RunTypst,
         MintPDFLink, ServeContent, Stage, Goto, Return
    <2>3. At(r, "make")' => requests'[r] = requests[r] /\ At(r, "make")
      BY <1>5 DEF SplitInv, TypeOK, CallTool, LookupPDFLink, Fail, PutFile, DeleteFile, RunTypst,
         MintPDFLink, ServeContent, Stage, Goto, Return, At, Running, Request
    <2> QED
      BY <1>1, <2>1, <2>2, <2>3 DEF At, Running
  <1>6. CASE SweepStep \/ PassFails \/ Tick \/ UNCHANGED vars
    <2>1. dirs' = dirs /\ requests' = requests
      BY <1>6 DEF SweepStep, DeleteExpiredPDFLinks, LivePersistedPaths, ReadRoot, SweepUser,
         StatFile, RemoveFile, RecordWorkspaceUsage, EndPass, PassFails, Tick, vars, disk
    <2> QED
      BY <1>1, <2>1 DEF At, Running
  <1>7. CASE AdminStep
    <2>1. dirs' \subseteq dirs /\ requests' = requests
      BY <1>7 DEF AdminStep, DeleteUser, RemoveUserWorkspace, SignIn, disk
    <2> QED
      BY <1>1, <2>1 DEF At, Running
  <1>8. CASE Crash
    BY <1>1, <1>8 DEF Crash, disk, At, Running
  <1> QED
    BY <1>2, <1>3, <1>4, <1>5, <1>6, <1>7, <1>8 DEF Next, RequestStep

(* No user ever has two workspaces.                                        *)
THEOREM OneWorkspacePerUser == Spec => []NoSplitWorkspace
  <1>1. Init => SplitInv
    <2> SUFFICES ASSUME Init PROVE NoSplitWorkspace /\ MakersMigrated
      BY TypeCorrectAtInit DEF SplitInv
    <2> QED
      BY DistinctDirs DEF Init, NoSplitWorkspace, MakersMigrated, At, Running
  <1>2. SplitInv => NoSplitWorkspace
    BY DEF SplitInv
  <1> QED
    BY <1>1, <1>2, SplitStep, PTL DEF Spec

-----------------------------------------------------------------------------
(* Links and their files.                                                  *)

(* ServableLinksKept is a property of every step: only a lookup or a sweep *)
(* of an expired row, and a deletion, take links away.                     *)
THEOREM ServableLinksStay == Spec => ServableLinksKept
  <1>1. ASSUME TypeOK, [Next]_vars, NEW l \in links, l \notin links'
        PROVE  ~Resolves(l) \/ l.user \notin accounts'
    <2>0. l.expires \in Nat /\ clock \in Nat
      BY <1>1, WorkspacesAssumption DEF TypeOK, Link
    <2>1. ASSUME NEW r \in Requests, NEW x \in links, LookupPDFLink(r, x)
          PROVE  ~Resolves(l)
      BY <1>1, <2>1 DEF LookupPDFLink
    <2>2. ASSUME DeleteExpiredPDFLinks PROVE ~Resolves(l)
      BY <1>1, <2>0, <2>2 DEF DeleteExpiredPDFLinks, ExpiredAt, Resolves
    <2>3. ASSUME NEW u \in Users, DeleteUser(u) PROVE l.user \notin accounts'
      BY <1>1, <2>3 DEF DeleteUser
    <2>4. CASE links' = links
      BY <1>1, <2>4
    <2>5. ASSUME NEW r \in Requests, MintPDFLink(r) PROVE FALSE
      BY <1>1, <2>5 DEF MintPDFLink
    <2>6. ASSUME NEW r \in Requests,
                 \/ \E op \in Op, u \in Users, p \in Paths : CallTool(r, op, u, p)
                 \/ StatCurrent(r) \/ StatLegacy(r) \/ Rename(r) \/ NewScopedFS(r)
                 \/ Fail(r) \/ PutFile(r) \/ DeleteFile(r) \/ RunTypst(r) \/ ServeContent(r)
                 \/ \E s \in Staged : Stage(r, s)
          PROVE  links' = links
      BY <2>6 DEF CallTool, StatCurrent, StatLegacy, Rename, NewScopedFS, Fail, PutFile,
         DeleteFile, RunTypst, ServeContent, Stage, tables
    <2>7. ASSUME \/ LivePersistedPaths \/ ReadRoot \/ StatFile \/ RemoveFile
                 \/ RecordWorkspaceUsage \/ EndPass \/ PassFails \/ Crash \/ Tick
                 \/ UNCHANGED vars \/ \E d \in Dir : SweepUser(d)
                 \/ \E u \in Users : RemoveUserWorkspace(u) \/ SignIn(u)
          PROVE  links' = links
      BY <2>7 DEF LivePersistedPaths, ReadRoot, SweepUser, StatFile, RemoveFile,
         RecordWorkspaceUsage, EndPass, PassFails, Crash, Tick, vars, RemoveUserWorkspace,
         SignIn, tables
    <2> QED
      BY <1>1, <2>1, <2>2, <2>3, <2>4, <2>5, <2>6, <2>7
      DEF Next, RequestStep, SweepStep, AdminStep
  <1>2. TypeOK /\ [Next]_vars =>
          [\A l \in links : l \notin links' => ~Resolves(l) \/ l.user \notin accounts']_vars
    BY <1>1
  <1> QED
    BY <1>2, TypeCorrect, PTL DEF Spec, ServableLinksKept

-----------------------------------------------------------------------------
(* What a pass knows.                                                      *)

(* The pass's instant is past.  From the moment it has read the live set,  *)
(* that set covers every link handed out before the instant that resolved  *)
(* then: later links expire later.  Its victim is scratch no link covers.  *)
NowPast == pass.now <= clock
LiveCovers ==
  pass.at \in {"list", "next", "walk", "remove"} =>
    \A l \in links : pass.now <= l.expires /\ l.expires < pass.now + LinkTTL =>
      <<Raw(l.user), l.path>> \in pass.live
VictimIsScratch ==
  pass.at = "remove" => pass.victim \notin Fonts /\ <<pass.dir, pass.victim>> \notin pass.live

PassInv == TypeOK /\ NowPast /\ LiveCovers /\ VictimIsScratch

(* The steps that leave the pass alone and add only new links keep it.     *)
LEMMA PassUnchanged ==
  ASSUME PassInv, TypeOK', pass' = pass, clock <= clock',
         \A l \in links' : l \in links \/ l.expires >= clock + LinkTTL
  PROVE  PassInv'
  <1> USE WorkspacesAssumption
  <1>1. pass.now \in Nat /\ clock \in Nat /\ clock' \in Nat
    BY DEF PassInv, TypeOK, Pass
  <1>2. NowPast'
    BY <1>1 DEF PassInv, NowPast
  <1>3. ASSUME NEW l \in links', l \notin links, l.expires < pass.now + LinkTTL PROVE FALSE
    <2>1. l.expires \in Nat
      BY <1>3 DEF TypeOK, Link
    <2> QED
      BY <1>1, <1>3, <2>1 DEF PassInv, NowPast
  <1>4. LiveCovers'
    BY <1>3 DEF PassInv, LiveCovers
  <1> QED
    BY <1>2, <1>4 DEF PassInv, VictimIsScratch

(* A pass that starts over, or has not read the live set, knows nothing.   *)
LEMMA PassRestarts ==
  ASSUME TypeOK', pass'.at \in {"links", "live"}, pass'.now <= clock'
  PROVE  PassInv'
  BY DEF PassInv, NowPast, LiveCovers, VictimIsScratch

(* A pass that goes on with the set it has read.                           *)
LEMMA PassContinues ==
  ASSUME PassInv, TypeOK', pass'.now = pass.now, pass'.live = pass.live,
         pass.at \in {"list", "next", "walk", "remove"}, pass'.at # "remove",
         clock' = clock, links' = links
  PROVE  PassInv'
  BY DEF PassInv, NowPast, LiveCovers, VictimIsScratch

(* The sweeper's own steps keep what the pass knows.                       *)
LEMMA PassSteps == PassInv /\ SweepStep /\ TypeOK' => PassInv'
  <1> SUFFICES ASSUME PassInv, SweepStep, TypeOK' PROVE PassInv'
    OBVIOUS
  <1> USE WorkspacesAssumption DEF InPass
  <1>0. pass \in Pass /\ clock \in Nat /\ pass.now \in Nat
    BY DEF PassInv, TypeOK, Pass
  <1>1. CASE DeleteExpiredPDFLinks
    <2>1. pass'.at = "live" /\ pass'.now = clock /\ clock' = clock
      BY <1>0, <1>1 DEF DeleteExpiredPDFLinks, Pass
    <2> QED
      BY <1>0, <2>1, PassRestarts
  <1>2. CASE LivePersistedPaths
    <2>1. /\ pass'.at = "list" /\ pass'.now = pass.now
          /\ links' = links /\ clock' = clock
          /\ pass'.live = {<<LiveKey(l), l.path>> : l \in {x \in links : LiveAtNow(x)}}
      BY <1>0, <1>2 DEF LivePersistedPaths, Pass, tables
    <2>2. ASSUME NEW l \in links, pass.now <= l.expires
          PROVE  <<Raw(l.user), l.path>> \in pass'.live
      <3>1. l.expires \in Nat
        BY DEF PassInv, TypeOK, Link
      <3> QED
        BY <1>0, <2>1, <2>2, <3>1 DEF LiveKey, LiveAtNow
    <2> QED
      BY <2>1, <2>2 DEF PassInv, NowPast, LiveCovers, VictimIsScratch
  <1>3. CASE ReadRoot
    BY <1>0, <1>3, PassContinues DEF ReadRoot, Pass, tables
  <1>4. ASSUME NEW d \in Dir, SweepUser(d) PROVE PassInv'
    <2>1. /\ pass'.now = pass.now /\ pass'.live = pass.live
          /\ pass.at = "next" /\ pass'.at \in {"next", "walk"}
      BY <1>0, <1>4 DEF SweepUser, Pass
    <2> QED
      BY <1>4, <2>1, PassContinues DEF SweepUser, tables
  <1>5. CASE StatFile
    <2> DEFINE p == CHOOSE x \in pass.paths : TRUE
    <2>1. links' = links /\ clock' = clock
      BY <1>5 DEF StatFile, tables
    <2>2. CASE pass'.at = "remove"
      <3>1. /\ pass'.now = pass.now /\ pass'.live = pass.live /\ pass'.dir = pass.dir
            /\ pass'.victim = p /\ ~IsConfig(p) /\ ~Protected(p) /\ pass.at = "walk"
        <4> HIDE DEF p
        <4> QED
          BY <1>0, <1>5, <2>2 DEF StatFile, Pass, p
      <3> HIDE DEF p
      <3> QED
        BY <2>1, <2>2, <3>1
        DEF PassInv, NowPast, LiveCovers, VictimIsScratch, IsConfig, Protected
    <2>3. CASE pass'.at # "remove"
      <3>1. /\ pass'.now = pass.now /\ pass'.live = pass.live /\ pass.at = "walk"
        <4> HIDE DEF p
        <4> QED
          BY <1>0, <1>5, <2>3 DEF StatFile, Pass, p
      <3> QED
        BY <2>1, <2>3, <3>1, PassContinues
    <2> QED
      BY <2>2, <2>3
  <1>6. CASE RemoveFile
    <2>1. /\ pass'.now = pass.now /\ pass'.live = pass.live
          /\ pass.at = "remove" /\ pass'.at = "walk"
      BY <1>0, <1>6 DEF RemoveFile, Pass
    <2> QED
      BY <1>6, <2>1, PassContinues DEF RemoveFile, tables
  <1>7. CASE RecordWorkspaceUsage
    <2>1. /\ pass'.now = pass.now /\ pass'.live = pass.live
          /\ pass.at = "walk" /\ pass'.at = "next"
      BY <1>0, <1>7 DEF RecordWorkspaceUsage, Pass
    <2> QED
      BY <1>7, <2>1, PassContinues DEF RecordWorkspaceUsage
  <1>8. CASE EndPass
    BY <1>0, <1>8, PassRestarts DEF EndPass, AtRest
  <1> QED
    BY <1>1, <1>2, <1>3, <1>4, <1>5, <1>6, <1>7, <1>8 DEF SweepStep

(* Every step keeps what the pass knows.                                   *)
LEMMA PassInvStep == PassInv /\ [Next]_vars => PassInv'
  <1> SUFFICES ASSUME PassInv, [Next]_vars PROVE PassInv'
    OBVIOUS
  <1> USE WorkspacesAssumption
  <1>0. /\ TypeOK' /\ TypeOK /\ clock \in Nat
    BY TypeOKStep DEF PassInv, TypeOK
  <1>1. ASSUME NEW r \in Requests, NEW l \in links, LookupPDFLink(r, l) PROVE PassInv'
    BY <1>0, <1>1, PassUnchanged DEF LookupPDFLink
  <1>2. ASSUME NEW r \in Requests, MintPDFLink(r) PROVE PassInv'
    BY <1>0, <1>2, PassUnchanged DEF MintPDFLink
  <1>3. ASSUME NEW r \in Requests,
               \/ \E op \in Op, u \in Users, p \in Paths : CallTool(r, op, u, p)
               \/ StatCurrent(r) \/ StatLegacy(r) \/ Rename(r) \/ NewScopedFS(r)
               \/ Fail(r) \/ PutFile(r) \/ DeleteFile(r) \/ RunTypst(r) \/ ServeContent(r)
               \/ \E s \in Staged : Stage(r, s)
        PROVE  PassInv'
    <2>1. links' = links /\ pass' = pass /\ clock' = clock
      BY <1>3 DEF CallTool, StatCurrent, StatLegacy, Rename, NewScopedFS, Fail, PutFile,
         DeleteFile, RunTypst, ServeContent, Stage, tables
    <2> QED
      BY <1>0, <2>1, PassUnchanged
  <1>4. CASE PassFails
    <2>1. CASE pass' = AfterPass
      BY <1>0, <1>4, <2>1, PassRestarts DEF PassFails, AfterPass, AtRest
    <2>2. CASE pass.dir # None
               /\ pass' = [pass EXCEPT !.at = "next", !.dir = None, !.paths = {}, !.victim = None]
      <3>1. pass'.at = "next" /\ pass'.now = pass.now /\ pass'.live = pass.live
        BY <1>0, <2>2 DEF TypeOK, Pass
      <3>2. links' = links /\ clock' = clock
        BY <1>4 DEF PassFails, tables
      <3> QED
        BY <1>0, <2>2, <3>1, <3>2, PassContinues DEF PassInv, TypeOK, Pass
    <2> QED
      BY <1>4, <2>1, <2>2 DEF PassFails
  <1>5. CASE AdminStep
    <2>1. links' \subseteq links /\ pass' = pass /\ clock' = clock
      BY <1>5 DEF AdminStep, DeleteUser, RemoveUserWorkspace, SignIn, tables
    <2> QED
      BY <1>0, <2>1, PassUnchanged
  <1>6. CASE Crash
    BY <1>0, <1>6, PassRestarts DEF Crash, AtRest
  <1>7. CASE Tick
    BY <1>0, <1>7, PassUnchanged DEF Tick, tables
  <1>8. CASE UNCHANGED vars
    BY <1>0, <1>8, PassUnchanged DEF vars, tables
  <1> QED
    BY <1>0, <1>1, <1>2, <1>3, <1>4, <1>5, <1>6, <1>7, <1>8, PassSteps DEF Next, RequestStep

(* What the pass knows holds in every state of every behaviour.            *)
LEMMA PassInvariance == Spec => []PassInv
  <1>1. Init => PassInv
    <2> SUFFICES ASSUME Init PROVE PassInv
      OBVIOUS
    <2>1. pass.at = "links" /\ pass.now = 0 /\ clock = 0
      BY DEF Init, AtRest
    <2> QED
      BY <2>1, TypeCorrectAtInit DEF PassInv, NowPast, LiveCovers, VictimIsScratch
  <1> QED
    BY <1>1, PassInvStep, PTL DEF Spec

-----------------------------------------------------------------------------
(* How a step changes the files.                                           *)

(* One path of one directory is written, or removed.                       *)
Written(d, p) == \E t \in Nat : files' = [files EXCEPT ![d][p] = t]
Removed(d, p) == files' = [files EXCEPT ![d][p] = None]

(* Every way a step changes the files, and the directories with them.      *)
LEMMA FilesStep ==
  ASSUME TypeOK, [Next]_vars
  PROVE  \/ files' = files
         \/ \E u \in Users, p \in Paths : Written(DirName(u), p)
         \/ \E u \in Users, p \in Staged : Removed(DirName(u), p)
         \/ \E r \in Requests : /\ DeleteFile(r) /\ requests[r].user \in Users
                                /\ requests[r].path \in Paths
                                /\ Removed(DirName(requests[r].user), requests[r].path)
         \/ \E u \in Users : /\ dirs' = (dirs \ {Raw(u)}) \cup {DirName(u)}
                             /\ files[DirName(u)] = NoFiles
                             /\ files' = [files EXCEPT ![DirName(u)] = files[Raw(u)],
                                                       ![Raw(u)] = NoFiles]
         \/ pass.at = "remove" /\ Removed(pass.dir, pass.victim)
         \/ \E u \in Users : /\ u \in removals /\ u \notin removals'
                             /\ dirs' = dirs \ {Raw(u)}
                             /\ files' = [files EXCEPT ![Raw(u)] = NoFiles]
  <1> DEFINE Goal ==
         \/ files' = files
         \/ \E u \in Users, p \in Paths : Written(DirName(u), p)
         \/ \E u \in Users, p \in Staged : Removed(DirName(u), p)
         \/ \E r \in Requests : /\ DeleteFile(r) /\ requests[r].user \in Users
                                /\ requests[r].path \in Paths
                                /\ Removed(DirName(requests[r].user), requests[r].path)
         \/ \E u \in Users : /\ dirs' = (dirs \ {Raw(u)}) \cup {DirName(u)}
                             /\ files[DirName(u)] = NoFiles
                             /\ files' = [files EXCEPT ![DirName(u)] = files[Raw(u)],
                                                       ![Raw(u)] = NoFiles]
         \/ pass.at = "remove" /\ Removed(pass.dir, pass.victim)
         \/ \E u \in Users : /\ u \in removals /\ u \notin removals'
                             /\ dirs' = dirs \ {Raw(u)}
                             /\ files' = [files EXCEPT ![Raw(u)] = NoFiles]
  <1>0. clock \in Nat
    BY WorkspacesAssumption DEF TypeOK
  <1>1. ASSUME NEW r \in Requests, Fail(r) \/ MintPDFLink(r) PROVE Goal
    <2>1. /\ Running(r) /\ Unstage(r)
          /\ requests[r].user \in Users /\ requests[r].staged \in Staged \cup {None}
      BY <1>1, RunningType DEF Fail, MintPDFLink, At, Request
    <2> DEFINE d == DirName(requests[r].user)
               s == requests[r].staged
    <2>2. files' = [files EXCEPT ![d] = [p \in Paths |-> IF p = s THEN None ELSE files[d][p]]]
      BY <2>1 DEF Unstage, Home
    <2>3. d \in Dir /\ files[d] \in [Paths -> Nat \cup {None}]
      BY <2>1 DEF TypeOK, DirName, Dir
    <2>4. CASE s = None
      <3>1. [p \in Paths |-> IF p = s THEN None ELSE files[d][p]] = files[d]
        BY <2>3, <2>4, WorkspacesAssumption
      <3>2. files' = files
        BY <2>2, <2>3, <3>1 DEF TypeOK
      <3> QED
        BY <3>2
    <2>5. CASE s \in Staged
      <3>1. [p \in Paths |-> IF p = s THEN None ELSE files[d][p]] = [files[d] EXCEPT ![s] = None]
        BY <2>3, <2>5 DEF Paths
      <3>2. Removed(d, s)
        BY <2>2, <3>1 DEF Removed
      <3> HIDE DEF s
      <3>3. \E u \in Users, p \in Staged : Removed(DirName(u), p)
        BY <2>1, <2>5, <3>2
      <3> QED
        BY <3>3
    <2> QED
      BY <2>1, <2>4, <2>5
  <1>2. ASSUME NEW r \in Requests, PutFile(r) PROVE Goal
    <2>1. requests[r].user \in Users /\ requests[r].path \in Paths
      BY <1>2, RunningType DEF PutFile, At, Request
    <2> QED
      BY <1>0, <1>2, <2>1 DEF PutFile, Written, Home
  <1>10. ASSUME NEW r \in Requests, DeleteFile(r) PROVE Goal
    <2>1. requests[r].user \in Users /\ requests[r].path \in Paths
      BY <1>10, RunningType DEF DeleteFile, At, Request
    <2>2. Removed(DirName(requests[r].user), requests[r].path)
      BY <1>10 DEF DeleteFile, Removed, Home
    <2> QED
      BY <1>10, <2>1, <2>2
  <1>3. ASSUME NEW r \in Requests, RunTypst(r) PROVE Goal
    <2>1. requests[r].user \in Users /\ PDF(requests[r].path) \in Paths
      BY <1>3, RunningType DEF RunTypst, At, Request, Paths, Outputs
    <2> QED
      BY <1>0, <1>3, <2>1 DEF RunTypst, Written, Home
  <1>4. ASSUME NEW r \in Requests, NEW s \in Staged, Stage(r, s) PROVE Goal
    <2>1. requests[r].user \in Users /\ s \in Paths
      BY <1>4, RunningType DEF Stage, At, Paths
    <2> QED
      BY <1>0, <1>4, <2>1 DEF Stage, Written, Home
  <1>5. ASSUME NEW r \in Requests, Rename(r) PROVE Goal
    <2>1. requests[r].user \in Users
      BY <1>5, RunningType DEF Rename, At
    <2>2. CASE Movable(r)
      <3>1. \E u \in Users : /\ dirs' = (dirs \ {Raw(u)}) \cup {DirName(u)}
                             /\ files[DirName(u)] = NoFiles
                             /\ files' = [files EXCEPT ![DirName(u)] = files[Raw(u)],
                                                       ![Raw(u)] = NoFiles]
        <4> WITNESS requests[r].user \in Users
        <4> QED
          BY <1>5, <2>2 DEF Rename, Movable, Home
      <3> QED
        BY <3>1
    <2>3. CASE ~Movable(r)
      BY <1>5, <2>3 DEF Rename, disk
    <2> QED
      BY <2>2, <2>3
  <1>6. ASSUME NEW r \in Requests,
               \/ \E op \in Op, u \in Users, p \in Paths : CallTool(r, op, u, p)
               \/ \E l \in links : LookupPDFLink(r, l)
               \/ StatCurrent(r) \/ StatLegacy(r) \/ NewScopedFS(r) \/ ServeContent(r)
        PROVE  Goal
    BY <1>6 DEF CallTool, LookupPDFLink, StatCurrent, StatLegacy, NewScopedFS, ServeContent, disk
  <1>7. CASE RemoveFile
    BY <1>7 DEF RemoveFile, InPass, Removed
  <1>8. ASSUME NEW u \in Users, RemoveUserWorkspace(u) PROVE Goal
    <2>1. \E v \in Users : /\ v \in removals /\ v \notin removals'
                           /\ dirs' = dirs \ {Raw(v)}
                           /\ files' = [files EXCEPT ![Raw(v)] = NoFiles]
      <3> WITNESS u \in Users
      <3> QED
        BY <1>8 DEF RemoveUserWorkspace
    <2> QED
      BY <2>1
  <1>9. CASE \/ DeleteExpiredPDFLinks \/ LivePersistedPaths \/ ReadRoot \/ StatFile
             \/ RecordWorkspaceUsage \/ EndPass \/ PassFails \/ Crash \/ Tick
             \/ UNCHANGED vars \/ \E d \in Dir : SweepUser(d)
             \/ \E u \in Users : DeleteUser(u) \/ SignIn(u)
    BY <1>9 DEF DeleteExpiredPDFLinks, LivePersistedPaths, ReadRoot, SweepUser, StatFile,
       RecordWorkspaceUsage, EndPass, PassFails, Crash, Tick, vars, DeleteUser, SignIn, disk
  <1> QED
    BY <1>1, <1>2, <1>3, <1>4, <1>5, <1>6, <1>7, <1>8, <1>9, <1>10
    DEF Next, RequestStep, SweepStep, AdminStep

(* NothingElseLost: a file goes with its account, by a delete_file of its  *)
(* user, as a staged copy, or as scratch that a pass chose; migrations and *)
(* crashes lose none, and a pass takes no font.                            *)
THEOREM NothingElseIsLost == Spec => NothingElseLost
  <1>1. ASSUME PassInv, [Next]_vars, NEW u \in Users, NEW p \in Paths,
               Has(u, p), ~Has(u, p)'
        PROVE  \/ u \in removals /\ u \notin removals'
               \/ Discards(u, p)
               \/ p \in Staged
               \/ pass.at = "remove" /\ pass.victim = p /\ p \notin Fonts
    <2> USE DistinctDirs, NoneAssumption, WorkspacesAssumption
    <2>0. /\ TypeOK /\ Raw(u) \in Dir /\ DirName(u) \in Dir
          /\ files \in [Dir -> [Paths -> Nat \cup {None}]]
      BY <1>1 DEF PassInv, TypeOK, Raw, DirName, Dir
    <2>1. CASE files' = files
      BY <1>1, <2>1 DEF Has
    <2>2. ASSUME NEW v \in Users, NEW q \in Paths, Written(DirName(v), q) PROVE FALSE
      <3>1. DirName(v) \in Dir
        BY DEF DirName, Dir
      <3>2. \A d \in Dir : files[d][p] # None => files'[d][p] # None
        BY <2>0, <2>2, <3>1 DEF Written
      <3> QED
        BY <1>1, <2>0, <3>2 DEF Has
    <2>3. ASSUME NEW v \in Users, NEW q \in Staged, Removed(DirName(v), q) PROVE p \in Staged
      <3>1. DirName(v) \in Dir
        BY DEF DirName, Dir
      <3>2. p # q => \A d \in Dir : files'[d][p] = files[d][p]
        BY <2>0, <2>3, <3>1 DEF Removed
      <3> QED
        BY <1>1, <2>0, <3>2 DEF Has
    <2>7. ASSUME NEW r \in Requests, DeleteFile(r), requests[r].user \in Users,
                 requests[r].path \in Paths,
                 Removed(DirName(requests[r].user), requests[r].path)
          PROVE  Discards(u, p)
      <3>1. DirName(requests[r].user) \in Dir
        BY <2>7 DEF DirName, Dir
      <3>2. \A d \in Dir, q \in Paths :
              d # DirName(requests[r].user) \/ q # requests[r].path => files'[d][q] = files[d][q]
        BY <2>0, <2>7, <3>1 DEF Removed
      <3>3. requests[r].user = u /\ requests[r].path = p
        BY <1>1, <2>0, <2>7, <3>2 DEF Has
      <3>4. requests'[r] = None
        BY <2>0, <2>7 DEF TypeOK, DeleteFile, Return
      <3> QED
        BY <2>7, <3>3, <3>4 DEF Discards, DeleteFile
    <2>4. ASSUME NEW v \in Users, files[DirName(v)] = NoFiles,
                 files' = [files EXCEPT ![DirName(v)] = files[Raw(v)], ![Raw(v)] = NoFiles]
          PROVE  FALSE
      <3>1. DirName(v) \in Dir /\ Raw(v) \in Dir
        BY DEF DirName, Raw, Dir
      <3>2. files'[DirName(v)] = files[Raw(v)] /\ files[DirName(v)][p] = None
        BY <2>0, <2>4, <3>1 DEF NoFiles
      <3>3. \A d \in Dir : d # DirName(v) /\ d # Raw(v) => files'[d] = files[d]
        BY <2>0, <2>4, <3>1
      <3>4. u # v => files'[Raw(u)] = files[Raw(u)] /\ files'[DirName(u)] = files[DirName(u)]
        BY <2>0, <3>3
      <3> QED
        BY <1>1, <3>2, <3>4 DEF Has
    <2>5. ASSUME pass.at = "remove", Removed(pass.dir, pass.victim)
          PROVE  pass.victim = p /\ p \notin Fonts
      <3>1. pass.dir \in Dir /\ pass.victim \in Paths /\ pass.victim \notin Fonts
        BY <1>1, <2>0, <2>5 DEF TypeOK, Pass, PassInv, VictimIsScratch
      <3>2. p # pass.victim => \A d \in Dir : files'[d][p] = files[d][p]
        BY <2>0, <2>5, <3>1 DEF Removed
      <3> QED
        BY <1>1, <2>0, <3>1, <3>2 DEF Has
    <2>6. ASSUME NEW v \in Users, v \in removals, v \notin removals',
                 files' = [files EXCEPT ![Raw(v)] = NoFiles]
          PROVE  u \in removals /\ u \notin removals'
      <3>1. Raw(v) \in Dir
        BY DEF Raw, Dir
      <3>2. u # v => files'[Raw(u)] = files[Raw(u)] /\ files'[DirName(u)] = files[DirName(u)]
        BY <2>0, <2>6, <3>1
      <3> QED
        BY <1>1, <2>6, <3>2 DEF Has
    <2> QED
      BY <1>1, <2>0, <2>1, <2>2, <2>3, <2>4, <2>5, <2>6, <2>7, FilesStep
  <1>2. PassInv /\ [Next]_vars =>
          [\A u \in Users, p \in Paths : Has(u, p) /\ ~Has(u, p)' =>
             \/ u \in removals /\ u \notin removals'
             \/ Discards(u, p)
             \/ p \in Staged
             \/ pass.at = "remove" /\ pass.victim = p /\ p \notin Fonts]_vars
    BY <1>1
  <1> QED
    BY <1>2, PassInvariance, PTL DEF Spec, NothingElseLost

(* LegacyLinksKeepFiles: the live set a pass walks with covers every link  *)
(* handed out before it that still resolves.                               *)
THEOREM LegacyLinksStayGood == Spec => LegacyLinksKeepFiles
  <1>1. ASSUME PassInv, [Next]_vars, NEW l \in links \cap links',
               Resolves(l), l.expires < pass.now + LinkTTL,
               Raw(l.user) \in dirs, Raw(l.user) \in dirs',
               files[Raw(l.user)][l.path] # None
        PROVE  files'[Raw(l.user)][l.path] # None
    <2> DEFINE home == Raw(l.user)
    <2> USE DistinctDirs
    <2>0. /\ TypeOK /\ home \in Dir /\ l.path \in Paths
          /\ files \in [Dir -> [Paths -> Nat \cup {None}]]
      BY <1>1 DEF PassInv, TypeOK, Link, Raw, Dir, Paths
    <2>1. CASE files' = files
      BY <1>1, <2>1
    <2>2. ASSUME NEW v \in Users, NEW p \in Paths,
                 Written(DirName(v), p) \/ Removed(DirName(v), p)
          PROVE  files'[home] = files[home]
      <3>1. DirName(v) \in Dir /\ DirName(v) # home
        BY DEF DirName, Dir
      <3> QED
        BY <2>0, <2>2, <3>1 DEF Written, Removed
    <2>3. ASSUME NEW v \in Users, dirs' = (dirs \ {Raw(v)}) \cup {DirName(v)},
                 files' = [files EXCEPT ![DirName(v)] = files[Raw(v)], ![Raw(v)] = NoFiles]
          PROVE  files'[home] = files[home]
      <3>1. home # Raw(v) /\ home # DirName(v)
        BY <1>1, <2>3
      <3> QED
        BY <2>0, <2>3, <3>1
    <2>4. ASSUME pass.at = "remove", Removed(pass.dir, pass.victim)
          PROVE  files'[home][l.path] = files[home][l.path]
      <3>1. pass.dir \in Dir /\ pass.victim \in Paths
        BY <2>0, <2>4, NoneAssumption DEF TypeOK, Pass
      <3>2. pass.now <= l.expires
        <4>1. l.expires \in Nat /\ clock \in Nat /\ pass.now \in Nat
          BY <2>0, WorkspacesAssumption DEF TypeOK, Link, Pass
        <4> QED
          BY <1>1, <4>1 DEF PassInv, NowPast, Resolves
      <3>3. <<home, l.path>> \in pass.live
        BY <1>1, <2>4, <3>2 DEF PassInv, LiveCovers
      <3>4. ~(pass.dir = home /\ pass.victim = l.path)
        BY <1>1, <2>4, <3>3 DEF PassInv, VictimIsScratch
      <3> QED
        BY <2>0, <2>4, <3>1, <3>4 DEF Removed
    <2>5. ASSUME NEW v \in Users, dirs' = dirs \ {Raw(v)},
                 files' = [files EXCEPT ![Raw(v)] = NoFiles]
          PROVE  files'[home] = files[home]
      <3>1. home # Raw(v)
        BY <1>1, <2>5
      <3> QED
        BY <2>0, <2>5, <3>1
    <2>6. Staged \subseteq Paths
      BY DEF Paths
    <2> QED
      BY <1>1, <2>0, <2>1, <2>2, <2>3, <2>4, <2>5, <2>6, FilesStep
  <1>2. PassInv /\ [Next]_vars =>
          [\A l \in links \cap links' :
             /\ Resolves(l) /\ l.expires < pass.now + LinkTTL
             /\ Raw(l.user) \in dirs /\ Raw(l.user) \in dirs'
             /\ files[Raw(l.user)][l.path] # None
             => files'[Raw(l.user)][l.path] # None]_vars
    BY <1>1
  <1> QED
    BY <1>2, PassInvariance, PTL DEF Spec, LegacyLinksKeepFiles
=============================================================================
