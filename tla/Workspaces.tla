------------------------------ MODULE Workspaces ------------------------------
(***************************************************************************)
(* Tenant workspaces and what reclaims them: internal/workspace (a         *)
(* directory per user, created or migrated on first use), the tools that   *)
(* write there, the download links of internal/authdb, the pass of         *)
(* internal/sweeper, and the deletion of an account by an administrator.   *)
(*                                                                         *)
(* A step is one statement of SQLite or one call on the file system.  The  *)
(* sweeper takes a file's age in one step and removes it in another, and   *)
(* the tools run in between.  A file is its modification time.  The other  *)
(* pass state, the prune of client registrations, is in AuthServer.        *)
(***************************************************************************)
EXTENDS Naturals

CONSTANTS
  Users,      \* identities that sign in, "gh:<id>"
  Sources, Fonts, Staged, \* workspace paths: documents, what is under
              \* fonts/, and the names CreateTemp can pick
  Requests,   \* tool calls and downloads that may run at once
  Tools,      \* bound: the tools called, downloads among them
  Deletable,  \* bound: the users the administrator may delete
  FileTTL,    \* workspaceTTL, in ticks; 0 disables the purge
  LinkTTL,    \* pdfLinkTTL, in ticks
  MaxClock,   \* bound: ticks in one behaviour
  MaxFaults,  \* bound: crashes and failed passes in one behaviour
  None        \* no such file, or a request that is not running

PDF(p)  == [pdf |-> p] \* the path a document compiles to
Outputs == {PDF(p) : p \in Sources}
Paths   == Sources \cup Outputs \cup Fonts \cup Staged

ASSUME WorkspacesAssumption ==
  /\ FileTTL \in Nat /\ LinkTTL \in Nat \ {0}
  /\ Tools \subseteq {"put_file", "delete_file", "compile_typst", "download"}
  /\ Deletable \subseteq Users
  /\ MaxClock \in Nat /\ MaxFaults \in Nat
  /\ None \notin Nat /\ None \notin Paths
  /\ Fonts \cap (Sources \cup Outputs \cup Staged) = {}

(* Directory names under the root.  The raw name of u is the user id, the  *)
(* name workspaces had before DirName, and the key of u's database rows.   *)
Raw(u)     == [user |-> u, form |-> "raw"]
DirName(u) == [user |-> u, form |-> "safe"]
Dir        == [user : Users, form : {"raw", "safe"}]

Link    == [user : Users, path : Outputs, expires : Nat]
Op      == {"put_file", "delete_file", "compile_typst", "download"}
Request ==
  {q \in [op : Op, user : Users, path : Paths,
          at : {"stat", "legacy", "rename", "make", "ready", "staged", "written"},
          staged : Staged \cup {None}] :
     /\ q.op = "compile_typst" => q.path \in Sources
     /\ q.at \in {"staged", "written"} => q.op = "compile_typst" /\ q.staged \in Staged}
Pass ==
  {q \in [at : {"links", "live", "list", "next", "walk", "remove"}, now : Nat,
          live : SUBSET (Dir \X Outputs), todo : SUBSET Dir, dir : Dir \cup {None},
          paths : SUBSET Paths, victim : Paths \cup {None}] :
     /\ q.at \in {"walk", "remove"} <=> q.dir # None
     /\ q.at = "remove" => q.victim \in Paths}

ASSUME NoneAssumption == None \notin Dir /\ None \notin Request

VARIABLES
  clock,
  accounts,   \* users with a users row
  links,      \* pdf_links, up to their tokens
  usage,      \* workspace_usage: the keys that have a row
  dirs,       \* directories under the workspace root
  files,      \* modification time of each path of each directory
  requests,   \* what each running tool call is about to do
  pass,       \* memory of the sweeper's pass
  removals,   \* users whose rows are deleted and whose directory is next
  faults

tables == <<accounts, links, usage>>
disk   == <<dirs, files>>
vars   == <<clock, tables, disk, requests, pass, removals, faults>>

NoFiles == [p \in Paths |-> None]

TypeOK ==
  /\ clock \in 0 .. MaxClock /\ faults \in 0 .. MaxFaults
  /\ accounts \subseteq Users /\ links \subseteq Link /\ usage \subseteq Dir
  /\ dirs \subseteq Dir
  /\ files \in [Dir -> [Paths -> Nat \cup {None}]]
  /\ requests \in [Requests -> Request \cup {None}]
  /\ pass \in Pass
  /\ removals \subseteq Users

AtRest == [at |-> "links", now |-> 0, live |-> {}, todo |-> {}, dir |-> None,
           paths |-> {}, victim |-> None]

(* The server starts over a volume that may hold workspaces from before    *)
(* DirName, with links still out for their PDFs.                           *)
Init ==
  /\ clock = 0 /\ faults = 0
  /\ accounts = Users
  /\ dirs \in SUBSET {Raw(u) : u \in Users}
  /\ files = [d \in Dir |-> [p \in Paths |->
                IF d \in dirs /\ p \notin Staged THEN 0 ELSE None]]
  /\ links \in SUBSET {[user |-> d.user, path |-> p, expires |-> LinkTTL] :
                         d \in dirs, p \in Outputs}
  /\ usage = {} /\ pass = AtRest
  /\ requests = [r \in Requests |-> None]
  /\ removals = {}

-----------------------------------------------------------------------------
(* A request: the resolver first, then the tool's own work.                *)

Running(r) == requests[r] # None
At(r, label) == Running(r) /\ requests[r].at = label
Goto(r, label) == requests' = [requests EXCEPT ![r].at = label]
Home(r) == DirName(requests[r].user)

(* authMiddleware admits a user with an account; nothing checks it again.  *)
CallTool(r, op, u, p) ==
  /\ ~Running(r) /\ u \in accounts /\ op \in Tools
  /\ \/ op = "put_file" /\ p \in Sources \cup Fonts
     \/ op = "delete_file" /\ p \in Paths \ Staged
     \/ op = "compile_typst" /\ p \in Sources
  /\ requests' = [requests EXCEPT ![r] =
       [op |-> op, user |-> u, path |-> p, at |-> "stat", staged |-> None]]
  /\ UNCHANGED <<clock, tables, disk, pass, removals, faults>>

(* The link is the credential: no account is needed to follow it.          *)
Resolves(l) == ~(clock > l.expires)
LookupPDFLink(r, l) ==
  /\ ~Running(r) /\ l \in links
  /\ IF Resolves(l)
     THEN /\ "download" \in Tools
          /\ requests' = [requests EXCEPT ![r] = [op |-> "download", user |-> l.user,
                            path |-> l.path, at |-> "stat", staged |-> None]]
          /\ links' = links
     ELSE links' = links \ {l} /\ UNCHANGED requests
  /\ UNCHANGED <<clock, accounts, usage, disk, pass, removals, faults>>

(* migrateLegacyDir, one system call at a time.                            *)
StatCurrent(r) ==
  /\ At(r, "stat")
  /\ Goto(r, IF Home(r) \in dirs THEN "make" ELSE "legacy")
  /\ UNCHANGED <<clock, tables, disk, pass, removals, faults>>

(* A stat that fails for another reason than absence is left out; the code *)
(* goes on to make the directory then too.                                 *)
OnlyMake(u)        == "make"
AfterStatLegacy(u) == IF Raw(u) \in dirs THEN "rename" ELSE "make"
StatLegacy(r) ==
  /\ At(r, "legacy")
  /\ Goto(r, AfterStatLegacy(requests[r].user))
  /\ UNCHANGED <<clock, tables, disk, pass, removals, faults>>

(* rename(2) replaces an empty directory and refuses another.              *)
Regardless(r) == TRUE
Movable(r)    == Raw(requests[r].user) \in dirs /\ files[Home(r)] = NoFiles
Rename(r) ==
  LET legacy == Raw(requests[r].user) IN
  /\ At(r, "rename")
  /\ IF Movable(r)
     THEN /\ dirs' = (dirs \ {legacy}) \cup {Home(r)}
          /\ files' = [files EXCEPT ![Home(r)] = files[legacy], ![legacy] = NoFiles]
          /\ Goto(r, "make")
     ELSE /\ requests' = IF Home(r) \in dirs THEN [requests EXCEPT ![r].at = "make"]
                         ELSE [requests EXCEPT ![r] = None]
          /\ UNCHANGED disk
  /\ UNCHANGED <<clock, tables, pass, removals, faults>>

NewScopedFS(r) ==
  /\ At(r, "make")
  /\ dirs' = dirs \cup {Home(r)}
  /\ Goto(r, "ready")
  /\ UNCHANGED <<clock, tables, files, pass, removals, faults>>

(* Any error a tool returns; a compile removes what it staged on its way.  *)
Unstage(r) == files' = [files EXCEPT ![Home(r)] = [p \in Paths |->
                IF p = requests[r].staged THEN None ELSE files[Home(r)][p]]]
Return(r)  == requests' = [requests EXCEPT ![r] = None]

Fail(r) ==
  /\ Running(r)
  /\ Return(r) /\ Unstage(r)
  /\ UNCHANGED <<clock, tables, dirs, pass, removals, faults>>

PutFile(r) ==
  /\ At(r, "ready") /\ requests[r].op = "put_file"
  /\ files' = [files EXCEPT ![Home(r)][requests[r].path] = clock]
  /\ Return(r)
  /\ UNCHANGED <<clock, tables, dirs, pass, removals, faults>>

(* Of what is there when it removes; a path that is gone makes it Fail.    *)
DeleteFile(r) ==
  /\ At(r, "ready") /\ requests[r].op = "delete_file"
  /\ files[Home(r)][requests[r].path] # None
  /\ files' = [files EXCEPT ![Home(r)][requests[r].path] = None]
  /\ Return(r)
  /\ UNCHANGED <<clock, tables, dirs, pass, removals, faults>>

(* The document must exist; the preprocessed copy goes next to it.         *)
Stage(r, s) ==
  /\ At(r, "ready") /\ requests[r].op = "compile_typst"
  /\ files[Home(r)][requests[r].path] # None
  /\ files[Home(r)][s] = None
  /\ files' = [files EXCEPT ![Home(r)][s] = clock]
  /\ requests' = [requests EXCEPT ![r].at = "staged", ![r].staged = s]
  /\ UNCHANGED <<clock, tables, dirs, pass, removals, faults>>

RunTypst(r) ==
  /\ At(r, "staged")
  /\ files[Home(r)][requests[r].staged] # None
  /\ files' = [files EXCEPT ![Home(r)][PDF(requests[r].path)] = clock]
  /\ Goto(r, "written")
  /\ UNCHANGED <<clock, tables, dirs, pass, removals, faults>>

(* The compile's answer carries the link; its deferred calls run with it.  *)
MintPDFLink(r) ==
  LET request == requests[r] IN
  /\ At(r, "written")
  /\ links' = links \cup {[user |-> request.user, path |-> PDF(request.path),
                           expires |-> clock + LinkTTL]}
  /\ Return(r) /\ Unstage(r)
  /\ UNCHANGED <<clock, accounts, usage, dirs, pass, removals, faults>>

(* A download reads the file and changes nothing.                          *)
ServeContent(r) ==
  /\ At(r, "ready") /\ requests[r].op = "download"
  /\ Return(r)
  /\ UNCHANGED <<clock, tables, disk, pass, removals, faults>>

-----------------------------------------------------------------------------
(* The sweeper: one pass, then the next (Run).                             *)

InPass(label) == pass.at = label

DueAt(l, now)     == l.expires <= now
ExpiredAt(l, now) == l.expires < now
DeleteExpiredPDFLinks ==
  /\ InPass("links")
  /\ links' = {l \in links : ~ExpiredAt(l, clock)}
  /\ pass' = [pass EXCEPT !.now = clock, !.at = "live"]
  /\ UNCHANGED <<clock, accounts, usage, disk, requests, removals, faults>>

(* live[entry.Name()]: link rows carry user ids, entries directory names.  *)
LiveKey(l)     == Raw(l.user)
AfterNow(l)    == l.expires > pass.now
LiveAtNow(l)   == l.expires >= pass.now
LivePersistedPaths ==
  /\ InPass("live")
  /\ pass' = [pass EXCEPT !.at = "list",
       !.live = {<<LiveKey(l), l.path>> : l \in {x \in links : LiveAtNow(x)}}]
  /\ UNCHANGED <<clock, tables, disk, requests, removals, faults>>

ReadRoot ==
  /\ InPass("list")
  /\ pass' = [pass EXCEPT !.todo = dirs, !.at = "next"]
  /\ UNCHANGED <<clock, tables, disk, requests, removals, faults>>

(* A directory migrated or deleted since ReadRoot is skipped.              *)
SweepUser(d) ==
  /\ InPass("next") /\ d \in pass.todo
  /\ pass' = IF d \in dirs
             THEN [pass EXCEPT !.at = "walk", !.dir = d, !.todo = @ \ {d},
                               !.paths = {p \in Paths : files[d][p] # None}]
             ELSE [pass EXCEPT !.todo = @ \ {d}]
  /\ UNCHANGED <<clock, tables, disk, requests, removals, faults>>

Old(mtime) == mtime # None /\ mtime + FileTTL < pass.now
NoConfig(p) == FALSE
NotScratch(p) == p \in Fonts \cup Staged
IsConfig(p) == p \in Fonts
Protected(p) == <<pass.dir, p>> \in pass.live

(* d.Info() on the next entry, and what the callback decides from it.      *)
(* WalkDir goes in lexical order: any fixed order will do.                 *)
StatFile ==
  LET p == CHOOSE x \in pass.paths : TRUE IN
  /\ InPass("walk") /\ pass.paths # {}
  /\ pass' = IF /\ ~IsConfig(p)
                /\ FileTTL > 0 /\ Old(files[pass.dir][p]) /\ ~Protected(p)
             THEN [pass EXCEPT !.paths = @ \ {p}, !.victim = p, !.at = "remove"]
             ELSE [pass EXCEPT !.paths = @ \ {p}]
  /\ UNCHANGED <<clock, tables, disk, requests, removals, faults>>

(* os.Remove goes by path: it takes whatever is there by now.              *)
RemoveFile ==
  /\ InPass("remove")
  /\ files' = [files EXCEPT ![pass.dir][pass.victim] = None]
  /\ pass' = [pass EXCEPT !.victim = None, !.at = "walk"]
  /\ UNCHANGED <<clock, tables, dirs, requests, removals, faults>>

(* When the directory went away the walk may meet its absence and stop.    *)
RecordWorkspaceUsage ==
  /\ InPass("walk") /\ pass.paths = {}
  /\ \/ usage' = usage \cup {pass.dir}
     \/ pass.dir \notin dirs /\ usage' = usage
  /\ pass' = [pass EXCEPT !.dir = None, !.at = "next"]
  /\ UNCHANGED <<clock, accounts, links, disk, requests, removals, faults>>

EndPass ==
  /\ InPass("next") /\ pass.todo = {}
  /\ pass' = AtRest
  /\ UNCHANGED <<clock, tables, disk, requests, removals, faults>>

(* A pass that fails on the database or the disk; the loop goes on.        *)
Stopped   == [AtRest EXCEPT !.at = "stopped"]
AfterPass == AtRest
PassFails ==
  /\ faults < MaxFaults /\ faults' = faults + 1
  /\ \/ pass' = AfterPass
     \/ /\ pass.dir # None \* one user's trouble: on to the next
        /\ pass' = [pass EXCEPT !.at = "next", !.dir = None, !.paths = {},
                               !.victim = None]
  /\ UNCHANGED <<clock, tables, disk, requests, removals>>

-----------------------------------------------------------------------------
(* The administrator, and the world.                                       *)

DeleteUser(u) ==
  /\ u \in accounts \cap Deletable /\ u \notin removals
  /\ accounts' = accounts \ {u}
  /\ links' = {l \in links : l.user # u}
  /\ usage' = usage \ {Raw(u)}
  /\ removals' = removals \cup {u}
  /\ UNCHANGED <<clock, disk, requests, pass, faults>>

RemoveUserWorkspace(u) ==
  /\ u \in removals
  /\ dirs' = dirs \ {Raw(u)}
  /\ files' = [files EXCEPT ![Raw(u)] = NoFiles]
  /\ removals' = removals \ {u}
  /\ UNCHANGED <<clock, tables, requests, pass, faults>>

(* UpsertGitHubUser: a deleted user who signs in again.                    *)
SignIn(u) ==
  /\ u \notin accounts
  /\ accounts' = accounts \cup {u}
  /\ UNCHANGED <<clock, links, usage, disk, requests, pass, removals, faults>>

Crash ==
  /\ faults < MaxFaults /\ faults' = faults + 1
  /\ requests' = [r \in Requests |-> None]
  /\ pass' = AtRest /\ removals' = {}
  /\ UNCHANGED <<clock, tables, disk>>

Tick ==
  /\ clock < MaxClock /\ clock' = clock + 1
  /\ UNCHANGED <<tables, disk, requests, pass, removals, faults>>

RequestStep ==
  \E r \in Requests :
    \/ \E op \in Op, u \in Users, p \in Paths : CallTool(r, op, u, p)
    \/ \E l \in links : LookupPDFLink(r, l)
    \/ StatCurrent(r) \/ StatLegacy(r) \/ Rename(r) \/ NewScopedFS(r)
    \/ Fail(r) \/ PutFile(r) \/ DeleteFile(r)
    \/ RunTypst(r) \/ MintPDFLink(r) \/ ServeContent(r)
    \/ \E s \in Staged : Stage(r, s)

SweepStep ==
  \/ DeleteExpiredPDFLinks \/ LivePersistedPaths \/ ReadRoot
  \/ \E d \in Dir : SweepUser(d)
  \/ StatFile \/ RemoveFile \/ RecordWorkspaceUsage \/ EndPass

AdminStep == \E u \in Users : DeleteUser(u) \/ RemoveUserWorkspace(u) \/ SignIn(u)

Next == RequestStep \/ SweepStep \/ PassFails \/ AdminStep \/ Crash \/ Tick

Spec == Init /\ [][Next]_vars

(* Run loops for the life of the process and swallows every error.         *)
FairSpec == Spec /\ WF_vars(SweepStep)

-----------------------------------------------------------------------------
(* Properties.                                                             *)

(* The step is u's own delete_file of p.                                   *)
Discards(u, p) == \E r \in Requests :
  /\ At(r, "ready") /\ requests[r].op = "delete_file"
  /\ requests[r].user = u /\ requests[r].path = p /\ requests'[r] = None

Has(u, p) == \E d \in {Raw(u), DirName(u)} : files[d][p] # None

(* A user never has two workspaces, one under each name: whatever requests *)
(* race to migrate it, none of them makes an empty directory beside the    *)
(* one that holds the documents (migrateLegacyDir, TenantFactory.Resolver).*)
NoSplitWorkspace == \A u \in Users : ~({Raw(u), DirName(u)} \subseteq dirs)

(* A file leaves a user's workspaces in four ways only: with the account,  *)
(* by its owner's delete_file, as a compile's own staged copy, or as aged  *)
(* scratch the sweeper chose; what is under fonts/ in the first two only.  *)
(* A migration, a crash and a pass over a directory that moves lose        *)
(* nothing.                                                                *)
NothingElseLost ==
  [][\A u \in Users, p \in Paths : Has(u, p) /\ ~Has(u, p)' =>
       \/ u \in removals /\ u \notin removals'
       \/ Discards(u, p)
       \/ p \in Staged
       \/ pass.at = "remove" /\ pass.victim = p /\ p \notin Fonts]_vars

(* A link row goes when it no longer resolves or with its owner's account: *)
(* the sweeper's comparison never takes a link a visitor could still use   *)
(* (DeleteExpiredPDFLinks against LookupPDFLink at the same instant).      *)
ServableLinksKept ==
  [][\A l \in links : l \notin links' => ~Resolves(l) \/ l.user \notin accounts']_vars

(* In a directory named by its user id, a pass never takes the file of a   *)
(* link that was handed out before the pass and still resolves, whatever   *)
(* ran in between (SweepOnce reads the live set before it walks).          *)
LegacyLinksKeepFiles ==
  [][\A l \in links \cap links' :
       /\ Resolves(l) /\ l.expires < pass.now + LinkTTL
       /\ Raw(l.user) \in dirs /\ Raw(l.user) \in dirs'
       /\ files[Raw(l.user)][l.path] # None
       => files'[Raw(l.user)][l.path] # None]_vars

(* A link that no longer resolves is deleted in the end, clicked or not,   *)
(* whatever passes fail (Run goes on after an error).                      *)
ExpiredLinksDeleted ==
  \A u \in Users, p \in Outputs, t \in 0 .. MaxClock :
    LET l == [user |-> u, path |-> p, expires |-> t] IN
    (l \in links /\ ~Resolves(l)) ~> (l \notin links)

Aged(d, p) == files[d][p] # None /\ files[d][p] + FileTTL < clock

(* Scratch past its lifetime goes in the end, a copy that a crashed        *)
(* compile left staged included, unless a live link holds it               *)
(* (handleCompileTypst: "the workspace sweeper would collect it anyway").  *)
ScratchReclaimed ==
  \A d \in Dir, p \in Paths \ Fonts :
    Aged(d, p) ~> ~Aged(d, p) \/ \E l \in links : Resolves(l) /\ Raw(l.user) = d

(* What the sweeper's package comment says of every workspace: "a file     *)
(* with an unexpired download link pointing at it, kept however old it is".*)
LiveLinksKeepFiles ==
  [][\A l \in links \cap links' :
       Resolves(l) /\ files[DirName(l.user)][l.path] # None /\ ~Discards(l.user, l.path)
       => files'[DirName(l.user)][l.path] # None]_vars

(* What Config.FileTTL says: how long a workspace file survives after its  *)
(* last modification.                                                      *)
FreshFilesSurvive ==
  [][\A d \in dirs \cap dirs', p \in Sources :
       files[d][p] # None /\ ~Aged(d, p) /\ ~Discards(d.user, p)
         => files'[d][p] # None]_vars

(* What DEPLOYMENT.md says of a pass: it records each user's total size,   *)
(* under the key the administrators' page reads.                           *)
UsersMeasured ==
  \A u \in Users : DirName(u) \in dirs ~> (Raw(u) \in usage \/ u \notin accounts)

(* What the administrator is told: "Deleted X and all their data".         *)
DeletedFilesGone ==
  [][\A u \in Users : u \in removals /\ u \notin removals' /\ faults' = faults =>
       {Raw(u), DirName(u)} \cap dirs' = {}]_vars

(* What DeleteUser says: it removes every trace of a user from the         *)
(* database.                                                               *)
DeletedLinksGone == \A l \in links : l.user \in accounts \/ l.user \in removals
=============================================================================
