-------------------------------- MODULE Publish --------------------------------
(***************************************************************************)
(* Publishing a template (cmd/typst-d2-mcp/publish.go), the package view   *)
(* the compile check and every document resolve imports from (namespaces.go*)
(* of the same command), and the seeding of the built-in package at start. *)
(*                                                                         *)
(* A publish lists the source directory, stats the destination, copies the *)
(* listed files into a private root and compiles a document against them,  *)
(* and only then copies them, again from the workspace, into the store.    *)
(* put_file, the sweeper and other publishes run between any two of these  *)
(* calls.  Memberships do not change here: Namespaces models them.         *)
(***************************************************************************)
EXTENDS Naturals

CONSTANTS
  Users,
  Namespaces,   \* namespace ids, the built-in one among them
  Builtin,      \* authdb.BuiltinNamespaceID
  Names, Versions, \* of packages
  Files,        \* paths in a package
  Manifest,     \* typst.toml
  Contents,     \* what a file may hold
  Torn,         \* the content of a file whose write was cut short
  Broken,       \* contents typst rejects
  Imports,      \* the packages that a content imports
  Role,         \* of each user in each namespace: "owner", "member" or ""
  House,        \* the package embedded in the binary
  Bundled,      \* its files
  Requests,     \* publishes that may run at once
  MaxEdits,     \* bound: put_file calls and removed sources in one behaviour
  MaxFaults,    \* bound: crashes and failed calls in one behaviour
  Missing, None \* no such file; no such directory

Packages == Namespaces \X Names \X Versions
File     == Contents \cup {Missing}
Dir      == [Files -> File]

ASSUME PublishAssumption ==
  /\ Builtin \in Namespaces /\ Manifest \in Files
  /\ Torn \in Contents /\ Broken \subseteq Contents /\ Missing \notin Contents
  /\ Imports \in [Contents -> SUBSET Packages]
  /\ Role \in [Users -> [Namespaces -> {"owner", "member", ""}]]
  /\ House \in Packages /\ House[1] = Builtin
  /\ Bundled \in [Files -> File]
  /\ MaxEdits \in Nat /\ MaxFaults \in Nat
  /\ None \notin Dir /\ None \notin Users \cup (Files \X Contents)

VARIABLES
  source,   \* the directory each user publishes from
  put,      \* the put_file each user has open: its path and content
  store,    \* the package store on the data volume
  requests, \* the state of each publish
  boot,     \* the server: "seeding", "up", or "partial" when the seed failed
  seeded,   \* files of House this start has visited
  edits, faults

vars == <<source, put, store, requests, boot, seeded, edits, faults>>

Empty == [f \in Files |-> Missing]
Present(d) == {f \in Files : d[f] # Missing}

(* touched and calm are history: whether the source changed since it was   *)
(* listed, and whether the check ran while no publish was half way through *)
(* a package it could see.                                                 *)
Request ==
  {q \in [at : {"new", "stat", "view", "stage", "check", "mkdir", "install",
                "published", "refused", "aborted"},
          user : Users \cup {None}, dest : Packages \cup {None},
          files : SUBSET Files, left : SUBSET Files, staged : Dir,
          view : SUBSET Packages, touched : BOOLEAN, calm : BOOLEAN] :
     /\ q.at # "new" => q.user \in Users /\ q.dest \in Packages
     /\ q.at \in {"new", "stat", "view"} => q.left = {} /\ q.staged = Empty
     /\ q.left \subseteq q.files /\ Present(q.staged) \subseteq q.files}

TypeOK ==
  /\ source \in [Users -> Dir]
  /\ put \in [Users -> (Files \X Contents) \cup {None}]
  /\ store \in [Packages -> Dir \cup {None}]
  /\ requests \in [Requests -> Request]
  /\ boot \in {"seeding", "up", "partial"} /\ seeded \subseteq Files
  /\ edits \in 0 .. MaxEdits /\ faults \in 0 .. MaxFaults

Init ==
  /\ source \in [Users -> Dir]
  /\ put = [u \in Users |-> None]
  /\ store = [p \in Packages |-> None]
  /\ requests = [r \in Requests |->
       [at |-> "new", user |-> None, dest |-> None, files |-> {}, left |-> {},
        staged |-> Empty, view |-> {}, touched |-> FALSE, calm |-> FALSE]]
  /\ boot = "seeding" /\ seeded = {}
  /\ edits = 0 /\ faults = 0

-----------------------------------------------------------------------------
(* What typst resolves.                                                    *)

(* A directory that is a package and whose own files are in order: files   *)
(* beside the manifest stand for what the manifest and they refer to.      *)
Whole(d) == \A f \in Files : d[f] # Missing /\ d[f] \notin Broken

ImportsOf(d) == UNION {Imports[d[f]] : f \in Present(d)}

(* d loads when what it imports, directly or not, is in view and whole.    *)
Loads(d, view) ==
  /\ Whole(d)
  /\ \E deps \in SUBSET {p \in view : store[p] # None} :
       /\ ImportsOf(d) \subseteq deps
       /\ \A p \in deps : Whole(store[p]) /\ ImportsOf(store[p]) \subseteq deps

Allowed(u) == {Builtin} \cup {n \in Namespaces : Role[u][n] # ""}

(* A namespace nobody published to has no directory, and gets no link.     *)
PackageView(u) ==
  {p \in Packages : /\ p[1] \in Allowed(u)
                    /\ \E q \in Packages : q[1] = p[1] /\ store[q] # None}

(* The check replaces the link of the destination's namespace by a         *)
(* directory of links, one for each of its packages but the candidate's.   *)
Superseded(p, dest) == p[1] = dest[1] /\ p[2] = dest[2]
CheckView(u, dest) ==
  {p \in PackageView(u) :
     /\ ~Superseded(p, dest)
     /\ p[1] = dest[1] => \E v \in Versions : store[<<p[1], p[2], v>>] # None}

-----------------------------------------------------------------------------
(* publish_template                                                        *)

At(r, label) == requests[r].at = label
Up == boot # "seeding"

(* collectPackage's walk order: some fixed order of the paths.             *)
First(F) == CHOOSE f \in F : TRUE

Authorised(u, dest) == dest[1] # Builtin /\ Role[u][dest[1]] = "owner"

Become(r, q) == requests' = [requests EXCEPT ![r] = q]

(* The caller is authorised and the source listed; a source with no        *)
(* manifest, or none at all, is refused and leaves no trace.               *)
Begin(r, u, dest) ==
  /\ Up /\ At(r, "new")
  /\ Authorised(u, dest)
  /\ Manifest \in Present(source[u])
  /\ Become(r, [requests[r] EXCEPT !.at = "stat", !.user = u, !.dest = dest,
                  !.files = Present(source[u]), !.touched = put[u] # None])
  /\ UNCHANGED <<source, put, store, boot, seeded, edits, faults>>

Overwrites(p) == FALSE \* a mutant of Taken: no version is refused
Taken(p) == store[p] # None

StatDest(r) ==
  LET q == requests[r]
  IN /\ At(r, "stat")
     /\ Become(r, [q EXCEPT !.at = IF Taken(q.dest) THEN "refused" ELSE "view"])
     /\ UNCHANGED <<source, put, store, boot, seeded, edits, faults>>

(* installPackage copies the files of the list, whichever copy it makes.   *)
ToInstall(q) == q.files

BuildView(r) ==
  LET q == requests[r]
  IN /\ At(r, "view")
     /\ Become(r, [q EXCEPT !.at = "stage", !.left = ToInstall(q),
                             !.view = CheckView(q.user, q.dest)])
     /\ UNCHANGED <<source, put, store, boot, seeded, edits, faults>>

(* One file of the list is copied; label is where the last one leads.      *)
Copied(q, f, label) ==
  [q EXCEPT !.left = q.left \ {f}, !.at = IF q.left = {f} THEN label ELSE q.at]

(* installPackage into the private root, a file of the list at a time; a   *)
(* file gone since the listing ends the publish with an error.             *)
StageFile(r) ==
  LET q == requests[r]
      f == First(q.left)
      c == source[q.user][f]
  IN /\ At(r, "stage") /\ q.left # {}
     /\ \/ c = Missing /\ Become(r, [q EXCEPT !.at = "refused"])
        \/ /\ c # Missing
           /\ Become(r, [Copied(q, f, "check") EXCEPT
                           !.staged = [q.staged EXCEPT ![f] = c]])
     /\ UNCHANGED <<source, put, store, boot, seeded, edits, faults>>

InFlight(p) == \E r \in Requests :
  /\ requests[r].dest = p
  /\ requests[r].at \in {"view", "stage", "check", "mkdir", "install"}

Accepts(q) == TRUE \* a mutant of Verdict: the check's error is dropped
ImportsNothing(q) == Whole(q.staged) \* another: the candidate is not imported
(* The staged files decide.  Which templates to apply is read from the     *)
(* source's lib.typ at this moment (documentTemplateExports), which is the *)
(* staged one unless the source was edited since (touched).                *)
Verdict(q) == Loads(q.staged, q.view)

Calm(q) == \A p \in q.view : store[p] # None => ~InFlight(p)

(* The documents that import the candidate and apply its templates.        *)
CompileCheck(r) ==
  LET q == requests[r]
  IN /\ At(r, "check")
     /\ \/ ~Verdict(q) /\ Become(r, [q EXCEPT !.at = "refused"])
        \/ Verdict(q) /\ Become(r, [q EXCEPT !.at = "mkdir", !.calm = Calm(q)])
     /\ UNCHANGED <<source, put, store, boot, seeded, edits, faults>>

(* MkdirAll succeeds on a directory that has appeared since the stat.      *)
MkdirDest(r) ==
  LET q == requests[r]
  IN /\ At(r, "mkdir")
     /\ store' = [store EXCEPT ![q.dest] = IF @ = None THEN Empty ELSE @]
     /\ Become(r, [q EXCEPT !.at = "install", !.left = ToInstall(q)])
     /\ UNCHANGED <<source, put, boot, seeded, edits, faults>>

InstallFile(r) ==
  LET q == requests[r]
      f == First(q.left)
      c == source[q.user][f]
  IN /\ At(r, "install") /\ q.left # {}
     /\ \/ /\ c = Missing /\ UNCHANGED store
           /\ Become(r, [q EXCEPT !.at = "aborted"])
        \/ /\ c # Missing /\ store' = [store EXCEPT ![q.dest][f] = c]
           /\ Become(r, Copied(q, f, "published"))
     /\ UNCHANGED <<source, put, boot, seeded, edits, faults>>

-----------------------------------------------------------------------------
(* What else touches a source: put_file truncates, then writes;            *)
(* delete_file removes, and so does the sweeper.                           *)

Live(r) == requests[r].at \in {"stat", "view", "stage", "check", "mkdir", "install"}

Touch(u) == [r \in Requests |->
  IF Live(r) /\ requests[r].user = u
  THEN [requests[r] EXCEPT !.touched = TRUE] ELSE requests[r]]

PutFileOpen(u, f, c) ==
  /\ Up /\ edits < MaxEdits /\ edits' = edits + 1
  /\ put[u] = None /\ c # Torn
  /\ put' = [put EXCEPT ![u] = <<f, c>>]
  /\ source' = [source EXCEPT ![u][f] = Torn]
  /\ requests' = Touch(u)
  /\ UNCHANGED <<store, boot, seeded, faults>>

PutFileWrite(u) ==
  /\ put[u] # None
  /\ source' = [source EXCEPT ![u][put[u][1]] = put[u][2]]
  /\ put' = [put EXCEPT ![u] = None]
  /\ requests' = Touch(u)
  /\ UNCHANGED <<store, boot, seeded, edits, faults>>

RemoveSource(u, f) ==
  /\ Up /\ edits < MaxEdits /\ edits' = edits + 1
  /\ source[u][f] # Missing /\ put[u] = None
  /\ source' = [source EXCEPT ![u][f] = Missing]
  /\ requests' = Touch(u)
  /\ UNCHANGED <<put, store, boot, seeded, faults>>

-----------------------------------------------------------------------------
(* Failures, and the seeding of the built-in package.                      *)

Fault == faults < MaxFaults /\ faults' = faults + 1

(* A database or file system call fails before the store is written.       *)
PublishFails(r) ==
  /\ Fault /\ requests[r].at \in {"stat", "view", "stage", "check", "mkdir"}
  /\ Become(r, [requests[r] EXCEPT !.at = "refused"])
  /\ UNCHANGED <<source, put, store, boot, seeded, edits>>

(* Those of the requests that have opened their next file leave it cut.    *)
CutShort(cut) == [p \in Packages |->
  IF store[p] = None THEN None
  ELSE [f \in Files |->
          IF \E r \in cut : requests[r].dest = p /\ f = First(requests[r].left)
          THEN Torn ELSE store[p][f]]]

InstallFails(r) ==
  /\ Fault /\ At(r, "install")
  /\ \E cut \in SUBSET {r} : store' = CutShort(cut)
  /\ Become(r, [requests[r] EXCEPT !.at = "aborted"])
  /\ UNCHANGED <<source, put, boot, seeded, edits>>

(* The process stops and starts: every request is gone, and with it every  *)
(* private root; the volume is what it was.                                *)
Crash ==
  /\ Fault /\ Up
  /\ \E cut \in SUBSET {r \in Requests : At(r, "install")} : store' = CutShort(cut)
  /\ requests' = [r \in Requests |->
       IF ~Live(r) THEN requests[r]
       ELSE [requests[r] EXCEPT !.at = IF At(r, "install") THEN "aborted" ELSE "refused"]]
  /\ put' = [u \in Users |-> None]
  /\ boot' = "seeding" /\ seeded' = {}
  /\ UNCHANGED <<source, edits>>

ToSeed == Present(Bundled) \ seeded
Seeded(d, f, c) == [(IF d = None THEN Empty ELSE d) EXCEPT ![f] = c]
WholeOrNothing(f) == store[House] = None \* a mutant of Seedable
Seedable(f) == store[House] # None => store[House][f] = Missing

(* A file that is there, whatever it holds, is left alone.                 *)
SeedFile ==
  LET f == First(ToSeed)
  IN /\ boot = "seeding" /\ ToSeed # {}
     /\ store' = IF Seedable(f) THEN [store EXCEPT ![House] = Seeded(@, f, Bundled[f])]
                                ELSE store
     /\ seeded' = seeded \cup {f}
     /\ UNCHANGED <<source, put, requests, boot, edits, faults>>

SeedDone ==
  /\ boot = "seeding" /\ ToSeed = {}
  /\ boot' = "up"
  /\ UNCHANGED <<source, put, store, requests, seeded, edits, faults>>

(* A write fails, and the server starts without the rest, or the process   *)
(* stops and starts again; the file may be left truncated either way.      *)
SeedCut ==
  LET f == First(ToSeed)
  IN /\ Fault /\ boot = "seeding" /\ ToSeed # {}
     /\ \/ UNCHANGED store
        \/ Seedable(f) /\ store' = [store EXCEPT ![House] = Seeded(@, f, Torn)]
     /\ \/ boot' = "partial" /\ UNCHANGED seeded
        \/ boot' = "seeding" /\ seeded' = {}
     /\ UNCHANGED <<source, put, requests, edits>>

Next ==
  \/ \E r \in Requests :
       \/ \E u \in Users, p \in Packages : Begin(r, u, p)
       \/ StatDest(r) \/ BuildView(r) \/ StageFile(r) \/ CompileCheck(r)
       \/ MkdirDest(r) \/ InstallFile(r) \/ PublishFails(r) \/ InstallFails(r)
  \/ \E u \in Users :
       \/ PutFileWrite(u)
       \/ \E f \in Files : \/ RemoveSource(u, f)
                           \/ \E c \in Contents : PutFileOpen(u, f, c)
  \/ Crash \/ SeedFile \/ SeedDone \/ SeedCut

Spec == Init /\ [][Next]_vars

-----------------------------------------------------------------------------
(* Properties.                                                             *)

Published(r) == At(r, "published")
Writers(p) == {r \in Requests :
  requests[r].dest = p /\ requests[r].at \in {"install", "published", "aborted"}}

(* No other publish wrote to the version, and nobody changed the source.   *)
Undisturbed(r) ==
  Published(r) /\ ~requests[r].touched /\ Writers(requests[r].dest) = {r}

(* What an undisturbed publish leaves in the store is, file by file, what  *)
(* its compile check accepted, although the two are copied separately, and *)
(* it stays so.                                                            *)
PublishedAsChecked == \A r \in Requests :
  Undisturbed(r) => LET d == store[requests[r].dest]
                    IN d = requests[r].staged /\ Whole(d)

(* And it goes on compiling: with what the check could see, whatever is    *)
(* published, swept, cut short or restarted afterwards.                    *)
PublishedKeepsCompiling == \A r \in Requests :
  Undisturbed(r) /\ requests[r].calm =>
    Loads(store[requests[r].dest], requests[r].view)

(* A version that exists while no publish of it is past the stat is never  *)
(* written or claimed again, by a publish, a failure, a restart or the     *)
(* seed.                                                                   *)
Settled(p) == store[p] # None /\ ~InFlight(p)
SettledVersionsStay ==
  [][\A p \in Packages \ {House} : Settled(p) => Settled(p)' /\ store'[p] = store[p]]_vars

(* After a seed that ran to its end, first or not, no file of the built-in *)
(* package is missing, even when an earlier seed was cut short.            *)
SeedFillsGaps ==
  boot = "up" => \A f \in Present(Bundled) :
    store[House] # None /\ store[House][f] # Missing

(* "It must compile before it is accepted": of every publish that reported *)
(* success.  Refuted: the store gets a second copy of the workspace's      *)
(* files, and a put_file after the check is in it.                         *)
AcceptedCompiles == \A r \in Requests :
  Published(r) => Whole(store[requests[r].dest])

(* "A version, once published, is immutable."  Refuted: two publishes past *)
(* the stat both install.                                                  *)
VersionsImmutable ==
  [][\A r \in Requests : Published(r) =>
       store'[requests[r].dest] = store[requests[r].dest]]_vars

(* What importers find is a package that passed the check: with no publish *)
(* of it running, a version that exists is whole.  Refuted: a copy that    *)
(* fails half way leaves what it wrote, and the version number is taken.   *)
StoreHoldsWholePackages == \A p \in Packages \ {House} :
  Settled(p) => Whole(store[p])

(* The check sees what the document will see.  Refuted: the older versions *)
(* of the candidate's own package are out of the check's view.             *)
CheckSeesOlderVersions == \A r \in Requests :
  At(r, "view") =>
    LET q == requests[r]
    IN Loads(source[q.user], PackageView(q.user) \ {q.dest}) =>
         Loads(source[q.user], CheckView(q.user, q.dest))

(* "A template that resolves here resolves for everyone importing it       *)
(* later."  Refuted: the check resolves what the publisher may see, which  *)
(* the members of the destination's namespace need not.                    *)
ResolvesForImporters == \A r \in Requests :
  Undisturbed(r) /\ requests[r].calm =>
    \A u \in Users : requests[r].dest[1] \in Allowed(u) =>
      Loads(store[requests[r].dest], PackageView(u))

(* The built-in package is on every volume.  Refuted: a file that a cut    *)
(* seed left truncated is "already present" for every later one.           *)
HouseUsable ==
  boot = "up" => \A f \in Present(Bundled) :
    store[House] # None /\ store[House][f] = Bundled[f]
=============================================================================
