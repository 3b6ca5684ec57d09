# A verification project for typst-d2-mcp

typst-d2-mcp serves Typst compilation with D2 diagrams over MCP: locally over
stdio, or hosted over HTTP with GitHub sign-in, a workspace per user, download
links, template namespaces and an administrator's UI. The hosted mode is where
the difficulty is: handlers that run at once over one SQLite file and one
volume, a sweeper beside them, restarts, and long gaps (a compile, a visit to
GitHub) between reading something and acting on it. That part is modelled here
in TLA+, model-checked with TLC and, where it matters most, proved with TLAPS.

Paths below are relative to the repository's root.

## 1. Inventory

| Component | Code | State it keeps | Operations | What makes it hard | What makes it correct | Here |
|---|---|---|---|---|---|---|
| OAuth authorization server | `internal/auth/oauth.go`, `github.go`, `internal/authdb/oauth.go` | `oauth_clients`, `oauth_authorize_sessions`, `oauth_authorization_codes` | register, authorize, GitHub callback, token | each handler is several transactions; callbacks and token requests are replayed; the account or the client goes away in between | one code per sign-in, one token per code, a token names its signer and answers its own request | `AuthServer` |
| Accounts and API keys | `internal/authdb/authdb.go`, `admin.go` | `users`, `api_keys`, `invites`, `admin_audit` | upsert, issue, invite, revoke, delete | deletion spans many tables while requests are under way | nothing dangling, nothing left | `AuthServer`, `Namespaces`, `Workspaces` |
| Namespaces and organisations | `internal/authdb/namespaces.go`, `orgs.go` | `namespaces`, `namespace_names`, `namespace_members` | ensure personal, create, rename, delete, members | first sign-ins race; logins move between accounts; administrators name people by login | names never repoint, one primary name, an owner stays | `Namespaces` |
| Workspaces | `internal/workspace`, `cmd/typst-d2-mcp/main.go`, `files.go` | a directory per user | resolve or migrate, put_file, delete_file, compile | requests of one user race through stat/rename/mkdir; crashes in a compile | one workspace per user, nothing lost | `Workspaces` |
| PDF links | `internal/authdb/pdflinks.go` | `pdf_links` | mint, look up, expire | expiry against lookup, sweep and deletion | a link that resolves has its file | `Workspaces` |
| Sweeper | `internal/sweeper`, `internal/authdb/gc.go` | `workspace_usage`, memory of a pass | a pass: links, live set, walk, remove, usage, client prune | a walk acts on what was read before it | only aged scratch goes, all of it does | `Workspaces`, `AuthServer` |
| Publishing | `cmd/typst-d2-mcp/publish.go` | the package store on the volume | publish_template | the files that compiled are not the files installed; failures half way | what is in the store compiled and never changes | `Publish` |
| Package view | `cmd/typst-d2-mcp/namespaces.go` | a directory of links per compile | build for a caller | the check's view and a document's differ | what resolves in the check resolves later | `Publish` |
| Built-in templates | `templates/embed.go`, `main.go` | the house package on the volume | seed at every start | a start that is cut short | the package is whole | `Publish` |
| Compile quota | `authdb.go`, `admin.go`, `main.go` | `compiles`, `users.quota_per_day` | read limit, count, override, reset | three statements per compile, deferred transactions, midnight | a unit is taken once, and a transaction happens in one step or not at all | `QuotaLocks`, which implements `Quota` |
| Storage budget | `authdb/budget.go`, `main.go` | `workspace_budgets` | project, refuse, override | measured before the write | it is exceeded by a bounded amount | `WorkspaceFiles` |
| Page previews | `resources.go` | `.preview` directories | render, read, remove | renders and edits race | a page shown is a page of the document | `WorkspaceFiles` |
| Schema migrations | `authdb/migrate.go` | `schema_migrations` | baseline, apply, refuse | a stop between revisions, two starts, old and new binaries | each revision once, in order; no pod serves a schema it does not know | `Migrations` |
| Administrator sessions | `internal/web/session.go`, `server.go` | cookies only | sign in, check, sign out | several tabs, expiry, a changed configuration | only administrators act | not modelled |
| Administrator pages | `internal/web/handlers_*.go` | none of their own | one store call each | see the components they call | | with those |
| D2 preprocessor | `internal/preprocessor` | none | scan, render diagrams | code that looks like a fence in strings and comments | all real calls are replaced and nothing else | `Scanner` |
| Read-only tools, metrics, CLI, d2/typst wrappers, development sign-in | | none | | | | not modelled |
| Packaging, deployment, browser tests | | none | | | | not modelled |

How they interact. A request carries a bearer token; the middleware turns it
into an identity (`api_keys` join `users`) and every tool takes its workspace
from that identity. compile_typst_with_d2 counts against the quota, stages a
copy in the workspace, runs typst on the caller's package view and mints a
link, which anybody can follow without signing in. publish_template reads the
caller's workspace, asks the namespaces for the role and writes the store that
every package view links to. The sweeper reads `pdf_links`, walks all the
workspaces, writes `workspace_usage` and prunes `oauth_clients`. An
administrator's deletion of a user touches nearly all of these tables and then
the user's workspace. Nothing but SQLite and the file system synchronises any of
this: the code holds no lock across two of these calls.

`PROJECT.json` lists the hazards one by one, each at its line, with the
properties that cover it or the reason none does yet.

## 2. Modules

| Module | Models | Extended or checked by |
|---|---|---|
| `AuthServer` | sign-in from registration to token; keys, invites, deletion; the prune | `MCAuthServer`, `AuthServerProofs` |
| `Namespaces` | namespaces, names, members; sign-in's provisioning | `MCNamespaces`, `NamespacesProofs` |
| `Workspaces` | directories, files, links, sweeper passes, deletion | `MCWorkspaces`, `WorkspacesProofs` |
| `Publish` | publishes, compile check, package view, store, seed | `MCPublish`, `PublishProofs` |
| `Scanner` | the search for d2 calls, their rendering and replacement, the import | `MCScanner`, `ScannerProofs` |
| `WorkspaceFiles` | documents, their storage budget, their page previews | `MCWorkspaceFiles`, `WorkspaceFilesProofs` |
| `Quota` | what the compile quota promises: each transaction one step | instantiated by `QuotaLocks` |
| `QuotaLocks` | the same transactions as they run on SQLite's locks | `MCQuotaLocks`, `QuotaLocksProofs` |
| `Migrations` | pods starting on one database | `MCMigrations`, `MigrationsProofs` |

`Workspaces` and `WorkspaceFiles` look at one workspace from two sides: the
first has modification times, links and the sweeper, the second sizes, texts and
pages, and no sweeper.

Conventions shared by all of them:

- A step is one SQLite statement or transaction, or one call on the file system.
  What a handler keeps in memory between two steps is a record in a variable
  (`callbacks`, `exchanges`, `signIns`, `requests`, `pass`); a crash or restart
  forgets these records and keeps tables and disk. A transaction commits as if
  it were alone or fails; a failure is the handler's error path.
- Actions and variables have the names of the code. `PROJECT.json`'s `map`
  gives the lines of each definition.
- History variables (`asked`, `origin`, `grants` in `AuthServer`; the fields
  `touched` and `calm` in `Publish`; `written` in `Scanner`; `overtook` in
  `WorkspaceFiles`) record what happened and enable nothing.
- A few helpers have a twin above them that has the same
  parameters and a plausible mistake: the properties were tested against them.

### AuthServer

`clients`, `sessions`, `codes`, `keys`, `users`, `invites` are tables, indexed
by what identifies a row; a row carries its age. `ServeCallback` is
`ConsumeAuthorizeSession` → `AuthenticateAtGitHub` (with the allowlist) →
`UpsertGitHubUser` → `MintAuthorizationCode`, `ServeToken` is
`ConsumeAuthorizationCode` → `IssueAPIKey`, each with its failure, and
deletions, restarts and prunes run between them. `users.id` is AUTOINCREMENT in
the schema, which is why a row id held across a deletion names nobody
(`TokenNamesSigner` fails if the lowest free id is reused).
Random identifiers are drawn from finite sets and never drawn twice. An
account keeps its login here (`Namespaces` moves logins), and the provisioning
of a namespace inside `UpsertGitHubUser` is in `Namespaces` too. Redirect URIs
are validated and compared by the code as opaque strings bound to the client;
they are left out together with wording.

### Namespaces

`creator`, `names`, `primary`, `role` are the three tables. A derived name (of
a GitHub id) is represented by the account itself. `githubLogin` is the truth at
GitHub, `users` what the table cached at the last sign-in; two rows can hold one
login. Every administrator's operation takes the login or name as typed and
resolves it inside its transaction as the SQL does. `AddName` has no caller
outside the tests yet; it is modelled because every name property depends on it.

### Workspaces

`dirs` are the directories below the root, by their two possible names (the raw
user id of older versions, `DirName` today); every signed-in identity is
`gh:<id>`, so the two always differ. `files` maps a path to its modification
time, which is all that the sweeper and the tools tell apart. A request
resolves its workspace (stat, stat of the legacy name, rename, mkdir), then acts.
`compile_typst` stages a copy, runs typst, mints a link. A pass deletes expired
links, reads the live set, reads the root, and then walks: `StatFile` takes one
file's age, `RemoveFile` removes it by path, and any tool can run between the
two. `DeleteUser` is the transaction and `RemoveUserWorkspace` the removal of
the directory after it.

Abstracted: sub-directories and their pruning, sizes, tokens of links (two
links for one path and expiry are one), path validation, the order of a walk
(some fixed order). delete_file's stat and remove are one step and the pages it
also removes are left out. `RemoveAll` is one step. How a workspace name
escapes is not modelled: `DirName` is injective, which its own tests cover.
The two stats of a migration tell whether a directory is there. One that fails for
another reason is left out: `migrateLegacyDir` takes any error on the legacy name for
"nothing to migrate" (`workspace.go:256`), so that a legacy directory which the system
cannot stat at that moment stays beside the new one, against `NoSplitWorkspace`.

### Publish

`source` is the directory a user publishes from, `store` the data volume, file
by file with contents that typst accepts or rejects and that may import
packages. A publish goes `Begin` (role, listing) → `StatDest` → `BuildView` →
`StageFile`* → `CompileCheck` → `MkdirDest` → `InstallFile`*. put_file is an
open that truncates and a write; the sweeper and delete_file remove sources;
calls fail and the server stops at any point. A start runs `SeedFile`* →
`SeedDone`. `Loads(d, view)` is typst's verdict on a package: nothing in it
rejected and every import found in the view and whole.

Abstracted: memberships do not change, one source directory and one put_file in
flight per user, a copied file arrives whole unless the copy is cut short, the
checks of names, sizes and exports are part of the verdict, packages that import
each other in a circle do not occur, and operators do not edit the volume. The check
takes the names of the document templates to apply from the source's `lib.typ` at that
moment (`publish.go:355`), and everything else from the staged files; the model judges the
staged files alone. The two agree unless the source was edited since (`touched`), and the
properties of a published version leave those publishes out.

### Scanner

A source is a sequence of symbols, one for each delimiter that the scanner looks
at and one for any word. One step is one turn of `scanRegion`'s loop; `regions`
is the stack of its recursive calls, so that an offset and a mode are all the
scanner's state, as in the code. Then `Render` draws diagrams first to last,
`Replace` puts images in place last to first, `addBasedImport` adds the import,
and `Preprocess` starts over on the output. `MCScanner` builds documents piece by
piece together with the calls that are in them: what the author wrote
(`written`) is what the scanner's result is compared with.
A call's block keeps its options as `parseOptions` reads them, and
`svgToTypstImage` puts a width and a pad into the image as they are: any text up to
a comma or a closing parenthesis. That matters to `NothingLeft`: what the scanner
skipped between a call's parentheses comes back as code. `former` remembers the calls
whose images stand in the source that is scanned again.

Abstracted: the letters of words and the white space that is not a separator; options
other than width and pad, which go to d2 and not into the output; single quotes around
a value; line and column of an error, of which only the call it names is kept. d2 draws a diagram or does not, as it likes.

### WorkspaceFiles

`put_file` reads its budget, walks the workspace, looks at the file it will
replace, and then writes: an overwrite truncates and writes in two steps
(`os.WriteFile`), an append writes once. A page read lists the preview directory,
takes the pages that are newer than the source, or removes the directory, makes
it, reads the source and lets typst write one page after another. `delete_file`
removes the document and then its pages. All of them run between each other's
steps, and a render can be cut short.

Abstracted: the walk and a listing are one step; a text is a draft and a size, a
unit of text fills a page and a page weighs a unit; a document has no includes
(the code's freshness test does not know of them either); no sweeper.

### Quota and QuotaLocks

`Quota` is the promise. A compile reads its limit, stamps the day, and takes a
unit or is refused, in one step; a sign-in, `SetQuota`, `ResetTodayCompiles` and
`DeleteUser` are one step each. `QuotaLocks` has the same handlers on SQLite in
rollback-journal mode, which is what `Open` leaves in force: a read takes SHARED
and keeps it to the end of its transaction, the first write takes RESERVED, a
commit waits for the other readers under PENDING. `IncrementCompile` is a
deferred transaction that reads and then writes, and so is `DeleteUser`; one
that has read and finds RESERVED taken fails at once, one that has not waits. A
cancelled context, a crash or a commit that gives up are `Cancel` and
`CancelVerb`: a rollback anywhere. The locks themselves are external and
modelled from SQLite's documented behaviour; the mapped lines are the statements
that take them.

`Q == INSTANCE Quota WITH requests <- ...` maps a transaction that has not
committed to a compile that has not counted. What a verb has begun is invisible
to `Quota` until it commits.

### Migrations

`recorded` is `schema_migrations`, `applied` counts how often the statements of a
revision are in the schema, so that a revision run twice shows. A pod reads the
revision, refuses a newer one, stamps a database that has tables and no
revisions, and applies each missing revision with its row in a transaction that
holds the write lock. Pods have old and new binaries (`Latest`). Where `overlap`
is false a pod starts when no other runs, which is what the manifest
asks for (one replica, `maxSurge: 0`); where it is true nothing keeps a second
one out (another strategy, a container started by hand). The statements of a revision are
one step: they are in one transaction and the lock is held throughout.

## 3. Runs

| Run | Question | Result |
|---|---|---|
| `auth` | two clients, callbacks and token requests, with replays, deletions, the prune and restarts | no dangling rows; one code per session; one token per code; a token names its signer and answers its request; exchanged clients stay |
| `auth_abandoned` | does the registration table shrink? | every registration is used or pruned |
| `namespaces` | sign-ins, login changes, organisations, renames, deletions | five properties of names, members and owners |
| `workspaces` | a tool call, a pass, a deletion, a migration over three instants | nothing else lost; servable links stay; legacy links keep their files |
| `workspaces_migrate` | two requests migrate one workspace, with faults | one workspace; nothing lost |
| `workspaces_reclaim` | is everything reclaimed in spite of faults? | expired links and aged scratch go |
| `publish` | two publishes over two namespaces that import each other, an edit, a fault, the seed | published as checked; what was checked in calm goes on compiling; settled versions stay; the seed fills gaps |
| `scanner` | over 46,000 sources: documents with known calls and options, and all short strings of symbols | exactly the calls are found, with their options; images land in their places; the first broken diagram is named; nothing is left for typst by calls with modest options; it always ends |
| `files` | two calls at a time put, append, render, read and delete a document, while the budget changes | types; pages that look fresh are the document's, and all of it, under the conditions stated; the budget is exceeded by one write for each other call at most |
| `quota` | two compiles of one user and a transaction of an administrator or a sign-in, over two days | what a transaction has read stays true; `Quota` is implemented; no unit is spent twice; nobody waits for ever |
| `migrations` | an old and two new pods on a new, an old or a migrated database, with faults anywhere | every revision once and in order; no pod serves a schema it does not know; starting again is enough |

A module's type invariant is proved for all instances (section 4). The runs
`scanner` and `files` check theirs as well; the others do not check it again.

One more run checks a sentence of the repository that the code does not live up
to; TLC's counterexample shows how (the finding in `PROJECT.json`):

| Run | The repository says | The run shows |
|---|---|---|
| `workspaces_delete` | `handlers_admin.go:286`: rows and workspace "both go" | the migrated workspace stays |

More sentences turned out not to hold while the modules were written. They are
not among the listed runs, but each has its property and its configuration,
which TLC refutes:

| Configuration | The repository says | What TLC shows |
|---|---|---|
| `MCNamespacesGuard.cfg` | `orgs.go:30`: an action that "would leave a namespace with nobody able to publish to it" is refused | owners whose account is deleted still count |
| `MCWorkspacesLive.cfg` | `sweeper.go:8`: a file with an unexpired link is "kept however old it is" | not in a directory named by `DirName` |
| `MCPublishImmutable.cfg` | `publish.go:34`: a version "is immutable" | two publishes past the stat both write it |
| `MCPublishPartial.cfg` | `publish.go:28`: a template that fails to compile "fails for everyone who imports it afterwards" | a copy that fails leaves half a package, and its version taken |
| `MCScannerImport.cfg` | `README.md:242`: the import of `decode64` is added "at the top" | it goes after the last import line, be it behind a diagram; with no newline after that line the offset is past the end and the slice panics |
| `MCWorkspaceFilesStale.cfg` | `resources.go:116`: "a stale preview cannot be served as if it were current" | a put_file during a render is older than the pages drawn from the text it replaced |
| `MCAuthServerUnexchanged.cfg` | `sweeper.go:55`: ClientTTL is how long a registration survives "that has never completed a token exchange" | a code redeemed with a wrong verifier marks its client used for ever |
| `MCNamespacesForgotten.cfg` | `admin.go:326`: DeleteUser "removes every trace" | memberships stay |
| `MCWorkspacesInflight.cfg` | `admin.go:326` again | a compile in flight mints a link for a user who is gone |
| `MCWorkspacesFresh.cfg` | `sweeper.go:51`: FileTTL counts from the last modification | a file rewritten between stat and remove is lost |
| `MCWorkspacesUsage.cfg` | `DEPLOYMENT.md:114`: the pass records each user's size for the admin UI | under a key that the UI never asks for |
| `MCPublishAccepted.cfg` | `templates/README.md:71`: "It must compile before it is accepted" | a put_file after the check is installed unchecked |
| `MCPublishOlder.cfg` | `publish.go:312`: "a new version can build on an older one" | the check cannot see its own package's older versions |
| `MCPublishMembers.cfg` | `publish.go:263`: "resolves for everyone importing it later" | not for members who do not share the publisher's namespaces |
| `MCPublishSeed.cfg` | `templates/README.md:61`: the house templates "exist for everyone" | a truncated file is never repaired |

The properties that hold are chosen beside these: `LegacyLinksKeepFiles` is what
the live set does achieve, `PublishedAsChecked` and `SettledVersionsStay` are
what the stat and the check do achieve, and under which condition.

### Bounds

All the constants that a comment calls a bound exist for TLC only. Lifetimes are
one or two ticks, because the code compares them and does nothing else with
them, and an age saturates one tick past what it is compared with.

- `AuthServer`: two clients, sessions, codes, keys, token requests and accounts
  (one account an administrator), and up to three `users` rows, so that one
  account is deleted and signs in again. More identifiers add independent copies:
  every property compares at most two of them. The liveness run has one of each,
  since symmetry is unsound there.
- `Namespaces`: two accounts, three logins (so that a login can change hands
  while another is free), two slugs, two namespace ids, two sign-ins at once:
  enough for two rows with one login and for a name to be freed and taken again.
- `Workspaces`: one user (workspaces of different users share no state but the
  pass, which handles one directory at a time), a document, its PDF, a font and
  one name for staged copies; two requests where they race, one where the clock
  runs. Three instants separate before, at and after an expiry. `Tools` limits
  which tools a run calls: `workspaces` has the two that remove and mint,
  `workspaces_migrate` all that resolve a workspace at once, and every
  refuted run has all four.
- `Publish`: one owner, two publishes, two versions of a package in each of two
  namespaces and the built-in one; two files (the manifest and `lib.typ`); one
  edit and one fault, which is all that the refutations need, one of either.
  `Role`, `Imports` and `Bundled` are given in `MCPublish`.

- `Scanner`: three families of strings of up to five symbols over alphabets that
  put brackets, strings and raw blocks side by side; documents of one piece with
  any header and any broken ending, and of any two pieces, where a piece is a call
  in each form and each diagram text, an opaque region with something like a call
  in it, or a region with one or two of these. Before a diagram stand no options, other
  ones, a width, a pad, both, one twice, quoted or not, `none` and `intrinsic`, and values
  that are more than a length, among them one that is a d2 call: that document is scanned
  again like the others, and `Modest` leaves it out of `NothingLeft` only. `maxScanDepth` is 3
  for 256, so that the branch at the limit is entered.
- `WorkspaceFiles`: one document, two drafts of which typst rejects one, two
  calls, a put_file of one unit, budgets of 1 and 2, documents up to 4 units
  (`MaxSize`: past every budget with its overshoot), three instants, one render cut
  short. `OvershootBounded` was also checked with three calls, two documents and
  puts of two units, without previews.
- `Quota`: one user, two compiles and one other transaction, a default of 1 with
  overrides 2 and unlimited, two days: two compiles that both see the last unit, a
  limit that changes between its read and the count, and midnight between the
  stamp and the count. Larger instances (two users with one login, two other
  transactions, two users) were checked once; the theorems have no bound.
- `Migrations`: one pod of a binary that knows two revisions, two of one that knows
  four, three faults (one for each transaction a start may lose), overlapping or
  not. The nine revisions of the code are alike to `runMigrations`.

Deadlock is checked except in the runs `publish` and `scanner`: a publish is used
once and the system rests when all have ended, and a document ends when it is
preprocessed.

### Fairness

Safety runs use `Spec`, where everything may stop. `AuthServer`'s `FairSpec`
asks that time passes, that a pass begins again and again (`Sweeper.Run` ticks
for the life of the process and logs every error instead of returning it), and
that the DELETE, retried in every pass, is not refused for ever (strong
fairness: a failing pass disables it in between). `Workspaces`' `FairSpec` asks
only for weak fairness of the sweeper's next step; faults are finite there
(`MaxFaults`). `Scanner`'s `Spec` has weak fairness of `Next`: it is one
sequential function. `QuotaLocks`' `FairSpec` has weak fairness of every call's
own next step, which is the Go scheduler and SQLite's busy handler, and none of
the client that cancels. `Migrations`' `FairSpec` lets a process that runs go on;
nothing makes the deployment start one, so `RestartsServe` speaks of a pod that is
started again and again. No fairness is assumed of users, browsers or compiles: a request
may stay where it is for ever.

## 4. Theorems

`AuthServerProofs`, `NamespacesProofs`, `WorkspacesProofs`, `PublishProofs`,
`ScannerProofs`, `QuotaLocksProofs`, `MigrationsProofs` and `WorkspaceFilesProofs`
prove the safety properties for all values of the constants that satisfy the named
assumptions (lifetimes are naturals, the `None`-like values are distinct from what
they stand beside, a workspace has finitely many documents and calls, a source is a
sequence of the symbols the scanner tells apart, and the like; TLC evaluates them
in the runs). In each, the invariant is split into named parts, an action has one
step in the proof that the parts are preserved, and the properties follow.

- `AuthServerProofs`: type correctness; `NoDanglingRows`, `OneCodePerSession`,
  `OneTokenPerCode`, `TokenAnswersRequest`, `TokenNamesSigner`,
  `ExchangedClientsKept`. The invariant says what every row and every running
  handler still owes to the request that started its sign-in: an identifier not
  yet drawn has left no trace (`IssuedInv`); a session or callback that is still
  open has given no code (`SessionInv`, `CallbackInv`); a code, an exchange and a
  key carry the client, challenge and account of their origin (`CodeInv`,
  `ExchangeInv`, `GrantInv`), where a `users.id` belongs to an account because ids
  are never assigned twice (`Belongs`); and an exchange under way holds a spent
  code nobody else holds, for a client marked used.
- `NamespacesProofs`: type correctness; `RowsNeedNamespace`, `OnePrimaryName`,
  `PersonalNamesOwn`, `NamesStay`, `OwnersStay`. These are nearly inductive by
  themselves; the invariant adds that a namespace that exists was drawn
  (`DrawnInv`), so that a new one finds no rows of an older one.
- `WorkspacesProofs`: type correctness; `NoSplitWorkspace`, which becomes
  inductive with `MakersMigrated` (a request about to make its directory leaves no
  legacy one behind it, and nothing creates that name again); `ServableLinksKept`,
  `LegacyLinksKeepFiles` and `NothingElseLost` from `PassInv`: the pass's instant is
  past (`NowPast`), the live set covers every link older than it that still
  resolved then (`LiveCovers`), and its victim is scratch that the live set does
  not name (`VictimIsScratch`). `FilesStep` says, action by action, which files a
  step can take.
- `PublishProofs`: type correctness; `SettledVersionsStay` from `Opened` (a publish
  that has made its destination has made a version that exists, so that later
  stats see it); `PublishedAsChecked` from
  what a publish knows of its copies at each label (`Copies`, `Checked`,
  `Installed`) and of who else wrote there (`Owned`, `Foreign`);
  `PublishedKeepsCompiling` from `Grounded`: a calm check rests on settled packages
  that load from one another, and settled packages never change;
  `SeedFillsGaps` from `Filled`.
- `QuotaLocksProofs`: type correctness; `LocksHold`, which is inductive with the
  types: a commit happens only when no other transaction has read, so what a reader
  has seen (a unit left, a row with the login) stays true until it ends, and a
  writer has RESERVED alone. From it `AdmittedWithinLimit`, and `ImplementsQuota`:
  `GateRefines` and `VerbRefines` map each step to a step of `Quota` or to a stutter,
  a commit to the whole transaction; `DaysCome` (nobody stamps a day to come) is
  what a reset needs. Refinement is proved for the safety part, `Q!Spec`, which has
  no fairness.
- `MigrationsProofs`: type correctness; `HistoryTrue` and `ServesKnownSchema`, with
  `StepsTrue` (what a starting pod has learnt stays true until it acts on it,
  because revisions are only added and `schema_migrations` refuses a second row) and
  `AloneTrue` (without overlap nobody has moved the schema meanwhile).

- `WorkspaceFilesProofs`: `CacheCurrent` and `CacheWhole`, from an invariant of each
  document: nothing is stamped later than the clock (`PastTimes`), a page newer than
  its document shows it, page by page (`PagesShow`), a render that no write has
  overtaken draws the current text (`DrawsCurrent`), and a page missing beside a
  newer one is still to be drawn by some render (`Covered`), which is the part a
  render cut short breaks. And type correctness and `OvershootBounded`, for any
  number of calls and documents, from `BudgetInv`: there are a capacity for each
  document, which it stays within, and units for each call, which cover what the
  call may still write beyond that capacity, and all of them together are at most
  the largest budget and one upload for each call but one. A write moves units from
  its call to its document; a call that was admitted a moment ago fits the budget by
  itself, so the others' units are at most an upload each. A type invariant alone
  does not do: the sum of the documents cannot be bounded without what is under way.
- `ScannerProofs`: type correctness, `DiagramsInPlace`, `FirstFailureNamed` and `NothingLeft`, for
  any source, any number of diagrams and any `maxScanDepth`. The helpers that skip a
  string, a comment, a raw block or a bracket end in the source (`AfterOpaqueBounds`,
  `ParensBounds`, `BracketsBounds`), so each case of `scanRegion`'s loop is one kind of
  step, `Turn`: it moves on and reads at most one d2. Hence `CallsAreApart` (the calls
  are in order, none overlaps another, each is a d2) and `StepsGoOn`: no step turns in
  circles, as the comment on `markupHash` (`scan.go:173`) says of its case, which with the
  bounds of `TypeOK` is all of `Terminates` but the fairness. `DiagramsInPlace` becomes
  inductive with `Phases`: while calls are replaced, the content is the source up to
  the last call not yet replaced, followed by the splice from there (`ReplacedOne` is
  the step, and uses that the calls are apart).
  `NothingLeft` (`NothingIsLeft`) compares two scans of two texts, so the scanner is first
  described without its variables: a trail (`Trail`, `Leads`) is a set of places in a text
  and the regions that are open at each, from one to the next of which there is opaque
  text, a name, a bracket, any other symbol (`Quiet`), or a call (`CallRead`). The
  inductive invariant is `Walk`. The first scan goes along a trail that reads every call
  it has found; while calls are replaced, the content has a trail that reads those still
  to be replaced; what is returned has one that reads none; and the second scan is on its
  way along that one, from which it finds nothing (`NoneFound`) and which it cannot leave
  (`LeadsThrough`). Most of the work is in two lemmas on texts. `CallReplaced`: the last
  call replaced by its image, the rest of the trail is the same a few symbols further on,
  an image is read in the regions its call was in, and a name, a comment or a string that
  ends where the call began still does. `ImportAdded`: a line put in after a newline may
  land in the middle of a string, a comment or raw text, and closes none of them. An
  image is a text with a width and a pad of the author's in it: `CallReplaced` follows
  the scanner through these two as through any text that opens nothing (`Inert`). The
  theorem assumes `[][CallsFit]_vars`: a call leaves three more levels, which the
  parentheses of a pad, an image and its decode64 take. With the code's 256 that leaves
  out the documents that have a call inside more than 253 open regions, and no others.

Both of these need induction: a total over a set, or a recursive function, is a
`CHOOSE` to the prover, whose equation has to be proved before anything else. The
induction theorems of the library take an operator and cannot be instantiated, but
well-foundedness is first-order: a set of counterexamples that is not empty has a
least member (`LeastNat`, and the least subset in `WorkspaceFilesProofs`).
`TailRecursion` and `TailInduction` state this once for functions that end in a call
of themselves, `ChainRecursion` for the splice.

Only model-checked: liveness (`AbandonedClientsPruned`, `ExpiredLinksDeleted`,
`ScratchReclaimed`, `CallsReturn`, `Terminates`, `RestartsServe`), since temporal
reasoning under fairness and `ENABLED` are out of the prover's reach; and
`CallsFound`, which compares the scan with what the author of a document meant: the
grammar of `MCScanner` defines that, and `Scanner` takes it as given with the document.

`NothingLeft` is about calls whose width and pad are `Inert`: no string, raw text, comment,
parenthesis or opening bracket. For other options it is false of the code:
`#d2(width: d2[a])[y]` becomes `#image(decode64("..."), format: "svg", width: d2[a])`, in
which a d2 call is left, and each of the other symbols can likewise open something that the
text after the image was not in. A comma ends a value and a closing bracket closes nothing
in an argument list, so these are harmless. It is no theorem without `CallsFit`
either: at the depth limit an opening bracket is ordinary text and its closing one is
not, so that the parenthesis of an image closes a region which the call in its place
did not, and the next scan reads the rest in another mode. With a `maxScanDepth` of 2,
TLC finds this for `#x((d2[x])[#x(d2[x])])`; with the code's 256 it takes a document
nested as deep. No module uses a recursive operator.

## 5. Plan

What is left, in this order:

1. Two `users` rows that share a cached login, in budgets: `SetWorkspaceBudget`
   changes one of them, `SetQuota` all.
2. `Publish` over `Namespaces`: memberships that change while typst compiles.
3. An abstract `PackageStore` (a version is absent, then present and constant) that
   `Publish` implements when no two publishes share a version and no call fails.
4. A sweeper beside `WorkspaceFiles`, with sub-directories and their pruning.

### Not modelled

- Administrator sessions: signed cookies that the server compares and forgets. What
  there is to model is a browser's cookie jar and GitHub's round trip, which are
  not in the code. A second tab replaces the state cookie of the first, whose
  sign-in then fails.
- The development sign-in: one upsert and one key, both of which `AuthServer` has.
- Read-only tools, listings, metrics, flags, rendering of pages, the wrappers
  around the d2 and typst processes: input and output, no state.
- Compile deadlines: what a compile that is killed leaves behind is a crash in
  `Workspaces` and a render cut short in `WorkspaceFiles`.
- Sub-directories: `pruneEmptyDirs` can remove one between a tool's `MkdirAll` and
  its open; the tool then returns an error.
- What becomes of sources nested deeper than `maxScanDepth`: the branch is in the
  model, and section 4 says what holds there and what does not.
- Manifests, workflows, images, browser tests, and typst itself.

## 6. Running it

    tlasany M.tla
    tlc -workers 2 -config MCPublish.cfg MCPublish.tla
    tlapm PublishProofs.tla

`PROJECT.json` names the module, configuration and properties of every run, the
mutants, the source lines of every definition, and the findings with the lines
they quote.
