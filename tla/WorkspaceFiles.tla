---------------------------- MODULE WorkspaceFiles ----------------------------
(***************************************************************************)
(* The documents of one tenant's workspace and the page previews drawn     *)
(* from them, under the calls that may run at once: put_file with its      *)
(* storage budget, the read of a page resource, which renders on demand    *)
(* and keeps the pages, and delete_file; and the administrator, who        *)
(* overrides the budget (internal/authdb/budget.go).                       *)
(*                                                                         *)
(* A step is one SQL statement or one call on the file system: an          *)
(* overwrite truncates the file and then writes it.  The walk that adds up *)
(* the workspace, and the listing of a preview directory, are single       *)
(* steps.  A text is its draft and its size in units; a unit of text fills *)
(* a page, and a page weighs a unit.                                       *)
(***************************************************************************)
EXTENDS Naturals, Integers, FiniteSets, FiniteSetsExt

CONSTANTS
  Docs,       \* workspace paths of .typ documents
  Drafts,     \* contents that can be told apart
  Broken,     \* the drafts typst does not compile
  Requests,   \* calls that may run at once
  Operations, \* bound: the calls that are made
  Budgets,    \* overrides an administrator sets; 0 is unlimited
  workspaceBudgetBytes, \* the deployment's default; 0 is unlimited
  maxInputBytes,        \* the largest put_file
  MaxSize,    \* bound: units in a document
  MaxClock,   \* bound: ticks of the file system's clock
  MaxFaults,  \* bound: renders cut short
  None        \* no file, no directory, no override, no call

Text  == [draft : Drafts, size : 0 .. MaxSize]
File  == [text : Text, mtime : Nat, overtook : BOOLEAN]
Image == [shows : Text, mtime : Nat]
Pages == 1 .. MaxSize

Put    == [op : {"put_file"}, at : {"usage", "existing", "write", "truncated", "unlinked"},
           doc : Docs, append : BOOLEAN, data : Text, budget : Nat, used : Nat]
Read   == [op : {"read_page"}, at : {"look", "clear", "make", "source", "draw", "answer"},
           doc : Docs, src : Nat, drawn : Text \cup {None}, todo : SUBSET Pages]
Delete == [op : {"delete_file"}, at : {"remove", "previews"}, doc : Docs]

ASSUME WorkspaceFilesAssumption ==
  /\ IsFiniteSet(Docs) /\ IsFiniteSet(Budgets)
  /\ IsFiniteSet(Requests) /\ Requests # {}
  /\ Broken \subseteq Drafts
  /\ Operations \subseteq {"put_file", "read_page", "delete_file"}
  /\ Budgets \subseteq Nat /\ workspaceBudgetBytes \in Nat
  /\ maxInputBytes \in Nat \ {0} /\ MaxSize \in Nat \ {0}
  /\ MaxClock \in Nat /\ MaxFaults \in Nat
  /\ None \notin Nat \cup Text \cup File \cup Put \cup Read \cup Delete
  /\ \A S \in SUBSET Pages : None \notin [S -> Image]

VARIABLES
  clock,
  docs,      \* the documents; "overtook": written while a render held older text
  previews,  \* the preview directory of each document
  override,  \* the workspace's row of workspace_budgets
  requests,  \* what each running call is about to do
  faults     \* renders cut short so far

vars == <<clock, docs, previews, override, requests, faults>>

TypeOK ==
  /\ clock \in 0 .. MaxClock
  /\ docs \in [Docs -> File \cup {None}]
  /\ \A d \in Docs : previews[d] = None \/ previews[d] \in [DOMAIN previews[d] -> Image]
  /\ DOMAIN previews = Docs
  /\ override \in Budgets \cup {None}
  /\ requests \in [Requests -> Put \cup Read \cup Delete \cup {None}]
  /\ faults \in 0 .. MaxFaults

Init ==
  /\ clock = 0
  /\ docs = [d \in Docs |-> None]
  /\ previews = [d \in Docs |-> None]
  /\ override = None
  /\ requests = [q \in Requests |-> None]
  /\ faults = 0

Is(q, op, at) == requests[q] # None /\ requests[q].op = op /\ requests[q].at = at
Idle(q, op)   == requests[q] = None /\ op \in Operations
GoTo(q, at)   == requests' = [requests EXCEPT ![q].at = at]
Return(q)     == requests' = [requests EXCEPT ![q] = None]

-----------------------------------------------------------------------------
(* put_file and the budget.                                                *)

SizeOf(d)    == IF docs[d] = None THEN 0 ELSE docs[d].text.size
Sources      == MapThenSumSet(SizeOf, Docs)
PagesOf(d)   == IF previews[d] = None THEN {} ELSE DOMAIN previews[d]
NumPages(d)  == Cardinality(PagesOf(d))
Usage        == Sources + MapThenSumSet(NumPages, Docs)

NegativeDefault == IF override = None THEN -1 ELSE override \* mutant
EffectiveWorkspaceBudget == IF override = None THEN workspaceBudgetBytes ELSE override

(* The override is read once, and a failed read leaves the default.        *)
BeginPut(q) ==
  /\ Idle(q, "put_file")
  /\ \E d \in Docs, append \in BOOLEAN, data \in Text,
       b \in {EffectiveWorkspaceBudget, workspaceBudgetBytes} :
       /\ data.size \in 1 .. maxInputBytes
       /\ requests' = [requests EXCEPT ![q] =
            [op |-> "put_file", at |-> IF b > 0 THEN "usage" ELSE "write",
             doc |-> d, append |-> append, data |-> data, budget |-> b, used |-> 0]]
  /\ UNCHANGED <<clock, docs, previews, override, faults>>

FitsBefore(q, projected) == projected - requests[q].data.size <= requests[q].budget \* mutant
Fits(q, projected) == projected <= requests[q].budget

(* What a call does not read again is forgotten.                           *)
Decide(q, projected) ==
  IF ~Fits(q, projected)
  THEN Return(q)
  ELSE requests' = [requests EXCEPT ![q].at = "write", ![q].budget = 0, ![q].used = 0]

MeasureUsage(q) ==
  /\ Is(q, "put_file", "usage")
  /\ IF requests[q].append
     THEN Decide(q, Usage + requests[q].data.size)
     ELSE requests' = [requests EXCEPT ![q].at = "existing", ![q].used = Usage]
  /\ UNCHANGED <<clock, docs, previews, override, faults>>

(* An overwrite discounts what it replaces, looked at after the walk.      *)
MeasureExisting(q) ==
  /\ Is(q, "put_file", "existing")
  /\ Decide(q, requests[q].used - SizeOf(requests[q].doc) + requests[q].data.size)
  /\ UNCHANGED <<clock, docs, previews, override, faults>>

Written(d, text) ==
  [text |-> text, mtime |-> clock,
   overtook |-> \E r \in Requests :
                  /\ requests[r] # None /\ requests[r].op = "read_page"
                  /\ requests[r].doc = d /\ requests[r].at = "draw"]

AppendFile(q) ==
  /\ Is(q, "put_file", "write") /\ requests[q].append
  /\ LET d    == requests[q].doc
         text == [draft |-> requests[q].data.draft, size |-> SizeOf(d) + requests[q].data.size]
     IN /\ text.size <= MaxSize
        /\ docs' = [docs EXCEPT ![d] = Written(d, text)]
  /\ Return(q)
  /\ UNCHANGED <<clock, previews, override, faults>>

Truncate(q) ==
  /\ Is(q, "put_file", "write") /\ ~requests[q].append
  /\ LET d == requests[q].doc
     IN docs' = [docs EXCEPT ![d] = Written(d, [draft |-> requests[q].data.draft, size |-> 0])]
  /\ GoTo(q, "truncated")
  /\ UNCHANGED <<clock, previews, override, faults>>

(* Two overwrites that have both truncated the file write over each other. *)
WriteFile(q) ==
  /\ Is(q, "put_file", "truncated")
  /\ LET d    == requests[q].doc
         text == [draft |-> requests[q].data.draft,
                  size |-> Max({requests[q].data.size, SizeOf(d)})]
     IN docs' = [docs EXCEPT ![d] = Written(d, text)]
  /\ Return(q)
  /\ UNCHANGED <<clock, previews, override, faults>>

(* The file was removed since the truncation: the bytes go nowhere.        *)
WriteUnlinked(q) ==
  /\ Is(q, "put_file", "unlinked")
  /\ Return(q)
  /\ UNCHANGED <<clock, docs, previews, override, faults>>

(* What an administrator's form says: inherit the default, unlimited or a  *)
(* number of bytes.                                                        *)
Forms == Budgets \cup {None}
SetWorkspaceBudget ==
  /\ override' \in Forms
  /\ UNCHANGED <<clock, docs, previews, requests, faults>>

-----------------------------------------------------------------------------
(* The read of a page, handleReadPage and renderPages.                     *)

(* The pages typst writes under the name page-{p}.png.                     *)
PageCount(text) == IF text.size = 0 THEN 1 ELSE text.size

FromZero(text)     == 1 .. PageCount(text) - 1 \* mutant: page 0 is not a page to a reader
PagesToDraw(text)  == 1 .. PageCount(text)

NotOlder(d, src) == \* mutant
  /\ PagesOf(d) # {}
  /\ \A p \in PagesOf(d) : previews[d][p].mtime >= src
PagesAreFresh(d, src) ==
  /\ PagesOf(d) # {}
  /\ \A p \in PagesOf(d) : previews[d][p].mtime > src

BeginRead(q) ==
  /\ Idle(q, "read_page")
  /\ \E d \in Docs :
       /\ docs[d] # None
       /\ requests' = [requests EXCEPT ![q] =
            [op |-> "read_page", at |-> "look", doc |-> d,
             src |-> docs[d].mtime, drawn |-> None, todo |-> {}]]
  /\ UNCHANGED <<clock, docs, previews, override, faults>>

LookAtPages(q) ==
  /\ Is(q, "read_page", "look")
  /\ IF PagesAreFresh(requests[q].doc, requests[q].src) THEN Return(q)
     ELSE requests' = [requests EXCEPT ![q].at = "clear", ![q].src = 0]
  /\ UNCHANGED <<clock, docs, previews, override, faults>>

ClearPages(q) ==
  /\ Is(q, "read_page", "clear")
  /\ previews' = [previews EXCEPT ![requests[q].doc] = None]
  /\ GoTo(q, "make")
  /\ UNCHANGED <<clock, docs, override, faults>>

MakePageDir(q) ==
  /\ Is(q, "read_page", "make")
  /\ previews' = [previews EXCEPT ![requests[q].doc] = IF @ = None THEN <<>> ELSE @]
  /\ GoTo(q, "source")
  /\ UNCHANGED <<clock, docs, override, faults>>

(* Preprocess and the staged copy: from here on the render holds the text. *)
(* typst reports an error in a broken draft before it writes a page.       *)
Preprocess(q) ==
  /\ Is(q, "read_page", "source")
  /\ LET d == requests[q].doc IN
     IF docs[d] = None \/ docs[d].text.draft \in Broken
     THEN Return(q)
     ELSE requests' = [requests EXCEPT ![q].at = "draw", ![q].drawn = docs[d].text,
                                       ![q].todo = PagesToDraw(docs[d].text)]
  /\ UNCHANGED <<clock, docs, previews, override, faults>>

(* typst draws the pages in no particular order, and fails when the        *)
(* directory is gone.                                                      *)
DrawPage(q) ==
  /\ Is(q, "read_page", "draw")
  /\ LET d == requests[q].doc IN
     \E p \in requests[q].todo :
       IF previews[d] = None
       THEN Return(q) /\ UNCHANGED previews
       ELSE /\ previews' = [previews EXCEPT ![d] =
                 [n \in DOMAIN @ \cup {p} |->
                    IF n = p THEN [shows |-> requests[q].drawn, mtime |-> clock] ELSE @[n]]]
            /\ requests' = [requests EXCEPT ![q].todo = @ \ {p},
                              ![q].at = IF requests[q].todo = {p} THEN "answer" ELSE "draw"]
  /\ UNCHANGED <<clock, docs, override, faults>>

AnswerPage(q) ==
  /\ Is(q, "read_page", "answer")
  /\ Return(q)
  /\ UNCHANGED <<clock, docs, previews, override, faults>>

(* The client goes away, which kills typst, or a step before it fails.     *)
CutShort(q) ==
  /\ requests[q] # None /\ requests[q].op = "read_page"
  /\ requests[q].at \in {"make", "source", "draw"}
  /\ faults < MaxFaults /\ faults' = faults + 1
  /\ Return(q)
  /\ UNCHANGED <<clock, docs, previews, override>>

-----------------------------------------------------------------------------
(* delete_file.                                                            *)

BeginDelete(q) ==
  /\ Idle(q, "delete_file")
  /\ \E d \in Docs :
       /\ docs[d] # None
       /\ requests' = [requests EXCEPT ![q] = [op |-> "delete_file", at |-> "remove", doc |-> d]]
  /\ UNCHANGED <<clock, docs, previews, override, faults>>

Unlink(r, d) ==
  IF r # None /\ r.op = "put_file" /\ r.doc = d /\ r.at = "truncated"
  THEN [r EXCEPT !.at = "unlinked"] ELSE r

RemoveFile(q) ==
  /\ Is(q, "delete_file", "remove")
  /\ LET d == requests[q].doc IN
     IF docs[d] = None
     THEN Return(q) /\ UNCHANGED docs
     ELSE /\ docs' = [docs EXCEPT ![d] = None]
          /\ requests' = [r \in Requests |->
               IF r = q THEN [requests[q] EXCEPT !.at = "previews"] ELSE Unlink(requests[r], d)]
  /\ UNCHANGED <<clock, previews, override, faults>>

RemovePreviewDir(q) ==
  /\ Is(q, "delete_file", "previews")
  /\ previews' = [previews EXCEPT ![requests[q].doc] = None]
  /\ Return(q)
  /\ UNCHANGED <<clock, docs, override, faults>>

-----------------------------------------------------------------------------
Tick ==
  /\ clock < MaxClock /\ clock' = clock + 1
  /\ UNCHANGED <<docs, previews, override, requests, faults>>

Step(q) ==
  \/ MeasureUsage(q) \/ MeasureExisting(q)
  \/ AppendFile(q) \/ Truncate(q) \/ WriteFile(q) \/ WriteUnlinked(q)
  \/ LookAtPages(q) \/ ClearPages(q) \/ MakePageDir(q) \/ Preprocess(q)
  \/ DrawPage(q) \/ AnswerPage(q)
  \/ RemoveFile(q) \/ RemovePreviewDir(q)

Next ==
  \/ \E q \in Requests : BeginPut(q) \/ BeginRead(q) \/ BeginDelete(q) \/ CutShort(q) \/ Step(q)
  \/ SetWorkspaceBudget
  \/ Tick

Spec == Init /\ [][Next]_vars
-----------------------------------------------------------------------------
(* Properties.                                                             *)

Rendering(d) ==
  \E q \in Requests :
    requests[q] # None /\ requests[q].op = "read_page" /\ requests[q].doc = d
      /\ requests[q].at \in {"make", "source", "draw"}

Fresh(d) == docs[d] # None /\ PagesAreFresh(d, docs[d].mtime)

(* Pages that pass as fresh show the document as it is, whatever renders,  *)
(* overwrites and deletions ran meanwhile, unless the last write landed    *)
(* while a render held an older text.                                      *)
CacheCurrent ==
  \A d \in Docs : Fresh(d) /\ ~docs[d].overtook =>
    \A p \in PagesOf(d) : previews[d][p].shows = docs[d].text

(* They are all the pages the document has, once no render is at work and  *)
(* none was cut short: no reader is then told that a page does not exist.  *)
CacheWhole ==
  \A d \in Docs : Fresh(d) /\ ~docs[d].overtook /\ ~Rendering(d) /\ faults = 0 =>
    PagesOf(d) = 1 .. PageCount(docs[d].text)

(* The documents exceed the largest budget in force by no more than one    *)
(* put_file for each other call that was running: the check and the write  *)
(* are apart, and that is all it costs.                                    *)
LargestBudget == Max(Budgets \cup {workspaceBudgetBytes})
Limited       == 0 \notin Budgets \cup {workspaceBudgetBytes}
OvershootBounded ==
  Limited => Sources <= LargestBudget + (Cardinality(Requests) - 1) * maxInputBytes

(* "Cached pages older than the source are re-rendered, so a stale preview *)
(* cannot be served as if it were current" (resources.go).                 *)
StaleNeverFresh ==
  \A d \in Docs : Fresh(d) => \A p \in PagesOf(d) : previews[d][p].shows = docs[d].text
=============================================================================
