------------------------- MODULE WorkspaceFilesProofs -------------------------
(***************************************************************************)
(* Proofs about WorkspaceFiles, for any documents, drafts, calls, budgets  *)
(* and sizes: the pages that pass as fresh are the document's              *)
(* (CacheCurrent) and are all of it (CacheWhole), every variable keeps its *)
(* type (TypeOK), and concurrent calls exceed the storage budget by no     *)
(* more than their own sizes (OvershootBounded).                           *)
(***************************************************************************)
EXTENDS WorkspaceFiles, FiniteSetTheorems, WellFoundedInduction, TLAPS

IsPageDir(v) == \E S \in SUBSET Pages : v \in [S -> Image]
IsPut(r) ==
  r \in [op : {"put_file"}, at : {"usage", "existing", "write", "truncated", "unlinked"},
         doc : Docs, append : BOOLEAN, data : Text, budget : {r.budget}, used : {r.used}]
IsCall(r) == r = None \/ r \in Read \/ r \in Delete \/ IsPut(r)

Shapes ==
  /\ clock \in Nat /\ faults \in Nat
  /\ docs \in [Docs -> File \cup {None}]
  /\ DOMAIN previews = Docs
  /\ \A d \in Docs : previews[d] = None \/ IsPageDir(previews[d])
  /\ DOMAIN requests = Requests
  /\ \A q \in Requests : IsCall(requests[q])

-----------------------------------------------------------------------------
(* The inductive invariant.                                                *)

Drawing(q, d)  == Is(q, "read_page", "draw") /\ requests[q].doc = d
Starting(q, d) == (Is(q, "read_page", "make") \/ Is(q, "read_page", "source"))
                    /\ requests[q].doc = d
Settled(d)     == docs[d] # None /\ ~docs[d].overtook
Newer(d, p)    == previews[d][p].mtime > docs[d].mtime
AllPages(d)    == 1 .. PageCount(docs[d].text)

(* Neither the document nor a page is from the future.                     *)
PastTimes(d) ==
  /\ docs[d] # None => docs[d].mtime <= clock
  /\ \A p \in PagesOf(d) : previews[d][p].mtime <= clock

(* A page newer than its document shows it, one page at a time.            *)
PagesShow(d) ==
  Settled(d) => \A p \in PagesOf(d) : Newer(d, p) => previews[d][p].shows = docs[d].text

(* A render that no write has overtaken draws the document as it is.       *)
DrawsCurrent(d) ==
  Settled(d) => \A q \in Requests : Drawing(q, d) => requests[q].drawn = docs[d].text

(* What a page shows compiles, and has the page; and so for what is drawn. *)
PagesDrawn(d) ==
  \A p \in PagesOf(d) : /\ previews[d][p].shows.draft \notin Broken
                        /\ p \in 1 .. PageCount(previews[d][p].shows)
Drawable == \A q \in Requests : Is(q, "read_page", "draw") =>
  /\ requests[q].drawn \in Text
  /\ requests[q].drawn.draft \notin Broken
  /\ requests[q].todo \subseteq 1 .. PageCount(requests[q].drawn)

(* Where a page is newer than its document, or one is being drawn, the     *)
(* pages are complete or some render has yet to draw what is missing.      *)
Touched(d) == (\E p \in PagesOf(d) : Newer(d, p)) \/ (\E q \in Requests : Drawing(q, d))
Complete(d) ==
  \/ \E q \in Requests : Starting(q, d)
  \/ \E q \in Requests : Drawing(q, d) /\ AllPages(d) \ requests[q].todo \subseteq PagesOf(d)
  \/ AllPages(d) \subseteq PagesOf(d)
Covered(d) == faults = 0 /\ Settled(d) /\ previews[d] # None /\ Touched(d) => Complete(d)

DocInv(d) ==
  PastTimes(d) /\ PagesShow(d) /\ DrawsCurrent(d) /\ PagesDrawn(d) /\ Covered(d)
Inv == Shapes /\ Drawable /\ \A d \in Docs : DocInv(d)

-----------------------------------------------------------------------------
(* The constants, and None, which is nothing else.                         *)
LEMMA Constants ==
  /\ MaxSize \in Nat \ {0} /\ Broken \subseteq Drafts
  /\ None \notin Text /\ None \notin File /\ None \notin Read /\ None \notin Delete
  /\ \A v : IsPageDir(v) => v # None
BY WorkspaceFilesAssumption DEF IsPageDir

(* What a well-formed call is, by its name.                                *)
LEMMA CallShape ==
  ASSUME NEW r, IsCall(r), r # None
  PROVE  /\ r.op \in {"put_file", "read_page", "delete_file"} /\ r.doc \in Docs
         /\ r.op = "put_file" => IsPut(r)
         /\ r.op = "read_page" => r \in Read
         /\ r.op = "delete_file" => r \in Delete
BY DEF IsCall, IsPut, Read, Delete

(* A step that sets one call.                                              *)
LEMMA SetCall ==
  ASSUME Shapes, NEW q \in Requests, NEW r, IsCall(r), requests' = [requests EXCEPT ![q] = r]
  PROVE  /\ DOMAIN requests' = Requests
         /\ requests'[q] = r
         /\ \A o \in Requests \ {q} : requests'[o] = requests[o]
         /\ \A o \in Requests : IsCall(requests'[o])
<1>1. DOMAIN requests' = Requests /\ requests'[q] = r
      /\ \A o \in Requests \ {q} : requests'[o] = requests[o]
  BY DEF Shapes
<1>. QED
  BY <1>1 DEF Shapes

(* Documents and pages that a step leaves alone.                           *)
LEMMA SameFiles ==
  ASSUME NEW d \in Docs, docs'[d] = docs[d], previews'[d] = previews[d]
  PROVE  /\ PagesOf(d)' = PagesOf(d) /\ Settled(d)' = Settled(d) /\ AllPages(d)' = AllPages(d)
         /\ \A p : Newer(d, p)' = Newer(d, p)
BY DEF PagesOf, Settled, AllPages, Newer

-----------------------------------------------------------------------------
(* An empty workspace satisfies the invariant.                             *)
LEMMA InitInv == Init => Inv
<1>. SUFFICES ASSUME Init PROVE Inv
  OBVIOUS
<1>1. Shapes
  BY DEF Init, Shapes, IsCall
<1>2. \A q \in Requests : requests[q] = None
  BY DEF Init
<1>3. ASSUME NEW d \in Docs PROVE DocInv(d)
  <2>1. docs[d] = None /\ PagesOf(d) = {} /\ ~Settled(d)
    BY DEF Init, PagesOf, Settled
  <2>. QED
    BY <2>1 DEF DocInv, PastTimes, PagesShow, DrawsCurrent, PagesDrawn, Covered
<1>4. Drawable
  BY <1>2 DEF Drawable, Is
<1>. QED
  BY <1>1, <1>3, <1>4 DEF Inv

(* A document that a step leaves alone, the step being that of a call that *)
(* is not rendering it, or a fault.                                        *)
LEMMA DocStays ==
  ASSUME Inv, NEW q \in Requests, NEW r, IsCall(r), requests' = [requests EXCEPT ![q] = r],
         NEW d \in Docs, docs'[d] = docs[d], previews'[d] = previews[d], clock' = clock,
         ~(r # None /\ r.op = "read_page" /\ r.at = "draw" /\ r.doc = d),
         faults' # 0 \/ (faults' = faults /\ ~Starting(q, d) /\ ~Drawing(q, d))
  PROVE  DocInv(d)'
<1>1. /\ requests'[q] = r
      /\ \A o \in Requests \ {q} : requests'[o] = requests[o]
  BY SetCall DEF Inv
<1>2. /\ PagesOf(d)' = PagesOf(d) /\ Settled(d)' = Settled(d)
      /\ AllPages(d)' = AllPages(d) /\ \A p : Newer(d, p)' = Newer(d, p)
  BY SameFiles
<1>3. PastTimes(d)' /\ PagesShow(d)' /\ PagesDrawn(d)'
  BY <1>2 DEF Inv, DocInv, PastTimes, PagesShow, PagesDrawn
<1>4. \A o \in Requests : Drawing(o, d)' => o # q /\ Drawing(o, d)
  BY <1>1 DEF Drawing, Is
<1>5. DrawsCurrent(d)'
  BY <1>1, <1>2, <1>4 DEF Inv, DocInv, DrawsCurrent, Settled
<1>6. Covered(d)'
  <2>1. CASE faults' # 0
    BY <2>1 DEF Covered
  <2>2. CASE faults' = faults /\ ~Starting(q, d) /\ ~Drawing(q, d)
    <3>. SUFFICES ASSUME faults = 0, Settled(d)', previews'[d] # None, Touched(d)'
                  PROVE  Complete(d)'
      BY <2>2 DEF Covered
    <3>1. Touched(d)
      BY <1>2, <1>4 DEF Touched
    <3>2. Complete(d)
      BY <1>2, <3>1 DEF Inv, DocInv, Covered
    <3>3. \A o \in Requests : Starting(o, d) => Starting(o, d)'
      BY <1>1, <2>2 DEF Starting, Is
    <3>4. \A o \in Requests : Drawing(o, d) => Drawing(o, d)' /\ requests'[o] = requests[o]
      BY <1>1, <2>2 DEF Drawing, Is
    <3>. QED
      BY <1>2, <3>2, <3>3, <3>4 DEF Complete
  <2>. QED
    BY <2>1, <2>2
<1>. QED
  BY <1>3, <1>5, <1>6 DEF DocInv

(* A call that a step sets, and does not set drawing.                      *)
LEMMA CallStays ==
  ASSUME Inv, NEW q \in Requests, NEW r, IsCall(r), requests' = [requests EXCEPT ![q] = r],
         r # None /\ r.op = "read_page" => r.at # "draw"
  PROVE  Drawable'
<1>1. /\ requests'[q] = r
      /\ \A o \in Requests \ {q} : requests'[o] = requests[o]
  BY SetCall DEF Inv
<1>. QED
  BY <1>1 DEF Inv, Drawable, Is

(* A step that touches no file, of a call that is not rendering, or a      *)
(* fault.                                                                  *)
LEMMA QuietInv ==
  ASSUME Inv, NEW q \in Requests, NEW r, IsCall(r), requests' = [requests EXCEPT ![q] = r],
         r # None /\ r.op = "read_page" => r.at # "draw",
         UNCHANGED <<clock, docs, previews>>, faults' \in Nat,
         faults' # 0 \/ (faults' = faults /\ \A d \in Docs : ~Starting(q, d) /\ ~Drawing(q, d))
  PROVE  Inv'
<1>1. Shapes'
  BY SetCall DEF Inv, Shapes
<1>2. \A d \in Docs : DocInv(d)'
  BY DocStays
<1>. QED
  BY <1>1, <1>2, CallStays DEF Inv

(* A write to a document, by a put_file.                                   *)
LEMMA WriteInv ==
  ASSUME Inv, NEW q \in Requests, NEW r, IsCall(r), requests' = [requests EXCEPT ![q] = r],
         requests[q] # None, requests[q].op = "put_file", r # None => r.op = "put_file",
         NEW d \in Docs, NEW text \in Text, docs' = [docs EXCEPT ![d] = Written(d, text)],
         UNCHANGED <<clock, previews, faults>>
  PROVE  Inv'
<1>1. /\ requests'[q] = r
      /\ \A o \in Requests \ {q} : requests'[o] = requests[o]
  BY SetCall DEF Inv
<1>2. Written(d, text) \in File /\ docs'[d] = Written(d, text) /\ docs'[d] # None
      /\ docs'[d].mtime = clock
  <2>1. Written(d, text) \in File
    BY DEF Written, File, Inv, Shapes
  <2>. QED
    BY <2>1, Constants DEF Written, Inv, Shapes
<1>3. Shapes'
  BY <1>2, SetCall DEF Inv, Shapes
<1>4. ASSUME NEW e \in Docs \ {d} PROVE DocInv(e)'
  <2>1. docs'[e] = docs[e] /\ previews'[e] = previews[e]
    BY DEF Inv, Shapes
  <2>2. ~Starting(q, e) /\ ~Drawing(q, e)
    BY DEF Starting, Drawing, Is
  <2>. QED
    BY <2>1, <2>2, DocStays
<1>5. DocInv(d)'
  <2>1. PagesOf(d)' = PagesOf(d)
    BY DEF PagesOf
  <2>2. \A p \in PagesOf(d) : previews[d][p].mtime \in Nat /\ previews[d][p].mtime <= clock
    <3>1. ASSUME NEW p \in PagesOf(d) PROVE previews[d][p] \in Image
      BY DEF Inv, Shapes, IsPageDir, PagesOf
    <3>. QED
      BY <3>1 DEF Inv, DocInv, PastTimes, Image
  <2>3. clock \in Nat
    BY DEF Inv, Shapes
  <2>4. \A p \in PagesOf(d)' : ~Newer(d, p)'
    BY <1>2, <2>1, <2>2, <2>3 DEF Newer
  <2>5. \A o \in Requests : Drawing(o, d)' => Drawing(o, d)
    BY <1>1 DEF Drawing, Is
  <2>6. Settled(d)' => \A o \in Requests : ~Drawing(o, d)
    BY <1>2 DEF Settled, Written, Drawing, Is
  <2>7. PastTimes(d)' /\ PagesDrawn(d)'
    BY <1>2, <2>1, <2>2, <2>3 DEF Inv, DocInv, PastTimes, PagesDrawn
  <2>8. PagesShow(d)' /\ DrawsCurrent(d)' /\ Covered(d)'
    BY <2>4, <2>5, <2>6 DEF PagesShow, DrawsCurrent, Covered, Touched
  <2>. QED
    BY <2>7, <2>8 DEF DocInv
<1>6. \A e \in Docs : DocInv(e)'
  BY <1>4, <1>5
<1>. QED
  BY <1>3, <1>6, CallStays DEF Inv

(* The removal of a document's pages.                                      *)
LEMMA ClearInv ==
  ASSUME Inv, NEW q \in Requests, NEW r, IsCall(r), requests' = [requests EXCEPT ![q] = r],
         r # None /\ r.op = "read_page" => r.at # "draw",
         \A d \in Docs : ~Starting(q, d) /\ ~Drawing(q, d),
         NEW d \in Docs, previews' = [previews EXCEPT ![d] = None],
         UNCHANGED <<clock, docs, faults>>
  PROVE  Inv'
<1>1. /\ requests'[q] = r
      /\ \A o \in Requests \ {q} : requests'[o] = requests[o]
  BY SetCall DEF Inv
<1>2. previews'[d] = None /\ PagesOf(d)' = {}
  BY DEF PagesOf, Inv, Shapes
<1>3. Shapes'
  BY SetCall DEF Inv, Shapes
<1>4. ASSUME NEW e \in Docs \ {d} PROVE DocInv(e)'
  <2>1. docs'[e] = docs[e] /\ previews'[e] = previews[e]
    BY DEF Inv, Shapes
  <2>. QED
    BY <2>1, DocStays
<1>5. DocInv(d)'
  <2>1. PastTimes(d)' /\ PagesDrawn(d)' /\ PagesShow(d)' /\ Covered(d)'
    BY <1>2 DEF Inv, DocInv, PastTimes, PagesDrawn, PagesShow, Covered
  <2>2. \A o \in Requests : Drawing(o, d)' => Drawing(o, d) /\ requests'[o] = requests[o]
    BY <1>1 DEF Drawing, Is
  <2>3. DrawsCurrent(d)'
    BY <2>2 DEF Inv, DocInv, DrawsCurrent, Settled
  <2>. QED
    BY <2>1, <2>3 DEF DocInv
<1>6. \A e \in Docs : DocInv(e)'
  BY <1>4, <1>5
<1>. QED
  BY <1>3, <1>6, CallStays DEF Inv

-----------------------------------------------------------------------------
(* put_file.                                                               *)

(* A put_file that changes what it is about to do.                         *)
LEMMA PutExcept ==
  ASSUME NEW r, IsPut(r), NEW at \in {"usage", "existing", "write", "truncated", "unlinked"},
         NEW b, NEW u
  PROVE  /\ IsPut([r EXCEPT !.at = at]) /\ IsPut([r EXCEPT !.at = at, !.used = u])
         /\ IsPut([r EXCEPT !.at = at, !.budget = b, !.used = u])
BY DEF IsPut

(* A put_file or a delete_file renders nothing.                            *)
LEMMA NoRender ==
  ASSUME NEW q \in Requests, requests[q] = None \/ requests[q].op # "read_page"
  PROVE  \A d \in Docs : ~Starting(q, d) /\ ~Drawing(q, d)
BY DEF Starting, Drawing, Is

(* A call that touches no file and is no render ends or goes on.           *)
LEMMA PutMoves ==
  ASSUME Inv, NEW q \in Requests, NEW r, r = None \/ IsPut(r),
         requests' = [requests EXCEPT ![q] = r],
         requests[q] = None \/ requests[q].op # "read_page",
         UNCHANGED <<clock, docs, previews, faults>>
  PROVE  Inv'
<1>1. IsCall(r) /\ (r # None => r.op = "put_file")
  BY DEF IsCall, IsPut
<1>2. faults' \in Nat
  BY DEF Inv, Shapes
<1>. QED
  BY <1>1, <1>2, NoRender, QuietInv

(* BeginPut keeps the invariant.                                           *)
LEMMA BeginPutInv == ASSUME Inv, NEW q \in Requests, BeginPut(q) PROVE Inv'
<1>1. PICK d \in Docs, append \in BOOLEAN, data \in Text,
           b \in {EffectiveWorkspaceBudget, workspaceBudgetBytes} :
        requests' = [requests EXCEPT ![q] =
            [op |-> "put_file", at |-> IF b > 0 THEN "usage" ELSE "write",
             doc |-> d, append |-> append, data |-> data, budget |-> b, used |-> 0]]
  BY DEF BeginPut
<1>. DEFINE r == [op |-> "put_file", at |-> IF b > 0 THEN "usage" ELSE "write",
                  doc |-> d, append |-> append, data |-> data, budget |-> b, used |-> 0]
<1>2. IsPut(r)
  BY DEF IsPut
<1>3. requests[q] = None /\ UNCHANGED <<clock, docs, previews, faults>>
  BY DEF BeginPut, Idle
<1>. HIDE DEF r
<1>. QED
  BY <1>1, <1>2, <1>3, PutMoves DEF r

(* Decide ends the call or lets it write.                                  *)
LEMMA DecideInv ==
  ASSUME Inv, NEW q \in Requests, NEW n, Decide(q, n), requests[q] # None,
         requests[q].op = "put_file", UNCHANGED <<clock, docs, previews, faults>>
  PROVE  Inv'
<1>1. CASE Return(q)
  BY <1>1, PutMoves DEF Return
<1>2. CASE requests' = [requests EXCEPT ![q].at = "write", ![q].budget = 0, ![q].used = 0]
  <2>. DEFINE r == [requests[q] EXCEPT !.at = "write", !.budget = 0, !.used = 0]
  <2>1. IsPut(requests[q])
    BY CallShape DEF Inv, Shapes
  <2>2. IsPut(r)
    BY <2>1, PutExcept
  <2>3. requests' = [requests EXCEPT ![q] = r]
    BY <1>2 DEF Inv, Shapes
  <2>. HIDE DEF r
  <2>. QED
    BY <2>2, <2>3, PutMoves
<1>. QED
  BY <1>1, <1>2 DEF Decide

(* MeasureUsage keeps the invariant.                                       *)
LEMMA MeasureUsageInv == ASSUME Inv, NEW q \in Requests, MeasureUsage(q) PROVE Inv'
<1>1. requests[q] # None /\ requests[q].op = "put_file" /\ UNCHANGED <<clock, docs, previews, faults>>
  BY DEF MeasureUsage, Is
<1>2. CASE requests[q].append
  BY <1>1, <1>2, DecideInv DEF MeasureUsage
<1>3. CASE ~requests[q].append
  <2>. DEFINE r == [requests[q] EXCEPT !.at = "existing", !.used = Usage]
  <2>1. IsPut(requests[q])
    BY <1>1, CallShape DEF Inv, Shapes
  <2>2. IsPut(r)
    BY <2>1, PutExcept
  <2>3. requests' = [requests EXCEPT ![q] = r]
    BY <1>3 DEF MeasureUsage, Inv, Shapes
  <2>. HIDE DEF r
  <2>. QED
    BY <1>1, <2>2, <2>3, PutMoves
<1>. QED
  BY <1>2, <1>3

(* MeasureExisting keeps the invariant.                                    *)
LEMMA MeasureExistingInv == ASSUME Inv, NEW q \in Requests, MeasureExisting(q) PROVE Inv'
BY DecideInv DEF MeasureExisting, Is

(* The size of a document.                                                 *)
LEMMA SizeType ==
  ASSUME Inv, NEW d \in Docs
  PROVE  SizeOf(d) \in 0 .. MaxSize
BY Constants DEF Inv, Shapes, SizeOf, File, Text

(* AppendFile keeps the invariant.                                         *)
LEMMA AppendFileInv == ASSUME Inv, NEW q \in Requests, AppendFile(q) PROVE Inv'
<1>. DEFINE d    == requests[q].doc
            text == [draft |-> requests[q].data.draft, size |-> SizeOf(d) + requests[q].data.size]
<1>1. requests[q] # None /\ requests[q].op = "put_file"
  BY DEF AppendFile, Is
<1>2. IsPut(requests[q]) /\ d \in Docs /\ requests[q].data \in Text
  BY <1>1, CallShape DEF Inv, Shapes, IsPut
<1>3. text.size <= MaxSize /\ docs' = [docs EXCEPT ![d] = Written(d, text)]
      /\ requests' = [requests EXCEPT ![q] = None] /\ UNCHANGED <<clock, previews, faults>>
  BY DEF AppendFile, Return
<1>4. text \in Text
  BY <1>2, <1>3, SizeType, Constants DEF Text
<1>5. IsCall(None)
  BY DEF IsCall
<1>. HIDE DEF d, text
<1>. QED
  BY <1>1, <1>2, <1>3, <1>4, <1>5, WriteInv

(* Truncate keeps the invariant.                                           *)
LEMMA TruncateInv == ASSUME Inv, NEW q \in Requests, Truncate(q) PROVE Inv'
<1>. DEFINE d    == requests[q].doc
            text == [draft |-> requests[q].data.draft, size |-> 0]
            r    == [requests[q] EXCEPT !.at = "truncated"]
<1>1. requests[q] # None /\ requests[q].op = "put_file"
  BY DEF Truncate, Is
<1>2. IsPut(requests[q]) /\ d \in Docs /\ requests[q].data \in Text
  BY <1>1, CallShape DEF Inv, Shapes, IsPut
<1>3. docs' = [docs EXCEPT ![d] = Written(d, text)] /\ UNCHANGED <<clock, previews, faults>>
  BY DEF Truncate
<1>4. text \in Text
  BY <1>2, Constants DEF Text
<1>5. IsPut(r) /\ IsCall(r) /\ r.op = "put_file"
  <2>1. IsPut(r)
    BY <1>2, PutExcept
  <2>. HIDE DEF r
  <2>. QED
    BY <2>1 DEF IsCall, IsPut
<1>6. requests' = [requests EXCEPT ![q] = r]
  BY DEF Truncate, GoTo, Inv, Shapes
<1>. HIDE DEF d, text, r
<1>. QED
  BY <1>1, <1>2, <1>3, <1>4, <1>5, <1>6, WriteInv

(* The larger of two numbers is one of them.                               *)
LEMMA LargerOf ==
  ASSUME NEW m \in Nat, NEW n \in Nat
  PROVE  Max({m, n}) \in {m, n}
<1>1. \E x \in {m, n} : \A y \in {m, n} : x >= y
  OBVIOUS
<1>. QED
  BY <1>1 DEF Max

(* WriteFile keeps the invariant.                                          *)
LEMMA WriteFileInv == ASSUME Inv, NEW q \in Requests, WriteFile(q) PROVE Inv'
<1>. DEFINE d    == requests[q].doc
            text == [draft |-> requests[q].data.draft,
                     size |-> Max({requests[q].data.size, SizeOf(d)})]
<1>1. requests[q] # None /\ requests[q].op = "put_file"
  BY DEF WriteFile, Is
<1>2. IsPut(requests[q]) /\ d \in Docs /\ requests[q].data \in Text
  BY <1>1, CallShape DEF Inv, Shapes, IsPut
<1>3. docs' = [docs EXCEPT ![d] = Written(d, text)]
      /\ requests' = [requests EXCEPT ![q] = None] /\ UNCHANGED <<clock, previews, faults>>
  BY DEF WriteFile, Return
<1>4. text \in Text
  <2>1. requests[q].data.size \in 0 .. MaxSize /\ SizeOf(d) \in 0 .. MaxSize
    BY <1>2, SizeType DEF Text
  <2>2. Max({requests[q].data.size, SizeOf(d)}) \in 0 .. MaxSize
    BY <2>1, LargerOf, Constants
  <2>. QED
    BY <1>2, <2>2 DEF Text
<1>5. IsCall(None)
  BY DEF IsCall
<1>. HIDE DEF d, text
<1>. QED
  BY <1>1, <1>2, <1>3, <1>4, <1>5, WriteInv

(* WriteUnlinked keeps the invariant.                                      *)
LEMMA WriteUnlinkedInv == ASSUME Inv, NEW q \in Requests, WriteUnlinked(q) PROVE Inv'
BY PutMoves DEF WriteUnlinked, Is, Return

-----------------------------------------------------------------------------
(* The read of a page.                                                     *)

(* A page read that goes on.                                               *)
LEMMA ReadExcept ==
  ASSUME NEW r \in Read,
         NEW at \in {"look", "clear", "make", "source", "draw", "answer"}
  PROVE  LET s == [r EXCEPT !.at = at] IN
         s \in Read /\ IsCall(s) /\ s # None /\ s.at = at /\ s.doc = r.doc /\ s.op = "read_page"
BY Constants DEF Read, IsCall

(* A page read is in one phase at a time.                                  *)
LEMMA Phase ==
  ASSUME Inv, NEW q \in Requests, NEW at, Is(q, "read_page", at)
  PROVE  /\ requests[q] \in Read /\ requests[q].doc \in Docs
         /\ at # "draw" => \A d \in Docs : ~Drawing(q, d)
         /\ at \notin {"make", "source"} => \A d \in Docs : ~Starting(q, d)
         /\ \A d \in Docs : d # requests[q].doc => ~Starting(q, d) /\ ~Drawing(q, d)
<1>1. requests[q] \in Read /\ requests[q].doc \in Docs
  BY CallShape DEF Is, Inv, Shapes
<1>. QED
  BY <1>1 DEF Is, Starting, Drawing

(* BeginRead keeps the invariant.                                          *)
LEMMA BeginReadInv == ASSUME Inv, NEW q \in Requests, BeginRead(q) PROVE Inv'
<1>1. PICK d \in Docs :
        /\ docs[d] # None
        /\ requests' = [requests EXCEPT ![q] =
             [op |-> "read_page", at |-> "look", doc |-> d,
              src |-> docs[d].mtime, drawn |-> None, todo |-> {}]]
  BY DEF BeginRead
<1>. DEFINE r == [op |-> "read_page", at |-> "look", doc |-> d,
                  src |-> docs[d].mtime, drawn |-> None, todo |-> {}]
<1>2. r \in Read
  <2>1. docs[d].mtime \in Nat
    BY <1>1 DEF Inv, Shapes, File
  <2>. QED
    BY <2>1 DEF Read
<1>3. IsCall(r) /\ r.at # "draw"
  BY <1>2 DEF IsCall
<1>4. requests[q] = None /\ UNCHANGED <<clock, docs, previews, faults>> /\ faults' \in Nat
  BY DEF BeginRead, Idle, Inv, Shapes
<1>. HIDE DEF r
<1>. QED
  BY <1>1, <1>3, <1>4, NoRender, QuietInv DEF r

(* LookAtPages keeps the invariant.                                        *)
LEMMA LookAtPagesInv == ASSUME Inv, NEW q \in Requests, LookAtPages(q) PROVE Inv'
<1>1. Is(q, "read_page", "look") /\ UNCHANGED <<clock, docs, previews, faults>> /\ faults' \in Nat
  BY DEF LookAtPages, Inv, Shapes
<1>2. requests[q] \in Read /\ \A d \in Docs : ~Starting(q, d) /\ ~Drawing(q, d)
  BY <1>1, Phase
<1>3. CASE Return(q)
  BY <1>1, <1>2, <1>3, QuietInv DEF Return, IsCall
<1>4. CASE requests' = [requests EXCEPT ![q].at = "clear", ![q].src = 0]
  <2>. DEFINE r == [requests[q] EXCEPT !.at = "clear", !.src = 0]
  <2>1. r \in Read /\ r.at = "clear"
    BY <1>2 DEF Read
  <2>2. requests' = [requests EXCEPT ![q] = r]
    BY <1>4 DEF Inv, Shapes
  <2>3. IsCall(r)
    BY <2>1 DEF IsCall
  <2>. HIDE DEF r
  <2>. QED
    BY <1>1, <1>2, <2>1, <2>2, <2>3, QuietInv
<1>. QED
  BY <1>3, <1>4 DEF LookAtPages

(* ClearPages keeps the invariant.                                         *)
LEMMA ClearPagesInv == ASSUME Inv, NEW q \in Requests, ClearPages(q) PROVE Inv'
<1>. DEFINE r == [requests[q] EXCEPT !.at = "make"]
            d == requests[q].doc
<1>1. Is(q, "read_page", "clear") /\ UNCHANGED <<clock, docs, faults>>
      /\ previews' = [previews EXCEPT ![d] = None]
  BY DEF ClearPages
<1>2. requests[q] \in Read /\ d \in Docs /\ \A e \in Docs : ~Starting(q, e) /\ ~Drawing(q, e)
  BY <1>1, Phase
<1>3. IsCall(r) /\ r.at = "make"
  BY <1>2, ReadExcept
<1>4. requests' = [requests EXCEPT ![q] = r]
  BY DEF ClearPages, GoTo, Inv, Shapes
<1>. HIDE DEF r, d
<1>. QED
  BY <1>1, <1>2, <1>3, <1>4, ClearInv

(* MakePageDir keeps the invariant: the maker will draw.                   *)
LEMMA MakePageDirInv == ASSUME Inv, NEW q \in Requests, MakePageDir(q) PROVE Inv'
<1>. DEFINE r == [requests[q] EXCEPT !.at = "source"]
<1>1. Is(q, "read_page", "make") /\ UNCHANGED <<clock, docs, faults>>
  BY DEF MakePageDir
<1>0. PICK d \in Docs : d = requests[q].doc
  BY <1>1, Phase
<1>2. requests[q] \in Read /\ d \in Docs
      /\ \A e \in Docs \ {d} : ~Starting(q, e) /\ ~Drawing(q, e)
  BY <1>0, <1>1, Phase
<1>3. r \in Read /\ IsCall(r) /\ r # None /\ r.at = "source" /\ r.doc = d /\ r.op = "read_page"
  BY <1>0, <1>2, ReadExcept
<1>4. requests' = [requests EXCEPT ![q] = r]
  BY DEF MakePageDir, GoTo, Inv, Shapes
<1>. HIDE DEF r
<1>5. requests'[q] = r /\ \A o \in Requests \ {q} : requests'[o] = requests[o]
  BY <1>3, <1>4, SetCall DEF Inv
<1>6. previews' = [previews EXCEPT ![d] = IF previews[d] = None THEN <<>> ELSE previews[d]]
  BY <1>0 DEF MakePageDir, Inv, Shapes
<1>7. IsPageDir(<<>>)
  <2>1. <<>> \in [{} -> Image]
    OBVIOUS
  <2>. QED
    BY <2>1 DEF IsPageDir
<1>8. Shapes'
  BY <1>1, <1>2, <1>3, <1>4, <1>6, <1>7, SetCall DEF Inv, Shapes
<1>9. PagesOf(d)' = PagesOf(d) /\ \A p \in PagesOf(d) : previews'[d][p] = previews[d][p]
  BY <1>2, <1>6 DEF PagesOf, Inv, Shapes
<1>10. DocInv(d)'
  <2>1. PastTimes(d)' /\ PagesShow(d)' /\ PagesDrawn(d)'
    BY <1>1, <1>2, <1>9 DEF Inv, DocInv, PastTimes, PagesShow, PagesDrawn, Settled, Newer
  <2>2. \A o \in Requests : Drawing(o, d)' => Drawing(o, d) /\ requests'[o] = requests[o]
    BY <1>3, <1>5 DEF Drawing, Is
  <2>3. DrawsCurrent(d)'
    BY <1>1, <1>2, <2>2 DEF Inv, DocInv, DrawsCurrent, Settled
  <2>4. Starting(q, d)'
    BY <1>3, <1>5 DEF Starting, Is
  <2>5. Covered(d)'
    BY <2>4 DEF Covered, Complete
  <2>. QED
    BY <2>1, <2>3, <2>5 DEF DocInv
<1>11. ASSUME NEW e \in Docs \ {d} PROVE DocInv(e)'
  <2>1. docs'[e] = docs[e] /\ previews'[e] = previews[e]
    BY <1>1, <1>6 DEF Inv, Shapes
  <2>. QED
    BY <1>1, <1>2, <1>3, <1>4, <2>1, DocStays
<1>12. \A e \in Docs : DocInv(e)'
  BY <1>10, <1>11
<1>. QED
  BY <1>3, <1>4, <1>8, <1>12, CallStays DEF Inv

(* A render that gives up leaves no gap in a document typst compiles.      *)
LEMMA GiveUpInv ==
  ASSUME Inv, NEW q \in Requests, NEW d \in Docs, requests' = [requests EXCEPT ![q] = None],
         \A e \in Docs \ {d} : ~Starting(q, e) /\ ~Drawing(q, e),
         UNCHANGED <<clock, docs, previews, faults>>,
         ~Settled(d) \/ previews[d] = None
           \/ (docs[d].text.draft \in Broken /\ ~Drawing(q, d))
  PROVE  Inv'
<1>1. IsCall(None)
  BY DEF IsCall
<1>2. requests'[q] = None /\ \A o \in Requests \ {q} : requests'[o] = requests[o]
  BY <1>1, SetCall DEF Inv
<1>3. Shapes'
  BY <1>1, SetCall DEF Inv, Shapes
<1>4. \A e \in Docs \ {d} : DocInv(e)'
  BY <1>1, DocStays
<1>5. DocInv(d)'
  <2>1. /\ PagesOf(d)' = PagesOf(d) /\ Settled(d)' = Settled(d)
        /\ \A p : Newer(d, p)' = Newer(d, p)
    BY SameFiles
  <2>2. \A o \in Requests : Drawing(o, d)' => o # q /\ Drawing(o, d)
    BY <1>2 DEF Drawing, Is
  <2>3. PastTimes(d)' /\ PagesShow(d)' /\ PagesDrawn(d)'
    BY <2>1 DEF Inv, DocInv, PastTimes, PagesShow, PagesDrawn
  <2>4. DrawsCurrent(d)'
    BY <1>2, <2>1, <2>2 DEF Inv, DocInv, DrawsCurrent, Settled
  <2>5. ASSUME Settled(d), docs[d].text.draft \in Broken PROVE ~Touched(d)'
    <3>1. ASSUME NEW p \in PagesOf(d) PROVE ~Newer(d, p)
      BY <2>5 DEF Inv, DocInv, PagesShow, PagesDrawn
    <3>2. ASSUME NEW o \in Requests PROVE ~Drawing(o, d)
      BY <2>5 DEF Inv, DocInv, DrawsCurrent, Drawable, Drawing
    <3>. QED
      BY <2>1, <2>2, <3>1, <3>2 DEF Touched
  <2>6. Covered(d)'
    BY <2>1, <2>5 DEF Covered
  <2>. QED
    BY <2>3, <2>4, <2>6 DEF DocInv
<1>6. \A e \in Docs : DocInv(e)'
  BY <1>4, <1>5
<1>. QED
  BY <1>1, <1>3, <1>6, CallStays DEF Inv

(* Preprocess keeps the invariant: a render that holds the text will draw  *)
(* all of it.                                                              *)
LEMMA PreprocessInv == ASSUME Inv, NEW q \in Requests, Preprocess(q) PROVE Inv'
<1>1. Is(q, "read_page", "source") /\ UNCHANGED <<clock, docs, previews, faults>>
  BY DEF Preprocess
<1>2. PICK d \in Docs : d = requests[q].doc
  BY <1>1, Phase
<1>3. requests[q] \in Read /\ ~Drawing(q, d)
      /\ \A e \in Docs \ {d} : ~Starting(q, e) /\ ~Drawing(q, e)
  BY <1>1, <1>2, Phase
<1>4. CASE docs[d] = None \/ docs[d].text.draft \in Broken
  <2>1. requests' = [requests EXCEPT ![q] = None]
    BY <1>2, <1>4 DEF Preprocess, Return
  <2>2. ~Settled(d) \/ docs[d].text.draft \in Broken
    BY <1>4 DEF Settled
  <2>. QED
    BY <1>1, <1>3, <2>1, <2>2, GiveUpInv
<1>5. CASE docs[d] # None /\ docs[d].text.draft \notin Broken
  <2>. DEFINE text == docs[d].text
              r == [requests[q] EXCEPT !.at = "draw", !.drawn = text, !.todo = PagesToDraw(text)]
  <2>1. requests' = [requests EXCEPT ![q] = r]
    BY <1>2, <1>5 DEF Preprocess, Inv, Shapes
  <2>2. text \in Text
    BY <1>5 DEF Inv, Shapes, File
  <2>3. PagesToDraw(text) = 1 .. PageCount(text) /\ PagesToDraw(text) \in SUBSET Pages
    BY <2>2, Constants DEF PagesToDraw, PageCount, Pages, Text
  <2>4. r \in Read /\ r.op = "read_page" /\ r.at = "draw" /\ r.doc = d /\ r.drawn = text
        /\ r.todo = 1 .. PageCount(text)
    BY <1>2, <1>3, <2>2, <2>3 DEF Read
  <2>. HIDE DEF r
  <2>5. IsCall(r) /\ r # None
    BY <2>4, Constants DEF IsCall
  <2>6. requests'[q] = r /\ \A o \in Requests \ {q} : requests'[o] = requests[o]
    BY <2>1, <2>5, SetCall DEF Inv
  <2>7. Shapes'
    BY <1>1, <2>1, <2>5, SetCall DEF Inv, Shapes
  <2>8. Drawable'
    BY <1>5, <2>2, <2>4, <2>6 DEF Inv, Drawable, Is
  <2>9. \A e \in Docs \ {d} : DocInv(e)'
    BY <1>1, <1>3, <2>1, <2>4, <2>5, DocStays
  <2>10. DocInv(d)'
    <3>1. /\ PagesOf(d)' = PagesOf(d) /\ Settled(d)' = Settled(d)
          /\ AllPages(d)' = AllPages(d) /\ \A p : Newer(d, p)' = Newer(d, p)
      BY <1>1, SameFiles
    <3>2. PastTimes(d)' /\ PagesShow(d)' /\ PagesDrawn(d)'
      BY <1>1, <3>1 DEF Inv, DocInv, PastTimes, PagesShow, PagesDrawn
    <3>3. Drawing(q, d)' /\ \A o \in Requests \ {q} : Drawing(o, d)' => Drawing(o, d)
      BY <2>4, <2>5, <2>6 DEF Drawing, Is
    <3>4. DrawsCurrent(d)'
      BY <1>1, <2>4, <2>6, <3>1, <3>3 DEF Inv, DocInv, DrawsCurrent
    <3>5. AllPages(d)' \ requests'[q].todo = {}
      BY <2>4, <2>6, <3>1 DEF AllPages
    <3>6. Covered(d)'
      BY <3>3, <3>5 DEF Covered, Complete
    <3>. QED
      BY <3>2, <3>4, <3>6 DEF DocInv
  <2>11. \A e \in Docs : DocInv(e)'
    BY <2>9, <2>10
  <2>. QED
    BY <2>7, <2>8, <2>11 DEF Inv
<1>. QED
  BY <1>4, <1>5

(* AnswerPage keeps the invariant.                                         *)
LEMMA AnswerPageInv == ASSUME Inv, NEW q \in Requests, AnswerPage(q) PROVE Inv'
<1>1. Is(q, "read_page", "answer") /\ UNCHANGED <<clock, docs, previews, faults>>
      /\ requests' = [requests EXCEPT ![q] = None] /\ faults' \in Nat
  BY DEF AnswerPage, Return, Inv, Shapes
<1>2. \A d \in Docs : ~Starting(q, d) /\ ~Drawing(q, d)
  BY <1>1, Phase
<1>. QED
  BY <1>1, <1>2, QuietInv DEF IsCall

(* CutShort keeps the invariant, which speaks of complete pages only where *)
(* no render was cut short.                                                *)
LEMMA CutShortInv == ASSUME Inv, NEW q \in Requests, CutShort(q) PROVE Inv'
<1>1. UNCHANGED <<clock, docs, previews>> /\ requests' = [requests EXCEPT ![q] = None]
      /\ faults' = faults + 1
  BY DEF CutShort, Return
<1>2. faults' \in Nat /\ faults' # 0
  BY <1>1 DEF Inv, Shapes
<1>. QED
  BY <1>1, <1>2, QuietInv DEF IsCall

(* A page lands in the preview directory.                                  *)
LEMMA PageLands ==
  ASSUME Inv, NEW q \in Requests, NEW d \in Docs, requests[q].doc = d, Is(q, "read_page", "draw"),
         previews[d] # None, NEW p \in requests[q].todo,
         previews' = [previews EXCEPT ![d] =
           [n \in DOMAIN previews[d] \cup {p} |->
              IF n = p THEN [shows |-> requests[q].drawn, mtime |-> clock] ELSE previews[d][n]]]
  PROVE  /\ PagesOf(d)' = PagesOf(d) \cup {p}
         /\ previews'[d][p] = [shows |-> requests[q].drawn, mtime |-> clock]
         /\ \A n \in PagesOf(d) \ {p} : previews'[d][n] = previews[d][n]
         /\ IsPageDir(previews'[d])
         /\ requests[q].drawn \in Text
<1>. DEFINE img == [shows |-> requests[q].drawn, mtime |-> clock]
            new == [n \in DOMAIN previews[d] \cup {p} |-> IF n = p THEN img ELSE previews[d][n]]
<1>1. requests[q].drawn \in Text /\ p \in Pages
  BY Phase DEF Inv, Drawable, Read
<1>2. img \in Image
  BY <1>1 DEF Image, Inv, Shapes
<1>3. PICK S \in SUBSET Pages : previews[d] \in [S -> Image]
  BY DEF Inv, Shapes, IsPageDir
<1>4. new \in [S \cup {p} -> Image]
  BY <1>2, <1>3
<1>5. IsPageDir(new) /\ new # None
  <2>1. S \cup {p} \in SUBSET Pages
    BY <1>1, <1>3
  <2>. HIDE DEF new
  <2>2. IsPageDir(new)
    BY <1>4, <2>1 DEF IsPageDir
  <2>. QED
    BY <2>2, Constants
<1>6. previews'[d] = new
  BY DEF Inv, Shapes
<1>7. DOMAIN new = DOMAIN previews[d] \cup {p} /\ new[p] = img
      /\ \A n \in DOMAIN previews[d] \ {p} : new[n] = previews[d][n]
  OBVIOUS
<1>. HIDE DEF new
<1>. QED
  BY <1>1, <1>5, <1>6, <1>7 DEF PagesOf

(* DrawPage keeps the invariant: what is drawn is the document, and the    *)
(* last page completes it.                                                 *)
LEMMA DrawPageInv == ASSUME Inv, NEW q \in Requests, DrawPage(q) PROVE Inv'
<1>1. Is(q, "read_page", "draw") /\ UNCHANGED <<clock, docs, faults>>
  BY DEF DrawPage
<1>2. PICK d \in Docs : d = requests[q].doc
  BY <1>1, Phase
<1>3. requests[q] \in Read /\ Drawing(q, d) /\ ~Starting(q, d)
      /\ \A e \in Docs \ {d} : ~Starting(q, e) /\ ~Drawing(q, e)
  BY <1>1, <1>2, Phase DEF Drawing
<1>4. CASE previews[d] = None
  <2>1. requests' = [requests EXCEPT ![q] = None] /\ UNCHANGED previews
    BY <1>2, <1>4 DEF DrawPage, Return
  <2>. QED
    BY <1>1, <1>3, <1>4, <2>1, GiveUpInv
<1>5. CASE previews[d] # None
  <2>. DEFINE drawn(e, p) ==
                [previews EXCEPT ![e] =
                  [n \in DOMAIN previews[e] \cup {p} |->
                     IF n = p THEN [shows |-> requests[q].drawn, mtime |-> clock]
                     ELSE previews[e][n]]]
  <2>0. PICK p \in requests[q].todo :
          /\ previews' = drawn(requests[q].doc, p)
          /\ requests' = [requests EXCEPT ![q].todo = @ \ {p},
                            ![q].at = IF requests[q].todo = {p} THEN "answer" ELSE "draw"]
    BY <1>2, <1>5 DEF DrawPage
  <2>1. /\ previews' = drawn(d, p)
        /\ requests' = [requests EXCEPT ![q].todo = @ \ {p},
                          ![q].at = IF requests[q].todo = {p} THEN "answer" ELSE "draw"]
    <3>. HIDE DEF drawn
    <3>. QED
      BY <1>2, <2>0
  <2>2. /\ PagesOf(d)' = PagesOf(d) \cup {p}
        /\ previews'[d][p] = [shows |-> requests[q].drawn, mtime |-> clock]
        /\ \A n \in PagesOf(d) \ {p} : previews'[d][n] = previews[d][n]
        /\ IsPageDir(previews'[d])
        /\ requests[q].drawn \in Text
    BY <1>1, <1>2, <1>5, <2>1, PageLands
  <2>. DEFINE at == IF requests[q].todo = {p} THEN "answer" ELSE "draw"
              r  == [requests[q] EXCEPT !.todo = @ \ {p}, !.at = at]
  <2>3. requests' = [requests EXCEPT ![q] = r]
    BY <2>1 DEF Inv, Shapes
  <2>4. r \in Read /\ r.op = "read_page" /\ r.at = at /\ r.doc = d
        /\ r.drawn = requests[q].drawn /\ r.todo = requests[q].todo \ {p}
    BY <1>2, <1>3 DEF Read
  <2>. HIDE DEF r
  <2>5. IsCall(r) /\ r # None
    BY <2>4, Constants DEF IsCall
  <2>6. requests'[q] = r /\ \A o \in Requests \ {q} : requests'[o] = requests[o]
    BY <2>3, <2>5, SetCall DEF Inv
  <2>7. Shapes'
    <3>1. DOMAIN previews' = Docs /\ \A e \in Docs \ {d} : previews'[e] = previews[e]
      BY <2>1 DEF Inv, Shapes
    <3>. QED
      BY <1>1, <2>2, <2>3, <2>5, <3>1, SetCall DEF Inv, Shapes
  <2>8. Drawable'
    BY <1>1, <2>4, <2>6 DEF Inv, Drawable, Is
  <2>9. ASSUME NEW e \in Docs \ {d} PROVE DocInv(e)'
    <3>1. docs'[e] = docs[e] /\ previews'[e] = previews[e]
      BY <1>1, <2>1 DEF Inv, Shapes
    <3>. QED
      BY <1>1, <1>3, <2>3, <2>4, <2>5, <3>1, DocStays
  <2>10. DocInv(d)'
    <3>1. Settled(d)' = Settled(d) /\ AllPages(d)' = AllPages(d) /\ docs'[d] = docs[d]
      BY <1>1 DEF Settled, AllPages
    <3>2. \A o \in Requests \ {q} : (Drawing(o, d)' <=> Drawing(o, d)) /\ (Starting(o, d)' <=> Starting(o, d))
      BY <2>6 DEF Drawing, Starting, Is
    <3>3. PastTimes(d)'
      BY <1>1, <2>2, <3>1 DEF Inv, Shapes, DocInv, PastTimes
    <3>4. Settled(d) => requests[q].drawn = docs[d].text
      BY <1>3 DEF Inv, DocInv, DrawsCurrent
    <3>5. PagesShow(d)'
      <4>. SUFFICES ASSUME Settled(d), NEW n \in PagesOf(d)', Newer(d, n)'
                    PROVE  previews'[d][n].shows = docs[d].text
        BY <3>1 DEF PagesShow
      <4>1. CASE n = p
        BY <2>2, <3>4, <4>1
      <4>2. CASE n # p
        <5>1. n \in PagesOf(d) /\ previews'[d][n] = previews[d][n]
          BY <2>2, <4>2
        <5>2. Newer(d, n)
          BY <3>1, <5>1 DEF Newer
        <5>. QED
          BY <5>1, <5>2 DEF Inv, DocInv, PagesShow
      <4>. QED
        BY <4>1, <4>2
    <3>6. DrawsCurrent(d)'
      BY <2>4, <2>6, <3>1, <3>2, <3>4 DEF Inv, DocInv, DrawsCurrent
    <3>7. PagesDrawn(d)'
      <4>1. requests[q].drawn.draft \notin Broken /\ p \in 1 .. PageCount(requests[q].drawn)
        BY <1>1 DEF Inv, Drawable
      <4>. QED
        BY <2>2, <4>1 DEF Inv, DocInv, PagesDrawn
    <3>8. Covered(d)'
      <4>. SUFFICES ASSUME faults = 0, Settled(d) PROVE Complete(d)'
        BY <1>1, <3>1 DEF Covered
      <4>1. Complete(d)
        BY <1>3, <1>5 DEF Inv, DocInv, Covered, Touched
      <4>2. CASE \E o \in Requests : Starting(o, d)
        BY <1>3, <3>2, <4>2 DEF Complete
      <4>3. CASE \E o \in Requests \ {q} :
                   Drawing(o, d) /\ AllPages(d) \ requests[o].todo \subseteq PagesOf(d)
        BY <2>2, <2>6, <3>1, <3>2, <4>3 DEF Complete
      <4>4. CASE AllPages(d) \ requests[q].todo \subseteq PagesOf(d)
        <5>1. AllPages(d)' \ requests'[q].todo \subseteq PagesOf(d)'
          BY <2>2, <2>4, <2>6, <3>1, <4>4
        <5>2. CASE requests[q].todo = {p}
          BY <2>4, <2>6, <5>1, <5>2 DEF Complete
        <5>3. CASE requests[q].todo # {p}
          <6>1. Drawing(q, d)'
            BY <2>4, <2>5, <2>6, <5>3 DEF Drawing, Is
          <6>. QED
            BY <5>1, <6>1 DEF Complete
        <5>. QED
          BY <5>2, <5>3
      <4>5. CASE AllPages(d) \subseteq PagesOf(d)
        BY <2>2, <3>1, <4>5 DEF Complete
      <4>. QED
        BY <4>1, <4>2, <4>3, <4>4, <4>5 DEF Complete
    <3>. QED
      BY <3>3, <3>5, <3>6, <3>7, <3>8 DEF DocInv
  <2>11. \A e \in Docs : DocInv(e)'
    BY <2>9, <2>10
  <2>. QED
    BY <2>7, <2>8, <2>11 DEF Inv
<1>. QED
  BY <1>4, <1>5

-----------------------------------------------------------------------------
(* delete_file, the administrator and the clock.                           *)

(* BeginDelete keeps the invariant.                                        *)
LEMMA BeginDeleteInv == ASSUME Inv, NEW q \in Requests, BeginDelete(q) PROVE Inv'
<1>1. PICK d \in Docs :
        requests' = [requests EXCEPT ![q] = [op |-> "delete_file", at |-> "remove", doc |-> d]]
  BY DEF BeginDelete
<1>. DEFINE r == [op |-> "delete_file", at |-> "remove", doc |-> d]
<1>2. IsCall(r)
  BY DEF IsCall, Delete
<1>3. requests[q] = None /\ UNCHANGED <<clock, docs, previews, faults>> /\ faults' \in Nat
  BY DEF BeginDelete, Idle, Inv, Shapes
<1>4. r.op # "read_page"
  OBVIOUS
<1>. HIDE DEF r
<1>. QED
  BY <1>1, <1>2, <1>3, <1>4, NoRender, QuietInv DEF r

(* RemoveFile keeps the invariant: it changes no render.                   *)
LEMMA RemoveFileInv == ASSUME Inv, NEW q \in Requests, RemoveFile(q) PROVE Inv'
<1>1. requests[q] # None /\ requests[q].op = "delete_file"
      /\ UNCHANGED <<clock, previews, faults>> /\ faults' \in Nat
  BY DEF RemoveFile, Is, Inv, Shapes
<1>2. PICK d \in Docs : d = requests[q].doc
  BY <1>1, CallShape DEF Inv, Shapes
<1>3. CASE docs[d] = None
  <2>1. requests' = [requests EXCEPT ![q] = None] /\ UNCHANGED docs
    BY <1>2, <1>3 DEF RemoveFile, Return
  <2>. QED
    BY <1>1, <2>1, PutMoves
<1>4. CASE docs[d] # None
  <2>1. /\ docs' = [docs EXCEPT ![d] = None]
        /\ requests' = [r \in Requests |->
             IF r = q THEN [requests[q] EXCEPT !.at = "previews"] ELSE Unlink(requests[r], d)]
    BY <1>2, <1>4 DEF RemoveFile
  <2>2. \A o \in Requests :
          /\ IsCall(requests'[o])
          /\ requests[o] # None /\ requests[o].op = "read_page" => requests'[o] = requests[o]
          /\ requests'[o] # None /\ requests'[o].op = "read_page" => requests'[o] = requests[o]
    <3>. SUFFICES ASSUME NEW o \in Requests
                  PROVE  /\ IsCall(requests'[o])
                         /\ requests[o] # None /\ requests[o].op = "read_page" => requests'[o] = requests[o]
                         /\ requests'[o] # None /\ requests'[o].op = "read_page" => requests'[o] = requests[o]
      OBVIOUS
    <3>1. CASE o = q
      <4>1. requests'[o] = [requests[q] EXCEPT !.at = "previews"] /\ requests[q] \in Delete
        BY <1>1, <2>1, <3>1, CallShape DEF Inv, Shapes
      <4>2. requests'[o] \in Delete /\ requests'[o].op = "delete_file"
        BY <4>1 DEF Delete
      <4>. QED
        BY <1>1, <3>1, <4>2 DEF IsCall
    <3>2. CASE o # q /\ requests[o] # None /\ requests[o].op = "put_file"
                 /\ requests[o].doc = d /\ requests[o].at = "truncated"
      <4>1. requests'[o] = [requests[o] EXCEPT !.at = "unlinked"] /\ IsPut(requests[o])
        BY <2>1, <3>2, CallShape DEF Unlink, Inv, Shapes
      <4>2. IsPut(requests'[o])
        BY <4>1, PutExcept
      <4>3. requests'[o].op = "put_file"
        BY <4>2 DEF IsPut
      <4>. QED
        BY <3>2, <4>2, <4>3 DEF IsCall
    <3>3. CASE o # q /\ ~(requests[o] # None /\ requests[o].op = "put_file"
                 /\ requests[o].doc = d /\ requests[o].at = "truncated")
      BY <2>1, <3>3 DEF Unlink, Inv, Shapes
    <3>. QED
      BY <3>1, <3>2, <3>3
  <2>3. Shapes'
    <3>1. docs' \in [Docs -> File \cup {None}]
      BY <2>1 DEF Inv, Shapes
    <3>2. DOMAIN requests' = Requests /\ \A o \in Requests : IsCall(requests'[o])
      BY <2>1, <2>2
    <3>. QED
      BY <1>1, <3>1, <3>2 DEF Inv, Shapes
  <2>4. Drawable'
    BY <2>2 DEF Inv, Drawable, Is
  <2>5. \A o \in Requests, e \in Docs : /\ Drawing(o, e)' <=> Drawing(o, e)
                                        /\ Starting(o, e)' <=> Starting(o, e)
                                        /\ Drawing(o, e) => requests'[o] = requests[o]
    BY <2>2 DEF Drawing, Starting, Is
  <2>6. ASSUME NEW e \in Docs \ {d} PROVE DocInv(e)'
    <3>1. docs'[e] = docs[e] /\ previews'[e] = previews[e]
      BY <1>1, <2>1 DEF Inv, Shapes
    <3>2. /\ PagesOf(e)' = PagesOf(e) /\ Settled(e)' = Settled(e) /\ AllPages(e)' = AllPages(e)
          /\ \A p : Newer(e, p)' = Newer(e, p)
      BY <3>1, SameFiles
    <3>3. PastTimes(e)' /\ PagesShow(e)' /\ PagesDrawn(e)'
      BY <1>1, <3>1, <3>2 DEF Inv, DocInv, PastTimes, PagesShow, PagesDrawn
    <3>4. DrawsCurrent(e)'
      BY <2>5, <3>1, <3>2 DEF Inv, DocInv, DrawsCurrent
    <3>5. Complete(e) => Complete(e)'
      BY <2>5, <3>2 DEF Complete
    <3>6. Touched(e)' => Touched(e)
      BY <2>5, <3>2 DEF Touched
    <3>7. Covered(e)'
      BY <1>1, <3>2, <3>5, <3>6 DEF Inv, DocInv, Covered
    <3>. QED
      BY <3>3, <3>4, <3>7 DEF DocInv
  <2>7. DocInv(d)'
    <3>1. docs'[d] = None /\ ~Settled(d)' /\ PagesOf(d)' = PagesOf(d)
      BY <1>1, <2>1 DEF Settled, PagesOf, Inv, Shapes
    <3>2. PastTimes(d)' /\ PagesDrawn(d)'
      BY <1>1, <3>1 DEF Inv, DocInv, PastTimes, PagesDrawn
    <3>3. PagesShow(d)' /\ DrawsCurrent(d)' /\ Covered(d)'
      BY <3>1 DEF PagesShow, DrawsCurrent, Covered
    <3>. QED
      BY <3>2, <3>3 DEF DocInv
  <2>8. \A e \in Docs : DocInv(e)'
    BY <2>6, <2>7
  <2>. QED
    BY <2>3, <2>4, <2>8 DEF Inv
<1>. QED
  BY <1>3, <1>4

(* RemovePreviewDir keeps the invariant.                                   *)
LEMMA RemovePreviewDirInv == ASSUME Inv, NEW q \in Requests, RemovePreviewDir(q) PROVE Inv'
<1>1. requests[q] # None /\ requests[q].op = "delete_file" /\ UNCHANGED <<clock, docs, faults>>
      /\ previews' = [previews EXCEPT ![requests[q].doc] = None]
      /\ requests' = [requests EXCEPT ![q] = None]
  BY DEF RemovePreviewDir, Is, Return
<1>2. PICK d \in Docs : d = requests[q].doc
  BY <1>1, CallShape DEF Inv, Shapes
<1>3. IsCall(None)
  BY DEF IsCall
<1>. QED
  BY <1>1, <1>2, <1>3, NoRender, ClearInv

(* Time passing, and whatever touches no file and no call, keep the        *)
(* invariant.                                                              *)
LEMMA TickInv ==
  ASSUME Inv, UNCHANGED <<docs, previews, requests, faults>>, clock' \in {clock, clock + 1}
  PROVE  Inv'
<1>1. Shapes' /\ Drawable'
  BY DEF Inv, Shapes, Drawable, Is
<1>2. ASSUME NEW d \in Docs PROVE DocInv(d)'
  <2>1. /\ PagesOf(d)' = PagesOf(d) /\ Settled(d)' = Settled(d) /\ AllPages(d)' = AllPages(d)
        /\ \A p : Newer(d, p)' = Newer(d, p)
    BY SameFiles
  <2>2. \A q \in Requests : Drawing(q, d)' = Drawing(q, d) /\ Starting(q, d)' = Starting(q, d)
    BY DEF Drawing, Starting, Is
  <2>3. PastTimes(d)'
    <3>1. docs[d] # None => docs[d].mtime \in Nat
      BY DEF Inv, Shapes, File
    <3>2. \A p \in PagesOf(d) : previews[d][p].mtime \in Nat
      <4>1. ASSUME NEW p \in PagesOf(d) PROVE previews[d][p] \in Image
        BY DEF Inv, Shapes, IsPageDir, PagesOf
      <4>. QED
        BY <4>1 DEF Image
    <3>. QED
      BY <2>1, <3>1, <3>2 DEF Inv, Shapes, DocInv, PastTimes
  <2>4. PagesShow(d)' /\ PagesDrawn(d)' /\ DrawsCurrent(d)'
    BY <2>1, <2>2 DEF Inv, DocInv, PagesShow, PagesDrawn, DrawsCurrent
  <2>5. Covered(d)'
    BY <2>1, <2>2 DEF Inv, DocInv, Covered, Touched, Complete
  <2>. QED
    BY <2>3, <2>4, <2>5 DEF DocInv
<1>. QED
  BY <1>1, <1>2 DEF Inv

-----------------------------------------------------------------------------
(* Every step keeps the invariant.                                         *)
LEMMA StepInv == ASSUME Inv, [Next]_vars PROVE Inv'
<1>1. ASSUME NEW q \in Requests, BeginPut(q) PROVE Inv'
  BY <1>1, BeginPutInv
<1>2. ASSUME NEW q \in Requests, BeginRead(q) PROVE Inv'
  BY <1>2, BeginReadInv
<1>3. ASSUME NEW q \in Requests, BeginDelete(q) PROVE Inv'
  BY <1>3, BeginDeleteInv
<1>4. ASSUME NEW q \in Requests, CutShort(q) PROVE Inv'
  BY <1>4, CutShortInv
<1>5. ASSUME NEW q \in Requests, Step(q) PROVE Inv'
  BY <1>5, MeasureUsageInv, MeasureExistingInv, AppendFileInv, TruncateInv, WriteFileInv,
     WriteUnlinkedInv, LookAtPagesInv, ClearPagesInv, MakePageDirInv, PreprocessInv, DrawPageInv,
     AnswerPageInv, RemoveFileInv, RemovePreviewDirInv DEF Step
<1>6. CASE SetWorkspaceBudget
  BY <1>6, TickInv DEF SetWorkspaceBudget
<1>7. CASE Tick
  BY <1>7, TickInv DEF Tick
<1>8. CASE UNCHANGED vars
  BY <1>8, TickInv DEF vars
<1>. QED
  BY <1>1, <1>2, <1>3, <1>4, <1>5, <1>6, <1>7, <1>8 DEF Next

(* The invariant holds in every state.                                     *)
THEOREM InvHolds == Spec => []Inv
BY InitInv, StepInv, PTL DEF Spec

(* Pages that pass as fresh show the document as it is, unless the last    *)
(* write overtook a render.                                                *)
THEOREM CacheStaysCurrent == Spec => []CacheCurrent
<1>1. Inv => CacheCurrent
  BY DEF Inv, DocInv, PagesShow, CacheCurrent, Fresh, PagesAreFresh, Settled, Newer
<1>. QED
  BY <1>1, InvHolds, PTL

(* And they are all of its pages, once no render is at work, if none was   *)
(* cut short.                                                              *)
THEOREM CacheStaysWhole == Spec => []CacheWhole
<1>1. ASSUME Inv, NEW d \in Docs, Fresh(d), ~docs[d].overtook, ~Rendering(d), faults = 0
      PROVE  PagesOf(d) = 1 .. PageCount(docs[d].text)
  <2>1. Settled(d) /\ PagesOf(d) # {} /\ \A p \in PagesOf(d) : Newer(d, p)
    BY <1>1 DEF Fresh, PagesAreFresh, Settled, Newer
  <2>2. previews[d] # None
    BY <2>1 DEF PagesOf
  <2>3. \A q \in Requests : ~Starting(q, d) /\ ~Drawing(q, d)
    BY <1>1 DEF Rendering, Starting, Drawing, Is
  <2>4. AllPages(d) \subseteq PagesOf(d)
    BY <1>1, <2>1, <2>2, <2>3 DEF Inv, DocInv, Covered, Touched, Complete
  <2>5. \A p \in PagesOf(d) : p \in AllPages(d)
    BY <1>1, <2>1 DEF Inv, DocInv, PagesShow, PagesDrawn, AllPages
  <2>. QED
    BY <2>4, <2>5 DEF AllPages
<1>2. Inv => CacheWhole
  BY <1>1 DEF CacheWhole
<1>. QED
  BY <1>2, InvHolds, PTL

-----------------------------------------------------------------------------
(* Sums over a finite set, by induction over its subsets.                  *)

(* A set of natural numbers has a least one.                               *)
LEMMA LeastNat ==
  ASSUME NEW T \in SUBSET Nat, T # {}
  PROVE  \E n \in T : \A m \in T : n <= m
<1>1. PICK n \in T : \A m \in T : ~(<<m, n>> \in OpToRel(<, Nat))
  BY NatLessThanWellFounded, WFMin
<1>2. \A m \in T : ~(m < n)
  BY <1>1 DEF OpToRel
<1>. QED
  BY <1>2

(* A set of subsets of a finite set has one that contains no other.        *)
LEMMA LeastSubset ==
  ASSUME NEW S, IsFiniteSet(S), NEW X \in SUBSET SUBSET S, X # {}
  PROVE  \E T \in X : \A U \in X : U \subseteq T => U = T
<1>1. FiniteSubsetsOf(S) = SUBSET S
  BY FS_FiniteSubsetsOfFinite
<1>2. IsWellFoundedOn(StrictSubsetOrdering(S), SUBSET S)
  BY <1>1, FS_StrictSubsetOrderingWellFounded
<1>3. PICK T \in X : \A U \in X : ~(<<U, T>> \in StrictSubsetOrdering(S))
  BY <1>2, WFMin
<1>. QED
  BY <1>3 DEF StrictSubsetOrdering

(* How MapThenSumSet adds up the values of f on a set: the elements in     *)
(* the order of CHOOSE, by a function on the subsets.                      *)
Chosen(s) == CHOOSE x \in s : TRUE
IsSum(sum, f, S) ==
  sum = [s \in SUBSET S |-> IF s = {} THEN 0 ELSE f[Chosen(s)] + sum[s \ {Chosen(s)}]]

(* The element chosen is one of the set.                                   *)
LEMMA ChosenIn == ASSUME NEW s, s # {} PROVE Chosen(s) \in s
BY DEF Chosen

(* There is such a function: the subsets that no function sums would       *)
(* have a smallest size.                                                   *)
LEMMA SumExists == ASSUME NEW f, NEW S, IsFiniteSet(S) PROVE \E sum : IsSum(sum, f, S)
<1>. DEFINE Small(n) == {t \in SUBSET S : Cardinality(t) <= n}
            IsPart(h, n) ==
              h = [s \in Small(n) |->
                     IF s = {} THEN 0 ELSE f[Chosen(s)] + h[s \ {Chosen(s)}]]
            Bad == {n \in Nat : ~\E h : IsPart(h, n)}
<1>1. \A s \in SUBSET S : IsFiniteSet(s) /\ Cardinality(s) \in Nat
  BY FS_Subset, FS_CardinalityType
<1>2. \A s \in SUBSET S : s # {} =>
        Cardinality(s \ {Chosen(s)}) = Cardinality(s) - 1 /\ s \ {Chosen(s)} \in SUBSET S
  BY <1>1, ChosenIn, FS_RemoveElement
<1>3. Bad = {}
  <2>. SUFFICES ASSUME Bad # {} PROVE FALSE
    OBVIOUS
  <2>1. PICK n \in Bad : \A m \in Bad : n <= m
    BY LeastNat
  <2>2. CASE n = 0
    <3>1. \A s \in Small(0) : s = {}
      BY <1>1, FS_EmptySet
    <3>2. IsPart([s \in Small(0) |-> 0], 0)
      BY <3>1
    <3>. QED
      BY <2>1, <2>2, <3>2
  <2>3. CASE n # 0
    <3>1. n - 1 \in Nat /\ n - 1 \notin Bad
      <4>. HIDE DEF IsPart
      <4>. QED
        BY <2>1, <2>3
    <3>2. PICK h : IsPart(h, n - 1)
      BY <3>1
    <3>. DEFINE g == [s \in Small(n) |->
                        IF s = {} THEN 0 ELSE f[Chosen(s)] + h[s \ {Chosen(s)}]]
    <3>3. ASSUME NEW s \in Small(n - 1) PROVE s \in Small(n) /\ g[s] = h[s]
      <4>1. s \in Small(n)
        BY <1>1, <2>1
      <4>2. h[s] = IF s = {} THEN 0 ELSE f[Chosen(s)] + h[s \ {Chosen(s)}]
        BY <3>2
      <4>3. g[s] = IF s = {} THEN 0 ELSE f[Chosen(s)] + h[s \ {Chosen(s)}]
        BY <4>1
      <4>. QED
        BY <4>1, <4>2, <4>3
    <3>4. \A s \in Small(n) : s # {} => s \ {Chosen(s)} \in Small(n - 1)
      BY <1>1, <1>2, <2>1, <3>1
    <3>5. IsPart(g, n)
      BY <3>3, <3>4
    <3>. QED
      BY <2>1, <3>5
  <2>. QED
    BY <2>2, <2>3
<1>4. PICK h : IsPart(h, Cardinality(S))
  BY <1>1, <1>3
<1>5. Small(Cardinality(S)) = SUBSET S
  BY FS_Subset
<1>. QED
  BY <1>4, <1>5 DEF IsSum

(* Two sums over the same set take its elements in the same order.         *)
LEMMA SumStep ==
  ASSUME NEW sum, NEW f, NEW S, IsSum(sum, f, S)
  PROVE  /\ sum[{}] = 0
         /\ \A s \in SUBSET S : s # {} =>
              /\ Chosen(s) \in s /\ s \ {Chosen(s)} \in SUBSET S
              /\ sum[s] = f[Chosen(s)] + sum[s \ {Chosen(s)}]
BY ChosenIn DEF IsSum

(* Induction over the subsets of a set, in that order.                     *)
LEMMA SubsetInduction ==
  ASSUME NEW S, IsFiniteSet(S), NEW Good \in SUBSET SUBSET S, {} \in Good,
         \A s \in SUBSET S : s # {} /\ s \ {Chosen(s)} \in Good => s \in Good
  PROVE  \A s \in SUBSET S : s \in Good
<1>. DEFINE Bad == (SUBSET S) \ Good
<1>. SUFFICES ASSUME Bad # {} PROVE FALSE
  OBVIOUS
<1>1. Bad \in SUBSET SUBSET S
  OBVIOUS
<1>. HIDE DEF Bad
<1>2. PICK s \in Bad : \A u \in Bad : u \subseteq s => u = s
  BY <1>1, LeastSubset
<1>3. s \in SUBSET S /\ s # {}
  BY DEF Bad
<1>4. Chosen(s) \in s
  BY <1>3, ChosenIn
<1>5. s \ {Chosen(s)} \in SUBSET S /\ s \ {Chosen(s)} \notin Bad
  BY <1>2, <1>3, <1>4
<1>. QED
  BY <1>3, <1>5 DEF Bad

(* Two such functions give the same sum.                                   *)
LEMMA SumUnique ==
  ASSUME NEW S, IsFiniteSet(S), NEW f, NEW a, NEW b, IsSum(a, f, S), IsSum(b, f, S)
  PROVE  a[S] = b[S]
<1>. DEFINE Good == {s \in SUBSET S : a[s] = b[s]}
<1>1. {} \in Good
  BY SumStep
<1>2. ASSUME NEW s \in SUBSET S, s # {}, s \ {Chosen(s)} \in Good PROVE s \in Good
  <2>1. a[s] = f[Chosen(s)] + a[s \ {Chosen(s)}] /\ b[s] = f[Chosen(s)] + b[s \ {Chosen(s)}]
    BY <1>2, SumStep
  <2>. QED
    BY <1>2, <2>1
<1>3. Good \in SUBSET SUBSET S
  OBVIOUS
<1>. HIDE DEF Good
<1>4. S \in Good
  BY <1>1, <1>2, <1>3, SubsetInduction
<1>. QED
  BY <1>4 DEF Good

(* A sum of naturals is one.                                               *)
LEMMA SumInNat ==
  ASSUME NEW S, IsFiniteSet(S), NEW f \in [S -> Nat], NEW sum, IsSum(sum, f, S)
  PROVE  \A s \in SUBSET S : sum[s] \in Nat
<1>. DEFINE Good == {s \in SUBSET S : sum[s] \in Nat}
<1>1. {} \in Good
  BY SumStep
<1>2. ASSUME NEW s \in SUBSET S, s # {}, s \ {Chosen(s)} \in Good PROVE s \in Good
  <2>1. sum[s] = f[Chosen(s)] + sum[s \ {Chosen(s)}] /\ Chosen(s) \in S
    BY <1>2, SumStep
  <2>. QED
    BY <1>2, <2>1
<1>3. Good \in SUBSET SUBSET S
  OBVIOUS
<1>. HIDE DEF Good
<1>4. \A s \in SUBSET S : s \in Good
  BY <1>1, <1>2, <1>3, SubsetInduction
<1>. QED
  BY <1>4 DEF Good

(* It grows with its terms.                                                *)
LEMMA SumMonotone ==
  ASSUME NEW S, IsFiniteSet(S), NEW f \in [S -> Nat], NEW g \in [S -> Nat],
         \A x \in S : f[x] <= g[x], NEW a, IsSum(a, f, S), NEW b, IsSum(b, g, S)
  PROVE  a[S] <= b[S]
<1>. DEFINE Good == {s \in SUBSET S : a[s] <= b[s]}
<1>1. {} \in Good
  BY SumStep
<1>2. ASSUME NEW s \in SUBSET S, s # {}, s \ {Chosen(s)} \in Good PROVE s \in Good
  <2>. DEFINE x == Chosen(s)
              u == s \ {x}
  <2>1. a[s] = f[x] + a[u] /\ b[s] = g[x] + b[u] /\ x \in S /\ u \in SUBSET S
    BY <1>2, SumStep
  <2>2. a[u] \in Nat /\ b[u] \in Nat /\ f[x] \in Nat /\ g[x] \in Nat /\ f[x] <= g[x]
    BY <2>1, SumInNat
  <2>3. a[u] <= b[u]
    BY <1>2
  <2>. HIDE DEF x, u
  <2>. QED
    BY <2>1, <2>2, <2>3
<1>3. Good \in SUBSET SUBSET S
  OBVIOUS
<1>. HIDE DEF Good
<1>4. S \in Good
  BY <1>1, <1>2, <1>3, SubsetInduction
<1>. QED
  BY <1>4 DEF Good

(* It changes by what one term changes.                                    *)
LEMMA SumExcept ==
  ASSUME NEW S, IsFiniteSet(S), NEW f \in [S -> Nat], NEW g \in [S -> Nat],
         NEW e \in S, \A x \in S \ {e} : g[x] = f[x],
         NEW a, IsSum(a, f, S), NEW b, IsSum(b, g, S)
  PROVE  b[S] = a[S] - f[e] + g[e]
<1>. DEFINE Good == {s \in SUBSET S : b[s] = IF e \in s THEN a[s] - f[e] + g[e] ELSE a[s]}
<1>1. {} \in Good
  BY SumStep
<1>2. ASSUME NEW s \in SUBSET S, s # {}, s \ {Chosen(s)} \in Good PROVE s \in Good
  <2>. DEFINE x == Chosen(s)
              u == s \ {x}
  <2>1. /\ a[s] = f[x] + a[u] /\ b[s] = g[x] + b[u]
        /\ x \in s /\ x \in S /\ u \in SUBSET S
    <3>. HIDE DEF Good
    <3>1. x \in s /\ u \in SUBSET S /\ a[s] = f[x] + a[u]
      BY <1>2, SumStep
    <3>2. b[s] = g[x] + b[u]
      BY <1>2, SumStep
    <3>. QED
      BY <3>1, <3>2
  <2>2. a[u] \in Nat /\ f[x] \in Nat /\ f[e] \in Nat /\ g[e] \in Nat
    BY <2>1, SumInNat
  <2>3. b[u] = IF e \in u THEN a[u] - f[e] + g[e] ELSE a[u]
    BY <1>2
  <2>4. e \in u <=> e \in s /\ e # x
    OBVIOUS
  <2>5. x = e \/ g[x] = f[x]
    BY <2>1
  <2>. HIDE DEF x, u
  <2>6. b[s] = IF e \in s THEN a[s] - f[e] + g[e] ELSE a[s]
    BY <2>1, <2>2, <2>3, <2>4, <2>5
  <2>. QED
    BY <2>6
<1>3. Good \in SUBSET SUBSET S
  OBVIOUS
<1>. HIDE DEF Good
<1>4. S \in Good
  BY <1>1, <1>2, <1>3, SubsetInduction
<1>. QED
  BY <1>4 DEF Good

(* A sum of equal terms.                                                   *)
LEMMA SumConstant ==
  ASSUME NEW S, IsFiniteSet(S), NEW c \in Nat, NEW f,
         \A x \in S : f[x] = c, NEW a, IsSum(a, f, S)
  PROVE  a[S] = Cardinality(S) * c
<1>. DEFINE Good == {s \in SUBSET S : a[s] = Cardinality(s) * c}
<1>1. {} \in Good
  BY SumStep, FS_EmptySet
<1>2. ASSUME NEW s \in SUBSET S, s # {}, s \ {Chosen(s)} \in Good PROVE s \in Good
  <2>. DEFINE u == s \ {Chosen(s)}
  <2>1. a[s] = c + a[u] /\ Chosen(s) \in s
    BY <1>2, SumStep
  <2>2. IsFiniteSet(s) /\ Cardinality(s) \in Nat /\ Cardinality(u) = Cardinality(s) - 1
    BY <2>1, FS_Subset, FS_CardinalityType, FS_RemoveElement
  <2>3. a[u] = Cardinality(u) * c
    BY <1>2
  <2>4. \A n \in Nat : n * c = c + (n - 1) * c
    OBVIOUS
  <2>. HIDE DEF u
  <2>5. a[s] = Cardinality(s) * c
    BY <2>1, <2>2, <2>3, <2>4
  <2>. QED
    BY <2>5
<1>3. Good \in SUBSET SUBSET S
  OBVIOUS
<1>. HIDE DEF Good
<1>4. S \in Good
  BY <1>1, <1>2, <1>3, SubsetInduction
<1>. QED
  BY <1>4 DEF Good

-----------------------------------------------------------------------------
(* The sum itself, and the same facts about it.                            *)
Total(f, S) == (CHOOSE sum : IsSum(sum, f, S))[S]

(* Total is the value of any function that sums.                           *)
LEMMA TotalIs ==
  ASSUME NEW S, IsFiniteSet(S), NEW f, NEW sum, IsSum(sum, f, S)
  PROVE  Total(f, S) = sum[S]
BY SumExists, SumUnique DEF Total

(* A total of naturals is one.                                             *)
LEMMA TotalInNat ==
  ASSUME NEW S, IsFiniteSet(S), NEW f \in [S -> Nat]
  PROVE  Total(f, S) \in Nat
BY SumExists, SumInNat, TotalIs

(* It grows with its terms.                                                *)
LEMMA TotalMonotone ==
  ASSUME NEW S, IsFiniteSet(S), NEW f \in [S -> Nat], NEW g \in [S -> Nat],
         \A x \in S : f[x] <= g[x]
  PROVE  Total(f, S) <= Total(g, S)
BY SumExists, SumMonotone, TotalIs

(* It changes by what one term changes.                                    *)
LEMMA TotalExcept ==
  ASSUME NEW S, IsFiniteSet(S), NEW f \in [S -> Nat], NEW g \in [S -> Nat],
         NEW e \in S, \A x \in S \ {e} : g[x] = f[x]
  PROVE  Total(g, S) = Total(f, S) - f[e] + g[e]
<1>1. PICK a : IsSum(a, f, S)
  BY SumExists
<1>2. PICK b : IsSum(b, g, S)
  BY SumExists
<1>3. b[S] = a[S] - f[e] + g[e]
  BY <1>1, <1>2, SumExcept
<1>. QED
  BY <1>1, <1>2, <1>3, TotalIs

(* A total of equal terms.                                                 *)
LEMMA TotalConstant ==
  ASSUME NEW S, IsFiniteSet(S), NEW c \in Nat, NEW f, \A x \in S : f[x] = c
  PROVE  Total(f, S) = Cardinality(S) * c
BY SumExists, SumConstant, TotalIs
-----------------------------------------------------------------------------
(* The largest of a finite set of naturals.                                *)
LEMMA FiniteBound ==
  ASSUME NEW S \in SUBSET Nat, IsFiniteSet(S)
  PROVE  \E n \in Nat : \A x \in S : x <= n
<1>. DEFINE Good == {s \in SUBSET S : \E n \in Nat : \A x \in s : x <= n}
<1>1. {} \in Good
  <2>1. \A x \in {} : x <= 0
    OBVIOUS
  <2>. QED
    BY <2>1
<1>2. ASSUME NEW s \in SUBSET S, s # {}, s \ {Chosen(s)} \in Good PROVE s \in Good
  <2>1. PICK n \in Nat : \A x \in s \ {Chosen(s)} : x <= n
    BY <1>2
  <2>2. Chosen(s) \in Nat
    BY <1>2, ChosenIn
  <2>. DEFINE m == n + Chosen(s)
  <2>3. m \in Nat /\ \A x \in s : x <= m
    BY <2>1, <2>2
  <2>. QED
    BY <2>3
<1>3. Good \in SUBSET SUBSET S
  OBVIOUS
<1>. HIDE DEF Good
<1>4. S \in Good
  BY <1>1, <1>2, <1>3, SubsetInduction
<1>. QED
  BY <1>4 DEF Good

(* It has a largest element, which Max is.                                 *)
LEMMA FiniteMax ==
  ASSUME NEW S \in SUBSET Nat, IsFiniteSet(S), S # {}
  PROVE  Max(S) \in S /\ \A x \in S : x <= Max(S)
<1>. DEFINE bounds == {n \in Nat : \A x \in S : x <= n}
<1>1. PICK n \in bounds : \A m \in bounds : n <= m
  <2>1. bounds # {}
    BY FiniteBound
  <2>2. bounds \in SUBSET Nat
    OBVIOUS
  <2>. HIDE DEF bounds
  <2>. QED
    BY <2>1, <2>2, LeastNat
<1>2. n \in S
  <2>. SUFFICES ASSUME n \notin S PROVE FALSE
    OBVIOUS
  <2>1. n - 1 \in Nat
    <3>1. PICK x \in S : x <= n /\ x # n
      BY <1>1
    <3>. QED
      BY <1>1, <3>1
  <2>2. \A x \in S : x <= n - 1
    BY <1>1
  <2>. QED
    BY <1>1, <2>1, <2>2
<1>3. \A x \in S : n >= x
  BY <1>1
<1>. QED
  BY <1>2, <1>3 DEF Max

(* The budgets and what is admitted under them.                            *)
LEMMA BudgetBounds ==
  /\ LargestBudget \in Nat
  /\ \A b \in Budgets \cup {workspaceBudgetBytes} : b \in Nat /\ b <= LargestBudget
<1>1. IsFiniteSet(Budgets \cup {workspaceBudgetBytes})
  BY WorkspaceFilesAssumption, FS_AddElement
<1>2. Budgets \cup {workspaceBudgetBytes} \in SUBSET Nat
  BY WorkspaceFilesAssumption
<1>. QED
  BY <1>1, <1>2, FiniteMax DEF LargestBudget

-----------------------------------------------------------------------------
(* What a workspace weighs.                                                *)
Sizes == [d \in Docs |-> SizeOf(d)]

(* The sizes are naturals.                                                 *)
LEMMA SizesType == ASSUME Inv PROVE Sizes \in [Docs -> Nat]
BY SizeType, Constants DEF Sizes

(* Sources is the total of the sizes.                                      *)
LEMMA SourcesTotal == Sources = Total(Sizes, Docs)
<1>. DEFINE sum == CHOOSE iter : iter = [s \in SUBSET Docs |->
                     IF s = {} THEN 0
                     ELSE SizeOf(Chosen(s)) + iter[s \ {Chosen(s)}]]
<1>1. IsSum(sum, Sizes, Docs)
  <2>1. PICK it : IsSum(it, Sizes, Docs)
    BY WorkspaceFilesAssumption, SumExists
  <2>2. \A s \in SUBSET Docs : s # {} => Sizes[Chosen(s)] = SizeOf(Chosen(s))
    BY ChosenIn DEF Sizes
  <2>3. \A h : [s \in SUBSET Docs |-> IF s = {} THEN 0 ELSE Sizes[Chosen(s)] + h[s \ {Chosen(s)}]]
             = [s \in SUBSET Docs |-> IF s = {} THEN 0 ELSE SizeOf(Chosen(s)) + h[s \ {Chosen(s)}]]
    BY <2>2
  <2>4. it = [s \in SUBSET Docs |-> IF s = {} THEN 0 ELSE SizeOf(Chosen(s)) + it[s \ {Chosen(s)}]]
    BY <2>1, <2>3 DEF IsSum
  <2>5. sum = [s \in SUBSET Docs |-> IF s = {} THEN 0 ELSE SizeOf(Chosen(s)) + sum[s \ {Chosen(s)}]]
    BY <2>4
  <2>. HIDE DEF sum
  <2>. QED
    BY <2>3, <2>5 DEF IsSum
<1>2. Sources = sum[Docs]
  BY DEF Sources, MapThenSumSet, MapThenFoldSet, Chosen
<1>. QED
  BY <1>1, <1>2, WorkspaceFilesAssumption, TotalIs

(* The usage is a natural, and counts the documents.                       *)
LEMMA UsageBounds == ASSUME Inv PROVE Usage \in Nat /\ Sources \in Nat /\ Sources <= Usage
<1>. DEFINE heaps == [d \in Docs |-> NumPages(d)]
            sum   == CHOOSE iter : iter = [s \in SUBSET Docs |->
                       IF s = {} THEN 0
                       ELSE NumPages(Chosen(s)) + iter[s \ {Chosen(s)}]]
<1>1. heaps \in [Docs -> Nat]
  <2>. SUFFICES ASSUME NEW d \in Docs PROVE NumPages(d) \in Nat
    OBVIOUS
  <2>1. PagesOf(d) \in SUBSET Pages
    BY DEF Inv, Shapes, IsPageDir, PagesOf
  <2>2. IsFiniteSet(Pages)
    BY Constants, FS_Interval DEF Pages
  <2>. QED
    BY <2>1, <2>2, FS_Subset, FS_CardinalityType DEF NumPages
<1>2. IsSum(sum, heaps, Docs)
  <2>1. PICK it : IsSum(it, heaps, Docs)
    BY WorkspaceFilesAssumption, SumExists
  <2>2. \A s \in SUBSET Docs : s # {} => heaps[Chosen(s)] = NumPages(Chosen(s))
    BY ChosenIn
  <2>3. \A h : [s \in SUBSET Docs |-> IF s = {} THEN 0 ELSE heaps[Chosen(s)] + h[s \ {Chosen(s)}]]
             = [s \in SUBSET Docs |-> IF s = {} THEN 0 ELSE NumPages(Chosen(s)) + h[s \ {Chosen(s)}]]
    BY <2>2
  <2>4. it = [s \in SUBSET Docs |-> IF s = {} THEN 0 ELSE NumPages(Chosen(s)) + it[s \ {Chosen(s)}]]
    BY <2>1, <2>3 DEF IsSum
  <2>5. sum = [s \in SUBSET Docs |-> IF s = {} THEN 0 ELSE NumPages(Chosen(s)) + sum[s \ {Chosen(s)}]]
    BY <2>4
  <2>. HIDE DEF sum
  <2>. QED
    BY <2>3, <2>5 DEF IsSum
<1>3. MapThenSumSet(NumPages, Docs) = sum[Docs]
  BY DEF MapThenSumSet, MapThenFoldSet, Chosen
<1>. HIDE DEF heaps, sum
<1>4. sum[Docs] \in Nat
  BY <1>1, <1>2, WorkspaceFilesAssumption, SumInNat
<1>5. Sources \in Nat
  BY SizesType, SourcesTotal, WorkspaceFilesAssumption, TotalInNat
<1>. QED
  BY <1>3, <1>4, <1>5 DEF Usage

-----------------------------------------------------------------------------
(* The reservations.                                                       *)

(* Calls that may still make the documents larger: an overwrite or an      *)
(* append that was admitted, and an overwrite that has added the workspace *)
(* up.                                                                     *)
IsPutAt(r, at) == r # None /\ r.op = "put_file" /\ r.at = at
Overwrites(r)  == (IsPutAt(r, "write") \/ IsPutAt(r, "truncated")) /\ ~r.append
Appends(r)     == IsPutAt(r, "write") /\ r.append
Weighs(r)      == IsPutAt(r, "existing")

(* What a put_file has measured and read.                                  *)
Measured(r) ==
  r # None /\ r.op = "put_file" =>
    /\ r.data.size <= maxInputBytes /\ r.budget \in Nat /\ r.used \in Nat
    /\ r.at \in {"usage", "existing"} => r.budget <= LargestBudget
    /\ r.at \in {"existing", "truncated"} => ~r.append

(* n units are reserved for the call, in a document that may hold c.       *)
Reserves(r, c, n) ==
  /\ Overwrites(r) => r.data.size <= c + n
  /\ Appends(r)    => r.data.size <= n
  /\ Weighs(r)     => r.data.size <= n \/ LargestBudget <= r.used + n

Allowed == LargestBudget + (Cardinality(Requests) - 1) * maxInputBytes

Holds(cap, res) ==
  /\ \A d \in Docs : SizeOf(d) <= cap[d]
  /\ \A q \in Requests : Reserves(requests[q], cap[requests[q].doc], res[q])
  /\ Total(cap, Docs) + Total(res, Requests) <= Allowed
Reserved == \E cap \in [Docs -> Nat], res \in [Requests -> Nat] : Holds(cap, res)

Bounds ==
  /\ clock <= MaxClock /\ faults <= MaxFaults /\ override \in Forms
  /\ requests = [q \in Requests |-> requests[q]]
  /\ \A q \in Requests : Measured(requests[q])

BudgetInv == Bounds /\ (Limited => Reserved)

(* Calls with a reservation.                                               *)
Grows(r) == Overwrites(r) \/ Appends(r) \/ Weighs(r)

(* The allowance is a natural: there is at least one call.                 *)
LEMMA AllowedType == Allowed \in Int /\ 0 <= Allowed /\ Cardinality(Requests) \in Nat \ {0}
<1>1. Cardinality(Requests) \in Nat \ {0}
  BY WorkspaceFilesAssumption, FS_CardinalityType, FS_EmptySet
<1>2. \A n, m \in Nat : n * m \in Nat
  OBVIOUS
<1>3. (Cardinality(Requests) - 1) * maxInputBytes \in Nat
  BY <1>1, <1>2, WorkspaceFilesAssumption
<1>. QED
  BY <1>1, <1>3, BudgetBounds DEF Allowed

(* The size of a document, after a step.                                   *)
LEMMA SizeTypeNext == ASSUME Inv', NEW d \in Docs PROVE SizeOf(d)' \in 0 .. MaxSize
BY Constants DEF Inv, Shapes, SizeOf, File, Text

(* A step that grows no document, and after which each call that may grow  *)
(* one can do with what was reserved for it, keeps the reservations.       *)
LEMMA NoGrowth ==
  ASSUME Inv, Inv', Reserved, \A d \in Docs : SizeOf(d)' <= SizeOf(d),
         \A q \in Requests : Grows(requests'[q]) =>
           /\ requests[q] # None /\ requests'[q].doc = requests[q].doc
           /\ \A c, n \in Nat :
                SizeOf(requests[q].doc) <= c /\ Reserves(requests[q], c, n)
                  => Reserves(requests'[q], c, n)
  PROVE  Reserved'
<1>1. PICK cap \in [Docs -> Nat], res \in [Requests -> Nat] : Holds(cap, res)
  BY DEF Reserved
<1>2. ASSUME NEW d \in Docs PROVE SizeOf(d)' <= cap[d]
  <2>1. SizeOf(d) \in Nat /\ SizeOf(d)' \in Nat /\ SizeOf(d) <= cap[d]
    BY <1>1, SizeType, SizeTypeNext, Constants DEF Holds
  <2>. QED
    BY <2>1
<1>3. ASSUME NEW q \in Requests PROVE Reserves(requests'[q], cap[requests'[q].doc], res[q])
  <2>1. CASE ~Grows(requests'[q])
    BY <2>1 DEF Grows, Reserves
  <2>2. CASE Grows(requests'[q])
    <3>1. PICK d \in Docs : d = requests[q].doc
      BY <2>2, CallShape DEF Inv, Shapes
    <3>2. SizeOf(requests[q].doc) <= cap[d] /\ Reserves(requests[q], cap[d], res[q])
          /\ cap[d] \in Nat /\ res[q] \in Nat
      BY <1>1, <3>1 DEF Holds
    <3>. QED
      BY <2>2, <3>1, <3>2
  <2>. QED
    BY <2>1, <2>2
<1>4. Holds(cap, res)'
  BY <1>1, <1>2, <1>3 DEF Holds
<1>. QED
  BY <1>4 DEF Reserved

(* A call whose write is about to grow a document by at most x units, the  *)
(* documents and x fitting in the budget: what the calls may still write   *)
(* is one put_file for each of the others, and x.                          *)
LEMMA NewReservation ==
  ASSUME Inv, Inv', Bounds, NEW q \in Requests, NEW x \in Nat, Sources + x <= LargestBudget,
         \A d \in Docs : SizeOf(d)' = SizeOf(d),
         \A o \in Requests \ {q} : requests'[o] = requests[o],
         \A c \in Nat : Reserves(requests'[q], c, x)
  PROVE  Reserved'
<1>. DEFINE most == [o \in Requests |-> maxInputBytes]
            res  == [o \in Requests |-> IF o = q THEN x ELSE maxInputBytes]
            n    == Cardinality(Requests)
<1>1. Sizes \in [Docs -> Nat] /\ Total(Sizes, Docs) = Sources /\ Sources \in Nat
  BY SizesType, SourcesTotal, UsageBounds
<1>2. maxInputBytes \in Nat /\ IsFiniteSet(Requests) /\ n \in Nat \ {0}
  BY WorkspaceFilesAssumption, AllowedType
<1>3. most \in [Requests -> Nat] /\ res \in [Requests -> Nat]
      /\ most[q] = maxInputBytes /\ res[q] = x
      /\ \A o \in Requests : most[o] = maxInputBytes
      /\ \A r \in Requests \ {q} : res[r] = maxInputBytes /\ res[r] = most[r]
  BY <1>2
<1>. HIDE DEF most, res, n
<1>4. Total(most, Requests) = n * maxInputBytes
  BY <1>2, <1>3, TotalConstant DEF n
<1>5. Total(res, Requests) = n * maxInputBytes - maxInputBytes + x
  <2>1. Total(res, Requests) = Total(most, Requests) - most[q] + res[q]
    BY <1>2, <1>3, TotalExcept
  <2>. QED
    BY <1>3, <1>4, <2>1
<1>6. Total(Sizes, Docs) + Total(res, Requests) <= Allowed
  <2>1. \A m, k \in Nat : (m - 1) * k = m * k - k /\ m * k \in Nat
    OBVIOUS
  <2>2. (n - 1) * maxInputBytes = n * maxInputBytes - maxInputBytes
        /\ n * maxInputBytes \in Nat
    BY <1>2, <2>1
  <2>. QED
    BY <1>1, <1>2, <1>5, <2>2, BudgetBounds DEF Allowed, n
<1>7. \A d \in Docs : SizeOf(d)' <= Sizes[d]
  <2>1. \A d \in Docs : SizeOf(d)' \in Nat /\ Sizes[d] = SizeOf(d)
    BY SizeTypeNext, Constants DEF Sizes
  <2>. QED
    BY <2>1
<1>8. ASSUME NEW o \in Requests PROVE Reserves(requests'[o], Sizes[requests'[o].doc], res[o])
  <2>1. CASE requests'[o] = None
    BY <2>1 DEF Reserves, Overwrites, Appends, Weighs, IsPutAt
  <2>2. CASE requests'[o] # None
    <3>1. requests'[o].doc \in Docs
      BY <2>2, CallShape DEF Inv, Shapes
    <3>2. Sizes[requests'[o].doc] \in Nat
      BY <1>1, <3>1
    <3>3. CASE o = q
      BY <1>3, <3>2, <3>3
    <3>4. CASE o # q
      <4>1. requests'[o] = requests[o] /\ res[o] = maxInputBytes
        BY <1>3, <3>4
      <4>2. requests[o].op = "put_file" => requests[o].data.size <= maxInputBytes /\ requests[o].data.size \in Nat
        <5>1. requests[o].op = "put_file" => IsPut(requests[o])
          BY <2>2, <4>1, CallShape DEF Inv, Shapes
        <5>2. requests[o].op = "put_file" => requests[o].data.size \in 0 .. MaxSize
          BY <5>1 DEF IsPut, Text
        <5>. QED
          BY <2>2, <4>1, <5>2, Constants DEF Bounds, Measured
      <4>3. ASSUME NEW c \in Nat PROVE Reserves(requests[o], c, maxInputBytes)
        BY <1>2, <4>2 DEF Reserves, Overwrites, Appends, Weighs, IsPutAt
      <4>. QED
        BY <3>2, <4>1, <4>3
    <3>. QED
      BY <3>3, <3>4
  <2>. QED
    BY <2>1, <2>2
<1>9. PICK cap : cap = Sizes
  OBVIOUS
<1>10. Holds(cap, res)'
  BY <1>6, <1>7, <1>8, <1>9 DEF Holds
<1>. QED
  BY <1>1, <1>3, <1>9, <1>10 DEF Reserved

(* A write that grows a document by what was reserved for its call spends  *)
(* the reservation on the document.                                        *)
LEMMA Spend ==
  ASSUME Inv, Inv', Reserved, NEW q \in Requests, NEW e \in Docs, requests[q].doc = e,
         \A d \in Docs \ {e} : SizeOf(d)' = SizeOf(d), requests'[q] = None,
         \A o \in Requests \ {q} : requests'[o] = requests[o],
         \A c, n \in Nat : SizeOf(e) <= c /\ Reserves(requests[q], c, n) => SizeOf(e)' <= c + n
  PROVE  Reserved'
<1>1. PICK cap \in [Docs -> Nat], res \in [Requests -> Nat] : Holds(cap, res)
  BY DEF Reserved
<1>. DEFINE filled == [cap EXCEPT ![e] = cap[e] + res[q]]
            left   == [res EXCEPT ![q] = 0]
<1>2. /\ filled \in [Docs -> Nat] /\ filled[e] = cap[e] + res[q]
      /\ \A d \in Docs \ {e} : filled[d] = cap[d]
      /\ \A d \in Docs : cap[d] <= filled[d]
  OBVIOUS
<1>3. left \in [Requests -> Nat] /\ left[q] = 0 /\ \A o \in Requests \ {q} : left[o] = res[o]
  OBVIOUS
<1>. HIDE DEF filled, left
<1>4. IsFiniteSet(Docs) /\ IsFiniteSet(Requests)
  BY WorkspaceFilesAssumption
<1>5. Total(filled, Docs) = Total(cap, Docs) - cap[e] + filled[e]
  BY <1>2, <1>4, TotalExcept
<1>6. Total(left, Requests) = Total(res, Requests) - res[q] + left[q]
  BY <1>3, <1>4, TotalExcept
<1>7. Total(filled, Docs) + Total(left, Requests) <= Allowed
  <2>1. Total(cap, Docs) \in Nat /\ Total(res, Requests) \in Nat
    BY <1>4, TotalInNat
  <2>2. cap[e] \in Nat /\ res[q] \in Nat /\ Total(cap, Docs) + Total(res, Requests) <= Allowed
    BY <1>1 DEF Holds
  <2>. QED
    BY <1>2, <1>3, <1>5, <1>6, <2>1, <2>2
<1>8. ASSUME NEW d \in Docs PROVE SizeOf(d)' <= filled[d]
  <2>1. SizeOf(d) <= cap[d] /\ cap[d] \in Nat /\ SizeOf(d) \in Nat
    BY <1>1, SizeType, Constants DEF Holds
  <2>2. CASE d = e
    BY <1>1, <1>2, <2>1, <2>2 DEF Holds
  <2>3. CASE d # e
    BY <1>2, <2>1, <2>3
  <2>. QED
    BY <2>2, <2>3
<1>9. ASSUME NEW o \in Requests PROVE Reserves(requests'[o], filled[requests'[o].doc], left[o])
  <2>1. CASE requests'[o] = None
    BY <2>1 DEF Reserves, Overwrites, Appends, Weighs, IsPutAt
  <2>2. CASE requests'[o] # None
    <3>1. o # q /\ requests'[o] = requests[o] /\ left[o] = res[o]
      BY <1>3, <2>2
    <3>2. PICK d \in Docs : d = requests[o].doc
      BY <2>2, <3>1, CallShape DEF Inv, Shapes
    <3>3. Reserves(requests[o], cap[d], res[o]) /\ cap[d] \in Nat /\ res[o] \in Nat
      BY <1>1, <3>2 DEF Holds
    <3>4. Overwrites(requests[o]) => requests[o].data.size \in Nat
      <4>1. Overwrites(requests[o]) => IsPut(requests[o])
        BY <2>2, <3>1, CallShape DEF Inv, Shapes, Overwrites, IsPutAt
      <4>. QED
        BY <4>1, Constants DEF IsPut, Text
    <3>5. cap[d] <= filled[d] /\ filled[d] \in Nat
      BY <1>2
    <3>6. Reserves(requests[o], filled[d], res[o])
      BY <3>3, <3>4, <3>5 DEF Reserves
    <3>. QED
      BY <3>1, <3>2, <3>6
  <2>. QED
    BY <2>1, <2>2
<1>10. Holds(filled, left)'
  BY <1>7, <1>8, <1>9 DEF Holds
<1>. QED
  BY <1>2, <1>3, <1>10 DEF Reserved
-----------------------------------------------------------------------------
(* The steps.                                                              *)

(* A call as put_file keeps it.                                            *)
LEMMA PutShape ==
  ASSUME Inv, NEW q \in Requests, requests[q] # None, requests[q].op = "put_file"
  PROVE  /\ IsPut(requests[q]) /\ requests[q].doc \in Docs /\ requests[q].append \in BOOLEAN
         /\ requests[q].data \in Text /\ requests[q].data.size \in Nat
<1>1. IsPut(requests[q])
  BY CallShape DEF Inv, Shapes
<1>. QED
  BY <1>1, Constants DEF IsPut, Text

(* A step that sets one call, and no more of the bounds.                   *)
LEMMA SetBounds ==
  ASSUME Inv, Bounds, NEW q \in Requests, NEW r, IsCall(r), Measured(r),
         requests' = [requests EXCEPT ![q] = r], UNCHANGED <<clock, override>>,
         faults' <= MaxFaults
  PROVE  Bounds'
<1>1. requests'[q] = r /\ \A o \in Requests \ {q} : requests'[o] = requests[o]
  BY SetCall DEF Inv
<1>2. \A o \in Requests : Measured(requests'[o])
  BY <1>1 DEF Bounds
<1>3. requests' = [o \in Requests |-> requests'[o]]
  BY DEF Inv, Shapes
<1>. QED
  BY <1>2, <1>3 DEF Bounds, Forms

(* A step that sets one call, which grows no document.                     *)
LEMMA SetBudget ==
  ASSUME Inv, Inv', BudgetInv, NEW q \in Requests, NEW r, IsCall(r), Measured(r),
         requests' = [requests EXCEPT ![q] = r], UNCHANGED <<clock, override>>,
         faults' <= MaxFaults, \A d \in Docs : SizeOf(d)' <= SizeOf(d),
         Limited => \/ ~Grows(r)
                    \/ /\ requests[q] # None /\ r.doc = requests[q].doc
                       /\ \A c, n \in Nat :
                            SizeOf(requests[q].doc) <= c /\ Reserves(requests[q], c, n)
                              => Reserves(r, c, n)
  PROVE  BudgetInv'
<1>1. requests'[q] = r /\ \A o \in Requests \ {q} : requests'[o] = requests[o]
  BY SetCall DEF Inv
<1>2. Bounds'
  BY SetBounds DEF BudgetInv
<1>3. ASSUME Limited PROVE Reserved'
  <2>1. \A o \in Requests : Grows(requests'[o]) =>
           /\ requests[o] # None /\ requests'[o].doc = requests[o].doc
           /\ \A c, n \in Nat :
                SizeOf(requests[o].doc) <= c /\ Reserves(requests[o], c, n)
                  => Reserves(requests'[o], c, n)
    BY <1>1, <1>3 DEF Grows, Overwrites, Appends, Weighs, IsPutAt
  <2>2. Reserved
    BY <1>3 DEF BudgetInv
  <2>. QED
    BY <2>1, <2>2, NoGrowth
<1>4. Limited' = Limited
  BY DEF Limited
<1>. QED
  BY <1>2, <1>3, <1>4 DEF BudgetInv

(* A step that leaves the documents alone and ends a call, or sets one     *)
(* that writes nothing.                                                    *)
LEMMA SetOther ==
  ASSUME Inv, Inv', BudgetInv, NEW q \in Requests, NEW r, IsCall(r),
         r = None \/ r.op # "put_file",
         requests' = [requests EXCEPT ![q] = r], UNCHANGED <<clock, docs, override>>,
         faults' <= MaxFaults
  PROVE  BudgetInv'
<1>1. Measured(r) /\ ~Grows(r)
  BY DEF Measured, Grows, Overwrites, Appends, Weighs, IsPutAt
<1>2. \A d \in Docs : SizeOf(d)' = SizeOf(d) /\ SizeOf(d) \in Nat
  BY SizeType, Constants DEF SizeOf
<1>3. \A d \in Docs : SizeOf(d)' <= SizeOf(d)
  BY <1>2
<1>. QED
  BY <1>1, <1>3, SetBudget

(* BeginPut: where no budget is 0, the call adds the workspace up first.   *)
LEMMA BeginPutBudget ==
  ASSUME Inv, Inv', BudgetInv, NEW q \in Requests, BeginPut(q)
  PROVE  BudgetInv'
<1>1. PICK d \in Docs, append \in BOOLEAN, data \in Text,
           b \in {EffectiveWorkspaceBudget, workspaceBudgetBytes} :
        /\ data.size \in 1 .. maxInputBytes
        /\ requests' = [requests EXCEPT ![q] =
            [op |-> "put_file", at |-> IF b > 0 THEN "usage" ELSE "write",
             doc |-> d, append |-> append, data |-> data, budget |-> b, used |-> 0]]
  BY DEF BeginPut
<1>. DEFINE r == [op |-> "put_file", at |-> IF b > 0 THEN "usage" ELSE "write",
                  doc |-> d, append |-> append, data |-> data, budget |-> b, used |-> 0]
<1>2. UNCHANGED <<clock, docs, override, faults>> /\ faults <= MaxFaults
  BY DEF BeginPut, BudgetInv, Bounds
<1>3. b \in Budgets \cup {workspaceBudgetBytes} /\ b \in Nat /\ b <= LargestBudget
  <2>1. b \in Budgets \cup {workspaceBudgetBytes}
    BY DEF EffectiveWorkspaceBudget, BudgetInv, Bounds, Forms
  <2>. QED
    BY <2>1, BudgetBounds
<1>4. IsCall(r) /\ Measured(r)
  <2>1. maxInputBytes \in Nat
    BY WorkspaceFilesAssumption
  <2>. QED
    BY <1>1, <1>3, <2>1 DEF IsCall, IsPut, Measured
<1>5. ASSUME Limited PROVE ~Grows(r)
  <2>1. b > 0
    BY <1>3, <1>5 DEF Limited
  <2>. QED
    BY <2>1 DEF Grows, Overwrites, Appends, Weighs, IsPutAt
<1>6. \A d1 \in Docs : SizeOf(d1)' <= SizeOf(d1)
  <2>1. \A d1 \in Docs : SizeOf(d1)' = SizeOf(d1) /\ SizeOf(d1) \in Nat
    BY <1>2, SizeType, Constants DEF SizeOf
  <2>. QED
    BY <2>1
<1>. HIDE DEF r
<1>7. requests' = [requests EXCEPT ![q] = r]
  BY <1>1 DEF r
<1>. QED
  BY <1>2, <1>4, <1>5, <1>6, <1>7, SetBudget

(* What Decide sets of a call that it admits.                              *)
LEMMA Admitted ==
  ASSUME Inv, NEW q \in Requests, requests[q] # None, requests[q].op = "put_file",
         requests' = [requests EXCEPT ![q].at = "write", ![q].budget = 0, ![q].used = 0],
         Bounds
  PROVE  \E r : /\ requests' = [requests EXCEPT ![q] = r]
                /\ IsCall(r) /\ Measured(r) /\ r # None
                /\ r.op = "put_file" /\ r.at = "write" /\ r.doc = requests[q].doc
                /\ r.append = requests[q].append /\ r.data = requests[q].data
<1>. DEFINE r == [requests[q] EXCEPT !.at = "write", !.budget = 0, !.used = 0]
<1>1. requests' = [requests EXCEPT ![q] = r]
  BY DEF Inv, Shapes
<1>2. IsPut(requests[q])
  BY PutShape
<1>3. IsPut(r)
  BY <1>2, PutExcept
<1>4. /\ r.op = "put_file" /\ r.at = "write" /\ r.doc = requests[q].doc
      /\ r.append = requests[q].append /\ r.data = requests[q].data
      /\ r.budget = 0 /\ r.used = 0
  BY <1>2 DEF IsPut
<1>. HIDE DEF r
<1>5. r # None
  <2>1. r.budget \in Nat /\ r.used \in Nat
    BY <1>4
  <2>2. r \in Put
    BY <1>3, <2>1 DEF IsPut, Put
  <2>. QED
    BY <2>2, WorkspaceFilesAssumption
<1>6. Measured(r)
  BY <1>4 DEF Measured, Bounds
<1>. QED
  BY <1>1, <1>3, <1>4, <1>5, <1>6 DEF IsCall
(* MeasureUsage: an admitted append has its own size reserved, beside one  *)
(* put_file for each of the others; and an overwrite what the budget has   *)
(* left, if it has.                                                        *)
LEMMA MeasureUsageBudget ==
  ASSUME Inv, Inv', BudgetInv, NEW q \in Requests, MeasureUsage(q)
  PROVE  BudgetInv'
<1>1. /\ requests[q] # None /\ requests[q].op = "put_file" /\ requests[q].at = "usage"
      /\ UNCHANGED <<clock, docs, previews, override, faults>> /\ Bounds
      /\ faults' <= MaxFaults /\ Limited' = Limited
  BY DEF MeasureUsage, Is, BudgetInv, Bounds, Limited
<1>2. /\ IsPut(requests[q]) /\ requests[q].append \in BOOLEAN
      /\ requests[q].data.size \in Nat /\ requests[q].data.size <= maxInputBytes
      /\ requests[q].budget \in Nat /\ requests[q].budget <= LargestBudget
      /\ requests[q].doc \in Docs
  BY <1>1, PutShape DEF Bounds, Measured
<1>3. Usage \in Nat /\ Sources \in Nat /\ Sources <= Usage /\ LargestBudget \in Nat
  BY UsageBounds, BudgetBounds
<1>4. \A d \in Docs : SizeOf(d)' = SizeOf(d) /\ SizeOf(d) \in Nat /\ SizeOf(d)' <= SizeOf(d)
  BY <1>1, SizeType, Constants DEF SizeOf
<1>5. CASE requests[q].append /\ ~Fits(q, Usage + requests[q].data.size)
  <2>1. requests' = [requests EXCEPT ![q] = None]
    BY <1>5 DEF MeasureUsage, Decide, Return
  <2>. QED
    BY <1>1, <2>1, SetOther DEF IsCall
<1>6. CASE requests[q].append /\ Fits(q, Usage + requests[q].data.size)
  <2>. DEFINE x == requests[q].data.size
  <2>1. requests' = [requests EXCEPT ![q].at = "write", ![q].budget = 0, ![q].used = 0]
    BY <1>6 DEF MeasureUsage, Decide
  <2>2. PICK r : /\ requests' = [requests EXCEPT ![q] = r]
                 /\ IsCall(r) /\ Measured(r)
                 /\ r.op = "put_file" /\ r.at = "write"
                 /\ r.append = requests[q].append /\ r.data = requests[q].data
    BY <1>1, <2>1, Admitted
  <2>3. requests'[q] = r /\ \A o \in Requests \ {q} : requests'[o] = requests[o]
    BY <2>2, SetCall DEF Inv
  <2>4. x \in Nat /\ Sources + x <= LargestBudget
    BY <1>2, <1>3, <1>6 DEF Fits
  <2>5. \A c \in Nat : Reserves(requests'[q], c, x)
    BY <1>2, <1>6, <2>2, <2>3 DEF Reserves, Overwrites, Appends, Weighs, IsPutAt
  <2>. HIDE DEF x
  <2>6. Reserved'
    BY <1>1, <1>4, <2>3, <2>4, <2>5, NewReservation
  <2>7. Bounds'
    BY <1>1, <2>2, SetBounds
  <2>. QED
    BY <2>6, <2>7 DEF BudgetInv
<1>7. CASE ~requests[q].append
  <2>. DEFINE r == [requests[q] EXCEPT !.at = "existing", !.used = Usage]
  <2>1. requests' = [requests EXCEPT ![q] = r]
    BY <1>7 DEF MeasureUsage, Inv, Shapes
  <2>2. /\ IsPut(r) /\ r.op = "put_file" /\ r.at = "existing" /\ r.used = Usage
        /\ r.append = requests[q].append /\ r.data = requests[q].data
        /\ r.budget = requests[q].budget /\ r.doc = requests[q].doc
    <3>1. IsPut(r)
      BY <1>2, PutExcept
    <3>. QED
      BY <1>2, <3>1 DEF IsPut
  <2>. HIDE DEF r
  <2>3. IsCall(r) /\ Measured(r)
    BY <1>2, <1>3, <1>7, <2>2 DEF IsCall, Measured
  <2>4. CASE LargestBudget <= Usage
    <3>1. \A c, n \in Nat : Reserves(r, c, n)
      BY <1>3, <2>2, <2>4 DEF Reserves, Overwrites, Appends, Weighs, IsPutAt
    <3>. QED
      BY <1>1, <1>4, <2>1, <2>2, <2>3, <3>1, SetBudget
  <2>5. CASE ~(LargestBudget <= Usage)
    <3>. DEFINE x == LargestBudget - Usage
    <3>1. x \in Nat /\ Sources + x <= LargestBudget /\ LargestBudget <= Usage + x
      BY <1>3, <2>5
    <3>2. requests'[q] = r /\ \A o \in Requests \ {q} : requests'[o] = requests[o]
      BY <2>1, <2>3, SetCall DEF Inv
    <3>3. \A c \in Nat : Reserves(requests'[q], c, x)
      BY <2>2, <3>1, <3>2 DEF Reserves, Overwrites, Appends, Weighs, IsPutAt
    <3>. HIDE DEF x
    <3>4. Reserved'
      BY <1>1, <1>4, <3>1, <3>2, <3>3, NewReservation
    <3>5. Bounds'
      BY <1>1, <2>1, <2>3, SetBounds
    <3>. QED
      BY <3>4, <3>5 DEF BudgetInv
  <2>. QED
    BY <2>4, <2>5
<1>. QED
  BY <1>5, <1>6, <1>7, <1>2

(* MeasureExisting: what the call writes over is no larger than what the   *)
(* document may hold, so that its reservation covers what it adds.         *)
LEMMA MeasureExistingBudget ==
  ASSUME Inv, Inv', BudgetInv, NEW q \in Requests, MeasureExisting(q)
  PROVE  BudgetInv'
<1>. DEFINE old == SizeOf(requests[q].doc)
            p   == requests[q].used - old + requests[q].data.size
<1>1. /\ requests[q] # None /\ requests[q].op = "put_file" /\ requests[q].at = "existing"
      /\ UNCHANGED <<clock, docs, previews, override, faults>> /\ Bounds
      /\ faults' <= MaxFaults
  BY DEF MeasureExisting, Is, BudgetInv, Bounds
<1>2. /\ IsPut(requests[q]) /\ ~requests[q].append
      /\ requests[q].data.size \in Nat
      /\ requests[q].budget \in Nat /\ requests[q].budget <= LargestBudget
      /\ requests[q].used \in Nat /\ requests[q].doc \in Docs
  BY <1>1, PutShape DEF Bounds, Measured
<1>3. LargestBudget \in Nat /\ old \in Nat
  BY <1>2, BudgetBounds, SizeType, Constants
<1>4. \A d \in Docs : SizeOf(d)' <= SizeOf(d)
  <2>1. \A d \in Docs : SizeOf(d)' = SizeOf(d) /\ SizeOf(d) \in Nat
    BY <1>1, SizeType, Constants DEF SizeOf
  <2>. QED
    BY <2>1
<1>5. CASE ~Fits(q, p)
  <2>1. requests' = [requests EXCEPT ![q] = None]
    BY <1>5 DEF MeasureExisting, Decide, Return
  <2>. QED
    BY <1>1, <2>1, SetOther DEF IsCall
<1>6. CASE Fits(q, p)
  <2>1. requests' = [requests EXCEPT ![q].at = "write", ![q].budget = 0, ![q].used = 0]
    BY <1>6 DEF MeasureExisting, Decide
  <2>2. PICK r : /\ requests' = [requests EXCEPT ![q] = r]
                 /\ IsCall(r) /\ Measured(r) /\ r.doc = requests[q].doc
                 /\ r.op = "put_file" /\ r.at = "write"
                 /\ r.append = requests[q].append /\ r.data = requests[q].data
    BY <1>1, <2>1, Admitted
  <2>3. requests[q].data.size <= LargestBudget - requests[q].used + old
    BY <1>2, <1>3, <1>6 DEF Fits
  <2>4. ASSUME NEW c \in Nat, NEW n \in Nat, old <= c, Reserves(requests[q], c, n)
        PROVE  Reserves(r, c, n)
    <3>1. requests[q].data.size <= n \/ LargestBudget <= requests[q].used + n
      BY <1>1, <2>4 DEF Reserves, Weighs, IsPutAt
    <3>2. requests[q].data.size <= c + n
      <4>. HIDE DEF old
      <4>. QED
        BY <1>2, <1>3, <2>3, <2>4, <3>1
    <3>. QED
      BY <1>2, <2>2, <3>2 DEF Reserves, Appends, Weighs, IsPutAt
  <2>. QED
    BY <1>1, <1>4, <2>2, <2>4, SetBudget
<1>. QED
  BY <1>5, <1>6

(* The sizes after a write.                                                *)
LEMMA WrittenSize ==
  ASSUME Inv, NEW e \in Docs, NEW text \in Text, docs' = [docs EXCEPT ![e] = Written(e, text)]
  PROVE  SizeOf(e)' = text.size /\ \A d \in Docs \ {e} : SizeOf(d)' = SizeOf(d)
<1>. DEFINE w == Written(e, text)
<1>1. w.text = text /\ w \in File
  BY DEF Written, File, Inv, Shapes
<1>2. docs'[e] = w /\ \A d \in Docs \ {e} : docs'[d] = docs[d]
  BY DEF Inv, Shapes
<1>. HIDE DEF w
<1>. QED
  BY <1>1, <1>2, Constants DEF SizeOf

(* A write that ends its call, and grows the document by no more than what *)
(* was reserved.                                                           *)
LEMMA WriteBudget ==
  ASSUME Inv, Inv', BudgetInv, NEW q \in Requests, requests[q] # None,
         requests' = [requests EXCEPT ![q] = None], UNCHANGED <<clock, override, faults>>,
         NEW e \in Docs, e = requests[q].doc, NEW text \in Text,
         docs' = [docs EXCEPT ![e] = Written(e, text)],
         \A c, n \in Nat : SizeOf(e) <= c /\ Reserves(requests[q], c, n) => text.size <= c + n
  PROVE  BudgetInv'
<1>1. requests'[q] = None /\ \A o \in Requests \ {q} : requests'[o] = requests[o]
  BY SetCall DEF Inv, IsCall
<1>2. Bounds'
  BY SetBounds DEF IsCall, Measured, BudgetInv, Bounds
<1>3. ASSUME Limited PROVE Reserved'
  <2>1. SizeOf(e)' = text.size /\ \A d \in Docs \ {e} : SizeOf(d)' = SizeOf(d)
    BY WrittenSize
  <2>2. Reserved
    BY <1>3 DEF BudgetInv
  <2>. QED
    BY <1>1, <2>1, <2>2, Spend
<1>4. Limited' = Limited
  BY DEF Limited
<1>. QED
  BY <1>2, <1>3, <1>4 DEF BudgetInv

(* AppendFile and WriteFile spend what was reserved.                       *)
LEMMA AppendFileBudget ==
  ASSUME Inv, Inv', BudgetInv, NEW q \in Requests, AppendFile(q)
  PROVE  BudgetInv'
<1>1. /\ requests[q] # None /\ requests[q].op = "put_file" /\ requests[q].at = "write"
      /\ requests[q].append /\ requests' = [requests EXCEPT ![q] = None]
      /\ UNCHANGED <<clock, override, faults>>
  BY DEF AppendFile, Is, Return
<1>2. PICK e \in Docs : e = requests[q].doc
  BY <1>1, PutShape
<1>. DEFINE text == [draft |-> requests[q].data.draft, size |-> SizeOf(e) + requests[q].data.size]
<1>3. docs' = [docs EXCEPT ![e] = Written(e, text)] /\ text.size <= MaxSize
  BY <1>2 DEF AppendFile
<1>4. /\ SizeOf(e) \in Nat /\ requests[q].data.size \in Nat /\ requests[q].data.draft \in Drafts
  BY <1>1, PutShape, SizeType, Constants DEF Text
<1>5. text \in Text /\ text.size = SizeOf(e) + requests[q].data.size
  BY <1>3, <1>4, Constants DEF Text
<1>. HIDE DEF text
<1>6. \A c, n \in Nat : SizeOf(e) <= c /\ Reserves(requests[q], c, n) => text.size <= c + n
  BY <1>1, <1>4, <1>5 DEF Reserves, Appends, IsPutAt
<1>. QED
  BY <1>1, <1>2, <1>3, <1>5, <1>6, WriteBudget

(* WriteFile writes over what is there.                                    *)
LEMMA WriteFileBudget ==
  ASSUME Inv, Inv', BudgetInv, NEW q \in Requests, WriteFile(q)
  PROVE  BudgetInv'
<1>1. /\ requests[q] # None /\ requests[q].op = "put_file" /\ requests[q].at = "truncated"
      /\ requests' = [requests EXCEPT ![q] = None]
      /\ UNCHANGED <<clock, override, faults>>
  BY DEF WriteFile, Is, Return
<1>2. PICK e \in Docs : e = requests[q].doc
  BY <1>1, PutShape
<1>. DEFINE size == Max({requests[q].data.size, SizeOf(e)})
            text == [draft |-> requests[q].data.draft, size |-> size]
<1>3. docs' = [docs EXCEPT ![e] = Written(e, text)]
  BY <1>2 DEF WriteFile
<1>4. /\ SizeOf(e) \in 0 .. MaxSize /\ requests[q].data.size \in 0 .. MaxSize
      /\ requests[q].data.draft \in Drafts /\ SizeOf(e) \in Nat /\ requests[q].data.size \in Nat
  BY <1>1, PutShape, SizeType, Constants DEF Text
<1>5. size \in {requests[q].data.size, SizeOf(e)}
  BY <1>4, LargerOf
<1>6. text \in Text /\ text.size = size
  BY <1>4, <1>5 DEF Text
<1>. HIDE DEF size, text
<1>7. \A c, n \in Nat : SizeOf(e) <= c /\ Reserves(requests[q], c, n) => text.size <= c + n
  <2>. SUFFICES ASSUME NEW c \in Nat, NEW n \in Nat, SizeOf(e) <= c, Reserves(requests[q], c, n)
                PROVE  size <= c + n
    BY <1>6
  <2>1. ~requests[q].append
    BY <1>1 DEF BudgetInv, Bounds, Measured
  <2>. QED
    BY <1>1, <1>4, <1>5, <2>1 DEF Reserves, Overwrites, IsPutAt
<1>. QED
  BY <1>1, <1>2, <1>3, <1>6, <1>7, WriteBudget
(* Truncate keeps the call's reservation.                                  *)
LEMMA TruncateBudget ==
  ASSUME Inv, Inv', BudgetInv, NEW q \in Requests, Truncate(q)
  PROVE  BudgetInv'
<1>. DEFINE text == [draft |-> requests[q].data.draft, size |-> 0]
            r    == [requests[q] EXCEPT !.at = "truncated"]
<1>1. /\ requests[q] # None /\ requests[q].op = "put_file" /\ requests[q].at = "write"
      /\ ~requests[q].append /\ UNCHANGED <<clock, override, faults>>
      /\ faults' <= MaxFaults
  BY DEF Truncate, Is, BudgetInv, Bounds
<1>2. PICK e \in Docs : e = requests[q].doc
  BY <1>1, PutShape
<1>3. docs' = [docs EXCEPT ![e] = Written(e, text)]
  BY <1>2 DEF Truncate
<1>4. text \in Text /\ text.size = 0
  BY <1>1, PutShape, Constants DEF Text
<1>5. IsPut(requests[q]) /\ Measured(requests[q])
  BY <1>1, PutShape DEF BudgetInv, Bounds
<1>6. /\ IsPut(r) /\ r.op = "put_file" /\ r.at = "truncated" /\ r.doc = requests[q].doc
      /\ r.append = requests[q].append /\ r.data = requests[q].data
      /\ r.budget = requests[q].budget /\ r.used = requests[q].used
  <2>1. IsPut(r)
    BY <1>5, PutExcept
  <2>. QED
    BY <1>5, <2>1 DEF IsPut
<1>7. requests' = [requests EXCEPT ![q] = r]
  BY DEF Truncate, GoTo, Inv, Shapes
<1>. HIDE DEF text, r
<1>8. IsCall(r) /\ Measured(r)
  BY <1>1, <1>5, <1>6 DEF IsCall, Measured
<1>9. \A d \in Docs : SizeOf(d)' <= SizeOf(d)
  <2>1. SizeOf(e)' = 0 /\ \A d \in Docs \ {e} : SizeOf(d)' = SizeOf(d)
    BY <1>3, <1>4, WrittenSize
  <2>2. \A d \in Docs : SizeOf(d) \in Nat
    BY SizeType, Constants
  <2>. QED
    BY <2>1, <2>2
<1>10. \A c, n \in Nat : Reserves(requests[q], c, n) => Reserves(r, c, n)
  BY <1>1, <1>6 DEF Reserves, Overwrites, Appends, Weighs, IsPutAt
<1>. QED
  BY <1>1, <1>6, <1>7, <1>8, <1>9, <1>10, SetBudget

(* RemoveFile grows no document, and takes the document away from the      *)
(* calls that have truncated it.                                           *)
LEMMA RemoveFileBudget ==
  ASSUME Inv, Inv', BudgetInv, NEW q \in Requests, RemoveFile(q)
  PROVE  BudgetInv'
<1>1. requests[q] # None /\ requests[q].op = "delete_file"
      /\ UNCHANGED <<clock, previews, override, faults>> /\ faults' <= MaxFaults
      /\ Limited' = Limited
  BY DEF RemoveFile, Is, BudgetInv, Bounds, Limited
<1>2. PICK d \in Docs : d = requests[q].doc
  BY <1>1, CallShape DEF Inv, Shapes
<1>3. CASE docs[d] = None
  <2>1. requests' = [requests EXCEPT ![q] = None] /\ UNCHANGED docs
    BY <1>2, <1>3 DEF RemoveFile, Return
  <2>. QED
    BY <1>1, <2>1, SetOther DEF IsCall
<1>4. CASE docs[d] # None
  <2>1. /\ docs' = [docs EXCEPT ![d] = None]
        /\ requests' = [r \in Requests |->
             IF r = q THEN [requests[q] EXCEPT !.at = "previews"] ELSE Unlink(requests[r], d)]
    BY <1>2, <1>4 DEF RemoveFile
  <2>2. ASSUME NEW o \in Requests
        PROVE  /\ Measured(requests'[o])
               /\ Grows(requests'[o]) => requests'[o] = requests[o] /\ requests[o] # None
    <3>1. CASE o = q
      <4>1. requests'[o] = [requests[q] EXCEPT !.at = "previews"] /\ requests[q] \in Delete
        BY <1>1, <2>1, <3>1, CallShape DEF Inv, Shapes
      <4>2. requests'[o].op = "delete_file"
        BY <4>1 DEF Delete
      <4>. QED
        BY <4>2 DEF Measured, Grows, Overwrites, Appends, Weighs, IsPutAt
    <3>2. CASE o # q /\ requests[o] # None /\ requests[o].op = "put_file"
                 /\ requests[o].doc = d /\ requests[o].at = "truncated"
      <4>1. requests'[o] = [requests[o] EXCEPT !.at = "unlinked"] /\ IsPut(requests[o])
            /\ Measured(requests[o])
        BY <2>1, <3>2, PutShape DEF Unlink, BudgetInv, Bounds
      <4>2. /\ requests'[o].op = "put_file" /\ requests'[o].at = "unlinked"
            /\ requests'[o].data = requests[o].data /\ requests'[o].budget = requests[o].budget
            /\ requests'[o].used = requests[o].used
        BY <4>1 DEF IsPut
      <4>3. Measured(requests'[o])
        BY <3>2, <4>1, <4>2 DEF Measured
      <4>4. ~Grows(requests'[o])
        BY <4>2 DEF Grows, Overwrites, Appends, Weighs, IsPutAt
      <4>. QED
        BY <4>3, <4>4
    <3>3. CASE o # q /\ ~(requests[o] # None /\ requests[o].op = "put_file"
                 /\ requests[o].doc = d /\ requests[o].at = "truncated")
      <4>1. requests'[o] = requests[o] /\ Measured(requests[o])
        BY <2>1, <3>3 DEF Unlink, BudgetInv, Bounds
      <4>. QED
        BY <4>1 DEF Grows, Overwrites, Appends, Weighs, IsPutAt
    <3>. QED
      BY <3>1, <3>2, <3>3
  <2>3. Bounds'
    <3>1. requests' = [o \in Requests |-> requests'[o]]
      BY <2>1
    <3>. QED
      BY <1>1, <2>2, <3>1 DEF BudgetInv, Bounds, Forms
  <2>4. \A e \in Docs : SizeOf(e)' <= SizeOf(e)
    <3>1. docs'[d] = None /\ \A e \in Docs \ {d} : docs'[e] = docs[e]
      BY <2>1 DEF Inv, Shapes
    <3>2. SizeOf(d)' = 0 /\ \A e \in Docs \ {d} : SizeOf(e)' = SizeOf(e)
      BY <3>1 DEF SizeOf
    <3>3. \A e \in Docs : SizeOf(e) \in Nat
      BY SizeType, Constants
    <3>. QED
      BY <3>2, <3>3
  <2>5. ASSUME Limited PROVE Reserved'
    <3>1. \A o \in Requests : Grows(requests'[o]) =>
            /\ requests[o] # None /\ requests'[o].doc = requests[o].doc
            /\ \A c, n \in Nat :
                 SizeOf(requests[o].doc) <= c /\ Reserves(requests[o], c, n)
                   => Reserves(requests'[o], c, n)
      BY <2>2
    <3>2. Reserved
      BY <2>5 DEF BudgetInv
    <3>. QED
      BY <2>4, <3>1, <3>2, NoGrowth
  <2>. QED
    BY <1>1, <2>3, <2>5 DEF BudgetInv
<1>. QED
  BY <1>3, <1>4

(* The reads, the rest of delete_file, and a put_file whose file is gone:  *)
(* they write no document.                                                 *)
LEMMA OtherCallsBudget ==
  ASSUME Inv, Inv', BudgetInv, NEW q \in Requests,
         \/ BeginRead(q) \/ BeginDelete(q) \/ CutShort(q)
         \/ WriteUnlinked(q) \/ LookAtPages(q) \/ ClearPages(q) \/ MakePageDir(q)
         \/ Preprocess(q) \/ DrawPage(q) \/ AnswerPage(q) \/ RemovePreviewDir(q)
  PROVE  BudgetInv'
<1>1. UNCHANGED <<clock, docs, override>>
  BY DEF BeginRead, BeginDelete, CutShort, WriteUnlinked, LookAtPages, ClearPages, MakePageDir,
         Preprocess, DrawPage, AnswerPage, RemovePreviewDir
<1>2. faults' <= MaxFaults
  <2>1. faults \in Nat /\ faults <= MaxFaults /\ MaxFaults \in Nat
    BY WorkspaceFilesAssumption DEF Inv, Shapes, BudgetInv, Bounds
  <2>. QED
    BY <2>1 DEF BeginRead, BeginDelete, CutShort, WriteUnlinked, LookAtPages, ClearPages,
         MakePageDir, Preprocess, DrawPage, AnswerPage, RemovePreviewDir
<1>3. DOMAIN requests = Requests /\ (Is(q, "read_page", requests[q].at) => requests[q] \in Read)
  BY CallShape DEF Inv, Shapes, Is
<1>4. /\ \A o \in Requests \ {q} : requests'[o] = requests[o]
      /\ requests'[q] = None \/ requests'[q].op # "put_file"
  <2>1. CASE BeginRead(q)
    BY <1>3, <2>1 DEF BeginRead
  <2>2. CASE BeginDelete(q)
    BY <1>3, <2>2 DEF BeginDelete
  <2>3. CASE CutShort(q) \/ WriteUnlinked(q) \/ AnswerPage(q) \/ RemovePreviewDir(q)
    BY <1>3, <2>3 DEF CutShort, WriteUnlinked, AnswerPage, RemovePreviewDir, Return
  <2>4. CASE LookAtPages(q) \/ Preprocess(q)
    BY <1>3, <2>4 DEF LookAtPages, Preprocess, Return, Is, Read
  <2>5. CASE ClearPages(q) \/ MakePageDir(q)
    BY <1>3, <2>5 DEF ClearPages, MakePageDir, GoTo, Is, Read
  <2>6. CASE DrawPage(q)
    BY <1>3, <2>6 DEF DrawPage, Return, Is, Read
  <2>. QED
    BY <2>1, <2>2, <2>3, <2>4, <2>5, <2>6
<1>5. Bounds'
  <2>1. requests' = [o \in Requests |-> requests'[o]]
    BY <1>3 DEF BeginRead, BeginDelete, CutShort, WriteUnlinked, LookAtPages, ClearPages, MakePageDir,
         Preprocess, DrawPage, AnswerPage, RemovePreviewDir, Return, GoTo
  <2>. QED
    BY <1>1, <1>2, <1>4, <2>1 DEF BudgetInv, Bounds, Measured, Forms
<1>6. ASSUME Limited PROVE Reserved'
  <2>1. \A o \in Requests : Grows(requests'[o]) =>
          /\ requests[o] # None /\ requests'[o].doc = requests[o].doc
          /\ \A c, n \in Nat :
               SizeOf(requests[o].doc) <= c /\ Reserves(requests[o], c, n)
                 => Reserves(requests'[o], c, n)
    BY <1>4 DEF Grows, Overwrites, Appends, Weighs, IsPutAt
  <2>2. \A d \in Docs : SizeOf(d)' = SizeOf(d) /\ SizeOf(d) \in Nat
    BY <1>1, SizeType, Constants DEF SizeOf
  <2>3. \A d \in Docs : SizeOf(d)' <= SizeOf(d)
    BY <2>2
  <2>4. Reserved
    BY <1>6 DEF BudgetInv
  <2>. QED
    BY <2>1, <2>3, <2>4, NoGrowth
<1>7. Limited' = Limited
  BY DEF Limited
<1>. QED
  BY <1>5, <1>6, <1>7 DEF BudgetInv

(* The administrator and the clock.                                        *)
LEMMA QuietBudget ==
  ASSUME Inv, Inv', BudgetInv, UNCHANGED <<docs, requests, faults>>,
         override' \in Forms, clock' <= MaxClock
  PROVE  BudgetInv'
<1>1. Bounds'
  BY DEF BudgetInv, Bounds, Forms
<1>2. ASSUME Limited PROVE Reserved'
  <2>1. \A d \in Docs : SizeOf(d)' = SizeOf(d)
    BY DEF SizeOf
  <2>. QED
    BY <1>2, <2>1 DEF BudgetInv, Reserved, Holds
<1>3. Limited' = Limited
  BY DEF Limited
<1>. QED
  BY <1>1, <1>2, <1>3 DEF BudgetInv

(* An empty workspace has nothing to reserve.                              *)
LEMMA InitBudget == Init => BudgetInv
<1>. SUFFICES ASSUME Init PROVE BudgetInv
  OBVIOUS
<1>1. Bounds
  BY WorkspaceFilesAssumption DEF Init, Bounds, Forms, Measured
<1>2. Reserved
  <2>. DEFINE cap == [d \in Docs |-> 0]
              res == [q \in Requests |-> 0]
  <2>1. cap \in [Docs -> Nat] /\ res \in [Requests -> Nat]
        /\ (\A d \in Docs : cap[d] = 0) /\ \A q \in Requests : res[q] = 0
    OBVIOUS
  <2>. HIDE DEF cap, res
  <2>2. Total(cap, Docs) = Cardinality(Docs) * 0 /\ Total(res, Requests) = Cardinality(Requests) * 0
    BY <2>1, WorkspaceFilesAssumption, TotalConstant
  <2>3. Cardinality(Docs) \in Nat /\ Cardinality(Requests) \in Nat
    BY WorkspaceFilesAssumption, FS_CardinalityType
  <2>4. Total(cap, Docs) = 0 /\ Total(res, Requests) = 0
    BY <2>2, <2>3
  <2>5. \A d \in Docs : SizeOf(d) = 0
    BY DEF Init, SizeOf
  <2>6. \A q \in Requests : requests[q] = None
    BY DEF Init
  <2>7. Holds(cap, res)
    BY <2>1, <2>4, <2>5, <2>6, AllowedType
       DEF Holds, Reserves, Overwrites, Appends, Weighs, IsPutAt
  <2>. QED
    BY <2>1, <2>7 DEF Reserved
<1>. QED
  BY <1>1, <1>2 DEF BudgetInv

(* Every step keeps it.                                                    *)
LEMMA StepBudget == ASSUME Inv, Inv', BudgetInv, [Next]_vars PROVE BudgetInv'
<1>1. ASSUME NEW q \in Requests, BeginPut(q) PROVE BudgetInv'
  BY <1>1, BeginPutBudget
<1>2. ASSUME NEW q \in Requests, BeginRead(q) \/ BeginDelete(q) \/ CutShort(q) PROVE BudgetInv'
  BY <1>2, OtherCallsBudget
<1>3. ASSUME NEW q \in Requests, Step(q) PROVE BudgetInv'
  BY <1>3, MeasureUsageBudget, MeasureExistingBudget, AppendFileBudget, TruncateBudget,
     WriteFileBudget, RemoveFileBudget, OtherCallsBudget DEF Step
<1>4. clock \in Nat /\ clock <= MaxClock /\ MaxClock \in Nat /\ override \in Forms
  BY WorkspaceFilesAssumption DEF Inv, Shapes, BudgetInv, Bounds
<1>5. CASE SetWorkspaceBudget
  BY <1>4, <1>5, QuietBudget DEF SetWorkspaceBudget
<1>6. CASE Tick
  BY <1>4, <1>6, QuietBudget DEF Tick
<1>7. CASE UNCHANGED vars
  BY <1>4, <1>7, QuietBudget DEF vars
<1>. QED
  BY <1>1, <1>2, <1>3, <1>5, <1>6, <1>7 DEF Next

(* What the calls may still write stays within the largest budget and one  *)
(* put_file for each call but one.                                         *)
THEOREM BudgetHolds == Spec => []BudgetInv
BY InvHolds, InitBudget, StepBudget, PTL DEF Spec

(* Every variable keeps its type, a put_file's measures among them.        *)
THEOREM TypesHold == Spec => []TypeOK
<1>1. ASSUME Inv, BudgetInv PROVE TypeOK
  <2>1. clock \in 0 .. MaxClock /\ faults \in 0 .. MaxFaults
    BY <1>1, WorkspaceFilesAssumption DEF Inv, Shapes, BudgetInv, Bounds
  <2>2. \A d \in Docs : previews[d] = None \/ previews[d] \in [DOMAIN previews[d] -> Image]
    BY <1>1 DEF Inv, Shapes, IsPageDir
  <2>3. ASSUME NEW q \in Requests PROVE requests[q] \in Put \cup Read \cup Delete \cup {None}
    <3>1. CASE requests[q] # None /\ requests[q].op = "put_file"
      <4>1. IsPut(requests[q]) /\ requests[q].budget \in Nat /\ requests[q].used \in Nat
        BY <1>1, <3>1, PutShape DEF BudgetInv, Bounds, Measured
      <4>. QED
        BY <4>1 DEF IsPut, Put
    <3>2. CASE requests[q] = None \/ requests[q].op # "put_file"
      BY <1>1, <3>2, CallShape DEF Inv, Shapes, IsCall
    <3>. QED
      BY <3>1, <3>2
  <2>4. requests \in [Requests -> Put \cup Read \cup Delete \cup {None}]
    <3>1. requests = [q \in Requests |-> requests[q]]
      BY <1>1 DEF BudgetInv, Bounds
    <3>. QED
      BY <2>3, <3>1
  <2>. QED
    BY <1>1, <2>1, <2>2, <2>4 DEF TypeOK, Inv, Shapes, BudgetInv, Bounds, Forms
<1>. QED
  BY <1>1, InvHolds, BudgetHolds, PTL

(* The documents exceed the largest budget by no more than one put_file    *)
(* for each other call that may run.                                       *)
THEOREM OvershootStaysBounded == Spec => []OvershootBounded
<1>1. ASSUME Inv, BudgetInv PROVE OvershootBounded
  <2>. SUFFICES ASSUME Limited PROVE Sources <= Allowed
    BY DEF OvershootBounded, Allowed
  <2>1. PICK cap \in [Docs -> Nat], res \in [Requests -> Nat] : Holds(cap, res)
    BY <1>1 DEF BudgetInv, Reserved
  <2>2. Sources = Total(Sizes, Docs) /\ Sizes \in [Docs -> Nat] /\ Sources \in Nat
    BY <1>1, SourcesTotal, SizesType, UsageBounds
  <2>3. \A d \in Docs : Sizes[d] <= cap[d]
    BY <2>1 DEF Holds, Sizes
  <2>4. IsFiniteSet(Docs) /\ IsFiniteSet(Requests)
    BY WorkspaceFilesAssumption
  <2>5. Total(Sizes, Docs) <= Total(cap, Docs)
    BY <2>2, <2>3, <2>4, TotalMonotone
  <2>6. Total(cap, Docs) \in Nat /\ Total(res, Requests) \in Nat
    BY <2>4, TotalInNat
  <2>. QED
    BY <2>1, <2>2, <2>5, <2>6, AllowedType DEF Holds
<1>. QED
  BY <1>1, InvHolds, BudgetHolds, PTL
=============================================================================
