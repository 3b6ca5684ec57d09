------------------------------- MODULE Scanner -------------------------------
(***************************************************************************)
(* The D2 preprocessor: the scanner that finds the d2 calls of a Typst     *)
(* source (internal/preprocessor/scan.go), and what Preprocess makes of    *)
(* them: it renders each diagram, puts an image in the place of each call  *)
(* and imports the package that decodes the images.                        *)
(*                                                                         *)
(* A source is a sequence of symbols: one per delimiter, and one per word. *)
(* "x" is any word or text; "quote", "tick", "esc" and "comma" are a       *)
(* double quote, a backquote, a backslash and a comma; "nl" and "sp" are   *)
(* white space; "based" is the rest of a line that imports decode64.  A    *)
(* step is one turn of scanRegion's loop, one rendered diagram or one      *)
(* replacement; an offset is an index, so Go's s.i is i - 1.               *)
(***************************************************************************)
EXTENDS Naturals, Sequences, FiniteSets

CONSTANTS
  Documents,    \* bound: the sources, in families, each with what its author
                \* wrote in it
  maxScanDepth, \* the nesting scanRegion descends to
  None          \* no symbol, and a source nobody says anything about

(* What the scanner tells apart.                                           *)
Symbol == {"#", "[", "]", "(", ")", "/", "*", ".", "quote", "tick", "esc", "nl", "sp",
           ":", "comma", "d2", "import", "image", "width", "pad", "none", "intrinsic",
           "based", "x"}

(* The options of a call that its image depends on: None when not given.   *)
Options   == [{"width", "pad"} -> Seq(Symbol) \cup {None}]
NoOptions == [key \in {"width", "pad"} |-> None]

(* A document's author, where there is one, knows the calls in it, their   *)
(* options and D2 source, which are in code, and where one cannot be       *)
(* extracted.                                                              *)
Call == [start : Nat, end : Nat, options : Options, code : Seq(Symbol),
         codeContext : BOOLEAN]

ASSUME ScannerAssumption ==
  /\ maxScanDepth \in Nat /\ None \notin Symbol
  /\ \A family \in Documents : \A d \in family :
       /\ d.src \in Seq(Symbol)
       /\ d.written = None \/ d.written.calls \in Seq(Call)

VARIABLES
  src,      \* the source being preprocessed
  written,  \* what its author meant
  i,        \* where the scanner is
  regions,  \* the calls of scanRegion in progress, outermost first
  blocks, skipped, \* the call sites found, and those given up
  phase,
  broken,   \* the diagrams d2 cannot draw
  rendered, \* the images so far
  placed,   \* how many of them have replaced their calls
  content,  \* the source with those calls replaced
  former    \* the calls whose images stand in the source, when it is itself
            \* an output of Preprocess

scanning == <<i, regions, blocks, skipped>>
drawing  == <<broken, rendered, placed, content>>
vars     == <<src, written, scanning, phase, drawing, former>>

Markup == [mode |-> "markup", stop |-> None]

Begin(source) ==
  /\ i = 1 /\ regions = <<Markup>> /\ blocks = <<>> /\ skipped = <<>>
  /\ phase = "scan" /\ broken = {} /\ rendered = <<>>
  /\ placed = 0 /\ content = source

Init ==
  /\ \E family \in Documents : \E d \in family : src = d.src /\ written = d.written
  /\ Begin(src) /\ former = <<>>

-----------------------------------------------------------------------------
(* Reading the source.                                                     *)

Least(S) == CHOOSE n \in S : \A m \in S : n <= m

At(k)           == IF k \in DOMAIN src THEN src[k] ELSE None
PeekAt(k, word) == \A n \in DOMAIN word : At(k + n - 1) = word[n]
isIdentChar(c)  ==
  c \in {"d2", "x", "import", "image", "width", "pad", "none", "intrinsic"}
End             == Len(src) + 1

Fence == <<"tick", "tick", "tick">>

(* Just past the first such word at or after k, or the end of the source.  *)
Past(word, k) ==
  LET found == {j \in k .. Len(src) : PeekAt(j, word)} IN
  IF found = {} THEN End ELSE Least(found) + Len(word)

EndOfLine(k) == Least({j \in k .. End : At(j) \in {"nl", None}} \cup {End})
IdentEnd(k)  == Least({j \in k .. End : ~isIdentChar(At(j))} \cup {End})

(* An escape takes whatever follows it, which may be the end.              *)
skipString(k) ==
  LET from[j \in 1 .. End + 1] ==
        IF j >= End THEN j
        ELSE IF src[j] = "esc" THEN from[j + 2]
        ELSE IF src[j] = "quote" THEN j + 1
        ELSE from[j + 1]
  IN from[k + 1]

(* Comments, strings and raw text: Typst's own rules.                      *)
OpaqueAt(k) ==
  \/ PeekAt(k, <<"/", "/">>) \/ PeekAt(k, <<"/", "*">>)
  \/ At(k) \in {"quote", "tick"}
AfterOpaque(k) ==
  CASE PeekAt(k, <<"/", "/">>) -> EndOfLine(k + 2)
    [] PeekAt(k, <<"/", "*">>) -> Past(<<"*", "/">>, k + 2)
    [] At(k) = "quote"         -> skipString(k)
    [] PeekAt(k, Fence)        -> Past(Fence, k + 3)
    [] OTHER                   -> Past(<<"tick">>, k + 1)

(* Just past the parenthesis that closes the one at k; 0 if none does.     *)
skipBalancedParens(k) ==
  LET from[p \in (1 .. End + 1) \X Nat] ==
        LET j == p[1]
            depth == p[2] IN
        IF depth = 0 THEN j
        ELSE IF j >= End THEN 0
        ELSE IF OpaqueAt(j) THEN from[<<AfterOpaque(j), depth>>]
        ELSE IF src[j] = "(" THEN from[<<j + 1, depth + 1>>]
        ELSE IF src[j] = ")" THEN from[<<j + 1, depth - 1>>]
        ELSE from[<<j + 1, depth>>]
  IN from[<<k + 1, 1>>]

(* The same for the bracket of a diagram, by D2's rules: # opens a comment *)
(* where nothing but blanks came before it on the line, and / opens none.  *)
BlankAfter(c, blank) == (c = "nl") \/ (c = "sp" /\ blank)
HashAt(j, blank)     == src[j] = "#" \* mutant
CommentAt(j, blank)  == src[j] = "#" /\ blank
skipD2Brackets(k) ==
  LET from[p \in (1 .. End + 1) \X Nat \X BOOLEAN] ==
        LET j == p[1]
            depth == p[2]
            blank == p[3] IN
        IF depth = 0 THEN j
        ELSE IF j >= End THEN 0
        ELSE IF src[j] = "quote" THEN from[<<skipString(j), depth, FALSE>>]
        ELSE IF CommentAt(j, blank) THEN from[<<EndOfLine(j), depth, blank>>]
        ELSE IF src[j] = "[" THEN from[<<j + 1, depth + 1, FALSE>>]
        ELSE IF src[j] = "]" THEN from[<<j + 1, depth - 1, FALSE>>]
        ELSE from[<<j + 1, depth, BlankAfter(src[j], blank)>>]
  IN from[<<k + 1, 1, TRUE>>]

(* A raw block alone between a call's parentheses, blanks around it aside: *)
(* the set of its body, or nothing.  A language tag is no part of it, nor  *)
(* is one newline at each end.                                             *)
Blank   == {"nl", "sp"}
Greatest(S) == CHOOSE n \in S : \A m \in S : m <= n
Trim(s) ==
  LET ink == {n \in DOMAIN s : s[n] \notin Blank} IN
  IF ink = {} THEN <<>> ELSE SubSeq(s, Least(ink), Greatest(ink))
Contains(s, word) ==
  \E n \in 1 .. Len(s) - Len(word) + 1 : SubSeq(s, n, n + Len(word) - 1) = word
Fenced(s) ==
  /\ Len(s) >= 6
  /\ SubSeq(s, 1, 3) = Fence /\ SubSeq(s, Len(s) - 2, Len(s)) = Fence
  /\ ~Contains(SubSeq(s, 4, Len(s) - 3), Fence)

isLanguageTag(word)  == \A n \in DOMAIN word : isIdentChar(word[n])
WithoutTag(inner)    ==
  LET nls == {n \in DOMAIN inner : inner[n] = "nl"} IN
  IF nls # {} /\ isLanguageTag(Trim(SubSeq(inner, 1, Least(nls) - 1)))
  THEN SubSeq(inner, Least(nls) + 1, Len(inner)) ELSE inner
WithoutNewline(body) ==
  IF body # <<>> /\ body[Len(body)] = "nl" THEN SubSeq(body, 1, Len(body) - 1) ELSE body

extractSingleRawBlock(args) ==
  {WithoutNewline(body) : body \in
    {WithoutTag(SubSeq(s, 4, Len(s) - 3)) : s \in {s \in {Trim(args)} : Fenced(s)}}}

(* The options before a diagram: a word and a colon, and what follows up to*)
(* a comma or a closing parenthesis, whatever it is, without the quotes at *)
(* its ends.  The last value of a key counts.                              *)
Closing       == {"comma", ")"}
Colons(args)  ==
  {n \in 2 .. Len(args) - 1 :
     args[n] = ":" /\ isIdentChar(args[n - 1]) /\ args[n + 1] \notin Closing}
Keyed(args, key) ==
  {n \in Colons(args) :
     /\ \A m \in Colons(args) : m < n => \E c \in m .. n : args[c] \in Closing
     /\ args[n - 1] = key /\ (n = 2 \/ ~isIdentChar(args[n - 2]))}
ValueAt(args, n) ==
  LET end  == Least({m \in n .. Len(args) : args[m] \in Closing} \cup {Len(args) + 1})
      ink  == {m \in n + 1 .. end - 1 : args[m] \notin Blank}
      text == {m \in n + 1 .. end - 1 :
                 args[m] # "quote" /\ \E a, b \in ink : a <= m /\ m <= b}
  IN IF text = {} THEN <<>> ELSE SubSeq(args, Least(text), Greatest(text))
parseOptions(args) ==
  [key \in {"width", "pad"} |->
     IF Keyed(args, key) = {} THEN None ELSE ValueAt(args, Greatest(Keyed(args, key)))]

-----------------------------------------------------------------------------
(* One call site, whose name spans [start, k): the block, the site that    *)
(* looked like a call and could not be read, or nothing.                   *)

emit(start, end, options, code, codeContext) ==
  /\ blocks' = Append(blocks, [start |-> start, end |-> end, options |-> options,
                               code |-> code, codeContext |-> codeContext])
  /\ i' = end /\ UNCHANGED skipped
SkipHere(start, next) == \* mutant
  /\ skipped' = Append(skipped, next)
  /\ i' = next /\ UNCHANGED blocks
skip(start, next) ==
  /\ skipped' = Append(skipped, start)
  /\ i' = next /\ UNCHANGED blocks

DiagramBlock(start, k, options, codeContext) ==
  \E end \in {skipD2Brackets(k)} :
    \/ end = 0 /\ skip(start, End)
    \/ end # 0 /\ emit(start, end, options, SubSeq(src, k + 1, end - 2), codeContext)

Arguments(start, k, end, codeContext) ==
  \E args \in {SubSeq(src, k + 1, end - 2)} :
  \E raw \in {extractSingleRawBlock(args)} :
    \/ \E code \in raw : emit(start, end, NoOptions, code, codeContext)
    \/ raw = {} /\ At(end) = "[" /\ DiagramBlock(start, end, parseOptions(args), codeContext)
    \/ raw = {} /\ At(end) # "[" /\ skip(start, end)

tryD2(start, k, codeContext) ==
  \/ At(k) \notin {"(", "["} /\ i' = k /\ UNCHANGED <<blocks, skipped>>
  \/ At(k) = "[" /\ DiagramBlock(start, k, NoOptions, codeContext)
  \/ /\ At(k) = "("
     /\ \E end \in {skipBalancedParens(k)} :
          \/ end = 0 /\ skip(start, End)
          \/ end # 0 /\ Arguments(start, k, end, codeContext)

-----------------------------------------------------------------------------
(* scanRegion: the cases of its loop, in their order.                      *)

region  == regions[Len(regions)]
Deeper  == Len(regions) - 1 < maxScanDepth
Enter(mode, stop) == regions' = Append(regions, [mode |-> mode, stop |-> stop])
InCode  == region.mode = "code"
Looking == phase = "scan" /\ i < End

Scanned == UNCHANGED <<src, written, phase, drawing, former>>

SkipOpaque ==
  /\ Looking /\ OpaqueAt(i)
  /\ i' = AfterOpaque(i)
  /\ UNCHANGED <<regions, blocks, skipped>> /\ Scanned

Plain == Looking /\ ~OpaqueAt(i)

CloseRegion ==
  /\ Plain /\ At(i) = region.stop
  /\ regions' = SubSeq(regions, 1, Len(regions) - 1) /\ i' = i + 1
  /\ UNCHANGED <<blocks, skipped>> /\ Scanned

Inside == Plain /\ At(i) # region.stop

(* #d2 is the call; any other #name( opens its arguments.                  *)
StayAtHash(k)     == k \* mutant
AfterStrayHash(k) == k + 1
markupHash ==
  LET k    == IdentEnd(i + 1)
      name == SubSeq(src, i + 1, k - 1) IN
  /\ Inside /\ ~InCode /\ At(i) = "#"
  /\ \/ name = <<"d2">> /\ tryD2(i, k, FALSE) /\ UNCHANGED regions
     \/ name = <<>> /\ i' = AfterStrayHash(i) /\ UNCHANGED <<regions, blocks, skipped>>
     \/ /\ name \notin {<<>>, <<"d2">>} /\ UNCHANGED <<blocks, skipped>>
        /\ IF At(k) = "(" /\ Deeper
           THEN i' = k + 1 /\ Enter("code", ")")
           ELSE i' = k /\ UNCHANGED regions
  /\ Scanned

(* A name is read whole, and a field of something is not a name.           *)
atIdentStart(k) == isIdentChar(At(k)) /\ ~isIdentChar(At(k - 1)) /\ At(k - 1) # "."
codeIdent ==
  LET k == IdentEnd(i) IN
  /\ Inside /\ InCode /\ atIdentStart(i)
  /\ \/ SubSeq(src, i, k - 1) = <<"d2">> /\ tryD2(i, k, TRUE)
     \/ SubSeq(src, i, k - 1) # <<"d2">> /\ i' = k /\ UNCHANGED <<blocks, skipped>>
  /\ UNCHANGED regions /\ Scanned

(* #d2 in code is a mistake, taken for the call it was meant to be.        *)
HashedD2(k) == PeekAt(k, <<"#", "d2">>) /\ ~isIdentChar(At(k + 2))
codeHash ==
  /\ Inside /\ InCode /\ HashedD2(i)
  /\ tryD2(i, i + 2, TRUE)
  /\ UNCHANGED regions /\ Scanned

OpensMarkup(k) == At(k) = "[" /\ Deeper
OpensCode(k)   == InCode /\ At(k) = "(" /\ Deeper
OpenRegion ==
  /\ Inside
  /\ \/ OpensMarkup(i) /\ Enter("markup", "]")
     \/ OpensCode(i) /\ Enter("code", ")")
  /\ i' = i + 1
  /\ UNCHANGED <<blocks, skipped>> /\ Scanned

Advance ==
  /\ Inside
  /\ ~(~InCode /\ At(i) = "#") /\ ~(InCode /\ (atIdentStart(i) \/ HashedD2(i)))
  /\ ~OpensMarkup(i) /\ ~OpensCode(i)
  /\ i' = i + 1
  /\ UNCHANGED <<regions, blocks, skipped>> /\ Scanned

(* The end of the source ends every region.  d2 is an external program:    *)
(* which diagrams it cannot draw is anybody's guess.                       *)
Never     == FALSE \* mutant
AnySkipped == skipped # <<>>
scanD2Calls ==
  /\ phase = "scan" /\ i >= End
  /\ phase' = IF AnySkipped THEN "refused" ELSE IF blocks = <<>> THEN "done" ELSE "render"
  /\ broken' \in SUBSET DOMAIN blocks
  /\ UNCHANGED <<src, written, scanning, rendered, placed, content, former>>

-----------------------------------------------------------------------------
(* The rest of Preprocess: render forward, replace backward.               *)

(* image(decode64("..."), width: ...), with its format left out, and what  *)
(* the author gave as width and pad put in as it is.                       *)
Value(block, key, default) ==
  IF block.options[key] = None THEN default ELSE block.options[key]
ImageOf(width) ==
  <<"image", "(", "x", "(", "quote", "x", "quote", ")">>
    \o (IF width \in {<<"none">>, <<"intrinsic">>} THEN <<>>
        ELSE <<"comma", "width", ":">> \o width)
    \o <<")">>
Padded(pad, image) ==
  IF pad = <<"none">> THEN image ELSE <<"pad", "(">> \o pad \o <<"comma">> \o image \o <<")">>
svgToTypstImage(block) ==
  (IF block.codeContext THEN <<>> ELSE <<"#">>)
    \o Padded(Value(block, "pad", <<"none">>), ImageOf(Value(block, "width", <<"x">>)))

LastFirst(done)  == Len(blocks) - done \* mutant
FirstFirst(done) == done + 1
Drawing == FirstFirst(Len(rendered))
Render ==
  /\ phase = "render"
  /\ IF Drawing \in broken
     THEN phase' = "failed" /\ UNCHANGED rendered
     ELSE /\ rendered' = Append(rendered, svgToTypstImage(blocks[Drawing]))
          /\ phase' = IF Len(rendered') = Len(blocks) THEN "replace" ELSE "render"
  /\ UNCHANGED <<src, written, scanning, broken, placed, content, former>>

(* From the last call to the first: the offsets before it stay valid.      *)
Forward(done)  == done + 1 \* mutant
Backward(done) == Len(blocks) - done
Replace ==
  LET n     == Backward(placed)
      block == blocks[n] IN
  /\ phase = "replace"
  /\ content' = SubSeq(content, 1, block.start - 1) \o rendered[n]
                  \o SubSeq(content, block.end, Len(content))
  /\ placed' = placed + 1
  /\ phase' = IF placed' = Len(blocks) THEN "import" ELSE "replace"
  /\ UNCHANGED <<src, written, scanning, broken, rendered, former>>

BasedImport == <<"#", "import", "based", "nl">>
HasBased(c) == Contains(c, <<"#", "import", "based">>)

(* Where the lines of imports end, one past the source for a last line     *)
(* that no newline ends.                                                   *)
ImportEnds(c) ==
  {Least({m \in n .. Len(c) + 1 : m > Len(c) \/ c[m] = "nl"}) :
     n \in {k \in 1 .. Len(c) - 1 : /\ SubSeq(c, k, k + 1) = <<"#", "import">>
                                    /\ k = 1 \/ c[k - 1] = "nl"}}
addBasedImport ==
  LET ends == ImportEnds(content)
      last == Greatest(ends) IN
  /\ phase = "import"
  /\ IF HasBased(content) THEN phase' = "done" /\ UNCHANGED content
     ELSE IF ends = {} THEN phase' = "done" /\ content' = BasedImport \o content
     ELSE IF last > Len(content) THEN phase' = "panic" /\ UNCHANGED content
     ELSE /\ phase' = "done"
          /\ content' = SubSeq(content, 1, last) \o BasedImport
                          \o SubSeq(content, last + 1, Len(content))
  /\ UNCHANGED <<src, written, scanning, broken, rendered, placed, former>>

(* The output is staged in the workspace, where a copy that a crash left   *)
(* behind can be compiled like any other source.                           *)
Preprocess ==
  /\ phase = "done" /\ former = <<>> /\ blocks # <<>>
  /\ src' = content /\ written' = None /\ former' = blocks
  /\ i' = 1 /\ regions' = <<Markup>> /\ blocks' = <<>> /\ skipped' = <<>>
  /\ phase' = "scan" /\ broken' = {} /\ rendered' = <<>> /\ placed' = 0
  /\ UNCHANGED content

ScanStep ==
  \/ SkipOpaque \/ CloseRegion \/ markupHash \/ codeIdent \/ codeHash
  \/ OpenRegion \/ Advance \/ scanD2Calls
Next == ScanStep \/ Render \/ Replace \/ addBasedImport \/ Preprocess

Spec == Init /\ [][Next]_vars /\ WF_vars(Next)

-----------------------------------------------------------------------------
(* Properties.                                                             *)

TypeOK ==
  /\ i \in 1 .. End + 1
  /\ regions \in Seq([mode : {"markup", "code"}, stop : {"]", ")", None}])
  /\ regions # <<>>
  /\ blocks \in Seq(Call) /\ skipped \in Seq(DOMAIN src)
  /\ phase \in {"scan", "render", "replace", "import", "done", "refused", "failed", "panic"}
  /\ broken \subseteq DOMAIN blocks /\ placed \in 0 .. Len(rendered)
  /\ former \in Seq(Call)

(* The scanner finds the calls the author wrote, all of them, and nothing  *)
(* else: not in a comment, a string or raw text, not a field or a longer   *)
(* name, whatever D2 or the options hold; a call it cannot extract is      *)
(* reported (scanD2Calls, SkipSite).                                       *)
CallsFound ==
  phase # "scan" /\ written # None =>
    /\ blocks = written.calls
    /\ {skipped[n] : n \in DOMAIN skipped} = written.broken

(* Every image stands where its call stood and the text between the calls  *)
(* is untouched: the content is the source, spliced from the front.        *)
Spliced ==
  LET from[n \in 1 .. Len(blocks) + 1] ==
        LET start == IF n = 1 THEN 1 ELSE blocks[n - 1].end IN
        IF n > Len(blocks) THEN SubSeq(src, start, Len(src))
        ELSE SubSeq(src, start, blocks[n].start - 1)
               \o svgToTypstImage(blocks[n]) \o from[n + 1]
  IN from[1]
DiagramsInPlace == phase = "import" => content = Spliced

(* The first diagram in the document that d2 cannot draw is the one named  *)
(* (Preprocess renders forward, whichever way it replaces).                *)
FirstFailureNamed ==
  phase = "failed" => Drawing = Least(broken)

(* What typst is handed holds no d2 call, reported or not, as long as no   *)
(* option it was given holds a string, raw text, a comment, a parenthesis  *)
(* or an opening bracket: preprocessing the output again finds nothing to  *)
(* do (Preprocess, svgToTypstImage).                                       *)
Inert(value) ==
  /\ \A n \in DOMAIN value : value[n] \notin {"quote", "tick", "(", ")", "["}
  /\ ~Contains(value, <<"/", "/">>) /\ ~Contains(value, <<"/", "*">>)
Modest(calls) ==
  \A n \in DOMAIN calls : \A key \in {"width", "pad"} :
    calls[n].options[key] = None \/ Inert(calls[n].options[key])
NothingLeft ==
  former # <<>> /\ Modest(former) /\ phase # "scan" => blocks = <<>> /\ skipped = <<>>

(* Preprocess ends, whatever the source: each turn of the loop moves on.   *)
Terminates == <>(phase \notin {"scan", "render", "replace", "import"})

(* What README.md says of the import: it is added at the top, before the   *)
(* images that need it.                                                    *)
ImportedFirst ==
  phase \in {"done", "panic"} /\ blocks # <<>> =>
    \E n \in 1 .. Len(content) - 2 :
      /\ SubSeq(content, n, n + 2) = <<"#", "import", "based">>
      /\ ~Contains(SubSeq(content, 1, n), <<"image", "(">>)
=============================================================================
