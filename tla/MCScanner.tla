------------------------------ MODULE MCScanner ------------------------------
(***************************************************************************)
(* TLC instances of Scanner.  Two kinds of sources are preprocessed: the   *)
(* documents an author can write, built here piece by piece together with  *)
(* the calls in them, which is the definition the scanner is checked       *)
(* against; and every short sequence of a few symbols, well formed or not. *)
(***************************************************************************)
EXTENDS Scanner

(* A piece of a document, the calls in it, and where one is broken.        *)
Piece(s, c, b) == [src |-> s, calls |-> c, broken |-> b]
Text(s)        == Piece(s, <<>>, {})
p ++ q ==
  LET n == Len(p.src) IN
  Piece(p.src \o q.src,
        p.calls \o [m \in DOMAIN q.calls |->
          [q.calls[m] EXCEPT !.start = @ + n, !.end = @ + n]],
        p.broken \cup {b + n : b \in q.broken})
Within(open, p, close) == Text(open) ++ p ++ Text(close)

TheCall(form, hash, inCode) ==
  LET s == hash \o <<"d2">> \o form.src IN
  Piece(s, <<[start |-> 1, end |-> Len(s) + 1, options |-> form.options,
              code |-> form.code, codeContext |-> inCode]>>, {})

(* What may stand in a diagram: brackets in pairs, in a string or in a     *)
(* comment of D2; a glob or a URL; a # in the middle of a line.            *)
Diagrams ==
  {<<>>, <<"x", "[", "x", "]">>, <<"quote", "]", "quote">>,
   <<"quote", "esc", "quote", "[", "quote">>, <<"#", "]", "nl", "x">>,
   <<"x", "nl", "sp", "#", "[", "nl">>, <<"x", "#">>, <<"x", "/", "*">>,
   <<"/", "/", "x">>}
(* What may stand before it: what is no option, or none that the image     *)
(* depends on; a width or a pad, in quotes or not, or both, or one twice;  *)
(* and values that are more than a length.                                 *)
Given(s, o) == [src |-> s, options |-> o]
OptionLists ==
  {Given(s, NoOptions) :
     s \in {<<>>, <<"quote", ")", "quote">>, <<"(", ")">>, <<"/", "*", ")", "*", "/">>,
            <<"x", "width", ":", "x">>}}
    \cup {Given(<<"width", ":">> \o v, [NoOptions EXCEPT !.width = v]) :
            v \in {<<"none">>, <<"x", "/", "x">>, <<"d2", "[", "x", "]">>}}
    \cup {Given(<<"width", ":", "quote", "x", "quote", "comma", "width", ":", "intrinsic", "sp">>,
                [NoOptions EXCEPT !.width = <<"intrinsic">>]),
          Given(<<"pad", ":", "sp", "x", ":", "d2", "comma",
                  "sp", "width", ":", "x", "/", "/", "nl">>,
                [width |-> <<"x", "/", "/">>, pad |-> <<"x", ":", "d2">>]),
          Given(<<"pad", ":", "quote", "]", "#", "d2", "quote">>,
                [NoOptions EXCEPT !.pad = <<"]", "#", "d2">>])}
Raws ==
  {[in |-> <<"x">>, code |-> <<"x">>],
   [in |-> <<"d2", "nl", ")", "nl">>, code |-> <<")">>],
   [in |-> <<"nl", "quote">>, code |-> <<"quote">>],
   [in |-> <<"x", "(", "nl", "x">>, code |-> <<"x", "(", "nl", "x">>]}

Bracketed(d) == <<"[">> \o d \o <<"]">>
Form(s, o, d) == [src |-> s, options |-> o, code |-> d]
Forms ==
  {Form(Bracketed(d), NoOptions, d) : d \in Diagrams}
    \cup {Form(<<"(">> \o o.src \o <<")">> \o Bracketed(<<"x", "[", "x", "]">>), o.options,
               <<"x", "[", "x", "]">>) : o \in OptionLists}
    \cup {Form(<<"(">> \o Fence \o r.in \o Fence \o <<"sp", ")">>, NoOptions, r.code) :
            r \in Raws}

OneCall  == <<"#", "d2", "[", "x", "]">>
Unclosed == <<"#", "d2", "[">>
Opaques ==
  {Within(w[1], Text(t), w[2]) : t \in {OneCall, Unclosed},
     w \in {<<<<"/", "/">>, <<"nl">>>>, <<<<"/", "*">>, <<"*", "/">>>>,
            <<<<"quote", "esc", "quote">>, <<"quote">>>>,
            <<<<"tick">>, <<"tick">>>>, <<Fence, Fence>>}}

Plain1 == Form(Bracketed(<<"x">>), NoOptions, <<"x">>)

CodeItems ==
  {TheCall(f, <<>>, TRUE) : f \in Forms} \cup {TheCall(Plain1, <<"#">>, TRUE)}
    \cup Opaques
    \cup {Text(<<"x">>), Text(<<"x", ".", "d2", "[", "x", "]">>),
          Text(<<"x", "d2", "[", "x", "]">>),
          Within(<<"[">>, TheCall(Plain1, <<"#">>, FALSE), <<"]">>),
          Within(<<"(">>, TheCall(Plain1, <<>>, TRUE), <<")">>)}
MarkupItems ==
  {TheCall(f, <<"#">>, FALSE) : f \in Forms} \cup Opaques
    \cup {Text(<<"x">>), Text(<<"d2", "[", "x", "]">>), Text(<<"#">>),
          Text(<<"#", "d2">>), Text(<<"#", "x", "d2", "[", "x", "]">>)}

Pieces ==
  MarkupItems
    \cup {Within(<<"[">>, p, <<"]">>) : p \in MarkupItems}
    \cup {Within(<<"#", "x", "(">>, p, <<")">>) : p \in CodeItems}
    \cup {Within(<<"#", "x", "(">>, p ++ q, <<")">>) :
            p \in {TheCall(Plain1, <<>>, TRUE), TheCall(Plain1, <<"#">>, TRUE)},
            q \in {Within(<<"sp">>, TheCall(Plain1, <<>>, TRUE), <<>>),
                   Within(<<"[">>, TheCall(Plain1, <<"#">>, FALSE), <<"]">>)}}

(* A line of imports may come first, with or without the package's own.    *)
Tops    == {Text(<<>>), Text(<<"#", "import", "x", "nl">>), Text(BasedImport)}
Endings == {Text(<<>>)} \cup
  {Piece(s, <<>>, {2}) : s \in {<<"sp">> \o Unclosed, <<"sp", "#", "d2", "(", "x">>,
                                <<"sp", "#", "d2", "(", "x", ")">>}}

Meant(p) == [src |-> p.src, written |-> [calls |-> p.calls, broken |-> p.broken]]
Pairs    == {Meant(p ++ Text(<<"sp">>) ++ q) : p, q \in Pieces}
Framed   == {Meant(t ++ p ++ e) : t \in Tops, p \in Pieces, e \in Endings}

Strings(S, n) == {[src |-> s, written |-> None] : s \in UNION {[1 .. m -> S] : m \in 0 .. n}}

AllDocuments ==
  {Pairs, Framed,
   Strings({"#", "d2", "[", "]", "(", ")", "x"}, 5),
   Strings({"#", "d2", "[", "]", "quote", "esc"}, 5),
   Strings({"#", "d2", "(", "tick", ")"}, 5)}

(* An import that comes after a diagram.                                   *)
LateImports == {{Meant(TheCall(Plain1, <<"#">>, FALSE) ++ Text(s)) :
           s \in {<<"nl", "#", "import", "x", "nl">>, <<"nl", "#", "import", "x">>, <<"nl">>}}}
=============================================================================
