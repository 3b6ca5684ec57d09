---------------------------- MODULE ScannerProofs ----------------------------
(***************************************************************************)
(* Proofs about Scanner, for any sources and any nesting.                  *)
(*                                                                         *)
(* The scanner's helpers are recursive functions: each is shown to be      *)
(* defined, and its result to be in the source, by induction on the text   *)
(* left (TailRecursion, TailInduction).  Every turn of scanRegion's loop   *)
(* is then one kind of step (Turn) that moves on and reads at most one d2, *)
(* whatever the case; and Replace keeps, from the last call to the first,  *)
(* that the content is the source up to a call, followed by the splice.    *)
(*                                                                         *)
(* The last part compares the scan of a source with the scan of what       *)
(* Preprocess makes of it.  A trail (Trail) says of any text where the     *)
(* scanner stops to look and in which regions, without a scanner: the      *)
(* first scan goes along one that reads every call it finds, a replacement *)
(* takes the last call off it, the import changes nothing about it, and    *)
(* the second scan cannot leave it (NothingIsLeft).                        *)
(***************************************************************************)
EXTENDS Scanner, SequenceTheorems, WellFoundedInduction, TLAPS

-----------------------------------------------------------------------------
(* Numbers and recursion.                                                  *)

(* A set of natural numbers has a least one.                               *)
LEMMA LeastNat ==
  ASSUME NEW T \in SUBSET Nat, T # {}
  PROVE  Least(T) \in T /\ \A m \in T : Least(T) <= m
<1>1. PICK n \in T : \A m \in T : ~(<<m, n>> \in OpToRel(<, Nat))
  BY NatLessThanWellFounded, WFMin
<1>2. \A m \in T : ~(m < n)
  BY <1>1 DEF OpToRel
<1>3. \A m \in T : n <= m
  BY <1>2
<1>. QED
  BY <1>3 DEF Least

(* And a bounded one has a greatest.                                       *)
LEMMA GreatestNat ==
  ASSUME NEW T \in SUBSET Nat, T # {}, NEW b \in Nat, \A m \in T : m <= b
  PROVE  \E n \in T : \A m \in T : m <= n
<1>. DEFINE U == {u \in Nat : \A m \in T : m <= u}
<1>1. U \in SUBSET Nat /\ U # {}
  OBVIOUS
<1>2. PICK n \in U : \A u \in U : n <= u
  <2>. HIDE DEF U
  <2>. QED
    BY <1>1, LeastNat
<1>3. n \in T
  <2>. SUFFICES ASSUME n \notin T PROVE FALSE
    OBVIOUS
  <2>1. n - 1 \in Nat /\ \A m \in T : m <= n - 1
    <3>1. \A m \in T : m \in Nat /\ m <= n /\ m # n
      BY <1>2
    <3>2. PICK m \in T : TRUE
      OBVIOUS
    <3>3. m \in Nat /\ m < n /\ n \in Nat
      BY <1>2, <3>1
    <3>. QED
      BY <1>2, <3>1, <3>3
  <2>. QED
    BY <1>2, <2>1
<1>. QED
  BY <1>2, <1>3

(* Which is the one that Greatest picks.                                   *)
LEMMA GreatestIn ==
  ASSUME NEW T \in SUBSET Nat, T # {}, NEW b \in Nat, \A m \in T : m <= b
  PROVE  Greatest(T) \in T /\ \A m \in T : m <= Greatest(T)
<1>1. \E n \in T : \A m \in T : m <= n
  BY GreatestNat
<1>. QED
  BY <1>1 DEF Greatest

(* Calls that end with another, of a smaller rank, down to where they      *)
(* stop.                                                                   *)
Descends(S, Stop, next, rank, b) ==
  /\ \A s \in S : rank[s] \in 0 .. b
  /\ \A s \in S \ Stop : next[s] \in S /\ rank[next[s]] < rank[s]
Inherits(Good, S, Stop, next) ==
  /\ \A s \in S : s \in Stop => s \in Good
  /\ \A s \in S \ Stop : next[s] \in Good => s \in Good

IsTail(h, S, Stop, val, next) ==
  h = [s \in S |-> IF s \in Stop THEN val[s] ELSE h[next[s]]]

(* A function that calls itself last, each time on an argument of smaller  *)
(* rank, is defined.                                                       *)
LEMMA TailRecursion ==
  ASSUME NEW S, NEW Stop, NEW val, NEW next, NEW rank, NEW b \in Nat,
         Descends(S, Stop, next, rank, b)
  PROVE  \E h : IsTail(h, S, Stop, val, next)
<1>. USE DEF Descends
<1>. DEFINE Small(n) == {s \in S : rank[s] <= n}
            IsPart(h, n) == h = [s \in Small(n) |-> IF s \in Stop THEN val[s] ELSE h[next[s]]]
            Bad == {n \in Nat : ~\E h : IsPart(h, n)}
<1>1. Bad = {}
  <2>. SUFFICES ASSUME Bad # {} PROVE FALSE
    OBVIOUS
  <2>1. PICK n \in Bad : \A m \in Bad : n <= m
    <3>1. Bad \in SUBSET Nat
      OBVIOUS
    <3>. HIDE DEF Bad
    <3>. QED
      BY <3>1, LeastNat
  <2>2. \A s \in Small(n) : s \notin Stop => next[s] \in S /\ rank[next[s]] <= n - 1 /\ n # 0
    BY <2>1
  <2>3. CASE n = 0
    <3>1. IsPart([s \in Small(0) |-> val[s]], 0)
      BY <2>2, <2>3
    <3>. QED
      BY <2>1, <2>3, <3>1
  <2>4. CASE n # 0
    <3>1. n - 1 \in Nat /\ n - 1 \notin Bad
      <4>. HIDE DEF IsPart
      <4>. QED
        BY <2>1, <2>4
    <3>2. PICK h : IsPart(h, n - 1)
      BY <3>1
    <3>. DEFINE g == [s \in Small(n) |-> IF s \in Stop THEN val[s] ELSE h[next[s]]]
    <3>3. ASSUME NEW s \in Small(n - 1) PROVE s \in Small(n) /\ g[s] = h[s]
      <4>1. s \in Small(n)
        BY <2>1
      <4>2. h[s] = IF s \in Stop THEN val[s] ELSE h[next[s]]
        BY <3>2
      <4>3. g[s] = IF s \in Stop THEN val[s] ELSE h[next[s]]
        BY <4>1
      <4>. QED
        BY <4>1, <4>2, <4>3
    <3>4. \A s \in Small(n) : s \notin Stop => next[s] \in Small(n - 1)
      BY <2>2
    <3>5. IsPart(g, n)
      BY <3>3, <3>4
    <3>. QED
      BY <2>1, <3>5
  <2>. QED
    BY <2>3, <2>4
<1>2. PICK h : IsPart(h, b)
  BY <1>1
<1>3. Small(b) = S
  OBVIOUS
<1>. QED
  BY <1>2, <1>3 DEF IsTail

(* What holds where such a function stops, and of a call when it holds of  *)
(* the one that it ends with, holds of every call.                         *)
LEMMA TailInduction ==
  ASSUME NEW S, NEW Stop, NEW next, NEW rank, NEW b \in Nat,
         Descends(S, Stop, next, rank, b), NEW Good, Inherits(Good, S, Stop, next)
  PROVE  \A s \in S : s \in Good
<1>. USE DEF Descends, Inherits
<1>. DEFINE Bad == {n \in Nat : \E s \in S : s \notin Good /\ rank[s] = n}
<1>1. Bad = {}
  <2>. SUFFICES ASSUME Bad # {} PROVE FALSE
    OBVIOUS
  <2>1. PICK n \in Bad : \A m \in Bad : n <= m
    <3>1. Bad \in SUBSET Nat
      OBVIOUS
    <3>. HIDE DEF Bad
    <3>. QED
      BY <3>1, LeastNat
  <2>2. PICK s \in S : s \notin Good /\ rank[s] = n
    BY <2>1
  <2>3. next[s] \in S /\ next[s] \notin Good /\ rank[next[s]] < n
    BY <2>2
  <2>4. rank[next[s]] \in Bad
    BY <2>3
  <2>. QED
    BY <2>1, <2>3, <2>4
<1>. QED
  BY <1>1

-----------------------------------------------------------------------------
(* Reading the source.                                                     *)

(* The symbols of a source, and none elsewhere.                            *)
LEMMA Symbols ==
  ASSUME src \in Seq(Symbol)
  PROVE  /\ Len(src) \in Nat /\ End = Len(src) + 1 /\ DOMAIN src = 1 .. Len(src)
         /\ \A k \in 1 .. Len(src) : At(k) = src[k] /\ src[k] \in Symbol
         /\ \A k : At(k) \in Symbol => k \in 1 .. Len(src)
         /\ \A k : k \notin 1 .. Len(src) => At(k) = None
<1>1. Len(src) \in Nat /\ DOMAIN src = 1 .. Len(src)
  BY LenProperties
<1>2. \A k \in 1 .. Len(src) : src[k] \in Symbol
  BY ElementOfSeq
<1>. QED
  BY <1>1, <1>2, ScannerAssumption DEF At, End

(* The rest of a line.                                                     *)
LEMMA EndOfLineBounds ==
  ASSUME src \in Seq(Symbol), NEW k \in 1 .. End
  PROVE  /\ EndOfLine(k) \in k .. End
         /\ At(k) # "nl" /\ k # End => EndOfLine(k) # k
<1>. DEFINE T == {j \in k .. End : At(j) \in {"nl", None}} \cup {End}
<1>1. End \in Nat
  BY Symbols
<1>2. T \in SUBSET Nat /\ T # {}
  BY <1>1
<1>3. T \subseteq k .. End
  BY <1>1
<1>4. EndOfLine(k) = Least(T)
  BY DEF EndOfLine
<1>5. At(k) # "nl" /\ k # End => k \notin T
  BY <1>1, Symbols, ScannerAssumption
<1>. HIDE DEF T
<1>. QED
  BY <1>2, <1>3, <1>4, <1>5, LeastNat

(* The rest of a name.                                                     *)
LEMMA IdentEndBounds ==
  ASSUME src \in Seq(Symbol), NEW k \in 1 .. End
  PROVE  /\ IdentEnd(k) \in k .. End
         /\ isIdentChar(At(k)) => IdentEnd(k) # k
<1>. DEFINE T == {j \in k .. End : ~isIdentChar(At(j))} \cup {End}
<1>1. End \in Nat /\ End \notin 1 .. Len(src)
  BY Symbols
<1>2. T \in SUBSET Nat /\ T # {}
  BY <1>1
<1>3. T \subseteq k .. End
  BY <1>1
<1>4. IdentEnd(k) = Least(T)
  BY DEF IdentEnd
<1>5. isIdentChar(At(k)) => k \notin T
  <2>1. ~isIdentChar(None)
    BY ScannerAssumption DEF isIdentChar, Symbol
  <2>2. At(End) = None
    BY <1>1, Symbols
  <2>. QED
    BY <2>1, <2>2
<1>. HIDE DEF T
<1>. QED
  BY <1>2, <1>3, <1>4, <1>5, LeastNat

(* Just past a word.                                                       *)
LEMMA PastBounds ==
  ASSUME src \in Seq(Symbol), NEW word \in Seq(Symbol), word # <<>>, NEW k \in 1 .. End
  PROVE  Past(word, k) \in k .. End
<1>. DEFINE found == {j \in k .. Len(src) : PeekAt(j, word)}
<1>1. End \in Nat /\ Len(src) \in Nat /\ End = Len(src) + 1 /\ Len(word) \in Nat \ {0}
  BY Symbols, EmptySeq
<1>2. found \in SUBSET Nat
  BY <1>1
<1>3. ASSUME NEW j \in found PROVE j + Len(word) \in k .. End
  <2>1. At(j + Len(word) - 1) = word[Len(word)] /\ word[Len(word)] \in Symbol
    BY <1>1, LenProperties, ElementOfSeq DEF PeekAt
  <2>2. j + Len(word) - 1 \in 1 .. Len(src)
    BY <2>1, Symbols
  <2>. QED
    BY <1>1, <2>2
<1>4. Past(word, k) = IF found = {} THEN End ELSE Least(found) + Len(word)
  BY DEF Past
<1>. HIDE DEF found
<1>5. CASE found = {}
  BY <1>1, <1>4, <1>5
<1>6. CASE found # {}
  BY <1>2, <1>3, <1>4, <1>6, LeastNat
<1>. QED
  BY <1>5, <1>6

(* A string: what follows an escape is skipped with it, and may be the     *)
(* end.                                                                    *)
LEMMA SkipStringBounds ==
  ASSUME src \in Seq(Symbol), NEW k \in 1 .. Len(src)
  PROVE  skipString(k) \in k + 1 .. End + 1
<1>. DEFINE S    == 1 .. End + 1
            Stop == {j \in S : j >= End \/ src[j] = "quote"}
            val  == [j \in S |-> IF j >= End THEN j ELSE j + 1]
            next == [j \in S |-> IF src[j] = "esc" THEN j + 2 ELSE j + 1]
            rank == [j \in S |-> End + 1 - j]
            IsScan(h) == h = [j \in S |->
              IF j >= End THEN j
              ELSE IF src[j] = "esc" THEN h[j + 2]
              ELSE IF src[j] = "quote" THEN j + 1
              ELSE h[j + 1]]
            from == CHOOSE h : IsScan(h)
<1>1. End \in Nat /\ End = Len(src) + 1 /\ Len(src) \in Nat /\ k + 1 \in S
  BY Symbols
<1>2. \A j \in S : rank[j] \in 0 .. End
  BY <1>1
<1>3. \A j \in S \ Stop : next[j] \in S /\ rank[next[j]] < rank[j] /\ next[j] > j
  BY <1>1
<1>. DEFINE descends == Descends(S, Stop, next, rank, End)
<1>4. descends
  BY <1>2, <1>3 DEF Descends
<1>5. \E h : IsTail(h, S, Stop, val, next)
  <2>. HIDE DEF S, Stop, val, next, rank
  <2>. QED
    BY <1>1, <1>4, TailRecursion
<1>6. IsScan(from)
  <2>1. PICK h : IsTail(h, S, Stop, val, next)
    BY <1>5
  <2>2. h = [j \in S |-> IF j \in Stop THEN val[j] ELSE h[next[j]]]
    BY <2>1 DEF IsTail
  <2>3. IsScan(h)
    BY <2>2
  <2>. HIDE DEF IsScan
  <2>. QED
    BY <2>3
<1>. HIDE DEF from
<1>. DEFINE Good == {j \in S : from[j] \in j .. End + 1}
<1>7. \A j \in S \ Stop : from[j] = from[next[j]]
  BY <1>6
<1>8. \A j \in S : j \in Stop => j \in Good
  BY <1>1, <1>6
<1>9. \A j \in S \ Stop : next[j] \in Good => j \in Good
  <2>. SUFFICES ASSUME NEW j \in S \ Stop, from[next[j]] \in next[j] .. End + 1
                PROVE  from[j] \in j .. End + 1
    OBVIOUS
  <2>1. next[j] > j /\ from[j] = from[next[j]] /\ next[j] \in S
    BY <1>3, <1>7
  <2>. HIDE DEF next, Stop
  <2>. QED
    BY <1>1, <2>1
<1>10. \A j \in S : j \in Good
  <2>1. Inherits(Good, S, Stop, next)
    BY <1>8, <1>9 DEF Inherits
  <2>. HIDE DEF S, Stop, next, rank, Good
  <2>. QED
    BY <1>1, <1>4, <2>1, TailInduction
<1>11. skipString(k) = from[k + 1]
  BY DEF skipString, from
<1>. QED
  BY <1>1, <1>10, <1>11

(* The marks that open a comment or raw text.                              *)
LEMMA Marks ==
  ASSUME NEW k \in Nat
  PROVE  /\ PeekAt(k, <<"/", "/">>) <=> At(k) = "/" /\ At(k + 1) = "/"
         /\ PeekAt(k, <<"/", "*">>) <=> At(k) = "/" /\ At(k + 1) = "*"
         /\ PeekAt(k, Fence) <=> At(k) = "tick" /\ At(k + 1) = "tick" /\ At(k + 2) = "tick"
         /\ <<"*", "/">> \in Seq(Symbol) /\ <<"*", "/">> # <<>>
         /\ <<"tick">> \in Seq(Symbol) /\ <<"tick">> # <<>>
         /\ Fence \in Seq(Symbol) /\ Fence # <<>>
<1>1. DOMAIN <<"/", "/">> = {1, 2} /\ DOMAIN <<"/", "*">> = {1, 2} /\ DOMAIN Fence = {1, 2, 3}
  BY DEF Fence
<1>2. k + 1 - 1 = k /\ k + 2 - 1 = k + 1 /\ k + 3 - 1 = k + 2
  OBVIOUS
<1>3. PeekAt(k, <<"/", "/">>) <=> At(k) = "/" /\ At(k + 1) = "/"
  BY <1>1, <1>2 DEF PeekAt
<1>4. PeekAt(k, <<"/", "*">>) <=> At(k) = "/" /\ At(k + 1) = "*"
  BY <1>1, <1>2 DEF PeekAt
<1>5. PeekAt(k, Fence) <=> At(k) = "tick" /\ At(k + 1) = "tick" /\ At(k + 2) = "tick"
  <2>1. Fence[1] = "tick" /\ Fence[2] = "tick" /\ Fence[3] = "tick"
    BY DEF Fence
  <2>. QED
    BY <1>1, <1>2, <2>1 DEF PeekAt
<1>6. "*" \in Symbol /\ "/" \in Symbol /\ "tick" \in Symbol
  BY DEF Symbol
<1>. QED
  BY <1>3, <1>4, <1>5, <1>6 DEF Fence

(* Comments, strings and raw text are passed, up to the end.               *)
LEMMA AfterOpaqueBounds ==
  ASSUME src \in Seq(Symbol), NEW k \in 1 .. Len(src), OpaqueAt(k)
  PROVE  AfterOpaque(k) \in k + 1 .. End + 1
<1>1. Len(src) \in Nat /\ End = Len(src) + 1 /\ k \in Nat
  BY Symbols
<1>2. At(k + 1) \in Symbol => k + 2 \in 1 .. End
  BY <1>1, Symbols
<1>3. At(k + 2) \in Symbol => k + 3 \in 1 .. End
  BY <1>1, Symbols
<1>4. "*" \in Symbol /\ "/" \in Symbol /\ "tick" \in Symbol
  BY DEF Symbol
<1>5. CASE At(k) = "/" /\ At(k + 1) = "/"
  <2>1. EndOfLine(k + 2) \in k + 2 .. End
    BY <1>2, <1>4, <1>5, EndOfLineBounds
  <2>2. AfterOpaque(k) = EndOfLine(k + 2)
    BY <1>1, <1>5, Marks DEF AfterOpaque
  <2>. QED
    BY <1>1, <2>1, <2>2
<1>6. CASE At(k) = "/" /\ At(k + 1) = "*"
  <2>1. Past(<<"*", "/">>, k + 2) \in k + 2 .. End
    <3>. DEFINE w == <<"*", "/">>
    <3>1. w \in Seq(Symbol) /\ w # <<>>
      BY Marks
    <3>. HIDE DEF w
    <3>2. Past(w, k + 2) \in k + 2 .. End
      BY <1>2, <1>4, <1>6, <3>1, PastBounds
    <3>. QED
      BY <3>2 DEF w
  <2>2. AfterOpaque(k) = Past(<<"*", "/">>, k + 2)
    BY <1>1, <1>6, Marks DEF AfterOpaque
  <2>. QED
    BY <1>1, <2>1, <2>2
<1>7. CASE At(k) = "quote"
  <2>1. AfterOpaque(k) = skipString(k)
    BY <1>1, <1>7, Marks DEF AfterOpaque
  <2>. QED
    BY <2>1, SkipStringBounds
<1>8. CASE At(k) = "tick" /\ PeekAt(k, Fence)
  <2>1. Past(Fence, k + 3) \in k + 3 .. End
    BY <1>1, <1>3, <1>4, <1>8, Marks, PastBounds
  <2>2. AfterOpaque(k) = Past(Fence, k + 3)
    BY <1>1, <1>8, Marks DEF AfterOpaque
  <2>. QED
    BY <1>1, <2>1, <2>2
<1>9. CASE At(k) = "tick" /\ ~PeekAt(k, Fence)
  <2>1. Past(<<"tick">>, k + 1) \in k + 1 .. End
    <3>. DEFINE w == <<"tick">>
    <3>1. w \in Seq(Symbol) /\ w # <<>>
      BY Marks
    <3>. HIDE DEF w
    <3>2. Past(w, k + 1) \in k + 1 .. End
      BY <1>1, <3>1, PastBounds
    <3>. QED
      BY <3>2 DEF w
  <2>2. AfterOpaque(k) = Past(<<"tick">>, k + 1)
    BY <1>1, <1>9, Marks DEF AfterOpaque
  <2>. QED
    BY <1>1, <2>1, <2>2
<1>. QED
  BY <1>1, <1>5, <1>6, <1>7, <1>8, <1>9, Marks DEF OpaqueAt

(* The parenthesis that closes another comes after it, in the source.      *)
LEMMA ParensBounds ==
  ASSUME src \in Seq(Symbol), NEW k \in 1 .. Len(src)
  PROVE  \/ skipBalancedParens(k) = 0
         \/ skipBalancedParens(k) \in k + 2 .. End /\ At(skipBalancedParens(k) - 1) = ")"
<1>. DEFINE S    == (1 .. End + 1) \X Nat
            Stop == {p \in S : p[2] = 0 \/ p[1] >= End}
            val  == [p \in S |-> IF p[2] = 0 THEN p[1] ELSE 0]
            next == [p \in S |->
              IF OpaqueAt(p[1]) THEN <<AfterOpaque(p[1]), p[2]>>
              ELSE IF src[p[1]] = "(" THEN <<p[1] + 1, p[2] + 1>>
              ELSE IF src[p[1]] = ")" THEN <<p[1] + 1, p[2] - 1>>
              ELSE <<p[1] + 1, p[2]>>]
            rank == [p \in S |-> End + 1 - p[1]]
            IsScan(h) == h = [p \in S |->
              IF p[2] = 0 THEN p[1]
              ELSE IF p[1] >= End THEN 0
              ELSE IF OpaqueAt(p[1]) THEN h[<<AfterOpaque(p[1]), p[2]>>]
              ELSE IF src[p[1]] = "(" THEN h[<<p[1] + 1, p[2] + 1>>]
              ELSE IF src[p[1]] = ")" THEN h[<<p[1] + 1, p[2] - 1>>]
              ELSE h[<<p[1] + 1, p[2]>>]]
            from == CHOOSE h : IsScan(h)
<1>0. \A j \in 1 .. End + 1, d \in Nat :
        <<j, d>> \in S /\ <<j, d>>[1] = j /\ <<j, d>>[2] = d
  OBVIOUS
<1>1. End \in Nat /\ End = Len(src) + 1 /\ Len(src) \in Nat /\ <<k + 1, 1>> \in S
  <2>1. End \in Nat /\ End = Len(src) + 1 /\ Len(src) \in Nat /\ k + 1 \in 1 .. End + 1
    BY Symbols
  <2>. HIDE DEF S
  <2>. QED
    BY <1>0, <2>1
<1>2. \A p \in S : rank[p] \in 0 .. End /\ rank[p] = End + 1 - p[1]
  BY <1>1
<1>3. ASSUME NEW p \in S \ Stop
      PROVE  /\ next[p] \in S /\ next[p][1] > p[1]
             /\ next[p][2] = 0 => next[p][1] <= End /\ At(next[p][1] - 1) = ")"
  <2>1. p[1] \in 1 .. Len(src) /\ p[2] \in Nat \ {0}
    BY <1>1
  <2>2. CASE OpaqueAt(p[1])
    <3>1. AfterOpaque(p[1]) \in p[1] + 1 .. End + 1
      BY <2>1, <2>2, AfterOpaqueBounds
    <3>2. next[p] = <<AfterOpaque(p[1]), p[2]>>
      BY <2>2
    <3>3. AfterOpaque(p[1]) \in 1 .. End + 1 /\ AfterOpaque(p[1]) > p[1]
      BY <1>1, <2>1, <3>1
    <3>. HIDE DEF next, S
    <3>. QED
      BY <1>0, <2>1, <3>2, <3>3
  <2>3. CASE ~OpaqueAt(p[1])
    <3>1. \/ next[p] = <<p[1] + 1, p[2] + 1>>
          \/ next[p] = <<p[1] + 1, p[2] - 1>> /\ src[p[1]] = ")"
          \/ next[p] = <<p[1] + 1, p[2]>>
      BY <2>3
    <3>2. /\ p[1] + 1 \in 1 .. End + 1 /\ p[1] + 1 > p[1] /\ p[1] + 1 <= End
          /\ p[2] + 1 \in Nat \ {0} /\ p[2] - 1 \in Nat /\ p[1] + 1 - 1 = p[1]
          /\ At(p[1]) = src[p[1]]
      BY <1>1, <2>1, Symbols
    <3>. HIDE DEF next, S
    <3>3. PICK d \in Nat : next[p] = <<p[1] + 1, d>> /\ (d = 0 => src[p[1]] = ")")
      BY <2>1, <3>1, <3>2
    <3>4. next[p] \in S /\ next[p][1] = p[1] + 1 /\ next[p][2] = d
      BY <1>0, <3>2, <3>3
    <3>5. next[p][1] - 1 = p[1] /\ next[p][1] > p[1]
      BY <1>1, <2>1, <3>4
    <3>6. At(next[p][1] - 1) = src[p[1]]
      BY <3>2, <3>5
    <3>. QED
      BY <3>2, <3>3, <3>4, <3>5, <3>6
  <2>. QED
    BY <2>2, <2>3
<1>. DEFINE descends == Descends(S, Stop, next, rank, End)
<1>4. descends
  <2>1. \A p \in S \ Stop : next[p] \in S /\ rank[next[p]] < rank[p]
    <3>. SUFFICES ASSUME NEW p \in S \ Stop PROVE next[p] \in S /\ rank[next[p]] < rank[p]
      OBVIOUS
    <3>1. next[p] \in S /\ next[p][1] > p[1]
      BY <1>3
    <3>2. p[1] \in Nat /\ next[p][1] \in Nat
      BY <1>1, <3>1
    <3>3. p \in S
      OBVIOUS
    <3>. HIDE DEF next, rank, Stop, S
    <3>4. rank[p] = End + 1 - p[1] /\ rank[next[p]] = End + 1 - next[p][1]
      BY <1>2, <3>1, <3>3
    <3>. QED
      BY <1>1, <3>1, <3>2, <3>4
  <2>. QED
    BY <1>2, <2>1 DEF Descends
<1>5. \E h : IsTail(h, S, Stop, val, next)
  <2>. HIDE DEF S, Stop, val, next, rank
  <2>. QED
    BY <1>1, <1>4, TailRecursion
<1>6. IsScan(from)
  <2>1. PICK h : IsTail(h, S, Stop, val, next)
    BY <1>5
  <2>2. h = [p \in S |-> IF p \in Stop THEN val[p] ELSE h[next[p]]]
    BY <2>1 DEF IsTail
  <2>3. IsScan(h)
    BY <2>2
  <2>. HIDE DEF IsScan
  <2>. QED
    BY <2>3
<1>. HIDE DEF from
<1>. DEFINE Good == {p \in S : (from[p] = 0) \/ (p[2] = 0 /\ from[p] = p[1])
                                 \/ (from[p] \in p[1] + 1 .. End /\ At(from[p] - 1) = ")")}
<1>7. \A p \in S \ Stop : from[p] = from[next[p]]
  BY <1>6
<1>8. \A p \in S : p \in Stop => p \in Good
  <2>. SUFFICES ASSUME NEW p \in S, p \in Stop PROVE p \in Good
    OBVIOUS
  <2>1. from[p] = IF p[2] = 0 THEN p[1] ELSE 0
    BY <1>6
  <2>2. p[1] \in Nat /\ p[2] \in Nat /\ (p[2] = 0 => from[p] = p[1]) /\ (p[2] # 0 => from[p] = 0)
    BY <1>1, <2>1
  <2>. HIDE DEF S, Stop
  <2>. QED
    BY <2>2
<1>9. \A p \in S \ Stop : next[p] \in Good => p \in Good
  <2>. SUFFICES ASSUME NEW p \in S \ Stop, next[p] \in Good PROVE p \in Good
    OBVIOUS
  <2>1. /\ next[p][1] > p[1] /\ from[p] = from[next[p]] /\ next[p] \in S
        /\ next[p][2] = 0 => next[p][1] <= End /\ At(next[p][1] - 1) = ")"
    BY <1>3, <1>7
  <2>2. p \in S /\ p[1] \in Nat /\ next[p][1] \in Nat
    BY <2>1
  <2>3. \/ from[next[p]] = 0
        \/ next[p][2] = 0 /\ from[next[p]] = next[p][1]
        \/ from[next[p]] \in next[p][1] + 1 .. End /\ At(from[next[p]] - 1) = ")"
    <3>. HIDE DEF next, Stop, S
    <3>. QED
      OBVIOUS
  <2>4. from[p] = 0 \/ (from[p] \in p[1] + 1 .. End /\ At(from[p] - 1) = ")")
    <3>. HIDE DEF next, Stop, S, Good
    <3>. QED
      BY <1>1, <2>1, <2>2, <2>3
  <2>. HIDE DEF next, Stop, S
  <2>. QED
    BY <2>2, <2>4
<1>10. \A p \in S : p \in Good
  <2>1. Inherits(Good, S, Stop, next)
    BY <1>8, <1>9 DEF Inherits
  <2>. HIDE DEF S, Stop, next, rank, Good
  <2>. QED
    BY <1>1, <1>4, <2>1, TailInduction
<1>11. skipBalancedParens(k) = from[<<k + 1, 1>>]
  BY DEF skipBalancedParens, from
<1>. QED
  BY <1>1, <1>10, <1>11

(* A triple is in the product of its elements' sets.                       *)
LEMMA Triples ==
  ASSUME NEW A, NEW B, NEW C, NEW a \in A, NEW b \in B, NEW c \in C
  PROVE  /\ <<a, b, c>> \in A \X B \X C
         /\ <<a, b, c>>[1] = a /\ <<a, b, c>>[2] = b
OBVIOUS

(* And so does the bracket that closes a diagram.                          *)
LEMMA BracketsBounds ==
  ASSUME src \in Seq(Symbol), NEW k \in 1 .. Len(src)
  PROVE  \/ skipD2Brackets(k) = 0
         \/ skipD2Brackets(k) \in k + 2 .. End /\ At(skipD2Brackets(k) - 1) = "]"
<1>. DEFINE S    == (1 .. End + 1) \X Nat \X BOOLEAN
            Stop == {p \in S : p[2] = 0 \/ p[1] >= End}
            val  == [p \in S |-> IF p[2] = 0 THEN p[1] ELSE 0]
            next == [p \in S |->
              IF src[p[1]] = "quote" THEN <<skipString(p[1]), p[2], FALSE>>
              ELSE IF CommentAt(p[1], p[3]) THEN <<EndOfLine(p[1]), p[2], p[3]>>
              ELSE IF src[p[1]] = "[" THEN <<p[1] + 1, p[2] + 1, FALSE>>
              ELSE IF src[p[1]] = "]" THEN <<p[1] + 1, p[2] - 1, FALSE>>
              ELSE <<p[1] + 1, p[2], BlankAfter(src[p[1]], p[3])>>]
            rank == [p \in S |-> End + 1 - p[1]]
            IsScan(h) == h = [p \in S |->
              IF p[2] = 0 THEN p[1]
              ELSE IF p[1] >= End THEN 0
              ELSE IF src[p[1]] = "quote" THEN h[<<skipString(p[1]), p[2], FALSE>>]
              ELSE IF CommentAt(p[1], p[3]) THEN h[<<EndOfLine(p[1]), p[2], p[3]>>]
              ELSE IF src[p[1]] = "[" THEN h[<<p[1] + 1, p[2] + 1, FALSE>>]
              ELSE IF src[p[1]] = "]" THEN h[<<p[1] + 1, p[2] - 1, FALSE>>]
              ELSE h[<<p[1] + 1, p[2], BlankAfter(src[p[1]], p[3])>>]]
            from == CHOOSE h : IsScan(h)
<1>0. \A j \in 1 .. End + 1, d \in Nat, c \in BOOLEAN :
        <<j, d, c>> \in S /\ <<j, d, c>>[1] = j /\ <<j, d, c>>[2] = d
  BY Triples
<1>1. End \in Nat /\ End = Len(src) + 1 /\ Len(src) \in Nat /\ <<k + 1, 1, TRUE>> \in S
  <2>1. End \in Nat /\ End = Len(src) + 1 /\ Len(src) \in Nat /\ k + 1 \in 1 .. End + 1
    BY Symbols
  <2>. HIDE DEF S
  <2>. QED
    BY <1>0, <2>1
<1>2. \A p \in S : rank[p] \in 0 .. End /\ rank[p] = End + 1 - p[1]
  BY <1>1
<1>3. ASSUME NEW p \in S \ Stop
      PROVE  /\ next[p] \in S /\ next[p][1] > p[1]
             /\ next[p][2] = 0 => next[p][1] <= End /\ At(next[p][1] - 1) = "]"
  <2>1. p[1] \in 1 .. Len(src) /\ p[2] \in Nat \ {0} /\ p[3] \in BOOLEAN
    BY <1>1
  <2>2. CASE src[p[1]] = "quote"
    <3>1. skipString(p[1]) \in p[1] + 1 .. End + 1
      BY <2>1, SkipStringBounds
    <3>2. PICK c \in BOOLEAN : next[p] = <<skipString(p[1]), p[2], c>>
      <4>1. next[p] = <<skipString(p[1]), p[2], FALSE>>
        BY <2>2
      <4>. HIDE DEF next, S
      <4>. QED
        BY <4>1, Zenon
    <3>3. skipString(p[1]) \in 1 .. End + 1 /\ skipString(p[1]) > p[1]
      BY <1>1, <2>1, <3>1
    <3>. HIDE DEF next, S
    <3>. QED
      BY <1>0, <2>1, <3>2, <3>3
  <2>3. CASE src[p[1]] # "quote" /\ CommentAt(p[1], p[3])
    <3>1. At(p[1]) = "#" /\ p[1] \in 1 .. End /\ p[1] # End
      BY <1>1, <2>1, <2>3, Symbols DEF CommentAt
    <3>2. EndOfLine(p[1]) \in p[1] + 1 .. End
      <4>1. EndOfLine(p[1]) \in p[1] .. End /\ EndOfLine(p[1]) # p[1]
        BY <3>1, EndOfLineBounds
      <4>. QED
        BY <1>1, <2>1, <4>1
    <3>3. next[p] = <<EndOfLine(p[1]), p[2], p[3]>>
      BY <2>3
    <3>4. EndOfLine(p[1]) \in 1 .. End + 1 /\ EndOfLine(p[1]) > p[1] /\ EndOfLine(p[1]) <= End
      BY <1>1, <2>1, <3>2
    <3>. HIDE DEF next, S
    <3>. QED
      BY <1>0, <2>1, <3>3, <3>4
  <2>4. CASE src[p[1]] # "quote" /\ ~CommentAt(p[1], p[3])
    <3>1. \/ next[p] = <<p[1] + 1, p[2] + 1, FALSE>>
          \/ next[p] = <<p[1] + 1, p[2] - 1, FALSE>> /\ src[p[1]] = "]"
          \/ next[p] = <<p[1] + 1, p[2], BlankAfter(src[p[1]], p[3])>>
      BY <2>4
    <3>2. /\ p[1] + 1 \in 1 .. End + 1 /\ p[1] + 1 > p[1] /\ p[1] + 1 <= End
          /\ p[2] + 1 \in Nat \ {0} /\ p[2] - 1 \in Nat /\ p[1] + 1 - 1 = p[1]
          /\ At(p[1]) = src[p[1]]
      BY <1>1, <2>1, Symbols
    <3>. HIDE DEF next, S
    <3>3. PICK d \in Nat, c \in BOOLEAN :
            next[p] = <<p[1] + 1, d, c>> /\ (d = 0 => src[p[1]] = "]")
      <4>1. BlankAfter(src[p[1]], p[3]) \in BOOLEAN /\ FALSE \in BOOLEAN
        BY DEF BlankAfter
      <4>. QED
        BY <2>1, <3>1, <3>2, <4>1, Zenon
    <3>4. next[p] \in S /\ next[p][1] = p[1] + 1 /\ next[p][2] = d
      BY <1>0, <3>2, <3>3
    <3>5. next[p][1] - 1 = p[1] /\ next[p][1] > p[1]
      BY <1>1, <2>1, <3>4
    <3>6. At(next[p][1] - 1) = src[p[1]]
      BY <3>2, <3>5
    <3>. QED
      BY <3>2, <3>3, <3>4, <3>5, <3>6
  <2>. QED
    BY <2>2, <2>3, <2>4
<1>. DEFINE descends == Descends(S, Stop, next, rank, End)
<1>4. descends
  <2>1. \A p \in S \ Stop : next[p] \in S /\ rank[next[p]] < rank[p]
    <3>. SUFFICES ASSUME NEW p \in S \ Stop PROVE next[p] \in S /\ rank[next[p]] < rank[p]
      OBVIOUS
    <3>1. next[p] \in S /\ next[p][1] > p[1]
      BY <1>3
    <3>2. p[1] \in Nat /\ next[p][1] \in Nat
      BY <1>1, <3>1
    <3>3. p \in S
      OBVIOUS
    <3>. HIDE DEF next, rank, Stop, S
    <3>4. rank[p] = End + 1 - p[1] /\ rank[next[p]] = End + 1 - next[p][1]
      BY <1>2, <3>1, <3>3
    <3>. QED
      BY <1>1, <3>1, <3>2, <3>4
  <2>. QED
    BY <1>2, <2>1 DEF Descends
<1>5. \E h : IsTail(h, S, Stop, val, next)
  <2>. HIDE DEF S, Stop, val, next, rank
  <2>. QED
    BY <1>1, <1>4, TailRecursion
<1>6. IsScan(from)
  <2>1. PICK h : IsTail(h, S, Stop, val, next)
    BY <1>5
  <2>2. h = [p \in S |-> IF p \in Stop THEN val[p] ELSE h[next[p]]]
    BY <2>1 DEF IsTail
  <2>3. IsScan(h)
    BY <2>2
  <2>. HIDE DEF IsScan
  <2>. QED
    BY <2>3
<1>. HIDE DEF from
<1>. DEFINE Good == {p \in S : (from[p] = 0) \/ (p[2] = 0 /\ from[p] = p[1])
                                 \/ (from[p] \in p[1] + 1 .. End /\ At(from[p] - 1) = "]")}
<1>7. \A p \in S \ Stop : from[p] = from[next[p]]
  BY <1>6
<1>8. \A p \in S : p \in Stop => p \in Good
  <2>. SUFFICES ASSUME NEW p \in S, p \in Stop PROVE p \in Good
    OBVIOUS
  <2>1. from[p] = IF p[2] = 0 THEN p[1] ELSE 0
    BY <1>6
  <2>2. p[1] \in Nat /\ p[2] \in Nat /\ (p[2] = 0 => from[p] = p[1]) /\ (p[2] # 0 => from[p] = 0)
    BY <1>1, <2>1
  <2>. HIDE DEF S, Stop
  <2>. QED
    BY <2>2
<1>9. \A p \in S \ Stop : next[p] \in Good => p \in Good
  <2>. SUFFICES ASSUME NEW p \in S \ Stop, next[p] \in Good PROVE p \in Good
    OBVIOUS
  <2>1. /\ next[p][1] > p[1] /\ from[p] = from[next[p]] /\ next[p] \in S
        /\ next[p][2] = 0 => next[p][1] <= End /\ At(next[p][1] - 1) = "]"
    BY <1>3, <1>7
  <2>2. p \in S /\ p[1] \in Nat /\ next[p][1] \in Nat
    BY <2>1
  <2>3. \/ from[next[p]] = 0
        \/ next[p][2] = 0 /\ from[next[p]] = next[p][1]
        \/ from[next[p]] \in next[p][1] + 1 .. End /\ At(from[next[p]] - 1) = "]"
    <3>. HIDE DEF next, Stop, S
    <3>. QED
      OBVIOUS
  <2>4. from[p] = 0 \/ (from[p] \in p[1] + 1 .. End /\ At(from[p] - 1) = "]")
    <3>. HIDE DEF next, Stop, S, Good
    <3>. QED
      BY <1>1, <2>1, <2>2, <2>3
  <2>. HIDE DEF next, Stop, S
  <2>. QED
    BY <2>2, <2>4
<1>10. \A p \in S : p \in Good
  <2>1. Inherits(Good, S, Stop, next)
    BY <1>8, <1>9 DEF Inherits
  <2>. HIDE DEF S, Stop, next, rank, Good
  <2>. QED
    BY <1>1, <1>4, <2>1, TailInduction
<1>11. skipD2Brackets(k) = from[<<k + 1, 1, TRUE>>]
  BY DEF skipD2Brackets, from
<1>. QED
  BY <1>1, <1>10, <1>11

-----------------------------------------------------------------------------
(* Parts of a source.                                                      *)

(* A part of a sequence.                                                   *)
LEMMA PartType ==
  ASSUME NEW S, NEW s \in Seq(S), NEW m \in Nat \ {0}, NEW n \in Int, n <= Len(s)
  PROVE  /\ SubSeq(s, m, n) \in Seq(S)
         /\ Len(SubSeq(s, m, n)) = IF m <= n THEN n - m + 1 ELSE 0
<1>1. Len(s) \in Nat
  BY LenProperties
<1>2. \A j \in m .. n : s[j] \in S
  BY <1>1, ElementOfSeq
<1>. QED
  BY <1>2, SubSeqProperties

(* What Trim leaves.                                                       *)
LEMMA TrimType == ASSUME NEW s \in Seq(Symbol) PROVE Trim(s) \in Seq(Symbol)
<1>. DEFINE ink  == {n \in DOMAIN s : s[n] \notin Blank}
            last == Greatest(ink)
<1>1. Len(s) \in Nat /\ DOMAIN s = 1 .. Len(s)
  BY LenProperties
<1>2. Trim(s) = IF ink = {} THEN <<>> ELSE SubSeq(s, Least(ink), last)
  BY DEF Trim
<1>3. ink \in SUBSET Nat /\ \A m \in ink : m \in 1 .. Len(s) /\ m <= Len(s)
  BY <1>1
<1>. HIDE DEF ink
<1>4. CASE ink = {}
  BY <1>2, <1>4, EmptySeq
<1>5. CASE ink # {}
  <2>1. Least(ink) \in ink
    BY <1>3, <1>5, LeastNat
  <2>2. last \in ink
    BY <1>1, <1>3, <1>5, GreatestIn
  <2>. DEFINE first == Least(ink)
  <2>3. Trim(s) = SubSeq(s, first, last)
    BY <1>2, <1>5
  <2>4. first \in ink
    BY <2>1
  <2>. HIDE DEF first, last
  <2>5. first \in 1 .. Len(s) /\ last \in 1 .. Len(s)
    BY <1>3, <2>2, <2>4
  <2>6. first \in Nat \ {0} /\ last \in Int /\ last <= Len(s)
    BY <1>1, <2>5
  <2>. QED
    BY <2>3, <2>6, PartType
<1>. QED
  BY <1>4, <1>5

(* The options of a call are text.                                         *)
LEMMA OptionsType ==
  ASSUME NEW args \in Seq(Symbol)
  PROVE  parseOptions(args) \in Options
<1>1. Len(args) \in Nat
  BY LenProperties
<1>2. ASSUME NEW n \in 2 .. Len(args) - 1 PROVE ValueAt(args, n) \in Seq(Symbol)
  <2>. DEFINE T    == {m \in n .. Len(args) : args[m] \in Closing} \cup {Len(args) + 1}
              end  == Least(T)
              ink  == {m \in n + 1 .. end - 1 : args[m] \notin Blank}
              text == {m \in n + 1 .. end - 1 :
                         args[m] # "quote" /\ \E a, b \in ink : a <= m /\ m <= b}
              first == Least(text)
              last  == Greatest(text)
  <2>1. ValueAt(args, n) = IF text = {} THEN <<>> ELSE SubSeq(args, first, last)
    BY DEF ValueAt
  <2>2. end \in n .. Len(args) + 1
    <3>1. T \in SUBSET Nat /\ T # {} /\ T \subseteq n .. Len(args) + 1
      BY <1>1
    <3>. HIDE DEF T
    <3>. QED
      BY <3>1, LeastNat
  <2>. HIDE DEF end
  <2>3. text \in SUBSET Nat /\ \A m \in text : m \in 1 .. Len(args) /\ m <= Len(args)
    BY <1>1, <2>2
  <2>. HIDE DEF text
  <2>4. CASE text = {}
    BY <2>1, <2>4, EmptySeq
  <2>5. CASE text # {}
    <3>1. first \in text /\ last \in text
      BY <1>1, <2>3, <2>5, LeastNat, GreatestIn
    <3>2. ValueAt(args, n) = SubSeq(args, first, last)
      BY <2>1, <2>5
    <3>. HIDE DEF first, last
    <3>3. first \in 1 .. Len(args) /\ last \in 1 .. Len(args)
      BY <2>3, <3>1
    <3>4. first \in Nat \ {0} /\ last \in Int /\ last <= Len(args)
      BY <1>1, <3>3
    <3>. QED
      BY <3>2, <3>4, PartType
  <2>. QED
    BY <2>4, <2>5
<1>3. ASSUME NEW key
      PROVE  Keyed(args, key) = {} \/ Greatest(Keyed(args, key)) \in 2 .. Len(args) - 1
  <2>. DEFINE T == Keyed(args, key)
  <2>1. T \subseteq 2 .. Len(args) - 1
    BY DEF Keyed, Colons
  <2>. HIDE DEF T
  <2>2. T \in SUBSET Nat /\ \A m \in T : m <= Len(args)
    BY <1>1, <2>1
  <2>3. T = {} \/ Greatest(T) \in T
    BY <1>1, <2>2, GreatestIn
  <2>. QED
    BY <2>1, <2>3 DEF T
<1>4. ASSUME NEW key
      PROVE  (IF Keyed(args, key) = {} THEN None ELSE ValueAt(args, Greatest(Keyed(args, key))))
               \in Seq(Symbol) \cup {None}
  BY <1>2, <1>3
<1>. QED
  BY <1>4 DEF parseOptions, Options

(* The body of a raw block is a source.                                    *)
LEMMA RawType ==
  ASSUME NEW args \in Seq(Symbol)
  PROVE  extractSingleRawBlock(args) \subseteq Seq(Symbol)
<1>1. ASSUME NEW s \in Seq(Symbol), Fenced(s) PROVE SubSeq(s, 4, Len(s) - 3) \in Seq(Symbol)
  <2>1. Len(s) \in Nat
    BY LenProperties
  <2>. QED
    BY <2>1, PartType
<1>2. ASSUME NEW s \in Seq(Symbol) PROVE WithoutTag(s) \in Seq(Symbol)
  <2>. DEFINE nls == {n \in DOMAIN s : s[n] = "nl"}
  <2>1. Len(s) \in Nat /\ DOMAIN s = 1 .. Len(s)
    BY LenProperties
  <2>2. nls \in SUBSET Nat
    BY <2>1
  <2>3. WithoutTag(s) \in {s, SubSeq(s, Least(nls) + 1, Len(s))}
        /\ (nls = {} => WithoutTag(s) = s)
    BY DEF WithoutTag
  <2>. HIDE DEF nls
  <2>4. CASE nls # {}
    <3>. DEFINE n == Least(nls)
    <3>1. n \in nls
      BY <2>2, <2>4, LeastNat
    <3>2. WithoutTag(s) \in {s, SubSeq(s, n + 1, Len(s))}
      BY <2>3
    <3>. HIDE DEF n
    <3>3. n + 1 \in Nat \ {0}
      BY <2>2, <3>1
    <3>4. SubSeq(s, n + 1, Len(s)) \in Seq(Symbol)
      BY <2>1, <3>3, PartType
    <3>. QED
      BY <3>2, <3>4
  <2>. QED
    BY <2>3, <2>4
<1>3. ASSUME NEW s \in Seq(Symbol) PROVE WithoutNewline(s) \in Seq(Symbol)
  <2>1. Len(s) \in Nat
    BY LenProperties
  <2>2. SubSeq(s, 1, Len(s) - 1) \in Seq(Symbol)
    BY <2>1, PartType
  <2>. QED
    BY <2>2 DEF WithoutNewline
<1>. QED
  BY <1>1, <1>2, <1>3, TrimType DEF extractSingleRawBlock

-----------------------------------------------------------------------------
(* A call site.                                                            *)

(* What reading a call that starts at start does: it goes on at i', and    *)
(* takes a block up to there, or gives the call up, or neither.            *)
Site(start) ==
  /\ i' \in start + 1 .. End
  /\ \/ blocks' = blocks /\ skipped' \in {skipped, Append(skipped, start)}
     \/ /\ skipped' = skipped
        /\ \E options \in Options, code \in Seq(Symbol), inCode \in BOOLEAN :
             blocks' = Append(blocks, [start |-> start, end |-> i', options |-> options,
                                       code |-> code, codeContext |-> inCode])

(* The bracket of a diagram.                                               *)
LEMMA DiagramSite ==
  ASSUME src \in Seq(Symbol), NEW start \in 1 .. Len(src), NEW k \in start + 1 .. Len(src),
         NEW options \in Options, NEW inCode \in BOOLEAN,
         DiagramBlock(start, k, options, inCode)
  PROVE  Site(start)
<1>1. Len(src) \in Nat /\ End = Len(src) + 1 /\ k \in 1 .. Len(src)
  BY Symbols
<1>2. PICK end : /\ end = skipD2Brackets(k)
                 /\ \/ end = 0 /\ skip(start, End)
                    \/ end # 0 /\ emit(start, end, options, SubSeq(src, k + 1, end - 2), inCode)
  BY DEF DiagramBlock
<1>3. CASE end = 0
  BY <1>1, <1>2, <1>3 DEF skip, Site
<1>4. CASE end # 0
  <2>1. end \in k + 2 .. End
    BY <1>1, <1>2, <1>4, BracketsBounds
  <2>2. k + 1 \in Nat \ {0} /\ end - 2 \in Int /\ end - 2 <= Len(src)
        /\ end \in start + 1 .. End
    BY <1>1, <2>1
  <2>3. SubSeq(src, k + 1, end - 2) \in Seq(Symbol)
    BY <2>2, PartType
  <2>. QED
    BY <1>2, <1>4, <2>2, <2>3 DEF emit, Site
<1>. QED
  BY <1>3, <1>4

(* tryD2, whose name ends before k.                                        *)
LEMMA CallSite ==
  ASSUME src \in Seq(Symbol), NEW start \in 1 .. Len(src), NEW k \in start + 1 .. End,
         NEW inCode \in BOOLEAN, tryD2(start, k, inCode)
  PROVE  Site(start)
<1>1. Len(src) \in Nat /\ End = Len(src) + 1
  BY Symbols
<1>2. At(k) \in Symbol => k \in 1 .. Len(src) /\ k \in start + 1 .. Len(src)
  BY <1>1, Symbols
<1>3. "(" \in Symbol /\ "[" \in Symbol
  BY DEF Symbol
<1>4. CASE At(k) \notin {"(", "["}
  BY <1>4 DEF tryD2, Site
<1>0. NoOptions \in Options
  BY DEF NoOptions, Options
<1>5. CASE At(k) = "["
  BY <1>0, <1>2, <1>3, <1>5, DiagramSite DEF tryD2
<1>6. CASE At(k) = "("
  <2>1. PICK end : /\ end = skipBalancedParens(k)
                   /\ \/ end = 0 /\ skip(start, End)
                      \/ end # 0 /\ Arguments(start, k, end, inCode)
    BY <1>6 DEF tryD2
  <2>2. CASE end = 0
    BY <1>1, <2>1, <2>2 DEF skip, Site
  <2>3. CASE end # 0
    <3>1. end \in k + 2 .. End
      BY <1>2, <1>3, <1>6, <2>1, <2>3, ParensBounds
    <3>2. k + 1 \in Nat \ {0} /\ end - 2 \in Int /\ end - 2 <= Len(src)
          /\ end \in start + 1 .. End
      BY <1>1, <3>1
    <3>. DEFINE args == SubSeq(src, k + 1, end - 2)
    <3>3. args \in Seq(Symbol)
      BY <3>2, PartType
    <3>4. extractSingleRawBlock(args) \subseteq Seq(Symbol)
      <4>. HIDE DEF args
      <4>. QED
        BY <3>3, RawType
    <3>5. \/ \E code \in Seq(Symbol) : emit(start, end, NoOptions, code, inCode)
          \/ At(end) = "[" /\ DiagramBlock(start, end, parseOptions(args), inCode)
          \/ skip(start, end)
      BY <2>1, <2>3, <3>4 DEF Arguments
    <3>7. parseOptions(args) \in Options
      <4>. HIDE DEF args
      <4>. QED
        BY <3>3, OptionsType
    <3>. HIDE DEF args
    <3>6. At(end) = "[" => end \in start + 1 .. Len(src)
      BY <1>1, <1>3, <3>2, Symbols
    <3>. QED
      BY <1>0, <3>2, <3>5, <3>6, <3>7, DiagramSite DEF emit, skip, Site
  <2>. QED
    BY <2>1, <2>2, <2>3
<1>. QED
  BY <1>4, <1>5, <1>6

-----------------------------------------------------------------------------
(* The invariant.                                                          *)

(* What is in the variables, and that the outermost region has no end.     *)
Typed ==
  /\ src \in Seq(Symbol) /\ content \in Seq(Symbol) /\ rendered \in Seq(Seq(Symbol))
  /\ TypeOK /\ regions[1].stop = None

(* The calls found are in the source read so far, in its order, and none   *)
(* overlaps another: what Replace's offsets rest on.                       *)
Ordered(s, b) ==
  \A n \in 1 .. Len(b) :
    /\ 1 <= b[n].start /\ b[n].start < b[n].end /\ b[n].end <= Len(s) + 1
    /\ n # 1 => b[n - 1].end <= b[n].start
CallsOrdered ==
  /\ Ordered(src, blocks)
  /\ \A n \in 1 .. Len(blocks) : blocks[n].end <= i

(* And each of them, found or given up, is a d2.                           *)
D2At(k) == At(k) = "d2" \/ (At(k) = "#" /\ At(k + 1) = "d2")
CallsAreD2 ==
  /\ \A n \in 1 .. Len(blocks) : D2At(blocks[n].start)
  /\ \A n \in 1 .. Len(skipped) : D2At(skipped[n])

(* The source from the end of a call on, with the images of the calls      *)
(* after it, as in Spliced.                                                *)
EndBefore(b, n) == IF n = 1 THEN 1 ELSE b[n - 1].end
IsSplice(from, s, b) ==
  from = [n \in 1 .. Len(b) + 1 |->
    IF n > Len(b) THEN SubSeq(s, EndBefore(b, n), Len(s))
    ELSE SubSeq(s, EndBefore(b, n), b[n].start - 1) \o svgToTypstImage(b[n]) \o from[n + 1]]
SplicedFrom(s, b) == CHOOSE from : IsSplice(from, s, b)
Replaced(s, b, n) == SubSeq(s, 1, EndBefore(b, n) - 1) \o SplicedFrom(s, b)[n]

(* The images are those of the calls, drawn in order, and the ones placed  *)
(* are the last.                                                           *)
Drawn ==
  /\ Len(rendered) <= Len(blocks)
  /\ \A n \in 1 .. Len(rendered) : rendered[n] = svgToTypstImage(blocks[n]) /\ n \notin broken
Phases ==
  /\ phase = "scan" => rendered = <<>> /\ placed = 0 /\ content = src /\ broken = {}
  /\ phase \in {"render", "failed"} =>
       placed = 0 /\ content = src /\ Len(rendered) < Len(blocks)
  /\ phase = "failed" => Drawing \in broken
  /\ phase = "replace" => Len(rendered) = Len(blocks) /\ placed < Len(blocks)
  /\ phase = "import" => Len(rendered) = Len(blocks) /\ placed = Len(blocks)
  /\ phase \in {"replace", "import"} => content = Replaced(src, blocks, Len(blocks) - placed + 1)

Inv == Typed /\ CallsOrdered /\ CallsAreD2 /\ Drawn /\ Phases

(* The phases come one after another.                                      *)
Rank == [scan |-> 0, render |-> 1, replace |-> 2, import |-> 3,
         done |-> 4, refused |-> 4, failed |-> 4, panic |-> 4]
Onward ==
  \/ former = <<>> /\ former' # <<>>
  \/ /\ UNCHANGED <<src, former>>
     /\ \/ Rank[phase] < Rank[phase']
        \/ /\ UNCHANGED phase
           /\ i <= i' /\ Len(rendered) <= Len(rendered') /\ placed <= placed'
           /\ i < i' \/ Len(rendered) < Len(rendered') \/ placed < placed'

-----------------------------------------------------------------------------
(* Replacing the calls.                                                    *)

(* The image of a diagram is text like any other, whatever its width,      *)
LEMMA ImageOfType == ASSUME NEW width \in Seq(Symbol) PROVE ImageOf(width) \in Seq(Symbol)
<1>. DEFINE opening == <<"image", "(", "x", "(", "quote", "x", "quote", ")">>
            given   == IF width \in {<<"none">>, <<"intrinsic">>} THEN <<>>
                       ELSE <<"comma", "width", ":">> \o width
<1>1. /\ opening \in Seq(Symbol) /\ <<"comma", "width", ":">> \in Seq(Symbol)
      /\ <<")">> \in Seq(Symbol) /\ <<>> \in Seq(Symbol)
  <2>1. /\ "image" \in Symbol /\ "(" \in Symbol /\ "x" \in Symbol /\ "quote" \in Symbol
        /\ ")" \in Symbol /\ "comma" \in Symbol /\ "width" \in Symbol /\ ":" \in Symbol
    BY DEF Symbol
  <2>. QED
    BY <2>1
<1>2. given \in Seq(Symbol)
  BY <1>1, ConcatProperties
<1>3. ImageOf(width) = opening \o given \o <<")">>
  BY DEF ImageOf
<1>. HIDE DEF opening, given
<1>. QED
  BY <1>1, <1>2, <1>3, ConcatProperties

(* its padding,                                                            *)
LEMMA PaddedType ==
  ASSUME NEW pad \in Seq(Symbol), NEW image \in Seq(Symbol)
  PROVE  Padded(pad, image) \in Seq(Symbol)
<1>1. <<"pad", "(">> \in Seq(Symbol) /\ <<"comma">> \in Seq(Symbol) /\ <<")">> \in Seq(Symbol)
  <2>1. "pad" \in Symbol /\ "(" \in Symbol /\ "comma" \in Symbol /\ ")" \in Symbol
    BY DEF Symbol
  <2>. QED
    BY <2>1
<1>2. <<"pad", "(">> \o pad \o <<"comma">> \o image \o <<")">> \in Seq(Symbol)
  BY <1>1, ConcatProperties
<1>. QED
  BY <1>2 DEF Padded

(* and the place of its call.                                              *)
LEMMA ImageType == ASSUME NEW block \in Call PROVE svgToTypstImage(block) \in Seq(Symbol)
<1>. DEFINE width == Value(block, "width", <<"x">>)
            pad   == Value(block, "pad", <<"none">>)
            hash  == IF block.codeContext THEN <<>> ELSE <<"#">>
<1>1. /\ <<"x">> \in Seq(Symbol) /\ <<"none">> \in Seq(Symbol) /\ <<"#">> \in Seq(Symbol)
      /\ <<>> \in Seq(Symbol)
  <2>1. "x" \in Symbol /\ "none" \in Symbol /\ "#" \in Symbol
    BY DEF Symbol
  <2>. QED
    BY <2>1
<1>2. width \in Seq(Symbol) /\ pad \in Seq(Symbol) /\ hash \in Seq(Symbol)
  <2>1. /\ block.options["width"] \in Seq(Symbol) \cup {None}
        /\ block.options["pad"] \in Seq(Symbol) \cup {None}
    BY DEF Call, Options
  <2>. QED
    BY <1>1, <2>1 DEF Value
<1>. HIDE DEF width, pad, hash
<1>3. Padded(pad, ImageOf(width)) \in Seq(Symbol)
  BY <1>2, ImageOfType, PaddedType
<1>4. svgToTypstImage(block) = hash \o Padded(pad, ImageOf(width))
  BY DEF svgToTypstImage, hash, pad, width
<1>. QED
  BY <1>2, <1>3, <1>4, ConcatProperties

IsChain(h, L, a, z) ==
  h = [n \in 1 .. L + 1 |-> IF n > L THEN z ELSE a[n] \o h[n + 1]]

(* A function that builds on its next value, up to the last, is defined.   *)
LEMMA ChainRecursion ==
  ASSUME NEW L \in Nat, NEW a, NEW z
  PROVE  \E h : IsChain(h, L, a, z)
<1>. DEFINE Last(d) == L + 1 - d .. L + 1
            IsPart(h, d) == h = [n \in Last(d) |-> IF n > L THEN z ELSE a[n] \o h[n + 1]]
            Bad == {d \in Nat : d <= L /\ ~\E h : IsPart(h, d)}
<1>1. Bad = {}
  <2>. SUFFICES ASSUME Bad # {} PROVE FALSE
    OBVIOUS
  <2>1. PICK d \in Bad : \A m \in Bad : d <= m
    <3>1. Bad \in SUBSET Nat
      OBVIOUS
    <3>. HIDE DEF Bad
    <3>. QED
      BY <3>1, LeastNat
  <2>2. CASE d = 0
    <3>1. IsPart([n \in Last(0) |-> z], 0)
      <4>1. \A n \in Last(0) : n > L
        OBVIOUS
      <4>. HIDE DEF Last
      <4>. QED
        BY <4>1
    <3>. QED
      BY <2>1, <2>2, <3>1
  <2>3. CASE d # 0
    <3>1. d - 1 \in Nat /\ d - 1 <= L /\ d - 1 \notin Bad
      <4>. HIDE DEF IsPart
      <4>. QED
        BY <2>1, <2>3
    <3>2. PICK h : IsPart(h, d - 1)
      BY <3>1
    <3>. DEFINE g == [n \in Last(d) |-> IF n > L THEN z ELSE a[n] \o h[n + 1]]
    <3>3. ASSUME NEW n \in Last(d - 1) PROVE n \in Last(d) /\ g[n] = h[n]
      <4>1. n \in Last(d)
        BY <2>1
      <4>2. h[n] = IF n > L THEN z ELSE a[n] \o h[n + 1]
        BY <3>2
      <4>3. g[n] = IF n > L THEN z ELSE a[n] \o h[n + 1]
        BY <4>1
      <4>. QED
        BY <4>1, <4>2, <4>3
    <3>4. \A n \in Last(d) : ~(n > L) => n + 1 \in Last(d - 1)
      BY <2>1, <2>3
    <3>5. IsPart(g, d)
      <4>1. \A n \in Last(d) : ~(n > L) => g[n + 1] = h[n + 1]
        BY <3>3, <3>4
      <4>. QED
        BY <4>1
    <3>. QED
      BY <2>1, <3>5
  <2>. QED
    BY <2>2, <2>3
<1>2. PICK h : IsPart(h, L)
  <2>. HIDE DEF IsPart
  <2>. QED
    BY <1>1
<1>3. Last(L) = 1 .. L + 1
  OBVIOUS
<1>. QED
  BY <1>2, <1>3 DEF IsChain

(* The text from a call's predecessor on, with the images: its equation.   *)
LEMMA Splices ==
  ASSUME NEW s \in Seq(Symbol), NEW b \in Seq(Call), Ordered(s, b)
  PROVE  /\ \A n \in 1 .. Len(b) + 1 : SplicedFrom(s, b)[n] \in Seq(Symbol)
         /\ SplicedFrom(s, b)[Len(b) + 1] = SubSeq(s, EndBefore(b, Len(b) + 1), Len(s))
         /\ \A n \in 1 .. Len(b) :
              SplicedFrom(s, b)[n] = SubSeq(s, EndBefore(b, n), b[n].start - 1)
                \o svgToTypstImage(b[n]) \o SplicedFrom(s, b)[n + 1]
<1>. DEFINE L    == Len(b)
            z    == SubSeq(s, EndBefore(b, L + 1), Len(s))
            a    == [n \in 1 .. L |->
                      SubSeq(s, EndBefore(b, n), b[n].start - 1) \o svgToTypstImage(b[n])]
            from == SplicedFrom(s, b)
<1>1. L \in Nat /\ Len(s) \in Nat
  BY LenProperties
<1>2. \A n \in 1 .. L + 1 : n > L <=> n = L + 1
  BY <1>1
<1>3. PICK h : IsChain(h, L, a, z)
  <2>. HIDE DEF a, z, L
  <2>. QED
    BY <1>1, ChainRecursion
<1>4. h = [n \in 1 .. L + 1 |-> IF n > L THEN z ELSE a[n] \o h[n + 1]]
  BY <1>3 DEF IsChain
<1>5. IsSplice(h, s, b)
  <2>1. \A n \in 1 .. L + 1 :
          n > L => z = SubSeq(s, EndBefore(b, n), Len(s))
    BY <1>2
  <2>2. \A n \in 1 .. L + 1 :
          ~(n > L) => a[n] = SubSeq(s, EndBefore(b, n), b[n].start - 1) \o svgToTypstImage(b[n])
    <3>1. \A n \in 1 .. L + 1 : ~(n > L) => n \in 1 .. L
      BY <1>1
    <3>. HIDE DEF L
    <3>. QED
      BY <3>1
  <2>. HIDE DEF a, z
  <2>. QED
    BY <1>4, <2>1, <2>2 DEF IsSplice
<1>6. IsSplice(from, s, b)
  BY <1>5 DEF SplicedFrom
<1>. HIDE DEF from
<1>. DEFINE cut(n) == SubSeq(s, EndBefore(b, n), b[n].start - 1) \o svgToTypstImage(b[n])
            end(n) == SubSeq(s, EndBefore(b, n), Len(s))
<1>7. from = [n \in 1 .. L + 1 |-> IF n > L THEN end(n) ELSE cut(n) \o from[n + 1]]
  BY <1>6 DEF IsSplice
<1>8. z = end(L + 1) /\ \A n \in 1 .. L : a[n] = cut(n)
  OBVIOUS
<1>9. L + 1 \in 1 .. L + 1 /\ \A n \in 1 .. L : n \in 1 .. L + 1 /\ ~(n > L)
  BY <1>1
<1>10. from[L + 1] = z
  <2>. HIDE DEF cut, end, a, z
  <2>. QED
    BY <1>2, <1>7, <1>8, <1>9
<1>11. \A n \in 1 .. L : from[n] = a[n] \o from[n + 1]
  <2>. HIDE DEF cut, end, a, z, L
  <2>. QED
    BY <1>7, <1>8, <1>9
<1>12. \A n \in 1 .. L + 1 : EndBefore(b, n) \in 1 .. Len(s) + 1
  <2>. SUFFICES ASSUME NEW n \in 1 .. L + 1 PROVE EndBefore(b, n) \in 1 .. Len(s) + 1
    OBVIOUS
  <2>1. CASE n = 1
    BY <1>1, <2>1 DEF EndBefore
  <2>2. CASE n # 1
    <3>1. n - 1 \in 1 .. Len(b)
      BY <1>1, <2>2
    <3>2. b[n - 1] \in Call
      BY <3>1, ElementOfSeq
    <3>3. b[n - 1].end \in Nat /\ b[n - 1].start \in Nat
      BY <3>2 DEF Call
    <3>4. 1 <= b[n - 1].start /\ b[n - 1].start < b[n - 1].end /\ b[n - 1].end <= Len(s) + 1
      BY <3>1 DEF Ordered
    <3>. QED
      BY <1>1, <2>2, <3>3, <3>4 DEF EndBefore
  <2>. QED
    BY <2>1, <2>2
<1>13. z \in Seq(Symbol)
  <2>1. EndBefore(b, L + 1) \in Nat \ {0}
    BY <1>1, <1>12
  <2>. QED
    BY <1>1, <2>1, PartType
<1>14. \A n \in 1 .. L : a[n] \in Seq(Symbol)
  <2>. SUFFICES ASSUME NEW n \in 1 .. L PROVE a[n] \in Seq(Symbol)
    OBVIOUS
  <2>1. EndBefore(b, n) \in Nat \ {0}
    BY <1>1, <1>12
  <2>2. b[n] \in Call
    BY ElementOfSeq
  <2>3. b[n].start - 1 \in Int /\ b[n].start - 1 <= Len(s)
    <3>1. b[n].end \in Nat /\ b[n].start \in Nat
      BY <2>2 DEF Call
    <3>2. b[n].start < b[n].end /\ b[n].end <= Len(s) + 1
      BY DEF Ordered
    <3>. QED
      BY <1>1, <3>1, <3>2
  <2>. DEFINE x == SubSeq(s, EndBefore(b, n), b[n].start - 1)
              y == svgToTypstImage(b[n])
  <2>4. x \in Seq(Symbol)
    BY <2>1, <2>3, PartType
  <2>5. y \in Seq(Symbol)
    BY <2>2, ImageType
  <2>6. a[n] = x \o y
    OBVIOUS
  <2>. HIDE DEF a, x, y
  <2>. QED
    BY <2>4, <2>5, <2>6, ConcatProperties
<1>15. \A n \in 1 .. L + 1 : from[n] \in Seq(Symbol)
  <2>. DEFINE S    == 1 .. L + 1
              Stop == {L + 1}
              next == [n \in S |-> n + 1]
              rank == [n \in S |-> L + 1 - n]
              Good == {n \in S : from[n] \in Seq(Symbol)}
  <2>1. Descends(S, Stop, next, rank, L)
    BY <1>1 DEF Descends
  <2>2. \A n \in S : n \in Stop => n \in Good
    BY <1>10, <1>13
  <2>3. \A n \in S \ Stop : next[n] \in Good => n \in Good
    <3>. SUFFICES ASSUME NEW n \in S \ Stop, from[n + 1] \in Seq(Symbol)
                  PROVE  from[n] \in Seq(Symbol)
      OBVIOUS
    <3>1. n \in 1 .. L
      BY <1>1
    <3>2. from[n] = a[n] \o from[n + 1] /\ a[n] \in Seq(Symbol)
      BY <1>11, <1>14, <3>1
    <3>. HIDE DEF a
    <3>. QED
      BY <3>2, ConcatProperties
  <2>4. Inherits(Good, S, Stop, next)
    BY <2>2, <2>3 DEF Inherits
  <2>5. \A n \in S : n \in Good
    <3>. HIDE DEF S, Stop, next, rank, Good, L
    <3>. QED
      BY <1>1, <2>1, <2>4, TailInduction
  <2>. QED
    BY <2>5
<1>. QED
  BY <1>10, <1>11, <1>15 DEF from

IsAssociative(p, q, r) == p \o (q \o r) = (p \o q) \o r

(* Concatenation, read either way.                                         *)
LEMMA Associative ==
  ASSUME NEW p \in Seq(Symbol), NEW q \in Seq(Symbol), NEW r \in Seq(Symbol)
  PROVE  IsAssociative(p, q, r)
BY ConcatAssociative, SMTT(30) DEF IsAssociative

(* The parts of a concatenation.                                           *)
LEMMA CutConcat ==
  ASSUME NEW S, NEW s \in Seq(S), NEW t \in Seq(S), NEW m \in 0 .. Len(s)
  PROVE  /\ SubSeq(s \o t, 1, m) = SubSeq(s, 1, m)
         /\ SubSeq(s \o t, Len(s) + 1, Len(s \o t)) = t
<1>1. Len(s) \in Nat /\ Len(t) \in Nat /\ Len(s \o t) = Len(s) + Len(t)
  BY LenProperties, ConcatProperties
<1>2. SubSeq(s \o t, 1, m) = SubSeq(s, 1, m)
  <2>1. CASE m = 0
    BY <2>1, SubSeqEmpty
  <2>2. CASE m # 0
    <3>1. m \in 1 .. Len(s) /\ 1 \in 1 .. Len(s)
      BY <1>1, <2>2
    <3>. QED
      BY <3>1, SubSeqOfConcat1
  <2>. QED
    BY <2>1, <2>2
<1>3. SubSeq(s \o t, Len(s) + 1, Len(s \o t)) = t
  <2>1. CASE Len(t) = 0
    <3>1. t = <<>>
      BY <2>1, EmptySeq
    <3>2. SubSeq(s \o t, Len(s) + 1, Len(s \o t)) = <<>>
      BY <1>1, <2>1, SubSeqEmpty
    <3>. QED
      BY <3>1, <3>2
  <2>2. CASE Len(t) # 0
    <3>1. /\ Len(s) + 1 \in Len(s) + 1 .. Len(s) + Len(t)
          /\ Len(s) + Len(t) \in Len(s) + 1 .. Len(s) + Len(t)
          /\ Len(s) + 1 - Len(s) = 1 /\ Len(s) + Len(t) - Len(s) = Len(t)
      BY <1>1, <2>2
    <3>2. SubSeq(s \o t, Len(s) + 1, Len(s) + Len(t)) = SubSeq(t, 1, Len(t))
      BY <3>1, SubSeqOfConcat2
    <3>. QED
      BY <1>1, <3>2, SubSeqFull
  <2>. QED
    BY <2>1, <2>2
<1>. QED
  BY <1>2, <1>3

(* The start of a start.                                                   *)
LEMMA CutStart ==
  ASSUME NEW S, NEW s \in Seq(S), NEW m \in 0 .. Len(s), NEW n \in 0 .. m
  PROVE  /\ SubSeq(s, 1, m) \in Seq(S) /\ Len(SubSeq(s, 1, m)) = m
         /\ SubSeq(SubSeq(s, 1, m), 1, n) = SubSeq(s, 1, n)
<1>1. Len(s) \in Nat /\ m \in Int /\ m <= Len(s)
  BY LenProperties
<1>2. SubSeq(s, 1, m) \in Seq(S) /\ Len(SubSeq(s, 1, m)) = m
  <2>1. /\ SubSeq(s, 1, m) \in Seq(S)
        /\ Len(SubSeq(s, 1, m)) = IF 1 <= m THEN m - 1 + 1 ELSE 0
    BY <1>1, PartType
  <2>. QED
    BY <1>1, <2>1
<1>3. CASE n = 0
  BY <1>2, <1>3, SubSeqEmpty
<1>4. CASE n # 0
  <2>1. /\ 1 \in 1 .. Len(s) /\ m \in 1 .. Len(s) /\ 1 \in 1 .. m - 1 + 1 /\ n \in 1 .. m - 1 + 1
        /\ 1 + 1 - 1 = 1 /\ 1 + n - 1 = n
    BY <1>1, <1>4
  <2>2. SubSeq(SubSeq(s, 1, m), 1, n) = SubSeq(s, 1 + 1 - 1, 1 + n - 1)
    BY <2>1, SubSeqOfSubSeq
  <2>. QED
    BY <1>2, <2>1, <2>2
<1>. QED
  BY <1>2, <1>3, <1>4

(* Where a call starts and ends, and where the one before it ended.        *)
LEMMA CallPlaces ==
  ASSUME NEW s \in Seq(Symbol), NEW b \in Seq(Call), Ordered(s, b), NEW n \in 1 .. Len(b)
  PROVE  /\ b[n] \in Call /\ b[n].start \in 1 .. Len(s) /\ b[n].end \in b[n].start + 1 .. Len(s) + 1
         /\ EndBefore(b, n) \in 1 .. b[n].start
         /\ EndBefore(b, n + 1) = b[n].end
<1>1. Len(b) \in Nat /\ Len(s) \in Nat
  BY LenProperties
<1>2. b[n] \in Call /\ b[n].start \in Nat /\ b[n].end \in Nat
  <2>1. b[n] \in Call
    BY ElementOfSeq
  <2>. QED
    BY <2>1 DEF Call
<1>3. /\ 1 <= b[n].start /\ b[n].start < b[n].end /\ b[n].end <= Len(s) + 1
      /\ n # 1 => b[n - 1].end <= b[n].start
  BY DEF Ordered
<1>4. CASE n = 1
  BY <1>1, <1>2, <1>3, <1>4 DEF EndBefore
<1>5. CASE n # 1
  <2>1. n - 1 \in 1 .. Len(b)
    BY <1>1, <1>5
  <2>2. b[n - 1].start \in Nat /\ b[n - 1].end \in Nat
    <3>1. b[n - 1] \in Call
      BY <2>1, ElementOfSeq
    <3>. QED
      BY <3>1 DEF Call
  <2>3. 1 <= b[n - 1].start /\ b[n - 1].start < b[n - 1].end
    BY <2>1 DEF Ordered
  <2>4. EndBefore(b, n) = b[n - 1].end /\ n + 1 # 1 /\ n + 1 - 1 = n
    BY <1>1, <1>5 DEF EndBefore
  <2>5. EndBefore(b, n + 1) = b[n].end
    BY <2>4 DEF EndBefore
  <2>. QED
    BY <1>1, <1>2, <1>3, <1>5, <2>2, <2>3, <2>4, <2>5
<1>. QED
  BY <1>4, <1>5

(* With no call replaced, it is the source; with all of them, the splice.  *)
LEMMA ReplacedEnds ==
  ASSUME NEW s \in Seq(Symbol), NEW b \in Seq(Call), Ordered(s, b)
  PROVE  /\ Replaced(s, b, Len(b) + 1) = s
         /\ Replaced(s, b, 1) = SplicedFrom(s, b)[1]
<1>1. Len(b) \in Nat /\ Len(s) \in Nat
  BY LenProperties
<1>2. Replaced(s, b, Len(b) + 1) = s
  <2>. DEFINE e == EndBefore(b, Len(b) + 1)
  <2>1. e \in 1 .. Len(s) + 1
    <3>1. CASE Len(b) = 0
      BY <1>1, <3>1 DEF EndBefore
    <3>2. CASE Len(b) # 0
      <4>1. Len(b) \in 1 .. Len(b)
        BY <1>1, <3>2
      <4>2. /\ b[Len(b)].start \in 1 .. Len(s) /\ e = b[Len(b)].end
            /\ b[Len(b)].end \in b[Len(b)].start + 1 .. Len(s) + 1
        BY <4>1, CallPlaces
      <4>. HIDE DEF e
      <4>. QED
        BY <1>1, <4>2
    <3>. QED
      BY <3>1, <3>2
  <2>2. SplicedFrom(s, b)[Len(b) + 1] = SubSeq(s, e, Len(s))
    BY Splices
  <2>3. Replaced(s, b, Len(b) + 1) = SubSeq(s, 1, e - 1) \o SubSeq(s, e, Len(s))
    BY <2>2 DEF Replaced
  <2>. HIDE DEF e
  <2>4. /\ 1 \in 1 .. Len(s) + 1 /\ e - 1 \in 1 - 1 .. Len(s) /\ Len(s) \in e - 1 .. Len(s)
        /\ e - 1 + 1 = e
    BY <1>1, <2>1
  <2>5. SubSeq(s, 1, e - 1) \o SubSeq(s, e - 1 + 1, Len(s)) = SubSeq(s, 1, Len(s))
    BY <2>4, ConcatAdjacentSubSeq
  <2>. QED
    BY <2>3, <2>4, <2>5, SubSeqFull
<1>3. Replaced(s, b, 1) = SplicedFrom(s, b)[1]
  <2>. DEFINE f == SplicedFrom(s, b)[1]
  <2>1. f \in Seq(Symbol)
    <3>1. 1 \in 1 .. Len(b) + 1
      BY <1>1
    <3>. QED
      BY <3>1, Splices
  <2>2. SubSeq(s, 1, EndBefore(b, 1) - 1) = <<>>
    BY SubSeqEmpty DEF EndBefore
  <2>3. Replaced(s, b, 1) = <<>> \o f
    BY <2>2 DEF Replaced
  <2>. HIDE DEF f
  <2>4. Replaced(s, b, 1) = f
    BY <2>1, <2>3, ConcatEmptySeq
  <2>. QED
    BY <2>4 DEF f
<1>. QED
  BY <1>2, <1>3

(* Replacing one more call: the offsets of the calls before those already  *)
(* replaced are still those of the source.                                 *)
LEMMA ReplacedOne ==
  ASSUME NEW s \in Seq(Symbol), NEW b \in Seq(Call), Ordered(s, b), NEW n \in 1 .. Len(b),
         NEW c, c = Replaced(s, b, n + 1)
  PROVE  /\ SubSeq(c, 1, b[n].start - 1) \o svgToTypstImage(b[n]) \o SubSeq(c, b[n].end, Len(c))
              = Replaced(s, b, n)
         /\ Replaced(s, b, n) \in Seq(Symbol)
<1>. DEFINE image == svgToTypstImage(b[n])
            rest  == SplicedFrom(s, b)[n + 1]
            first == b[n].start
            after == b[n].end
            e     == EndBefore(b, n)
<1>1. Len(b) \in Nat /\ Len(s) \in Nat /\ n + 1 \in 1 .. Len(b) + 1
  BY LenProperties
<1>2. first \in 1 .. Len(s) /\ after \in first + 1 .. Len(s) + 1 /\ e \in 1 .. first
      /\ EndBefore(b, n + 1) = after
  BY CallPlaces
<1>3. image \in Seq(Symbol) /\ rest \in Seq(Symbol)
  <2>1. b[n] \in Call
    BY ElementOfSeq
  <2>. QED
    BY <1>1, <2>1, ImageType, Splices
<1>4. c = SubSeq(s, 1, after - 1) \o rest
  BY <1>2 DEF Replaced
<1>5. Replaced(s, b, n) = SubSeq(s, 1, e - 1) \o (SubSeq(s, e, first - 1) \o image \o rest)
  BY Splices DEF Replaced
<1>. HIDE DEF image, rest, first, after, e
<1>6. after - 1 \in 0 .. Len(s) /\ first - 1 \in 0 .. after - 1 /\ e - 1 \in 0 .. first - 1
      /\ first - 1 \in 0 .. Len(s) /\ e - 1 \in 0 .. Len(s) /\ e \in Nat \ {0}
      /\ after = after - 1 + 1
  BY <1>1, <1>2
<1>. DEFINE x == SubSeq(s, 1, after - 1)
            p == SubSeq(s, 1, e - 1)
            q == SubSeq(s, e, first - 1)
            u == SubSeq(s, 1, first - 1)
<1>7. x \in Seq(Symbol) /\ Len(x) = after - 1 /\ SubSeq(x, 1, first - 1) = u
  BY <1>6, CutStart
<1>8. u \in Seq(Symbol) /\ p \in Seq(Symbol)
  <2>1. 0 \in 0 .. first - 1 /\ 0 \in 0 .. e - 1
    BY <1>6
  <2>. QED
    BY <1>6, <2>1, CutStart
<1>9. q \in Seq(Symbol)
  <2>1. first - 1 \in Int /\ first - 1 <= Len(s)
    BY <1>1, <1>6
  <2>. QED
    BY <1>6, <2>1, PartType
<1>10. p \o q = u
  <2>1. 1 \in 1 .. Len(s) + 1 /\ e - 1 \in 1 - 1 .. Len(s) /\ first - 1 \in e - 1 .. Len(s)
        /\ e - 1 + 1 = e
    BY <1>1, <1>6
  <2>2. SubSeq(s, 1, e - 1) \o SubSeq(s, e - 1 + 1, first - 1) = SubSeq(s, 1, first - 1)
    BY <2>1, ConcatAdjacentSubSeq
  <2>. QED
    BY <2>1, <2>2
<1>11. c = x \o rest
  BY <1>4
<1>. HIDE DEF x, p, q, u
<1>12. SubSeq(c, 1, first - 1) = u /\ SubSeq(c, after, Len(c)) = rest
  <2>1. first - 1 \in 0 .. Len(x) /\ Len(x) + 1 = after
    BY <1>6, <1>7
  <2>2. SubSeq(x \o rest, 1, first - 1) = SubSeq(x, 1, first - 1)
        /\ SubSeq(x \o rest, Len(x) + 1, Len(x \o rest)) = rest
    BY <1>3, <1>7, <2>1, CutConcat
  <2>. QED
    BY <1>7, <1>11, <2>1, <2>2
<1>13. Replaced(s, b, n) = p \o (q \o image \o rest)
  BY <1>5 DEF p, q
<1>14. p \o (q \o image \o rest) = u \o image \o rest
  <2>. DEFINE v == q \o image
  <2>1. v \in Seq(Symbol)
    BY <1>3, <1>9, ConcatProperties
  <2>2. p \o v = u \o image
    <3>1. IsAssociative(p, q, image)
      BY <1>3, <1>8, <1>9, Associative
    <3>. QED
      BY <1>10, <3>1 DEF IsAssociative
  <2>. HIDE DEF v
  <2>3. IsAssociative(p, v, rest)
    BY <1>3, <1>8, <2>1, Associative
  <2>4. p \o (v \o rest) = (u \o image) \o rest
    BY <2>2, <2>3 DEF IsAssociative
  <2>. QED
    BY <2>4 DEF v
<1>15. u \o image \o rest \in Seq(Symbol)
  <2>1. u \o image \in Seq(Symbol)
    BY <1>3, <1>8, ConcatProperties
  <2>. QED
    BY <1>3, <2>1, ConcatProperties
<1>. QED
  BY <1>12, <1>13, <1>14, <1>15 DEF image, first, after

-----------------------------------------------------------------------------
(* A turn of scanRegion's loop.                                            *)

(* The regions in progress: the outermost has no end.                      *)
Region == [mode : {"markup", "code"}, stop : {"]", ")", None}]
Nested(r) == r \in Seq(Region) /\ r # <<>> /\ r[1].stop = None

(* What every turn does: it moves on, and at most reads one d2.            *)
Turn ==
  /\ Looking /\ Scanned
  /\ i' \in i + 1 .. End + 1
  /\ Nested(regions')
  /\ \/ UNCHANGED <<blocks, skipped>>
     \/ D2At(i) /\ Site(i)

(* What the invariant says of a turn's beginning.                          *)
LEMMA TurnBegins ==
  ASSUME Inv, Looking
  PROVE  /\ src \in Seq(Symbol) /\ i \in 1 .. Len(src) /\ i + 1 \in 1 .. End
         /\ At(i) \in Symbol /\ Len(src) \in Nat /\ End = Len(src) + 1
         /\ Nested(regions)
<1>1. src \in Seq(Symbol) /\ TypeOK /\ regions[1].stop = None
  BY DEF Inv, Typed
<1>2. Len(src) \in Nat /\ End = Len(src) + 1
  BY <1>1, Symbols
<1>3. i \in 1 .. End + 1 /\ i < End /\ Nested(regions)
  BY <1>1 DEF TypeOK, Looking, Nested, Region
<1>4. i \in 1 .. Len(src) /\ i + 1 \in 1 .. End
  BY <1>2, <1>3
<1>5. At(i) \in Symbol
  BY <1>1, <1>4, Symbols
<1>. QED
  BY <1>1, <1>2, <1>3, <1>4, <1>5

(* A name that is d2.                                                      *)
LEMMA NameRead ==
  ASSUME src \in Seq(Symbol), NEW m \in 1 .. End, NEW k \in m .. End,
         SubSeq(src, m, k - 1) = <<"d2">>
  PROVE  At(m) = "d2"
<1>1. Len(src) \in Nat /\ End = Len(src) + 1 /\ m \in Int /\ k - 1 \in Int
  BY Symbols
<1>2. \A n \in m .. k - 1 : src[n] \in Symbol
  BY <1>1, ElementOfSeq
<1>3. /\ Len(SubSeq(src, m, k - 1)) = IF m <= k - 1 THEN k - 1 - m + 1 ELSE 0
      /\ \A n \in 1 .. k - 1 - m + 1 : SubSeq(src, m, k - 1)[n] = src[m + n - 1]
  BY <1>1, <1>2, SubSeqProperties
<1>4. Len(<<"d2">>) = 1 /\ <<"d2">>[1] = "d2"
  OBVIOUS
<1>5. m <= k - 1 /\ 1 \in 1 .. k - 1 - m + 1 /\ m + 1 - 1 = m
  <2>1. 1 = IF m <= k - 1 THEN k - 1 - m + 1 ELSE 0
    <3>1. Len(SubSeq(src, m, k - 1)) = IF m <= k - 1 THEN k - 1 - m + 1 ELSE 0
      BY <1>3
    <3>. QED
      BY <1>4, <3>1
  <2>. QED
    BY <1>1, <2>1
<1>6. src[m] = "d2"
  BY <1>3, <1>4, <1>5
<1>. QED
  BY <1>1, <1>5, <1>6, Symbols

(* A region entered.                                                       *)
LEMMA EnterNested ==
  ASSUME Nested(regions), NEW mode \in {"markup", "code"}, NEW stop \in {"]", ")"},
         Enter(mode, stop)
  PROVE  Nested(regions')
<1>. DEFINE r == [mode |-> mode, stop |-> stop]
<1>1. r \in Region
  BY DEF Region
<1>2. regions \in Seq(Region) /\ Len(regions) \in Nat \ {0} /\ regions' = Append(regions, r)
  BY EmptySeq DEF Nested, Enter
<1>. HIDE DEF r
<1>3. 1 \in 1 .. Len(regions)
  BY <1>2
<1>. QED
  BY <1>1, <1>2, <1>3, AppendProperties DEF Nested

(* A comment, a string or raw text is passed.                              *)
LEMMA SkipOpaqueTurns == ASSUME Inv, SkipOpaque PROVE Turn
<1>1. /\ Looking /\ OpaqueAt(i) /\ i' = AfterOpaque(i) /\ Scanned
      /\ UNCHANGED <<regions, blocks, skipped>>
  BY DEF SkipOpaque
<1>2. AfterOpaque(i) \in i + 1 .. End + 1
  BY <1>1, TurnBegins, AfterOpaqueBounds
<1>. QED
  BY <1>1, <1>2, TurnBegins DEF Turn

(* A region is closed, never the outermost.                                *)
LEMMA CloseRegionTurns == ASSUME Inv, CloseRegion PROVE Turn
<1>1. /\ Looking /\ At(i) = region.stop /\ Scanned /\ UNCHANGED <<blocks, skipped>>
      /\ regions' = SubSeq(regions, 1, Len(regions) - 1) /\ i' = i + 1
  BY DEF CloseRegion, Plain
<1>2. regions \in Seq(Region) /\ Len(regions) \in Nat \ {0} /\ regions[1].stop = None
  BY <1>1, TurnBegins, EmptySeq DEF Nested
<1>3. Len(regions) # 1
  <2>1. region.stop # None
    BY <1>1, TurnBegins, ScannerAssumption
  <2>. QED
    BY <1>2, <2>1 DEF region
<1>4. Nested(regions')
  <2>1. \A n \in 1 .. Len(regions) - 1 : regions[n] \in Region
    BY <1>2, ElementOfSeq
  <2>2. /\ 1 \in Int /\ Len(regions) - 1 \in Int /\ 1 <= Len(regions) - 1
        /\ 1 \in 1 .. Len(regions) - 1 - 1 + 1 /\ 1 + 1 - 1 = 1
    <3>1. PICK L \in Nat \ {0} : L = Len(regions)
      BY <1>2
    <3>2. L # 1
      BY <1>3, <3>1
    <3>3. L - 1 \in Int /\ 1 <= L - 1 /\ 1 \in 1 .. L - 1 - 1 + 1
      BY <3>2
    <3>. QED
      BY <3>1, <3>3
  <2>3. /\ regions' \in Seq(Region) /\ Len(regions') = Len(regions) - 1 - 1 + 1
        /\ regions'[1] = regions[1]
    BY <1>1, <2>1, <2>2, SubSeqProperties
  <2>. QED
    BY <1>2, <2>2, <2>3, EmptySeq DEF Nested
<1>5. i' \in i + 1 .. End + 1
  BY <1>1, TurnBegins
<1>. QED
  BY <1>1, <1>4, <1>5 DEF Turn

(* A # in markup.                                                          *)
LEMMA MarkupHashTurns == ASSUME Inv, markupHash PROVE Turn
<1>. DEFINE k    == IdentEnd(i + 1)
            name == SubSeq(src, i + 1, k - 1)
<1>1. /\ Looking /\ At(i) = "#" /\ Scanned
      /\ \/ name = <<"d2">> /\ tryD2(i, k, FALSE) /\ UNCHANGED regions
         \/ i' = i + 1 /\ UNCHANGED <<regions, blocks, skipped>>
         \/ /\ UNCHANGED <<blocks, skipped>>
            /\ \/ At(k) = "(" /\ i' = k + 1 /\ Enter("code", ")")
               \/ i' = k /\ UNCHANGED regions
  BY DEF markupHash, Inside, Plain, AfterStrayHash
<1>2. /\ src \in Seq(Symbol) /\ i \in 1 .. Len(src) /\ i + 1 \in 1 .. End
      /\ Len(src) \in Nat /\ End = Len(src) + 1 /\ Nested(regions)
  BY <1>1, TurnBegins
<1>3. k \in i + 1 .. End
  BY <1>2, IdentEndBounds
<1>. HIDE DEF k
<1>4. CASE name = <<"d2">> /\ tryD2(i, k, FALSE) /\ UNCHANGED regions
  <2>1. At(i + 1) = "d2"
    BY <1>2, <1>3, <1>4, NameRead
  <2>2. Site(i)
    BY <1>2, <1>3, <1>4, CallSite
  <2>3. i' \in i + 1 .. End + 1
    BY <1>2, <2>2 DEF Site
  <2>. QED
    BY <1>1, <1>2, <1>4, <2>1, <2>2, <2>3 DEF Turn, D2At
<1>5. CASE i' = i + 1 /\ UNCHANGED <<regions, blocks, skipped>>
  BY <1>1, <1>2, <1>5 DEF Turn
<1>6. CASE UNCHANGED <<blocks, skipped>> /\ At(k) = "(" /\ i' = k + 1 /\ Enter("code", ")")
  <2>1. Nested(regions')
    BY <1>2, <1>6, EnterNested
  <2>2. i' \in i + 1 .. End + 1
    BY <1>2, <1>3, <1>6
  <2>. QED
    BY <1>1, <1>6, <2>1, <2>2 DEF Turn
<1>7. CASE UNCHANGED <<blocks, skipped>> /\ i' = k /\ UNCHANGED regions
  BY <1>1, <1>2, <1>3, <1>7 DEF Turn
<1>. QED
  BY <1>1, <1>4, <1>5, <1>6, <1>7

(* A name in code.                                                         *)
LEMMA CodeIdentTurns == ASSUME Inv, codeIdent PROVE Turn
<1>. DEFINE k == IdentEnd(i)
<1>1. /\ Looking /\ isIdentChar(At(i)) /\ Scanned /\ UNCHANGED regions
      /\ \/ SubSeq(src, i, k - 1) = <<"d2">> /\ tryD2(i, k, TRUE)
         \/ i' = k /\ UNCHANGED <<blocks, skipped>>
  BY DEF codeIdent, Inside, Plain, atIdentStart
<1>2. /\ src \in Seq(Symbol) /\ i \in 1 .. Len(src) /\ i \in 1 .. End
      /\ Len(src) \in Nat /\ End = Len(src) + 1 /\ Nested(regions)
  BY <1>1, TurnBegins
<1>3. k \in i .. End /\ k # i
  BY <1>1, <1>2, IdentEndBounds
<1>. HIDE DEF k
<1>4. k \in i + 1 .. End
  BY <1>2, <1>3
<1>5. CASE SubSeq(src, i, k - 1) = <<"d2">> /\ tryD2(i, k, TRUE)
  <2>1. At(i) = "d2"
    BY <1>2, <1>3, <1>5, NameRead
  <2>2. Site(i)
    BY <1>2, <1>4, <1>5, CallSite
  <2>3. i' \in i + 1 .. End + 1
    BY <1>2, <2>2 DEF Site
  <2>. QED
    BY <1>1, <1>2, <2>1, <2>2, <2>3 DEF Turn, D2At
<1>6. CASE i' = k /\ UNCHANGED <<blocks, skipped>>
  BY <1>1, <1>2, <1>4, <1>6 DEF Turn
<1>. QED
  BY <1>1, <1>5, <1>6

(* A #d2 in code.                                                          *)
LEMMA CodeHashTurns == ASSUME Inv, codeHash PROVE Turn
<1>1. /\ Looking /\ Scanned /\ UNCHANGED regions
      /\ PeekAt(i, <<"#", "d2">>) /\ tryD2(i, i + 2, TRUE)
  BY DEF codeHash, Inside, Plain, HashedD2
<1>2. /\ src \in Seq(Symbol) /\ i \in 1 .. Len(src) /\ Len(src) \in Nat /\ End = Len(src) + 1
      /\ Nested(regions)
  BY <1>1, TurnBegins
<1>3. At(i) = "#" /\ At(i + 1) = "d2"
  <2>1. DOMAIN <<"#", "d2">> = {1, 2} /\ <<"#", "d2">>[1] = "#" /\ <<"#", "d2">>[2] = "d2"
    OBVIOUS
  <2>2. i + 1 - 1 = i /\ i + 2 - 1 = i + 1
    BY <1>2
  <2>. QED
    BY <1>1, <2>1, <2>2 DEF PeekAt
<1>4. i + 2 \in i + 1 .. End
  <2>1. i + 1 \in 1 .. Len(src)
    <3>1. "d2" \in Symbol
      BY DEF Symbol
    <3>. QED
      BY <1>2, <1>3, <3>1, Symbols
  <2>. QED
    BY <1>2, <2>1
<1>5. Site(i)
  BY <1>1, <1>2, <1>4, CallSite
<1>6. i' \in i + 1 .. End + 1
  BY <1>2, <1>5 DEF Site
<1>. QED
  BY <1>1, <1>2, <1>3, <1>5, <1>6 DEF Turn, D2At

(* A bracket or a parenthesis that opens a region.                         *)
LEMMA OpenRegionTurns == ASSUME Inv, OpenRegion PROVE Turn
<1>1. /\ Looking /\ Scanned /\ i' = i + 1 /\ UNCHANGED <<blocks, skipped>>
      /\ Enter("markup", "]") \/ Enter("code", ")")
  BY DEF OpenRegion, Inside, Plain
<1>2. Nested(regions')
  BY <1>1, TurnBegins, EnterNested
<1>3. i' \in i + 1 .. End + 1
  BY <1>1, TurnBegins
<1>. QED
  BY <1>1, <1>2, <1>3 DEF Turn

(* Anything else.                                                          *)
LEMMA AdvanceTurns == ASSUME Inv, Advance PROVE Turn
<1>1. Looking /\ Scanned /\ i' = i + 1 /\ UNCHANGED <<regions, blocks, skipped>>
  BY DEF Advance, Inside, Plain
<1>2. i' \in i + 1 .. End + 1
  BY <1>1, TurnBegins
<1>. QED
  BY <1>1, <1>2, TurnBegins DEF Turn

(* One more call, after the others.                                        *)
LEMMA OrderedAppend ==
  ASSUME NEW s \in Seq(Symbol), NEW b \in Seq(Call), Ordered(s, b), NEW c \in Call,
         1 <= c.start, c.start < c.end, c.end <= Len(s) + 1,
         \A n \in 1 .. Len(b) : b[n].end <= c.start
  PROVE  /\ Append(b, c) \in Seq(Call) /\ Len(Append(b, c)) = Len(b) + 1
         /\ Append(b, c)[Len(b) + 1] = c
         /\ \A n \in 1 .. Len(b) : Append(b, c)[n] = b[n]
         /\ Ordered(s, Append(b, c))
<1>. DEFINE d == Append(b, c)
<1>1. d \in Seq(Call) /\ Len(d) = Len(b) + 1 /\ d[Len(b) + 1] = c
      /\ (\A n \in 1 .. Len(b) : d[n] = b[n])
  BY AppendProperties
<1>2. Len(b) \in Nat
  BY LenProperties
<1>. HIDE DEF d
<1>3. Ordered(s, d)
  <2>. SUFFICES ASSUME NEW n \in 1 .. Len(b) + 1
                PROVE  /\ 1 <= d[n].start /\ d[n].start < d[n].end /\ d[n].end <= Len(s) + 1
                       /\ n # 1 => d[n - 1].end <= d[n].start
    BY <1>1 DEF Ordered
  <2>1. n # 1 => n - 1 \in 1 .. Len(b)
    BY <1>2
  <2>2. CASE n = Len(b) + 1
    BY <1>1, <2>1, <2>2
  <2>3. CASE n # Len(b) + 1
    <3>1. n \in 1 .. Len(b)
      BY <1>2, <2>3
    <3>2. /\ 1 <= b[n].start /\ b[n].start < b[n].end /\ b[n].end <= Len(s) + 1
          /\ n # 1 => b[n - 1].end <= b[n].start
      BY <3>1 DEF Ordered
    <3>. QED
      BY <1>1, <2>1, <3>1, <3>2
  <2>. QED
    BY <2>2, <2>3
<1>. QED
  BY <1>1, <1>3 DEF d

(* A turn keeps the invariant.                                             *)
LEMMA TurnKeeps == ASSUME Inv, Turn PROVE Inv'
<1>1. /\ src \in Seq(Symbol) /\ i \in 1 .. Len(src) /\ Len(src) \in Nat
      /\ End = Len(src) + 1 /\ DOMAIN src = 1 .. Len(src)
  <2>1. Looking
    BY DEF Turn
  <2>. QED
    BY <2>1, TurnBegins, Symbols
<1>2. /\ i' \in i + 1 .. End + 1 /\ Nested(regions') /\ phase = "scan" /\ i < End
      /\ UNCHANGED <<src, written, phase, broken, rendered, placed, content, former>>
      /\ \/ UNCHANGED <<blocks, skipped>>
         \/ D2At(i) /\ Site(i)
  BY DEF Turn, Looking, Scanned, drawing
<1>3. /\ content \in Seq(Symbol) /\ rendered \in Seq(Seq(Symbol)) /\ TypeOK
      /\ CallsOrdered /\ CallsAreD2 /\ Drawn
      /\ rendered = <<>> /\ placed = 0 /\ content = src /\ broken = {}
  BY <1>2 DEF Inv, Typed, Phases
<1>4. blocks \in Seq(Call) /\ skipped \in Seq(1 .. Len(src))
      /\ Len(blocks) \in Nat /\ Len(skipped) \in Nat /\ Ordered(src, blocks)
  <2>1. blocks \in Seq(Call) /\ skipped \in Seq(1 .. Len(src)) /\ Ordered(src, blocks)
    BY <1>1, <1>3 DEF TypeOK, CallsOrdered
  <2>. QED
    BY <2>1, LenProperties
<1>5. End' = End /\ \A k : D2At(k) => D2At(k)'
  BY <1>2 DEF End, D2At, At
<1>6. /\ blocks' \in Seq(Call) /\ Ordered(src, blocks')
      /\ \A n \in 1 .. Len(blocks') : blocks'[n].end <= i' /\ D2At(blocks'[n].start)
  <2>1. /\ \A n \in 1 .. Len(blocks) : D2At(blocks[n].start)
        /\ \A n \in 1 .. Len(blocks) : /\ blocks[n].end \in Nat /\ blocks[n].end <= i
                                       /\ blocks[n].end <= i'
    <3>1. ASSUME NEW n \in 1 .. Len(blocks)
          PROVE  blocks[n].end \in Nat /\ blocks[n].end <= i /\ blocks[n].end <= i'
      <4>1. blocks[n] \in Call
        BY <1>4, ElementOfSeq
      <4>2. blocks[n].end \in Nat /\ blocks[n].end <= i
        BY <1>3, <4>1 DEF Call, CallsOrdered
      <4>. QED
        BY <1>1, <1>2, <4>2
    <3>. QED
      BY <1>3, <3>1 DEF CallsAreD2
  <2>2. CASE blocks' = blocks
    BY <1>4, <2>1, <2>2
  <2>3. CASE blocks' # blocks
    <3>1. PICK options \in Options, code \in Seq(Symbol), inCode \in BOOLEAN :
            blocks' = Append(blocks, [start |-> i, end |-> i', options |-> options,
                                      code |-> code, codeContext |-> inCode])
      BY <1>2, <2>3 DEF Site
    <3>2. D2At(i) /\ i' \in i + 1 .. End
      BY <1>2, <2>3 DEF Site
    <3>. DEFINE c == [start |-> i, end |-> i', options |-> options, code |-> code,
                      codeContext |-> inCode]
    <3>3. /\ c \in Call /\ c.start = i /\ c.end = i' /\ blocks' = Append(blocks, c)
      <4>1. i \in Nat /\ i' \in Nat
        BY <1>1, <3>2
      <4>. QED
        BY <3>1, <4>1 DEF Call
    <3>. HIDE DEF c
    <3>4. 1 <= c.start /\ c.start < c.end /\ c.end <= Len(src) + 1
      BY <1>1, <3>2, <3>3
    <3>5. \A n \in 1 .. Len(blocks) : blocks[n].end <= c.start
      BY <2>1, <3>3
    <3>6. /\ blocks' \in Seq(Call) /\ Len(blocks') = Len(blocks) + 1
          /\ blocks'[Len(blocks) + 1] = c /\ Ordered(src, blocks')
          /\ \A n \in 1 .. Len(blocks) : blocks'[n] = blocks[n]
      BY <1>1, <1>4, <3>3, <3>4, <3>5, OrderedAppend
    <3>7. \A n \in 1 .. Len(blocks') : n \in 1 .. Len(blocks) \/ n = Len(blocks) + 1
      BY <1>4, <3>6
    <3>8. i' <= i'
      BY <1>1, <3>2
    <3>. QED
      BY <2>1, <3>2, <3>3, <3>6, <3>7, <3>8
  <2>. QED
    BY <2>2, <2>3
<1>7. /\ skipped' \in Seq(1 .. Len(src))
      /\ \A n \in 1 .. Len(skipped') : D2At(skipped'[n])
  <2>1. \A n \in 1 .. Len(skipped) : D2At(skipped[n])
    BY <1>3 DEF CallsAreD2
  <2>2. CASE skipped' = skipped
    BY <1>4, <2>1, <2>2
  <2>3. CASE skipped' # skipped
    <3>1. skipped' = Append(skipped, i) /\ D2At(i)
      BY <1>2, <2>3 DEF Site
    <3>2. /\ skipped' \in Seq(1 .. Len(src)) /\ Len(skipped') = Len(skipped) + 1
          /\ skipped'[Len(skipped) + 1] = i
          /\ \A n \in 1 .. Len(skipped) : skipped'[n] = skipped[n]
      BY <1>1, <1>4, <3>1, AppendProperties
    <3>3. \A n \in 1 .. Len(skipped') : n \in 1 .. Len(skipped) \/ n = Len(skipped) + 1
      BY <1>4, <3>2
    <3>. QED
      BY <2>1, <3>1, <3>2, <3>3
  <2>. QED
    BY <2>2, <2>3
<1>8. Typed'
  <2>1. i' \in 1 .. End' + 1
    BY <1>1, <1>2, <1>5
  <2>2. /\ regions' \in Seq([mode : {"markup", "code"}, stop : {"]", ")", None}])
        /\ regions' # <<>> /\ regions'[1].stop = None
    BY <1>2 DEF Nested, Region
  <2>3. blocks' \in Seq(Call) /\ skipped' \in Seq(DOMAIN src')
    BY <1>1, <1>2, <1>6, <1>7
  <2>4. phase' \in {"scan", "render", "replace", "import", "done", "refused", "failed", "panic"}
        /\ broken' \subseteq DOMAIN blocks' /\ placed' \in 0 .. Len(rendered') /\ former' \in Seq(Call)
    BY <1>2, <1>3, EmptySeq DEF TypeOK
  <2>5. TypeOK'
    BY <2>1, <2>2, <2>3, <2>4 DEF TypeOK
  <2>. QED
    BY <1>1, <1>2, <1>3, <2>2, <2>5 DEF Typed
<1>9. CallsOrdered'
  BY <1>2, <1>6 DEF CallsOrdered
<1>10. CallsAreD2'
  BY <1>5, <1>6, <1>7 DEF CallsAreD2
<1>11. Drawn'
  <2>1. Len(blocks') \in Nat
    BY <1>6, LenProperties
  <2>2. rendered' = <<>> /\ Len(rendered') = 0
    BY <1>2, <1>3, EmptySeq
  <2>. QED
    BY <2>1, <2>2 DEF Drawn
<1>12. Phases'
  BY <1>2, <1>3 DEF Phases
<1>. QED
  BY <1>8, <1>9, <1>10, <1>11, <1>12 DEF Inv

-----------------------------------------------------------------------------
(* The other steps.                                                        *)

(* A sequence with nothing in it.                                          *)
LEMMA NoElements == \A n \in 1 .. Len(<<>>) : FALSE
<1>1. Len(<<>>) = 0
  BY EmptySeq
<1>. QED
  BY <1>1

(* What the scanner leaves alone stays ordered and read.                   *)
LEMMA CallsKept ==
  ASSUME CallsOrdered, CallsAreD2, UNCHANGED <<src, i, blocks, skipped>>
  PROVE  CallsOrdered' /\ CallsAreD2'
<1>1. End' = End /\ \A k : D2At(k) <=> D2At(k)'
  BY DEF End, D2At, At
<1>2. CallsOrdered'
  BY DEF CallsOrdered
<1>3. CallsAreD2'
  BY <1>1 DEF CallsAreD2
<1>. QED
  BY <1>2, <1>3

Fresh == src \in Seq(Symbol) /\ former \in Seq(Call) /\ Begin(src)

(* A source to preprocess, before its first turn.                          *)
LEMMA BeginHolds == Fresh => Inv
<1>. SUFFICES ASSUME Fresh PROVE Inv
  OBVIOUS
<1>0. src \in Seq(Symbol) /\ former \in Seq(Call) /\ Begin(src)
  BY DEF Fresh
<1>1. /\ i = 1 /\ regions = <<Markup>> /\ blocks = <<>> /\ skipped = <<>>
      /\ phase = "scan" /\ broken = {} /\ rendered = <<>> /\ placed = 0 /\ content = src
  BY <1>0 DEF Begin
<1>2. Len(src) \in Nat /\ End = Len(src) + 1
  BY <1>0, Symbols
<1>3. Markup \in Region /\ Markup.stop = None
  BY DEF Markup, Region
<1>4. regions \in Seq(Region) /\ regions # <<>> /\ regions[1].stop = None
  BY <1>1, <1>3
<1>5. TypeOK
  <2>1. i \in 1 .. End + 1
    BY <1>1, <1>2
  <2>2. regions \in Seq([mode : {"markup", "code"}, stop : {"]", ")", None}]) /\ regions # <<>>
    BY <1>4 DEF Region
  <2>3. blocks \in Seq(Call) /\ skipped \in Seq(DOMAIN src) /\ Len(rendered) = 0
    BY <1>1, EmptySeq
  <2>. QED
    BY <1>0, <1>1, <2>1, <2>2, <2>3 DEF TypeOK
<1>6. Typed
  <2>1. rendered \in Seq(Seq(Symbol))
    BY <1>1, EmptySeq
  <2>. QED
    BY <1>0, <1>1, <1>4, <1>5, <2>1 DEF Typed
<1>7. CallsOrdered /\ CallsAreD2
  BY <1>1, NoElements DEF CallsOrdered, CallsAreD2, Ordered
<1>8. Drawn
  <2>1. Len(blocks) = 0 /\ Len(rendered) = 0
    BY <1>1, EmptySeq
  <2>. QED
    BY <1>1, <2>1, NoElements DEF Drawn
<1>9. Phases
  BY <1>1 DEF Phases
<1>. QED
  BY <1>6, <1>7, <1>8, <1>9 DEF Inv

(* Initially.                                                              *)
LEMMA InitHolds == Init => Inv
<1>. SUFFICES ASSUME Init PROVE Inv
  OBVIOUS
<1>1. src \in Seq(Symbol) /\ former \in Seq(Call) /\ Begin(src)
  BY ScannerAssumption DEF Init
<1>. QED
  BY <1>1, BeginHolds DEF Fresh

(* The end of the source.                                                  *)
LEMMA ScanEndKeeps == ASSUME Inv, scanD2Calls PROVE Inv'
<1>1. /\ phase = "scan" /\ broken' \in SUBSET DOMAIN blocks
      /\ phase' \in {"refused", "done", "render"}
      /\ phase' = "render" => blocks # <<>>
      /\ UNCHANGED <<src, i, regions, blocks, skipped, rendered, placed, content, former>>
  BY DEF scanD2Calls, scanning
<1>2. /\ Typed /\ TypeOK /\ CallsOrdered /\ CallsAreD2 /\ Drawn
      /\ rendered = <<>> /\ placed = 0 /\ content = src
  BY <1>1 DEF Inv, Typed, Phases
<1>3. Typed'
  <2>1. TypeOK'
    BY <1>1, <1>2 DEF TypeOK, End
  <2>. QED
    BY <1>1, <1>2, <2>1 DEF Typed
<1>4. CallsOrdered' /\ CallsAreD2'
  BY <1>1, <1>2, CallsKept
<1>5. Drawn'
  <2>1. \A n \in 1 .. Len(rendered) : FALSE
    BY <1>2, NoElements
  <2>. QED
    BY <1>1, <1>2, <2>1 DEF Drawn
<1>6. Phases'
  <2>1. phase' = "render" => Len(rendered) < Len(blocks)
    <3>1. blocks \in Seq(Call) /\ Len(rendered) = 0
      BY <1>2, EmptySeq DEF TypeOK
    <3>. QED
      BY <1>1, <3>1, EmptySeq
  <2>. QED
    BY <1>1, <1>2, <2>1 DEF Phases
<1>. QED
  BY <1>3, <1>4, <1>5, <1>6 DEF Inv

(* A diagram is drawn, or cannot be.                                       *)
LEMMA RenderKeeps == ASSUME Inv, Render PROVE Inv'
<1>1. /\ phase = "render"
      /\ UNCHANGED <<src, i, regions, blocks, skipped, broken, placed, content, former>>
      /\ \/ Drawing \in broken /\ phase' = "failed" /\ UNCHANGED rendered
         \/ /\ Drawing \notin broken
            /\ rendered' = Append(rendered, svgToTypstImage(blocks[Drawing]))
            /\ phase' = IF Len(rendered') = Len(blocks) THEN "replace" ELSE "render"
  BY DEF Render, scanning
<1>2. /\ Typed /\ TypeOK /\ CallsOrdered /\ CallsAreD2 /\ Drawn
      /\ placed = 0 /\ content = src /\ Len(rendered) < Len(blocks)
  BY <1>1 DEF Inv, Typed, Phases
<1>3. /\ src \in Seq(Symbol) /\ blocks \in Seq(Call) /\ rendered \in Seq(Seq(Symbol))
      /\ Len(rendered) \in Nat /\ Len(blocks) \in Nat /\ Ordered(src, blocks)
  <2>1. /\ src \in Seq(Symbol) /\ blocks \in Seq(Call) /\ rendered \in Seq(Seq(Symbol))
        /\ Ordered(src, blocks)
    BY <1>2 DEF Typed, TypeOK, CallsOrdered
  <2>. QED
    BY <2>1, LenProperties
<1>4. CallsOrdered' /\ CallsAreD2'
  BY <1>1, <1>2, CallsKept
<1>5. CASE Drawing \in broken /\ phase' = "failed" /\ UNCHANGED rendered
  <2>1. Typed'
    <3>1. TypeOK'
      BY <1>1, <1>2, <1>5 DEF TypeOK, End
    <3>. QED
      BY <1>1, <1>2, <1>5, <3>1 DEF Typed
  <2>2. Drawn'
    BY <1>1, <1>2, <1>5 DEF Drawn
  <2>3. Phases'
    BY <1>1, <1>2, <1>5 DEF Phases, Drawing, FirstFirst
  <2>. QED
    BY <1>4, <2>1, <2>2, <2>3 DEF Inv
<1>6. CASE /\ Drawing \notin broken
           /\ rendered' = Append(rendered, svgToTypstImage(blocks[Drawing]))
           /\ phase' = IF Len(rendered') = Len(blocks) THEN "replace" ELSE "render"
  <2>. DEFINE L == Len(rendered)
  <2>1. Drawing = L + 1
    BY DEF Drawing, FirstFirst
  <2>2. /\ rendered' \in Seq(Seq(Symbol)) /\ Len(rendered') = L + 1
        /\ \A n \in 1 .. L : rendered'[n] = rendered[n]
        /\ rendered'[L + 1] = svgToTypstImage(blocks[L + 1])
    <3>. DEFINE image == svgToTypstImage(blocks[L + 1])
    <3>0. blocks[L + 1] \in Call
      <4>1. L + 1 \in 1 .. Len(blocks)
        BY <1>2, <1>3
      <4>. QED
        BY <1>3, <4>1, ElementOfSeq
    <3>1. image \in Seq(Symbol) /\ rendered' = Append(rendered, image)
      BY <1>6, <2>1, <3>0, ImageType
    <3>. HIDE DEF image
    <3>2. /\ rendered' \in Seq(Seq(Symbol)) /\ Len(rendered') = L + 1
          /\ \A n \in 1 .. L : rendered'[n] = rendered[n]
          /\ rendered'[L + 1] = image
      BY <1>3, <3>1, AppendProperties
    <3>. QED
      BY <3>2 DEF image
  <2>. HIDE DEF L
  <2>3. L \in Nat /\ L < Len(blocks)
    BY <1>2, <1>3 DEF L
  <2>4. Typed'
    <3>1. placed' \in 0 .. Len(rendered')
      BY <1>1, <1>2, <2>2, <2>3
    <3>2. TypeOK'
      BY <1>1, <1>2, <1>6, <3>1 DEF TypeOK, End
    <3>. QED
      BY <1>1, <1>2, <2>2, <3>2 DEF Typed
  <2>5. Drawn'
    <3>1. \A n \in 1 .. L + 1 : n \in 1 .. L \/ n = L + 1
      BY <2>3
    <3>2. \A n \in 1 .. L : rendered[n] = svgToTypstImage(blocks[n]) /\ n \notin broken
      BY <1>2 DEF Drawn, L
    <3>3. \A n \in 1 .. L + 1 : rendered'[n] = svgToTypstImage(blocks[n]) /\ n \notin broken
      BY <1>6, <2>1, <2>2, <3>1, <3>2
    <3>4. L + 1 <= Len(blocks)
      BY <1>3, <2>3
    <3>. QED
      BY <1>1, <2>2, <3>3, <3>4 DEF Drawn
  <2>6. Phases'
    <3>1. CASE L + 1 = Len(blocks)
      <4>1. content' = Replaced(src, blocks, Len(blocks) - 0 + 1)
        <5>1. Len(blocks) - 0 + 1 = Len(blocks) + 1
          BY <1>3
        <5>. QED
          BY <1>1, <1>2, <1>3, <5>1, ReplacedEnds
      <4>2. phase' = "replace" /\ 0 < Len(blocks)
        BY <1>6, <2>2, <2>3, <3>1
      <4>. QED
        BY <1>1, <1>2, <2>2, <3>1, <4>1, <4>2 DEF Phases
    <3>2. CASE L + 1 # Len(blocks)
      <4>1. phase' = "render" /\ L + 1 < Len(blocks)
        BY <1>3, <1>6, <2>2, <2>3, <3>2
      <4>. QED
        BY <1>1, <1>2, <2>2, <4>1 DEF Phases
    <3>. QED
      BY <3>1, <3>2
  <2>. QED
    BY <1>4, <2>4, <2>5, <2>6 DEF Inv
<1>. QED
  BY <1>1, <1>5, <1>6

(* One more image put in the place of its call.                            *)
LEMMA ReplaceKeeps == ASSUME Inv, Replace PROVE Inv'
<1>. DEFINE n == Len(blocks) - placed
<1>1. /\ phase = "replace"
      /\ content' = SubSeq(content, 1, blocks[n].start - 1) \o rendered[n]
                      \o SubSeq(content, blocks[n].end, Len(content))
      /\ placed' = placed + 1
      /\ phase' = IF placed' = Len(blocks) THEN "import" ELSE "replace"
      /\ UNCHANGED <<src, i, regions, blocks, skipped, broken, rendered, former>>
  BY DEF Replace, Backward, scanning
<1>2. /\ Typed /\ TypeOK /\ CallsOrdered /\ CallsAreD2 /\ Drawn
      /\ Len(rendered) = Len(blocks) /\ placed < Len(blocks)
      /\ content = Replaced(src, blocks, Len(blocks) - placed + 1)
  BY <1>1 DEF Inv, Typed, Phases
<1>3. /\ src \in Seq(Symbol) /\ blocks \in Seq(Call) /\ Ordered(src, blocks)
      /\ placed \in 0 .. Len(blocks) /\ Len(blocks) \in Nat
  <2>1. /\ src \in Seq(Symbol) /\ blocks \in Seq(Call) /\ Ordered(src, blocks)
        /\ placed \in 0 .. Len(blocks)
    BY <1>2 DEF Typed, TypeOK, CallsOrdered
  <2>. QED
    BY <2>1, LenProperties
<1>4. /\ n \in 1 .. Len(blocks) /\ Len(blocks) - placed' + 1 = n
      /\ placed' \in 0 .. Len(blocks)
  BY <1>1, <1>2, <1>3
<1>5. content = Replaced(src, blocks, n + 1)
  BY <1>2
<1>. HIDE DEF n
<1>6. rendered[n] = svgToTypstImage(blocks[n])
  BY <1>2, <1>4 DEF Drawn
<1>7. content' = Replaced(src, blocks, n) /\ content' \in Seq(Symbol)
  <2>1. /\ SubSeq(content, 1, blocks[n].start - 1) \o svgToTypstImage(blocks[n])
              \o SubSeq(content, blocks[n].end, Len(content)) = Replaced(src, blocks, n)
        /\ Replaced(src, blocks, n) \in Seq(Symbol)
    BY <1>3, <1>4, <1>5, ReplacedOne
  <2>. QED
    BY <1>1, <1>6, <2>1
<1>8. CallsOrdered' /\ CallsAreD2'
  BY <1>1, <1>2, CallsKept
<1>9. Typed'
  <2>1. placed' \in 0 .. Len(rendered')
    BY <1>1, <1>2, <1>4
  <2>2. TypeOK'
    BY <1>1, <1>2, <2>1 DEF TypeOK, End
  <2>. QED
    BY <1>1, <1>2, <1>7, <2>2 DEF Typed
<1>10. Drawn'
  BY <1>1, <1>2 DEF Drawn
<1>11. Phases'
  <2>1. content' = Replaced(src', blocks', Len(blocks') - placed' + 1)
    BY <1>1, <1>4, <1>7
  <2>2. CASE placed' = Len(blocks)
    BY <1>1, <1>2, <2>1, <2>2 DEF Phases
  <2>3. CASE placed' # Len(blocks)
    <3>1. placed' < Len(blocks)
      BY <1>3, <1>4, <2>3
    <3>. QED
      BY <1>1, <1>2, <2>1, <2>3, <3>1 DEF Phases
  <2>. QED
    BY <2>2, <2>3
<1>. QED
  BY <1>8, <1>9, <1>10, <1>11 DEF Inv

(* Where the lines of imports end is in the source, or just past it.       *)
LEMMA ImportEndsIn ==
  ASSUME NEW c \in Seq(Symbol)
  PROVE  ImportEnds(c) \subseteq 1 .. Len(c) + 1
<1>1. Len(c) \in Nat
  BY LenProperties
<1>. DEFINE T(n) == {m \in n .. Len(c) + 1 : m > Len(c) \/ c[m] = "nl"}
<1>2. ASSUME NEW n \in 1 .. Len(c) - 1 PROVE Least(T(n)) \in 1 .. Len(c) + 1
  <2>1. Len(c) + 1 \in T(n) /\ T(n) \subseteq 1 .. Len(c) + 1 /\ T(n) \in SUBSET Nat
    BY <1>1
  <2>. HIDE DEF T
  <2>2. Least(T(n)) \in T(n)
    BY <2>1, LeastNat
  <2>. QED
    BY <2>1, <2>2
<1>3. \A e \in ImportEnds(c) : \E n \in 1 .. Len(c) - 1 : e = Least(T(n))
  BY DEF ImportEnds
<1>. HIDE DEF T
<1>. QED
  BY <1>2, <1>3

(* The import is added.                                                    *)
LEMMA ImportKeeps == ASSUME Inv, addBasedImport PROVE Inv'
<1>. DEFINE ends == ImportEnds(content)
            last == Greatest(ends)
<1>1. /\ phase = "import" /\ phase' \in {"done", "panic"}
      /\ UNCHANGED <<src, i, regions, blocks, skipped, broken, rendered, placed, former>>
      /\ \/ UNCHANGED content
         \/ content' = BasedImport \o content
         \/ /\ ends # {}
            /\ content' = SubSeq(content, 1, last) \o BasedImport
                            \o SubSeq(content, last + 1, Len(content))
            /\ ~(last > Len(content))
  BY DEF addBasedImport, scanning
<1>2. Typed /\ TypeOK /\ CallsOrdered /\ CallsAreD2 /\ Drawn /\ content \in Seq(Symbol)
  BY DEF Inv, Typed
<1>3. BasedImport \in Seq(Symbol)
  <2>1. "#" \in Symbol /\ "import" \in Symbol /\ "based" \in Symbol /\ "nl" \in Symbol
    BY DEF Symbol
  <2>. QED
    BY <2>1 DEF BasedImport
<1>4. content' \in Seq(Symbol)
  <2>1. CASE content' = content
    BY <1>2, <2>1
  <2>2. CASE content' = BasedImport \o content
    BY <1>2, <1>3, <2>2, ConcatProperties
  <2>3. CASE /\ ends # {} /\ ~(last > Len(content))
             /\ content' = SubSeq(content, 1, last) \o BasedImport
                             \o SubSeq(content, last + 1, Len(content))
    <3>1. Len(content) \in Nat /\ ends \subseteq 1 .. Len(content) + 1
      BY <1>2, LenProperties, ImportEndsIn
    <3>. HIDE DEF ends
    <3>2. last \in ends
      <4>1. ends \in SUBSET Nat /\ Len(content) + 1 \in Nat /\ \A m \in ends : m <= Len(content) + 1
        BY <3>1
      <4>2. \E n \in ends : \A m \in ends : m <= n
        BY <2>3, <4>1, GreatestNat
      <4>. QED
        BY <4>2 DEF Greatest
    <3>. HIDE DEF last
    <3>3. last \in 1 .. Len(content)
      BY <2>3, <3>1, <3>2
    <3>4. last \in Int /\ last <= Len(content) /\ last + 1 \in Nat \ {0} /\ 1 \in Nat \ {0}
          /\ Len(content) \in Int /\ Len(content) <= Len(content)
      BY <3>1, <3>3
    <3>. DEFINE x == SubSeq(content, 1, last)
                y == SubSeq(content, last + 1, Len(content))
    <3>5. x \in Seq(Symbol) /\ y \in Seq(Symbol)
      BY <1>2, <3>4, PartType
    <3>6. content' = (x \o BasedImport) \o y
      BY <2>3
    <3>. HIDE DEF x, y
    <3>7. x \o BasedImport \in Seq(Symbol)
      BY <1>3, <3>5, ConcatProperties
    <3>. QED
      BY <3>5, <3>6, <3>7, ConcatProperties
  <2>. HIDE DEF ends, last
  <2>. QED
    BY <1>1, <2>1, <2>2, <2>3
<1>. HIDE DEF ends, last
<1>5. CallsOrdered' /\ CallsAreD2'
  BY <1>1, <1>2, CallsKept
<1>6. Typed'
  <2>1. TypeOK'
    BY <1>1, <1>2 DEF TypeOK, End
  <2>. QED
    BY <1>1, <1>2, <1>4, <2>1 DEF Typed
<1>7. Drawn' /\ Phases'
  BY <1>1, <1>2 DEF Drawn, Phases
<1>. QED
  BY <1>5, <1>6, <1>7 DEF Inv

(* The output is preprocessed again.                                       *)
LEMMA PreprocessKeeps == ASSUME Inv, Preprocess PROVE Inv'
<1>1. Fresh'
  BY DEF Preprocess, Fresh, Begin, Inv, Typed, TypeOK
<1>2. (Fresh => Inv)'
  BY BeginHolds, PTL
<1>. QED
  BY <1>1, <1>2

(* Nothing changes.                                                        *)
LEMMA StutterKeeps == ASSUME Inv, UNCHANGED vars PROVE Inv'
<1>1. UNCHANGED <<src, written, i, regions, blocks, skipped, phase, broken, rendered, placed,
                  content, former>>
  BY DEF vars, scanning, drawing
<1>2. CallsOrdered' /\ CallsAreD2'
  BY <1>1, CallsKept DEF Inv
<1>3. Typed'
  BY <1>1 DEF Inv, Typed, TypeOK, End
<1>4. Drawn' /\ Phases'
  BY <1>1 DEF Inv, Drawn, Phases, Drawing, FirstFirst
<1>. QED
  BY <1>2, <1>3, <1>4 DEF Inv

-----------------------------------------------------------------------------
(* The theorems.                                                           *)

(* Every turn of the loop is one.                                          *)
LEMMA ScanTurns ==
  ASSUME Inv, ScanStep
  PROVE  Turn \/ scanD2Calls
BY SkipOpaqueTurns, CloseRegionTurns, MarkupHashTurns, CodeIdentTurns, CodeHashTurns,
   OpenRegionTurns, AdvanceTurns DEF ScanStep

(* The invariant holds.                                                    *)
THEOREM Invariance == Spec => []Inv
<1>1. Inv /\ [Next]_vars => Inv'
  <2>. SUFFICES ASSUME Inv, [Next]_vars PROVE Inv'
    OBVIOUS
  <2>1. CASE ScanStep
    BY <2>1, ScanTurns, TurnKeeps, ScanEndKeeps
  <2>2. CASE Render
    BY <2>2, RenderKeeps
  <2>3. CASE Replace
    BY <2>3, ReplaceKeeps
  <2>4. CASE addBasedImport
    BY <2>4, ImportKeeps
  <2>5. CASE Preprocess
    BY <2>5, PreprocessKeeps
  <2>6. CASE UNCHANGED vars
    BY <2>6, StutterKeeps
  <2>. QED
    BY <2>1, <2>2, <2>3, <2>4, <2>5, <2>6 DEF Next
<1>. QED
  BY <1>1, InitHolds, PTL DEF Spec

(* The types hold: the scanner never reads past the end of the source by   *)
(* more than the escape that ends it, never closes the outermost region,   *)
(* and takes each call, its offsets and its D2 source from the source.     *)
THEOREM TypesHold == Spec => []TypeOK
<1>1. Inv => TypeOK
  BY DEF Inv, Typed
<1>. QED
  BY <1>1, Invariance, PTL

(* The calls that scanD2Calls reports are in the order of the source, none *)
(* overlaps another, and each, like each one it gives up, is a d2: the     *)
(* half of CallsFound that holds whatever the author meant.                *)
THEOREM CallsAreApart == Spec => [](CallsOrdered /\ CallsAreD2)
<1>1. Inv => CallsOrdered /\ CallsAreD2
  BY DEF Inv
<1>. QED
  BY <1>1, Invariance, PTL

(* Every image stands where its call stood, and the text between the calls *)
(* is untouched: Preprocess replaces from the last to the first, and the   *)
(* offsets of a call hold until its turn comes.                            *)
THEOREM ImagesInPlace == Spec => []DiagramsInPlace
<1>1. Inv => DiagramsInPlace
  <2>. SUFFICES ASSUME Inv, phase = "import" PROVE content = Spliced
    BY DEF DiagramsInPlace
  <2>1. /\ src \in Seq(Symbol) /\ blocks \in Seq(Call) /\ Ordered(src, blocks)
        /\ placed = Len(blocks) /\ content = Replaced(src, blocks, Len(blocks) - placed + 1)
    BY DEF Inv, Typed, TypeOK, CallsOrdered, Phases
  <2>2. Len(blocks) - placed + 1 = 1
    <3>1. Len(blocks) \in Nat
      BY <2>1, LenProperties
    <3>. QED
      BY <2>1, <3>1
  <2>3. content = SplicedFrom(src, blocks)[1]
    BY <2>1, <2>2, ReplacedEnds
  <2>4. Spliced = SplicedFrom(src, blocks)[1]
    BY DEF Spliced, SplicedFrom, IsSplice, EndBefore
  <2>. QED
    BY <2>3, <2>4
<1>. QED
  BY <1>1, Invariance, PTL

(* The diagram that a failure names is the first in the document that d2   *)
(* cannot draw: Preprocess renders forward.                                *)
THEOREM NamesTheFirst == Spec => []FirstFailureNamed
<1>1. Inv => FirstFailureNamed
  <2>. SUFFICES ASSUME Inv, phase = "failed" PROVE Drawing = Least(broken)
    BY DEF FirstFailureNamed
  <2>1. /\ Drawing \in broken /\ Drawing = Len(rendered) + 1
        /\ broken \subseteq DOMAIN blocks /\ blocks \in Seq(Call) /\ rendered \in Seq(Seq(Symbol))
        /\ \A n \in 1 .. Len(rendered) : n \notin broken
    BY DEF Inv, Typed, TypeOK, Drawn, Phases, Drawing, FirstFirst
  <2>2. Len(rendered) \in Nat /\ DOMAIN blocks = 1 .. Len(blocks) /\ Len(blocks) \in Nat
    BY <2>1, LenProperties
  <2>3. broken \in SUBSET Nat /\ broken # {} /\ \A m \in broken : Len(rendered) + 1 <= m
    BY <2>1, <2>2
  <2>4. Least(broken) \in broken /\ \A m \in broken : Least(broken) <= m
    BY <2>3, LeastNat
  <2>. DEFINE least == Least(broken)
  <2>5. least \in broken /\ least <= Len(rendered) + 1
    BY <2>1, <2>4
  <2>. HIDE DEF least
  <2>6. least \in Nat /\ Len(rendered) + 1 <= least
    BY <2>3, <2>5
  <2>7. least = Len(rendered) + 1
    BY <2>2, <2>5, <2>6
  <2>. QED
    BY <2>1, <2>7 DEF least
<1>. QED
  BY <1>1, Invariance, PTL

(* No step of Preprocess turns in circles: each moves the scanner on, or   *)
(* draws one more diagram, or replaces one more call, or goes on to a      *)
(* later phase, and none of these is ever undone but to begin again on the *)
(* output.  TypeOK bounds them all: this is what Terminates rests on.      *)
THEOREM StepsGoOn == Spec => [][Onward]_vars
<1>1. Inv /\ [Next]_vars => [Onward]_vars
  <2>. SUFFICES ASSUME Inv, [Next]_vars PROVE [Onward]_vars
    OBVIOUS
  <2>1. /\ i \in Nat /\ Len(rendered) \in Nat /\ placed \in Nat /\ Len(src) \in Nat
        /\ rendered \in Seq(Seq(Symbol)) /\ src \in Seq(Symbol) /\ End = Len(src) + 1
    <3>1. rendered \in Seq(Seq(Symbol)) /\ src \in Seq(Symbol)
      BY DEF Inv, Typed
    <3>2. Len(rendered) \in Nat /\ Len(src) \in Nat /\ End = Len(src) + 1
      BY <3>1, LenProperties, Symbols
    <3>3. i \in 1 .. End + 1 /\ placed \in 0 .. Len(rendered)
      BY DEF Inv, Typed, TypeOK
    <3>. QED
      BY <3>1, <3>2, <3>3
  <2>2. CASE Turn
    <3>1. /\ i' \in i + 1 .. End + 1 /\ UNCHANGED <<src, former, phase, rendered, placed>>
      BY <2>2 DEF Turn, Scanned, drawing
    <3>2. i < i' /\ i <= i'
      BY <2>1, <3>1
    <3>. QED
      BY <2>1, <3>1, <3>2 DEF Onward
  <2>3. CASE scanD2Calls
    <3>1. /\ phase = "scan" /\ phase' \in {"refused", "done", "render"} /\ UNCHANGED <<src, former>>
      BY <2>3 DEF scanD2Calls
    <3>. QED
      BY <3>1 DEF Onward, Rank
  <2>4. CASE Render
    <3>1. /\ phase = "render" /\ UNCHANGED <<src, former, i, placed>>
          /\ \/ phase' = "failed"
             \/ /\ rendered' = Append(rendered, svgToTypstImage(blocks[Drawing]))
                /\ phase' \in {"replace", "render"}
      BY <2>4 DEF Render, scanning
    <3>2. CASE phase' \in {"failed", "replace"}
      BY <3>1, <3>2 DEF Onward, Rank
    <3>3. CASE phase' = "render"
      <4>1. rendered' = Append(rendered, svgToTypstImage(blocks[Drawing]))
        BY <3>1, <3>3
      <4>. DEFINE image == svgToTypstImage(blocks[Drawing])
      <4>2. image \in Seq(Symbol)
        <5>1. Len(rendered) < Len(blocks) /\ blocks \in Seq(Call) /\ Len(rendered) \in Nat
          BY <2>1, <3>1 DEF Inv, Phases, Typed, TypeOK
        <5>2. blocks[Drawing] \in Call
          BY <5>1, ElementOfSeq DEF Drawing, FirstFirst
        <5>. QED
          BY <5>2, ImageType
      <4>3. rendered' = Append(rendered, image)
        BY <4>1
      <4>. HIDE DEF image
      <4>4. Len(rendered') = Len(rendered) + 1
        BY <2>1, <4>2, <4>3, AppendProperties
      <4>5. Len(rendered) < Len(rendered') /\ Len(rendered) <= Len(rendered') /\ i <= i
            /\ placed <= placed
        BY <2>1, <4>4
      <4>. QED
        BY <3>1, <3>3, <4>5 DEF Onward
    <3>. QED
      BY <3>1, <3>2, <3>3
  <2>5. CASE Replace
    <3>1. /\ phase = "replace" /\ phase' \in {"import", "replace"} /\ placed' = placed + 1
          /\ UNCHANGED <<src, former, i, rendered>>
      BY <2>5 DEF Replace, scanning
    <3>2. CASE phase' = "import"
      BY <3>1, <3>2 DEF Onward, Rank
    <3>3. CASE phase' = "replace"
      <4>1. placed < placed' /\ placed <= placed' /\ i <= i /\ Len(rendered) <= Len(rendered)
        BY <2>1, <3>1
      <4>. QED
        BY <3>1, <3>3, <4>1 DEF Onward
    <3>. QED
      BY <3>1, <3>2, <3>3
  <2>6. CASE addBasedImport
    <3>1. phase = "import" /\ phase' \in {"done", "panic"} /\ UNCHANGED <<src, former>>
      BY <2>6 DEF addBasedImport
    <3>. QED
      BY <3>1 DEF Onward, Rank
  <2>7. CASE Preprocess
    BY <2>7 DEF Preprocess, Onward
  <2>8. CASE UNCHANGED vars
    BY <2>8
  <2>. QED
    BY <2>2, <2>3, <2>4, <2>5, <2>6, <2>7, <2>8, ScanTurns DEF Next
<1>. QED
  BY <1>1, Invariance, PTL DEF Spec

-----------------------------------------------------------------------------
(* The trail of a scan: where the scanner stops to look, and the regions   *)
(* it is in there.  It says of any text what a scan of the source does, so *)
(* that two texts can be compared.                                         *)

(* The symbol at k, as At reads that of the source.                        *)
Sym(s, k) == IF k \in DOMAIN s THEN s[k] ELSE None

(* Raw text, a block comment and a raw block are closed by a mark of one,  *)
(* two and three symbols.                                                  *)
Shut(s, o, k) ==
  \/ o = 1 /\ Sym(s, k) = "tick"
  \/ o = 2 /\ Sym(s, k) = "*" /\ Sym(s, k + 1) = "/"
  \/ o = 3 /\ Sym(s, k) = "tick" /\ Sym(s, k + 1) = "tick" /\ Sym(s, k + 2) = "tick"
Closed(s, o, k, j) ==
  /\ j - o >= k /\ Shut(s, o, j - o)
  /\ \A n \in k .. j - o - 1 : ~Shut(s, o, n)
Unclosed(s, o, k, j) == j = Len(s) + 1 /\ \A n \in k .. Len(s) : ~Shut(s, o, n)
ShutBy(s, o, k, j) == Closed(s, o, k, j) \/ Unclosed(s, o, k, j)

(* The line from k ends at j.                                              *)
LineBy(s, k, j) ==
  /\ j \in k .. Len(s) + 1 /\ Sym(s, j) \in {"nl", None}
  /\ \A n \in k .. j - 1 : Sym(s, n) # "nl"

(* A string whose text starts at k ends before j: C are the places where   *)
(* it is read, an escape and what it takes at once.                        *)
Reads(s, C, j) ==
  \A n \in C :
    \/ n > Len(s) /\ j = n
    \/ n <= Len(s) /\ Sym(s, n) = "esc" /\ n + 2 \in C
    \/ n <= Len(s) /\ Sym(s, n) = "quote" /\ j = n + 1
    \/ n <= Len(s) /\ Sym(s, n) \notin {"esc", "quote"} /\ n + 1 \in C
StringBy(s, k, j) ==
  /\ j \in Nat
  /\ \E C \in SUBSET (k .. j) : k \in C /\ Reads(s, C, j)

(* Opaque text at k, and opaque text from k to j.                          *)
Opens(s, k) ==
  \/ Sym(s, k) = "/" /\ Sym(s, k + 1) \in {"/", "*"}
  \/ Sym(s, k) \in {"quote", "tick"}
Opaque(s, k, j) ==
  \/ Sym(s, k) = "/" /\ Sym(s, k + 1) = "/" /\ LineBy(s, k + 2, j)
  \/ Sym(s, k) = "/" /\ Sym(s, k + 1) = "*" /\ ShutBy(s, 2, k + 2, j)
  \/ Sym(s, k) = "quote" /\ StringBy(s, k + 1, j)
  \/ Shut(s, 3, k) /\ ShutBy(s, 3, k + 3, j)
  \/ Sym(s, k) = "tick" /\ ~Shut(s, 3, k) /\ ShutBy(s, 1, k + 1, j)

(* The stack of regions.                                                   *)
InMarkup == [mode |-> "markup", stop |-> "]"]
CodeArgs == [mode |-> "code", stop |-> ")"]
Stack    == {r \in Seq({Markup, InMarkup, CodeArgs}) : r # <<>>}
Top(r)   == r[Len(r)]
Room(r)  == Len(r) - 1 < maxScanDepth

(* No call at k, and nothing that looks like one.                          *)
Bracket == {"(", "["}
NoCall(s, k, mode) ==
  /\ ~(Sym(s, k) = "#" /\ Sym(s, k + 1) = "d2" /\ Sym(s, k + 2) \in Bracket)
  /\ mode = "code" =>
       ~(/\ Sym(s, k) = "d2" /\ Sym(s, k + 1) \in Bracket
         /\ ~isIdentChar(Sym(s, k - 1)) /\ Sym(s, k - 1) # ".")

(* A name after k, up to j, which may be empty.                            *)
Name(s, k, j) ==
  /\ j \in k + 1 .. Len(s) + 1 /\ ~isIdentChar(Sym(s, j))
  /\ \A n \in k + 1 .. j - 1 : isIdentChar(Sym(s, n))

(* From k, in regions r, to j, in regions q, and no call on the way.       *)
Hash(s, k, r, j, q) ==
  \E e \in k + 1 .. Len(s) + 1 :
    /\ Name(s, k, e)
    /\ IF e # k + 1 /\ Sym(s, e) = "(" /\ Room(r)
       THEN j = e + 1 /\ q = Append(r, CodeArgs)
       ELSE j = e /\ q = r
Delimiter(s, k, r, j, q) ==
  /\ j = k + 1
  /\ IF Sym(s, k) = "[" /\ Room(r) THEN q = Append(r, InMarkup)
     ELSE IF Sym(s, k) = "(" /\ Top(r).mode = "code" /\ Room(r) THEN q = Append(r, CodeArgs)
     ELSE q = r
Quiet(s, k, r, j, q) ==
  /\ k \in 1 .. Len(s)
  /\ \/ Opaque(s, k, j) /\ q = r
     \/ /\ ~Opens(s, k) /\ NoCall(s, k, Top(r).mode)
        /\ IF Sym(s, k) = Top(r).stop THEN j = k + 1 /\ q = SubSeq(r, 1, Len(r) - 1)
           ELSE IF Sym(s, k) = "#" /\ Top(r).mode = "markup" THEN Hash(s, k, r, j, q)
           ELSE Delimiter(s, k, r, j, q)

(* From the start of a call to its end, where there is room for the three  *)
(* levels of its image.                                                    *)
Ample(r) == Len(r) - 1 + 3 <= maxScanDepth
CallRead(s, c, k, r, j, q) ==
  /\ k = c.start /\ j = c.end /\ q = r /\ Sym(s, j - 1) \in {"]", ")"} /\ Ample(r)
  /\ IF c.codeContext
     THEN Top(r).mode = "code" /\ Sym(s, k) \in {"#", "d2"}
     ELSE Top(r).mode = "markup" /\ Sym(s, k) = "#"

(* A trail from a to z stops at the places of D, one after another; N are  *)
(* the calls of b that it reads.                                           *)
Follows(D, k, j) == k \in D /\ j \in D /\ k < j /\ \A n \in D : n <= k \/ j <= n
Goes(s, b, N, k, r, j, q) == Quiet(s, k, r, j, q) \/ \E n \in N : CallRead(s, b[n], k, r, j, q)
Trail(s, b, N, D, at, a, z) ==
  /\ a \in Nat \ {0} /\ z \in Nat /\ D \in SUBSET (a .. z) /\ a \in D /\ z \in D
  /\ at \in [D -> Stack]
  /\ \A k \in D \ {z} : \E j \in D : Follows(D, k, j) /\ Goes(s, b, N, k, at[k], j, at[j])
  /\ \A n \in N :
       LET k == b[n].start
           j == b[n].end IN
       Follows(D, k, j) /\ CallRead(s, b[n], k, at[k], j, at[j])

(* There is one that starts in regions r and ends in regions q.            *)
Leads(s, b, N, a, r, z, q) ==
  \E D, at : Trail(s, b, N, D, at, a, z) /\ at[a] = r /\ at[z] = q

-----------------------------------------------------------------------------
(* The symbols of a text.                                                  *)
LEMMA SymIs ==
  ASSUME NEW s \in Seq(Symbol)
  PROVE  /\ Len(s) \in Nat
         /\ \A k \in 1 .. Len(s) : Sym(s, k) = s[k] /\ Sym(s, k) \in Symbol
         /\ \A k : k \notin 1 .. Len(s) => Sym(s, k) = None
         /\ \A c \in Symbol : c # None
         /\ \A k : Sym(s, k) # None => k \in 1 .. Len(s)
<1>1. Len(s) \in Nat /\ DOMAIN s = 1 .. Len(s)
  BY LenProperties
<1>2. \A k \in 1 .. Len(s) : s[k] \in Symbol
  BY ElementOfSeq
<1>. QED
  BY <1>1, <1>2, ScannerAssumption DEF Sym

(* None is no symbol.                                                      *)
LEMMA NoSymbol ==
  /\ None # "nl" /\ None # "esc" /\ None # "quote" /\ None # "tick" /\ None # "/" /\ None # "*"
  /\ None # "#" /\ None # "d2" /\ None # "(" /\ None # "[" /\ None # ")" /\ None # "]"
  /\ None # "image" /\ None # "pad" /\ None # "x" /\ None # "import" /\ None # "based" /\ None # "."
  /\ ~isIdentChar(None)
BY ScannerAssumption DEF Symbol, isIdentChar

(* At reads the source as Sym does.                                        *)
LEMMA AtSym == \A k : At(k) = Sym(src, k)
BY DEF At, Sym

-----------------------------------------------------------------------------
(* The operators of Scanner, as relations.                                 *)

(* Where a line ends is what EndOfLine finds.                              *)
LEMMA LineIs ==
  ASSUME src \in Seq(Symbol), NEW k \in 1 .. End, NEW j
  PROVE  LineBy(src, k, j) <=> j = EndOfLine(k)
<1>. DEFINE T == {n \in k .. End : At(n) \in {"nl", None}} \cup {End}
<1>1. End \in Nat /\ End = Len(src) + 1 /\ At(End) = None /\ \A n : At(n) = Sym(src, n)
  <2>1. End = Len(src) + 1 /\ Len(src) \in Nat
    BY Symbols
  <2>2. End \notin 1 .. Len(src)
    BY <2>1
  <2>. QED
    BY <2>1, <2>2, Symbols, AtSym
<1>2. T \in SUBSET Nat /\ T # {} /\ T \subseteq k .. End
  BY <1>1
<1>3. EndOfLine(k) = Least(T)
  BY DEF EndOfLine
<1>4. \A n \in k .. End : n \in T <=> At(n) \in {"nl", None}
  BY <1>1
<1>. HIDE DEF T
<1>5. PICK e : e = EndOfLine(k) /\ e \in T /\ \A n \in T : e <= n
  BY <1>2, <1>3, LeastNat
<1>6. e \in k .. End /\ Sym(src, e) \in {"nl", None}
  BY <1>1, <1>2, <1>4, <1>5
<1>7. \A n \in k .. e - 1 : Sym(src, n) # "nl"
  <2>. SUFFICES ASSUME NEW n \in k .. e - 1, Sym(src, n) = "nl" PROVE FALSE
    OBVIOUS
  <2>1. n \in k .. End /\ n < e
    BY <1>1, <1>6
  <2>2. n \in T
    BY <1>1, <1>4, <2>1
  <2>. QED
    BY <1>5, <1>6, <2>1, <2>2
<1>8. LineBy(src, k, e)
  BY <1>1, <1>6, <1>7 DEF LineBy
<1>9. ASSUME LineBy(src, k, j) PROVE j = e
  <2>1. /\ j \in k .. End /\ Sym(src, j) \in {"nl", None}
        /\ \A n \in k .. j - 1 : Sym(src, n) # "nl"
    BY <1>1, <1>9 DEF LineBy
  <2>2. j \in T
    BY <1>1, <1>4, <2>1
  <2>3. e <= j
    BY <1>5, <2>2
  <2>4. ~(e < j)
    <3>. SUFFICES ASSUME e < j PROVE FALSE
      OBVIOUS
    <3>1. e \in k .. j - 1 /\ e \in 1 .. Len(src)
      BY <1>1, <1>6, <2>1
    <3>2. Sym(src, e) = None
      BY <1>6, <2>1, <3>1
    <3>. QED
      BY <3>1, <3>2, SymIs
  <2>. QED
    BY <1>1, <1>6, <2>1, <2>3, <2>4
<1>. QED
  BY <1>5, <1>8, <1>9

(* The mark that closes.                                                   *)
Mark(o) == IF o = 1 THEN <<"tick">> ELSE IF o = 2 THEN <<"*", "/">> ELSE Fence

(* A mark is peeked where it shuts.                                        *)
LEMMA MarkIs ==
  ASSUME NEW o \in 1 .. 3, NEW k \in Nat
  PROVE  Len(Mark(o)) = o /\ (PeekAt(k, Mark(o)) <=> Shut(src, o, k))
<1>1. k + 1 - 1 = k /\ k + 2 - 1 = k + 1 /\ k + 3 - 1 = k + 2
  OBVIOUS
<1>2. CASE o = 1
  <2>1. Mark(1) = <<"tick">>
    BY DEF Mark
  <2>2. DOMAIN <<"tick">> = {1} /\ <<"tick">>[1] = "tick" /\ Len(<<"tick">>) = 1
    OBVIOUS
  <2>. QED
    BY <1>1, <1>2, <2>1, <2>2, AtSym DEF PeekAt, Shut
<1>3. CASE o = 2
  <2>1. Mark(2) = <<"*", "/">>
    BY DEF Mark
  <2>2. /\ DOMAIN <<"*", "/">> = {1, 2} /\ <<"*", "/">>[1] = "*" /\ <<"*", "/">>[2] = "/"
        /\ Len(<<"*", "/">>) = 2
    OBVIOUS
  <2>. QED
    BY <1>1, <1>3, <2>1, <2>2, AtSym DEF PeekAt, Shut
<1>4. CASE o = 3
  <2>1. Mark(3) = Fence /\ Len(Fence) = 3
    BY DEF Mark, Fence
  <2>2. PeekAt(k, Fence) <=> At(k) = "tick" /\ At(k + 1) = "tick" /\ At(k + 2) = "tick"
    BY Marks
  <2>. QED
    BY <1>4, <2>1, <2>2, AtSym DEF Shut
<1>. QED
  BY <1>2, <1>3, <1>4

(* What a mark shuts ends where Past finds it.                             *)
LEMMA ShutIs ==
  ASSUME src \in Seq(Symbol), NEW o \in 1 .. 3, NEW k \in 1 .. End, NEW j \in Nat
  PROVE  ShutBy(src, o, k, j) <=> j = Past(Mark(o), k)
<1>. DEFINE T == {n \in k .. Len(src) : PeekAt(n, Mark(o))}
<1>1. End \in Nat /\ End = Len(src) + 1 /\ Len(src) \in Nat
  BY Symbols
<1>2. \A n \in Nat : PeekAt(n, Mark(o)) <=> Shut(src, o, n)
  BY MarkIs
<1>3. T \in SUBSET Nat /\ \A n \in k .. Len(src) : n \in T <=> Shut(src, o, n)
  BY <1>1, <1>2
<1>4. Past(Mark(o), k) = IF T = {} THEN End ELSE Least(T) + o
  BY MarkIs DEF Past
<1>5. T \subseteq k .. Len(src)
  OBVIOUS
<1>. HIDE DEF T
<1>6. \A n : Shut(src, o, n) => n \in 1 .. Len(src)
  <2>. SUFFICES ASSUME NEW n, Shut(src, o, n) PROVE n \in 1 .. Len(src)
    OBVIOUS
  <2>1. Sym(src, n) \in {"tick", "*"}
    BY DEF Shut
  <2>. QED
    BY <2>1, SymIs, NoSymbol
<1>7. CASE T = {}
  <2>1. \A n \in k .. Len(src) : ~Shut(src, o, n)
    BY <1>3, <1>7
  <2>2. ~Closed(src, o, k, j)
    <3>. SUFFICES ASSUME Closed(src, o, k, j) PROVE FALSE
      OBVIOUS
    <3>1. j - o >= k /\ Shut(src, o, j - o)
      BY DEF Closed
    <3>2. j - o \in k .. Len(src)
      BY <1>1, <1>6, <3>1
    <3>. QED
      BY <2>1, <3>1, <3>2
  <2>. QED
    BY <1>1, <1>4, <1>7, <2>1, <2>2 DEF ShutBy, Unclosed
<1>8. CASE T # {}
  <2>1. PICK n : n = Least(T) /\ n \in T /\ \A m \in T : n <= m
    BY <1>3, <1>8, LeastNat
  <2>2. n \in k .. Len(src) /\ Shut(src, o, n)
    BY <1>3, <1>5, <2>1
  <2>3. \A m \in k .. n - 1 : ~Shut(src, o, m)
    BY <1>1, <1>3, <2>1, <2>2
  <2>4. ~Unclosed(src, o, k, j)
    BY <2>2 DEF Unclosed
  <2>5. Closed(src, o, k, j) <=> j = n + o
    <3>1. ASSUME j = n + o PROVE Closed(src, o, k, j)
      <4>1. j - o = n
        BY <2>2, <3>1
      <4>. QED
        BY <2>2, <2>3, <4>1 DEF Closed
    <3>2. ASSUME Closed(src, o, k, j) PROVE j = n + o
      <4>1. PICK m \in Int : m = j - o
        OBVIOUS
      <4>2. m >= k /\ Shut(src, o, m) /\ \A x \in k .. m - 1 : ~Shut(src, o, x)
        BY <3>2, <4>1 DEF Closed
      <4>3. m \in k .. Len(src)
        BY <1>1, <1>6, <4>1, <4>2
      <4>4. ~(n < m)
        BY <2>2, <4>2, <4>3
      <4>5. ~(m < n)
        BY <2>2, <2>3, <4>2, <4>3
      <4>. QED
        BY <2>2, <4>1, <4>3, <4>4, <4>5
    <3>. QED
      BY <3>1, <3>2
  <2>. QED
    BY <1>4, <1>8, <2>1, <2>4, <2>5 DEF ShutBy
<1>. QED
  BY <1>7, <1>8

(* A string ends where skipString finds it, and nowhere else.              *)
LEMMA StringIs ==
  ASSUME src \in Seq(Symbol), NEW k \in 1 .. Len(src), NEW j \in Nat
  PROVE  StringBy(src, k + 1, j) <=> j = skipString(k)
<1>. DEFINE S    == 1 .. End + 1
            Stop == {n \in S : n >= End \/ src[n] = "quote"}
            val  == [n \in S |-> IF n >= End THEN n ELSE n + 1]
            next == [n \in S |-> IF src[n] = "esc" THEN n + 2 ELSE n + 1]
            rank == [n \in S |-> End + 1 - n]
            IsScan(h) == h = [n \in S |->
              IF n >= End THEN n
              ELSE IF src[n] = "esc" THEN h[n + 2]
              ELSE IF src[n] = "quote" THEN n + 1
              ELSE h[n + 1]]
            from == CHOOSE h : IsScan(h)
<1>1. End \in Nat /\ End = Len(src) + 1 /\ Len(src) \in Nat /\ k + 1 \in S
      /\ \A n \in 1 .. Len(src) : Sym(src, n) = src[n]
  BY Symbols, SymIs
<1>2. \A n \in S : rank[n] \in 0 .. End
  BY <1>1
<1>3. \A n \in S \ Stop : next[n] \in S /\ rank[next[n]] < rank[n] /\ next[n] > n
  BY <1>1
<1>. DEFINE descends == Descends(S, Stop, next, rank, End)
<1>4. descends
  BY <1>2, <1>3 DEF Descends
<1>5. \E h : IsTail(h, S, Stop, val, next)
  <2>. HIDE DEF S, Stop, val, next, rank
  <2>. QED
    BY <1>1, <1>4, TailRecursion
<1>6. IsScan(from)
  <2>1. PICK h : IsTail(h, S, Stop, val, next)
    BY <1>5
  <2>2. h = [n \in S |-> IF n \in Stop THEN val[n] ELSE h[next[n]]]
    BY <2>1 DEF IsTail
  <2>3. IsScan(h)
    BY <2>2
  <2>. HIDE DEF IsScan
  <2>. QED
    BY <2>3
<1>. HIDE DEF from
<1>7. \A n \in S \ Stop : from[n] = from[next[n]]
  BY <1>6
<1>8. skipString(k) = from[k + 1]
  BY DEF skipString, from
(* The places read on the way to the end.                                  *)
<1>9. StringBy(src, k + 1, from[k + 1])
  <2>. DEFINE Good == {n \in S : from[n] \in n .. End + 1 /\ StringBy(src, n, from[n])}
  <2>1. ASSUME NEW n \in S, n \in Stop PROVE n \in Good
    <3>1. from[n] = IF n >= End THEN n ELSE n + 1
      BY <1>6, <2>1
    <3>2. from[n] \in n .. End + 1
      BY <1>1, <3>1
    <3>3. Reads(src, {n}, from[n])
      BY <1>1, <2>1, <3>1 DEF Reads
    <3>4. {n} \in SUBSET (n .. from[n]) /\ n \in {n}
      BY <3>2
    <3>5. StringBy(src, n, from[n])
      BY <1>1, <3>2, <3>3, <3>4 DEF StringBy
    <3>. QED
      BY <3>2, <3>5
  <2>2. ASSUME NEW n \in S \ Stop, next[n] \in Good PROVE n \in Good
    <3>. DEFINE m == next[n]
                e == from[n]
    <3>1. m \in S /\ m > n /\ e = from[m] /\ e \in m .. End + 1 /\ StringBy(src, m, e)
      BY <1>3, <1>7, <2>2
    <3>2. PICK C \in SUBSET (m .. e) : m \in C /\ Reads(src, C, e)
      BY <3>1 DEF StringBy
    <3>3. \/ Sym(src, n) = "esc" /\ m = n + 2
          \/ Sym(src, n) \notin {"esc", "quote"} /\ m = n + 1
      BY <1>1
    <3>4. n \in 1 .. Len(src)
      BY <1>1
    <3>5. n \in S
      OBVIOUS
    <3>. HIDE DEF m, e, S, next, Stop
    <3>6. Reads(src, C \cup {n}, e)
      <4>. SUFFICES ASSUME NEW x \in C \cup {n}
                    PROVE  \/ x > Len(src) /\ e = x
                           \/ x <= Len(src) /\ Sym(src, x) = "esc" /\ x + 2 \in C \cup {n}
                           \/ x <= Len(src) /\ Sym(src, x) = "quote" /\ e = x + 1
                           \/ x <= Len(src) /\ Sym(src, x) \notin {"esc", "quote"}
                              /\ x + 1 \in C \cup {n}
        BY DEF Reads
      <4>1. CASE x \in C
        BY <3>2, <4>1 DEF Reads
      <4>2. CASE x = n
        BY <3>2, <3>3, <3>4, <4>2
      <4>. QED
        BY <4>1, <4>2
    <3>7. C \cup {n} \in SUBSET (n .. e) /\ e \in n .. End + 1 /\ e \in Nat
      <4>1. n \in Nat /\ m \in Nat /\ e \in Nat /\ m > n /\ e >= m
        BY <1>1, <3>1, <3>4 DEF S
      <4>. QED
        BY <3>1, <4>1
    <3>8. StringBy(src, n, e)
      BY <3>6, <3>7 DEF StringBy
    <3>. QED
      BY <3>5, <3>7, <3>8 DEF e
  <2>3. Inherits(Good, S, Stop, next)
    BY <2>1, <2>2 DEF Inherits
  <2>4. k + 1 \in Good
    <3>. HIDE DEF S, Stop, next, rank, Good
    <3>. QED
      BY <1>1, <1>4, <2>3, TailInduction
  <2>. QED
    BY <2>4
(* And there is no other end.                                              *)
<1>10. ASSUME StringBy(src, k + 1, j) PROVE j = from[k + 1]
  <2>1. PICK C \in SUBSET (k + 1 .. j) : k + 1 \in C /\ Reads(src, C, j)
    BY <1>10 DEF StringBy
  <2>. DEFINE Good == {n \in S : n \in C => from[n] = j}
  <2>2. ASSUME NEW n \in S, n \in Stop PROVE n \in Good
    <3>. SUFFICES ASSUME n \in C PROVE from[n] = j
      OBVIOUS
    <3>1. from[n] = IF n >= End THEN n ELSE n + 1
      BY <1>6, <2>2
    <3>2. n >= End => n > Len(src)
      BY <1>1
    <3>3. ~(n >= End) => n \in 1 .. Len(src) /\ Sym(src, n) = "quote"
      BY <1>1, <2>2
    <3>4. "esc" # "quote"
      OBVIOUS
    <3>. QED
      BY <1>1, <2>1, <3>1, <3>2, <3>3, <3>4 DEF Reads
  <2>3. ASSUME NEW n \in S \ Stop, next[n] \in Good PROVE n \in Good
    <3>1. n \in 1 .. Len(src) /\ Sym(src, n) # "quote" /\ n \in S
      BY <1>1
    <3>2. next[n] = IF Sym(src, n) = "esc" THEN n + 2 ELSE n + 1
      BY <1>1, <3>1
    <3>3. n \in C => next[n] \in C
      BY <1>1, <2>1, <3>1, <3>2 DEF Reads
    <3>4. from[n] = from[next[n]] /\ (next[n] \in C => from[next[n]] = j)
      BY <1>7, <2>3
    <3>. QED
      BY <3>1, <3>3, <3>4
  <2>4. Inherits(Good, S, Stop, next)
    BY <2>2, <2>3 DEF Inherits
  <2>5. k + 1 \in Good
    <3>. HIDE DEF S, Stop, next, rank, Good
    <3>. QED
      BY <1>1, <1>4, <2>4, TailInduction
  <2>. QED
    BY <2>1, <2>5
<1>. QED
  BY <1>8, <1>9, <1>10

(* What the scanner passes as opaque.                                      *)
LEMMA OpaqueIs ==
  ASSUME src \in Seq(Symbol), NEW k \in 1 .. Len(src), NEW j \in Nat
  PROVE  /\ OpaqueAt(k) <=> Opens(src, k)
         /\ OpaqueAt(k) => (Opaque(src, k, j) <=> j = AfterOpaque(k))
         /\ Opaque(src, k, j) => OpaqueAt(k)
<1>1. Len(src) \in Nat /\ End = Len(src) + 1 /\ k \in Nat /\ \A n : At(n) = Sym(src, n)
  BY Symbols, AtSym
<1>2. OpaqueAt(k) <=> Opens(src, k)
  BY <1>1, Marks DEF OpaqueAt, Opens
<1>3. PeekAt(k, Fence) <=> Shut(src, 3, k)
  BY <1>1, Marks DEF Shut
<1>4. Opaque(src, k, j) => Opens(src, k)
  BY DEF Opaque, Opens, Shut
<1>5. Sym(src, k + 1) # None => k + 2 \in 1 .. End
  BY <1>1, SymIs
<1>6. Sym(src, k + 2) # None => k + 3 \in 1 .. End
  BY <1>1, SymIs
<1>7. k + 1 \in 1 .. End
  BY <1>1
<1>8. ASSUME Opens(src, k) PROVE Opaque(src, k, j) <=> j = AfterOpaque(k)
  <2>1. CASE Sym(src, k) = "/" /\ Sym(src, k + 1) = "/"
    <3>1. AfterOpaque(k) = EndOfLine(k + 2)
      BY <1>1, <2>1, Marks DEF AfterOpaque
    <3>2. LineBy(src, k + 2, j) <=> j = EndOfLine(k + 2)
      BY <1>5, <2>1, LineIs, NoSymbol
    <3>. QED
      BY <2>1, <3>1, <3>2 DEF Opaque, Shut
  <2>2. CASE Sym(src, k) = "/" /\ Sym(src, k + 1) = "*"
    <3>1. AfterOpaque(k) = Past(Mark(2), k + 2)
      BY <1>1, <2>2, Marks DEF AfterOpaque, Mark
    <3>2. ShutBy(src, 2, k + 2, j) <=> j = Past(Mark(2), k + 2)
      BY <1>5, <2>2, ShutIs, NoSymbol
    <3>. QED
      BY <2>2, <3>1, <3>2 DEF Opaque, Shut
  <2>3. CASE Sym(src, k) = "quote"
    <3>1. AfterOpaque(k) = skipString(k)
      BY <1>1, <2>3, Marks DEF AfterOpaque
    <3>. QED
      BY <2>3, <3>1, StringIs DEF Opaque, Shut
  <2>4. CASE Shut(src, 3, k)
    <3>1. Sym(src, k) = "tick" /\ Sym(src, k + 1) = "tick" /\ Sym(src, k + 2) = "tick"
      BY <2>4 DEF Shut
    <3>2. AfterOpaque(k) = Past(Mark(3), k + 3)
      BY <1>1, <1>3, <2>4, <3>1, Marks DEF AfterOpaque, Mark
    <3>3. ShutBy(src, 3, k + 3, j) <=> j = Past(Mark(3), k + 3)
      BY <1>6, <3>1, ShutIs, NoSymbol
    <3>. QED
      BY <2>4, <3>1, <3>2, <3>3 DEF Opaque
  <2>5. CASE Sym(src, k) = "tick" /\ ~Shut(src, 3, k)
    <3>1. AfterOpaque(k) = Past(Mark(1), k + 1)
      BY <1>1, <1>3, <2>5, Marks DEF AfterOpaque, Mark
    <3>2. ShutBy(src, 1, k + 1, j) <=> j = Past(Mark(1), k + 1)
      BY <1>7, ShutIs
    <3>. QED
      BY <2>5, <3>1, <3>2 DEF Opaque
  <2>. QED
    BY <1>8, <2>1, <2>2, <2>3, <2>4, <2>5 DEF Opens
<1>. QED
  BY <1>2, <1>4, <1>8

(* A name ends where IdentEnd says.                                        *)
LEMMA NameIs ==
  ASSUME src \in Seq(Symbol), NEW k \in 1 .. Len(src)
  PROVE  /\ Name(src, k, IdentEnd(k + 1))
         /\ \A j : Name(src, k, j) => j = IdentEnd(k + 1)
<1>. DEFINE T == {n \in k + 1 .. End : ~isIdentChar(At(n))} \cup {End}
<1>1. End \in Nat /\ End = Len(src) + 1 /\ Len(src) \in Nat /\ \A n : At(n) = Sym(src, n)
  BY Symbols, AtSym
<1>2. Sym(src, End) = None
  <2>1. End \notin 1 .. Len(src)
    BY <1>1
  <2>. QED
    BY <2>1, SymIs
<1>3. T \in SUBSET Nat /\ T # {} /\ T \subseteq k + 1 .. End
      /\ \A n \in k + 1 .. End : n \in T <=> ~isIdentChar(Sym(src, n))
  BY <1>1, <1>2, NoSymbol
<1>4. IdentEnd(k + 1) = Least(T)
  BY DEF IdentEnd
<1>. HIDE DEF T
<1>5. PICK e : e = IdentEnd(k + 1) /\ e \in T /\ \A n \in T : e <= n
  BY <1>3, <1>4, LeastNat
<1>6. e \in k + 1 .. End /\ ~isIdentChar(Sym(src, e))
  BY <1>3, <1>5
<1>7. \A n \in k + 1 .. e - 1 : isIdentChar(Sym(src, n))
  BY <1>1, <1>3, <1>5, <1>6
<1>8. ASSUME NEW j, Name(src, k, j) PROVE j = e
  <2>1. j \in k + 1 .. End /\ ~isIdentChar(Sym(src, j))
        /\ \A n \in k + 1 .. j - 1 : isIdentChar(Sym(src, n))
    BY <1>1, <1>8 DEF Name
  <2>2. e <= j
    BY <1>3, <1>5, <2>1
  <2>3. ~(e < j)
    BY <1>1, <1>6, <2>1
  <2>. QED
    BY <1>1, <1>6, <2>1, <2>2, <2>3
<1>. QED
  BY <1>1, <1>5, <1>6, <1>7, <1>8 DEF Name

(* A name is d2 when it is that one symbol, and empty when none follows.   *)
LEMMA NameText ==
  ASSUME src \in Seq(Symbol), NEW m \in 1 .. End, NEW k \in m .. End
  PROVE  /\ SubSeq(src, m, k - 1) = <<"d2">> <=> k = m + 1 /\ Sym(src, m) = "d2"
         /\ SubSeq(src, m, k - 1) = <<>> <=> k = m
<1>1. Len(src) \in Nat /\ End = Len(src) + 1 /\ m \in Nat /\ k \in Nat /\ m >= 1 /\ k >= m
  BY Symbols
<1>2. \A n \in m .. k - 1 : src[n] \in Symbol
  BY <1>1, ElementOfSeq
<1>. DEFINE w == SubSeq(src, m, k - 1)
<1>3. /\ w \in Seq(Symbol)
      /\ Len(w) = IF m <= k - 1 THEN k - 1 - m + 1 ELSE 0
      /\ \A n \in 1 .. k - 1 - m + 1 : w[n] = src[m + n - 1]
  BY <1>1, <1>2, SubSeqProperties
<1>4. Len(w) = k - m
  BY <1>1, <1>3
<1>. HIDE DEF w
<1>5. w = <<>> <=> k = m
  BY <1>1, <1>3, <1>4, EmptySeq
<1>6. ASSUME k = m + 1 PROVE w[1] = Sym(src, m) /\ Len(w) = 1
  <2>1. 1 \in 1 .. k - 1 - m + 1 /\ m + 1 - 1 = m /\ m \in 1 .. Len(src)
    BY <1>1, <1>6
  <2>2. Sym(src, m) = src[m]
    BY <2>1, SymIs
  <2>3. w[1] = src[m]
    BY <1>3, <2>1
  <2>. QED
    BY <1>1, <1>4, <1>6, <2>2, <2>3
<1>7. w = <<"d2">> => k = m + 1 /\ w[1] = "d2"
  <2>1. Len(<<"d2">>) = 1 /\ <<"d2">>[1] = "d2"
    OBVIOUS
  <2>. QED
    BY <1>1, <1>4, <2>1
<1>8. Len(w) = 1 /\ w[1] = "d2" => w = <<"d2">>
  <2>. SUFFICES ASSUME Len(w) = 1, w[1] = "d2" PROVE w = <<"d2">>
    OBVIOUS
  <2>. DEFINE v == <<"d2">>
  <2>1. v \in Seq(Symbol) /\ Len(v) = 1 /\ v[1] = "d2"
    BY DEF Symbol
  <2>. HIDE DEF v
  <2>2. \A n \in 1 .. Len(w) : w[n] = v[n]
    BY <2>1
  <2>3. w = v
    BY <1>3, <2>1, <2>2, SeqEqual
  <2>. QED
    BY <2>3 DEF v
<1>. QED
  BY <1>5, <1>6, <1>7, <1>8 DEF w

-----------------------------------------------------------------------------
(* A step of a trail, moved by d to another text.  Of the symbol it leads  *)
(* to only the kind matters.                                               *)
Alike(c, e) == c = e \/ {c, e} \subseteq {"#", "d2", "image", "pad"}

(* What alike symbols have in common.                                      *)
LEMMA AlikeIs ==
  ASSUME NEW c, NEW e, Alike(c, e)
  PROVE  /\ c = "nl" <=> e = "nl"
         /\ c = None <=> e = None
         /\ c = "tick" <=> e = "tick"
         /\ c = "/" <=> e = "/"
         /\ c = "*" <=> e = "*"
         /\ c \in Bracket <=> e \in Bracket
         /\ c = "(" <=> e = "("
BY NoSymbol DEF Alike, Bracket

(* A piece of text that is the same in another one ends there alike: up to *)
(* a mark,                                                                 *)
LEMMA ShutMoved ==
  ASSUME NEW s \in Seq(Symbol), NEW t \in Seq(Symbol), NEW o \in 1 .. 3,
         NEW k \in Nat, NEW j \in Nat, NEW d \in Int, ShutBy(s, o, k, j),
         \A n \in k .. j - 1 : Sym(t, n + d) = Sym(s, n),
         j > Len(s) => Len(t) = Len(s) + d
  PROVE  ShutBy(t, o, k + d, j + d)
<1>1. Len(s) \in Nat /\ Len(t) \in Nat
  BY SymIs
<1>2. CASE Closed(s, o, k, j)
  <2>1. j - o >= k /\ Shut(s, o, j - o) /\ \A n \in k .. j - o - 1 : ~Shut(s, o, n)
    BY <1>2 DEF Closed
  <2>2. ASSUME NEW m \in k .. j - o PROVE Shut(t, o, m + d) <=> Shut(s, o, m)
    <3>1. m \in k .. j - 1 /\ (o >= 2 => m + 1 \in k .. j - 1) /\ (o = 3 => m + 2 \in k .. j - 1)
          /\ m + 1 + d = m + d + 1 /\ m + 2 + d = m + d + 2
      BY <2>1
    <3>2. /\ Sym(t, m + d) = Sym(s, m)
          /\ o >= 2 => Sym(t, m + 1 + d) = Sym(s, m + 1)
          /\ o = 3 => Sym(t, m + 2 + d) = Sym(s, m + 2)
      BY <3>1
    <3>. QED
      BY <3>1, <3>2 DEF Shut
  <2>3. j - o \in k .. j - o /\ j + d - o = j - o + d /\ j + d - o >= k + d
    BY <2>1
  <2>4. Shut(t, o, j + d - o)
    BY <2>1, <2>2, <2>3
  <2>5. ASSUME NEW n \in k + d .. j + d - o - 1 PROVE ~Shut(t, o, n)
    <3>1. n - d \in k .. j - o /\ n - d \in k .. j - o - 1 /\ n - d + d = n
      OBVIOUS
    <3>. QED
      BY <2>1, <2>2, <3>1
  <2>. QED
    BY <2>3, <2>4, <2>5 DEF ShutBy, Closed
<1>3. CASE Unclosed(s, o, k, j)
  <2>1. j = Len(s) + 1 /\ \A n \in k .. Len(s) : ~Shut(s, o, n)
    BY <1>3 DEF Unclosed
  <2>2. Len(t) = Len(s) + d /\ j + d = Len(t) + 1
    BY <1>1, <2>1
  <2>3. \A n : n > Len(s) /\ n \in Int => Sym(s, n) = None
    BY <1>1, SymIs
  <2>4. \A n : n > Len(t) /\ n \in Int => Sym(t, n) = None
    BY <1>1, SymIs
  <2>5. \A n \in Int : n >= k => Sym(t, n + d) = Sym(s, n)
    <3>. SUFFICES ASSUME NEW n \in Int, n >= k PROVE Sym(t, n + d) = Sym(s, n)
      OBVIOUS
    <3>1. CASE n <= Len(s)
      BY <1>1, <2>1, <3>1
    <3>2. CASE n > Len(s)
      BY <1>1, <2>2, <2>3, <2>4, <3>2
    <3>. QED
      BY <1>1, <3>1, <3>2
  <2>6. ASSUME NEW n \in k + d .. Len(t) PROVE ~Shut(t, o, n)
    <3>1. PICK m \in Int : m = n - d
      OBVIOUS
    <3>2. m \in k .. Len(s) /\ m >= k /\ m + 1 >= k /\ m + 2 >= k
          /\ m + d = n /\ m + 1 + d = n + 1 /\ m + 2 + d = n + 2
      BY <1>1, <2>2, <3>1
    <3>3. Sym(t, n) = Sym(s, m) /\ Sym(t, n + 1) = Sym(s, m + 1) /\ Sym(t, n + 2) = Sym(s, m + 2)
      BY <2>5, <3>1, <3>2
    <3>. QED
      BY <2>1, <3>2, <3>3 DEF Shut
  <2>. QED
    BY <2>2, <2>6 DEF ShutBy, Unclosed
<1>. QED
  BY <1>2, <1>3 DEF ShutBy

(* up to the end of a line,                                                *)
LEMMA LineMoved ==
  ASSUME NEW s \in Seq(Symbol), NEW t \in Seq(Symbol),
         NEW k \in Nat, NEW j \in Nat, NEW d \in Int, LineBy(s, k, j),
         \A n \in k .. j - 1 : Sym(t, n + d) = Sym(s, n), Alike(Sym(s, j), Sym(t, j + d)),
         j > Len(s) => Len(t) = Len(s) + d, 1 <= k + d, 1 <= k
  PROVE  LineBy(t, k + d, j + d)
<1>1. Len(s) \in Nat /\ Len(t) \in Nat
  BY SymIs
<1>2. /\ j \in k .. Len(s) + 1 /\ Sym(s, j) \in {"nl", None}
      /\ \A n \in k .. j - 1 : Sym(s, n) # "nl"
  BY DEF LineBy
<1>3. Sym(t, j + d) \in {"nl", None}
  BY <1>2, AlikeIs
<1>4. ASSUME NEW n \in k + d .. j + d - 1 PROVE Sym(t, n) # "nl"
  <2>1. n - d \in k .. j - 1 /\ n - d + d = n
    OBVIOUS
  <2>. QED
    BY <1>2, <2>1
<1>5. j + d \in k + d .. Len(t) + 1
  <2>1. CASE j > Len(s)
    BY <1>1, <1>2, <2>1
  <2>2. CASE ~(j > Len(s))
    <3>1. j \in 1 .. Len(s)
      BY <1>1, <1>2, <2>2
    <3>2. Sym(t, j + d) # None
      BY <3>1, SymIs, AlikeIs
    <3>3. j + d \in 1 .. Len(t)
      BY <3>2, SymIs
    <3>. QED
      BY <1>1, <1>2, <3>3
  <2>. QED
    BY <2>1, <2>2
<1>. QED
  BY <1>3, <1>4, <1>5 DEF LineBy

(* a string,                                                               *)
LEMMA StringMoved ==
  ASSUME NEW s \in Seq(Symbol), NEW t \in Seq(Symbol),
         NEW k \in Nat, NEW j \in Nat, NEW d \in Int, StringBy(s, k, j),
         \A n \in k .. j - 1 : Sym(t, n + d) = Sym(s, n),
         j > Len(s) => Len(t) = Len(s) + d, 1 <= k + d, 1 <= k
  PROVE  StringBy(t, k + d, j + d)
<1>1. Len(s) \in Nat /\ Len(t) \in Nat
  BY SymIs
<1>2. PICK C \in SUBSET (k .. j) : k \in C /\ Reads(s, C, j)
  BY DEF StringBy
<1>. DEFINE B == {n \in k + d .. j + d : n - d \in C}
<1>3. k + d \in B /\ B \in SUBSET (k + d .. j + d) /\ j + d \in Nat
  BY <1>2
<1>4. Reads(t, B, j + d)
  <2>. SUFFICES ASSUME NEW n \in B
                PROVE  \/ n > Len(t) /\ j + d = n
                       \/ n <= Len(t) /\ Sym(t, n) = "esc" /\ n + 2 \in B
                       \/ n <= Len(t) /\ Sym(t, n) = "quote" /\ j + d = n + 1
                       \/ n <= Len(t) /\ Sym(t, n) \notin {"esc", "quote"} /\ n + 1 \in B
    BY DEF Reads
  <2>1. PICK m \in C : m = n - d
    OBVIOUS
  <2>2. m \in k .. j /\ n = m + d /\ n \in Int
    BY <1>2, <2>1
  <2>3. \/ m > Len(s) /\ j = m
        \/ m <= Len(s) /\ Sym(s, m) = "esc" /\ m + 2 \in C
        \/ m <= Len(s) /\ Sym(s, m) = "quote" /\ j = m + 1
        \/ m <= Len(s) /\ Sym(s, m) \notin {"esc", "quote"} /\ m + 1 \in C
    BY <1>2 DEF Reads
  <2>4. CASE m > Len(s)
    <3>1. j = m
      BY <1>1, <2>2, <2>3, <2>4
    <3>. QED
      BY <1>1, <2>2, <2>4, <3>1
  <2>5. CASE m <= Len(s)
    <3>1. m + 2 \in C => m + 2 \in k .. j /\ m + 2 + d = n + 2 /\ n + 2 \in B
      BY <1>2, <2>2
    <3>2. m + 1 \in C => m + 1 \in k .. j /\ m + 1 + d = n + 1 /\ n + 1 \in B
      BY <1>2, <2>2
    <3>3. m <= j - 1
      BY <1>1, <2>2, <2>3, <2>5, <3>1, <3>2
    <3>4. Sym(t, n) = Sym(s, m) /\ m \in 1 .. Len(s)
      BY <1>1, <2>2, <2>5, <3>3
    <3>5. n <= Len(t)
      BY <3>4, SymIs
    <3>6. CASE Sym(s, m) = "esc" /\ m + 2 \in C
      BY <3>1, <3>4, <3>5, <3>6
    <3>7. CASE Sym(s, m) = "quote" /\ j = m + 1
      BY <2>2, <3>4, <3>5, <3>7
    <3>8. CASE Sym(s, m) \notin {"esc", "quote"} /\ m + 1 \in C
      BY <3>2, <3>4, <3>5, <3>8
    <3>. QED
      BY <1>1, <2>2, <2>3, <2>5, <3>6, <3>7, <3>8
  <2>. QED
    BY <1>1, <2>2, <2>4, <2>5
<1>. QED
  BY <1>3, <1>4 DEF StringBy

(* opaque text of any kind,                                                *)
LEMMA OpaqueMoved ==
  ASSUME NEW s \in Seq(Symbol), NEW t \in Seq(Symbol),
         NEW k \in 1 .. Len(s), NEW j \in Nat, NEW d \in Int, Opaque(s, k, j),
         k < j, \A n \in k .. j - 1 : Sym(t, n + d) = Sym(s, n), Alike(Sym(s, j), Sym(t, j + d)),
         j > Len(s) => Len(t) = Len(s) + d, 1 <= k + d
  PROVE  Opaque(t, k + d, j + d)
<1>1. Len(s) \in Nat /\ Len(t) \in Nat /\ k + 1 + d = k + d + 1 /\ k + 2 + d = k + d + 2
      /\ k + 3 + d = k + d + 3
  BY SymIs
<1>2. Sym(t, k + d) = Sym(s, k)
  BY <1>1
<1>3. j # k + 1 => Sym(t, k + d + 1) = Sym(s, k + 1)
  <2>1. j # k + 1 => k + 1 \in k .. j - 1
    OBVIOUS
  <2>. QED
    BY <1>1, <2>1
<1>4. j # k + 1 /\ j # k + 2 => Sym(t, k + d + 2) = Sym(s, k + 2)
  <2>1. j # k + 1 /\ j # k + 2 => k + 2 \in k .. j - 1
    OBVIOUS
  <2>. QED
    BY <1>1, <2>1
<1>5. /\ \A m \in k + 1 .. j - 1 : Sym(t, m + d) = Sym(s, m)
      /\ \A m \in k + 2 .. j - 1 : Sym(t, m + d) = Sym(s, m)
      /\ \A m \in k + 3 .. j - 1 : Sym(t, m + d) = Sym(s, m)
      /\ k + 1 \in Nat /\ k + 2 \in Nat /\ k + 3 \in Nat /\ 1 <= k + 1 /\ 1 <= k + 2
      /\ 1 <= k + 1 + d /\ 1 <= k + 2 + d /\ 1 \in 1 .. 3 /\ 2 \in 1 .. 3 /\ 3 \in 1 .. 3
  OBVIOUS
<1>6. CASE Sym(s, k) = "/" /\ Sym(s, k + 1) = "/" /\ LineBy(s, k + 2, j)
  <2>1. j >= k + 2
    BY <1>1, <1>6 DEF LineBy
  <2>2. LineBy(t, k + 2 + d, j + d)
    BY <1>1, <1>5, <1>6, LineMoved
  <2>. QED
    BY <1>1, <1>2, <1>3, <1>6, <2>1, <2>2 DEF Opaque
<1>7. CASE Sym(s, k) = "/" /\ Sym(s, k + 1) = "*" /\ ShutBy(s, 2, k + 2, j)
  <2>1. j >= k + 2
    <3>1. k + 1 \in 1 .. Len(s)
      BY <1>7, SymIs, NoSymbol
    <3>. QED
      BY <1>1, <1>7, <3>1 DEF ShutBy, Closed, Unclosed
  <2>2. ShutBy(t, 2, k + 2 + d, j + d)
    BY <1>1, <1>5, <1>7, ShutMoved
  <2>. QED
    BY <1>1, <1>2, <1>3, <1>7, <2>1, <2>2 DEF Opaque
<1>8. CASE Sym(s, k) = "quote" /\ StringBy(s, k + 1, j)
  <2>1. StringBy(t, k + 1 + d, j + d)
    BY <1>1, <1>5, <1>8, StringMoved
  <2>. QED
    BY <1>1, <1>2, <1>8, <2>1 DEF Opaque
<1>9. CASE Shut(s, 3, k) /\ ShutBy(s, 3, k + 3, j)
  <2>1. j >= k + 3
    <3>1. k + 2 \in 1 .. Len(s)
      BY <1>9, SymIs, NoSymbol DEF Shut
    <3>. QED
      BY <1>1, <1>9, <3>1 DEF ShutBy, Closed, Unclosed
  <2>2. ShutBy(t, 3, k + 3 + d, j + d)
    BY <1>1, <1>5, <1>9, ShutMoved
  <2>3. Shut(t, 3, k + d)
    BY <1>1, <1>2, <1>3, <1>4, <1>9, <2>1 DEF Shut
  <2>. QED
    BY <1>1, <2>2, <2>3 DEF Opaque
<1>10. CASE Sym(s, k) = "tick" /\ ~Shut(s, 3, k) /\ ShutBy(s, 1, k + 1, j)
  <2>1. ShutBy(t, 1, k + 1 + d, j + d)
    BY <1>1, <1>5, <1>10, ShutMoved
  <2>2. ~Shut(t, 3, k + d)
    <3>. SUFFICES ASSUME Shut(t, 3, k + d) PROVE FALSE
      OBVIOUS
    <3>1. Sym(t, k + d + 1) = "tick" /\ Sym(t, k + d + 2) = "tick"
      BY DEF Shut
    <3>2. Sym(s, k + 1) = "tick"
      <4>1. CASE j = k + 1
        BY <1>1, <3>1, <4>1, AlikeIs
      <4>. QED
        BY <1>3, <3>1, <4>1
    <3>3. j # k + 1
      <4>. SUFFICES ASSUME j = k + 1 PROVE FALSE
        OBVIOUS
      <4>1. k + 1 \in 1 .. Len(s)
        BY <3>2, SymIs, NoSymbol
      <4>. QED
        BY <1>1, <1>10, <4>1 DEF ShutBy, Closed, Unclosed
    <3>4. Sym(s, k + 2) = "tick"
      <4>1. CASE j = k + 2
        BY <1>1, <3>1, <4>1, AlikeIs
      <4>. QED
        BY <1>4, <3>1, <3>3, <4>1
    <3>. QED
      BY <1>10, <3>2, <3>4 DEF Shut
  <2>. QED
    BY <1>1, <1>2, <1>10, <2>1, <2>2 DEF Opaque
<1>. QED
  BY <1>6, <1>7, <1>8, <1>9, <1>10 DEF Opaque

(* and a name after a hash, where the name does not grow.                  *)
LEMMA HashMoved ==
  ASSUME NEW s \in Seq(Symbol), NEW t \in Seq(Symbol), NEW r \in Stack, NEW q,
         NEW k \in 1 .. Len(s), NEW j \in Nat, NEW d \in Int, Hash(s, k, r, j, q),
         k < j, \A n \in k .. j - 1 : Sym(t, n + d) = Sym(s, n), Alike(Sym(s, j), Sym(t, j + d)),
         j > Len(s) => Len(t) = Len(s) + d, 1 <= k + d,
         q = r /\ isIdentChar(Sym(t, j + d)) => isIdentChar(Sym(s, j))
  PROVE  Hash(t, k + d, r, j + d, q)
<1>1. Len(s) \in Nat /\ Len(t) \in Nat
  BY SymIs
<1>2. PICK e \in k + 1 .. Len(s) + 1 :
        /\ Name(s, k, e)
        /\ IF e # k + 1 /\ Sym(s, e) = "(" /\ Room(r)
           THEN j = e + 1 /\ q = Append(r, CodeArgs)
           ELSE j = e /\ q = r
  BY DEF Hash
<1>3. ~isIdentChar(Sym(s, e)) /\ \A n \in k + 1 .. e - 1 : isIdentChar(Sym(s, n))
  BY <1>2 DEF Name
<1>4. e \in Nat /\ e + d - d = e /\ e <= j
  BY <1>1, <1>2
<1>5. (Sym(s, e) = "(" <=> Sym(t, e + d) = "(") /\ (Sym(s, e) = None <=> Sym(t, e + d) = None)
      /\ ~isIdentChar(Sym(t, e + d))
  <2>1. CASE e = j
    <3>1. q = r
      BY <1>2, <2>1
    <3>. QED
      BY <1>3, <2>1, <3>1, AlikeIs
  <2>2. CASE e # j
    <3>1. e \in k .. j - 1
      BY <1>1, <1>2, <2>2
    <3>2. Sym(t, e + d) = Sym(s, e)
      BY <3>1
    <3>. QED
      BY <1>3, <3>2
  <2>. QED
    BY <2>1, <2>2
<1>6. e + d \in k + d + 1 .. Len(t) + 1
  <2>1. CASE e > Len(s)
    <3>1. j > Len(s)
      BY <1>1, <1>4, <2>1
    <3>. QED
      BY <1>1, <1>2, <2>1, <3>1
  <2>2. CASE ~(e > Len(s))
    <3>1. e \in 1 .. Len(s)
      BY <1>1, <1>2, <2>2
    <3>2. Sym(t, e + d) # None
      BY <1>5, <3>1, SymIs
    <3>3. e + d \in 1 .. Len(t)
      BY <3>2, SymIs
    <3>. QED
      BY <1>1, <1>2, <3>3
  <2>. QED
    BY <2>1, <2>2
<1>7. ASSUME NEW n \in k + d + 1 .. e + d - 1 PROVE isIdentChar(Sym(t, n))
  <2>1. n - d \in k + 1 .. e - 1 /\ n - d \in k .. j - 1 /\ n - d + d = n
    BY <1>4
  <2>. QED
    BY <1>3, <2>1
<1>8. Name(t, k + d, e + d)
  BY <1>5, <1>6, <1>7 DEF Name
<1>9. (e + d = k + d + 1 <=> e = k + 1) /\ (j + d = e + d + 1 <=> j = e + 1)
      /\ (j + d = e + d <=> j = e)
  BY <1>4
<1>. QED
  BY <1>2, <1>5, <1>6, <1>8, <1>9 DEF Hash

(* A step of a trail, at another place of another text.                    *)
LEMMA QuietMoved ==
  ASSUME NEW s \in Seq(Symbol), NEW t \in Seq(Symbol), NEW r \in Stack, NEW q,
         NEW k \in Nat, NEW j \in Nat, NEW d \in Int, Quiet(s, k, r, j, q),
         k < j, \A n \in k .. j - 1 : Sym(t, n + d) = Sym(s, n), Alike(Sym(s, j), Sym(t, j + d)),
         j > Len(s) => Len(t) = Len(s) + d, 1 <= k + d,
         NoCall(t, k + d, Top(r).mode),
         Sym(s, k) = "#" /\ Top(r).mode = "markup" /\ q = r /\ isIdentChar(Sym(t, j + d))
           => isIdentChar(Sym(s, j))
  PROVE  Quiet(t, k + d, r, j + d, q)
<1>1. Len(s) \in Nat /\ Len(t) \in Nat /\ k \in 1 .. Len(s)
  BY SymIs DEF Quiet
<1>2. Sym(t, k + d) = Sym(s, k) /\ k + 1 + d = k + d + 1
  BY <1>1
<1>3. k + d \in 1 .. Len(t)
  BY <1>1, <1>2, SymIs
<1>4. CASE Opaque(s, k, j) /\ q = r
  BY <1>1, <1>3, <1>4, OpaqueMoved DEF Quiet
<1>5. CASE ~(Opaque(s, k, j) /\ q = r)
  <2>1. /\ ~Opens(s, k)
        /\ IF Sym(s, k) = Top(r).stop THEN j = k + 1 /\ q = SubSeq(r, 1, Len(r) - 1)
           ELSE IF Sym(s, k) = "#" /\ Top(r).mode = "markup" THEN Hash(s, k, r, j, q)
           ELSE Delimiter(s, k, r, j, q)
    BY <1>5 DEF Quiet
  <2>2. ~Opens(t, k + d)
    <3>1. CASE j = k + 1
      <4>1. Sym(t, k + d + 1) \in {"/", "*"} => Sym(s, k + 1) \in {"/", "*"}
        BY <1>2, <3>1, AlikeIs
      <4>. QED
        BY <1>2, <2>1, <4>1 DEF Opens
    <3>2. CASE j # k + 1
      <4>1. k + 1 \in k .. j - 1
        BY <1>1, <3>2
      <4>2. Sym(t, k + d + 1) = Sym(s, k + 1)
        BY <1>2, <4>1
      <4>. QED
        BY <1>2, <2>1, <4>2 DEF Opens
    <3>. QED
      BY <3>1, <3>2
  <2>3. CASE Sym(s, k) = Top(r).stop
    BY <1>2, <1>3, <2>1, <2>2, <2>3 DEF Quiet
  <2>4. CASE Sym(s, k) # Top(r).stop /\ Sym(s, k) = "#" /\ Top(r).mode = "markup"
    <3>1. Hash(t, k + d, r, j + d, q)
      BY <1>1, <2>1, <2>4, HashMoved
    <3>. QED
      BY <1>2, <1>3, <2>2, <2>4, <3>1 DEF Quiet
  <2>5. CASE Sym(s, k) # Top(r).stop /\ ~(Sym(s, k) = "#" /\ Top(r).mode = "markup")
    <3>1. Delimiter(t, k + d, r, j + d, q)
      BY <1>2, <2>1, <2>5 DEF Delimiter
    <3>. QED
      BY <1>2, <1>3, <2>2, <2>5, <3>1 DEF Quiet
  <2>. QED
    BY <2>3, <2>4, <2>5
<1>. QED
  BY <1>4, <1>5

(* A trail of one step.                                                    *)
LEMMA LeadsOne ==
  ASSUME NEW s, NEW b, NEW N, NEW k \in Nat \ {0}, NEW j \in Nat, k < j,
         NEW r \in Stack, NEW q \in Stack,
         \/ N = {} /\ Quiet(s, k, r, j, q)
         \/ \E n : N = {n} /\ CallRead(s, b[n], k, r, j, q)
  PROVE  Leads(s, b, N, k, r, j, q)
<1>. DEFINE D  == {k, j}
            at == [n \in D |-> IF n = k THEN r ELSE q]
<1>1. D \in SUBSET (k .. j) /\ at \in [D -> Stack] /\ at[k] = r /\ at[j] = q
  OBVIOUS
<1>2. Follows(D, k, j)
  BY DEF Follows
<1>3. Goes(s, b, N, k, r, j, q)
  BY DEF Goes
<1>4. ASSUME NEW n \in N
      PROVE  b[n].start = k /\ b[n].end = j /\ CallRead(s, b[n], k, r, j, q)
  BY <1>4 DEF CallRead
<1>5. D \ {j} = {k} /\ k \in D /\ j \in D
  OBVIOUS
<1>. HIDE DEF D, at
<1>6. Trail(s, b, N, D, at, k, j)
  BY <1>1, <1>2, <1>3, <1>4, <1>5 DEF Trail
<1>. QED
  BY <1>1, <1>6 DEF Leads

(* One that is nowhere yet.                                                *)
LEMMA LeadsNowhere ==
  ASSUME NEW s, NEW b, NEW k \in Nat \ {0}, NEW r \in Stack
  PROVE  Leads(s, b, {}, k, r, k, r)
<1>. DEFINE D  == {k}
            at == [n \in D |-> r]
<1>1. D \in SUBSET (k .. k) /\ at \in [D -> Stack] /\ at[k] = r /\ k \in D /\ D \ {k} = {}
  OBVIOUS
<1>. HIDE DEF D, at
<1>2. Trail(s, b, {}, D, at, k, k)
  BY <1>1 DEF Trail
<1>. QED
  BY <1>1, <1>2 DEF Leads

(* A trail after another.                                                  *)
LEMMA LeadsOn ==
  ASSUME NEW s, NEW b, NEW N, NEW M, NEW a, NEW r, NEW y, NEW p, NEW z, NEW q,
         Leads(s, b, N, a, r, y, p), Leads(s, b, M, y, p, z, q)
  PROVE  Leads(s, b, N \cup M, a, r, z, q)
<1>1. PICK D, at : Trail(s, b, N, D, at, a, y) /\ at[a] = r /\ at[y] = p
  BY DEF Leads
<1>2. PICK E, as : Trail(s, b, M, E, as, y, z) /\ as[y] = p /\ as[z] = q
  BY DEF Leads
<1>3. /\ a \in Nat \ {0} /\ y \in Nat /\ D \in SUBSET (a .. y) /\ a \in D /\ y \in D
      /\ at \in [D -> Stack]
      /\ \A k \in D \ {y} : \E j \in D : Follows(D, k, j) /\ Goes(s, b, N, k, at[k], j, at[j])
      /\ \A n \in N : /\ Follows(D, b[n].start, b[n].end)
           /\ CallRead(s, b[n], b[n].start, at[b[n].start], b[n].end, at[b[n].end])
  BY <1>1 DEF Trail
<1>4. /\ y \in Nat \ {0} /\ z \in Nat /\ E \in SUBSET (y .. z) /\ y \in E /\ z \in E
      /\ as \in [E -> Stack]
      /\ \A k \in E \ {z} : \E j \in E : Follows(E, k, j) /\ Goes(s, b, M, k, as[k], j, as[j])
      /\ \A n \in M : /\ Follows(E, b[n].start, b[n].end)
           /\ CallRead(s, b[n], b[n].start, as[b[n].start], b[n].end, as[b[n].end])
  BY <1>2 DEF Trail
<1>. DEFINE F  == D \cup E
            ar == [n \in F |-> IF n \in D THEN at[n] ELSE as[n]]
<1>5. /\ \A n \in D : n \in F /\ ar[n] = at[n] /\ n \in Nat /\ a <= n /\ n <= y
      /\ \A n \in E : n \in F /\ ar[n] = as[n] /\ n \in Nat /\ y <= n /\ n <= z
      /\ ar \in [F -> Stack] /\ F = D \cup E
  <2>1. /\ \A n \in D : n \in Nat /\ a <= n /\ n <= y
        /\ \A n \in E : n \in Nat /\ y <= n /\ n <= z
    BY <1>3, <1>4
  <2>2. \A n \in E : n \in D => n = y
    BY <1>3, <2>1
  <2>3. \A n \in E : ar[n] = as[n]
    BY <1>1, <1>2, <2>2
  <2>4. ar \in [F -> Stack]
    BY <1>3, <1>4
  <2>. QED
    BY <2>1, <2>3, <2>4
<1>. HIDE DEF F, ar
<1>6. a <= z /\ F \in SUBSET (a .. z) /\ a \in F /\ z \in F
  BY <1>3, <1>4, <1>5
<1>7. ASSUME NEW k, NEW j, Follows(D, k, j) PROVE Follows(F, k, j)
  <2>1. k \in D /\ j \in D /\ k < j /\ (\A n \in D : n <= k \/ j <= n)
    BY <1>7 DEF Follows
  <2>2. j \in Nat /\ j <= y
    BY <1>5, <2>1
  <2>3. ASSUME NEW n \in E PROVE j <= n
    <3>1. n \in Nat /\ y <= n /\ y \in Nat
      BY <1>3, <1>5
    <3>. QED
      BY <2>2, <3>1
  <2>. QED
    BY <1>5, <2>1, <2>3 DEF Follows
<1>8. ASSUME NEW k, NEW j, Follows(E, k, j) PROVE Follows(F, k, j)
  <2>1. k \in E /\ j \in E /\ k < j /\ (\A n \in E : n <= k \/ j <= n)
    BY <1>8 DEF Follows
  <2>2. k \in Nat /\ y <= k
    BY <1>5, <2>1
  <2>3. \A n \in D : n <= k
    BY <1>3, <1>5, <2>2
  <2>. QED
    BY <1>5, <2>1, <2>3 DEF Follows
<1>9. ASSUME NEW k \in F \ {z}
      PROVE  \E j \in F : Follows(F, k, j) /\ Goes(s, b, N \cup M, k, ar[k], j, ar[j])
  <2>1. CASE k \in D \ {y}
    <3>1. PICK j \in D : Follows(D, k, j) /\ Goes(s, b, N, k, at[k], j, at[j])
      BY <1>3, <2>1
    <3>2. Goes(s, b, N \cup M, k, at[k], j, at[j])
      BY <3>1 DEF Goes
    <3>. QED
      BY <1>5, <1>7, <2>1, <3>1, <3>2
  <2>2. CASE k \in E \ {z}
    <3>1. PICK j \in E : Follows(E, k, j) /\ Goes(s, b, M, k, as[k], j, as[j])
      BY <1>4, <2>2
    <3>2. Goes(s, b, N \cup M, k, as[k], j, as[j])
      BY <3>1 DEF Goes
    <3>. QED
      BY <1>5, <1>8, <2>2, <3>1, <3>2
  <2>. QED
    BY <1>4, <1>5, <2>1, <2>2
<1>10. ASSUME NEW n \in N \cup M
       PROVE  /\ Follows(F, b[n].start, b[n].end)
              /\ CallRead(s, b[n], b[n].start, ar[b[n].start], b[n].end, ar[b[n].end])
  <2>1. CASE n \in N
    <3>1. Follows(D, b[n].start, b[n].end)
      BY <1>3, <2>1
    <3>2. b[n].start \in D /\ b[n].end \in D
      BY <3>1 DEF Follows
    <3>. QED
      BY <1>3, <1>5, <1>7, <2>1, <3>1, <3>2
  <2>2. CASE n \in M
    <3>1. Follows(E, b[n].start, b[n].end)
      BY <1>4, <2>2
    <3>2. b[n].start \in E /\ b[n].end \in E
      BY <3>1 DEF Follows
    <3>. QED
      BY <1>4, <1>5, <1>8, <2>2, <3>1, <3>2
  <2>. QED
    BY <2>1, <2>2
<1>11. Trail(s, b, N \cup M, F, ar, a, z)
  BY <1>3, <1>4, <1>5, <1>6, <1>9, <1>10 DEF Trail
<1>12. ar[a] = r /\ ar[z] = q
  BY <1>1, <1>2, <1>3, <1>4, <1>5
<1>. QED
  BY <1>11, <1>12 DEF Leads

(* A trail, up to a place on it and from there on.                         *)
LEMMA TrailCut ==
  ASSUME NEW s, NEW b, NEW N, NEW D, NEW at, NEW a, NEW z, Trail(s, b, N, D, at, a, z), NEW x \in D
  PROVE  /\ Leads(s, b, {n \in N : b[n].end <= x}, a, at[a], x, at[x])
         /\ Leads(s, b, {n \in N : x <= b[n].start}, x, at[x], z, at[z])
<1>1. /\ a \in Nat \ {0} /\ z \in Nat /\ D \in SUBSET (a .. z) /\ a \in D /\ z \in D
      /\ at \in [D -> Stack]
      /\ \A k \in D \ {z} : \E j \in D : Follows(D, k, j) /\ Goes(s, b, N, k, at[k], j, at[j])
      /\ \A n \in N : /\ Follows(D, b[n].start, b[n].end)
           /\ CallRead(s, b[n], b[n].start, at[b[n].start], b[n].end, at[b[n].end])
  BY DEF Trail
<1>2. \A n \in D : n \in Nat /\ a <= n /\ n <= z
  BY <1>1
<1>. DEFINE M == {n \in N : b[n].end <= x}
            E == {n \in D : n <= x}
            L == {n \in N : x <= b[n].start}
            F == {n \in D : x <= n}
<1>3. ASSUME NEW T \in SUBSET D PROVE [n \in T |-> at[n]] \in [T -> Stack]
  BY <1>1
<1>4. ASSUME NEW T \in SUBSET D, NEW k \in T, NEW j \in T, Follows(D, k, j)
      PROVE  Follows(T, k, j)
  BY <1>4 DEF Follows
<1>5. Leads(s, b, M, a, at[a], x, at[x])
  <2>. DEFINE as == [n \in E |-> at[n]]
  <2>1. E \in SUBSET (a .. x) /\ a \in E /\ x \in E /\ x \in Nat /\ E \in SUBSET D
    <3>1. x \in Nat /\ a <= x /\ x <= x
      BY <1>2
    <3>2. \A n \in E : n \in D /\ n \in Nat /\ a <= n /\ n <= x
      BY <1>2
    <3>3. \A n \in E : n \in a .. x
      BY <1>1, <3>1, <3>2
    <3>. QED
      BY <1>1, <3>1, <3>3
  <2>2. as \in [E -> Stack] /\ \A n \in E : as[n] = at[n]
    BY <1>3, <2>1
  <2>3. ASSUME NEW k \in E \ {x}
        PROVE  \E j \in E : Follows(E, k, j) /\ Goes(s, b, M, k, as[k], j, as[j])
    <3>1. k \in D \ {z}
      BY <1>2, <2>1
    <3>2. PICK j \in D : Follows(D, k, j) /\ Goes(s, b, N, k, at[k], j, at[j])
      BY <1>1, <3>1
    <3>3. k < x /\ (x <= k \/ j <= x) /\ j \in Nat /\ k \in Nat /\ x \in Nat
      BY <1>2, <2>1, <3>1, <3>2 DEF Follows
    <3>4. j <= x /\ j \in E
      BY <3>3
    <3>5. Goes(s, b, M, k, at[k], j, at[j])
      BY <3>2, <3>4 DEF Goes, CallRead
    <3>6. Follows(E, k, j)
      BY <1>4, <2>1, <3>2, <3>4
    <3>. QED
      BY <2>2, <3>4, <3>5, <3>6
  <2>4. ASSUME NEW n \in M
        PROVE  /\ Follows(E, b[n].start, b[n].end)
               /\ CallRead(s, b[n], b[n].start, as[b[n].start], b[n].end, as[b[n].end])
    <3>1. n \in N /\ b[n].end <= x /\ Follows(D, b[n].start, b[n].end)
      BY <1>1
    <3>2. b[n].start \in D /\ b[n].end \in D /\ b[n].start < b[n].end
      BY <3>1 DEF Follows
    <3>3. b[n].start \in E /\ b[n].end \in E
      BY <1>2, <3>1, <3>2
    <3>. QED
      BY <1>1, <1>4, <2>1, <2>2, <3>1, <3>3
  <2>. HIDE DEF as, M, E
  <2>5. Trail(s, b, M, E, as, a, x)
    BY <1>1, <2>1, <2>2, <2>3, <2>4 DEF Trail
  <2>. QED
    BY <2>1, <2>2, <2>5 DEF Leads
<1>6. Leads(s, b, L, x, at[x], z, at[z])
  <2>. DEFINE as == [n \in F |-> at[n]]
  <2>1. F \in SUBSET (x .. z) /\ x \in F /\ z \in F /\ x \in Nat \ {0} /\ F \in SUBSET D
    <3>1. x \in Nat \ {0} /\ x <= z /\ x <= x
      BY <1>1, <1>2
    <3>2. \A n \in F : n \in D /\ n \in Nat /\ x <= n /\ n <= z
      BY <1>2
    <3>3. \A n \in F : n \in x .. z
      BY <1>1, <3>1, <3>2
    <3>. QED
      BY <1>1, <3>1, <3>3
  <2>2. as \in [F -> Stack] /\ \A n \in F : as[n] = at[n]
    BY <1>3, <2>1
  <2>3. ASSUME NEW k \in F \ {z}
        PROVE  \E j \in F : Follows(F, k, j) /\ Goes(s, b, L, k, as[k], j, as[j])
    <3>1. k \in D \ {z} /\ x <= k
      BY <1>2, <2>1
    <3>2. PICK j \in D : Follows(D, k, j) /\ Goes(s, b, N, k, at[k], j, at[j])
      BY <1>1, <3>1
    <3>3. k < j /\ j \in Nat /\ k \in Nat /\ x \in Nat
      BY <1>2, <2>1, <3>1, <3>2 DEF Follows
    <3>4. j \in F
      BY <3>1, <3>3
    <3>5. Goes(s, b, L, k, at[k], j, at[j])
      BY <3>1, <3>2 DEF Goes, CallRead
    <3>6. Follows(F, k, j)
      BY <1>4, <2>1, <3>2, <3>4
    <3>. QED
      BY <2>2, <3>4, <3>5, <3>6
  <2>4. ASSUME NEW n \in L
        PROVE  /\ Follows(F, b[n].start, b[n].end)
               /\ CallRead(s, b[n], b[n].start, as[b[n].start], b[n].end, as[b[n].end])
    <3>1. n \in N /\ x <= b[n].start /\ Follows(D, b[n].start, b[n].end)
      BY <1>1
    <3>2. b[n].start \in D /\ b[n].end \in D /\ b[n].start < b[n].end
      BY <3>1 DEF Follows
    <3>3. b[n].start \in F /\ b[n].end \in F
      BY <1>2, <3>1, <3>2
    <3>. QED
      BY <1>1, <1>4, <2>1, <2>2, <3>1, <3>3
  <2>. HIDE DEF as, L, F
  <2>5. Trail(s, b, L, F, as, x, z)
    BY <1>1, <2>1, <2>2, <2>3, <2>4 DEF Trail
  <2>. QED
    BY <2>1, <2>2, <2>5 DEF Leads
<1>. QED
  BY <1>5, <1>6

(* The step of a trail that gets to a place, or past it.                   *)
LEMMA LeadsAcross ==
  ASSUME NEW s, NEW b, NEW a, NEW r, NEW z, NEW q, Leads(s, b, {}, a, r, z, q),
         NEW y \in Nat, a < y, y <= z
  PROVE  \E k \in Nat \ {0}, j \in Nat, p \in Stack, o \in Stack :
           /\ Leads(s, b, {}, a, r, k, p) /\ Quiet(s, k, p, j, o) /\ Leads(s, b, {}, j, o, z, q)
           /\ k < y /\ y <= j /\ j <= z
<1>1. PICK D, at : Trail(s, b, {}, D, at, a, z) /\ at[a] = r /\ at[z] = q
  BY DEF Leads
<1>2. /\ a \in Nat \ {0} /\ z \in Nat /\ D \in SUBSET (a .. z) /\ a \in D /\ z \in D
      /\ at \in [D -> Stack]
      /\ \A k \in D \ {z} : \E j \in D : Follows(D, k, j) /\ Goes(s, b, {}, k, at[k], j, at[j])
  BY <1>1 DEF Trail
<1>. DEFINE T == {n \in D : n < y}
<1>3. T \in SUBSET Nat /\ a \in T /\ (\A n \in T : n <= y)
  <2>1. \A n \in D : n \in Nat
    BY <1>2
  <2>2. \A n \in T : n \in Nat /\ n <= y
    BY <2>1
  <2>. QED
    BY <1>2, <2>2
<1>4. PICK k \in T : \A n \in T : n <= k
  BY <1>3, GreatestNat
<1>5. k \in D \ {z} /\ k < y /\ k \in Nat \ {0}
  BY <1>2
<1>6. PICK j \in D : Follows(D, k, j) /\ Goes(s, b, {}, k, at[k], j, at[j])
  BY <1>2, <1>5
<1>7. k < j /\ j \in Nat /\ j <= z
  BY <1>2, <1>6 DEF Follows
<1>8. y <= j
  BY <1>4, <1>5, <1>7
<1>9. Quiet(s, k, at[k], j, at[j])
  BY <1>6 DEF Goes
<1>10. at[k] \in Stack /\ at[j] \in Stack
  BY <1>2, <1>5
<1>11. Leads(s, b, {}, a, r, k, at[k]) /\ Leads(s, b, {}, j, at[j], z, q)
  <2>1. k \in D /\ \A n : {m \in {} : n} = {}
    BY <1>5
  <2>2. Leads(s, b, {n \in {} : b[n].end <= k}, a, at[a], k, at[k])
    BY <1>1, <2>1, TrailCut
  <2>3. Leads(s, b, {n \in {} : j <= b[n].start}, j, at[j], z, at[z])
    BY <1>1, TrailCut
  <2>4. {n \in {} : b[n].end <= k} = {} /\ {n \in {} : j <= b[n].start} = {}
    OBVIOUS
  <2>. QED
    BY <1>1, <2>2, <2>3, <2>4
<1>. QED
  BY <1>5, <1>7, <1>8, <1>9, <1>10, <1>11

(* A trail around a call that it reads.                                    *)
LEMMA LeadsCall ==
  ASSUME NEW s, NEW b, NEW N, NEW a, NEW r, NEW z, NEW q, Leads(s, b, N, a, r, z, q), NEW n \in N
  PROVE  \E p \in Stack :
           /\ Leads(s, b, {m \in N : b[m].end <= b[n].start}, a, r, b[n].start, p)
           /\ CallRead(s, b[n], b[n].start, p, b[n].end, p)
           /\ Leads(s, b, {m \in N : b[n].end <= b[m].start}, b[n].end, p, z, q)
<1>1. PICK D, at : Trail(s, b, N, D, at, a, z) /\ at[a] = r /\ at[z] = q
  BY DEF Leads
<1>2. /\ at \in [D -> Stack] /\ Follows(D, b[n].start, b[n].end)
      /\ CallRead(s, b[n], b[n].start, at[b[n].start], b[n].end, at[b[n].end])
  BY <1>1 DEF Trail
<1>3. b[n].start \in D /\ b[n].end \in D /\ at[b[n].end] = at[b[n].start] /\ at[b[n].start] \in Stack
  BY <1>2 DEF Follows, CallRead
<1>. DEFINE M == {m \in N : b[m].end <= b[n].start}
            L == {m \in N : b[n].end <= b[m].start}
<1>4. /\ Leads(s, b, M, a, r, b[n].start, at[b[n].start])
      /\ Leads(s, b, L, b[n].end, at[b[n].start], z, q)
  <2>1. Leads(s, b, M, a, at[a], b[n].start, at[b[n].start])
    BY <1>1, <1>3, TrailCut
  <2>2. Leads(s, b, L, b[n].end, at[b[n].end], z, at[z])
    <3>1. PICK e \in D : e = b[n].end
      BY <1>3
    <3>2. Leads(s, b, {m \in N : e <= b[m].start}, e, at[e], z, at[z])
      BY <1>1, TrailCut
    <3>. QED
      BY <3>1, <3>2
  <2>3. b[n].end \in D /\ at[b[n].end] = at[b[n].start]
    BY <1>3
  <2>. HIDE DEF M, L
  <2>. QED
    BY <1>1, <2>1, <2>2, <2>3
<1>5. CallRead(s, b[n], b[n].start, at[b[n].start], b[n].end, at[b[n].start])
  BY <1>2, <1>3
<1>. QED
  BY <1>3, <1>4, <1>5

(* What a trail says is where it is.                                       *)
LEMMA LeadsIn ==
  ASSUME NEW s, NEW b, NEW N, NEW a, NEW r, NEW z, NEW q, Leads(s, b, N, a, r, z, q)
  PROVE  a \in Nat \ {0} /\ z \in Nat /\ a <= z /\ r \in Stack /\ q \in Stack
BY DEF Leads, Trail

(* Calls that it does not read may change.                                 *)
LEMMA LeadsSame ==
  ASSUME NEW s, NEW b, NEW c, NEW N, NEW a, NEW r, NEW z, NEW q, Leads(s, b, N, a, r, z, q),
         \A n \in N : c[n] = b[n]
  PROVE  Leads(s, c, N, a, r, z, q)
<1>1. PICK D, at : Trail(s, b, N, D, at, a, z) /\ at[a] = r /\ at[z] = q
  BY DEF Leads
<1>2. Trail(s, c, N, D, at, a, z)
  BY <1>1 DEF Trail, Goes
<1>. QED
  BY <1>1, <1>2 DEF Leads

(* The regions of a stack, and one more.                                   *)
LEMMA StackIs ==
  ASSUME NEW r \in Stack
  PROVE  /\ Len(r) \in Nat \ {0} /\ r \in Seq({Markup, InMarkup, CodeArgs})
         /\ Top(r) \in {Markup, InMarkup, CodeArgs} /\ Top(r).mode \in {"markup", "code"}
         /\ Top(r).mode = "code" => Top(r).stop = ")"
         /\ Top(r).mode = "markup" => Top(r).stop \in {None, "]"}
         /\ \A c \in {InMarkup, CodeArgs} :
              /\ Append(r, c) \in Stack /\ Top(Append(r, c)) = c
              /\ SubSeq(Append(r, c), 1, Len(Append(r, c)) - 1) = r
<1>. DEFINE R == {Markup, InMarkup, CodeArgs}
<1>1. r \in Seq(R) /\ r # <<>> /\ Len(r) \in Nat
  BY LenProperties DEF Stack
<1>2. Len(r) # 0
  BY <1>1, EmptySeq
<1>3. Top(r) \in R
  <2>1. Len(r) \in 1 .. Len(r)
    BY <1>1, <1>2
  <2>. HIDE DEF R
  <2>. QED
    BY <1>1, <2>1, ElementOfSeq DEF Top
<1>4. ASSUME NEW c \in {InMarkup, CodeArgs}
      PROVE  /\ Append(r, c) \in Stack /\ Top(Append(r, c)) = c
             /\ SubSeq(Append(r, c), 1, Len(Append(r, c)) - 1) = r
  <2>. DEFINE e == Append(r, c)
  <2>1. c \in R
    OBVIOUS
  <2>. HIDE DEF R
  <2>2. e \in Seq(R) /\ e # <<>> /\ Len(e) = Len(r) + 1 /\ e[Len(r) + 1] = c
        /\ \A n \in 1 .. Len(r) : e[n] = r[n]
    BY <1>1, <2>1, AppendProperties
  <2>. HIDE DEF e
  <2>3. Len(e) - 1 = Len(r) /\ Len(r) <= Len(e) /\ 1 <= Len(r)
    BY <1>1, <1>2, <2>2
  <2>. DEFINE f == SubSeq(e, 1, Len(r))
  <2>4. f \in Seq(R) /\ Len(f) = Len(r) /\ \A n \in 1 .. Len(r) : f[n] = e[n]
    <3>1. \A n \in 1 .. Len(r) : e[n] \in R
      BY <1>1, <2>2, ElementOfSeq
    <3>2. /\ f \in Seq(R)
          /\ Len(f) = IF 1 <= Len(r) THEN Len(r) - 1 + 1 ELSE 0
          /\ \A n \in 1 .. Len(r) - 1 + 1 : f[n] = e[1 + n - 1]
      BY <1>1, <3>1, SubSeqProperties
    <3>. QED
      BY <1>1, <2>3, <3>2
  <2>5. f = r
    <3>. HIDE DEF f
    <3>. QED
      BY <1>1, <2>2, <2>4, SeqEqual
  <2>. QED
    BY <2>2, <2>3, <2>5 DEF Stack, Top, e, R
<1>5. /\ Top(r).mode \in {"markup", "code"}
      /\ Top(r).mode = "code" => Top(r).stop = ")"
      /\ Top(r).mode = "markup" => Top(r).stop \in {None, "]"}
  BY <1>3 DEF Markup, InMarkup, CodeArgs
<1>. QED
  BY <1>1, <1>2, <1>3, <1>4, <1>5

(* Two texts that agree: what a trail needs of them.                       *)
Agree(s, t, a, z, d) ==
  /\ \A n \in a .. z - 1 : Sym(t, n + d) = Sym(s, n)
  /\ Alike(Sym(s, z), Sym(t, z + d))
  /\ z > Len(s) => Len(t) = Len(s) + d
  /\ \A n \in a .. z - 1 : \A mode \in {"markup", "code"} :
       NoCall(s, n, mode) => NoCall(t, n + d, mode)

(* A trail, at another place of another text.                              *)
LEMMA LeadsMoved ==
  ASSUME NEW s \in Seq(Symbol), NEW t \in Seq(Symbol), NEW b, NEW N, NEW a, NEW r, NEW z, NEW q,
         Leads(s, b, N, a, r, z, q), NEW d \in Int, 1 <= a + d, N = {} \/ d = 0,
         Agree(s, t, a, z, d),
         Top(q).mode = "markup" /\ isIdentChar(Sym(t, z + d)) => isIdentChar(Sym(s, z))
  PROVE  Leads(t, b, N, a + d, r, z + d, q)
<1>1. PICK D, at : Trail(s, b, N, D, at, a, z) /\ at[a] = r /\ at[z] = q
  BY DEF Leads
<1>2. /\ a \in Nat \ {0} /\ z \in Nat /\ D \in SUBSET (a .. z) /\ a \in D /\ z \in D
      /\ at \in [D -> Stack]
      /\ \A k \in D \ {z} : \E j \in D : Follows(D, k, j) /\ Goes(s, b, N, k, at[k], j, at[j])
      /\ \A n \in N : /\ Follows(D, b[n].start, b[n].end)
           /\ CallRead(s, b[n], b[n].start, at[b[n].start], b[n].end, at[b[n].end])
  BY <1>1 DEF Trail
<1>3. \A n \in D : n \in Nat /\ a <= n /\ n <= z /\ at[n] \in Stack
  BY <1>2
<1>4. ASSUME NEW k \in D, NEW j \in D, k < j PROVE Agree(s, t, k, j, d)
  <2>1. k \in Nat /\ j \in Nat /\ a <= k /\ j <= z
    BY <1>3
  <2>2. Alike(Sym(s, j), Sym(t, j + d))
    <3>1. CASE j = z
      BY <3>1 DEF Agree
    <3>2. CASE j # z
      <4>1. j \in a .. z - 1
        BY <1>2, <1>4, <2>1, <3>2
      <4>. QED
        BY <4>1 DEF Agree, Alike
    <3>. QED
      BY <3>1, <3>2
  <2>3. j > Len(s) => z > Len(s)
    BY <1>2, <2>1, SymIs
  <2>4. k .. j - 1 \subseteq a .. z - 1
    BY <1>2, <2>1
  <2>. QED
    BY <2>2, <2>3, <2>4 DEF Agree
<1>5. ASSUME NEW k \in D, NEW j \in D, k < j, Quiet(s, k, at[k], j, at[j])
      PROVE  Quiet(t, k + d, at[k], j + d, at[j])
  <2>1. /\ k \in Nat \ {0} /\ j \in Nat /\ a <= k /\ j <= z /\ at[k] \in Stack /\ 1 <= k + d
        /\ k \in k .. j - 1
    BY <1>2, <1>3, <1>5
  <2>2. Agree(s, t, k, j, d)
    BY <1>4, <1>5
  <2>3. Top(at[k]).mode \in {"markup", "code"}
    BY <2>1, StackIs
  <2>4. NoCall(t, k + d, Top(at[k]).mode)
    <3>1. CASE Opens(s, k)
      <4>1. Sym(t, k + d) \in {"/", "quote", "tick"}
        BY <2>1, <2>2, <3>1 DEF Agree, Opens
      <4>. QED
        BY <4>1 DEF NoCall
    <3>2. CASE ~Opens(s, k)
      <4>1. NoCall(s, k, Top(at[k]).mode)
        BY <1>5, <3>2 DEF Quiet, Opaque, Opens, Shut
      <4>. QED
        BY <2>1, <2>2, <2>3, <4>1 DEF Agree
    <3>. QED
      BY <3>1, <3>2
  <2>5. Top(at[j]).mode = "markup" /\ isIdentChar(Sym(t, j + d)) => isIdentChar(Sym(s, j))
    <3>1. CASE j = z
      BY <1>1, <3>1
    <3>2. CASE j # z
      <4>1. j \in a .. z - 1
        BY <1>2, <1>5, <2>1, <3>2
      <4>. QED
        BY <4>1 DEF Agree
    <3>. QED
      BY <3>1, <3>2
  <2>. QED
    BY <1>5, <2>1, <2>2, <2>4, <2>5, QuietMoved DEF Agree
<1>6. ASSUME NEW n \in N
      PROVE  /\ d = 0 /\ b[n].start \in D /\ b[n].end \in D /\ b[n].start < b[n].end
             /\ CallRead(t, b[n], b[n].start, at[b[n].start], b[n].end, at[b[n].end])
  <2>1. d = 0
    OBVIOUS
  <2>. DEFINE k == b[n].start
              j == b[n].end
  <2>2. k \in D /\ j \in D /\ k < j /\ CallRead(s, b[n], k, at[k], j, at[j])
    BY <1>2 DEF Follows
  <2>. HIDE DEF k, j
  <2>3. k \in a .. z - 1 /\ j - 1 \in a .. z - 1 /\ k + 0 = k /\ j - 1 + 0 = j - 1
    BY <1>2, <1>3, <2>2
  <2>4. Sym(t, k) = Sym(s, k) /\ Sym(t, j - 1) = Sym(s, j - 1)
    BY <2>1, <2>3 DEF Agree
  <2>5. CallRead(t, b[n], k, at[k], j, at[j])
    BY <2>2, <2>4 DEF CallRead
  <2>. QED
    BY <2>1, <2>2, <2>5 DEF k, j
<1>. DEFINE E  == {n \in a + d .. z + d : n - d \in D}
            as == [n \in E |-> at[n - d]]
<1>7. ASSUME NEW k \in D PROVE k + d \in E /\ as[k + d] = at[k]
  <2>1. k \in Nat /\ a <= k /\ k <= z /\ k + d - d = k
    BY <1>3
  <2>2. k + d \in a + d .. z + d
    BY <1>2, <2>1
  <2>. QED
    BY <2>1, <2>2
<1>8. ASSUME NEW n \in E PROVE n - d \in D /\ n = n - d + d /\ n \in a + d .. z + d
  OBVIOUS
<1>9. as \in [E -> Stack]
  BY <1>3
<1>. HIDE DEF E, as
<1>10. ASSUME NEW k, NEW j, Follows(D, k, j) PROVE Follows(E, k + d, j + d)
  <2>1. k \in D /\ j \in D /\ k < j /\ (\A n \in D : n <= k \/ j <= n)
    BY <1>10 DEF Follows
  <2>2. k \in Nat /\ j \in Nat
    BY <1>3, <2>1
  <2>3. ASSUME NEW n \in E PROVE n <= k + d \/ j + d <= n
    <3>1. PICK m \in D : n = m + d /\ m \in Nat
      BY <1>3, <1>8
    <3>2. m <= k \/ j <= m
      BY <2>1
    <3>. QED
      BY <2>2, <3>1, <3>2
  <2>4. k + d < j + d
    BY <2>1, <2>2
  <2>. QED
    BY <1>7, <2>1, <2>3, <2>4 DEF Follows
<1>11. ASSUME NEW e \in E \ {z + d}
       PROVE  \E f \in E : Follows(E, e, f) /\ Goes(t, b, N, e, as[e], f, as[f])
  <2>1. PICK k \in D \ {z} : e = k + d
    BY <1>8
  <2>2. PICK j \in D : Follows(D, k, j) /\ Goes(s, b, N, k, at[k], j, at[j])
    BY <1>2, <2>1
  <2>3. k < j
    BY <2>2 DEF Follows
  <2>4. Goes(t, b, N, k + d, at[k], j + d, at[j])
    <3>1. CASE Quiet(s, k, at[k], j, at[j])
      BY <1>5, <2>3, <3>1 DEF Goes
    <3>2. CASE \E n \in N : CallRead(s, b[n], k, at[k], j, at[j])
      <4>1. PICK n \in N : CallRead(s, b[n], k, at[k], j, at[j])
        BY <3>2
      <4>2. k = b[n].start /\ j = b[n].end
        BY <4>1 DEF CallRead
      <4>3. d = 0 /\ CallRead(t, b[n], k, at[k], j, at[j])
        BY <1>6, <4>2
      <4>4. k + d = k /\ j + d = j
        BY <1>3, <4>3
      <4>. QED
        BY <4>3, <4>4 DEF Goes
    <3>. QED
      BY <2>2, <3>1, <3>2 DEF Goes
  <2>5. Follows(E, k + d, j + d) /\ j + d \in E /\ as[k + d] = at[k] /\ as[j + d] = at[j]
    BY <1>7, <1>10, <2>2
  <2>. QED
    BY <2>1, <2>4, <2>5
<1>12. ASSUME NEW n \in N
       PROVE  /\ Follows(E, b[n].start, b[n].end)
              /\ CallRead(t, b[n], b[n].start, as[b[n].start], b[n].end, as[b[n].end])
  <2>1. /\ d = 0 /\ b[n].start \in D /\ b[n].end \in D
        /\ CallRead(t, b[n], b[n].start, at[b[n].start], b[n].end, at[b[n].end])
    BY <1>6
  <2>2. b[n].start + d = b[n].start /\ b[n].end + d = b[n].end
    BY <1>3, <2>1
  <2>3. Follows(D, b[n].start, b[n].end)
    BY <1>2
  <2>4. Follows(E, b[n].start, b[n].end)
    BY <1>10, <2>2, <2>3
  <2>5. as[b[n].start] = at[b[n].start] /\ as[b[n].end] = at[b[n].end]
    <3>1. \A k \in D : k + d = k => as[k] = at[k]
      <4>. SUFFICES ASSUME NEW k \in D, k + d = k PROVE as[k] = at[k]
        OBVIOUS
      <4>1. as[k + d] = at[k]
        BY <1>7
      <4>. QED
        BY <4>1
    <3>. QED
      BY <2>1, <2>2, <3>1
  <2>. QED
    BY <2>1, <2>4, <2>5
<1>13. a + d \in Nat \ {0} /\ z + d \in Nat /\ E \in SUBSET (a + d .. z + d)
  <2>1. a <= z
    BY <1>2, <1>3
  <2>. QED
    BY <1>2, <1>8, <2>1
<1>14. a + d \in E /\ z + d \in E /\ as[a + d] = r /\ as[z + d] = q
  BY <1>1, <1>2, <1>7
<1>15. Trail(t, b, N, E, as, a + d, z + d)
  BY <1>9, <1>11, <1>12, <1>13, <1>14 DEF Trail
<1>. QED
  BY <1>14, <1>15 DEF Leads

(* A text in which w stands in the place of [a, e).                        *)
Patched(s, a, w, e) == SubSeq(s, 1, a - 1) \o w \o SubSeq(s, e, Len(s))

(* The symbols before a, those of w, and those from e on, moved by d.      *)
InPieces(s, a, w, e, t, d) ==
  /\ t \in Seq(Symbol) /\ Len(t) = Len(s) + d /\ d \in Int /\ Len(w) \in Nat
  /\ \A n \in Int : n < a => Sym(t, n) = Sym(s, n)
  /\ \A n \in 1 .. Len(w) : Sym(t, a - 1 + n) = w[n]
  /\ \A n \in Int : e <= n => Sym(t, n + d) = Sym(s, n)

(* A patched text is the text before, the patch and the text after.        *)
LEMMA PatchIs ==
  ASSUME NEW s \in Seq(Symbol), NEW w \in Seq(Symbol),
         NEW a \in 1 .. Len(s) + 1, NEW e \in a .. Len(s) + 1,
         NEW t, t = Patched(s, a, w, e), NEW d, d = a + Len(w) - e
  PROVE  InPieces(s, a, w, e, t, d)
<1>. DEFINE u == SubSeq(s, 1, a - 1)
            v == SubSeq(s, e, Len(s))
<1>1. Len(s) \in Nat /\ Len(w) \in Nat /\ DOMAIN s = 1 .. Len(s) /\ a \in Nat /\ e \in Nat
  BY LenProperties
<1>2. \A n \in 1 .. Len(s) : s[n] \in Symbol
  BY ElementOfSeq
<1>3. u \in Seq(Symbol) /\ Len(u) = a - 1 /\ \A n \in 1 .. a - 1 : u[n] = s[n]
  <2>1. \A n \in 1 .. a - 1 : s[n] \in Symbol
    BY <1>1, <1>2
  <2>2. /\ u \in Seq(Symbol)
        /\ Len(u) = IF 1 <= a - 1 THEN a - 1 - 1 + 1 ELSE 0
        /\ \A n \in 1 .. a - 1 - 1 + 1 : u[n] = s[1 + n - 1]
    BY <1>1, <2>1, SubSeqProperties
  <2>. HIDE DEF u
  <2>. QED
    BY <1>1, <2>2
<1>4. v \in Seq(Symbol) /\ Len(v) = Len(s) + 1 - e /\ \A n \in 1 .. Len(v) : v[n] = s[e + n - 1]
  <2>1. \A n \in e .. Len(s) : s[n] \in Symbol
    BY <1>1, <1>2
  <2>2. /\ v \in Seq(Symbol)
        /\ Len(v) = IF e <= Len(s) THEN Len(s) - e + 1 ELSE 0
        /\ \A n \in 1 .. Len(s) - e + 1 : v[n] = s[e + n - 1]
    BY <1>1, <2>1, SubSeqProperties
  <2>. HIDE DEF v
  <2>. QED
    BY <1>1, <2>2
<1>. HIDE DEF u, v
<1>5. t = (u \o w) \o v
  BY DEF Patched, u, v
<1>6. /\ u \o w \in Seq(Symbol) /\ Len(u \o w) = a - 1 + Len(w)
      /\ \A n \in 1 .. a - 1 : (u \o w)[n] = u[n]
      /\ \A n \in 1 .. Len(w) : (u \o w)[a - 1 + n] = w[n]
  <2>1. /\ u \o w \in Seq(Symbol) /\ Len(u \o w) = Len(u) + Len(w)
        /\ \A n \in 1 .. Len(u) + Len(w) : (u \o w)[n] = IF n <= Len(u) THEN u[n] ELSE w[n - Len(u)]
    BY <1>3, ConcatProperties
  <2>2. \A n \in 1 .. a - 1 : (u \o w)[n] = u[n]
    BY <1>1, <1>3, <2>1
  <2>3. ASSUME NEW n \in 1 .. Len(w) PROVE (u \o w)[a - 1 + n] = w[n]
    <3>1. a - 1 + n \in 1 .. Len(u) + Len(w) /\ ~(a - 1 + n <= Len(u)) /\ a - 1 + n - Len(u) = n
      BY <1>1, <1>3
    <3>. QED
      BY <2>1, <3>1
  <2>. QED
    BY <1>3, <2>1, <2>2, <2>3
<1>7. /\ t \in Seq(Symbol) /\ Len(t) = a - 1 + Len(w) + Len(v)
      /\ \A n \in 1 .. a - 1 + Len(w) : t[n] = (u \o w)[n]
      /\ \A n \in 1 .. Len(v) : t[a - 1 + Len(w) + n] = v[n]
  <2>. DEFINE x == u \o w
  <2>1. x \in Seq(Symbol) /\ Len(x) = a - 1 + Len(w) /\ t = x \o v
    BY <1>5, <1>6
  <2>. HIDE DEF x
  <2>2. /\ x \o v \in Seq(Symbol) /\ Len(x \o v) = Len(x) + Len(v)
        /\ \A n \in 1 .. Len(x) + Len(v) : (x \o v)[n] = IF n <= Len(x) THEN x[n] ELSE v[n - Len(x)]
    <3>1. x \in Seq(Symbol) /\ v \in Seq(Symbol)
      BY <1>4, <2>1
    <3>. QED
      BY <3>1, ConcatProperties
  <2>3. \A n \in 1 .. a - 1 + Len(w) : t[n] = x[n]
    BY <1>1, <1>4, <2>1, <2>2
  <2>4. ASSUME NEW n \in 1 .. Len(v) PROVE t[a - 1 + Len(w) + n] = v[n]
    <3>. DEFINE m == a - 1 + Len(w) + n
    <3>1. m \in 1 .. Len(x) + Len(v) /\ ~(m <= Len(x)) /\ m - Len(x) = n
      BY <1>1, <1>4, <2>1
    <3>. HIDE DEF m
    <3>2. t[m] = v[n]
      BY <2>1, <2>2, <3>1
    <3>. QED
      BY <3>2 DEF m
  <2>. QED
    BY <2>1, <2>2, <2>3, <2>4 DEF x
<1>8. d \in Int /\ Len(t) = Len(s) + d
  BY <1>1, <1>4, <1>7
<1>9. DOMAIN t = 1 .. Len(t) /\ Len(t) \in Nat
  BY <1>7, LenProperties
<1>10. ASSUME NEW n \in Int, n < a PROVE Sym(t, n) = Sym(s, n)
  <2>1. CASE n \in 1 .. a - 1
    <3>1. n \in 1 .. a - 1 + Len(w) /\ n \in 1 .. Len(t) /\ n \in 1 .. Len(s)
      BY <1>1, <1>4, <1>7, <2>1
    <3>. QED
      BY <1>1, <1>3, <1>6, <1>7, <1>9, <2>1, <3>1 DEF Sym
  <2>2. CASE n \notin 1 .. a - 1
    <3>1. n \notin 1 .. Len(t) /\ n \notin 1 .. Len(s)
      BY <1>1, <1>10, <2>2
    <3>. QED
      BY <1>1, <1>9, <3>1 DEF Sym
  <2>. QED
    BY <2>1, <2>2
<1>11. ASSUME NEW n \in 1 .. Len(w) PROVE Sym(t, a - 1 + n) = w[n]
  <2>1. a - 1 + n \in 1 .. a - 1 + Len(w) /\ a - 1 + n \in 1 .. Len(t)
    BY <1>1, <1>4, <1>7
  <2>. QED
    BY <1>6, <1>7, <1>9, <2>1 DEF Sym
<1>12. ASSUME NEW n \in Int, e <= n PROVE Sym(t, n + d) = Sym(s, n)
  <2>1. CASE n \in e .. Len(s)
    <3>1. PICK m \in Int : m = n + 1 - e
      OBVIOUS
    <3>2. m \in 1 .. Len(v) /\ e + m - 1 = n /\ a - 1 + Len(w) + m = n + d /\ n + d \in 1 .. Len(t)
          /\ n \in 1 .. Len(s)
      BY <1>1, <1>4, <1>7, <1>8, <2>1, <3>1
    <3>3. t[n + d] = s[n]
      BY <1>4, <1>7, <3>2
    <3>. QED
      BY <1>1, <1>9, <3>2, <3>3 DEF Sym
  <2>2. CASE n \notin e .. Len(s)
    <3>1. n + d \notin 1 .. Len(t) /\ n \notin 1 .. Len(s)
      BY <1>1, <1>8, <1>9, <1>12, <2>2
    <3>. QED
      BY <1>1, <1>9, <3>1 DEF Sym
  <2>. QED
    BY <2>1, <2>2
<1>. QED
  BY <1>1, <1>7, <1>8, <1>10, <1>11, <1>12 DEF InPieces

(* A symbol that is nothing in particular.                                 *)
LEMMA QuietOne ==
  ASSUME NEW t \in Seq(Symbol), NEW k \in Nat \ {0}, NEW p \in Stack,
         Sym(t, k) \in Symbol, Sym(t, k) \notin {"/", "quote", "tick", "#", "[", "(", ")", "]"},
         NoCall(t, k, Top(p).mode)
  PROVE  Quiet(t, k, p, k + 1, p)
<1>1. k \in 1 .. Len(t)
  BY SymIs
<1>2. ~Opens(t, k)
  BY DEF Opens
<1>3. Sym(t, k) # Top(p).stop
  BY StackIs, SymIs
<1>4. Delimiter(t, k, p, k + 1, p)
  BY DEF Delimiter
<1>. QED
  BY <1>1, <1>2, <1>3, <1>4 DEF Quiet

(* w stands at k in the text.                                              *)
Shows(t, k, w) == \A n \in 1 .. Len(w) : Sym(t, k - 1 + n) = w[n]

(* Its parts stand there one after the other.                              *)
Joined(w, u, v) == w = u \o v
Parted(t, k, w, u, v) ==
  /\ w \in Seq(Symbol) /\ Len(w) = Len(u) + Len(v) /\ Len(u) \in Nat /\ Len(v) \in Nat
  /\ Shows(t, k, u) /\ Shows(t, k + Len(u), v)
LEMMA ShowsParts ==
  ASSUME NEW t, NEW k \in Nat \ {0}, NEW u \in Seq(Symbol), NEW v \in Seq(Symbol),
         NEW w, Joined(w, u, v), Shows(t, k, w)
  PROVE  Parted(t, k, w, u, v)
<1>1. /\ w \in Seq(Symbol) /\ Len(w) = Len(u) + Len(v)
      /\ \A n \in 1 .. Len(u) + Len(v) : w[n] = IF n <= Len(u) THEN u[n] ELSE v[n - Len(u)]
  BY ConcatProperties DEF Joined
<1>2. Len(u) \in Nat /\ Len(v) \in Nat
  BY LenProperties
<1>3. \A n \in 1 .. Len(u) + Len(v) : Sym(t, k - 1 + n) = w[n]
  BY <1>1 DEF Shows
<1>4. ASSUME NEW n \in 1 .. Len(u) PROVE Sym(t, k - 1 + n) = u[n]
  <2>1. n \in 1 .. Len(u) + Len(v) /\ n <= Len(u)
    BY <1>2
  <2>. QED
    BY <1>1, <1>3, <2>1
<1>5. ASSUME NEW n \in 1 .. Len(v) PROVE Sym(t, k + Len(u) - 1 + n) = v[n]
  <2>1. PICK m \in Int : m = Len(u) + n
    BY <1>2
  <2>2. m \in 1 .. Len(u) + Len(v) /\ ~(m <= Len(u)) /\ m - Len(u) = n
        /\ k - 1 + m = k + Len(u) - 1 + n
    BY <1>2, <2>1
  <2>3. Sym(t, k - 1 + m) = v[n]
    BY <1>1, <1>3, <2>2
  <2>. QED
    BY <2>2, <2>3
<1>6. Shows(t, k, u) /\ Shows(t, k + Len(u), v)
  BY <1>4, <1>5 DEF Shows
<1>. QED
  BY <1>1, <1>2, <1>6 DEF Parted

(* A symbol that the scanner only steps over in code.                      *)
Dull(t, k) ==
  Sym(t, k) \in Symbol \ {"(", ")", "["} /\ ~Opens(t, k) /\ NoCall(t, k, "code")

(* Such symbols are stepped over one by one.                               *)
LEMMA DullRead ==
  ASSUME NEW t \in Seq(Symbol), NEW b, NEW k \in Nat \ {0}, NEW z \in Nat, k <= z,
         \A n \in k .. z - 1 : Dull(t, n), NEW p \in Stack, Top(p).mode = "code"
  PROVE  Leads(t, b, {}, k, p, z, p)
<1>. DEFINE D  == k .. z
            at == [n \in D |-> p]
<1>1. /\ D \in SUBSET (k .. z) /\ k \in D /\ z \in D /\ at \in [D -> Stack]
      /\ at[k] = p /\ at[z] = p
  OBVIOUS
<1>2. ASSUME NEW n \in D \ {z} PROVE \E j \in D : Follows(D, n, j) /\ Goes(t, b, {}, n, at[n], j, at[j])
  <2>1. n \in k .. z - 1 /\ n \in D /\ n + 1 \in D /\ n \in Nat \ {0} /\ n < n + 1
    OBVIOUS
  <2>2. \A m \in D : m <= n \/ n + 1 <= m
    BY <2>1
  <2>3. at[n] = p /\ at[n + 1] = p
    BY <2>1
  <2>4. Sym(t, n) \in Symbol \ {"(", ")", "["} /\ ~Opens(t, n) /\ NoCall(t, n, "code")
    BY <2>1 DEF Dull
  <2>5. n \in 1 .. Len(t) /\ Top(p).stop = ")"
    BY <2>4, SymIs, StackIs
  <2>6. Delimiter(t, n, p, n + 1, p)
    BY <2>4 DEF Delimiter
  <2>7. Quiet(t, n, p, n + 1, p)
    BY <2>4, <2>5, <2>6 DEF Quiet
  <2>. HIDE DEF D, at
  <2>. QED
    BY <2>1, <2>2, <2>3, <2>7 DEF Follows, Goes
<1>. HIDE DEF D, at
<1>3. Trail(t, b, {}, D, at, k, z)
  BY <1>1, <1>2 DEF Trail
<1>. QED
  BY <1>1, <1>3 DEF Leads

(* The words of an image are.                                              *)
LEMMA WordDull ==
  ASSUME NEW t, NEW k, Sym(t, k) \in {"image", "pad", "width", "x", ":", "comma"}
  PROVE  Dull(t, k)
BY DEF Dull, Symbol, Opens, NoCall

(* Two symbols of a text, one after the other.                             *)
LEMMA ContainsTwo ==
  ASSUME NEW v \in Seq(Symbol), NEW n \in 1 .. Len(v) - 1
  PROVE  Contains(v, <<v[n], v[n + 1]>>)
<1>. DEFINE word == <<v[n], v[n + 1]>>
            part == SubSeq(v, n, n + 1)
<1>1. Len(v) \in Nat /\ n \in Nat \ {0} /\ n + 1 <= Len(v)
  BY LenProperties
<1>2. Len(word) = 2 /\ word[1] = v[n] /\ word[2] = v[n + 1]
  OBVIOUS
<1>3. /\ part \in Seq(Symbol) /\ Len(part) = 2
      /\ \A j \in 1 .. 2 : part[j] = v[n + j - 1]
  <2>1. \A j \in n .. n + 1 : v[j] \in Symbol
    BY <1>1, ElementOfSeq
  <2>2. /\ part \in Seq(Symbol)
        /\ Len(part) = IF n <= n + 1 THEN n + 1 - n + 1 ELSE 0
        /\ \A j \in 1 .. n + 1 - n + 1 : part[j] = v[n + j - 1]
    BY <1>1, <2>1, SubSeqProperties
  <2>3. n <= n + 1 /\ n + 1 - n + 1 = 2
    BY <1>1
  <2>. HIDE DEF part
  <2>. QED
    BY <2>2, <2>3
<1>4. part = word
  <2>1. part[1] = v[n] /\ part[2] = v[n + 1]
    <3>1. 1 \in 1 .. 2 /\ 2 \in 1 .. 2 /\ n + 1 - 1 = n /\ n + 2 - 1 = n + 1
      BY <1>1
    <3>. HIDE DEF part
    <3>. QED
      BY <1>3, <3>1
  <2>. HIDE DEF part
  <2>. QED
    BY <1>1, <1>3, <2>1
<1>5. n \in 1 .. Len(v) - Len(word) + 1 /\ n + Len(word) - 1 = n + 1
  BY <1>1, <1>2
<1>. HIDE DEF word
<1>. QED
  BY <1>4, <1>5 DEF Contains, word

(* And so are those of an option, before a comma or a parenthesis.         *)
LEMMA InertDull ==
  ASSUME NEW t \in Seq(Symbol), NEW k \in Nat \ {0}, NEW v \in Seq(Symbol), Inert(v),
         Shows(t, k, v), Sym(t, k + Len(v)) \in {"comma", ")"}
  PROVE  \A n \in k .. k + Len(v) - 1 : Dull(t, n)
<1>. DEFINE L == Len(v)
<1>. SUFFICES ASSUME NEW n \in k .. k + L - 1 PROVE Dull(t, n)
  OBVIOUS
<1>1. L \in Nat /\ DOMAIN v = 1 .. L
  BY LenProperties
<1>0. /\ \A m \in 1 .. L : Sym(t, k - 1 + m) = v[m] /\ v[m] \in Symbol
      /\ Sym(t, k + L) \in {"comma", ")"}
  BY ElementOfSeq DEF Shows
<1>. HIDE DEF L
<1>2. ASSUME NEW j \in k .. k + L - 1
      PROVE  /\ Sym(t, j) = v[j - k + 1] /\ j - k + 1 \in 1 .. L
             /\ Sym(t, j) \in Symbol \ {"quote", "tick", "(", ")", "["}
  <2>1. PICK m \in Int : m = j - k + 1
    BY <1>1
  <2>2. m \in 1 .. L /\ k - 1 + m = j
    BY <1>1, <2>1
  <2>3. Sym(t, j) = v[m]
    BY <1>0, <2>2
  <2>4. v[m] \in Symbol \ {"quote", "tick", "(", ")", "["}
    BY <1>0, <1>1, <2>2 DEF Inert
  <2>. QED
    BY <2>1, <2>2, <2>3, <2>4
<1>3. n + 1 \in k .. k + L - 1 \/ n + 1 = k + L
  BY <1>1
<1>4. Sym(t, n + 1) \notin {"(", "["}
  BY <1>0, <1>2, <1>3
<1>5. Sym(t, n + 1) = "d2" => Sym(t, n + 2) \notin {"(", "["}
  <2>. SUFFICES ASSUME Sym(t, n + 1) = "d2" PROVE Sym(t, n + 2) \notin {"(", "["}
    OBVIOUS
  <2>1. n + 1 \in k .. k + L - 1
    BY <1>0, <1>3
  <2>2. n + 2 \in k .. k + L - 1 \/ n + 2 = k + L
    BY <1>1, <2>1
  <2>. QED
    BY <1>0, <1>2, <2>2
<1>6. ~Opens(t, n)
  <2>. SUFFICES ASSUME Sym(t, n) = "/", Sym(t, n + 1) \in {"/", "*"} PROVE FALSE
    BY <1>2 DEF Opens
  <2>1. n + 1 \in k .. k + L - 1
    BY <1>0, <1>3
  <2>2. PICK m \in Int : m = n - k + 1
    BY <1>1
  <2>3. m \in 1 .. L - 1 /\ n + 1 - k + 1 = m + 1
    BY <1>1, <2>1, <2>2
  <2>4. v[m] = "/" /\ v[m + 1] \in {"/", "*"}
    <3>1. Sym(t, n) = v[n - k + 1] /\ Sym(t, n + 1) = v[n + 1 - k + 1]
      BY <1>2, <2>1
    <3>. QED
      BY <2>2, <2>3, <3>1
  <2>5. Contains(v, <<v[m], v[m + 1]>>)
    BY <2>3, ContainsTwo DEF L
  <2>. QED
    BY <2>4, <2>5 DEF Inert
<1>7. NoCall(t, n, "code")
  BY <1>4, <1>5 DEF NoCall, Bracket
<1>. QED
  BY <1>2, <1>6, <1>7 DEF Dull

(* A string of one word.                                                   *)
LEMMA WordRead ==
  ASSUME NEW t \in Seq(Symbol), NEW b, NEW k \in Nat \ {0}, NEW p \in Stack,
         Sym(t, k) = "quote", Sym(t, k + 1) = "x", Sym(t, k + 2) = "quote"
  PROVE  Leads(t, b, {}, k, p, k + 3, p)
<1>1. /\ k \in 1 .. Len(t) /\ k + 1 \in 1 .. Len(t) /\ k + 2 \in 1 .. Len(t)
      /\ k + 3 \in Nat /\ k < k + 3 /\ k + 2 + 1 = k + 3 /\ k + 1 + 1 = k + 2
  BY SymIs, NoSymbol
<1>. DEFINE C == {k + 1, k + 2}
<1>2. C \in SUBSET (k + 1 .. k + 3) /\ k + 1 \in C
  OBVIOUS
<1>3. Reads(t, C, k + 3)
  <2>1. "x" \notin {"esc", "quote"} /\ k + 1 <= Len(t) /\ k + 2 <= Len(t)
    BY <1>1
  <2>2. k + 2 \in C /\ \A n \in C : n = k + 1 \/ n = k + 2
    OBVIOUS
  <2>. HIDE DEF C
  <2>. QED
    BY <1>1, <2>1, <2>2 DEF Reads
<1>4. StringBy(t, k + 1, k + 3)
  BY <1>1, <1>2, <1>3 DEF StringBy
<1>5. Opaque(t, k, k + 3)
  BY <1>1, <1>4 DEF Opaque
<1>6. Quiet(t, k, p, k + 3, p)
  BY <1>1, <1>5 DEF Quiet
<1>. QED
  BY <1>1, <1>6, LeadsOne

(* What a name in code takes between parentheses is read in a region of its*)
(* own, where there is room for one.                                       *)
LEMMA InParens ==
  ASSUME NEW t \in Seq(Symbol), NEW b, NEW k \in Nat \ {0}, NEW z \in Nat, NEW p \in Stack,
         Sym(t, k) = "(", Sym(t, z) = ")",
         Leads(t, b, {}, k + 1, Append(p, CodeArgs), z, Append(p, CodeArgs))
  PROVE  /\ Leads(t, b, {}, k + 1, Append(p, CodeArgs), z + 1, p)
         /\ Top(p).mode = "code" /\ Room(p) => Leads(t, b, {}, k, p, z + 1, p)
<1>. DEFINE r == Append(p, CodeArgs)
<1>1. /\ k \in 1 .. Len(t) /\ z \in 1 .. Len(t) /\ z \in Nat \ {0} /\ k + 1 \in Nat \ {0}
      /\ z + 1 \in Nat /\ k < k + 1 /\ z < z + 1
  BY SymIs, NoSymbol
<1>2. r \in Stack /\ Top(r).mode = "code" /\ Top(r).stop = ")" /\ SubSeq(r, 1, Len(r) - 1) = p
  <2>1. Top(r) = CodeArgs /\ CodeArgs.mode = "code" /\ CodeArgs.stop = ")"
    BY StackIs DEF CodeArgs
  <2>. HIDE DEF r
  <2>. QED
    BY <2>1, StackIs DEF r
<1>. HIDE DEF r
<1>3. Leads(t, b, {}, z, r, z + 1, p)
  <2>1. ~Opens(t, z) /\ NoCall(t, z, "code")
    BY DEF Opens, NoCall
  <2>2. Quiet(t, z, r, z + 1, p)
    BY <1>1, <1>2, <2>1 DEF Quiet
  <2>. QED
    BY <1>1, <1>2, <2>2, LeadsOne
<1>4. Leads(t, b, {}, k + 1, r, z + 1, p)
  <2>1. Leads(t, b, {}, k + 1, r, z, r)
    BY DEF r
  <2>2. Leads(t, b, {} \cup {}, k + 1, r, z + 1, p)
    BY <1>3, <2>1, LeadsOn
  <2>. QED
    BY <2>2
<1>5. ASSUME Top(p).mode = "code", Room(p) PROVE Leads(t, b, {}, k, p, z + 1, p)
  <2>1. ~Opens(t, k) /\ NoCall(t, k, "code") /\ Top(p).stop = ")"
    BY <1>5, StackIs DEF Opens, NoCall
  <2>2. Delimiter(t, k, p, k + 1, r)
    BY <1>5 DEF Delimiter, r
  <2>3. Quiet(t, k, p, k + 1, r)
    BY <1>1, <1>5, <2>1, <2>2 DEF Quiet
  <2>4. Leads(t, b, {}, k, p, k + 1, r)
    BY <1>1, <1>2, <2>3, LeadsOne
  <2>5. Leads(t, b, {} \cup {}, k, p, z + 1, p)
    BY <1>4, <2>4, LeadsOn
  <2>. QED
    BY <2>5
<1>. QED
  BY <1>4, <1>5 DEF r

(* One region more.                                                        *)
LEMMA Deepened ==
  ASSUME NEW p \in Stack
  PROVE  /\ Append(p, CodeArgs) \in Stack /\ Top(Append(p, CodeArgs)).mode = "code"
         /\ Len(Append(p, CodeArgs)) = Len(p) + 1 /\ Len(p) \in Nat
<1>1. Append(p, CodeArgs) \in Stack /\ Top(Append(p, CodeArgs)) = CodeArgs
      /\ p \in Seq({Markup, InMarkup, CodeArgs}) /\ Len(p) \in Nat
  BY StackIs
<1>2. Len(Append(p, CodeArgs)) = Len(p) + 1
  <2>. DEFINE R == {Markup, InMarkup, CodeArgs}
  <2>1. CodeArgs \in R /\ p \in Seq(R)
    BY <1>1
  <2>. HIDE DEF R
  <2>. QED
    BY <2>1, AppendProperties
<1>3. CodeArgs.mode = "code"
  BY DEF CodeArgs
<1>. QED
  BY <1>1, <1>2, <1>3

(* A name and L - 3 symbols in parentheses, which a scan goes through in   *)
(* code, with room for as many levels more.                                *)
Framed(t, b, k, L, levels) ==
  /\ L \in Nat /\ L >= 3
  /\ Sym(t, k) \in {"image", "pad"} /\ Sym(t, k + 1) = "(" /\ Sym(t, k + L - 1) = ")"
  /\ \A r \in Stack : Top(r).mode = "code" /\ Len(r) - 1 + levels <= maxScanDepth
       => Leads(t, b, {}, k + 2, r, k + L - 1, r)

(* In code the name is a name and its parentheses a region.                *)
LEMMA FramedRead ==
  ASSUME NEW t \in Seq(Symbol), NEW b, NEW k \in Nat \ {0}, NEW L, NEW levels \in Nat,
         Framed(t, b, k, L, levels), NEW p \in Stack, Top(p).mode = "code",
         Len(p) + levels <= maxScanDepth
  PROVE  Leads(t, b, {}, k, p, k + L, p)
<1>. DEFINE r == Append(p, CodeArgs)
            z == k + L - 1
<1>1. r \in Stack /\ Top(r).mode = "code" /\ Len(r) = Len(p) + 1 /\ Len(p) \in Nat
  BY Deepened
<1>2. L \in Nat /\ L >= 3 /\ Sym(t, k) \in {"image", "pad"} /\ Sym(t, k + 1) = "("
      /\ Sym(t, k + L - 1) = ")"
  BY DEF Framed
<1>3. Len(r) - 1 + levels <= maxScanDepth /\ Room(p)
  <2>1. maxScanDepth \in Nat
    BY ScannerAssumption
  <2>. HIDE DEF r
  <2>. QED
    BY <1>1, <2>1 DEF Room
<1>4. Leads(t, b, {}, k + 2, r, z, r)
  <2>. HIDE DEF r
  <2>. QED
    BY <1>1, <1>3 DEF Framed
<1>5. Leads(t, b, {}, k, p, k + 1, p)
  <2>1. Dull(t, k)
    BY <1>2, WordDull
  <2>2. k + 1 \in Nat /\ k <= k + 1 /\ \A n \in k .. k + 1 - 1 : n = k
    OBVIOUS
  <2>. QED
    BY <2>1, <2>2, DullRead
<1>6. Leads(t, b, {}, k + 1, p, z + 1, p)
  <2>. DEFINE y == k + 1
  <2>1. y \in Nat \ {0} /\ z \in Nat /\ k + 2 = y + 1
    BY <1>2
  <2>2. Sym(t, y) = "(" /\ Sym(t, z) = ")"
    BY <1>2
  <2>3. Leads(t, b, {}, y + 1, r, z, r)
    BY <1>4, <2>1
  <2>. HIDE DEF y, z
  <2>. QED
    BY <1>3, <2>1, <2>2, <2>3, InParens DEF y
<1>7. z + 1 = k + L
  BY <1>2
<1>8. Leads(t, b, {} \cup {}, k, p, z + 1, p)
  BY <1>5, <1>6, LeadsOn
<1>. QED
  BY <1>7, <1>8

(* In text it takes a hash.                                                *)
LEMMA HashedRead ==
  ASSUME NEW t \in Seq(Symbol), NEW b, NEW k \in Nat \ {0}, NEW L, NEW levels \in Nat,
         Sym(t, k) = "#", Framed(t, b, k + 1, L, levels), NEW p \in Stack,
         Top(p).mode = "markup", Len(p) + levels <= maxScanDepth
  PROVE  Leads(t, b, {}, k, p, k + 1 + L, p)
<1>. DEFINE r == Append(p, CodeArgs)
            z == k + 1 + L - 1
<1>1. r \in Stack /\ Top(r).mode = "code" /\ Len(r) = Len(p) + 1 /\ Len(p) \in Nat
  BY Deepened
<1>2. L \in Nat /\ L >= 3 /\ Sym(t, k + 1) \in {"image", "pad"} /\ Sym(t, k + 2) = "("
      /\ Sym(t, z) = ")"
  <2>1. k + 1 + 1 = k + 2
    OBVIOUS
  <2>. QED
    BY <2>1 DEF Framed
<1>3. Len(r) - 1 + levels <= maxScanDepth /\ Room(p)
  <2>1. maxScanDepth \in Nat
    BY ScannerAssumption
  <2>. HIDE DEF r
  <2>. QED
    BY <1>1, <2>1 DEF Room
<1>4. Leads(t, b, {}, k + 3, r, z, r)
  <2>1. k + 1 + 2 = k + 3
    OBVIOUS
  <2>. HIDE DEF r
  <2>. QED
    BY <1>1, <1>3, <2>1 DEF Framed
<1>5. NoCall(t, k, Top(p).mode) /\ ~Opens(t, k) /\ Top(p).stop # "#"
  BY <1>2, StackIs, NoSymbol DEF NoCall, Opens
<1>6. k \in 1 .. Len(t) /\ k + 2 \in k + 1 .. Len(t) + 1
  <2>1. Sym(t, k) # None /\ Sym(t, k + 1) # None
    BY <1>2, NoSymbol, ScannerAssumption DEF Symbol
  <2>2. k \in 1 .. Len(t) /\ k + 1 \in 1 .. Len(t) /\ Len(t) \in Nat
    BY <2>1, SymIs
  <2>. QED
    BY <2>2
<1>7. Name(t, k, k + 2)
  <2>1. isIdentChar(Sym(t, k + 1)) /\ ~isIdentChar(Sym(t, k + 2))
    BY <1>2 DEF isIdentChar
  <2>2. \A n \in k + 1 .. k + 2 - 1 : n = k + 1
    OBVIOUS
  <2>. QED
    BY <1>6, <2>1, <2>2 DEF Name
<1>8. Hash(t, k, p, k + 3, r)
  <2>1. k + 2 # k + 1 /\ k + 3 = k + 2 + 1
    OBVIOUS
  <2>. HIDE DEF z
  <2>. QED
    BY <1>2, <1>3, <1>6, <1>7, <2>1 DEF Hash
<1>9. Leads(t, b, {}, k, p, k + 3, r)
  <2>1. Quiet(t, k, p, k + 3, r)
    <3>. HIDE DEF r, z
    <3>. QED
      BY <1>5, <1>6, <1>8 DEF Quiet
  <2>2. k + 3 \in Nat /\ k < k + 3
    OBVIOUS
  <2>. HIDE DEF r, z
  <2>. QED
    BY <1>1, <2>1, <2>2, LeadsOne
<1>10. Leads(t, b, {}, k + 3, r, z + 1, p)
  <2>. DEFINE y == k + 2
  <2>1. y \in Nat \ {0} /\ z \in Nat /\ k + 3 = y + 1
    BY <1>2
  <2>2. Sym(t, y) = "(" /\ Sym(t, z) = ")"
    BY <1>2
  <2>3. Leads(t, b, {}, y + 1, r, z, r)
    BY <1>4, <2>1
  <2>. HIDE DEF y, z
  <2>. QED
    BY <2>1, <2>2, <2>3, InParens
<1>11. z + 1 = k + 1 + L
  BY <1>2
<1>12. Leads(t, b, {} \cup {}, k, p, z + 1, p)
  <2>. HIDE DEF r, z
  <2>. QED
    BY <1>9, <1>10, LeadsOn
<1>. QED
  BY <1>11, <1>12

(* The call of decode64.                                                   *)
LEMMA DecodeRead ==
  ASSUME NEW t \in Seq(Symbol), NEW b, NEW k \in Nat \ {0}, NEW p \in Stack,
         Top(p).mode = "code", Room(p),
         Sym(t, k) = "x", Sym(t, k + 1) = "(", Sym(t, k + 2) = "quote", Sym(t, k + 3) = "x",
         Sym(t, k + 4) = "quote", Sym(t, k + 5) = ")"
  PROVE  Leads(t, b, {}, k, p, k + 6, p)
<1>. DEFINE r == Append(p, CodeArgs)
<1>1. r \in Stack
  BY Deepened
<1>. HIDE DEF r
<1>2. Leads(t, b, {}, k + 2, r, k + 5, r)
  <2>. DEFINE y == k + 2
  <2>1. y \in Nat \ {0} /\ Sym(t, y) = "quote" /\ Sym(t, y + 1) = "x" /\ Sym(t, y + 2) = "quote"
        /\ k + 5 = y + 3
    <3>1. k + 2 + 1 = k + 3 /\ k + 2 + 2 = k + 4 /\ k + 2 + 3 = k + 5 /\ k + 2 \in Nat \ {0}
      OBVIOUS
    <3>. QED
      BY <3>1
  <2>. HIDE DEF y
  <2>2. Leads(t, b, {}, y, r, y + 3, r)
    BY <1>1, <2>1, WordRead
  <2>. QED
    BY <2>1, <2>2 DEF y
<1>3. Leads(t, b, {}, k, p, k + 1, p)
  <2>1. Dull(t, k)
    BY WordDull
  <2>2. k + 1 \in Nat /\ k <= k + 1 /\ \A n \in k .. k + 1 - 1 : n = k
    OBVIOUS
  <2>. QED
    BY <2>1, <2>2, DullRead
<1>4. Leads(t, b, {}, k + 1, p, k + 6, p)
  <2>. DEFINE y == k + 1
              z == k + 5
  <2>1. y \in Nat \ {0} /\ z \in Nat /\ k + 2 = y + 1 /\ k + 6 = z + 1
    OBVIOUS
  <2>2. Sym(t, y) = "(" /\ Sym(t, z) = ")"
    OBVIOUS
  <2>3. Leads(t, b, {}, y + 1, r, z, r)
    BY <1>2, <2>1
  <2>. HIDE DEF y, z
  <2>4. Leads(t, b, {}, y, p, z + 1, p)
    BY <2>1, <2>2, <2>3, InParens DEF r
  <2>. QED
    BY <2>1, <2>4 DEF y
<1>5. Leads(t, b, {} \cup {}, k, p, k + 6, p)
  BY <1>3, <1>4, LeadsOn
<1>. QED
  BY <1>5

(* What every image begins with.                                           *)
Opening == <<"image", "(", "x", "(", "quote", "x", "quote", ")">>

(* The image of a diagram, whose width is put in as it is.                 *)
LEMMA ImageFramed ==
  ASSUME NEW t \in Seq(Symbol), NEW b, NEW k \in Nat \ {0}, NEW width \in Seq(Symbol),
         Inert(width), NEW w, w = ImageOf(width), Shows(t, k, w)
  PROVE  w \in Seq(Symbol) /\ Framed(t, b, k, Len(w), 1)
<1>. DEFINE given == IF width \in {<<"none">>, <<"intrinsic">>} THEN <<>>
                     ELSE <<"comma", "width", ":">> \o width
            close == <<")">>
            label == <<"comma", "width", ":">>
            z     == k + Len(w) - 1
<1>1. /\ Opening \in Seq(Symbol) /\ Len(Opening) = 8 /\ Opening[1] = "image" /\ Opening[2] = "("
      /\ Opening[3] = "x" /\ Opening[4] = "(" /\ Opening[5] = "quote" /\ Opening[6] = "x"
      /\ Opening[7] = "quote" /\ Opening[8] = ")"
  <2>1. "image" \in Symbol /\ "(" \in Symbol /\ "x" \in Symbol /\ "quote" \in Symbol /\ ")" \in Symbol
    BY DEF Symbol
  <2>. QED
    BY <2>1 DEF Opening
<1>2. /\ close \in Seq(Symbol) /\ Len(close) = 1 /\ close[1] = ")"
      /\ label \in Seq(Symbol) /\ Len(label) = 3 /\ label[1] = "comma" /\ label[2] = "width"
      /\ label[3] = ":"
  <2>1. ")" \in Symbol /\ "comma" \in Symbol /\ "width" \in Symbol /\ ":" \in Symbol
    BY DEF Symbol
  <2>. QED
    BY <2>1
<1>3. given \in Seq(Symbol)
  <2>1. label \o width \in Seq(Symbol) /\ <<>> \in Seq(Symbol)
    BY <1>2, ConcatProperties
  <2>. QED
    BY <2>1
<1>4. w = (Opening \o given) \o close
  BY DEF ImageOf, Opening
<1>. DEFINE most == Opening \o given
<1>. HIDE DEF given, close
<1>5. most \in Seq(Symbol)
  BY <1>1, <1>3, ConcatProperties
<1>. HIDE DEF most
<1>6. Joined(w, most, close)
  BY <1>4 DEF most, Joined
<1>7. /\ w \in Seq(Symbol) /\ Len(w) = Len(most) + Len(close) /\ Len(most) \in Nat
      /\ Shows(t, k, most) /\ Shows(t, k + Len(most), close)
  <2>1. close \in Seq(Symbol)
    BY <1>2
  <2>2. Parted(t, k, w, most, close)
    BY <1>5, <1>6, <2>1, ShowsParts
  <2>. QED
    BY <2>2 DEF Parted
<1>8. /\ Len(most) = 8 + Len(given) /\ Len(given) \in Nat
      /\ Shows(t, k, Opening) /\ Shows(t, k + 8, given)
  <2>1. Joined(most, Opening, given)
    BY DEF most, Joined
  <2>2. Opening \in Seq(Symbol) /\ Shows(t, k, most)
    BY <1>1, <1>7
  <2>3. Parted(t, k, most, Opening, given)
    BY <1>3, <2>1, <2>2, ShowsParts
  <2>. QED
    BY <1>1, <2>3 DEF Parted
<1>9. /\ Sym(t, k) = "image" /\ Sym(t, k + 1) = "(" /\ Sym(t, k + 2) = "x" /\ Sym(t, k + 3) = "("
      /\ Sym(t, k + 4) = "quote" /\ Sym(t, k + 5) = "x" /\ Sym(t, k + 6) = "quote"
      /\ Sym(t, k + 7) = ")"
  <2>1. \A n \in 1 .. 8 : Sym(t, k - 1 + n) = Opening[n]
    BY <1>1, <1>8 DEF Shows
  <2>2. /\ Sym(t, k - 1 + 1) = Opening[1] /\ Sym(t, k - 1 + 2) = Opening[2] /\ Sym(t, k - 1 + 3) = Opening[3]
        /\ Sym(t, k - 1 + 4) = Opening[4] /\ Sym(t, k - 1 + 5) = Opening[5] /\ Sym(t, k - 1 + 6) = Opening[6]
        /\ Sym(t, k - 1 + 7) = Opening[7] /\ Sym(t, k - 1 + 8) = Opening[8]
    <3>1. 1 \in 1 .. 8 /\ 2 \in 1 .. 8 /\ 3 \in 1 .. 8 /\ 4 \in 1 .. 8 /\ 5 \in 1 .. 8 /\ 6 \in 1 .. 8
          /\ 7 \in 1 .. 8 /\ 8 \in 1 .. 8
      OBVIOUS
    <3>. QED
      BY <2>1, <3>1
  <2>3. k - 1 + 1 = k /\ k - 1 + 2 = k + 1 /\ k - 1 + 3 = k + 2 /\ k - 1 + 4 = k + 3
        /\ k - 1 + 5 = k + 4 /\ k - 1 + 6 = k + 5 /\ k - 1 + 7 = k + 6 /\ k - 1 + 8 = k + 7
    OBVIOUS
  <2>. QED
    BY <1>1, <2>2, <2>3
<1>10. /\ Len(w) = 9 + Len(given) /\ z = k + 8 + Len(given) /\ z \in Nat /\ k + 8 \in Nat \ {0}
       /\ k + 8 <= z
  BY <1>2, <1>7, <1>8
<1>11. Sym(t, z) = ")"
  <2>1. 1 \in 1 .. Len(close) /\ k + Len(most) - 1 + 1 = z
    BY <1>2, <1>7, <1>8, <1>10
  <2>2. Sym(t, k + Len(most) - 1 + 1) = close[1]
    BY <1>7, <2>1 DEF Shows
  <2>. HIDE DEF z
  <2>. QED
    BY <1>2, <2>1, <2>2
<1>. HIDE DEF z
<1>12. \A n \in k + 8 .. z - 1 : Dull(t, n)
  <2>1. CASE given = <<>>
    <3>1. Len(given) = 0
      BY <2>1, EmptySeq
    <3>2. k + 8 .. z - 1 = {}
      BY <1>10, <3>1
    <3>. QED
      BY <3>2
  <2>2. CASE given = label \o width
    <3>1. /\ Len(given) = 3 + Len(width) /\ Len(width) \in Nat
          /\ Shows(t, k + 8, label) /\ Shows(t, k + 8 + 3, width)
      <4>. HIDE DEF label
      <4>. DEFINE y == k + 8
      <4>1. y \in Nat \ {0} /\ Shows(t, y, given) /\ label \in Seq(Symbol)
        BY <1>2, <1>8
      <4>3. Joined(given, label, width)
        BY <2>2 DEF Joined
      <4>. HIDE DEF y
      <4>2. Parted(t, y, given, label, width)
        BY <4>1, <4>3, ShowsParts
      <4>. QED
        BY <1>2, <4>2 DEF y, Parted
    <3>2. Sym(t, k + 8) = "comma" /\ Sym(t, k + 9) = "width" /\ Sym(t, k + 10) = ":"
      <4>. HIDE DEF label
      <4>1. \A n \in 1 .. 3 : Sym(t, k + 8 - 1 + n) = label[n]
        BY <1>2, <3>1 DEF Shows
      <4>2. 1 \in 1 .. 3 /\ 2 \in 1 .. 3 /\ 3 \in 1 .. 3 /\ k + 8 - 1 + 1 = k + 8
            /\ k + 8 - 1 + 2 = k + 9 /\ k + 8 - 1 + 3 = k + 10
        OBVIOUS
      <4>3. /\ Sym(t, k + 8 - 1 + 1) = label[1] /\ Sym(t, k + 8 - 1 + 2) = label[2]
            /\ Sym(t, k + 8 - 1 + 3) = label[3]
        BY <4>1, <4>2
      <4>. QED
        BY <1>2, <4>2, <4>3
    <3>. DEFINE y == k + 11
    <3>3. y \in Nat \ {0} /\ y = k + 8 + 3 /\ y + Len(width) = z
      BY <1>10, <3>1
    <3>. HIDE DEF y
    <3>4. \A n \in y .. y + Len(width) - 1 : Dull(t, n)
      BY <1>11, <3>1, <3>3, InertDull
    <3>5. ASSUME NEW n \in k + 8 .. z - 1 PROVE Dull(t, n)
      <4>1. n = k + 8 \/ n = k + 9 \/ n = k + 10 \/ n \in y .. y + Len(width) - 1
        BY <1>10, <3>3
      <4>. QED
        BY <3>2, <3>4, <4>1, WordDull
    <3>. QED
      BY <3>5
  <2>. QED
    BY <2>1, <2>2 DEF given
<1>13. ASSUME NEW r \in Stack, Top(r).mode = "code", Len(r) - 1 + 1 <= maxScanDepth
       PROVE  Leads(t, b, {}, k + 2, r, z, r)
  <2>1. Room(r)
    <3>1. Len(r) \in Nat /\ maxScanDepth \in Nat
      BY StackIs, ScannerAssumption
    <3>. QED
      BY <1>13, <3>1 DEF Room
  <2>2. Leads(t, b, {}, k + 2, r, k + 8, r)
    <3>. DEFINE y == k + 2
    <3>1. /\ y \in Nat \ {0} /\ y + 1 = k + 3 /\ y + 2 = k + 4 /\ y + 3 = k + 5 /\ y + 4 = k + 6
          /\ y + 5 = k + 7 /\ y + 6 = k + 8 /\ Sym(t, y) = "x"
      BY <1>9
    <3>. HIDE DEF y
    <3>2. Leads(t, b, {}, y, r, y + 6, r)
      BY <1>9, <1>13, <2>1, <3>1, DecodeRead
    <3>. QED
      BY <3>1, <3>2 DEF y
  <2>3. Leads(t, b, {}, k + 8, r, z, r)
    BY <1>10, <1>12, <1>13, DullRead
  <2>4. Leads(t, b, {} \cup {}, k + 2, r, z, r)
    BY <2>2, <2>3, LeadsOn
  <2>. QED
    BY <2>4
<1>14. Len(w) \in Nat /\ Len(w) >= 3 /\ z = k + Len(w) - 1
  BY <1>8, <1>10 DEF z
<1>. HIDE DEF z
<1>. QED
  BY <1>7, <1>9, <1>11, <1>13, <1>14 DEF Framed

(* And what is put around it.                                              *)
LEMMA PaddedFramed ==
  ASSUME NEW t \in Seq(Symbol), NEW b, NEW k \in Nat \ {0}, NEW width \in Seq(Symbol),
         Inert(width), NEW pad \in Seq(Symbol), pad = <<"none">> \/ Inert(pad),
         NEW w, w = Padded(pad, ImageOf(width)), Shows(t, k, w)
  PROVE  w \in Seq(Symbol) /\ Framed(t, b, k, Len(w), 2)
<1>. DEFINE image == ImageOf(width)
<1>1. maxScanDepth \in Nat
  BY ScannerAssumption
<1>2. CASE pad = <<"none">>
  <2>1. w = ImageOf(width)
    BY <1>2 DEF Padded
  <2>2. w \in Seq(Symbol) /\ Framed(t, b, k, Len(w), 1)
    BY <2>1, ImageFramed
  <2>3. ASSUME NEW r \in Stack, Len(r) - 1 + 2 <= maxScanDepth PROVE Len(r) - 1 + 1 <= maxScanDepth
    <3>1. Len(r) \in Nat
      BY StackIs
    <3>. QED
      BY <1>1, <2>3, <3>1
  <2>. QED
    BY <2>2, <2>3 DEF Framed
<1>3. CASE pad # <<"none">>
  <2>. DEFINE open  == <<"pad", "(">>
              comma == <<"comma">>
              close == <<")">>
              w3 == open \o pad
              w2 == w3 \o comma
              w1 == w2 \o image
              y  == k + 2 + Len(pad)
              x  == y + 1
              z  == x + Len(image)
  <2>1. Joined(w, w1, close)
    BY <1>3 DEF Padded, Joined
  <2>2. /\ open \in Seq(Symbol) /\ Len(open) = 2 /\ open[1] = "pad" /\ open[2] = "("
        /\ comma \in Seq(Symbol) /\ Len(comma) = 1 /\ comma[1] = "comma"
        /\ close \in Seq(Symbol) /\ Len(close) = 1 /\ close[1] = ")"
    <3>1. "pad" \in Symbol /\ "(" \in Symbol /\ "comma" \in Symbol /\ ")" \in Symbol
      BY DEF Symbol
    <3>. QED
      BY <3>1
  <2>. HIDE DEF open, comma, close
  <2>3. image \in Seq(Symbol)
    BY ImageOfType
  <2>. HIDE DEF image
  <2>4. w3 \in Seq(Symbol)
    BY <2>2, ConcatProperties
  <2>. HIDE DEF w3
  <2>5. w2 \in Seq(Symbol)
    BY <2>2, <2>4, ConcatProperties
  <2>. HIDE DEF w2
  <2>6. w1 \in Seq(Symbol)
    BY <2>3, <2>5, ConcatProperties
  <2>. HIDE DEF w1
  <2>7. /\ w \in Seq(Symbol) /\ Len(w) = Len(w1) + 1 /\ Len(w1) \in Nat
        /\ Shows(t, k, w1) /\ Shows(t, k + Len(w1), close)
    <3>1. close \in Seq(Symbol)
      BY <2>2
    <3>2. Parted(t, k, w, w1, close)
      BY <2>1, <2>6, <3>1, ShowsParts
    <3>. QED
      BY <2>2, <3>2 DEF Parted
  <2>8. /\ Len(w1) = Len(w2) + Len(image) /\ Len(w2) \in Nat /\ Len(image) \in Nat
        /\ Shows(t, k, w2) /\ Shows(t, k + Len(w2), image)
    <3>1. Joined(w1, w2, image)
      BY DEF w1, Joined
    <3>2. Shows(t, k, w1)
      BY <2>7
    <3>3. Parted(t, k, w1, w2, image)
      BY <2>3, <2>5, <3>1, <3>2, ShowsParts
    <3>. QED
      BY <3>3 DEF Parted
  <2>9. /\ Len(w2) = Len(w3) + 1 /\ Len(w3) \in Nat
        /\ Shows(t, k, w3) /\ Shows(t, k + Len(w3), comma)
    <3>1. Joined(w2, w3, comma)
      BY DEF w2, Joined
    <3>2. Shows(t, k, w2) /\ comma \in Seq(Symbol)
      BY <2>2, <2>8
    <3>3. Parted(t, k, w2, w3, comma)
      BY <2>4, <3>1, <3>2, ShowsParts
    <3>. QED
      BY <2>2, <3>3 DEF Parted
  <2>10. /\ Len(w3) = 2 + Len(pad) /\ Len(pad) \in Nat
         /\ Shows(t, k, open) /\ Shows(t, k + 2, pad)
    <3>1. Joined(w3, open, pad)
      BY DEF w3, Joined
    <3>2. Shows(t, k, w3) /\ open \in Seq(Symbol)
      BY <2>2, <2>9
    <3>3. Parted(t, k, w3, open, pad)
      BY <3>1, <3>2, ShowsParts
    <3>. QED
      BY <2>2, <3>3 DEF Parted
  <2>11. /\ y = k + Len(w3) /\ x = k + Len(w2) /\ z = k + Len(w1) /\ z = k + Len(w) - 1
         /\ y \in Nat \ {0} /\ x \in Nat \ {0} /\ z \in Nat /\ Len(w) \in Nat /\ Len(w) >= 3
    BY <2>7, <2>8, <2>9, <2>10
  <2>. HIDE DEF y
  <2>12. Sym(t, k) = "pad" /\ Sym(t, k + 1) = "(" /\ Sym(t, y) = "comma" /\ Sym(t, z) = ")"
    <3>1. 1 \in 1 .. 1 /\ 1 \in 1 .. 2 /\ 2 \in 1 .. 2 /\ k - 1 + 1 = k /\ k - 1 + 2 = k + 1
          /\ y - 1 + 1 = y /\ z - 1 + 1 = z
      BY <2>11
    <3>. HIDE DEF x, z
    <3>2. Sym(t, k - 1 + 1) = open[1] /\ Sym(t, k - 1 + 2) = open[2]
      BY <2>2, <2>10, <3>1 DEF Shows
    <3>3. Sym(t, y - 1 + 1) = comma[1]
      BY <2>2, <2>9, <2>11, <3>1 DEF Shows
    <3>4. Sym(t, z - 1 + 1) = close[1]
      BY <2>2, <2>7, <2>11, <3>1 DEF Shows
    <3>. QED
      BY <2>2, <3>1, <3>2, <3>3, <3>4
  <2>13. \A n \in k + 2 .. x - 1 : Dull(t, n)
    <3>. DEFINE v == k + 2
    <3>1. v \in Nat \ {0} /\ v + Len(pad) = y /\ x = y + 1
      BY <2>10 DEF y
    <3>. HIDE DEF v, x
    <3>2. \A n \in v .. v + Len(pad) - 1 : Dull(t, n)
      <4>1. Inert(pad) /\ Shows(t, v, pad) /\ Sym(t, v + Len(pad)) = "comma"
        BY <1>3, <2>10, <2>12, <3>1 DEF v
      <4>. QED
        BY <3>1, <4>1, InertDull
    <3>3. Dull(t, y)
      BY <2>12, WordDull
    <3>4. ASSUME NEW n \in v .. x - 1 PROVE Dull(t, n)
      <4>1. n = y \/ n \in v .. v + Len(pad) - 1
        BY <2>11, <3>1
      <4>. QED
        BY <3>2, <3>3, <4>1
    <3>. QED
      BY <3>4 DEF v
  <2>14. Framed(t, b, x, Len(image), 1)
    <3>1. Shows(t, x, image)
      BY <2>8, <2>11
    <3>. HIDE DEF x
    <3>. QED
      BY <2>11, <3>1, ImageFramed DEF image
  <2>15. ASSUME NEW r \in Stack, Top(r).mode = "code", Len(r) - 1 + 2 <= maxScanDepth
         PROVE  Leads(t, b, {}, k + 2, r, z, r)
    <3>1. Len(r) + 1 <= maxScanDepth
      <4>1. Len(r) \in Nat
        BY StackIs
      <4>. QED
        BY <1>1, <2>15, <4>1
    <3>2. Leads(t, b, {}, k + 2, r, x, r)
      <4>. DEFINE v == k + 2
      <4>1. v \in Nat \ {0} /\ v <= x /\ x \in Nat
        BY <2>10, <2>11 DEF y
      <4>2. \A n \in v .. x - 1 : Dull(t, n)
        BY <2>13
      <4>. HIDE DEF v, x
      <4>3. Leads(t, b, {}, v, r, x, r)
        BY <2>15, <4>1, <4>2, DullRead
      <4>. QED
        BY <4>3 DEF v
    <3>. HIDE DEF x
    <3>3. Leads(t, b, {}, x, r, x + Len(image), r)
      BY <2>11, <2>14, <2>15, <3>1, FramedRead
    <3>4. Leads(t, b, {} \cup {}, k + 2, r, x + Len(image), r)
      BY <3>2, <3>3, LeadsOn
    <3>. QED
      BY <3>4
  <2>. HIDE DEF x, z
  <2>. QED
    BY <2>7, <2>11, <2>12, <2>15 DEF Framed
<1>. QED
  BY <1>2, <1>3

(* A value of one word does nothing.                                       *)
LEMMA WordInert == Inert(<<"x">>)
<1>1. Len(<<"x">>) = 1 /\ DOMAIN <<"x">> = {1} /\ <<"x">>[1] = "x"
  OBVIOUS
<1>2. \A c, e : Len(<<c, e>>) = 2
  OBVIOUS
<1>3. 1 .. 1 - 2 + 1 = {}
  OBVIOUS
<1>4. ASSUME NEW e PROVE ~Contains(<<"x">>, <<"/", e>>)
  <2>. DEFINE v == <<"x">>
              u == <<"/", e>>
  <2>1. Len(v) = 1 /\ Len(u) = 2
    BY <1>1, <1>2
  <2>. HIDE DEF v, u
  <2>2. ~Contains(v, u)
    BY <1>3, <2>1 DEF Contains
  <2>. QED
    BY <2>2 DEF v, u
<1>. QED
  BY <1>1, <1>4 DEF Inert

(* An image in the place of a call holds none, and ends where it began: in *)
(* the call's regions, whose depth leaves room for its parentheses, as long*)
(* as its options do nothing but stand there.                              *)
Tame(c) ==
  \A key \in {"width", "pad"} : c.options[key] = None \/ Inert(c.options[key])
LEMMA ImageRead ==
  ASSUME NEW t \in Seq(Symbol), NEW b, NEW c \in Call, Tame(c), NEW k \in Nat \ {0},
         NEW w, w = svgToTypstImage(c), Shows(t, k, w), NEW p \in Stack, Ample(p),
         Top(p).mode = IF c.codeContext THEN "code" ELSE "markup"
  PROVE  /\ w \in Seq(Symbol) /\ Leads(t, b, {}, k, p, k + Len(w), p)
         /\ Sym(t, k) \in (IF c.codeContext THEN {"image", "pad"} ELSE {"#"})
         /\ Sym(t, k + Len(w) - 1) = ")" /\ Len(w) \in Nat \ {0}
<1>. DEFINE width == Value(c, "width", <<"x">>)
            pad   == Value(c, "pad", <<"none">>)
            drawn == Padded(pad, ImageOf(width))
            hash  == IF c.codeContext THEN <<>> ELSE <<"#">>
<1>1. /\ c.options["width"] \in Seq(Symbol) \cup {None}
      /\ c.options["pad"] \in Seq(Symbol) \cup {None}
      /\ c.options["width"] = None \/ Inert(c.options["width"])
      /\ c.options["pad"] = None \/ Inert(c.options["pad"])
  BY DEF Call, Options, Tame
<1>2. /\ <<"x">> \in Seq(Symbol) /\ <<"none">> \in Seq(Symbol) /\ <<"#">> \in Seq(Symbol)
      /\ <<>> \in Seq(Symbol)
  <2>1. "x" \in Symbol /\ "none" \in Symbol /\ "#" \in Symbol
    BY DEF Symbol
  <2>. QED
    BY <2>1
<1>3. width \in Seq(Symbol) /\ Inert(width) /\ pad \in Seq(Symbol) /\ (pad = <<"none">> \/ Inert(pad))
  <2>1. c.options["width"] = None => width = <<"x">>
    BY DEF Value
  <2>2. c.options["width"] # None => width = c.options["width"]
    BY DEF Value
  <2>3. c.options["pad"] = None => pad = <<"none">>
    BY DEF Value
  <2>4. c.options["pad"] # None => pad = c.options["pad"]
    BY DEF Value
  <2>. HIDE DEF width, pad
  <2>. QED
    BY <1>1, <1>2, <2>1, <2>2, <2>3, <2>4, WordInert
<1>4. w = hash \o drawn
  BY DEF svgToTypstImage
<1>. HIDE DEF width, pad
<1>5. drawn \in Seq(Symbol)
  BY <1>3, ImageOfType, PaddedType
<1>6. Len(p) + 2 <= maxScanDepth
  <2>1. Len(p) \in Nat /\ maxScanDepth \in Nat
    BY StackIs, ScannerAssumption
  <2>. QED
    BY <2>1 DEF Ample
<1>. HIDE DEF drawn
<1>7. CASE c.codeContext
  <2>1. w = drawn
    BY <1>4, <1>5, <1>7
  <2>2. w \in Seq(Symbol) /\ Framed(t, b, k, Len(w), 2)
    BY <1>3, <2>1, PaddedFramed DEF drawn
  <2>3. Leads(t, b, {}, k, p, k + Len(w), p)
    BY <1>6, <1>7, <2>2, FramedRead
  <2>4. Len(w) \in Nat \ {0}
    BY <2>2 DEF Framed
  <2>. QED
    BY <1>7, <2>2, <2>3, <2>4 DEF Framed
<1>8. CASE ~c.codeContext
  <2>. DEFINE h == <<"#">>
  <2>1. h \in Seq(Symbol) /\ Len(h) = 1 /\ h[1] = "#" /\ Joined(w, h, drawn)
    BY <1>2, <1>4, <1>8 DEF Joined
  <2>. HIDE DEF h
  <2>2. /\ w \in Seq(Symbol) /\ Len(w) = 1 + Len(drawn) /\ Len(drawn) \in Nat
        /\ Shows(t, k, h) /\ Shows(t, k + 1, drawn)
    <3>1. h \in Seq(Symbol) /\ Joined(w, h, drawn)
      BY <2>1
    <3>2. Parted(t, k, w, h, drawn)
      BY <1>5, <3>1, ShowsParts
    <3>. QED
      BY <2>1, <3>2 DEF Parted
  <2>3. Sym(t, k) = "#"
    <3>1. 1 \in 1 .. 1 /\ k - 1 + 1 = k
      OBVIOUS
    <3>2. Sym(t, k - 1 + 1) = h[1]
      BY <2>1, <2>2, <3>1 DEF Shows
    <3>. QED
      BY <2>1, <3>1, <3>2
  <2>. DEFINE y == k + 1
  <2>4. y \in Nat \ {0} /\ k + 1 + Len(drawn) = k + Len(w) /\ y + Len(drawn) - 1 = k + Len(w) - 1
    BY <2>2
  <2>5. Framed(t, b, y, Len(drawn), 2)
    <3>1. Shows(t, y, drawn)
      BY <2>2
    <3>. HIDE DEF y
    <3>. QED
      BY <1>3, <2>4, <3>1, PaddedFramed DEF drawn
  <2>6. Leads(t, b, {}, k, p, k + 1 + Len(drawn), p)
    <3>1. Top(p).mode = "markup"
      BY <1>8
    <3>. QED
      BY <1>6, <2>3, <2>5, <3>1, HashedRead
  <2>7. Sym(t, y + Len(drawn) - 1) = ")"
    BY <2>5 DEF Framed
  <2>8. Len(w) \in Nat \ {0}
    BY <2>2
  <2>. HIDE DEF y
  <2>. QED
    BY <1>8, <2>2, <2>3, <2>4, <2>6, <2>7, <2>8
<1>. QED
  BY <1>7, <1>8

(* Two texts: where neither holds a call, since they hold the same symbols *)
(* around it.                                                              *)
LEMMA NoCallMoved ==
  ASSUME NEW s, NEW t, NEW k \in Int, NEW d \in Int, NEW mode, NoCall(s, k, mode),
         Sym(t, k + d) = Sym(s, k),
         Sym(t, k + d + 1) \in {Sym(s, k + 1), "image", "pad", "#"},
         Sym(t, k + d + 1) = "d2" => Sym(t, k + d + 2) \in {Sym(s, k + 2), "image", "pad", "#"},
         \/ Sym(t, k + d - 1) = Sym(s, k - 1)
         \/ ~isIdentChar(Sym(s, k - 1)) /\ Sym(s, k - 1) # "."
  PROVE  NoCall(t, k + d, mode)
<1>1. CASE Sym(s, k) = "#"
  BY <1>1 DEF NoCall, Bracket
<1>2. CASE Sym(s, k) = "d2"
  BY <1>2 DEF NoCall, Bracket
<1>3. CASE Sym(s, k) # "#" /\ Sym(s, k) # "d2"
  BY <1>3 DEF NoCall
<1>. QED
  BY <1>1, <1>2, <1>3

(* The last call that a trail reads, replaced by its image.                *)
LEMMA CallReplaced ==
  ASSUME NEW s \in Seq(Symbol), NEW b, NEW m \in Nat \ {0}, NEW r, NEW z, NEW q,
         b[m] \in Call, Tame(b[m]),
         Leads(s, b, 1 .. m, 1, r, z, q), Len(s) < z,
         b[m].start \in 1 .. Len(s), b[m].end \in b[m].start + 1 .. Len(s) + 1,
         \A n \in 1 .. m - 1 : b[n].start \in Nat /\ b[n].end \in Nat
           /\ b[n].start < b[n].end /\ b[n].end <= b[m].start,
         NEW t, t = Patched(s, b[m].start, svgToTypstImage(b[m]), b[m].end)
  PROVE  /\ t \in Seq(Symbol)
         /\ \E y : Leads(t, b, 1 .. m - 1, 1, r, y, q) /\ Len(t) < y
<1>. DEFINE c == b[m]
            k == c.start
            e == c.end
            w == svgToTypstImage(c)
            d == k + Len(w) - e
            M == {n \in 1 .. m : b[n].end <= b[m].start}
            L == {n \in 1 .. m : b[m].end <= b[n].start}
<1>1. PICK p \in Stack :
           /\ Leads(s, b, M, 1, r, k, p)
           /\ CallRead(s, c, k, p, e, p)
           /\ Leads(s, b, L, e, p, z, q)
  <2>1. m \in 1 .. m
    OBVIOUS
  <2>. QED
    BY <2>1, LeadsCall
<1>2. M = 1 .. m - 1 /\ L = {}
  <2>1. ASSUME NEW n \in 1 .. m PROVE n = m \/ n \in 1 .. m - 1
    OBVIOUS
  <2>2. ~(b[m].end <= b[m].start) /\ b[m].start \in Nat /\ b[m].end \in Nat
    BY SymIs
  <2>3. 1 .. m - 1 \subseteq 1 .. m
    OBVIOUS
  <2>4. ASSUME NEW n \in 1 .. m - 1 PROVE ~(b[m].end <= b[n].start)
    <3>1. /\ b[n].start \in Nat /\ b[n].end \in Nat
          /\ b[n].start < b[n].end /\ b[n].end <= b[m].start
      OBVIOUS
    <3>2. b[m].start < b[m].end
      BY <2>2
    <3>. QED
      BY <2>2, <3>1, <3>2
  <2>. QED
    BY <2>1, <2>2, <2>3, <2>4
<1>3. /\ k \in 1 .. Len(s) /\ e \in k + 1 .. Len(s) + 1 /\ k \in 1 .. Len(s) + 1 /\ e \in k .. Len(s) + 1
      /\ k \in Nat \ {0} /\ e \in Nat \ {0} /\ Len(s) \in Nat
  BY SymIs
<1>4. w \in Seq(Symbol) /\ c \in Call /\ Tame(c)
  BY ImageType
<1>5. z \in Nat
  BY LeadsIn
<1>. HIDE DEF w, M, L
<1>6. t = Patched(s, k, w, e)
  BY DEF w
<1>. HIDE DEF k, e, d
<1>20. d = k + Len(w) - e
  BY DEF d
<1>7. /\ t \in Seq(Symbol) /\ Len(t) = Len(s) + d /\ d \in Int /\ Len(w) \in Nat
      /\ \A n \in Int : n < k => Sym(t, n) = Sym(s, n)
      /\ \A n \in 1 .. Len(w) : Sym(t, k - 1 + n) = w[n]
      /\ \A n \in Int : e <= n => Sym(t, n + d) = Sym(s, n)
  <2>1. k \in 1 .. Len(s) + 1 /\ e \in k .. Len(s) + 1
    BY <1>3
  <2>2. InPieces(s, k, w, e, t, d)
    BY <1>4, <1>6, <1>20, <2>1, PatchIs
  <2>. QED
    BY <2>2 DEF InPieces
<1>8. /\ CallRead(s, c, k, p, e, p)
      /\ Ample(p) /\ Top(p).mode = (IF c.codeContext THEN "code" ELSE "markup")
      /\ Sym(s, k) \in (IF c.codeContext THEN {"#", "d2"} ELSE {"#"})
      /\ Sym(s, e - 1) \in {"]", ")"}
  BY <1>1 DEF CallRead
<1>9. /\ Leads(t, b, {}, k, p, k + Len(w), p)
      /\ Sym(t, k) \in (IF c.codeContext THEN {"image", "pad"} ELSE {"#"})
      /\ Sym(t, e - 1 + d) = ")" /\ Len(w) \in Nat \ {0}
  <2>1. w = svgToTypstImage(c) /\ Shows(t, k, w)
    BY <1>7 DEF w, Shows
  <2>2. k + Len(w) - 1 = e - 1 + d
    BY <1>3, <1>7, <1>20
  <2>. HIDE DEF c
  <2>3. /\ Leads(t, b, {}, k, p, k + Len(w), p)
        /\ Sym(t, k) \in (IF c.codeContext THEN {"image", "pad"} ELSE {"#"})
        /\ Sym(t, k + Len(w) - 1) = ")" /\ Len(w) \in Nat \ {0}
    BY <1>3, <1>4, <1>7, <1>8, <2>1, ImageRead
  <2>. QED
    BY <2>2, <2>3
<1>10. Leads(t, b, 1 .. m - 1, 1, r, k, p)
  <2>1. Agree(s, t, 1, k, 0)
    <3>1. ASSUME NEW n \in 1 .. k - 1, NEW mode, NoCall(s, n, mode) PROVE NoCall(t, n + 0, mode)
      <4>1. n < k /\ n \in Int /\ n + 0 = n /\ n - 1 < k /\ n - 1 \in Int /\ n + 0 + 1 = n + 1
            /\ n + 0 + 2 = n + 2 /\ n + 0 - 1 = n - 1 /\ n + 1 \in Int /\ n + 2 \in Int
        BY <1>3
      <4>2. Sym(t, n) = Sym(s, n) /\ Sym(t, n - 1) = Sym(s, n - 1)
        BY <1>7, <4>1
      <4>3. Sym(t, n + 1) \in {Sym(s, n + 1), "image", "pad", "#"}
        <5>1. n + 1 < k \/ n + 1 = k
          BY <1>3
        <5>. QED
          BY <1>7, <1>9, <4>1, <5>1
      <4>4. Sym(t, n + 1) = "d2" => Sym(t, n + 2) \in {Sym(s, n + 2), "image", "pad", "#"}
        <5>1. n + 2 < k \/ n + 2 = k \/ n + 1 = k
          BY <1>3
        <5>. QED
          BY <1>7, <1>9, <4>1, <5>1
      <4>5. /\ Sym(t, n + 0) = Sym(s, n) /\ Sym(t, n + 0 - 1) = Sym(s, n - 1)
            /\ Sym(t, n + 0 + 1) \in {Sym(s, n + 1), "image", "pad", "#"}
            /\ Sym(t, n + 0 + 1) = "d2" => Sym(t, n + 0 + 2) \in {Sym(s, n + 2), "image", "pad", "#"}
        BY <4>1, <4>2, <4>3, <4>4
      <4>6. 0 \in Int
        OBVIOUS
      <4>. QED
        BY <3>1, <4>1, <4>5, <4>6, NoCallMoved
    <3>2. \A n \in 1 .. k - 1 : Sym(t, n + 0) = Sym(s, n)
      <4>. SUFFICES ASSUME NEW n \in 1 .. k - 1 PROVE Sym(t, n + 0) = Sym(s, n)
        OBVIOUS
      <4>1. n \in Int /\ n < k /\ n + 0 = n
        BY <1>3
      <4>. QED
        BY <1>7, <4>1
    <3>3. Alike(Sym(s, k), Sym(t, k + 0)) /\ ~(k > Len(s))
      BY <1>3, <1>8, <1>9 DEF Alike
    <3>. QED
      BY <3>1, <3>2, <3>3 DEF Agree
  <2>2. Top(p).mode = "markup" /\ isIdentChar(Sym(t, k + 0)) => isIdentChar(Sym(s, k))
    BY <1>3, <1>8, <1>9 DEF isIdentChar
  <2>3. Leads(s, b, 1 .. m - 1, 1, r, k, p)
    BY <1>1, <1>2
  <2>4. Leads(t, b, 1 .. m - 1, 1 + 0, r, k + 0, p)
    BY <1>7, <2>1, <2>2, <2>3, LeadsMoved
  <2>. QED
    BY <1>3, <2>4
<1>11. Leads(t, b, {}, k, p, e + d, p)
  <2>1. Leads(t, b, {}, k, p, k + Len(w), p)
    BY <1>9
  <2>2. k + Len(w) = e + d
    BY <1>3, <1>7, <1>20
  <2>. QED
    BY <2>1, <2>2
<1>12. Leads(t, b, {}, e + d, p, z + d, q)
  <2>1. Leads(s, b, {}, e, p, z, q)
    BY <1>1, <1>2
  <2>2. Agree(s, t, e, z, d)
    <3>0. d \in Int
      BY <1>7
    <3>1. ASSUME NEW n \in e .. z - 1, NEW mode, NoCall(s, n, mode) PROVE NoCall(t, n + d, mode)
      <4>1. /\ n \in Int /\ n + 1 \in Int /\ n + 2 \in Int /\ e <= n /\ e <= n + 1 /\ e <= n + 2
            /\ n + 1 + d = n + d + 1 /\ n + 2 + d = n + d + 2 /\ n - 1 + d = n + d - 1 /\ n - 1 \in Int
        BY <1>3, <1>5, <3>0
      <4>2. Sym(t, n + d) = Sym(s, n) /\ Sym(t, n + d + 1) = Sym(s, n + 1)
            /\ Sym(t, n + d + 2) = Sym(s, n + 2)
        BY <1>7, <4>1
      <4>3. \/ Sym(t, n + d - 1) = Sym(s, n - 1)
            \/ ~isIdentChar(Sym(s, n - 1)) /\ Sym(s, n - 1) # "."
        <5>1. CASE n = e
          BY <1>8, <5>1 DEF isIdentChar
        <5>2. CASE n # e
          <6>1. e <= n - 1
            BY <1>3, <1>5, <5>2
          <6>. QED
            BY <1>7, <4>1, <6>1
        <5>. QED
          BY <5>1, <5>2
      <4>. QED
        BY <1>7, <3>1, <4>1, <4>2, <4>3, NoCallMoved
    <3>2. \A n \in e .. z - 1 : Sym(t, n + d) = Sym(s, n)
      <4>. SUFFICES ASSUME NEW n \in e .. z - 1 PROVE Sym(t, n + d) = Sym(s, n)
        OBVIOUS
      <4>1. n \in Int /\ e <= n
        BY <1>3, <1>5
      <4>. QED
        BY <1>7, <4>1
    <3>3. Alike(Sym(s, z), Sym(t, z + d))
      <4>1. e <= z /\ z \in Int
        BY <1>3, <1>5
      <4>. QED
        BY <1>7, <4>1 DEF Alike
    <3>. QED
      BY <1>7, <3>1, <3>2, <3>3 DEF Agree
  <2>3. 1 <= e + d
    BY <1>3, <1>9, <1>20
  <2>4. Sym(t, z + d) = Sym(s, z)
    <3>1. e <= z /\ z \in Int
      BY <1>3, <1>5
    <3>. QED
      BY <1>7, <3>1
  <2>. QED
    BY <1>7, <2>1, <2>2, <2>3, <2>4, LeadsMoved
<1>13. Leads(t, b, 1 .. m - 1, 1, r, z + d, q)
  <2>1. Leads(t, b, 1 .. m - 1 \cup {}, 1, r, e + d, p)
    BY <1>10, <1>11, LeadsOn
  <2>2. Leads(t, b, (1 .. m - 1 \cup {}) \cup {}, 1, r, z + d, q)
    BY <1>12, <2>1, LeadsOn
  <2>. QED
    BY <2>2
<1>14. Len(t) < z + d
  BY <1>3, <1>5, <1>7
<1>. QED
  BY <1>7, <1>13, <1>14

(* The import goes in at a, after a line; four symbols are there.          *)
Grown(s, t, a) ==
  /\ a \in Nat \ {0} /\ Len(t) = Len(s) + 4
  /\ Sym(t, a) = "#" /\ Sym(t, a + 1) = "import" /\ Sym(t, a + 2) = "based" /\ Sym(t, a + 3) = "nl"
  /\ \A n \in Int : n < a => Sym(t, n) = Sym(s, n)
  /\ \A n \in Int : a <= n => Sym(t, n + 4) = Sym(s, n)

(* It neither closes raw text nor opens any,                               *)
LEMMA ShutGrown ==
  ASSUME NEW s \in Seq(Symbol), NEW t \in Seq(Symbol), NEW a, Grown(s, t, a),
         Sym(s, a - 1) = "nl", NEW o \in 1 .. 3, NEW k \in Nat \ {0}, NEW j \in Nat,
         ShutBy(s, o, k, j), k <= a, a <= j
  PROVE  ShutBy(t, o, k, j + 4)
<1>1. /\ a \in Nat \ {0} /\ Len(t) = Len(s) + 4 /\ Len(s) \in Nat
      /\ \A n \in Int : n < a => Sym(t, n) = Sym(s, n)
      /\ \A n \in Int : a <= n => Sym(t, n + 4) = Sym(s, n)
  BY SymIs DEF Grown
<1>2. Sym(t, a - 1) = "nl"
  BY <1>1
<1>3. \A n \in Int : a <= n /\ n < a + 4 => Sym(t, n) \in {"#", "import", "based", "nl"}
  <2>1. \A n \in Int : a <= n /\ n < a + 4 => n = a \/ n = a + 1 \/ n = a + 2 \/ n = a + 3
    BY <1>1
  <2>. QED
    BY <2>1 DEF Grown
<1>4. ASSUME NEW u \in {s, t}, NEW n \in Int, Shut(u, o, n), n < a PROVE n + o <= a - 1
  <2>1. Sym(u, a - 1) = "nl"
    BY <1>2
  <2>2. \/ o = 1 /\ Sym(u, n) = "tick"
        \/ o = 2 /\ Sym(u, n) = "*" /\ Sym(u, n + 1) = "/"
        \/ o = 3 /\ Sym(u, n) = "tick" /\ Sym(u, n + 1) = "tick" /\ Sym(u, n + 2) = "tick"
    BY <1>4 DEF Shut
  <2>3. n # a - 1 /\ (o # 1 => n + 1 # a - 1) /\ (o = 3 => n + 2 # a - 1)
    BY <2>1, <2>2
  <2>. QED
    BY <1>1, <1>4, <2>3
<1>5. ASSUME NEW n \in Int, n < a, n + o <= a - 1 PROVE Shut(t, o, n) <=> Shut(s, o, n)
  <2>1. Sym(t, n) = Sym(s, n) /\ (o # 1 => Sym(t, n + 1) = Sym(s, n + 1))
        /\ (o = 3 => Sym(t, n + 2) = Sym(s, n + 2))
    <3>1. n + 1 \in Int /\ n + 2 \in Int /\ (o # 1 => n + 1 < a) /\ (o = 3 => n + 2 < a)
      <4>1. o \in Int /\ (o # 1 => o >= 2) /\ (o = 3 => n + 3 <= a - 1)
        BY <1>5
      <4>2. a \in Int
        BY <1>1
      <4>. QED
        BY <1>5, <4>1, <4>2
    <3>. QED
      BY <1>1, <1>5, <3>1
  <2>. QED
    BY <2>1 DEF Shut
<1>6. ASSUME NEW n \in Int, a <= n PROVE Shut(t, o, n + 4) <=> Shut(s, o, n)
  <2>1. n + 4 + 1 = n + 1 + 4 /\ n + 4 + 2 = n + 2 + 4 /\ n + 1 \in Int /\ n + 2 \in Int
        /\ a <= n + 1 /\ a <= n + 2
    BY <1>1, <1>6
  <2>2. Sym(t, n + 4) = Sym(s, n) /\ Sym(t, n + 4 + 1) = Sym(s, n + 1)
        /\ Sym(t, n + 4 + 2) = Sym(s, n + 2)
    BY <1>1, <1>6, <2>1
  <2>. QED
    BY <2>2 DEF Shut
<1>7. ASSUME NEW n \in Int, a <= n, \A x \in k .. n - 1 : ~Shut(s, o, x)
      PROVE  \A x \in k .. n + 3 : ~Shut(t, o, x)
  <2>. SUFFICES ASSUME NEW x \in k .. n + 3, Shut(t, o, x) PROVE FALSE
    OBVIOUS
  <2>0. x \in Int
    OBVIOUS
  <2>1. CASE x < a
    <3>1. x + o <= a - 1
      BY <1>4, <2>0, <2>1
    <3>2. Shut(s, o, x)
      BY <1>5, <2>0, <2>1, <3>1
    <3>3. n <= x
      BY <1>7, <2>0, <3>2
    <3>. QED
      BY <1>1, <1>7, <2>0, <2>1, <3>3
  <2>2. CASE a <= x /\ x < a + 4
    BY <1>3, <2>0, <2>2 DEF Shut
  <2>3. CASE a + 4 <= x
    <3>1. PICK y \in Int : y = x - 4
      BY <2>0
    <3>2. a <= y /\ y + 4 = x /\ y \in k .. n - 1
      BY <1>1, <2>3, <3>1
    <3>. QED
      BY <1>6, <1>7, <3>2
  <2>. QED
    BY <1>1, <2>0, <2>1, <2>2, <2>3
<1>8. CASE Closed(s, o, k, j)
  <2>1. PICK n \in Int : n = j - o
    OBVIOUS
  <2>2. n >= k /\ Shut(s, o, n) /\ \A x \in k .. n - 1 : ~Shut(s, o, x)
    BY <1>8, <2>1 DEF Closed
  <2>3. a <= n
    BY <1>1, <1>4, <2>1, <2>2
  <2>4. Shut(t, o, n + 4) /\ \A x \in k .. n + 3 : ~Shut(t, o, x)
    BY <1>6, <1>7, <2>2, <2>3
  <2>5. j + 4 - o = n + 4 /\ n + 4 - 1 = n + 3 /\ n + 4 >= k
    BY <2>1, <2>2
  <2>6. Closed(t, o, k, j + 4)
    BY <2>4, <2>5 DEF Closed
  <2>. QED
    BY <2>6 DEF ShutBy
<1>9. CASE Unclosed(s, o, k, j)
  <2>1. j = Len(s) + 1 /\ \A x \in k .. j - 1 : ~Shut(s, o, x)
    BY <1>1, <1>9 DEF Unclosed
  <2>2. \A x \in k .. j + 3 : ~Shut(t, o, x)
    <3>1. j \in Int
      OBVIOUS
    <3>. QED
      BY <1>7, <2>1, <3>1
  <2>3. j + 4 = Len(t) + 1 /\ j + 3 = Len(t)
    BY <1>1, <2>1
  <2>. QED
    BY <2>2, <2>3 DEF ShutBy, Unclosed
<1>. QED
  BY <1>8, <1>9 DEF ShutBy

(* nor does it a string: a scan that reads what is before a line's end     *)
(* reads what comes after it,                                              *)
LEMMA StringGrown ==
  ASSUME NEW s \in Seq(Symbol), NEW t \in Seq(Symbol), NEW a, Grown(s, t, a),
         Sym(s, a - 1) = "nl", a <= Len(s) + 1, NEW k \in Nat \ {0}, NEW j \in Nat,
         StringBy(s, k, j), k < a, a <= j
  PROVE  StringBy(t, k, j + 4)
<1>1. /\ a \in Nat \ {0} /\ Len(t) = Len(s) + 4 /\ Len(s) \in Nat
      /\ \A n \in Int : n < a => Sym(t, n) = Sym(s, n)
      /\ \A n \in Int : a <= n => Sym(t, n + 4) = Sym(s, n)
  BY SymIs DEF Grown
<1>2. PICK C \in SUBSET (k .. j) : k \in C /\ Reads(s, C, j)
  BY DEF StringBy
<1>3. \A n \in C : n \in Nat /\ k <= n /\ n <= j
  BY <1>2
<1>4. a \in C
  <2>. DEFINE T == {n \in C : n < a}
  <2>1. T \in SUBSET Nat /\ k \in T /\ \A n \in T : n <= a
    <3>1. \A n \in T : n \in Nat /\ n <= a
      BY <1>1, <1>3
    <3>. QED
      BY <1>2, <3>1
  <2>2. PICK g \in T : \A n \in T : n <= g
    BY <1>1, <2>1, GreatestNat
  <2>3. g \in C /\ g < a /\ g \in Nat /\ g <= Len(s)
    BY <1>1, <1>3
  <2>4. ASSUME NEW n \in C, g < n PROVE a <= n
    <3>1. n \in Nat /\ (n < a => n <= g)
      BY <1>3, <2>2
    <3>. QED
      BY <1>1, <2>3, <2>4, <3>1
  <2>5. \/ Sym(s, g) = "esc" /\ g + 2 \in C
        \/ Sym(s, g) = "quote" /\ j = g + 1
        \/ Sym(s, g) \notin {"esc", "quote"} /\ g + 1 \in C
    <3>1. \/ g > Len(s) /\ j = g
          \/ Sym(s, g) = "esc" /\ g + 2 \in C
          \/ Sym(s, g) = "quote" /\ j = g + 1
          \/ Sym(s, g) \notin {"esc", "quote"} /\ g + 1 \in C
      BY <1>2, <2>3 DEF Reads
    <3>2. ~(g > Len(s))
      BY <1>1, <2>3
    <3>. QED
      BY <3>1, <3>2
  <2>6. CASE Sym(s, g) = "esc" /\ g + 2 \in C
    <3>1. a <= g + 2 /\ g # a - 1
      BY <2>3, <2>4, <2>6
    <3>2. g + 2 = a
      BY <1>1, <2>3, <3>1
    <3>. QED
      BY <2>6, <3>2
  <2>7. CASE Sym(s, g) = "quote" /\ j = g + 1
    <3>1. g = a - 1
      BY <1>1, <2>3, <2>7
    <3>. QED
      BY <2>7, <3>1
  <2>8. CASE Sym(s, g) \notin {"esc", "quote"} /\ g + 1 \in C
    <3>1. a <= g + 1
      BY <2>3, <2>4, <2>8
    <3>2. g + 1 = a
      BY <1>1, <2>3, <3>1
    <3>. QED
      BY <2>8, <3>2
  <2>. QED
    BY <2>5, <2>6, <2>7, <2>8
<1>. DEFINE B == {n \in k .. j + 4 : \/ n < a /\ n \in C
                                     \/ a <= n /\ n < a + 4
                                     \/ a + 4 <= n /\ n - 4 \in C}
<1>5. ASSUME NEW n \in C, n < a PROVE n \in B
  <2>1. n \in k .. j + 4
    BY <1>3
  <2>. QED
    BY <1>5, <2>1
<1>6. ASSUME NEW n \in C, a <= n PROVE n + 4 \in B
  <2>1. n + 4 \in k .. j + 4 /\ n + 4 - 4 = n /\ a + 4 <= n + 4
    BY <1>1, <1>3, <1>6
  <2>. QED
    BY <2>1
<1>7. \A n \in Nat : a <= n /\ n < a + 4 => n \in B
  BY <1>1
<1>8. Reads(t, B, j + 4)
  <2>. SUFFICES ASSUME NEW n \in B
                PROVE  \/ n > Len(t) /\ j + 4 = n
                       \/ n <= Len(t) /\ Sym(t, n) = "esc" /\ n + 2 \in B
                       \/ n <= Len(t) /\ Sym(t, n) = "quote" /\ j + 4 = n + 1
                       \/ n <= Len(t) /\ Sym(t, n) \notin {"esc", "quote"} /\ n + 1 \in B
    BY DEF Reads
  <2>0. n \in Nat /\ k <= n
    OBVIOUS
  <2>1. CASE n < a /\ n \in C
    <3>0. n \in Int /\ a \in Int /\ Len(s) \in Int /\ n < a /\ a <= Len(s) + 1
      BY <1>1, <2>0, <2>1
    <3>7. n <= Len(s) /\ n <= Len(s) + 4 /\ ~(n > Len(s))
      BY <3>0
    <3>1. n <= Len(s) /\ n <= Len(t) /\ Sym(t, n) = Sym(s, n)
      BY <1>1, <3>0, <3>7
    <3>2. \/ Sym(s, n) = "esc" /\ n + 2 \in C
          \/ Sym(s, n) = "quote" /\ j = n + 1
          \/ Sym(s, n) \notin {"esc", "quote"} /\ n + 1 \in C
      <4>1. \/ n > Len(s) /\ j = n
            \/ Sym(s, n) = "esc" /\ n + 2 \in C
            \/ Sym(s, n) = "quote" /\ j = n + 1
            \/ Sym(s, n) \notin {"esc", "quote"} /\ n + 1 \in C
        BY <1>2, <2>1 DEF Reads
      <4>. QED
        BY <3>7, <4>1
    <3>3. CASE Sym(s, n) = "esc" /\ n + 2 \in C
      <4>1. n # a - 1
        BY <3>3
      <4>2. n + 2 < a \/ n + 2 = a
        BY <1>1, <2>0, <2>1, <4>1
      <4>3. n + 2 \in B
        BY <1>1, <1>5, <1>7, <2>0, <3>3, <4>2
      <4>. QED
        BY <3>1, <3>3, <4>3
    <3>4. CASE Sym(s, n) = "quote" /\ j = n + 1
      <4>1. n = a - 1
        BY <1>1, <2>0, <2>1, <3>4
      <4>. QED
        BY <3>4, <4>1
    <3>5. CASE Sym(s, n) \notin {"esc", "quote"} /\ n + 1 \in C
      <4>1. n + 1 < a \/ n + 1 = a
        BY <1>1, <2>0, <2>1
      <4>2. n + 1 \in B
        BY <1>1, <1>5, <1>7, <2>0, <3>5, <4>1
      <4>. QED
        BY <3>1, <3>5, <4>2
    <3>. QED
      BY <3>2, <3>3, <3>4, <3>5
  <2>2. CASE a <= n /\ n < a + 4
    <3>1. n = a \/ n = a + 1 \/ n = a + 2 \/ n = a + 3
      BY <1>1, <2>0, <2>2
    <3>2. Sym(t, n) \in {"#", "import", "based", "nl"}
      BY <3>1 DEF Grown
    <3>3. n + 1 \in B
      <4>1. CASE n + 1 < a + 4
        BY <1>1, <1>7, <2>0, <2>2, <4>1
      <4>2. CASE ~(n + 1 < a + 4)
        <5>1. n + 1 = a + 4
          BY <1>1, <2>0, <2>2, <4>2
        <5>2. a + 4 \in B
          BY <1>1, <1>4, <1>6
        <5>. QED
          BY <5>1, <5>2
      <4>. QED
        BY <4>1, <4>2
    <3>4. n <= Len(t)
      BY <1>1, <2>0, <2>2
    <3>. QED
      BY <3>2, <3>3, <3>4
  <2>3. CASE a + 4 <= n /\ n - 4 \in C
    <3>1. PICK m \in C : m = n - 4
      BY <2>3
    <3>2. m \in Nat /\ n = m + 4 /\ a <= m /\ Sym(t, n) = Sym(s, m)
      BY <1>1, <1>3, <2>0, <2>3, <3>1
    <3>3. \/ m > Len(s) /\ j = m
          \/ m <= Len(s) /\ Sym(s, m) = "esc" /\ m + 2 \in C
          \/ m <= Len(s) /\ Sym(s, m) = "quote" /\ j = m + 1
          \/ m <= Len(s) /\ Sym(s, m) \notin {"esc", "quote"} /\ m + 1 \in C
      BY <1>2 DEF Reads
    <3>4. m + 2 \in C => n + 2 \in B
      <4>1. m + 2 + 4 = n + 2 /\ a <= m + 2
        BY <1>1, <3>2
      <4>. QED
        BY <1>6, <4>1
    <3>5. m + 1 \in C => n + 1 \in B
      <4>1. m + 1 + 4 = n + 1 /\ a <= m + 1
        BY <1>1, <3>2
      <4>. QED
        BY <1>6, <4>1
    <3>6. (m > Len(s) <=> n > Len(t)) /\ (m <= Len(s) <=> n <= Len(t))
          /\ (j = m => j + 4 = n) /\ (j = m + 1 => j + 4 = n + 1)
      <4>1. Len(s) \in Nat /\ Len(t) = Len(s) + 4 /\ m \in Nat /\ n = m + 4
        BY <1>1, <3>2
      <4>. QED
        BY <4>1
    <3>. HIDE DEF B
    <3>. QED
      BY <3>2, <3>3, <3>4, <3>5, <3>6
  <2>. QED
    BY <2>1, <2>2, <2>3
<1>9. k \in B /\ B \in SUBSET (k .. j + 4) /\ j + 4 \in Nat
  BY <1>2, <1>5
<1>. HIDE DEF B
<1>. QED
  BY <1>8, <1>9 DEF StringBy

(* nor any other opaque text that goes past it.                            *)
LEMMA OpaqueGrown ==
  ASSUME NEW s \in Seq(Symbol), NEW t \in Seq(Symbol), NEW a, Grown(s, t, a),
         Sym(s, a - 1) = "nl", a <= Len(s) + 1, NEW k \in Nat \ {0}, NEW j \in Nat,
         Opaque(s, k, j), k < a, a <= j
  PROVE  Opaque(t, k, j + 4)
<1>1. /\ a \in Nat \ {0} /\ Len(t) = Len(s) + 4 /\ Len(s) \in Nat
      /\ \A n \in Int : n < a => Sym(t, n) = Sym(s, n)
      /\ \A n \in Int : a <= n => Sym(t, n + 4) = Sym(s, n)
      /\ Sym(t, a) = "#"
  BY SymIs DEF Grown
<1>2. Sym(t, k) = Sym(s, k) /\ k # a - 1 /\ k + 1 < a
  <2>1. Sym(s, k) \in {"/", "quote", "tick"}
    BY DEF Opaque, Shut
  <2>2. k # a - 1
    BY <2>1
  <2>. QED
    BY <1>1, <2>2
<1>3. Sym(t, k + 1) = Sym(s, k + 1)
  BY <1>1, <1>2
<1>4. k + 1 # a - 1 => k + 2 < a /\ Sym(t, k + 2) = Sym(s, k + 2)
  BY <1>1, <1>2
<1>5. k + 2 # a - 1 /\ k + 1 # a - 1 => k + 3 < a
  BY <1>1, <1>4
<1>6. /\ k + 1 \in Nat \ {0} /\ k + 2 \in Nat \ {0} /\ k + 3 \in Nat \ {0}
      /\ k + 1 <= a /\ (k + 1 # a - 1 => k + 2 <= a) /\ (k + 2 # a - 1 /\ k + 1 # a - 1 => k + 3 <= a)
      /\ 1 \in 1 .. 3 /\ 2 \in 1 .. 3 /\ 3 \in 1 .. 3
  <2>1. a \in Nat /\ k + 1 < a /\ (k + 1 # a - 1 => k + 2 < a)
        /\ (k + 2 # a - 1 /\ k + 1 # a - 1 => k + 3 < a)
    BY <1>1, <1>2, <1>4, <1>5
  <2>. QED
    BY <2>1
<1>7. CASE Sym(s, k) = "/" /\ Sym(s, k + 1) = "/" /\ LineBy(s, k + 2, j)
  <2>1. \A n \in k + 2 .. j - 1 : Sym(s, n) # "nl"
    BY <1>7 DEF LineBy
  <2>2. k + 1 # a - 1
    BY <1>7
  <2>3. a - 1 \in k + 2 .. j - 1
    BY <1>1, <1>4, <2>2
  <2>. QED
    BY <2>1, <2>3
<1>8. CASE Sym(s, k) = "/" /\ Sym(s, k + 1) = "*" /\ ShutBy(s, 2, k + 2, j)
  <2>1. k + 1 # a - 1
    BY <1>8
  <2>2. ShutBy(t, 2, k + 2, j + 4)
    BY <1>6, <1>8, <2>1, ShutGrown
  <2>. QED
    BY <1>2, <1>3, <1>8, <2>2 DEF Opaque
<1>9. CASE Sym(s, k) = "quote" /\ StringBy(s, k + 1, j)
  <2>1. StringBy(t, k + 1, j + 4)
    BY <1>2, <1>6, <1>9, StringGrown
  <2>. QED
    BY <1>2, <1>9, <2>1 DEF Opaque
<1>10. CASE Shut(s, 3, k) /\ ShutBy(s, 3, k + 3, j)
  <2>1. Sym(s, k) = "tick" /\ Sym(s, k + 1) = "tick" /\ Sym(s, k + 2) = "tick"
    BY <1>10 DEF Shut
  <2>2. k + 1 # a - 1 /\ k + 2 # a - 1
    BY <2>1
  <2>3. ShutBy(t, 3, k + 3, j + 4)
    BY <1>6, <1>10, <2>2, ShutGrown
  <2>4. Shut(t, 3, k)
    BY <1>2, <1>3, <1>4, <2>1, <2>2 DEF Shut
  <2>. QED
    BY <2>3, <2>4 DEF Opaque
<1>11. CASE Sym(s, k) = "tick" /\ ~Shut(s, 3, k) /\ ShutBy(s, 1, k + 1, j)
  <2>1. ShutBy(t, 1, k + 1, j + 4)
    BY <1>6, <1>11, ShutGrown
  <2>2. ~Shut(t, 3, k)
    <3>1. CASE k + 1 = a - 1
      <4>1. Sym(t, k + 1) = "nl"
        BY <1>3, <3>1
      <4>. QED
        BY <4>1 DEF Shut
    <3>2. CASE k + 1 # a - 1
      BY <1>2, <1>3, <1>4, <1>11, <3>2 DEF Shut
    <3>. QED
      BY <3>1, <3>2
  <2>. QED
    BY <1>2, <1>11, <2>1, <2>2 DEF Opaque
<1>. QED
  BY <1>7, <1>8, <1>9, <1>10, <1>11 DEF Opaque

(* The symbols of the import.                                              *)
LEMMA ImportIs ==
  /\ BasedImport \in Seq(Symbol) /\ Len(BasedImport) = 4
  /\ BasedImport[1] = "#" /\ BasedImport[2] = "import" /\ BasedImport[3] = "based"
  /\ BasedImport[4] = "nl"
<1>1. "#" \in Symbol /\ "import" \in Symbol /\ "based" \in Symbol /\ "nl" \in Symbol
  BY DEF Symbol
<1>. QED
  BY <1>1 DEF BasedImport

(* The import itself is read without a call.                               *)
LEMMA ImportRead ==
  ASSUME NEW t \in Seq(Symbol), NEW b, NEW a \in Nat \ {0}, NEW p \in Stack,
         Sym(t, a) = "#", Sym(t, a + 1) = "import", Sym(t, a + 2) = "based", Sym(t, a + 3) = "nl"
  PROVE  Leads(t, b, {}, a, p, a + 4, p)
<1>1. /\ a + 1 \in Nat \ {0} /\ a + 2 \in Nat \ {0} /\ a + 3 \in Nat \ {0} /\ a + 4 \in Nat
      /\ a + 1 + 1 = a + 2 /\ a + 2 + 1 = a + 3 /\ a + 3 + 1 = a + 4
      /\ a < a + 1 /\ a < a + 2 /\ a + 1 < a + 2 /\ a + 2 < a + 3 /\ a + 3 < a + 4
      /\ a + 1 - 1 = a
  OBVIOUS
<1>2. "import" \in Symbol /\ "based" \in Symbol /\ "nl" \in Symbol
  BY DEF Symbol
<1>3. \A mode : NoCall(t, a, mode) /\ NoCall(t, a + 1, mode) /\ NoCall(t, a + 2, mode)
                /\ NoCall(t, a + 3, mode)
  BY DEF NoCall
<1>4. /\ Quiet(t, a + 1, p, a + 2, p) /\ Quiet(t, a + 2, p, a + 3, p) /\ Quiet(t, a + 3, p, a + 4, p)
  <2>1. Quiet(t, a + 1, p, a + 2, p)
    BY <1>1, <1>2, <1>3, QuietOne
  <2>2. Quiet(t, a + 2, p, a + 3, p)
    BY <1>1, <1>2, <1>3, QuietOne
  <2>3. Quiet(t, a + 3, p, a + 4, p)
    BY <1>1, <1>2, <1>3, QuietOne
  <2>. QED
    BY <2>1, <2>2, <2>3
<1>5. Leads(t, b, {}, a, p, a + 2, p)
  <2>1. a \in 1 .. Len(t) /\ a + 2 \in a + 1 .. Len(t) + 1 /\ Top(p).stop # "#" /\ ~Opens(t, a)
    <3>1. a \in 1 .. Len(t) /\ a + 1 \in 1 .. Len(t) /\ Len(t) \in Nat
      BY SymIs, NoSymbol
    <3>2. Top(p).stop # "#"
      BY StackIs, NoSymbol
    <3>. QED
      BY <1>1, <3>1, <3>2 DEF Opens
  <2>2. CASE Top(p).mode = "markup"
    <3>1. Name(t, a, a + 2)
      <4>1. isIdentChar(Sym(t, a + 1)) /\ ~isIdentChar(Sym(t, a + 2))
        BY DEF isIdentChar
      <4>2. \A n \in a + 1 .. a + 2 - 1 : n = a + 1
        OBVIOUS
      <4>. QED
        BY <2>1, <4>1, <4>2 DEF Name
    <3>2. Hash(t, a, p, a + 2, p)
      BY <2>1, <3>1 DEF Hash
    <3>3. Quiet(t, a, p, a + 2, p)
      BY <1>3, <2>1, <2>2, <3>2 DEF Quiet
    <3>. QED
      BY <1>1, <3>3, LeadsOne
  <2>3. CASE Top(p).mode # "markup"
    <3>1. Delimiter(t, a, p, a + 1, p)
      BY DEF Delimiter
    <3>2. Quiet(t, a, p, a + 1, p)
      BY <1>3, <2>1, <2>3, <3>1 DEF Quiet
    <3>3. Leads(t, b, {}, a, p, a + 1, p) /\ Leads(t, b, {}, a + 1, p, a + 2, p)
      BY <1>1, <1>4, <3>2, LeadsOne
    <3>4. Leads(t, b, {} \cup {}, a, p, a + 2, p)
      BY <3>3, LeadsOn
    <3>. QED
      BY <3>4
  <2>. QED
    BY <2>2, <2>3
<1>6. Leads(t, b, {}, a + 2, p, a + 3, p) /\ Leads(t, b, {}, a + 3, p, a + 4, p)
  BY <1>1, <1>4, LeadsOne
<1>7. Leads(t, b, {} \cup {}, a, p, a + 3, p)
  BY <1>5, <1>6, LeadsOn
<1>8. Leads(t, b, {} \cup {} \cup {}, a, p, a + 4, p)
  BY <1>6, <1>7, LeadsOn
<1>. QED
  BY <1>8

(* A trail through a text that an import is added to.                      *)
LEMMA ImportAdded ==
  ASSUME NEW s \in Seq(Symbol), NEW b, NEW r, NEW z, NEW q,
         Leads(s, b, {}, 1, r, z, q), Len(s) < z,
         NEW a \in 1 .. Len(s) + 1, a = 1 \/ Sym(s, a - 1) = "nl",
         NEW t, t = Patched(s, a, BasedImport, a)
  PROVE  /\ t \in Seq(Symbol)
         /\ \E y : Leads(t, b, {}, 1, r, y, q) /\ Len(t) < y
<1>1. InPieces(s, a, BasedImport, a, t, 4)
  <2>1. a \in a .. Len(s) + 1 /\ a + 4 - a = 4
    BY SymIs
  <2>. QED
    BY <2>1, ImportIs, PatchIs
<1>2. Grown(s, t, a) /\ t \in Seq(Symbol)
  <2>1. 1 \in 1 .. 4 /\ 2 \in 1 .. 4 /\ 3 \in 1 .. 4 /\ 4 \in 1 .. 4
    OBVIOUS
  <2>2. a - 1 + 1 = a /\ a - 1 + 2 = a + 1 /\ a - 1 + 3 = a + 2 /\ a - 1 + 4 = a + 3
    OBVIOUS
  <2>3. \A n \in 1 .. 4 : Sym(t, a - 1 + n) = BasedImport[n]
    BY <1>1, ImportIs DEF InPieces
  <2>4. Sym(t, a) = "#" /\ Sym(t, a + 1) = "import" /\ Sym(t, a + 2) = "based" /\ Sym(t, a + 3) = "nl"
    BY <2>1, <2>2, <2>3, ImportIs
  <2>. QED
    BY <1>1, <2>4 DEF Grown, InPieces
<1>3. /\ Len(t) = Len(s) + 4 /\ Len(s) \in Nat /\ a \in Nat \ {0} /\ z \in Nat /\ r \in Stack
      /\ \A n \in Int : n < a => Sym(t, n) = Sym(s, n)
      /\ \A n \in Int : a <= n => Sym(t, n + 4) = Sym(s, n)
      /\ Sym(t, a) = "#"
  BY <1>2, LeadsIn, SymIs DEF Grown
<1>4. \A p \in Stack : Leads(t, b, {}, a, p, a + 4, p)
  BY <1>2, <1>3, ImportRead DEF Grown
<1>5. ASSUME NEW j \in Nat, NEW p, a <= j, Leads(s, b, {}, j, p, z, q)
      PROVE  Leads(t, b, {}, j + 4, p, z + 4, q)
  <2>1. Agree(s, t, j, z, 4)
    <3>1. ASSUME NEW n \in j .. z - 1, NEW mode, NoCall(s, n, mode) PROVE NoCall(t, n + 4, mode)
      <4>1. /\ n \in Int /\ n + 1 \in Int /\ n + 2 \in Int /\ a <= n /\ a <= n + 1 /\ a <= n + 2
            /\ n + 1 + 4 = n + 4 + 1 /\ n + 2 + 4 = n + 4 + 2 /\ n - 1 + 4 = n + 4 - 1 /\ n - 1 \in Int
            /\ 4 \in Int
        BY <1>3, <1>5
      <4>2. Sym(t, n + 4) = Sym(s, n) /\ Sym(t, n + 4 + 1) = Sym(s, n + 1)
            /\ Sym(t, n + 4 + 2) = Sym(s, n + 2)
        BY <1>3, <4>1
      <4>3. \/ Sym(t, n + 4 - 1) = Sym(s, n - 1)
            \/ ~isIdentChar(Sym(s, n - 1)) /\ Sym(s, n - 1) # "."
        <5>1. CASE n = a
          <6>1. Sym(s, n - 1) = "nl" \/ Sym(s, n - 1) = None
            <7>1. a = 1 => n - 1 \notin 1 .. Len(s)
              BY <5>1
            <7>. QED
              BY <5>1, <7>1, SymIs
          <6>. QED
            BY <6>1, NoSymbol DEF isIdentChar
        <5>2. CASE n # a
          <6>1. a <= n - 1
            BY <1>3, <4>1, <5>2
          <6>. QED
            BY <1>3, <4>1, <6>1
        <5>. QED
          BY <5>1, <5>2
      <4>. QED
        BY <3>1, <4>1, <4>2, <4>3, NoCallMoved
    <3>2. \A n \in j .. z - 1 : Sym(t, n + 4) = Sym(s, n)
      <4>. SUFFICES ASSUME NEW n \in j .. z - 1 PROVE Sym(t, n + 4) = Sym(s, n)
        OBVIOUS
      <4>1. n \in Int /\ a <= n
        BY <1>3, <1>5
      <4>. QED
        BY <1>3, <4>1
    <3>3. Sym(t, z + 4) = Sym(s, z)
      <4>1. a <= z /\ z \in Int
        BY <1>3
      <4>. QED
        BY <1>3, <4>1
    <3>. QED
      BY <1>3, <3>1, <3>2, <3>3 DEF Agree, Alike
  <2>2. Sym(t, z + 4) = Sym(s, z) /\ 1 <= j + 4 /\ 4 \in Int
    <3>1. a <= z /\ z \in Int
      BY <1>3
    <3>. QED
      BY <1>3, <3>1
  <2>. QED
    BY <1>2, <1>5, <2>1, <2>2, LeadsMoved
<1>6. Len(t) < z + 4
  BY <1>3
<1>7. CASE a = 1
  <2>1. Leads(t, b, {}, 1, r, 5, r)
    BY <1>3, <1>4, <1>7
  <2>2. Leads(t, b, {}, 5, r, z + 4, q)
    BY <1>5, <1>7
  <2>3. Leads(t, b, {} \cup {}, 1, r, z + 4, q)
    BY <2>1, <2>2, LeadsOn
  <2>. QED
    BY <1>2, <1>6, <2>3
<1>8. CASE a # 1
  <2>1. Sym(s, a - 1) = "nl" /\ a \in Nat /\ 1 < a /\ a <= z /\ Sym(t, a - 1) = "nl"
    BY <1>3, <1>8
  <2>2. PICK k \in Nat \ {0}, j \in Nat, p \in Stack, o \in Stack :
          /\ Leads(s, b, {}, 1, r, k, p) /\ Quiet(s, k, p, j, o) /\ Leads(s, b, {}, j, o, z, q)
          /\ k < a /\ a <= j /\ j <= z
    BY <2>1, LeadsAcross
  <2>3. Leads(t, b, {}, 1, r, k, p)
    <3>1. Agree(s, t, 1, k, 0)
      <4>1. ASSUME NEW n \in 1 .. k - 1, NEW mode, NoCall(s, n, mode) PROVE NoCall(t, n + 0, mode)
        <5>1. n < a /\ n \in Int /\ n + 0 = n /\ n - 1 < a /\ n - 1 \in Int /\ n + 0 + 1 = n + 1
              /\ n + 0 + 2 = n + 2 /\ n + 0 - 1 = n - 1 /\ n + 1 \in Int /\ n + 2 \in Int /\ n + 1 < a
              /\ (n + 2 < a \/ n + 2 = a) /\ 0 \in Int
          BY <1>3, <2>2
        <5>2. Sym(t, n) = Sym(s, n) /\ Sym(t, n - 1) = Sym(s, n - 1) /\ Sym(t, n + 1) = Sym(s, n + 1)
              /\ Sym(t, n + 2) \in {Sym(s, n + 2), "image", "#"}
          BY <1>3, <5>1
        <5>. QED
          BY <4>1, <5>1, <5>2, NoCallMoved
      <4>2. \A n \in 1 .. k - 1 : Sym(t, n + 0) = Sym(s, n)
        <5>. SUFFICES ASSUME NEW n \in 1 .. k - 1 PROVE Sym(t, n + 0) = Sym(s, n)
          OBVIOUS
        <5>1. n \in Int /\ n < a /\ n + 0 = n
          BY <1>3, <2>2
        <5>. QED
          BY <1>3, <5>1
      <4>3. Sym(t, k + 0) = Sym(s, k) /\ ~(k > Len(s))
        BY <1>3, <2>2
      <4>. QED
        BY <4>1, <4>2, <4>3 DEF Agree, Alike
    <3>2. Sym(t, k + 0) = Sym(s, k) /\ 0 \in Int
      BY <1>3, <2>2
    <3>3. Leads(t, b, {}, 1 + 0, r, k + 0, p)
      BY <1>2, <2>2, <3>1, <3>2, LeadsMoved
    <3>. QED
      BY <2>2, <3>3
  <2>4. Leads(t, b, {}, j + 4, o, z + 4, q)
    BY <1>5, <2>2
  <2>5. Leads(t, b, {}, k, p, j + 4, o)
    <3>1. CASE Opaque(s, k, j) /\ o = p
      <4>1. Opaque(t, k, j + 4)
        <5>1. a <= Len(s) + 1
          BY <1>3
        <5>. QED
          BY <1>2, <2>1, <2>2, <3>1, <5>1, OpaqueGrown
      <4>2. k \in 1 .. Len(t) /\ k < j + 4 /\ j + 4 \in Nat
        BY <1>3, <2>2
      <4>3. Quiet(t, k, p, j + 4, o)
        BY <3>1, <4>1, <4>2 DEF Quiet
      <4>. QED
        BY <2>2, <4>2, <4>3, LeadsOne
    <3>2. CASE ~(Opaque(s, k, j) /\ o = p)
      <4>1. IF Sym(s, k) = Top(p).stop THEN j = k + 1 /\ o = SubSeq(p, 1, Len(p) - 1)
            ELSE IF Sym(s, k) = "#" /\ Top(p).mode = "markup" THEN Hash(s, k, p, j, o)
            ELSE Delimiter(s, k, p, j, o)
        BY <2>2, <3>2 DEF Quiet
      <4>2. k = a - 1
        <5>. SUFFICES ASSUME k # a - 1 PROVE FALSE
          OBVIOUS
        <5>1. j # k + 1 /\ a - 1 \in k + 1 .. j - 1
          BY <1>3, <2>2
        <5>2. Hash(s, k, p, j, o)
          BY <4>1, <5>1 DEF Delimiter
        <5>3. PICK e \in k + 1 .. Len(s) + 1 :
                Name(s, k, e) /\ (j = e \/ (Sym(s, e) = "(" /\ j = e + 1))
          BY <5>2 DEF Hash
        <5>4. \A n \in k + 1 .. e - 1 : isIdentChar(Sym(s, n))
          BY <5>3 DEF Name
        <5>5. a - 1 \in k + 1 .. e - 1 \/ (a - 1 = e /\ Sym(s, e) = "(")
          <6>1. a \in Nat /\ e \in Nat /\ j \in Nat /\ k \in Nat /\ k + 1 <= a - 1 /\ a - 1 < j
            BY <1>3, <2>2, <5>1, <5>3
          <6>2. CASE a - 1 < e
            BY <6>1, <6>2
          <6>3. CASE ~(a - 1 < e)
            <7>1. j # e
              BY <6>1, <6>3
            <7>2. Sym(s, e) = "(" /\ j = e + 1
              BY <5>3, <7>1
            <7>. QED
              BY <6>1, <6>3, <7>2
          <6>. QED
            BY <6>2, <6>3
        <5>. QED
          BY <2>1, <5>4, <5>5 DEF isIdentChar
      <4>3. j = a /\ o = p
        <5>1. Top(p).stop # "nl"
          BY <2>2, StackIs, NoSymbol
        <5>2. Delimiter(s, k, p, j, o)
          BY <2>1, <4>1, <4>2, <5>1
        <5>3. j = k + 1 /\ o = p
          BY <2>1, <4>2, <5>2 DEF Delimiter
        <5>. QED
          BY <1>3, <4>2, <5>3
      <4>4. Quiet(t, k, p, a, p)
        <5>1. Sym(t, k) = "nl" /\ k + 1 = a
          BY <1>3, <2>1, <4>2
        <5>2. NoCall(t, k, Top(p).mode) /\ "nl" \in Symbol
          BY <5>1 DEF NoCall, Symbol
        <5>. QED
          BY <1>2, <2>2, <5>1, <5>2, QuietOne
      <4>5. Leads(t, b, {}, k, p, a, p)
        BY <1>3, <2>2, <4>4, LeadsOne
      <4>6. Leads(t, b, {}, a, p, a + 4, p)
        BY <1>4
      <4>7. Leads(t, b, {} \cup {}, k, p, a + 4, p)
        BY <4>5, <4>6, LeadsOn
      <4>. QED
        BY <4>3, <4>7
    <3>. QED
      BY <3>1, <3>2
  <2>6. Leads(t, b, {} \cup {}, 1, r, j + 4, o)
    BY <2>3, <2>5, LeadsOn
  <2>7. Leads(t, b, {} \cup {} \cup {}, 1, r, z + 4, q)
    BY <2>4, <2>6, LeadsOn
  <2>. QED
    BY <1>2, <1>6, <2>7
<1>. QED
  BY <1>7, <1>8

(* One symbol after another.                                               *)
LEMMA LeadsRun ==
  ASSUME NEW s, NEW b, NEW k \in Nat \ {0}, NEW j \in Nat, k <= j, NEW r \in Stack,
         \A n \in k .. j - 1 : Quiet(s, n, r, n + 1, r)
  PROVE  Leads(s, b, {}, k, r, j, r)
<1>. DEFINE T == {n \in k .. j : Leads(s, b, {}, k, r, n, r)}
<1>1. T \in SUBSET Nat /\ k \in T /\ \A n \in T : n <= j
  <2>1. k \in k .. j /\ Leads(s, b, {}, k, r, k, r)
    BY LeadsNowhere
  <2>. QED
    BY <2>1
<1>2. PICK g \in T : \A n \in T : n <= g
  BY <1>1, GreatestNat
<1>3. g \in k .. j /\ Leads(s, b, {}, k, r, g, r)
  OBVIOUS
<1>4. CASE g = j
  BY <1>3, <1>4
<1>5. CASE g # j
  <2>1. g \in k .. j - 1 /\ g \in Nat \ {0} /\ g + 1 \in Nat /\ g < g + 1 /\ g + 1 \in k .. j
    BY <1>3, <1>5
  <2>2. Leads(s, b, {}, g, r, g + 1, r)
    BY <2>1, LeadsOne
  <2>3. Leads(s, b, {} \cup {}, k, r, g + 1, r)
    BY <1>3, <2>2, LeadsOn
  <2>4. g + 1 \in T
    BY <2>1, <2>3
  <2>. QED
    BY <1>2, <2>1, <2>4
<1>. QED
  BY <1>4, <1>5

(* A step of a trail of the source goes one way only.                      *)
LEMMA QuietOnce ==
  ASSUME src \in Seq(Symbol), NEW k \in Nat, NEW r, NEW j \in Nat, NEW q, Quiet(src, k, r, j, q),
         NEW e \in Nat, NEW o, Quiet(src, k, r, e, o)
  PROVE  e = j /\ o = q
<1>1. k \in 1 .. Len(src)
  BY DEF Quiet
<1>2. CASE Opens(src, k)
  BY <1>1, <1>2, OpaqueIs DEF Quiet
<1>3. CASE ~Opens(src, k)
  <2>1. ~Opaque(src, k, j) /\ ~Opaque(src, k, e)
    BY <1>1, <1>3, OpaqueIs
  <2>2. \A x, y : Name(src, k, x) /\ Name(src, k, y) => x = y
    BY <1>1, NameIs
  <2>3. CASE Sym(src, k) = Top(r).stop
    BY <2>1, <2>3 DEF Quiet
  <2>4. CASE Sym(src, k) # Top(r).stop /\ Sym(src, k) = "#" /\ Top(r).mode = "markup"
    <3>1. Hash(src, k, r, j, q) /\ Hash(src, k, r, e, o)
      BY <2>1, <2>4 DEF Quiet
    <3>2. PICK x : /\ Name(src, k, x)
                   /\ IF x # k + 1 /\ Sym(src, x) = "(" /\ Room(r)
                      THEN j = x + 1 /\ q = Append(r, CodeArgs)
                      ELSE j = x /\ q = r
      BY <3>1 DEF Hash
    <3>3. PICK y : /\ Name(src, k, y)
                   /\ IF y # k + 1 /\ Sym(src, y) = "(" /\ Room(r)
                      THEN e = y + 1 /\ o = Append(r, CodeArgs)
                      ELSE e = y /\ o = r
      BY <3>1 DEF Hash
    <3>4. x = y
      BY <2>2, <3>2, <3>3
    <3>. QED
      BY <3>2, <3>3, <3>4
  <2>5. CASE Sym(src, k) # Top(r).stop /\ ~(Sym(src, k) = "#" /\ Top(r).mode = "markup")
    <3>1. Delimiter(src, k, r, j, q) /\ Delimiter(src, k, r, e, o)
      BY <2>1, <2>5 DEF Quiet
    <3>. QED
      BY <3>1 DEF Delimiter
  <2>. QED
    BY <2>3, <2>4, <2>5
<1>. QED
  BY <1>2, <1>3

(* A trail of the source to its end passes where another one gets.         *)
LEMMA LeadsThrough ==
  ASSUME src \in Seq(Symbol), NEW b, NEW a, NEW r, NEW z, NEW q, Leads(src, b, {}, a, r, z, q),
         Len(src) < z, NEW y, NEW p, Leads(src, b, {}, a, r, y, p)
  PROVE  Leads(src, b, {}, y, p, z, q)
<1>1. PICK D, at : Trail(src, b, {}, D, at, a, z) /\ at[a] = r /\ at[z] = q
  BY DEF Leads
<1>2. PICK E, as : Trail(src, b, {}, E, as, a, y) /\ as[a] = r /\ as[y] = p
  BY DEF Leads
<1>3. /\ a \in Nat \ {0} /\ z \in Nat /\ D \in SUBSET (a .. z) /\ a \in D /\ z \in D
      /\ \A k \in D \ {z} : \E j \in D : Follows(D, k, j) /\ Goes(src, b, {}, k, at[k], j, at[j])
  BY <1>1 DEF Trail
<1>4. /\ y \in Nat /\ E \in SUBSET (a .. y) /\ a \in E /\ y \in E
      /\ \A k \in E \ {y} : \E j \in E : Follows(E, k, j) /\ Goes(src, b, {}, k, as[k], j, as[j])
  BY <1>2 DEF Trail
<1>. DEFINE T == {n \in D : n \in E /\ as[n] = at[n]}
<1>5. T \in SUBSET Nat /\ a \in T /\ \A n \in T : n <= z
  <2>1. \A n \in D : n \in Nat /\ n <= z
    BY <1>3
  <2>2. \A n \in T : n \in D
    OBVIOUS
  <2>. QED
    BY <1>1, <1>2, <1>3, <1>4, <2>1, <2>2
<1>6. PICK g \in T : \A n \in T : n <= g
  BY <1>3, <1>5, GreatestNat
<1>7. g \in D /\ g \in E /\ as[g] = at[g] /\ g \in Nat
  BY <1>5
<1>8. g = y
  <2>. SUFFICES ASSUME g # y PROVE FALSE
    OBVIOUS
  <2>1. PICK f \in E : Follows(E, g, f) /\ Quiet(src, g, at[g], f, as[f])
    BY <1>4, <1>7 DEF Goes
  <2>2. g \in 1 .. Len(src)
    BY <2>1 DEF Quiet
  <2>3. g # z
    BY <1>3, <2>2, SymIs
  <2>4. PICK e \in D : Follows(D, g, e) /\ Quiet(src, g, at[g], e, at[e])
    BY <1>3, <1>7, <2>3 DEF Goes
  <2>5. e \in Nat /\ f \in Nat /\ g < e
    BY <1>3, <1>4, <2>4 DEF Follows
  <2>6. e = f /\ at[e] = as[f]
    <3>1. Quiet(src, g, at[g], f, as[f]) /\ Quiet(src, g, at[g], e, at[e]) /\ g \in Nat
          /\ e \in Nat /\ f \in Nat
      BY <1>7, <2>1, <2>4, <2>5
    <3>. DEFINE r1 == at[g]
                q1 == as[f]
                q2 == at[e]
    <3>2. Quiet(src, g, r1, f, q1) /\ Quiet(src, g, r1, e, q2)
      BY <3>1
    <3>. HIDE DEF r1, q1, q2
    <3>3. e = f /\ q2 = q1
      BY <3>1, <3>2, QuietOnce
    <3>. QED
      BY <3>3 DEF q1, q2
  <2>7. e \in D /\ e \in E /\ as[e] = at[e]
    BY <2>1, <2>4, <2>6
  <2>8. e <= g
    BY <1>6, <2>7
  <2>. QED
    BY <1>7, <2>5, <2>8
<1>. DEFINE L == {n \in {} : g <= b[n].start}
<1>9. Leads(src, b, L, g, at[g], z, at[z])
  <2>1. PICK x \in D : x = g
    BY <1>7
  <2>2. Leads(src, b, {n \in {} : x <= b[n].start}, x, at[x], z, at[z])
    BY <1>1, TrailCut
  <2>. QED
    BY <2>1, <2>2
<1>10. L = {}
  OBVIOUS
<1>. HIDE DEF L
<1>. QED
  BY <1>1, <1>2, <1>7, <1>8, <1>9, <1>10

-----------------------------------------------------------------------------
(* The turns of the loop, on the trail.                                    *)

(* A turn that leads the scanner on in a trail,                            *)
Strides ==
  /\ UNCHANGED <<blocks, skipped>>
  /\ \A b : Leads(src, b, {}, i, regions, i', regions')
(* and one that finds a call: it gives it up, or reads it to its end.      *)
FindsCall ==
  /\ UNCHANGED regions /\ ~Opens(src, i) /\ ~NoCall(src, i, Top(regions).mode)
  /\ Sym(src, i) # Top(regions).stop
  /\ \/ \E n : skipped' = Append(skipped, n)
     \/ /\ skipped' = skipped
        /\ \E c : /\ blocks' = Append(blocks, c) /\ c.start = i /\ c.end = i'
                  /\ c.codeContext = (Top(regions).mode = "code")
                  /\ Sym(src, i' - 1) \in {"]", ")"}

(* What a trail has behind it at a turn.                                   *)
LEMMA TurnStands ==
  ASSUME Inv, Looking, regions \in Stack
  PROVE  /\ src \in Seq(Symbol) /\ i \in 1 .. Len(src) /\ i \in Nat \ {0} /\ i + 1 \in 1 .. End
         /\ Len(src) \in Nat /\ End = Len(src) + 1 /\ Sym(src, i) \in Symbol
         /\ region = Top(regions) /\ (Deeper <=> Room(regions))
         /\ Top(regions).mode \in {"markup", "code"} /\ (InCode <=> Top(regions).mode = "code")
         /\ \A k : At(k) = Sym(src, k)
         /\ OpaqueAt(i) <=> Opens(src, i)
<1>1. /\ src \in Seq(Symbol) /\ i \in 1 .. Len(src) /\ i + 1 \in 1 .. End
      /\ At(i) \in Symbol /\ Len(src) \in Nat /\ End = Len(src) + 1
  BY TurnBegins
<1>2. region = Top(regions) /\ (Deeper <=> Room(regions)) /\ (InCode <=> Top(regions).mode = "code")
  BY DEF region, Top, Deeper, Room, InCode
<1>3. \A k : At(k) = Sym(src, k)
  BY AtSym
<1>4. OpaqueAt(i) <=> Opens(src, i)
  <2>1. 0 \in Nat
    OBVIOUS
  <2>. QED
    BY <1>1, <2>1, OpaqueIs
<1>5. Top(regions).mode \in {"markup", "code"}
  BY StackIs
<1>6. i \in Nat \ {0} /\ Sym(src, i) \in Symbol
  BY <1>1, <1>3
<1>. QED
  BY <1>1, <1>2, <1>3, <1>4, <1>5, <1>6

(* How a call ends, once a bracket follows its name.                       *)
LEMMA CallEnds ==
  ASSUME src \in Seq(Symbol), NEW start \in 1 .. Len(src), NEW k \in start + 1 .. End,
         NEW inCode \in BOOLEAN, tryD2(start, k, inCode), Sym(src, k) \in Bracket
  PROVE  \/ \E n : skipped' = Append(skipped, n)
         \/ /\ skipped' = skipped
            /\ \E c : /\ blocks' = Append(blocks, c) /\ c.start = start /\ c.end = i'
                      /\ c.codeContext = inCode /\ Sym(src, i' - 1) \in {"]", ")"}
<1>1. /\ \A n : At(n) = Sym(src, n)
      /\ \A n : Sym(src, n) \in Bracket => n \in 1 .. Len(src)
  BY AtSym, SymIs, NoSymbol DEF Bracket
<1>2. ASSUME NEW end, NEW options, NEW code, emit(start, end, options, code, inCode),
             Sym(src, end - 1) \in {"]", ")"}
      PROVE  /\ skipped' = skipped
             /\ \E c : /\ blocks' = Append(blocks, c) /\ c.start = start /\ c.end = i'
                       /\ c.codeContext = inCode /\ Sym(src, i' - 1) \in {"]", ")"}
  <2>. DEFINE c == [start |-> start, end |-> end, options |-> options, code |-> code,
                    codeContext |-> inCode]
  <2>1. c.start = start /\ c.end = end /\ c.codeContext = inCode
    OBVIOUS
  <2>2. blocks' = Append(blocks, c) /\ i' = end /\ skipped' = skipped
    BY <1>2 DEF emit
  <2>. HIDE DEF c
  <2>. QED
    BY <1>2, <2>1, <2>2
<1>3. ASSUME NEW n, NEW e, skip(n, e) PROVE \E x : skipped' = Append(skipped, x)
  BY <1>3 DEF skip
<1>4. ASSUME NEW n, NEW options, Sym(src, n) = "[", DiagramBlock(start, n, options, inCode)
      PROVE  \/ \E x : skipped' = Append(skipped, x)
             \/ /\ skipped' = skipped
                /\ \E c : /\ blocks' = Append(blocks, c) /\ c.start = start /\ c.end = i'
                          /\ c.codeContext = inCode /\ Sym(src, i' - 1) \in {"]", ")"}
  <2>1. n \in 1 .. Len(src)
    BY <1>1, <1>4 DEF Bracket
  <2>2. PICK end : /\ end = skipD2Brackets(n)
                   /\ \/ end = 0 /\ skip(start, End)
                      \/ end # 0 /\ emit(start, end, options, SubSeq(src, n + 1, end - 2), inCode)
    BY <1>4 DEF DiagramBlock
  <2>3. end # 0 => Sym(src, end - 1) = "]"
    BY <1>1, <2>1, <2>2, BracketsBounds
  <2>. QED
    BY <1>2, <1>3, <2>2, <2>3
<1>5. CASE Sym(src, k) = "["
  <2>1. DiagramBlock(start, k, NoOptions, inCode)
    BY <1>1, <1>5 DEF tryD2
  <2>. QED
    BY <1>4, <1>5, <2>1
<1>6. CASE Sym(src, k) = "("
  <2>1. PICK end : /\ end = skipBalancedParens(k)
                   /\ \/ end = 0 /\ skip(start, End)
                      \/ end # 0 /\ Arguments(start, k, end, inCode)
    BY <1>1, <1>6 DEF tryD2
  <2>2. CASE end = 0
    BY <1>3, <2>1, <2>2
  <2>3. CASE end # 0
    <3>1. Sym(src, end - 1) = ")"
      BY <1>1, <1>6, <2>1, <2>3, ParensBounds DEF Bracket
    <3>2. \/ \E code : emit(start, end, NoOptions, code, inCode)
          \/ At(end) = "[" /\ \E options : DiagramBlock(start, end, options, inCode)
          \/ skip(start, end)
      BY <2>1, <2>3 DEF Arguments
    <3>3. CASE \E code : emit(start, end, NoOptions, code, inCode)
      BY <1>2, <3>1, <3>3
    <3>4. CASE At(end) = "[" /\ \E options : DiagramBlock(start, end, options, inCode)
      BY <1>1, <1>4, <3>4
    <3>5. CASE skip(start, end)
      BY <1>3, <3>5
    <3>. QED
      BY <3>2, <3>3, <3>4, <3>5
  <2>. QED
    BY <2>2, <2>3
<1>. QED
  BY <1>5, <1>6 DEF Bracket

(* Of opaque text.                                                         *)
LEMMA SkipOpaqueStrides == ASSUME Inv, regions \in Stack, SkipOpaque PROVE Strides
<1>1. /\ Looking /\ OpaqueAt(i) /\ i' = AfterOpaque(i) /\ UNCHANGED <<regions, blocks, skipped>>
  BY DEF SkipOpaque
<1>2. /\ src \in Seq(Symbol) /\ i \in 1 .. Len(src) /\ i \in Nat \ {0} /\ End \in Nat
  BY <1>1, TurnStands
<1>3. i' \in Nat /\ i < i'
  BY <1>1, <1>2, AfterOpaqueBounds
<1>4. Opaque(src, i, i')
  BY <1>1, <1>2, <1>3, OpaqueIs
<1>5. Quiet(src, i, regions, i', regions)
  BY <1>2, <1>4 DEF Quiet
<1>6. \A b : Leads(src, b, {}, i, regions, i', regions)
  BY <1>2, <1>3, <1>5, LeadsOne
<1>. QED
  BY <1>1, <1>6 DEF Strides

(* Of the end of a region.                                                 *)
LEMMA CloseRegionStrides == ASSUME Inv, regions \in Stack, CloseRegion PROVE Strides
<1>1. /\ Looking /\ ~OpaqueAt(i) /\ At(i) = region.stop /\ UNCHANGED <<blocks, skipped>>
      /\ regions' = SubSeq(regions, 1, Len(regions) - 1) /\ i' = i + 1
  BY DEF CloseRegion, Plain
<1>2. /\ src \in Seq(Symbol) /\ i \in 1 .. Len(src) /\ i \in Nat \ {0} /\ Sym(src, i) \in Symbol
      /\ Sym(src, i) = Top(regions).stop /\ ~Opens(src, i)
  BY <1>1, TurnStands
<1>3. Sym(src, i) \in {"]", ")"}
  <2>1. Top(regions).stop \in {None, "]", ")"}
    BY StackIs
  <2>2. Sym(src, i) # None
    BY <1>2, ScannerAssumption
  <2>. QED
    BY <1>2, <2>1, <2>2
<1>4. regions' \in Stack
  <2>1. regions' # <<>>
    BY CloseRegionTurns DEF Turn, Nested
  <2>2. Len(regions) - 1 \in Int /\ Len(regions) - 1 <= Len(regions) /\ 1 \in Nat \ {0}
    BY StackIs
  <2>3. regions' \in Seq({Markup, InMarkup, CodeArgs})
    BY <1>1, <2>2, StackIs, PartType
  <2>. QED
    BY <2>1, <2>3 DEF Stack
<1>5. Quiet(src, i, regions, i + 1, regions')
  <2>1. NoCall(src, i, Top(regions).mode)
    BY <1>3 DEF NoCall
  <2>. QED
    BY <1>1, <1>2, <2>1 DEF Quiet
<1>6. i + 1 \in Nat /\ i < i + 1
  BY <1>2
<1>7. \A b : Leads(src, b, {}, i, regions, i + 1, regions')
  BY <1>2, <1>4, <1>5, <1>6, LeadsOne
<1>. QED
  BY <1>1, <1>7 DEF Strides

(* Of one quiet step.                                                      *)
LEMMA QuietStrides ==
  ASSUME Inv, Looking, regions \in Stack, regions' \in Stack, UNCHANGED <<blocks, skipped>>,
         i' \in Nat, i < i', Quiet(src, i, regions, i', regions')
  PROVE  Strides
<1>1. i \in Nat \ {0}
  BY TurnStands
<1>2. \A b : Leads(src, b, {}, i, regions, i', regions')
  BY <1>1, LeadsOne
<1>. QED
  BY <1>2 DEF Strides

(* Of a name after # in markup.                                            *)
LEMMA MarkupHashStrides ==
  ASSUME Inv, regions \in Stack, markupHash PROVE Strides \/ FindsCall
<1>. DEFINE k == IdentEnd(i + 1)
            name == SubSeq(src, i + 1, k - 1)
<1>1. /\ Looking /\ ~OpaqueAt(i) /\ At(i) # region.stop /\ ~InCode /\ At(i) = "#"
      /\ \/ name = <<"d2">> /\ tryD2(i, k, FALSE) /\ UNCHANGED regions
         \/ name = <<>> /\ i' = i + 1 /\ UNCHANGED <<regions, blocks, skipped>>
         \/ /\ name \notin {<<>>, <<"d2">>} /\ UNCHANGED <<blocks, skipped>>
            /\ IF At(k) = "(" /\ Deeper
               THEN i' = k + 1 /\ Enter("code", ")")
               ELSE i' = k /\ UNCHANGED regions
  BY DEF markupHash, Inside, Plain, AfterStrayHash
<1>2. /\ src \in Seq(Symbol) /\ i \in 1 .. Len(src) /\ i \in Nat \ {0} /\ i + 1 \in 1 .. End
      /\ End = Len(src) + 1 /\ Len(src) \in Nat /\ Top(regions).mode = "markup"
      /\ Sym(src, i) = "#" /\ Sym(src, i) # Top(regions).stop /\ ~Opens(src, i)
      /\ (Deeper <=> Room(regions)) /\ \A n : At(n) = Sym(src, n)
  BY <1>1, TurnStands
<1>3. /\ Name(src, i, k) /\ \A j : Name(src, i, j) => j = k
      /\ k \in i + 1 .. End /\ ~isIdentChar(Sym(src, k))
  <2>1. Name(src, i, k) /\ \A j : Name(src, i, j) => j = k
    BY <1>2, NameIs
  <2>. HIDE DEF k
  <2>. QED
    BY <1>2, <2>1 DEF Name
<1>4. /\ name = <<"d2">> <=> k = i + 2 /\ Sym(src, i + 1) = "d2"
      /\ name = <<>> <=> k = i + 1
  <2>. DEFINE m == i + 1
  <2>1. m + 1 = i + 2 /\ k \in m .. End /\ m \in 1 .. End
    BY <1>2, <1>3
  <2>2. name = SubSeq(src, m, k - 1) /\ Sym(src, i + 1) = Sym(src, m) /\ i + 1 = m
    OBVIOUS
  <2>. HIDE DEF k, m, name
  <2>3. /\ SubSeq(src, m, k - 1) = <<"d2">> <=> k = m + 1 /\ Sym(src, m) = "d2"
        /\ SubSeq(src, m, k - 1) = <<>> <=> k = m
    BY <1>2, <2>1, NameText
  <2>. QED
    BY <2>1, <2>2, <2>3
<1>. HIDE DEF k, name
<1>5. NoCall(src, i, "markup") <=> ~(name = <<"d2">> /\ Sym(src, k) \in Bracket)
  <2>1. ASSUME Sym(src, i + 1) = "d2", Sym(src, i + 2) \in Bracket PROVE k = i + 2
    <3>1. i + 2 \in 1 .. Len(src)
      BY <1>2, <2>1, SymIs, NoSymbol DEF Bracket
    <3>2. Name(src, i, i + 2)
      <4>1. PICK n \in Nat : n = i + 2
        BY <1>2
      <4>2. n \in i + 1 .. Len(src) + 1
        BY <1>2, <3>1, <4>1
      <4>3. \A x \in i + 1 .. n - 1 : x = i + 1
        BY <1>2, <4>1
      <4>4. isIdentChar(Sym(src, i + 1)) /\ ~isIdentChar(Sym(src, n))
        BY <2>1, <4>1 DEF isIdentChar, Bracket
      <4>5. \A x \in i + 1 .. n - 1 : isIdentChar(Sym(src, x))
        BY <4>3, <4>4
      <4>7. Name(src, i, n)
        BY <4>2, <4>4, <4>5 DEF Name
      <4>. QED
        BY <4>1, <4>7
    <3>. QED
      BY <1>3, <3>2
  <2>. QED
    BY <1>2, <1>4, <2>1 DEF NoCall
<1>6. CASE name = <<"d2">> /\ Sym(src, k) \in Bracket
  <2>1. tryD2(i, k, FALSE) /\ UNCHANGED regions
    BY <1>1, <1>6
  <2>2. \/ \E n : skipped' = Append(skipped, n)
        \/ /\ skipped' = skipped
           /\ \E c : /\ blocks' = Append(blocks, c) /\ c.start = i /\ c.end = i'
                     /\ c.codeContext = FALSE /\ Sym(src, i' - 1) \in {"]", ")"}
    BY <1>2, <1>3, <1>6, <2>1, CallEnds
  <2>3. FALSE = (Top(regions).mode = "code")
    BY <1>2
  <2>4. ~NoCall(src, i, Top(regions).mode)
    BY <1>2, <1>5, <1>6
  <2>. QED
    BY <1>2, <2>1, <2>2, <2>3, <2>4 DEF FindsCall
<1>7. CASE ~(name = <<"d2">> /\ Sym(src, k) \in Bracket)
  <2>1. /\ UNCHANGED <<blocks, skipped>>
        /\ \/ k # i + 1 /\ Sym(src, k) = "(" /\ Room(regions) /\ i' = k + 1
              /\ regions' = Append(regions, CodeArgs)
           \/ ~(k # i + 1 /\ Sym(src, k) = "(" /\ Room(regions)) /\ i' = k
              /\ regions' = regions
    <3>1. CASE name = <<"d2">> /\ tryD2(i, k, FALSE) /\ UNCHANGED regions
      <4>1. Sym(src, k) \notin {"(", "["}
        BY <1>7, <3>1 DEF Bracket
      <4>. QED
        BY <1>2, <3>1, <4>1 DEF tryD2
    <3>2. CASE name = <<>> /\ i' = i + 1 /\ UNCHANGED <<regions, blocks, skipped>>
      BY <1>4, <3>2
    <3>3. CASE /\ name \notin {<<>>, <<"d2">>} /\ UNCHANGED <<blocks, skipped>>
               /\ IF At(k) = "(" /\ Deeper
                  THEN i' = k + 1 /\ Enter("code", ")")
                  ELSE i' = k /\ UNCHANGED regions
      BY <1>2, <1>4, <3>3 DEF Enter, CodeArgs
    <3>. QED
      BY <1>1, <3>1, <3>2, <3>3
  <2>2. regions' \in Stack /\ i' \in Nat /\ i < i'
    <3>1. Append(regions, CodeArgs) \in Stack
      BY StackIs
    <3>2. k \in Nat /\ i < k /\ k + 1 \in Nat /\ i < k + 1
      BY <1>2, <1>3
    <3>. QED
      BY <2>1, <3>1, <3>2
  <2>3. Hash(src, i, regions, i', regions')
    <3>1. k \in i + 1 .. Len(src) + 1
      BY <1>2, <1>3
    <3>. QED
      BY <1>3, <2>1, <3>1 DEF Hash
  <2>4. Quiet(src, i, regions, i', regions')
    BY <1>2, <1>5, <1>7, <2>3 DEF Quiet
  <2>. QED
    BY <1>1, <2>1, <2>2, <2>4, QuietStrides
<1>. QED
  BY <1>6, <1>7

(* Of a name in code.                                                      *)
LEMMA CodeIdentStrides ==
  ASSUME Inv, regions \in Stack, codeIdent PROVE Strides \/ FindsCall
<1>. DEFINE k == IdentEnd(i)
<1>1. /\ Looking /\ ~OpaqueAt(i) /\ At(i) # region.stop /\ InCode /\ UNCHANGED regions
      /\ isIdentChar(At(i)) /\ ~isIdentChar(At(i - 1)) /\ At(i - 1) # "."
      /\ \/ SubSeq(src, i, k - 1) = <<"d2">> /\ tryD2(i, k, TRUE)
         \/ SubSeq(src, i, k - 1) # <<"d2">> /\ i' = k /\ UNCHANGED <<blocks, skipped>>
  BY DEF codeIdent, Inside, Plain, atIdentStart
<1>2. /\ src \in Seq(Symbol) /\ i \in 1 .. Len(src) /\ i \in Nat \ {0} /\ i + 1 \in 1 .. End
      /\ End = Len(src) + 1 /\ Len(src) \in Nat /\ Top(regions).mode = "code"
      /\ isIdentChar(Sym(src, i)) /\ Sym(src, i) # Top(regions).stop /\ ~Opens(src, i)
      /\ \A n : At(n) = Sym(src, n)
  BY <1>1, TurnStands
<1>3. Name(src, i, k)
  <2>1. {j \in i .. End : ~isIdentChar(At(j))} = {j \in i + 1 .. End : ~isIdentChar(At(j))}
    <3>1. \A j \in i .. End : j = i \/ j \in i + 1 .. End
      BY <1>2
    <3>2. \A j \in i + 1 .. End : j \in i .. End
      BY <1>2
    <3>. QED
      BY <1>1, <3>1, <3>2
  <2>2. k = IdentEnd(i + 1)
    BY <2>1 DEF IdentEnd
  <2>. HIDE DEF k
  <2>. QED
    BY <1>2, <2>2, NameIs
<1>4. /\ k \in i + 1 .. End /\ ~isIdentChar(Sym(src, k))
      /\ \A n \in i .. k - 1 : isIdentChar(Sym(src, n))
  <2>. HIDE DEF k
  <2>1. /\ k \in i + 1 .. End /\ ~isIdentChar(Sym(src, k))
        /\ \A n \in i + 1 .. k - 1 : isIdentChar(Sym(src, n))
    BY <1>2, <1>3 DEF Name
  <2>2. \A n \in i .. k - 1 : n = i \/ n \in i + 1 .. k - 1
    BY <1>2, <2>1
  <2>. QED
    BY <1>2, <2>1, <2>2
<1>5. SubSeq(src, i, k - 1) = <<"d2">> <=> k = i + 1 /\ Sym(src, i) = "d2"
  <2>1. k \in i .. End /\ i \in 1 .. End
    BY <1>2, <1>4
  <2>. HIDE DEF k
  <2>. QED
    BY <1>2, <2>1, NameText
<1>. HIDE DEF k
<1>6. CASE k = i + 1 /\ Sym(src, i) = "d2" /\ Sym(src, k) \in Bracket
  <2>1. tryD2(i, k, TRUE)
    BY <1>1, <1>5, <1>6
  <2>2. \/ \E n : skipped' = Append(skipped, n)
        \/ /\ skipped' = skipped
           /\ \E c : /\ blocks' = Append(blocks, c) /\ c.start = i /\ c.end = i'
                     /\ c.codeContext = TRUE /\ Sym(src, i' - 1) \in {"]", ")"}
    BY <1>2, <1>4, <1>6, <2>1, CallEnds
  <2>3. TRUE = (Top(regions).mode = "code")
    BY <1>2
  <2>4. ~NoCall(src, i, Top(regions).mode)
    BY <1>1, <1>2, <1>6 DEF NoCall
  <2>. QED
    BY <1>1, <1>2, <2>2, <2>3, <2>4 DEF FindsCall
<1>7. CASE ~(k = i + 1 /\ Sym(src, i) = "d2" /\ Sym(src, k) \in Bracket)
  <2>1. UNCHANGED <<blocks, skipped>> /\ i' = k /\ regions' = regions
    <3>1. CASE SubSeq(src, i, k - 1) = <<"d2">> /\ tryD2(i, k, TRUE)
      <4>1. Sym(src, k) \notin {"(", "["}
        BY <1>5, <1>7, <3>1 DEF Bracket
      <4>. QED
        BY <1>1, <1>2, <3>1, <4>1 DEF tryD2
    <3>. QED
      BY <1>1, <3>1
  <2>2. ASSUME NEW n \in i .. k - 1 PROVE Quiet(src, n, regions, n + 1, regions)
    <3>1. isIdentChar(Sym(src, n)) /\ n \in Nat \ {0} /\ n + 1 \in i + 1 .. k
      BY <1>2, <1>4
    <3>2. Sym(src, n) \in Symbol /\ Sym(src, n) \notin {"/", "quote", "tick", "#", "[", "(", ")", "]"}
      BY <3>1 DEF isIdentChar, Symbol
    <3>3. ~(/\ Sym(src, n) = "d2" /\ Sym(src, n + 1) \in Bracket
            /\ ~isIdentChar(Sym(src, n - 1)) /\ Sym(src, n - 1) # ".")
      <4>1. CASE n = i
        <5>1. ASSUME Sym(src, n + 1) \in Bracket PROVE k = i + 1
          <6>1. ~isIdentChar(Sym(src, i + 1))
            BY <4>1, <5>1 DEF Bracket, isIdentChar
          <6>2. i + 1 \notin i .. k - 1
            BY <1>4, <6>1
          <6>. QED
            BY <1>2, <1>4, <6>2
        <5>. QED
          BY <1>7, <4>1, <5>1
      <4>2. CASE n # i
        <5>1. n - 1 \in i .. k - 1
          BY <1>2, <1>4, <4>2
        <5>. QED
          BY <1>4, <5>1
      <4>. QED
        BY <4>1, <4>2
    <3>4. NoCall(src, n, Top(regions).mode)
      BY <3>2, <3>3 DEF NoCall
    <3>. QED
      BY <1>2, <3>1, <3>2, <3>4, QuietOne
  <2>3. k \in Nat /\ i <= k
    BY <1>2, <1>4
  <2>4. \A b : Leads(src, b, {}, i, regions, k, regions)
    BY <1>2, <2>2, <2>3, LeadsRun
  <2>. QED
    BY <2>1, <2>4 DEF Strides
<1>. QED
  BY <1>6, <1>7

(* Of #d2 in code.                                                         *)
LEMMA CodeHashStrides ==
  ASSUME Inv, regions \in Stack, codeHash PROVE Strides \/ FindsCall
<1>1. /\ Looking /\ ~OpaqueAt(i) /\ At(i) # region.stop /\ InCode /\ UNCHANGED regions
      /\ PeekAt(i, <<"#", "d2">>) /\ ~isIdentChar(At(i + 2)) /\ tryD2(i, i + 2, TRUE)
  BY DEF codeHash, Inside, Plain, HashedD2
<1>2. /\ src \in Seq(Symbol) /\ i \in 1 .. Len(src) /\ i \in Nat \ {0} /\ i + 1 \in 1 .. End
      /\ End = Len(src) + 1 /\ Len(src) \in Nat /\ Top(regions).mode = "code"
      /\ Sym(src, i) # Top(regions).stop /\ ~Opens(src, i)
      /\ \A n : At(n) = Sym(src, n)
  BY <1>1, TurnStands
<1>3. Sym(src, i) = "#" /\ Sym(src, i + 1) = "d2"
  <2>1. DOMAIN <<"#", "d2">> = {1, 2} /\ <<"#", "d2">>[1] = "#" /\ <<"#", "d2">>[2] = "d2"
    OBVIOUS
  <2>2. i + 1 - 1 = i /\ i + 2 - 1 = i + 1
    BY <1>2
  <2>. QED
    BY <1>1, <1>2, <2>1, <2>2 DEF PeekAt
<1>4. i + 1 \in 1 .. Len(src) /\ i + 2 \in i + 1 .. End
  <2>1. i + 1 \in 1 .. Len(src)
    BY <1>2, <1>3, SymIs, NoSymbol
  <2>. QED
    BY <1>2, <2>1
<1>5. CASE Sym(src, i + 2) \in Bracket
  <2>1. \/ \E n : skipped' = Append(skipped, n)
        \/ /\ skipped' = skipped
           /\ \E c : /\ blocks' = Append(blocks, c) /\ c.start = i /\ c.end = i'
                     /\ c.codeContext = TRUE /\ Sym(src, i' - 1) \in {"]", ")"}
    BY <1>1, <1>2, <1>4, <1>5, CallEnds
  <2>2. TRUE = (Top(regions).mode = "code")
    BY <1>2
  <2>3. ~NoCall(src, i, Top(regions).mode)
    BY <1>3, <1>5 DEF NoCall
  <2>. QED
    BY <1>1, <1>2, <2>1, <2>2, <2>3 DEF FindsCall
<1>6. CASE Sym(src, i + 2) \notin Bracket
  <2>1. UNCHANGED <<blocks, skipped>> /\ i' = i + 2
    BY <1>1, <1>2, <1>6 DEF tryD2, Bracket
  <2>2. Quiet(src, i, regions, i + 1, regions)
    <3>1. NoCall(src, i, Top(regions).mode)
      BY <1>3, <1>6 DEF NoCall
    <3>2. Delimiter(src, i, regions, i + 1, regions)
      BY <1>3 DEF Delimiter
    <3>. QED
      BY <1>2, <3>1, <3>2 DEF Quiet
  <2>3. Quiet(src, i + 1, regions, i + 2, regions)
    <3>. DEFINE n == i + 1
    <3>1. n \in Nat \ {0} /\ n + 1 = i + 2 /\ Sym(src, n) = "d2"
      BY <1>2, <1>3
    <3>. HIDE DEF n
    <3>2. Sym(src, n) \in Symbol /\ Sym(src, n) \notin {"/", "quote", "tick", "#", "[", "(", ")", "]"}
      BY <3>1 DEF Symbol
    <3>3. NoCall(src, n, Top(regions).mode)
      BY <1>6, <3>1 DEF NoCall
    <3>4. Quiet(src, n, regions, n + 1, regions)
      BY <1>2, <3>1, <3>2, <3>3, QuietOne
    <3>. QED
      BY <3>1, <3>4 DEF n
  <2>4. \A n \in i .. i + 2 - 1 : Quiet(src, n, regions, n + 1, regions)
    <3>1. \A n \in i .. i + 2 - 1 : n = i \/ n = i + 1
      BY <1>2
    <3>2. i + 1 + 1 = i + 2
      BY <1>2
    <3>. QED
      BY <2>2, <2>3, <3>1, <3>2
  <2>5. i + 2 \in Nat /\ i <= i + 2
    BY <1>2
  <2>6. \A b : Leads(src, b, {}, i, regions, i + 2, regions)
    BY <1>2, <2>4, <2>5, LeadsRun
  <2>. QED
    BY <1>1, <2>1, <2>6 DEF Strides
<1>. QED
  BY <1>5, <1>6

(* Of a bracket that opens a region.                                       *)
LEMMA OpenRegionStrides == ASSUME Inv, regions \in Stack, OpenRegion PROVE Strides
<1>1. /\ Looking /\ ~OpaqueAt(i) /\ At(i) # region.stop /\ i' = i + 1
      /\ UNCHANGED <<blocks, skipped>>
      /\ \/ At(i) = "[" /\ Deeper /\ regions' = Append(regions, InMarkup)
         \/ InCode /\ At(i) = "(" /\ Deeper /\ regions' = Append(regions, CodeArgs)
  BY DEF OpenRegion, Inside, Plain, OpensMarkup, OpensCode, Enter, InMarkup, CodeArgs
<1>2. /\ i \in 1 .. Len(src) /\ i \in Nat \ {0} /\ Sym(src, i) # Top(regions).stop
      /\ ~Opens(src, i) /\ Sym(src, i) \in {"[", "("}
      /\ \/ Sym(src, i) = "[" /\ Room(regions) /\ regions' = Append(regions, InMarkup)
         \/ /\ Top(regions).mode = "code" /\ Sym(src, i) = "(" /\ Room(regions)
            /\ regions' = Append(regions, CodeArgs)
  BY <1>1, TurnStands
<1>3. regions' \in Stack
  BY <1>2, StackIs
<1>4. Quiet(src, i, regions, i', regions')
  <2>1. NoCall(src, i, Top(regions).mode)
    BY <1>2 DEF NoCall
  <2>2. Delimiter(src, i, regions, i', regions')
    BY <1>1, <1>2 DEF Delimiter
  <2>. QED
    BY <1>2, <2>1, <2>2 DEF Quiet
<1>5. i' \in Nat /\ i < i'
  BY <1>1, <1>2
<1>. QED
  BY <1>1, <1>3, <1>4, <1>5, QuietStrides

(* Of any other symbol.                                                    *)
LEMMA AdvanceStrides == ASSUME Inv, regions \in Stack, Advance PROVE Strides
<1>1. /\ Looking /\ ~OpaqueAt(i) /\ At(i) # region.stop /\ i' = i + 1
      /\ UNCHANGED <<regions, blocks, skipped>>
      /\ ~(~InCode /\ At(i) = "#") /\ ~(At(i) = "[" /\ Deeper)
      /\ ~(InCode /\ At(i) = "(" /\ Deeper)
      /\ ~(InCode /\ isIdentChar(At(i)) /\ ~isIdentChar(At(i - 1)) /\ At(i - 1) # ".")
      /\ ~(InCode /\ PeekAt(i, <<"#", "d2">>) /\ ~isIdentChar(At(i + 2)))
  BY DEF Advance, Inside, Plain, OpensMarkup, OpensCode, atIdentStart, HashedD2
<1>2. /\ i \in 1 .. Len(src) /\ i \in Nat \ {0} /\ Sym(src, i) # Top(regions).stop
      /\ ~Opens(src, i) /\ (Deeper <=> Room(regions)) /\ (InCode <=> Top(regions).mode = "code")
      /\ Top(regions).mode \in {"markup", "code"}
      /\ \A n : At(n) = Sym(src, n)
  BY <1>1, TurnStands
<1>3. Sym(src, i) = "#" /\ Sym(src, i + 1) = "d2" => PeekAt(i, <<"#", "d2">>)
  <2>1. DOMAIN <<"#", "d2">> = {1, 2} /\ <<"#", "d2">>[1] = "#" /\ <<"#", "d2">>[2] = "d2"
    OBVIOUS
  <2>2. i + 1 - 1 = i /\ i + 2 - 1 = i + 1
    BY <1>2
  <2>. QED
    BY <1>2, <2>1, <2>2 DEF PeekAt
<1>4. NoCall(src, i, Top(regions).mode)
  <2>1. \A c \in Bracket : ~isIdentChar(c)
    BY DEF Bracket, isIdentChar
  <2>2. isIdentChar("d2")
    BY DEF isIdentChar
  <2>. QED
    BY <1>1, <1>2, <1>3, <2>1, <2>2 DEF NoCall
<1>5. Delimiter(src, i, regions, i', regions')
  BY <1>1, <1>2 DEF Delimiter
<1>6. Quiet(src, i, regions, i', regions')
  BY <1>1, <1>2, <1>4, <1>5 DEF Quiet
<1>7. i' \in Nat /\ i < i'
  BY <1>1, <1>2
<1>. QED
  BY <1>1, <1>6, <1>7, QuietStrides

-----------------------------------------------------------------------------
(* What Preprocess leaves is a trail to the end of its text that no call   *)
(* is on, and a second scan goes along it.                                 *)

(* A trail leads through the text, and it reads the calls in N.            *)
Walked(s, b, N) == \E z, q : Leads(s, b, N, 1, <<Markup>>, z, q) /\ Len(s) < z
(* The first scan goes along a trail that reads every call it found; each  *)
(* replacement takes one off it; and the scan of the output is on its way  *)
(* along the trail that is left.                                           *)
Apart == \A m \in 1 .. Len(blocks) : \A n \in 1 .. m - 1 : blocks[n].end <= blocks[m].start
Walk ==
  /\ regions \in Stack
  /\ Apart
  /\ phase = "scan" /\ former = <<>> /\ skipped = <<>> =>
       Leads(src, blocks, 1 .. Len(blocks), 1, <<Markup>>, i, regions)
  /\ phase \in {"render", "replace", "import"} /\ former = <<>> /\ Modest(blocks) =>
       Walked(content, blocks, 1 .. Len(blocks) - placed)
  /\ phase = "done" /\ former = <<>> /\ blocks # <<>> /\ Modest(blocks) =>
       Walked(content, blocks, {})
  /\ former # <<>> /\ Modest(former) =>
       /\ blocks = <<>> /\ skipped = <<>>
       /\ phase = "scan" => \E z, q : Leads(src, <<>>, {}, i, regions, z, q) /\ Len(src) < z

(* The hypothesis: no call stands where the scanner cannot descend three   *)
(* levels more (maxScanDepth), so that the parentheses of pad, image and   *)
(* decode64 in its image are each read as a region of their own.           *)
CallsFit == former = <<>> /\ phase = "scan" /\ blocks' # blocks => Ample(regions)

(* Where every scan starts.                                                *)
LEMMA Bottom == <<Markup>> \in Stack
<1>1. <<Markup>> \in Seq({Markup, InMarkup, CodeArgs}) /\ <<Markup>> # <<>>
  OBVIOUS
<1>. QED
  BY <1>1 DEF Stack

(* The first scan starts on a trail.                                       *)
LEMMA InitWalks == Init => Walk
<1>. SUFFICES ASSUME Init PROVE Walk
  OBVIOUS
<1>1. /\ i = 1 /\ regions = <<Markup>> /\ blocks = <<>> /\ phase = "scan" /\ former = <<>>
  BY DEF Init, Begin
<1>2. 1 .. Len(blocks) = {}
  BY <1>1
<1>3. Leads(src, blocks, {}, 1, <<Markup>>, 1, <<Markup>>)
  BY Bottom, LeadsNowhere
<1>4. Apart
  BY <1>2 DEF Apart
<1>. QED
  BY <1>1, <1>2, <1>3, <1>4, Bottom DEF Walk

(* A turn that finds a call is on no trail without one.                    *)
LEMMA NoneFound ==
  ASSUME Inv, Looking, regions \in Stack, FindsCall,
         NEW z, NEW q, Leads(src, <<>>, {}, i, regions, z, q), Len(src) < z
  PROVE  FALSE
<1>1. /\ src \in Seq(Symbol) /\ i \in 1 .. Len(src) /\ i \in Nat /\ Len(src) \in Nat /\ z \in Nat
  BY TurnStands, LeadsIn
<1>. DEFINE y == i + 1
<1>2. y \in Nat /\ i < y /\ y <= z
  BY <1>1
<1>3. PICK k \in Nat \ {0}, j \in Nat, p \in Stack, o \in Stack :
        Leads(src, <<>>, {}, i, regions, k, p) /\ Quiet(src, k, p, j, o) /\ k < y
  <2>. HIDE DEF y
  <2>. QED
    BY <1>2, LeadsAcross
<1>4. k = i
  <2>1. i <= k
    BY <1>3, LeadsIn
  <2>. QED
    BY <1>1, <1>3, <2>1
<1>5. p = regions
  <2>1. PICK D, at : at[i] = regions /\ at[k] = p
    BY <1>3 DEF Leads
  <2>. QED
    BY <1>4, <2>1
<1>6. ~Opaque(src, i, j)
  <2>1. ~Opens(src, i)
    BY DEF FindsCall
  <2>. QED
    BY <1>1, <2>1, OpaqueIs
<1>. QED
  BY <1>3, <1>4, <1>5, <1>6 DEF Quiet, FindsCall

(* A turn that reads no call goes on along the trail, in the first scan and*)
(* in the second.                                                          *)
LEMMA StrideWalks == ASSUME Inv, Walk, Turn, Strides PROVE Walk'
<1>1. /\ phase = "scan" /\ UNCHANGED <<src, phase, former, blocks, skipped>>
      /\ src \in Seq(Symbol)
  BY TurnBegins DEF Turn, Looking, Scanned, Strides
<1>2. \A b : Leads(src, b, {}, i, regions, i', regions')
  BY DEF Strides
<1>3. regions' \in Stack
  BY <1>2, LeadsIn
<1>4. Apart'
  BY <1>1 DEF Walk, Apart
<1>5. ASSUME former = <<>>, skipped = <<>>
      PROVE  Leads(src, blocks, 1 .. Len(blocks), 1, <<Markup>>, i', regions')
  <2>. DEFINE N == 1 .. Len(blocks)
  <2>1. Leads(src, blocks, N, 1, <<Markup>>, i, regions)
    BY <1>1, <1>5 DEF Walk
  <2>. HIDE DEF N
  <2>2. Leads(src, blocks, N \cup {}, 1, <<Markup>>, i', regions')
    BY <1>2, <2>1, LeadsOn
  <2>3. N \cup {} = N
    OBVIOUS
  <2>. QED
    BY <2>2, <2>3 DEF N
<1>6. ASSUME former # <<>>, Modest(former)
      PROVE  \E z, q : Leads(src, <<>>, {}, i', regions', z, q) /\ Len(src) < z
  <2>1. PICK z, q : Leads(src, <<>>, {}, i, regions, z, q) /\ Len(src) < z
    BY <1>1, <1>6 DEF Walk
  <2>2. Leads(src, <<>>, {}, i', regions', z, q)
    BY <1>1, <1>2, <2>1, LeadsThrough
  <2>. QED
    BY <2>1, <2>2
<1>. QED
  BY <1>1, <1>3, <1>4, <1>5, <1>6 DEF Walk

(* A call that is found prolongs the trail, and one that is given up ends  *)
(* the matter: the document is refused.                                    *)
LEMMA CallWalks == ASSUME Inv, Walk, Turn, CallsFit, FindsCall PROVE Walk'
<1>1. /\ phase = "scan" /\ Looking /\ UNCHANGED <<src, phase, former, regions>>
      /\ src \in Seq(Symbol) /\ regions \in Stack
  BY TurnBegins DEF Turn, Looking, Scanned, FindsCall, Walk
<1>2. ~(former # <<>> /\ Modest(former))
  <2>1. ASSUME former # <<>>, Modest(former) PROVE FALSE
    <3>1. PICK z, q : Leads(src, <<>>, {}, i, regions, z, q) /\ Len(src) < z
      BY <1>1, <2>1 DEF Walk
    <3>. QED
      BY <1>1, <3>1, NoneFound
  <2>. QED
    BY <2>1
<1>3. CASE \E n : skipped' = Append(skipped, n) /\ blocks' = blocks
  <2>1. skipped' # <<>>
    <3>1. skipped \in Seq(DOMAIN src)
      BY DEF Inv, Typed, TypeOK
    <3>. QED
      BY <1>3, <3>1
  <2>2. Apart'
    BY <1>3 DEF Walk, Apart
  <2>. QED
    BY <1>1, <1>2, <2>1, <2>2 DEF Walk
<1>4. CASE /\ skipped' = skipped
           /\ \E c : /\ blocks' = Append(blocks, c) /\ c.start = i /\ c.end = i'
                     /\ c.codeContext = (Top(regions).mode = "code")
                     /\ Sym(src, i' - 1) \in {"]", ")"}
  <2>1. PICK c : /\ blocks' = Append(blocks, c) /\ c.start = i /\ c.end = i'
                 /\ c.codeContext = (Top(regions).mode = "code")
                 /\ Sym(src, i' - 1) \in {"]", ")"}
    BY <1>4
  <2>. DEFINE L == Len(blocks)
  <2>2. /\ blocks \in Seq(Call) /\ L \in Nat /\ Len(blocks') = L + 1 /\ blocks'[L + 1] = c
        /\ \A n \in 1 .. L : blocks'[n] = blocks[n]
    <3>1. blocks \in Seq(Call)
      BY DEF Inv, Typed, TypeOK
    <3>. QED
      BY <2>1, <3>1
  <2>3. i \in Nat \ {0} /\ i' \in Nat /\ i < i' /\ End \in Nat
    <3>1. i \in Nat \ {0} /\ End = Len(src) + 1 /\ Len(src) \in Nat
      BY <1>1, TurnStands
    <3>2. i' \in i + 1 .. End + 1
      BY DEF Turn
    <3>. QED
      BY <3>1, <3>2
  <2>4. blocks' # blocks
    BY <2>2
  <2>. HIDE DEF L
  <2>7. ASSUME former = <<>>, skipped = <<>>
        PROVE  Leads(src, blocks', 1 .. Len(blocks'), 1, <<Markup>>, i', regions)
    <3>1. Leads(src, blocks, 1 .. L, 1, <<Markup>>, i, regions)
      BY <1>1, <2>7 DEF Walk, L
    <3>2. Leads(src, blocks', 1 .. L, 1, <<Markup>>, i, regions)
      BY <2>2, <3>1, LeadsSame
    <3>3. CallRead(src, c, i, regions, i', regions)
      <4>1. Ample(regions)
        BY <1>1, <2>4, <2>7 DEF CallsFit
      <4>2. Top(regions).mode \in {"markup", "code"}
        BY <1>1, TurnStands
      <4>3. /\ Top(regions).mode = "markup" => Sym(src, i) = "#"
            /\ Sym(src, i) \in {"#", "d2"}
        BY <4>2 DEF FindsCall, NoCall
      <4>. QED
        BY <2>1, <4>1, <4>2, <4>3 DEF CallRead
    <3>4. Leads(src, blocks', {L + 1}, i, regions, i', regions)
      <4>1. CallRead(src, blocks'[L + 1], i, regions, i', regions)
        BY <2>2, <3>3
      <4>. QED
        BY <1>1, <2>3, <4>1, LeadsOne
    <3>5. Leads(src, blocks', (1 .. L) \cup {L + 1}, 1, <<Markup>>, i', regions)
      BY <3>2, <3>4, LeadsOn
    <3>6. (1 .. L) \cup {L + 1} = 1 .. Len(blocks')
      BY <2>2
    <3>. QED
      BY <3>5, <3>6
  <2>8. Apart'
    <3>. SUFFICES ASSUME NEW m \in 1 .. Len(blocks'), NEW n \in 1 .. m - 1
                  PROVE  blocks'[n].end <= blocks'[m].start
      BY DEF Apart
    <3>1. n \in 1 .. L /\ (m = L + 1 \/ (m \in 1 .. L /\ blocks'[m] = blocks[m]))
          /\ blocks'[n] = blocks[n]
      BY <2>2
    <3>2. CASE m = L + 1
      <4>1. blocks[n].end <= i
        BY <3>1 DEF Inv, CallsOrdered, L
      <4>. QED
        BY <2>1, <2>2, <3>1, <3>2, <4>1
    <3>3. CASE m \in 1 .. L /\ blocks'[m] = blocks[m]
      BY <3>1, <3>3 DEF Walk, Apart, L
    <3>. QED
      BY <3>1, <3>2, <3>3
  <2>. QED
    BY <1>1, <1>2, <1>4, <2>7, <2>8 DEF Walk
<1>5. (\E n : skipped' = Append(skipped, n)) => blocks' = blocks
  <2>. SUFFICES ASSUME NEW n, skipped' = Append(skipped, n) PROVE blocks' = blocks
    OBVIOUS
  <2>1. skipped \in Seq(DOMAIN src)
    BY DEF Inv, Typed, TypeOK
  <2>2. skipped' # skipped
    BY <2>1
  <2>. QED
    BY <2>2 DEF Turn, Site
<1>. QED
  BY <1>3, <1>4, <1>5 DEF FindsCall

(* At the end of the source the first scan has gone through it.            *)
LEMMA ScanEndWalks == ASSUME Inv, Walk, scanD2Calls PROVE Walk'
<1>1. /\ phase = "scan" /\ i >= End
      /\ phase' = IF skipped # <<>> THEN "refused" ELSE IF blocks = <<>> THEN "done" ELSE "render"
      /\ UNCHANGED <<src, i, regions, blocks, skipped, placed, content, former>>
  BY DEF scanD2Calls, AnySkipped, scanning
<1>2. content = src /\ placed = 0 /\ src \in Seq(Symbol) /\ blocks \in Seq(Call) /\ i \in Nat
  <2>1. i \in 1 .. End + 1 /\ src \in Seq(Symbol) /\ blocks \in Seq(Call)
    BY DEF Inv, Typed, TypeOK
  <2>2. End \in Nat
    BY <2>1, Symbols
  <2>. QED
    BY <1>1, <2>1, <2>2 DEF Inv, Phases
<1>3. Apart'
  BY <1>1 DEF Walk, Apart
<1>4. ASSUME phase' = "render", former = <<>>
      PROVE  Walked(content, blocks, 1 .. Len(blocks) - placed)
  <2>1. skipped = <<>> /\ blocks # <<>>
    BY <1>1, <1>4
  <2>2. former = <<>>
    BY <1>4
  <2>3. Leads(src, blocks, 1 .. Len(blocks), 1, <<Markup>>, i, regions)
    BY <1>1, <2>1, <2>2 DEF Walk
  <2>4. Len(src) < i
    <3>1. End = Len(src) + 1 /\ Len(src) \in Nat
      BY <1>2, Symbols
    <3>. QED
      BY <1>1, <1>2, <3>1
  <2>5. Len(blocks) - placed = Len(blocks)
    BY <1>2
  <2>. QED
    BY <1>2, <2>3, <2>4, <2>5 DEF Walked
<1>. QED
  BY <1>1, <1>3, <1>4 DEF Walk

(* Rendering touches no text.                                              *)
LEMMA RenderWalks == ASSUME Inv, Walk, Render PROVE Walk'
<1>1. /\ phase = "render" /\ phase' \in {"failed", "replace", "render"}
      /\ UNCHANGED <<src, i, regions, blocks, skipped, placed, content, former>>
  BY DEF Render, scanning
<1>2. Apart'
  BY <1>1 DEF Walk, Apart
<1>. QED
  BY <1>1, <1>2 DEF Walk

(* Where a call stands in the content once those after it are replaced.    *)
LEMMA StandsIn ==
  ASSUME NEW s \in Seq(Symbol), NEW b \in Seq(Call), Ordered(s, b), NEW n \in 1 .. Len(b),
         NEW c, c = Replaced(s, b, n + 1)
  PROVE  b[n].start \in 1 .. Len(c) /\ b[n].end \in b[n].start + 1 .. Len(c) + 1
<1>1. /\ b[n].start \in 1 .. Len(s) /\ b[n].end \in b[n].start + 1 .. Len(s) + 1
      /\ EndBefore(b, n + 1) = b[n].end
  BY CallPlaces
<1>. DEFINE e    == b[n].end
            head == SubSeq(s, 1, e - 1)
            tail == SplicedFrom(s, b)[n + 1]
<1>2. c = head \o tail
  BY <1>1 DEF Replaced
<1>3. Len(s) \in Nat /\ Len(b) \in Nat
  OBVIOUS
<1>4. e - 1 \in Nat /\ 1 <= e - 1 /\ e - 1 <= Len(s) /\ e - 1 - 1 + 1 = e - 1 /\ e \in Nat
  BY <1>1, <1>3
<1>5. tail \in Seq(Symbol)
  <2>1. n + 1 \in 1 .. Len(b) + 1
    BY <1>3
  <2>. QED
    BY <2>1, Splices
<1>6. head \in Seq(Symbol) /\ Len(head) = e - 1
  <2>1. 1 \in Nat \ {0} /\ e - 1 \in Int
    BY <1>4
  <2>. HIDE DEF e
  <2>. QED
    BY <1>4, <2>1, PartType
<1>. HIDE DEF head, tail
<1>7. Len(c) = Len(head) + Len(tail) /\ Len(tail) \in Nat
  BY <1>2, <1>5, <1>6, ConcatProperties, LenProperties
<1>8. PICK f \in Nat : f = b[n].start /\ 1 <= f /\ f < e
  BY <1>1, <1>3
<1>. HIDE DEF e
<1>9. PICK l \in Nat : l = Len(c) /\ e - 1 <= l
  <2>1. PICK u \in Nat : u = Len(tail)
    BY <1>7
  <2>2. PICK h \in Nat : h = e - 1
    BY <1>4
  <2>3. Len(c) = h + u /\ h + u \in Nat /\ h <= h + u
    BY <1>6, <1>7, <2>1, <2>2
  <2>. QED
    BY <2>2, <2>3
<1>10. f \in 1 .. l /\ e \in f + 1 .. l + 1
  BY <1>4, <1>8, <1>9
<1>. QED
  BY <1>8, <1>9, <1>10 DEF e

(* A replacement takes the last call off the trail.                        *)
LEMMA ReplaceWalks == ASSUME Inv, Walk, Replace PROVE Walk'
<1>. DEFINE L == Len(blocks)
            m == L - placed
<1>1. /\ phase = "replace" /\ phase' \in {"import", "replace"} /\ placed' = placed + 1
      /\ content' = SubSeq(content, 1, blocks[m].start - 1) \o rendered[m]
                      \o SubSeq(content, blocks[m].end, Len(content))
      /\ UNCHANGED <<src, i, regions, blocks, skipped, former>>
  BY DEF Replace, Backward, scanning
<1>2. /\ src \in Seq(Symbol) /\ content \in Seq(Symbol) /\ blocks \in Seq(Call)
      /\ Ordered(src, blocks) /\ Len(rendered) = L /\ placed \in Nat /\ placed < L /\ L \in Nat
      /\ content = Replaced(src, blocks, L - placed + 1)
      /\ \A n \in 1 .. Len(rendered) : rendered[n] = svgToTypstImage(blocks[n])
  BY <1>1 DEF Inv, Typed, TypeOK, CallsOrdered, Phases, Drawn
<1>3. m \in 1 .. L /\ m \in Nat \ {0} /\ m - 1 = L - (placed + 1)
  BY <1>2
<1>. SUFFICES ASSUME former = <<>>, Modest(blocks) PROVE Walked(content', blocks, 1 .. m - 1)
  <2>1. Apart'
    BY <1>1 DEF Walk, Apart
  <2>2. m - 1 = Len(blocks) - placed'
    BY <1>1, <1>3
  <2>. HIDE DEF m
  <2>. QED
    BY <1>1, <2>1, <2>2 DEF Walk
<1>4. Walked(content, blocks, 1 .. m) /\ blocks[m] \in Call /\ Tame(blocks[m])
  <2>1. m \in DOMAIN blocks
    BY <1>2, <1>3
  <2>. QED
    <3>1. Tame(blocks[m])
      BY <2>1 DEF Modest, Tame
    <3>2. blocks[m] \in Call
      BY <1>2, <1>3, ElementOfSeq
    <3>3. Walked(content, blocks, 1 .. m)
      <4>. HIDE DEF m
      <4>1. Len(blocks) - placed = m
        BY DEF m
      <4>. QED
        BY <1>1, <4>1 DEF Walk
    <3>. QED
      BY <3>1, <3>2, <3>3
<1>. HIDE DEF m, L
<1>5. PICK z, q : Leads(content, blocks, 1 .. m, 1, <<Markup>>, z, q) /\ Len(content) < z
  BY <1>4 DEF Walked
<1>6. blocks[m].start \in 1 .. Len(content) /\ blocks[m].end \in blocks[m].start + 1 .. Len(content) + 1
  BY <1>2, <1>3, StandsIn DEF m, L
<1>7. ASSUME NEW n \in 1 .. m - 1
      PROVE  /\ blocks[n].start \in Nat /\ blocks[n].end \in Nat
             /\ blocks[n].start < blocks[n].end /\ blocks[n].end <= blocks[m].start
  <2>1. n \in 1 .. L
    BY <1>2, <1>3
  <2>2. blocks[n].start \in 1 .. Len(src) /\ blocks[n].end \in blocks[n].start + 1 .. Len(src) + 1
    BY <1>2, <2>1, CallPlaces DEF L
  <2>3. blocks[n].end <= blocks[m].start
    BY <1>3 DEF Walk, Apart, L
  <2>4. Len(src) \in Nat
    BY <1>2
  <2>. QED
    BY <2>2, <2>3, <2>4
<1>8. content' = Patched(content, blocks[m].start, svgToTypstImage(blocks[m]), blocks[m].end)
  BY <1>1, <1>2, <1>3 DEF Patched
<1>9. \E y : Leads(content', blocks, 1 .. m - 1, 1, <<Markup>>, y, q) /\ Len(content') < y
  <2>. DEFINE r == <<Markup>>
              t == content'
  <2>1. Leads(content, blocks, 1 .. m, 1, r, z, q)
    BY <1>5
  <2>2. t = Patched(content, blocks[m].start, svgToTypstImage(blocks[m]), blocks[m].end)
    BY <1>8
  <2>. HIDE DEF r, t
  <2>3. content \in Seq(Symbol) /\ m \in Nat \ {0} /\ Len(content) < z
    BY <1>2, <1>3, <1>5
  <2>4. \E y : Leads(t, blocks, 1 .. m - 1, 1, r, y, q) /\ Len(t) < y
    BY <1>4, <1>6, <1>7, <2>1, <2>2, <2>3, CallReplaced, SMTT(60)
  <2>. QED
    BY <2>4 DEF r, t
<1>. QED
  BY <1>9 DEF Walked

(* A line of imports ends after a newline, where there is one.             *)
LEMMA ImportEndsLine ==
  ASSUME NEW c \in Seq(Symbol), NEW e \in ImportEnds(c), e <= Len(c)
  PROVE  Sym(c, e) = "nl"
<1>1. PICK n \in 1 .. Len(c) - 1 : e = Least({m \in n .. Len(c) + 1 : m > Len(c) \/ c[m] = "nl"})
  BY DEF ImportEnds
<1>. DEFINE T == {m \in n .. Len(c) + 1 : m > Len(c) \/ c[m] = "nl"}
<1>2. T \in SUBSET Nat /\ T # {} /\ Len(c) \in Nat
  <2>1. Len(c) \in Nat
    OBVIOUS
  <2>2. Len(c) + 1 \in T
    BY <2>1
  <2>. QED
    BY <2>1, <2>2
<1>3. e \in T
  <2>. HIDE DEF T
  <2>1. e = Least(T)
    BY <1>1 DEF T
  <2>. QED
    BY <1>2, <2>1, LeastNat
<1>4. c[e] = "nl" /\ e \in 1 .. Len(c)
  BY <1>2, <1>3
<1>. QED
  BY <1>4, SymIs

(* Nothing before the text and the whole of it.                            *)
LEMMA WholeText ==
  ASSUME NEW c \in Seq(Symbol), NEW w \in Seq(Symbol)
  PROVE  w \o c = Patched(c, 1, w, 1)
<1>1. SubSeq(c, 1, Len(c)) = c /\ 1 - 1 = 0
  OBVIOUS
<1>2. SubSeq(c, 1, 0) = <<>>
  OBVIOUS
<1>3. <<>> \o w = w
  OBVIOUS
<1>. QED
  BY <1>1, <1>2, <1>3 DEF Patched

(* The import is on no call's way.                                         *)
LEMMA ImportWalks == ASSUME Inv, Walk, addBasedImport PROVE Walk'
<1>. DEFINE ends == ImportEnds(content)
            last == Greatest(ends)
<1>1. /\ phase = "import" /\ phase' \in {"done", "panic"}
      /\ phase' = "done" =>
           \/ content' = content
           \/ ends = {} /\ content' = BasedImport \o content
           \/ /\ ends # {} /\ ~(last > Len(content))
              /\ content' = SubSeq(content, 1, last) \o BasedImport
                              \o SubSeq(content, last + 1, Len(content))
      /\ UNCHANGED <<src, i, regions, blocks, skipped, placed, former>>
  BY DEF addBasedImport, scanning
<1>2. /\ content \in Seq(Symbol) /\ blocks \in Seq(Call) /\ placed = Len(blocks)
  BY <1>1 DEF Inv, Typed, TypeOK, Phases
<1>. SUFFICES ASSUME phase' = "done", former = <<>>, Modest(blocks)
              PROVE  Walked(content', blocks, {})
  <2>1. Apart'
    BY <1>1 DEF Walk, Apart
  <2>. HIDE DEF ends, last
  <2>. QED
    BY <1>1, <2>1 DEF Walk
<1>3. PICK z, q : Leads(content, blocks, {}, 1, <<Markup>>, z, q) /\ Len(content) < z
  <2>1. 1 .. Len(blocks) - placed = {}
    BY <1>2
  <2>. QED
    BY <1>1, <2>1 DEF Walk, Walked
<1>4. Walked(content', blocks, {})
  <2>1. CASE content' = content
    BY <1>3, <2>1 DEF Walked
  <2>2. CASE ends = {} /\ content' = BasedImport \o content
    <3>1. content' = Patched(content, 1, BasedImport, 1)
      BY <1>2, <2>2, ImportIs, WholeText
    <3>2. 1 \in 1 .. Len(content) + 1
      BY <1>2
    <3>. QED
      BY <1>2, <1>3, <3>1, <3>2, ImportAdded DEF Walked
  <2>3. CASE /\ ends # {} /\ ~(last > Len(content))
             /\ content' = SubSeq(content, 1, last) \o BasedImport
                             \o SubSeq(content, last + 1, Len(content))
    <3>1. ends \subseteq 1 .. Len(content) + 1 /\ Len(content) \in Nat
      BY <1>2, ImportEndsIn
    <3>. HIDE DEF ends
    <3>2. \E n \in ends : \A m \in ends : m <= n
      <4>1. Len(content) + 1 \in Nat /\ ends \in SUBSET Nat /\ \A m \in ends : m <= Len(content) + 1
        BY <3>1
      <4>. QED
        BY <2>3, <4>1, GreatestNat
    <3>3. last \in ends
      BY <3>2 DEF Greatest
    <3>. HIDE DEF last
    <3>4. last \in 1 .. Len(content) /\ last + 1 \in 1 .. Len(content) + 1 /\ last + 1 - 1 = last
      BY <2>3, <3>1, <3>3
    <3>5. Sym(content, last) = "nl"
      BY <1>2, <3>3, <3>4, ImportEndsLine DEF ends
    <3>. DEFINE a == last + 1
    <3>6. /\ a \in 1 .. Len(content) + 1 /\ Sym(content, a - 1) = "nl"
          /\ a - 1 = last /\ last + 1 = a
      BY <3>4, <3>5
    <3>. HIDE DEF a
    <3>7. content' = Patched(content, a, BasedImport, a)
      BY <2>3, <3>6 DEF Patched
    <3>. QED
      BY <1>2, <1>3, <3>6, <3>7, ImportAdded DEF Walked
  <2>. QED
    BY <1>1, <2>1, <2>2, <2>3
<1>. QED
  BY <1>4

(* The second scan begins where the trail of the output does.              *)
LEMMA PreprocessWalks == ASSUME Inv, Walk, Preprocess PROVE Walk'
<1>1. /\ phase = "done" /\ former = <<>> /\ blocks # <<>> /\ src' = content /\ former' = blocks
      /\ i' = 1 /\ regions' = <<Markup>> /\ blocks' = <<>> /\ skipped' = <<>> /\ phase' = "scan"
  BY DEF Preprocess
<1>2. ASSUME Modest(blocks)
      PROVE  \E z, q : Leads(content, <<>>, {}, 1, <<Markup>>, z, q) /\ Len(content) < z
  <2>1. PICK z, q : Leads(content, blocks, {}, 1, <<Markup>>, z, q) /\ Len(content) < z
    BY <1>1, <1>2 DEF Walk, Walked
  <2>2. Leads(content, <<>>, {}, 1, <<Markup>>, z, q)
    BY <2>1, LeadsSame
  <2>. QED
    BY <2>1, <2>2
<1>3. Modest(former') <=> Modest(blocks)
  BY <1>1 DEF Modest
<1>4. Apart'
  <2>1. 1 .. Len(blocks') = {}
    BY <1>1
  <2>. QED
    BY <2>1 DEF Apart
<1>. QED
  BY <1>1, <1>2, <1>3, <1>4, Bottom DEF Walk

(* Nothing changes.                                                        *)
LEMMA StutterWalks == ASSUME Inv, Walk, UNCHANGED vars PROVE Walk'
<1>1. UNCHANGED <<src, i, regions, blocks, skipped, phase, placed, content, former>>
  BY DEF vars, scanning, drawing
<1>2. Apart'
  BY <1>1 DEF Walk, Apart
<1>. QED
  BY <1>1, <1>2 DEF Walk

(* Every step keeps the trail.                                             *)
LEMMA StepWalks == ASSUME Inv, Walk, CallsFit, Next PROVE Walk'
<1>1. ASSUME ScanStep PROVE Walk'
  <2>0. regions \in Stack
    BY DEF Walk
  <2>1. CASE SkipOpaque
    BY <2>0, <2>1, SkipOpaqueTurns, SkipOpaqueStrides, StrideWalks
  <2>2. CASE CloseRegion
    BY <2>0, <2>2, CloseRegionTurns, CloseRegionStrides, StrideWalks
  <2>3. CASE markupHash
    BY <2>0, <2>3, MarkupHashTurns, MarkupHashStrides, StrideWalks, CallWalks
  <2>4. CASE codeIdent
    BY <2>0, <2>4, CodeIdentTurns, CodeIdentStrides, StrideWalks, CallWalks
  <2>5. CASE codeHash
    BY <2>0, <2>5, CodeHashTurns, CodeHashStrides, StrideWalks, CallWalks
  <2>6. CASE OpenRegion
    BY <2>0, <2>6, OpenRegionTurns, OpenRegionStrides, StrideWalks
  <2>7. CASE Advance
    BY <2>0, <2>7, AdvanceTurns, AdvanceStrides, StrideWalks
  <2>8. CASE scanD2Calls
    BY <2>8, ScanEndWalks
  <2>. QED
    BY <1>1, <2>1, <2>2, <2>3, <2>4, <2>5, <2>6, <2>7, <2>8 DEF ScanStep
<1>. QED
  BY <1>1, RenderWalks, ReplaceWalks, ImportWalks, PreprocessWalks DEF Next

(* What typst is handed holds no d2 call, reported or not, unless a call   *)
(* stands where the scanner cannot descend far enough, or an option of one *)
(* holds a string, raw text, a comment, a parenthesis or an opening bracket*)
(* (preprocessor.go, svgToTypstImage).                                     *)
THEOREM NothingIsLeft == Spec /\ [][CallsFit]_vars => []NothingLeft
<1>1. Init => Walk
  BY InitWalks
<1>2. Inv /\ Walk /\ [Next]_vars /\ [CallsFit]_vars => Walk'
  <2>. SUFFICES ASSUME Inv, Walk, [Next]_vars, [CallsFit]_vars PROVE Walk'
    OBVIOUS
  <2>1. CASE UNCHANGED vars
    BY <2>1, StutterWalks
  <2>2. CASE Next /\ CallsFit
    BY <2>2, StepWalks
  <2>. QED
    BY <2>1, <2>2
<1>3. Walk => NothingLeft
  BY DEF Walk, NothingLeft
<1>. QED
  BY <1>1, <1>2, <1>3, Invariance, PTL DEF Spec
=============================================================================
