---------------------------- MODULE SpeechProofs ---------------------------
(***************************************************************************)
(* Proofs about SpeechPath for texts, tags and replies of any length: the  *)
(* deltas, the sentences and the tool calls are those that the references  *)
(* read in the whole text at once.  The references recur over sequences of *)
(* any length, so that the module begins with induction and recursion.     *)
(***************************************************************************)
EXTENDS SpeechPath, SequenceTheorems, WellFoundedInduction, TLAPS

-----------------------------------------------------------------------------
(* Induction and recursion.  The theorems of the library take the predicate *)
(* or the definition as an operator; here both are sets.                    *)

LEMMA SetInduction ==
    ASSUME NEW S, 0 \in S, \A n \in Nat : n \in S => n + 1 \in S
    PROVE  Nat \subseteq S
  <1> SUFFICES ASSUME Nat \ S # {} PROVE FALSE
    OBVIOUS
  <1> DEFINE T == Nat \ S
  <1>1. PICK x \in T : \A y \in T : ~(<<y, x>> \in OpToRel(<, Nat))
    <2>1. T \subseteq Nat /\ T # {}
      OBVIOUS
    <2> HIDE DEF T
    <2> QED BY ONLY <2>1, WFMin, NatLessThanWellFounded
  <1>2. x - 1 \in T
    OBVIOUS
  <1>3. <<x - 1, x>> \in OpToRel(<, Nat)
    BY <1>2 DEF OpToRel
  <1> QED BY <1>1, <1>2, <1>3

LEMMA Least ==
    ASSUME NEW S, S \subseteq Nat, S # {}
    PROVE  \E x \in S : \A y \in S : x <= y
  <1>1. PICK x \in S : \A y \in S : ~(<<y, x>> \in OpToRel(<, Nat))
    BY ONLY S \subseteq Nat, S # {}, WFMin, NatLessThanWellFounded
  <1>2. ASSUME NEW y \in S PROVE x <= y
    <2>1. <<y, x>> \in Nat \X Nat
      OBVIOUS
    <2>2. ~(y < x)
      BY <1>1, <2>1 DEF OpToRel
    <2> QED BY <2>2
  <1> QED BY <1>2

\* A recursion over D goes from x to next[x], of a smaller measure, and stops in Base.
Descends(D, Base, m, next) ==
    /\ m \in [D -> Nat]
    /\ \A x \in D \ Base : next[x] \in D /\ m[next[x]] < m[x]

StaysIn(V, D, Base, b, H) ==
    /\ \A x \in D \cap Base : b[x] \in V
    /\ \A x \in D \ Base : \A v \in V : H[x][v] \in V

Unfolds(f, D, Base, next, b, H) ==
    f = [x \in D |-> IF x \in Base THEN b[x] ELSE H[x][f[next[x]]]]

LEMMA DescentInduction ==
    ASSUME NEW D, NEW Base, NEW m, NEW next, Descends(D, Base, m, next),
           NEW T, D \cap Base \subseteq T, \A x \in D \ Base : next[x] \in T => x \in T
    PROVE  D \subseteq T
  <1> DEFINE S == {n \in Nat : \A x \in D : m[x] < n => x \in T}
  <1>1. 0 \in S
    BY DEF Descends
  <1>2. ASSUME NEW n \in Nat, n \in S PROVE n + 1 \in S
    <2> SUFFICES ASSUME NEW x \in D, m[x] < n + 1 PROVE x \in T
      OBVIOUS
    <2>1. CASE x \in Base
      BY <2>1
    <2>2. CASE x \notin Base
      <3>1. next[x] \in D /\ m[next[x]] < n
        BY <2>2 DEF Descends
      <3> QED BY <3>1, <2>2, <1>2
    <2> QED BY <2>1, <2>2
  <1>3. Nat \subseteq S
    <2> HIDE DEF S
    <2> QED BY ONLY <1>1, <1>2, SetInduction
  <1>4. ASSUME NEW x \in D PROVE x \in T
    <2>1. m[x] + 1 \in S /\ m[x] < m[x] + 1
      BY <1>3 DEF Descends
    <2> QED BY <2>1
  <1> QED BY <1>4

LEMMA Recursion ==
    ASSUME NEW D, NEW V, NEW Base, NEW m, NEW next, NEW b, NEW H,
           Descends(D, Base, m, next), StaysIn(V, D, Base, b, H)
    PROVE  \E f \in [D -> V] : Unfolds(f, D, Base, next, b, H)
  <1> USE DEF Descends, StaysIn
  <1> DEFINE Low(n) == {x \in D : m[x] < n}
             Solves(f, n) == \A x \in Low(n) :
                                f[x] = IF x \in Base THEN b[x] ELSE H[x][f[next[x]]]
             Some == {n \in Nat : \E f \in [Low(n) -> V] : Solves(f, n)}
  <1>1. 0 \in Some
    <2> DEFINE f == [x \in Low(0) |-> b[x]]
    <2>1. Low(0) = {}
      OBVIOUS
    <2>2. f \in [Low(0) -> V] /\ Solves(f, 0)
      BY <2>1
    <2> QED BY <2>2
  <1>2. ASSUME NEW n \in Nat, n \in Some PROVE n + 1 \in Some
    <2>1. PICK f \in [Low(n) -> V] : Solves(f, n)
      BY <1>2
    <2> DEFINE g == [x \in Low(n + 1) |-> IF x \in Base THEN b[x] ELSE H[x][f[next[x]]]]
    <2>2. ASSUME NEW x \in Low(n + 1), x \notin Base PROVE next[x] \in Low(n)
      BY <2>2
    <2>3. g \in [Low(n + 1) -> V]
      BY <2>2
    <2>4. \A x \in Low(n) : x \in Low(n + 1) /\ g[x] = f[x]
      BY <2>1
    <2>5. Solves(g, n + 1)
      BY <2>2, <2>4
    <2> HIDE DEF g, Low, Solves
    <2> QED BY <2>3, <2>5
  <1>3. Nat \subseteq Some
    <2> HIDE DEF Some
    <2> QED BY ONLY <1>1, <1>2, SetInduction
  <1>4. ASSUME NEW i \in Nat, NEW j \in Nat, NEW f, NEW g, Solves(f, i), Solves(g, j)
        PROVE  \A x \in Low(i) \cap Low(j) : f[x] = g[x]
    <2> DEFINE Same == {n \in Nat : \A x \in Low(i) \cap Low(j) : m[x] < n => f[x] = g[x]}
    <2>1. 0 \in Same
      OBVIOUS
    <2>2. ASSUME NEW n \in Nat, n \in Same PROVE n + 1 \in Same
      <3> SUFFICES ASSUME NEW x \in Low(i) \cap Low(j), m[x] < n + 1 PROVE f[x] = g[x]
        OBVIOUS
      <3>1. CASE x \in Base
        BY <3>1, <1>4
      <3>2. CASE x \notin Base
        <4>1. next[x] \in Low(i) \cap Low(j) /\ m[next[x]] < n
          BY <3>2
        <4>2. f[next[x]] = g[next[x]]
          BY <4>1, <2>2
        <4> QED BY <4>2, <3>2, <1>4
      <3> QED BY <3>1, <3>2
    <2>3. Nat \subseteq Same
      <3> HIDE DEF Same
      <3> QED BY ONLY <2>1, <2>2, SetInduction
    <2>4. \A x \in Low(i) \cap Low(j) : m[x] + 1 \in Same /\ m[x] < m[x] + 1
      BY <2>3
    <2> QED BY <2>4
  <1> DEFINE F(n) == CHOOSE f \in [Low(n) -> V] : Solves(f, n)
             h == [x \in D |-> F(m[x] + 1)[x]]
  <1>5. ASSUME NEW n \in Nat PROVE F(n) \in [Low(n) -> V] /\ Solves(F(n), n)
    <2>1. \E f \in [Low(n) -> V] : Solves(f, n)
      BY <1>3
    <2> HIDE DEF Low, Solves
    <2> QED BY <2>1
  <1> HIDE DEF F
  <1>6. ASSUME NEW x \in D
        PROVE  h[x] \in V /\ h[x] = IF x \in Base THEN b[x] ELSE H[x][h[next[x]]]
    <2>1. x \in Low(m[x] + 1) /\ m[x] + 1 \in Nat
      OBVIOUS
    <2>2. F(m[x] + 1) \in [Low(m[x] + 1) -> V] /\ Solves(F(m[x] + 1), m[x] + 1)
      BY <2>1, <1>5
    <2>3. CASE x \in Base
      BY <2>1, <2>2, <2>3
    <2>4. CASE x \notin Base
      <3>1. next[x] \in Low(m[x] + 1) \cap Low(m[next[x]] + 1) /\ m[next[x]] + 1 \in Nat
        BY <2>4
      <3>2. F(m[x] + 1)[next[x]] = F(m[next[x]] + 1)[next[x]]
        <4>1. Solves(F(m[next[x]] + 1), m[next[x]] + 1)
          BY <3>1, <1>5
        <4> HIDE DEF Low, Solves
        <4> QED BY <4>1, <2>1, <2>2, <3>1, <1>4
      <3>3. h[next[x]] = F(m[next[x]] + 1)[next[x]]
        BY <2>4
      <3> QED BY <2>1, <2>2, <2>4, <3>2, <3>3
    <2> QED BY <2>3, <2>4
  <1>7. h \in [D -> V] /\ h = [x \in D |-> IF x \in Base THEN b[x] ELSE H[x][h[next[x]]]]
    <2>1. h = [x \in D |-> h[x]] /\ h \in [D -> V]
      BY <1>6
    <2> HIDE DEF h
    <2> QED BY <2>1, <1>6
  <1> QED BY <1>7 DEF Unfolds

\* The recursion of all references: what x itself gives comes before what next[x] gives.
Glues(f, D, Base, next, b, h) ==
    f = [x \in D |-> IF x \in Base THEN b[x] ELSE h[x] \o f[next[x]]]

Pieces(S, D, Base, b, h) ==
    /\ \A x \in D \cap Base : b[x] \in Seq(S)
    /\ \A x \in D \ Base : h[x] \in Seq(S)

LEMMA GluedExists ==
    ASSUME NEW D, NEW S, NEW Base, NEW m, NEW next, NEW b, NEW h,
           Descends(D, Base, m, next), Pieces(S, D, Base, b, h)
    PROVE  \E f : Glues(f, D, Base, next, b, h)
  <1> DEFINE H == [x \in D |-> [v \in Seq(S) |-> h[x] \o v]]
  <1>1. StaysIn(Seq(S), D, Base, b, H)
    <2>1. ASSUME NEW x \in D \ Base, NEW v \in Seq(S) PROVE H[x][v] \in Seq(S)
      BY ConcatProperties DEF Pieces
    <2> QED BY <2>1 DEF StaysIn, Pieces
  <1>2. PICK f \in [D -> Seq(S)] : Unfolds(f, D, Base, next, b, H)
    <2> HIDE DEF H
    <2> QED BY ONLY Descends(D, Base, m, next), <1>1, Recursion
  <1>3. ASSUME NEW x \in D PROVE f[x] = IF x \in Base THEN b[x] ELSE h[x] \o f[next[x]]
    <2>1. CASE x \in Base
      BY <1>2, <2>1 DEF Unfolds
    <2>2. CASE x \notin Base
      <3>1. f[next[x]] \in Seq(S)
        BY <2>2 DEF Descends
      <3>2. f[x] = H[x][f[next[x]]]
        BY <1>2, <2>2 DEF Unfolds
      <3> QED BY <2>2, <3>1, <3>2
    <2> QED BY <2>1, <2>2
  <1> QED BY <1>3 DEF Glues

LEMMA GluedType ==
    ASSUME NEW D, NEW S, NEW Base, NEW m, NEW next, NEW b, NEW h, NEW f,
           Descends(D, Base, m, next), Pieces(S, D, Base, b, h),
           Glues(f, D, Base, next, b, h)
    PROVE  f \in [D -> Seq(S)]
  <1> DEFINE T == {x \in D : f[x] \in Seq(S)}
  <1>1. D \cap Base \subseteq T
    BY DEF Glues, Pieces
  <1>2. ASSUME NEW x \in D \ Base, next[x] \in T PROVE x \in T
    <2>1. f[x] = h[x] \o f[next[x]] /\ h[x] \in Seq(S) /\ f[next[x]] \in Seq(S)
      BY <1>2 DEF Glues, Pieces
    <2> QED BY <2>1, ConcatProperties
  <1>3. D \subseteq T
    <2> HIDE DEF T
    <2> QED BY ONLY Descends(D, Base, m, next), <1>1, <1>2, DescentInduction
  <1> QED BY <1>3 DEF Glues

-----------------------------------------------------------------------------
(* Minima and maxima; tags; marks. *)

LEMMA MinIs ==
    ASSUME NEW S, S \subseteq Nat, S # {}
    PROVE  Min(S) \in S /\ \A y \in S : Min(S) <= y
  BY Least DEF Min

LEMMA MaxIs ==
    ASSUME NEW n \in Nat, NEW S, S \subseteq 1..n, S # {}
    PROVE  Max(S) \in S /\ \A y \in S : Max(S) >= y
  <1> DEFINE T == {n - y : y \in S}
  <1>1. PICK x \in T : \A y \in T : x <= y
    <2>1. T \subseteq Nat
      OBVIOUS
    <2>2. PICK y \in S : TRUE
      OBVIOUS
    <2>3. n - y \in T
      OBVIOUS
    <2> HIDE DEF T
    <2> QED BY <2>1, <2>3, Least
  <1>2. PICK k \in S : x = n - k
    OBVIOUS
  <1>3. ASSUME NEW y \in S PROVE k >= y
    <2>1. n - y \in T
      OBVIOUS
    <2>2. n - k <= n - y
      BY <1>1, <1>2, <2>1
    <2>3. k \in Int /\ y \in Int
      OBVIOUS
    <2> QED BY ONLY n \in Nat, <2>2, <2>3
  <1> QED BY <1>3 DEF Max

LEMMA AtFacts ==
    ASSUME NEW tag \in Seq(Chars), tag # <<>>, NEW s \in Seq(Chars), At(tag, s) # {}
    PROVE  /\ Min(At(tag, s)) \in At(tag, s)
           /\ \A i \in At(tag, s) : Min(At(tag, s)) <= i
           /\ Min(At(tag, s)) \in 1..(Len(s) - Len(tag) + 1)
  <1>1. At(tag, s) \subseteq Nat
    BY DEF At
  <1>2. Min(At(tag, s)) \in At(tag, s) /\ \A i \in At(tag, s) : Min(At(tag, s)) <= i
    BY <1>1, MinIs
  <1> QED BY <1>2 DEF At

LEMMA MarkType ==
    ASSUME NEW s \in Seq(Chars), NEW thinking \in BOOLEAN
    PROVE  /\ Mark(s, thinking) \in Seq(Chars \X BOOLEAN)
           /\ Len(Mark(s, thinking)) = Len(s)
           /\ \A i \in 1..Len(s) : Mark(s, thinking)[i] = <<s[i], thinking>>
  BY DEF Mark

-----------------------------------------------------------------------------
(* The references satisfy their equations. *)

TagOf(thinking) == IF thinking THEN Close ELSE Open

LEMMA TagOfType ==
    ASSUME NEW thinking \in BOOLEAN
    PROVE  TagOf(thinking) \in Seq(Chars) /\ Len(TagOf(thinking)) \in Nat \ {0}
  BY TagsAssumption DEF TagOf

LEMMA ParsedDef ==
    /\ Parsed \in [Seq(Chars) \X BOOLEAN -> Seq(Chars \X BOOLEAN)]
    /\ \A s \in Seq(Chars), thinking \in BOOLEAN :
          LET tag == TagOf(thinking)
              i   == Min(At(tag, s))
          IN  Parsed[<<s, thinking>>] =
                IF At(tag, s) = {} THEN Mark(s, thinking)
                ELSE Mark(SubSeq(s, 1, i - 1), thinking)
                        \o Parsed[<<SubSeq(s, i + Len(tag), Len(s)), ~thinking>>]
  <1> DEFINE D == Seq(Chars) \X BOOLEAN
             V == Seq(Chars \X BOOLEAN)
             I(p) == Min(At(TagOf(p[2]), p[1]))
             Base == {p \in D : At(TagOf(p[2]), p[1]) = {}}
             m == [p \in D |-> Len(p[1])]
             next == [p \in D |-> <<SubSeq(p[1], I(p) + Len(TagOf(p[2])), Len(p[1])), ~p[2]>>]
             b == [p \in D |-> Mark(p[1], p[2])]
             h == [p \in D |-> Mark(SubSeq(p[1], 1, I(p) - 1), p[2])]
  <1>1. m \in [D -> Nat]
    OBVIOUS
  <1>2. ASSUME NEW s \in Seq(Chars), NEW thinking \in BOOLEAN, At(TagOf(thinking), s) # {}
        PROVE  LET i == Min(At(TagOf(thinking), s))
               IN  /\ SubSeq(s, i + Len(TagOf(thinking)), Len(s)) \in Seq(Chars)
                   /\ Len(SubSeq(s, i + Len(TagOf(thinking)), Len(s))) < Len(s)
                   /\ Mark(SubSeq(s, 1, i - 1), thinking) \in V
    <2> DEFINE i == Min(At(TagOf(thinking), s))
    <2>1. i \in 1..(Len(s) - Len(TagOf(thinking)) + 1)
      BY <1>2, AtFacts, TagOfType
    <2> HIDE DEF i
    <2>2. /\ SubSeq(s, i + Len(TagOf(thinking)), Len(s)) \in Seq(Chars)
          /\ Len(SubSeq(s, i + Len(TagOf(thinking)), Len(s))) < Len(s)
          /\ SubSeq(s, 1, i - 1) \in Seq(Chars)
      BY <2>1, TagOfType, SubSeqProperties
    <2>3. Mark(SubSeq(s, 1, i - 1), thinking) \in V
      BY <2>2, MarkType
    <2> QED BY <2>2, <2>3 DEF i
  <1>3. \A p \in D \ Base : next[p] \in D /\ m[next[p]] < m[p]
    <2> SUFFICES ASSUME NEW s \in Seq(Chars), NEW thinking \in BOOLEAN,
                        At(TagOf(thinking), s) # {}
                 PROVE  next[<<s, thinking>>] \in D /\ m[next[<<s, thinking>>]] < m[<<s, thinking>>]
      OBVIOUS
    <2> QED BY <1>2
  <1>4. \A p \in D \cap Base : b[p] \in V
    BY MarkType
  <1>5. \A p \in D \ Base : h[p] \in V
    BY <1>2
  <1>6. Descends(D, Base, m, next) /\ Pieces(Chars \X BOOLEAN, D, Base, b, h)
    BY <1>1, <1>3, <1>4, <1>5 DEF Descends, Pieces
  <1> DEFINE Body(g, p) ==
                LET s   == p[1]
                    tag == IF p[2] THEN Close ELSE Open
                    i   == Min(At(tag, s))
                IN  IF At(tag, s) = {} THEN Mark(s, p[2])
                    ELSE Mark(SubSeq(s, 1, i - 1), p[2])
                            \o g[<<SubSeq(s, i + Len(tag), Len(s)), ~p[2]>>]
  <1>7. ASSUME NEW g
        PROVE  Glues(g, D, Base, next, b, h) <=> g = [p \in D |-> Body(g, p)]
    <2>1. ASSUME NEW p \in D
          PROVE  Body(g, p) = IF p \in Base THEN b[p] ELSE h[p] \o g[next[p]]
      BY DEF TagOf
    <2> HIDE DEF D, Base, next, b, h, Body
    <2>2. [p \in D |-> Body(g, p)] =
             [p \in D |-> IF p \in Base THEN b[p] ELSE h[p] \o g[next[p]]]
      BY <2>1
    <2> QED BY <2>2 DEF Glues
  <1>8. Parsed = [p \in D |-> Body(Parsed, p)]
    <2>1. \E g : Glues(g, D, Base, next, b, h)
      <3> HIDE DEF D, Base, m, next, b, h
      <3> QED BY ONLY <1>6, GluedExists
    <2>2. Parsed = CHOOSE g : g = [p \in D |-> Body(g, p)]
      BY DEF Parsed
    <2> HIDE DEF D, Base, m, next, b, h, Body
    <2> QED BY <1>7, <2>1, <2>2
  <1>9. Parsed \in [D -> V]
    <2>1. Glues(Parsed, D, Base, next, b, h)
      <3> HIDE DEF D, Base, m, next, b, h, Body
      <3> QED BY <1>7, <1>8
    <2> HIDE DEF D, Base, m, next, b, h
    <2> QED BY ONLY <1>6, <2>1, GluedType
  <1>10. ASSUME NEW s \in Seq(Chars), NEW thinking \in BOOLEAN
         PROVE  LET tag == TagOf(thinking)
                    i   == Min(At(tag, s))
                IN  Parsed[<<s, thinking>>] =
                      IF At(tag, s) = {} THEN Mark(s, thinking)
                      ELSE Mark(SubSeq(s, 1, i - 1), thinking)
                              \o Parsed[<<SubSeq(s, i + Len(tag), Len(s)), ~thinking>>]
    <2>1. <<s, thinking>> \in D
      OBVIOUS
    <2>2. Parsed[<<s, thinking>>] = Body(Parsed, <<s, thinking>>)
      BY <1>8, <2>1
    <2> QED BY <2>2 DEF TagOf
  <1> QED BY <1>9, <1>10

LEMMA KeptType ==
    ASSUME NEW s \in Seq(Chars)
    PROVE  Kept(s) \in Seq(Seq(Chars) \ {<<>>})
  <1> DEFINE I == {i \in 1..Len(s) : s[i] \notin Blanks}
  <1>1. Strip(s) \in Seq(Chars)
    <2>1. CASE I = {}
      BY <2>1 DEF Strip
    <2>2. CASE I # {}
      <3>1. Min(I) \in 1..Len(s) /\ Max(I) \in 1..Len(s)
        <4>1. I \subseteq Nat /\ I \subseteq 1..Len(s) /\ Len(s) \in Nat
          OBVIOUS
        <4>2. Min(I) \in I
          <5> HIDE DEF I
          <5> QED BY <2>2, <4>1, MinIs
        <4>3. Max(I) \in I
          <5> HIDE DEF I
          <5> QED BY <2>2, <4>1, MaxIs
        <4> QED BY <4>1, <4>2, <4>3
      <3>2. Strip(s) = SubSeq(s, Min(I), Max(I))
        BY <2>2 DEF Strip
      <3> HIDE DEF I
      <3> QED BY <3>1, <3>2, SubSeqProperties
    <2> QED BY <2>1, <2>2
  <1>2. ASSUME Strip(s) # <<>> PROVE <<Strip(s)>> \in Seq(Seq(Chars) \ {<<>>})
    BY <1>1, <1>2
  <1>3. <<>> \in Seq(Seq(Chars) \ {<<>>})
    OBVIOUS
  <1> QED BY <1>2, <1>3, Zenon DEF Kept

EndsIn(s) == {i \in MinChars..Len(s) : Ends(s[i])}

LEMMA EndsFacts ==
    ASSUME NEW s \in Seq(Chars), EndsIn(s) # {}
    PROVE  /\ Min(EndsIn(s)) \in EndsIn(s)
           /\ \A i \in EndsIn(s) : Min(EndsIn(s)) <= i
           /\ Min(EndsIn(s)) \in 1..Len(s)
  <1>1. EndsIn(s) \subseteq 1..Len(s)
    BY SplitterAssumption DEF EndsIn
  <1>2. Min(EndsIn(s)) \in EndsIn(s) /\ \A i \in EndsIn(s) : Min(EndsIn(s)) <= i
    BY <1>1, MinIs
  <1> QED BY <1>1, <1>2

LEMMA SentencesDef ==
    ASSUME NEW complete \in BOOLEAN
    PROVE  \A s \in Seq(Chars) :
              /\ Sentences(s, complete) \in Seq(Seq(Chars) \ {<<>>})
              /\ Sentences(s, complete) =
                    LET I == EndsIn(s)
                    IN  IF I = {} THEN IF complete THEN Kept(s) ELSE <<>>
                        ELSE Kept(SubSeq(s, 1, Min(I)))
                                \o Sentences(SubSeq(s, Min(I) + 1, Len(s)), complete)
  <1> DEFINE D == Seq(Chars)
             V == Seq(Seq(Chars) \ {<<>>})
             Base == {s \in D : EndsIn(s) = {}}
             m == [s \in D |-> Len(s)]
             next == [s \in D |-> SubSeq(s, Min(EndsIn(s)) + 1, Len(s))]
             b == [s \in D |-> IF complete THEN Kept(s) ELSE <<>>]
             h == [s \in D |-> Kept(SubSeq(s, 1, Min(EndsIn(s))))]
             Body(g, s) ==
                LET I == {i \in MinChars..Len(s) : Ends(s[i])}
                IN  IF I = {} THEN IF complete THEN Kept(s) ELSE <<>>
                    ELSE Kept(SubSeq(s, 1, Min(I))) \o g[SubSeq(s, Min(I) + 1, Len(s))]
             Cut == CHOOSE g : g = [s \in D |-> Body(g, s)]
  <1>1. ASSUME NEW s \in D \ Base
        PROVE  next[s] \in D /\ m[next[s]] < m[s] /\ h[s] \in V
    <2> DEFINE i == Min(EndsIn(s))
    <2>1. i \in 1..Len(s)
      BY EndsFacts
    <2> HIDE DEF i
    <2>2. /\ SubSeq(s, i + 1, Len(s)) \in D
          /\ Len(SubSeq(s, i + 1, Len(s))) < Len(s)
          /\ SubSeq(s, 1, i) \in D
      BY <2>1, SubSeqProperties
    <2>3. Kept(SubSeq(s, 1, i)) \in V
      BY <2>2, KeptType
    <2> QED BY <2>2, <2>3 DEF i
  <1>2. ASSUME NEW s \in D \cap Base PROVE b[s] \in V
    BY KeptType
  <1>3. Descends(D, Base, m, next) /\ Pieces(Seq(Chars) \ {<<>>}, D, Base, b, h)
    <2>1. m \in [D -> Nat]
      OBVIOUS
    <2> HIDE DEF D, Base, m, next, b, h
    <2> QED BY <1>1, <1>2, <2>1 DEF Descends, Pieces
  <1>4. ASSUME NEW g
        PROVE  Glues(g, D, Base, next, b, h) <=> g = [s \in D |-> Body(g, s)]
    <2>1. ASSUME NEW s \in D
          PROVE  Body(g, s) = IF s \in Base THEN b[s] ELSE h[s] \o g[next[s]]
      BY DEF EndsIn
    <2> HIDE DEF D, Base, next, b, h, Body
    <2>2. [s \in D |-> Body(g, s)] =
             [s \in D |-> IF s \in Base THEN b[s] ELSE h[s] \o g[next[s]]]
      BY <2>1
    <2> QED BY <2>2 DEF Glues
  <1>5. Cut = [s \in D |-> Body(Cut, s)] /\ Cut \in [D -> V]
    <2> HIDE DEF D, Base, m, next, b, h, Body
    <2>1. \E g : Glues(g, D, Base, next, b, h)
      BY ONLY <1>3, GluedExists
    <2>2. Cut = [s \in D |-> Body(Cut, s)]
      BY <1>4, <2>1
    <2> HIDE DEF Cut
    <2>3. Glues(Cut, D, Base, next, b, h)
      BY <1>4, <2>2
    <2> QED BY ONLY <1>3, <2>2, <2>3, GluedType
  <1>6. \A s : Sentences(s, complete) = Cut[s]
    BY DEF Sentences
  <1> HIDE DEF Cut
  <1> QED BY <1>5, <1>6 DEF EndsIn

LEMMA ReplyDef ==
    \A s \in Seq(Chars \X BOOLEAN) :
        /\ Reply[s] \in Seq(Chars)
        /\ Reply[s] = IF s = <<>> THEN <<>>
                      ELSE (IF Head(s)[2] THEN <<>> ELSE <<Head(s)[1]>>) \o Reply[Tail(s)]
  <1> DEFINE D == Seq(Chars \X BOOLEAN)
             Base == {<<>>}
             m == [s \in D |-> Len(s)]
             next == [s \in D |-> Tail(s)]
             b == [s \in D |-> <<>>]
             h == [s \in D |-> IF Head(s)[2] THEN <<>> ELSE <<Head(s)[1]>>]
             Body(g, s) == IF s = <<>> THEN <<>>
                           ELSE (IF Head(s)[2] THEN <<>> ELSE <<Head(s)[1]>>) \o g[Tail(s)]
  <1>1. ASSUME NEW s \in D \ Base
        PROVE  next[s] \in D /\ m[next[s]] < m[s] /\ h[s] \in Seq(Chars)
    <2>1. Tail(s) \in D /\ Len(Tail(s)) < Len(s) /\ Head(s) \in Chars \X BOOLEAN
      BY HeadTailProperties
    <2> QED BY <2>1
  <1>2. Descends(D, Base, m, next) /\ Pieces(Chars, D, Base, b, h)
    <2>1. m \in [D -> Nat] /\ \A s \in D : b[s] \in Seq(Chars)
      OBVIOUS
    <2> HIDE DEF D, Base, m, next, b, h
    <2> QED BY <1>1, <2>1 DEF Descends, Pieces
  <1>3. ASSUME NEW g
        PROVE  Glues(g, D, Base, next, b, h) <=> g = [s \in D |-> Body(g, s)]
    <2>1. ASSUME NEW s \in D
          PROVE  Body(g, s) = IF s \in Base THEN b[s] ELSE h[s] \o g[next[s]]
      OBVIOUS
    <2> HIDE DEF D, Base, next, b, h, Body
    <2>2. [s \in D |-> Body(g, s)] =
             [s \in D |-> IF s \in Base THEN b[s] ELSE h[s] \o g[next[s]]]
      BY <2>1
    <2> QED BY <2>2 DEF Glues
  <1>4. Reply = [s \in D |-> Body(Reply, s)] /\ Reply \in [D -> Seq(Chars)]
    <2>1. Reply = CHOOSE g : g = [s \in D |-> Body(g, s)]
      BY DEF Reply
    <2> HIDE DEF D, Base, m, next, b, h, Body
    <2>2. \E g : Glues(g, D, Base, next, b, h)
      BY ONLY <1>2, GluedExists
    <2>3. Reply = [s \in D |-> Body(Reply, s)]
      BY <1>3, <2>1, <2>2
    <2>4. Glues(Reply, D, Base, next, b, h)
      BY <1>3, <2>3
    <2> QED BY ONLY <1>2, <2>3, <2>4, GluedType
  <1> QED BY <1>4

LEMMA JoinedDef ==
    ASSUME NEW n
    PROVE  \A s \in Seq(Fragments) :
              /\ Joined(s, n) \in Seq(Args)
              /\ Joined(s, n) =
                    IF s = <<>> THEN <<>>
                    ELSE (IF Head(s).index = n THEN Head(s).args ELSE <<>>)
                            \o Joined(Tail(s), n)
  <1> DEFINE D == Seq(Fragments)
             Base == {<<>>}
             m == [s \in D |-> Len(s)]
             next == [s \in D |-> Tail(s)]
             b == [s \in D |-> <<>>]
             h == [s \in D |-> IF Head(s).index = n THEN Head(s).args ELSE <<>>]
             Body(g, s) == IF s = <<>> THEN <<>>
                           ELSE (IF Head(s).index = n THEN Head(s).args ELSE <<>>) \o g[Tail(s)]
             All == CHOOSE g : g = [s \in D |-> Body(g, s)]
  <1>1. ASSUME NEW s \in D \ Base
        PROVE  next[s] \in D /\ m[next[s]] < m[s] /\ h[s] \in Seq(Args)
    <2>1. Tail(s) \in D /\ Len(Tail(s)) < Len(s) /\ Head(s) \in Fragments
      BY HeadTailProperties
    <2>2. Head(s).args = <<>> \/ \E a \in Args : Head(s).args = <<a>>
      BY <2>1 DEF Fragments
    <2>3. \A a \in Args : <<a>> \in Seq(Args)
      OBVIOUS
    <2>4. Head(s).args \in Seq(Args)
      BY <2>2, <2>3, EmptySeq
    <2> QED BY <2>1, <2>4
  <1>2. Descends(D, Base, m, next) /\ Pieces(Args, D, Base, b, h)
    <2>1. m \in [D -> Nat] /\ \A s \in D : b[s] \in Seq(Args)
      OBVIOUS
    <2> HIDE DEF D, Base, m, next, b, h
    <2> QED BY <1>1, <2>1 DEF Descends, Pieces
  <1>3. ASSUME NEW g
        PROVE  Glues(g, D, Base, next, b, h) <=> g = [s \in D |-> Body(g, s)]
    <2>1. ASSUME NEW s \in D
          PROVE  Body(g, s) = IF s \in Base THEN b[s] ELSE h[s] \o g[next[s]]
      OBVIOUS
    <2> HIDE DEF D, Base, next, b, h, Body
    <2>2. [s \in D |-> Body(g, s)] =
             [s \in D |-> IF s \in Base THEN b[s] ELSE h[s] \o g[next[s]]]
      BY <2>1
    <2> QED BY <2>2 DEF Glues
  <1>4. All = [s \in D |-> Body(All, s)] /\ All \in [D -> Seq(Args)]
    <2> HIDE DEF D, Base, m, next, b, h, Body
    <2>2. \E g : Glues(g, D, Base, next, b, h)
      BY ONLY <1>2, GluedExists
    <2>3. All = [s \in D |-> Body(All, s)]
      BY <1>3, <2>2
    <2> HIDE DEF All
    <2>4. Glues(All, D, Base, next, b, h)
      BY <1>3, <2>3
    <2> QED BY ONLY <1>2, <2>3, <2>4, GluedType
  <1>5. \A s : Joined(s, n) = All[s]
    BY DEF Joined
  <1> HIDE DEF All
  <1> QED BY <1>4, <1>5

-----------------------------------------------------------------------------
(* The parser. *)

LEMMA Sub ==
    ASSUME NEW S, NEW s \in Seq(S), NEW i \in 1..(Len(s) + 1), NEW j \in (i - 1)..Len(s)
    PROVE  /\ SubSeq(s, i, j) \in Seq(S)
           /\ Len(SubSeq(s, i, j)) = j - i + 1
           /\ \A k \in 1..(j - i + 1) : SubSeq(s, i, j)[k] = s[i + k - 1]
  BY SubSeqProperties

LEMMA SubOfRest ==
    ASSUME NEW S, NEW s \in Seq(S), NEW k \in 0..Len(s),
           NEW i \in 1..(Len(s) - k + 1), NEW j \in (i - 1)..(Len(s) - k)
    PROVE  SubSeq(SubSeq(s, k + 1, Len(s)), i, j) = SubSeq(s, k + i, k + j)
  <1> DEFINE r == SubSeq(s, k + 1, Len(s))
             u == SubSeq(r, i, j)
             v == SubSeq(s, k + i, k + j)
  <1>1. r \in Seq(S) /\ Len(r) = Len(s) - k /\ \A n \in 1..(Len(s) - k) : r[n] = s[k + n]
    <2>1. /\ r \in Seq(S) /\ Len(r) = Len(s) - k
          /\ \A n \in 1..(Len(s) - k) : r[n] = s[(k + 1) + n - 1]
      BY Sub
    <2>2. \A n \in 1..(Len(s) - k) : (k + 1) + n - 1 = k + n
      OBVIOUS
    <2> QED BY <2>1, <2>2
  <1> HIDE DEF r
  <1>2. /\ u \in Seq(S) /\ Len(u) = j - i + 1
        /\ \A n \in 1..(j - i + 1) : u[n] = r[i + n - 1]
    BY <1>1, Sub
  <1>3. /\ v \in Seq(S) /\ Len(v) = j - i + 1
        /\ \A n \in 1..(j - i + 1) : v[n] = s[(k + i) + n - 1]
    <2>1. k + i \in 1..(Len(s) + 1) /\ k + j \in (k + i - 1)..Len(s)
      OBVIOUS
    <2>2. /\ v \in Seq(S) /\ Len(v) = (k + j) - (k + i) + 1
          /\ \A n \in 1..((k + j) - (k + i) + 1) : v[n] = s[(k + i) + n - 1]
      BY <2>1, Sub
    <2> QED BY <2>2
  <1>4. ASSUME NEW n \in 1..(j - i + 1) PROVE u[n] = v[n]
    <2>1. i + n - 1 \in 1..(Len(s) - k) /\ k + (i + n - 1) = (k + i) + n - 1
      OBVIOUS
    <2> HIDE DEF u, v
    <2> QED BY <1>1, <1>2, <1>3, <2>1
  <1>5. u = v
    <2> HIDE DEF u, v
    <2> QED BY <1>2, <1>3, <1>4, SeqEqual
  <1> QED BY <1>5 DEF r

LEMMA MarkConcat ==
    ASSUME NEW s \in Seq(Chars), NEW t \in Seq(Chars), NEW thinking \in BOOLEAN
    PROVE  Mark(s \o t, thinking) = Mark(s, thinking) \o Mark(t, thinking)
  <1> DEFINE u == Mark(s \o t, thinking)
             v == Mark(s, thinking) \o Mark(t, thinking)
  <1>1. /\ s \o t \in Seq(Chars) /\ Len(s \o t) = Len(s) + Len(t)
        /\ \A i \in 1..(Len(s) + Len(t)) :
              (s \o t)[i] = IF i <= Len(s) THEN s[i] ELSE t[i - Len(s)]
    BY ConcatProperties
  <1>2. /\ u \in Seq(Chars \X BOOLEAN) /\ Len(u) = Len(s) + Len(t)
        /\ \A i \in 1..(Len(s) + Len(t)) : u[i] = <<(s \o t)[i], thinking>>
    BY <1>1, MarkType
  <1>3. /\ Mark(s, thinking) \in Seq(Chars \X BOOLEAN) /\ Len(Mark(s, thinking)) = Len(s)
        /\ Mark(t, thinking) \in Seq(Chars \X BOOLEAN) /\ Len(Mark(t, thinking)) = Len(t)
        /\ \A i \in 1..Len(s) : Mark(s, thinking)[i] = <<s[i], thinking>>
        /\ \A i \in 1..Len(t) : Mark(t, thinking)[i] = <<t[i], thinking>>
    BY MarkType
  <1>4. /\ v \in Seq(Chars \X BOOLEAN) /\ Len(v) = Len(s) + Len(t)
        /\ \A i \in 1..(Len(s) + Len(t)) :
              v[i] = IF i <= Len(s) THEN Mark(s, thinking)[i] ELSE Mark(t, thinking)[i - Len(s)]
    <2> DEFINE p == Mark(s, thinking)
               q == Mark(t, thinking)
    <2> HIDE DEF p, q
    <2>1. p \in Seq(Chars \X BOOLEAN) /\ q \in Seq(Chars \X BOOLEAN)
      BY <1>3 DEF p, q
    <2>2. /\ p \o q \in Seq(Chars \X BOOLEAN) /\ Len(p \o q) = Len(p) + Len(q)
          /\ \A i \in 1..(Len(p) + Len(q)) :
                (p \o q)[i] = IF i <= Len(p) THEN p[i] ELSE q[i - Len(p)]
      BY <2>1, ConcatProperties
    <2> QED BY <1>3, <2>2 DEF p, q
  <1>5. ASSUME NEW i \in 1..(Len(s) + Len(t)) PROVE u[i] = v[i]
    <2> HIDE DEF u, v
    <2>1. CASE i <= Len(s)
      <3>1. i \in 1..Len(s)
        BY <2>1
      <3>2. u[i] = <<s[i], thinking>>
        BY <1>1, <1>2, <2>1
      <3> QED BY <1>3, <1>4, <2>1, <3>1, <3>2
    <2>2. CASE i > Len(s)
      <3>1. i - Len(s) \in 1..Len(t) /\ ~(i <= Len(s))
        BY <2>2
      <3>2. u[i] = <<t[i - Len(s)], thinking>>
        BY <1>1, <1>2, <3>1
      <3>3. v[i] = Mark(t, thinking)[i - Len(s)]
        BY <1>4, <3>1
      <3> QED BY <1>3, <3>1, <3>2, <3>3
    <2> QED BY <2>1, <2>2
  <1> HIDE DEF u, v
  <1>6. u = v
    BY <1>2, <1>4, <1>5, SeqEqual
  <1> QED BY <1>6 DEF u, v

\* Text in which no tag starts can be cut off the front.
LEMMA CutFront ==
    ASSUME NEW s \in Seq(Chars), NEW thinking \in BOOLEAN, NEW k \in 0..Len(s),
           \A i \in At(TagOf(thinking), s) : i > k
    PROVE  Parsed[<<s, thinking>>] =
              Mark(SubSeq(s, 1, k), thinking) \o Parsed[<<SubSeq(s, k + 1, Len(s)), thinking>>]
  <1> DEFINE tag == TagOf(thinking)
             f == SubSeq(s, 1, k)
             r == SubSeq(s, k + 1, Len(s))
             l == Len(tag)
  <1>1. tag \in Seq(Chars) /\ l \in Nat \ {0} /\ tag # <<>> /\ Len(s) \in Nat
    BY TagOfType
  <1>2. r \in Seq(Chars) /\ Len(r) = Len(s) - k /\ f \in Seq(Chars)
    BY Sub
  <1>3. ASSUME NEW i \in 1..(Len(s) - k + 1), NEW j \in (i - 1)..(Len(s) - k)
        PROVE  SubSeq(r, i, j) = SubSeq(s, k + i, k + j)
    BY SubOfRest
  <1>4. ASSUME NEW j \in k..Len(s)
        PROVE  SubSeq(s, 1, j) = f \o SubSeq(s, k + 1, j)
    BY ConcatAdjacentSubSeq
  <1> HIDE DEF tag, r, f
  <1>5. ASSUME NEW i \in 1..(Len(r) - l + 1)
        PROVE  i \in At(tag, r) <=> k + i \in At(tag, s)
    <2>1. i + l - 1 \in (i - 1)..(Len(s) - k) /\ i \in 1..(Len(s) - k + 1)
      BY <1>1, <1>2
    <2>2. SubSeq(r, i, i + l - 1) = SubSeq(s, k + i, k + (i + l - 1))
      BY <1>3, <2>1
    <2>3. k + (i + l - 1) = (k + i) + l - 1 /\ k + i \in 1..(Len(s) - l + 1)
      BY <1>1, <1>2
    <2> QED BY <2>2, <2>3 DEF At
  <1>6. CASE At(tag, s) = {}
    <2>1. At(tag, r) = {}
      BY <1>5, <1>6 DEF At
    <2>2. Parsed[<<s, thinking>>] = Mark(s, thinking) /\ Parsed[<<r, thinking>>] = Mark(r, thinking)
      BY <1>2, <1>6, <2>1, ParsedDef DEF tag
    <2>3. s = f \o r
      <3>1. Len(s) \in k..Len(s)
        BY <1>1
      <3>2. SubSeq(s, 1, Len(s)) = f \o r
        BY ONLY <1>4, <3>1 DEF r
      <3>3. SubSeq(s, 1, Len(s)) = s
        BY SubSeqFull
      <3> QED BY ONLY <3>2, <3>3
    <2>4. Parsed[<<s, thinking>>] = Mark(f, thinking) \o Parsed[<<r, thinking>>]
      BY <1>2, <2>2, <2>3, MarkConcat
    <2> QED BY <2>4 DEF r, f
  <1>7. CASE At(tag, s) # {}
    <2> DEFINE i == Min(At(tag, s))
    <2>1. i \in At(tag, s) /\ i \in 1..(Len(s) - l + 1) /\ \A j \in At(tag, s) : i <= j
      BY <1>1, <1>7, AtFacts
    <2> HIDE DEF i
    <2>2. i > k
      BY <2>1 DEF tag
    <2>3. i - k \in 1..(Len(r) - l + 1) /\ i - k \in At(tag, r)
      <3>1. i - k \in 1..(Len(r) - l + 1) /\ k + (i - k) = i
        BY <1>1, <1>2, <2>1, <2>2
      <3> QED BY <1>5, <2>1, <3>1
    <2>4. ASSUME NEW j \in At(tag, r) PROVE j \in 1..(Len(r) - l + 1) /\ i - k <= j
      <3>1. j \in 1..(Len(r) - l + 1)
        BY DEF At
      <3>2. k + j \in At(tag, s)
        BY <1>5, <3>1
      <3>3. i <= k + j
        BY <2>1, <3>2
      <3> QED BY <1>1, <1>2, <2>1, <3>1, <3>3
    <2>5. Min(At(tag, r)) = i - k
      <3>1. At(tag, r) # {}
        BY <2>3
      <3>2. /\ Min(At(tag, r)) \in At(tag, r)
            /\ \A j \in At(tag, r) : Min(At(tag, r)) <= j
        BY <1>1, <1>2, <3>1, AtFacts
      <3>3. Min(At(tag, r)) <= i - k /\ i - k <= Min(At(tag, r)) /\ Min(At(tag, r)) \in Int
        BY <2>3, <2>4, <3>2
      <3> QED BY <2>1, <3>3
    <2> DEFINE rest == SubSeq(s, i + l, Len(s))
               mid == SubSeq(s, k + 1, i - 1)
    <2>6. rest \in Seq(Chars) /\ mid \in Seq(Chars)
      BY <1>1, <2>1, <2>2, Sub
    <2>7. SubSeq(r, i - k + l, Len(r)) = rest
      <3>1. /\ i - k + l \in 1..(Len(s) - k + 1) /\ Len(r) \in (i - k + l - 1)..(Len(s) - k)
            /\ k + (i - k + l) = i + l /\ k + Len(r) = Len(s)
        BY <1>1, <1>2, <2>1, <2>2
      <3> DEFINE a == i - k + l
                 z == Len(r)
      <3> HIDE DEF a, z
      <3>3. a \in 1..(Len(s) - k + 1) /\ z \in (a - 1)..(Len(s) - k)
        BY <3>1 DEF a, z
      <3>2. SubSeq(r, a, z) = SubSeq(s, k + a, k + z)
        BY <1>3, <3>3
      <3> QED BY <3>1, <3>2 DEF a, z
    <2>8. SubSeq(r, 1, i - k - 1) = mid
      <3>1. /\ 1 \in 1..(Len(s) - k + 1) /\ i - k - 1 \in (1 - 1)..(Len(s) - k)
            /\ k + (i - k - 1) = i - 1
        BY <1>1, <1>2, <2>1, <2>2
      <3>2. SubSeq(r, 1, i - k - 1) = SubSeq(s, k + 1, k + (i - k - 1))
        BY <1>3, <3>1
      <3> QED BY <3>1, <3>2
    <2>9. SubSeq(s, 1, i - 1) = f \o mid
      <3>1. i - 1 \in k..Len(s)
        BY <1>1, <2>1, <2>2
      <3> QED BY <1>4, <3>1
    <2>10. Parsed[<<s, thinking>>] = Mark(f \o mid, thinking) \o Parsed[<<rest, ~thinking>>]
      <3>1. Parsed[<<s, thinking>>] =
               Mark(SubSeq(s, 1, i - 1), thinking) \o Parsed[<<rest, ~thinking>>]
        BY <1>7, ParsedDef DEF i, tag
      <3> QED BY <2>9, <3>1
    <2>11. Parsed[<<r, thinking>>] = Mark(mid, thinking) \o Parsed[<<rest, ~thinking>>]
      <3>1. At(tag, r) # {}
        BY <2>3
      <3>2. Parsed[<<r, thinking>>] =
               Mark(SubSeq(r, 1, Min(At(tag, r)) - 1), thinking)
                  \o Parsed[<<SubSeq(r, Min(At(tag, r)) + l, Len(r)), ~thinking>>]
        BY <1>2, <3>1, ParsedDef DEF tag
      <3> QED BY <2>5, <2>7, <2>8, <3>2
    <2> HIDE DEF rest, mid
    <2>12. /\ Mark(f, thinking) \in Seq(Chars \X BOOLEAN)
           /\ Mark(mid, thinking) \in Seq(Chars \X BOOLEAN)
           /\ Parsed[<<rest, ~thinking>>] \in Seq(Chars \X BOOLEAN)
           /\ Mark(f \o mid, thinking) = Mark(f, thinking) \o Mark(mid, thinking)
      BY <1>2, <2>6, MarkType, MarkConcat, ParsedDef
    <2>13. Parsed[<<s, thinking>>] = Mark(f, thinking) \o Parsed[<<r, thinking>>]
      <3> DEFINE mf == Mark(f, thinking)
                 mm == Mark(mid, thinking)
                 p  == Parsed[<<rest, ~thinking>>]
      <3> HIDE DEF mf, mm, p
      <3>2. /\ mf \in Seq(Chars \X BOOLEAN) /\ mm \in Seq(Chars \X BOOLEAN)
            /\ p \in Seq(Chars \X BOOLEAN)
        BY <2>12 DEF mf, mm, p
      <3>1. (mf \o mm) \o p = mf \o (mm \o p)
        BY <3>2, ConcatAssociative
      <3> QED BY <2>10, <2>11, <2>12, <3>1 DEF mf, mm, p
    <2> QED BY <2>13 DEF r, f
  <1> QED BY <1>6, <1>7 DEF tag

LEMMA SubOfConcat ==
    ASSUME NEW S, NEW s \in Seq(S), NEW t \in Seq(S), NEW k \in 0..Len(s)
    PROVE  /\ s \o t \in Seq(S) /\ Len(s \o t) = Len(s) + Len(t)
           /\ SubSeq(s \o t, 1, k) = SubSeq(s, 1, k)
           /\ SubSeq(s \o t, k + 1, Len(s \o t)) = SubSeq(s, k + 1, Len(s)) \o t
           /\ \A i \in 1..Len(s) : (s \o t)[i] = s[i]
  <1> DEFINE c == s \o t
  <1>1. /\ c \in Seq(S) /\ Len(c) = Len(s) + Len(t)
        /\ \A i \in 1..(Len(s) + Len(t)) : c[i] = IF i <= Len(s) THEN s[i] ELSE t[i - Len(s)]
    BY ConcatProperties
  <1> HIDE DEF c
  <1>2. \A i \in 1..Len(s) : c[i] = s[i]
    BY <1>1
  <1>3. SubSeq(c, 1, k) = SubSeq(s, 1, k)
    <2> DEFINE u == SubSeq(c, 1, k)
               v == SubSeq(s, 1, k)
    <2>1. u \in Seq(S) /\ Len(u) = k /\ \A i \in 1..k : u[i] = c[1 + i - 1]
      BY <1>1, Sub
    <2>2. v \in Seq(S) /\ Len(v) = k /\ \A i \in 1..k : v[i] = s[1 + i - 1]
      BY Sub
    <2> HIDE DEF u, v
    <2>3. ASSUME NEW i \in 1..k PROVE u[i] = v[i]
      <3>1. 1 + i - 1 \in 1..Len(s)
        OBVIOUS
      <3> QED BY <1>2, <2>1, <2>2, <3>1
    <2>4. u = v
      BY <2>1, <2>2, <2>3, SeqEqual
    <2> QED BY <2>4 DEF u, v
  <1>4. SubSeq(c, k + 1, Len(c)) = SubSeq(s, k + 1, Len(s)) \o t
    <2> DEFINE r == SubSeq(s, k + 1, Len(s))
               u == SubSeq(c, k + 1, Len(c))
               v == r \o t
    <2>1. r \in Seq(S) /\ Len(r) = Len(s) - k /\ \A i \in 1..(Len(s) - k) : r[i] = s[(k + 1) + i - 1]
      BY Sub
    <2>2. /\ u \in Seq(S) /\ Len(u) = Len(c) - k
          /\ \A i \in 1..(Len(c) - k) : u[i] = c[(k + 1) + i - 1]
      BY <1>1, Sub
    <2> HIDE DEF r, u
    <2>3. /\ v \in Seq(S) /\ Len(v) = Len(r) + Len(t)
          /\ \A i \in 1..(Len(r) + Len(t)) : v[i] = IF i <= Len(r) THEN r[i] ELSE t[i - Len(r)]
      BY <2>1, ConcatProperties
    <2> HIDE DEF v
    <2>4. ASSUME NEW i \in 1..(Len(c) - k) PROVE u[i] = v[i]
      <3>1. (k + 1) + i - 1 = k + i /\ k + i \in 1..(Len(s) + Len(t)) /\ i \in 1..(Len(r) + Len(t))
        BY <1>1, <2>1
      <3>2. u[i] = IF k + i <= Len(s) THEN s[k + i] ELSE t[k + i - Len(s)]
        BY <1>1, <2>2, <3>1
      <3>3. CASE i <= Len(r)
        <4>1. i \in 1..(Len(s) - k) /\ k + i <= Len(s)
          BY <2>1, <3>3
        <4> QED BY <2>1, <2>3, <3>1, <3>2, <3>3, <4>1
      <3>4. CASE i > Len(r)
        <4>1. ~(i <= Len(r)) /\ ~(k + i <= Len(s)) /\ k + i - Len(s) = i - Len(r)
          BY <2>1, <3>4
        <4> QED BY <2>3, <3>1, <3>2, <4>1
      <3> QED BY <2>1, <3>3, <3>4
    <2>5. u = v
      BY <1>1, <2>1, <2>2, <2>3, <2>4, SeqEqual
    <2> QED BY <2>5 DEF u, v, r
  <1> QED BY <1>1, <1>2, <1>3, <1>4 DEF c

\* The tags in a text are also in what the text begins.
LEMMA AtConcat ==
    ASSUME NEW tag \in Seq(Chars), tag # <<>>, NEW s \in Seq(Chars), NEW t \in Seq(Chars),
           NEW i \in 1..(Len(s) - Len(tag) + 1)
    PROVE  i \in At(tag, s \o t) <=> i \in At(tag, s)
  <1>1. /\ i \in 1..Len(s) /\ i + Len(tag) - 1 \in 1..Len(s)
        /\ Len(s \o t) = Len(s) + Len(t) /\ i \in 1..(Len(s \o t) - Len(tag) + 1)
    BY ConcatProperties
  <1>2. SubSeq(s \o t, i, i + Len(tag) - 1) = SubSeq(s, i, i + Len(tag) - 1)
    BY <1>1, SubSeqOfConcat1
  <1> QED BY <1>1, <1>2 DEF At

\* With any continuation, s reads as m and then as r does.
Continues(s, thinking, m, r, thinkingAfter) ==
    \A x \in Seq(Chars) :
        Parsed[<<s \o x, thinking>>] = m \o Parsed[<<r \o x, thinkingAfter>>]

\* The loop's way out: what is yielded has no tag with any continuation.
LEMMA ReleaseKeeps ==
    ASSUME NEW thinking \in BOOLEAN, NEW b \in Seq(Chars), At(TagOf(thinking), b) = {},
           NEW k, k = IF Len(b) < Len(TagOf(thinking)) THEN 0
                      ELSE Len(b) - Len(TagOf(thinking)) + 1
    PROVE  /\ k \in 0..Len(b)
           /\ Len(SubSeq(b, k + 1, Len(b))) < Len(TagOf(thinking))
           /\ Continues(b, thinking, Mark(SubSeq(b, 1, k), thinking),
                        SubSeq(b, k + 1, Len(b)), thinking)
  <1> DEFINE tag == TagOf(thinking)
  <1>1. tag \in Seq(Chars) /\ tag # <<>> /\ Len(tag) \in Nat \ {0}
    BY TagOfType
  <1> HIDE DEF tag
  <1>2. k \in 0..Len(b)
    BY <1>1 DEF tag
  <1>3. Len(SubSeq(b, k + 1, Len(b))) < Len(tag)
    <2>1. k + 1 \in 1..(Len(b) + 1) /\ Len(b) \in ((k + 1) - 1)..Len(b)
      BY <1>2
    <2>2. Len(SubSeq(b, k + 1, Len(b))) = Len(b) - (k + 1) + 1
      BY ONLY b \in Seq(Chars), <2>1, Sub
    <2>3. Len(b) - (k + 1) + 1 < Len(tag)
      BY <1>1, <1>2 DEF tag
    <2> QED BY <2>2, <2>3
  <1>4. ASSUME NEW x \in Seq(Chars)
        PROVE  Parsed[<<b \o x, thinking>>] =
                  Mark(SubSeq(b, 1, k), thinking)
                     \o Parsed[<<SubSeq(b, k + 1, Len(b)) \o x, thinking>>]
    <2> DEFINE s == b \o x
    <2>1. /\ s \in Seq(Chars) /\ Len(s) = Len(b) + Len(x)
          /\ SubSeq(s, 1, k) = SubSeq(b, 1, k)
          /\ SubSeq(s, k + 1, Len(s)) = SubSeq(b, k + 1, Len(b)) \o x
      BY ONLY b \in Seq(Chars), x \in Seq(Chars), <1>2, SubOfConcat
    <2>2. ASSUME NEW i \in At(tag, s), i <= k PROVE FALSE
      <3>1. i \in 1..(Len(b) - Len(tag) + 1)
        <4>1. i \in Nat \ {0}
          BY DEF At
        <4> QED BY <1>1, <4>1, <2>2 DEF tag
      <3>2. i \in At(tag, b)
        BY <1>1, <3>1, AtConcat
      <3> QED BY <3>2 DEF tag
    <2> HIDE DEF s
    <2>3. ASSUME NEW i \in At(TagOf(thinking), s) PROVE i > k
      <3>1. i \in At(tag, s) /\ i \in Int
        BY DEF At, tag
      <3> QED BY <1>2, <2>2, <3>1
    <2>4. k \in 0..Len(s)
      BY <1>2, <2>1
    <2>5. Parsed[<<s, thinking>>] =
             Mark(SubSeq(s, 1, k), thinking) \o Parsed[<<SubSeq(s, k + 1, Len(s)), thinking>>]
      BY <2>1, <2>3, <2>4, CutFront
    <2> QED BY <2>1, <2>5 DEF s
  <1> QED BY <1>2, <1>3, <1>4 DEF tag, Continues

\* A tag: what precedes it is yielded.
LEMMA PassTagKeeps ==
    ASSUME NEW thinking \in BOOLEAN, NEW b \in Seq(Chars), At(TagOf(thinking), b) # {},
           NEW i, i = Min(At(TagOf(thinking), b))
    PROVE  /\ i \in 1..(Len(b) - Len(TagOf(thinking)) + 1)
           /\ Continues(b, thinking, Mark(SubSeq(b, 1, i - 1), thinking),
                        SubSeq(b, i + Len(TagOf(thinking)), Len(b)), ~thinking)
  <1> DEFINE tag == TagOf(thinking)
  <1>1. tag \in Seq(Chars) /\ tag # <<>> /\ Len(tag) \in Nat \ {0}
    BY TagOfType
  <1>2. /\ i \in At(tag, b) /\ i \in 1..(Len(b) - Len(tag) + 1)
        /\ \A j \in At(tag, b) : i <= j
    BY <1>1, AtFacts
  <1>3. ASSUME NEW x \in Seq(Chars)
        PROVE  Parsed[<<b \o x, thinking>>] =
                    Mark(SubSeq(b, 1, i - 1), thinking)
                       \o Parsed[<<SubSeq(b, i + Len(tag), Len(b)) \o x, ~thinking>>]
    <2> DEFINE s == b \o x
    <2>1. i - 1 \in 0..Len(b) /\ i + Len(tag) - 1 \in 0..Len(b)
      BY <1>1, <1>2
    <2>2. s \in Seq(Chars) /\ Len(s) = Len(b) + Len(x) /\ SubSeq(s, 1, i - 1) = SubSeq(b, 1, i - 1)
      BY <2>1, SubOfConcat
    <2>3. SubSeq(s, i + Len(tag), Len(s)) = SubSeq(b, i + Len(tag), Len(b)) \o x
      <3> DEFINE k == i + Len(tag) - 1
      <3> HIDE DEF tag
      <3>1. k \in 0..Len(b) /\ k + 1 = i + Len(tag)
        BY <1>1, <1>2, <2>1
      <3> HIDE DEF k
      <3>2. SubSeq(s, k + 1, Len(s)) = SubSeq(b, k + 1, Len(b)) \o x
        BY <3>1, SubOfConcat
      <3> QED BY <3>1, <3>2
    <2>4. i \in At(tag, s)
      BY <1>1, <1>2, AtConcat
    <2>5. ASSUME NEW j \in At(tag, s) PROVE i <= j
      <3>1. j \in Nat \ {0}
        BY DEF At
      <3>2. CASE j < i
        <4>1. j \in 1..(Len(b) - Len(tag) + 1)
          BY <1>2, <3>1, <3>2
        <4>2. j \in At(tag, b)
          BY <1>1, <4>1, AtConcat
        <4> QED BY <1>2, <4>2
      <3> QED BY <1>2, <3>1, <3>2
    <2> HIDE DEF s, tag
    <2>6. Min(At(tag, s)) = i
      <3>1. At(tag, s) # {}
        BY <2>4
      <3>2. /\ Min(At(tag, s)) \in At(tag, s) /\ Min(At(tag, s)) \in 1..(Len(s) - Len(tag) + 1)
            /\ \A j \in At(tag, s) : Min(At(tag, s)) <= j
        BY <1>1, <2>2, <3>1, AtFacts
      <3> QED BY <1>2, <2>4, <2>5, <3>2
    <2>7. Parsed[<<s, thinking>>] =
             Mark(SubSeq(s, 1, i - 1), thinking) \o Parsed[<<SubSeq(s, i + Len(tag), Len(s)), ~thinking>>]
      BY <2>2, <2>4, <2>6, ParsedDef DEF tag
    <2> QED BY <2>2, <2>3, <2>7 DEF s
  <1> QED BY <1>2, <1>3 DEF Continues

-----------------------------------------------------------------------------
(* The splitter. *)

Sents == Seq(Chars) \ {<<>>}
SplitterState == [buf : Seq(Chars), out : Seq(Sents)]

\* TakeChar without its EXCEPT, and with the sentence it yields as a sequence.
LEMMA TakeCharIs ==
    ASSUME NEW st \in SplitterState, NEW ch \in Chars
    PROVE  LET b == Append(st.buf, ch)
           IN  /\ b \in Seq(Chars) /\ Len(b) = Len(st.buf) + 1
               /\ TakeChar(st, ch) \in SplitterState
               /\ ~(Ends(ch) /\ Len(b) >= MinChars) =>
                     TakeChar(st, ch).buf = b /\ TakeChar(st, ch).out = st.out
               /\ Ends(ch) /\ Len(b) >= MinChars =>
                     /\ TakeChar(st, ch).buf = <<>>
                     /\ TakeChar(st, ch).out = st.out \o Kept(b)
  <1> DEFINE b == Append(st.buf, ch)
  <1>1. b \in Seq(Chars) /\ Len(b) = Len(st.buf) + 1
    BY AppendProperties DEF SplitterState
  <1> HIDE DEF b
  <1>2. Kept(b) \in Seq(Sents) /\ st.out \in Seq(Sents) /\ st.buf \in Seq(Chars)
    BY <1>1, KeptType DEF Sents, SplitterState
  <1>3. CASE ~(Ends(ch) /\ Len(b) >= MinChars)
    <2>1. TakeChar(st, ch) = [st EXCEPT !.buf = b]
      BY <1>3 DEF TakeChar, b
    <2>2. TakeChar(st, ch) = [buf |-> b, out |-> st.out]
      BY <2>1 DEF SplitterState
    <2> QED BY <1>1, <1>2, <1>3, <2>2 DEF SplitterState, b
  <1>4. CASE Ends(ch) /\ Len(b) >= MinChars
    <2>1. TakeChar(st, ch) =
             [buf |-> <<>>,
              out |-> IF Strip(b) = <<>> THEN st.out ELSE Append(st.out, Strip(b))]
      BY <1>4 DEF TakeChar, b
    <2>2. st.out \o Kept(b) = IF Strip(b) = <<>> THEN st.out ELSE Append(st.out, Strip(b))
      <3>1. CASE Strip(b) = <<>>
        <4>1. Kept(b) = <<>>
          BY <3>1 DEF Kept
        <4> QED BY <1>2, <3>1, <4>1, ConcatEmptySeq
      <3>2. CASE Strip(b) # <<>>
        <4>1. Kept(b) = <<Strip(b)>>
          BY <3>2 DEF Kept
        <4>2. Strip(b) \in Sents
          <5>1. <<Strip(b)>> \in Seq(Sents) /\ <<Strip(b)>>[1] = Strip(b) /\ Len(<<Strip(b)>>) = 1
            BY <1>2, <4>1
          <5> QED BY <5>1, ElementOfSeq
        <4> QED BY <1>2, <3>2, <4>1, <4>2, AppendIsConcat
      <3> QED BY <3>1, <3>2
    <2>3. TakeChar(st, ch) = [buf |-> <<>>, out |-> st.out \o Kept(b)]
      BY <2>1, <2>2
    <2>4. st.out \o Kept(b) \in Seq(Sents)
      BY <1>2, ConcatProperties
    <2> QED BY <1>1, <1>4, <2>3, <2>4 DEF SplitterState, b
  <1> QED BY <1>3, <1>4 DEF b

LEMMA TakeCharKeeps ==
    ASSUME NEW st \in SplitterState, EndsIn(st.buf) = {}, NEW ch \in Chars
    PROVE  /\ EndsIn(TakeChar(st, ch).buf) = {}
           /\ \A x \in Seq(Chars), complete \in BOOLEAN :
                 st.out \o Sentences(Append(st.buf, ch) \o x, complete) =
                    TakeChar(st, ch).out \o Sentences(TakeChar(st, ch).buf \o x, complete)
  <1> DEFINE b == Append(st.buf, ch)
  <1>1. /\ b \in Seq(Chars) /\ Len(b) = Len(st.buf) + 1
        /\ st.buf \in Seq(Chars) /\ st.out \in Seq(Sents)
        /\ \A i \in 1..Len(st.buf) : b[i] = st.buf[i]
        /\ b[Len(b)] = ch
    BY AppendProperties DEF SplitterState
  <1>2. MinChars \in Nat \ {0}
    BY SplitterAssumption
  <1> HIDE DEF b
  <1>3. ASSUME NEW i \in EndsIn(b), i # Len(b) PROVE FALSE
    <2>1. i \in MinChars..Len(b) /\ Ends(b[i]) /\ i \in 1..Len(st.buf)
      BY <1>1, <1>2, <1>3 DEF EndsIn
    <2>2. b[i] = st.buf[i]
      BY <1>1, <2>1
    <2>3. i \in EndsIn(st.buf)
      BY <2>1, <2>2 DEF EndsIn
    <2> QED BY <2>3
  <1>4. CASE ~(Ends(ch) /\ Len(b) >= MinChars)
    <2>1. EndsIn(b) = {}
      BY <1>1, <1>3, <1>4 DEF EndsIn
    <2> QED BY <1>4, <2>1, TakeCharIs DEF b
  <1>5. CASE Ends(ch) /\ Len(b) >= MinChars
    <2>1. TakeChar(st, ch).buf = <<>> /\ TakeChar(st, ch).out = st.out \o Kept(b)
      BY <1>5, TakeCharIs DEF b
    <2>2. EndsIn(<<>>) = {}
      BY <1>2 DEF EndsIn
    <2>3. ASSUME NEW x \in Seq(Chars), NEW complete \in BOOLEAN
          PROVE  st.out \o Sentences(b \o x, complete) =
                    (st.out \o Kept(b)) \o Sentences(<<>> \o x, complete)
      <3> DEFINE s == b \o x
      <3>1. /\ s \in Seq(Chars) /\ Len(s) = Len(b) + Len(x)
            /\ \A i \in 1..Len(b) : s[i] = b[i]
            /\ SubSeq(s, 1, Len(b)) = SubSeq(b, 1, Len(b))
            /\ SubSeq(s, Len(b) + 1, Len(s)) = SubSeq(b, Len(b) + 1, Len(b)) \o x
        <4> DEFINE k == Len(b)
        <4>1. b \in Seq(Chars) /\ k \in 0..Len(b)
          BY <1>1
        <4> HIDE DEF k
        <4>2. /\ s \in Seq(Chars) /\ Len(s) = Len(b) + Len(x)
              /\ \A i \in 1..Len(b) : s[i] = b[i]
              /\ SubSeq(s, 1, k) = SubSeq(b, 1, k)
              /\ SubSeq(s, k + 1, Len(s)) = SubSeq(b, k + 1, Len(b)) \o x
          BY ONLY <4>1, x \in Seq(Chars), SubOfConcat
        <4> QED BY <4>2 DEF k
      <3>2. SubSeq(b, 1, Len(b)) = b /\ SubSeq(b, Len(b) + 1, Len(b)) = <<>>
        BY <1>1, SubSeqFull, SubSeqEmpty
      <3> HIDE DEF s
      <3>3. Len(b) \in EndsIn(s)
        BY <1>1, <1>2, <1>5, <3>1 DEF EndsIn
      <3>4. ASSUME NEW j \in EndsIn(s) PROVE Len(b) <= j
        <4>1. j \in Nat /\ j \in MinChars..Len(s) /\ Ends(s[j])
          BY <1>2 DEF EndsIn
        <4>2. CASE j < Len(b)
          <5>1. j \in EndsIn(b)
            BY <1>1, <1>2, <3>1, <4>1, <4>2 DEF EndsIn
          <5> QED BY <1>3, <4>1, <4>2, <5>1
        <4> QED BY <1>1, <4>1, <4>2
      <3>5. Min(EndsIn(s)) = Len(b)
        <4>1. /\ Min(EndsIn(s)) \in EndsIn(s) /\ Min(EndsIn(s)) \in 1..Len(s)
              /\ \A i \in EndsIn(s) : Min(EndsIn(s)) <= i
          BY <3>1, <3>3, EndsFacts
        <4> QED BY <1>1, <3>3, <3>4, <4>1
      <3>6. Sentences(s, complete) = Kept(b) \o Sentences(x, complete)
        <4>1. SubSeq(s, Len(b) + 1, Len(s)) = x
          BY <3>1, <3>2, ConcatEmptySeq
        <4> QED BY <3>1, <3>2, <3>3, <3>5, <4>1, SentencesDef
      <3>7. <<>> \o x = x
        BY ConcatEmptySeq
      <3>8. Kept(b) \in Seq(Sents) /\ Sentences(x, complete) \in Seq(Sents)
        BY <1>1, KeptType, SentencesDef DEF Sents
      <3> DEFINE rest == Sentences(x, complete)
                 kept == Kept(b)
      <3>9. st.out \o (kept \o rest) = (st.out \o kept) \o rest
        <4> DEFINE out == st.out
        <4>1. rest \in Seq(Sents) /\ kept \in Seq(Sents) /\ out \in Seq(Sents)
          BY <1>1, <3>8
        <4> HIDE DEF rest, kept, out
        <4>2. out \o (kept \o rest) = (out \o kept) \o rest
          BY ONLY <4>1, ConcatAssociative
        <4> QED BY <4>2 DEF out
      <3> QED BY <3>6, <3>7, <3>9 DEF s
    <2> QED BY <2>1, <2>2, <2>3 DEF b
  <1> QED BY <1>4, <1>5

LEMMA AppendConcat ==
    ASSUME NEW S, NEW s \in Seq(S), NEW e \in S, NEW x \in Seq(S)
    PROVE  /\ <<e>> \o x \in Seq(S)
           /\ Append(s, e) \o x = s \o (<<e>> \o x)
  <1>1. <<e>> \in Seq(S)
    OBVIOUS
  <1>2. Append(s, e) = s \o <<e>>
    BY AppendIsConcat
  <1>3. (s \o <<e>>) \o x = s \o (<<e>> \o x)
    BY <1>1, ConcatAssociative
  <1> QED BY <1>1, <1>2, <1>3, ConcatProperties

\* The loop of feed satisfies its equation.
Loop(b, t, f) ==
    /\ f[0] = [buf |-> b, out |-> <<>>]
    /\ \A n \in 1..Len(t) : f[n] = TakeChar(f[n - 1], t[n])

LEMMA FeedLoop ==
    ASSUME NEW b \in Seq(Chars), NEW t \in Seq(Chars)
    PROVE  \E f : Loop(b, t, f) /\ FeedText(b, t) = f[Len(t)]
  <1> DEFINE D == 0..Len(t)
             Base == {0}
             m == [n \in D |-> n]
             next == [n \in D |-> n - 1]
             first == [n \in D |-> [buf |-> b, out |-> <<>>]]
             H == [n \in D |-> [st \in SplitterState |-> TakeChar(st, t[n])]]
             Body(g, n) == IF n = 0 THEN [buf |-> b, out |-> <<>>] ELSE TakeChar(g[n - 1], t[n])
             Fed == CHOOSE g : g = [n \in D |-> Body(g, n)]
  <1>1. Descends(D, Base, m, next)
    BY DEF Descends
  <1>2. StaysIn(SplitterState, D, Base, first, H)
    <2>1. ASSUME NEW n \in D \ Base, NEW st \in SplitterState PROVE H[n][st] \in SplitterState
      <3>1. t[n] \in Chars
        OBVIOUS
      <3> QED BY <3>1, TakeCharIs
    <2>2. ASSUME NEW n \in D PROVE first[n] \in SplitterState
      BY DEF SplitterState
    <2> HIDE DEF D, Base, first, H
    <2> QED BY <2>1, <2>2 DEF StaysIn
  <1>3. PICK f \in [D -> SplitterState] : Unfolds(f, D, Base, next, first, H)
    <2> HIDE DEF D, Base, m, next, first, H
    <2> QED BY ONLY <1>1, <1>2, Recursion
  <1>4. f = [n \in D |-> Body(f, n)]
    <2>1. ASSUME NEW n \in D PROVE f[n] = Body(f, n)
      <3>1. CASE n = 0
        BY <1>3, <3>1 DEF Unfolds
      <3>2. CASE n # 0
        <4>1. n - 1 \in D /\ f[n - 1] \in SplitterState
          BY <3>2
        <4>2. f[n] = H[n][f[n - 1]]
          BY <1>3, <3>2 DEF Unfolds
        <4> QED BY <3>2, <4>1, <4>2
      <3> QED BY <3>1, <3>2
    <2> HIDE DEF Body, D
    <2> QED BY <2>1
  <1>5. Fed = [n \in D |-> Body(Fed, n)]
    <2> HIDE DEF D, Body
    <2> QED BY <1>4
  <1>6. FeedText(b, t) = Fed[Len(t)]
    BY DEF FeedText
  <1> HIDE DEF Fed
  <1>7. Loop(b, t, Fed)
    BY <1>5 DEF Loop
  <1> QED BY <1>6, <1>7

\* After n characters of t, fed to a splitter that held b.
KeptSoFar(b, t, st, n) ==
    /\ st \in SplitterState
    /\ EndsIn(st.buf) = {}
    /\ \A x \in Seq(Chars), complete \in BOOLEAN :
          Sentences(b \o (SubSeq(t, 1, n) \o x), complete) =
             st.out \o Sentences(st.buf \o x, complete)

LEMMA FeedStarts ==
    ASSUME NEW b \in Seq(Chars), EndsIn(b) = {}, NEW t \in Seq(Chars)
    PROVE  KeptSoFar(b, t, [buf |-> b, out |-> <<>>], 0)
  <1>1. [buf |-> b, out |-> <<>>] \in SplitterState
    BY DEF SplitterState
  <1>2. ASSUME NEW x \in Seq(Chars), NEW complete \in BOOLEAN
        PROVE  Sentences(b \o (SubSeq(t, 1, 0) \o x), complete) =
                  <<>> \o Sentences(b \o x, complete)
    <2>1. SubSeq(t, 1, 0) = <<>>
      BY SubSeqEmpty
    <2>2. <<>> \o x = x
      BY ConcatEmptySeq
    <2>3. b \o x \in Seq(Chars)
      BY ConcatProperties
    <2>4. Sentences(b \o x, complete) \in Seq(Sents)
      BY <2>3, SentencesDef DEF Sents
    <2>5. <<>> \o Sentences(b \o x, complete) = Sentences(b \o x, complete)
      BY <2>4, ConcatEmptySeq
    <2> QED BY <2>1, <2>2, <2>5
  <1> QED BY <1>1, <1>2 DEF KeptSoFar

LEMMA FeedContinues ==
    ASSUME NEW b \in Seq(Chars), NEW t \in Seq(Chars), NEW n \in Nat, n + 1 <= Len(t),
           NEW st, KeptSoFar(b, t, st, n)
    PROVE  KeptSoFar(b, t, TakeChar(st, t[n + 1]), n + 1)
  <1> DEFINE ch == t[n + 1]
             front == SubSeq(t, 1, n)
  <1>1. /\ st \in SplitterState /\ EndsIn(st.buf) = {} /\ st.buf \in Seq(Chars)
        /\ \A x \in Seq(Chars), complete \in BOOLEAN :
              Sentences(b \o (SubSeq(t, 1, n) \o x), complete) =
                 st.out \o Sentences(st.buf \o x, complete)
    BY DEF KeptSoFar, SplitterState
  <1>2. n \in 0..Len(t) /\ n + 1 \in 1..Len(t)
    OBVIOUS
  <1>3. ch \in Chars /\ <<ch>> \in Seq(Chars)
    BY <1>2
  <1>4. front \in Seq(Chars)
    <2>1. \A i \in 1..n : t[i] \in Chars
      BY <1>2
    <2> QED BY <1>2, <2>1, Sub
  <1>5. SubSeq(t, 1, n + 1) = front \o <<ch>>
    <2>1. SubSeq(t, 1, n + 1) = SubSeq(t, 1, (n + 1) - 1) \o <<t[n + 1]>>
      BY <1>2, SubSeqRecursiveSecond
    <2> QED BY <2>1
  <1> HIDE DEF ch, front
  <1>6. ASSUME NEW x \in Seq(Chars), NEW complete \in BOOLEAN
        PROVE  Sentences(b \o (SubSeq(t, 1, n + 1) \o x), complete) =
                  TakeChar(st, ch).out \o Sentences(TakeChar(st, ch).buf \o x, complete)
    <2>1. (front \o <<ch>>) \o x = front \o (<<ch>> \o x)
      BY ONLY <1>3, <1>4, x \in Seq(Chars), ConcatAssociative
    <2>2. <<ch>> \o x \in Seq(Chars) /\ Append(st.buf, ch) \o x = st.buf \o (<<ch>> \o x)
      <3> DEFINE held == st.buf
      <3>1. held \in Seq(Chars) /\ ch \in Chars
        BY <1>1, <1>3
      <3> HIDE DEF held
      <3>2. <<ch>> \o x \in Seq(Chars) /\ Append(held, ch) \o x = held \o (<<ch>> \o x)
        BY ONLY <3>1, x \in Seq(Chars), AppendConcat
      <3> QED BY <3>2 DEF held
    <2>3. Sentences(b \o (front \o (<<ch>> \o x)), complete) =
             st.out \o Sentences(st.buf \o (<<ch>> \o x), complete)
      BY <1>1, <2>2 DEF front
    <2>4. st.out \o Sentences(Append(st.buf, ch) \o x, complete) =
             TakeChar(st, ch).out \o Sentences(TakeChar(st, ch).buf \o x, complete)
      BY <1>1, <1>3, TakeCharKeeps
    <2> QED BY <1>5, <2>1, <2>2, <2>3, <2>4
  <1>7. TakeChar(st, ch) \in SplitterState /\ EndsIn(TakeChar(st, ch).buf) = {}
    BY <1>1, <1>3, TakeCharIs, TakeCharKeeps
  <1> QED BY <1>6, <1>7 DEF KeptSoFar, ch

\* feed yields the sentences that are complete with the text, and keeps the rest.
LEMMA FeedKeeps ==
    ASSUME NEW b \in Seq(Chars), EndsIn(b) = {}, NEW t \in Seq(Chars)
    PROVE  LET r == FeedText(b, t)
           IN  /\ r \in SplitterState
               /\ EndsIn(r.buf) = {}
               /\ \A x \in Seq(Chars), complete \in BOOLEAN :
                     Sentences(b \o (t \o x), complete) =
                        r.out \o Sentences(r.buf \o x, complete)
  <1>1. PICK f : Loop(b, t, f) /\ FeedText(b, t) = f[Len(t)]
    BY FeedLoop
  <1> DEFINE S == {n \in Nat : n <= Len(t) => KeptSoFar(b, t, f[n], n)}
  <1>2. 0 \in S
    BY <1>1, FeedStarts DEF Loop
  <1>3. ASSUME NEW n \in Nat, n \in S PROVE n + 1 \in S
    <2>1. ASSUME n + 1 <= Len(t) PROVE KeptSoFar(b, t, f[n + 1], n + 1)
      <3>1. n + 1 \in 1..Len(t) /\ (n + 1) - 1 = n
        BY <2>1
      <3>2. f[n + 1] = TakeChar(f[n], t[n + 1])
        BY <1>1, <3>1 DEF Loop
      <3>3. KeptSoFar(b, t, f[n], n)
        BY <1>3, <3>1
      <3> QED BY <2>1, <3>2, <3>3, FeedContinues
    <2>2. n + 1 \in Nat
      OBVIOUS
    <2> QED BY <2>1, <2>2
  <1>4. Nat \subseteq S
    <2>1. S \subseteq Nat
      OBVIOUS
    <2> HIDE DEF S
    <2> QED BY ONLY <1>2, <1>3, <2>1, SetInduction
  <1>5. KeptSoFar(b, t, FeedText(b, t), Len(t))
    <2>1. Len(t) \in Nat /\ Len(t) <= Len(t)
      OBVIOUS
    <2> QED BY <1>1, <1>4, <2>1
  <1>6. SubSeq(t, 1, Len(t)) = t
    BY SubSeqFull
  <1> QED BY <1>5, <1>6 DEF KeptSoFar

-----------------------------------------------------------------------------
(* The reply and the arguments, of a concatenation. *)

\* A recursion over a sequence that takes its head.
LEMMA TailDescends ==
    ASSUME NEW S
    PROVE  Descends(Seq(S), {<<>>}, [s \in Seq(S) |-> Len(s)], [s \in Seq(S) |-> Tail(s)])
  <1>1. ASSUME NEW s \in Seq(S) \ {<<>>} PROVE Tail(s) \in Seq(S) /\ Len(Tail(s)) < Len(s)
    BY HeadTailProperties
  <1> QED BY <1>1 DEF Descends

LEMMA TailInduction ==
    ASSUME NEW S, NEW T, <<>> \in T, \A s \in Seq(S) \ {<<>>} : Tail(s) \in T => s \in T
    PROVE  Seq(S) \subseteq T
  <1> DEFINE m == [s \in Seq(S) |-> Len(s)]
             next == [s \in Seq(S) |-> Tail(s)]
  <1>1. Descends(Seq(S), {<<>>}, m, next)
    BY TailDescends
  <1>2. \A s \in Seq(S) \ {<<>>} : next[s] \in T => s \in T
    OBVIOUS
  <1>3. Seq(S) \cap {<<>>} \subseteq T
    OBVIOUS
  <1> HIDE DEF m, next
  <1> QED BY ONLY <1>1, <1>2, <1>3, DescentInduction

LEMMA HeadTailConcat ==
    ASSUME NEW S, NEW s \in Seq(S), s # <<>>, NEW t \in Seq(S)
    PROVE  /\ s \o t \in Seq(S) /\ s \o t # <<>>
           /\ Head(s \o t) = Head(s) /\ Tail(s \o t) = Tail(s) \o t
  <1> DEFINE c == s \o t
  <1>1. /\ c \in Seq(S) /\ Len(c) = Len(s) + Len(t) /\ Len(s) \in Nat \ {0}
        /\ \A i \in 1..Len(s) : c[i] = s[i]
    BY ConcatProperties, EmptySeq
  <1>2. SubSeq(c, 2, Len(c)) = SubSeq(s, 2, Len(s)) \o t
    <2>1. 1 \in 0..Len(s)
      BY <1>1
    <2>2. SubSeq(c, 1 + 1, Len(c)) = SubSeq(s, 1 + 1, Len(s)) \o t
      BY <2>1, SubOfConcat
    <2> QED BY <2>2
  <1> HIDE DEF c
  <1>3. c # <<>> /\ c[1] = s[1]
    BY <1>1
  <1>4. Tail(c) = SubSeq(c, 2, Len(c)) /\ Tail(s) = SubSeq(s, 2, Len(s))
    BY <1>1, <1>3, TailIsSubSeq
  <1> QED BY <1>1, <1>2, <1>3, <1>4 DEF c

\* The form in which the provers use associativity when all three are bound.
LEMMA TextsAssociate == \A u, v, w \in Seq(Chars) : u \o (v \o w) = (u \o v) \o w
  BY ConcatAssociative

LEMMA ReplyConcat ==
    ASSUME NEW t \in Seq(Chars \X BOOLEAN)
    PROVE  \A s \in Seq(Chars \X BOOLEAN) : Reply[s \o t] = Reply[s] \o Reply[t]
  <1> DEFINE E == Chars \X BOOLEAN
             T == {s \in Seq(E) : Reply[s \o t] = Reply[s] \o Reply[t]}
  <1>1. <<>> \in T
    <2>1. <<>> \in Seq(E) /\ <<>> \o t = t
      BY ConcatEmptySeq
    <2>2. Reply[<<>>] = <<>> /\ Reply[t] \in Seq(Chars)
      BY <2>1, ReplyDef
    <2>3. <<>> \o Reply[t] = Reply[t]
      BY <2>2, ConcatEmptySeq
    <2> QED BY <2>1, <2>2, <2>3
  <1>2. ASSUME NEW s \in Seq(E) \ {<<>>}, Tail(s) \in T PROVE s \in T
    <2> DEFINE own == IF Head(s)[2] THEN <<>> ELSE <<Head(s)[1]>>
    <2>1. Head(s) \in E /\ Tail(s) \in Seq(E)
      BY HeadTailProperties
    <2>2. s \o t \in Seq(E) /\ s \o t # <<>> /\ Head(s \o t) = Head(s) /\ Tail(s \o t) = Tail(s) \o t
      BY HeadTailConcat
    <2>3. own \in Seq(Chars)
      BY <2>1
    <2>4. Reply[s] = own \o Reply[Tail(s)]
      BY ReplyDef
    <2>5. Reply[s \o t] = own \o Reply[Tail(s) \o t]
      BY <2>2, ReplyDef
    <2>6. Reply[Tail(s) \o t] = Reply[Tail(s)] \o Reply[t]
      BY <1>2
    <2>7. Reply[Tail(s)] \in Seq(Chars) /\ Reply[t] \in Seq(Chars)
      BY <2>1, ReplyDef
    <2> DEFINE u == Reply[Tail(s)]
               v == Reply[t]
    <2> HIDE DEF own, u, v
    <2>8. own \o (u \o v) = (own \o u) \o v
      <3>1. u \in Seq(Chars) /\ v \in Seq(Chars)
        BY <2>7 DEF u, v
      <3> QED BY ONLY TextsAssociate, <2>3, <3>1
    <2> QED BY <2>4, <2>5, <2>6, <2>8 DEF u, v
  <1>3. Seq(E) \subseteq T
    <2> HIDE DEF T, E
    <2> QED BY ONLY <1>1, <1>2, TailInduction
  <1> QED BY <1>3

LEMMA ReplyMark ==
    ASSUME NEW thinking \in BOOLEAN
    PROVE  \A s \in Seq(Chars) : Reply[Mark(s, thinking)] = IF thinking THEN <<>> ELSE s
  <1> DEFINE T == {s \in Seq(Chars) : Reply[Mark(s, thinking)] = IF thinking THEN <<>> ELSE s}
             E == Chars \X BOOLEAN
  <1>1. <<>> \in T
    <2>1. Mark(<<>>, thinking) = <<>> /\ <<>> \in Seq(E)
      BY DEF Mark
    <2>2. Reply[<<>>] = <<>>
      BY <2>1, ReplyDef
    <2> QED BY <2>1, <2>2
  <1>2. ASSUME NEW s \in Seq(Chars) \ {<<>>}, Tail(s) \in T PROVE s \in T
    <2> DEFINE m == Mark(s, thinking)
    <2>1. /\ m \in Seq(E) /\ Len(m) = Len(s) /\ Len(s) \in Nat \ {0}
          /\ \A i \in 1..Len(s) : m[i] = <<s[i], thinking>>
      BY MarkType, EmptySeq
    <2>2. Tail(s) \in Seq(Chars) /\ Len(Tail(s)) = Len(s) - 1 /\ Head(s) \in Chars
          /\ \A i \in 1..(Len(s) - 1) : Tail(s)[i] = s[i + 1]
      BY HeadTailProperties
    <2>3. /\ Mark(Tail(s), thinking) \in Seq(E) /\ Len(Mark(Tail(s), thinking)) = Len(s) - 1
          /\ \A i \in 1..(Len(s) - 1) : Mark(Tail(s), thinking)[i] = <<Tail(s)[i], thinking>>
      BY <2>2, MarkType
    <2> HIDE DEF m
    <2>4. m # <<>>
      BY <2>1
    <2>5. Tail(m) \in Seq(E) /\ Len(Tail(m)) = Len(s) - 1
          /\ \A i \in 1..(Len(s) - 1) : Tail(m)[i] = m[i + 1]
      BY <2>1, <2>4, HeadTailProperties
    <2>6. ASSUME NEW i \in 1..(Len(s) - 1) PROVE Tail(m)[i] = Mark(Tail(s), thinking)[i]
      <3>1. i + 1 \in 1..Len(s)
        BY <2>1
      <3> QED BY <2>1, <2>2, <2>3, <2>5, <3>1
    <2>7. Tail(m) = Mark(Tail(s), thinking)
      BY <2>3, <2>5, <2>6, SeqEqual
    <2>8. Head(m) = <<Head(s), thinking>>
      BY <2>1, <2>4
    <2>9. Reply[m] = (IF thinking THEN <<>> ELSE <<Head(s)>>) \o Reply[Tail(m)]
      <3>1. Head(m)[2] = thinking /\ Head(m)[1] = Head(s)
        BY <2>8
      <3>2. Reply[m] = (IF Head(m)[2] THEN <<>> ELSE <<Head(m)[1]>>) \o Reply[Tail(m)]
        BY <2>1, <2>4, ReplyDef
      <3> QED BY ONLY <3>1, <3>2
    <2>10. Reply[Tail(m)] = IF thinking THEN <<>> ELSE Tail(s)
      BY <1>2, <2>7
    <2>11. <<Head(s)>> \o Tail(s) = s
      <3>1. SubSeq(s, 1, Len(s)) = <<s[1]>> \o SubSeq(s, 1 + 1, Len(s))
        BY <2>1, SubSeqRecursiveFirst
      <3>2. SubSeq(s, 1, Len(s)) = s /\ Tail(s) = SubSeq(s, 2, Len(s)) /\ Head(s) = s[1]
        BY SubSeqFull, TailIsSubSeq
      <3> QED BY <3>1, <3>2
    <2>12. Reply[m] = IF thinking THEN <<>> ELSE s
      <3>1. CASE thinking
        BY <2>9, <2>10, <3>1
      <3>2. CASE ~thinking
        BY <2>9, <2>10, <2>11, <3>2
      <3> QED BY <3>1, <3>2
    <2> QED BY <2>12 DEF m
  <1>3. Seq(Chars) \subseteq T
    <2> HIDE DEF T
    <2> QED BY ONLY <1>1, <1>2, TailInduction
  <1> QED BY <1>3

LEMMA JoinedAppend ==
    ASSUME NEW n, NEW f \in Fragments
    PROVE  \A s \in Seq(Fragments) :
              Joined(Append(s, f), n) = Joined(s, n) \o (IF f.index = n THEN f.args ELSE <<>>)
  <1> DEFINE Own(e) == IF e.index = n THEN e.args ELSE <<>>
             T == {s \in Seq(Fragments) : Joined(Append(s, f), n) = Joined(s, n) \o Own(f)}
  <1>1. ASSUME NEW e \in Fragments PROVE Own(e) \in Seq(Args)
    <2>1. e.args = <<>> \/ \E a \in Args : e.args = <<a>>
      BY DEF Fragments
    <2>2. \A a \in Args : <<a>> \in Seq(Args)
      OBVIOUS
    <2>3. e.args \in Seq(Args)
      BY <2>1, <2>2, EmptySeq
    <2> QED BY <2>3
  <1> HIDE DEF Own
  <1>2. ASSUME NEW s \in Seq(Fragments)
        PROVE  Joined(s, n) \in Seq(Args) /\
               (s # <<>> => Joined(s, n) = Own(Head(s)) \o Joined(Tail(s), n))
    BY JoinedDef DEF Own
  <1>3. <<>> \in T
    <2>1. <<>> \in Seq(Fragments) /\ Joined(<<>>, n) = <<>>
      <3>1. <<>> \in Seq(Fragments)
        OBVIOUS
      <3> QED BY <3>1, JoinedDef
    <2>2. /\ Append(<<>>, f) = <<f>> /\ <<f>> \in Seq(Fragments) /\ <<f>> # <<>>
          /\ Head(<<f>>) = f /\ Tail(<<f>>) = <<>>
      OBVIOUS
    <2>3. Joined(<<f>>, n) = Own(f) \o <<>>
      BY <1>2, <2>1, <2>2
    <2>4. Own(f) \o <<>> = Own(f) /\ <<>> \o Own(f) = Own(f)
      BY <1>1, ConcatEmptySeq
    <2> QED BY <2>1, <2>2, <2>3, <2>4
  <1>4. ASSUME NEW s \in Seq(Fragments) \ {<<>>}, Tail(s) \in T PROVE s \in T
    <2>1. Head(s) \in Fragments /\ Tail(s) \in Seq(Fragments)
      BY HeadTailProperties
    <2>2. /\ Append(s, f) \in Seq(Fragments) /\ Append(s, f) # <<>>
          /\ Head(Append(s, f)) = Head(s) /\ Tail(Append(s, f)) = Append(Tail(s), f)
      BY AppendProperties, HeadTailAppend
    <2>3. Joined(Append(s, f), n) = Own(Head(s)) \o Joined(Append(Tail(s), f), n)
      BY <1>2, <2>2
    <2>4. Joined(Append(Tail(s), f), n) = Joined(Tail(s), n) \o Own(f)
      BY <1>4
    <2>5. Joined(s, n) = Own(Head(s)) \o Joined(Tail(s), n)
      BY <1>2
    <2> DEFINE u == Own(Head(s))
               v == Joined(Tail(s), n)
               w == Own(f)
    <2>6. u \in Seq(Args) /\ v \in Seq(Args) /\ w \in Seq(Args)
      BY <1>1, <1>2, <2>1
    <2> HIDE DEF u, v, w
    <2>7. u \o (v \o w) = (u \o v) \o w
      BY <2>6, ConcatAssociative
    <2> QED BY <2>3, <2>4, <2>5, <2>7 DEF u, v, w
  <1>5. Seq(Fragments) \subseteq T
    <2> HIDE DEF T
    <2> QED BY ONLY <1>3, <1>4, TailInduction
  <1> QED BY <1>5 DEF Own

-----------------------------------------------------------------------------
(* The steps. *)

LEMMA StripKept ==
    ASSUME NEW s \in Seq(Chars), NEW out \in Seq(Sents)
    PROVE  (IF Strip(s) = <<>> THEN out ELSE Append(out, Strip(s))) = out \o Kept(s)
  <1>1. Kept(s) \in Seq(Sents)
    BY KeptType DEF Sents
  <1>2. CASE Strip(s) = <<>>
    <2>1. Kept(s) = <<>>
      BY <1>2 DEF Kept
    <2>2. out \o <<>> = out
      BY ConcatEmptySeq
    <2> QED BY <1>2, <2>1, <2>2
  <1>3. CASE Strip(s) # <<>>
    <2>1. Kept(s) = <<Strip(s)>>
      BY <1>3 DEF Kept
    <2>2. Strip(s) \in Sents
      BY <1>1, <2>1
    <2>3. Append(out, Strip(s)) = out \o <<Strip(s)>>
      BY <2>2, AppendIsConcat
    <2> QED BY <1>3, <2>1, <2>3
  <1> QED BY <1>2, <1>3

\* The types of the text's path; with them, the splitter keeps no finished sentence.
TextType ==
    /\ inThinking \in BOOLEAN
    /\ buffer \in Seq(Chars) /\ fed \in Seq(Chars) /\ buf \in Seq(Chars)
    /\ phase \in {"recv", "scan", "tail", "ended"}
    /\ said \in Seq(Chars \X BOOLEAN)
    /\ spoken \in Seq(Sents)
    /\ EndsIn(buf) = {}

LEMMA SayIs ==
    ASSUME TextType, NEW text \in Seq(Chars), Say(text)
    PROVE  LET shown == IF inThinking THEN <<>> ELSE text
               r     == FeedText(buf, shown)
           IN  /\ shown \in Seq(Chars) /\ r \in SplitterState
               /\ said' = said \o Mark(text, inThinking)
               /\ buf' = r.buf /\ spoken' = spoken \o r.out
               /\ said' \in Seq(Chars \X BOOLEAN) /\ buf' \in Seq(Chars)
               /\ spoken' \in Seq(Sents) /\ EndsIn(buf') = {}
               /\ \A x \in Seq(Chars), complete \in BOOLEAN :
                     Sentences(buf \o (shown \o x), complete) =
                        r.out \o Sentences(buf' \o x, complete)
  <1> DEFINE shown == IF inThinking THEN <<>> ELSE text
             r == FeedText(buf, shown)
  <1>1. shown \in Seq(Chars)
    OBVIOUS
  <1>2. buf \in Seq(Chars) /\ EndsIn(buf) = {} /\ inThinking \in BOOLEAN
        /\ said \in Seq(Chars \X BOOLEAN) /\ spoken \in Seq(Sents)
    BY DEF TextType
  <1>3. said' = said \o Mark(text, inThinking) /\ buf' = r.buf /\ spoken' = spoken \o r.out
    BY DEF Say
  <1>4. Mark(text, inThinking) \in Seq(Chars \X BOOLEAN)
    BY <1>2, MarkType
  <1>5. said' \in Seq(Chars \X BOOLEAN)
    BY ONLY <1>2, <1>3, <1>4, ConcatProperties
  <1> HIDE DEF shown
  <1>6. /\ r \in SplitterState /\ EndsIn(r.buf) = {}
        /\ \A x \in Seq(Chars), complete \in BOOLEAN :
              Sentences(buf \o (shown \o x), complete) = r.out \o Sentences(r.buf \o x, complete)
    BY <1>1, <1>2, FeedKeeps
  <1> HIDE DEF r
  <1>7. r.buf \in Seq(Chars) /\ r.out \in Seq(Sents)
    BY <1>6 DEF SplitterState
  <1>8. spoken' \in Seq(Sents)
    BY ONLY <1>2, <1>3, <1>7, ConcatProperties
  <1> QED BY <1>1, <1>3, <1>5, <1>6, <1>7, <1>8 DEF shown, r

LEMMA StartsIs == Tag = TagOf(inThinking) /\ Starts = At(TagOf(inThinking), buffer)
  BY DEF Tag, TagOf, Starts, At

LEMMA PassTagType ==
    ASSUME TextType, PassTag
    PROVE  /\ Min(Starts) \in 1..(Len(buffer) - Len(TagOf(inThinking)) + 1)
           /\ Upto(Min(Starts) - 1) \in Seq(Chars)
           /\ buffer' = SubSeq(buffer, Min(Starts) + Len(TagOf(inThinking)), Len(buffer))
           /\ buffer' \in Seq(Chars)
           /\ inThinking' = ~inThinking
           /\ Continues(buffer, inThinking, Mark(Upto(Min(Starts) - 1), inThinking),
                        buffer', inThinking')
  <1> DEFINE i == Min(Starts)
  <1>1. buffer \in Seq(Chars) /\ inThinking \in BOOLEAN
    BY DEF TextType
  <1>2. TagOf(inThinking) \in Seq(Chars) /\ Len(TagOf(inThinking)) \in Nat \ {0}
    BY <1>1, TagOfType
  <1>3. /\ i \in 1..(Len(buffer) - Len(TagOf(inThinking)) + 1)
        /\ Continues(buffer, inThinking, Mark(SubSeq(buffer, 1, i - 1), inThinking),
                     SubSeq(buffer, i + Len(TagOf(inThinking)), Len(buffer)), ~inThinking)
    <2>1. At(TagOf(inThinking), buffer) # {} /\ i = Min(At(TagOf(inThinking), buffer))
      BY StartsIs DEF PassTag
    <2> QED BY <1>1, <2>1, PassTagKeeps
  <1>4. buffer' = SubSeq(buffer, i + Len(TagOf(inThinking)), Len(buffer)) /\ inThinking' = ~inThinking
    BY StartsIs DEF PassTag, From
  <1> HIDE DEF i
  <1>5. SubSeq(buffer, i + Len(TagOf(inThinking)), Len(buffer)) \in Seq(Chars)
    BY <1>1, <1>2, <1>3, Sub
  <1>6. SubSeq(buffer, 1, i - 1) \in Seq(Chars)
    BY <1>1, <1>2, <1>3, Sub
  <1> QED BY <1>3, <1>4, <1>5, <1>6 DEF Upto, i

LEMMA ReleaseType ==
    ASSUME TextType, Release
    PROVE  /\ Releasable \in 0..Len(buffer)
           /\ Upto(Releasable) \in Seq(Chars)
           /\ buffer' = SubSeq(buffer, Releasable + 1, Len(buffer))
           /\ buffer' \in Seq(Chars)
           /\ inThinking' = inThinking
           /\ Len(buffer') < Len(TagOf(inThinking))
           /\ Continues(buffer, inThinking, Mark(Upto(Releasable), inThinking),
                        buffer', inThinking')
  <1> DEFINE k == Releasable
  <1>1. buffer \in Seq(Chars) /\ inThinking \in BOOLEAN
    BY DEF TextType
  <1>2. At(TagOf(inThinking), buffer) = {}
    BY StartsIs DEF Release
  <1>3. /\ k \in 0..Len(buffer)
        /\ Len(SubSeq(buffer, k + 1, Len(buffer))) < Len(TagOf(inThinking))
        /\ Continues(buffer, inThinking, Mark(SubSeq(buffer, 1, k), inThinking),
                     SubSeq(buffer, k + 1, Len(buffer)), inThinking)
    <2>1. k = IF Len(buffer) < Len(TagOf(inThinking)) THEN 0
              ELSE Len(buffer) - Len(TagOf(inThinking)) + 1
      BY StartsIs DEF Releasable
    <2> HIDE DEF k
    <2> QED BY ONLY <1>1, <1>2, <2>1, ReleaseKeeps
  <1>4. buffer' = SubSeq(buffer, k + 1, Len(buffer)) /\ inThinking' = inThinking
    BY DEF Release, From
  <1> HIDE DEF k
  <1>5. SubSeq(buffer, k + 1, Len(buffer)) \in Seq(Chars) /\ SubSeq(buffer, 1, k) \in Seq(Chars)
    BY <1>1, <1>3, Sub
  <1> QED BY <1>3, <1>4, <1>5 DEF Upto, k

TextStep == RecvPiece \/ ScanTag \/ ScanRest \/ StreamEnds \/ SpeakTail \/ UNCHANGED <<textVars, phase>>

\* The steps of the calls leave the text alone.
LEMMA NextText == [Next]_vars => TextStep
  BY DEF Next, vars, callVars, textVars, parserVars, TextStep,
         RecvFragment, RecvFinish

LEMMA TextTypeInit == Init => TextType
  <1> SUFFICES ASSUME Init PROVE TextType
    OBVIOUS
  <1>1. EndsIn(<<>>) = {}
    BY SplitterAssumption DEF EndsIn
  <1>2. <<>> \in Seq(Chars) /\ <<>> \in Seq(Chars \X BOOLEAN) /\ <<>> \in Seq(Sents)
    OBVIOUS
  <1>3. /\ inThinking = FALSE /\ buffer = <<>> /\ fed = <<>> /\ phase = "recv"
        /\ said = <<>> /\ buf = <<>> /\ spoken = <<>>
    BY DEF Init, ParserInit
  <1> QED BY <1>1, <1>2, <1>3 DEF TextType

LEMMA TextTypeNext == TextType /\ TextStep => TextType'
  <1> SUFFICES ASSUME TextType, TextStep PROVE TextType'
    OBVIOUS
  <1>1. CASE RecvPiece
    <2>1. PICK piece \in Texts(MaxPiece) : fed' = fed \o piece /\ buffer' = buffer \o piece
      BY <1>1 DEF RecvPiece, AddPiece
    <2>2. piece \in Seq(Chars)
      <3>1. PICK k \in 0..MaxPiece : piece \in [1..k -> Chars]
        BY DEF Texts
      <3>2. k \in Nat
        BY <3>1
      <3> QED BY <3>1, <3>2
    <2>3. fed \in Seq(Chars) /\ buffer \in Seq(Chars)
      BY DEF TextType
    <2>4. fed' \in Seq(Chars) /\ buffer' \in Seq(Chars)
      BY <2>1, <2>2, <2>3, ConcatProperties
    <2>5. UNCHANGED <<inThinking, said, buf, spoken>> /\ phase' = "scan"
      BY <1>1 DEF RecvPiece, AddPiece
    <2> QED BY <2>4, <2>5 DEF TextType
  <1>2. CASE ScanTag
    <2>1. PassTag /\ Say(Upto(Min(Starts) - 1)) /\ UNCHANGED <<fed, phase>>
      BY <1>2 DEF ScanTag
    <2>2. /\ Upto(Min(Starts) - 1) \in Seq(Chars)
          /\ buffer' \in Seq(Chars) /\ inThinking' = ~inThinking
      BY <2>1, PassTagType
    <2>3. /\ said' \in Seq(Chars \X BOOLEAN) /\ buf' \in Seq(Chars)
          /\ spoken' \in Seq(Sents) /\ EndsIn(buf') = {}
      BY <2>1, <2>2, SayIs
    <2> QED BY <2>1, <2>2, <2>3 DEF TextType
  <1>3. CASE ScanRest
    <2>1. Release /\ Say(Upto(Releasable)) /\ phase' = "recv" /\ UNCHANGED fed
      BY <1>3 DEF ScanRest
    <2>2. Upto(Releasable) \in Seq(Chars) /\ buffer' \in Seq(Chars) /\ inThinking' = inThinking
      BY <2>1, ReleaseType
    <2>3. /\ said' \in Seq(Chars \X BOOLEAN) /\ buf' \in Seq(Chars)
          /\ spoken' \in Seq(Sents) /\ EndsIn(buf') = {}
      BY <2>1, <2>2, SayIs
    <2> QED BY <2>1, <2>2, <2>3 DEF TextType
  <1>4. CASE StreamEnds
    <2>1. FlushParser /\ Say(buffer) /\ phase' = "tail" /\ UNCHANGED fed /\ buffer \in Seq(Chars)
      BY <1>4 DEF StreamEnds, TextType
    <2>2. buffer' = <<>> /\ inThinking' = inThinking
      BY <2>1 DEF FlushParser
    <2>3. /\ said' \in Seq(Chars \X BOOLEAN) /\ buf' \in Seq(Chars)
          /\ spoken' \in Seq(Sents) /\ EndsIn(buf') = {}
      BY <2>1, SayIs
    <2> QED BY <2>1, <2>2, <2>3 DEF TextType
  <1>5. CASE SpeakTail
    <2>1. /\ phase' = "ended" /\ buf' = <<>> /\ UNCHANGED <<parserVars, fed, said>>
          /\ spoken' = IF Strip(buf) = <<>> THEN spoken ELSE Append(spoken, Strip(buf))
      BY <1>5 DEF SpeakTail
    <2>2. EndsIn(<<>>) = {}
      BY SplitterAssumption DEF EndsIn
    <2>3. buf \in Seq(Chars) /\ spoken \in Seq(Sents)
      BY DEF TextType
    <2>4. spoken' = spoken \o Kept(buf) /\ Kept(buf) \in Seq(Sents)
      BY <2>1, <2>3, StripKept, KeptType DEF Sents
    <2>5. spoken' \in Seq(Sents)
      BY ONLY <2>3, <2>4, ConcatProperties
    <2>6. UNCHANGED <<inThinking, buffer, fed, said>>
      BY <2>1 DEF parserVars
    <2> QED BY <2>1, <2>2, <2>5, <2>6 DEF TextType
  <1>6. CASE UNCHANGED <<textVars, phase>>
    <2>1. UNCHANGED <<inThinking, buffer, fed, said, buf, spoken, phase>>
      BY <1>6 DEF textVars, parserVars
    <2> QED BY <2>1 DEF TextType
  <1> QED BY <1>1, <1>2, <1>3, <1>4, <1>5, <1>6 DEF TextStep

-----------------------------------------------------------------------------
(* The deltas. *)

\* What has been said, and what the parser would say of the buffer and any continuation,
\* is what the reference reads in the whole text; in feed's loop as well.
ParserInv ==
    /\ phase \in {"recv", "scan"} => Continues(fed, FALSE, said, buffer, inThinking)
    /\ phase = "recv" => Len(buffer) < Len(TagOf(inThinking))
    /\ phase \in {"tail", "ended"} => said = Parsed[<<fed, FALSE>>]

LEMMA ParsedType ==
    ASSUME NEW s \in Seq(Chars), NEW thinking \in BOOLEAN
    PROVE  Parsed[<<s, thinking>>] \in Seq(Chars \X BOOLEAN)
  BY ParsedDef

\* Too short a text has no tag.
LEMMA ShortIsMarked ==
    ASSUME NEW s \in Seq(Chars), NEW thinking \in BOOLEAN, Len(s) < Len(TagOf(thinking))
    PROVE  Parsed[<<s, thinking>>] = Mark(s, thinking)
  <1>1. Len(TagOf(thinking)) \in Nat
    BY TagOfType
  <1>2. At(TagOf(thinking), s) = {}
    BY <1>1 DEF At
  <1> QED BY <1>2, ParsedDef

\* A segment is said: what follows it is what it leaves.
LEMMA SaidGrows ==
    ASSUME TextType, TextType', Continues(fed, FALSE, said, buffer, inThinking), UNCHANGED fed,
           NEW m \in Seq(Chars \X BOOLEAN), said' = said \o m,
           Continues(buffer, inThinking, m, buffer', inThinking')
    PROVE  Continues(fed', FALSE, said', buffer', inThinking')
  <1> SUFFICES ASSUME NEW x \in Seq(Chars)
               PROVE  Parsed[<<fed' \o x, FALSE>>] = said' \o Parsed[<<buffer' \o x, inThinking'>>]
    BY DEF Continues
  <1> DEFINE rest == Parsed[<<buffer' \o x, inThinking'>>]
  <1>1. Parsed[<<fed \o x, FALSE>>] = said \o (m \o rest)
    BY DEF Continues
  <1>2. rest \in Seq(Chars \X BOOLEAN)
    <2>1. buffer' \in Seq(Chars) /\ inThinking' \in BOOLEAN
      BY DEF TextType
    <2>2. buffer' \o x \in Seq(Chars)
      BY <2>1, ConcatProperties
    <2> QED BY <2>1, <2>2, ParsedType
  <1>3. said \in Seq(Chars \X BOOLEAN)
    BY DEF TextType
  <1> HIDE DEF rest
  <1>4. (said \o m) \o rest = said \o (m \o rest)
    BY ONLY <1>2, <1>3, m \in Seq(Chars \X BOOLEAN), ConcatAssociative
  <1> QED BY <1>1, <1>4 DEF rest

\* A piece is added to the text and to the buffer.
LEMMA PieceAdded ==
    ASSUME NEW s \in Seq(Chars), NEW b \in Seq(Chars), NEW piece \in Seq(Chars),
           NEW m, NEW thinking, Continues(s, FALSE, m, b, thinking)
    PROVE  Continues(s \o piece, FALSE, m, b \o piece, thinking)
  <1> SUFFICES ASSUME NEW x \in Seq(Chars)
               PROVE  Parsed[<<(s \o piece) \o x, FALSE>>] = m \o Parsed[<<(b \o piece) \o x, thinking>>]
    BY DEF Continues
  <1>1. piece \o x \in Seq(Chars)
    BY ConcatProperties
  <1>2. (s \o piece) \o x = s \o (piece \o x)
    BY TextsAssociate
  <1>3. (b \o piece) \o x = b \o (piece \o x)
    BY TextsAssociate
  <1> QED BY <1>1, <1>2, <1>3 DEF Continues

LEMMA ParserInvNext ==
    ASSUME TextType, TextType', ParserInv, TextStep
    PROVE  ParserInv'
  <1>1. CASE RecvPiece
    <2>1. PICK piece \in Texts(MaxPiece) : fed' = fed \o piece /\ buffer' = buffer \o piece
      BY <1>1 DEF RecvPiece, AddPiece
    <2>2. piece \in Seq(Chars)
      <3>1. PICK k \in 0..MaxPiece : piece \in [1..k -> Chars]
        BY DEF Texts
      <3>2. k \in Nat
        BY <3>1
      <3> QED BY <3>1, <3>2
    <2>3. fed \in Seq(Chars) /\ buffer \in Seq(Chars)
      BY DEF TextType
    <2>4. phase = "recv" /\ phase' = "scan" /\ UNCHANGED <<inThinking, said>>
      BY <1>1 DEF RecvPiece, AddPiece
    <2>5. Continues(fed \o piece, FALSE, said, buffer \o piece, inThinking)
      BY <2>2, <2>3, <2>4, PieceAdded DEF ParserInv
    <2> QED BY <2>1, <2>4, <2>5 DEF ParserInv
  <1>2. CASE ScanTag
    <2>1. PassTag /\ Say(Upto(Min(Starts) - 1)) /\ UNCHANGED <<fed, phase>> /\ phase = "scan"
      BY <1>2 DEF ScanTag
    <2> DEFINE t == Upto(Min(Starts) - 1)
    <2>2. t \in Seq(Chars) /\ Continues(buffer, inThinking, Mark(t, inThinking), buffer', inThinking')
      BY <2>1, PassTagType
    <2> HIDE DEF t
    <2>3. said' = said \o Mark(t, inThinking) /\ Mark(t, inThinking) \in Seq(Chars \X BOOLEAN)
      BY <2>1, <2>2, SayIs, MarkType DEF TextType, t
    <2>4. Continues(fed', FALSE, said', buffer', inThinking')
      BY <2>1, <2>2, <2>3, SaidGrows DEF ParserInv
    <2> QED BY <2>1, <2>4 DEF ParserInv
  <1>3. CASE ScanRest
    <2>1. Release /\ Say(Upto(Releasable)) /\ phase = "scan" /\ phase' = "recv" /\ UNCHANGED fed
      BY <1>3 DEF ScanRest
    <2> DEFINE t == Upto(Releasable)
    <2>2. /\ t \in Seq(Chars) /\ inThinking' = inThinking /\ Len(buffer') < Len(TagOf(inThinking))
          /\ Continues(buffer, inThinking, Mark(t, inThinking), buffer', inThinking')
      BY <2>1, ReleaseType
    <2> HIDE DEF t
    <2>3. said' = said \o Mark(t, inThinking) /\ Mark(t, inThinking) \in Seq(Chars \X BOOLEAN)
      BY <2>1, <2>2, SayIs, MarkType DEF TextType, t
    <2>4. Continues(fed', FALSE, said', buffer', inThinking')
      BY <2>1, <2>2, <2>3, SaidGrows DEF ParserInv
    <2> QED BY <2>1, <2>2, <2>4 DEF ParserInv
  <1>4. CASE StreamEnds
    <2>1. FlushParser /\ Say(buffer) /\ phase = "recv" /\ phase' = "tail" /\ UNCHANGED fed
      BY <1>4 DEF StreamEnds
    <2>2. buffer \in Seq(Chars) /\ fed \in Seq(Chars) /\ inThinking \in BOOLEAN
      BY DEF TextType
    <2>3. said' = said \o Mark(buffer, inThinking)
      BY <2>1, <2>2, SayIs
    <2>4. Parsed[<<fed \o <<>>, FALSE>>] = said \o Parsed[<<buffer \o <<>>, inThinking>>]
      <3>1. <<>> \in Seq(Chars)
        OBVIOUS
      <3> QED BY <2>1, <3>1 DEF ParserInv, Continues
    <2>5. fed \o <<>> = fed /\ buffer \o <<>> = buffer
      BY <2>2, ConcatEmptySeq
    <2>6. Parsed[<<buffer, inThinking>>] = Mark(buffer, inThinking)
      BY <2>1, <2>2, ShortIsMarked DEF ParserInv
    <2> QED BY <2>1, <2>3, <2>4, <2>5, <2>6 DEF ParserInv
  <1>5. CASE SpeakTail
    <2>1. phase = "tail" /\ phase' = "ended" /\ UNCHANGED <<fed, said>>
      BY <1>5 DEF SpeakTail
    <2> QED BY <2>1 DEF ParserInv
  <1>6. CASE UNCHANGED <<textVars, phase>>
    <2>1. UNCHANGED <<inThinking, buffer, fed, said, phase>>
      BY <1>6 DEF textVars, parserVars
    <2> QED BY <2>1 DEF ParserInv
  <1> QED BY <1>1, <1>2, <1>3, <1>4, <1>5, <1>6 DEF TextStep

LEMMA ParserInvInit == Init => ParserInv
  <1> SUFFICES ASSUME Init PROVE ParserInv
    OBVIOUS
  <1>1. inThinking = FALSE /\ buffer = <<>> /\ fed = <<>> /\ phase = "recv" /\ said = <<>>
    BY DEF Init, ParserInit
  <1>2. Continues(<<>>, FALSE, <<>>, <<>>, FALSE)
    <2> SUFFICES ASSUME NEW x \in Seq(Chars)
                 PROVE  Parsed[<<<<>> \o x, FALSE>>] = <<>> \o Parsed[<<<<>> \o x, FALSE>>]
      BY DEF Continues
    <2>1. <<>> \o x = x
      BY ConcatEmptySeq
    <2>2. Parsed[<<x, FALSE>>] \in Seq(Chars \X BOOLEAN)
      BY ParsedType
    <2>3. <<>> \o Parsed[<<x, FALSE>>] = Parsed[<<x, FALSE>>]
      BY <2>2, ConcatEmptySeq
    <2> QED BY <2>1, <2>3
  <1>3. Len(<<>>) < Len(TagOf(FALSE))
    <2>1. Len(TagOf(FALSE)) \in Nat \ {0}
      BY TagOfType
    <2>2. Len(<<>>) = 0
      OBVIOUS
    <2> DEFINE l == Len(TagOf(FALSE))
    <2> HIDE DEF l
    <2>3. l \in Nat \ {0}
      BY <2>1 DEF l
    <2>4. 0 < l
      BY ONLY <2>3
    <2> QED BY <2>2, <2>4 DEF l
  <1> QED BY <1>1, <1>2, <1>3 DEF ParserInv

LEMMA ParserInvImplies ==
    ASSUME TextType, ParserInv
    PROVE  DeltasAreParsed
  <1>1. said \in Seq(Chars \X BOOLEAN) /\ buffer \in Seq(Chars) /\ fed \in Seq(Chars)
        /\ inThinking \in BOOLEAN
    BY DEF TextType
  <1>2. ASSUME NEW r \in Seq(Chars \X BOOLEAN) PROVE IsPrefix(said, said \o r)
    <2>1. Len(said) \in 0..Len(said) /\ Len(said \o r) = Len(said) + Len(r) /\ Len(r) \in Nat
      BY <1>1, ConcatProperties
    <2>2. SubSeq(said \o r, 1, Len(said)) = SubSeq(said, 1, Len(said))
      BY ONLY <1>1, <2>1, r \in Seq(Chars \X BOOLEAN), SubOfConcat
    <2> QED BY <2>1, <2>2 DEF IsPrefix
  <1>3. CASE phase \in {"recv", "scan"}
    <2>1. <<>> \in Seq(Chars) /\ fed \o <<>> = fed /\ buffer \o <<>> = buffer
      BY <1>1, ConcatEmptySeq
    <2>2. Parsed[<<fed, FALSE>>] = said \o Parsed[<<buffer, inThinking>>]
      BY <1>3, <2>1 DEF ParserInv, Continues
    <2>3. Parsed[<<buffer, inThinking>>] \in Seq(Chars \X BOOLEAN)
      BY <1>1, ParsedType
    <2>4. IsPrefix(said, Parsed[<<fed, FALSE>>])
      BY <1>2, <2>2, <2>3
    <2> QED BY <1>3, <2>4 DEF DeltasAreParsed
  <1>4. CASE phase \in {"tail", "ended"}
    <2>1. said = Parsed[<<fed, FALSE>>]
      BY <1>4 DEF ParserInv
    <2>2. IsPrefix(said, said)
      <3>1. <<>> \in Seq(Chars \X BOOLEAN) /\ said \o <<>> = said
        BY <1>1, ConcatEmptySeq
      <3> QED BY <1>2, <3>1
    <2> QED BY <2>1, <2>2 DEF DeltasAreParsed
  <1> QED BY <1>3, <1>4 DEF TextType

-----------------------------------------------------------------------------
(* The sentences. *)

\* With any continuation, the sentences of s are those of out and then of rest.
Speaks(s, out, rest) ==
    \A x \in Seq(Chars), complete \in BOOLEAN :
        Sentences(s \o x, complete) = out \o Sentences(rest \o x, complete)

SplitterInv ==
    /\ phase # "ended" => Speaks(Reply[said], spoken, buf)
    /\ phase = "ended" => spoken = Sentences(Reply[said], TRUE)

LEMMA SpeaksOn ==
    ASSUME NEW s \in Seq(Chars), NEW out \in Seq(Sents), NEW b \in Seq(Chars), Speaks(s, out, b),
           NEW shown \in Seq(Chars), NEW more \in Seq(Sents), NEW b2 \in Seq(Chars),
           \A x \in Seq(Chars), complete \in BOOLEAN :
              Sentences(b \o (shown \o x), complete) = more \o Sentences(b2 \o x, complete)
    PROVE  Speaks(s \o shown, out \o more, b2)
  <1> SUFFICES ASSUME NEW x \in Seq(Chars), NEW complete \in BOOLEAN
               PROVE  Sentences((s \o shown) \o x, complete) =
                         (out \o more) \o Sentences(b2 \o x, complete)
    BY DEF Speaks
  <1> DEFINE rest == Sentences(b2 \o x, complete)
  <1>1. shown \o x \in Seq(Chars) /\ b2 \o x \in Seq(Chars)
    BY ConcatProperties
  <1>2. rest \in Seq(Sents)
    BY <1>1, SentencesDef DEF Sents
  <1>3. (s \o shown) \o x = s \o (shown \o x)
    BY TextsAssociate
  <1>4. Sentences(s \o (shown \o x), complete) = out \o (more \o rest)
    <2>1. Sentences(s \o (shown \o x), complete) = out \o Sentences(b \o (shown \o x), complete)
      BY <1>1 DEF Speaks
    <2>2. Sentences(b \o (shown \o x), complete) = more \o rest
      OBVIOUS
    <2> QED BY <2>1, <2>2
  <1> HIDE DEF rest
  <1>5. (out \o more) \o rest = out \o (more \o rest)
    BY ONLY out \in Seq(Sents), more \in Seq(Sents), <1>2, ConcatAssociative
  <1> QED BY <1>3, <1>4, <1>5 DEF rest

LEMMA SaySpeaks ==
    ASSUME TextType, Speaks(Reply[said], spoken, buf), NEW text \in Seq(Chars), Say(text)
    PROVE  Speaks(Reply[said'], spoken', buf')
  <1> DEFINE shown == IF inThinking THEN <<>> ELSE text
             r == FeedText(buf, shown)
             m == Mark(text, inThinking)
  <1>1. /\ shown \in Seq(Chars) /\ r \in SplitterState
        /\ said' = said \o m /\ buf' = r.buf /\ spoken' = spoken \o r.out
        /\ \A x \in Seq(Chars), complete \in BOOLEAN :
              Sentences(buf \o (shown \o x), complete) = r.out \o Sentences(buf' \o x, complete)
    BY SayIs
  <1>2. /\ said \in Seq(Chars \X BOOLEAN) /\ inThinking \in BOOLEAN
        /\ buf \in Seq(Chars) /\ spoken \in Seq(Sents)
    BY DEF TextType
  <1>3. m \in Seq(Chars \X BOOLEAN)
    BY <1>2, MarkType
  <1>4. Reply[m] = shown
    BY <1>2, ReplyMark
  <1> HIDE DEF m, shown, r
  <1>5. Reply[said'] = Reply[said] \o shown
    BY <1>1, <1>2, <1>3, <1>4, ReplyConcat
  <1>6. Reply[said] \in Seq(Chars)
    BY <1>2, ReplyDef
  <1>7. r.buf \in Seq(Chars) /\ r.out \in Seq(Sents)
    BY <1>1 DEF SplitterState
  <1> DEFINE s == Reply[said]
             more == r.out
             b2 == r.buf
             b == buf
             out == spoken
  <1>8. /\ s \in Seq(Chars) /\ out \in Seq(Sents) /\ b \in Seq(Chars) /\ Speaks(s, out, b)
        /\ shown \in Seq(Chars) /\ more \in Seq(Sents) /\ b2 \in Seq(Chars)
        /\ \A x \in Seq(Chars), complete \in BOOLEAN :
              Sentences(b \o (shown \o x), complete) = more \o Sentences(b2 \o x, complete)
    BY <1>1, <1>2, <1>6, <1>7
  <1> HIDE DEF s, more, b2, b, out
  <1>9. Speaks(s \o shown, out \o more, b2)
    BY ONLY <1>8, SpeaksOn
  <1> QED BY <1>1, <1>5, <1>9 DEF s, more, b2, b, out

LEMMA SplitterInvNext ==
    ASSUME TextType, TextType', SplitterInv, TextStep
    PROVE  SplitterInv'
  <1>1. CASE RecvPiece
    <2>1. phase = "recv" /\ phase' = "scan" /\ UNCHANGED <<said, buf, spoken>>
      BY <1>1 DEF RecvPiece
    <2> QED BY <2>1 DEF SplitterInv
  <1>2. CASE ScanTag
    <2>1. PassTag /\ Say(Upto(Min(Starts) - 1)) /\ phase = "scan" /\ phase' = "scan"
      BY <1>2 DEF ScanTag
    <2>2. Speaks(Reply[said'], spoken', buf')
      BY <2>1, PassTagType, SaySpeaks DEF SplitterInv
    <2> QED BY <2>1, <2>2 DEF SplitterInv
  <1>3. CASE ScanRest
    <2>1. Release /\ Say(Upto(Releasable)) /\ phase = "scan" /\ phase' = "recv"
      BY <1>3 DEF ScanRest
    <2>2. Speaks(Reply[said'], spoken', buf')
      BY <2>1, ReleaseType, SaySpeaks DEF SplitterInv
    <2> QED BY <2>1, <2>2 DEF SplitterInv
  <1>4. CASE StreamEnds
    <2>1. Say(buffer) /\ phase = "recv" /\ phase' = "tail" /\ buffer \in Seq(Chars)
      BY <1>4 DEF StreamEnds, TextType
    <2>2. Speaks(Reply[said'], spoken', buf')
      BY <2>1, SaySpeaks DEF SplitterInv
    <2> QED BY <2>1, <2>2 DEF SplitterInv
  <1>5. CASE SpeakTail
    <2>1. /\ phase = "tail" /\ phase' = "ended" /\ UNCHANGED said
          /\ spoken' = IF Strip(buf) = <<>> THEN spoken ELSE Append(spoken, Strip(buf))
      BY <1>5 DEF SpeakTail
    <2>2. /\ buf \in Seq(Chars) /\ spoken \in Seq(Sents) /\ EndsIn(buf) = {}
          /\ said \in Seq(Chars \X BOOLEAN)
      BY DEF TextType
    <2>3. spoken' = spoken \o Kept(buf)
      BY <2>1, <2>2, StripKept
    <2>4. Sentences(Reply[said] \o <<>>, TRUE) = spoken \o Sentences(buf \o <<>>, TRUE)
      <3>1. <<>> \in Seq(Chars)
        OBVIOUS
      <3> QED BY <2>1, <3>1 DEF SplitterInv, Speaks
    <2>5. Reply[said] \o <<>> = Reply[said] /\ buf \o <<>> = buf
      <3>1. Reply[said] \in Seq(Chars)
        BY <2>2, ReplyDef
      <3> QED BY <2>2, <3>1, ConcatEmptySeq
    <2>6. Sentences(buf, TRUE) = Kept(buf)
      BY <2>2, SentencesDef
    <2> QED BY <2>1, <2>3, <2>4, <2>5, <2>6 DEF SplitterInv
  <1>6. CASE UNCHANGED <<textVars, phase>>
    <2>1. UNCHANGED <<said, buf, spoken, phase>>
      BY <1>6 DEF textVars
    <2> QED BY <2>1 DEF SplitterInv
  <1> QED BY <1>1, <1>2, <1>3, <1>4, <1>5, <1>6 DEF TextStep

LEMMA SplitterInvInit == Init => SplitterInv
  <1> SUFFICES ASSUME Init PROVE SplitterInv
    OBVIOUS
  <1>1. phase = "recv" /\ said = <<>> /\ buf = <<>> /\ spoken = <<>>
    BY DEF Init
  <1>2. Reply[<<>>] = <<>>
    <2>1. <<>> \in Seq(Chars \X BOOLEAN)
      OBVIOUS
    <2> QED BY <2>1, ReplyDef
  <1>3. Speaks(<<>>, <<>>, <<>>)
    <2> SUFFICES ASSUME NEW x \in Seq(Chars), NEW complete \in BOOLEAN
                 PROVE  Sentences(<<>> \o x, complete) = <<>> \o Sentences(<<>> \o x, complete)
      BY DEF Speaks
    <2>1. <<>> \o x = x
      BY ConcatEmptySeq
    <2>2. Sentences(x, complete) \in Seq(Sents)
      BY SentencesDef DEF Sents
    <2>3. <<>> \o Sentences(x, complete) = Sentences(x, complete)
      BY <2>2, ConcatEmptySeq
    <2> QED BY <2>1, <2>3
  <1> QED BY <1>1, <1>2, <1>3 DEF SplitterInv

LEMMA SplitterInvImplies ==
    ASSUME TextType, SplitterInv
    PROVE  SpokenAsShown
  <1>1. /\ said \in Seq(Chars \X BOOLEAN) /\ buf \in Seq(Chars) /\ EndsIn(buf) = {}
        /\ spoken \in Seq(Sents)
    BY DEF TextType
  <1>2. CASE phase = "ended"
    BY <1>2 DEF SplitterInv, SpokenAsShown
  <1>3. CASE phase # "ended"
    <2>1. Sentences(Reply[said] \o <<>>, FALSE) = spoken \o Sentences(buf \o <<>>, FALSE)
      <3>1. <<>> \in Seq(Chars)
        OBVIOUS
      <3> QED BY <1>3, <3>1 DEF SplitterInv, Speaks
    <2>2. Reply[said] \o <<>> = Reply[said] /\ buf \o <<>> = buf
      <3>1. Reply[said] \in Seq(Chars)
        BY <1>1, ReplyDef
      <3> QED BY <1>1, <3>1, ConcatEmptySeq
    <2>3. Sentences(buf, FALSE) = <<>>
      BY <1>1, SentencesDef
    <2>4. spoken \o <<>> = spoken
      BY <1>1, ConcatEmptySeq
    <2>5. spoken = Sentences(Reply[said], FALSE)
      BY <2>1, <2>2, <2>3, <2>4
    <2> QED BY <1>3, <2>5 DEF SpokenAsShown
  <1> QED BY <1>2, <1>3

-----------------------------------------------------------------------------
(* The tool calls. *)

FragsOf(s, n) == {k \in DOMAIN s : s[k].index = n}
NamedOf(s, n) == {k \in FragsOf(s, n) : s[k].id # NoId}
FirstOf(s, n) == Min(FragsOf(s, n))
IdIn(s, n)    == IF NamedOf(s, n) = {} THEN NoId ELSE s[Max(NamedOf(s, n))].id

\* Whole, of any fragments.
WholeOf(s, calls) ==
    /\ {calls[i].index : i \in DOMAIN calls} = {s[k].index : k \in DOMAIN s}
    /\ \A i, j \in DOMAIN calls :
          i < j => FirstOf(s, calls[i].index) < FirstOf(s, calls[j].index)
    /\ \A i \in DOMAIN calls : /\ calls[i].id = IdIn(s, calls[i].index)
                               /\ calls[i].args = Joined(s, calls[i].index)

LEMMA WholeIs ==
    ASSUME NEW calls
    PROVE  Whole(calls) <=> WholeOf(streamed, calls)
  <1>1. \A n : FragsOf(streamed, n) = {k \in DOMAIN streamed : streamed[k].index = n}
    BY DEF FragsOf
  <1>2. \A n : NamedOf(streamed, n) = {k \in FragsOf(streamed, n) : streamed[k].id # NoId}
    BY DEF NamedOf
  <1> QED BY DEF Whole, WholeOf, FirstOf, IdIn, NamedOf, FragsOf

\* What one more fragment changes.
LEMMA FragmentAdded ==
    ASSUME NEW s \in Seq(Fragments), NEW f \in Fragments, NEW n
    PROVE  LET s2 == Append(s, f)
           IN  /\ FragsOf(s2, n) # {} <=> FragsOf(s, n) # {} \/ f.index = n
               /\ FragsOf(s, n) # {} =>
                     FirstOf(s2, n) = FirstOf(s, n) /\ FirstOf(s, n) \in 1..Len(s)
               /\ FragsOf(s, n) = {} /\ f.index = n => FirstOf(s2, n) = Len(s) + 1
               /\ IdIn(s2, n) = IF f.index = n /\ f.id # NoId THEN f.id ELSE IdIn(s, n)
               /\ FragsOf(s, n) = {} => IdIn(s, n) = NoId
  <1> DEFINE s2 == Append(s, f)
             L  == Len(s)
             own == IF f.index = n THEN {L + 1} ELSE {}
             named == IF f.index = n /\ f.id # NoId THEN {L + 1} ELSE {}
  <1>1. /\ L \in Nat /\ DOMAIN s = 1..L /\ DOMAIN s2 = 1..(L + 1)
        /\ s2[L + 1] = f /\ \A k \in 1..L : s2[k] = s[k]
    <2>1. s2 \in Seq(Fragments) /\ Len(s2) = L + 1 /\ s2[L + 1] = f /\ \A k \in 1..L : s2[k] = s[k]
      BY AppendProperties
    <2> HIDE DEF s2
    <2> QED BY <2>1, LenProperties
  <1> HIDE DEF s2, L
  <1>2. FragsOf(s2, n) = FragsOf(s, n) \cup own
    BY <1>1 DEF FragsOf
  <1>3. NamedOf(s2, n) = NamedOf(s, n) \cup named
    BY <1>1, <1>2 DEF NamedOf, FragsOf
  <1>4. FragsOf(s, n) \subseteq 1..L /\ NamedOf(s, n) \subseteq 1..L
    BY <1>1 DEF NamedOf, FragsOf
  <1>5. ASSUME FragsOf(s, n) # {}
        PROVE  FirstOf(s2, n) = FirstOf(s, n) /\ FirstOf(s, n) \in 1..L
    <2>1. FirstOf(s, n) \in FragsOf(s, n) /\ \A k \in FragsOf(s, n) : FirstOf(s, n) <= k
      <3>1. FragsOf(s, n) \subseteq Nat
        BY <1>1, <1>4
      <3> QED BY <1>5, <3>1, MinIs DEF FirstOf
    <2>2. FirstOf(s2, n) \in FragsOf(s2, n) /\ \A k \in FragsOf(s2, n) : FirstOf(s2, n) <= k
      <3>1. FragsOf(s2, n) \subseteq Nat /\ FragsOf(s2, n) # {}
        BY <1>1, <1>2, <1>4, <1>5
      <3> QED BY <3>1, MinIs DEF FirstOf
    <2> HIDE DEF own
    <2>3. FirstOf(s2, n) <= FirstOf(s, n)
      BY <1>2, <2>1, <2>2
    <2>4. FirstOf(s, n) <= FirstOf(s2, n)
      <3>1. CASE FirstOf(s2, n) \in FragsOf(s, n)
        BY <2>1, <3>1
      <3>2. CASE FirstOf(s2, n) \in own
        <4>1. FirstOf(s2, n) = L + 1
          BY <3>2 DEF own
        <4> QED BY <1>1, <1>4, <2>1, <4>1
      <3> QED BY <1>2, <2>2, <3>1, <3>2
    <2>5. FirstOf(s, n) \in 1..L /\ FirstOf(s2, n) \in Int
      <3>1. FirstOf(s2, n) \in 1..L \/ FirstOf(s2, n) = L + 1
        BY <1>2, <1>4, <2>2 DEF own
      <3> QED BY <1>1, <1>4, <2>1, <3>1
    <2> QED BY <1>1, <2>3, <2>4, <2>5
  <1>6. ASSUME FragsOf(s, n) = {}, f.index = n PROVE FirstOf(s2, n) = L + 1
    <2>1. FragsOf(s2, n) = {L + 1}
      BY <1>2, <1>6
    <2>2. FirstOf(s2, n) \in {L + 1}
      <3> DEFINE S == {L + 1}
      <3>1. S \subseteq Nat /\ S # {}
        BY <1>1
      <3> HIDE DEF S
      <3>2. Min(S) \in S
        BY ONLY <3>1, MinIs
      <3> QED BY <2>1, <3>2 DEF FirstOf, S
    <2> QED BY <2>2
  <1>7. IdIn(s2, n) = IF f.index = n /\ f.id # NoId THEN f.id ELSE IdIn(s, n)
    <2>1. CASE f.index = n /\ f.id # NoId
      <3>1. NamedOf(s2, n) \subseteq 1..(L + 1) /\ L + 1 \in NamedOf(s2, n) /\ L + 1 \in Nat
        BY <1>1, <1>3, <1>4, <2>1
      <3>2. Max(NamedOf(s2, n)) \in NamedOf(s2, n) /\ Max(NamedOf(s2, n)) >= L + 1
        BY <3>1, MaxIs
      <3>3. Max(NamedOf(s2, n)) = L + 1
        BY <1>1, <3>1, <3>2
      <3> QED BY <1>1, <2>1, <3>1, <3>3 DEF IdIn
    <2>2. CASE ~(f.index = n /\ f.id # NoId)
      <3>1. NamedOf(s2, n) = NamedOf(s, n)
        BY <1>3, <2>2
      <3>2. CASE NamedOf(s, n) = {}
        BY <2>2, <3>1, <3>2 DEF IdIn
      <3>3. CASE NamedOf(s, n) # {}
        <4>1. Max(NamedOf(s, n)) \in 1..L
          <5>1. Max(NamedOf(s, n)) \in NamedOf(s, n)
            BY <1>1, <1>4, <3>3, MaxIs
          <5> QED BY <1>4, <5>1
        <4>2. s2[Max(NamedOf(s, n))] = s[Max(NamedOf(s, n))]
          BY <1>1, <4>1
        <4> QED BY <2>2, <3>1, <3>3, <4>2 DEF IdIn
      <3> QED BY <3>2, <3>3
    <2> QED BY <2>1, <2>2
  <1>8. FragsOf(s, n) = {} => IdIn(s, n) = NoId
    BY DEF IdIn, NamedOf
  <1>9. FragsOf(s2, n) # {} <=> FragsOf(s, n) # {} \/ f.index = n
    BY <1>2
  <1> QED BY <1>5, <1>6, <1>7, <1>8, <1>9 DEF s2, L

LEMMA JoinedNone ==
    ASSUME NEW n
    PROVE  \A s \in Seq(Fragments) : FragsOf(s, n) = {} => Joined(s, n) = <<>>
  <1> DEFINE T == {s \in Seq(Fragments) : FragsOf(s, n) = {} => Joined(s, n) = <<>>}
  <1>1. <<>> \in T
    <2>1. <<>> \in Seq(Fragments)
      OBVIOUS
    <2> QED BY <2>1, JoinedDef
  <1>2. ASSUME NEW s \in Seq(Fragments) \ {<<>>}, Tail(s) \in T PROVE s \in T
    <2> SUFFICES ASSUME FragsOf(s, n) = {} PROVE Joined(s, n) = <<>>
      OBVIOUS
    <2>1. /\ Tail(s) \in Seq(Fragments) /\ Len(Tail(s)) = Len(s) - 1
          /\ \A i \in 1..(Len(s) - 1) : Tail(s)[i] = s[i + 1]
      BY HeadTailProperties
    <2>2. Len(s) \in Nat \ {0} /\ DOMAIN s = 1..Len(s) /\ DOMAIN Tail(s) = 1..(Len(s) - 1)
      BY <2>1, EmptySeq, LenProperties
    <2>3. FragsOf(Tail(s), n) = {}
      <3>1. ASSUME NEW k \in 1..(Len(s) - 1) PROVE Tail(s)[k].index # n
        <4>1. k + 1 \in DOMAIN s
          BY <2>2
        <4> QED BY <2>1, <4>1 DEF FragsOf
      <3> QED BY <2>2, <3>1 DEF FragsOf
    <2>4. Head(s).index # n
      <3>1. 1 \in DOMAIN s /\ Head(s) = s[1]
        BY <2>2
      <3> QED BY <3>1 DEF FragsOf
    <2>5. Joined(s, n) = <<>> \o Joined(Tail(s), n)
      BY <2>4, JoinedDef
    <2>6. Joined(Tail(s), n) = <<>>
      BY <1>2, <2>3
    <2> QED BY <2>5, <2>6
  <1>3. Seq(Fragments) \subseteq T
    <2> HIDE DEF T
    <2> QED BY ONLY <1>1, <1>2, TailInduction
  <1> QED BY <1>3

LEMMA FragmentType ==
    ASSUME NEW f \in Fragments
    PROVE  /\ f.index \in Indexes /\ f.id \in Ids \cup {NoId} /\ f.args \in Seq(Args)
           /\ [f EXCEPT !.args = <<>>] \in CallDeltas
           /\ [f EXCEPT !.args = <<>>].index = f.index
           /\ [f EXCEPT !.args = <<>>].id = f.id
           /\ [f EXCEPT !.args = <<>>].args = <<>>
  <1>1. f.args = <<>> \/ \E a \in Args : f.args = <<a>>
    BY DEF Fragments
  <1>2. \A a \in Args : <<a>> \in Seq(Args)
    OBVIOUS
  <1>3. f.args \in Seq(Args)
    BY <1>1, <1>2, EmptySeq
  <1>4. <<>> \in Seq(Args)
    OBVIOUS
  <1>5. [f EXCEPT !.args = <<>>] = [index |-> f.index, id |-> f.id, args |-> <<>>]
    BY DEF Fragments
  <1>6. f.index \in Indexes /\ f.id \in Ids \cup {NoId}
    BY DEF Fragments
  <1>7. [index |-> f.index, id |-> f.id, args |-> <<>>] \in CallDeltas
    BY <1>4, <1>6 DEF CallDeltas
  <1> QED BY <1>3, <1>5, <1>6, <1>7

\* The entries after a fragment's call was looked up: its own may be new.
LEMMA WithCallIs ==
    ASSUME pending \in Seq(CallDeltas), NEW f \in Fragments
    PROVE  LET c   == WithCall(f)
               met == \E i \in DOMAIN pending : pending[i].index = f.index
           IN  /\ c \in Seq(CallDeltas)
               /\ DOMAIN c = IF met THEN 1..Len(pending) ELSE 1..(Len(pending) + 1)
               /\ DOMAIN pending = 1..Len(pending) /\ Len(pending) \in Nat
               /\ \A i \in 1..Len(pending) : c[i] = pending[i]
               /\ ~met => c[Len(pending) + 1] = [f EXCEPT !.args = <<>>]
  <1> DEFINE c == WithCall(f)
             met == \E i \in DOMAIN pending : pending[i].index = f.index
             e == [f EXCEPT !.args = <<>>]
  <1>1. DOMAIN pending = 1..Len(pending) /\ Len(pending) \in Nat
    BY LenProperties
  <1>2. CASE met
    <2>1. c = pending
      BY <1>2 DEF WithCall
    <2> QED BY <1>1, <1>2, <2>1
  <1>3. CASE ~met
    <2>1. c = Append(pending, e)
      BY <1>3 DEF WithCall
    <2>2. e \in CallDeltas
      BY FragmentType
    <2> HIDE DEF e, c
    <2>3. /\ c \in Seq(CallDeltas) /\ Len(c) = Len(pending) + 1
          /\ \A i \in 1..Len(pending) : c[i] = pending[i]
          /\ c[Len(pending) + 1] = e
      BY <2>1, <2>2, AppendProperties
    <2>4. DOMAIN c = 1..(Len(pending) + 1)
      BY <2>3, LenProperties
    <2> QED BY <1>1, <1>3, <2>3, <2>4 DEF e, c
  <1> QED BY <1>2, <1>3

\* What a fragment makes of an entry.
Merged(call, f) ==
    IF call.index # f.index THEN call
    ELSE [call EXCEPT !.args = @ \o f.args, !.id = IF f.id = NoId THEN @ ELSE f.id]

LEMMA MergedIs ==
    ASSUME NEW call \in CallDeltas, NEW f \in Fragments
    PROVE  /\ Merged(call, f) \in CallDeltas
           /\ Merged(call, f).index = call.index
           /\ Merged(call, f).id = IF f.index = call.index /\ f.id # NoId THEN f.id ELSE call.id
           /\ Merged(call, f).args = call.args \o (IF f.index = call.index THEN f.args ELSE <<>>)
  <1>1. call.index \in Indexes /\ call.id \in Ids \cup {NoId} /\ call.args \in Seq(Args)
    BY DEF CallDeltas
  <1>2. call.args \o <<>> = call.args
    BY <1>1, ConcatEmptySeq
  <1>3. CASE call.index # f.index
    <2>1. Merged(call, f) = call
      BY <1>3 DEF Merged
    <2> QED BY <1>2, <1>3, <2>1
  <1>4. CASE call.index = f.index
    <2> DEFINE id == IF f.id = NoId THEN call.id ELSE f.id
               args == call.args \o f.args
    <2>1. Merged(call, f) = [call EXCEPT !.args = args, !.id = id]
      BY <1>4 DEF Merged
    <2>2. args \in Seq(Args) /\ id \in Ids \cup {NoId}
      <3>1. f.args \in Seq(Args) /\ f.id \in Ids \cup {NoId}
        BY FragmentType
      <3> QED BY <1>1, <3>1, ConcatProperties
    <2> HIDE DEF id, args
    <2>3. Merged(call, f) = [index |-> call.index, id |-> id, args |-> args]
      BY <2>1 DEF CallDeltas
    <2>4. [index |-> call.index, id |-> id, args |-> args] \in CallDeltas
      BY <1>1, <2>2 DEF CallDeltas
    <2>5. Merged(call, f).index = call.index /\ Merged(call, f).id = id /\ Merged(call, f).args = args
      BY <2>3
    <2> QED BY <1>4, <2>3, <2>4, <2>5 DEF id, args
  <1> QED BY <1>3, <1>4

LEMMA MergeIs ==
    ASSUME pending \in Seq(CallDeltas), NEW f \in Fragments, Merge(f)
    PROVE  /\ pending' \in Seq(CallDeltas) /\ DOMAIN pending' = DOMAIN WithCall(f)
           /\ \A i \in DOMAIN WithCall(f) :
                 WithCall(f)[i] \in CallDeltas /\ pending'[i] = Merged(WithCall(f)[i], f)
  <1> DEFINE c == WithCall(f)
  <1>1. c \in Seq(CallDeltas)
    BY WithCallIs
  <1>2. pending' = [i \in DOMAIN c |-> Merged(c[i], f)]
    BY DEF Merge, Merged
  <1> HIDE DEF c
  <1>3. DOMAIN c = 1..Len(c) /\ Len(c) \in Nat /\ \A i \in DOMAIN c : c[i] \in CallDeltas
    BY <1>1, LenProperties
  <1>4. \A i \in DOMAIN c : Merged(c[i], f) \in CallDeltas
    BY <1>3, MergedIs
  <1>5. pending' \in [1..Len(c) -> CallDeltas]
    BY <1>2, <1>3, <1>4
  <1>6. pending' \in Seq(CallDeltas)
    BY <1>3, <1>5
  <1> QED BY <1>2, <1>3, <1>6 DEF c

\* A fragment keeps the calls whole.
LEMMA MergeKeepsWhole ==
    ASSUME pending \in Seq(CallDeltas), streamed \in Seq(Fragments), WholeOf(streamed, pending),
           NEW f \in Fragments, Merge(f)
    PROVE  WholeOf(Append(streamed, f), pending')
  <1> DEFINE s == streamed
             s2 == Append(s, f)
             c == WithCall(f)
             n == f.index
             L == Len(pending)
             met == \E i \in DOMAIN pending : pending[i].index = n
  <1>1. /\ DOMAIN c = IF met THEN 1..L ELSE 1..(L + 1)
        /\ DOMAIN pending = 1..L /\ L \in Nat
        /\ \A i \in 1..L : c[i] = pending[i]
        /\ ~met => c[L + 1] = [f EXCEPT !.args = <<>>]
    BY WithCallIs
  <1>2. /\ DOMAIN pending' = DOMAIN c
        /\ \A i \in DOMAIN c : c[i] \in CallDeltas /\ pending'[i] = Merged(c[i], f)
    BY MergeIs
  <1>3. \A k : (\E i \in DOMAIN pending : pending[i].index = k) <=> FragsOf(s, k) # {}
    <2> TAKE k
    <2>1. {pending[i].index : i \in DOMAIN pending} = {s[j].index : j \in DOMAIN s}
      BY DEF WholeOf
    <2>2. (\E i \in DOMAIN pending : pending[i].index = k)
             <=> k \in {pending[i].index : i \in DOMAIN pending}
      OBVIOUS
    <2>3. k \in {s[j].index : j \in DOMAIN s} <=> FragsOf(s, k) # {}
      BY DEF FragsOf
    <2> QED BY <2>1, <2>2, <2>3
  <1>4. \A i \in 1..L : /\ FragsOf(s, pending[i].index) # {}
                        /\ pending[i].id = IdIn(s, pending[i].index)
                        /\ pending[i].args = Joined(s, pending[i].index)
    BY <1>1, <1>3 DEF WholeOf
  <1>5. ~met => /\ FragsOf(s, n) = {} /\ c[L + 1].index = n /\ c[L + 1].args = <<>>
                /\ c[L + 1].id = f.id
    BY <1>1, <1>3, FragmentType
  <1>6. \A i \in DOMAIN c : pending'[i].index = c[i].index
    <2> TAKE i \in DOMAIN c
    <2> DEFINE call == c[i]
    <2>1. call \in CallDeltas /\ pending'[i] = Merged(call, f)
      BY <1>2
    <2> HIDE DEF call
    <2>2. Merged(call, f).index = call.index
      BY ONLY f \in Fragments, <2>1, MergedIs
    <2> QED BY <2>1, <2>2 DEF call
  <1>7. {pending'[i].index : i \in DOMAIN pending'} = {s2[k].index : k \in DOMAIN s2}
    <2>1. \A k : k \in {s2[j].index : j \in DOMAIN s2} <=> FragsOf(s2, k) # {}
      BY DEF FragsOf
    <2>2. \A k : FragsOf(s2, k) # {} <=> FragsOf(s, k) # {} \/ n = k
      BY FragmentAdded
    <2>3. \A k : k \in {pending'[i].index : i \in DOMAIN pending'} <=> \E i \in DOMAIN c : c[i].index = k
      BY <1>2, <1>6
    <2>4. \A k : (\E i \in DOMAIN c : c[i].index = k) <=> FragsOf(s, k) # {} \/ n = k
      <3> TAKE k
      <3>1. CASE met
        <4>1. (\E i \in DOMAIN c : c[i].index = k) <=> (\E i \in DOMAIN pending : pending[i].index = k)
          BY <1>1, <3>1
        <4> QED BY <1>3, <3>1, <4>1
      <3>2. CASE ~met
        <4>1. ASSUME NEW i \in DOMAIN c, c[i].index = k PROVE FragsOf(s, k) # {} \/ n = k
          <5>1. i \in 1..L \/ i = L + 1
            BY <1>1, <3>2
          <5> QED BY <1>1, <1>4, <1>5, <3>2, <4>1, <5>1
        <4>2. ASSUME FragsOf(s, k) # {} PROVE \E i \in DOMAIN c : c[i].index = k
          <5>1. PICK i \in DOMAIN pending : pending[i].index = k
            BY <1>3, <4>2
          <5>2. i \in DOMAIN c /\ c[i].index = k
            BY <1>1, <3>2, <5>1
          <5> QED BY <5>2
        <4>3. L + 1 \in DOMAIN c /\ c[L + 1].index = n
          BY <1>1, <1>5, <3>2
        <4> QED BY <4>1, <4>2, <4>3
      <3> QED BY <3>1, <3>2
    <2> HIDE DEF s2, c
    <2> QED BY <2>1, <2>2, <2>3, <2>4
  <1>8. ASSUME NEW i \in DOMAIN pending', NEW j \in DOMAIN pending', i < j
        PROVE  FirstOf(s2, pending'[i].index) < FirstOf(s2, pending'[j].index)
    <2>1. i \in DOMAIN c /\ j \in DOMAIN c /\ i \in 1..L
      BY <1>1, <1>2, <1>8
    <2>2. pending'[i].index = pending[i].index
      BY <1>1, <1>6, <2>1
    <2>3. /\ FirstOf(s2, pending[i].index) = FirstOf(s, pending[i].index)
          /\ FirstOf(s, pending[i].index) \in 1..Len(s)
      BY <1>4, <2>1, FragmentAdded
    <2>4. CASE j \in 1..L
      <3>1. pending'[j].index = pending[j].index
        BY <1>1, <1>6, <2>1, <2>4
      <3>2. FirstOf(s2, pending[j].index) = FirstOf(s, pending[j].index)
        BY <1>4, <2>4, FragmentAdded
      <3>3. FirstOf(s, pending[i].index) < FirstOf(s, pending[j].index)
        BY <1>1, <1>8, <2>1, <2>4 DEF WholeOf
      <3> QED BY <2>2, <2>3, <3>1, <3>2, <3>3
    <2>5. CASE j \notin 1..L
      <3>1. ~met /\ j = L + 1
        BY <1>1, <2>1, <2>5
      <3>2. pending'[j].index = n /\ FragsOf(s, n) = {}
        BY <1>5, <1>6, <2>1, <3>1
      <3>3. FirstOf(s2, n) = Len(s) + 1
        BY <3>2, FragmentAdded
      <3>4. Len(s) \in Nat
        BY LenProperties
      <3> QED BY <2>2, <2>3, <3>2, <3>3, <3>4
    <2> QED BY <2>4, <2>5
  <1>9. ASSUME NEW i \in DOMAIN pending'
        PROVE  /\ pending'[i].id = IdIn(s2, pending'[i].index)
               /\ pending'[i].args = Joined(s2, pending'[i].index)
    <2> DEFINE k == c[i].index
               more == IF n = k THEN f.args ELSE <<>>
    <2>1. i \in DOMAIN c /\ c[i] \in CallDeltas
      BY <1>2
    <2>2. /\ pending'[i].index = k
          /\ pending'[i].id = IF n = k /\ f.id # NoId THEN f.id ELSE c[i].id
          /\ pending'[i].args = c[i].args \o more
      <3> DEFINE call == c[i]
      <3>1. call \in CallDeltas /\ pending'[i] = Merged(call, f)
        BY <1>2, <2>1
      <3> HIDE DEF call
      <3>2. /\ Merged(call, f).index = call.index
            /\ Merged(call, f).id = IF f.index = call.index /\ f.id # NoId THEN f.id ELSE call.id
            /\ Merged(call, f).args = call.args \o (IF f.index = call.index THEN f.args ELSE <<>>)
        BY ONLY f \in Fragments, <3>1, MergedIs
      <3> QED BY <3>1, <3>2 DEF call
    <2>3. IdIn(s2, k) = IF n = k /\ f.id # NoId THEN f.id ELSE IdIn(s, k)
      BY FragmentAdded
    <2>4. Joined(s2, k) = Joined(s, k) \o more
      BY JoinedAppend
    <2>5. CASE i \in 1..L
      <3>1. c[i].id = IdIn(s, k) /\ c[i].args = Joined(s, k)
        BY <1>1, <1>4, <2>5
      <3> QED BY <2>2, <2>3, <2>4, <3>1
    <2>6. CASE i \notin 1..L
      <3>1. ~met /\ i = L + 1
        BY <1>1, <2>1, <2>6
      <3>2. k = n /\ FragsOf(s, k) = {} /\ c[i].id = f.id /\ c[i].args = <<>>
        BY <1>5, <3>1
      <3>3. IdIn(s, k) = NoId
        BY <3>2, FragmentAdded
      <3>4. Joined(s, k) = <<>>
        BY <3>2, JoinedNone
      <3> QED BY <2>2, <2>3, <2>4, <3>2, <3>3, <3>4
    <2> QED BY <2>5, <2>6
  <1> HIDE DEF s2
  <1>10. WholeOf(s2, pending')
    BY <1>7, <1>8, <1>9 DEF WholeOf
  <1> QED BY <1>10 DEF s2

CallType ==
    /\ pending \in Seq(CallDeltas) /\ given \in Seq(CallDeltas)
    /\ streamed \in Seq(Fragments) /\ finished \in BOOLEAN

\* The calls gathered so far are always whole, of the fragments so far.
CallsInv ==
    /\ CallType
    /\ ~finished => WholeOf(streamed, pending) /\ given = <<>>
    /\ finished => WholeOf(streamed, given) /\ pending = <<>>

LEMMA CallsInvInit == Init => CallsInv
  <1> SUFFICES ASSUME Init PROVE CallsInv
    OBVIOUS
  <1>1. pending = <<>> /\ streamed = <<>> /\ finished = FALSE /\ given = <<>>
    BY DEF Init
  <1>2. WholeOf(<<>>, <<>>)
    BY DEF WholeOf
  <1>3. <<>> \in Seq(CallDeltas) /\ <<>> \in Seq(Fragments)
    OBVIOUS
  <1> QED BY <1>1, <1>2, <1>3 DEF CallsInv, CallType

LEMMA CallsInvNext ==
    ASSUME CallsInv, [Next]_vars
    PROVE  CallsInv'
  <1>1. CASE RecvFragment
    <2>1. PICK f \in Fragments : streamed' = Append(streamed, f) /\ Merge(f)
      BY <1>1 DEF RecvFragment
    <2>2. ~finished /\ UNCHANGED <<finished, given>>
      BY <1>1 DEF RecvFragment
    <2>3. /\ pending \in Seq(CallDeltas) /\ streamed \in Seq(Fragments)
          /\ WholeOf(streamed, pending) /\ given = <<>> /\ finished \in BOOLEAN
      BY <2>2 DEF CallsInv, CallType
    <2>4. WholeOf(streamed', pending')
      BY <2>1, <2>3, MergeKeepsWhole
    <2>5. pending' \in Seq(CallDeltas)
      BY <2>1, <2>3, MergeIs
    <2>6. streamed' \in Seq(Fragments)
      BY <2>1, <2>3, AppendProperties
    <2>7. given' \in Seq(CallDeltas)
      BY <2>2 DEF CallsInv, CallType
    <2> QED BY <2>2, <2>3, <2>4, <2>5, <2>6, <2>7 DEF CallsInv, CallType
  <1>2. CASE RecvFinish
    <2>1. /\ ~finished /\ finished' = TRUE /\ given' = given \o pending /\ pending' = <<>>
          /\ UNCHANGED streamed
      BY <1>2 DEF RecvFinish, Emit
    <2>2. /\ WholeOf(streamed, pending) /\ given = <<>> /\ pending \in Seq(CallDeltas)
          /\ streamed \in Seq(Fragments)
      BY <2>1 DEF CallsInv, CallType
    <2>3. given' = pending
      BY <2>1, <2>2, ConcatEmptySeq
    <2>4. <<>> \in Seq(CallDeltas)
      OBVIOUS
    <2> QED BY <2>1, <2>2, <2>3, <2>4 DEF CallsInv, CallType
  <1>3. CASE UNCHANGED callVars
    <2>1. UNCHANGED <<pending, streamed, finished, given>>
      BY <1>3 DEF callVars
    <2> QED BY <2>1 DEF CallsInv, CallType
  <1>4. RecvFragment \/ RecvFinish \/ UNCHANGED callVars
    BY DEF Next, vars, RecvPiece, ScanTag, ScanRest, StreamEnds, SpeakTail
  <1> QED BY <1>1, <1>2, <1>3, <1>4

-----------------------------------------------------------------------------
(* The theorems. *)

IInv == TextType /\ ParserInv /\ SplitterInv /\ CallsInv

LEMMA Invariance == Spec => []IInv
  <1>1. Init => IInv
    BY TextTypeInit, ParserInvInit, SplitterInvInit, CallsInvInit DEF IInv
  <1>2. IInv /\ [Next]_vars => IInv'
    <2> SUFFICES ASSUME IInv, [Next]_vars PROVE IInv'
      OBVIOUS
    <2>1. TextStep
      BY NextText
    <2>2. TextType'
      BY <2>1, TextTypeNext DEF IInv
    <2>3. ParserInv' /\ SplitterInv'
      BY <2>1, <2>2, ParserInvNext, SplitterInvNext DEF IInv
    <2>4. CallsInv'
      BY CallsInvNext DEF IInv
    <2> QED BY <2>2, <2>3, <2>4 DEF IInv
  <1> QED BY <1>1, <1>2, PTL DEF Spec

\* TypeOK holds: in particular what is handed to the synthesizer is never an empty
\* sentence (sentence_splitter.py).
THEOREM SpeechTypeCorrect == Spec => []TypeOK
  <1>1. IInv => TypeOK
    BY DEF IInv, TextType, CallsInv, CallType, TypeOK, Sents
  <1> QED BY <1>1, Invariance, PTL

\* However a reply is cut into pieces, its deltas are those of the whole text read at
\* once, for all tags and all texts of any length (stream_parser.py:10-11, 35-71).
THEOREM DeltasAreParsedHolds == Spec => []DeltasAreParsed
  <1>1. IInv => DeltasAreParsed
    BY ParserInvImplies DEF IInv
  <1> QED BY <1>1, Invariance, PTL

\* The bubble keeps up: whenever the next line is awaited, all that was received has been
\* shown or is what the buffer holds, too short to be the tag that is looked for
\* (stream_parser.py:35-63).
THEOREM OnlyATagIsHeldBack ==
    Spec => [](phase = "recv" => /\ Len(buffer) < Len(Tag)
                                 /\ Parsed[<<fed, FALSE>>] = said \o Mark(buffer, inThinking))
  <1>1. ASSUME IInv, phase = "recv"
        PROVE  /\ Len(buffer) < Len(Tag)
               /\ Parsed[<<fed, FALSE>>] = said \o Mark(buffer, inThinking)
    <2>1. buffer \in Seq(Chars) /\ fed \in Seq(Chars) /\ inThinking \in BOOLEAN
      BY <1>1 DEF IInv, TextType
    <2>2. /\ Continues(fed, FALSE, said, buffer, inThinking)
          /\ Len(buffer) < Len(TagOf(inThinking))
      BY <1>1 DEF IInv, ParserInv
    <2>3. <<>> \in Seq(Chars) /\ fed \o <<>> = fed /\ buffer \o <<>> = buffer
      BY <2>1, ConcatEmptySeq
    <2>4. Parsed[<<fed, FALSE>>] = said \o Parsed[<<buffer, inThinking>>]
      BY <2>2, <2>3 DEF Continues
    <2>5. Parsed[<<buffer, inThinking>>] = Mark(buffer, inThinking)
      BY <2>1, <2>2, ShortIsMarked
    <2> QED BY <2>2, <2>4, <2>5, StartsIs
  <1> QED BY <1>1, Invariance, PTL

\* The synthesizer gets the sentences of the text shown, each once, in order and as soon
\* as they are complete, for all texts and all minimal lengths (turn_loop.py:151-161).
THEOREM SpokenAsShownHolds == Spec => []SpokenAsShown
  <1>1. IInv => SpokenAsShown
    BY SplitterInvImplies DEF IInv
  <1> QED BY <1>1, Invariance, PTL

\* The turn gets every tool call of a complete reply once, whole, in order, and none of
\* an incomplete one, for any number of calls (llama_server.py:70-72, 100-134).
THEOREM CallsAreWholeHolds == Spec => []CallsAreWhole
  <1>1. IInv => CallsAreWhole
    BY WholeIs DEF IInv, CallsInv, CallsAreWhole
  <1> QED BY <1>1, Invariance, PTL

=============================================================================
