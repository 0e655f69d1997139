--------------------------- MODULE CANamesProofs ---------------------------
(***************************************************************************)
(* What the parsers and the printer of names compute, for texts of any     *)
(* length over any words: Split undoes Join, a component is accepted       *)
(* exactly if it has the form of one, and a printed name reads as itself.  *)
(* The folds of CANames are recursive functions over positions, so each    *)
(* fact about them is proved by induction on the position.                 *)
(***************************************************************************)
EXTENDS CARequest, SequenceTheorems, WellFoundedInduction, TLAPS

----------------------------------------------------------------------------
(* Induction and recursion over numbers.  The set of numbers for which a   *)
(* fact holds and the function a recursion steps with are parameters here, *)
(* where the library's theorems have operators.                            *)

Less == {pair \in Nat \X Nat : pair[1] < pair[2]}

LEMMA LeastElement ==
    ASSUME NEW T, T \subseteq Nat, T # {}
    PROVE  \E x \in T : \A y \in T : x <= y
<1>1. IsWellFoundedOn(Less, Nat)
  BY NatLessThanWellFounded DEF OpToRel, Less
<1>2. PICK x \in T : \A y \in T : ~(<<y, x>> \in Less)
  BY <1>1, WFMin
<1>3. ASSUME NEW y \in T, ~(x <= y) PROVE <<y, x>> \in Less
  BY <1>3 DEF Less
<1> QED
  BY <1>2, <1>3

LEMMA SetInduction ==
    ASSUME NEW T, 0 \in T, \A n \in Nat : n \in T => n + 1 \in T
    PROVE  \A n \in Nat : n \in T
<1> DEFINE Rest == {n \in Nat : n \notin T}
<1>1. SUFFICES ASSUME Rest # {} PROVE FALSE
  OBVIOUS
<1>2. PICK m \in Rest : \A k \in Rest : m <= k
  BY <1>1, LeastElement
<1>3. m # 0 /\ m - 1 \in Nat
  BY <1>2
<1>4. m - 1 \in T
  BY <1>2, <1>3
<1> QED
  BY <1>2, <1>3, <1>4

(* The functions a recursion over 0 .. N defines.                          *)
Recursions(S, first, N, Step) ==
    {f \in [0 .. N -> S] : f[0] = first /\ \A i \in 1 .. N : f[i] = Step[<<f[i - 1], i>>]}

LEMMA RecursionExists ==
    ASSUME NEW S, NEW first \in S, NEW N \in Nat, NEW Step \in [S \X (1 .. N) -> S]
    PROVE  Recursions(S, first, N, Step) # {}
<1> DEFINE Runs(f, n) ==
               /\ f \in [0 .. n -> S]
               /\ f[0] = first
               /\ \A i \in 1 .. n : f[i] = Step[<<f[i - 1], i>>]
           T == {n \in Nat : n <= N => \E f : Runs(f, n)}
<1>1. 0 \in T
  <2>1. Runs([i \in 0 .. 0 |-> first], 0)
    OBVIOUS
  <2> QED
    BY <2>1
<1>2. ASSUME NEW n \in Nat, n \in T PROVE n + 1 \in T
  <2>1. SUFFICES ASSUME n + 1 <= N PROVE \E f : Runs(f, n + 1)
    OBVIOUS
  <2>2. PICK g : Runs(g, n)
    BY <1>2, <2>1
  <2> DEFINE f == [i \in 0 .. n + 1 |-> IF i = n + 1 THEN Step[<<g[n], n + 1>>] ELSE g[i]]
  <2>3. g[n] \in S /\ n + 1 \in 1 .. N
    BY <2>1, <2>2
  <2>4. Step[<<g[n], n + 1>>] \in S
    BY <2>3
  <2>5. f \in [0 .. n + 1 -> S]
    BY <2>2, <2>4
  <2>6. f[0] = first
    BY <2>2
  <2>7. ASSUME NEW i \in 1 .. n + 1 PROVE f[i] = Step[<<f[i - 1], i>>]
    <3>1. i - 1 \in 0 .. n + 1 /\ i - 1 # n + 1 /\ f[i - 1] = g[i - 1]
      OBVIOUS
    <3>2. CASE i = n + 1
      BY <3>1, <3>2
    <3>3. CASE i # n + 1
      <4>1. i \in 1 .. n /\ f[i] = g[i]
        BY <3>3
      <4> QED
        BY <4>1, <3>1, <2>2
    <3> QED
      BY <3>2, <3>3
  <2> HIDE DEF f
  <2> QED
    BY <2>5, <2>6, <2>7
<1>3. N \in T
  <2> HIDE DEF T
  <2> QED
    BY <1>1, <1>2, SetInduction
<1> QED
  BY <1>3 DEF Recursions

(* A function that takes the step wherever the step is defined is one.     *)
LEMMA RecursionStays ==
    ASSUME NEW S, NEW first \in S, NEW N \in Nat, NEW Step \in [S \X (1 .. N) -> S],
           NEW g, g = [n \in 0 .. N |-> g[n]], g[0] = first,
           \A i \in 1 .. N : g[i - 1] \in S => g[i] = Step[<<g[i - 1], i>>]
    PROVE  g \in Recursions(S, first, N, Step)
<1> DEFINE T == {n \in Nat : n <= N => g[n] \in S}
<1>1. 0 \in T
  OBVIOUS
<1>2. ASSUME NEW n \in Nat, n \in T PROVE n + 1 \in T
  <2>1. SUFFICES ASSUME n + 1 <= N PROVE g[n + 1] \in S
    OBVIOUS
  <2>2. n + 1 \in 1 .. N /\ (n + 1) - 1 = n /\ g[n] \in S
    BY <1>2, <2>1
  <2>3. g[n + 1] = Step[<<g[n], n + 1>>]
    BY <2>2
  <2> QED
    BY <2>2, <2>3
<1>3. \A n \in Nat : n \in T
  <2> HIDE DEF T
  <2> QED
    BY <1>1, <1>2, SetInduction
<1>4. \A n \in 0 .. N : g[n] \in S
  BY <1>3
<1>5. \A i \in 1 .. N : g[i - 1] \in S
  BY <1>4
<1>6. g \in [0 .. N -> S]
  BY <1>4
<1> QED
  BY <1>5, <1>6 DEF Recursions

----------------------------------------------------------------------------
(* Pick *)

PickUpTo(s, I) ==
    CHOOSE f : f = [n \in 0 .. Len(s) |->
                        IF n = 0 THEN << >>
                        ELSE IF n \in I THEN Append(f[n - 1], s[n]) ELSE f[n - 1]]

LEMMA PickIs == ASSUME NEW s, NEW I PROVE Pick(s, I) = PickUpTo(s, I)[Len(s)]
  BY DEF Pick, PickUpTo

LEMMA PickUpToIs ==
    ASSUME NEW S, NEW s \in Seq(S), NEW I
    PROVE  /\ PickUpTo(s, I) \in [0 .. Len(s) -> Seq(S)]
           /\ PickUpTo(s, I)[0] = << >>
           /\ \A n \in 1 .. Len(s) :
                PickUpTo(s, I)[n] = IF n \in I THEN Append(PickUpTo(s, I)[n - 1], s[n])
                                    ELSE PickUpTo(s, I)[n - 1]
<1> DEFINE N == Len(s)
           R == Seq(S)
           first == << >>
           Next1(p, n) == IF n \in I THEN Append(p, s[n]) ELSE p
           Step == [x \in R \X (1 .. N) |-> Next1(x[1], x[2])]
           Is(f) == f = [n \in 0 .. N |-> IF n = 0 THEN first ELSE Next1(f[n - 1], n)]
           g == PickUpTo(s, I)
<1>1. N \in Nat /\ first \in R
  OBVIOUS
<1>2. ASSUME NEW p \in R, NEW i \in 1 .. N PROVE Next1(p, i) \in R
  OBVIOUS
<1>3. g = CHOOSE f : Is(f)
  BY DEF PickUpTo
<1> HIDE DEF N, R, first, Next1, g
<1>4. Step \in [R \X (1 .. N) -> R] /\ \A p \in R, i \in 1 .. N : Step[<<p, i>>] = Next1(p, i)
  BY <1>2
<1> HIDE DEF Step
<1>5. PICK f \in Recursions(R, first, N, Step) : TRUE
  BY <1>1, <1>4, RecursionExists
<1>6. Is(f)
  <2>1. /\ f \in [0 .. N -> R] /\ f[0] = first
        /\ \A i \in 1 .. N : f[i] = Step[<<f[i - 1], i>>]
    BY <1>5 DEF Recursions
  <2>2. ASSUME NEW n \in 0 .. N, n # 0 PROVE f[n] = Next1(f[n - 1], n)
    <3>1. n \in 1 .. N /\ n - 1 \in 0 .. N
      BY <1>1, <2>2
    <3> QED
      BY <2>1, <3>1, <1>4
  <2> QED
    BY <2>1, <2>2
<1>7. Is(g)
  <2> HIDE DEF Is
  <2> QED
    BY <1>3, <1>6
<1>8. g[0] = first /\ g = [n \in 0 .. N |-> g[n]]
  BY <1>1, <1>7
<1>9. \A n \in 1 .. N : g[n] = Next1(g[n - 1], n)
  BY <1>1, <1>7
<1>10. \A i \in 1 .. N : g[i - 1] \in R => g[i] = Step[<<g[i - 1], i>>]
  BY <1>4, <1>9
<1>11. g \in Recursions(R, first, N, Step)
  <2> HIDE DEF Is
  <2> QED
    BY <1>1, <1>4, <1>8, <1>10, RecursionStays
<1>12. g \in [0 .. N -> R]
  BY <1>11 DEF Recursions
<1> QED
  BY <1>8, <1>9, <1>12 DEF g, N, R, first, Next1

(* What is picked depends on nothing but the elements picked.              *)
LEMMA PickAgrees ==
    ASSUME NEW s, NEW u, NEW I, NEW J, Len(s) = Len(u), Len(s) \in Nat,
           \A i \in 1 .. Len(s) : (i \in I <=> i \in J) /\ (i \in I => s[i] = u[i])
    PROVE  Pick(s, I) = Pick(u, J)
<1> DEFINE P(f) == f = [n \in 0 .. Len(s) |->
                        IF n = 0 THEN << >>
                        ELSE IF n \in I THEN Append(f[n - 1], s[n]) ELSE f[n - 1]]
           Q(f) == f = [n \in 0 .. Len(u) |->
                        IF n = 0 THEN << >>
                        ELSE IF n \in J THEN Append(f[n - 1], u[n]) ELSE f[n - 1]]
<1>1. ASSUME NEW f PROVE P(f) <=> Q(f)
  OBVIOUS
<1>2. (CHOOSE f : P(f)) = (CHOOSE f : Q(f))
  <2> HIDE DEF P, Q
  <2> QED
    BY <1>1, Zenon
<1> QED
  BY <1>2, PickIs DEF PickUpTo

----------------------------------------------------------------------------
(* Split *)

Pieces == Seq(Text) \ {<< >>}

SplitUpTo(s) ==
    CHOOSE f : f = [n \in 0 .. Len(s) |->
                        IF n = 0 THEN << << >> >>
                        ELSE IF s[n] = Comma THEN Append(f[n - 1], << >>)
                        ELSE [f[n - 1] EXCEPT ![Len(f[n - 1])] = Append(@, s[n])]]

LEMMA SplitIs == ASSUME NEW s PROVE Split(s) = SplitUpTo(s)[Len(s)]
  BY DEF Split, SplitUpTo

LEMMA PiecesGrow ==
    ASSUME NEW p \in Pieces, NEW s \in Text, NEW i \in 1 .. Len(s)
    PROVE  /\ Append(p, << >>) \in Pieces
           /\ [p EXCEPT ![Len(p)] = Append(@, s[i])] \in Pieces
<1>1. p \in Seq(Text) /\ Len(p) \in 1 .. Len(p) /\ << >> \in Text /\ s[i] \in Tokens
  BY DEF Pieces, Text
<1>2. p[Len(p)] \in Text
  BY <1>1
<1>3. Append(p[Len(p)], s[i]) \in Text
  BY <1>1, <1>2 DEF Text
<1>4. [p EXCEPT ![Len(p)] = Append(@, s[i])] \in Seq(Text)
      /\ Len([p EXCEPT ![Len(p)] = Append(@, s[i])]) = Len(p)
  BY <1>1, <1>3, ExceptSeq
<1>5. Append(p, << >>) \in Pieces
  BY <1>1 DEF Pieces
<1> QED
  BY <1>1, <1>4, <1>5 DEF Pieces

LEMMA SplitUpToIs ==
    ASSUME NEW s \in Text
    PROVE  /\ SplitUpTo(s) \in [0 .. Len(s) -> Pieces]
           /\ SplitUpTo(s)[0] = << << >> >>
           /\ \A n \in 1 .. Len(s) :
                SplitUpTo(s)[n] =
                    IF s[n] = Comma THEN Append(SplitUpTo(s)[n - 1], << >>)
                    ELSE [SplitUpTo(s)[n - 1] EXCEPT ![Len(SplitUpTo(s)[n - 1])] = Append(@, s[n])]
<1> DEFINE N == Len(s)
           first == << << >> >>
           Next1(p, n) == IF s[n] = Comma THEN Append(p, << >>)
                          ELSE [p EXCEPT ![Len(p)] = Append(@, s[n])]
           R == Pieces
           Step == [x \in R \X (1 .. N) |-> Next1(x[1], x[2])]
           Is(f) == f = [n \in 0 .. N |-> IF n = 0 THEN first ELSE Next1(f[n - 1], n)]
           g == SplitUpTo(s)
<1>1. N \in Nat /\ first \in R
  <2>1. << >> \in Text /\ N \in Nat
    BY DEF Text
  <2>2. << << >> >> \in Seq(Text) /\ << << >> >> # << >>
    BY <2>1
  <2> QED
    BY <2>1, <2>2 DEF Pieces
<1>2. ASSUME NEW p \in R, NEW i \in 1 .. N PROVE Next1(p, i) \in R
  BY PiecesGrow
<1>3. g = CHOOSE f : Is(f)
  BY DEF SplitUpTo
<1> HIDE DEF N, R, first, Next1, g
<1>4. Step \in [R \X (1 .. N) -> R] /\ \A p \in R, i \in 1 .. N : Step[<<p, i>>] = Next1(p, i)
  BY <1>2
<1> HIDE DEF Step
<1>5. PICK f \in Recursions(R, first, N, Step) : TRUE
  BY <1>1, <1>4, RecursionExists
<1>6. Is(f)
  <2>1. /\ f \in [0 .. N -> R] /\ f[0] = first
        /\ \A i \in 1 .. N : f[i] = Step[<<f[i - 1], i>>]
    BY <1>5 DEF Recursions
  <2>2. ASSUME NEW n \in 0 .. N, n # 0 PROVE f[n] = Next1(f[n - 1], n)
    <3>1. n \in 1 .. N /\ n - 1 \in 0 .. N
      BY <1>1, <2>2
    <3> QED
      BY <2>1, <3>1, <1>4
  <2> QED
    BY <2>1, <2>2
<1>7. Is(g)
  <2> HIDE DEF Is
  <2> QED
    BY <1>3, <1>6
<1>8. g[0] = first /\ g = [n \in 0 .. N |-> g[n]]
  BY <1>1, <1>7
<1>9. \A n \in 1 .. N : g[n] = Next1(g[n - 1], n)
  BY <1>1, <1>7
<1>10. \A i \in 1 .. N : g[i - 1] \in R => g[i] = Step[<<g[i - 1], i>>]
  BY <1>4, <1>9
<1>11. g \in Recursions(R, first, N, Step)
  <2> HIDE DEF Is
  <2> QED
    BY <1>1, <1>4, <1>8, <1>10, RecursionStays
<1>12. g \in [0 .. N -> R]
  BY <1>11 DEF Recursions
<1> QED
  BY <1>8, <1>9, <1>12 DEF g, N, R, first, Next1

----------------------------------------------------------------------------
(* Join *)

JoinUpTo(texts) ==
    CHOOSE f : f = [n \in 0 .. Len(texts) |->
                        IF n = 0 THEN << >>
                        ELSE IF n = 1 THEN texts[1]
                        ELSE f[n - 1] \o << Comma >> \o texts[n]]

LEMMA JoinIs == ASSUME NEW texts PROVE JoinWithCommas(texts) = JoinUpTo(texts)[Len(texts)]
  BY DEF JoinWithCommas, JoinUpTo

LEMMA JoinUpToIs ==
    ASSUME NEW texts \in Seq(Text)
    PROVE  /\ JoinUpTo(texts) \in [0 .. Len(texts) -> Text]
           /\ JoinUpTo(texts)[0] = << >>
           /\ \A n \in 1 .. Len(texts) :
                JoinUpTo(texts)[n] =
                    IF n = 1 THEN texts[1]
                    ELSE JoinUpTo(texts)[n - 1] \o << Comma >> \o texts[n]
<1> DEFINE N == Len(texts)
           R == Text
           first == << >>
           Next1(p, n) == IF n = 1 THEN texts[1] ELSE p \o << Comma >> \o texts[n]
           Step == [x \in R \X (1 .. N) |-> Next1(x[1], x[2])]
           Is(f) == f = [n \in 0 .. N |-> IF n = 0 THEN first ELSE Next1(f[n - 1], n)]
           g == JoinUpTo(texts)
<1>1. N \in Nat /\ first \in R
  BY DEF Text
<1>2. ASSUME NEW p \in R, NEW i \in 1 .. N PROVE Next1(p, i) \in R
  <2>0. Comma \in Tokens
    BY DEF Tokens
  <2>1. texts[i] \in Seq(Tokens) /\ << Comma >> \in Seq(Tokens) /\ p \in Seq(Tokens)
    BY <2>0 DEF Text
  <2>2. p \o << Comma >> \o texts[i] \in Seq(Tokens)
    BY <2>1
  <2> QED
    BY <2>1, <2>2 DEF Text
<1>3. g = CHOOSE f : Is(f)
  BY DEF JoinUpTo
<1> HIDE DEF N, R, first, Next1, g
<1>4. Step \in [R \X (1 .. N) -> R] /\ \A p \in R, i \in 1 .. N : Step[<<p, i>>] = Next1(p, i)
  BY <1>2
<1> HIDE DEF Step
<1>5. PICK f \in Recursions(R, first, N, Step) : TRUE
  BY <1>1, <1>4, RecursionExists
<1>6. Is(f)
  <2>1. /\ f \in [0 .. N -> R] /\ f[0] = first
        /\ \A i \in 1 .. N : f[i] = Step[<<f[i - 1], i>>]
    BY <1>5 DEF Recursions
  <2>2. ASSUME NEW n \in 0 .. N, n # 0 PROVE f[n] = Next1(f[n - 1], n)
    <3>1. n \in 1 .. N /\ n - 1 \in 0 .. N
      BY <1>1, <2>2
    <3> QED
      BY <2>1, <3>1, <1>4
  <2> QED
    BY <2>1, <2>2
<1>7. Is(g)
  <2> HIDE DEF Is
  <2> QED
    BY <1>3, <1>6
<1>8. g[0] = first /\ g = [n \in 0 .. N |-> g[n]]
  BY <1>1, <1>7
<1>9. \A n \in 1 .. N : g[n] = Next1(g[n - 1], n)
  BY <1>1, <1>7
<1>10. \A i \in 1 .. N : g[i - 1] \in R => g[i] = Step[<<g[i - 1], i>>]
  BY <1>4, <1>9
<1>11. g \in Recursions(R, first, N, Step)
  <2> HIDE DEF Is
  <2> QED
    BY <1>1, <1>4, <1>8, <1>10, RecursionStays
<1>12. g \in [0 .. N -> R]
  BY <1>11 DEF Recursions
<1> QED
  BY <1>8, <1>9, <1>12 DEF g, N, R, first, Next1

----------------------------------------------------------------------------
(* Splitting a line at its commas gives back what was joined *)

NoComma(w) == \A i \in DOMAIN w : w[i] # Comma

LEMMA LastReplaced ==
    ASSUME NEW S, NEW done \in Seq(S), NEW x \in S, NEW y \in S
    PROVE  /\ Append(done, x)[Len(Append(done, x))] = x
           /\ [Append(done, x) EXCEPT ![Len(Append(done, x))] = y] = Append(done, y)
<1> DEFINE a == Append(done, x)
           b == Append(done, y)
           e == [a EXCEPT ![Len(a)] = y]
<1>1. /\ a \in Seq(S) /\ Len(a) = Len(done) + 1 /\ a[Len(done) + 1] = x
      /\ b \in Seq(S) /\ Len(b) = Len(done) + 1 /\ b[Len(done) + 1] = y
      /\ \A i \in 1 .. Len(done) : a[i] = b[i]
  OBVIOUS
<1> HIDE DEF a, b
<1>2. Len(done) + 1 \in 1 .. Len(a)
  BY <1>1
<1>3. e \in Seq(S) /\ Len(e) = Len(a) /\ \A j \in 1 .. Len(a) : e[j] = IF j = Len(a) THEN y ELSE a[j]
  BY <1>1, <1>2, ExceptSeq
<1>4. e = b
  <2> HIDE DEF e
  <2> QED
    BY <1>1, <1>3, SeqEqual
<1> QED
  BY <1>1, <1>4 DEF a, b

LEMMA PrefixGrows ==
    ASSUME NEW S, NEW w \in Seq(S), NEW n \in Nat, n + 1 <= Len(w)
    PROVE  /\ SubSeq(w, 1, n) \in Seq(S)
           /\ SubSeq(w, 1, n + 1) = Append(SubSeq(w, 1, n), w[n + 1])
<1>1. n + 1 \in 1 .. Len(w) /\ \A i \in 1 .. n + 1 : w[i] \in S
  OBVIOUS
<1>2. SubSeq(w, 1, n) \in Seq(S) /\ Len(SubSeq(w, 1, n)) = n
      /\ \A i \in 1 .. n : SubSeq(w, 1, n)[i] = w[i]
  BY <1>1
<1>3. SubSeq(w, 1, n + 1) \in Seq(S) /\ Len(SubSeq(w, 1, n + 1)) = n + 1
      /\ \A i \in 1 .. n + 1 : SubSeq(w, 1, n + 1)[i] = w[i]
  BY <1>1
<1> DEFINE u == SubSeq(w, 1, n)
           v == SubSeq(w, 1, n + 1)
<1> HIDE DEF u, v
<1>4. Append(u, w[n + 1]) \in Seq(S) /\ Len(Append(u, w[n + 1])) = n + 1
      /\ \A i \in 1 .. n + 1 : Append(u, w[n + 1])[i] = w[i]
  BY <1>1, <1>2 DEF u
<1>5. v = Append(u, w[n + 1])
  BY <1>3, <1>4, SeqEqual DEF v
<1> QED
  BY <1>2, <1>5 DEF u, v

LEMMA SubSeqOfOne ==
    ASSUME NEW S, NEW w \in Seq(S), NEW n \in 1 .. Len(w)
    PROVE  SubSeq(w, n, n) = << w[n] >>
<1>1. \A i \in n .. n : w[i] \in S
  OBVIOUS
<1>2. /\ SubSeq(w, n, n) \in Seq(S) /\ Len(SubSeq(w, n, n)) = 1
      /\ SubSeq(w, n, n)[1] = w[n]
  BY <1>1, SubSeqProperties
<1>3. << w[n] >> \in Seq(S) /\ Len(<< w[n] >>) = 1 /\ << w[n] >>[1] = w[n]
  OBVIOUS
<1> DEFINE u == SubSeq(w, n, n)
           v == << w[n] >>
<1> HIDE DEF u, v
<1>4. u \in Seq(S) /\ Len(u) = 1 /\ u[1] = w[n]
  BY <1>2 DEF u
<1>5. v \in Seq(S) /\ Len(v) = 1 /\ v[1] = w[n]
  BY <1>3 DEF v
<1>6. u = v
  BY <1>4, <1>5, SeqEqual
<1> QED
  BY <1>6 DEF u, v

(* A text without commas is read into the last piece.                      *)
LEMMA SplitScan ==
    ASSUME NEW s \in Text, NEW p \in 0 .. Len(s), NEW done \in Seq(Text), NEW w \in Text,
           p + Len(w) <= Len(s), \A j \in 1 .. Len(w) : s[p + j] = w[j] /\ w[j] # Comma,
           SplitUpTo(s)[p] = Append(done, << >>)
    PROVE  SplitUpTo(s)[p + Len(w)] = Append(done, w)
<1> DEFINE f == SplitUpTo(s)
           T == {n \in Nat : n <= Len(w) => f[p + n] = Append(done, SubSeq(w, 1, n))}
<1>0. w \in Seq(Tokens) /\ s \in Seq(Tokens) /\ Len(w) \in Nat /\ Len(s) \in Nat
  BY DEF Text
<1>f. \A n \in 1 .. Len(s) :
        f[n] = IF s[n] = Comma THEN Append(f[n - 1], << >>)
               ELSE [f[n - 1] EXCEPT ![Len(f[n - 1])] = Append(@, s[n])]
  BY SplitUpToIs
<1> HIDE DEF f
<1>1. 0 \in T
  <2>1. SubSeq(w, 1, 0) = << >> /\ p + 0 = p
    BY <1>0
  <2>2. f[p] = Append(done, << >>)
    BY DEF f
  <2> QED
    BY <2>1, <2>2
<1>2. ASSUME NEW n \in Nat, n \in T PROVE n + 1 \in T
  <2>1. SUFFICES ASSUME n + 1 <= Len(w) PROVE f[p + (n + 1)] = Append(done, SubSeq(w, 1, n + 1))
    OBVIOUS
  <2> DEFINE q == p + (n + 1)
             x == SubSeq(w, 1, n)
             y == SubSeq(w, 1, n + 1)
  <2>2. q \in 1 .. Len(s) /\ q - 1 = p + n /\ n + 1 \in 1 .. Len(w)
    BY <1>0, <2>1
  <2>3. f[p + n] = Append(done, x)
    BY <1>0, <1>2, <2>1
  <2>4. s[q] = w[n + 1] /\ s[q] # Comma /\ w[n + 1] \in Tokens
    BY <1>0, <2>2
  <2>5. x \in Seq(Tokens) /\ y = Append(x, w[n + 1])
    BY <1>0, <2>1, PrefixGrows
  <2> HIDE DEF q, x, y
  <2>6. y \in Seq(Tokens)
    BY <2>4, <2>5
  <2>7. f[q] = [Append(done, x) EXCEPT ![Len(Append(done, x))] = Append(@, s[q])]
    <3>1. f[q] = [f[q - 1] EXCEPT ![Len(f[q - 1])] = Append(@, s[q])]
      BY <1>f, <2>2, <2>4
    <3>2. f[q - 1] = Append(done, x)
      BY <2>2, <2>3
    <3> QED
      BY <3>1, <3>2
  <2>8. f[q] = [Append(done, x) EXCEPT ![Len(Append(done, x))] = y]
    <3>1. Append(done, x)[Len(Append(done, x))] = x
      BY <2>5, LastReplaced DEF Text
    <3> QED
      BY <2>4, <2>5, <2>7, <3>1
  <2>9. f[q] = Append(done, y)
    <3>1. x \in Text /\ y \in Text
      BY <2>5, <2>6 DEF Text
    <3> QED
      BY <2>8, <3>1, LastReplaced
  <2> QED
    BY <2>9 DEF q, y
<1>3. \A n \in Nat : n \in T
  <2> HIDE DEF T
  <2> QED
    BY <1>1, <1>2, SetInduction
<1>4. f[p + Len(w)] = Append(done, SubSeq(w, 1, Len(w)))
  BY <1>0, <1>3
<1> QED
  BY <1>0, <1>4, SubSeqFull DEF f

(* Splitting reads from left to right.                                     *)
LEMMA SplitExtends ==
    ASSUME NEW s \in Text, NEW u \in Text,
           Len(u) <= Len(s), \A i \in 1 .. Len(u) : s[i] = u[i]
    PROVE  SplitUpTo(s)[Len(u)] = SplitUpTo(u)[Len(u)]
<1> DEFINE f == SplitUpTo(s)
           g == SplitUpTo(u)
           T == {n \in Nat : n <= Len(u) => f[n] = g[n]}
<1>0. Len(u) \in Nat /\ Len(s) \in Nat
  BY DEF Text
<1>1. 0 \in T
  BY SplitUpToIs
<1>f. /\ \A n \in 1 .. Len(s) :
            f[n] = IF s[n] = Comma THEN Append(f[n - 1], << >>)
                   ELSE [f[n - 1] EXCEPT ![Len(f[n - 1])] = Append(@, s[n])]
      /\ \A n \in 1 .. Len(u) :
            g[n] = IF u[n] = Comma THEN Append(g[n - 1], << >>)
                   ELSE [g[n - 1] EXCEPT ![Len(g[n - 1])] = Append(@, u[n])]
  BY SplitUpToIs
<1> HIDE DEF f, g
<1>2. ASSUME NEW n \in Nat, n \in T PROVE n + 1 \in T
  <2>1. SUFFICES ASSUME n + 1 <= Len(u) PROVE f[n + 1] = g[n + 1]
    OBVIOUS
  <2> DEFINE k == n + 1
  <2>2. k \in 1 .. Len(u) /\ k \in 1 .. Len(s) /\ k - 1 = n
    BY <1>0, <2>1
  <2>3. f[n] = g[n] /\ s[k] = u[k]
    BY <1>0, <1>2, <2>1, <2>2
  <2> HIDE DEF k
  <2>4. f[k] = IF s[k] = Comma THEN Append(f[n], << >>)
               ELSE [f[n] EXCEPT ![Len(f[n])] = Append(@, s[k])]
    BY <1>f, <2>2
  <2>5. g[k] = IF u[k] = Comma THEN Append(g[n], << >>)
               ELSE [g[n] EXCEPT ![Len(g[n])] = Append(@, u[k])]
    BY <1>f, <2>2
  <2>6. f[k] = g[k]
    BY <2>3, <2>4, <2>5
  <2> QED
    BY <2>6 DEF k
<1>3. \A n \in Nat : n \in T
  <2> HIDE DEF T
  <2> QED
    BY <1>1, <1>2, SetInduction
<1> QED
  BY <1>0, <1>3 DEF f, g

LEMMA SplitOne ==
    ASSUME NEW w \in Text, NoComma(w)
    PROVE  Split(w) = << w >>
<1>1. Len(w) \in Nat /\ 0 \in 0 .. Len(w) /\ DOMAIN w = 1 .. Len(w)
      /\ << >> \in Seq(Text) /\ << >> \in Text
  BY DEF Text
<1>2. SplitUpTo(w)[0] = Append(<< >>, << >>)
  BY <1>1, SplitUpToIs
<1>3. SplitUpTo(w)[0 + Len(w)] = Append(<< >>, w)
  <2>1. 0 + Len(w) <= Len(w) /\ \A j \in 1 .. Len(w) : w[0 + j] = w[j] /\ w[j] # Comma
    BY <1>1 DEF NoComma
  <2> QED
    BY <1>1, <1>2, <2>1, SplitScan
<1>4. 0 + Len(w) = Len(w) /\ Append(<< >>, w) = << w >>
  BY <1>1
<1> QED
  BY <1>3, <1>4, SplitIs

LEMMA SplitAppend ==
    ASSUME NEW u \in Text, NEW w \in Text, NoComma(w)
    PROVE  /\ u \o << Comma >> \o w \in Text
           /\ Split(u) \in Seq(Text)
           /\ Split(u \o << Comma >> \o w) = Append(Split(u), w)
<1> DEFINE s == u \o << Comma >> \o w
           m == Len(u)
           done == Split(u)
<1>1. u \in Seq(Tokens) /\ w \in Seq(Tokens) /\ << Comma >> \in Seq(Tokens)
  BY DEF Text, Tokens
<1>2. /\ s \in Seq(Tokens) /\ Len(s) = m + 1 + Len(w) /\ m \in Nat /\ Len(w) \in Nat
      /\ \A i \in 1 .. m : s[i] = u[i]
      /\ s[m + 1] = Comma
      /\ \A j \in 1 .. Len(w) : s[m + 1 + j] = w[j]
  <2>1. /\ u \o << Comma >> \in Seq(Tokens) /\ Len(u \o << Comma >>) = m + 1
        /\ \A i \in 1 .. m : (u \o << Comma >>)[i] = u[i]
        /\ (u \o << Comma >>)[m + 1] = Comma
    BY <1>1
  <2> QED
    BY <1>1, <2>1
<1>3. done \in Seq(Text) /\ done = SplitUpTo(u)[m]
  <2>1. m \in 0 .. m
    BY <1>2
  <2> QED
    BY <2>1, SplitUpToIs, SplitIs DEF Pieces
<1>4. s \in Text
  BY <1>2 DEF Text
<1> HIDE DEF s, m, done
<1>5. SplitUpTo(s)[m] = done
  BY <1>2, <1>3, <1>4, SplitExtends DEF m
<1>6. SplitUpTo(s)[m + 1] = Append(done, << >>)
  <2>1. m + 1 \in 1 .. Len(s) /\ (m + 1) - 1 = m
    BY <1>2
  <2> QED
    BY <1>2, <1>4, <1>5, <2>1, SplitUpToIs
<1>7. SplitUpTo(s)[(m + 1) + Len(w)] = Append(done, w)
  <2>1. m + 1 \in 0 .. Len(s) /\ (m + 1) + Len(w) <= Len(s)
    BY <1>2
  <2>2. \A j \in 1 .. Len(w) : s[(m + 1) + j] = w[j] /\ w[j] # Comma
    BY <1>1, <1>2 DEF NoComma
  <2> QED
    BY <1>3, <1>4, <1>6, <2>1, <2>2, SplitScan
<1>8. Split(s) = Append(done, w)
  BY <1>2, <1>7, SplitIs
<1> QED
  BY <1>3, <1>4, <1>8 DEF s, done

(* strings.Split undoes strings.Join: a line of comma-free texts falls     *)
(* apart into just these texts (ParseDN and ParseSANs on what is typed,    *)
(* ParseDN on what FormatDN prints).                                       *)
THEOREM JoinSplit ==
    ASSUME NEW texts \in Seq(Text), texts # << >>, \A i \in 1 .. Len(texts) : NoComma(texts[i])
    PROVE  /\ JoinWithCommas(texts) \in Text
           /\ Split(JoinWithCommas(texts)) = texts
<1> DEFINE f == JoinUpTo(texts)
           T == {n \in Nat : n + 1 <= Len(texts) =>
                    f[n + 1] \in Text /\ Split(f[n + 1]) = SubSeq(texts, 1, n + 1)}
<1>0. Len(texts) \in Nat /\ Len(texts) >= 1
  OBVIOUS
<1>f. \A n \in 1 .. Len(texts) :
        f[n] = IF n = 1 THEN texts[1] ELSE f[n - 1] \o << Comma >> \o texts[n]
  BY JoinUpToIs
<1> HIDE DEF f
<1>1. 0 \in T
  <2>1. f[1] = texts[1] /\ texts[1] \in Text /\ NoComma(texts[1])
    BY <1>0, <1>f
  <2>2. SubSeq(texts, 1, 1) = << texts[1] >>
    BY <1>0, SubSeqOfOne
  <2> QED
    BY <2>1, <2>2, SplitOne
<1>2. ASSUME NEW n \in Nat, n \in T PROVE n + 1 \in T
  <2> DEFINE m == n + 1
  <2>1. SUFFICES ASSUME m + 1 <= Len(texts)
                 PROVE  f[m + 1] \in Text /\ Split(f[m + 1]) = SubSeq(texts, 1, m + 1)
    OBVIOUS
  <2>2. f[m] \in Text /\ Split(f[m]) = SubSeq(texts, 1, m)
    BY <1>0, <1>2, <2>1
  <2>3. m \in Nat /\ m + 1 \in 1 .. Len(texts) /\ m + 1 # 1 /\ (m + 1) - 1 = m
    BY <1>0, <2>1
  <2> HIDE DEF m
  <2>4. f[m + 1] = f[m] \o << Comma >> \o texts[m + 1]
    BY <1>f, <2>3
  <2>5. texts[m + 1] \in Text /\ NoComma(texts[m + 1])
    BY <2>3
  <2>6. f[m + 1] \in Text /\ Split(f[m + 1]) = Append(SubSeq(texts, 1, m), texts[m + 1])
    BY <2>2, <2>4, <2>5, SplitAppend
  <2>7. SubSeq(texts, 1, m + 1) = Append(SubSeq(texts, 1, m), texts[m + 1])
    BY <2>1, <2>3, PrefixGrows
  <2> QED
    BY <2>6, <2>7
<1>3. \A n \in Nat : n \in T
  <2> HIDE DEF T
  <2> QED
    BY <1>1, <1>2, SetInduction
<1>4. f[Len(texts)] \in Text /\ Split(f[Len(texts)]) = SubSeq(texts, 1, Len(texts))
  <2>1. Len(texts) - 1 \in Nat /\ (Len(texts) - 1) + 1 = Len(texts)
    BY <1>0
  <2>2. Len(texts) - 1 \in T
    BY <1>3, <2>1
  <2> QED
    BY <1>0, <2>1, <2>2
<1> QED
  BY <1>4, SubSeqFull, JoinIs DEF f

----------------------------------------------------------------------------
(* Blanks around a text *)

LEMMA FirstAndLast ==
    ASSUME NEW n \in Nat, NEW K, K \subseteq 1 .. n, K # {}
    PROVE  \E f, l \in K : \A i \in K : f <= i /\ i <= l
<1>0. K \subseteq Nat
  OBVIOUS
<1>1. PICK f \in K : \A i \in K : f <= i
  BY <1>0, LeastElement
<1> DEFINE U == {m \in Nat : \A i \in K : i <= m}
<1>2. n \in U
  OBVIOUS
<1>3. PICK l \in U : \A m \in U : l <= m
  <2>1. U \subseteq Nat /\ U # {}
    BY <1>2
  <2> HIDE DEF U
  <2> QED
    BY <2>1, LeastElement
<1>4. l \in K
  <2>1. SUFFICES ASSUME l \notin K PROVE FALSE
    OBVIOUS
  <2>2. f <= l /\ l \in Nat /\ f >= 1 /\ f \in Nat
    BY <1>1, <1>3
  <2>3. \A i \in K : i <= l - 1
    <3>1. \A i \in K : i \in Nat /\ i <= l /\ i # l
      BY <1>3, <2>1
    <3> QED
      BY <2>2, <3>1
  <2>4. l - 1 \in U
    BY <2>2, <2>3
  <2> QED
    BY <1>3, <2>2, <2>4
<1> QED
  BY <1>1, <1>3, <1>4

LEMMA MinIs ==
    ASSUME NEW K, K \subseteq Nat, NEW f \in K, \A i \in K : f <= i
    PROVE  Min(K) = f
<1>1. \E x \in K : \A y \in K : x =< y
  OBVIOUS
<1>2. Min(K) \in K /\ \A y \in K : Min(K) =< y
  BY <1>1 DEF Min
<1> DEFINE m == Min(K)
<1> HIDE DEF m
<1>3. m \in K /\ m =< f /\ m \in Nat /\ f \in Nat
  BY <1>2 DEF m
<1>4. f =< m
  BY <1>3
<1>5. m = f
  BY <1>3, <1>4
<1> QED
  BY <1>5 DEF m

LEMMA MaxIs ==
    ASSUME NEW K, K \subseteq Nat, NEW l \in K, \A i \in K : i <= l
    PROVE  Max(K) = l
<1>1. \E x \in K : \A y \in K : x >= y
  OBVIOUS
<1>2. Max(K) \in K /\ \A y \in K : Max(K) >= y
  BY <1>1 DEF Max
<1> DEFINE m == Max(K)
<1> HIDE DEF m
<1>3. m \in K /\ m >= l /\ m \in Nat /\ l \in Nat
  BY <1>2 DEF m
<1>4. l >= m
  BY <1>3
<1>5. m = l
  BY <1>3, <1>4
<1> QED
  BY <1>5 DEF m

LEMMA Cut ==
    ASSUME NEW s \in Text, NEW f \in 1 .. Len(s), NEW l \in f - 1 .. Len(s)
    PROVE  /\ SubSeq(s, f, l) \in Text
           /\ Len(SubSeq(s, f, l)) = l - f + 1
           /\ DOMAIN SubSeq(s, f, l) = 1 .. l - f + 1
           /\ \A i \in 1 .. l - f + 1 : SubSeq(s, f, l)[i] = s[f + i - 1]
<1>1. s \in Seq(Tokens) /\ f \in Int /\ l \in Int /\ \A i \in f .. l : s[i] \in Tokens
  BY DEF Text
<1>2. /\ SubSeq(s, f, l) \in Seq(Tokens)
      /\ Len(SubSeq(s, f, l)) = IF f <= l THEN l - f + 1 ELSE 0
      /\ \A i \in 1 .. l - f + 1 : SubSeq(s, f, l)[i] = s[f + i - 1]
  BY <1>1, SubSeqProperties
<1> DEFINE u == SubSeq(s, f, l)
<1> HIDE DEF u
<1>3. u \in Seq(Tokens) /\ Len(u) = l - f + 1 /\ \A i \in 1 .. l - f + 1 : u[i] = s[f + i - 1]
  BY <1>1, <1>2 DEF u
<1>4. DOMAIN u = 1 .. l - f + 1
  BY <1>3
<1> QED
  BY <1>3, <1>4 DEF u, Text

LEMMA TrimSpaceExact ==
    ASSUME NEW s \in Text, NEW f \in 1 .. Len(s), NEW l \in f .. Len(s),
           s[f] # Blank, s[l] # Blank, \A i \in 1 .. Len(s) : i \notin f .. l => s[i] = Blank
    PROVE  TrimSpace(s) = SubSeq(s, f, l)
<1> DEFINE kept == {i \in DOMAIN s : s[i] # Blank}
<1>1. DOMAIN s = 1 .. Len(s) /\ Len(s) \in Nat
  BY DEF Text
<1>2. kept \subseteq Nat /\ f \in kept /\ l \in kept /\ \A i \in kept : f <= i /\ i <= l
  BY <1>1
<1>3. TrimSpace(s) = IF kept = {} THEN << >> ELSE SubSeq(s, Min(kept), Max(kept))
  BY DEF TrimSpace
<1> HIDE DEF kept
<1>4. Min(kept) = f /\ Max(kept) = l
  BY <1>2, MinIs, MaxIs
<1> QED
  BY <1>2, <1>3, <1>4

LEMMA TrimSpaceIs ==
    ASSUME NEW s \in Text, ~AllBlank(s)
    PROVE  \E f, l \in 1 .. Len(s) :
                /\ f <= l /\ s[f] # Blank /\ s[l] # Blank
                /\ \A i \in 1 .. Len(s) : i \notin f .. l => s[i] = Blank
                /\ TrimSpace(s) = SubSeq(s, f, l)
<1> DEFINE kept == {i \in DOMAIN s : s[i] # Blank}
<1>1. DOMAIN s = 1 .. Len(s) /\ Len(s) \in Nat
  BY DEF Text
<1>2. kept \subseteq 1 .. Len(s) /\ kept # {}
  BY <1>1 DEF AllBlank
<1>3. PICK f, l \in kept : \A i \in kept : f <= i /\ i <= l
  <2> HIDE DEF kept
  <2> QED
    BY <1>1, <1>2, FirstAndLast
<1>4. /\ f \in 1 .. Len(s) /\ l \in 1 .. Len(s) /\ f <= l /\ s[f] # Blank /\ s[l] # Blank
      /\ \A i \in 1 .. Len(s) : i \notin f .. l => s[i] = Blank
  BY <1>1, <1>3
<1>5. l \in f .. Len(s)
  BY <1>1, <1>4
<1>6. TrimSpace(s) = SubSeq(s, f, l)
  <2> HIDE DEF kept
  <2> QED
    BY <1>4, <1>5, TrimSpaceExact
<1> QED
  BY <1>4, <1>6

LEMMA TrimSpaceOfBlanks ==
    ASSUME NEW s \in Text
    PROVE  /\ TrimSpace(s) \in Text
           /\ TrimSpace(s) = << >> <=> AllBlank(s)
<1>1. CASE AllBlank(s)
  BY <1>1 DEF AllBlank, TrimSpace, Text
<1>2. CASE ~AllBlank(s)
  <2>1. PICK f, l \in 1 .. Len(s) : f <= l /\ TrimSpace(s) = SubSeq(s, f, l)
    BY <1>2, TrimSpaceIs
  <2>2. Len(s) \in Nat
    BY DEF Text
  <2>3. l \in f - 1 .. Len(s) /\ l - f + 1 # 0
    BY <2>1, <2>2
  <2>4. SubSeq(s, f, l) \in Text /\ Len(SubSeq(s, f, l)) # 0
    BY <2>3, Cut
  <2>5. SubSeq(s, f, l) # << >>
    BY <2>4
  <2> QED
    BY <1>2, <2>1, <2>4, <2>5
<1> QED
  BY <1>1, <1>2

----------------------------------------------------------------------------
(* One component of a subject *)

LEMMA TypeTokens ==
    ASSUME NEW a \in Attributes
    PROVE  /\ a # Blank /\ a # Equals /\ LowerCase[a] # Blank /\ LowerCase[a] # Equals
           /\ a \in Tokens /\ LowerCase[a] \in Tokens
           /\ \A b \in Attributes : {a, LowerCase[a]} \cap {b, LowerCase[b]} # {} => a = b
BY DEF Attributes, LowerCase, Blank, Equals, Tokens

LEMMA EqualsAtIs ==
    ASSUME NEW c \in Text, NEW e \in 1 .. Len(c), c[e] = Equals, \A i \in 1 .. e - 1 : c[i] # Equals
    PROVE  EqualsAt(c) = e
<1>1. DOMAIN c = 1 .. Len(c) /\ Len(c) \in Nat
  BY DEF Text
<1>2. EqualsSigns(c) \subseteq Nat /\ e \in EqualsSigns(c) /\ \A i \in EqualsSigns(c) : e <= i
  BY <1>1 DEF EqualsSigns
<1>3. Min(EqualsSigns(c)) = e
  BY <1>2, MinIs
<1> QED
  BY <1>2, <1>3 DEF EqualsAt

LEMMA EqualsAtFound ==
    ASSUME NEW c \in Text, EqualsAt(c) > 0
    PROVE  /\ EqualsAt(c) \in 1 .. Len(c) /\ c[EqualsAt(c)] = Equals
           /\ \A i \in 1 .. EqualsAt(c) - 1 : c[i] # Equals
<1>1. DOMAIN c = 1 .. Len(c) /\ Len(c) \in Nat
  BY DEF Text
<1>2. EqualsSigns(c) # {} /\ EqualsSigns(c) \subseteq 1 .. Len(c)
  BY <1>1 DEF EqualsAt, EqualsSigns
<1>3. PICK e \in EqualsSigns(c) : \A i \in EqualsSigns(c) : e <= i
  <2>1. EqualsSigns(c) \subseteq Nat
    BY <1>2
  <2> QED
    BY <1>2, <2>1, LeastElement
<1>4. e \in 1 .. Len(c) /\ c[e] = Equals
  BY <1>2, <1>3 DEF EqualsSigns
<1>5. \A i \in 1 .. e - 1 : c[i] # Equals
  BY <1>1, <1>3, <1>4 DEF EqualsSigns
<1> QED
  BY <1>4, <1>5, EqualsAtIs

(* Where the parts of text[t .. l] are, counted from t and from e + 1.      *)
LEMMA Positions ==
    ASSUME NEW t \in Int, NEW e \in Int, NEW f \in Int, NEW l \in Int,
           1 <= t, t < e, e < f, f <= l
    PROVE  /\ 1 \in 1 .. l - t + 1 /\ e - t \in 1 - 1 .. l - t + 1 /\ 1 \in 1 .. e - t
           /\ (e - t + 1) - 1 = e - t /\ e - t - 1 + 1 = e - t /\ t + 1 - 1 = t
           /\ \A i \in 1 .. e - t : i \in 1 .. l - t + 1 /\ 1 + i - 1 = i
OBVIOUS

LEMMA PositionsAfterEquals ==
    ASSUME NEW t \in Int, NEW e \in Int, NEW f \in Int, NEW l \in Int,
           1 <= t, t < e, e < f, f <= l
    PROVE  /\ (e - t + 1) + 1 \in 1 .. l - t + 1
           /\ l - t + 1 \in ((e - t + 1) + 1) - 1 .. l - t + 1
           /\ (l - t + 1) - ((e - t + 1) + 1) + 1 = l - e
           /\ \A i \in 1 .. l - e :
                /\ ((e - t + 1) + 1) + i - 1 \in 1 .. l - t + 1
                /\ t + (((e - t + 1) + 1) + i - 1) - 1 = e + i
OBVIOUS

LEMMA PositionsOfValue ==
    ASSUME NEW e \in Int, NEW f \in Int, NEW l \in Int, e < f, f <= l
    PROVE  /\ f - e \in 1 .. l - e /\ l - e \in f - e .. l - e /\ l - e \in (f - e) - 1 .. l - e
           /\ l - e \in 1 .. l - e
           /\ e + (f - e) = f /\ e + (l - e) = l
           /\ (l - e) - (f - e) + 1 = l - f + 1
           /\ \A i \in 1 .. l - f + 1 :
                (f - e) + i - 1 \in 1 .. l - e /\ e + ((f - e) + i - 1) = f + i - 1
OBVIOUS

(* A type, an equals sign and a value, however many blanks are around, are *)
(* read as that type and that value.                                       *)
LEMMA AttributeReads ==
    ASSUME NEW text \in Text, NEW a \in Attributes,
           NEW f \in DOMAIN text, NEW l \in DOMAIN text, AttributeAt(text, a, f, l)
    PROVE  /\ TrimSpace(text) # << >>
           /\ ComponentOK(TrimSpace(text))
           /\ \A b \in Attributes : IsType(TrimSpace(text), b) <=> b = a
           /\ ValueText(TrimSpace(text)) = SubSeq(text, f, l)
<1>0. DOMAIN text = 1 .. Len(text) /\ Len(text) \in Nat
  BY DEF Text
<1>1. PICK t, e \in DOMAIN text :
        /\ t < e /\ e < f /\ f <= l
        /\ text[t] \in {a, LowerCase[a]} /\ text[e] = Equals
        /\ text[f] # Blank /\ text[l] # Blank
        /\ \A i \in DOMAIN text : i \notin {t, e} \cup (f .. l) => text[i] = Blank
  BY DEF AttributeAt
<1>2. /\ t \in 1 .. Len(text) /\ e \in 1 .. Len(text) /\ f \in 1 .. Len(text) /\ l \in 1 .. Len(text)
      /\ l \in t .. Len(text) /\ l \in t - 1 .. Len(text)
  BY <1>0, <1>1
<1>n. /\ t \in Int /\ e \in Int /\ f \in Int /\ l \in Int /\ Len(text) \in Int
      /\ 1 <= t /\ t < e /\ e < f /\ f <= l /\ l <= Len(text)
  BY <1>0, <1>1, <1>2
<1>3. Equals # Blank /\ text[t] # Blank /\ text[t] # Equals
  BY <1>1, TypeTokens DEF Equals, Blank
<1> DEFINE c == TrimSpace(text)
           u == SubSeq(c, 1, e - t)
           v == SubSeq(c, (e - t + 1) + 1, l - t + 1)
<1>4. c = SubSeq(text, t, l)
  <2>1. \A i \in 1 .. Len(text) : i \notin t .. l => text[i] = Blank
    BY <1>0, <1>1, <1>2
  <2> QED
    BY <1>1, <1>2, <1>3, <2>1, TrimSpaceExact
<1>5. /\ c \in Text /\ Len(c) = l - t + 1 /\ DOMAIN c = 1 .. l - t + 1
      /\ \A i \in 1 .. l - t + 1 : c[i] = text[t + i - 1]
  BY <1>2, <1>4, Cut
<1> HIDE DEF c
<1>6. EqualsAt(c) = e - t + 1
  <2>1. e - t + 1 \in 1 .. Len(c) /\ c[e - t + 1] = Equals
    <3>1. e - t + 1 \in 1 .. l - t + 1 /\ t + (e - t + 1) - 1 = e
      BY <1>n
    <3> QED
      BY <1>1, <1>5, <3>1
  <2>2. ASSUME NEW i \in 1 .. (e - t + 1) - 1 PROVE c[i] # Equals
    <3>1. i \in 1 .. l - t + 1 /\ t + i - 1 \in 1 .. Len(text) /\ t + i - 1 < e /\ t + i - 1 >= t
      BY <1>n
    <3> DEFINE j == t + i - 1
    <3>2. j \in DOMAIN text /\ (j = t \/ j \notin {t, e} \cup (f .. l))
      BY <1>0, <1>1, <1>2, <3>1
    <3>3. c[i] = text[j]
      BY <1>5, <3>1
    <3> HIDE DEF j
    <3>4. text[j] # Equals
      BY <1>1, <1>3, <3>2
    <3> QED
      BY <3>3, <3>4
  <2> QED
    BY <1>5, <2>1, <2>2, EqualsAtIs
<1>p. TypeText(c) = TrimSpace(u) /\ ValueText(c) = TrimSpace(v)
  <2>1. (e - t + 1) - 1 = e - t
    BY <1>n, Positions
  <2> QED
    BY <1>5, <1>6, <2>1 DEF TypeText, ValueText
<1>7. TypeText(c) = << text[t] >>
  <2>1. 1 \in 1 .. Len(c) /\ e - t \in 1 - 1 .. Len(c) /\ 1 \in 1 .. e - t
        /\ e - t - 1 + 1 = e - t /\ t + 1 - 1 = t
    BY <1>n, <1>5, Positions, SMTT(30)
  <2>2. /\ u \in Text /\ Len(u) = e - t
        /\ \A i \in 1 .. e - t : u[i] = c[1 + i - 1]
    BY <1>5, <2>1, Cut
  <2> HIDE DEF u
  <2>3. ASSUME NEW i \in 1 .. e - t PROVE u[i] = text[t + i - 1]
    <3>1. i \in 1 .. l - t + 1 /\ 1 + i - 1 = i
      BY <1>n, Positions
    <3> QED
      BY <1>5, <2>2, <3>1
  <2>4. u[1] = text[t]
    BY <2>1, <2>3
  <2>5. ASSUME NEW i \in 1 .. Len(u), i \notin 1 .. 1 PROVE u[i] = Blank
    <3>1. i \in 1 .. e - t
      BY <2>2
    <3>2. t + i - 1 \in 1 .. Len(text) /\ t + i - 1 \notin {t, e} \cup (f .. l)
      BY <1>n, <2>5, <3>1
    <3>3. text[t + i - 1] = Blank
      BY <1>0, <1>1, <3>2
    <3> QED
      BY <2>3, <3>1, <3>3
  <2>6. 1 \in 1 .. Len(u) /\ 1 \in 1 .. Len(u) /\ u[1] # Blank
    BY <1>3, <2>1, <2>2, <2>4
  <2>7. TrimSpace(u) = SubSeq(u, 1, 1)
    BY <2>2, <2>5, <2>6, TrimSpaceExact
  <2>8. SubSeq(u, 1, 1) = << u[1] >>
    BY <2>2, <2>6, SubSeqOfOne DEF Text
  <2> QED
    BY <1>p, <2>4, <2>7, <2>8
<1>8. ValueText(c) = SubSeq(text, f, l)
  <2>1. /\ (e - t + 1) + 1 \in 1 .. Len(c) /\ l - t + 1 \in ((e - t + 1) + 1) - 1 .. Len(c)
        /\ (l - t + 1) - ((e - t + 1) + 1) + 1 = l - e
    <3>1. /\ (e - t + 1) + 1 \in 1 .. l - t + 1
          /\ l - t + 1 \in ((e - t + 1) + 1) - 1 .. l - t + 1
          /\ (l - t + 1) - ((e - t + 1) + 1) + 1 = l - e
      BY <1>n, PositionsAfterEquals
    <3> QED
      BY <1>5, <3>1
  <2>2. /\ v \in Text /\ Len(v) = l - e
        /\ \A i \in 1 .. l - e : v[i] = c[((e - t + 1) + 1) + i - 1]
    BY <1>5, <2>1, Cut
  <2> HIDE DEF v
  <2>3. ASSUME NEW i \in 1 .. l - e PROVE v[i] = text[e + i]
    <3>1. /\ ((e - t + 1) + 1) + i - 1 \in 1 .. l - t + 1
          /\ t + (((e - t + 1) + 1) + i - 1) - 1 = e + i
      BY <1>n, PositionsAfterEquals, SMTT(30)
    <3> QED
      BY <1>5, <2>2, <3>1
  <2>4. /\ f - e \in 1 .. Len(v) /\ l - e \in f - e .. Len(v) /\ l - e \in (f - e) - 1 .. Len(v)
        /\ l - e \in 1 .. l - e /\ f - e \in 1 .. l - e
        /\ e + (f - e) = f /\ e + (l - e) = l /\ (l - e) - (f - e) + 1 = l - f + 1
    <3>1. /\ f - e \in 1 .. l - e /\ l - e \in f - e .. l - e /\ l - e \in (f - e) - 1 .. l - e
          /\ l - e \in 1 .. l - e
          /\ e + (f - e) = f /\ e + (l - e) = l /\ (l - e) - (f - e) + 1 = l - f + 1
      BY <1>n, PositionsOfValue, SMTT(30)
    <3> QED
      BY <2>2, <3>1
  <2>5. v[f - e] # Blank /\ v[l - e] # Blank
    BY <1>1, <2>3, <2>4
  <2>6. ASSUME NEW i \in 1 .. Len(v), i \notin f - e .. l - e PROVE v[i] = Blank
    <3>1. i \in 1 .. l - e
      BY <2>2
    <3>2. e + i \in 1 .. Len(text) /\ e + i \notin {t, e} \cup (f .. l)
      BY <1>n, <2>6, <3>1, SMTT(30)
    <3>3. text[e + i] = Blank
      BY <1>0, <1>1, <3>2
    <3> QED
      BY <2>3, <3>1, <3>3
  <2>7. TrimSpace(v) = SubSeq(v, f - e, l - e)
    BY <2>2, <2>4, <2>5, <2>6, TrimSpaceExact
  <2> DEFINE x == SubSeq(v, f - e, l - e)
             y == SubSeq(text, f, l)
  <2>8. x \in Text /\ Len(x) = l - f + 1 /\ \A i \in 1 .. l - f + 1 : x[i] = text[f + i - 1]
    <3>2. x \in Text /\ Len(x) = l - f + 1 /\ \A i \in 1 .. l - f + 1 : x[i] = v[(f - e) + i - 1]
      BY <2>2, <2>4, Cut
    <3> HIDE DEF x
    <3>3. ASSUME NEW i \in 1 .. l - f + 1 PROVE x[i] = text[f + i - 1]
      <4>1. (f - e) + i - 1 \in 1 .. l - e /\ e + ((f - e) + i - 1) = f + i - 1
        BY <1>n, PositionsOfValue
      <4> QED
        BY <2>3, <3>2, <4>1
    <3> QED
      BY <3>2, <3>3
  <2>9. y \in Text /\ Len(y) = l - f + 1 /\ \A i \in 1 .. l - f + 1 : y[i] = text[f + i - 1]
    <3>1. l \in f - 1 .. Len(text)
      BY <1>1, <1>2
    <3> QED
      BY <1>2, <3>1, Cut
  <2> HIDE DEF x, y
  <2>10. x = y
    BY <2>8, <2>9, SeqEqual DEF Text
  <2> QED
    BY <1>p, <2>7, <2>10 DEF x, y
<1>9. c # << >> /\ SubSeq(text, f, l) # << >>
  <2>1. Len(c) # 0
    BY <1>1, <1>2, <1>5
  <2>2. l \in f - 1 .. Len(text) /\ l - f + 1 # 0
    BY <1>1, <1>2
  <2>3. SubSeq(text, f, l) \in Seq(Tokens) /\ Len(SubSeq(text, f, l)) # 0
    BY <1>2, <2>2, Cut DEF Text
  <2>4. SubSeq(text, f, l) # << >>
    <3> HIDE DEF Tokens
    <3> DEFINE y == SubSeq(text, f, l)
    <3> HIDE DEF y
    <3>1. Len(y) # 0
      BY <2>3 DEF y
    <3>2. y # << >>
      BY <3>1
    <3> QED
      BY <3>2 DEF y
  <2> QED
    BY <1>5, <2>1, <2>4
<1>10. \A b \in Attributes : IsType(c, b) <=> b = a
  <2>1. ASSUME NEW b \in Attributes PROVE IsType(c, b) <=> text[t] \in {b, LowerCase[b]}
    BY <1>7 DEF IsType
  <2> QED
    BY <1>1, <2>1, TypeTokens
<1>11. EqualsAt(c) > 0
  BY <1>1, <1>2, <1>6
<1> QED
  BY <1>8, <1>9, <1>10, <1>11 DEF ComponentOK, c

(* Conversely, nothing else is accepted.                                   *)
LEMMA ComponentShows ==
    ASSUME NEW text \in Text, ~AllBlank(text), ComponentOK(TrimSpace(text))
    PROVE  \E a \in Attributes, f, l \in DOMAIN text : AttributeAt(text, a, f, l)
<1>0. DOMAIN text = 1 .. Len(text) /\ Len(text) \in Nat
  BY DEF Text
<1>1. PICK b, z \in 1 .. Len(text) :
        /\ b <= z
        /\ \A i \in 1 .. Len(text) : i \notin b .. z => text[i] = Blank
        /\ TrimSpace(text) = SubSeq(text, b, z)
  BY TrimSpaceIs
<1> DEFINE c == TrimSpace(text)
           e == EqualsAt(c)
           u == SubSeq(c, 1, e - 1)
           v == SubSeq(c, e + 1, Len(c))
<1>n. b \in Int /\ z \in Int /\ Len(text) \in Int /\ 1 <= b /\ z <= Len(text) /\ z \in b - 1 .. Len(text)
  BY <1>0, <1>1
<1>2. /\ c \in Text /\ Len(c) = z - b + 1
      /\ \A i \in 1 .. z - b + 1 : c[i] = text[b + i - 1]
  BY <1>1, <1>n, Cut
<1>3. /\ e > 0 /\ ValueText(c) # << >>
      /\ \E a \in Attributes : IsType(c, a)
  BY TrimSpaceOfBlanks DEF ComponentOK
<1> HIDE DEF c
<1>4. e \in 1 .. Len(c) /\ c[e] = Equals
  BY <1>2, <1>3, EqualsAtFound
<1>5. TypeText(c) = TrimSpace(u) /\ ValueText(c) = TrimSpace(v)
  BY DEF TypeText, ValueText
<1> HIDE DEF e
<1>m. e \in Int /\ 1 <= e /\ e <= z - b + 1
  BY <1>n, <1>2, <1>4
<1>6. PICK a \in Attributes : TrimSpace(u) \in {<< a >>, << LowerCase[a] >>}
  BY <1>3, <1>5 DEF IsType
<1>7. /\ u \in Text /\ Len(u) = e - 1
      /\ \A i \in 1 .. e - 1 : u[i] = text[b + i - 1]
  <2>1. 1 \in 1 .. Len(c) /\ e - 1 \in 1 - 1 .. Len(c) /\ e - 1 - 1 + 1 = e - 1
    BY <1>n, <1>m, <1>2
  <2>2. /\ u \in Text /\ Len(u) = e - 1
        /\ \A i \in 1 .. e - 1 : u[i] = c[1 + i - 1]
    BY <1>2, <2>1, Cut
  <2> HIDE DEF u
  <2>3. ASSUME NEW i \in 1 .. e - 1 PROVE u[i] = text[b + i - 1]
    <3>1. i \in 1 .. z - b + 1 /\ 1 + i - 1 = i
      BY <1>n, <1>m
    <3> QED
      BY <1>2, <2>2, <3>1
  <2> QED
    BY <2>2, <2>3
<1>8. e < z - b + 1
  <2>1. SUFFICES ASSUME e = z - b + 1 PROVE FALSE
    BY <1>n, <1>m
  <2>2. Len(c) \in Int /\ e + 1 \in Int /\ Len(c) < e + 1
    BY <1>m, <1>2, <2>1
  <2>3. v = << >>
    BY <2>2, SubSeqEmpty
  <2>4. << >> \in Text /\ AllBlank(<< >>)
    BY DEF Text, AllBlank
  <2> QED
    BY <1>3, <1>5, <2>3, <2>4, TrimSpaceOfBlanks
<1>9. /\ v \in Text /\ Len(v) = z - b + 1 - e
      /\ \A i \in 1 .. z - b + 1 - e : v[i] = text[b + e + i - 1]
  <2>1. /\ e + 1 \in 1 .. Len(c) /\ Len(c) \in (e + 1) - 1 .. Len(c)
        /\ Len(c) - (e + 1) + 1 = z - b + 1 - e
    BY <1>n, <1>m, <1>2, <1>8
  <2>2. /\ v \in Text /\ Len(v) = z - b + 1 - e
        /\ \A i \in 1 .. z - b + 1 - e : v[i] = c[(e + 1) + i - 1]
    BY <1>2, <2>1, Cut
  <2> HIDE DEF v
  <2>3. ASSUME NEW i \in 1 .. z - b + 1 - e PROVE v[i] = text[b + e + i - 1]
    <3>1. (e + 1) + i - 1 \in 1 .. z - b + 1 /\ b + ((e + 1) + i - 1) - 1 = b + e + i - 1
      BY <1>n, <1>m
    <3> QED
      BY <1>2, <2>2, <3>1
  <2> QED
    BY <2>2, <2>3
<1> HIDE DEF u, v
<1>10. PICK k \in 1 .. Len(u) :
         /\ u[k] \in {a, LowerCase[a]}
         /\ \A i \in 1 .. Len(u) : i # k => u[i] = Blank
  <2>1. ~AllBlank(u)
    <3>1. Len(TrimSpace(u)) = 1
      BY <1>6
    <3>2. TrimSpace(u) # << >>
      <4>1. TrimSpace(u) \in Seq(Tokens)
        BY <1>7, TrimSpaceOfBlanks DEF Text
      <4> DEFINE y == TrimSpace(u)
      <4> HIDE DEF y
      <4>2. y \in Seq(Tokens) /\ Len(y) = 1
        BY <3>1, <4>1 DEF y
      <4>3. y # << >>
        <5>1. SUFFICES ASSUME y = << >> PROVE FALSE
          OBVIOUS
        <5>2. Len(<< >>) = 0
          BY EmptySeq
        <5>3. 1 = 0
          BY <4>2, <5>1, <5>2, Zenon
        <5> QED
          BY <5>3
      <4> QED
        BY <4>3 DEF y
    <3> QED
      BY <1>7, <3>2, TrimSpaceOfBlanks
  <2>2. PICK p, q \in 1 .. Len(u) :
          /\ p <= q /\ \A i \in 1 .. Len(u) : i \notin p .. q => u[i] = Blank
          /\ TrimSpace(u) = SubSeq(u, p, q)
    BY <1>7, <2>1, TrimSpaceIs
  <2>3. q \in p - 1 .. Len(u) /\ p \in Int /\ q \in Int
    BY <1>m, <1>7, <2>2
  <2>4. Len(SubSeq(u, p, q)) = q - p + 1
    BY <1>7, <2>2, <2>3, Cut
  <2>5. Len(TrimSpace(u)) = 1
    BY <1>6
  <2>6. p = q
    BY <2>2, <2>3, <2>4, <2>5
  <2>7. TrimSpace(u) = << u[p] >>
    BY <1>7, <2>2, <2>6, SubSeqOfOne DEF Text
  <2>8. u[p] \in {a, LowerCase[a]}
    BY <1>6, <2>7
  <2> QED
    BY <2>2, <2>3, <2>6, <2>8
<1>11. PICK p, q \in 1 .. Len(v) :
         /\ p <= q /\ v[p] # Blank /\ v[q] # Blank
         /\ \A i \in 1 .. Len(v) : i \notin p .. q => v[i] = Blank
  <2>1. ~AllBlank(v)
    BY <1>3, <1>5, <1>9, TrimSpaceOfBlanks
  <2> QED
    BY <1>9, <2>1, TrimSpaceIs
<1> DEFINE t0 == b + k - 1
           e0 == b + e - 1
           f0 == b + e + p - 1
           l0 == b + e + q - 1
<1>12. /\ k \in Int /\ p \in Int /\ q \in Int /\ 1 <= k /\ k <= e - 1 /\ 1 <= p /\ p <= q
       /\ q <= z - b + 1 - e
  BY <1>m, <1>n, <1>7, <1>9, <1>10, <1>11
<1>13. /\ t0 \in DOMAIN text /\ e0 \in DOMAIN text /\ f0 \in DOMAIN text /\ l0 \in DOMAIN text
       /\ t0 < e0 /\ e0 < f0 /\ f0 <= l0
  BY <1>0, <1>m, <1>n, <1>12
<1>14. text[t0] \in {a, LowerCase[a]} /\ text[e0] = Equals /\ text[f0] # Blank /\ text[l0] # Blank
  <2>1. text[t0] = u[k] /\ text[f0] = v[p] /\ text[l0] = v[q]
    BY <1>7, <1>9, <1>10, <1>11
  <2>2. text[e0] = c[e]
    BY <1>2, <1>4
  <2> QED
    BY <1>4, <1>10, <1>11, <2>1, <2>2
<1>15. ASSUME NEW i \in DOMAIN text, i \notin {t0, e0} \cup (f0 .. l0) PROVE text[i] = Blank
  <2>0. i \in 1 .. Len(text) /\ i \in Int
    BY <1>0
  <2>1. CASE i \notin b .. z
    BY <1>1, <2>0, <2>1
  <2>2. CASE i \in b .. z /\ i < e0
    <3> DEFINE j == i - b + 1
    <3>0. i # t0
      BY <1>15
    <3>1. j \in 1 .. e - 1 /\ j # k /\ b + j - 1 = i
      BY <1>m, <1>n, <1>12, <2>0, <2>2, <3>0, SMTT(30)
    <3> HIDE DEF j
    <3>2. u[j] = Blank
      BY <1>7, <1>10, <3>1
    <3> QED
      BY <1>7, <3>1, <3>2
  <2>3. CASE i \in b .. z /\ i > e0
    <3> DEFINE j == i - b - e + 1
    <3>0. i \notin f0 .. l0
      BY <1>15
    <3>1. j \in 1 .. z - b + 1 - e /\ j \notin p .. q /\ b + e + j - 1 = i
      <4>1. i \notin b + e + p - 1 .. b + e + q - 1 /\ i \in b .. z /\ b + e - 1 < i
        BY <2>3, <3>0
      <4> QED
        <5>1. b \in Int /\ e \in Int /\ p \in Int /\ q \in Int /\ z \in Int /\ i \in Int
          BY <1>m, <1>n, <1>12, <2>0
        <5>2. i - b - e + 1 \in 1 .. z - b + 1 - e
          BY <4>1, <5>1, SMTT(30)
        <5>3. i - b - e + 1 \notin p .. q
          BY <4>1, <5>1, SMTT(30)
        <5>4. b + e + (i - b - e + 1) - 1 = i
          BY <5>1
        <5> QED
          BY <5>2, <5>3, <5>4
    <3> HIDE DEF j
    <3>2. v[j] = Blank
      BY <1>9, <1>11, <3>1
    <3> QED
      BY <1>9, <3>1, <3>2
  <2>4. i # e0
    BY <1>15
  <2> QED
    BY <1>m, <1>n, <2>0, <2>1, <2>2, <2>3, <2>4
<1> HIDE DEF t0, e0, f0, l0
<1>16. AttributeAt(text, a, f0, l0)
  BY <1>13, <1>14, <1>15 DEF AttributeAt
<1> QED
  BY <1>13, <1>16

----------------------------------------------------------------------------
(* One alternative name *)

CutFacts(text, p, l) ==
    LET c == SubSeq(text, p, l)
        r == SubSeq(text, p + 1, l)
    IN  /\ c # << >> /\ c[1] = text[p]
        /\ Tail(c) = r /\ SubSeq(c, 2, Len(c)) = r
        /\ r = << >> <=> p = l

LEMMA TailOfCut ==
    ASSUME NEW text \in Text, NEW p \in 1 .. Len(text), NEW l \in p .. Len(text)
    PROVE  CutFacts(text, p, l)
<1> DEFINE c == SubSeq(text, p, l)
           r == SubSeq(text, p + 1, l)
<1>0. text \in Seq(Tokens) /\ Len(text) \in Nat /\ p \in Int /\ l \in Int
  BY DEF Text
<1>1. l \in p - 1 .. Len(text) /\ 1 \in 1 .. l - p + 1 /\ p + 1 - 1 = p /\ l - p + 1 # 0
  BY <1>0
<1>2. c \in Seq(Tokens) /\ Len(c) # 0 /\ c[1] = text[p]
  BY <1>1, Cut DEF Text
<1>3. Tail(c) = r
  BY <1>0, HeadTailOfSubSeq
<1> HIDE DEF c
<1>4. c # << >>
  BY <1>2
<1>5. Tail(c) = SubSeq(c, 2, Len(c))
  BY <1>2, <1>4, TailIsSubSeq
<1>6. Len(r) = l - p /\ r \in Seq(Tokens)
  <2>1. CASE p < l
    <3>1. p + 1 \in 1 .. Len(text) /\ l \in (p + 1) - 1 .. Len(text) /\ l - (p + 1) + 1 = l - p
      BY <1>0, <2>1
    <3> QED
      BY <3>1, Cut DEF Text
  <2>2. CASE p = l
    <3>1. l < p + 1 /\ p + 1 \in Int /\ l - p = 0
      BY <1>0, <2>2
    <3>2. r = << >>
      BY <1>0, <3>1, SubSeqEmpty
    <3> QED
      BY <3>1, <3>2
  <2> QED
    BY <1>0, <2>1, <2>2
<1> HIDE DEF r
<1>7. r = << >> <=> p = l
  BY <1>0, <1>6
<1> QED
  BY <1>2, <1>3, <1>4, <1>5, <1>7 DEF c, r, CutFacts

LEMMA PrefixedReads ==
    ASSUME NEW text \in Text, NEW prefix \in {"DNS:", "IP:"},
           NEW p \in DOMAIN text, NEW l \in DOMAIN text, PrefixedAt(text, prefix, p, l)
    PROVE  LET c == TrimSpace(text) IN
           /\ c # << >> /\ c[1] = prefix
           /\ Tail(c) = SubSeq(text, p + 1, l) /\ Tail(c) # << >>
           /\ SubSeq(c, 2, Len(c)) = SubSeq(text, p + 1, l)
<1>0. DOMAIN text = 1 .. Len(text) /\ Len(text) \in Nat
  BY DEF Text
<1>1. /\ p < l /\ text[p] = prefix /\ text[l] # Blank
      /\ \A i \in 1 .. Len(text) : i \notin p .. l => text[i] = Blank
  BY <1>0 DEF PrefixedAt
<1>2. p \in 1 .. Len(text) /\ l \in p .. Len(text) /\ p # l /\ text[p] # Blank
  BY <1>0, <1>1 DEF Blank
<1>3. TrimSpace(text) = SubSeq(text, p, l)
  BY <1>1, <1>2, TrimSpaceExact
<1>4. CutFacts(text, p, l)
  BY <1>2, TailOfCut
<1> DEFINE x == SubSeq(text, p, l)
           r == SubSeq(text, p + 1, l)
<1>5. TrimSpace(text) = x
  BY <1>3
<1>6. /\ x # << >> /\ x[1] = text[p] /\ Tail(x) = r /\ SubSeq(x, 2, Len(x)) = r
      /\ (r = << >> <=> p = l)
  BY <1>4, Zenon DEF CutFacts
<1> HIDE DEF x, r
<1>7. r # << >> /\ x[1] = prefix
  BY <1>1, <1>2, <1>6
<1> QED
  BY <1>5, <1>6, <1>7 DEF r

LEMMA SanShows ==
    ASSUME NEW text \in Text, ~AllBlank(text), SanOK(TrimSpace(text))
    PROVE  \E p, l \in DOMAIN text : PrefixedAt(text, "DNS:", p, l) \/ AddressAt(text, p, l)
<1>0. DOMAIN text = 1 .. Len(text) /\ Len(text) \in Nat
  BY DEF Text
<1>1. PICK p, l \in 1 .. Len(text) :
        /\ p <= l /\ text[l] # Blank
        /\ \A i \in 1 .. Len(text) : i \notin p .. l => text[i] = Blank
        /\ TrimSpace(text) = SubSeq(text, p, l)
  BY TrimSpaceIs
<1> DEFINE c == TrimSpace(text)
           r == SubSeq(text, p + 1, l)
<1>2. l \in p .. Len(text)
  BY <1>0, <1>1
<1>3. c # << >> /\ c[1] = text[p] /\ Tail(c) = r /\ (r = << >> <=> p = l)
  <2> DEFINE x == SubSeq(text, p, l)
  <2>0. CutFacts(text, p, l)
    BY <1>2, TailOfCut
  <2>1. x # << >> /\ x[1] = text[p] /\ Tail(x) = r /\ (r = << >> <=> p = l)
    BY <2>0, Zenon DEF CutFacts
  <2>2. c = x
    BY <1>1
  <2> HIDE DEF x, c, r
  <2> QED
    BY <2>1, <2>2
<1>4. \/ c[1] = "DNS:" /\ Tail(c) # << >>
      \/ c[1] = "IP:" /\ Tail(c) \in Addresses
  BY <1>3 DEF SanOK
<1> HIDE DEF c, r
<1>5. p # l /\ (text[p] = "DNS:" \/ (text[p] = "IP:" /\ r \in Addresses))
  <2>1. CASE c[1] = "DNS:" /\ Tail(c) # << >>
    BY <1>3, <2>1
  <2>2. CASE c[1] = "IP:" /\ Tail(c) \in Addresses
    <3>1. r \in Addresses /\ r # << >> /\ text[p] = "IP:"
      BY <1>3, <2>2, AddressesAssumption
    <3> QED
      BY <1>3, <3>1
  <2> QED
    BY <1>4, <2>1, <2>2
<1>6. p < l
  BY <1>0, <1>1, <1>5
<1> QED
  BY <1>0, <1>1, <1>5, <1>6 DEF PrefixedAt, AddressAt, r

----------------------------------------------------------------------------
(* A whole line: its components are its parts without their blanks.        *)

LEMMA Listed ==
    ASSUME NEW S, NEW f, NEW n \in Nat, f = [i \in 1 .. n |-> f[i]], \A i \in 1 .. n : f[i] \in S
    PROVE  f \in Seq(S) /\ Len(f) = n
<1>1. f \in [1 .. n -> S]
  OBVIOUS
<1>2. f \in Seq(S)
  BY <1>1, IsASeq
<1>3. Len(f) \in Nat /\ 1 .. Len(f) = 1 .. n
  BY <1>1, <1>2
<1>4. Len(f) = n
  BY <1>3
<1> QED
  BY <1>2, <1>4

LEMMA LineSplit ==
    ASSUME NEW parts, Parts(parts)
    PROVE  /\ Line(parts) \in Text
           /\ Split(Line(parts)) \in Seq(Text)
           /\ Len(Split(Line(parts))) = Len(parts)
           /\ \A i \in 1 .. Len(parts) : Split(Line(parts))[i] = parts[i].text
           /\ Len(parts) = 1 => Line(parts) = parts[1].text
<1> DEFINE texts == [i \in DOMAIN parts |-> parts[i].text]
<1>0. Len(parts) \in Nat \ {0} /\ DOMAIN parts = 1 .. Len(parts)
  BY DEF Parts
<1>1. \A i \in 1 .. Len(parts) : texts[i] = parts[i].text /\ parts[i].text \in Text /\ NoComma(parts[i].text)
  BY <1>0 DEF Parts, Part, NoComma, Text
<1>2. texts = [i \in 1 .. Len(parts) |-> texts[i]]
  BY <1>0
<1> HIDE DEF texts
<1>3. texts \in Seq(Text) /\ Len(texts) = Len(parts)
  BY <1>0, <1>1, <1>2, Listed
<1>4. texts # << >> /\ \A i \in 1 .. Len(texts) : NoComma(texts[i])
  BY <1>0, <1>1, <1>3
<1>5. JoinWithCommas(texts) \in Text /\ Split(JoinWithCommas(texts)) = texts
  BY <1>3, <1>4, JoinSplit
<1>6. ASSUME Len(parts) = 1 PROVE JoinWithCommas(texts) = texts[1]
  <2>1. JoinUpTo(texts)[1] = texts[1]
    BY <1>3, <1>6, JoinUpToIs
  <2> QED
    BY <1>3, <1>6, <2>1, JoinIs
<1>7. Line(parts) = JoinWithCommas(texts)
  BY DEF Line, texts
<1> QED
  BY <1>0, <1>1, <1>3, <1>5, <1>6, <1>7

LEMMA LineComponents ==
    ASSUME NEW parts, Parts(parts)
    PROVE  /\ Components(Line(parts)) \in Seq(Text)
           /\ Len(Components(Line(parts))) = Len(parts)
           /\ DOMAIN Components(Line(parts)) = 1 .. Len(parts)
           /\ \A i \in 1 .. Len(parts) : Components(Line(parts))[i] = TrimSpace(parts[i].text)
<1> DEFINE p == Split(Line(parts))
           cs == Components(Line(parts))
<1>1. p \in Seq(Text) /\ Len(p) = Len(parts) /\ \A i \in 1 .. Len(parts) : p[i] = parts[i].text
  BY LineSplit
<1>2. cs = [i \in DOMAIN p |-> TrimSpace(p[i])]
  BY DEF Components
<1> HIDE DEF p, cs
<1>3. Len(parts) \in Nat /\ DOMAIN p = 1 .. Len(parts)
  BY <1>1
<1>4. \A i \in 1 .. Len(parts) : cs[i] = TrimSpace(parts[i].text) /\ cs[i] \in Text
  <2>1. \A i \in 1 .. Len(parts) : p[i] \in Text
    BY <1>1, <1>3
  <2> QED
    BY <1>1, <1>2, <1>3, <2>1, TrimSpaceOfBlanks
<1>5. cs = [i \in 1 .. Len(parts) |-> cs[i]]
  BY <1>2, <1>3
<1>6. cs \in Seq(Text) /\ Len(cs) = Len(parts)
  BY <1>3, <1>4, <1>5, Listed
<1> QED
  BY <1>3, <1>4, <1>5, <1>6 DEF cs

(* A line of separators only is not empty: ParseDN reads on. *)
NotEmpty(parts) == Len(parts) > 1 \/ SaysSomething(parts)

LEMMA LineSays ==
    ASSUME NEW parts, Parts(parts)
    PROVE  TrimSpace(Line(parts)) # << >> <=> NotEmpty(parts)
<1>0. Len(parts) \in Nat \ {0} /\ DOMAIN parts = 1 .. Len(parts) /\ Line(parts) \in Text
  BY LineSplit DEF Parts
<1>1. TrimSpace(Line(parts)) = << >> <=> AllBlank(Line(parts))
  BY <1>0, TrimSpaceOfBlanks
<1>2. ASSUME AllBlank(Line(parts)) PROVE Len(parts) = 1
  <2>1. NoComma(Line(parts))
    <3>1. Comma # Blank
      BY Zenon DEF Comma, Blank
    <3> QED
      BY <1>2, <3>1 DEF AllBlank, NoComma
  <2>2. Split(Line(parts)) = << Line(parts) >>
    BY <1>0, <2>1, SplitOne
  <2>3. Len(<< Line(parts) >>) = 1
    OBVIOUS
  <2> QED
    BY <2>2, <2>3, LineSplit
<1>3. ASSUME Len(parts) = 1
      PROVE  AllBlank(Line(parts)) <=> \A i \in DOMAIN parts : parts[i].kind = "blank"
  <2>1. Line(parts) = parts[1].text /\ DOMAIN parts = {1}
    BY <1>0, <1>3, LineSplit
  <2>2. Part(parts[1])
    BY <2>1 DEF Parts
  <2>3. parts[1].kind = "blank" <=> AllBlank(parts[1].text)
    BY <2>2 DEF Part
  <2> QED
    BY <2>1, <2>3
<1>4. NotEmpty(parts) <=> Len(parts) # 1 \/ ~(\A i \in DOMAIN parts : parts[i].kind = "blank")
  BY <1>0 DEF NotEmpty, SaysSomething
<1> QED
  BY <1>1, <1>2, <1>3, <1>4

----------------------------------------------------------------------------
(* ParseDN and ParseSANs of a line *)

LEMMA BlankReads ==
    /\ ComponentOK(<< >>) /\ SanOK(<< >>)
    /\ \A a \in Attributes : ~IsType(<< >>, a)
<1>1. << >> \in Text /\ AllBlank(<< >>)
  BY DEF Text, AllBlank
<1>2. EqualsAt(<< >>) = 0
  <2>1. EqualsSigns(<< >>) = {}
    BY DEF EqualsSigns
  <2> QED
    BY <2>1 DEF EqualsAt
<1>3. TypeText(<< >>) = << >>
  <2>1. SubSeq(<< >>, 1, 0 - 1) = << >>
    BY SubSeqEmpty
  <2> QED
    BY <1>1, <1>2, <2>1, TrimSpaceOfBlanks DEF TypeText
<1>4. ASSUME NEW a \in Attributes, IsType(<< >>, a) PROVE FALSE
  <2>1. << >> = << a >> \/ << >> = << LowerCase[a] >>
    BY <1>3, <1>4 DEF IsType
  <2> QED
    BY <2>1
<1> QED
  BY <1>4 DEF ComponentOK, SanOK

LEMMA SubjectPartReads ==
    ASSUME NEW p, Part(p), SubjectPart(p)
    PROVE  /\ ComponentOK(TrimSpace(p.text)) <=> p.kind # "bad"
           /\ p.kind # "bad" =>
                \A a \in Attributes :
                    /\ IsType(TrimSpace(p.text), a) <=> p.kind = a
                    /\ p.kind = a => ValueText(TrimSpace(p.text)) = p.value
<1>0. p.text \in Text /\ (p.kind = "blank" <=> AllBlank(p.text))
  BY DEF Part
<1>k. "blank" \notin Attributes /\ "bad" \notin Attributes /\ "bad" # "blank"
  BY DEF Attributes, LowerCase
<1>1. CASE p.kind = "blank"
  <2>1. TrimSpace(p.text) = << >>
    BY <1>0, <1>1, TrimSpaceOfBlanks
  <2> QED
    BY <1>1, <1>k, <2>1, BlankReads
<1>2. CASE p.kind \in Attributes
  <2>1. PICK f, l \in DOMAIN p.text :
            AttributeAt(p.text, p.kind, f, l) /\ p.value = SubSeq(p.text, f, l)
    BY <1>2 DEF SubjectPart
  <2>2. /\ ComponentOK(TrimSpace(p.text))
        /\ \A b \in Attributes : IsType(TrimSpace(p.text), b) <=> b = p.kind
        /\ ValueText(TrimSpace(p.text)) = SubSeq(p.text, f, l)
    BY <1>0, <1>2, <2>1, AttributeReads
  <2> QED
    BY <1>2, <1>k, <2>1, <2>2
<1>3. CASE p.kind = "bad"
  <2>1. \A a \in Attributes, f, l \in DOMAIN p.text : ~AttributeAt(p.text, a, f, l)
    BY <1>3 DEF SubjectPart
  <2>2. ~AllBlank(p.text)
    BY <1>0, <1>3, <1>k
  <2>3. ~ComponentOK(TrimSpace(p.text))
    BY <1>0, <2>1, <2>2, ComponentShows
  <2> QED
    BY <1>3, <2>3
<1> QED
  BY <1>1, <1>2, <1>3 DEF SubjectPart

LEMMA SanPartReads ==
    ASSUME NEW p, Part(p), SanPart(p)
    PROVE  LET c == TrimSpace(p.text) IN
           /\ SanOK(c) <=> p.kind # "bad"
           /\ p.kind # "bad" =>
                /\ (c # << >> /\ c[1] = "DNS:") <=> p.kind = "dns"
                /\ (c # << >> /\ c[1] = "IP:") <=> p.kind = "ip"
                /\ p.kind \in {"dns", "ip"} => SubSeq(c, 2, Len(c)) = p.value
<1> DEFINE c == TrimSpace(p.text)
<1>0. p.text \in Text /\ (p.kind = "blank" <=> AllBlank(p.text))
  BY DEF Part
<1>1. CASE p.kind = "blank"
  <2>1. c = << >>
    BY <1>0, <1>1, TrimSpaceOfBlanks
  <2> QED
    BY <1>1, <2>1, BlankReads
<1>2. CASE p.kind = "dns"
  <2>1. PICK n, l \in DOMAIN p.text :
            PrefixedAt(p.text, "DNS:", n, l) /\ p.value = SubSeq(p.text, n + 1, l)
    BY <1>2 DEF SanPart
  <2>2. /\ c # << >> /\ c[1] = "DNS:"
        /\ Tail(c) = SubSeq(p.text, n + 1, l) /\ Tail(c) # << >>
        /\ SubSeq(c, 2, Len(c)) = SubSeq(p.text, n + 1, l)
    BY <1>0, <2>1, PrefixedReads
  <2>3. SanOK(c)
    BY <2>2, Zenon DEF SanOK
  <2> QED
    BY <1>2, <2>1, <2>2, <2>3
<1>3. CASE p.kind = "ip"
  <2>1. PICK n, l \in DOMAIN p.text :
            AddressAt(p.text, n, l) /\ p.value = SubSeq(p.text, n + 1, l)
    BY <1>3 DEF SanPart
  <2>2. PrefixedAt(p.text, "IP:", n, l) /\ SubSeq(p.text, n + 1, l) \in Addresses
    BY <2>1 DEF AddressAt
  <2>3. /\ c # << >> /\ c[1] = "IP:"
        /\ Tail(c) = SubSeq(p.text, n + 1, l) /\ Tail(c) # << >>
        /\ SubSeq(c, 2, Len(c)) = SubSeq(p.text, n + 1, l)
    BY <1>0, <2>2, PrefixedReads
  <2>4. SanOK(c)
    BY <2>2, <2>3, Zenon DEF SanOK
  <2> QED
    BY <1>3, <2>1, <2>3, <2>4
<1>4. CASE p.kind = "bad"
  <2>1. \A n, l \in DOMAIN p.text :
            ~PrefixedAt(p.text, "DNS:", n, l) /\ ~AddressAt(p.text, n, l)
    BY <1>4 DEF SanPart
  <2>2. ~AllBlank(p.text)
    BY <1>0, <1>4
  <2>3. ~SanOK(c)
    BY <1>0, <2>1, <2>2, SanShows
  <2> QED
    BY <1>4, <2>3
<1> QED
  BY <1>1, <1>2, <1>3, <1>4 DEF SanPart

LEMMA LenOfList ==
    ASSUME NEW f, NEW n \in Nat, f = [i \in 1 .. n |-> f[i]]
    PROVE  Len(f) = n
<1> DEFINE S == {f[i] : i \in 1 .. n}
<1>1. \A i \in 1 .. n : f[i] \in S
  OBVIOUS
<1> HIDE DEF S
<1> QED
  BY <1>1, Listed

(* The values a parser keeps of the components are those a user meant with *)
(* the parts.                                                              *)
LEMMA KeptAsMeant ==
    ASSUME NEW parts, NEW kind, NEW cs, NEW I, NEW values,
           Parts(parts), DOMAIN cs = 1 .. Len(parts),
           values = [i \in DOMAIN cs |-> values[i]],
           \A i \in 1 .. Len(parts) :
                (i \in I <=> parts[i].kind = kind) /\ (i \in I => values[i] = parts[i].value)
    PROVE  Pick(values, I) = MeantValues(parts, kind)
<1> DEFINE own == {i \in DOMAIN parts : parts[i].kind = kind}
           meant == [i \in DOMAIN parts |-> IF i \in own THEN parts[i].value ELSE << >>]
<1>0. Len(parts) \in Nat /\ DOMAIN parts = 1 .. Len(parts)
  BY DEF Parts
<1>1. Len(values) = Len(parts)
  BY <1>0, LenOfList
<1>2. /\ meant = [i \in 1 .. Len(parts) |-> meant[i]]
      /\ \A i \in 1 .. Len(parts) : i \in own <=> parts[i].kind = kind
      /\ \A i \in 1 .. Len(parts) : i \in own => meant[i] = parts[i].value
  BY <1>0
<1>3. MeantValues(parts, kind) = Pick(meant, own)
  BY DEF MeantValues
<1> HIDE DEF own, meant
<1>4. Len(meant) = Len(parts)
  BY <1>0, <1>2, LenOfList
<1>5. Pick(values, I) = Pick(meant, own)
  BY <1>0, <1>1, <1>2, <1>4, PickAgrees
<1> QED
  BY <1>3, <1>5

(* What ParseDN makes of a line: of several common names the last.         *)
KeptName(parts) ==
    [a \in Attributes |->
        IF a = "CN" THEN LastOnly(MeantValues(parts, a)) ELSE MeantValues(parts, a)]

LEMMA SubjectReads ==
    ASSUME NEW parts, Parts(parts), \A i \in DOMAIN parts : SubjectPart(parts[i])
    PROVE  /\ ParseDN(Line(parts)).ok <=> NotEmpty(parts) /\ NothingBad(parts)
           /\ ParseDN(Line(parts)).ok => ParseDN(Line(parts)).name = KeptName(parts)
<1> DEFINE cs == Components(Line(parts))
<1>0. /\ Len(parts) \in Nat /\ DOMAIN parts = 1 .. Len(parts)
      /\ DOMAIN cs = 1 .. Len(parts)
      /\ \A i \in 1 .. Len(parts) : cs[i] = TrimSpace(parts[i].text) /\ Part(parts[i])
  BY LineComponents DEF Parts
<1>1. /\ ParseDN(Line(parts)).ok <=>
            TrimSpace(Line(parts)) # << >> /\ \A i \in DOMAIN cs : ComponentOK(cs[i])
      /\ ParseDN(Line(parts)).name =
            [a \in Attributes |->
                IF a = "CN" THEN LastOnly(ValuesOf(cs, a)) ELSE ValuesOf(cs, a)]
  BY DEF ParseDN
<1> HIDE DEF cs
<1>2. \A i \in 1 .. Len(parts) : ComponentOK(cs[i]) <=> parts[i].kind # "bad"
  BY <1>0, SubjectPartReads
<1>3. ParseDN(Line(parts)).ok <=> NotEmpty(parts) /\ NothingBad(parts)
  BY <1>0, <1>1, <1>2, LineSays DEF NothingBad
<1>4. ASSUME \A i \in DOMAIN parts : parts[i].kind # "bad", NEW a \in Attributes
      PROVE  ValuesOf(cs, a) = MeantValues(parts, a)
  <2> DEFINE values == [i \in DOMAIN cs |-> ValueText(cs[i])]
             I == {i \in DOMAIN cs : IsType(cs[i], a)}
  <2>1. \A i \in 1 .. Len(parts) :
          /\ i \in I <=> parts[i].kind = a
          /\ i \in I => values[i] = parts[i].value
    BY <1>0, <1>4, SubjectPartReads
  <2>2. values = [i \in DOMAIN cs |-> values[i]] /\ ValuesOf(cs, a) = Pick(values, I)
    BY DEF ValuesOf
  <2> HIDE DEF values, I
  <2> QED
    BY <1>0, <2>1, <2>2, KeptAsMeant
<1>5. ASSUME \A i \in DOMAIN parts : parts[i].kind # "bad"
      PROVE  ParseDN(Line(parts)).name = KeptName(parts)
  <2>1. \A a \in Attributes : ValuesOf(cs, a) = MeantValues(parts, a)
    BY <1>4, <1>5
  <2> QED
    BY <1>1, <2>1 DEF KeptName
<1> QED
  BY <1>3, <1>5 DEF NothingBad

LEMMA SansRead ==
    ASSUME NEW parts, Parts(parts), \A i \in DOMAIN parts : SanPart(parts[i])
    PROVE  /\ ParseSANs(Line(parts)).ok <=> \A i \in DOMAIN parts : parts[i].kind # "bad"
           /\ ParseSANs(Line(parts)).ok =>
                /\ ParseSANs(Line(parts)).dns = MeantValues(parts, "dns")
                /\ ParseSANs(Line(parts)).ips = MeantValues(parts, "ip")
<1> DEFINE cs == Components(Line(parts))
<1>0. /\ Len(parts) \in Nat /\ DOMAIN parts = 1 .. Len(parts)
      /\ DOMAIN cs = 1 .. Len(parts)
      /\ \A i \in 1 .. Len(parts) : cs[i] = TrimSpace(parts[i].text) /\ Part(parts[i])
  BY LineComponents DEF Parts
<1>1. /\ ParseSANs(Line(parts)).ok <=> \A i \in DOMAIN cs : SanOK(cs[i])
      /\ ParseSANs(Line(parts)).dns = SansAfter("DNS:", cs)
      /\ ParseSANs(Line(parts)).ips = SansAfter("IP:", cs)
  BY DEF ParseSANs
<1> HIDE DEF cs
<1>2. ASSUME NEW i \in 1 .. Len(parts)
      PROVE  /\ SanOK(cs[i]) <=> parts[i].kind # "bad"
             /\ parts[i].kind # "bad" =>
                  /\ (cs[i] # << >> /\ cs[i][1] = "DNS:") <=> parts[i].kind = "dns"
                  /\ (cs[i] # << >> /\ cs[i][1] = "IP:") <=> parts[i].kind = "ip"
                  /\ parts[i].kind \in {"dns", "ip"} =>
                        SubSeq(cs[i], 2, Len(cs[i])) = parts[i].value
  BY <1>0, SanPartReads
<1>3. ParseSANs(Line(parts)).ok <=> \A i \in DOMAIN parts : parts[i].kind # "bad"
  BY <1>0, <1>1, <1>2
<1>4. ASSUME NEW prefix, NEW kind \in {"dns", "ip"},
             \A i \in 1 .. Len(parts) :
                (cs[i] # << >> /\ cs[i][1] = prefix) <=> parts[i].kind = kind,
             \A i \in 1 .. Len(parts) :
                parts[i].kind = kind => SubSeq(cs[i], 2, Len(cs[i])) = parts[i].value
      PROVE  SansAfter(prefix, cs) = MeantValues(parts, kind)
  <2> DEFINE values == [i \in DOMAIN cs |-> SubSeq(cs[i], 2, Len(cs[i]))]
             I == {i \in DOMAIN cs : cs[i] # << >> /\ cs[i][1] = prefix}
  <2>1. \A i \in 1 .. Len(parts) :
          /\ i \in I <=> parts[i].kind = kind
          /\ i \in I => values[i] = parts[i].value
    BY <1>0, <1>4
  <2>2. values = [i \in DOMAIN cs |-> values[i]] /\ SansAfter(prefix, cs) = Pick(values, I)
    BY DEF SansAfter
  <2> HIDE DEF values, I
  <2> QED
    BY <1>0, <2>1, <2>2, KeptAsMeant
<1>5. ASSUME \A i \in DOMAIN parts : parts[i].kind # "bad"
      PROVE  /\ SansAfter("DNS:", cs) = MeantValues(parts, "dns")
             /\ SansAfter("IP:", cs) = MeantValues(parts, "ip")
  <2>1. SansAfter("DNS:", cs) = MeantValues(parts, "dns")
    BY <1>0, <1>2, <1>4, <1>5
  <2>2. SansAfter("IP:", cs) = MeantValues(parts, "ip")
    BY <1>0, <1>2, <1>4, <1>5
  <2> QED
    BY <2>1, <2>2
<1> QED
  BY <1>1, <1>3, <1>5

Kept(t) == [Meant(t) EXCEPT !.name = KeptName(t.subject)]

(* Nothing said means blank parts only, none of them malformed.            *)
LEMMA AcceptedAre ==
    ASSUME NEW t \in Typed
    PROVE  NotEmpty(t.subject) /\ NothingBad(t.subject) /\ NothingBad(t.san)
              <=> WellFormed(t) \/ OnlySeparators(t)
<1>1. ~SaysSomething(t.subject) => NothingBad(t.subject)
  BY DEF SaysSomething, NothingBad
<1> QED
  BY <1>1 DEF NotEmpty, WellFormed, OnlySeparators

LEMMA ParsedIs ==
    ASSUME NEW t \in Typed
    PROVE  /\ Parsed[t].ok <=> WellFormed(t) \/ OnlySeparators(t)
           /\ Parsed[t].ok => Parsed[t].names = Kept(t)
<1> DEFINE subject == ParseDN(Line(t.subject))
           sans    == ParseSANs(Line(t.san))
<1>1. /\ Parts(t.subject) /\ \A i \in DOMAIN t.subject : SubjectPart(t.subject[i])
      /\ Parts(t.san) /\ \A i \in DOMAIN t.san : SanPart(t.san[i])
  BY TypedAssumption
<1>2. /\ subject.ok <=> NotEmpty(t.subject) /\ NothingBad(t.subject)
      /\ subject.ok => subject.name = KeptName(t.subject)
  BY <1>1, SubjectReads
<1>3. /\ sans.ok <=> NothingBad(t.san)
      /\ sans.ok => sans.dns = MeantValues(t.san, "dns") /\ sans.ips = MeantValues(t.san, "ip")
  BY <1>1, SansRead DEF NothingBad
<1> DEFINE both  == subject.ok /\ sans.ok
           names == [name |-> subject.name, dns |-> sans.dns, ips |-> sans.ips]
<1>4. Parsed[t] = [ok |-> both, names |-> names]
  BY DEF Parsed
<1> HIDE DEF both, names
<1>5. Parsed[t].ok = both /\ Parsed[t].names = names
  BY <1>4
<1>6. (both <=> subject.ok /\ sans.ok)
      /\ names = [name |-> subject.name, dns |-> sans.dns, ips |-> sans.ips]
  BY Zenon DEF both, names
<1> HIDE DEF subject, sans
<1>7. Parsed[t].ok <=> WellFormed(t) \/ OnlySeparators(t)
  BY <1>2, <1>3, <1>5, <1>6, AcceptedAre, Zenon
<1>8. ASSUME Parsed[t].ok PROVE Parsed[t].names = Kept(t)
  <2>1. Kept(t) = [ name |-> KeptName(t.subject),
                    dns  |-> MeantValues(t.san, "dns"),
                    ips  |-> MeantValues(t.san, "ip") ]
    BY DEF Kept, Meant
  <2> QED
    BY <1>2, <1>3, <1>5, <1>6, <1>8, <2>1, Zenon
<1> QED
  BY <1>7, <1>8

----------------------------------------------------------------------------
(* What is picked of all, of none and of two sequences, one after the      *)
(* other.                                                                  *)

LEMMA PickKeeps ==
    ASSUME NEW S, NEW s \in Seq(S), NEW I, NEW G, \A i \in 1 .. Len(s) : i \in I => s[i] \in G
    PROVE  Pick(s, I) \in Seq(G)
<1> DEFINE f == PickUpTo(s, I)
           T == {n \in Nat : n <= Len(s) => f[n] \in Seq(G)}
<1>1. f[0] = << >> /\ \A n \in 1 .. Len(s) : f[n] = IF n \in I THEN Append(f[n - 1], s[n]) ELSE f[n - 1]
  BY PickUpToIs
<1> HIDE DEF f
<1>2. 0 \in T
  <2>1. f[0] \in Seq(G)
    BY <1>1, EmptySeq, Zenon
  <2> QED
    BY <2>1
<1>3. ASSUME NEW n \in Nat, n \in T PROVE n + 1 \in T
  <2>1. SUFFICES ASSUME n + 1 <= Len(s) PROVE f[n + 1] \in Seq(G)
    OBVIOUS
  <2>2. n + 1 \in 1 .. Len(s) /\ (n + 1) - 1 = n /\ f[n] \in Seq(G)
    BY <1>3, <2>1
  <2>3. f[n + 1] = IF n + 1 \in I THEN Append(f[n], s[n + 1]) ELSE f[n]
    BY <1>1, <2>2
  <2>4. ASSUME n + 1 \in I PROVE Append(f[n], s[n + 1]) \in Seq(G)
    BY <2>2, <2>4, AppendProperties
  <2> QED
    BY <2>2, <2>3, <2>4
<1>4. Len(s) \in T
  <2> HIDE DEF T
  <2> QED
    BY <1>2, <1>3, SetInduction
<1> QED
  BY <1>4, PickIs DEF f

LEMMA PickAll ==
    ASSUME NEW S, NEW s \in Seq(S), NEW I, \A i \in 1 .. Len(s) : i \in I
    PROVE  Pick(s, I) = s
<1> DEFINE f == PickUpTo(s, I)
           T == {n \in Nat : n <= Len(s) => f[n] = SubSeq(s, 1, n)}
<1>1. f[0] = << >> /\ \A n \in 1 .. Len(s) : f[n] = IF n \in I THEN Append(f[n - 1], s[n]) ELSE f[n - 1]
  BY PickUpToIs
<1> HIDE DEF f
<1>2. 0 \in T
  <2>1. SubSeq(s, 1, 0) = << >>
    BY SubSeqEmpty
  <2>2. f[0] = SubSeq(s, 1, 0)
    BY <1>1, <2>1, Zenon
  <2> QED
    BY <2>2
<1>3. ASSUME NEW n \in Nat, n \in T PROVE n + 1 \in T
  <2>1. SUFFICES ASSUME n + 1 <= Len(s) PROVE f[n + 1] = SubSeq(s, 1, n + 1)
    OBVIOUS
  <2>2. n + 1 \in 1 .. Len(s) /\ (n + 1) - 1 = n /\ f[n] = SubSeq(s, 1, n)
    BY <1>3, <2>1
  <2>3. f[n + 1] = Append(SubSeq(s, 1, n), s[n + 1])
    BY <1>1, <2>2
  <2> QED
    BY <2>2, <2>3, PrefixGrows
<1>4. Len(s) \in T
  <2> HIDE DEF T
  <2> QED
    BY <1>2, <1>3, SetInduction
<1> QED
  BY <1>4, PickIs, SubSeqFull DEF f

LEMMA PickNone ==
    ASSUME NEW S, NEW s \in Seq(S), NEW I, \A i \in 1 .. Len(s) : i \notin I
    PROVE  Pick(s, I) = << >>
<1> DEFINE f == PickUpTo(s, I)
           T == {n \in Nat : n <= Len(s) => f[n] = << >>}
<1>1. f[0] = << >> /\ \A n \in 1 .. Len(s) : f[n] = IF n \in I THEN Append(f[n - 1], s[n]) ELSE f[n - 1]
  BY PickUpToIs
<1> HIDE DEF f
<1>2. 0 \in T
  BY <1>1
<1>3. ASSUME NEW n \in Nat, n \in T PROVE n + 1 \in T
  <2>1. SUFFICES ASSUME n + 1 <= Len(s) PROVE f[n + 1] = << >>
    OBVIOUS
  <2>2. n + 1 \in 1 .. Len(s) /\ (n + 1) - 1 = n /\ f[n] = << >>
    BY <1>3, <2>1
  <2> QED
    BY <1>1, <2>2
<1>4. Len(s) \in T
  <2> HIDE DEF T
  <2> QED
    BY <1>2, <1>3, SetInduction
<1> QED
  BY <1>4, PickIs DEF f

LEMMA PickConcat ==
    ASSUME NEW S, NEW s \in Seq(S), NEW u \in Seq(S), NEW I, NEW J,
           \A i \in 1 .. Len(u) : i \in J <=> Len(s) + i \in I
    PROVE  Pick(s \o u, I) = Pick(s, I) \o Pick(u, J)
<1> DEFINE w == s \o u
           f == PickUpTo(w, I)
           g == PickUpTo(s, I)
           h == PickUpTo(u, J)
           T == {n \in Nat : n <= Len(s) => f[n] = g[n]}
           both == [n \in 0 .. Len(u) |-> g[Len(s)] \o h[n]]
           U == {n \in Nat : n <= Len(u) => f[Len(s) + n] = both[n]}
<1>0. Len(s) \in Nat /\ Len(u) \in Nat
  OBVIOUS
<1>w. /\ w \in Seq(S) /\ Len(w) = Len(s) + Len(u)
      /\ \A i \in 1 .. Len(s) : w[i] = s[i]
      /\ \A i \in 1 .. Len(u) : w[Len(s) + i] = u[i]
  BY ConcatProperties
<1>f. /\ f[0] = << >>
      /\ \A n \in 1 .. Len(w) : f[n] = IF n \in I THEN Append(f[n - 1], w[n]) ELSE f[n - 1]
  <2> HIDE DEF w
  <2> QED
    BY <1>w, PickUpToIs
<1>g. /\ g[0] = << >> /\ g \in [0 .. Len(s) -> Seq(S)]
      /\ \A n \in 1 .. Len(s) : g[n] = IF n \in I THEN Append(g[n - 1], s[n]) ELSE g[n - 1]
  BY PickUpToIs
<1>h. /\ h[0] = << >> /\ h \in [0 .. Len(u) -> Seq(S)]
      /\ \A n \in 1 .. Len(u) : h[n] = IF n \in J THEN Append(h[n - 1], u[n]) ELSE h[n - 1]
  BY PickUpToIs
<1> HIDE DEF w, f, g, h
<1>1. 0 \in T
  BY <1>f, <1>g
<1>2. ASSUME NEW n \in Nat, n \in T PROVE n + 1 \in T
  <2>1. SUFFICES ASSUME n + 1 <= Len(s) PROVE f[n + 1] = g[n + 1]
    OBVIOUS
  <2>2. n + 1 \in 1 .. Len(s) /\ n + 1 \in 1 .. Len(w) /\ (n + 1) - 1 = n /\ f[n] = g[n]
    BY <1>0, <1>w, <1>2, <2>1
  <2> QED
    BY <1>w, <1>f, <1>g, <2>2
<1>3. f[Len(s)] = g[Len(s)]
  <2>1. Len(s) \in T
    <3> HIDE DEF T
    <3> QED
      BY <1>0, <1>1, <1>2, SetInduction
  <2> QED
    BY <1>0, <2>1
<1>4. g[Len(s)] \in Seq(S)
  BY <1>0, <1>g
<1>b. \A n \in 0 .. Len(u) : both[n] = g[Len(s)] \o h[n]
  OBVIOUS
<1> HIDE DEF both
<1>5. 0 \in U
  <2>1. g[Len(s)] \o << >> = g[Len(s)]
    BY <1>4, ConcatEmptySeq
  <2>2. 0 \in 0 .. Len(u) /\ Len(s) + 0 = Len(s)
    BY <1>0
  <2>3. f[Len(s) + 0] = both[0]
    BY <1>3, <1>b, <1>h, <2>1, <2>2, Zenon
  <2> QED
    BY <2>3
<1>6. ASSUME NEW n \in Nat, n \in U PROVE n + 1 \in U
  <2>1. SUFFICES ASSUME n + 1 <= Len(u) PROVE f[Len(s) + (n + 1)] = both[n + 1]
    OBVIOUS
  <2> DEFINE m == Len(s) + (n + 1)
  <2>2. /\ n + 1 \in 1 .. Len(u) /\ (n + 1) - 1 = n /\ n \in 0 .. Len(u)
        /\ m \in 1 .. Len(w) /\ m - 1 = Len(s) + n
    BY <1>0, <1>w, <2>1
  <2>3. f[m - 1] = both[n] /\ h[n] \in Seq(S) /\ u[n + 1] \in S
    <3>1. f[Len(s) + n] = both[n]
      BY <1>0, <1>6, <2>1
    <3>2. f[m - 1] = both[n]
      BY <2>2, <3>1
    <3>3. h[n] \in Seq(S)
      BY <1>h, <2>2
    <3>4. u[n + 1] \in S
      BY <2>2
    <3> QED
      BY <3>2, <3>3, <3>4
  <2>4. (m \in I <=> n + 1 \in J) /\ w[m] = u[n + 1]
    BY <1>w, <2>2
  <2> HIDE DEF m
  <2>5. f[m] = IF n + 1 \in J THEN Append(both[n], u[n + 1]) ELSE both[n]
    BY <1>f, <2>2, <2>3, <2>4
  <2>6. h[n + 1] = IF n + 1 \in J THEN Append(h[n], u[n + 1]) ELSE h[n]
    BY <1>h, <2>2
  <2>7. Append(g[Len(s)] \o h[n], u[n + 1]) = g[Len(s)] \o Append(h[n], u[n + 1])
    <3> DEFINE x == g[Len(s)]
               y == h[n]
               z == u[n + 1]
    <3>1. x \in Seq(S) /\ y \in Seq(S) /\ z \in S
      BY <1>4, <2>3
    <3> HIDE DEF x, y, z
    <3>2. Append(x \o y, z) = x \o Append(y, z)
      <4>1. Append(y, z) = y \o << z >>
        BY <3>1, AppendIsConcat
      <4>2. x \o y \in Seq(S)
        BY <3>1, ConcatProperties
      <4> DEFINE xy == x \o y
      <4> HIDE DEF xy
      <4>3. Append(xy, z) = xy \o << z >>
        BY <3>1, <4>2, AppendIsConcat DEF xy
      <4>4. << z >> \in Seq(S)
        BY <3>1
      <4> DEFINE zs == << z >>
      <4> HIDE DEF zs
      <4>5. xy \o zs = x \o (y \o zs)
        BY <3>1, <4>4, ConcatAssociative, SMTT(30) DEF xy, zs
      <4> QED
        BY <4>1, <4>3, <4>5 DEF xy, zs
    <3> QED
      BY <3>2 DEF x, y, z
  <2>8. both[n] = g[Len(s)] \o h[n] /\ both[n + 1] = g[Len(s)] \o h[n + 1]
    <3>1. n + 1 \in 0 .. Len(u)
      BY <2>2
    <3> QED
      BY <1>b, <2>2, <3>1, Zenon
  <2>9. f[m] = both[n + 1]
    BY <2>5, <2>6, <2>7, <2>8, Zenon
  <2> QED
    BY <2>9 DEF m
<1>7. f[Len(s) + Len(u)] = both[Len(u)]
  <2>1. Len(u) \in U
    <3> HIDE DEF U
    <3> QED
      BY <1>0, <1>5, <1>6, SetInduction
  <2> QED
    BY <1>0, <2>1
<1>8. Pick(w, I) = f[Len(w)] /\ Pick(s, I) = g[Len(s)] /\ Pick(u, J) = h[Len(u)]
  BY PickIs DEF f, g, h
<1>9. Pick(w, I) = Pick(s, I) \o Pick(u, J)
  <2>1. Len(u) \in 0 .. Len(u)
    BY <1>0
  <2> QED
    BY <2>1, <1>b, <1>w, <1>7, <1>8, Zenon
<1> QED
  BY <1>9 DEF w

----------------------------------------------------------------------------
(* FormatDN lists the values of each attribute, and of no other.           *)

Listings(V) == Seq([type : Attributes, value : V])

Chosen(listing, a) ==
    Pick([i \in DOMAIN listing |-> listing[i].value], {i \in DOMAIN listing : listing[i].type = a})

LEMMA ValuesListed ==
    ASSUME NEW V, NEW x \in Listings(V)
    PROVE  /\ [i \in DOMAIN x |-> x[i].value] \in Seq(V)
           /\ Len([i \in DOMAIN x |-> x[i].value]) = Len(x)
<1> DEFINE values == [i \in DOMAIN x |-> x[i].value]
<1>1. Len(x) \in Nat /\ DOMAIN x = 1 .. Len(x)
  BY DEF Listings
<1>2. \A i \in 1 .. Len(x) : values[i] \in V
  <2>1. \A i \in 1 .. Len(x) : x[i] \in [type : Attributes, value : V]
    BY <1>1, ElementOfSeq DEF Listings
  <2> QED
    BY <1>1, <2>1
<1>3. values = [i \in 1 .. Len(x) |-> values[i]]
  BY <1>1
<1> HIDE DEF values
<1>4. values \in Seq(V) /\ Len(values) = Len(x)
  BY <1>1, <1>2, <1>3, Listed
<1> QED
  BY <1>4 DEF values

LEMMA ChosenConcat ==
    ASSUME NEW V, NEW x \in Listings(V), NEW y \in Listings(V), NEW a
    PROVE  /\ x \o y \in Listings(V)
           /\ Chosen(x \o y, a) = Chosen(x, a) \o Chosen(y, a)
<1> DEFINE w  == x \o y
           vw == [i \in DOMAIN w |-> w[i].value]
           vx == [i \in DOMAIN x |-> x[i].value]
           vy == [i \in DOMAIN y |-> y[i].value]
           Iw == {i \in DOMAIN w : w[i].type = a}
           Ix == {i \in DOMAIN x : x[i].type = a}
           Iy == {i \in DOMAIN y : y[i].type = a}
<1>0. Len(x) \in Nat /\ Len(y) \in Nat /\ DOMAIN x = 1 .. Len(x) /\ DOMAIN y = 1 .. Len(y)
  BY DEF Listings
<1>1. /\ w \in Listings(V) /\ Len(w) = Len(x) + Len(y) /\ DOMAIN w = 1 .. Len(w)
      /\ \A i \in 1 .. Len(x) : w[i] = x[i]
      /\ \A i \in 1 .. Len(y) : w[Len(x) + i] = y[i]
  BY ConcatProperties DEF Listings
<1> HIDE DEF w
<1>2. /\ vw \in Seq(V) /\ Len(vw) = Len(w) /\ vx \in Seq(V) /\ Len(vx) = Len(x)
      /\ vy \in Seq(V) /\ Len(vy) = Len(y)
  BY <1>1, ValuesListed
<1>3. /\ \A i \in 1 .. Len(w) : vw[i] = w[i].value
      /\ \A i \in 1 .. Len(x) : vx[i] = x[i].value
      /\ \A i \in 1 .. Len(y) : vy[i] = y[i].value
  BY <1>0, <1>1
<1>4. /\ \A i \in 1 .. Len(w) : i \in Iw <=> w[i].type = a
      /\ \A i \in 1 .. Len(x) : i \in Ix <=> x[i].type = a
      /\ \A i \in 1 .. Len(y) : i \in Iy <=> y[i].type = a
  BY <1>0, <1>1
<1>5. Chosen(w, a) = Pick(vw, Iw) /\ Chosen(x, a) = Pick(vx, Ix) /\ Chosen(y, a) = Pick(vy, Iy)
  BY DEF Chosen
<1> HIDE DEF vw, vx, vy, Iw, Ix, Iy
<1>6. /\ vx \o vy \in Seq(V) /\ Len(vx \o vy) = Len(vw)
      /\ \A i \in 1 .. Len(vw) : (vx \o vy)[i] = vw[i]
  <2>0. vx \in Seq(V) /\ vy \in Seq(V) /\ Len(vx) = Len(x) /\ Len(vy) = Len(y)
    BY <1>2
  <2>1. /\ vx \o vy \in Seq(V) /\ Len(vx \o vy) = Len(x) + Len(y)
        /\ \A i \in 1 .. Len(x) + Len(y) :
              (vx \o vy)[i] = IF i <= Len(x) THEN vx[i] ELSE vy[i - Len(x)]
    <3>1. /\ vx \o vy \in Seq(V) /\ Len(vx \o vy) = Len(vx) + Len(vy)
          /\ \A i \in 1 .. Len(vx) + Len(vy) :
                (vx \o vy)[i] = IF i <= Len(vx) THEN vx[i] ELSE vy[i - Len(vx)]
      BY <2>0, ConcatProperties
    <3> QED
      BY <2>0, <3>1, Zenon
  <2>2. ASSUME NEW i \in 1 .. Len(x) + Len(y)
        PROVE  vw[i] = IF i <= Len(x) THEN vx[i] ELSE vy[i - Len(x)]
    <3>1. CASE i <= Len(x)
      BY <1>0, <1>1, <1>3, <3>1
    <3>2. CASE ~(i <= Len(x))
      <4>1. i - Len(x) \in 1 .. Len(y) /\ Len(x) + (i - Len(x)) = i /\ i \in 1 .. Len(w)
        BY <1>0, <1>1, <3>2
      <4>2. w[i] = y[i - Len(x)]
        BY <1>1, <4>1
      <4> QED
        BY <1>3, <3>2, <4>1, <4>2
    <3> QED
      BY <3>1, <3>2
  <2> QED
    BY <1>1, <1>2, <2>1, <2>2
<1>7. vx \o vy = vw
  BY <1>2, <1>6, SeqEqual
<1>8. ASSUME NEW i \in 1 .. Len(vx) PROVE i \in Ix <=> i \in Iw
  <2>1. i \in 1 .. Len(x) /\ i \in 1 .. Len(w)
    BY <1>0, <1>1, <1>2
  <2> QED
    BY <1>1, <1>4, <2>1
<1>9. ASSUME NEW i \in 1 .. Len(vy) PROVE i \in Iy <=> Len(vx) + i \in Iw
  <2>1. i \in 1 .. Len(y) /\ Len(vx) + i \in 1 .. Len(w) /\ Len(vx) + i = Len(x) + i
    BY <1>0, <1>1, <1>2
  <2> QED
    BY <1>1, <1>4, <2>1
<1>10. Pick(vx \o vy, Iw) = Pick(vx, Iw) \o Pick(vy, Iy)
  <2>1. vx \in Seq(V) /\ vy \in Seq(V)
    BY <1>2
  <2>2. \A i \in 1 .. Len(vy) : i \in Iy <=> Len(vx) + i \in Iw
    BY <1>9
  <2> QED
    BY <2>1, <2>2, PickConcat
<1>11. Pick(vx, Iw) = Pick(vx, Ix)
  <2>1. Len(vx) \in Nat
    BY <1>0, <1>2
  <2> QED
    BY <1>8, <2>1, PickAgrees
<1>12. Chosen(w, a) = Chosen(x, a) \o Chosen(y, a)
  BY <1>5, <1>7, <1>10, <1>11, Zenon
<1> QED
  BY <1>1, <1>12 DEF w

LEMMA PairsChosen ==
    ASSUME NEW V, NEW name \in [Attributes -> Seq(V)], NEW a \in Attributes, NEW b \in Attributes
    PROVE  /\ Pairs(name, b) \in Listings(V)
           /\ Chosen(Pairs(name, b), a) = IF a = b THEN name[a] ELSE << >>
<1> DEFINE x == Pairs(name, b)
           v == [i \in DOMAIN x |-> x[i].value]
           I == {i \in DOMAIN x : x[i].type = a}
<1>0. name[b] \in Seq(V) /\ Len(name[b]) \in Nat /\ DOMAIN name[b] = 1 .. Len(name[b])
  OBVIOUS
<1>1. x = [i \in 1 .. Len(name[b]) |-> [type |-> b, value |-> name[b][i]]]
  BY <1>0 DEF Pairs
<1> HIDE DEF x
<1>2. x = [i \in 1 .. Len(name[b]) |-> x[i]]
      /\ \A i \in 1 .. Len(name[b]) : x[i] \in [type : Attributes, value : V]
  BY <1>0, <1>1
<1>3. x \in Listings(V) /\ Len(x) = Len(name[b])
  BY <1>0, <1>2, Listed DEF Listings
<1>4. /\ v \in Seq(V) /\ Len(v) = Len(name[b])
      /\ \A i \in 1 .. Len(name[b]) : v[i] = name[b][i] /\ (i \in I <=> a = b)
  BY <1>0, <1>1, <1>3, ValuesListed
<1>5. Chosen(x, a) = Pick(v, I)
  BY DEF Chosen
<1> HIDE DEF v, I
<1>6. v = name[b]
  BY <1>0, <1>4, SeqEqual
<1>7. CASE a = b
  <2>1. Pick(v, I) = v
    BY <1>4, <1>7, PickAll
  <2> QED
    BY <1>3, <1>5, <1>6, <1>7, <2>1 DEF x
<1>8. CASE a # b
  <2>1. Pick(v, I) = << >>
    BY <1>4, <1>8, PickNone
  <2> QED
    BY <1>3, <1>5, <1>8, <2>1, Zenon DEF x
<1> QED
  BY <1>7, <1>8

(* What is listed are the values of the attributes in B, as far as a goes. *)
ListsUpTo(V, name, a, B, x) ==
    x \in Listings(V) /\ Chosen(x, a) = IF a \in B THEN name[a] ELSE << >>

LEMMA ListingGrows ==
    ASSUME NEW V, NEW name \in [Attributes -> Seq(V)], NEW a \in Attributes, NEW B, NEW x,
           NEW b \in Attributes, b \notin B, ListsUpTo(V, name, a, B, x)
    PROVE  ListsUpTo(V, name, a, B \cup {b}, x \o Pairs(name, b))
<1> DEFINE p == Pairs(name, b)
<1>1. p \in Listings(V) /\ Chosen(p, a) = IF a = b THEN name[a] ELSE << >>
  BY PairsChosen
<1> HIDE DEF p
<1>x. x \in Listings(V) /\ Chosen(x, a) = IF a \in B THEN name[a] ELSE << >>
  BY DEF ListsUpTo
<1>2. x \o p \in Listings(V) /\ Chosen(x \o p, a) = Chosen(x, a) \o Chosen(p, a)
  <2>1. x \in Listings(V) /\ p \in Listings(V)
    BY <1>1, <1>x
  <2> QED
    BY <2>1, ChosenConcat
<1>3. name[a] \o << >> = name[a] /\ << >> \o name[a] = name[a] /\ << >> \o << >> = << >>
  <2>1. name[a] \in Seq(V) /\ << >> \in Seq(V)
    OBVIOUS
  <2> QED
    BY <2>1, ConcatEmptySeq
<1>4. Chosen(x \o p, a) = IF a \in B \cup {b} THEN name[a] ELSE << >>
  BY <1>1, <1>x, <1>2, <1>3, Zenon
<1> QED
  BY <1>2, <1>4, Zenon DEF p, ListsUpTo

LEMMA ListingChosen ==
    ASSUME NEW V, NEW name \in [Attributes -> Seq(V)], NEW a \in Attributes
    PROVE  Listing(name) \in Listings(V) /\ Chosen(Listing(name), a) = name[a]
<1> DEFINE l1 == Pairs(name, "CN")
           l2 == l1 \o Pairs(name, "O")
           l3 == l2 \o Pairs(name, "OU")
           l4 == l3 \o Pairs(name, "L")
           l5 == l4 \o Pairs(name, "ST")
           l6 == l5 \o Pairs(name, "C")
<1>0. /\ "CN" \in Attributes /\ "O" \in Attributes /\ "OU" \in Attributes
      /\ "L" \in Attributes /\ "ST" \in Attributes /\ "C" \in Attributes
      /\ a \in {"CN"} \cup {"O"} \cup {"OU"} \cup {"L"} \cup {"ST"} \cup {"C"}
  BY DEF Attributes, LowerCase
<1>1. ListsUpTo(V, name, a, {"CN"}, l1)
  <2>1. "CN" \in Attributes
    BY <1>0
  <2>2. l1 \in Listings(V) /\ Chosen(l1, a) = IF a = "CN" THEN name[a] ELSE << >>
    BY <2>1, PairsChosen, Zenon
  <2> HIDE DEF l1
  <2> QED
    BY <2>2, Zenon DEF ListsUpTo
<1> HIDE DEF l1
<1>2. ListsUpTo(V, name, a, {"CN"} \cup {"O"}, l2)
  <2>1. "O" \notin {"CN"}
    OBVIOUS
  <2> QED
    BY <1>0, <1>1, <2>1, ListingGrows, Zenon
<1> HIDE DEF l2
<1>3. ListsUpTo(V, name, a, {"CN"} \cup {"O"} \cup {"OU"}, l3)
  <2>1. "OU" \notin {"CN"} \cup {"O"}
    OBVIOUS
  <2> QED
    BY <1>0, <1>2, <2>1, ListingGrows, Zenon
<1> HIDE DEF l3
<1>4. ListsUpTo(V, name, a, {"CN"} \cup {"O"} \cup {"OU"} \cup {"L"}, l4)
  <2>1. "L" \notin {"CN"} \cup {"O"} \cup {"OU"}
    OBVIOUS
  <2> QED
    BY <1>0, <1>3, <2>1, ListingGrows, Zenon
<1> HIDE DEF l4
<1>5. ListsUpTo(V, name, a, {"CN"} \cup {"O"} \cup {"OU"} \cup {"L"} \cup {"ST"}, l5)
  <2>1. "ST" \notin {"CN"} \cup {"O"} \cup {"OU"} \cup {"L"}
    OBVIOUS
  <2> QED
    BY <1>0, <1>4, <2>1, ListingGrows, Zenon
<1> HIDE DEF l5
<1>6. ListsUpTo(V, name, a, {"CN"} \cup {"O"} \cup {"OU"} \cup {"L"} \cup {"ST"} \cup {"C"}, l6)
  <2>1. "C" \notin {"CN"} \cup {"O"} \cup {"OU"} \cup {"L"} \cup {"ST"}
    OBVIOUS
  <2> QED
    BY <1>0, <1>5, <2>1, ListingGrows, Zenon
<1>7. l6 = Listing(name)
  BY DEF Listing, l1, l2, l3, l4, l5
<1> QED
  BY <1>0, <1>6, <1>7, Zenon DEF ListsUpTo

----------------------------------------------------------------------------
(* A printed name is a line again, and reads as the name.                  *)

Printable ==
    {v \in Text : v # << >> /\ NoComma(v) /\ v[1] # Blank /\ v[Len(v)] # Blank}

PrintablePart(a, v) == [text |-> << a, Equals >> \o v, kind |-> a, value |-> v]

LEMMA PartFields ==
    ASSUME NEW a, NEW v
    PROVE  PrintablePart(a, v).kind = a /\ PrintablePart(a, v).value = v
<1> DEFINE text == << a, Equals >> \o v
<1>1. PrintablePart(a, v) = [text |-> text, kind |-> a, value |-> v]
  BY DEF PrintablePart
<1> HIDE DEF text
<1> QED
  BY <1>1

LEMMA PrintedPart ==
    ASSUME NEW a \in Attributes, NEW v \in Printable
    PROVE  Part(PrintablePart(a, v)) /\ SubjectPart(PrintablePart(a, v))
<1> DEFINE h == << a, Equals >>
           text == h \o v
           l == Len(v) + 2
<1>0. v \in Seq(Tokens) /\ Len(v) \in Nat /\ Len(v) # 0 /\ v[1] # Blank /\ v[Len(v)] # Blank
      /\ \A i \in 1 .. Len(v) : v[i] # Comma
  BY DEF Printable, Text, NoComma
<1>1. a # Blank /\ a # Equals /\ a # Comma /\ Equals # Comma /\ a \in Tokens /\ Equals \in Tokens
  <2>1. a # Comma /\ Equals # Comma
    BY Zenon DEF Attributes, LowerCase, Equals, Comma
  <2>2. Equals \in Tokens
    BY DEF Tokens
  <2> QED
    BY <2>1, <2>2, TypeTokens
<1>2. h \in Seq(Tokens) /\ Len(h) = 2 /\ h[1] = a /\ h[2] = Equals
  BY <1>1
<1> HIDE DEF h
<1>3. /\ text \in Seq(Tokens) /\ Len(text) = l /\ text[1] = a /\ text[2] = Equals
      /\ \A i \in 1 .. Len(v) : text[2 + i] = v[i]
  <2>1. /\ text \in Seq(Tokens) /\ Len(text) = Len(h) + Len(v)
        /\ \A i \in 1 .. Len(h) + Len(v) : text[i] = IF i <= Len(h) THEN h[i] ELSE v[i - Len(h)]
    BY <1>0, <1>2, ConcatProperties
  <2> HIDE DEF text
  <2>2. Len(text) = l /\ text[1] = a /\ text[2] = Equals
    BY <1>0, <1>2, <2>1
  <2>3. ASSUME NEW i \in 1 .. Len(v) PROVE text[2 + i] = v[i]
    <3>1. 2 + i \in 1 .. Len(h) + Len(v) /\ ~(2 + i <= Len(h)) /\ (2 + i) - Len(h) = i
      BY <1>0, <1>2
    <3> QED
      BY <2>1, <3>1
  <2> QED
    BY <2>1, <2>2, <2>3
<1> HIDE DEF text
<1>4. text \in Text /\ DOMAIN text = 1 .. l /\ l \in 3 .. l /\ Len(v) >= 1
  BY <1>0, <1>3 DEF Text
<1>5. text[3] # Blank /\ text[l] # Blank
  <2>1. 1 \in 1 .. Len(v) /\ Len(v) \in 1 .. Len(v) /\ 2 + 1 = 3 /\ 2 + Len(v) = l
    BY <1>0
  <2> QED
    BY <1>0, <1>3, <2>1
<1>6. \A i \in DOMAIN text : text[i] # Comma
  <2>1. ASSUME NEW i \in 1 .. l PROVE text[i] # Comma
    <3>1. CASE i \in {1, 2}
      BY <1>1, <1>3, <3>1
    <3>2. CASE i \notin {1, 2}
      <4>1. i - 2 \in 1 .. Len(v) /\ 2 + (i - 2) = i
        BY <1>0, <3>2
      <4> QED
        BY <1>0, <1>3, <4>1
    <3> QED
      BY <3>1, <3>2
  <2> QED
    BY <1>4, <2>1
<1>7. ~AllBlank(text)
  BY <1>1, <1>3, <1>4 DEF AllBlank
<1>8. AttributeAt(text, a, 3, l)
  <2>1. 1 \in DOMAIN text /\ 2 \in DOMAIN text /\ 1 < 2 /\ 2 < 3 /\ 3 <= l
    BY <1>0, <1>4
  <2>2. \A i \in DOMAIN text : i \notin {1, 2} \cup (3 .. l) => text[i] = Blank
    BY <1>0, <1>4
  <2> QED
    BY <1>3, <1>5, <2>1, <2>2 DEF AttributeAt
<1>9. SubSeq(text, 3, l) = v
  <2>1. 3 \in 1 .. Len(text) /\ l \in 3 - 1 .. Len(text) /\ l - 3 + 1 = Len(v)
    BY <1>0, <1>3, <1>4
  <2> DEFINE x == SubSeq(text, 3, l)
  <2>2. x \in Text /\ Len(x) = Len(v) /\ \A i \in 1 .. Len(v) : x[i] = text[3 + i - 1]
    BY <1>4, <2>1, Cut
  <2> HIDE DEF x
  <2>3. ASSUME NEW i \in 1 .. Len(v) PROVE x[i] = v[i]
    <3>1. 3 + i - 1 = 2 + i
      BY <1>0
    <3> QED
      BY <1>3, <2>2, <3>1
  <2>4. x = v
    BY <1>0, <2>2, <2>3, SeqEqual DEF Text
  <2> QED
    BY <2>4 DEF x
<1> DEFINE p == PrintablePart(a, v)
<1>10. p.text = text /\ p.kind = a /\ p.value = v
  BY DEF PrintablePart, text, h
<1> HIDE DEF p
<1>11. a \notin {"blank", "bad"}
  BY DEF Attributes, LowerCase
<1>12. Part(p)
  BY <1>4, <1>6, <1>7, <1>10, <1>11 DEF Part
<1>13. SubjectPart(p)
  <2>1. 3 \in DOMAIN p.text /\ l \in DOMAIN p.text
    BY <1>0, <1>4, <1>10
  <2> QED
    BY <1>8, <1>9, <1>10, <1>11, <2>1 DEF SubjectPart
<1> QED
  BY <1>12, <1>13 DEF p

(* The names that are printed and read back.                               *)
PlainNames ==
    {name \in [Attributes -> Seq(Printable)] : Len(name["CN"]) \in {0, 1}}

(* What FormatDN prints of a name whose values have no comma and no blank  *)
(* around them, ParseDN accepts and reads as that name.                    *)
THEOREM PrintedReads ==
    ASSUME NEW name \in PlainNames, name # EmptyName
    PROVE  ParseDN(FormatDN(name)).ok /\ ParseDN(FormatDN(name)).name = name
<1> DEFINE x == Listing(name)
           parts == [i \in DOMAIN x |-> PrintablePart(x[i].type, x[i].value)]
<1>0. name \in [Attributes -> Seq(Printable)] /\ Len(name["CN"]) \in {0, 1}
  BY DEF PlainNames
<1>1. x \in Listings(Printable) /\ \A a \in Attributes : Chosen(x, a) = name[a]
  <2>1. ASSUME NEW a \in Attributes
        PROVE  x \in Listings(Printable) /\ Chosen(x, a) = name[a]
    BY <1>0, ListingChosen, Zenon
  <2>2. "CN" \in Attributes
    BY DEF Attributes, LowerCase
  <2> QED
    BY <2>1, <2>2, Zenon
<1> HIDE DEF x
<1>2. Len(x) \in Nat /\ DOMAIN x = 1 .. Len(x)
      /\ \A i \in 1 .. Len(x) : x[i].type \in Attributes /\ x[i].value \in Printable
  <2>1. \A i \in 1 .. Len(x) : x[i] \in [type : Attributes, value : Printable]
    BY <1>1, ElementOfSeq DEF Listings
  <2> QED
    BY <1>1, <2>1 DEF Listings
<1>3. Len(x) # 0
  <2>1. SUFFICES ASSUME Len(x) = 0 PROVE FALSE
    OBVIOUS
  <2>2. ASSUME NEW a \in Attributes PROVE name[a] = << >>
    <3> DEFINE values == [i \in DOMAIN x |-> x[i].value]
               I == {i \in DOMAIN x : x[i].type = a}
    <3>1. values \in Seq(Printable) /\ Len(values) = 0
      BY <1>1, <2>1, ValuesListed
    <3>2. Chosen(x, a) = Pick(values, I)
      BY DEF Chosen
    <3> HIDE DEF values, I
    <3>3. \A i \in 1 .. Len(values) : i \notin I
      BY <3>1
    <3>4. Pick(values, I) = << >>
      BY <3>1, <3>3, PickNone
    <3> QED
      BY <1>1, <3>2, <3>4
  <2> QED
    BY <1>0, <2>2 DEF EmptyName
<1>4. /\ \A i \in 1 .. Len(x) : parts[i] = PrintablePart(x[i].type, x[i].value)
      /\ parts = [i \in 1 .. Len(x) |-> parts[i]] /\ DOMAIN parts = 1 .. Len(x)
  BY <1>2
<1>5. FormatDN(name) = Line(parts)
  <2>1. [i \in DOMAIN parts |-> parts[i].text]
            = [i \in DOMAIN x |-> << x[i].type, Equals >> \o x[i].value]
    <3>1. ASSUME NEW i \in DOMAIN x PROVE parts[i].text = << x[i].type, Equals >> \o x[i].value
      BY <1>2, <1>4 DEF PrintablePart
    <3> QED
      BY <1>2, <1>4, <3>1
  <2> QED
    BY <2>1 DEF FormatDN, Line, x
<1> HIDE DEF parts
<1>6. Len(parts) = Len(x)
  BY <1>2, <1>4, LenOfList
<1>7. Parts(parts) /\ \A i \in DOMAIN parts : SubjectPart(parts[i])
  <2>1. \A i \in 1 .. Len(x) : Part(parts[i]) /\ SubjectPart(parts[i])
    BY <1>2, <1>4, PrintedPart
  <2> QED
    BY <1>2, <1>3, <1>4, <1>6, <2>1 DEF Parts
<1>8. \A i \in 1 .. Len(x) : parts[i].kind = x[i].type /\ parts[i].value = x[i].value
  BY <1>4, PartFields
<1>9. ASSUME NEW a \in Attributes PROVE MeantValues(parts, a) = name[a]
  <2> DEFINE values == [i \in DOMAIN x |-> x[i].value]
             I == {i \in DOMAIN x : x[i].type = a}
  <2>1. \A i \in 1 .. Len(parts) :
          /\ i \in I <=> parts[i].kind = a
          /\ i \in I => values[i] = parts[i].value
    BY <1>2, <1>6, <1>8
  <2>2. values = [i \in DOMAIN x |-> values[i]] /\ Chosen(x, a) = Pick(values, I)
    BY DEF Chosen
  <2> HIDE DEF values, I
  <2>3. Pick(values, I) = MeantValues(parts, a)
    BY <1>2, <1>6, <1>7, <2>1, <2>2, KeptAsMeant
  <2> QED
    BY <1>1, <2>2, <2>3
<1>10. \A i \in DOMAIN parts : parts[i].kind # "bad"
  <2>1. "bad" \notin Attributes
    BY DEF Attributes, LowerCase
  <2> QED
    BY <1>2, <1>4, <1>8, <2>1
<1>11. SaysSomething(parts)
  <2>1. "blank" \notin Attributes
    BY DEF Attributes, LowerCase
  <2>2. 1 \in DOMAIN parts /\ parts[1].kind # "blank"
    BY <1>2, <1>3, <1>4, <1>8, <2>1
  <2> QED
    BY <2>2 DEF SaysSomething
<1>12. ParseDN(Line(parts)).ok /\ ParseDN(Line(parts)).name = KeptName(parts)
  BY <1>7, <1>10, <1>11, SubjectReads DEF NotEmpty, NothingBad
<1>13. KeptName(parts) = name
  <2>1. "CN" \in Attributes /\ name["CN"] \in Seq(Printable)
    BY <1>0 DEF Attributes, LowerCase
  <2>2. ASSUME name["CN"] # << >> PROVE << name["CN"][Len(name["CN"])] >> = name["CN"]
    <3> DEFINE v == name["CN"]
    <3>1. v \in Seq(Printable) /\ Len(v) = 1
      BY <1>0, <2>1, <2>2
    <3> HIDE DEF v
    <3>2. << v[Len(v)] >> = v
      BY <3>1
    <3> QED
      BY <3>2 DEF v
  <2>3. \A a \in Attributes : KeptName(parts)[a] = name[a]
    BY <1>9, <2>1, <2>2 DEF KeptName, LastOnly
  <2>4. KeptName(parts) = [a \in Attributes |-> KeptName(parts)[a]]
    BY DEF KeptName
  <2> QED
    BY <1>0, <2>3, <2>4
<1> QED
  BY <1>5, <1>12, <1>13, Zenon

(* A value a user meant begins and ends with something other than a blank. *)
LEMMA MeantPrintable ==
    ASSUME NEW p, NEW a \in Attributes, Part(p), SubjectPart(p), p.kind = a
    PROVE  p.value \in Printable
<1>1. PICK f, l \in DOMAIN p.text : AttributeAt(p.text, a, f, l) /\ p.value = SubSeq(p.text, f, l)
  BY DEF SubjectPart
<1> DEFINE text == p.text
           v == SubSeq(text, f, l)
<1>2. text \in Text /\ DOMAIN text = 1 .. Len(text) /\ Len(text) \in Nat
      /\ \A i \in 1 .. Len(text) : text[i] # Comma
  BY DEF Part, Text
<1>3. f \in 1 .. Len(text) /\ l \in 1 .. Len(text) /\ f <= l /\ text[f] # Blank /\ text[l] # Blank
  BY <1>1, <1>2 DEF AttributeAt
<1> HIDE DEF text
<1>4. l \in f - 1 .. Len(text) /\ l - f + 1 # 0 /\ 1 \in 1 .. l - f + 1
      /\ l - f + 1 \in 1 .. l - f + 1 /\ f + 1 - 1 = f /\ f + (l - f + 1) - 1 = l
  BY <1>2, <1>3
<1>5. /\ v \in Text /\ Len(v) = l - f + 1 /\ DOMAIN v = 1 .. l - f + 1
      /\ \A i \in 1 .. l - f + 1 : v[i] = text[f + i - 1]
  BY <1>2, <1>3, <1>4, Cut
<1> HIDE DEF v
<1>6. v # << >>
  BY <1>4, <1>5
<1>7. v[1] # Blank /\ v[Len(v)] # Blank
  BY <1>3, <1>4, <1>5
<1>8. NoComma(v)
  <2>1. ASSUME NEW i \in 1 .. l - f + 1 PROVE v[i] # Comma
    <3>1. f + i - 1 \in 1 .. Len(text)
      BY <1>2, <1>3
    <3> QED
      BY <1>2, <1>5, <3>1
  <2> QED
    BY <1>5, <2>1 DEF NoComma
<1> QED
  BY <1>1, <1>5, <1>6, <1>7, <1>8 DEF Printable, v, text

LEMMA MeantValuesArePlain ==
    ASSUME NEW parts, Parts(parts), \A i \in DOMAIN parts : SubjectPart(parts[i]),
           NEW a \in Attributes
    PROVE  MeantValues(parts, a) \in Seq(Printable)
<1>0. Len(parts) \in Nat /\ DOMAIN parts = 1 .. Len(parts) /\ \A i \in 1 .. Len(parts) : Part(parts[i])
  BY DEF Parts
<1> DEFINE own == {i \in DOMAIN parts : parts[i].kind = a}
           meant == [i \in DOMAIN parts |-> IF i \in own THEN parts[i].value ELSE << >>]
           S == Printable \cup {<< >>}
<1>1. \A i \in 1 .. Len(parts) : i \in own => parts[i].value \in Printable
  BY <1>0, MeantPrintable
<1>2. /\ meant = [i \in 1 .. Len(parts) |-> meant[i]]
      /\ \A i \in 1 .. Len(parts) : i \in own => meant[i] \in Printable
      /\ \A i \in 1 .. Len(parts) : meant[i] \in S
  BY <1>0, <1>1
<1>3. MeantValues(parts, a) = Pick(meant, own)
  BY DEF MeantValues
<1> HIDE DEF own, meant, S
<1>4. meant \in Seq(S) /\ Len(meant) = Len(parts)
  BY <1>0, <1>2, Listed
<1>5. Pick(meant, own) \in Seq(Printable)
  BY <1>2, <1>4, PickKeeps
<1> QED
  BY <1>3, <1>5

LEMMA LastOfOne ==
    ASSUME NEW S, NEW v \in Seq(S), Len(v) <= 1
    PROVE  LastOnly(v) = v
<1>1. CASE v = << >>
  BY <1>1 DEF LastOnly
<1>2. CASE v # << >>
  <2>1. Len(v) \in Nat \ {0}
    BY <1>2, EmptySeq, Zenon
  <2>2. Len(v) = 1
    BY <2>1
  <2>3. << v[Len(v)] >> = v
    BY <2>2
  <2> QED
    BY <1>2, <2>3 DEF LastOnly
<1> QED
  BY <1>1, <1>2

(* Of an attribute that may have several values, and of one common name,   *)
(* nothing is lost.                                                        *)
LEMMA KeptAsTyped ==
    ASSUME NEW parts, Parts(parts), \A i \in DOMAIN parts : SubjectPart(parts[i]),
           NEW a \in Attributes, a # "CN" \/ Len(MeantName(parts)[a]) <= 1
    PROVE  KeptName(parts)[a] = MeantName(parts)[a]
<1> DEFINE v == MeantValues(parts, a)
<1>1. MeantName(parts)[a] = v /\ KeptName(parts)[a] = IF a = "CN" THEN LastOnly(v) ELSE v
  BY DEF MeantName, KeptName
<1>2. v \in Seq(Printable)
  BY MeantValuesArePlain
<1> HIDE DEF v
<1>3. Len(v) <= 1 => LastOnly(v) = v
  BY <1>2, LastOfOne
<1> QED
  BY <1>1, <1>3

LEMMA KeptNameIsPlain ==
    ASSUME NEW parts, Parts(parts), \A i \in DOMAIN parts : SubjectPart(parts[i])
    PROVE  KeptName(parts) \in PlainNames
<1>c. "CN" \in Attributes
  BY DEF Attributes, LowerCase
<1>2. ASSUME NEW a \in Attributes
      PROVE  /\ KeptName(parts)[a] \in Seq(Printable)
             /\ a = "CN" => Len(KeptName(parts)[a]) \in {0, 1}
  <2> DEFINE v == MeantValues(parts, a)
             last == << v[Len(v)] >>
  <2>1. v \in Seq(Printable)
    BY MeantValuesArePlain
  <2>2. KeptName(parts)[a] = IF a = "CN" /\ v # << >> THEN last ELSE v
    BY DEF KeptName, LastOnly
  <2> HIDE DEF v
  <2>3. ASSUME v # << >> PROVE last \in Seq(Printable) /\ Len(last) = 1
    BY <2>1, <2>3
  <2>4. ASSUME v = << >> PROVE Len(v) = 0
    BY <2>4
  <2> HIDE DEF last
  <2>5. CASE a = "CN" /\ v # << >>
    BY <2>2, <2>3, <2>5
  <2>6. CASE ~(a = "CN" /\ v # << >>)
    BY <2>1, <2>2, <2>4, <2>6
  <2> QED
    BY <2>5, <2>6
<1>3. KeptName(parts) = [a \in Attributes |-> KeptName(parts)[a]]
  BY DEF KeptName
<1>4. KeptName(parts) \in [Attributes -> Seq(Printable)]
  BY <1>2, <1>3
<1> QED
  BY <1>2, <1>4, <1>c DEF PlainNames

LEMMA EncodedIsPlain ==
    ASSUME NEW t \in Typed, Parsed[t].ok
    PROVE  Encoded(Parsed[t].names.name) \in PlainNames
<1> DEFINE m == Parsed[t].names.name
           e == Encoded(m)
<1>1. m \in [Attributes -> Seq(Printable)] /\ Len(m["CN"]) \in {0, 1}
  <2>1. m = KeptName(t.subject)
    BY ParsedIs DEF Kept, Meant
  <2> QED
    BY <2>1, TypedAssumption, KeptNameIsPlain DEF PlainNames
<1>2. ASSUME NEW a \in Attributes
      PROVE  e[a] \in Seq(Printable) /\ Len(e[a]) = Len(m[a])
  <2>1. Sorted(m[a]) \in Seq(ToSet(m[a])) /\ Len(Sorted(m[a])) = Len(m[a])
    BY SortedAssumption DEF Parsed
  <2>2. ToSet(m[a]) \subseteq Printable
    BY <1>1, ElementOfSeq DEF ToSet
  <2>3. e[a] = Sorted(m[a])
    BY DEF Encoded
  <2> HIDE DEF e, m
  <2>4. Sorted(m[a]) \in Seq(Printable)
    BY <2>1, <2>2, SeqMonotonic
  <2> QED
    BY <2>1, <2>3, <2>4
<1>3. e = [a \in Attributes |-> e[a]]
  BY DEF Encoded
<1>4. "CN" \in Attributes
  BY DEF Attributes, LowerCase
<1> HIDE DEF e, m
<1>5. e \in PlainNames
  BY <1>1, <1>2, <1>3, <1>4 DEF PlainNames
<1> QED
  BY <1>5 DEF e, m

=============================================================================
