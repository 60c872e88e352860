------------------------- MODULE HttpInput_proofs -------------------------
(***************************************************************************)
(* Proofs about HttpInput, HttpParser and Buffer, for all streams of       *)
(* messages, numbers and sizes of raws, and cuts of the input:             *)
(*   - induction over numbers and chains, and what the recursive functions *)
(*     of Buffer compute;                                                  *)
(*   - the parser's invariant;                                             *)
(*   - the invariant of the buffers: the input buffer holds the last bytes *)
(*     that were received, the body no memory that is written to;          *)
(*   - the story: where in which message the parser is, and what is known  *)
(*     of it;                                                              *)
(*   - the theorems, at the end.                                           *)
(***************************************************************************)
EXTENDS HttpInput, SequenceTheorems, WellFoundedInduction, TLAPS

----------------------------------------------------------------------------
(* Induction over numbers and sequences is the argument that a set of      *)
(* counterexamples would have a least member, or one of least length.      *)

\* A set of numbers that is not empty has a least member.
LEMMA LeastMember ==
  ASSUME NEW T, T \subseteq Nat, T # {}
  PROVE  \E x \in T : \A y \in T : x <= y
<1> DEFINE R == OpToRel(<, Nat)
<1>1. IsWellFoundedOn(R, Nat)
  BY NatLessThanWellFounded
<1>2. \A x, y \in Nat : x < y => <<x, y>> \in R
  <2> SUFFICES ASSUME NEW x \in Nat, NEW y \in Nat, x < y PROVE <<x, y>> \in R
    OBVIOUS
  <2>1. <<x, y>> \in Nat \X Nat /\ <<x, y>>[1] < <<x, y>>[2]
    OBVIOUS
  <2>2. QED
    BY <2>1, Zenon DEF OpToRel
<1> HIDE DEF R
<1>3. PICK x \in T : \A y \in T : ~(<<y, x>> \in R)
  BY <1>1, WFMin
<1>4. x \in T /\ \A y \in T : y \in Nat /\ x \in Nat /\ ~(y < x)
  BY <1>2, <1>3
<1>5. QED
  BY <1>4

\* A set of numbers that has 0 and, with every number, the next one.
LEMMA AllNumbers ==
  ASSUME NEW P, 0 \in P, \A n \in Nat : n \in P => n + 1 \in P
  PROVE  Nat \subseteq P
<1> SUFFICES ASSUME Nat \ P # {} PROVE FALSE
  OBVIOUS
<1>1. PICK n \in Nat \ P : \A m \in Nat \ P : n <= m
  BY LeastMember
<1>2. n # 0 /\ n - 1 \in Nat /\ n - 1 \in P
  BY <1>1
<1>3. QED
  BY <1>1, <1>2

\* A set of sequences that has the empty one and every one whose tail it has.
LEMMA AllSequences ==
  ASSUME NEW S, NEW P, <<>> \in P,
         \A c \in Seq(S) : c # <<>> /\ Tail(c) \in P => c \in P
  PROVE  Seq(S) \subseteq P
<1> DEFINE Q == {n \in Nat : \A c \in Seq(S) : Len(c) = n => c \in P}
<1>1. 0 \in Q
  BY EmptySeq
<1>2. ASSUME NEW n \in Nat, n \in Q PROVE n + 1 \in Q
  <2> SUFFICES ASSUME NEW c \in Seq(S), Len(c) = n + 1 PROVE c \in P
    OBVIOUS
  <2>1. c # <<>> /\ Tail(c) \in Seq(S) /\ Len(Tail(c)) = n
    BY HeadTailProperties, EmptySeq
  <2>2. QED
    BY <1>2, <2>1
<1>3. Nat \subseteq Q
  BY <1>1, <1>2, AllNumbers
<1>4. QED
  BY <1>3, LenProperties

\* The sequences with at most n members.
UpToLength(S, n) == {c \in Seq(S) : Len(c) <= n}

\* What recursion over the tail makes of them.
Recursive(h, S, n, base, step) ==
  \A c \in UpToLength(S, n) : h[c] = IF c = <<>> THEN base ELSE step[<<c, h[Tail(c)]>>]

\* A recursion over sequences has a solution on those of at most `n` members.
LEMMA ShorterExists ==
  ASSUME NEW S, NEW T, NEW base \in T, NEW step \in [Seq(S) \X T -> T], NEW n \in Nat
  PROVE  \E h \in [UpToLength(S, n) -> T] : Recursive(h, S, n, base, step)
<1> DEFINE Q == {m \in Nat : \E h \in [UpToLength(S, m) -> T] : Recursive(h, S, m, base, step)}
<1>1. 0 \in Q
  <2>1. \A c \in UpToLength(S, 0) : c = <<>>
    BY EmptySeq DEF UpToLength
  <2> DEFINE h == [c \in UpToLength(S, 0) |-> base]
  <2>2. h \in [UpToLength(S, 0) -> T] /\ Recursive(h, S, 0, base, step)
    BY <2>1 DEF Recursive
  <2>3. QED
    BY <2>2
<1>2. ASSUME NEW m \in Nat, m \in Q PROVE m + 1 \in Q
  <2>1. PICK g \in [UpToLength(S, m) -> T] : Recursive(g, S, m, base, step)
    BY <1>2
  <2> DEFINE D == UpToLength(S, m + 1)
             h == [c \in D |-> IF c = <<>> THEN base ELSE step[<<c, g[Tail(c)]>>]]
  <2>2. \A c \in D : c # <<>> => c \in Seq(S) /\ Tail(c) \in UpToLength(S, m)
    BY HeadTailProperties, LenProperties DEF UpToLength
  <2>3. h \in [D -> T]
    <3>1. ASSUME NEW c \in D, c # <<>> PROVE step[<<c, g[Tail(c)]>>] \in T
      <4>1. <<c, g[Tail(c)]>> \in Seq(S) \X T
        BY <2>1, <2>2, <3>1
      <4>2. QED
        BY <4>1
    <3>2. QED
      BY <3>1
  <2>4. \A c \in UpToLength(S, m) : c \in D /\ h[c] = g[c]
    BY <2>1, LenProperties DEF UpToLength, Recursive
  <2>5. Recursive(h, S, m + 1, base, step)
    <3> SUFFICES ASSUME NEW c \in D
                 PROVE  h[c] = IF c = <<>> THEN base ELSE step[<<c, h[Tail(c)]>>]
      BY DEF Recursive
    <3>1. c # <<>> => h[Tail(c)] = g[Tail(c)]
      BY <2>2, <2>4
    <3> HIDE DEF D
    <3>2. h[c] = IF c = <<>> THEN base ELSE step[<<c, g[Tail(c)]>>]
      OBVIOUS
    <3>3. QED
      BY <3>1, <3>2
  <2> HIDE DEF h
  <2>6. QED
    BY <2>3, <2>5
<1>3. QED
  BY <1>1, <1>2, AllNumbers

\* Two solutions of a recursion agree on the sequences both of them know.
LEMMA ShorterAgree ==
  ASSUME NEW S, NEW base, NEW step, NEW n \in Nat, NEW m \in Nat, NEW g, NEW h,
         Recursive(g, S, n, base, step), Recursive(h, S, m, base, step),
         NEW c \in UpToLength(S, n), c \in UpToLength(S, m)
  PROVE  g[c] = h[c]
<1> DEFINE P == {d \in Seq(S) : Len(d) <= n /\ Len(d) <= m => g[d] = h[d]}
<1>1. <<>> \in P
  <2>1. <<>> \in UpToLength(S, n) /\ <<>> \in UpToLength(S, m)
    BY EmptySeq DEF UpToLength
  <2>2. QED
    BY <2>1, EmptySeq DEF Recursive
<1>2. ASSUME NEW d \in Seq(S), d # <<>>, Tail(d) \in P PROVE d \in P
  <2> SUFFICES ASSUME Len(d) <= n, Len(d) <= m PROVE g[d] = h[d]
    OBVIOUS
  <2>1. Tail(d) \in Seq(S) /\ Len(Tail(d)) = Len(d) - 1 /\ Len(d) \in Nat
    BY <1>2, HeadTailProperties, LenProperties
  <2>2. g[Tail(d)] = h[Tail(d)]
    BY <1>2, <2>1
  <2>3. d \in UpToLength(S, n) /\ d \in UpToLength(S, m)
    BY DEF UpToLength
  <2>4. QED
    BY <1>2, <2>2, <2>3 DEF Recursive
<1>3. Seq(S) \subseteq P
  <2> HIDE DEF P
  <2>1. QED
    BY <1>1, <1>2, AllSequences
<1>4. QED
  BY <1>3 DEF UpToLength

\* What recursion over the tail needs, and what it makes of all sequences.
Steps(step, C, T) == step \in [C \X T -> T]
Recurses(h, C, T, base, step) ==
  /\ h \in [C -> T]
  /\ \A c \in C : h[c] = IF c = <<>> THEN base ELSE step[<<c, h[Tail(c)]>>]

\* A function can be defined by recursion over the tail.
LEMMA TailRecursion ==
  ASSUME NEW S, NEW T, NEW base \in T, NEW step, Steps(step, Seq(S), T)
  PROVE  \E h : Recurses(h, Seq(S), T, base, step)
<1> DEFINE Is(g, n) == g \in [UpToLength(S, n) -> T] /\ Recursive(g, S, n, base, step)
           G == [n \in Nat |-> CHOOSE g : Is(g, n)]
           h == [c \in Seq(S) |-> G[Len(c)][c]]
<1>1. \A n \in Nat : Is(G[n], n)
  <2>1. \A n \in Nat : \E g : Is(g, n)
      BY ShorterExists DEF Steps
  <2> HIDE DEF Is
  <2>2. QED
    BY <2>1
<1>2. \A c \in Seq(S) : Len(c) \in Nat /\ c \in UpToLength(S, Len(c))
  BY LenProperties DEF UpToLength
<1> HIDE DEF G
<1>3. h \in [Seq(S) -> T]
  BY <1>1, <1>2
<1>4. ASSUME NEW c \in Seq(S)
      PROVE  h[c] = IF c = <<>> THEN base ELSE step[<<c, h[Tail(c)]>>]
  <2>1. G[Len(c)][c] = IF c = <<>> THEN base ELSE step[<<c, G[Len(c)][Tail(c)]>>]
    BY <1>1, <1>2 DEF Recursive
  <2>2. ASSUME c # <<>> PROVE Tail(c) \in Seq(S) /\ G[Len(c)][Tail(c)] = h[Tail(c)]
    <3>1. Tail(c) \in Seq(S) /\ Len(Tail(c)) = Len(c) - 1
      BY <2>2, HeadTailProperties
    <3>2. Tail(c) \in UpToLength(S, Len(c)) /\ Tail(c) \in UpToLength(S, Len(Tail(c)))
      BY <1>2, <3>1 DEF UpToLength
    <3>3. G[Len(c)][Tail(c)] = G[Len(Tail(c))][Tail(c)]
      BY <1>1, <1>2, <3>1, <3>2, ShorterAgree
    <3>4. QED
      BY <3>1, <3>3
  <2>3. QED
    BY <2>1, <2>2
<1> HIDE DEF h
<1>5. Recurses(h, Seq(S), T, base, step)
  BY <1>3, <1>4 DEF Recurses
<1>6. QED
  BY <1>5

----------------------------------------------------------------------------
(* FlattenSeq, one sequence more at a time.                                *)

\* The concatenations of the first sequences of R: what flatten computes.
Concats(R, n, f) ==
  f = [i \in 1 .. n |-> IF i = 1 THEN R[i] ELSE f[i - 1] \o R[i]]

\* The first `n` rows of R, put together one after the other.
LEMMA ConcatsExist ==
  ASSUME NEW T, NEW R \in [Nat -> Seq(T)], NEW n \in Nat
  PROVE  \E f \in [1 .. n -> Seq(T)] : Concats(R, n, f)
<1> DEFINE P == {m \in Nat : \E f \in [1 .. m -> Seq(T)] : Concats(R, m, f)}
<1>1. 0 \in P
  <2>1. [i \in 1 .. 0 |-> <<>>] \in [1 .. 0 -> Seq(T)] /\ Concats(R, 0, [i \in 1 .. 0 |-> <<>>])
    BY DEF Concats
  <2>2. QED
    BY <2>1
<1>2. ASSUME NEW m \in Nat, m \in P PROVE m + 1 \in P
  <2>1. PICK f \in [1 .. m -> Seq(T)] : Concats(R, m, f)
    BY <1>2
  <2> DEFINE s == IF m = 0 THEN R[1] ELSE f[m] \o R[m + 1]
             g == [i \in 1 .. m + 1 |-> IF i = m + 1 THEN s ELSE f[i]]
  <2>2. s \in Seq(T)
    BY <2>1
  <2>3. g \in [1 .. m + 1 -> Seq(T)]
    BY <2>1, <2>2
  <2>4. \A i \in 1 .. m + 1 : g[i] = IF i = 1 THEN R[i] ELSE g[i - 1] \o R[i]
    <3> SUFFICES ASSUME NEW i \in 1 .. m + 1
                 PROVE  g[i] = IF i = 1 THEN R[i] ELSE g[i - 1] \o R[i]
      OBVIOUS
    <3>1. CASE i = m + 1
      BY <3>1
    <3>2. CASE i # m + 1
      <4>1. i \in 1 .. m /\ g[i] = f[i] /\ (i # 1 => g[i - 1] = f[i - 1])
        BY <3>2
      <4>2. f[i] = IF i = 1 THEN R[i] ELSE f[i - 1] \o R[i]
        BY <2>1, <4>1 DEF Concats
      <4>3. QED
        BY <4>1, <4>2
    <3>3. QED
      BY <3>1, <3>2
  <2> HIDE DEF g
  <2>5. Concats(R, m + 1, g)
    BY <2>3, <2>4 DEF Concats
  <2>6. QED
    BY <2>3, <2>5
<1>3. QED
  BY <1>1, <1>2, AllNumbers

\* Rows put together are the same in a longer and in a shorter account of it.
LEMMA ConcatsAgree ==
  ASSUME NEW R, NEW m \in Nat, NEW n \in 1 .. m, NEW f, NEW g,
         Concats(R, m, f), Concats(R, n, g)
  PROVE  f[n] = g[n]
<1> DEFINE P == {i \in Nat : i \in 1 .. m /\ i \in 1 .. n => f[i] = g[i]}
<1>1. 0 \in P
  OBVIOUS
<1>2. ASSUME NEW i \in Nat, i \in P PROVE i + 1 \in P
  <2> SUFFICES ASSUME i + 1 \in 1 .. m, i + 1 \in 1 .. n PROVE f[i + 1] = g[i + 1]
    OBVIOUS
  <2>1. /\ \A j \in 1 .. m : f[j] = IF j = 1 THEN R[j] ELSE f[j - 1] \o R[j]
        /\ \A j \in 1 .. n : g[j] = IF j = 1 THEN R[j] ELSE g[j - 1] \o R[j]
    BY DEF Concats
  <2>2. (i + 1) - 1 = i /\ (i + 1 # 1 => f[i] = g[i])
    BY <1>2
  <2>3. QED
    BY <2>1, <2>2
<1>3. Nat \subseteq P
  BY <1>1, <1>2, AllNumbers
<1>4. n \in Nat /\ n \in 1 .. m /\ n \in 1 .. n
  OBVIOUS
<1>5. QED
  BY <1>3, <1>4

\* FlattenSeq is the last of the rows put together.
LEMMA FlattenIsLastConcat ==
  ASSUME NEW T, NEW R \in [Nat -> Seq(T)], NEW n \in Nat \ {0}
  PROVE  \E f \in [1 .. n -> Seq(T)] :
           Concats(R, n, f) /\ FlattenSeq([i \in 1 .. n |-> R[i]]) = f[n]
<1> DEFINE s == [i \in 1 .. n |-> R[i]]
           F == CHOOSE f : f = [i \in 1 .. Len(s) |-> IF i = 1 THEN s[i] ELSE f[i - 1] \o s[i]]
<1>1. Len(s) = n /\ s \in Seq(Seq(T)) /\ \A i \in 1 .. n : s[i] = R[i]
  OBVIOUS
<1>2. FlattenSeq(s) = F[Len(s)]
  BY <1>1 DEF FlattenSeq
<1>3. PICK f \in [1 .. n -> Seq(T)] : Concats(R, n, f)
  BY ConcatsExist
<1>4. \A g : Concats(R, n, g) <=>
               g = [i \in 1 .. Len(s) |-> IF i = 1 THEN s[i] ELSE g[i - 1] \o s[i]]
  BY <1>1 DEF Concats
<1>5. Concats(R, n, F)
  BY <1>3, <1>4
<1>6. F[n] = f[n]
  BY <1>3, <1>5, ConcatsAgree
<1>7. QED
  BY <1>1, <1>2, <1>3, <1>6

\* FlattenSeq of one row more: the recursion it is used with here.
LEMMA FlattenNext ==
  ASSUME NEW T, NEW R \in [Nat -> Seq(T)], NEW n \in Nat
  PROVE  /\ FlattenSeq([i \in 1 .. 0 |-> R[i]]) = <<>>
         /\ FlattenSeq([i \in 1 .. n |-> R[i]]) \in Seq(T)
         /\ FlattenSeq([i \in 1 .. n + 1 |-> R[i]]) =
              FlattenSeq([i \in 1 .. n |-> R[i]]) \o R[n + 1]
<1> DEFINE S(m) == FlattenSeq([i \in 1 .. m |-> R[i]])
<1>1. S(0) = <<>>
  <2>1. [i \in 1 .. 0 |-> R[i]] = <<>>
    OBVIOUS
  <2>2. QED
    BY <2>1 DEF FlattenSeq
<1>2. \A m \in Nat \ {0} : \E f \in [1 .. m -> Seq(T)] : Concats(R, m, f) /\ S(m) = f[m]
  BY FlattenIsLastConcat
<1> HIDE DEF S
<1>3. S(n) \in Seq(T)
  <2>1. CASE n = 0
    BY <1>1, <2>1, EmptySeq
  <2>2. CASE n # 0
    <3>1. PICK f \in [1 .. n -> Seq(T)] : S(n) = f[n]
      BY <1>2, <2>2
    <3>2. QED
      BY <2>2, <3>1
  <2>3. QED
    BY <2>1, <2>2
<1>4. S(n + 1) = S(n) \o R[n + 1]
  <2>1. PICK m \in Nat \ {0} : m = n + 1
    OBVIOUS
  <2>2. PICK g : Concats(R, m, g) /\ S(m) = g[m]
    BY <1>2
  <2>3. \A j \in 1 .. m : g[j] = IF j = 1 THEN R[j] ELSE g[j - 1] \o R[j]
    BY <2>2 DEF Concats
  <2>4. CASE n = 0
    <3>1. g[m] = R[m] /\ R[m] \in Seq(T) /\ S(n) = <<>>
      BY <1>1, <2>1, <2>3, <2>4
    <3>2. QED
      BY <2>1, <2>2, <3>1
  <2>5. CASE n # 0
    <3>1. PICK f : Concats(R, n, f) /\ S(n) = f[n]
      BY <1>2, <2>5
    <3>2. m \in Nat /\ m # 1 /\ m - 1 = n /\ m \in 1 .. m /\ n \in 1 .. m
      BY <2>1, <2>5
    <3>3. g[n] = f[n]
      BY <2>2, <3>1, <3>2, ConcatsAgree
    <3>4. g[m] = g[n] \o R[m]
      BY <2>3, <3>2
    <3>5. QED
      BY <2>1, <2>2, <3>1, <3>3, <3>4
  <2>6. QED
    BY <2>4, <2>5
<1>5. QED
  BY <1>1, <1>3, <1>4 DEF S

\* What holds of <<>> and survives Append holds of every sequence.
LEMMA AllAppended ==
  ASSUME NEW S, NEW P, <<>> \in P,
         \A c \in Seq(S), e \in S : c \in P => Append(c, e) \in P
  PROVE  Seq(S) \subseteq P
<1> DEFINE Q == {n \in Nat : \A c \in Seq(S) : Len(c) = n => c \in P}
<1>1. 0 \in Q
  BY EmptySeq
<1>2. ASSUME NEW n \in Nat, n \in Q PROVE n + 1 \in Q
  <2> SUFFICES ASSUME NEW c \in Seq(S), Len(c) = n + 1 PROVE c \in P
    OBVIOUS
  <2>1. PICK b \in Seq(S), e \in S : c = Append(b, e)
    BY SequenceEmptyOrAppend, EmptySeq
  <2>2. Len(b) = n
    BY <2>1, AppendProperties, LenProperties
  <2>3. QED
    BY <1>2, <2>1, <2>2
<1>3. Nat \subseteq Q
  <2> HIDE DEF Q
  <2>1. QED
    BY <1>1, <1>2, AllNumbers
<1>4. QED
  BY <1>3, LenProperties

\* The first sequences of R, for any number of them.
LEMMA FlattenFirst ==
  ASSUME NEW T, NEW R \in Seq(Seq(T))
  PROVE  /\ FlattenSeq(R) \in Seq(T)
         /\ \A s \in Seq(T) : FlattenSeq(Append(R, s)) = FlattenSeq(R) \o s
<1>1. ASSUME NEW s \in Seq(T)
      PROVE  /\ FlattenSeq(R) \in Seq(T)
             /\ FlattenSeq(Append(R, s)) = FlattenSeq(R) \o s
  <2> DEFINE A == Append(R, s)
             n == Len(R)
             F == [i \in Nat |-> IF i \in 1 .. n + 1 THEN A[i] ELSE <<>>]
  <2>1. /\ n \in Nat /\ A \in Seq(Seq(T)) /\ Len(A) = n + 1
        /\ \A i \in 1 .. n : A[i] = R[i]
        /\ A[n + 1] = s
    BY AppendProperties, LenProperties
  <2> HIDE DEF A, n
  <2>2. F \in [Nat -> Seq(T)]
    <3>1. \A i \in 1 .. n + 1 : A[i] \in Seq(T)
      BY <2>1, ElementOfSeq
    <3>2. <<>> \in Seq(T)
      BY EmptySeq
    <3>3. QED
      BY <3>1, <3>2
  <2>3. \A i \in 1 .. n : F[i] = R[i]
    BY <2>1
  <2>4. \A i \in 1 .. n + 1 : F[i] = A[i]
    BY <2>1
  <2>5. F[n + 1] = s
    BY <2>1
  <2> HIDE DEF F
  <2>6. [i \in 1 .. n |-> F[i]] = R
    BY <2>1, <2>3, LenProperties DEF n
  <2>7. [i \in 1 .. n + 1 |-> F[i]] = A
    BY <2>1, <2>4, LenProperties
  <2>8. /\ FlattenSeq([i \in 1 .. n |-> F[i]]) \in Seq(T)
        /\ FlattenSeq([i \in 1 .. n + 1 |-> F[i]]) =
             FlattenSeq([i \in 1 .. n |-> F[i]]) \o F[n + 1]
    BY <2>1, <2>2, FlattenNext
  <2>9. QED
    BY <2>5, <2>6, <2>7, <2>8 DEF A
<1>2. <<>> \in Seq(T)
  BY EmptySeq
<1>3. QED
  BY <1>1, <1>2

\* Nothing put together is nothing.
LEMMA FlattenEmpty == FlattenSeq(<<>>) = <<>>
BY DEF FlattenSeq

\* Where three sequences are joined does not matter.
Associates(a, b, c) == (a \o b) \o c = a \o (b \o c)

\* How three sequences are put together does not depend on the order.
LEMMA Joining ==
  ASSUME NEW T, NEW a \in Seq(T), NEW b \in Seq(T), NEW c \in Seq(T)
  PROVE  Associates(a, b, c)
<1>1. (a \o b) \o c = a \o (b \o c)
  BY ConcatAssociative
<1>2. QED
  BY <1>1 DEF Associates

\* FlattenSeq of two sequences of rows is the two put together.
LEMMA FlattenConcat ==
  ASSUME NEW T, NEW a \in Seq(Seq(T)), NEW b \in Seq(Seq(T))
  PROVE  FlattenSeq(a \o b) = FlattenSeq(a) \o FlattenSeq(b)
<1> DEFINE P == {c \in Seq(Seq(T)) : FlattenSeq(a \o c) = FlattenSeq(a) \o FlattenSeq(c)}
<1>1. <<>> \in P
  <2>1. /\ <<>> \in Seq(Seq(T)) /\ a \o <<>> = a
        /\ FlattenSeq(a) \in Seq(T)
    BY EmptySeq, ConcatEmptySeq, FlattenFirst
  <2>2. FlattenSeq(a) \o <<>> = FlattenSeq(a)
    BY <2>1, ConcatEmptySeq
  <2>3. QED
    BY <2>1, <2>2, FlattenEmpty
<1>2. ASSUME NEW c \in Seq(Seq(T)), NEW e \in Seq(T), c \in P PROVE Append(c, e) \in P
  <2>1. a \o Append(c, e) = Append(a \o c, e)
    BY SMTT(30)
  <2>2. /\ a \o c \in Seq(Seq(T)) /\ Append(c, e) \in Seq(Seq(T))
        /\ FlattenSeq(a) \in Seq(T) /\ FlattenSeq(c) \in Seq(T)
    BY ConcatProperties, AppendProperties, FlattenFirst
  <2>3. FlattenSeq(Append(a \o c, e)) = FlattenSeq(a \o c) \o e
    BY <2>2, FlattenFirst
  <2>4. FlattenSeq(a \o c) = FlattenSeq(a) \o FlattenSeq(c)
    BY <1>2
  <2>5. FlattenSeq(Append(c, e)) = FlattenSeq(c) \o e
    BY FlattenFirst
  <2>6. (FlattenSeq(a) \o FlattenSeq(c)) \o e = FlattenSeq(a) \o (FlattenSeq(c) \o e)
    BY <2>2, ConcatAssociative, SMTT(30)
  <2>7. QED
    BY <2>1, <2>2, <2>3, <2>4, <2>5, <2>6
<1>3. Seq(Seq(T)) \subseteq P
  <2> HIDE DEF P
  <2>1. QED
    BY <1>1, <1>2, AllAppended
<1>4. QED
  BY <1>3

\* FlattenSeq of one row is that row.
LEMMA FlattenOne ==
  ASSUME NEW T, NEW s \in Seq(T)
  PROVE  FlattenSeq(<<s>>) = s
<1>1. <<s>> = Append(<<>>, s) /\ <<>> \in Seq(Seq(T)) /\ <<>> \in Seq(T)
  BY EmptySeq
<1>2. FlattenSeq(Append(<<>>, s)) = FlattenSeq(<<>>) \o s
  BY <1>1, FlattenFirst
<1>3. QED
  BY <1>1, <1>2, FlattenEmpty, ConcatEmptySeq

----------------------------------------------------------------------------
(* Slices and chains.                                                      *)

\* A slice lies in its raw, from `start` to `end`.
LEMMA SliceFields ==
  ASSUME NEW s \in Slices
  PROVE  /\ s.raw \in Raws /\ s.start \in Nat /\ s.end \in Nat
         /\ s.start <= s.end /\ s.end <= ChunkSize /\ ChunkSize \in Nat
         /\ readable_size(s) \in Nat /\ readable_size(s) = s.end - s.start
BY BufferAssumption DEF Slices, readable_size

\* advance_read moves the start of a slice and leaves its end and memory.
LEMMA AdvancedSlice ==
  ASSUME NEW s \in Slices, NEW n \in Nat, n <= readable_size(s)
  PROVE  /\ advance_read(s, n) \in Slices
         /\ advance_read(s, n).raw = s.raw
         /\ advance_read(s, n).start = s.start + n
         /\ advance_read(s, n).end = s.end
BY BufferAssumption DEF Slices, readable_size, advance_read

\* The first bytes of a slice.
CutSlice(s, n) == [s EXCEPT !.end = s.start + n]

\* The first bytes of a slice share its memory and its start.
LEMMA CutSliceFields ==
  ASSUME NEW s \in Slices, NEW n \in Nat, n <= readable_size(s)
  PROVE  /\ CutSlice(s, n) \in Slices
         /\ CutSlice(s, n).raw = s.raw
         /\ CutSlice(s, n).start = s.start
         /\ CutSlice(s, n).end = s.start + n
BY BufferAssumption DEF Slices, readable_size, CutSlice

\* A slice in front of a chain.
LEMMA SliceBefore ==
  ASSUME NEW s \in Slices, NEW c \in Chains
  PROVE  /\ <<s>> \o c \in Chains /\ <<s>> \o c # <<>>
         /\ Head(<<s>> \o c) = s /\ Tail(<<s>> \o c) = c
         /\ Len(<<s>> \o c) = Len(c) + 1
         /\ \A i \in 1 .. Len(c) : (<<s>> \o c)[i + 1] = c[i]
         /\ (<<s>> \o c)[1] = s
<1> USE DEF Chains
<1>1. <<s>> \in Seq(Slices) /\ Len(<<s>>) = 1
  OBVIOUS
<1>2. /\ <<s>> \o c \in Seq(Slices) /\ Len(<<s>> \o c) = Len(c) + 1
      /\ \A i \in 1 .. Len(c) + 1 : (<<s>> \o c)[i] = IF i <= 1 THEN s ELSE c[i - 1]
  BY <1>1, ConcatProperties
<1>3. Tail(<<s>> \o c) \in Seq(Slices) /\ Len(Tail(<<s>> \o c)) = Len(c)
  BY <1>2, LenProperties
<1>4. \A i \in 1 .. Len(c) : Tail(<<s>> \o c)[i] = c[i]
  BY <1>2, LenProperties
<1>5. Tail(<<s>> \o c) = c
  BY <1>3, <1>4, SeqEqual
<1>6. QED
  BY <1>2, <1>5, LenProperties

\* The first slice of a chain and the chain behind it.
LEMMA ChainParts ==
  ASSUME NEW c \in Chains, c # <<>>
  PROVE  /\ Head(c) \in Slices /\ Tail(c) \in Chains
         /\ Len(c) \in Nat \ {0} /\ Len(Tail(c)) = Len(c) - 1
         /\ Head(c) = c[1]
         /\ \A i \in 1 .. Len(c) - 1 : Tail(c)[i] = c[i + 1]
BY HeadTailProperties, LenProperties, EmptySeq DEF Chains

\* A chain is its first slice and the others.
LEMMA ChainSplit ==
  ASSUME NEW c \in Chains, c # <<>>
  PROVE  c = <<Head(c)>> \o Tail(c)
<1>1. /\ Head(c) \in Slices /\ Tail(c) \in Chains
      /\ Len(c) \in Nat \ {0} /\ Len(Tail(c)) = Len(c) - 1
      /\ Head(c) = c[1]
      /\ \A i \in 1 .. Len(c) - 1 : Tail(c)[i] = c[i + 1]
  BY ChainParts
<1>2. /\ <<Head(c)>> \o Tail(c) \in Chains
      /\ Len(<<Head(c)>> \o Tail(c)) = Len(c)
      /\ (<<Head(c)>> \o Tail(c))[1] = c[1]
      /\ \A i \in 1 .. Len(c) - 1 : (<<Head(c)>> \o Tail(c))[i + 1] = Tail(c)[i]
  BY <1>1, SliceBefore
<1> HIDE DEF Chains
<1>3. ASSUME NEW i \in 1 .. Len(c) PROVE (<<Head(c)>> \o Tail(c))[i] = c[i]
  <2>1. CASE i = 1
    BY <1>2, <2>1
  <2>2. CASE i # 1
    <3>1. PICK j \in 1 .. Len(c) - 1 : i = j + 1
      <4>1. i - 1 \in 1 .. Len(c) - 1 /\ i = (i - 1) + 1
        BY <1>1, <2>2
      <4>2. QED
        BY <4>1
    <3>2. QED
      BY <1>1, <1>2, <3>1
  <2>3. QED
    BY <2>1, <2>2
<1>4. QED
  BY <1>2, <1>3, SeqEqual DEF Chains

\* A set of chains that has the empty one and every one whose tail it has.
LEMMA AllChains ==
  ASSUME NEW P, <<>> \in P, \A c \in Chains : c # <<>> /\ Tail(c) \in P => c \in P
  PROVE  Chains \subseteq P
BY AllSequences DEF Chains

\* The empty chain is a chain.
LEMMA NoSlices == <<>> \in Chains
BY EmptySeq DEF Chains

\* Recursion over the slices of a chain.
LEMMA ChainRecursion ==
  ASSUME NEW T, NEW base \in T, NEW step, Steps(step, Chains, T)
  PROVE  \E h : Recurses(h, Chains, T, base, step)
BY TailRecursion DEF Chains

----------------------------------------------------------------------------
(* The recursive functions of Buffer are what their definitions say.       *)

\* The distance to the end, slice by slice: `operator-` of the iterator.
LEMMA ToEndIs ==
  /\ ToEnd[<<>>] = 0
  /\ \A at \in Chains : at # <<>> => ToEnd[at] = readable_size(Head(at)) + ToEnd[Tail(at)]
  /\ \A at \in Chains : ToEnd[at] \in Nat
<1> DEFINE Body(c, v) == IF c = End THEN 0 ELSE readable_size(Head(c)) + v
           step == [x \in Chains \X Nat |-> Body(x[1], x[2])]
           Is(f) == f = [at \in Chains |->
                           IF at = End THEN 0 ELSE readable_size(Head(at)) + f[Tail(at)]]
<1>1. \A c \in Chains, v \in Nat : Body(c, v) \in Nat
  <2> SUFFICES ASSUME NEW c \in Chains, NEW v \in Nat, c # <<>>
               PROVE  readable_size(Head(c)) + v \in Nat
    BY DEF End
  <2>1. Head(c) \in Slices /\ readable_size(Head(c)) \in Nat
    BY ChainParts, SliceFields
  <2>2. QED
    BY <2>1
<1>2. \A v : Body(<<>>, v) = 0
  BY DEF End
<1>3. \E f : Is(f)
  <2> HIDE DEF Body
  <2>1. Steps(step, Chains, Nat)
    BY <1>1 DEF Steps
  <2>2. \A c \in Chains, v \in Nat : step[<<c, v>>] = Body(c, v)
    OBVIOUS
  <2> HIDE DEF step
  <2>a. \E h : Recurses(h, Chains, Nat, 0, step)
    BY <2>1, ChainRecursion
  <2>3. PICK h \in [Chains -> Nat] : \A c \in Chains :
          h[c] = IF c = <<>> THEN 0 ELSE step[<<c, h[Tail(c)]>>]
    BY <2>a DEF Recurses
  <2>4. \A c \in Chains : h[c] = Body(c, h[Tail(c)])
    <3> SUFFICES ASSUME NEW c \in Chains PROVE h[c] = Body(c, h[Tail(c)])
      OBVIOUS
    <3>1. CASE c = <<>>
      BY <1>2, <2>3, <3>1
    <3>2. CASE c # <<>>
      <4>1. h[Tail(c)] \in Nat
        BY <2>3, <3>2, ChainParts
      <4>2. QED
        BY <2>2, <2>3, <3>2, <4>1
    <3>3. QED
      BY <3>1, <3>2
  <2>5. h = [c \in Chains |-> Body(c, h[Tail(c)])]
    BY <2>3, <2>4
  <2>6. Is(h)
    BY <2>5 DEF Body
  <2>7. QED
    BY <2>6
<1>4. Is(ToEnd)
  BY <1>3 DEF ToEnd
<1>5. \A at \in Chains :
        ToEnd[at] = IF at = <<>> THEN 0 ELSE readable_size(Head(at)) + ToEnd[Tail(at)]
  BY <1>4 DEF End
<1> DEFINE P == {c \in Chains : ToEnd[c] \in Nat}
<1>6. Chains \subseteq P
  <2>1. <<>> \in P
    BY <1>5, NoSlices
  <2>2. ASSUME NEW c \in Chains, c # <<>>, Tail(c) \in P PROVE c \in P
    <3>1. Head(c) \in Slices /\ readable_size(Head(c)) \in Nat
      BY <2>2, ChainParts, SliceFields
    <3>2. QED
      BY <1>5, <2>2, <3>1
  <2> HIDE DEF P
  <2>3. QED
    BY <2>1, <2>2, AllChains
<1>7. QED
  BY <1>5, <1>6, NoSlices

\* commit_consumed goes through the chain slice by slice, and leaves a chain.
LEMMA CommitConsumedIs ==
  /\ \A c \in Chains, n \in Nat : CommitConsumed[c][n] \in Chains
  /\ \A c \in Chains, n \in Nat :
       CommitConsumed[c][n] =
         IF n = 0 \/ c = <<>> THEN c
         ELSE IF readable_size(Head(c)) > n
              THEN <<advance_read(Head(c), n)>> \o Tail(c)
              ELSE CommitConsumed[Tail(c)][n - readable_size(Head(c))]
<1> DEFINE T == [Nat -> Chains]
           Value1(c, v, n) ==
             IF n = 0 \/ c = <<>> THEN c
             ELSE IF readable_size(Head(c)) > n
                  THEN <<advance_read(Head(c), n)>> \o Tail(c)
                  ELSE v[n - readable_size(Head(c))]
           Body(c, v) == [n \in Nat |-> Value1(c, v, n)]
           step == [x \in Chains \X T |-> Body(x[1], x[2])]
           base == [n \in Nat |-> <<>>]
           Is(f) == f = [c \in Chains |-> [n \in Nat |->
                           IF n = 0 \/ c = <<>> THEN c
                           ELSE IF readable_size(Head(c)) > n
                                THEN <<advance_read(Head(c), n)>> \o Tail(c)
                                ELSE f[Tail(c)][n - readable_size(Head(c))]]]
<1>1. \A c \in Chains, v \in T, n \in Nat : Value1(c, v, n) \in Chains
  <2> SUFFICES ASSUME NEW c \in Chains, NEW v \in T, NEW n \in Nat, n # 0, c # <<>>
               PROVE  Value1(c, v, n) \in Chains
    OBVIOUS
  <2>1. Head(c) \in Slices /\ Tail(c) \in Chains /\ readable_size(Head(c)) \in Nat
    BY ChainParts, SliceFields
  <2>2. CASE readable_size(Head(c)) > n
    <3>1. advance_read(Head(c), n) \in Slices
      BY <2>1, <2>2, AdvancedSlice
    <3>2. <<advance_read(Head(c), n)>> \o Tail(c) \in Chains
      BY <2>1, <3>1, SliceBefore
    <3>3. QED
      BY <2>2, <3>2
  <2>3. CASE ~(readable_size(Head(c)) > n)
    <3>1. n - readable_size(Head(c)) \in Nat
      BY <2>1, <2>3
    <3>2. v[n - readable_size(Head(c))] \in Chains
      BY <3>1
    <3>3. QED
      BY <2>3, <3>2
  <2>4. QED
    BY <2>2, <2>3
<1>2. \A v, n : Value1(<<>>, v, n) = <<>>
  OBVIOUS
<1>3. \E f : Is(f) /\ f \in [Chains -> T]
  <2> HIDE DEF Value1
  <2>1. base \in T /\ \A v : Body(<<>>, v) = base
    BY <1>2, NoSlices
  <2>2. \A c \in Chains, v \in T : Body(c, v) \in T
    BY <1>1
  <2> HIDE DEF Body, base, T
  <2>3. Steps(step, Chains, T)
    BY <2>2 DEF Steps
  <2>4. \A c \in Chains, v \in T : step[<<c, v>>] = Body(c, v)
    OBVIOUS
  <2> HIDE DEF step
  <2>a. \E h : Recurses(h, Chains, T, base, step)
    BY <2>1, <2>3, ChainRecursion
  <2>5. PICK h \in [Chains -> T] : \A c \in Chains :
          h[c] = IF c = <<>> THEN base ELSE step[<<c, h[Tail(c)]>>]
    BY <2>a DEF Recurses
  <2>6. \A c \in Chains : h[c] = Body(c, h[Tail(c)])
    <3> SUFFICES ASSUME NEW c \in Chains PROVE h[c] = Body(c, h[Tail(c)])
      OBVIOUS
    <3>1. CASE c = <<>>
      BY <2>1, <2>5, <3>1
    <3>2. CASE c # <<>>
      <4>1. h[Tail(c)] \in T
        BY <2>5, <3>2, ChainParts
      <4>2. QED
        BY <2>4, <2>5, <3>2, <4>1
    <3>3. QED
      BY <3>1, <3>2
  <2>7. h = [c \in Chains |-> Body(c, h[Tail(c)])]
    BY <2>5, <2>6
  <2>8. Is(h)
    BY <2>7, Zenon DEF Body, Value1
  <2> HIDE DEF Is
  <2>9. QED
    BY <2>5, <2>8
<1>4. Is(CommitConsumed)
  <2>1. \E f : Is(f)
    BY <1>3, Zenon
  <2>2. QED
    BY <2>1, Zenon DEF CommitConsumed
<1>5. \A c \in Chains, n \in Nat :
       CommitConsumed[c][n] = Value1(c, CommitConsumed[Tail(c)], n)
  <2>1. CommitConsumed = [c \in Chains |-> Body(c, CommitConsumed[Tail(c)])]
    BY <1>4
  <2> HIDE DEF Value1
  <2>2. QED
    BY <2>1
<1> DEFINE P == {c \in Chains : \A n \in Nat : CommitConsumed[c][n] \in Chains}
<1>6. Chains \subseteq P
  <2>1. <<>> \in P
    BY <1>2, <1>5, NoSlices
  <2>2. ASSUME NEW c \in Chains, c # <<>>, Tail(c) \in P PROVE c \in P
    <3> DEFINE v == [n \in Nat |-> CommitConsumed[Tail(c)][n]]
    <3>1. v \in T
      BY <2>2
    <3>2. \A n \in Nat : Value1(c, v, n) = Value1(c, CommitConsumed[Tail(c)], n)
      <4> SUFFICES ASSUME NEW n \in Nat, n # 0, ~(readable_size(Head(c)) > n)
                   PROVE  v[n - readable_size(Head(c))] = CommitConsumed[Tail(c)][n - readable_size(Head(c))]
        OBVIOUS
      <4>1. Head(c) \in Slices /\ readable_size(Head(c)) \in Nat
        BY <2>2, ChainParts, SliceFields
      <4>2. QED
        BY <4>1
    <3> HIDE DEF v, Value1
    <3>3. QED
      BY <1>1, <1>5, <2>2, <3>1, <3>2
  <2> HIDE DEF P
  <2>3. QED
    BY <2>1, <2>2, AllChains
<1>7. QED
  BY <1>5, <1>6

\* The iterator's `operator+=` goes through the chain slice by slice.
LEMMA AdvancedIs ==
  /\ \A c \in Chains, n \in Nat : Advanced[c][n] \in Chains
  /\ \A c \in Chains, n \in Nat :
       Advanced[c][n] =
         IF n = 0 \/ c = <<>> THEN c
         ELSE IF n <= Room(Head(c))
              THEN <<advance_read(Head(c), n)>> \o Tail(c)
              ELSE Advanced[Tail(c)][n - Room(Head(c)) - 1]
<1> DEFINE T == [Nat -> Chains]
           Value1(c, v, n) ==
             IF n = 0 \/ c = End THEN c
             ELSE IF n <= Room(Head(c))
                  THEN <<advance_read(Head(c), n)>> \o Tail(c)
                  ELSE v[n - Room(Head(c)) - 1]
           Body(c, v) == [n \in Nat |-> Value1(c, v, n)]
           step == [x \in Chains \X T |-> Body(x[1], x[2])]
           base == [n \in Nat |-> <<>>]
           Is(f) == f = [c \in Chains |-> [n \in Nat |->
                           IF n = 0 \/ c = End THEN c
                           ELSE IF n <= Room(Head(c))
                                THEN <<advance_read(Head(c), n)>> \o Tail(c)
                                ELSE f[Tail(c)][n - Room(Head(c)) - 1]]]
<1>1. \A c \in Chains, v \in T, n \in Nat : Value1(c, v, n) \in Chains
  <2> SUFFICES ASSUME NEW c \in Chains, NEW v \in T, NEW n \in Nat, n # 0, c # <<>>
               PROVE  Value1(c, v, n) \in Chains
    BY DEF End
  <2>1. /\ Head(c) \in Slices /\ Tail(c) \in Chains
        /\ Room(Head(c)) \in Nat /\ Room(Head(c)) <= readable_size(Head(c))
        /\ readable_size(Head(c)) \in Nat
    BY ChainParts, SliceFields DEF Room
  <2>2. CASE n <= Room(Head(c))
    <3>1. advance_read(Head(c), n) \in Slices
      BY <2>1, <2>2, AdvancedSlice
    <3>2. <<advance_read(Head(c), n)>> \o Tail(c) \in Chains
      BY <2>1, <3>1, SliceBefore
    <3>3. QED
      BY <2>2, <3>2
  <2>3. CASE ~(n <= Room(Head(c)))
    <3>1. n - Room(Head(c)) - 1 \in Nat
      BY <2>1, <2>3
    <3>2. v[n - Room(Head(c)) - 1] \in Chains
      BY <3>1
    <3>3. QED
      BY <2>3, <3>2
  <2>4. QED
    BY <2>2, <2>3
<1>2. \A v, n : Value1(<<>>, v, n) = <<>>
  BY DEF End
<1>3. \E f : Is(f) /\ f \in [Chains -> T]
  <2> HIDE DEF Value1
  <2>1. base \in T /\ \A v : Body(<<>>, v) = base
    BY <1>2, NoSlices
  <2>2. \A c \in Chains, v \in T : Body(c, v) \in T
    BY <1>1
  <2> HIDE DEF Body, base, T
  <2>3. Steps(step, Chains, T)
    BY <2>2 DEF Steps
  <2>4. \A c \in Chains, v \in T : step[<<c, v>>] = Body(c, v)
    OBVIOUS
  <2> HIDE DEF step
  <2>a. \E h : Recurses(h, Chains, T, base, step)
    BY <2>1, <2>3, ChainRecursion
  <2>5. PICK h \in [Chains -> T] : \A c \in Chains :
          h[c] = IF c = <<>> THEN base ELSE step[<<c, h[Tail(c)]>>]
    BY <2>a DEF Recurses
  <2>6. \A c \in Chains : h[c] = Body(c, h[Tail(c)])
    <3> SUFFICES ASSUME NEW c \in Chains PROVE h[c] = Body(c, h[Tail(c)])
      OBVIOUS
    <3>1. CASE c = <<>>
      BY <2>1, <2>5, <3>1
    <3>2. CASE c # <<>>
      <4>1. h[Tail(c)] \in T
        BY <2>5, <3>2, ChainParts
      <4>2. QED
        BY <2>4, <2>5, <3>2, <4>1
    <3>3. QED
      BY <3>1, <3>2
  <2>7. h = [c \in Chains |-> Body(c, h[Tail(c)])]
    BY <2>5, <2>6
  <2>8. Is(h)
    BY <2>7, Zenon DEF Body, Value1
  <2> HIDE DEF Is
  <2>9. QED
    BY <2>5, <2>8
<1>4. Is(Advanced) 
  <2>1. \E f : Is(f)
    BY <1>3, Zenon
  <2>2. QED
    BY <2>1, Zenon DEF Advanced
<1>5. \A c \in Chains, n \in Nat :
       Advanced[c][n] = Value1(c, Advanced[Tail(c)], n)
  <2>1. Advanced = [c \in Chains |-> Body(c, Advanced[Tail(c)])]
    BY <1>4
  <2> HIDE DEF Value1
  <2>2. QED
    BY <2>1
<1> DEFINE P == {c \in Chains : \A n \in Nat : Advanced[c][n] \in Chains}
<1>6. Chains \subseteq P
  <2>1. <<>> \in P
    BY <1>2, <1>5, NoSlices DEF End
  <2>2. ASSUME NEW c \in Chains, c # <<>>, Tail(c) \in P PROVE c \in P
    <3> DEFINE v == [n \in Nat |-> Advanced[Tail(c)][n]]
    <3>1. v \in T
      BY <2>2
    <3>2. \A n \in Nat : Value1(c, v, n) = Value1(c, Advanced[Tail(c)], n)
      <4> SUFFICES ASSUME NEW n \in Nat, n # 0, ~(n <= Room(Head(c)))
                   PROVE  v[n - Room(Head(c)) - 1] = Advanced[Tail(c)][n - Room(Head(c)) - 1]
        BY DEF End
      <4>1. Head(c) \in Slices /\ Room(Head(c)) \in Nat
        BY <2>2, ChainParts, SliceFields DEF Room
      <4>2. QED
        BY <4>1
    <3> HIDE DEF v, Value1
    <3>3. QED
      BY <1>1, <1>5, <2>2, <3>1, <3>2
  <2> HIDE DEF P
  <2>3. QED
    BY <2>1, <2>2, AllChains
<1>7. QED
  BY <1>5, <1>6 DEF End

\* How much of n bytes the first slice has.
Taken(c, n) == Min({readable_size(Head(c)), n})

\* How much of the first slice a piece of `n` bytes takes.
LEMMA TakenIs ==
  ASSUME NEW c \in Chains, c # <<>>, NEW n \in Nat
  PROVE  /\ Taken(c, n) \in Nat /\ Taken(c, n) <= n /\ Taken(c, n) <= readable_size(Head(c))
         /\ Taken(c, n) = IF readable_size(Head(c)) > n THEN n ELSE readable_size(Head(c))
         /\ n - Taken(c, n) \in Nat
<1>1. readable_size(Head(c)) \in Nat
  BY ChainParts, SliceFields
<1> DEFINE m == readable_size(Head(c))
<1> HIDE DEF m
<1>2. Taken(c, n) = IF m > n THEN n ELSE m
  BY <1>1 DEF Taken, Min, m
<1>3. QED
  BY <1>1, <1>2 DEF m

\* slice takes from slice after slice until it has `n` bytes.
LEMMA SlicedIs ==
  /\ \A c \in Chains, n \in Nat : Sliced[c][n] \in Chains
  /\ \A c \in Chains, n \in Nat :
       Sliced[c][n] =
         IF n = 0 \/ c = <<>> THEN <<>>
         ELSE <<CutSlice(Head(c), Taken(c, n))>> \o Sliced[Tail(c)][n - Taken(c, n)]
<1> DEFINE T == [Nat -> Chains]
           Value1(c, v, n) ==
             IF n = 0 \/ c = <<>> THEN <<>>
             ELSE <<CutSlice(Head(c), Taken(c, n))>> \o v[n - Taken(c, n)]
           Body(c, v) == [n \in Nat |-> Value1(c, v, n)]
           step == [x \in Chains \X T |-> Body(x[1], x[2])]
           base == [n \in Nat |-> <<>>]
           Is(f) == f = [c \in Chains |-> [n \in Nat |->
                      IF n = 0 \/ c = End THEN <<>>
                      ELSE LET s == Head(c)
                               length == Min({readable_size(s), n})
                           IN <<[s EXCEPT !.end = s.start + length]>> \o f[Tail(c)][n - length]]]
<1>1. \A c \in Chains, v \in T, n \in Nat : Value1(c, v, n) \in Chains
  <2> SUFFICES ASSUME NEW c \in Chains, NEW v \in T, NEW n \in Nat, n # 0, c # <<>>
               PROVE  Value1(c, v, n) \in Chains
    BY NoSlices
  <2>1. /\ CutSlice(Head(c), Taken(c, n)) \in Slices
        /\ n - Taken(c, n) \in Nat
    BY ChainParts, TakenIs, CutSliceFields
  <2>2. v[n - Taken(c, n)] \in Chains
    BY <2>1
  <2>3. QED
    BY <2>1, <2>2, SliceBefore
<1>2. \A v, n : Value1(<<>>, v, n) = <<>>
  OBVIOUS
<1>3. \E f : Is(f) /\ f \in [Chains -> T]
  <2> HIDE DEF Value1
  <2>1. base \in T /\ \A v : Body(<<>>, v) = base
    BY <1>2, NoSlices
  <2>2. \A c \in Chains, v \in T : Body(c, v) \in T
    BY <1>1
  <2> HIDE DEF Body, base, T
  <2>3. Steps(step, Chains, T)
    BY <2>2 DEF Steps
  <2>4. \A c \in Chains, v \in T : step[<<c, v>>] = Body(c, v)
    OBVIOUS
  <2> HIDE DEF step
  <2>a. \E h : Recurses(h, Chains, T, base, step)
    BY <2>1, <2>3, ChainRecursion
  <2>5. PICK h \in [Chains -> T] : \A c \in Chains :
          h[c] = IF c = <<>> THEN base ELSE step[<<c, h[Tail(c)]>>]
    BY <2>a DEF Recurses
  <2>6. \A c \in Chains : h[c] = Body(c, h[Tail(c)])
    <3> SUFFICES ASSUME NEW c \in Chains PROVE h[c] = Body(c, h[Tail(c)])
      OBVIOUS
    <3>1. CASE c = <<>>
      BY <2>1, <2>5, <3>1
    <3>2. CASE c # <<>>
      <4>1. h[Tail(c)] \in T
        BY <2>5, <3>2, ChainParts
      <4>2. QED
        BY <2>4, <2>5, <3>2, <4>1
    <3>3. QED
      BY <3>1, <3>2
  <2>7. h = [c \in Chains |-> Body(c, h[Tail(c)])]
    BY <2>5, <2>6
  <2>8. Is(h)
    BY <2>7, Zenon DEF Body, Value1, CutSlice, Taken, End
  <2> HIDE DEF Is
  <2>9. QED
    BY <2>5, <2>8
<1>4. Is(Sliced)
  <2>1. \E f : Is(f)
    BY <1>3, Zenon
  <2>2. QED
    BY <2>1, Zenon DEF Sliced
<1>5. \A c \in Chains, n \in Nat :
       Sliced[c][n] = Value1(c, Sliced[Tail(c)], n)
  <2>1. Sliced = [c \in Chains |-> Body(c, Sliced[Tail(c)])]
    BY <1>4, Zenon DEF CutSlice, Taken, End
  <2> HIDE DEF Value1
  <2>2. QED
    BY <2>1
<1> DEFINE P == {c \in Chains : \A n \in Nat : Sliced[c][n] \in Chains}
<1>6. Chains \subseteq P
  <2>1. <<>> \in P
    BY <1>2, <1>5, NoSlices
  <2>2. ASSUME NEW c \in Chains, c # <<>>, Tail(c) \in P PROVE c \in P
    <3> DEFINE v == [n \in Nat |-> Sliced[Tail(c)][n]]
    <3>1. v \in T
      BY <2>2
    <3>2. \A n \in Nat : Value1(c, v, n) = Value1(c, Sliced[Tail(c)], n)
      <4> SUFFICES ASSUME NEW n \in Nat, n # 0
                   PROVE  v[n - Taken(c, n)] = Sliced[Tail(c)][n - Taken(c, n)]
        OBVIOUS
      <4>1. n - Taken(c, n) \in Nat
        BY <2>2, TakenIs
      <4>2. QED
        BY <4>1
    <3> HIDE DEF v, Value1
    <3>3. QED
      BY <1>1, <1>5, <2>2, <3>1, <3>2
  <2> HIDE DEF P
  <2>3. QED
    BY <2>1, <2>2, AllChains
<1>7. QED
  BY <1>5, <1>6

----------------------------------------------------------------------------
(* The first n members of a sequence, and the others.                      *)

\* The first n members of a sequence, and the others.
Take(s, n) == SubSeq(s, 1, n)
Drop(s, n) == SubSeq(s, n + 1, Len(s))

\* The first `n` members of a sequence.
LEMMA TakeIs ==
  ASSUME NEW T, NEW s \in Seq(T), NEW n \in Nat, n <= Len(s)
  PROVE  /\ Take(s, n) \in Seq(T) /\ Len(Take(s, n)) = n
         /\ \A i \in 1 .. n : Take(s, n)[i] = s[i]
<1>1. Len(s) \in Nat /\ \A i \in 1 .. n : s[i] \in T
  BY LenProperties, ElementOfSeq
<1>2. /\ SubSeq(s, 1, n) \in Seq(T)
      /\ Len(SubSeq(s, 1, n)) = IF 1 <= n THEN n - 1 + 1 ELSE 0
      /\ \A i \in 1 .. n - 1 + 1 : SubSeq(s, 1, n)[i] = s[1 + i - 1]
  BY <1>1, SubSeqProperties
<1>3. QED
  BY <1>1, <1>2 DEF Take

\* A sequence without its first `n` members.
LEMMA DropIs ==
  ASSUME NEW T, NEW s \in Seq(T), NEW n \in Nat, n <= Len(s)
  PROVE  /\ Drop(s, n) \in Seq(T) /\ Len(Drop(s, n)) = Len(s) - n
         /\ \A i \in 1 .. Len(s) - n : Drop(s, n)[i] = s[n + i]
<1>1. Len(s) \in Nat /\ \A i \in n + 1 .. Len(s) : s[i] \in T
  BY LenProperties, ElementOfSeq
<1>2. /\ SubSeq(s, n + 1, Len(s)) \in Seq(T)
      /\ Len(SubSeq(s, n + 1, Len(s))) =
           IF n + 1 <= Len(s) THEN Len(s) - (n + 1) + 1 ELSE 0
      /\ \A i \in 1 .. Len(s) - (n + 1) + 1 :
           SubSeq(s, n + 1, Len(s))[i] = s[(n + 1) + i - 1]
  BY <1>1, SubSeqProperties
<1>3. \A i \in 1 .. Len(s) - n : (n + 1) + i - 1 = n + i
  BY <1>1
<1>4. QED
  BY <1>1, <1>2, <1>3 DEF Drop

\* Dropping from two sequences put together: from the first, then the second.
LEMMA DropConcat ==
  ASSUME NEW T, NEW a \in Seq(T), NEW b \in Seq(T), NEW n \in Nat
  PROVE  /\ n <= Len(a) => Drop(a \o b, n) = Drop(a, n) \o b
         /\ n >= Len(a) /\ n - Len(a) <= Len(b) => Drop(a \o b, n) = Drop(b, n - Len(a))
<1> DEFINE ab == a \o b
<1>1. /\ Len(a) \in Nat /\ Len(b) \in Nat /\ ab \in Seq(T)
      /\ Len(ab) = Len(a) + Len(b)
      /\ \A i \in 1 .. Len(a) + Len(b) :
           ab[i] = IF i <= Len(a) THEN a[i] ELSE b[i - Len(a)]
  BY ConcatProperties, LenProperties
<1> HIDE DEF ab
<1>a. ASSUME n <= Len(a) + Len(b)
      PROVE  /\ Drop(ab, n) \in Seq(T) /\ Len(Drop(ab, n)) = Len(a) + Len(b) - n
             /\ \A i \in 1 .. Len(a) + Len(b) - n : Drop(ab, n)[i] = ab[n + i]
  BY <1>1, <1>a, DropIs, SMTT(30)
<1>2. ASSUME n <= Len(a) PROVE Drop(ab, n) = Drop(a, n) \o b
  <2> DEFINE d == Drop(a, n)
  <2>1. /\ d \in Seq(T) /\ Len(d) = Len(a) - n
        /\ \A i \in 1 .. Len(a) - n : d[i] = a[n + i]
    BY <1>2, DropIs
  <2>2. n <= Len(a) + Len(b)
    BY <1>1, <1>2
  <2> HIDE DEF d
  <2>3. /\ d \o b \in Seq(T)
        /\ Len(d \o b) = Len(d) + Len(b)
        /\ \A i \in 1 .. Len(d) + Len(b) :
             (d \o b)[i] = IF i <= Len(d) THEN d[i] ELSE b[i - Len(d)]
    BY <2>1, ConcatProperties
  <2>4. ASSUME NEW i \in 1 .. Len(a) + Len(b) - n
        PROVE  Drop(ab, n)[i] = (d \o b)[i]
    <3>1. n + i \in 1 .. Len(a) + Len(b) /\ i \in 1 .. Len(d) + Len(b)
      BY <1>1, <1>2, <2>1
    <3>2. Drop(ab, n)[i] = IF n + i <= Len(a) THEN a[n + i] ELSE b[(n + i) - Len(a)]
      BY <1>1, <1>a, <2>2, <3>1
    <3>3. (d \o b)[i] = IF i <= Len(a) - n THEN a[n + i] ELSE b[i - (Len(a) - n)]
      BY <1>1, <2>1, <2>3, <3>1, SMTT(30)
    <3>4. (n + i) - Len(a) = i - (Len(a) - n) /\ (n + i <= Len(a) <=> i <= Len(a) - n)
      BY <1>1
    <3>5. QED
      BY <3>2, <3>3, <3>4
  <2>5. Len(Drop(ab, n)) = Len(d \o b)
    BY <1>1, <1>a, <2>1, <2>2, <2>3
  <2>6. Drop(ab, n) = d \o b
    BY <1>1, <1>a, <2>2, <2>3, <2>4, <2>5, SeqEqual
  <2>7. QED
    BY <2>6 DEF d
<1>3. ASSUME n >= Len(a), n - Len(a) <= Len(b) PROVE Drop(ab, n) = Drop(b, n - Len(a))
  <2>1. n <= Len(a) + Len(b) /\ n - Len(a) \in Nat
    BY <1>1, <1>3
  <2>3. PICK k \in Nat : k = n - Len(a)
    BY <2>1
  <2>4. /\ Drop(b, k) \in Seq(T) /\ Len(Drop(b, k)) = Len(b) - k
        /\ \A i \in 1 .. Len(b) - k : Drop(b, k)[i] = b[k + i]
    BY <1>3, <2>3, DropIs
  <2>5. ASSUME NEW i \in 1 .. Len(a) + Len(b) - n
        PROVE  Drop(ab, n)[i] = Drop(b, k)[i]
    <3>1. /\ n + i \in 1 .. Len(a) + Len(b) /\ ~(n + i <= Len(a))
          /\ (n + i) - Len(a) = k + i /\ i \in 1 .. Len(b) - k
      BY <1>1, <1>3, <2>3
    <3>2. QED
      BY <1>1, <1>a, <2>1, <2>4, <3>1
  <2>6. Len(Drop(ab, n)) = Len(Drop(b, k))
    BY <1>1, <1>a, <2>1, <2>3, <2>4
  <2>7. QED
    BY <1>1, <1>a, <2>1, <2>3, <2>4, <2>5, <2>6, SeqEqual
<1>4. QED
  BY <1>2, <1>3 DEF ab

\* Taking from two sequences put together: from the first, then the second.
LEMMA TakeConcat ==
  ASSUME NEW T, NEW a \in Seq(T), NEW b \in Seq(T), NEW n \in Nat, n <= Len(a) + Len(b)
  PROVE  /\ n <= Len(a) => Take(a \o b, n) = Take(a, n)
         /\ n >= Len(a) => Take(a \o b, n) = a \o Take(b, n - Len(a))
<1>1. /\ Len(a) \in Nat /\ Len(b) \in Nat /\ a \o b \in Seq(T)
      /\ Len(a \o b) = Len(a) + Len(b)
      /\ \A i \in 1 .. Len(a) + Len(b) :
           (a \o b)[i] = IF i <= Len(a) THEN a[i] ELSE b[i - Len(a)]
  BY ConcatProperties, LenProperties
<1>2. /\ Take(a \o b, n) \in Seq(T) /\ Len(Take(a \o b, n)) = n
      /\ \A i \in 1 .. n : Take(a \o b, n)[i] = (a \o b)[i]
  BY <1>1, TakeIs
<1>3. ASSUME n <= Len(a) PROVE Take(a \o b, n) = Take(a, n)
  <2>1. /\ Take(a, n) \in Seq(T) /\ Len(Take(a, n)) = n
        /\ \A i \in 1 .. n : Take(a, n)[i] = a[i]
    BY <1>3, TakeIs
  <2>2. \A i \in 1 .. n : Take(a \o b, n)[i] = Take(a, n)[i]
    BY <1>1, <1>2, <1>3, <2>1, SMTT(30)
  <2>3. QED
    BY <1>2, <2>1, <2>2, SeqEqual
<1>4. ASSUME n >= Len(a) PROVE Take(a \o b, n) = a \o Take(b, n - Len(a))
  <2>1. PICK k \in Nat : k = n - Len(a) /\ k <= Len(b) /\ n = Len(a) + k
    BY <1>1, <1>4
  <2>2. /\ Take(b, k) \in Seq(T) /\ Len(Take(b, k)) = k
        /\ \A i \in 1 .. k : Take(b, k)[i] = b[i]
    BY <2>1, TakeIs
  <2>3. /\ a \o Take(b, k) \in Seq(T) /\ Len(a \o Take(b, k)) = Len(a) + k
        /\ \A i \in 1 .. Len(a) + k :
             (a \o Take(b, k))[i] = IF i <= Len(a) THEN a[i] ELSE Take(b, k)[i - Len(a)]
    BY <2>2, ConcatProperties
  <2>4. ASSUME NEW i \in 1 .. n PROVE Take(a \o b, n)[i] = (a \o Take(b, k))[i]
    <3>1. i \in 1 .. Len(a) + k /\ i \in 1 .. Len(a) + Len(b)
      BY <1>1, <2>1
    <3>2. ~(i <= Len(a)) => i - Len(a) \in 1 .. k
      BY <1>1, <3>1
    <3>3. Take(a \o b, n)[i] = IF i <= Len(a) THEN a[i] ELSE b[i - Len(a)]
      BY <1>1, <1>2, <3>1
    <3>4. (a \o Take(b, k))[i] = IF i <= Len(a) THEN a[i] ELSE b[i - Len(a)]
      BY <2>2, <2>3, <3>1, <3>2
    <3>5. QED
      BY <3>3, <3>4
  <2>5. Take(a \o b, n) = a \o Take(b, k)
    BY <1>2, <2>1, <2>3, <2>4, SeqEqual
  <2>6. QED
    BY <2>1, <2>5
<1>5. QED
  BY <1>3, <1>4

\* Taking and dropping none and all.
LEMMA TakeDropEnds ==
  ASSUME NEW T, NEW s \in Seq(T)
  PROVE  /\ Take(s, 0) = <<>> /\ Take(s, Len(s)) = s
         /\ Drop(s, 0) = s /\ Drop(s, Len(s)) = <<>>
<1>1. Len(s) \in Nat
  BY LenProperties
<1>2. Len(s) + 1 > Len(s) /\ 0 + 1 = 1
  BY <1>1
<1>3. QED
  BY <1>1, <1>2, SubSeqFull, SubSeqEmpty DEF Take, Drop

----------------------------------------------------------------------------
(* What the functions of Buffer do to the bytes of a chain.                *)

\* The bytes of a slice are the cells of its raw from `start` to `end`.
LEMMA RowIs ==
  ASSUME NEW mem \in Memories, NEW s \in Slices
  PROVE  /\ Row(mem, s) \in Seq(Nat) /\ Len(Row(mem, s)) = readable_size(s)
         /\ \A i \in 1 .. readable_size(s) : Row(mem, s)[i] = mem[s.raw][s.start + i]
<1>1. /\ s.raw \in Raws /\ s.start \in Nat /\ s.end \in Nat
      /\ s.start <= s.end /\ s.end <= ChunkSize /\ ChunkSize \in Nat
      /\ readable_size(s) = s.end - s.start
  BY SliceFields
<1>2. mem[s.raw] \in [1 .. ChunkSize -> Nat]
  BY <1>1 DEF Memories, Cells
<1>3. \A i \in s.start + 1 .. s.end : mem[s.raw][i] \in Nat
  BY <1>1, <1>2, SMTT(30)
<1>4. /\ SubSeq(mem[s.raw], s.start + 1, s.end) \in Seq(Nat)
      /\ Len(SubSeq(mem[s.raw], s.start + 1, s.end)) =
           IF s.start + 1 <= s.end THEN s.end - (s.start + 1) + 1 ELSE 0
      /\ \A i \in 1 .. s.end - (s.start + 1) + 1 :
           SubSeq(mem[s.raw], s.start + 1, s.end)[i] = mem[s.raw][(s.start + 1) + i - 1]
  BY <1>1, <1>3, SubSeqProperties
<1>5. \A i \in 1 .. s.end - s.start : (s.start + 1) + i - 1 = s.start + i
  BY <1>1
<1>6. QED
  BY <1>1, <1>4, <1>5 DEF Row

\* advance_read drops bytes from the front of a slice.
LEMMA RowAdvanced ==
  ASSUME NEW mem \in Memories, NEW s \in Slices, NEW n \in Nat, n <= readable_size(s)
  PROVE  Row(mem, advance_read(s, n)) = Drop(Row(mem, s), n)
<1> DEFINE a == advance_read(s, n)
           row == Row(mem, s)
<1>1. /\ a \in Slices /\ a.raw = s.raw /\ a.start = s.start + n /\ a.end = s.end
      /\ s.start \in Nat /\ readable_size(s) \in Nat /\ readable_size(a) = readable_size(s) - n
  BY AdvancedSlice, SliceFields
<1>2. /\ Row(mem, a) \in Seq(Nat) /\ Len(Row(mem, a)) = readable_size(s) - n
      /\ \A i \in 1 .. readable_size(s) - n : Row(mem, a)[i] = mem[s.raw][(s.start + n) + i]
  BY <1>1, RowIs
<1>3. /\ row \in Seq(Nat) /\ Len(row) = readable_size(s)
      /\ \A i \in 1 .. readable_size(s) : row[i] = mem[s.raw][s.start + i]
  BY RowIs
<1> HIDE DEF a, row
<1>b. row \in Seq(Nat) /\ n <= Len(row) /\ Len(row) - n = readable_size(s) - n
  BY <1>3
<1>c. /\ Drop(row, n) \in Seq(Nat) /\ Len(Drop(row, n)) = Len(row) - n
      /\ \A i \in 1 .. Len(row) - n : Drop(row, n)[i] = row[n + i]
  BY <1>b, DropIs
<1>4. /\ Drop(row, n) \in Seq(Nat)
      /\ Len(Drop(row, n)) = readable_size(s) - n
      /\ \A i \in 1 .. readable_size(s) - n : Drop(row, n)[i] = row[n + i]
  BY <1>b, <1>c
<1>5. ASSUME NEW i \in 1 .. readable_size(s) - n
      PROVE  Row(mem, a)[i] = Drop(row, n)[i]
  <2>1. n + i \in 1 .. readable_size(s) /\ s.start + (n + i) = (s.start + n) + i
    BY <1>1
  <2>2. QED
    BY <1>2, <1>3, <1>4, <2>1
<1>6. Row(mem, a) = Drop(row, n)
  BY <1>2, <1>4, <1>5, SeqEqual
<1>7. QED
  BY <1>6 DEF a, row

\* A cut slice holds the first bytes of the slice.
LEMMA RowCut ==
  ASSUME NEW mem \in Memories, NEW s \in Slices, NEW n \in Nat, n <= readable_size(s)
  PROVE  Row(mem, CutSlice(s, n)) = Take(Row(mem, s), n)
<1> DEFINE a == CutSlice(s, n)
<1>1. /\ a \in Slices /\ a.raw = s.raw /\ a.start = s.start /\ a.end = s.start + n
      /\ s.start \in Nat /\ readable_size(s) \in Nat /\ readable_size(a) = n
  BY CutSliceFields, SliceFields
<1>2. /\ Row(mem, a) \in Seq(Nat) /\ Len(Row(mem, a)) = n
      /\ \A i \in 1 .. n : Row(mem, a)[i] = mem[s.raw][s.start + i]
  BY <1>1, RowIs
<1>3. /\ Row(mem, s) \in Seq(Nat) /\ Len(Row(mem, s)) = readable_size(s)
      /\ \A i \in 1 .. readable_size(s) : Row(mem, s)[i] = mem[s.raw][s.start + i]
  BY RowIs
<1>4. /\ Take(Row(mem, s), n) \in Seq(Nat)
      /\ Len(Take(Row(mem, s), n)) = n
      /\ \A i \in 1 .. n : Take(Row(mem, s), n)[i] = Row(mem, s)[i]
  BY <1>3, TakeIs
<1> HIDE DEF a
<1>5. ASSUME NEW i \in 1 .. n
      PROVE  Row(mem, a)[i] = Take(Row(mem, s), n)[i]
  <2>1. i \in 1 .. readable_size(s)
    BY <1>1
  <2>2. QED
    BY <1>2, <1>3, <1>4, <2>1
<1>6. Row(mem, a) = Take(Row(mem, s), n)
  BY <1>2, <1>4, <1>5, SeqEqual
<1>7. QED
  BY <1>6 DEF a

\* The bytes of each slice.
Rows(mem, c) == [i \in DOMAIN c |-> Row(mem, c[i])]

\* A chain has a row of bytes for each of its slices.
LEMMA RowsIs ==
  ASSUME NEW mem \in Memories, NEW c \in Chains
  PROVE  Rows(mem, c) \in Seq(Seq(Nat)) /\ Len(Rows(mem, c)) = Len(c)
<1>1. /\ Len(c) \in Nat /\ DOMAIN c = 1 .. Len(c)
      /\ \A i \in 1 .. Len(c) : c[i] \in Slices
  BY LenProperties, ElementOfSeq DEF Chains
<1>2. \A i \in 1 .. Len(c) : Row(mem, c[i]) \in Seq(Nat)
  BY <1>1, RowIs
<1>3. Rows(mem, c) \in [1 .. Len(c) -> Seq(Nat)]
  BY <1>1, <1>2 DEF Rows
<1>4. QED
  BY <1>1, <1>3, SeqDef

\* The content of two chains put together.
LEMMA ContentConcat ==
  ASSUME NEW mem \in Memories, NEW a \in Chains, NEW b \in Chains
  PROVE  /\ Content(mem, a) \in Seq(Nat)
         /\ a \o b \in Chains
         /\ Content(mem, a \o b) = Content(mem, a) \o Content(mem, b)
<1> DEFINE ab == a \o b
           ra == Rows(mem, a)
           rb == Rows(mem, b)
           rab == Rows(mem, ab)
<1>1. /\ ra \in Seq(Seq(Nat)) /\ Len(ra) = Len(a)
      /\ rb \in Seq(Seq(Nat)) /\ Len(rb) = Len(b)
  BY RowsIs
<1>2. /\ ab \in Chains /\ Len(ab) = Len(a) + Len(b)
      /\ \A i \in 1 .. Len(a) + Len(b) :
           ab[i] = IF i <= Len(a) THEN a[i] ELSE b[i - Len(a)]
      /\ Len(a) \in Nat /\ Len(b) \in Nat
      /\ DOMAIN a = 1 .. Len(a) /\ DOMAIN b = 1 .. Len(b)
      /\ DOMAIN ab = 1 .. Len(ab)
  BY ConcatProperties, LenProperties DEF Chains
<1> HIDE DEF ab
<1>3. rab \in Seq(Seq(Nat)) /\ Len(rab) = Len(a) + Len(b)
  BY <1>2, RowsIs
<1>a. /\ \A i \in 1 .. Len(a) : ra[i] = Row(mem, a[i])
      /\ \A i \in 1 .. Len(b) : rb[i] = Row(mem, b[i])
      /\ \A i \in 1 .. Len(a) + Len(b) : rab[i] = Row(mem, ab[i])
  BY <1>2 DEF Rows
<1> HIDE DEF ra, rb, rab
<1>4. /\ ra \o rb \in Seq(Seq(Nat))
      /\ Len(ra \o rb) = Len(ra) + Len(rb)
      /\ \A i \in 1 .. Len(ra) + Len(rb) :
           (ra \o rb)[i] = IF i <= Len(ra) THEN ra[i] ELSE rb[i - Len(ra)]
  BY <1>1, ConcatProperties
<1>5. ASSUME NEW i \in 1 .. Len(a) + Len(b)
      PROVE  rab[i] = (ra \o rb)[i]
  <2>1. (ra \o rb)[i] = IF i <= Len(a) THEN ra[i] ELSE rb[i - Len(a)]
    BY <1>1, <1>4
  <2>2. rab[i] = Row(mem, ab[i]) /\ ab[i] = IF i <= Len(a) THEN a[i] ELSE b[i - Len(a)]
    BY <1>2, <1>a
  <2>3. CASE i <= Len(a)
    <3>1. i \in 1 .. Len(a)
      BY <1>2, <2>3
    <3>2. QED
      BY <1>a, <2>1, <2>2, <2>3, <3>1
  <2>4. CASE ~(i <= Len(a))
    <3>1. i - Len(a) \in 1 .. Len(b)
      BY <1>2, <2>4
    <3>2. QED
      BY <1>a, <2>1, <2>2, <2>4, <3>1
  <2>5. QED
    BY <2>3, <2>4
<1>6. rab = ra \o rb
  BY <1>1, <1>3, <1>4, <1>5, SeqEqual
<1>7. /\ FlattenSeq(ra) \in Seq(Nat)
      /\ FlattenSeq(ra \o rb) = FlattenSeq(ra) \o FlattenSeq(rb)
  BY <1>1, FlattenFirst, FlattenConcat
<1>8. /\ Content(mem, a) = FlattenSeq(ra) /\ Content(mem, b) = FlattenSeq(rb)
      /\ Content(mem, ab) = FlattenSeq(rab)
  BY DEF Content, Rows, ra, rb, rab
<1>9. /\ Content(mem, a) \in Seq(Nat) /\ ab \in Chains
      /\ Content(mem, ab) = Content(mem, a) \o Content(mem, b)
  BY <1>2, <1>6, <1>7, <1>8, Zenon
<1>10. QED
  BY <1>9 DEF ab

\* The empty chain holds nothing.
LEMMA ContentOfNone == ASSUME NEW mem PROVE Content(mem, <<>>) = <<>>
<1>1. [i \in DOMAIN <<>> |-> Row(mem, <<>>[i])] = <<>>
  OBVIOUS
<1>2. QED
  BY <1>1, FlattenEmpty DEF Content

\* A chain of one slice holds the bytes of the slice.
LEMMA ContentOfOne ==
  ASSUME NEW mem \in Memories, NEW s \in Slices
  PROVE  <<s>> \in Chains /\ Content(mem, <<s>>) = Row(mem, s)
<1>1. <<s>> \in Chains
  BY DEF Chains
<1>2. [i \in DOMAIN <<s>> |-> Row(mem, <<s>>[i])] = <<Row(mem, s)>>
  OBVIOUS
<1>3. FlattenSeq(<<Row(mem, s)>>) = Row(mem, s)
  BY RowIs, FlattenOne
<1>4. QED
  BY <1>1, <1>2, <1>3 DEF Content

\* The content of a slice in front of a chain.
LEMMA ContentBefore ==
  ASSUME NEW mem \in Memories, NEW s \in Slices, NEW c \in Chains
  PROVE  Content(mem, <<s>> \o c) = Row(mem, s) \o Content(mem, c)
<1>1. <<s>> \in Chains /\ Content(mem, <<s>>) = Row(mem, s)
  BY ContentOfOne
<1>2. Content(mem, <<s>> \o c) = Content(mem, <<s>>) \o Content(mem, c)
  BY <1>1, ContentConcat
<1>3. QED
  BY <1>1, <1>2

\* The content of a chain is its first slice's and the others'.
LEMMA ContentParts ==
  ASSUME NEW mem \in Memories, NEW c \in Chains, c # <<>>
  PROVE  /\ Content(mem, c) = Row(mem, Head(c)) \o Content(mem, Tail(c))
         /\ Row(mem, Head(c)) \in Seq(Nat) /\ Content(mem, Tail(c)) \in Seq(Nat)
<1>1. Head(c) \in Slices /\ Tail(c) \in Chains /\ c = <<Head(c)>> \o Tail(c)
  BY ChainParts, ChainSplit
<1>2. Content(mem, <<Head(c)>> \o Tail(c)) = Row(mem, Head(c)) \o Content(mem, Tail(c))
  BY <1>1, ContentBefore
<1>3. QED
  BY <1>1, <1>2, RowIs, ContentConcat

\* A chain holds as many bytes as it is long from its start to its end.
LEMMA ContentLength ==
  ASSUME NEW mem \in Memories, NEW c \in Chains
  PROVE  /\ Content(mem, c) \in Seq(Nat)
         /\ Len(Content(mem, c)) = ToEnd[c] /\ ToEnd[c] \in Nat
<1> DEFINE P == {d \in Chains : Len(Content(mem, d)) = ToEnd[d]}
<1>1. <<>> \in P
  BY NoSlices, ContentOfNone, ToEndIs
<1>2. ASSUME NEW d \in Chains, d # <<>>, Tail(d) \in P PROVE d \in P
  <2> DEFINE row == Row(mem, Head(d))
             rest == Content(mem, Tail(d))
  <2>1. Content(mem, d) = row \o rest /\ row \in Seq(Nat) /\ rest \in Seq(Nat)
    BY <1>2, ContentParts
  <2>2. Len(row) = readable_size(Head(d)) /\ Len(rest) = ToEnd[Tail(d)]
    BY <1>2, ChainParts, RowIs
  <2> HIDE DEF row, rest
  <2>a. Len(row \o rest) = Len(row) + Len(rest)
    BY <2>1, ConcatProperties
  <2>3. Len(Content(mem, d)) = readable_size(Head(d)) + ToEnd[Tail(d)]
    BY <2>1, <2>2, <2>a
  <2>4. QED
    BY <1>2, <2>3, ToEndIs
<1>3. Chains \subseteq P
  <2> HIDE DEF P
  <2>1. QED
    BY <1>1, <1>2, AllChains
<1>4. QED
  BY <1>3, ContentConcat, ToEndIs

----------------------------------------------------------------------------
(* The shape of a chain.                                                   *)

\* Every slice has bytes.
Unread(c) == \A i \in DOMAIN c : c[i].start < c[i].end

\* No two slices are in one raw.
Distinct(c) == \A i, j \in DOMAIN c : c[i].raw = c[j].raw => i = j

\* Where the slices end.
Ends(c) == {<<c[i].raw, c[i].end>> : i \in DOMAIN c}

\* Where a slice of a ends, one of c in the same raw ends, or behind it.
Under(a, c) == \A x \in Ends(a) : \E y \in Ends(c) : x[1] = y[1] /\ x[2] <= y[2]

\* No slice is empty: of a chain with a slice in front.
LEMMA UnreadBefore ==
  ASSUME NEW s \in Slices, NEW c \in Chains
  PROVE  Unread(<<s>> \o c) <=> s.start < s.end /\ Unread(c)
<1> DEFINE sc == <<s>> \o c
<1>1. /\ Len(sc) = Len(c) + 1 /\ sc[1] = s /\ \A i \in 1 .. Len(c) : sc[i + 1] = c[i]
      /\ sc \in Chains
  BY SliceBefore
<1>2. Len(c) \in Nat /\ DOMAIN c = 1 .. Len(c) /\ DOMAIN sc = 1 .. Len(sc)
  BY <1>1, LenProperties DEF Chains
<1> HIDE DEF sc
<1>3. ASSUME s.start < s.end, Unread(c), NEW i \in 1 .. Len(sc) PROVE sc[i].start < sc[i].end
  <2>1. CASE i = 1
    BY <1>1, <1>3, <2>1
  <2>2. CASE i # 1
    <3>1. PICK j \in 1 .. Len(c) : i = j + 1
      <4>1. i - 1 \in 1 .. Len(c) /\ i = (i - 1) + 1
        BY <1>1, <1>2, <2>2
      <4>2. QED
        BY <4>1
    <3>2. QED
      BY <1>1, <1>2, <1>3, <3>1 DEF Unread
  <2>3. QED
    BY <2>1, <2>2
<1>4. ASSUME Unread(sc) PROVE s.start < s.end /\ Unread(c)
  <2>1. 1 \in DOMAIN sc /\ \A i \in DOMAIN c : i + 1 \in DOMAIN sc
    BY <1>1, <1>2
  <2>2. QED
    BY <1>1, <1>2, <1>4, <2>1 DEF Unread
<1>5. Unread(sc) <=> s.start < s.end /\ Unread(c)
  BY <1>2, <1>3, <1>4 DEF Unread
<1>6. QED
  BY <1>5 DEF sc

\* The ends of a chain with a slice in front.
LEMMA EndsBefore ==
  ASSUME NEW s \in Slices, NEW c \in Chains
  PROVE  Ends(<<s>> \o c) = {<<s.raw, s.end>>} \union Ends(c)
<1> DEFINE sc == <<s>> \o c
<1>1. /\ Len(sc) = Len(c) + 1 /\ sc[1] = s /\ \A i \in 1 .. Len(c) : sc[i + 1] = c[i]
      /\ sc \in Chains
  BY SliceBefore
<1>2. Len(c) \in Nat /\ DOMAIN c = 1 .. Len(c) /\ DOMAIN sc = 1 .. Len(sc)
  BY <1>1, LenProperties DEF Chains
<1> HIDE DEF sc
<1>3. ASSUME NEW x \in Ends(sc) PROVE x \in {<<s.raw, s.end>>} \union Ends(c)
  <2>1. PICK i \in 1 .. Len(sc) : x = <<sc[i].raw, sc[i].end>>
    BY <1>2 DEF Ends
  <2>2. CASE i = 1
    BY <1>1, <2>1, <2>2
  <2>3. CASE i # 1
    <3>1. i - 1 \in 1 .. Len(c) /\ i = (i - 1) + 1
      BY <1>1, <1>2, <2>3
    <3>2. PICK j \in 1 .. Len(c) : i = j + 1
      BY <3>1
    <3>3. QED
      BY <1>1, <1>2, <2>1, <3>2 DEF Ends
  <2>4. QED
    BY <2>2, <2>3
<1>4. ASSUME NEW x \in Ends(c) PROVE x \in Ends(sc)
  <2>1. PICK i \in 1 .. Len(c) : x = <<c[i].raw, c[i].end>>
    BY <1>2 DEF Ends
  <2>2. i + 1 \in DOMAIN sc /\ sc[i + 1] = c[i]
    BY <1>1, <1>2
  <2>3. QED
    BY <2>1, <2>2 DEF Ends
<1>5. <<s.raw, s.end>> \in Ends(sc)
  <2>1. 1 \in DOMAIN sc
    BY <1>1, <1>2
  <2>2. QED
    BY <1>1, <2>1 DEF Ends
<1>6. Ends(sc) = {<<s.raw, s.end>>} \union Ends(c)
  BY <1>3, <1>4, <1>5
<1>7. QED
  BY <1>6 DEF sc

\* A chain with a slice in front has no raw twice.
LEMMA DistinctBefore ==
  ASSUME NEW s \in Slices, NEW c \in Chains
  PROVE  Distinct(<<s>> \o c) <=> Distinct(c) /\ \A x \in Ends(c) : x[1] # s.raw
<1> DEFINE sc == <<s>> \o c
<1>1. /\ Len(sc) = Len(c) + 1 /\ sc[1] = s /\ \A i \in 1 .. Len(c) : sc[i + 1] = c[i]
      /\ sc \in Chains
  BY SliceBefore
<1>2. Len(c) \in Nat /\ DOMAIN c = 1 .. Len(c) /\ DOMAIN sc = 1 .. Len(sc)
  BY <1>1, LenProperties DEF Chains
<1> HIDE DEF sc
<1>3. ASSUME Distinct(sc) PROVE Distinct(c) /\ \A x \in Ends(c) : x[1] # s.raw
  <2>1. ASSUME NEW i \in DOMAIN c, NEW j \in DOMAIN c, c[i].raw = c[j].raw PROVE i = j
    <3>1. i + 1 \in DOMAIN sc /\ j + 1 \in DOMAIN sc /\ sc[i + 1].raw = sc[j + 1].raw
      BY <1>1, <1>2, <2>1
    <3>2. i + 1 = j + 1
      BY <1>3, <3>1 DEF Distinct
    <3>3. QED
      BY <1>2, <3>2
  <2>2. ASSUME NEW x \in Ends(c) PROVE x[1] # s.raw
    <3>1. PICK i \in DOMAIN c : x = <<c[i].raw, c[i].end>>
      BY DEF Ends
    <3>2. 1 \in DOMAIN sc /\ i + 1 \in DOMAIN sc /\ sc[i + 1] = c[i] /\ i + 1 # 1
      BY <1>1, <1>2
    <3>3. c[i].raw # s.raw
      BY <1>1, <1>3, <3>2 DEF Distinct
    <3>4. QED
      BY <3>1, <3>3
  <2>3. QED
    BY <2>1, <2>2 DEF Distinct
<1>4. ASSUME Distinct(c), \A x \in Ends(c) : x[1] # s.raw PROVE Distinct(sc)
  <2>1. ASSUME NEW i \in DOMAIN c PROVE c[i].raw # s.raw
    <3>1. <<c[i].raw, c[i].end>> \in Ends(c)
      BY DEF Ends
    <3>2. <<c[i].raw, c[i].end>>[1] # s.raw
      BY <1>4, <3>1
    <3>3. QED
      BY <3>2
  <2>2. SUFFICES ASSUME NEW i \in DOMAIN sc, NEW j \in DOMAIN sc, sc[i].raw = sc[j].raw
                 PROVE  i = j
    BY DEF Distinct
  <2>3. \A k \in DOMAIN sc : k = 1 \/ (k - 1 \in DOMAIN c /\ sc[k] = c[k - 1])
    <3> SUFFICES ASSUME NEW k \in DOMAIN sc, k # 1
                 PROVE  k - 1 \in DOMAIN c /\ sc[k] = c[k - 1]
      OBVIOUS
    <3>1. k - 1 \in 1 .. Len(c) /\ k = (k - 1) + 1
      BY <1>1, <1>2
    <3>2. PICK m \in 1 .. Len(c) : k = m + 1 /\ m = k - 1
      BY <3>1
    <3>3. QED
      BY <1>1, <1>2, <3>2
  <2>4. CASE i = 1 \/ j = 1
    BY <1>1, <2>1, <2>2, <2>3, <2>4
  <2>5. CASE i # 1 /\ j # 1
    <3>1. i - 1 = j - 1
      BY <1>4, <2>2, <2>3, <2>5 DEF Distinct
    <3>2. QED
      BY <1>2, <3>1
  <2>6. QED
    BY <2>4, <2>5
<1>5. Distinct(sc) <=> Distinct(c) /\ \A x \in Ends(c) : x[1] # s.raw
  BY <1>3, <1>4
<1>6. QED
  BY <1>5 DEF sc

\* a is what is left of the chain c behind its first n bytes.
Rest(mem, a, c, n) ==
  /\ a \in Chains
  /\ Content(mem, a) = Drop(Content(mem, c), n)
  /\ Unread(a)
  /\ Ends(a) \subseteq Ends(c)
  /\ Distinct(c) => Distinct(a)

\* The rest of a chain none of which is read is the chain.
LEMMA RestOfAll ==
  ASSUME NEW mem \in Memories, NEW c \in Chains, Unread(c)
  PROVE  Rest(mem, c, c, 0)
BY ContentConcat, TakeDropEnds DEF Rest

\* Reading less than the first slice leaves a part of it and the others.
LEMMA RestInHead ==
  ASSUME NEW mem \in Memories, NEW c \in Chains, c # <<>>, Unread(c),
         NEW n \in Nat, n < readable_size(Head(c))
  PROVE  Rest(mem, <<advance_read(Head(c), n)>> \o Tail(c), c, n)
<1> DEFINE s == Head(c)
           t == Tail(c)
           a == advance_read(s, n)
           row == Row(mem, s)
           rest == Content(mem, t)
<1>1. s \in Slices /\ t \in Chains /\ c = <<s>> \o t
  BY ChainParts, ChainSplit
<1>2. /\ a \in Slices /\ a.raw = s.raw /\ a.start = s.start + n /\ a.end = s.end
      /\ s.start \in Nat /\ s.end \in Nat /\ readable_size(s) = s.end - s.start
  BY <1>1, AdvancedSlice, SliceFields, SMTT(30)
<1>3. /\ Row(mem, a) = Drop(row, n) /\ row \in Seq(Nat) /\ Len(row) = readable_size(s)
      /\ rest \in Seq(Nat)
  BY <1>1, <1>2, RowAdvanced, RowIs, ContentConcat
<1>4. /\ Content(mem, c) = row \o rest
      /\ Content(mem, <<a>> \o t) = Row(mem, a) \o rest
  <2> HIDE DEF s, t, a
  <2>1. QED
    BY <1>1, <1>2, ContentBefore
<1>5. Drop(row \o rest, n) = Drop(row, n) \o rest
  <2>1. n <= Len(row)
    BY <1>2, <1>3
  <2> HIDE DEF s, t, a, row, rest
  <2>2. QED
    BY <1>3, <2>1, DropConcat
<1> HIDE DEF s, t, a, row, rest
<1>6. a.start < a.end /\ Unread(t)
  <2>1. Unread(t)
    BY <1>1, UnreadBefore
  <2>2. QED
    BY <1>2, <2>1 DEF s
<1>7. /\ <<a>> \o t \in Chains /\ Unread(<<a>> \o t)
      /\ Ends(<<a>> \o t) = Ends(c)
      /\ Distinct(c) => Distinct(<<a>> \o t)
  <2>1. <<a>> \o t \in Chains /\ Unread(<<a>> \o t)
    BY <1>1, <1>2, <1>6, SliceBefore, UnreadBefore
  <2>2. Ends(<<a>> \o t) = {<<a.raw, a.end>>} \union Ends(t)
    BY <1>1, <1>2, EndsBefore
  <2>3. Ends(c) = {<<s.raw, s.end>>} \union Ends(t)
    BY <1>1, EndsBefore
  <2>4. Distinct(c) => Distinct(t) /\ \A x \in Ends(t) : x[1] # s.raw
    BY <1>1, DistinctBefore
  <2>5. Distinct(c) => Distinct(<<a>> \o t)
    BY <1>1, <1>2, <2>4, DistinctBefore
  <2>6. QED
    BY <1>2, <2>1, <2>2, <2>3, <2>5
<1>8. Content(mem, <<a>> \o t) = Drop(Content(mem, c), n)
  BY <1>3, <1>4, <1>5
<1>9. Rest(mem, <<a>> \o t, c, n)
  BY <1>7, <1>8 DEF Rest
<1>10. QED
  BY <1>9 DEF s, t, a

\* Reading the first slice and some leaves a rest of the others.
LEMMA RestBehindHead ==
  ASSUME NEW mem \in Memories, NEW c \in Chains, c # <<>>, Unread(c),
         NEW n \in Nat, n >= readable_size(Head(c)), n <= ToEnd[c],
         NEW a, Rest(mem, a, Tail(c), n - readable_size(Head(c)))
  PROVE  Rest(mem, a, c, n)
<1> DEFINE s == Head(c)
           t == Tail(c)
           row == Row(mem, s)
           rest == Content(mem, t)
<1>1. s \in Slices /\ t \in Chains /\ c = <<s>> \o t
  BY ChainParts, ChainSplit
<1>2. /\ Content(mem, c) = row \o rest
      /\ row \in Seq(Nat) /\ rest \in Seq(Nat) /\ Len(row) = readable_size(s)
      /\ readable_size(s) \in Nat
  BY <1>1, ContentParts, RowIs, SliceFields
<1>3. Len(rest) = ToEnd[t] /\ ToEnd[t] \in Nat /\ ToEnd[c] = readable_size(s) + ToEnd[t]
  BY <1>1, ContentLength, ToEndIs
<1>a. n >= readable_size(s) /\ n <= ToEnd[c]
  OBVIOUS
<1>4. n >= Len(row) /\ n - Len(row) <= Len(rest) /\ n - Len(row) = n - readable_size(s)
  <2> HIDE DEF s, t, row, rest
  <2>1. QED
    BY <1>2, <1>3, <1>a
<1>5. Drop(row \o rest, n) = Drop(rest, n - readable_size(s))
  <2> HIDE DEF s, t, row, rest
  <2>1. Drop(row \o rest, n) = Drop(rest, n - Len(row))
    BY <1>2, <1>4, DropConcat
  <2>2. QED
    BY <1>4, <2>1
<1> HIDE DEF s, t, row
<1>6. Ends(t) \subseteq Ends(c) /\ (Distinct(c) => Distinct(t))
  BY <1>1, EndsBefore, DistinctBefore
<1>7. Rest(mem, a, t, n - readable_size(s))
  BY DEF s, t
<1>8. Content(mem, a) = Drop(Content(mem, c), n)
  BY <1>2, <1>5, <1>7 DEF Rest
<1>9. QED
  BY <1>6, <1>7, <1>8 DEF Rest

\* What is behind the first slice of an unread chain is unread too.
LEMMA UnreadParts ==
  ASSUME NEW c \in Chains, c # <<>>, Unread(c)
  PROVE  /\ Unread(Tail(c)) /\ readable_size(Head(c)) \in Nat \ {0}
         /\ ToEnd[Tail(c)] \in Nat /\ ToEnd[c] = readable_size(Head(c)) + ToEnd[Tail(c)]
<1> DEFINE s == Head(c)
           t == Tail(c)
<1>1. s \in Slices /\ t \in Chains /\ c = <<s>> \o t
  BY ChainParts, ChainSplit
<1>2. ToEnd[t] \in Nat /\ ToEnd[c] = readable_size(s) + ToEnd[t]
  BY <1>1, ToEndIs
<1> HIDE DEF s, t
<1>3. Unread(t) /\ s.start < s.end
  BY <1>1, UnreadBefore
<1>4. readable_size(s) \in Nat \ {0}
  BY <1>1, <1>3, SliceFields
<1>5. QED
  BY <1>2, <1>3, <1>4 DEF s, t

\* An unread chain has no byte exactly when it has no slice.
LEMMA NothingToEnd ==
  ASSUME NEW c \in Chains, Unread(c)
  PROVE  ToEnd[c] = 0 <=> c = <<>>
<1>1. c # <<>> => ToEnd[c] # 0
  <2> SUFFICES ASSUME c # <<>> PROVE ToEnd[c] # 0
    OBVIOUS
  <2>1. /\ readable_size(Head(c)) \in Nat \ {0} /\ ToEnd[Tail(c)] \in Nat
        /\ ToEnd[c] = readable_size(Head(c)) + ToEnd[Tail(c)]
    BY UnreadParts
  <2>2. QED
    BY <2>1
<1>2. QED
  BY <1>1, ToEndIs

\* `operator++` of the iterator goes one byte on, to the next slice if need be.
LEMMA IncrementedRest ==
  ASSUME NEW mem \in Memories, NEW c \in Chains, c # <<>>, Unread(c)
  PROVE  Rest(mem, Incremented(c), c, 1)
<1>1. /\ Unread(Tail(c)) /\ readable_size(Head(c)) \in Nat \ {0}
      /\ ToEnd[Tail(c)] \in Nat /\ ToEnd[c] = readable_size(Head(c)) + ToEnd[Tail(c)]
  BY UnreadParts
<1>2. CASE readable_size(Head(c)) = 1
  <2>1. Rest(mem, Tail(c), Tail(c), 0)
    BY <1>1, ChainParts, RestOfAll
  <2>2. 1 >= readable_size(Head(c)) /\ 1 - readable_size(Head(c)) = 0 /\ 1 <= ToEnd[c]
    BY <1>1, <1>2
  <2>3. Rest(mem, Tail(c), c, 1)
    BY <2>1, <2>2, RestBehindHead
  <2>4. QED
    BY <1>2, <2>3 DEF Incremented
<1>3. CASE readable_size(Head(c)) # 1
  <2>1. 1 < readable_size(Head(c))
    BY <1>1, <1>3
  <2>2. Rest(mem, <<advance_read(Head(c), 1)>> \o Tail(c), c, 1)
    BY <2>1, RestInHead
  <2>3. QED
    BY <1>3, <2>2 DEF Incremented
<1>4. QED
  BY <1>2, <1>3

\* `operator+=` of the iterator goes `n` bytes on.
LEMMA AdvancedRest ==
  ASSUME NEW mem \in Memories, NEW c \in Chains, Unread(c), NEW n \in Nat, n <= ToEnd[c]
  PROVE  Rest(mem, Advanced[c][n], c, n)
<1> DEFINE P == {d \in Chains : Unread(d) =>
                   \A m \in Nat : m <= ToEnd[d] => Rest(mem, Advanced[d][m], d, m)}
<1>1. <<>> \in P
  <2>1. ASSUME NEW m \in Nat, m <= ToEnd[<<>>], Unread(<<>>)
        PROVE  Rest(mem, Advanced[<<>>][m], <<>>, m)
    <3>1. m = 0
      <4>1. ToEnd[<<>>] = 0
        BY NoSlices, ToEndIs
      <4>2. QED
        BY <2>1, <4>1
    <3>2. Advanced[<<>>][0] = <<>>
      BY NoSlices, AdvancedIs
    <3>3. QED
      BY <2>1, <3>1, <3>2, NoSlices, RestOfAll
  <2>2. QED
    BY <2>1, NoSlices
<1>2. ASSUME NEW d \in Chains, d # <<>>, Tail(d) \in P PROVE d \in P
  <2> SUFFICES ASSUME Unread(d), NEW m \in Nat, m <= ToEnd[d]
               PROVE  Rest(mem, Advanced[d][m], d, m)
    BY <1>2
  <2>1. /\ Unread(Tail(d)) /\ readable_size(Head(d)) \in Nat \ {0} /\ Tail(d) \in Chains
        /\ ToEnd[Tail(d)] \in Nat /\ ToEnd[d] = readable_size(Head(d)) + ToEnd[Tail(d)]
    BY <1>2, UnreadParts, ChainParts
  <2>2. Room(Head(d)) = readable_size(Head(d)) - 1
    BY <2>1 DEF Room
  <2>3. CASE m = 0
    <3>1. Advanced[d][0] = d
      BY <1>2, AdvancedIs
    <3>2. Rest(mem, d, d, 0)
      BY <1>2, RestOfAll
    <3>3. QED
      BY <2>3, <3>1, <3>2
  <2>4. CASE m # 0 /\ m <= Room(Head(d))
    <3>1. Advanced[d][m] = <<advance_read(Head(d), m)>> \o Tail(d)
      BY <1>2, <2>4, AdvancedIs
    <3>2. m < readable_size(Head(d))
      BY <2>1, <2>2, <2>4
    <3>3. QED
      BY <1>2, <3>1, <3>2, RestInHead
  <2>5. CASE m # 0 /\ ~(m <= Room(Head(d)))
    <3>1. PICK k \in Nat : /\ k = m - readable_size(Head(d))
                           /\ k = m - Room(Head(d)) - 1
                           /\ k <= ToEnd[Tail(d)] /\ m >= readable_size(Head(d))
      BY <2>1, <2>2, <2>5
    <3>2. Advanced[d][m] = Advanced[Tail(d)][k]
      <4>1. Advanced[d][m] = Advanced[Tail(d)][m - Room(Head(d)) - 1]
        BY <1>2, <2>5, AdvancedIs, Zenon
      <4>2. QED
        BY <3>1, <4>1
    <3>3. Rest(mem, Advanced[Tail(d)][k], Tail(d), k)
      BY <1>2, <2>1, <3>1
    <3>4. QED
      BY <1>2, <3>1, <3>2, <3>3, RestBehindHead
  <2>6. QED
    BY <2>3, <2>4, <2>5
<1>3. Chains \subseteq P
  <2> HIDE DEF P
  <2>1. QED
    BY <1>1, <1>2, AllChains
<1>4. QED
  BY <1>3

\* commit_consumed leaves the bytes behind the first `n`.
LEMMA CommittedRest ==
  ASSUME NEW mem \in Memories, NEW c \in Chains, Unread(c), NEW n \in Nat, n <= ToEnd[c]
  PROVE  Rest(mem, CommitConsumed[c][n], c, n)
<1> DEFINE P == {d \in Chains : Unread(d) =>
                   \A m \in Nat : m <= ToEnd[d] => Rest(mem, CommitConsumed[d][m], d, m)}
<1>1. <<>> \in P
  <2>1. ASSUME NEW m \in Nat, m <= ToEnd[<<>>], Unread(<<>>)
        PROVE  Rest(mem, CommitConsumed[<<>>][m], <<>>, m)
    <3>1. m = 0
      <4>1. ToEnd[<<>>] = 0
        BY NoSlices, ToEndIs
      <4>2. QED
        BY <2>1, <4>1
    <3>2. CommitConsumed[<<>>][0] = <<>>
      BY NoSlices, CommitConsumedIs
    <3>3. QED
      BY <2>1, <3>1, <3>2, NoSlices, RestOfAll
  <2>2. QED
    BY <2>1, NoSlices
<1>2. ASSUME NEW d \in Chains, d # <<>>, Tail(d) \in P PROVE d \in P
  <2> SUFFICES ASSUME Unread(d), NEW m \in Nat, m <= ToEnd[d]
               PROVE  Rest(mem, CommitConsumed[d][m], d, m)
    BY <1>2
  <2>1. /\ Unread(Tail(d)) /\ readable_size(Head(d)) \in Nat \ {0} /\ Tail(d) \in Chains
        /\ ToEnd[Tail(d)] \in Nat /\ ToEnd[d] = readable_size(Head(d)) + ToEnd[Tail(d)]
    BY <1>2, UnreadParts, ChainParts
  <2>2. CASE m = 0
    BY <2>2, <1>2, CommitConsumedIs, RestOfAll
  <2>3. CASE m # 0 /\ readable_size(Head(d)) > m
    <3>1. CommitConsumed[d][m] = <<advance_read(Head(d), m)>> \o Tail(d)
      BY <1>2, <2>3, CommitConsumedIs
    <3>2. m < readable_size(Head(d))
      BY <2>1, <2>3
    <3>3. QED
      BY <1>2, <3>1, <3>2, RestInHead
  <2>4. CASE m # 0 /\ ~(readable_size(Head(d)) > m)
    <3>1. PICK k \in Nat : /\ k = m - readable_size(Head(d))
                           /\ k <= ToEnd[Tail(d)] /\ m >= readable_size(Head(d))
      BY <2>1, <2>4
    <3>2. CommitConsumed[d][m] = CommitConsumed[Tail(d)][k]
      BY <1>2, <2>4, <3>1, CommitConsumedIs
    <3>3. Rest(mem, CommitConsumed[Tail(d)][k], Tail(d), k)
      BY <1>2, <2>1, <3>1
    <3>4. QED
      BY <1>2, <3>1, <3>2, <3>3, RestBehindHead
  <2>5. QED
    BY <2>2, <2>3, <2>4
<1>3. Chains \subseteq P
  <2> HIDE DEF P
  <2>1. QED
    BY <1>1, <1>2, AllChains
<1>4. QED
  BY <1>3

\* A piece of a chain, in the same memory.
Piece(mem, a, c, n) ==
  a \in Chains /\ Content(mem, a) = Take(Content(mem, c), n) /\ Under(a, c)

\* The empty chain is the piece of no bytes.
LEMMA PieceOfNone ==
  ASSUME NEW mem \in Memories, NEW c \in Chains
  PROVE  Piece(mem, <<>>, c, 0)
<1>1. Take(Content(mem, c), 0) = <<>>
  BY ContentConcat, TakeDropEnds
<1>2. Ends(<<>>) = {}
  BY DEF Ends
<1>3. QED
  BY <1>1, <1>2, NoSlices, ContentOfNone DEF Piece, Under

\* A piece of the first slice and a piece of the others make a piece.
LEMMA PieceOfHead ==
  ASSUME NEW mem \in Memories, NEW c \in Chains, c # <<>>,
         NEW n \in Nat, n <= ToEnd[c],
         NEW a, Piece(mem, a, Tail(c), n - Taken(c, n))
  PROVE  Piece(mem, <<CutSlice(Head(c), Taken(c, n))>> \o a, c, n)
<1> DEFINE s == Head(c)
           t == Tail(c)
           k == Taken(c, n)
           cut == CutSlice(s, k)
           row == Row(mem, s)
           rest == Content(mem, t)
<1>1. s \in Slices /\ t \in Chains /\ c = <<s>> \o t
  BY ChainParts, ChainSplit
<1>2. /\ k \in Nat /\ k <= n /\ k <= readable_size(s)
      /\ k = IF readable_size(s) > n THEN n ELSE readable_size(s)
      /\ n - k \in Nat
  BY TakenIs
<1>3. /\ cut \in Slices /\ cut.raw = s.raw /\ cut.end = s.start + k
      /\ Row(mem, cut) = Take(row, k)
      /\ row \in Seq(Nat) /\ Len(row) = readable_size(s) /\ rest \in Seq(Nat)
      /\ Len(rest) = ToEnd[t] /\ ToEnd[t] \in Nat /\ ToEnd[c] = readable_size(s) + ToEnd[t]
      /\ Content(mem, c) = row \o rest
      /\ readable_size(s) \in Nat /\ s.start + k <= s.end
  <2>1. readable_size(s) \in Nat /\ readable_size(s) = s.end - s.start
        /\ s.start \in Nat /\ s.end \in Nat
    BY <1>1, SliceFields
  <2>2. s.start + k <= s.end
    BY <1>2, <2>1
  <2>3. cut \in Slices /\ cut.raw = s.raw /\ cut.end = s.start + k
    BY <1>1, <1>2, CutSliceFields
  <2>4. Row(mem, cut) = Take(row, k)
    BY <1>1, <1>2, RowCut
  <2>5. row \in Seq(Nat) /\ Len(row) = readable_size(s)
    BY <1>1, RowIs
  <2>6. rest \in Seq(Nat) /\ Len(rest) = ToEnd[t]
    BY <1>1, ContentLength, ContentConcat
  <2>7. ToEnd[t] \in Nat /\ ToEnd[c] = readable_size(s) + ToEnd[t]
    BY <1>1, ToEndIs
  <2>8. Content(mem, c) = row \o rest
    BY ContentParts
  <2> HIDE DEF s, t, k, cut, row, rest
  <2>9. QED
    BY <2>1, <2>2, <2>3, <2>4, <2>5, <2>6, <2>7, <2>8
<1>4. a \in Chains /\ Content(mem, a) = Take(rest, n - k) /\ Under(a, t)
  BY DEF Piece
<1> HIDE DEF s, t, k, cut, row, rest
<1>5. <<cut>> \o a \in Chains /\ Content(mem, <<cut>> \o a) = Take(row, k) \o Take(rest, n - k)
  <2>1. Content(mem, <<cut>> \o a) = Row(mem, cut) \o Content(mem, a)
    BY <1>3, <1>4, ContentBefore
  <2>2. <<cut>> \o a \in Chains
    BY <1>3, <1>4, SliceBefore
  <2>3. QED
    BY <1>3, <1>4, <2>1, <2>2
<1>6. Take(row, k) \o Take(rest, n - k) = Take(row \o rest, n)
  <2>a. n <= Len(row) + Len(rest)
    BY <1>3
  <2>1. CASE readable_size(s) > n
    <3>1. k = n /\ n - k = 0 /\ n <= Len(row)
      BY <1>2, <1>3, <2>1
    <3>2. Take(row, n) \in Seq(Nat) /\ Take(row \o rest, n) = Take(row, n)
      BY <1>3, <2>a, <3>1, TakeIs, TakeConcat
    <3>3. Take(rest, 0) = <<>> /\ Take(row, n) \o <<>> = Take(row, n)
      BY <1>3, <3>2, TakeDropEnds, ConcatEmptySeq
    <3>4. QED
      BY <3>1, <3>2, <3>3
  <2>2. CASE ~(readable_size(s) > n)
    <3>1. k = Len(row) /\ n - k = n - Len(row) /\ n >= Len(row)
      BY <1>2, <1>3, <2>2
    <3>2. Take(row \o rest, n) = row \o Take(rest, n - Len(row))
      BY <1>3, <2>a, <3>1, TakeConcat
    <3>3. Take(row, Len(row)) = row
      BY <1>3, TakeDropEnds
    <3>4. QED
      BY <3>1, <3>2, <3>3
  <2>3. QED
    BY <2>1, <2>2
<1>7. Under(<<cut>> \o a, c)
  <2>1. /\ Ends(<<cut>> \o a) = {<<cut.raw, cut.end>>} \union Ends(a)
        /\ Ends(c) = {<<s.raw, s.end>>} \union Ends(t)
    BY <1>1, <1>3, <1>4, EndsBefore
  <2>2. ASSUME NEW x \in Ends(<<cut>> \o a)
        PROVE  \E y \in Ends(c) : x[1] = y[1] /\ x[2] <= y[2]
    <3>1. CASE x = <<cut.raw, cut.end>>
      <4>1. <<s.raw, s.end>> \in Ends(c) /\ x[1] = <<s.raw, s.end>>[1] /\ x[2] <= <<s.raw, s.end>>[2]
        BY <1>3, <2>1, <3>1
      <4>2. QED
        BY <4>1
    <3>2. CASE x \in Ends(a)
      BY <1>4, <2>1, <3>2 DEF Under
    <3>3. QED
      BY <2>1, <2>2, <3>1, <3>2
  <2>3. QED
    BY <2>2 DEF Under
<1>8. Piece(mem, <<cut>> \o a, c, n)
  BY <1>3, <1>5, <1>6, <1>7 DEF Piece
<1>9. QED
  BY <1>8 DEF cut, s, k

\* slice gives the first `n` bytes, in the memory they are in.
LEMMA SlicedPiece ==
  ASSUME NEW mem \in Memories, NEW c \in Chains, NEW n \in Nat, n <= ToEnd[c]
  PROVE  Piece(mem, Sliced[c][n], c, n)
<1> DEFINE P == {d \in Chains :
                   \A m \in Nat : m <= ToEnd[d] => Piece(mem, Sliced[d][m], d, m)}
<1>1. <<>> \in P
  <2>1. ASSUME NEW m \in Nat, m <= ToEnd[<<>>] PROVE Piece(mem, Sliced[<<>>][m], <<>>, m)
    <3>1. m = 0
      <4>1. ToEnd[<<>>] = 0
        BY NoSlices, ToEndIs
      <4>2. QED
        BY <2>1, <4>1
    <3>2. Sliced[<<>>][0] = <<>>
      BY NoSlices, SlicedIs
    <3>3. QED
      BY <3>1, <3>2, NoSlices, PieceOfNone
  <2>2. QED
    BY <2>1, NoSlices
<1>2. ASSUME NEW d \in Chains, d # <<>>, Tail(d) \in P PROVE d \in P
  <2> SUFFICES ASSUME NEW m \in Nat, m <= ToEnd[d] PROVE Piece(mem, Sliced[d][m], d, m)
    BY <1>2
  <2>1. CASE m = 0
    BY <2>1, <1>2, SlicedIs, PieceOfNone
  <2>2. CASE m # 0
    <3>1. PICK k \in Nat : k = m - Taken(d, m) /\ k <= ToEnd[Tail(d)]
      <4>1. /\ Taken(d, m) \in Nat /\ m - Taken(d, m) \in Nat
            /\ Taken(d, m) = IF readable_size(Head(d)) > m THEN m ELSE readable_size(Head(d))
        BY <1>2, TakenIs
      <4>2. /\ ToEnd[Tail(d)] \in Nat /\ ToEnd[d] = readable_size(Head(d)) + ToEnd[Tail(d)]
            /\ readable_size(Head(d)) \in Nat
        BY <1>2, ChainParts, SliceFields, ToEndIs
      <4>3. m - Taken(d, m) <= ToEnd[Tail(d)]
        BY <4>1, <4>2
      <4>4. QED
        BY <4>1, <4>3
    <3>2. Sliced[d][m] = <<CutSlice(Head(d), Taken(d, m))>> \o Sliced[Tail(d)][k]
      BY <1>2, <2>2, <3>1, SlicedIs
    <3>3. Piece(mem, Sliced[Tail(d)][k], Tail(d), k)
      BY <1>2, <3>1
    <3>4. QED
      BY <1>2, <3>1, <3>2, <3>3, PieceOfHead
  <2>3. QED
    BY <2>1, <2>2
<1>3. Chains \subseteq P
  <2> HIDE DEF P
  <2>1. QED
    BY <1>1, <1>2, AllChains
<1>4. QED
  BY <1>3

\* A rest is shorter by what was read.
LEMMA ToEndOfRest ==
  ASSUME NEW mem \in Memories, NEW c \in Chains, NEW n \in Nat, n <= ToEnd[c],
         NEW a, Rest(mem, a, c, n)
  PROVE  /\ Len(Content(mem, c)) = ToEnd[c] /\ ToEnd[c] \in Nat
         /\ Len(Content(mem, a)) = ToEnd[a] /\ ToEnd[a] \in Nat
         /\ ToEnd[a] = ToEnd[c] - n
<1>1. Len(Content(mem, c)) = ToEnd[c] /\ ToEnd[c] \in Nat /\ Content(mem, c) \in Seq(Nat)
  BY ContentLength, ContentConcat, ToEndIs
<1>2. a \in Chains /\ Content(mem, a) = Drop(Content(mem, c), n)
  BY DEF Rest
<1>3. Len(Content(mem, a)) = ToEnd[a] /\ ToEnd[a] \in Nat
  BY <1>2, ContentLength, ToEndIs
<1>4. Len(Drop(Content(mem, c), n)) = Len(Content(mem, c)) - n
  <2> DEFINE w == Content(mem, c)
  <2>1. w \in Seq(Nat) /\ n <= Len(w)
    BY <1>1
  <2> HIDE DEF w
  <2>2. Len(Drop(w, n)) = Len(w) - n
    BY <2>1, DropIs
  <2>3. QED
    BY <2>2 DEF w
<1>5. QED
  BY <1>1, <1>2, <1>3, <1>4

----------------------------------------------------------------------------
(* Sequences of consecutive numbers.                                       *)

\* The numbers of the bytes behind the first `a`, up to `b`.
Counted(a, b) == [i \in 1 .. b - a |-> a + i]

\* The numbers behind `a` up to `b`, one after the other.
LEMMA CountedIs ==
  ASSUME NEW a \in Nat, NEW b \in Nat, a <= b
  PROVE  /\ Counted(a, b) \in Seq(Nat) /\ Len(Counted(a, b)) = b - a
         /\ \A i \in 1 .. b - a : Counted(a, b)[i] = a + i
<1>1. b - a \in Nat
  OBVIOUS
<1>2. PICK k \in Nat : k = b - a
  BY <1>1
<1>3. Counted(a, b) = [i \in 1 .. k |-> a + i]
  BY <1>2 DEF Counted
<1>4. \A i \in 1 .. k : a + i \in Nat
  OBVIOUS
<1>5. [i \in 1 .. k |-> a + i] \in Seq(Nat) /\ Len([i \in 1 .. k |-> a + i]) = k
  BY <1>4
<1>6. QED
  BY <1>2, <1>3, <1>5

\* Dropping the first of consecutive numbers.
LEMMA DropCounted ==
  ASSUME NEW a \in Nat, NEW b \in Nat, NEW n \in Nat, a + n <= b
  PROVE  Drop(Counted(a, b), n) = Counted(a + n, b)
<1> DEFINE s == Counted(a, b)
           t == Counted(a + n, b)
<1>1. /\ s \in Seq(Nat) /\ Len(s) = b - a
      /\ \A i \in 1 .. b - a : s[i] = a + i
  BY CountedIs
<1>2. /\ t \in Seq(Nat) /\ Len(t) = b - (a + n)
      /\ \A i \in 1 .. b - (a + n) : t[i] = a + n + i
  <2>1. a + n \in Nat
    OBVIOUS
  <2>2. QED
    BY <2>1, CountedIs
<1> HIDE DEF s, t
<1>3. n <= Len(s)
  BY <1>1
<1>4. /\ Drop(s, n) \in Seq(Nat) /\ Len(Drop(s, n)) = Len(s) - n
      /\ \A i \in 1 .. Len(s) - n : Drop(s, n)[i] = s[n + i]
  BY <1>1, <1>3, DropIs
<1>5. Len(Drop(s, n)) = Len(t)
  BY <1>1, <1>2, <1>4
<1>6. ASSUME NEW i \in 1 .. Len(t) PROVE Drop(s, n)[i] = t[i]
  <2>1. i \in 1 .. Len(s) - n /\ n + i \in 1 .. b - a /\ i \in 1 .. b - (a + n)
    BY <1>1, <1>2
  <2>2. QED
    BY <1>1, <1>2, <1>4, <2>1
<1>7. Drop(s, n) = t
  BY <1>2, <1>4, <1>5, <1>6, SeqEqual
<1>8. QED
  BY <1>7 DEF s, t

\* Taking the first of consecutive numbers.
LEMMA TakeCounted ==
  ASSUME NEW a \in Nat, NEW b \in Nat, NEW n \in Nat, a + n <= b
  PROVE  Take(Counted(a, b), n) = Counted(a, a + n)
<1> DEFINE s == Counted(a, b)
           t == Counted(a, a + n)
<1>1. /\ s \in Seq(Nat) /\ Len(s) = b - a
      /\ \A i \in 1 .. b - a : s[i] = a + i
  BY CountedIs
<1>2. /\ t \in Seq(Nat) /\ Len(t) = n
      /\ \A i \in 1 .. n : t[i] = a + i
  <2>1. a + n \in Nat /\ a <= a + n /\ (a + n) - a = n
    OBVIOUS
  <2>2. QED
    BY <2>1, CountedIs
<1> HIDE DEF s, t
<1>3. n <= Len(s)
  BY <1>1
<1>4. /\ Take(s, n) \in Seq(Nat) /\ Len(Take(s, n)) = n
      /\ \A i \in 1 .. n : Take(s, n)[i] = s[i]
  BY <1>1, <1>3, TakeIs
<1>5. ASSUME NEW i \in 1 .. n PROVE Take(s, n)[i] = t[i]
  <2>1. i \in 1 .. b - a
    BY <1>1, <1>3
  <2>2. QED
    BY <1>1, <1>2, <1>4, <2>1
<1>6. Take(s, n) = t
  BY <1>2, <1>4, <1>5, SeqEqual
<1>7. QED
  BY <1>6 DEF s, t

\* Consecutive numbers put together.
LEMMA CountedConcat ==
  ASSUME NEW a \in Nat, NEW b \in Nat, NEW c \in Nat, a <= b, b <= c
  PROVE  Counted(a, b) \o Counted(b, c) = Counted(a, c)
<1> DEFINE s == Counted(a, b)
           t == Counted(b, c)
           u == Counted(a, c)
<1>1. /\ s \in Seq(Nat) /\ Len(s) = b - a /\ \A i \in 1 .. b - a : s[i] = a + i
      /\ t \in Seq(Nat) /\ Len(t) = c - b /\ \A i \in 1 .. c - b : t[i] = b + i
      /\ u \in Seq(Nat) /\ Len(u) = c - a /\ \A i \in 1 .. c - a : u[i] = a + i
  <2>1. s \in Seq(Nat) /\ Len(s) = b - a /\ \A i \in 1 .. b - a : s[i] = a + i
    BY CountedIs
  <2>2. t \in Seq(Nat) /\ Len(t) = c - b /\ \A i \in 1 .. c - b : t[i] = b + i
    BY CountedIs
  <2>3. a <= c
    OBVIOUS
  <2>4. u \in Seq(Nat) /\ Len(u) = c - a /\ \A i \in 1 .. c - a : u[i] = a + i
    BY <2>3, CountedIs
  <2>5. QED
    BY <2>1, <2>2, <2>4
<1> HIDE DEF s, t, u
<1>2. /\ s \o t \in Seq(Nat) /\ Len(s \o t) = Len(s) + Len(t)
      /\ \A i \in 1 .. Len(s) + Len(t) :
           (s \o t)[i] = IF i <= Len(s) THEN s[i] ELSE t[i - Len(s)]
  BY <1>1, ConcatProperties
<1>3. Len(s) + Len(t) = Len(u)
  BY <1>1
<1>4. ASSUME NEW i \in 1 .. Len(u) PROVE (s \o t)[i] = u[i]
  <2>1. (s \o t)[i] = IF i <= Len(s) THEN s[i] ELSE t[i - Len(s)]
    BY <1>2, <1>3
  <2>2. CASE i <= Len(s)
    <3>1. i \in 1 .. b - a /\ i \in 1 .. c - a
      BY <1>1, <2>2
    <3>2. QED
      BY <1>1, <2>1, <2>2, <3>1
  <2>3. CASE ~(i <= Len(s))
    <3>1. PICK j \in 1 .. c - b : j = i - Len(s)
      BY <1>1, <2>3
    <3>2. i \in 1 .. c - a /\ b + j = a + i
      BY <1>1, <3>1
    <3>3. t[j] = b + j /\ u[i] = a + i
      BY <1>1, <3>1, <3>2
    <3>4. (s \o t)[i] = t[j]
      BY <2>1, <2>3, <3>1
    <3>5. QED
      BY <3>2, <3>3, <3>4
  <2>4. QED
    BY <2>2, <2>3
<1>5. s \o t = u
  BY <1>1, <1>2, <1>3, <1>4, SeqEqual
<1>6. QED
  BY <1>5 DEF s, t, u

\* Dropping twice.
LEMMA DropDrop ==
  ASSUME NEW T, NEW s \in Seq(T), NEW m \in Nat, NEW n \in Nat, m + n <= Len(s)
  PROVE  Drop(Drop(s, m), n) = Drop(s, m + n)
<1> DEFINE d == Drop(s, m)
<1>1. Len(s) \in Nat /\ m <= Len(s)
  BY LenProperties
<1>2. /\ d \in Seq(T) /\ Len(d) = Len(s) - m
      /\ \A i \in 1 .. Len(s) - m : d[i] = s[m + i]
  BY <1>1, DropIs
<1> HIDE DEF d
<1>3. n <= Len(d) /\ m + n \in Nat /\ Len(d) - n = Len(s) - (m + n)
  BY <1>1, <1>2
<1>4. /\ Drop(d, n) \in Seq(T) /\ Len(Drop(d, n)) = Len(d) - n
      /\ \A i \in 1 .. Len(d) - n : Drop(d, n)[i] = d[n + i]
  BY <1>2, <1>3, DropIs
<1> DEFINE k == m + n
<1>5. k \in Nat /\ k <= Len(s) /\ k = m + n
  BY <1>3
<1> HIDE DEF k
<1>6. /\ Drop(s, k) \in Seq(T) /\ Len(Drop(s, k)) = Len(s) - k
      /\ \A i \in 1 .. Len(s) - k : Drop(s, k)[i] = s[k + i]
  BY <1>5, DropIs
<1>7. ASSUME NEW i \in 1 .. Len(s) - k PROVE Drop(d, n)[i] = Drop(s, k)[i]
  <2>1. i \in 1 .. Len(d) - n /\ n + i \in 1 .. Len(s) - m /\ m + (n + i) = k + i
    BY <1>1, <1>2, <1>3, <1>5
  <2>2. Drop(d, n)[i] = d[n + i] /\ d[n + i] = s[m + (n + i)]
    BY <1>2, <1>4, <2>1
  <2>3. QED
    BY <1>6, <2>1, <2>2
<1>8. Len(Drop(d, n)) = Len(Drop(s, k)) /\ Len(Drop(s, k)) = Len(s) - k
  BY <1>3, <1>4, <1>5, <1>6
<1>9. Drop(d, n) = Drop(s, k)
  BY <1>4, <1>6, <1>7, <1>8, SeqEqual
<1>10. QED
  BY <1>5, <1>9 DEF d

\* What is left of what is left.
LEMMA RestOfRest ==
  ASSUME NEW mem \in Memories, NEW c \in Chains, NEW a, NEW b,
         NEW m \in Nat, NEW n \in Nat, m <= ToEnd[c], n <= ToEnd[a],
         Rest(mem, a, c, m), Rest(mem, b, a, n)
  PROVE  Rest(mem, b, c, m + n)
<1>1. /\ Len(Content(mem, c)) = ToEnd[c] /\ ToEnd[c] \in Nat
      /\ ToEnd[a] = ToEnd[c] - m
  BY ToEndOfRest
<1>2. Content(mem, c) \in Seq(Nat) /\ m + n <= Len(Content(mem, c))
  BY <1>1, ContentLength
<1>3. Content(mem, b) = Drop(Drop(Content(mem, c), m), n)
  BY DEF Rest
<1>4. Drop(Drop(Content(mem, c), m), n) = Drop(Content(mem, c), m + n)
  BY <1>2, DropDrop
<1>5. QED
  BY <1>3, <1>4 DEF Rest

----------------------------------------------------------------------------
(* Writing at the end of a chain.                                          *)

\* The slices of a end before those of c in the same raws.
Apart(a, c) == \A x \in Ends(a), y \in Ends(c) : x[1] = y[1] => x[2] <= y[2]

\* The tail with n more bytes.
Filled(s, n) == [s EXCEPT !.end = @ + n]

\* The last slice of a chain and the chain before it.
LEMMA ChainEnd ==
  ASSUME NEW c \in Chains, c # <<>>
  PROVE  /\ Last(c) \in Slices /\ Len(c) \in Nat \ {0} /\ Last(c) = c[Len(c)]
         /\ \E f \in Chains : /\ Len(f) = Len(c) - 1 /\ c = Append(f, Last(c))
                              /\ \A i \in 1 .. Len(f) : f[i] = c[i]
<1>1. /\ c \in Seq(Slices) /\ Len(c) \in Nat \ {0}
  BY ChainParts DEF Chains
<1>2. Last(c) = c[Len(c)] /\ Last(c) \in Slices
  BY <1>1, ElementOfSeq DEF Last
<1> DEFINE n == Len(c) - 1
<1>3. n \in Nat /\ n = Len(c) - 1 /\ n <= Len(c)
  BY <1>1
<1> HIDE DEF n
<1> DEFINE f == Take(c, n)
<1>4. f \in Seq(Slices) /\ Len(f) = n /\ \A i \in 1 .. n : f[i] = c[i]
  BY <1>1, <1>3, TakeIs
<1> HIDE DEF f
<1> DEFINE g == Append(f, Last(c))
<1>5. /\ g \in Seq(Slices) /\ Len(g) = n + 1
      /\ \A i \in 1 .. n : g[i] = f[i]
      /\ g[n + 1] = Last(c)
  BY <1>2, <1>4, AppendProperties
<1> HIDE DEF g
<1>6. ASSUME NEW i \in 1 .. Len(c) PROVE g[i] = c[i]
  <2>1. CASE i \in 1 .. n
    BY <1>4, <1>5, <2>1
  <2>2. CASE i = n + 1
    BY <1>2, <1>3, <1>5, <2>2
  <2>3. QED
    BY <1>1, <1>3, <2>1, <2>2
<1>7. g = c
  BY <1>1, <1>3, <1>5, <1>6, SeqEqual
<1>8. QED
  BY <1>1, <1>2, <1>3, <1>4, <1>7 DEF g, Chains

\* advance_write moves the end of a slice and leaves its start and memory.
LEMMA FilledSlice ==
  ASSUME NEW s \in Slices, NEW n \in Nat, n <= writable_size(s)
  PROVE  /\ Filled(s, n) \in Slices
         /\ Filled(s, n).raw = s.raw /\ Filled(s, n).start = s.start
         /\ Filled(s, n).end = s.end + n
         /\ readable_size(Filled(s, n)) = readable_size(s) + n
BY BufferAssumption DEF Slices, writable_size, readable_size, Filled

\* Filling the tail of a chain changes its last slice only.
LEMMA AdvancedWriteIs ==
  ASSUME NEW f \in Chains, NEW t \in Slices, NEW n \in Nat
  PROVE  /\ Last(Append(f, t)) = t /\ Append(f, t) \in Chains /\ Append(f, t) # <<>>
         /\ AdvancedWrite(Append(f, t), n) = Append(f, Filled(t, n))
<1> DEFINE c == Append(f, t)
           a == AdvancedWrite(c, n)
           g == Append(f, Filled(t, n))
<1>1. f \in Seq(Slices) /\ Len(f) \in Nat
  BY LenProperties DEF Chains
<1>2. c \in Seq(Slices) /\ Len(c) = Len(f) + 1 /\ c[Len(f) + 1] = t
      /\ \A i \in 1 .. Len(f) : c[i] = f[i]
  BY <1>1, AppendProperties
<1>3. DOMAIN c = 1 .. Len(f) + 1
  BY <1>2
<1> DEFINE T == Slices \union {Filled(t, n)}
           b == [i \in 1 .. Len(f) + 1 |-> IF i = Len(f) + 1 THEN Filled(t, n) ELSE f[i]]
<1>4. a = b
  <2>1. a = [c EXCEPT ![Len(f) + 1] = Filled(c[Len(f) + 1], n)]
    BY <1>2, Zenon DEF AdvancedWrite, Filled
  <2> HIDE DEF c
  <2>2. a = [i \in 1 .. Len(f) + 1 |-> IF i = Len(f) + 1 THEN Filled(t, n) ELSE c[i]]
    BY <1>1, <1>2, <1>3, <2>1
  <2>3. \A i \in 1 .. Len(f) + 1 : i # Len(f) + 1 => c[i] = f[i]
    BY <1>1, <1>2
  <2>4. QED
    BY <2>2, <2>3
<1>5. g = b
  <2>1. Filled(t, n) \in T /\ Slices \subseteq T
    OBVIOUS
  <2> HIDE DEF T
  <2>2. f \in Seq(T) /\ \A i \in 1 .. Len(f) : f[i] \in T
    BY <1>1, <2>1, ElementOfSeq
  <2>3. g \in Seq(T) /\ Len(g) = Len(f) + 1 /\ g[Len(f) + 1] = Filled(t, n)
        /\ \A i \in 1 .. Len(f) : g[i] = f[i]
    BY <2>1, <2>2, AppendProperties
  <2>4. \A i \in 1 .. Len(f) + 1 :
          (IF i = Len(f) + 1 THEN Filled(t, n) ELSE f[i]) \in T
    BY <1>1, <2>1, <2>2
  <2>5. /\ b \in Seq(T) /\ Len(b) = Len(f) + 1
        /\ \A i \in 1 .. Len(f) + 1 : b[i] = IF i = Len(f) + 1 THEN Filled(t, n) ELSE f[i]
    BY <1>1, <2>4
  <2> HIDE DEF b, g
  <2>6. \A i \in 1 .. Len(f) + 1 : g[i] = b[i]
    BY <1>1, <2>3, <2>5
  <2>7. QED
    BY <1>1, <2>3, <2>5, <2>6, SeqEqual
<1>6. Last(c) = t
  BY <1>2 DEF Last
<1>7. c # <<>> /\ c \in Chains
  BY <1>1, <1>2 DEF Chains
<1>8. a = g
  BY <1>4, <1>5
<1>9. QED
  BY <1>6, <1>7, <1>8

\* A slice whose cells keep their values keeps its bytes.
LEMMA RowSame ==
  ASSUME NEW mem \in Memories, NEW mem2 \in Memories, NEW s \in Slices,
         \A k \in Cells : s.start < k /\ k <= s.end => mem2[s.raw][k] = mem[s.raw][k]
  PROVE  Row(mem2, s) = Row(mem, s)
<1>1. /\ s.start \in Nat /\ s.end \in Nat /\ s.end <= ChunkSize /\ ChunkSize \in Nat
      /\ readable_size(s) \in Nat /\ readable_size(s) = s.end - s.start
  BY SliceFields
<1>2. ASSUME NEW i \in 1 .. readable_size(s)
      PROVE  mem2[s.raw][s.start + i] = mem[s.raw][s.start + i]
  BY <1>1 DEF Cells
<1>3. /\ Row(mem, s) \in Seq(Nat) /\ Len(Row(mem, s)) = readable_size(s)
      /\ \A i \in 1 .. readable_size(s) : Row(mem, s)[i] = mem[s.raw][s.start + i]
  BY RowIs
<1>4. /\ Row(mem2, s) \in Seq(Nat) /\ Len(Row(mem2, s)) = readable_size(s)
      /\ \A i \in 1 .. readable_size(s) : Row(mem2, s)[i] = mem2[s.raw][s.start + i]
  BY RowIs
<1>5. QED
  BY <1>2, <1>3, <1>4, SeqEqual

\* A chain whose slices keep their bytes keeps its content.
LEMMA ContentSame ==
  ASSUME NEW mem, NEW mem2, NEW a \in Chains,
         \A i \in DOMAIN a : Row(mem2, a[i]) = Row(mem, a[i])
  PROVE  Content(mem2, a) = Content(mem, a)
<1>1. [i \in DOMAIN a |-> Row(mem2, a[i])] = [i \in DOMAIN a |-> Row(mem, a[i])]
  OBVIOUS
<1>2. QED
  BY <1>1 DEF Content

\* Memory with `n` numbers behind `from` in the cells behind the tail's end.
IsWritten(mem, new, t, from, n) ==
  /\ new \in Memories
  /\ \A r \in Raws : r # t.raw => new[r] = mem[r]
  /\ \A k \in Cells : (k <= t.end \/ k > t.end + n) => new[t.raw][k] = mem[t.raw][k]
  /\ \A k \in Cells : t.end < k /\ k <= t.end + n => new[t.raw][k] = from + (k - t.end)

\* What is received goes to the cells behind the tail's end, and nowhere else.
LEMMA WrittenIs ==
  ASSUME NEW mem \in Memories, NEW chain \in Chains, chain # <<>>,
         NEW from \in Nat, NEW n \in Nat
  PROVE  IsWritten(mem, Written(mem, chain, from + 1, n), Last(chain), from, n)
<1> DEFINE t == Last(chain)
           cells == [k \in Cells |-> IF k \in t.end + 1 .. t.end + n
                                     THEN from + 1 + (k - t.end - 1) ELSE mem[t.raw][k]]
           new == Written(mem, chain, from + 1, n)
<1>1. t \in Slices
  BY ChainEnd
<1> HIDE DEF t
<1>2. t.raw \in Raws /\ t.end \in Nat /\ ChunkSize \in Nat
  BY <1>1, SliceFields
<1>3. new = [mem EXCEPT ![t.raw] = cells]
  BY DEF Written, t
<1>4. mem \in [Raws -> [Cells -> Nat]]
  BY DEF Memories
<1>5. \A k \in Cells : k \in Nat
  BY <1>2 DEF Cells
<1>6. cells \in [Cells -> Nat]
  <2>1. ASSUME NEW k \in Cells
        PROVE  (IF k \in t.end + 1 .. t.end + n
                THEN from + 1 + (k - t.end - 1) ELSE mem[t.raw][k]) \in Nat
    <3>1. mem[t.raw][k] \in Nat /\ k \in Nat
      BY <1>2, <1>4, <1>5
    <3>2. QED
      BY <1>2, <3>1
  <2>2. QED
    BY <2>1
<1>7. \A k \in Cells :
        cells[k] = IF k \in t.end + 1 .. t.end + n
                   THEN from + 1 + (k - t.end - 1) ELSE mem[t.raw][k]
  OBVIOUS
<1> HIDE DEF cells, new
<1>8. new \in Memories /\ new[t.raw] = cells /\ \A r \in Raws : r # t.raw => new[r] = mem[r]
  BY <1>2, <1>3, <1>4, <1>6 DEF Memories
<1>9. ASSUME NEW k \in Cells
      PROVE  /\ (k <= t.end \/ k > t.end + n) => new[t.raw][k] = mem[t.raw][k]
             /\ t.end < k /\ k <= t.end + n => new[t.raw][k] = from + (k - t.end)
  <2>1. k \in Nat /\ new[t.raw][k] = cells[k]
    BY <1>5, <1>8
  <2>2. /\ k \in t.end + 1 .. t.end + n => new[t.raw][k] = from + 1 + (k - t.end - 1)
        /\ k \notin t.end + 1 .. t.end + n => new[t.raw][k] = mem[t.raw][k]
    BY <1>7, <2>1
  <2>3. t.end \in Nat
    BY <1>2
  <2>4. k \in t.end + 1 .. t.end + n <=> t.end < k /\ k <= t.end + n
    BY <2>1, <2>3
  <2>5. (k <= t.end \/ k > t.end + n) <=> ~(t.end < k /\ k <= t.end + n)
    BY <2>1, <2>3
  <2>6. from + 1 + (k - t.end - 1) = from + (k - t.end)
    BY <2>1, <2>3
  <2>7. QED
    BY <2>2, <2>4, <2>5, <2>6
<1>10. QED
  BY <1>8, <1>9 DEF t, new, IsWritten

\* The symbols of two sequences put together.
LEMMA TwoRows ==
  ASSUME NEW s \in Seq(Nat), NEW t \in Seq(Nat)
  PROVE  /\ s \o t \in Seq(Nat) /\ Len(s \o t) = Len(s) + Len(t)
         /\ \A i \in 1 .. Len(s) + Len(t) :
              (s \o t)[i] = IF i <= Len(s) THEN s[i] ELSE t[i - Len(s)]
  BY ConcatProperties

\* The bytes of the last slice after `n` numbers were received into it.
LEMMA FilledRow ==
  ASSUME NEW mem \in Memories, NEW chain \in Chains, chain # <<>>,
         NEW from \in Nat, NEW n \in Nat, n <= writable_size(Last(chain))
  PROVE  Row(Written(mem, chain, from + 1, n), Filled(Last(chain), n))
           = Row(mem, Last(chain)) \o Counted(from, from + n)
<1> DEFINE t == Last(chain)
           u == Filled(t, n)
           new == Written(mem, chain, from + 1, n)
           row == Row(mem, t)
           nums == Counted(from, from + n)
           res == Row(new, u)
           size == readable_size(t)
<1>1. t \in Slices
  BY ChainEnd
<1>a. IsWritten(mem, new, t, from, n)
  BY WrittenIs
<1>2. /\ new \in Memories
      /\ \A k \in Cells : (k <= t.end \/ k > t.end + n) => new[t.raw][k] = mem[t.raw][k]
      /\ \A k \in Cells : t.end < k /\ k <= t.end + n => new[t.raw][k] = from + (k - t.end)
  <2> HIDE DEF new, t
  <2>1. QED
    BY <1>a DEF IsWritten
<1> HIDE DEF new, t
<1>3. /\ u \in Slices /\ u.raw = t.raw /\ u.start = t.start /\ u.end = t.end + n
      /\ readable_size(u) = size + n
  BY <1>1, FilledSlice DEF t
<1>4. /\ t.start \in Nat /\ t.end \in Nat /\ size \in Nat /\ size = t.end - t.start
      /\ u.end <= ChunkSize /\ ChunkSize \in Nat
  BY <1>1, <1>3, SliceFields
<1>5. row \in Seq(Nat) /\ Len(row) = size /\ \A i \in 1 .. size : row[i] = mem[t.raw][t.start + i]
  BY <1>1, RowIs
<1>6. /\ res \in Seq(Nat) /\ Len(res) = readable_size(u)
      /\ \A i \in 1 .. readable_size(u) : res[i] = new[u.raw][u.start + i]
  BY <1>2, <1>3, RowIs
<1>7. nums \in Seq(Nat) /\ Len(nums) = n /\ \A i \in 1 .. n : nums[i] = from + i
  <2>1. from + n \in Nat /\ from <= from + n /\ (from + n) - from = n
    OBVIOUS
  <2>2. QED
    BY <2>1, CountedIs
<1> HIDE DEF u, row, nums, res, size
<1>8. /\ row \o nums \in Seq(Nat) /\ Len(row \o nums) = Len(row) + Len(nums)
      /\ \A i \in 1 .. Len(row) + Len(nums) :
           (row \o nums)[i] = IF i <= Len(row) THEN row[i] ELSE nums[i - Len(row)]
  <2>1. row \in Seq(Nat) /\ nums \in Seq(Nat)
    BY <1>5, <1>7
  <2>2. QED
    BY <2>1, TwoRows
<1>9. ASSUME NEW i \in 1 .. size + n PROVE res[i] = (row \o nums)[i]
  <2>1. res[i] = new[t.raw][t.start + i] /\ t.start + i \in Cells
    <3>1. i \in 1 .. readable_size(u) /\ u.raw = t.raw /\ u.start = t.start
      BY <1>3
    <3>2. res[i] = new[t.raw][t.start + i]
      BY <1>6, <3>1
    <3>3. t.end + n <= ChunkSize
      BY <1>3, <1>4
    <3>4. size + n = (t.end + n) - t.start /\ t.start \in Nat /\ t.end \in Nat /\ ChunkSize \in Nat
      BY <1>4
    <3>5. i \in Nat /\ 1 <= i /\ i <= size + n
      BY <1>4
    <3>6. t.start + i \in 1 .. ChunkSize
      BY <3>3, <3>4, <3>5
    <3>7. QED
      BY <3>2, <3>6 DEF Cells
  <2>2. (row \o nums)[i] = IF i <= size THEN row[i] ELSE nums[i - size]
    BY <1>5, <1>7, <1>8
  <2>3. CASE i <= size
    <3>1. t.start + i <= t.end /\ i \in 1 .. size
      BY <1>4, <2>3
    <3>2. res[i] = mem[t.raw][t.start + i]
      BY <1>2, <2>1, <3>1
    <3>3. QED
      BY <1>5, <2>2, <2>3, <3>1, <3>2
  <2>4. CASE ~(i <= size)
    <3>1. PICK j \in 1 .. n : j = i - size
      BY <1>4, <2>4
    <3>0. PICK k \in Cells : k = t.start + i
      BY <2>1
    <3>2. k = t.end + j /\ k \in Nat
      <4>1. size \in Nat
        BY <1>4
      <4>2. j \in Nat /\ i \in Nat
        BY <4>1
      <4>3. i = j + size
        BY <3>1, <4>1, <4>2
      <4>4. t.end = t.start + size
        BY <1>4
      <4>5. QED
        <5>1. t.start \in Nat /\ t.end \in Nat
          BY <1>4
        <5>2. k = t.start + i
          BY <3>0
        <5>3. t.start + i = t.end + j
          BY <5>1, <4>1, <4>2, <4>3, <4>4
        <5>4. QED
          BY <5>1, <5>2, <5>3, <4>2
    <3>a. res[i] = new[t.raw][k]
      BY <2>1, <3>0
    <3>b. t.end < k /\ k <= t.end + n /\ k - t.end = j
      <4>1. t.end \in Nat /\ j \in 1 .. n /\ k = t.end + j
        BY <1>4, <3>2
      <4>2. QED
        BY <4>1
    <3>3. res[i] = from + j
      BY <1>2, <3>a, <3>b
    <3>4. QED
      BY <1>7, <2>2, <2>4, <3>1, <3>3
  <2>5. QED
    BY <2>3, <2>4
<1>10. Len(res) = size + n /\ Len(row \o nums) = size + n
  BY <1>3, <1>5, <1>6, <1>7, <1>8
<1>11. res = row \o nums
  BY <1>6, <1>8, <1>9, <1>10, SeqEqual
<1>12. QED
  BY <1>11 DEF res, new, u, row, nums, t

\* What else is in the memory, in other raws or before the tail's end.
LEMMA WrittenElsewhere ==
  ASSUME NEW mem \in Memories, NEW chain \in Chains, chain # <<>>,
         NEW from \in Nat, NEW n \in Nat, NEW s \in Slices,
         s.raw = Last(chain).raw => s.end <= Last(chain).end
  PROVE  Row(Written(mem, chain, from + 1, n), s) = Row(mem, s)
<1> DEFINE t == Last(chain)
           new == Written(mem, chain, from + 1, n)
<1>1. t \in Slices
  BY ChainEnd
<1>a. IsWritten(mem, new, t, from, n)
  BY WrittenIs
<1>2. /\ new \in Memories
      /\ \A r \in Raws : r # t.raw => new[r] = mem[r]
      /\ \A k \in Cells : (k <= t.end \/ k > t.end + n) => new[t.raw][k] = mem[t.raw][k]
  <2> HIDE DEF new, t
  <2>1. QED
    BY <1>a DEF IsWritten
<1>3. s.raw = t.raw => s.end <= t.end
  OBVIOUS
<1> HIDE DEF new, t
<1>4. t.end \in Nat /\ s.end \in Nat /\ s.raw \in Raws /\ ChunkSize \in Nat
  BY <1>1, SliceFields
<1>5. ASSUME NEW k \in Cells, s.start < k, k <= s.end PROVE new[s.raw][k] = mem[s.raw][k]
  <2>1. k \in Nat
    BY <1>4 DEF Cells
  <2>2. CASE s.raw = t.raw
    <3>1. k <= t.end
      BY <1>3, <1>4, <1>5, <2>1, <2>2
    <3>2. QED
      BY <1>2, <2>2, <3>1
  <2>3. CASE s.raw # t.raw
    BY <1>2, <1>4, <2>3
  <2>4. QED
    BY <2>2, <2>3
<1>6. Row(new, s) = Row(mem, s)
  BY <1>2, <1>5, RowSame
<1>7. QED
  BY <1>6 DEF new

\* The ends of a chain with one slice more at its tail.
LEMMA EndsOfAppended ==
  ASSUME NEW f \in Chains, NEW t \in Slices
  PROVE  /\ Append(f, t) \in Chains /\ Append(f, t) = f \o <<t>>
         /\ Ends(Append(f, t)) = Ends(f) \union {<<t.raw, t.end>>}
         /\ Distinct(Append(f, t)) <=> Distinct(f) /\ \A x \in Ends(f) : x[1] # t.raw
         /\ Len(Append(f, t)) = Len(f) + 1 /\ Append(f, t)[Len(f) + 1] = t
         /\ \A i \in 1 .. Len(f) : Append(f, t)[i] = f[i]
<1> DEFINE c == Append(f, t)
<1>1. f \in Seq(Slices) /\ Len(f) \in Nat /\ DOMAIN f = 1 .. Len(f)
  BY LenProperties DEF Chains
<1>2. /\ c \in Seq(Slices) /\ Len(c) = Len(f) + 1 /\ c[Len(f) + 1] = t
      /\ \A i \in 1 .. Len(f) : c[i] = f[i]
  BY <1>1, AppendProperties
<1>3. c = f \o <<t>>
  BY <1>1, AppendIsConcat
<1>4. c \in Chains /\ DOMAIN c = 1 .. Len(f) + 1
  BY <1>2, LenProperties DEF Chains
<1> HIDE DEF c
<1>5. Ends(c) = Ends(f) \union {<<t.raw, t.end>>}
  <2>1. ASSUME NEW x \in Ends(c) PROVE x \in Ends(f) \union {<<t.raw, t.end>>}
    <3>1. PICK i \in 1 .. Len(f) + 1 : x = <<c[i].raw, c[i].end>>
      BY <1>4 DEF Ends
    <3>2. CASE i = Len(f) + 1
      BY <1>2, <3>1, <3>2
    <3>3. CASE i # Len(f) + 1
      <4>1. i \in 1 .. Len(f)
        BY <1>1, <3>3
      <4>2. QED
        BY <1>1, <1>2, <3>1, <4>1 DEF Ends
    <3>4. QED
      BY <3>2, <3>3
  <2>2. ASSUME NEW x \in Ends(f) PROVE x \in Ends(c)
    <3>1. PICK i \in 1 .. Len(f) : x = <<f[i].raw, f[i].end>>
      BY <1>1 DEF Ends
    <3>2. i \in DOMAIN c /\ c[i] = f[i]
      BY <1>1, <1>2, <1>4
    <3>3. QED
      BY <3>1, <3>2 DEF Ends
  <2>3. <<t.raw, t.end>> \in Ends(c)
    <3>1. Len(f) + 1 \in DOMAIN c
      BY <1>1, <1>4
    <3>2. QED
      BY <1>2, <3>1 DEF Ends
  <2>4. QED
    BY <2>1, <2>2, <2>3
<1>6. ASSUME Distinct(c) PROVE Distinct(f) /\ \A x \in Ends(f) : x[1] # t.raw
  <2>1. \A i \in DOMAIN f : i \in DOMAIN c /\ c[i] = f[i]
    BY <1>1, <1>2, <1>4
  <2>2. ASSUME NEW x \in Ends(f) PROVE x[1] # t.raw
    <3>1. PICK i \in DOMAIN f : x = <<f[i].raw, f[i].end>>
      BY DEF Ends
    <3>2. i # Len(f) + 1 /\ Len(f) + 1 \in DOMAIN c
      BY <1>1, <1>4
    <3>3. c[i].raw # c[Len(f) + 1].raw
      BY <1>6, <2>1, <3>2 DEF Distinct
    <3>4. QED
      BY <1>2, <2>1, <3>1, <3>3
  <2>3. QED
    BY <1>6, <2>1, <2>2 DEF Distinct
<1>7. ASSUME Distinct(f), \A x \in Ends(f) : x[1] # t.raw PROVE Distinct(c)
  <2>1. ASSUME NEW i \in DOMAIN f PROVE f[i].raw # t.raw
    <3>1. <<f[i].raw, f[i].end>> \in Ends(f)
      BY DEF Ends
    <3>2. <<f[i].raw, f[i].end>>[1] # t.raw
      BY <1>7, <3>1
    <3>3. QED
      BY <3>2
  <2>2. SUFFICES ASSUME NEW i \in DOMAIN c, NEW j \in DOMAIN c, c[i].raw = c[j].raw
                 PROVE  i = j
    BY DEF Distinct
  <2>3. \A k \in DOMAIN c : k = Len(f) + 1 \/ (k \in DOMAIN f /\ c[k] = f[k])
    BY <1>1, <1>2, <1>4
  <2>4. QED
    BY <1>2, <1>7, <2>1, <2>2, <2>3 DEF Distinct
<1>8. Distinct(c) <=> Distinct(f) /\ \A x \in Ends(f) : x[1] # t.raw
  BY <1>6, <1>7
<1>9. QED
  BY <1>2, <1>3, <1>4, <1>5, <1>8 DEF c

\* The content of a chain with one slice more at its tail.
LEMMA ContentAppended ==
  ASSUME NEW mem \in Memories, NEW f \in Chains, NEW t \in Slices
  PROVE  /\ Content(mem, f \o <<t>>) = Content(mem, f) \o Row(mem, t)
         /\ Content(mem, f) \in Seq(Nat) /\ Row(mem, t) \in Seq(Nat)
<1> DEFINE one == <<t>>
<1>1. one \in Chains /\ Content(mem, one) = Row(mem, t)
  BY ContentOfOne
<1> HIDE DEF one
<1>2. Content(mem, f \o one) = Content(mem, f) \o Content(mem, one)
  BY <1>1, ContentConcat
<1>3. Content(mem, f) \in Seq(Nat) /\ Row(mem, t) \in Seq(Nat)
  BY ContentLength, RowIs
<1>4. Content(mem, f \o one) = Content(mem, f) \o Row(mem, t)
  BY <1>1, <1>2
<1>5. QED
  BY <1>3, <1>4 DEF one

\* Memory with an end in a chain is held by the chain.
LEMMA HeldEnds ==
  ASSUME NEW a \in Chains, NEW x \in Ends(a)
  PROVE  x[1] \in Held(a)
BY DEF Ends, Held

\* All slices but the tail have bytes.
FrontUnread(c) == \A i \in 1 .. Len(c) - 1 : c[i].start < c[i].end

\* check_need_expand adds an empty slice in a raw nobody holds.
LEMMA ExpandedIs ==
  ASSUME NEW mem \in Memories, NEW c \in Chains, Unread(c), Distinct(c),
         NEW held, Held(c) \subseteq held, HasMemory(c, held)
  PROVE  /\ Expanded(c, held) \in Chains /\ Expanded(c, held) # <<>>
         /\ writable_size(Last(Expanded(c, held))) \in Nat \ {0}
         /\ Distinct(Expanded(c, held))
         /\ Content(mem, Expanded(c, held)) = Content(mem, c)
         /\ FrontUnread(Expanded(c, held))
         /\ \A a \in Chains : Held(a) \subseteq held /\ Apart(a, c) => Apart(a, Expanded(c, held))
<1> DEFINE new == Expanded(c, held)
<1>0. DOMAIN c = 1 .. Len(c) /\ Len(c) \in Nat
  BY LenProperties DEF Chains
<1>1. CASE ~NeedsExpand(c)
  <2>1. new = c /\ c # <<>> /\ writable_size(Last(c)) # 0
    BY <1>1 DEF Expanded, NeedsExpand
  <2>2. Last(c) \in Slices
    BY <2>1, ChainEnd
  <2>3. writable_size(Last(c)) \in Nat
    BY <2>2, SliceFields DEF writable_size
  <2>4. FrontUnread(c)
    BY <1>0 DEF Unread, FrontUnread
  <2> HIDE DEF new
  <2>5. QED
    BY <2>1, <2>3, <2>4 DEF new
<1>2. CASE NeedsExpand(c)
  <2> DEFINE r == CHOOSE r \in Raws : r \notin held
             t == [raw |-> r, start |-> 0, end |-> 0]
  <2>1. r \in Raws /\ r \notin held
    BY <1>2, Zenon DEF HasMemory
  <2>2. new = Append(c, t)
    BY <1>2 DEF Expanded
  <2> HIDE DEF r
  <2>3. t \in Slices /\ t.raw = r /\ t.start = 0 /\ t.end = 0
    BY <2>1, BufferAssumption DEF Slices
  <2> HIDE DEF t
  <2>4. \A x \in Ends(c) : x[1] # t.raw
    BY <2>1, <2>3, HeldEnds
  <2>5. /\ new \in Chains /\ new = c \o <<t>>
        /\ Ends(new) = Ends(c) \union {<<t.raw, t.end>>}
        /\ Distinct(new)
        /\ Len(new) = Len(c) + 1 /\ new[Len(c) + 1] = t
        /\ \A i \in 1 .. Len(c) : new[i] = c[i]
    BY <2>2, <2>3, <2>4, EndsOfAppended, SMTT(30)
  <2> HIDE DEF new
  <2>6. new # <<>> /\ Last(new) = t
    BY <1>0, <2>5 DEF Last
  <2>7. writable_size(t) \in Nat \ {0}
    BY <2>3, BufferAssumption DEF writable_size
  <2>8. Content(mem, new) = Content(mem, c)
    <3>2. Row(mem, t) \in Seq(Nat) /\ Len(Row(mem, t)) = readable_size(t) /\ readable_size(t) = 0
      BY <2>3, RowIs DEF readable_size
    <3>3. Row(mem, t) = <<>>
      BY <3>2, EmptySeq
    <3>4. Content(mem, c \o <<t>>) = Content(mem, c) \o <<>> /\ Content(mem, c) \in Seq(Nat)
      BY <2>3, <3>3, ContentAppended
    <3>5. QED
      BY <2>5, <3>4, ConcatEmptySeq
  <2>9. FrontUnread(new)
    <3>1. ASSUME NEW i \in 1 .. Len(new) - 1 PROVE i \in DOMAIN c /\ new[i] = c[i]
      BY <1>0, <2>5
    <3>2. QED
      BY <3>1 DEF Unread, FrontUnread
  <2>10. ASSUME NEW a \in Chains, Held(a) \subseteq held, Apart(a, c) PROVE Apart(a, new)
    <3>1. ASSUME NEW x \in Ends(a), NEW y \in Ends(new), x[1] = y[1] PROVE x[2] <= y[2]
      <4>1. x[1] # r
        BY <2>1, <2>10, HeldEnds
      <4>2. y # <<t.raw, t.end>>
        BY <2>3, <3>1, <4>1
      <4>3. QED
        BY <2>5, <2>10, <3>1, <4>2 DEF Apart
    <3>2. QED
      BY <3>1 DEF Apart
  <2>11. QED
    BY <2>5, <2>6, <2>7, <2>8, <2>9, <2>10 DEF new
<1>3. QED
  BY <1>1, <1>2

\* A round of append: the tail has n bytes more, and nothing else changes.
LEMMA FilledTail ==
  ASSUME NEW mem \in Memories, NEW c \in Chains, c # <<>>, Distinct(c),
         FrontUnread(c), NEW n \in Nat \ {0}, n <= writable_size(Last(c)), NEW from \in Nat
  PROVE  /\ AdvancedWrite(c, n) \in Chains
         /\ Unread(AdvancedWrite(c, n)) /\ Distinct(AdvancedWrite(c, n))
         /\ Written(mem, c, from + 1, n) \in Memories
         /\ Content(Written(mem, c, from + 1, n), AdvancedWrite(c, n))
              = Content(mem, c) \o Counted(from, from + n)
         /\ \A a \in Chains : Apart(a, c) =>
              /\ Content(Written(mem, c, from + 1, n), a) = Content(mem, a)
              /\ Apart(a, AdvancedWrite(c, n))
<1> DEFINE t == Last(c)
           u == Filled(t, n)
           new == AdvancedWrite(c, n)
           mem2 == Written(mem, c, from + 1, n)
<1>1. t \in Slices /\ Len(c) \in Nat \ {0} /\ t = c[Len(c)]
  BY ChainEnd
<1>2. PICK f \in Chains : /\ Len(f) = Len(c) - 1 /\ c = Append(f, t)
                          /\ \A i \in 1 .. Len(f) : f[i] = c[i]
  BY ChainEnd
<1>3. /\ u \in Slices /\ u.raw = t.raw /\ u.start = t.start /\ u.end = t.end + n
  BY <1>1, FilledSlice
<1>4. mem2 \in Memories
  BY WrittenIs DEF IsWritten
<1>5. Row(mem2, u) = Row(mem, t) \o Counted(from, from + n)
  BY FilledRow
<1>6. \A s \in Slices : (s.raw = t.raw => s.end <= t.end) => Row(mem2, s) = Row(mem, s)
  BY WrittenElsewhere
<1>7. new = Append(f, u)
  <2> HIDE DEF t
  <2>1. AdvancedWrite(Append(f, t), n) = Append(f, Filled(t, n))
    BY <1>1, AdvancedWriteIs
  <2>2. QED
    BY <1>2, <2>1
<1>8. t.start \in Nat /\ t.end \in Nat /\ t.start <= t.end
  BY <1>1, SliceFields
<1> HIDE DEF t, u, new, mem2
<1>9. /\ Ends(c) = Ends(f) \union {<<t.raw, t.end>>}
      /\ c = f \o <<t>>
      /\ Distinct(f) /\ \A x \in Ends(f) : x[1] # t.raw
  BY <1>1, <1>2, EndsOfAppended
<1>10. /\ new \in Chains /\ new = f \o <<u>>
       /\ Ends(new) = Ends(f) \union {<<u.raw, u.end>>}
       /\ Distinct(new)
       /\ Len(new) = Len(f) + 1 /\ new[Len(f) + 1] = u
       /\ \A i \in 1 .. Len(f) : new[i] = f[i]
  BY <1>3, <1>7, <1>9, EndsOfAppended
<1>11. Unread(new)
  <2>1. DOMAIN new = 1 .. Len(f) + 1 /\ Len(f) \in Nat
    BY <1>10, LenProperties DEF Chains
  <2>2. u.start < u.end
    BY <1>3, <1>8
  <2>3. ASSUME NEW i \in 1 .. Len(f) PROVE new[i].start < new[i].end
    <3>1. i \in 1 .. Len(c) - 1
      BY <1>2
    <3>2. QED
      BY <1>2, <1>10, <3>1 DEF FrontUnread
  <2>4. QED
    BY <1>10, <2>1, <2>2, <2>3 DEF Unread
<1>12. \A a \in Chains : Apart(a, c) => Content(mem2, a) = Content(mem, a)
  <2> SUFFICES ASSUME NEW a \in Chains, Apart(a, c), NEW i \in DOMAIN a
               PROVE  Row(mem2, a[i]) = Row(mem, a[i])
    BY ContentSame
  <2>1. a[i] \in Slices
    BY LenProperties, ElementOfSeq DEF Chains
  <2>2. <<a[i].raw, a[i].end>> \in Ends(a) /\ <<t.raw, t.end>> \in Ends(c)
    BY <1>9 DEF Ends
  <2>3. a[i].raw = t.raw => a[i].end <= t.end
    BY <2>2 DEF Apart
  <2>4. QED
    BY <1>6, <2>1, <2>3
<1>13. Content(mem2, f) = Content(mem, f)
  <2> SUFFICES ASSUME NEW i \in DOMAIN f PROVE Row(mem2, f[i]) = Row(mem, f[i])
    BY ContentSame
  <2>1. f[i] \in Slices
    BY LenProperties, ElementOfSeq DEF Chains
  <2>2. <<f[i].raw, f[i].end>> \in Ends(f)
    BY DEF Ends
  <2>3. f[i].raw # t.raw
    BY <1>9, <2>2
  <2>4. QED
    BY <1>6, <2>1, <2>3
<1>14. Content(mem2, new) = Content(mem, c) \o Counted(from, from + n)
  <2> DEFINE x == Content(mem, f)
             y == Row(mem, t)
             z == Counted(from, from + n)
  <2>1. Content(mem, c) = x \o y /\ x \in Seq(Nat) /\ y \in Seq(Nat)
    BY <1>1, <1>9, ContentAppended
  <2>2. Content(mem2, new) = x \o Row(mem2, u)
    <3>1. Content(mem2, f) = x
      BY <1>13
    <3>2. Content(mem2, f \o <<u>>) = Content(mem2, f) \o Row(mem2, u)
      BY <1>3, <1>4, ContentAppended
    <3>3. QED
      BY <1>10, <3>1, <3>2
  <2>3. z \in Seq(Nat)
    <3>1. from + n \in Nat /\ from <= from + n
      OBVIOUS
    <3>2. QED
      BY <3>1, CountedIs
  <2>4. Content(mem2, new) = x \o (y \o z)
    BY <1>5, <2>2
  <2> HIDE DEF x, y, z
  <2>5. (x \o y) \o z = x \o (y \o z)
    <3>1. x \in Seq(Nat) /\ y \in Seq(Nat) /\ z \in Seq(Nat)
      BY <2>1, <2>3
    <3>2. Associates(x, y, z)
      BY <3>1, Joining
    <3>3. QED
      BY <3>2 DEF Associates
  <2>6. QED
    BY <2>1, <2>4, <2>5 DEF z
<1>15. \A a \in Chains : Apart(a, c) => Apart(a, new)
  <2> SUFFICES ASSUME NEW a \in Chains, Apart(a, c),
                      NEW x \in Ends(a), NEW y \in Ends(new), x[1] = y[1]
               PROVE  x[2] <= y[2]
    BY DEF Apart
  <2>1. CASE y \in Ends(f)
    BY <1>9, <2>1 DEF Apart
  <2>2. CASE y = <<u.raw, u.end>>
    <3>1. x[1] = <<t.raw, t.end>>[1] /\ <<t.raw, t.end>> \in Ends(c)
      BY <1>3, <1>9, <2>2
    <3>2. x[2] <= <<t.raw, t.end>>[2]
      BY <3>1 DEF Apart
    <3>3. PICK i \in DOMAIN a : x = <<a[i].raw, a[i].end>>
      BY DEF Ends
    <3>4. a[i] \in Slices
      BY LenProperties, ElementOfSeq DEF Chains
    <3>5. x[2] \in Nat
      BY <3>3, <3>4, SliceFields
    <3>6. y[2] = t.end + n
      BY <1>3, <2>2
    <3>7. QED
      BY <1>8, <3>2, <3>5, <3>6
  <2>3. QED
    BY <1>10, <2>1, <2>2
<1>16. QED
  BY <1>4, <1>10, <1>11, <1>12, <1>14, <1>15 DEF new, mem2

\* A tail with room takes at least a byte, and no more than there are.
LEMMA FitsSome ==
  ASSUME NEW c \in Chains, c # <<>>, writable_size(Last(c)) \in Nat \ {0},
         NEW left \in Nat \ {0}
  PROVE  Fits(c, left) \in 1 .. left /\ Fits(c, left) <= writable_size(Last(c))
<1> DEFINE w == writable_size(Last(c))
           S == {left, w}
<1> HIDE DEF w
<1>1. w \in Nat \ {0}
  BY DEF w
<1>2. PICK x \in S : \A y \in S : x <= y
  BY <1>1
<1>3. Min(S) \in S /\ \A y \in S : Min(S) <= y
  BY <1>2, Zenon DEF Min
<1>4. Fits(c, left) = Min(S)
  BY DEF Fits, w
<1>5. QED
  BY <1>1, <1>3, <1>4 DEF w

\* Memory that nobody holds may change: the chains that hold theirs keep their content.
LEMMA FreedIs ==
  ASSUME NEW mem \in Memories, NEW held
  PROVE  /\ Freed(mem, held) \in Memories
         /\ \A a \in Chains : Held(a) \subseteq held => Content(Freed(mem, held), a) = Content(mem, a)
<1> DEFINE new == Freed(mem, held)
<1>1. Uninitialized \in [Cells -> Nat]
  BY DEF Uninitialized
<1>2. new \in Memories /\ \A r \in held \cap Raws : new[r] = mem[r]
  BY <1>1 DEF Freed, Memories
<1> HIDE DEF new
<1>3. ASSUME NEW a \in Chains, Held(a) \subseteq held PROVE Content(new, a) = Content(mem, a)
  <2> SUFFICES ASSUME NEW i \in DOMAIN a PROVE Row(new, a[i]) = Row(mem, a[i])
    BY ContentSame
  <2>1. a[i] \in Slices
    BY LenProperties, ElementOfSeq DEF Chains
  <2>2. a[i].raw \in Raws /\ a[i].raw \in held
    BY <1>3, <2>1, SliceFields DEF Held
  <2>3. new[a[i].raw] = mem[a[i].raw]
    BY <1>2, <2>2
  <2>4. QED
    BY <2>3 DEF Row
<1>4. QED
  BY <1>2, <1>3 DEF new

----------------------------------------------------------------------------
\* What the context of a step may be.
Contexts == [n_left : Nat, events : Seq(Events), step : Nat, err : BOOLEAN]

\* No body or chunk has got its length when more of it is awaited, and a
\* chunk starts with a counter of 0.
AwaitsContent ==
  /\ curr_state = "ContentLength" => got < expect
  /\ In("Chunk", "S_EXPECT_CHUNK_DATA") => got < expect
  /\ curr_state = "Chunk" /\ sub_state \in {"S_EXPECT_LENGTH", "S_GET_INITIAL_CR"} => got = 0

\* A step consumes some of what is left and no more.
StepFits == ctx'.step \in 1 .. ctx'.n_left

\* The parser's invariant.
ParserInv == ParserTypeOK /\ AwaitsContent /\ PiecesFit

(* A number that stoull finds is converted to a natural number. *)
LEMMA NumbersAre ==
  ASSUME NEW s \in Seq(Symbols), IsNumber(s)
  PROVE  NumberOf(s) \in Nat
<1>1. s[NumberAt(s)] \in Numbers
  BY DEF IsNumber
<1>2. QED
  BY <1>1, ParserAssumption DEF NumberOf

(* What a step tells parse, when it consumes one byte. *)
LEMMA ByteFits ==
  ASSUME NEW n \in Nat \ {0}, NEW evs \in Seq(Events),
         Emits(n, evs) \/ Fails(n, evs)
  PROVE  ctx' \in Contexts /\ StepFits
<1>1. n \in Nat /\ n >= 1
  OBVIOUS
<1>2. "ParseError" \in Events /\ Append(evs, "ParseError") \in Seq(Events)
  BY DEF Events
<1>3. CASE Emits(n, evs)
  BY <1>1, <1>3 DEF Emits, Contexts, StepFits
<1>4. CASE Fails(n, evs)
  BY <1>1, <1>2, <1>4 DEF Fails, Contexts, StepFits
<1>5. QED
  BY <1>3, <1>4

(* A piece of a body has bytes, and not more than are left of the fragment *)
(* and of the body.                                                        *)
LEMMA PieceFits ==
  ASSUME NEW n \in Nat \ {0}, NEW evs \in Seq(Events), ParserTypeOK,
         got < expect, TakesPiece(n, evs)
  PROVE  /\ ctx' \in Contexts /\ StepFits
         /\ got' \in Nat /\ got' = got + Increasement(n) /\ got' <= expect
<1>1. n \in Nat /\ n >= 1 /\ got \in Nat /\ expect \in Nat
  BY DEF ParserTypeOK
<1>2. Increasement(n) \in 1 .. n /\ got + Increasement(n) <= expect
  BY <1>1 DEF Increasement
<1> HIDE DEF Increasement
<1>3. ctx' \in Contexts /\ StepFits
  BY <1>1, <1>2 DEF TakesPiece, Contexts, StepFits
<1>4. QED
  BY <1>1, <1>2, <1>3 DEF TakesPiece

(* The invariant follows once a step fits. *)
LEMMA FittingStep ==
  ASSUME StepFits
  PROVE  PiecesFit'
BY DEF StepFits, PiecesFit

(* Every step of the parser keeps the invariant: a step for each sub state. *)
LEMMA ConsumeKeepsInv ==
  ASSUME ParserInv, NEW c \in Symbols, NEW n \in Nat \ {0}, Consume(c, n)
  PROVE  ParserInv' /\ StepFits
<1>0. /\ curr_state \in DOMAIN Entry
      /\ sub_state \in SubStates[curr_state]
      /\ method \in BOOLEAN
      /\ key \in Seq(Symbols) /\ val \in Seq(Symbols) /\ hex \in Seq(Symbols)
      /\ headers \subseteq Seq(Symbols) \X Seq(Symbols)
      /\ got \in Nat /\ expect \in Nat
  BY DEF ParserInv, ParserTypeOK
<1>a. /\ <<>> \in Seq(Events) /\ <<"StartRecvingHeader">> \in Seq(Events)
      /\ <<"HeaderReceived">> \in Seq(Events)
      /\ <<"HeaderReceived", "RequestReceived">> \in Seq(Events)
      /\ <<"OnPartofBody">> \in Seq(Events)
      /\ <<"OnPartofBody", "RequestReceived">> \in Seq(Events)
      /\ <<"ParseError">> \in Seq(Events) /\ <<"RequestReceived">> \in Seq(Events)
      /\ <<>> \in Seq(Symbols)
  BY DEF Events
<1>b. Append(key, c) \in Seq(Symbols) /\ Append(val, c) \in Seq(Symbols)
      /\ Append(hex, c) \in Seq(Symbols)
  BY <1>0
<1>c. \A s \in Seq(Symbols) : IsNumber(s) => NumberOf(s) \in Nat
  BY NumbersAre
<1> USE DEF In, To, Enter, Entry, SubStates
<1>1. CASE ExpectMethod(c, n)
  <2>1. ctx' \in Contexts /\ StepFits
    BY <1>1, <1>a, ByteFits DEF ExpectMethod
  <2>2. method' \in BOOLEAN
    BY <1>1, <1>0, Zenon DEF ExpectMethod
  <2>3. /\ curr_state' \in DOMAIN Entry
        /\ sub_state' \in SubStates[curr_state']
        /\ AwaitsContent'
    BY <1>1, <1>0 DEF ExpectMethod, ParserInv, AwaitsContent, counts
  <2>4. QED
    BY <1>1, <1>0, <2>1, <2>2, <2>3, FittingStep
    DEF ExpectMethod, ParserInv, ParserTypeOK, Contexts, counts
<1>2. CASE ExpectUriOrVersion(c, n)
  <2>1. ctx' \in Contexts /\ StepFits
    BY <1>2, <1>a, ByteFits DEF ExpectUriOrVersion
  <2>2. QED
    BY <1>2, <1>0, <2>1, FittingStep
    DEF ExpectUriOrVersion, ParserInv, ParserTypeOK, AwaitsContent, Contexts, text, counts
<1>3. CASE ExpectCrlf(c, n)
  <2>1. ctx' \in Contexts /\ StepFits
    BY <1>3, <1>a, ByteFits DEF ExpectCrlf
  <2>2. method' \in BOOLEAN
    BY <1>3, <1>0, Zenon DEF ExpectCrlf
  <2>3. /\ curr_state' \in DOMAIN Entry
        /\ sub_state' \in SubStates[curr_state']
        /\ AwaitsContent'
    BY <1>3, <1>0 DEF ExpectCrlf, ParserInv, AwaitsContent, counts
  <2>4. QED
    BY <1>3, <1>0, <2>1, <2>2, <2>3, FittingStep
    DEF ExpectCrlf, ParserInv, ParserTypeOK, Contexts, counts
<1>4. CASE ExpectFieldKey(c, n)
  <2>1. ctx' \in Contexts /\ StepFits
    BY <1>4, <1>a, ByteFits DEF ExpectFieldKey
  <2>2. QED
    BY <1>4, <1>0, <1>b, <2>1, FittingStep
    DEF ExpectFieldKey, ParserInv, ParserTypeOK, AwaitsContent, Contexts, text, counts
<1>5. CASE GetColon(c, n)
  <2>1. ctx' \in Contexts /\ StepFits
    BY <1>5, <1>a, ByteFits DEF GetColon
  <2>2. QED
    BY <1>5, <1>0, <1>b, <2>1, FittingStep
    DEF GetColon, ParserInv, ParserTypeOK, AwaitsContent, Contexts, text, counts
<1>6. CASE ExpectFieldVal(c, n)
  <2>1. ctx' \in Contexts /\ StepFits
    BY <1>6, <1>a, ByteFits DEF ExpectFieldVal
  <2>2. headers' \subseteq Seq(Symbols) \X Seq(Symbols)
    <3>1. <<key, val>> \in Seq(Symbols) \X Seq(Symbols)
      BY <1>0
    <3>2. QED
      BY <1>6, <1>0, <3>1, Zenon DEF ExpectFieldVal
  <2>3. key' \in Seq(Symbols) /\ val' \in Seq(Symbols)
    BY <1>6, <1>0, <1>a, <1>b DEF ExpectFieldVal
  <2>4. /\ curr_state' \in DOMAIN Entry
        /\ sub_state' \in SubStates[curr_state']
        /\ AwaitsContent'
    BY <1>6, <1>0 DEF ExpectFieldVal, ParserInv, AwaitsContent, counts
  <2>5. QED
    BY <1>6, <1>0, <2>1, <2>2, <2>3, <2>4, FittingStep
    DEF ExpectFieldVal, ParserInv, ParserTypeOK, Contexts, counts
<1>7. CASE ExpectFieldEnd(c, n)
  <2>1. ctx' \in Contexts /\ StepFits
    BY <1>7, <1>a, ByteFits DEF ExpectFieldEnd, Due
  <2>2. QED
    BY <1>7, <1>0, <2>1, FittingStep
    DEF ExpectFieldEnd, Due, ParserInv, ParserTypeOK, AwaitsContent, Contexts, text, counts
<1>8. CASE ExpectHeaderEnd(c, n)
  <2>0. \A h \in Fields("content-length") : h[2] \in Seq(Symbols)
    BY <1>0 DEF Fields
  <2>1. ctx' \in Contexts /\ StepFits
    BY <1>8, <1>a, ByteFits DEF ExpectHeaderEnd
  <2> DEFINE Fine == /\ curr_state' \in DOMAIN Entry
                     /\ sub_state' \in SubStates[curr_state']
                     /\ got' \in Nat /\ expect' \in Nat /\ hex' \in Seq(Symbols)
                     /\ AwaitsContent'
  <2>a. ASSUME UNCHANGED <<curr_state, sub_state, counts>> PROVE Fine
    BY <1>8, <1>0, <2>a DEF ExpectHeaderEnd, AwaitsContent, counts
  <2>b. ASSUME Enter("RequestLine"), UNCHANGED counts PROVE Fine
    BY <1>0, <2>b DEF AwaitsContent, counts
  <2>c. ASSUME Enter("Chunk"), got' = 0, expect' = 0, hex' = <<>> PROVE Fine
    BY <1>a, <2>c DEF AwaitsContent
  <2>d. ASSUME NEW h \in Fields("content-length"), IsNumber(h[2]), NumberOf(h[2]) # 0,
               Enter("ContentLength"), got' = 0, expect' = NumberOf(h[2]), UNCHANGED hex
        PROVE Fine
    <3>1. NumberOf(h[2]) \in Nat \ {0}
      BY <1>c, <2>0, <2>d
    <3> HIDE DEF NumberOf
    <3>2. QED
      BY <1>0, <2>d, <3>1 DEF AwaitsContent
  <2>2. Fine
    <3> HIDE DEF Fine, Enter
    <3>1. QED
      BY <1>8, <2>a, <2>b, <2>c, <2>d DEF ExpectHeaderEnd
  <2>3. QED
    BY <1>8, <1>0, <2>1, <2>2, FittingStep
    DEF ExpectHeaderEnd, ParserInv, ParserTypeOK, Contexts, text
<1>9. CASE BodyPiece(n)
  <2>1. PICK evs \in Seq(Events) : TakesPiece(n, evs)
    BY <1>9, <1>a DEF BodyPiece
  <2>2. got < expect /\ ParserTypeOK
    BY <1>9 DEF BodyPiece, ParserInv, AwaitsContent
  <2>3. /\ ctx' \in Contexts /\ StepFits
        /\ got' \in Nat /\ got' = got + Increasement(n) /\ got' <= expect
    BY <2>1, <2>2, PieceFits
  <2>4. /\ curr_state' \in DOMAIN Entry
        /\ sub_state' \in SubStates[curr_state']
        /\ AwaitsContent'
    BY <1>9, <1>0, <2>1, <2>3 DEF BodyPiece, TakesPiece, AwaitsContent
  <2>5. QED
    BY <1>0, <2>1, <2>3, <2>4, FittingStep
    DEF TakesPiece, ParserInv, ParserTypeOK, Contexts, text
<1>10. CASE ExpectLength(c, n)
  <2>1. ctx' \in Contexts /\ StepFits
    BY <1>10, <1>a, ByteFits DEF ExpectLength
  <2>2. hex' \in Seq(Symbols)
    BY <1>10, <1>0, <1>b DEF ExpectLength
  <2>3. got = 0
    BY <1>10 DEF ExpectLength, ParserInv, AwaitsContent
  <2>4. /\ curr_state' \in DOMAIN Entry
        /\ sub_state' \in SubStates[curr_state']
        /\ AwaitsContent'
    BY <1>10, <1>0, <2>3 DEF ExpectLength, AwaitsContent
  <2>5. QED
    BY <1>10, <1>0, <2>1, <2>2, <2>4, FittingStep
    DEF ExpectLength, ParserInv, ParserTypeOK, Contexts, text
<1>11. CASE GetInitialCr(c, n)
  <2>1. ctx' \in Contexts /\ StepFits
    BY <1>11, <1>a, ByteFits DEF GetInitialCr
  <2>2. got = 0 /\ expect' \in Nat
    BY <1>11, <1>0, <1>c DEF GetInitialCr, ParserInv, AwaitsContent
  <2>3. /\ curr_state' \in DOMAIN Entry
        /\ sub_state' \in SubStates[curr_state']
        /\ AwaitsContent'
    BY <1>11, <1>0, <2>2 DEF GetInitialCr, AwaitsContent
  <2>4. QED
    BY <1>11, <1>0, <2>1, <2>2, <2>3, FittingStep
    DEF GetInitialCr, ParserInv, ParserTypeOK, Contexts, text
<1>12. CASE ChunkData(n)
  <2>1. TakesPiece(n, <<"OnPartofBody">>)
    BY <1>12 DEF ChunkData
  <2>2. got < expect /\ ParserTypeOK
    BY <1>12 DEF ChunkData, ParserInv, AwaitsContent
  <2>3. /\ ctx' \in Contexts /\ StepFits
        /\ got' \in Nat /\ got' = got + Increasement(n) /\ got' <= expect
    BY <1>a, <2>1, <2>2, PieceFits
  <2>4. /\ curr_state' \in DOMAIN Entry
        /\ sub_state' \in SubStates[curr_state']
        /\ AwaitsContent'
    BY <1>12, <1>0, <2>1, <2>3 DEF ChunkData, TakesPiece, AwaitsContent
  <2>5. QED
    BY <1>0, <2>1, <2>3, <2>4, FittingStep
    DEF TakesPiece, ParserInv, ParserTypeOK, Contexts, text
<1>13. CASE ExpectChunkCr(c, n)
  <2>1. ctx' \in Contexts /\ StepFits
    BY <1>13, <1>a, ByteFits DEF ExpectChunkCr, Due
  <2>2. QED
    BY <1>13, <1>0, <2>1, FittingStep
    DEF ExpectChunkCr, Due, ParserInv, ParserTypeOK, AwaitsContent, Contexts, text, counts
<1>14. CASE ExpectChunkLf(c, n)
  <2>1. ctx' \in Contexts /\ StepFits
    BY <1>14, <1>a, ByteFits DEF ExpectChunkLf
  <2>2. QED
    BY <1>14, <1>0, <1>a, <2>1, FittingStep
    DEF ExpectChunkLf, ParserInv, ParserTypeOK, AwaitsContent, Contexts, text
<1>15. CASE FinishWaitCr(c, n)
  <2>1. ctx' \in Contexts /\ StepFits
    BY <1>15, <1>a, ByteFits DEF FinishWaitCr, Due
  <2>2. QED
    BY <1>15, <1>0, <2>1, FittingStep
    DEF FinishWaitCr, Due, ParserInv, ParserTypeOK, AwaitsContent, Contexts, text, counts
<1>16. CASE FinishWaitLf(c, n)
  <2>1. ctx' \in Contexts /\ StepFits
    BY <1>16, <1>a, ByteFits DEF FinishWaitLf
  <2>2. QED
    BY <1>16, <1>0, <2>1, FittingStep
    DEF FinishWaitLf, ParserInv, ParserTypeOK, AwaitsContent, Contexts, text, counts
<1>17. QED
  BY <1>1, <1>2, <1>3, <1>4, <1>5, <1>6, <1>7, <1>8, <1>9, <1>10, <1>11,
     <1>12, <1>13, <1>14, <1>15, <1>16 DEF Consume

\* The parser's invariant holds of a fresh parser.
LEMMA ParserInitInv == ASSUME ParserInit PROVE ParserInv
<1>0. /\ "RequestLine" \in DOMAIN Entry
      /\ "S_EXPECT_METHOD" \in SubStates["RequestLine"]
      /\ FALSE \in BOOLEAN
  BY DEF Entry, SubStates
<1>a. <<>> \in Seq(Symbols) /\ <<>> \in Seq(Events)
  OBVIOUS
<1>b. ctx \in Contexts
  BY <1>0, <1>a DEF ParserInit, Contexts
<1>1. ParserTypeOK
  <2>1. method \in BOOLEAN
    BY Zenon DEF ParserInit
  <2>2. QED
    BY <1>0, <1>a, <1>b, <2>1 DEF ParserInit, ParserTypeOK, Contexts
<1>2. AwaitsContent
  BY DEF ParserInit, AwaitsContent, In
<1>3. ctx.events = <<>>
  BY DEF ParserInit
<1>4. PiecesFit
  BY <1>3 DEF PiecesFit
<1>5. QED
  BY <1>1, <1>2, <1>4 DEF ParserInv

\* The parser's invariant survives a byte or a piece, and clear_request.
LEMMA ParserNextInv ==
  ASSUME ParserInv,
         [ClearRequest \/ \E c \in Symbols, n \in Lengths : Consume(c, n)]_pvars
  PROVE  ParserInv'
<1>1. CASE ClearRequest
  BY <1>1 DEF ClearRequest, ParserInv, ParserTypeOK, AwaitsContent, PiecesFit, In, counts
<1>2. CASE \E c \in Symbols, n \in Lengths : Consume(c, n)
  <2>1. Lengths \subseteq Nat \ {0}
    BY ParserAssumption
  <2>2. QED
    BY <1>2, <2>1, ConsumeKeepsInv
<1>3. CASE UNCHANGED pvars
  BY <1>3 DEF pvars, text, counts, ParserInv, ParserTypeOK, AwaitsContent, PiecesFit, In
<1>4. QED
  BY <1>1, <1>2, <1>3

(* The parser's variables keep their types: a sub state always belongs to  *)
(* its super state, and a number that is converted is one.                 *)
THEOREM TypeCorrect == ParserSpec => []ParserTypeOK
<1>1. ParserInv => ParserTypeOK
  BY DEF ParserInv
<1>2. QED
  BY <1>1, ParserInitInv, ParserNextInv, PTL DEF ParserSpec

(* parse never steps over the end of a fragment and hands over no empty    *)
(* piece of a body, however long bodies and chunks are and wherever the    *)
(* fragments end.                                                          *)
THEOREM PiecesHaveBytes == ParserSpec => []PiecesFit
<1>1. ParserInv => PiecesFit
  BY DEF ParserInv
<1>2. QED
  BY <1>1, ParserInitInv, ParserNextInv, PTL DEF ParserSpec

----------------------------------------------------------------------------
(* Where the thread is in the bytes.                                       *)

\* The bytes that were parsed, while parse runs up to its iterator.
Place == received - ToEnd[IF pc = "parse" THEN cur ELSE input]

\* Where the loop's thread may be.
Places == {"idle", "recv", "extract", "parse", "closed"}

\* The input buffer holds the last bytes that were received, and the
\* iterator of parse what is left of them.
ChainsInv ==
  /\ raws \in Memories /\ input \in Chains /\ body \in Chains /\ cur \in Chains
  /\ Unread(input) /\ Distinct(input) /\ Apart(body, input)
  /\ received \in Nat /\ ToEnd[input] <= received
  /\ Content(raws, input) = Counted(received - ToEnd[input], received)
  /\ pc = "parse" => /\ ToEnd[cur] <= ToEnd[input]
                     /\ Rest(raws, cur, input, ToEnd[input] - ToEnd[cur])
  /\ pc # "parse" => cur = End

\* The rest of a buffer with the last bytes received holds the last of them.
LEMMA AtIsCounted ==
  ASSUME NEW mem \in Memories, NEW c \in Chains, NEW r \in Nat, ToEnd[c] <= r,
         Content(mem, c) = Counted(r - ToEnd[c], r),
         NEW a, NEW m \in Nat, m <= ToEnd[c], Rest(mem, a, c, m)
  PROVE  /\ ToEnd[a] \in Nat /\ ToEnd[a] = ToEnd[c] - m
         /\ Content(mem, a) = Counted(r - ToEnd[a], r)
<1>1. ToEnd[a] \in Nat /\ ToEnd[a] = ToEnd[c] - m /\ ToEnd[c] \in Nat
  BY ToEndOfRest
<1> DEFINE p == r - ToEnd[c]
<1>2. p \in Nat /\ p + m <= r /\ p + m = r - ToEnd[a]
  BY <1>1
<1> HIDE DEF p
<1>3. Drop(Counted(p, r), m) = Counted(p + m, r)
  BY <1>2, DropCounted
<1>4. Content(mem, a) = Drop(Counted(p, r), m)
  BY DEF Rest, p
<1>5. QED
  BY <1>1, <1>2, <1>3, <1>4

\* The first of the bytes left is the one the iterator points to.
LEMMA FirstIsDeref ==
  ASSUME NEW mem \in Memories, NEW a \in Chains, Unread(a), a # <<>>,
         NEW r \in Nat, ToEnd[a] <= r, Content(mem, a) = Counted(r - ToEnd[a], r)
  PROVE  /\ Deref(mem, a) = r - ToEnd[a] + 1
         /\ ToEnd[a] \in Nat \ {0}
<1>1. /\ readable_size(Head(a)) \in Nat \ {0} /\ ToEnd[Tail(a)] \in Nat
      /\ ToEnd[a] = readable_size(Head(a)) + ToEnd[Tail(a)]
  BY UnreadParts
<1>2. ToEnd[a] \in Nat \ {0}
  BY <1>1
<1> DEFINE row == Row(mem, Head(a))
           rest == Content(mem, Tail(a))
           p == r - ToEnd[a]
<1>3. /\ Content(mem, a) = row \o rest /\ row \in Seq(Nat) /\ rest \in Seq(Nat)
  BY ContentParts
<1>4. /\ Len(row) = readable_size(Head(a))
      /\ \A i \in 1 .. readable_size(Head(a)) : row[i] = mem[Head(a).raw][Head(a).start + i]
  BY ChainParts, RowIs
<1>5. p \in Nat /\ p <= r /\ r - p \in Nat \ {0}
  BY <1>2
<1>6. row[1] = Deref(mem, a)
  <2>1. 1 \in 1 .. readable_size(Head(a))
    BY <1>1
  <2>2. QED
    BY <1>4, <2>1 DEF Deref
<1> HIDE DEF row, rest, p
<1>7. (row \o rest)[1] = row[1]
  <2>1. 1 \in 1 .. Len(row) + Len(rest) /\ 1 <= Len(row)
    <3>1. Len(rest) \in Nat
      BY <1>3, LenProperties
    <3>2. QED
      BY <1>1, <1>4, <3>1
  <2>2. QED
    BY <1>3, <2>1, ConcatProperties
<1>8. Counted(p, r)[1] = p + 1
  <2>1. 1 \in 1 .. r - p
    BY <1>5
  <2>2. QED
    BY <1>5, <2>1, CountedIs
<1>9. Content(mem, a) = Counted(p, r)
  BY DEF p
<1>10. Deref(mem, a) = p + 1
  BY <1>3, <1>6, <1>7, <1>8, <1>9
<1>11. QED
  BY <1>2, <1>10 DEF p

\* The ends of two chains put together.
LEMMA EndsConcat ==
  ASSUME NEW a \in Chains, NEW b \in Chains
  PROVE  Ends(a \o b) \subseteq Ends(a) \union Ends(b)
<1> DEFINE c == a \o b
<1>1. /\ a \in Seq(Slices) /\ b \in Seq(Slices) /\ Len(a) \in Nat /\ Len(b) \in Nat
      /\ DOMAIN a = 1 .. Len(a) /\ DOMAIN b = 1 .. Len(b)
  BY LenProperties DEF Chains
<1>2. /\ c \in Seq(Slices) /\ Len(c) = Len(a) + Len(b)
      /\ \A i \in 1 .. Len(a) + Len(b) : c[i] = IF i <= Len(a) THEN a[i] ELSE b[i - Len(a)]
  BY <1>1, ConcatProperties
<1>3. DOMAIN c = 1 .. Len(a) + Len(b)
  BY <1>2, LenProperties
<1> HIDE DEF c
<1> SUFFICES ASSUME NEW x \in Ends(c) PROVE x \in Ends(a) \union Ends(b)
  BY DEF c
<1>4. PICK i \in 1 .. Len(a) + Len(b) : x = <<c[i].raw, c[i].end>>
  BY <1>3 DEF Ends
<1>5. CASE i <= Len(a)
  <2>1. i \in DOMAIN a /\ c[i] = a[i]
    BY <1>1, <1>2, <1>5
  <2>2. QED
    BY <1>4, <2>1 DEF Ends
<1>6. CASE ~(i <= Len(a))
  <2>1. i - Len(a) \in DOMAIN b /\ c[i] = b[i - Len(a)]
    BY <1>1, <1>2, <1>6
  <2>2. QED
    BY <1>4, <2>1 DEF Ends
<1>7. QED
  BY <1>5, <1>6

\* A piece of what is left of the buffer is no obstacle to writing to it.
LEMMA ApartFromPiece ==
  ASSUME NEW a \in Chains, NEW c \in Chains, Distinct(c), NEW u, NEW s \in Chains,
         Ends(u) \subseteq Ends(c), Under(s, u), Apart(a, c)
  PROVE  Apart(a \o s, c)
<1>1. ASSUME NEW x \in Ends(s), NEW y \in Ends(c), x[1] = y[1] PROVE x[2] <= y[2]
  <2>1. PICK z \in Ends(u) : x[1] = z[1] /\ x[2] <= z[2]
    BY DEF Under
  <2>2. PICK i \in DOMAIN c : y = <<c[i].raw, c[i].end>>
    BY DEF Ends
  <2>3. PICK j \in DOMAIN c : z = <<c[j].raw, c[j].end>>
    BY <2>1 DEF Ends
  <2>4. c[i].raw = c[j].raw
    BY <1>1, <2>1, <2>2, <2>3
  <2>5. i = j
    BY <2>4 DEF Distinct
  <2>6. QED
    BY <2>1, <2>2, <2>3, <2>5
<1>2. QED
  BY <1>1, EndsConcat DEF Apart

----------------------------------------------------------------------------
(* The steps keep the buffers.                                             *)

\* The invariant of the buffers.
InputInv ==
  /\ ChainsInv /\ ParserInv
  /\ stream \in Seq(Messages) /\ bytes \in Seq(Symbols)
  /\ sent \in Nat /\ received <= sent /\ sent <= Len(bytes)
  /\ complete \in BOOLEAN /\ pc \in Places
  /\ ctx.err => pc \in {"parse", "closed"}
  /\ pc = "idle" /\ ~complete => input = <<>>

\* What a step of the thread outside of parse leaves as it is.
Quiet ==
  /\ UNCHANGED <<stream, bytes, complete, handed, pvars>>
  /\ Place' = Place
  /\ SymbolsOf(body)' = SymbolsOf(body)

\* A body whose memory keeps its bytes keeps its symbols.
LEMMA BodySame ==
  ASSUME bytes' = bytes, Content(raws', body') = Content(raws, body)
  PROVE  SymbolsOf(body)' = SymbolsOf(body)
BY DEF SymbolsOf, SymbolAt

\* The parser's invariant survives a step without the parser.
LEMMA ParserSame ==
  ASSUME ParserInv, UNCHANGED pvars
  PROVE  ParserInv' /\ ctx' = ctx
BY ParserNextInv DEF pvars

\* Steps that leave the buffers alone and do not enter or leave parse.
LEMMA SameChains ==
  ASSUME ChainsInv, UNCHANGED <<raws, input, body, cur, received>>,
         (pc = "parse") <=> (pc' = "parse")
  PROVE  ChainsInv' /\ Place' = Place
<1>1. Place' = Place
  BY DEF Place
<1>2. ChainsInv'
  BY DEF ChainsInv
<1>3. QED
  BY <1>1, <1>2

\* The buffers' invariant survives what the client sends.
LEMMA ArrivesKeeps ==
  ASSUME InputInv, Arrives
  PROVE  InputInv' /\ Quiet
<1>1. /\ UNCHANGED <<stream, bytes, received, raws, input, body, cur, complete, pc, handed, pvars>>
      /\ sent' \in sent + 1 .. Len(bytes)
  BY DEF Arrives, conn
<1>2. ChainsInv' /\ Place' = Place
  BY <1>1, SameChains DEF InputInv
<1>3. ParserInv' /\ ctx' = ctx
  BY <1>1, ParserSame DEF InputInv
<1>4. SymbolsOf(body)' = SymbolsOf(body)
  BY <1>1, BodySame
<1>5. Quiet
  BY <1>1, <1>2, <1>4 DEF Quiet
<1>6. sent' \in Nat /\ received' <= sent' /\ sent' <= Len(bytes')
  <2>1. Len(bytes) \in Nat /\ sent \in Nat /\ received \in Nat /\ received <= sent
    BY LenProperties DEF InputInv, ChainsInv
  <2>2. QED
    BY <1>1, <2>1
<1>7. InputInv'
  BY <1>1, <1>2, <1>3, <1>6 DEF InputInv
<1>8. QED
  BY <1>5, <1>7

\* The buffers' invariant survives the event that starts recv.
LEMMA OnStreamReadableKeeps ==
  ASSUME InputInv, OnStreamReadable
  PROVE  InputInv' /\ Quiet
<1>1. /\ UNCHANGED <<stream, bytes, sent, received, raws, input, body, cur, complete, handed, pvars>>
      /\ pc = "idle" /\ pc' = "recv"
  BY DEF OnStreamReadable, conn, client, Goto
<1>2. ChainsInv' /\ Place' = Place
  BY <1>1, SameChains DEF InputInv
<1>3. ParserInv' /\ ctx' = ctx
  BY <1>1, ParserSame DEF InputInv
<1>4. SymbolsOf(body)' = SymbolsOf(body)
  BY <1>1, BodySame
<1>5. Quiet
  BY <1>1, <1>2, <1>4 DEF Quiet
<1>6. InputInv'
  BY <1>1, <1>2, <1>3 DEF InputInv, Places
<1>7. QED
  BY <1>5, <1>6

\* The memory in use includes the input buffer's and the body's.
LEMMA InUseHolds ==
  /\ Held(input) \subseteq InUse(input, body)
  /\ Held(body) \subseteq InUse(input, body)
BY DEF InUse

\* The buffers' invariant survives the end of recv, where no fill was exact.
LEMMA ReadFindsNothingKeeps ==
  ASSUME InputInv, ReadFindsNothing, ~ExactFills
  PROVE  InputInv' /\ Quiet
<1>1. /\ UNCHANGED <<stream, bytes, sent, received, raws, body, cur, complete, handed, pvars>>
      /\ pc = "recv" /\ pc' = "extract"
      /\ input' = input
  BY DEF ReadFindsNothing, client, Goto, Expanded
<1>2. ChainsInv' /\ Place' = Place
  BY <1>1, SameChains DEF InputInv
<1>3. ParserInv' /\ ctx' = ctx
  BY <1>1, ParserSame DEF InputInv
<1>4. SymbolsOf(body)' = SymbolsOf(body)
  BY <1>1, BodySame
<1>5. Quiet
  BY <1>1, <1>2, <1>4 DEF Quiet
<1>6. InputInv'
  BY <1>1, <1>2, <1>3 DEF InputInv, Places
<1>7. QED
  BY <1>5, <1>6

\* Bytes go to the end of the buffer, and the body's stay as they are.
LEMMA ReadFromFdKeeps ==
  ASSUME InputInv, ReadFromFd
  PROVE  InputInv' /\ Quiet
<1> DEFINE held == InUse(input, body)
           chain == Expanded(input, held)
           left == sent - received
           n == Fits(chain, left)
           p == received - ToEnd[input]
<1>1. /\ UNCHANGED <<stream, bytes, sent, body, cur, complete, pc, handed, pvars>>
      /\ pc = "recv"
      /\ received < sent /\ HasMemory(input, held)
      /\ input' = AdvancedWrite(chain, n)
      /\ raws' = Written(raws, chain, received + 1, n)
      /\ received' = received + n
  BY DEF ReadFromFd, client
<1>2. /\ raws \in Memories /\ input \in Chains /\ body \in Chains /\ cur \in Chains
      /\ Unread(input) /\ Distinct(input) /\ Apart(body, input)
      /\ received \in Nat /\ ToEnd[input] <= received
      /\ Content(raws, input) = Counted(p, received)
      /\ sent \in Nat /\ sent <= Len(bytes) /\ Len(bytes) \in Nat
      /\ cur = End
  BY <1>1, LenProperties DEF InputInv, ChainsInv
<1>3. Held(input) \subseteq held /\ Held(body) \subseteq held
  BY InUseHolds
<1> HIDE DEF held
<1>4. /\ chain \in Chains /\ chain # <<>>
      /\ writable_size(Last(chain)) \in Nat \ {0}
      /\ Distinct(chain)
      /\ Content(raws, chain) = Content(raws, input)
      /\ FrontUnread(chain)
      /\ Apart(body, chain)
  BY <1>1, <1>2, <1>3, ExpandedIs
<1> HIDE DEF chain
<1>5. left \in Nat \ {0}
  BY <1>1, <1>2
<1> HIDE DEF left
<1>6. n \in 1 .. left /\ n <= writable_size(Last(chain))
  BY <1>4, <1>5, FitsSome
<1> HIDE DEF n
<1>7. n \in Nat \ {0}
  BY <1>5, <1>6
<1>8. /\ input' \in Chains /\ Unread(input') /\ Distinct(input') /\ raws' \in Memories
      /\ Content(raws', input') = Content(raws, chain) \o Counted(received, received + n)
      /\ Content(raws', body) = Content(raws, body) /\ Apart(body, input')
  <2> DEFINE new == AdvancedWrite(chain, n)
             mem2 == Written(raws, chain, received + 1, n)
  <2>1. /\ new \in Chains /\ Unread(new) /\ Distinct(new) /\ mem2 \in Memories
        /\ Content(mem2, new) = Content(raws, chain) \o Counted(received, received + n)
        /\ \A a \in Chains : Apart(a, chain) =>
              Content(mem2, a) = Content(raws, a) /\ Apart(a, new)
    <3>1. writable_size(Last(chain)) \in Nat /\ n <= writable_size(Last(chain))
      BY <1>4, <1>6
    <3>2. received \in Nat /\ raws \in Memories
      BY <1>2
    <3>3. QED
      BY <1>4, <1>7, <3>1, <3>2, FilledTail, ZenonT(40)
  <2>2. input' = new /\ raws' = mem2
    BY <1>1
  <2> HIDE DEF new, mem2
  <2>3. QED
    BY <1>2, <1>4, <2>1, <2>2
<1>9. ToEnd[input] \in Nat /\ p \in Nat /\ p <= received
  <2>1. ToEnd[input] \in Nat
    BY <1>2, ToEndIs
  <2>2. QED
    BY <1>2, <2>1
<1> HIDE DEF p
<1>10. Content(raws', input') = Counted(p, received')
  <2>1. received + n \in Nat /\ received <= received + n
    BY <1>2, <1>7
  <2>2. Counted(p, received) \o Counted(received, received + n) = Counted(p, received + n)
    BY <1>2, <1>9, <2>1, CountedConcat
  <2>3. QED
    BY <1>1, <1>2, <1>4, <1>8, <2>2
<1>11. received' \in Nat /\ received' <= sent /\ p <= received'
  BY <1>1, <1>2, <1>5, <1>6, <1>7, <1>9 DEF left
<1>12. ToEnd[input'] \in Nat /\ ToEnd[input'] = received' - p
  <2>1. Len(Content(raws', input')) = ToEnd[input'] /\ ToEnd[input'] \in Nat
    BY <1>8, ContentLength
  <2>2. Len(Counted(p, received')) = received' - p
    BY <1>9, <1>11, CountedIs
  <2>3. QED
    BY <1>10, <2>1, <2>2
<1>13. p = received' - ToEnd[input'] /\ ToEnd[input'] <= received'
  <2>1. PICK e \in Nat : e = ToEnd[input']
    BY <1>12
  <2>2. PICK q \in Nat : q = received'
    BY <1>11
  <2>3. PICK d \in Nat : d = p
    BY <1>9
  <2>4. e = q - d /\ d <= q
    BY <1>11, <1>12, <2>1, <2>2, <2>3
  <2>5. d = q - e /\ e <= q
    BY <2>4
  <2>6. QED
    BY <2>1, <2>2, <2>3, <2>5
<1>14. ChainsInv'
  <2>1. Content(raws', input') = Counted(received' - ToEnd[input'], received')
    BY <1>10, <1>13
  <2>2. QED
    BY <1>1, <1>2, <1>8, <1>11, <1>13, <2>1 DEF ChainsInv
<1>15. Place' = Place
  BY <1>1, <1>13 DEF Place, p
<1>16. SymbolsOf(body)' = SymbolsOf(body)
  BY <1>1, <1>8, BodySame
<1>17. Quiet
  BY <1>1, <1>15, <1>16 DEF Quiet
<1>18. ParserInv' /\ ctx' = ctx
  BY <1>1, ParserSame DEF InputInv
<1>19. InputInv'
  BY <1>1, <1>11, <1>14, <1>18 DEF InputInv
<1>20. QED
  BY <1>17, <1>19

\* The buffers' invariant survives the start of parse.
LEMMA ExtractKeeps ==
  ASSUME InputInv, Extract
  PROVE  InputInv' /\ Quiet
<1>1. /\ UNCHANGED <<stream, bytes, sent, received, raws, input, body, complete, handed, pvars>>
      /\ pc = "extract" /\ pc' = "parse"
      /\ cur' = input
  BY DEF Extract, conn, client, Goto, Begin
<1>2. raws \in Memories /\ input \in Chains /\ Unread(input) /\ ToEnd[input] \in Nat
  BY ToEndIs DEF InputInv, ChainsInv
<1>3. Rest(raws, input, input, 0)
  BY <1>2, RestOfAll
<1>4. ToEnd[input] <= ToEnd[input] /\ ToEnd[input] - ToEnd[input] = 0
  BY <1>2
<1>5. ChainsInv'
  <2>1. Rest(raws', cur', input', ToEnd[input'] - ToEnd[cur']) /\ ToEnd[cur'] <= ToEnd[input']
    BY <1>1, <1>3, <1>4
  <2>2. QED
    BY <1>1, <2>1 DEF InputInv, ChainsInv
<1>6. Place' = Place
  BY <1>1 DEF Place
<1>7. ParserInv' /\ ctx' = ctx
  BY <1>1, ParserSame DEF InputInv
<1>8. SymbolsOf(body)' = SymbolsOf(body)
  BY <1>1, BodySame
<1>9. Quiet
  BY <1>1, <1>6, <1>8 DEF Quiet
<1>10. InputInv'
  BY <1>1, <1>5, <1>7 DEF InputInv, Places
<1>11. QED
  BY <1>9, <1>10

\* The buffers' invariant survives the end of extract_and_handle_request.
LEMMA ExtractDoneKeeps ==
  ASSUME InputInv, ExtractDone
  PROVE  InputInv' /\ Quiet
<1>1. /\ UNCHANGED <<stream, bytes, sent, received, raws, input, body, cur, complete, handed, pvars>>
      /\ pc = "extract" /\ pc' = "idle"
      /\ ToEnd[input] = 0 \/ complete
  BY DEF ExtractDone, conn, client, Goto, ReadableSize, Begin
<1>2. ChainsInv' /\ Place' = Place
  BY <1>1, SameChains DEF InputInv
<1>3. ParserInv' /\ ctx' = ctx
  BY <1>1, ParserSame DEF InputInv
<1>4. SymbolsOf(body)' = SymbolsOf(body)
  BY <1>1, BodySame
<1>5. Quiet
  BY <1>1, <1>2, <1>4 DEF Quiet
<1>6. ~complete => input = <<>>
  BY <1>1, NothingToEnd DEF InputInv, ChainsInv
<1>7. InputInv'
  BY <1>1, <1>2, <1>3, <1>6 DEF InputInv, Places
<1>8. QED
  BY <1>5, <1>7

\* What parse has read is what leaves the buffer.
LEMMA ParseReturnsKeeps ==
  ASSUME InputInv, ParseReturns
  PROVE  InputInv' /\ Quiet
<1> DEFINE m == ToEnd[input] - ToEnd[cur]
           held == InUse(input', body)
<1>1. /\ UNCHANGED <<stream, bytes, sent, received, body, complete, handed, pvars>>
      /\ pc = "parse" /\ pc' = (IF ctx.err THEN "closed" ELSE "extract")
      /\ input' = CommitConsumed[input][m]
      /\ raws' = Freed(raws, held)
      /\ cur' = End
  BY DEF ParseReturns, client, Goto, Consumed, ReadableSize, Begin
<1>2. /\ raws \in Memories /\ input \in Chains /\ body \in Chains /\ cur \in Chains
      /\ Unread(input) /\ Distinct(input) /\ Apart(body, input)
      /\ received \in Nat /\ ToEnd[input] <= received
      /\ Content(raws, input) = Counted(received - ToEnd[input], received)
      /\ ToEnd[cur] <= ToEnd[input] /\ Rest(raws, cur, input, m)
  BY <1>1 DEF InputInv, ChainsInv
<1>3. ToEnd[input] \in Nat /\ ToEnd[cur] \in Nat
  BY <1>2, ToEndIs
<1>4. m \in Nat /\ m <= ToEnd[input] /\ ToEnd[cur] = ToEnd[input] - m
  BY <1>2, <1>3
<1> HIDE DEF m
<1>5. Rest(raws, input', input, m)
  BY <1>1, <1>2, <1>4, CommittedRest
<1>6. /\ ToEnd[input'] \in Nat /\ ToEnd[input'] = ToEnd[input] - m
      /\ Content(raws, input') = Counted(received - ToEnd[input'], received)
  BY <1>2, <1>4, <1>5, AtIsCounted
<1>7. /\ input' \in Chains /\ Unread(input') /\ Distinct(input')
      /\ Ends(input') \subseteq Ends(input)
  BY <1>2, <1>5 DEF Rest
<1>8. Held(input') \subseteq held /\ Held(body) \subseteq held
  BY DEF InUse
<1> HIDE DEF held
<1>9. /\ raws' \in Memories
      /\ Content(raws', input') = Content(raws, input')
      /\ Content(raws', body) = Content(raws, body)
  BY <1>1, <1>2, <1>7, <1>8, FreedIs
<1>10. Apart(body, input')
  BY <1>2, <1>7 DEF Apart
<1>11. pc' # "parse" /\ pc' \in {"closed", "extract"}
  BY <1>1
<1>12. End \in Chains
  BY NoSlices DEF End
<1>13. ChainsInv'
  <2>1. ToEnd[input'] <= received
    BY <1>2, <1>3, <1>4, <1>6
  <2>2. QED
    BY <1>1, <1>2, <1>6, <1>7, <1>9, <1>10, <1>11, <1>12, <2>1 DEF ChainsInv
<1>14. Place' = Place
  BY <1>1, <1>4, <1>6, <1>11 DEF Place
<1>15. SymbolsOf(body)' = SymbolsOf(body)
  BY <1>1, <1>9, BodySame
<1>16. Quiet
  BY <1>1, <1>14, <1>15 DEF Quiet
<1>17. ParserInv' /\ ctx' = ctx
  BY <1>1, ParserSame DEF InputInv
<1>18. ctx'.err => pc' \in {"parse", "closed"}
  BY <1>1, <1>17
<1>19. InputInv'
  BY <1>1, <1>11, <1>13, <1>17, <1>18 DEF InputInv, Places
<1>20. QED
  BY <1>16, <1>19

\* The buffers' invariant survives an answer, which lets go of the body.
LEMMA AnsweredKeeps ==
  ASSUME InputInv, Answered
  PROVE  InputInv' /\ Place' = Place /\ SymbolsOf(body)' = <<>>
<1>1. /\ UNCHANGED <<stream, bytes, sent, received, input, cur, handed>>
      /\ UNCHANGED <<curr_state, sub_state, method, key, val, counts, ctx>> /\ headers' = {}
      /\ pc \in {"extract", "idle"} /\ pc' = "extract"
      /\ complete /\ complete' = FALSE
      /\ body' = <<>> /\ raws' = Freed(raws, Held(input))
  BY DEF Answered, PrepareForNextReq, ClearRequest, client
<1>a. stream' = stream /\ bytes' = bytes /\ sent' = sent
  BY DEF Answered, PrepareForNextReq, client
<1>2. raws \in Memories /\ input \in Chains
  BY DEF InputInv, ChainsInv
<1>3. raws' \in Memories /\ Content(raws', input) = Content(raws, input)
  BY <1>1, <1>2, FreedIs
<1>4. body' \in Chains /\ Apart(body', input) /\ Content(raws', body') = <<>>
  BY <1>1, NoSlices, ContentOfNone DEF Apart, Ends
<1>5. ChainsInv'
  BY <1>1, <1>3, <1>4 DEF InputInv, ChainsInv
<1>6. Place' = Place
  BY <1>1 DEF Place
<1>7. SymbolsOf(body)' = <<>>
  BY <1>4 DEF SymbolsOf
<1>8. ParserInv'
  <2>1. ClearRequest
    BY DEF Answered, PrepareForNextReq
  <2>2. QED
    BY <2>1, ParserNextInv DEF InputInv
<1>9. ctx'.err => pc' \in {"parse", "closed"}
  BY <1>1 DEF InputInv
<1>10. InputInv'
  BY <1>1, <1>a, <1>5, <1>8, <1>9 DEF InputInv, Places
<1>11. QED
  BY <1>6, <1>7, <1>10

----------------------------------------------------------------------------
(* A round of parse.                                                       *)

\* The symbols of the k bytes behind the first p.
BytesFrom(p, k) == [i \in 1 .. k |-> bytes[p + i]]

\* The symbols of two chains put together.
LEMMA SymbolsConcat ==
  ASSUME raws \in Memories, NEW a \in Chains, NEW b \in Chains
  PROVE  SymbolsOf(a \o b) = SymbolsOf(a) \o SymbolsOf(b)
<1> DEFINE x == Content(raws, a)
           y == Content(raws, b)
           xy == Content(raws, a \o b)
           T == {SymbolAt(k) : k \in Nat}
           sa == SymbolsOf(a)
           sb == SymbolsOf(b)
           sab == SymbolsOf(a \o b)
<1>1. x \in Seq(Nat) /\ y \in Seq(Nat) /\ xy = x \o y
  BY ContentConcat, ContentLength
<1>2. sa = [i \in DOMAIN x |-> SymbolAt(x[i])] /\ sb = [i \in DOMAIN y |-> SymbolAt(y[i])]
      /\ sab = [i \in DOMAIN xy |-> SymbolAt(xy[i])]
  BY DEF SymbolsOf
<1>3. \A k \in Nat : SymbolAt(k) \in T
  OBVIOUS
<1> HIDE DEF x, y, xy, sa, sb, sab, T
<1>4. /\ xy \in Seq(Nat) /\ Len(xy) = Len(x) + Len(y)
      /\ \A i \in 1 .. Len(x) + Len(y) : xy[i] = IF i <= Len(x) THEN x[i] ELSE y[i - Len(x)]
  BY <1>1, ConcatProperties
<1>5. /\ Len(x) \in Nat /\ DOMAIN x = 1 .. Len(x) /\ \A i \in 1 .. Len(x) : x[i] \in Nat
      /\ Len(y) \in Nat /\ DOMAIN y = 1 .. Len(y) /\ \A i \in 1 .. Len(y) : y[i] \in Nat
      /\ DOMAIN xy = 1 .. Len(xy) /\ \A i \in 1 .. Len(xy) : xy[i] \in Nat
  BY <1>1, <1>4, LenProperties, ElementOfSeq
<1>6. sa \in Seq(T) /\ Len(sa) = Len(x) /\ \A i \in 1 .. Len(x) : sa[i] = SymbolAt(x[i])
  BY <1>2, <1>3, <1>5
<1>7. sb \in Seq(T) /\ Len(sb) = Len(y) /\ \A i \in 1 .. Len(y) : sb[i] = SymbolAt(y[i])
  BY <1>2, <1>3, <1>5
<1>8. /\ sab \in Seq(T) /\ Len(sab) = Len(x) + Len(y)
      /\ \A i \in 1 .. Len(x) + Len(y) : sab[i] = SymbolAt(xy[i])
  <2>1. Len(xy) \in Nat
    BY <1>4, <1>5
  <2>2. sab \in Seq(T) /\ Len(sab) = Len(xy) /\ \A i \in 1 .. Len(xy) : sab[i] = SymbolAt(xy[i])
    BY <1>2, <1>3, <1>5, <2>1
  <2>3. QED
    BY <1>4, <2>2
<1>9. /\ sa \o sb \in Seq(T) /\ Len(sa \o sb) = Len(sa) + Len(sb)
      /\ \A i \in 1 .. Len(sa) + Len(sb) :
           (sa \o sb)[i] = IF i <= Len(sa) THEN sa[i] ELSE sb[i - Len(sa)]
  BY <1>6, <1>7, ConcatProperties, SMTT(30)
<1>10. ASSUME NEW i \in 1 .. Len(x) + Len(y) PROVE sab[i] = (sa \o sb)[i]
  <2>1. sab[i] = SymbolAt(xy[i])
    BY <1>8
  <2>2. xy[i] = IF i <= Len(x) THEN x[i] ELSE y[i - Len(x)]
    BY <1>4
  <2>3. (sa \o sb)[i] = IF i <= Len(x) THEN sa[i] ELSE sb[i - Len(x)]
    BY <1>6, <1>7, <1>9
  <2>4. CASE i <= Len(x)
    <3>1. i \in 1 .. Len(x)
      BY <1>5, <2>4
    <3>2. QED
      BY <1>6, <2>1, <2>2, <2>3, <2>4, <3>1
  <2>5. CASE ~(i <= Len(x))
    <3>0. Len(x) \in Nat /\ Len(y) \in Nat
      BY <1>5
    <3>a. i - Len(x) \in 1 .. Len(y)
      BY <2>5, <3>0
    <3>1. PICK j \in 1 .. Len(y) : j = i - Len(x)
      BY <3>a
    <3>2. QED
      BY <1>7, <2>1, <2>2, <2>3, <2>5, <3>1
  <2>6. QED
    BY <2>4, <2>5
<1>11. Len(sab) = Len(sa \o sb) /\ Len(sab) = Len(x) + Len(y)
  BY <1>6, <1>7, <1>8, <1>9
<1>12. sab = sa \o sb
  BY <1>8, <1>9, <1>10, <1>11, SeqEqual
<1>13. QED
  BY <1>12 DEF sab, sa, sb

\* A chain that holds bytes one after the other holds what was sent there.
LEMMA SymbolsOfCounted ==
  ASSUME NEW a \in Chains, NEW p \in Nat, NEW k \in Nat,
         Content(raws, a) = Counted(p, p + k)
  PROVE  SymbolsOf(a) = BytesFrom(p, k)
<1>1. Counted(p, p + k) = [i \in 1 .. k |-> p + i]
  BY DEF Counted
<1>2. SymbolsOf(a) = [i \in 1 .. k |-> SymbolAt(p + i)]
  BY <1>1 DEF SymbolsOf
<1>3. \A i \in 1 .. k : SymbolAt(p + i) = bytes[p + i]
  BY DEF SymbolAt
<1>4. QED
  BY <1>2, <1>3 DEF BytesFrom

\* Every step tells how much of the fragment was left.
LEMMA ConsumeTells ==
  ASSUME NEW c, NEW n, Consume(c, n)
  PROVE  ctx'.n_left = n
<1>1. ASSUME NEW evs, Emits(n, evs) PROVE ctx'.n_left = n
  BY <1>1 DEF Emits
<1>2. ASSUME NEW evs, Fails(n, evs) PROVE ctx'.n_left = n
  BY <1>2 DEF Fails
<1>3. ASSUME NEW evs, TakesPiece(n, evs) PROVE ctx'.n_left = n
  BY <1>3 DEF TakesPiece
<1>4. CASE ExpectMethod(c, n)
  BY <1>1, <1>4 DEF ExpectMethod
<1>5. CASE ExpectUriOrVersion(c, n)
  BY <1>1, <1>5 DEF ExpectUriOrVersion
<1>6. CASE ExpectCrlf(c, n)
  BY <1>1, <1>2, <1>6 DEF ExpectCrlf
<1>7. CASE ExpectFieldKey(c, n)
  BY <1>1, <1>7 DEF ExpectFieldKey
<1>8. CASE GetColon(c, n)
  BY <1>1, <1>8 DEF GetColon
<1>9. CASE ExpectFieldVal(c, n)
  BY <1>1, <1>9 DEF ExpectFieldVal
<1>10. CASE ExpectFieldEnd(c, n)
  BY <1>1, <1>2, <1>10 DEF ExpectFieldEnd, Due
<1>11. CASE ExpectHeaderEnd(c, n)
  BY <1>1, <1>2, <1>11 DEF ExpectHeaderEnd
<1>12. CASE BodyPiece(n)
  BY <1>3, <1>12 DEF BodyPiece
<1>13. CASE ExpectLength(c, n)
  BY <1>1, <1>13 DEF ExpectLength
<1>14. CASE GetInitialCr(c, n)
  BY <1>1, <1>14 DEF GetInitialCr
<1>15. CASE ChunkData(n)
  BY <1>3, <1>15 DEF ChunkData
<1>16. CASE ExpectChunkCr(c, n)
  BY <1>1, <1>2, <1>16 DEF ExpectChunkCr, Due
<1>17. CASE ExpectChunkLf(c, n)
  BY <1>1, <1>2, <1>17 DEF ExpectChunkLf
<1>18. CASE FinishWaitCr(c, n)
  BY <1>1, <1>2, <1>18 DEF FinishWaitCr, Due
<1>19. CASE FinishWaitLf(c, n)
  BY <1>1, <1>2, <1>19 DEF FinishWaitLf
<1>20. QED
  BY <1>4, <1>5, <1>6, <1>7, <1>8, <1>9, <1>10, <1>11, <1>12, <1>13, <1>14, <1>15,
     <1>16, <1>17, <1>18, <1>19 DEF Consume

\* How many bytes a round of parse steps over.
HasPiece == "OnPartofBody" \in Range(ctx'.events)
Taking == IF HasPiece THEN ctx'.step ELSE 1

\* A round of parse moves its place by what it takes, and adds a piece to the body.
Took ==
  /\ Place' = Place + Taking
  /\ \E n \in Nat \ {0} :
       /\ Taking \in 1 .. n
       /\ Place + n <= Len(bytes)
       /\ Consume(bytes[Place + 1], n)
  /\ SymbolsOf(body)' = IF HasPiece THEN SymbolsOf(body) \o BytesFrom(Place, Taking)
                                    ELSE SymbolsOf(body)
  /\ UNCHANGED <<stream, bytes>>

\* The buffers' invariant survives a round of parse; what a round takes is known.
LEMMA ParseStepKeeps ==
  ASSUME InputInv, ParseStep
  PROVE  InputInv' /\ Place \in Nat /\ Took
<1> DEFINE n == ToEnd[cur]
           m == ToEnd[input] - ToEnd[cur]
           k == Taking
<1>1. /\ UNCHANGED <<stream, bytes, sent, received, raws, input, pc>>
      /\ pc = "parse" /\ ~complete /\ ~ctx.err /\ Inside(cur)
      /\ Consume(SymbolAt(Deref(raws, cur)), n)
      /\ body' = Collected(ctx'.events, ctx'.step)
      /\ cur' = IF HasPiece THEN Advanced[cur][ctx'.step] ELSE Incremented(cur)
      /\ complete' \in BOOLEAN
  BY DEF ParseStep, client, HasPiece
<1>2. /\ raws \in Memories /\ input \in Chains /\ body \in Chains /\ cur \in Chains
      /\ Unread(input) /\ Distinct(input) /\ Apart(body, input)
      /\ received \in Nat /\ ToEnd[input] <= received
      /\ Content(raws, input) = Counted(received - ToEnd[input], received)
      /\ ToEnd[cur] <= ToEnd[input] /\ Rest(raws, cur, input, m)
      /\ ParserInv /\ bytes \in Seq(Symbols) /\ Len(bytes) \in Nat
      /\ sent \in Nat /\ received <= sent /\ sent <= Len(bytes)
  BY <1>1, LenProperties DEF InputInv, ChainsInv
<1>3. ToEnd[input] \in Nat /\ ToEnd[cur] \in Nat
  BY <1>2, ToEndIs
<1>4. m \in Nat /\ m <= ToEnd[input] /\ m + ToEnd[cur] = ToEnd[input]
  BY <1>2, <1>3
<1> HIDE DEF m
<1>5. Content(raws, cur) = Counted(received - ToEnd[cur], received)
  BY <1>2, <1>4, AtIsCounted
<1>6. Unread(cur) /\ Ends(cur) \subseteq Ends(input) /\ cur # <<>>
  BY <1>1, <1>2 DEF Rest, Inside, End
<1>7. ToEnd[cur] <= received
  BY <1>2, <1>3
<1>8. Deref(raws, cur) = received - ToEnd[cur] + 1 /\ ToEnd[cur] \in Nat \ {0}
  BY <1>2, <1>5, <1>6, <1>7, FirstIsDeref
<1>9. PICK p \in Nat : p = received - ToEnd[cur] /\ p + n <= Len(bytes) /\ p + n = received
  <2>1. PICK e \in Nat : e = ToEnd[cur]
    BY <1>3
  <2>2. PICK r \in Nat : r = received /\ e <= r /\ r <= Len(bytes)
    BY <1>2, <1>7, <2>1
  <2>3. r - e \in Nat /\ (r - e) + e = r
    BY <2>1, <2>2
  <2>4. QED
    BY <1>2, <2>1, <2>2, <2>3
<1>10. Place = p
  BY <1>1, <1>9 DEF Place
<1>11. SymbolAt(Deref(raws, cur)) = bytes[p + 1]
  <2>1. Deref(raws, cur) = p + 1 /\ p + 1 # 0
    BY <1>8, <1>9
  <2>2. QED
    BY <2>1 DEF SymbolAt
<1>12. bytes[p + 1] \in Symbols
  <2>1. p + 1 \in 1 .. Len(bytes)
    BY <1>2, <1>8, <1>9
  <2>2. QED
    BY <1>2, <2>1, ElementOfSeq
<1>13. n \in Nat \ {0} /\ Consume(bytes[p + 1], n)
  BY <1>1, <1>8, <1>11
<1> HIDE DEF n
<1>14. ParserInv' /\ ctx'.step \in 1 .. n
  BY <1>2, <1>12, <1>13, ConsumeKeepsInv, ConsumeTells DEF StepFits
<1>15. k \in 1 .. n
  BY <1>13, <1>14 DEF Taking
<1>16. PICK j \in Nat : j = k /\ j <= ToEnd[cur] /\ j \in 1 .. n
  BY <1>13, <1>15 DEF n
<1> HIDE DEF k
<1>17. Rest(raws, cur', cur, j)
  <2>1. CASE HasPiece
    <3>1. cur' = Advanced[cur][j]
      BY <1>1, <1>16, <2>1 DEF k, Taking
    <3>2. QED
      BY <1>2, <1>6, <1>16, <3>1, AdvancedRest
  <2>2. CASE ~HasPiece
    <3>1. cur' = Incremented(cur) /\ j = 1
      BY <1>1, <1>16, <2>2 DEF k, Taking
    <3>2. QED
      BY <1>2, <1>6, <3>1, IncrementedRest
  <2>3. QED
    BY <2>1, <2>2
<1>18. Rest(raws, cur', input, m + j)
  BY <1>2, <1>4, <1>16, <1>17, RestOfRest
<1>19. /\ m + j \in Nat /\ m + j <= ToEnd[input]
  BY <1>3, <1>4, <1>16
<1>20. /\ ToEnd[cur'] \in Nat /\ ToEnd[cur'] = ToEnd[input] - (m + j)
  BY <1>2, <1>18, <1>19, AtIsCounted
<1>21. /\ ToEnd[cur'] <= ToEnd[input]
       /\ ToEnd[input] - ToEnd[cur'] = m + j
       /\ received - ToEnd[cur'] = p + j
  <2>1. PICK a \in Nat : a = ToEnd[cur']
    BY <1>20
  <2>2. PICK b \in Nat : b = ToEnd[input]
    BY <1>3
  <2>3. PICK e \in Nat : e = ToEnd[cur]
    BY <1>3
  <2>4. PICK mj \in Nat : mj = m + j /\ mj <= b
    BY <1>19, <2>2
  <2>5. a + mj = b
    BY <1>20, <2>1, <2>2, <2>4
  <2>6. m + e = b /\ p + e = received
    BY <1>2, <1>4, <1>9, <2>2, <2>3
  <2>7. received = a + (p + j)
    BY <1>2, <1>4, <2>4, <2>5, <2>6
  <2>8. a <= b /\ b - a = mj /\ received - a = p + j
    BY <1>2, <2>5, <2>7
  <2>9. QED
    BY <2>1, <2>2, <2>4, <2>8
<1>22. Place' = Place + k
  BY <1>1, <1>10, <1>16, <1>21 DEF Place
<1>23. body' = IF HasPiece THEN body \o Sliced[cur][j] ELSE body
  BY <1>1, <1>16 DEF Collected, HasPiece, k, Taking
<1>24. Piece(raws, Sliced[cur][j], cur, j)
  BY <1>2, <1>16, SlicedPiece
<1>25. body' \in Chains /\ Apart(body', input)
  <2>1. CASE HasPiece
    <3>1. Apart(body \o Sliced[cur][j], input)
      BY <1>2, <1>6, <1>24, ApartFromPiece DEF Piece
    <3>2. body \o Sliced[cur][j] \in Chains
      BY <1>2, <1>24, ContentConcat DEF Piece
    <3>3. QED
      BY <1>23, <2>1, <3>1, <3>2
  <2>2. CASE ~HasPiece
    BY <1>2, <1>23, <2>2
  <2>3. QED
    BY <2>1, <2>2
<1>26. SymbolsOf(Sliced[cur][j]) = BytesFrom(p, j)
  <2>1. p + j <= received
    BY <1>9, <1>13, <1>16
  <2>2. Take(Counted(p, received), j) = Counted(p, p + j)
    BY <1>2, <2>1, TakeCounted
  <2>3. Content(raws, Sliced[cur][j]) = Counted(p, p + j) /\ Sliced[cur][j] \in Chains
    BY <1>5, <1>9, <1>24, <2>2 DEF Piece
  <2>4. QED
    BY <2>3, SymbolsOfCounted
<1>27. SymbolsOf(body)' = IF HasPiece THEN SymbolsOf(body) \o BytesFrom(Place, k)
                                      ELSE SymbolsOf(body)
  <2>1. SymbolsOf(body)' = SymbolsOf(body')
    BY <1>1 DEF SymbolsOf, SymbolAt
  <2>2. CASE HasPiece
    <3>1. SymbolsOf(body \o Sliced[cur][j]) = SymbolsOf(body) \o SymbolsOf(Sliced[cur][j])
      BY <1>2, <1>24, SymbolsConcat DEF Piece
    <3>2. QED
      BY <1>10, <1>16, <1>23, <1>26, <2>1, <2>2, <3>1
  <2>3. CASE ~HasPiece
    BY <1>23, <2>1, <2>3
  <2>4. QED
    BY <2>2, <2>3
<1>28. Took
  <2>1. Taking \in 1 .. n /\ Place + n <= Len(bytes) /\ Consume(bytes[Place + 1], n)
    BY <1>9, <1>10, <1>13, <1>15 DEF k
  <2>2. QED
    BY <1>1, <1>13, <1>22, <1>27, <2>1 DEF Took, k
<1>29. ChainsInv'
  <2>1. cur' \in Chains
    BY <1>18 DEF Rest
  <2>2. Rest(raws', cur', input', ToEnd[input'] - ToEnd[cur']) /\ ToEnd[cur'] <= ToEnd[input']
    BY <1>1, <1>18, <1>21
  <2>3. QED
    BY <1>1, <1>2, <1>25, <2>1, <2>2 DEF ChainsInv
<1>30. InputInv'
  BY <1>1, <1>14, <1>29 DEF InputInv
<1>31. QED
  BY <1>10, <1>28, <1>30

----------------------------------------------------------------------------
(* How far the parser has come in what was sent.                           *)

\* The bytes behind the first s are L.
Reads(s, L) ==
  /\ s + Len(L) = Len(bytes)
  /\ \A i \in 1 .. Len(L) : bytes[s + i] = L[i]

\* The parser has read the first q symbols of A, behind which comes B.
At(q, A, B) == \E s \in 0 .. Len(bytes) : Place = s + q /\ Reads(s, A \o B)

\* What the first m parts are together, and what the others are.
Before(R, m) == FlattenSeq(Take(R, m))
Behind(R, m) == FlattenSeq(Drop(R, m))

\* What each message is sent as, and what it means.
Encodings(s) == [i \in DOMAIN s |-> Encode(s[i])]
Meanings(s) == [i \in DOMAIN s |-> Meaning(s[i])]

\* A message is a header of 15 symbols and what comes behind it.
NameOf(m) ==
  IF m.kind \in {"length", "bad_length"} THEN "content-length"
  ELSE IF m.kind = "chunked" THEN "transfer-encoding" ELSE "a"
ValueOf(m) == IF m.kind = "length" THEN m.chunks[1].size ELSE "a"
LastOf(m) == IF m.kind = "bad_line" THEN "a" ELSE "LF"
HeaderOf(m) ==
  <<"a", "SP", "a", "SP", "a", "CR", "LF",
    NameOf(m), ":", "SP", ValueOf(m), "CR", "LF", "CR", LastOf(m)>>

\* The chunks, as they are sent, and what they hold.
ChunkTexts(m) == [i \in DOMAIN m.chunks |-> ChunkOf(m.chunks[i])]
Datas(m) == [i \in DOMAIN m.chunks |-> m.chunks[i].data]
Finish == <<"0", "CR", "LF", "CR", "LF">>

\* What is sent behind the first i chunks, ...
ChunksFrom(m, i) == Behind(ChunkTexts(m), i) \o Finish
\* ... which starts with a line that tells the size of the next one.
SizeAt(m, i) == IF i < Len(m.chunks) THEN m.chunks[i + 1].size ELSE "0"
SizeLine(m, i) == <<SizeAt(m, i), "CR", "LF">>
BehindSize(m, i) ==
  IF i < Len(m.chunks)
  THEN m.chunks[i + 1].data \o (<<"CR", "LF">> \o ChunksFrom(m, i + 1))
  ELSE <<"CR", "LF">>

TailOf(m) ==
  CASE m.kind = "length" -> m.chunks[1].data
    [] m.kind = "chunked" -> ChunksFrom(m, 0)
    [] OTHER -> <<>>

\* The parser behind the first q symbols of a header.
HeaderAt(q, name, value) ==
  \/ /\ q \in 1 .. 6
     /\ In("RequestLine", CASE q = 1 -> "S_EXPECT_METHOD"
                            [] q \in {2, 3} -> "S_EXPECT_URI"
                            [] q \in {4, 5} -> "S_EXPECT_VERSION"
                            [] q = 6 -> "S_EXPECT_CRLF")
     /\ method = TRUE /\ key = <<>> /\ val = <<>> /\ headers = {}
  \/ /\ q \in 7 .. 14 /\ method = FALSE
     /\ \/ /\ q \in 7 .. 8 /\ In("Header", "S_EXPECT_FIELD_KEY")
           /\ key = (IF q = 7 THEN <<>> ELSE <<name>>) /\ val = <<>> /\ headers = {}
        \/ /\ q = 9 /\ In("Header", "S_GET_COLON")
           /\ key = <<name>> /\ val = <<>> /\ headers = {}
        \/ /\ q \in 10 .. 11 /\ In("Header", "S_EXPECT_FIELD_VAL")
           /\ key = <<name>> /\ val = (IF q = 10 THEN <<>> ELSE <<value>>) /\ headers = {}
        \/ /\ q \in 12 .. 14
           /\ In("Header", CASE q = 12 -> "S_EXPECT_FIELD_END"
                             [] q = 13 -> "S_FIELD_ENDED"
                             [] q = 14 -> "S_EXPECT_HEADER_END")
           /\ key = <<>> /\ val = <<>> /\ headers = {<< <<name>>, <<value>> >>}

\* Between two messages, of which m have come.
Between(m) ==
  /\ In("RequestLine", "S_EXPECT_METHOD")
  /\ method = FALSE /\ key = <<>> /\ val = <<>> /\ ctx.err = FALSE
  /\ At(0, <<>>, Behind(Encodings(stream), m))
  /\ handed = Before(Meanings(stream), m)
  /\ complete => m # 0 /\ SymbolsOf(body) = BodyOf(stream[m])
  /\ ~complete => headers = {} /\ SymbolsOf(body) = <<>>

\* In the message behind the first m, of which the handlers know so much.
Begun(m, told) ==
  /\ m < Len(stream)
  /\ complete = FALSE /\ ctx.err = FALSE
  /\ handed = Before(Meanings(stream), m) \o told

\* In the header: the parser's state says how much of it was read.
InHeader(m, msg, rest) ==
  /\ Begun(m, <<"StartRecvingHeader">>)
  /\ SymbolsOf(body) = <<>>
  /\ \E q \in 1 .. 14 :
       /\ At(q, HeaderOf(msg), TailOf(msg) \o rest)
       /\ HeaderAt(q, NameOf(msg), ValueOf(msg))

\* What was told of a message behind its header.
HeaderTold == <<"StartRecvingHeader", "HeaderReceived">>
Cleared == method = FALSE /\ key = <<>> /\ val = <<>>

\* In a body with a length: the body so far is what was sent of it.
InBody(m, msg, rest) ==
  /\ Begun(m, HeaderTold) /\ Cleared
  /\ curr_state = "ContentLength" /\ msg.kind = "length"
  /\ got < expect /\ expect = Len(msg.chunks[1].data)
  /\ At(got, msg.chunks[1].data, rest)
  /\ SymbolsOf(body) = Take(msg.chunks[1].data, got)

\* In the size line of chunk i + 1, or of the 0 that ends the chunks.
InSize(msg, i, rest) ==
  /\ got = 0 /\ i <= Len(msg.chunks)
  /\ SymbolsOf(body) = Before(Datas(msg), i)
  /\ \E q \in 0 .. 2 :
       /\ At(q, SizeLine(msg, i), BehindSize(msg, i) \o rest)
       /\ sub_state = IF q = 2 THEN "S_GET_INITIAL_CR" ELSE "S_EXPECT_LENGTH"
       /\ hex = IF q = 0 THEN <<>> ELSE <<SizeAt(msg, i)>>

\* In the data of chunk i + 1.
InData(msg, i, rest) ==
  /\ i < Len(msg.chunks) /\ sub_state = "S_EXPECT_CHUNK_DATA"
  /\ got < expect /\ expect = Len(msg.chunks[i + 1].data)
  /\ At(got, msg.chunks[i + 1].data, (<<"CR", "LF">> \o ChunksFrom(msg, i + 1)) \o rest)
  /\ SymbolsOf(body) = Before(Datas(msg), i) \o Take(msg.chunks[i + 1].data, got)

\* In the end of chunk i + 1.
BehindData(msg, i, rest) ==
  /\ i < Len(msg.chunks)
  /\ SymbolsOf(body) = Before(Datas(msg), i + 1)
  /\ \E q \in 0 .. 1 :
       /\ At(q, <<"CR", "LF">>, ChunksFrom(msg, i + 1) \o rest)
       /\ sub_state = IF q = 0 THEN "S_EXPECT_CHUNK_CR" ELSE "S_EXPECT_CHUNK_LF"

\* In the line that ends the message.
InFinish(msg, rest) ==
  /\ SymbolsOf(body) = BodyOf(msg)
  /\ \E q \in 0 .. 1 :
       /\ At(q, <<"CR", "LF">>, rest)
       /\ sub_state = IF q = 0 THEN "S_FINISH_WAIT_CR" ELSE "S_FINISH_WAIT_LF"

\* In the chunks.
InChunks(m, msg, rest) ==
  /\ Begun(m, HeaderTold) /\ Cleared
  /\ curr_state = "Chunk" /\ msg.kind = "chunked"
  /\ \/ \E i \in 0 .. Len(msg.chunks) :
          InSize(msg, i, rest) \/ InData(msg, i, rest) \/ BehindData(msg, i, rest)
     \/ InFinish(msg, rest)

\* In a message that is malformed, whose error the handlers know.
Failed(m) ==
  /\ m < Len(stream) /\ complete = FALSE /\ ctx.err = TRUE
  /\ handed = Before(Meanings(stream), m + 1)

\* Where the parser is: between two messages, or in the one behind the first m.
StoryAt(m) ==
  \/ Between(m)
  \/ InHeader(m, stream[m + 1], Behind(Encodings(stream), m + 1))
  \/ InBody(m, stream[m + 1], Behind(Encodings(stream), m + 1))
  \/ InChunks(m, stream[m + 1], Behind(Encodings(stream), m + 1))
  \/ Failed(m)

\* The story: the first m messages were told, and the parser is behind them.
Story == \E m \in 0 .. Len(stream) : StoryAt(m)

----------------------------------------------------------------------------
(* What is sent.                                                           *)

\* Taking one member more, and dropping it.
LEMMA TakeOneMore ==
  ASSUME NEW T, NEW s \in Seq(T), NEW m \in Nat, m < Len(s)
  PROVE  /\ s[m + 1] \in T
         /\ Take(s, m + 1) = Append(Take(s, m), s[m + 1])
         /\ Drop(s, m) = <<s[m + 1]>> \o Drop(s, m + 1)
<1>0. Len(s) \in Nat /\ m + 1 \in 1 .. Len(s) /\ m + 1 \in Nat /\ m <= Len(s) /\ m + 1 <= Len(s)
  BY LenProperties
<1>1. s[m + 1] \in T
  BY <1>0, ElementOfSeq
<1> DEFINE k == m + 1
           x == s[k]
<1>2. k \in Nat /\ k <= Len(s) /\ x \in T /\ k = m + 1
  BY <1>0, <1>1
<1> HIDE DEF k
<1>3. /\ Take(s, m) \in Seq(T) /\ Len(Take(s, m)) = m
      /\ \A i \in 1 .. m : Take(s, m)[i] = s[i]
  BY <1>0, TakeIs
<1>4. /\ Take(s, k) \in Seq(T) /\ Len(Take(s, k)) = k
      /\ \A i \in 1 .. k : Take(s, k)[i] = s[i]
  BY <1>2, TakeIs
<1>5. /\ Drop(s, m) \in Seq(T) /\ Len(Drop(s, m)) = Len(s) - m
      /\ \A i \in 1 .. Len(s) - m : Drop(s, m)[i] = s[m + i]
  BY <1>0, DropIs
<1>6. /\ Drop(s, k) \in Seq(T) /\ Len(Drop(s, k)) = Len(s) - k
      /\ \A i \in 1 .. Len(s) - k : Drop(s, k)[i] = s[k + i]
  BY <1>2, DropIs
<1>7. Take(s, k) = Append(Take(s, m), x)
  <2> DEFINE a == Append(Take(s, m), x)
  <2>1. a \in Seq(T) /\ Len(a) = m + 1 /\ a[m + 1] = x /\ \A i \in 1 .. m : a[i] = Take(s, m)[i]
    BY <1>2, <1>3, AppendProperties
  <2> HIDE DEF a
  <2>2. ASSUME NEW i \in 1 .. k PROVE Take(s, k)[i] = a[i]
    <3>1. CASE i = k
      BY <1>2, <1>4, <2>1, <3>1
    <3>2. CASE i # k
      <4>1. i \in 1 .. m
        BY <1>2, <3>2
      <4>2. QED
        BY <1>3, <1>4, <2>1, <4>1
    <3>3. QED
      BY <3>1, <3>2
  <2>3. Len(a) = k
    BY <1>2, <2>1
  <2>4. Take(s, k) = a
    BY <1>4, <2>1, <2>2, <2>3, SeqEqual
  <2>5. QED
    BY <2>4 DEF a
<1>8. Drop(s, m) = <<x>> \o Drop(s, k)
  <2> DEFINE one == <<x>>
             d == Drop(s, k)
  <2>1. one \in Seq(T) /\ Len(one) = 1 /\ one[1] = x
    BY <1>2
  <2>2. d \in Seq(T) /\ Len(d) = Len(s) - k /\ \A i \in 1 .. Len(s) - k : d[i] = s[k + i]
    BY <1>6
  <2> HIDE DEF one, d
  <2>3. /\ one \o d \in Seq(T) /\ Len(one \o d) = Len(one) + Len(d)
        /\ \A i \in 1 .. Len(one) + Len(d) :
             (one \o d)[i] = IF i <= Len(one) THEN one[i] ELSE d[i - Len(one)]
    BY <2>1, <2>2, ConcatProperties
  <2>4. Len(one) + Len(d) = Len(s) - m
    BY <1>0, <1>2, <2>1, <2>2
  <2>5. ASSUME NEW i \in 1 .. Len(s) - m PROVE (one \o d)[i] = Drop(s, m)[i]
    <3>1. (one \o d)[i] = IF i <= 1 THEN one[i] ELSE d[i - 1]
      BY <2>1, <2>3, <2>4
    <3>2. Drop(s, m)[i] = s[m + i]
      BY <1>5
    <3>3. CASE i = 1
      BY <1>2, <2>1, <3>1, <3>2, <3>3
    <3>4. CASE i # 1
      <4>1. i - 1 \in 1 .. Len(s) - k /\ k + (i - 1) = m + i
        BY <1>0, <1>2, <3>4
      <4>2. d[i - 1] = s[m + i]
        BY <2>2, <4>1
      <4>3. QED
        BY <3>1, <3>2, <3>4, <4>2
    <3>5. QED
      BY <3>3, <3>4
  <2>6. Drop(s, m) = one \o d
    BY <1>5, <2>3, <2>4, <2>5, SeqEqual
  <2>7. QED
    BY <2>6 DEF one, d
<1>9. QED
  BY <1>1, <1>7, <1>8 DEF k

\* What is taken and what is dropped make the sequence.
LEMMA TakeAndDrop ==
  ASSUME NEW T, NEW s \in Seq(T), NEW m \in Nat, m <= Len(s)
  PROVE  s = Take(s, m) \o Drop(s, m)
<1> DEFINE a == Take(s, m)
           b == Drop(s, m)
<1>0. Len(s) \in Nat
  BY LenProperties
<1>1. a \in Seq(T) /\ Len(a) = m /\ \A i \in 1 .. m : a[i] = s[i]
  BY TakeIs
<1>2. b \in Seq(T) /\ Len(b) = Len(s) - m /\ \A i \in 1 .. Len(s) - m : b[i] = s[m + i]
  BY DropIs
<1> HIDE DEF a, b
<1>3. /\ a \o b \in Seq(T) /\ Len(a \o b) = Len(a) + Len(b)
      /\ \A i \in 1 .. Len(a) + Len(b) : (a \o b)[i] = IF i <= Len(a) THEN a[i] ELSE b[i - Len(a)]
  BY <1>1, <1>2, ConcatProperties
<1>4. Len(a) + Len(b) = Len(s)
  BY <1>0, <1>1, <1>2
<1>5. ASSUME NEW i \in 1 .. Len(s) PROVE (a \o b)[i] = s[i]
  <2>1. (a \o b)[i] = IF i <= m THEN a[i] ELSE b[i - m]
    BY <1>1, <1>3, <1>4
  <2>2. CASE i <= m
    <3>1. i \in 1 .. m
      BY <1>0, <2>2
    <3>2. QED
      BY <1>1, <2>1, <2>2, <3>1
  <2>3. CASE ~(i <= m)
    <3>1. i - m \in 1 .. Len(s) - m /\ m + (i - m) = i
      BY <1>0, <2>3
    <3>2. b[i - m] = s[i]
      BY <1>2, <3>1
    <3>3. QED
      BY <2>1, <2>3, <3>2
  <2>4. QED
    BY <2>2, <2>3
<1>6. s = a \o b
  BY <1>3, <1>4, <1>5, SeqEqual
<1>7. QED
  BY <1>6 DEF a, b

\* Rows put together are those before a place and those behind it.
LEMMA Parts ==
  ASSUME NEW T, NEW R \in Seq(Seq(T)), NEW m \in Nat, m <= Len(R)
  PROVE  /\ Before(R, m) \in Seq(T) /\ Behind(R, m) \in Seq(T) /\ FlattenSeq(R) \in Seq(T)
         /\ FlattenSeq(R) = Before(R, m) \o Behind(R, m)
<1> DEFINE a == Take(R, m)
           b == Drop(R, m)
<1>1. a \in Seq(Seq(T)) /\ b \in Seq(Seq(T))
  BY TakeIs, DropIs
<1>2. R = a \o b
  BY TakeAndDrop
<1> HIDE DEF a, b
<1>3. FlattenSeq(a) \in Seq(T) /\ FlattenSeq(b) \in Seq(T) /\ FlattenSeq(R) \in Seq(T)
  BY <1>1, FlattenFirst
<1>4. FlattenSeq(a \o b) = FlattenSeq(a) \o FlattenSeq(b)
  BY <1>1, FlattenConcat
<1>5. FlattenSeq(R) = FlattenSeq(a) \o FlattenSeq(b)
  BY <1>2, <1>4
<1>6. QED
  BY <1>3, <1>5 DEF a, b, Before, Behind

\* No row is before the first place, none behind the last.
LEMMA PartsEnds ==
  ASSUME NEW T, NEW R \in Seq(Seq(T))
  PROVE  /\ Before(R, 0) = <<>> /\ Before(R, Len(R)) = FlattenSeq(R)
         /\ Behind(R, 0) = FlattenSeq(R) /\ Behind(R, Len(R)) = <<>>
<1>1. /\ Take(R, 0) = <<>> /\ Take(R, Len(R)) = R
      /\ Drop(R, 0) = R /\ Drop(R, Len(R)) = <<>>
  BY TakeDropEnds
<1>2. QED
  BY <1>1, FlattenEmpty DEF Before, Behind

\* The next row moves from those behind to those before.
LEMMA NextPart ==
  ASSUME NEW T, NEW R \in Seq(Seq(T)), NEW m \in Nat, m < Len(R)
  PROVE  /\ R[m + 1] \in Seq(T)
         /\ Before(R, m + 1) = Before(R, m) \o R[m + 1]
         /\ Behind(R, m) = R[m + 1] \o Behind(R, m + 1)
<1> DEFINE k == m + 1
           x == R[k]
           a == Take(R, m)
           b == Drop(R, k)
           one == <<x>>
<1>0. Len(R) \in Nat /\ k \in Nat /\ k <= Len(R) /\ m <= Len(R)
  BY LenProperties
<1>1. x \in Seq(T) /\ Take(R, k) = Append(a, x) /\ Drop(R, m) = one \o b
  BY TakeOneMore
<1> HIDE DEF k
<1>2. a \in Seq(Seq(T)) /\ b \in Seq(Seq(T))
  BY <1>0, TakeIs, DropIs
<1> HIDE DEF x, a, b
<1>3. FlattenSeq(Append(a, x)) = FlattenSeq(a) \o x
  BY <1>1, <1>2, FlattenFirst
<1>4. one \in Seq(Seq(T)) /\ FlattenSeq(one) = x
  BY <1>1, FlattenOne
<1> HIDE DEF one
<1>5. FlattenSeq(one \o b) = FlattenSeq(one) \o FlattenSeq(b)
  BY <1>2, <1>4, FlattenConcat
<1>6. Before(R, k) = Before(R, m) \o x
  BY <1>1, <1>3 DEF Before, a
<1>7. Behind(R, m) = x \o Behind(R, k)
  BY <1>1, <1>4, <1>5 DEF Behind, b
<1>8. QED
  BY <1>1, <1>6, <1>7 DEF x, k

\* What `handed` has as members.
Told == Events \union Symbols

\* The symbols a client sends, and what a number is.
LEMMA SymbolsAre ==
  /\ \A x \in {"SP", "CR", "LF", ":", "a", "content-length", "transfer-encoding", "0"} :
       x \in Symbols
  /\ \A x \in Numbers : x \in Symbols /\ x \notin {"SP", "CR", "LF", ":", "a"}
  /\ "0" \in Numbers /\ Value["0"] = 0 /\ \A x \in Numbers : Value[x] \in Nat
BY ParserAssumption, InputAssumption DEF Symbols, Punctuation

\* A chunk has as many bytes as its number says.
LEMMA ChunkIs ==
  ASSUME NEW c \in Chunks
  PROVE  /\ c.size \in Numbers /\ c.size \in Symbols /\ c.data \in Seq(Symbols)
         /\ Len(c.data) = Value[c.size] /\ Len(c.data) \in Nat
<1>1. c.size \in Numbers /\ c.data \in Seq(Symbols) /\ Len(c.data) = Value[c.size]
  BY DEF Chunks
<1>2. Len(c.data) \in Nat
  BY <1>1, LenProperties
<1>3. QED
  BY <1>1, <1>2, SymbolsAre

\* What is known of a message, by its kind.
LEMMA MessageIs ==
  ASSUME NEW m \in Messages
  PROVE  /\ m.kind \in Kinds /\ m.chunks \in Seq(Chunks) /\ Len(m.chunks) \in Nat
         /\ DOMAIN m.chunks = 1 .. Len(m.chunks)
         /\ \A i \in 1 .. Len(m.chunks) : m.chunks[i] \in Chunks
         /\ m.kind = "length" => Len(m.chunks) = 1
         /\ m.kind = "chunked" => \A i \in 1 .. Len(m.chunks) : m.chunks[i].data # <<>>
         /\ m.kind \notin {"length", "chunked"} => m.chunks = <<>>
<1>1. /\ m.kind \in Kinds /\ m.chunks \in Seq(Chunks)
      /\ m.kind = "length" => Len(m.chunks) = 1
      /\ m.kind = "chunked" => \A i \in DOMAIN m.chunks : m.chunks[i].data # <<>>
      /\ m.kind \notin {"length", "chunked"} => m.chunks = <<>>
  BY DEF Messages
<1>2. Len(m.chunks) \in Nat /\ DOMAIN m.chunks = 1 .. Len(m.chunks)
  BY <1>1, LenProperties
<1>3. \A i \in 1 .. Len(m.chunks) : m.chunks[i] \in Chunks
  BY <1>1, ElementOfSeq
<1>4. QED
  BY <1>1, <1>2, <1>3

\* The header of a message has 15 symbols.
LEMMA HeaderIs ==
  ASSUME NEW m \in Messages
  PROVE  /\ HeaderOf(m) \in Seq(Symbols) /\ Len(HeaderOf(m)) = 15
         /\ NameOf(m) \in Symbols /\ NameOf(m) \notin {"SP", "CR", "LF", ":"}
         /\ ValueOf(m) \in Symbols /\ ValueOf(m) \notin {"SP", "CR", "LF", ":"}
         /\ LastOf(m) \in {"a", "LF"}
<1>1. NameOf(m) \in Symbols /\ NameOf(m) \notin {"SP", "CR", "LF", ":"}
  BY SymbolsAre DEF NameOf
<1>2. ValueOf(m) \in Symbols /\ ValueOf(m) \notin {"SP", "CR", "LF", ":"}
  <2>1. CASE m.kind = "length"
    <3>1. 1 \in 1 .. Len(m.chunks)
      BY <2>1, MessageIs
    <3>2. m.chunks[1] \in Chunks
      BY <3>1, MessageIs
    <3>3. m.chunks[1].size \in Numbers
      BY <3>2, ChunkIs
    <3>4. QED
      BY <2>1, <3>3, SymbolsAre DEF ValueOf
  <2>2. CASE m.kind # "length"
    BY <2>2, SymbolsAre DEF ValueOf
  <2>3. QED
    BY <2>1, <2>2
<1>3. LastOf(m) \in {"a", "LF"} /\ LastOf(m) \in Symbols
  BY SymbolsAre DEF LastOf
<1>4. HeaderOf(m) \in Seq(Symbols) /\ Len(HeaderOf(m)) = 15
  <2> DEFINE nm == NameOf(m)
             vl == ValueOf(m)
             lt == LastOf(m)
  <2>1. nm \in Symbols /\ vl \in Symbols /\ lt \in Symbols
    BY <1>1, <1>2, <1>3
  <2>2. HeaderOf(m) = <<"a", "SP", "a", "SP", "a", "CR", "LF",
                        nm, ":", "SP", vl, "CR", "LF", "CR", lt>>
    BY DEF HeaderOf
  <2>3. "a" \in Symbols /\ "SP" \in Symbols /\ "CR" \in Symbols /\ "LF" \in Symbols /\ ":" \in Symbols
    BY SymbolsAre
  <2> HIDE DEF nm, vl, lt
  <2>4. QED
    BY <2>1, <2>2, <2>3
<1>5. QED
  BY <1>1, <1>2, <1>3, <1>4

\* A chunk as it is sent.
LEMMA ChunkOfIs ==
  ASSUME NEW c \in Chunks
  PROVE  /\ ChunkOf(c) \in Seq(Symbols)
         /\ ChunkOf(c) = <<c.size, "CR", "LF">> \o (c.data \o <<"CR", "LF">>)
<1> DEFINE a == <<c.size, "CR", "LF">>
           d == c.data
           b == <<"CR", "LF">>
<1>1. a \in Seq(Symbols) /\ d \in Seq(Symbols) /\ b \in Seq(Symbols)
  BY ChunkIs, SymbolsAre
<1>2. ChunkOf(c) = a \o d \o b
  BY DEF ChunkOf
<1> HIDE DEF a, d, b
<1>3. (a \o d) \o b = a \o (d \o b)
  <2>1. Associates(a, d, b)
    BY <1>1, Joining
  <2>2. QED
    BY <2>1 DEF Associates
<1>4. a \o d \in Seq(Symbols)
  BY <1>1, ConcatProperties
<1>5. a \o d \o b \in Seq(Symbols)
  BY <1>1, <1>4, ConcatProperties
<1>6. QED
  BY <1>2, <1>3, <1>5 DEF a, b, d

\* The chunks of a message as they are sent, and their data.
LEMMA ChunksAre ==
  ASSUME NEW m \in Messages
  PROVE  /\ ChunkTexts(m) \in Seq(Seq(Symbols)) /\ Len(ChunkTexts(m)) = Len(m.chunks)
         /\ Datas(m) \in Seq(Seq(Symbols)) /\ Len(Datas(m)) = Len(m.chunks)
         /\ \A i \in 1 .. Len(m.chunks) : /\ ChunkTexts(m)[i] = ChunkOf(m.chunks[i])
                                          /\ Datas(m)[i] = m.chunks[i].data
         /\ Finish \in Seq(Symbols)
         /\ BodyOf(m) = FlattenSeq(Datas(m)) /\ BodyOf(m) \in Seq(Symbols)
<1>1. /\ Len(m.chunks) \in Nat /\ DOMAIN m.chunks = 1 .. Len(m.chunks)
      /\ \A i \in 1 .. Len(m.chunks) : m.chunks[i] \in Chunks
  BY MessageIs
<1>2. \A i \in 1 .. Len(m.chunks) :
        ChunkOf(m.chunks[i]) \in Seq(Symbols) /\ m.chunks[i].data \in Seq(Symbols)
  BY <1>1, ChunkIs, ChunkOfIs
<1>3. /\ ChunkTexts(m) \in Seq(Seq(Symbols)) /\ Len(ChunkTexts(m)) = Len(m.chunks)
      /\ \A i \in 1 .. Len(m.chunks) : ChunkTexts(m)[i] = ChunkOf(m.chunks[i])
  BY <1>1, <1>2 DEF ChunkTexts
<1>4. /\ Datas(m) \in Seq(Seq(Symbols)) /\ Len(Datas(m)) = Len(m.chunks)
      /\ \A i \in 1 .. Len(m.chunks) : Datas(m)[i] = m.chunks[i].data
  BY <1>1, <1>2 DEF Datas
<1>5. Finish \in Seq(Symbols)
  BY SymbolsAre DEF Finish
<1>6. BodyOf(m) = FlattenSeq(Datas(m))
  BY DEF BodyOf, Datas
<1>7. BodyOf(m) \in Seq(Symbols)
  BY <1>4, <1>6, FlattenFirst
<1>8. QED
  BY <1>3, <1>4, <1>5, <1>6, <1>7

\* What Regroup says.
Regrouped(a, d, b, x, y) ==
  ((a \o (d \o b)) \o x) \o y = a \o (d \o (b \o (x \o y)))

\* Three ways to group the parts of a chunk and what comes behind it.
LEMMA Regroup ==
  ASSUME NEW a \in Seq(Symbols), NEW d \in Seq(Symbols), NEW b \in Seq(Symbols), NEW x \in Seq(Symbols),
         NEW y \in Seq(Symbols)
  PROVE  Regrouped(a, d, b, x, y)
<1> DEFINE db == d \o b
           xy == x \o y
           bxy == b \o xy
<1>1. db \in Seq(Symbols) /\ xy \in Seq(Symbols)
  BY ConcatProperties
<1>2. ((a \o db) \o x) \o y = (a \o db) \o xy
  <2> DEFINE p == a \o db
  <2>1. p \in Seq(Symbols)
    BY <1>1, ConcatProperties
  <2> HIDE DEF p
  <2>2. (p \o x) \o y = p \o (x \o y)
    <3>1. Associates(p, x, y)
      BY <2>1, Joining
    <3>2. QED
      BY <3>1 DEF Associates
  <2>3. QED
    BY <2>2 DEF p
<1>3. db \o xy = d \o (b \o xy)
  <2> HIDE DEF xy
  <2>1. (d \o b) \o xy = d \o (b \o xy)
    <3>1. Associates(d, b, xy)
      BY <1>1, Joining
    <3>2. QED
      BY <3>1 DEF Associates
  <2>2. QED
    BY <2>1
<1> HIDE DEF db, xy
<1>4. (a \o db) \o xy = a \o (db \o xy)
  <2>1. Associates(a, db, xy)
    BY <1>1, Joining
  <2>2. QED
    BY <2>1 DEF Associates
<1>5. QED
  BY <1>2, <1>3, <1>4 DEF db, xy, Regrouped

\* `c` has the members of `a` and then those of `b`.
Joins(a, b, c) ==
  /\ Len(c) = Len(a) + Len(b)
  /\ \A i \in 1 .. Len(a) : c[i] = a[i]
  /\ \A i \in 1 .. Len(b) : c[Len(a) + i] = b[i]

\* Sequences with the members of the two put together are the two put together.
LEMMA JoinedIs ==
  ASSUME NEW T, NEW a \in Seq(T), NEW b \in Seq(T), NEW c \in Seq(T), Joins(a, b, c)
  PROVE  a \o b = c
<1>0. /\ Len(c) = Len(a) + Len(b)
      /\ \A i \in 1 .. Len(a) : c[i] = a[i]
      /\ \A i \in 1 .. Len(b) : c[Len(a) + i] = b[i]
  BY DEF Joins
<1>1. Len(a) \in Nat /\ Len(b) \in Nat
  BY LenProperties
<1>2. /\ a \o b \in Seq(T) /\ Len(a \o b) = Len(a) + Len(b)
      /\ \A i \in 1 .. Len(a) + Len(b) : (a \o b)[i] = IF i <= Len(a) THEN a[i] ELSE b[i - Len(a)]
  BY ConcatProperties
<1>3. ASSUME NEW i \in 1 .. Len(c) PROVE (a \o b)[i] = c[i]
  <2>1. CASE i <= Len(a)
    <3>1. i \in 1 .. Len(a)
      BY <1>1, <2>1
    <3>2. QED
      BY <1>0, <1>2, <2>1, <3>1
  <2>2. CASE ~(i <= Len(a))
    <3>1. i - Len(a) \in 1 .. Len(b)
      BY <1>0, <1>1, <2>2
    <3>2. PICK j \in 1 .. Len(b) : j = i - Len(a)
      BY <3>1
    <3>3. Len(a) + j = i
      BY <1>1, <3>2
    <3>4. c[i] = b[j]
      BY <1>0, <3>3
    <3>5. QED
      BY <1>0, <1>2, <2>2, <3>2, <3>4
  <2>3. QED
    BY <2>1, <2>2
<1>4. QED
  BY <1>0, <1>2, <1>3, SeqEqual

\* What is sent from a chunk on starts with its size line.
LEMMA ChunksFromIs ==
  ASSUME NEW m \in Messages, NEW i \in 0 .. Len(m.chunks)
  PROVE  /\ ChunksFrom(m, i) \in Seq(Symbols)
         /\ SizeLine(m, i) \in Seq(Symbols) /\ Len(SizeLine(m, i)) = 3
         /\ SizeAt(m, i) \in Numbers
         /\ BehindSize(m, i) \in Seq(Symbols)
         /\ ChunksFrom(m, i) = SizeLine(m, i) \o BehindSize(m, i)
<1> DEFINE R == ChunkTexts(m)
<1>1. /\ R \in Seq(Seq(Symbols)) /\ Len(R) = Len(m.chunks) /\ Finish \in Seq(Symbols)
      /\ \A j \in 1 .. Len(m.chunks) : R[j] = ChunkOf(m.chunks[j])
  BY ChunksAre
<1>2. Len(m.chunks) \in Nat
  BY MessageIs
<1> HIDE DEF R
<1>3. ASSUME NEW j \in 0 .. Len(m.chunks) PROVE Behind(R, j) \in Seq(Symbols)
  BY <1>1, <1>2, Parts
<1>4. ASSUME NEW j \in 0 .. Len(m.chunks) PROVE ChunksFrom(m, j) \in Seq(Symbols)
  <2>1. Behind(R, j) \o Finish \in Seq(Symbols)
    BY <1>1, <1>3, ConcatProperties
  <2>2. QED
    BY <2>1 DEF ChunksFrom, R
<1>5. SizeAt(m, i) \in Numbers
  <2>1. CASE i < Len(m.chunks)
    <3>1. i + 1 \in 1 .. Len(m.chunks)
      BY <1>2, <2>1
    <3>2. m.chunks[i + 1] \in Chunks
      BY <3>1, MessageIs
    <3>3. m.chunks[i + 1].size \in Numbers
      BY <3>2, ChunkIs
    <3>4. QED
      BY <2>1, <3>3 DEF SizeAt
  <2>2. CASE ~(i < Len(m.chunks))
    BY <2>2, SymbolsAre DEF SizeAt
  <2>3. QED
    BY <2>1, <2>2
<1>6. SizeLine(m, i) \in Seq(Symbols) /\ Len(SizeLine(m, i)) = 3
  <2>1. SizeAt(m, i) \in Symbols /\ "CR" \in Symbols /\ "LF" \in Symbols
    BY <1>5, SymbolsAre
  <2> HIDE DEF SizeAt
  <2>2. QED
    BY <2>1 DEF SizeLine
<1>7. CASE i < Len(m.chunks)
  <2> DEFINE k == i + 1
             c == m.chunks[k]
             a == <<c.size, "CR", "LF">>
             d == c.data
             b == <<"CR", "LF">>
             x == Behind(R, k)
  <2>1. k \in 1 .. Len(m.chunks) /\ k \in Nat
    BY <1>2, <1>7
  <2>2. c \in Chunks /\ R[k] = ChunkOf(c)
    BY <1>1, <2>1, MessageIs
  <2>3. Behind(R, i) = R[k] \o x
    <3>1. i \in Nat /\ i < Len(R)
      BY <1>1, <1>2, <1>7
    <3>2. Behind(R, i) = R[i + 1] \o Behind(R, i + 1)
      BY <1>1, <3>1, NextPart
    <3>3. QED
      BY <3>2
  <2>4. x \in Seq(Symbols)
    BY <1>3, <2>1
  <2>5. ChunksFrom(m, i) = (R[k] \o x) \o Finish
    BY <2>3 DEF ChunksFrom, R
  <2>6. ChunksFrom(m, k) = x \o Finish
    BY DEF ChunksFrom, R
  <2>7. SizeLine(m, i) = a /\ BehindSize(m, i) = d \o (b \o ChunksFrom(m, k))
    BY <1>7 DEF SizeLine, SizeAt, BehindSize
  <2> HIDE DEF k, x
  <2>8. /\ c.size \in Symbols /\ d \in Seq(Symbols) /\ b \in Seq(Symbols) /\ a \in Seq(Symbols)
    BY <2>2, ChunkIs, SymbolsAre
  <2>9. R[k] = a \o (d \o b)
    BY <2>2, ChunkOfIs
  <2> HIDE DEF a, b, c, d
  <2>10. ((a \o (d \o b)) \o x) \o Finish = a \o (d \o (b \o (x \o Finish)))
    <3>1. Finish \in Seq(Symbols) /\ x \in Seq(Symbols)
      BY <1>1, <2>4
    <3>2. a \in Seq(Symbols) /\ d \in Seq(Symbols) /\ b \in Seq(Symbols)
      BY <2>8
    <3>3. Regrouped(a, d, b, x, Finish)
      BY <3>1, <3>2, Regroup, Zenon
    <3>4. QED
      BY <3>3 DEF Regrouped
  <2>11. ChunksFrom(m, i) = SizeLine(m, i) \o BehindSize(m, i)
    BY <2>5, <2>6, <2>7, <2>9, <2>10
  <2>12. BehindSize(m, i) \in Seq(Symbols)
    <3>0. ChunksFrom(m, k) \in Seq(Symbols)
      BY <1>4, <2>1
    <3>1. b \o ChunksFrom(m, k) \in Seq(Symbols)
      BY <2>8, <3>0, ConcatProperties
    <3>2. QED
      BY <2>7, <2>8, <3>1, ConcatProperties
  <2>13. QED
    BY <1>4, <1>5, <1>6, <2>11, <2>12
<1>8. CASE ~(i < Len(m.chunks))
  <2>1. i = Len(m.chunks) /\ i = Len(R)
    BY <1>1, <1>2, <1>8
  <2>2. Behind(R, i) = <<>>
    BY <1>1, <2>1, PartsEnds
  <2>3. ChunksFrom(m, i) = <<>> \o Finish
    BY <2>2 DEF ChunksFrom, R
  <2>4. ChunksFrom(m, i) = Finish
    BY <1>1, <2>3, ConcatEmptySeq
  <2>5. SizeLine(m, i) = <<"0", "CR", "LF">> /\ BehindSize(m, i) = <<"CR", "LF">>
    BY <1>8 DEF SizeLine, SizeAt, BehindSize
  <2>6. <<"0", "CR", "LF">> \o <<"CR", "LF">> = <<"0", "CR", "LF", "CR", "LF">>
    <3> DEFINE p == <<"0", "CR", "LF">>
               q == <<"CR", "LF">>
               r == <<"0", "CR", "LF", "CR", "LF">>
    <3>1. p \in Seq(Symbols) /\ q \in Seq(Symbols) /\ r \in Seq(Symbols)
      BY SymbolsAre
    <3>2. Len(p) = 3 /\ Len(q) = 2 /\ Len(r) = 5
      OBVIOUS
    <3>3. p[1] = r[1] /\ p[2] = r[2] /\ p[3] = r[3] /\ q[1] = r[4] /\ q[2] = r[5]
      OBVIOUS
    <3> HIDE DEF p, q, r
    <3>4. \A j \in 1 .. Len(p) : r[j] = p[j]
      BY <3>2, <3>3
    <3>5. \A j \in 1 .. Len(q) : r[Len(p) + j] = q[j]
      BY <3>2, <3>3
    <3>6. p \o q = r
      <4>1. Joins(p, q, r)
        BY <3>2, <3>4, <3>5 DEF Joins
      <4>2. QED
        BY <3>1, <4>1, JoinedIs, Zenon
    <3>7. QED
      BY <3>6 DEF p, q, r
  <2>7. <<"CR", "LF">> \in Seq(Symbols)
    BY SymbolsAre
  <2>8. QED
    BY <1>4, <1>5, <1>6, <2>4, <2>5, <2>6, <2>7 DEF Finish
<1>9. QED
  BY <1>7, <1>8

\* What is behind the header is a sequence of symbols.
LEMMA TailIs ==
  ASSUME NEW m \in Messages
  PROVE  TailOf(m) \in Seq(Symbols)
<1>1. CASE m.kind = "length"
  <2>1. 1 \in 1 .. Len(m.chunks)
    BY <1>1, MessageIs
  <2>2. m.chunks[1] \in Chunks
    BY <2>1, MessageIs
  <2>3. QED
    BY <1>1, <2>2, ChunkIs DEF TailOf
<1>2. CASE m.kind = "chunked"
  <2>1. 0 \in 0 .. Len(m.chunks)
    BY MessageIs
  <2>2. QED
    BY <1>2, <2>1, ChunksFromIs DEF TailOf
<1>3. CASE m.kind \notin {"length", "chunked"}
  BY <1>3 DEF TailOf
<1>4. QED
  BY <1>1, <1>2, <1>3

\* The header of a message, symbol by symbol.
LEMMA HeaderTuple ==
  ASSUME NEW name \in Symbols, NEW value \in Symbols, NEW last \in Symbols
  PROVE  /\ Field(name, value) \o <<"CR", last>> \in Seq(Symbols)
         /\ Line \in Seq(Symbols)
         /\ Line \o (Field(name, value) \o <<"CR", last>>) =
              <<"a", "SP", "a", "SP", "a", "CR", "LF",
                name, ":", "SP", value, "CR", "LF", "CR", last>>
<1> DEFINE f == <<name, ":", "SP", value, "CR", "LF">>
           e == <<"CR", last>>
           h == <<name, ":", "SP", value, "CR", "LF", "CR", last>>
           l == <<"a", "SP", "a", "SP", "a", "CR", "LF">>
           t == <<"a", "SP", "a", "SP", "a", "CR", "LF",
                  name, ":", "SP", value, "CR", "LF", "CR", last>>
<1>1. "a" \in Symbols /\ "SP" \in Symbols /\ "CR" \in Symbols /\ "LF" \in Symbols /\ ":" \in Symbols
  BY SymbolsAre
<1>2. /\ f \in Seq(Symbols) /\ e \in Seq(Symbols) /\ h \in Seq(Symbols)
      /\ l \in Seq(Symbols) /\ t \in Seq(Symbols)
  BY <1>1
<1>3. Len(f) = 6 /\ Len(e) = 2 /\ Len(h) = 8 /\ Len(l) = 7 /\ Len(t) = 15
  OBVIOUS
<1>4. /\ f[1] = h[1] /\ f[2] = h[2] /\ f[3] = h[3] /\ f[4] = h[4] /\ f[5] = h[5] /\ f[6] = h[6]
      /\ e[1] = h[7] /\ e[2] = h[8]
  OBVIOUS
<1>5. /\ l[1] = t[1] /\ l[2] = t[2] /\ l[3] = t[3] /\ l[4] = t[4] /\ l[5] = t[5] /\ l[6] = t[6]
      /\ l[7] = t[7]
      /\ h[1] = t[8] /\ h[2] = t[9] /\ h[3] = t[10] /\ h[4] = t[11] /\ h[5] = t[12]
      /\ h[6] = t[13] /\ h[7] = t[14] /\ h[8] = t[15]
  OBVIOUS
<1>6. Field(name, value) = f /\ Line = l
  BY DEF Field, Line
<1> HIDE DEF f, e, h, l, t
<1>7. f \o e = h
  <2>1. \A i \in 1 .. Len(f) : h[i] = f[i]
    BY <1>3, <1>4
  <2>2. \A i \in 1 .. Len(e) : h[Len(f) + i] = e[i]
    BY <1>3, <1>4
  <2>3. Joins(f, e, h)
    BY <1>3, <2>1, <2>2 DEF Joins
  <2>4. QED
    BY <1>2, <2>3, JoinedIs, Zenon
<1>8. l \o h = t
  <2>1. \A i \in 1 .. Len(l) : t[i] = l[i]
    BY <1>3, <1>5
  <2>2. \A i \in 1 .. Len(h) : t[Len(l) + i] = h[i]
    BY <1>3, <1>5
  <2>3. Joins(l, h, t)
    BY <1>3, <2>1, <2>2 DEF Joins
  <2>4. QED
    BY <1>2, <2>3, JoinedIs, Zenon
<1>9. Line \o (Field(name, value) \o e) = t /\ Field(name, value) \o e \in Seq(Symbols)
  BY <1>2, <1>6, <1>7, <1>8
<1>10. Line \in Seq(Symbols)
  BY <1>2, <1>6
<1>11. QED
  BY <1>9, <1>10 DEF e, t

\* The chunks of a message, sent one after the other.
LEMMA FlattenTexts ==
  ASSUME NEW m \in Messages
  PROVE  /\ FlattenSeq([i \in DOMAIN m.chunks |-> ChunkOf(m.chunks[i])]) \in Seq(Symbols)
         /\ ChunksFrom(m, 0) =
              FlattenSeq([i \in DOMAIN m.chunks |-> ChunkOf(m.chunks[i])]) \o Finish
<1>1. ChunkTexts(m) \in Seq(Seq(Symbols))
  BY ChunksAre
<1>2. Behind(ChunkTexts(m), 0) = FlattenSeq(ChunkTexts(m))
  BY <1>1, PartsEnds
<1>3. FlattenSeq(ChunkTexts(m)) \in Seq(Symbols)
  BY <1>1, FlattenFirst
<1>4. FlattenSeq([i \in DOMAIN m.chunks |-> ChunkOf(m.chunks[i])]) = FlattenSeq(ChunkTexts(m))
  BY DEF ChunkTexts
<1>5. QED
  BY <1>2, <1>3, <1>4 DEF ChunksFrom

\* A message is sent as its header and the rest.
LEMMA EncodeIs ==
  ASSUME NEW m \in Messages
  PROVE  /\ Encode(m) = HeaderOf(m) \o TailOf(m)
         /\ Encode(m) \in Seq(Symbols)
         /\ TailOf(m) \in Seq(Symbols)
<1> DEFINE f == Field(NameOf(m), ValueOf(m)) \o <<"CR", LastOf(m)>>
<1>1. NameOf(m) \in Symbols /\ ValueOf(m) \in Symbols /\ LastOf(m) \in Symbols
  BY HeaderIs, SymbolsAre
<1>2. f \in Seq(Symbols) /\ Line \in Seq(Symbols) /\ Line \o f = HeaderOf(m)
  BY <1>1, HeaderTuple DEF HeaderOf
<1>3. TailOf(m) \in Seq(Symbols) /\ HeaderOf(m) \in Seq(Symbols)
  BY TailIs, HeaderIs
<1>4. m.kind \in {"plain", "length", "chunked", "bad_line", "bad_length"}
  BY MessageIs DEF Kinds
<1> HIDE DEF f
<1>5. ASSUME Encode(m) = Line \o (f \o TailOf(m))
      PROVE  Encode(m) = HeaderOf(m) \o TailOf(m)
  <2> DEFINE t == TailOf(m)
             l == Line
  <2>1. l \in Seq(Symbols) /\ f \in Seq(Symbols) /\ t \in Seq(Symbols)
    BY <1>2, <1>3
  <2> HIDE DEF t, l
  <2>2. (l \o f) \o t = l \o (f \o t)
    <3>1. Associates(l, f, t)
      BY <2>1, Joining
    <3>2. QED
      BY <3>1 DEF Associates
  <2>3. QED
    BY <1>2, <1>5, <2>2 DEF t, l
<1>6. ASSUME TailOf(m) = <<>>, Encode(m) = Line \o f
      PROVE  Encode(m) = HeaderOf(m) \o TailOf(m)
  <2>1. HeaderOf(m) \o <<>> = HeaderOf(m)
    BY <1>3, ConcatEmptySeq
  <2>2. QED
    BY <1>2, <1>6, <2>1
<1>7. Encode(m) = HeaderOf(m) \o TailOf(m)
  <2>1. CASE m.kind = "plain"
    <3>1. TailOf(m) = <<>> /\ Encode(m) = Line \o f
      BY <2>1 DEF TailOf, Encode, f, NameOf, ValueOf, LastOf
    <3>2. QED
      BY <1>6, <3>1
  <2>2. CASE m.kind = "bad_line"
    <3>1. TailOf(m) = <<>> /\ Encode(m) = Line \o f
      BY <2>2 DEF TailOf, Encode, f, NameOf, ValueOf, LastOf
    <3>2. QED
      BY <1>6, <3>1
  <2>3. CASE m.kind = "bad_length"
    <3>1. TailOf(m) = <<>> /\ Encode(m) = Line \o f
      BY <2>3 DEF TailOf, Encode, f, NameOf, ValueOf, LastOf
    <3>2. QED
      BY <1>6, <3>1
  <2>4. CASE m.kind = "length"
    <3>1. Encode(m) = Line \o (f \o TailOf(m))
      BY <2>4 DEF TailOf, Encode, f, NameOf, ValueOf, LastOf
    <3>2. QED
      BY <1>3, <1>5, <3>1
  <2>5. CASE m.kind = "chunked"
    <3> DEFINE x == FlattenSeq([i \in DOMAIN m.chunks |-> ChunkOf(m.chunks[i])])
    <3>1. x \in Seq(Symbols) /\ ChunksFrom(m, 0) = x \o Finish /\ Finish \in Seq(Symbols)
      BY FlattenTexts, ChunksAre
    <3>2. Encode(m) = Line \o ((f \o x) \o Finish)
      BY <2>5 DEF Encode, f, NameOf, ValueOf, LastOf, Finish
    <3>3. TailOf(m) = ChunksFrom(m, 0)
      BY <2>5 DEF TailOf
    <3> HIDE DEF x
    <3>4. (f \o x) \o Finish = f \o (x \o Finish)
      <4>1. Associates(f, x, Finish)
        BY <1>2, <3>1, Joining
      <4>2. QED
        BY <4>1 DEF Associates
    <3>5. Encode(m) = Line \o (f \o TailOf(m))
      BY <3>1, <3>2, <3>3, <3>4
    <3>6. QED
      BY <1>3, <1>5, <3>5
  <2>6. QED
    BY <1>4, <2>1, <2>2, <2>3, <2>4, <2>5
<1>8. QED
  BY <1>3, <1>7, ConcatProperties

\* What a message means is a sequence of tellings.
LEMMA MeaningIs ==
  ASSUME NEW m \in Messages
  PROVE  Meaning(m) \in Seq(Told) /\ BodyOf(m) \in Seq(Told)
<1> DEFINE b == BodyOf(m)
<1>0. m.kind \in {"plain", "length", "chunked", "bad_line", "bad_length"}
  BY MessageIs DEF Kinds
<1>1. b \in Seq(Told)
  <2>1. b \in Seq(Symbols)
    BY ChunksAre
  <2>2. QED
    BY <2>1, LenProperties, ElementOfSeq DEF Told
<1>2. /\ <<"StartRecvingHeader", "ParseError">> \in Seq(Told)
      /\ <<"StartRecvingHeader", "HeaderReceived", "ParseError">> \in Seq(Told)
      /\ <<"StartRecvingHeader", "HeaderReceived">> \in Seq(Told)
      /\ <<"RequestReceived">> \in Seq(Told)
  BY DEF Told, Events
<1> HIDE DEF b
<1>3. (<<"StartRecvingHeader", "HeaderReceived">> \o b) \o <<"RequestReceived">> \in Seq(Told)
  BY <1>1, <1>2, ConcatProperties
<1>4. Meaning(m) \in Seq(Told)
  <2>1. CASE m.kind = "bad_line"
    BY <1>2, <2>1 DEF Meaning
  <2>2. CASE m.kind = "bad_length"
    BY <1>2, <2>2 DEF Meaning
  <2>3. CASE m.kind \notin {"bad_line", "bad_length"}
    BY <1>0, <1>3, <2>3 DEF Meaning, b
  <2>4. QED
    BY <2>1, <2>2, <2>3
<1>5. QED
  BY <1>1, <1>4 DEF b

\* A stream is sent, and means, message after message.
LEMMA StreamIs ==
  ASSUME NEW s \in Seq(Messages)
  PROVE  /\ Encodings(s) \in Seq(Seq(Symbols)) /\ Len(Encodings(s)) = Len(s)
         /\ Meanings(s) \in Seq(Seq(Told)) /\ Len(Meanings(s)) = Len(s) /\ Len(s) \in Nat
         /\ \A i \in 1 .. Len(s) : /\ s[i] \in Messages
                                   /\ Encodings(s)[i] = Encode(s[i])
                                   /\ Meanings(s)[i] = Meaning(s[i])
         /\ MeaningOf(s) = FlattenSeq(Meanings(s))
         /\ FlattenSeq([i \in DOMAIN s |-> Encode(s[i])]) = FlattenSeq(Encodings(s))
<1>1. /\ Len(s) \in Nat /\ DOMAIN s = 1 .. Len(s)
      /\ \A i \in 1 .. Len(s) : s[i] \in Messages
  BY LenProperties, ElementOfSeq
<1>2. \A i \in 1 .. Len(s) : Encode(s[i]) \in Seq(Symbols) /\ Meaning(s[i]) \in Seq(Told)
  BY <1>1, EncodeIs, MeaningIs
<1>3. /\ Encodings(s) \in Seq(Seq(Symbols)) /\ Len(Encodings(s)) = Len(s)
      /\ \A i \in 1 .. Len(s) : Encodings(s)[i] = Encode(s[i])
  BY <1>1, <1>2 DEF Encodings
<1>4. /\ Meanings(s) \in Seq(Seq(Told)) /\ Len(Meanings(s)) = Len(s)
      /\ \A i \in 1 .. Len(s) : Meanings(s)[i] = Meaning(s[i])
  BY <1>1, <1>2 DEF Meanings
<1>5. MeaningOf(s) = FlattenSeq(Meanings(s))
  BY DEF MeaningOf, Meanings
<1>6. FlattenSeq([i \in DOMAIN s |-> Encode(s[i])]) = FlattenSeq(Encodings(s))
  BY DEF Encodings
<1>7. QED
  BY <1>1, <1>3, <1>4, <1>5, <1>6

\* The meaning of the first messages of a stream.
LEMMA MeaningBefore ==
  ASSUME NEW s \in Seq(Messages), NEW m \in Nat, m <= Len(s)
  PROVE  MeaningOf(SubSeq(s, 1, m)) = Before(Meanings(s), m)
<1> DEFINE t == SubSeq(s, 1, m)
<1>1. t \in Seq(Messages) /\ Len(t) = m /\ \A i \in 1 .. m : t[i] = s[i]
  BY TakeIs DEF Take
<1> HIDE DEF t
<1>2. /\ MeaningOf(t) = FlattenSeq(Meanings(t))
      /\ Meanings(t) \in Seq(Seq(Told)) /\ Len(Meanings(t)) = m
      /\ \A i \in 1 .. m : Meanings(t)[i] = Meaning(t[i])
  BY <1>1, StreamIs
<1>3. /\ Meanings(s) \in Seq(Seq(Told)) /\ Len(Meanings(s)) = Len(s) /\ Len(s) \in Nat
      /\ \A i \in 1 .. Len(s) : Meanings(s)[i] = Meaning(s[i])
  BY StreamIs
<1>4. /\ Take(Meanings(s), m) \in Seq(Seq(Told)) /\ Len(Take(Meanings(s), m)) = m
      /\ \A i \in 1 .. m : Take(Meanings(s), m)[i] = Meanings(s)[i]
  BY <1>3, TakeIs
<1>5. ASSUME NEW i \in 1 .. m PROVE Meanings(t)[i] = Take(Meanings(s), m)[i]
  <2>1. i \in 1 .. Len(s)
    BY <1>3
  <2>2. QED
    BY <1>1, <1>2, <1>3, <1>4, <2>1
<1>6. Meanings(t) = Take(Meanings(s), m)
  BY <1>2, <1>4, <1>5, SeqEqual
<1>7. QED
  BY <1>2, <1>6 DEF Before, t

\* A field or a line of one symbol is the number it shows, or none.
LEMMA OneNumber ==
  /\ \A x \in Numbers : IsNumber(<<x>>) /\ NumberOf(<<x>>) = Value[x]
  /\ ~IsNumber(<<"a">>)
<1>1. ASSUME NEW x, x \notin {"SP", "CR", "LF"} PROVE NumberAt(<<x>>) = 1
  <2> DEFINE I == {i \in 1 .. Len(<<x>>) : <<x>>[i] \notin {"SP", "CR", "LF"}}
  <2>1. I = {1}
    BY <1>1
  <2>2. NumberAt(<<x>>) = IF I # {} THEN Min(I) ELSE 0
    BY DEF NumberAt, SelectInSeq
  <2> HIDE DEF I
  <2>3. Min({1}) = 1
    BY DEF Min
  <2>4. QED
    BY <2>1, <2>2, <2>3
<1>2. ASSUME NEW x \in Numbers PROVE IsNumber(<<x>>) /\ NumberOf(<<x>>) = Value[x]
  <2>1. NumberAt(<<x>>) = 1
    BY <1>1, SymbolsAre
  <2>2. <<x>>[1] = x
    OBVIOUS
  <2>3. QED
    BY <2>1, <2>2 DEF IsNumber, NumberOf
<1>3. ~IsNumber(<<"a">>)
  <2>1. NumberAt(<<"a">>) = 1
    BY <1>1
  <2>2. "a" \notin Numbers
    BY SymbolsAre
  <2>3. <<"a">>[1] = "a"
    OBVIOUS
  <2>4. QED
    BY <2>1, <2>2, <2>3 DEF IsNumber
<1>4. QED
  BY <1>2, <1>3

----------------------------------------------------------------------------
(* The way through what was sent.                                          *)

\* The bytes behind the first s are a, and then b.
ReadsBoth(s, a, b) ==
  /\ s + (Len(a) + Len(b)) = Len(bytes)
  /\ \A i \in 1 .. Len(a) : bytes[s + i] = a[i]
  /\ \A i \in 1 .. Len(b) : bytes[s + (Len(a) + i)] = b[i]

\* Reading two sequences of bytes one after the other.
LEMMA ReadsConcat ==
  ASSUME NEW s \in Nat, NEW a \in Seq(Symbols), NEW b \in Seq(Symbols)
  PROVE  Reads(s, a \o b) <=> ReadsBoth(s, a, b)
<1> DEFINE ab == a \o b
<1>1. /\ ab \in Seq(Symbols) /\ Len(ab) = Len(a) + Len(b)
      /\ \A i \in 1 .. Len(a) + Len(b) : ab[i] = IF i <= Len(a) THEN a[i] ELSE b[i - Len(a)]
  BY ConcatProperties
<1>2. Len(a) \in Nat /\ Len(b) \in Nat
  BY LenProperties
<1> HIDE DEF ab
<1>3. \A i \in 1 .. Len(a) : i \in 1 .. Len(ab) /\ ab[i] = a[i]
  BY <1>1, <1>2
<1>4. \A i \in 1 .. Len(b) : Len(a) + i \in 1 .. Len(ab) /\ ab[Len(a) + i] = b[i]
  <2> TAKE i \in 1 .. Len(b)
  <2>1. PICK j \in Nat : j = Len(a) + i
    BY <1>2
  <2>2. j \in 1 .. Len(a) + Len(b) /\ ~(j <= Len(a)) /\ j - Len(a) = i
    BY <1>2, <2>1
  <2>3. QED
    BY <1>1, <2>1, <2>2
<1>5. ASSUME Reads(s, ab)
      PROVE  /\ s + (Len(a) + Len(b)) = Len(bytes)
             /\ \A i \in 1 .. Len(a) : bytes[s + i] = a[i]
             /\ \A i \in 1 .. Len(b) : bytes[s + (Len(a) + i)] = b[i]
  BY <1>1, <1>3, <1>4, <1>5 DEF Reads
<1>6. ASSUME s + (Len(a) + Len(b)) = Len(bytes),
             \A i \in 1 .. Len(a) : bytes[s + i] = a[i],
             \A i \in 1 .. Len(b) : bytes[s + (Len(a) + i)] = b[i]
      PROVE  Reads(s, ab)
  <2>1. ASSUME NEW i \in 1 .. Len(ab) PROVE bytes[s + i] = ab[i]
    <3>1. CASE i <= Len(a)
      <4>1. i \in 1 .. Len(a)
        BY <1>1, <1>2, <3>1
      <4>2. QED
        BY <1>3, <1>6, <4>1
    <3>2. CASE ~(i <= Len(a))
      <4>1. i - Len(a) \in 1 .. Len(b)
        BY <1>1, <1>2, <3>2
      <4>2. PICK j \in 1 .. Len(b) : j = i - Len(a)
        BY <4>1
      <4>3. Len(a) + j = i
        BY <1>2, <4>2
      <4>4. bytes[s + (Len(a) + j)] = b[j]
        BY <1>6
      <4>5. ab[Len(a) + j] = b[j]
        BY <1>4
      <4>6. QED
        BY <4>3, <4>4, <4>5
    <3>3. QED
      BY <3>1, <3>2
  <2>2. QED
    BY <1>1, <1>6, <2>1 DEF Reads
<1>7. QED
  BY <1>5, <1>6, Zenon DEF ab, ReadsBoth

\* In a part of what is sent, the next symbol is the next byte.
LEMMA AtNext ==
  ASSUME bytes \in Seq(Symbols), NEW a \in Seq(Symbols), NEW b \in Seq(Symbols),
         NEW q \in Nat, q < Len(a), At(q, a, b)
  PROVE  /\ Place \in Nat /\ Place + (Len(a) - q) <= Len(bytes) /\ Place < Len(bytes)
         /\ bytes[Place + 1] = a[q + 1]
<1>1. PICK s \in 0 .. Len(bytes) : Place = s + q /\ Reads(s, a \o b)
  BY DEF At
<1>2. Len(bytes) \in Nat /\ Len(a) \in Nat /\ Len(b) \in Nat
  BY LenProperties
<1>3. s \in Nat
  BY <1>1, <1>2
<1>r. ReadsBoth(s, a, b)
  BY <1>1, <1>3, ReadsConcat
<1>4. /\ s + (Len(a) + Len(b)) = Len(bytes)
      /\ \A i \in 1 .. Len(a) : bytes[s + i] = a[i]
  BY <1>r DEF ReadsBoth
<1>5. q + 1 \in 1 .. Len(a)
  BY <1>2
<1>6. bytes[s + (q + 1)] = a[q + 1]
  BY <1>4, <1>5
<1>7. Place + 1 = s + (q + 1)
  BY <1>1, <1>3
<1>8. Place \in Nat /\ Place + (Len(a) - q) <= Len(bytes) /\ Place < Len(bytes)
  BY <1>1, <1>2, <1>3, <1>4
<1>9. QED
  BY <1>6, <1>7, <1>8

\* A step that takes `k` bytes moves the parser's place by `k`.
LEMMA AtMoves ==
  ASSUME bytes \in Seq(Symbols), UNCHANGED bytes, NEW a, NEW b,
         NEW q \in Nat, NEW k \in Nat, At(q, a, b), Place' = Place + k
  PROVE  At(q + k, a, b)'
<1>1. PICK s \in 0 .. Len(bytes) : Place = s + q /\ Reads(s, a \o b)
  BY DEF At
<1>2. s \in Nat
  BY <1>1, LenProperties
<1>3. Place' = s + (q + k)
  BY <1>1, <1>2
<1>4. Reads(s, a \o b)'
  BY <1>1 DEF Reads
<1>5. QED
  BY <1>1, <1>3, <1>4 DEF At

\* Behind a part there comes the next one.
LEMMA AtLeaves ==
  ASSUME bytes \in Seq(Symbols), UNCHANGED bytes,
         NEW a \in Seq(Symbols), NEW b \in Seq(Symbols), NEW x \in Seq(Symbols),
         NEW y \in Seq(Symbols), b = x \o y,
         NEW q \in Nat, NEW k \in Nat, q + k = Len(a),
         At(q, a, b), Place' = Place + k
  PROVE  At(0, x, y)'
<1>1. PICK s \in 0 .. Len(bytes) : Place = s + q /\ Reads(s, a \o b)
  BY DEF At
<1>2. Len(bytes) \in Nat /\ Len(a) \in Nat /\ Len(b) \in Nat
  BY LenProperties
<1>3. s \in Nat
  BY <1>1, <1>2
<1>r. ReadsBoth(s, a, b)
  BY <1>1, <1>3, ReadsConcat
<1>4. /\ s + (Len(a) + Len(b)) = Len(bytes)
      /\ \A i \in 1 .. Len(b) : bytes[s + (Len(a) + i)] = b[i]
  BY <1>r DEF ReadsBoth
<1>a. PICK j \in Nat : j = Len(a)
  BY <1>2
<1>b. PICK t \in Nat : t = s + j
  BY <1>3
<1>c. PICK r \in Nat : r = Len(b)
  BY <1>2
<1>d. PICK l \in Nat : l = Len(bytes)
  BY <1>2
<1>e. t + r = l
  <2>1. s + (j + r) = l
    BY <1>4, <1>a, <1>c, <1>d
  <2>2. QED
    BY <1>3, <1>b, <2>1
<1>f. Place' = t
  <2>1. j = q + k
    BY <1>a
  <2>2. Place' = (s + q) + k
    BY <1>1
  <2>3. (s + q) + k = s + j
    BY <1>3, <2>1
  <2>4. QED
    BY <1>b, <2>2, <2>3
<1>5. t \in Nat /\ t \in 0 .. Len(bytes) /\ t + Len(b) = Len(bytes)
      /\ Place' = t + 0 /\ \A i \in Nat : s + (Len(a) + i) = t + i
  <2>1. t \in 0 .. l /\ t = t + 0
    BY <1>e
  <2>2. \A i \in Nat : s + (j + i) = t + i
    BY <1>3, <1>b
  <2>3. QED
    BY <1>a, <1>c, <1>d, <1>e, <1>f, <2>1, <2>2
<1>6. \A i \in 1 .. Len(b) : bytes[t + i] = b[i]
  BY <1>2, <1>4, <1>5
<1>7. Reads(t, b)
  BY <1>5, <1>6 DEF Reads
<1>8. Reads(t, x \o y)'
  <2>1. Reads(t, x \o y)
    BY <1>7
  <2>2. QED
    BY <2>1 DEF Reads
<1>9. QED
  BY <1>5, <1>8 DEF At

\* What was read of a part grows by what is taken from it.
LEMMA AtPiece ==
  ASSUME bytes \in Seq(Symbols), NEW a \in Seq(Symbols), NEW b \in Seq(Symbols),
         NEW q \in Nat, NEW k \in Nat, q + k <= Len(a), At(q, a, b)
  PROVE  Take(a, q) \o BytesFrom(Place, k) = Take(a, q + k)
<1>1. PICK s \in 0 .. Len(bytes) : Place = s + q /\ Reads(s, a \o b)
  BY DEF At
<1>2. Len(bytes) \in Nat /\ Len(a) \in Nat /\ Len(b) \in Nat
  BY LenProperties
<1>3. s \in Nat
  BY <1>1, <1>2
<1>r. ReadsBoth(s, a, b)
  BY <1>1, <1>3, ReadsConcat
<1>4. \A i \in 1 .. Len(a) : bytes[s + i] = a[i] /\ a[i] \in Symbols
  BY <1>r, ElementOfSeq DEF ReadsBoth
<1> DEFINE x == Take(a, q)
           y == BytesFrom(Place, k)
           n == q + k
           z == Take(a, n)
<1>5. n \in Nat /\ n <= Len(a) /\ q <= Len(a) /\ n = q + k
  BY <1>2
<1> HIDE DEF n
<1>6. x \in Seq(Symbols) /\ Len(x) = q /\ \A i \in 1 .. q : x[i] = a[i]
  BY <1>5, TakeIs
<1>7. z \in Seq(Symbols) /\ Len(z) = n /\ \A i \in 1 .. n : z[i] = a[i]
  BY <1>5, TakeIs
<1>8. \A i \in 1 .. k : bytes[Place + i] = a[q + i] /\ a[q + i] \in Symbols
  <2> TAKE i \in 1 .. k
  <2>1. q + i \in 1 .. Len(a) /\ Place + i = s + (q + i)
    BY <1>1, <1>2, <1>3, <1>5
  <2>2. QED
    BY <1>4, <2>1
<1>9. y \in Seq(Symbols) /\ Len(y) = k /\ \A i \in 1 .. k : y[i] = a[q + i]
  BY <1>8 DEF BytesFrom
<1> HIDE DEF x, y, z
<1>10. Joins(x, y, z)
  <2>1. Len(z) = Len(x) + Len(y)
    BY <1>5, <1>6, <1>7, <1>9
  <2>2. \A i \in 1 .. q : i \in 1 .. n
    BY <1>5
  <2>3. \A i \in 1 .. k : q + i \in 1 .. n
    BY <1>5
  <2>4. \A i \in 1 .. Len(x) : z[i] = x[i]
    BY <1>6, <1>7, <2>2
  <2>5. \A i \in 1 .. Len(y) : z[Len(x) + i] = y[i]
    BY <1>6, <1>7, <1>9, <2>3
  <2>6. QED
    BY <2>1, <2>4, <2>5 DEF Joins
<1>11. x \o y = z
  BY <1>6, <1>7, <1>9, <1>10, JoinedIs, Zenon
<1>12. QED
  BY <1>11 DEF x, y, z, n

----------------------------------------------------------------------------
(* What a round of parse does to the events.                               *)

\* Which handler there is in a sub state.
LEMMA Dispatch ==
  ASSUME NEW c, NEW n, Consume(c, n)
  PROVE  /\ In("RequestLine", "S_EXPECT_METHOD") => ExpectMethod(c, n)
         /\ In("RequestLine", "S_EXPECT_URI") => ExpectUriOrVersion(c, n)
         /\ In("RequestLine", "S_EXPECT_VERSION") => ExpectUriOrVersion(c, n)
         /\ In("RequestLine", "S_EXPECT_CRLF") => ExpectCrlf(c, n)
         /\ In("Header", "S_EXPECT_FIELD_KEY") => ExpectFieldKey(c, n)
         /\ In("Header", "S_FIELD_ENDED") => ExpectFieldKey(c, n)
         /\ In("Header", "S_GET_COLON") => GetColon(c, n)
         /\ In("Header", "S_EXPECT_FIELD_VAL") => ExpectFieldVal(c, n)
         /\ In("Header", "S_EXPECT_FIELD_END") => ExpectFieldEnd(c, n)
         /\ In("Header", "S_EXPECT_HEADER_END") => ExpectHeaderEnd(c, n)
         /\ curr_state = "ContentLength" => BodyPiece(n)
         /\ In("Chunk", "S_EXPECT_LENGTH") => ExpectLength(c, n)
         /\ In("Chunk", "S_GET_INITIAL_CR") => GetInitialCr(c, n)
         /\ In("Chunk", "S_EXPECT_CHUNK_DATA") => ChunkData(n)
         /\ In("Chunk", "S_EXPECT_CHUNK_CR") => ExpectChunkCr(c, n)
         /\ In("Chunk", "S_EXPECT_CHUNK_LF") => ExpectChunkLf(c, n)
         /\ In("Chunk", "S_FINISH_WAIT_CR") => FinishWaitCr(c, n)
         /\ In("Chunk", "S_FINISH_WAIT_LF") => FinishWaitLf(c, n)
<1> USE DEF In
<1>1. ExpectMethod(c, n) => In("RequestLine", "S_EXPECT_METHOD")
  BY DEF ExpectMethod
<1>2. ExpectUriOrVersion(c, n) => curr_state = "RequestLine" /\ sub_state \in {"S_EXPECT_URI", "S_EXPECT_VERSION"}
  BY DEF ExpectUriOrVersion
<1>3. ExpectCrlf(c, n) => In("RequestLine", "S_EXPECT_CRLF")
  BY DEF ExpectCrlf
<1>4. ExpectFieldKey(c, n) => curr_state = "Header" /\ sub_state \in {"S_EXPECT_FIELD_KEY", "S_FIELD_ENDED"}
  BY DEF ExpectFieldKey
<1>5. GetColon(c, n) => In("Header", "S_GET_COLON")
  BY DEF GetColon
<1>6. ExpectFieldVal(c, n) => In("Header", "S_EXPECT_FIELD_VAL")
  BY DEF ExpectFieldVal
<1>7. ExpectFieldEnd(c, n) => In("Header", "S_EXPECT_FIELD_END")
  BY DEF ExpectFieldEnd
<1>8. ExpectHeaderEnd(c, n) => In("Header", "S_EXPECT_HEADER_END")
  BY DEF ExpectHeaderEnd
<1>9. BodyPiece(n) => curr_state = "ContentLength"
  BY DEF BodyPiece
<1>10. ExpectLength(c, n) => In("Chunk", "S_EXPECT_LENGTH")
  BY DEF ExpectLength
<1>11. GetInitialCr(c, n) => In("Chunk", "S_GET_INITIAL_CR")
  BY DEF GetInitialCr
<1>12. ChunkData(n) => In("Chunk", "S_EXPECT_CHUNK_DATA")
  BY DEF ChunkData
<1>13. ExpectChunkCr(c, n) => In("Chunk", "S_EXPECT_CHUNK_CR")
  BY DEF ExpectChunkCr
<1>14. ExpectChunkLf(c, n) => In("Chunk", "S_EXPECT_CHUNK_LF")
  BY DEF ExpectChunkLf
<1>15. FinishWaitCr(c, n) => In("Chunk", "S_FINISH_WAIT_CR")
  BY DEF FinishWaitCr
<1>16. FinishWaitLf(c, n) => In("Chunk", "S_FINISH_WAIT_LF")
  BY DEF FinishWaitLf
<1>17. QED
  BY <1>1, <1>2, <1>3, <1>4, <1>5, <1>6, <1>7, <1>8, <1>9, <1>10, <1>11, <1>12, <1>13,
     <1>14, <1>15, <1>16 DEF Consume

\* What a list of events says to the handlers, with the body S.
SaidOf(e, S) ==
  CASE e = "OnPartofBody" -> <<>>
    [] e = "RequestReceived" -> Append(S, e)
    [] OTHER -> <<e>>

\* The members of a sequence of none, one and two.
LEMMA RangesAre ==
  /\ Range(<<>>) = {}
  /\ \A a : Range(<<a>>) = {a}
  /\ \A a, b : Range(<<a, b>>) = {a, b}
<1>1. Range(<<>>) = {}
  BY DEF Range
<1>2. \A a : Range(<<a>>) = {a}
  <2> TAKE a
  <2>1. DOMAIN <<a>> = {1} /\ <<a>>[1] = a
    OBVIOUS
  <2>2. QED
    BY <2>1 DEF Range
<1>3. \A a, b : Range(<<a, b>>) = {a, b}
  <2> TAKE a, b
  <2>1. DOMAIN <<a, b>> = {1, 2} /\ <<a, b>>[1] = a /\ <<a, b>>[2] = b
    OBVIOUS
  <2>2. QED
    BY <2>1 DEF Range
<1>4. QED
  BY <1>1, <1>2, <1>3

\* FlattenSeq of two rows.
LEMMA FlattenTwo ==
  ASSUME NEW T, NEW a \in Seq(T), NEW b \in Seq(T)
  PROVE  FlattenSeq(<<a, b>>) = a \o b
<1> DEFINE one == <<a>>
<1>1. one \in Seq(Seq(T)) /\ FlattenSeq(one) = a
  BY FlattenOne
<1>2. <<a, b>> = Append(one, b)
  OBVIOUS
<1> HIDE DEF one
<1>3. FlattenSeq(Append(one, b)) = FlattenSeq(one) \o b
  BY <1>1, FlattenFirst
<1>4. QED
  BY <1>1, <1>2, <1>3

\* What the handlers get of up to two events.
Hands(S, pieces) ==
  /\ Handled(<<>>, pieces) = handed
  /\ \A e \in Events : Handled(<<e>>, pieces) = handed \o SaidOf(e, S)
  /\ \A d, e \in Events : Handled(<<d, e>>, pieces) = handed \o (SaidOf(d, S) \o SaidOf(e, S))

\* A pair is its members put together.
LEMMA PairIs ==
  ASSUME NEW T, NEW a \in T, NEW b \in T
  PROVE  <<a, b>> = <<a>> \o <<b>>
<1> DEFINE x == <<a>>
           y == <<b>>
           z == <<a, b>>
<1>1. x \in Seq(T) /\ y \in Seq(T) /\ z \in Seq(T)
  OBVIOUS
<1>2. Len(x) = 1 /\ Len(y) = 1 /\ Len(z) = 2 /\ x[1] = z[1] /\ y[1] = z[2]
  OBVIOUS
<1> HIDE DEF x, y, z
<1>3. \A i \in 1 .. Len(x) : z[i] = x[i]
  BY <1>2
<1>4. \A i \in 1 .. Len(y) : z[Len(x) + i] = y[i]
  BY <1>2
<1>5. Joins(x, y, z)
  BY <1>2, <1>3, <1>4 DEF Joins
<1>6. x \o y = z
  BY <1>1, <1>5, JoinedIs, Zenon
<1>7. QED
  BY <1>6 DEF x, y, z

\* What the processor is handed is what its events tell.
LEMMA HandledIs ==
  ASSUME NEW S \in Seq(Told), NEW pieces, SymbolsOf(pieces) = S, handed \in Seq(Told)
  PROVE  Hands(S, pieces)
<1>1. \A e \in Events : SaidOf(e, S) \in Seq(Told)
  <2> TAKE e \in Events
  <2>1. e \in Told /\ "RequestReceived" \in Told
    BY DEF Told, Events
  <2>2. Append(S, "RequestReceived") \in Seq(Told)
    BY <2>1, AppendProperties
  <2>3. <<>> \in Seq(Told) /\ <<e>> \in Seq(Told)
    BY <2>1
  <2>4. QED
    BY <2>2, <2>3 DEF SaidOf
<1>2. Handled(<<>>, pieces) = handed
  <2>1. Handled(<<>>, pieces) = handed \o FlattenSeq(<<>>)
    BY DEF Handled
  <2>2. QED
    BY <2>1, FlattenEmpty, ConcatEmptySeq
<1>3. ASSUME NEW e \in Events PROVE Handled(<<e>>, pieces) = handed \o SaidOf(e, S)
  <2> DEFINE x == SaidOf(e, S)
             evs == <<e>>
  <2>1. Handled(evs, pieces) = handed \o FlattenSeq([i \in DOMAIN evs |-> SaidOf(evs[i], S)])
    BY DEF Handled, SaidOf
  <2>2. [i \in DOMAIN evs |-> SaidOf(evs[i], S)] = <<x>>
    OBVIOUS
  <2>3. x \in Seq(Told)
    BY <1>1
  <2> HIDE DEF x
  <2>4. FlattenSeq(<<x>>) = x
    BY <2>3, FlattenOne
  <2>5. QED
    BY <2>1, <2>2, <2>4 DEF x
<1>4. ASSUME NEW d \in Events, NEW e \in Events
      PROVE  Handled(<<d, e>>, pieces) = handed \o (SaidOf(d, S) \o SaidOf(e, S))
  <2> DEFINE x == SaidOf(d, S)
             y == SaidOf(e, S)
             evs == <<d, e>>
  <2>1. Handled(evs, pieces) = handed \o FlattenSeq([i \in DOMAIN evs |-> SaidOf(evs[i], S)])
    BY DEF Handled, SaidOf
  <2>2. [i \in DOMAIN evs |-> SaidOf(evs[i], S)] = <<x, y>>
    OBVIOUS
  <2>3. x \in Seq(Told) /\ y \in Seq(Told)
    BY <1>1
  <2> HIDE DEF x, y
  <2>4. FlattenSeq(<<x, y>>) = x \o y
    BY <2>3, FlattenTwo
  <2>5. QED
    BY <2>1, <2>2, <2>4 DEF x, y
<1>5. QED
  BY <1>2, <1>3, <1>4 DEF Hands

\* What the events of a round change, when S is the body after it.
LEMMA RoundTells ==
  ASSUME ParseStep, handed \in Seq(Told), NEW S \in Seq(Told), SymbolsOf(body)' = S
  PROVE  /\ ctx'.events = <<>> => ~HasPiece /\ complete' = FALSE /\ handed' = handed
         /\ \A e \in {"StartRecvingHeader", "HeaderReceived", "ParseError"} :
              ctx'.events = <<e>> => /\ ~HasPiece /\ complete' = FALSE
                                     /\ handed' = handed \o <<e>>
         /\ ctx'.events = <<"HeaderReceived", "ParseError">> =>
              /\ ~HasPiece /\ complete' = FALSE
              /\ handed' = handed \o <<"HeaderReceived", "ParseError">>
         /\ ctx'.events = <<"OnPartofBody">> =>
              HasPiece /\ complete' = FALSE /\ handed' = handed
         /\ ctx'.events = <<"HeaderReceived", "RequestReceived">> /\ curr_state' = "RequestLine" =>
              /\ ~HasPiece /\ complete' = TRUE
              /\ handed' = handed \o (<<"HeaderReceived">> \o Append(S, "RequestReceived"))
         /\ ctx'.events = <<"RequestReceived">> /\ curr_state' = "RequestLine" =>
              /\ ~HasPiece /\ complete' = TRUE
              /\ handed' = handed \o Append(S, "RequestReceived")
         /\ ctx'.events = <<"OnPartofBody", "RequestReceived">> /\ curr_state' = "RequestLine" =>
              /\ HasPiece /\ complete' = TRUE
              /\ handed' = handed \o Append(S, "RequestReceived")
<1> DEFINE evs == ctx'.events
<1>1. /\ handed' = Handled(evs, body')
      /\ complete' = (curr_state' = "RequestLine" /\ "RequestReceived" \in Range(evs))
      /\ HasPiece <=> "OnPartofBody" \in Range(evs)
      /\ UNCHANGED <<raws, bytes>>
  BY DEF ParseStep, HasPiece, client
<1>2. SymbolsOf(body') = S
  BY <1>1 DEF SymbolsOf, SymbolAt
<1> HIDE DEF evs
<1>3. /\ Handled(<<>>, body') = handed
      /\ \A e \in Events : Handled(<<e>>, body') = handed \o SaidOf(e, S)
      /\ \A d, e \in Events : Handled(<<d, e>>, body') = handed \o (SaidOf(d, S) \o SaidOf(e, S))
  <2>1. Hands(S, body')
    BY <1>2, HandledIs
  <2>2. QED
    BY <2>1 DEF Hands
<1>4. \A e \in {"StartRecvingHeader", "HeaderReceived", "ParseError"} : SaidOf(e, S) = <<e>>
  BY DEF SaidOf
<1>5. SaidOf("OnPartofBody", S) = <<>> /\ SaidOf("RequestReceived", S) = Append(S, "RequestReceived")
  BY DEF SaidOf
<1>6. evs = <<>> => ~HasPiece /\ complete' = FALSE /\ handed' = handed
  BY <1>1, <1>3, RangesAre
<1>7. ASSUME NEW e \in {"StartRecvingHeader", "HeaderReceived", "ParseError"}, evs = <<e>>
      PROVE  ~HasPiece /\ complete' = FALSE /\ handed' = handed \o <<e>>
  <2>1. Range(evs) = {e}
    BY <1>7, RangesAre
  <2>2. e \in Events
    BY DEF Events
  <2>3. handed' = handed \o SaidOf(e, S)
    BY <1>1, <1>3, <1>7, <2>2
  <2>4. QED
    BY <1>1, <1>4, <2>1, <2>3
<1>8. ASSUME evs = <<"HeaderReceived", "ParseError">>
      PROVE  /\ ~HasPiece /\ complete' = FALSE
             /\ handed' = handed \o <<"HeaderReceived", "ParseError">>
  <2>1. Range(evs) = {"HeaderReceived", "ParseError"}
    BY <1>8, RangesAre, SMTT(30)
  <2>2. handed' = handed \o (SaidOf("HeaderReceived", S) \o SaidOf("ParseError", S))
    BY <1>1, <1>3, <1>8 DEF Events
  <2>3. <<"HeaderReceived">> \o <<"ParseError">> = <<"HeaderReceived", "ParseError">>
    <3>1. "HeaderReceived" \in Events /\ "ParseError" \in Events
      BY DEF Events
    <3>2. QED
      BY <3>1, PairIs, Zenon
  <2>4. QED
    BY <1>1, <1>4, <2>1, <2>2, <2>3
<1>9. ASSUME evs = <<"OnPartofBody">>
      PROVE  HasPiece /\ complete' = FALSE /\ handed' = handed
  <2>1. Range(evs) = {"OnPartofBody"}
    BY <1>9, RangesAre, SMTT(30)
  <2>2. handed' = handed \o <<>>
    BY <1>1, <1>3, <1>5, <1>9, ZenonT(40) DEF Events
  <2>3. QED
    BY <1>1, <2>1, <2>2, ConcatEmptySeq
<1>10. ASSUME evs = <<"HeaderReceived", "RequestReceived">>, curr_state' = "RequestLine"
       PROVE  /\ ~HasPiece /\ complete' = TRUE
              /\ handed' = handed \o (<<"HeaderReceived">> \o Append(S, "RequestReceived"))
  <2>1. Range(evs) = {"HeaderReceived", "RequestReceived"}
    BY <1>10, RangesAre, SMTT(30)
  <2>2. handed' = handed \o (SaidOf("HeaderReceived", S) \o SaidOf("RequestReceived", S))
    BY <1>1, <1>3, <1>10 DEF Events
  <2>3. QED
    BY <1>1, <1>4, <1>5, <1>10, <2>1, <2>2
<1>11. ASSUME evs = <<"RequestReceived">>, curr_state' = "RequestLine"
       PROVE  /\ ~HasPiece /\ complete' = TRUE
              /\ handed' = handed \o Append(S, "RequestReceived")
  <2>1. Range(evs) = {"RequestReceived"}
    BY <1>11, RangesAre
  <2>2. handed' = handed \o SaidOf("RequestReceived", S)
    BY <1>1, <1>3, <1>11 DEF Events
  <2>3. QED
    BY <1>1, <1>5, <1>11, <2>1, <2>2
<1>12. ASSUME evs = <<"OnPartofBody", "RequestReceived">>, curr_state' = "RequestLine"
       PROVE  /\ HasPiece /\ complete' = TRUE
              /\ handed' = handed \o Append(S, "RequestReceived")
  <2>1. Range(evs) = {"OnPartofBody", "RequestReceived"}
    BY <1>12, RangesAre
  <2>2. handed' = handed \o (SaidOf("OnPartofBody", S) \o SaidOf("RequestReceived", S))
    BY <1>1, <1>3, <1>12 DEF Events
  <2>3. Append(S, "RequestReceived") \in Seq(Told)
    BY AppendProperties DEF Told, Events
  <2>4. <<>> \o Append(S, "RequestReceived") = Append(S, "RequestReceived")
    BY <2>3, ConcatEmptySeq
  <2>5. QED
    BY <1>1, <1>5, <1>12, <2>1, <2>2, <2>4
<1>13. QED
  BY <1>6, <1>7, <1>8, <1>9, <1>10, <1>11, <1>12 DEF evs

----------------------------------------------------------------------------
(* A header, byte for byte.                                                *)

\* A byte of the header moves the parser one place on and tells nothing.
LEMMA HeaderByte ==
  ASSUME NEW name \in Symbols, NEW value \in Symbols, NEW last,
         name # ":", value # "CR",
         NEW q \in 1 .. 13, NEW n, NEW c,
         c = <<"a", "SP", "a", "SP", "a", "CR", "LF",
               name, ":", "SP", value, "CR", "LF", "CR", last>>[q + 1],
         HeaderAt(q, name, value), Consume(c, n)
  PROVE  HeaderAt(q + 1, name, value)' /\ Emits(n, <<>>)
<1>0. <<name>> = Append(<<>>, name) /\ <<value>> = Append(<<>>, value)
  OBVIOUS
<1>1. CASE q = 1
  <2>1. /\ c = "SP" /\ In("RequestLine", "S_EXPECT_METHOD")
        /\ method = TRUE /\ key = <<>> /\ val = <<>> /\ headers = {}
    BY <1>1 DEF HeaderAt
  <2>2. ExpectMethod(c, n)
    BY <2>1, Dispatch
  <2>3. /\ In("RequestLine", "S_EXPECT_URI")' /\ Emits(n, <<>>)
        /\ UNCHANGED <<key, val, headers>>
    BY <2>1, <2>2 DEF ExpectMethod, To, In
  <2>4. method' = TRUE
    BY <2>1, <2>2, Zenon DEF ExpectMethod
  <2>5. HeaderAt(2, name, value)'
    BY <2>1, <2>3, <2>4 DEF HeaderAt, In
  <2>6. QED
    BY <1>1, <2>3, <2>5
<1>2. CASE q = 2
  <2>1. /\ c = "a" /\ In("RequestLine", "S_EXPECT_URI")
        /\ method = TRUE /\ key = <<>> /\ val = <<>> /\ headers = {}
    BY <1>2 DEF HeaderAt
  <2>2. ExpectUriOrVersion(c, n)
    BY <2>1, Dispatch
  <2>3. HeaderAt(3, name, value)' /\ Emits(n, <<>>)
    BY <1>0, <2>1, <2>2 DEF ExpectUriOrVersion, To, HeaderAt, In, text
  <2>4. QED
    BY <1>2, <2>3
<1>3. CASE q = 3
  <2>1. /\ c = "SP" /\ In("RequestLine", "S_EXPECT_URI")
        /\ method = TRUE /\ key = <<>> /\ val = <<>> /\ headers = {}
    BY <1>3 DEF HeaderAt
  <2>2. ExpectUriOrVersion(c, n)
    BY <2>1, Dispatch
  <2>3. HeaderAt(4, name, value)' /\ Emits(n, <<>>)
    BY <1>0, <2>1, <2>2 DEF ExpectUriOrVersion, To, HeaderAt, In, text
  <2>4. QED
    BY <1>3, <2>3
<1>4. CASE q = 4
  <2>1. /\ c = "a" /\ In("RequestLine", "S_EXPECT_VERSION")
        /\ method = TRUE /\ key = <<>> /\ val = <<>> /\ headers = {}
    BY <1>4 DEF HeaderAt
  <2>2. ExpectUriOrVersion(c, n)
    BY <2>1, Dispatch
  <2>3. HeaderAt(5, name, value)' /\ Emits(n, <<>>)
    BY <1>0, <2>1, <2>2 DEF ExpectUriOrVersion, To, HeaderAt, In, text
  <2>4. QED
    BY <1>4, <2>3
<1>5. CASE q = 5
  <2>1. /\ c = "CR" /\ In("RequestLine", "S_EXPECT_VERSION")
        /\ method = TRUE /\ key = <<>> /\ val = <<>> /\ headers = {}
    BY <1>5 DEF HeaderAt
  <2>2. ExpectUriOrVersion(c, n)
    BY <2>1, Dispatch
  <2>3. HeaderAt(6, name, value)' /\ Emits(n, <<>>)
    BY <1>0, <2>1, <2>2 DEF ExpectUriOrVersion, To, HeaderAt, In, text
  <2>4. QED
    BY <1>5, <2>3
<1>6. CASE q = 6
  <2>1. /\ c = "LF" /\ In("RequestLine", "S_EXPECT_CRLF")
        /\ method = TRUE /\ key = <<>> /\ val = <<>> /\ headers = {}
    BY <1>6 DEF HeaderAt
  <2>2. ExpectCrlf(c, n)
    BY <2>1, Dispatch
  <2>3. /\ In("Header", "S_EXPECT_FIELD_KEY")' /\ Emits(n, <<>>)
        /\ UNCHANGED <<key, val, headers>>
    BY <2>1, <2>2 DEF ExpectCrlf, Enter, Entry, In
  <2>4. method' = FALSE
    BY <2>1, <2>2, Zenon DEF ExpectCrlf
  <2>5. HeaderAt(7, name, value)'
    BY <2>1, <2>3, <2>4 DEF HeaderAt, In
  <2>6. QED
    BY <1>6, <2>3, <2>5
<1>7. CASE q = 7
  <2>1. /\ c = name /\ In("Header", "S_EXPECT_FIELD_KEY")
        /\ method = FALSE /\ key = <<>> /\ val = <<>> /\ headers = {}
    BY <1>7 DEF HeaderAt
  <2>2. ExpectFieldKey(c, n)
    BY <2>1, Dispatch
  <2>3. HeaderAt(8, name, value)' /\ Emits(n, <<>>)
    BY <1>0, <2>1, <2>2 DEF ExpectFieldKey, To, HeaderAt, In, text
  <2>4. QED
    BY <1>7, <2>3
<1>8. CASE q = 8
  <2>1. /\ c = ":" /\ In("Header", "S_EXPECT_FIELD_KEY")
        /\ method = FALSE /\ key = <<name>> /\ val = <<>> /\ headers = {}
    BY <1>8 DEF HeaderAt
  <2>2. ExpectFieldKey(c, n)
    BY <2>1, Dispatch
  <2>3. HeaderAt(9, name, value)' /\ Emits(n, <<>>)
    BY <1>0, <2>1, <2>2 DEF ExpectFieldKey, To, HeaderAt, In, text
  <2>4. QED
    BY <1>8, <2>3
<1>9. CASE q = 9
  <2>1. /\ c = "SP" /\ In("Header", "S_GET_COLON")
        /\ method = FALSE /\ key = <<name>> /\ val = <<>> /\ headers = {}
    BY <1>9 DEF HeaderAt
  <2>2. GetColon(c, n)
    BY <2>1, Dispatch
  <2>3. HeaderAt(10, name, value)' /\ Emits(n, <<>>)
    BY <1>0, <2>1, <2>2 DEF GetColon, To, HeaderAt, In, text
  <2>4. QED
    BY <1>9, <2>3
<1>10. CASE q = 10
  <2>1. /\ c = value /\ In("Header", "S_EXPECT_FIELD_VAL")
        /\ method = FALSE /\ key = <<name>> /\ val = <<>> /\ headers = {}
    BY <1>10 DEF HeaderAt
  <2>2. ExpectFieldVal(c, n)
    BY <2>1, Dispatch
  <2>3. HeaderAt(11, name, value)' /\ Emits(n, <<>>)
    BY <1>0, <2>1, <2>2 DEF ExpectFieldVal, To, HeaderAt, In, text
  <2>4. QED
    BY <1>10, <2>3
<1>11. CASE q = 11
  <2>1. /\ c = "CR" /\ In("Header", "S_EXPECT_FIELD_VAL")
        /\ method = FALSE /\ key = <<name>> /\ val = <<value>> /\ headers = {}
    BY <1>11 DEF HeaderAt
  <2>2. ExpectFieldVal(c, n)
    BY <2>1, Dispatch
  <2>3. HeaderAt(12, name, value)' /\ Emits(n, <<>>)
    BY <1>0, <2>1, <2>2 DEF ExpectFieldVal, To, HeaderAt, In, text
  <2>4. QED
    BY <1>11, <2>3
<1>12. CASE q = 12
  <2>1. /\ c = "LF" /\ In("Header", "S_EXPECT_FIELD_END")
        /\ method = FALSE /\ key = <<>> /\ val = <<>> /\ headers = {<< <<name>>, <<value>> >>}
    BY <1>12 DEF HeaderAt
  <2>2. ExpectFieldEnd(c, n)
    BY <2>1, Dispatch
  <2>3. HeaderAt(13, name, value)' /\ Emits(n, <<>>)
    BY <1>0, <2>1, <2>2 DEF ExpectFieldEnd, Due, To, HeaderAt, In, text
  <2>4. QED
    BY <1>12, <2>3
<1>13. CASE q = 13
  <2>1. /\ c = "CR" /\ In("Header", "S_FIELD_ENDED")
        /\ method = FALSE /\ key = <<>> /\ val = <<>> /\ headers = {<< <<name>>, <<value>> >>}
    BY <1>13 DEF HeaderAt
  <2>2. ExpectFieldKey(c, n)
    BY <2>1, Dispatch
  <2>3. HeaderAt(14, name, value)' /\ Emits(n, <<>>)
    BY <1>0, <2>1, <2>2 DEF ExpectFieldKey, To, HeaderAt, In, text
  <2>4. QED
    BY <1>13, <2>3
<1>14. QED
  BY <1>1, <1>2, <1>3, <1>4, <1>5, <1>6, <1>7, <1>8, <1>9, <1>10, <1>11, <1>12, <1>13

----------------------------------------------------------------------------
(* What the handlers were told of a message.                               *)

\* The tellings of a message, put together as the parser tells them.
LEMMA TellingsAdd ==
  ASSUME NEW D \in Seq(Told), NEW B \in Seq(Told)
  PROVE  /\ (D \o <<"StartRecvingHeader">>) \o <<"HeaderReceived">> = D \o HeaderTold
         /\ (D \o HeaderTold) \o Append(B, "RequestReceived") =
              D \o (HeaderTold \o B \o <<"RequestReceived">>)
         /\ (D \o <<"StartRecvingHeader">>) \o (<<"HeaderReceived">> \o Append(B, "RequestReceived")) =
              D \o (HeaderTold \o B \o <<"RequestReceived">>)
         /\ (D \o <<"StartRecvingHeader">>) \o <<"ParseError">> =
              D \o <<"StartRecvingHeader", "ParseError">>
         /\ (D \o <<"StartRecvingHeader">>) \o <<"HeaderReceived", "ParseError">> =
              D \o <<"StartRecvingHeader", "HeaderReceived", "ParseError">>
<1> DEFINE s == <<"StartRecvingHeader">>
           h == <<"HeaderReceived">>
           r == <<"RequestReceived">>
           e == <<"ParseError">>
           he == <<"HeaderReceived", "ParseError">>
           she == <<"StartRecvingHeader", "HeaderReceived", "ParseError">>
           x == Append(B, "RequestReceived")
<1>1. /\ "StartRecvingHeader" \in Told /\ "HeaderReceived" \in Told
      /\ "RequestReceived" \in Told /\ "ParseError" \in Told
  BY DEF Told, Events
<1>2. /\ s \in Seq(Told) /\ h \in Seq(Told) /\ r \in Seq(Told) /\ e \in Seq(Told)
      /\ he \in Seq(Told) /\ she \in Seq(Told) /\ HeaderTold \in Seq(Told)
  BY <1>1 DEF HeaderTold
<1>3. s \o h = HeaderTold /\ s \o e = <<"StartRecvingHeader", "ParseError">>
  BY <1>1, PairIs, Zenon DEF HeaderTold
<1>4. s \o he = she
  <2>1. Len(s) = 1 /\ Len(he) = 2 /\ Len(she) = 3
    OBVIOUS
  <2>2. s[1] = she[1] /\ he[1] = she[2] /\ he[2] = she[3]
    OBVIOUS
  <2> HIDE DEF s, he, she
  <2>3. \A i \in 1 .. Len(s) : she[i] = s[i]
    BY <2>1, <2>2
  <2>4. \A i \in 1 .. Len(he) : she[Len(s) + i] = he[i]
    BY <2>1, <2>2
  <2>5. Joins(s, he, she)
    BY <2>1, <2>3, <2>4 DEF Joins
  <2>6. QED
    BY <1>2, <2>5, JoinedIs, Zenon
<1>5. x = B \o r /\ x \in Seq(Told)
  BY <1>1, AppendIsConcat, AppendProperties
<1> DEFINE ss == <<"StartRecvingHeader", "ParseError">>
<1>6. ss = s \o e
  BY <1>3
<1> HIDE DEF s, h, r, e, he, she, x, ss
<1>7. (D \o s) \o h = D \o HeaderTold
  <2>1. (D \o s) \o h = D \o (s \o h)
    <3>1. Associates(D, s, h)
      BY <1>2, Joining
    <3>2. QED
      BY <3>1 DEF Associates
  <2>2. QED
    BY <1>3, <2>1 DEF ss
<1>8. (D \o HeaderTold) \o x = D \o ((HeaderTold \o B) \o r)
  <2>1. HeaderTold \in Seq(Told) /\ x \in Seq(Told)
    BY <1>2, <1>5
  <2>2. (D \o HeaderTold) \o x = D \o (HeaderTold \o x)
    <3>1. Associates(D, HeaderTold, x)
      BY <2>1, Joining
    <3>2. QED
      BY <3>1 DEF Associates
  <2>3. HeaderTold \in Seq(Told) /\ r \in Seq(Told)
    BY <1>2
  <2>4. (HeaderTold \o B) \o r = HeaderTold \o (B \o r)
    <3>1. Associates(HeaderTold, B, r)
      BY <2>3, Joining
    <3>2. QED
      BY <3>1 DEF Associates
  <2>5. QED
    BY <1>5, <2>2, <2>4
<1>9. (D \o s) \o (h \o x) = (D \o HeaderTold) \o x
  <2> DEFINE ds == D \o s
  <2>1. ds \in Seq(Told)
    BY <1>2, ConcatProperties
  <2>2. ds \o h = D \o HeaderTold
    BY <1>7
  <2> HIDE DEF ds
  <2>3. h \in Seq(Told) /\ x \in Seq(Told)
    BY <1>2, <1>5
  <2>4. (ds \o h) \o x = ds \o (h \o x)
    <3>1. Associates(ds, h, x)
      BY <2>1, <2>3, Joining
    <3>2. QED
      BY <3>1 DEF Associates
  <2>5. QED
    BY <2>2, <2>4 DEF ds
<1>10. (D \o s) \o e = D \o ss
  <2>1. (D \o s) \o e = D \o (s \o e)
    <3>1. Associates(D, s, e)
      BY <1>2, Joining
    <3>2. QED
      BY <3>1 DEF Associates
  <2>2. QED
    BY <1>6, <2>1
<1>11. (D \o s) \o he = D \o she
  <2>1. (D \o s) \o he = D \o (s \o he)
    <3>1. Associates(D, s, he)
      BY <1>2, Joining
    <3>2. QED
      BY <3>1 DEF Associates
  <2>2. QED
    BY <1>4, <2>1
<1>12. (D \o s) \o (h \o x) = D \o ((HeaderTold \o B) \o r)
  BY <1>8, <1>9
<1>13. QED
  BY <1>7, <1>8, <1>10, <1>11, <1>12 DEF s, h, r, e, he, she, x, ss

\* The message behind the first m, and what comes behind it.
Here(m, msg, rest) ==
  /\ m < Len(stream) /\ stream[m + 1] = msg
  /\ Behind(Encodings(stream), m + 1) = rest

\* What is known of the message the parser is in.
LEMMA HereIs ==
  ASSUME stream \in Seq(Messages), NEW m \in Nat, NEW msg, NEW rest, Here(m, msg, rest)
  PROVE  /\ msg \in Messages /\ rest \in Seq(Symbols) /\ m + 1 \in 0 .. Len(stream)
         /\ m \in 0 .. Len(stream)
         /\ Before(Meanings(stream), m) \in Seq(Told)
         /\ Before(Meanings(stream), m + 1) = Before(Meanings(stream), m) \o Meaning(msg)
         /\ Behind(Encodings(stream), m) = HeaderOf(msg) \o (TailOf(msg) \o rest)
<1> DEFINE E == Encodings(stream)
           M == Meanings(stream)
           k == m + 1
<1>1. /\ E \in Seq(Seq(Symbols)) /\ Len(E) = Len(stream)
      /\ M \in Seq(Seq(Told)) /\ Len(M) = Len(stream) /\ Len(stream) \in Nat
      /\ \A i \in 1 .. Len(stream) :
           stream[i] \in Messages /\ E[i] = Encode(stream[i]) /\ M[i] = Meaning(stream[i])
  BY StreamIs
<1>2. k \in 1 .. Len(stream) /\ k \in Nat /\ k <= Len(stream) /\ k \in 0 .. Len(stream)
      /\ m \in 0 .. Len(stream) /\ m <= Len(stream) /\ m < Len(stream)
  BY <1>1 DEF Here
<1>3. msg \in Messages /\ E[k] = Encode(msg) /\ M[k] = Meaning(msg)
  BY <1>1, <1>2 DEF Here
<1>4. rest \in Seq(Symbols)
  BY <1>1, <1>2, Parts DEF Here
<1> HIDE DEF E, M
<1>5. Before(M, m) \in Seq(Told)
  BY <1>1, <1>2, Parts
<1>6. Before(M, m + 1) = Before(M, m) \o M[m + 1]
  BY <1>1, <1>2, NextPart
<1>7. Behind(E, m) = E[m + 1] \o Behind(E, m + 1)
  BY <1>1, <1>2, NextPart
<1> DEFINE h == HeaderOf(msg)
           t == TailOf(msg)
<1>8. h \in Seq(Symbols) /\ t \in Seq(Symbols) /\ Encode(msg) = h \o t
  BY <1>3, HeaderIs, EncodeIs
<1> HIDE DEF h, t
<1>9. (h \o t) \o rest = h \o (t \o rest)
  <2>1. Associates(h, t, rest)
    BY <1>4, <1>8, Joining
  <2>2. QED
    BY <2>1 DEF Associates
<1>10. Behind(E, m) = h \o (t \o rest)
  BY <1>3, <1>7, <1>8, <1>9 DEF Here, E
<1>11. QED
  BY <1>2, <1>3, <1>4, <1>5, <1>6, <1>10 DEF E, M, h, t

\* The message is complete.
LEMMA MessageEnds ==
  ASSUME stream \in Seq(Messages), UNCHANGED stream,
         NEW m \in Nat, NEW msg, NEW rest, Here(m, msg, rest),
         In("RequestLine", "S_EXPECT_METHOD")',
         method' = FALSE, key' = <<>>, val' = <<>>, ctx'.err = FALSE, complete' = TRUE,
         At(0, <<>>, rest)',
         handed' = Before(Meanings(stream), m) \o Meaning(msg),
         SymbolsOf(body)' = BodyOf(msg)
  PROVE  Story'
<1> DEFINE k == m + 1
<1>1. k \in 0 .. Len(stream) /\ k # 0 /\ handed' = Before(Meanings(stream), k)
  BY HereIs
<1>2. At(0, <<>>, Behind(Encodings(stream), k))'
  BY DEF Here
<1>3. SymbolsOf(body)' = BodyOf(stream'[k])
  BY DEF Here
<1> HIDE DEF k
<1>4. handed' = Before(Meanings(stream'), k)
  BY <1>1
<1>5. Between(k)'
  BY <1>1, <1>2, <1>3, <1>4 DEF Between, In
<1>6. QED
  BY <1>1, <1>5 DEF Story, StoryAt

\* It is malformed.
LEMMA MessageFails ==
  ASSUME stream \in Seq(Messages), UNCHANGED stream,
         NEW m \in Nat, NEW msg, NEW rest, Here(m, msg, rest),
         ctx'.err = TRUE, complete' = FALSE,
         handed' = Before(Meanings(stream), m) \o Meaning(msg)
  PROVE  Story'
<1>1. m \in 0 .. Len(stream) /\ handed' = Before(Meanings(stream), m + 1)
  BY HereIs
<1>2. handed' = Before(Meanings(stream'), m + 1)
  BY <1>1
<1>3. Failed(m)'
  BY <1>2 DEF Failed, Here
<1>4. QED
  BY <1>1, <1>3 DEF Story, StoryAt

\* It goes on.
LEMMA MessageGoesOn ==
  ASSUME stream \in Seq(Messages), UNCHANGED stream,
         NEW m \in Nat, NEW msg, NEW rest, Here(m, msg, rest),
         InHeader(m, msg, rest)' \/ InBody(m, msg, rest)' \/ InChunks(m, msg, rest)'
  PROVE  Story'
<1>1. m \in 0 .. Len(stream)
  BY HereIs
<1>2. msg = stream'[m + 1] /\ rest = Behind(Encodings(stream'), m + 1)
  BY DEF Here
<1>3. StoryAt(m)'
  BY <1>2 DEF StoryAt
<1>4. QED
  BY <1>1, <1>3 DEF Story

----------------------------------------------------------------------------
(* A round of parse, where the parser is.                                  *)

\* Before a message nothing of it is read.
LEMMA AtOpens ==
  ASSUME NEW a \in Seq(Symbols), NEW b \in Seq(Symbols), NEW x, x = a \o b, At(0, <<>>, x)
  PROVE  At(0, a, b)
<1>1. x \in Seq(Symbols)
  BY ConcatProperties
<1>2. <<>> \o x = a \o b
  BY <1>1, ConcatEmptySeq
<1>3. QED
  BY <1>2 DEF At

\* With nothing left to read the parser is at the end.
LEMMA AtNothing ==
  ASSUME bytes \in Seq(Symbols), At(0, <<>>, <<>>)
  PROVE  Place = Len(bytes)
<1>1. PICK s \in 0 .. Len(bytes) : Place = s + 0 /\ Reads(s, <<>> \o <<>>)
  BY DEF At
<1>2. Len(bytes) \in Nat
  BY LenProperties
<1>3. <<>> \o <<>> = <<>>
  BY EmptySeq, ConcatEmptySeq
<1>4. s + 0 = Len(bytes)
  BY <1>1, <1>3, EmptySeq DEF Reads
<1>5. QED
  BY <1>1, <1>4

\* The events of a round without a piece, and of one with a piece.
ByteLists ==
  {<<>>, <<"StartRecvingHeader">>, <<"HeaderReceived">>, <<"ParseError">>, <<"RequestReceived">>,
   <<"HeaderReceived", "ParseError">>, <<"HeaderReceived", "RequestReceived">>}
PieceLists == {<<"OnPartofBody">>, <<"OnPartofBody", "RequestReceived">>}

\* A round without a piece takes one byte and leaves the body.
LEMMA OneByte ==
  ASSUME Took, ctx'.events \in ByteLists
  PROVE  Place' = Place + 1 /\ SymbolsOf(body)' = SymbolsOf(body)
<1>1. \A x \in ByteLists : "OnPartofBody" \notin Range(x)
  BY RangesAre DEF ByteLists
<1>2. ~HasPiece
  BY <1>1 DEF HasPiece
<1>3. QED
  BY <1>2 DEF Took, Taking

\* A round with a piece takes its bytes and adds them to the body.
LEMMA APiece ==
  ASSUME Took, ctx'.events \in PieceLists
  PROVE  /\ Place' = Place + ctx'.step
         /\ SymbolsOf(body)' = SymbolsOf(body) \o BytesFrom(Place, ctx'.step)
         /\ HasPiece
<1>1. \A x \in PieceLists : "OnPartofBody" \in Range(x)
  BY RangesAre DEF PieceLists
<1>2. HasPiece
  BY <1>1 DEF HasPiece
<1>3. QED
  BY <1>2 DEF Took, Taking

\* What every round has.
RoundOf(n) ==
  /\ n \in Nat \ {0} /\ Taking \in 1 .. n
  /\ Place \in Nat /\ Place + n <= Len(bytes) /\ Consume(bytes[Place + 1], n)

\* What a round of parse is, of the buffers and of the parser.
LEMMA RoundIs ==
  ASSUME InputInv, ParseStep
  PROVE  /\ Took /\ UNCHANGED <<stream, bytes>>
         /\ bytes \in Seq(Symbols) /\ Len(bytes) \in Nat /\ stream \in Seq(Messages)
         /\ ParserTypeOK /\ AwaitsContent
         /\ complete = FALSE /\ ctx.err = FALSE
         /\ \E n : RoundOf(n)
<1>1. Took /\ Place \in Nat
  BY ParseStepKeeps
<1>2. PICK n \in Nat \ {0} : /\ Taking \in 1 .. n /\ Place + n <= Len(bytes)
                             /\ Consume(bytes[Place + 1], n)
  BY <1>1 DEF Took
<1>3. RoundOf(n)
  BY <1>1, <1>2 DEF RoundOf
<1>4. complete \in BOOLEAN /\ ctx.err \in BOOLEAN /\ ParserTypeOK /\ AwaitsContent
  BY DEF InputInv, ParserInv, ParserTypeOK
<1>5. complete = FALSE /\ ctx.err = FALSE
  BY <1>4, Zenon DEF ParseStep
<1>6. bytes \in Seq(Symbols) /\ stream \in Seq(Messages)
  BY DEF InputInv
<1>7. Len(bytes) \in Nat
  BY <1>6, LenProperties
<1>8. UNCHANGED <<stream, bytes>>
  BY <1>1 DEF Took
<1>9. QED
  BY <1>1, <1>3, <1>4, <1>5, <1>6, <1>7, <1>8

\* The first byte of a message.
LEMMA BetweenRound ==
  ASSUME InputInv, ParseStep, NEW m \in 0 .. Len(stream), Between(m)
  PROVE  Story'
<1>1. /\ Took /\ UNCHANGED <<stream, bytes>>
      /\ bytes \in Seq(Symbols) /\ Len(bytes) \in Nat /\ stream \in Seq(Messages)
      /\ complete = FALSE
  BY RoundIs
<1>2. PICK n : RoundOf(n)
  BY RoundIs
<1>3. /\ Place \in Nat /\ Place < Len(bytes) /\ Consume(bytes[Place + 1], n)
  BY <1>1, <1>2 DEF RoundOf
<1>4. /\ Encodings(stream) \in Seq(Seq(Symbols)) /\ Len(Encodings(stream)) = Len(stream)
      /\ Len(stream) \in Nat
  BY <1>1, StreamIs
<1>5. m < Len(stream) /\ m \in Nat
  <2>1. m # Len(stream)
    <3>1. SUFFICES ASSUME m = Len(stream) PROVE FALSE
      OBVIOUS
    <3>2. Behind(Encodings(stream), m) = <<>>
      BY <1>4, <3>1, PartsEnds
    <3>3. At(0, <<>>, <<>>)
      BY <3>2 DEF Between
    <3>4. QED
      BY <1>1, <1>3, <3>3, AtNothing
  <2>2. QED
    BY <1>4, <2>1
<1> DEFINE k == m + 1
<1>6. PICK msg : msg = stream[k]
  OBVIOUS
<1>7. PICK rest : rest = Behind(Encodings(stream), k)
  OBVIOUS
<1>8. Here(m, msg, rest)
  BY <1>5, <1>6, <1>7 DEF Here
<1>9. /\ msg \in Messages /\ rest \in Seq(Symbols)
      /\ Behind(Encodings(stream), m) = HeaderOf(msg) \o (TailOf(msg) \o rest)
      /\ Before(Meanings(stream), m) \in Seq(Told)
  <2>1. stream \in Seq(Messages) /\ m \in Nat
    BY <1>1, <1>5
  <2>2. QED
    BY <1>8, <2>1, HereIs
<1> DEFINE h == HeaderOf(msg)
           t == TailOf(msg) \o rest
<1>10. h \in Seq(Symbols) /\ Len(h) = 15
  BY <1>9, HeaderIs
<1>a. t \in Seq(Symbols)
  BY <1>9, TailIs, ConcatProperties
<1>11. h[1] = "a"
  BY DEF HeaderOf
<1>12. At(0, <<>>, Behind(Encodings(stream), m))
  BY DEF Between
<1> HIDE DEF h, t
<1>13. At(0, h, t)
  BY <1>9, <1>10, <1>a, <1>12, AtOpens DEF h, t
<1>14. bytes[Place + 1] = "a"
  <2>1. bytes[Place + 1] = h[0 + 1]
    <3>1. PICK q \in Nat : q = 0
      OBVIOUS
    <3>2. q < Len(h) /\ At(q, h, t)
      BY <1>10, <1>13, <3>1
    <3>3. bytes[Place + 1] = h[q + 1]
      BY <1>1, <1>10, <1>a, <3>2, AtNext
    <3>4. QED
      BY <3>1, <3>3
  <2>2. QED
    BY <1>11, <2>1
<1>15. ExpectMethod("a", n)
  <2>1. In("RequestLine", "S_EXPECT_METHOD")
    BY DEF Between
  <2>2. QED
    BY <1>3, <1>14, <2>1, Dispatch
<1>16. method' = TRUE
  BY <1>15, Zenon DEF ExpectMethod
<1>17. /\ ctx' = [n_left |-> n, events |-> <<"StartRecvingHeader">>, step |-> 1, err |-> FALSE]
       /\ In("RequestLine", "S_EXPECT_METHOD")'
       /\ key' = <<>> /\ val' = <<>> /\ headers' = {}
  BY <1>1, <1>15 DEF ExpectMethod, Emits, Between, In
<1>18. ctx'.events = <<"StartRecvingHeader">> /\ ctx'.err = FALSE
  BY <1>17
<1>19. Place' = Place + 1 /\ SymbolsOf(body)' = SymbolsOf(body)
  BY <1>1, <1>18, OneByte DEF ByteLists
<1>20. SymbolsOf(body) = <<>> /\ handed = Before(Meanings(stream), m)
  BY <1>1 DEF Between
<1>21. complete' = FALSE /\ handed' = Before(Meanings(stream), m) \o <<"StartRecvingHeader">>
  <2>1. handed \in Seq(Told)
    BY <1>9, <1>20
  <2>2. SymbolsOf(body)' = <<>> /\ <<>> \in Seq(Told)
    BY <1>19, <1>20
  <2>3. QED
    BY <1>18, <1>20, <2>1, <2>2, RoundTells
<1>22. At(1, h, t)'
  <2>1. At(0 + 1, h, t)'
    BY <1>1, <1>13, <1>19, AtMoves DEF h, t
  <2>2. QED
    BY <2>1
<1>23. HeaderAt(1, NameOf(msg), ValueOf(msg))'
  BY <1>16, <1>17 DEF HeaderAt
<1>24. InHeader(m, msg, rest)'
  <2>1. Begun(m, <<"StartRecvingHeader">>)'
    BY <1>1, <1>5, <1>18, <1>21 DEF Begun
  <2>2. 1 \in 1 .. 14
    OBVIOUS
  <2>3. QED
    BY <1>19, <1>20, <1>22, <1>23, <2>1, <2>2 DEF InHeader, h, t
<1>25. QED
  BY <1>1, <1>5, <1>8, <1>24, MessageGoesOn

\* A byte of a header before the last.
LEMMA HeaderRound ==
  ASSUME InputInv, ParseStep, NEW m \in Nat, NEW msg, NEW rest, Here(m, msg, rest),
         Begun(m, <<"StartRecvingHeader">>), SymbolsOf(body) = <<>>,
         NEW q \in 1 .. 13,
         At(q, HeaderOf(msg), TailOf(msg) \o rest),
         HeaderAt(q, NameOf(msg), ValueOf(msg))
  PROVE  Story'
<1>1. /\ Took /\ UNCHANGED <<stream, bytes>>
      /\ bytes \in Seq(Symbols) /\ stream \in Seq(Messages)
  BY RoundIs
<1>2. PICK n : RoundOf(n)
  BY RoundIs
<1>3. Place \in Nat /\ Consume(bytes[Place + 1], n)
  BY <1>2 DEF RoundOf
<1>4. /\ msg \in Messages /\ rest \in Seq(Symbols)
      /\ Before(Meanings(stream), m) \in Seq(Told)
  BY <1>1, HereIs
<1> DEFINE h == HeaderOf(msg)
           t == TailOf(msg) \o rest
           name == NameOf(msg)
           value == ValueOf(msg)
<1>5. /\ h \in Seq(Symbols) /\ Len(h) = 15
      /\ name \in Symbols /\ name # ":" /\ value \in Symbols /\ value # "CR"
  BY <1>4, HeaderIs
<1>6. t \in Seq(Symbols)
  BY <1>4, TailIs, ConcatProperties
<1>7. h = <<"a", "SP", "a", "SP", "a", "CR", "LF",
            name, ":", "SP", value, "CR", "LF", "CR", LastOf(msg)>>
  BY DEF HeaderOf
<1>8. At(q, h, t) /\ HeaderAt(q, name, value)
  OBVIOUS
<1> HIDE DEF h, t, name, value
<1>9. bytes[Place + 1] = h[q + 1]
  <2>1. q \in Nat /\ q < Len(h)
    BY <1>5
  <2>2. QED
    BY <1>1, <1>5, <1>6, <1>8, <2>1, AtNext
<1>10. HeaderAt(q + 1, name, value)' /\ Emits(n, <<>>)
  BY <1>3, <1>5, <1>7, <1>8, <1>9, HeaderByte
<1>11. ctx'.events = <<>> /\ ctx'.err = FALSE
  BY <1>10 DEF Emits
<1>12. Place' = Place + 1 /\ SymbolsOf(body)' = SymbolsOf(body)
  BY <1>1, <1>11, OneByte DEF ByteLists
<1>13. handed = Before(Meanings(stream), m) \o <<"StartRecvingHeader">>
  BY DEF Begun
<1>14. complete' = FALSE /\ handed' = handed
  <2>1. <<"StartRecvingHeader">> \in Seq(Told)
    BY DEF Told, Events
  <2>2. handed \in Seq(Told)
    BY <1>4, <1>13, <2>1, ConcatProperties
  <2>3. SymbolsOf(body)' = <<>> /\ <<>> \in Seq(Told)
    BY <1>12
  <2>4. QED
    BY <1>11, <2>2, <2>3, RoundTells
<1>15. At(q + 1, h, t)'
  <2>1. q \in Nat /\ 1 \in Nat
    OBVIOUS
  <2>2. QED
    BY <1>1, <1>8, <1>12, <2>1, AtMoves DEF h, t
<1>16. InHeader(m, msg, rest)'
  <2>1. Begun(m, <<"StartRecvingHeader">>)'
    BY <1>1, <1>11, <1>13, <1>14 DEF Begun
  <2>2. q + 1 \in 1 .. 14
    OBVIOUS
  <2>3. QED
    BY <1>10, <1>12, <1>15, <2>1, <2>2 DEF InHeader, h, t, name, value
<1>17. QED
  BY <1>1, <1>16, MessageGoesOn

\* A header of one field has one name.
LEMMA FieldsAre ==
  ASSUME NEW x, NEW value, headers = {<< <<x>>, <<value>> >>}, NEW name
  PROVE  Fields(name) = IF x = name THEN {<< <<x>>, <<value>> >>} ELSE {}
<1> DEFINE h == << <<x>>, <<value>> >>
<1>1. h[1] = <<x>>
  OBVIOUS
<1>2. <<x>> = <<name>> <=> x = name
  <2>1. <<x>>[1] = x /\ <<name>>[1] = name
    OBVIOUS
  <2>2. QED
    BY <2>1, Zenon
<1> HIDE DEF h
<1>3. headers = {h}
  BY DEF h
<1>4. Fields(name) = {g \in {h} : g[1] = <<name>>}
  BY <1>3 DEF Fields
<1>5. CASE x = name
  <2>1. h[1] = <<name>>
    BY <1>1, <1>5
  <2>2. Fields(name) = {h}
    BY <1>4, <2>1
  <2>3. QED
    BY <1>5, <2>2 DEF h
<1>6. CASE x # name
  <2>1. h[1] # <<name>>
    BY <1>1, <1>2, <1>6
  <2>2. Fields(name) = {}
    BY <1>4, <2>1
  <2>3. QED
    BY <1>6, <2>2
<1>7. QED
  BY <1>5, <1>6

\* How a header can end.
EndsRequest ==
  /\ In("RequestLine", "S_EXPECT_METHOD")'
  /\ ctx'.events = <<"HeaderReceived", "RequestReceived">> /\ ctx'.err = FALSE
OpensBody(size) ==
  /\ curr_state' = "ContentLength" /\ got' = 0 /\ expect' = Value[size]
  /\ ctx'.events = <<"HeaderReceived">> /\ ctx'.err = FALSE
OpensChunks ==
  /\ In("Chunk", "S_EXPECT_LENGTH")' /\ got' = 0 /\ hex' = <<>>
  /\ ctx'.events = <<"HeaderReceived">> /\ ctx'.err = FALSE

\* What the parser makes of the header's last byte, by the kind of message.
LEMMA HeaderLast ==
  ASSUME NEW msg \in Messages, NEW n,
         HeaderAt(14, NameOf(msg), ValueOf(msg)), ExpectHeaderEnd(LastOf(msg), n)
  PROVE  /\ method' = FALSE /\ key' = <<>> /\ val' = <<>>
         /\ msg.kind = "plain" => EndsRequest
         /\ msg.kind = "length" => IF Value[msg.chunks[1].size] = 0 THEN EndsRequest
                                   ELSE OpensBody(msg.chunks[1].size)
         /\ msg.kind = "chunked" => OpensChunks
         /\ msg.kind = "bad_line" => ctx'.events = <<"ParseError">> /\ ctx'.err = TRUE
         /\ msg.kind = "bad_length" =>
              ctx'.events = <<"HeaderReceived", "ParseError">> /\ ctx'.err = TRUE
<1> DEFINE x == NameOf(msg)
           v == ValueOf(msg)
           h == << <<x>>, <<v>> >>
<1>1. /\ method = FALSE /\ key = <<>> /\ val = <<>> /\ headers = {h}
  BY DEF HeaderAt
<1>2. method' = FALSE /\ key' = <<>> /\ val' = <<>>
  <2>1. UNCHANGED text
    BY DEF ExpectHeaderEnd
  <2>2. method' = method /\ key' = key /\ val' = val
    BY <2>1 DEF text
  <2>3. QED
    BY <1>1, <2>2, Zenon
<1>3. /\ Fields("content-length") = IF x = "content-length" THEN {h} ELSE {}
      /\ Fields("transfer-encoding") = IF x = "transfer-encoding" THEN {h} ELSE {}
  BY <1>1, FieldsAre
<1>4. h[2] = <<v>>
  OBVIOUS
<1> HIDE DEF h
<1>5. CASE msg.kind = "plain"
  <2>1. x = "a" /\ LastOf(msg) = "LF"
    BY <1>5 DEF NameOf, LastOf
  <2>2. Fields("content-length") = {} /\ Fields("transfer-encoding") = {}
    BY <1>3, <2>1
  <2>3. EndsRequest
    BY <2>1, <2>2 DEF ExpectHeaderEnd, EndsRequest, Enter, Entry, Emits, In
  <2>4. QED
    BY <1>2, <1>5, <2>3
<1>6. CASE msg.kind = "length"
  <2>1. x = "content-length" /\ LastOf(msg) = "LF" /\ v = msg.chunks[1].size
    BY <1>6 DEF NameOf, LastOf, ValueOf
  <2>2. v \in Numbers
    <3>1. 1 \in 1 .. Len(msg.chunks)
      BY <1>6, MessageIs, SMTT(30)
    <3>2. msg.chunks[1] \in Chunks
      BY <3>1, MessageIs
    <3>3. QED
      BY <2>1, <3>2, ChunkIs
  <2>3. IsNumber(h[2]) /\ NumberOf(h[2]) = Value[v]
    BY <1>4, <2>2, OneNumber
  <2>4. Fields("content-length") = {h}
    BY <1>3, <2>1
  <2>5. IF NumberOf(h[2]) # 0
        THEN /\ Enter("ContentLength")
             /\ got' = 0 /\ expect' = NumberOf(h[2]) /\ UNCHANGED hex
             /\ Emits(n, <<"HeaderReceived">>)
        ELSE /\ Enter("RequestLine")
             /\ Emits(n, <<"HeaderReceived", "RequestReceived">>)
    BY <2>1, <2>3, <2>4 DEF ExpectHeaderEnd
  <2>6. CASE Value[v] = 0
    <3>1. EndsRequest
      BY <2>3, <2>5, <2>6 DEF EndsRequest, Enter, Entry, Emits, In
    <3>2. QED
      BY <1>2, <1>6, <2>1, <2>6, <3>1
  <2>7. CASE Value[v] # 0
    <3>1. OpensBody(v)
      BY <2>3, <2>5, <2>7 DEF OpensBody, Enter, Entry, Emits
    <3>2. QED
      BY <1>2, <1>6, <2>1, <2>7, <3>1
  <2>8. QED
    BY <2>6, <2>7
<1>7. CASE msg.kind = "chunked"
  <2>1. x = "transfer-encoding" /\ LastOf(msg) = "LF"
    BY <1>7 DEF NameOf, LastOf
  <2>2. Fields("content-length") = {} /\ Fields("transfer-encoding") # {}
    BY <1>3, <2>1
  <2>3. OpensChunks
    BY <2>1, <2>2 DEF ExpectHeaderEnd, OpensChunks, Enter, Entry, Emits, In
  <2>4. QED
    BY <1>2, <1>7, <2>3
<1>8. CASE msg.kind = "bad_line"
  <2>1. LastOf(msg) = "a"
    BY <1>8 DEF LastOf
  <2>2. Fails(n, <<>>)
    BY <2>1 DEF ExpectHeaderEnd
  <2>3. <<"ParseError">> = Append(<<>>, "ParseError")
    OBVIOUS
  <2>4. ctx'.events = <<"ParseError">> /\ ctx'.err = TRUE
    BY <2>2, <2>3 DEF Fails
  <2>5. QED
    BY <1>2, <1>8, <2>4
<1>9. CASE msg.kind = "bad_length"
  <2>1. x = "content-length" /\ LastOf(msg) = "LF" /\ v = "a"
    BY <1>9 DEF NameOf, LastOf, ValueOf
  <2>2. ~IsNumber(h[2])
    BY <1>4, <2>1, OneNumber
  <2>3. Fields("content-length") = {h}
    BY <1>3, <2>1
  <2>4. Fails(n, <<"HeaderReceived">>)
    BY <2>1, <2>2, <2>3 DEF ExpectHeaderEnd
  <2>5. <<"HeaderReceived", "ParseError">> = Append(<<"HeaderReceived">>, "ParseError")
    OBVIOUS
  <2>6. ctx'.events = <<"HeaderReceived", "ParseError">> /\ ctx'.err = TRUE
    BY <2>4, <2>5 DEF Fails
  <2>7. QED
    BY <1>2, <1>9, <2>6
<1>10. QED
  <2>1. msg.kind \in {"plain", "length", "chunked", "bad_line", "bad_length"}
    BY MessageIs DEF Kinds
  <2>2. QED
    BY <1>5, <1>6, <1>7, <1>8, <1>9, <2>1

\* A message without chunks has no body.
LEMMA NoChunks ==
  ASSUME NEW msg \in Messages, msg.chunks = <<>>
  PROVE  BodyOf(msg) = <<>>
<1>1. Datas(msg) \in Seq(Seq(Symbols)) /\ Len(Datas(msg)) = 0 /\ BodyOf(msg) = FlattenSeq(Datas(msg))
  BY ChunksAre, EmptySeq
<1>2. Datas(msg) = <<>>
  BY <1>1, EmptySeq
<1>3. QED
  BY <1>1, <1>2, FlattenEmpty

\* A message with a length has its body in one chunk.
LEMMA OneChunk ==
  ASSUME NEW msg \in Messages, msg.kind = "length"
  PROVE  /\ msg.chunks[1] \in Chunks
         /\ msg.chunks[1].data \in Seq(Symbols) /\ Len(msg.chunks[1].data) \in Nat
         /\ Len(msg.chunks[1].data) = Value[msg.chunks[1].size]
         /\ BodyOf(msg) = msg.chunks[1].data /\ TailOf(msg) = msg.chunks[1].data
<1> DEFINE d == msg.chunks[1].data
           one == <<d>>
<1>1. Len(msg.chunks) = 1 /\ 1 \in 1 .. Len(msg.chunks)
  BY MessageIs, SMTT(30)
<1>2. msg.chunks[1] \in Chunks
  BY <1>1, MessageIs
<1>3. d \in Seq(Symbols) /\ Len(d) \in Nat /\ Len(d) = Value[msg.chunks[1].size]
  BY <1>2, ChunkIs
<1>4. /\ Datas(msg) \in Seq(Seq(Symbols)) /\ Len(Datas(msg)) = 1 /\ Datas(msg)[1] = d
      /\ BodyOf(msg) = FlattenSeq(Datas(msg))
  BY <1>1, ChunksAre
<1>5. TailOf(msg) = d
  BY DEF TailOf
<1> HIDE DEF d
<1>6. one \in Seq(Seq(Symbols)) /\ Len(one) = 1 /\ one[1] = d
  BY <1>3
<1>7. FlattenSeq(one) = d
  BY <1>3, FlattenOne
<1> HIDE DEF one
<1>8. Datas(msg) = one
  BY <1>4, <1>6, SeqEqual
<1>9. QED
  BY <1>2, <1>3, <1>4, <1>5, <1>7, <1>8 DEF d

\* The last byte of a header.
LEMMA HeaderEndRound ==
  ASSUME InputInv, ParseStep, NEW m \in Nat, NEW msg, NEW rest, Here(m, msg, rest),
         Begun(m, <<"StartRecvingHeader">>), SymbolsOf(body) = <<>>,
         At(14, HeaderOf(msg), TailOf(msg) \o rest),
         HeaderAt(14, NameOf(msg), ValueOf(msg))
  PROVE  Story'
<1>1. /\ Took /\ UNCHANGED <<stream, bytes>>
      /\ bytes \in Seq(Symbols) /\ stream \in Seq(Messages)
  BY RoundIs
<1>2. PICK n : RoundOf(n)
  BY RoundIs
<1>3. Place \in Nat /\ Consume(bytes[Place + 1], n)
  BY <1>2 DEF RoundOf
<1>4. /\ msg \in Messages /\ rest \in Seq(Symbols)
      /\ Before(Meanings(stream), m) \in Seq(Told)
  BY <1>1, HereIs
<1> DEFINE h == HeaderOf(msg)
           t == TailOf(msg) \o rest
           D == Before(Meanings(stream), m)
<1>5. h \in Seq(Symbols) /\ Len(h) = 15 /\ h[15] = LastOf(msg)
  BY <1>4, HeaderIs DEF HeaderOf
<1>6. t \in Seq(Symbols) /\ TailOf(msg) \in Seq(Symbols)
  BY <1>4, TailIs, ConcatProperties
<1>7. At(14, h, t)
  OBVIOUS
<1>8. handed = D \o <<"StartRecvingHeader">> /\ m < Len(stream)
  BY DEF Begun
<1>9. D \in Seq(Told) /\ <<"StartRecvingHeader">> \in Seq(Told) /\ <<>> \in Seq(Told)
  BY <1>4 DEF Told, Events
<1> HIDE DEF h, t, D
<1>10. handed \in Seq(Told)
  BY <1>8, <1>9, ConcatProperties
<1>11. bytes[Place + 1] = LastOf(msg)
  <2>1. PICK q \in Nat : q = 14
    OBVIOUS
  <2>2. q < Len(h) /\ At(q, h, t)
    BY <1>5, <1>7, <2>1
  <2>3. bytes[Place + 1] = h[q + 1]
    BY <1>1, <1>5, <1>6, <2>2, AtNext
  <2>4. QED
    BY <1>5, <2>1, <2>3
<1>12. ExpectHeaderEnd(LastOf(msg), n)
  <2>1. In("Header", "S_EXPECT_HEADER_END")
    BY DEF HeaderAt
  <2>2. QED
    BY <1>3, <1>11, <2>1, Dispatch
<1>13. /\ method' = FALSE /\ key' = <<>> /\ val' = <<>>
       /\ msg.kind = "plain" => EndsRequest
       /\ msg.kind = "length" => IF Value[msg.chunks[1].size] = 0 THEN EndsRequest
                                 ELSE OpensBody(msg.chunks[1].size)
       /\ msg.kind = "chunked" => OpensChunks
       /\ msg.kind = "bad_line" => ctx'.events = <<"ParseError">> /\ ctx'.err = TRUE
       /\ msg.kind = "bad_length" =>
            ctx'.events = <<"HeaderReceived", "ParseError">> /\ ctx'.err = TRUE
  BY <1>4, <1>12, HeaderLast
<1>14. ASSUME ctx'.events \in ByteLists
       PROVE  Place' = Place + 1 /\ SymbolsOf(body)' = <<>>
  BY <1>1, <1>14, OneByte
\* What comes behind the header is x and then y.
<1>15. ASSUME Place' = Place + 1, NEW x \in Seq(Symbols), NEW y \in Seq(Symbols), t = x \o y
       PROVE  At(0, x, y)'
  <2>1. 14 \in Nat /\ 1 \in Nat /\ 14 + 1 = Len(h)
    BY <1>5
  <2>2. QED
    BY <1>1, <1>5, <1>6, <1>7, <1>15, <2>1, AtLeaves
<1>16. ASSUME EndsRequest, TailOf(msg) = <<>>, BodyOf(msg) = <<>>,
              msg.kind \in {"plain", "length"}
       PROVE  Story'
  <2>1. ctx'.events \in ByteLists /\ ctx'.err = FALSE /\ In("RequestLine", "S_EXPECT_METHOD")'
    BY <1>16 DEF EndsRequest, ByteLists
  <2>2. Place' = Place + 1 /\ SymbolsOf(body)' = <<>>
    BY <1>14, <2>1
  <2>3. At(0, <<>>, rest)'
    <3>1. t = <<>> \o rest
      BY <1>16 DEF t
    <3>2. <<>> \in Seq(Symbols) /\ rest \in Seq(Symbols) /\ Place' = Place + 1
      BY <1>4, <2>2
    <3>3. QED
      BY <1>15, <3>1, <3>2
  <2>4. /\ complete' = TRUE
        /\ handed' = handed \o (<<"HeaderReceived">> \o Append(<<>>, "RequestReceived"))
    BY <1>9, <1>10, <1>16, <2>2, RoundTells DEF EndsRequest, In
  <2>5. handed' = D \o (HeaderTold \o <<>> \o <<"RequestReceived">>)
    BY <1>8, <1>9, <2>4, TellingsAdd
  <2>6. Meaning(msg) = HeaderTold \o <<>> \o <<"RequestReceived">>
    BY <1>16 DEF Meaning, HeaderTold
  <2>7. handed' = D \o Meaning(msg)
    BY <2>5, <2>6
  <2>8. SymbolsOf(body)' = BodyOf(msg)
    BY <1>16, <2>2
  <2>9. QED
    BY <1>1, <1>13, <2>1, <2>3, <2>4, <2>7, <2>8, MessageEnds DEF D
<1>17. ASSUME ctx'.events = <<"HeaderReceived">>, ctx'.err = FALSE
       PROVE  Begun(m, HeaderTold)'
  <2>1. SymbolsOf(body)' = <<>>
    BY <1>14, <1>17 DEF ByteLists
  <2>2. complete' = FALSE /\ handed' = handed \o <<"HeaderReceived">>
    BY <1>9, <1>10, <1>17, <2>1, RoundTells
  <2>3. handed' = D \o HeaderTold
    BY <1>8, <1>9, <2>2, TellingsAdd
  <2>4. QED
    BY <1>1, <1>8, <1>17, <2>2, <2>3 DEF Begun, D
<1>18. CASE msg.kind = "plain"
  <2>1. msg.chunks = <<>>
    BY <1>4, <1>18, MessageIs
  <2>2. TailOf(msg) = <<>> /\ BodyOf(msg) = <<>>
    BY <1>4, <1>18, <2>1, NoChunks DEF TailOf
  <2>3. QED
    BY <1>13, <1>16, <1>18, <2>2
<1>19. CASE msg.kind = "length"
  <2> DEFINE d == msg.chunks[1].data
             size == msg.chunks[1].size
  <2>1. /\ d \in Seq(Symbols) /\ Len(d) \in Nat /\ Len(d) = Value[size]
        /\ BodyOf(msg) = d /\ TailOf(msg) = d
    BY <1>4, <1>19, OneChunk
  <2>2. CASE Value[size] = 0
    <3>1. d = <<>>
      BY <2>1, <2>2, EmptySeq
    <3>2. QED
      BY <1>13, <1>16, <1>19, <2>1, <2>2, <3>1
  <2>3. CASE Value[size] # 0
    <3>1. OpensBody(size)
      BY <1>13, <1>19, <2>3
    <3>2. /\ curr_state' = "ContentLength" /\ got' = 0 /\ expect' = Len(d)
          /\ ctx'.events = <<"HeaderReceived">> /\ ctx'.err = FALSE
      BY <2>1, <3>1 DEF OpensBody
    <3>3. Place' = Place + 1 /\ SymbolsOf(body)' = <<>>
      BY <1>14, <3>2 DEF ByteLists
    <3>4. t = d \o rest
      BY <2>1 DEF t
    <3> HIDE DEF d
    <3>5. At(0, d, rest)'
      BY <1>4, <1>15, <2>1, <3>3, <3>4
    <3>6. Take(d, 0) = <<>>
      BY <2>1, TakeDropEnds
    <3>7. Cleared'
      BY <1>13 DEF Cleared
    <3>8. got' < expect' /\ got' = 0 /\ expect' = Len(d)
      BY <2>1, <2>3, <3>2
    <3>9. InBody(m, msg, rest)'
      BY <1>17, <1>19, <3>2, <3>3, <3>5, <3>6, <3>7, <3>8 DEF InBody, d
    <3>10. QED
      BY <1>1, <3>9, MessageGoesOn
  <2>4. QED
    BY <2>2, <2>3
<1>20. CASE msg.kind = "chunked"
  <2> DEFINE x == SizeLine(msg, 0)
             y == BehindSize(msg, 0)
  <2>0. 0 \in 0 .. Len(msg.chunks)
    BY <1>4, MessageIs
  <2>1. x \in Seq(Symbols) /\ y \in Seq(Symbols) /\ TailOf(msg) = x \o y
    BY <1>4, <1>20, <2>0, ChunksFromIs DEF TailOf
  <2>2. /\ In("Chunk", "S_EXPECT_LENGTH")' /\ got' = 0 /\ hex' = <<>>
        /\ ctx'.events = <<"HeaderReceived">> /\ ctx'.err = FALSE
    BY <1>13, <1>20 DEF OpensChunks
  <2>3. Place' = Place + 1 /\ SymbolsOf(body)' = <<>>
    BY <1>14, <2>2 DEF ByteLists
  <2> HIDE DEF x, y
  <2>4. t = x \o (y \o rest)
    <3>1. (x \o y) \o rest = x \o (y \o rest)
      <4>1. Associates(x, y, rest)
        BY <1>4, <2>1, Joining
      <4>2. QED
        BY <4>1 DEF Associates
    <3>2. QED
      BY <2>1, <3>1 DEF t
  <2>5. y \o rest \in Seq(Symbols)
    BY <1>4, <2>1, ConcatProperties
  <2>6. At(0, x, y \o rest)'
    BY <1>15, <2>1, <2>3, <2>4, <2>5
  <2>7. Before(Datas(msg), 0) = <<>>
    BY <1>4, ChunksAre, PartsEnds
  <2>8. InSize(msg, 0, rest)'
    <3>1. 0 \in 0 .. 2
      OBVIOUS
    <3>2. /\ sub_state' = (IF 0 = 2 THEN "S_GET_INITIAL_CR" ELSE "S_EXPECT_LENGTH")
          /\ hex' = (IF 0 = 0 THEN <<>> ELSE <<SizeAt(msg, 0)>>)
      BY <2>2 DEF In
    <3>3. got' = 0 /\ 0 <= Len(msg.chunks) /\ SymbolsOf(body)' = Before(Datas(msg), 0)
      BY <2>0, <2>2, <2>3, <2>7
    <3>4. QED
      BY <2>6, <3>1, <3>2, <3>3 DEF InSize, x, y
  <2>9. Cleared' /\ curr_state' = "Chunk"
    BY <1>13, <2>2 DEF Cleared, In
  <2>10. InChunks(m, msg, rest)'
    BY <1>17, <1>20, <2>0, <2>2, <2>8, <2>9 DEF InChunks
  <2>11. QED
    BY <1>1, <2>10, MessageGoesOn
<1>21. CASE msg.kind = "bad_line"
  <2>1. ctx'.events = <<"ParseError">> /\ ctx'.err = TRUE
    BY <1>13, <1>21
  <2>2. SymbolsOf(body)' = <<>>
    BY <1>14, <2>1 DEF ByteLists
  <2>3. complete' = FALSE /\ handed' = handed \o <<"ParseError">>
    BY <1>9, <1>10, <2>1, <2>2, RoundTells
  <2>4. handed' = D \o Meaning(msg)
    BY <1>8, <1>9, <1>21, <2>3, TellingsAdd DEF Meaning
  <2>5. QED
    BY <1>1, <2>1, <2>3, <2>4, MessageFails DEF D
<1>22. CASE msg.kind = "bad_length"
  <2>1. ctx'.events = <<"HeaderReceived", "ParseError">> /\ ctx'.err = TRUE
    BY <1>13, <1>22
  <2>2. SymbolsOf(body)' = <<>>
    BY <1>14, <2>1 DEF ByteLists
  <2>3. complete' = FALSE /\ handed' = handed \o <<"HeaderReceived", "ParseError">>
    BY <1>9, <1>10, <2>1, <2>2, RoundTells
  <2>4. handed' = D \o Meaning(msg)
    BY <1>8, <1>9, <1>22, <2>3, TellingsAdd DEF Meaning
  <2>5. QED
    BY <1>1, <2>1, <2>3, <2>4, MessageFails DEF D
<1>23. QED
  <2>1. msg.kind \in {"plain", "length", "chunked", "bad_line", "bad_length"}
    BY <1>4, MessageIs DEF Kinds
  <2>2. QED
    BY <1>18, <1>19, <1>20, <1>21, <1>22, <2>1

\* The handlers get the rest of a message of which they know the header.
LEMMA BodyTold ==
  ASSUME stream \in Seq(Messages), UNCHANGED stream,
         NEW m \in Nat, NEW msg, NEW rest, Here(m, msg, rest),
         msg.kind \in {"length", "chunked"},
         handed = Before(Meanings(stream), m) \o HeaderTold,
         handed' = handed \o Append(BodyOf(msg), "RequestReceived")
  PROVE  handed' = Before(Meanings(stream), m) \o Meaning(msg)
<1> DEFINE D == Before(Meanings(stream), m)
           B == BodyOf(msg)
<1>1. D \in Seq(Told) /\ msg \in Messages
  BY HereIs
<1>2. B \in Seq(Told)
  BY <1>1, MeaningIs
<1>3. Meaning(msg) = HeaderTold \o B \o <<"RequestReceived">>
  BY DEF Meaning, HeaderTold
<1>4. handed = D \o HeaderTold /\ handed' = handed \o Append(B, "RequestReceived")
  OBVIOUS
<1> HIDE DEF D, B
<1>5. handed' = D \o (HeaderTold \o B \o <<"RequestReceived">>)
  BY <1>1, <1>2, <1>4, TellingsAdd
<1>6. QED
  BY <1>3, <1>5 DEF D

\* A message is told in two sequences of Told.
LEMMA ToldSoFar ==
  ASSUME stream \in Seq(Messages), NEW m \in Nat, NEW msg, NEW rest, Here(m, msg, rest),
         handed = Before(Meanings(stream), m) \o HeaderTold
  PROVE  handed \in Seq(Told)
<1>1. Before(Meanings(stream), m) \in Seq(Told)
  BY HereIs
<1>2. HeaderTold \in Seq(Told)
  BY DEF HeaderTold, Told, Events
<1>3. QED
  BY <1>1, <1>2, ConcatProperties

\* A piece has a byte, and not more than are there or missing.
LEMMA Grabs ==
  ASSUME got \in Nat, expect \in Nat, got < expect, NEW n \in Nat \ {0}
  PROVE  Increasement(n) \in 1 .. n /\ got + Increasement(n) <= expect /\ Increasement(n) \in Nat
BY DEF Increasement

\* A piece of a body that is as long as the header says.
LEMMA BodyRound ==
  ASSUME InputInv, ParseStep, NEW m \in Nat, NEW msg, NEW rest, Here(m, msg, rest),
         InBody(m, msg, rest)
  PROVE  Story'
<1>1. /\ Took /\ UNCHANGED <<stream, bytes>>
      /\ bytes \in Seq(Symbols) /\ stream \in Seq(Messages) /\ ParserTypeOK
  BY RoundIs
<1>2. PICK n : RoundOf(n)
  BY RoundIs
<1>3. n \in Nat \ {0} /\ Place \in Nat /\ Consume(bytes[Place + 1], n)
  BY <1>2 DEF RoundOf
<1>4. msg \in Messages /\ rest \in Seq(Symbols)
  BY <1>1, HereIs
<1> DEFINE d == msg.chunks[1].data
<1>5. /\ Begun(m, HeaderTold) /\ method = FALSE /\ key = <<>> /\ val = <<>>
      /\ curr_state = "ContentLength" /\ msg.kind = "length"
      /\ got < expect /\ expect = Len(d)
      /\ At(got, d, rest) /\ SymbolsOf(body) = Take(d, got)
  BY DEF InBody, Cleared
<1>6. d \in Seq(Symbols) /\ Len(d) \in Nat /\ BodyOf(msg) = d
  BY <1>4, <1>5, OneChunk
<1> HIDE DEF d
<1>7. PICK g \in Nat : g = got
  BY <1>1 DEF ParserTypeOK
<1>8. PICK k \in Nat : k = Increasement(n) /\ k \in 1 .. n /\ g + k <= Len(d)
  BY <1>3, <1>5, <1>6, <1>7, Grabs
<1>9. BodyPiece(n)
  BY <1>3, <1>5, Dispatch
<1>10. /\ got' = g + k /\ UNCHANGED <<expect, hex, text>> /\ ctx'.step = k /\ ctx'.err = FALSE
       /\ ctx'.events \in PieceLists
  BY <1>7, <1>8, <1>9 DEF BodyPiece, TakesPiece, PieceLists
<1>11. /\ Place' = Place + k /\ SymbolsOf(body)' = Take(d, g) \o BytesFrom(Place, k)
  BY <1>1, <1>5, <1>7, <1>10, APiece
<1>12. Take(d, g) \o BytesFrom(Place, k) = Take(d, g + k)
  <2>1. At(g, d, rest) /\ d \in Seq(Symbols) /\ rest \in Seq(Symbols) /\ g + k <= Len(d)
    BY <1>4, <1>5, <1>6, <1>7, <1>8
  <2>2. QED
    BY <1>1, <2>1, AtPiece, Zenon
<1>13. SymbolsOf(body)' = Take(d, g + k)
  BY <1>11, <1>12
<1>14. method' = FALSE /\ key' = <<>> /\ val' = <<>>
  <2>1. method' = method /\ key' = key /\ val' = val
    BY <1>10 DEF text
  <2>2. QED
    BY <1>5, <2>1, Zenon
<1>15. handed = Before(Meanings(stream), m) \o HeaderTold /\ m < Len(stream)
  BY <1>5 DEF Begun
<1>16. handed \in Seq(Told)
  BY <1>1, <1>15, ToldSoFar
<1>17. CASE g + k = Len(d)
  <2>1. /\ ctx'.events = <<"OnPartofBody", "RequestReceived">>
        /\ In("RequestLine", "S_EXPECT_METHOD")'
    BY <1>5, <1>7, <1>8, <1>9, <1>17 DEF BodyPiece, TakesPiece, Enter, Entry, In
  <2>2. SymbolsOf(body)' = BodyOf(msg)
    BY <1>6, <1>13, <1>17, TakeDropEnds
  <2>3. BodyOf(msg) \in Seq(Told)
    BY <1>4, MeaningIs
  <2>4. complete' = TRUE /\ handed' = handed \o Append(BodyOf(msg), "RequestReceived")
    BY <1>16, <2>1, <2>2, <2>3, RoundTells DEF In
  <2>5. handed' = Before(Meanings(stream), m) \o Meaning(msg)
    BY <1>1, <1>5, <1>15, <2>4, BodyTold
  <2>6. At(0, <<>>, rest)'
    <3>1. rest = <<>> \o rest
      BY <1>4, ConcatEmptySeq
    <3>2. <<>> \in Seq(Symbols) /\ At(g, d, rest)
      BY <1>5, <1>7
    <3>3. QED
      BY <1>1, <1>4, <1>6, <1>11, <1>17, <3>1, <3>2, AtLeaves
  <2>7. QED
    BY <1>1, <1>10, <1>14, <2>1, <2>2, <2>4, <2>5, <2>6, MessageEnds
<1>18. CASE g + k # Len(d)
  <2>1. ctx'.events = <<"OnPartofBody">> /\ UNCHANGED curr_state
    BY <1>5, <1>7, <1>8, <1>9, <1>18 DEF BodyPiece, TakesPiece
  <2>2. SymbolsOf(body)' \in Seq(Told)
    <3>1. Take(d, g + k) \in Seq(Symbols)
      BY <1>6, <1>8, TakeIs
    <3>2. QED
      BY <1>13, <3>1, LenProperties, ElementOfSeq DEF Told
  <2>3. complete' = FALSE /\ handed' = handed
    BY <1>16, <2>1, <2>2, RoundTells
  <2>4. At(g + k, d, rest)'
    BY <1>1, <1>5, <1>7, <1>11, AtMoves
  <2>5. Begun(m, HeaderTold)' /\ Cleared'
    BY <1>1, <1>10, <1>14, <1>15, <2>3 DEF Begun, Cleared
  <2>6. got' = g + k /\ got' < expect' /\ expect' = Len(d)
    BY <1>5, <1>6, <1>8, <1>10, <1>18
  <2>7. InBody(m, msg, rest)'
    BY <1>5, <1>13, <2>1, <2>4, <2>5, <2>6 DEF InBody, d
  <2>8. QED
    BY <1>1, <2>7, MessageGoesOn
<1>19. QED
  BY <1>17, <1>18

\* The chunks of a message.
Chunked(m, msg) ==
  Begun(m, HeaderTold) /\ Cleared /\ curr_state = "Chunk" /\ msg.kind = "chunked"

\* Among the chunks, a round that tells nothing goes on with the story.
LEMMA ChunkGoesOn ==
  ASSUME stream \in Seq(Messages), UNCHANGED stream,
         NEW m \in Nat, NEW msg, NEW rest, Here(m, msg, rest), Chunked(m, msg),
         UNCHANGED text, curr_state' = "Chunk", ctx'.err = FALSE,
         complete' = FALSE, handed' = handed,
         \/ \E i \in 0 .. Len(msg.chunks) :
              InSize(msg, i, rest)' \/ InData(msg, i, rest)' \/ BehindData(msg, i, rest)'
         \/ InFinish(msg, rest)'
  PROVE  Story'
<1>1. Begun(m, HeaderTold)'
  BY DEF Chunked, Begun
<1>2. Cleared'
  <2>1. method' = method /\ key' = key /\ val' = val
    BY DEF text
  <2>2. QED
    BY <2>1, Zenon DEF Chunked, Cleared
<1>3. InChunks(m, msg, rest)'
  BY <1>1, <1>2 DEF InChunks, Chunked
<1>4. QED
  BY <1>3, MessageGoesOn

\* A silent step tells nothing.
LEMMA SilentRound ==
  ASSUME ParseStep, Took, stream \in Seq(Messages),
         NEW m \in Nat, NEW msg, NEW rest, Here(m, msg, rest), Chunked(m, msg),
         NEW S \in Seq(Symbols), SymbolsOf(body) = S,
         NEW n, Emits(n, <<>>)
  PROVE  /\ Place' = Place + 1 /\ SymbolsOf(body)' = S
         /\ complete' = FALSE /\ handed' = handed /\ ctx'.err = FALSE
<1>1. ctx'.events = <<>> /\ ctx'.err = FALSE
  BY DEF Emits
<1>2. Place' = Place + 1 /\ SymbolsOf(body)' = S
  BY <1>1, OneByte DEF ByteLists
<1>3. handed \in Seq(Told)
  BY ToldSoFar DEF Chunked, Begun
<1>4. S \in Seq(Told)
  BY LenProperties, ElementOfSeq DEF Told
<1>5. QED
  BY <1>1, <1>2, <1>3, <1>4, RoundTells

\* The bodies of the first chunks.
LEMMA DatasIs ==
  ASSUME NEW msg \in Messages, NEW i \in 0 .. Len(msg.chunks)
  PROVE  /\ Before(Datas(msg), i) \in Seq(Symbols)
         /\ i = Len(msg.chunks) => Before(Datas(msg), i) = BodyOf(msg)
         /\ i < Len(msg.chunks) =>
              /\ msg.chunks[i + 1] \in Chunks
              /\ msg.chunks[i + 1].data \in Seq(Symbols) /\ Len(msg.chunks[i + 1].data) \in Nat
              /\ Before(Datas(msg), i + 1) = Before(Datas(msg), i) \o msg.chunks[i + 1].data
              /\ Before(Datas(msg), i + 1) \in Seq(Symbols)
              /\ i + 1 \in 0 .. Len(msg.chunks)
<1> DEFINE R == Datas(msg)
<1>1. /\ R \in Seq(Seq(Symbols)) /\ Len(R) = Len(msg.chunks) /\ BodyOf(msg) = FlattenSeq(R)
      /\ \A j \in 1 .. Len(msg.chunks) : R[j] = msg.chunks[j].data
  BY ChunksAre
<1>2. Len(msg.chunks) \in Nat /\ i \in Nat /\ i <= Len(msg.chunks)
  BY MessageIs
<1> HIDE DEF R
<1>3. Before(R, i) \in Seq(Symbols)
  BY <1>1, <1>2, Parts
<1>4. i = Len(msg.chunks) => Before(R, i) = BodyOf(msg)
  BY <1>1, PartsEnds
<1>5. ASSUME i < Len(msg.chunks)
      PROVE  /\ msg.chunks[i + 1] \in Chunks
             /\ msg.chunks[i + 1].data \in Seq(Symbols) /\ Len(msg.chunks[i + 1].data) \in Nat
             /\ Before(R, i + 1) = Before(R, i) \o msg.chunks[i + 1].data
             /\ Before(R, i + 1) \in Seq(Symbols)
             /\ i + 1 \in 0 .. Len(msg.chunks)
  <2>1. i + 1 \in 1 .. Len(msg.chunks) /\ i + 1 \in 0 .. Len(msg.chunks) /\ i < Len(R)
    BY <1>1, <1>2, <1>5
  <2>2. msg.chunks[i + 1] \in Chunks /\ R[i + 1] = msg.chunks[i + 1].data
    BY <1>1, <2>1, MessageIs
  <2>3. msg.chunks[i + 1].data \in Seq(Symbols) /\ Len(msg.chunks[i + 1].data) \in Nat
    BY <2>2, ChunkIs
  <2>4. Before(R, i + 1) = Before(R, i) \o R[i + 1]
    BY <1>1, <1>2, <2>1, NextPart
  <2>5. Before(R, i) \o R[i + 1] \in Seq(Symbols)
    <3>1. R[i + 1] \in Seq(Symbols)
      BY <2>2, <2>3
    <3>2. QED
      BY <1>3, <3>1, ConcatProperties
  <2>6. QED
    BY <2>1, <2>2, <2>3, <2>4, <2>5
<1>6. QED
  BY <1>3, <1>4, <1>5 DEF R

\* A byte of the size of a chunk, or the CR behind it.
LEMMA SizeRound ==
  ASSUME InputInv, ParseStep, NEW m \in Nat, NEW msg, NEW rest, Here(m, msg, rest),
         Chunked(m, msg), NEW i \in 0 .. Len(msg.chunks),
         got = 0, SymbolsOf(body) = Before(Datas(msg), i),
         NEW q \in 0 .. 1,
         At(q, SizeLine(msg, i), BehindSize(msg, i) \o rest),
         sub_state = "S_EXPECT_LENGTH",
         hex = IF q = 0 THEN <<>> ELSE <<SizeAt(msg, i)>>
  PROVE  Story'
<1>1. /\ Took /\ UNCHANGED <<stream, bytes>>
      /\ bytes \in Seq(Symbols) /\ stream \in Seq(Messages)
  BY RoundIs
<1>2. PICK n : RoundOf(n)
  BY RoundIs
<1>3. Consume(bytes[Place + 1], n)
  BY <1>2 DEF RoundOf
<1>4. msg \in Messages /\ rest \in Seq(Symbols)
  BY <1>1, HereIs
<1> DEFINE l == SizeLine(msg, i)
           b == BehindSize(msg, i)
           t == b \o rest
           z == SizeAt(msg, i)
           S == Before(Datas(msg), i)
<1>5. l \in Seq(Symbols) /\ Len(l) = 3 /\ z \in Numbers /\ b \in Seq(Symbols)
  BY <1>4, ChunksFromIs
<1>6. l[1] = z /\ l[2] = "CR"
  BY DEF SizeLine
<1>7. S \in Seq(Symbols) /\ SymbolsOf(body) = S
  BY <1>4, DatasIs
<1>8. At(q, l, t) /\ (hex = IF q = 0 THEN <<>> ELSE <<z>>)
  OBVIOUS
<1> HIDE DEF b
<1>9. t \in Seq(Symbols)
  BY <1>4, <1>5, ConcatProperties
<1> HIDE DEF l, t, z, S
<1>10. bytes[Place + 1] = l[q + 1]
  <2>1. q \in Nat /\ q < Len(l)
    BY <1>5
  <2>2. QED
    BY <1>1, <1>5, <1>8, <1>9, <2>1, AtNext
<1>11. ExpectLength(l[q + 1], n)
  <2>1. In("Chunk", "S_EXPECT_LENGTH")
    BY DEF Chunked, In
  <2>2. QED
    BY <1>3, <1>10, <2>1, Dispatch
<1>12. Emits(n, <<>>) /\ UNCHANGED <<text, got, expect>>
  BY <1>11 DEF ExpectLength
<1>13. /\ Place' = Place + 1 /\ SymbolsOf(body)' = S
       /\ complete' = FALSE /\ handed' = handed /\ ctx'.err = FALSE
  BY <1>1, <1>7, <1>12, SilentRound
<1>14. At(q + 1, l, t)'
  <2>1. q \in Nat /\ 1 \in Nat
    OBVIOUS
  <2>2. QED
    BY <1>1, <1>8, <1>13, <2>1, AtMoves
<1>15. /\ curr_state' = "Chunk" /\ hex' = <<z>>
       /\ sub_state' = IF q + 1 = 2 THEN "S_GET_INITIAL_CR" ELSE "S_EXPECT_LENGTH"
  <2>1. CASE q = 0
    <3>1. l[q + 1] = z /\ z # "CR" /\ z \in Symbols
      BY <1>5, <1>6, <2>1, SymbolsAre
    <3>2. hex' = Append(<<>>, z) /\ UNCHANGED <<curr_state, sub_state>>
      BY <1>8, <1>11, <2>1, <3>1 DEF ExpectLength
    <3>3. <<z>> = Append(<<>>, z)
      BY <3>1
    <3>4. QED
      BY <2>1, <3>2, <3>3 DEF Chunked
  <2>2. CASE q = 1
    <3>1. l[q + 1] = "CR"
      BY <1>6, <2>2
    <3>2. To("S_GET_INITIAL_CR") /\ UNCHANGED hex
      BY <1>11, <3>1 DEF ExpectLength
    <3>3. QED
      BY <1>8, <2>2, <3>2 DEF To, Chunked
  <2>3. QED
    BY <2>1, <2>2
<1>16. InSize(msg, i, rest)'
  <2>1. q + 1 \in 0 .. 2 /\ q + 1 # 0
    OBVIOUS
  <2>2. got' = 0 /\ i <= Len(msg.chunks)
    BY <1>4, <1>12, MessageIs
  <2>3. QED
    BY <1>13, <1>14, <1>15, <2>1, <2>2 DEF InSize, l, t, z, S, b
<1>17. QED
  BY <1>1, <1>12, <1>13, <1>15, <1>16, ChunkGoesOn

\* The LF behind the size of a chunk.
LEMMA SizeEndRound ==
  ASSUME InputInv, ParseStep, NEW m \in Nat, NEW msg, NEW rest, Here(m, msg, rest),
         Chunked(m, msg), NEW i \in 0 .. Len(msg.chunks),
         got = 0, SymbolsOf(body) = Before(Datas(msg), i),
         At(2, SizeLine(msg, i), BehindSize(msg, i) \o rest),
         sub_state = "S_GET_INITIAL_CR", hex = <<SizeAt(msg, i)>>
  PROVE  Story'
<1>1. /\ Took /\ UNCHANGED <<stream, bytes>>
      /\ bytes \in Seq(Symbols) /\ stream \in Seq(Messages)
  BY RoundIs
<1>2. PICK n : RoundOf(n)
  BY RoundIs
<1>3. Consume(bytes[Place + 1], n)
  BY <1>2 DEF RoundOf
<1>4. msg \in Messages /\ rest \in Seq(Symbols)
  BY <1>1, HereIs
<1> DEFINE l == SizeLine(msg, i)
           b == BehindSize(msg, i)
           t == b \o rest
           z == SizeAt(msg, i)
           S == Before(Datas(msg), i)
<1>5. l \in Seq(Symbols) /\ Len(l) = 3 /\ z \in Numbers /\ b \in Seq(Symbols)
  BY <1>4, ChunksFromIs
<1>6. l[3] = "LF"
  BY DEF SizeLine
<1>7. S \in Seq(Symbols) /\ SymbolsOf(body) = S
  BY <1>4, DatasIs
<1>8. At(2, l, t) /\ hex = <<z>>
  OBVIOUS
<1> HIDE DEF b
<1>9. t \in Seq(Symbols)
  BY <1>4, <1>5, ConcatProperties
<1> HIDE DEF l, t, z, S
<1>10. bytes[Place + 1] = "LF"
  <2>1. PICK q \in Nat : q = 2
    OBVIOUS
  <2>2. q < Len(l) /\ At(q, l, t)
    BY <1>5, <1>8, <2>1
  <2>3. bytes[Place + 1] = l[q + 1]
    BY <1>1, <1>5, <1>9, <2>2, AtNext
  <2>4. QED
    BY <1>6, <2>1, <2>3
<1>11. GetInitialCr("LF", n)
  <2>1. In("Chunk", "S_GET_INITIAL_CR")
    BY DEF Chunked, In
  <2>2. QED
    BY <1>3, <1>10, <2>1, Dispatch
<1>12. IsNumber(hex) /\ NumberOf(hex) = Value[z] /\ Value[z] \in Nat
  BY <1>5, <1>8, OneNumber, SymbolsAre
<1>13. /\ Emits(n, <<>>) /\ UNCHANGED <<text, got, hex>> /\ expect' = Value[z]
       /\ To(IF Value[z] # 0 THEN "S_EXPECT_CHUNK_DATA" ELSE "S_FINISH_WAIT_CR")
  BY <1>11, <1>12 DEF GetInitialCr
<1>14. /\ Place' = Place + 1 /\ SymbolsOf(body)' = S
       /\ complete' = FALSE /\ handed' = handed /\ ctx'.err = FALSE
  BY <1>1, <1>7, <1>13, SilentRound
<1>15. ASSUME NEW x \in Seq(Symbols), NEW y \in Seq(Symbols), t = x \o y
       PROVE  At(0, x, y)'
  <2>1. 2 \in Nat /\ 1 \in Nat /\ 2 + 1 = Len(l)
    BY <1>5
  <2>2. QED
    BY <1>1, <1>5, <1>8, <1>9, <1>14, <1>15, <2>1, AtLeaves
<1>16. curr_state' = "Chunk" /\ UNCHANGED text
  BY <1>13 DEF To, Chunked
<1>17. CASE i < Len(msg.chunks)
  <2> DEFINE d == msg.chunks[i + 1].data
             e == <<"CR", "LF">> \o ChunksFrom(msg, i + 1)
  <2>1. /\ d \in Seq(Symbols) /\ Len(d) \in Nat /\ i + 1 \in 0 .. Len(msg.chunks)
        /\ msg.chunks[i + 1] \in Chunks
    BY <1>4, <1>17, DatasIs
  <2>2. Len(d) = Value[z] /\ d # <<>>
    <3>1. z = msg.chunks[i + 1].size
      BY <1>17 DEF z, SizeAt
    <3>2. Len(d) = Value[msg.chunks[i + 1].size]
      BY <2>1, ChunkIs
    <3>3. i + 1 \in 1 .. Len(msg.chunks)
      BY <1>4, <1>17, MessageIs
    <3>4. d # <<>>
      BY <1>4, <3>3, MessageIs DEF Chunked
    <3>5. QED
      BY <3>1, <3>2, <3>4
  <2>3. Value[z] # 0
    BY <2>1, <2>2, EmptySeq
  <2>4. e \in Seq(Symbols)
    <3> DEFINE c == ChunksFrom(msg, i + 1)
               cl == <<"CR", "LF">>
    <3>1. c \in Seq(Symbols)
      BY <1>4, <2>1, ChunksFromIs
    <3>2. cl \in Seq(Symbols)
      BY SymbolsAre
    <3> HIDE DEF c, cl
    <3>3. cl \o c \in Seq(Symbols)
      BY <3>1, <3>2, ConcatProperties
    <3>4. QED
      BY <3>3 DEF c, cl
  <2>5. b = d \o e
    BY <1>17 DEF b, BehindSize
  <2> HIDE DEF d, e
  <2>6. t = d \o (e \o rest)
    <3>1. (d \o e) \o rest = d \o (e \o rest)
      <4>1. Associates(d, e, rest)
        BY <1>4, <2>1, <2>4, Joining
      <4>2. QED
        BY <4>1 DEF Associates
    <3>2. QED
      BY <2>5, <3>1 DEF t
  <2>7. e \o rest \in Seq(Symbols)
    BY <1>4, <2>4, ConcatProperties
  <2>8. At(0, d, e \o rest)'
    BY <1>15, <2>1, <2>6, <2>7
  <2>9. Take(d, 0) = <<>>
    BY <2>1, TakeDropEnds
  <2>10. S = S \o Take(d, 0)
    BY <1>7, <2>9, ConcatEmptySeq
  <2>11. got' = 0 /\ expect' = Len(d) /\ got' < expect' /\ sub_state' = "S_EXPECT_CHUNK_DATA"
    BY <1>13, <2>1, <2>2, <2>3 DEF To
  <2>12. InData(msg, i, rest)'
    BY <1>14, <1>17, <2>8, <2>10, <2>11 DEF InData, d, e, S
  <2>13. QED
    BY <1>1, <1>14, <1>16, <2>12, ChunkGoesOn
<1>18. CASE ~(i < Len(msg.chunks))
  <2>1. i = Len(msg.chunks)
    BY <1>4, <1>18, MessageIs
  <2>2. z = "0" /\ b = <<"CR", "LF">>
    BY <1>18 DEF z, b, SizeAt, BehindSize
  <2>3. Value[z] = 0
    BY <2>2, SymbolsAre
  <2>4. S = BodyOf(msg)
    BY <1>4, <2>1, DatasIs DEF S
  <2>5. At(0, <<"CR", "LF">>, rest)'
    <3>1. <<"CR", "LF">> \in Seq(Symbols) /\ t = <<"CR", "LF">> \o rest
      BY <1>5, <2>2 DEF t
    <3>2. QED
      BY <1>4, <1>15, <3>1
  <2>6. sub_state' = "S_FINISH_WAIT_CR"
    BY <1>13, <2>3 DEF To
  <2>7. InFinish(msg, rest)'
    <3>1. 0 \in 0 .. 1
      OBVIOUS
    <3>2. sub_state' = IF 0 = 0 THEN "S_FINISH_WAIT_CR" ELSE "S_FINISH_WAIT_LF"
      BY <2>6
    <3>3. QED
      BY <1>14, <2>4, <2>5, <3>1, <3>2 DEF InFinish
  <2>8. QED
    BY <1>1, <1>14, <1>16, <2>7, ChunkGoesOn
<1>19. QED
  BY <1>17, <1>18

\* A piece of a chunk.
LEMMA DataRound ==
  ASSUME InputInv, ParseStep, NEW m \in Nat, NEW msg, NEW rest, Here(m, msg, rest),
         Chunked(m, msg), NEW i \in 0 .. Len(msg.chunks), InData(msg, i, rest)
  PROVE  Story'
<1>1. /\ Took /\ UNCHANGED <<stream, bytes>>
      /\ bytes \in Seq(Symbols) /\ stream \in Seq(Messages) /\ ParserTypeOK
  BY RoundIs
<1>2. PICK n : RoundOf(n)
  BY RoundIs
<1>3. n \in Nat \ {0} /\ Consume(bytes[Place + 1], n)
  BY <1>2 DEF RoundOf
<1>4. msg \in Messages /\ rest \in Seq(Symbols)
  BY <1>1, HereIs
<1> DEFINE d == msg.chunks[i + 1].data
           c == ChunksFrom(msg, i + 1)
           cl == <<"CR", "LF">>
           t == (cl \o c) \o rest
           S == Before(Datas(msg), i)
           N == Before(Datas(msg), i + 1)
<1>5. /\ i < Len(msg.chunks) /\ sub_state = "S_EXPECT_CHUNK_DATA"
      /\ got < expect /\ expect = Len(d)
      /\ At(got, d, t) /\ SymbolsOf(body) = S \o Take(d, got)
  BY DEF InData
<1>6. /\ d \in Seq(Symbols) /\ Len(d) \in Nat /\ i + 1 \in 0 .. Len(msg.chunks)
      /\ S \in Seq(Symbols) /\ N = S \o d /\ N \in Seq(Symbols)
  BY <1>4, <1>5, DatasIs
<1>7. c \in Seq(Symbols) /\ cl \in Seq(Symbols)
  BY <1>4, <1>6, ChunksFromIs, SymbolsAre
<1> HIDE DEF d, c, cl, S, N
<1>8. t = cl \o (c \o rest)
  <2>1. Associates(cl, c, rest)
    BY <1>4, <1>7, Joining
  <2>2. QED
    BY <2>1 DEF Associates
<1>9. c \o rest \in Seq(Symbols)
  BY <1>4, <1>7, ConcatProperties
<1>10. t \in Seq(Symbols)
  BY <1>7, <1>8, <1>9, ConcatProperties
<1> HIDE DEF t
<1>11. PICK g \in Nat : g = got
  BY <1>1 DEF ParserTypeOK
<1>12. PICK k \in Nat : k = Increasement(n) /\ k \in 1 .. n /\ g + k <= Len(d)
  BY <1>3, <1>5, <1>6, <1>11, Grabs
<1>13. ChunkData(n)
  <2>1. In("Chunk", "S_EXPECT_CHUNK_DATA")
    BY <1>5 DEF Chunked, In
  <2>2. QED
    BY <1>3, <2>1, Dispatch
<1>14. /\ got' = g + k /\ UNCHANGED <<expect, hex, text>> /\ ctx'.step = k /\ ctx'.err = FALSE
       /\ ctx'.events = <<"OnPartofBody">> /\ curr_state' = "Chunk"
       /\ sub_state' = IF g + k = Len(d) THEN "S_EXPECT_CHUNK_CR" ELSE "S_EXPECT_CHUNK_DATA"
  BY <1>5, <1>11, <1>12, <1>13 DEF ChunkData, TakesPiece, To, In
<1>15. Place' = Place + k /\ SymbolsOf(body)' = (S \o Take(d, g)) \o BytesFrom(Place, k)
  BY <1>1, <1>5, <1>11, <1>14, APiece DEF PieceLists
<1>16. Take(d, g) \o BytesFrom(Place, k) = Take(d, g + k)
  <2>1. At(g, d, t) /\ d \in Seq(Symbols) /\ t \in Seq(Symbols) /\ g + k <= Len(d)
    BY <1>5, <1>6, <1>10, <1>11, <1>12
  <2>2. QED
    BY <1>1, <2>1, AtPiece, Zenon
<1>17. Take(d, g) \in Seq(Symbols) /\ Take(d, g + k) \in Seq(Symbols)
  <2>1. g <= Len(d) /\ g + k \in Nat
    BY <1>6, <1>12
  <2>2. QED
    BY <1>6, <1>12, <2>1, TakeIs
<1>18. BytesFrom(Place, k) \in Seq(Symbols)
  <2>1. /\ Place \in Nat /\ Place + (Len(d) - g) <= Len(bytes) /\ Len(bytes) \in Nat
    <3>1. g < Len(d) /\ At(g, d, t)
      BY <1>5, <1>11
    <3>2. QED
      BY <1>1, <1>6, <1>10, <3>1, AtNext, LenProperties
  <2>2. \A j \in 1 .. k : Place + j \in 1 .. Len(bytes)
    BY <1>6, <1>12, <2>1, SMTT(30)
  <2>3. \A j \in 1 .. k : bytes[Place + j] \in Symbols
    BY <1>1, <2>2, ElementOfSeq
  <2>4. QED
    BY <2>3 DEF BytesFrom
<1>19. SymbolsOf(body)' = S \o Take(d, g + k)
  <2> DEFINE x == Take(d, g)
             y == BytesFrom(Place, k)
  <2>1. x \in Seq(Symbols) /\ y \in Seq(Symbols)
    BY <1>17, <1>18
  <2> HIDE DEF x, y
  <2>2. (S \o x) \o y = S \o (x \o y)
    <3>1. Associates(S, x, y)
      BY <1>6, <2>1, Joining
    <3>2. QED
      BY <3>1 DEF Associates
  <2>3. QED
    BY <1>15, <1>16, <2>2 DEF x, y
<1>20. complete' = FALSE /\ handed' = handed
  <2>1. handed \in Seq(Told)
    BY <1>1, ToldSoFar DEF Chunked, Begun
  <2>2. SymbolsOf(body)' \in Seq(Symbols)
    <3> DEFINE x == Take(d, g + k)
    <3>1. x \in Seq(Symbols)
      BY <1>17
    <3> HIDE DEF x
    <3>2. S \o x \in Seq(Symbols)
      BY <1>6, <3>1, ConcatProperties
    <3>3. QED
      BY <1>19, <3>2 DEF x
  <2>3. SymbolsOf(body)' \in Seq(Told)
    BY <2>2, LenProperties, ElementOfSeq DEF Told
  <2>4. QED
    BY <1>14, <2>1, <2>3, RoundTells
<1>21. CASE g + k = Len(d)
  <2>1. SymbolsOf(body)' = N
    BY <1>6, <1>19, <1>21, TakeDropEnds
  <2>2. At(0, cl, c \o rest)'
    <3>1. At(g, d, t)
      BY <1>5, <1>11
    <3>2. QED
      BY <1>1, <1>6, <1>7, <1>8, <1>9, <1>10, <1>15, <1>21, <3>1, AtLeaves
  <2>3. BehindData(msg, i, rest)'
    <3>1. 0 \in 0 .. 1
      OBVIOUS
    <3>2. sub_state' = IF 0 = 0 THEN "S_EXPECT_CHUNK_CR" ELSE "S_EXPECT_CHUNK_LF"
      BY <1>14, <1>21
    <3>3. QED
      BY <1>5, <2>1, <2>2, <3>1, <3>2 DEF BehindData, cl, c, N
  <2>4. QED
    BY <1>1, <1>14, <1>20, <2>3, ChunkGoesOn
<1>22. CASE g + k # Len(d)
  <2>1. At(g + k, d, t)'
    BY <1>1, <1>5, <1>11, <1>15, AtMoves
  <2>2. got' = g + k /\ got' < expect' /\ expect' = Len(d)
    BY <1>5, <1>6, <1>12, <1>14, <1>22, SMTT(30)
  <2>3. InData(msg, i, rest)'
    BY <1>5, <1>14, <1>19, <1>22, <2>1, <2>2 DEF InData, d, t, c, cl, S
  <2>4. QED
    BY <1>1, <1>14, <1>20, <2>3, ChunkGoesOn
<1>23. QED
  BY <1>21, <1>22

\* The CR behind a chunk, and the LF.
LEMMA BehindRound ==
  ASSUME InputInv, ParseStep, NEW m \in Nat, NEW msg, NEW rest, Here(m, msg, rest),
         Chunked(m, msg), NEW i \in 0 .. Len(msg.chunks), BehindData(msg, i, rest)
  PROVE  Story'
<1>1. /\ Took /\ UNCHANGED <<stream, bytes>>
      /\ bytes \in Seq(Symbols) /\ stream \in Seq(Messages)
  BY RoundIs
<1>2. PICK n : RoundOf(n)
  BY RoundIs
<1>3. Consume(bytes[Place + 1], n)
  BY <1>2 DEF RoundOf
<1>4. msg \in Messages /\ rest \in Seq(Symbols)
  BY <1>1, HereIs
<1> DEFINE k == i + 1
           c == ChunksFrom(msg, k)
           cl == <<"CR", "LF">>
           t == c \o rest
           N == Before(Datas(msg), k)
           l == SizeLine(msg, k)
           b == BehindSize(msg, k)
<1>5. PICK q \in 0 .. 1 :
        /\ At(q, cl, t)
        /\ sub_state = IF q = 0 THEN "S_EXPECT_CHUNK_CR" ELSE "S_EXPECT_CHUNK_LF"
  BY DEF BehindData
<1>6. i < Len(msg.chunks) /\ SymbolsOf(body) = N
  BY DEF BehindData
<1>7. k \in 0 .. Len(msg.chunks) /\ N \in Seq(Symbols)
  BY <1>4, <1>6, DatasIs
<1>8. c \in Seq(Symbols) /\ l \in Seq(Symbols) /\ b \in Seq(Symbols) /\ c = l \o b
  BY <1>4, <1>7, ChunksFromIs
<1>9. cl \in Seq(Symbols) /\ Len(cl) = 2 /\ cl[1] = "CR" /\ cl[2] = "LF"
  BY SymbolsAre
<1> HIDE DEF c, cl, N, l, b
<1>10. t \in Seq(Symbols) /\ b \o rest \in Seq(Symbols)
  BY <1>4, <1>8, ConcatProperties
<1>11. t = l \o (b \o rest)
  <2>1. (l \o b) \o rest = l \o (b \o rest)
    <3>1. Associates(l, b, rest)
      BY <1>4, <1>8, Joining
    <3>2. QED
      BY <3>1 DEF Associates
  <2>2. QED
    BY <1>8, <2>1
<1> HIDE DEF t
<1>12. bytes[Place + 1] = cl[q + 1]
  <2>1. q \in Nat /\ q < Len(cl)
    BY <1>9
  <2>2. QED
    BY <1>1, <1>5, <1>9, <1>10, <2>1, AtNext
<1>13. CASE q = 0
  <2>1. ExpectChunkCr("CR", n)
    <3>1. In("Chunk", "S_EXPECT_CHUNK_CR") /\ bytes[Place + 1] = "CR"
      BY <1>5, <1>9, <1>12, <1>13 DEF Chunked, In
    <3>2. QED
      BY <1>3, <3>1, Dispatch
  <2>2. Emits(n, <<>>) /\ To("S_EXPECT_CHUNK_LF") /\ UNCHANGED text
    BY <2>1 DEF ExpectChunkCr, Due
  <2>3. /\ Place' = Place + 1 /\ SymbolsOf(body)' = N
        /\ complete' = FALSE /\ handed' = handed /\ ctx'.err = FALSE
    BY <1>1, <1>6, <1>7, <2>2, SilentRound
  <2>4. At(1, cl, t)'
    <3>1. At(0 + 1, cl, t)'
      BY <1>1, <1>5, <1>13, <2>3, AtMoves
    <3>2. QED
      BY <3>1
  <2>5. BehindData(msg, i, rest)'
    <3>1. 1 \in 0 .. 1
      OBVIOUS
    <3>2. sub_state' = IF 1 = 0 THEN "S_EXPECT_CHUNK_CR" ELSE "S_EXPECT_CHUNK_LF"
      BY <2>2 DEF To
    <3>3. QED
      BY <1>6, <2>3, <2>4, <3>1, <3>2 DEF BehindData, c, cl, t, N
  <2>6. curr_state' = "Chunk"
    BY <2>2 DEF To, Chunked
  <2>7. QED
    BY <1>1, <2>2, <2>3, <2>5, <2>6, ChunkGoesOn
<1>14. CASE q = 1
  <2>1. ExpectChunkLf("LF", n)
    <3>1. In("Chunk", "S_EXPECT_CHUNK_LF") /\ bytes[Place + 1] = "LF"
      BY <1>5, <1>9, <1>12, <1>14 DEF Chunked, In
    <3>2. QED
      BY <1>3, <3>1, Dispatch
  <2>2. /\ Emits(n, <<>>) /\ In("Chunk", "S_EXPECT_LENGTH")' /\ UNCHANGED text
        /\ got' = 0 /\ hex' = <<>>
    BY <2>1 DEF ExpectChunkLf, Enter, Entry, In
  <2>3. /\ Place' = Place + 1 /\ SymbolsOf(body)' = N
        /\ complete' = FALSE /\ handed' = handed /\ ctx'.err = FALSE
    BY <1>1, <1>6, <1>7, <2>2, SilentRound
  <2>4. At(0, l, b \o rest)'
    <3>1. At(1, cl, t) /\ 1 \in Nat /\ 1 + 1 = Len(cl)
      BY <1>5, <1>9, <1>14
    <3>2. QED
      BY <1>1, <1>8, <1>9, <1>10, <1>11, <2>3, <3>1, AtLeaves
  <2>5. InSize(msg, k, rest)'
    <3>1. 0 \in 0 .. 2
      OBVIOUS
    <3>2. /\ sub_state' = (IF 0 = 2 THEN "S_GET_INITIAL_CR" ELSE "S_EXPECT_LENGTH")
          /\ hex' = (IF 0 = 0 THEN <<>> ELSE <<SizeAt(msg, k)>>)
      BY <2>2 DEF In
    <3>3. got' = 0 /\ k <= Len(msg.chunks)
      BY <1>4, <1>7, <2>2, MessageIs
    <3> HIDE DEF k
    <3>4. QED
      BY <2>3, <2>4, <3>1, <3>2, <3>3 DEF InSize, l, b, N
  <2>6. curr_state' = "Chunk"
    BY <2>2 DEF In
  <2>7. QED
    BY <1>1, <1>7, <2>2, <2>3, <2>5, <2>6, ChunkGoesOn
<1>15. QED
  BY <1>13, <1>14

\* The CR behind the last chunk, and the LF that ends the message.
LEMMA FinishRound ==
  ASSUME InputInv, ParseStep, NEW m \in Nat, NEW msg, NEW rest, Here(m, msg, rest),
         Chunked(m, msg), InFinish(msg, rest)
  PROVE  Story'
<1>1. /\ Took /\ UNCHANGED <<stream, bytes>>
      /\ bytes \in Seq(Symbols) /\ stream \in Seq(Messages)
  BY RoundIs
<1>2. PICK n : RoundOf(n)
  BY RoundIs
<1>3. Consume(bytes[Place + 1], n)
  BY <1>2 DEF RoundOf
<1>4. msg \in Messages /\ rest \in Seq(Symbols)
  BY <1>1, HereIs
<1> DEFINE cl == <<"CR", "LF">>
           N == BodyOf(msg)
<1>5. PICK q \in 0 .. 1 :
        /\ At(q, cl, rest)
        /\ sub_state = IF q = 0 THEN "S_FINISH_WAIT_CR" ELSE "S_FINISH_WAIT_LF"
  BY DEF InFinish
<1>6. SymbolsOf(body) = N
  BY DEF InFinish
<1>7. N \in Seq(Symbols)
  BY <1>4, ChunksAre
<1>8. cl \in Seq(Symbols) /\ Len(cl) = 2 /\ cl[1] = "CR" /\ cl[2] = "LF"
  BY SymbolsAre
<1> HIDE DEF cl, N
<1>9. bytes[Place + 1] = cl[q + 1]
  <2>1. q \in Nat /\ q < Len(cl)
    BY <1>8
  <2>2. QED
    BY <1>1, <1>4, <1>5, <1>8, <2>1, AtNext
<1>10. CASE q = 0
  <2>1. FinishWaitCr("CR", n)
    <3>1. In("Chunk", "S_FINISH_WAIT_CR") /\ bytes[Place + 1] = "CR"
      BY <1>5, <1>8, <1>9, <1>10 DEF Chunked, In
    <3>2. QED
      BY <1>3, <3>1, Dispatch
  <2>2. Emits(n, <<>>) /\ To("S_FINISH_WAIT_LF") /\ UNCHANGED text
    BY <2>1 DEF FinishWaitCr, Due
  <2>3. /\ Place' = Place + 1 /\ SymbolsOf(body)' = N
        /\ complete' = FALSE /\ handed' = handed /\ ctx'.err = FALSE
    BY <1>1, <1>6, <1>7, <2>2, SilentRound
  <2>4. At(1, cl, rest)'
    <3>1. At(0 + 1, cl, rest)'
      BY <1>1, <1>5, <1>10, <2>3, AtMoves
    <3>2. QED
      BY <3>1
  <2>5. InFinish(msg, rest)'
    <3>1. 1 \in 0 .. 1
      OBVIOUS
    <3>2. sub_state' = IF 1 = 0 THEN "S_FINISH_WAIT_CR" ELSE "S_FINISH_WAIT_LF"
      BY <2>2 DEF To
    <3>3. QED
      BY <2>3, <2>4, <3>1, <3>2 DEF InFinish, cl, N
  <2>6. curr_state' = "Chunk"
    BY <2>2 DEF To, Chunked
  <2>7. QED
    BY <1>1, <2>2, <2>3, <2>5, <2>6, ChunkGoesOn
<1>11. CASE q = 1
  <2>1. FinishWaitLf("LF", n)
    <3>1. In("Chunk", "S_FINISH_WAIT_LF") /\ bytes[Place + 1] = "LF"
      BY <1>5, <1>8, <1>9, <1>11 DEF Chunked, In
    <3>2. QED
      BY <1>3, <3>1, Dispatch
  <2>2. /\ Emits(n, <<"RequestReceived">>) /\ In("RequestLine", "S_EXPECT_METHOD")'
        /\ UNCHANGED text
    BY <2>1 DEF FinishWaitLf, Enter, Entry, In
  <2>3. ctx'.events = <<"RequestReceived">> /\ ctx'.err = FALSE
    BY <2>2 DEF Emits
  <2>4. Place' = Place + 1 /\ SymbolsOf(body)' = N
    BY <1>1, <1>6, <2>3, OneByte DEF ByteLists
  <2>5. handed = Before(Meanings(stream), m) \o HeaderTold
    BY DEF Chunked, Begun
  <2>6. handed \in Seq(Told) /\ N \in Seq(Told)
    BY <1>1, <1>4, <2>5, ToldSoFar, MeaningIs DEF N
  <2>7. complete' = TRUE /\ handed' = handed \o Append(N, "RequestReceived")
    BY <2>2, <2>3, <2>4, <2>6, RoundTells DEF In
  <2>8. handed' = Before(Meanings(stream), m) \o Meaning(msg)
    BY <1>1, <2>5, <2>7, BodyTold DEF Chunked, N
  <2>9. At(0, <<>>, rest)'
    <3>1. rest = <<>> \o rest
      BY <1>4, ConcatEmptySeq
    <3>2. At(1, cl, rest) /\ 1 \in Nat /\ 1 + 1 = Len(cl) /\ <<>> \in Seq(Symbols)
      BY <1>5, <1>8, <1>11
    <3>3. QED
      BY <1>1, <1>4, <1>8, <2>4, <3>1, <3>2, AtLeaves
  <2>10. method' = FALSE /\ key' = <<>> /\ val' = <<>>
    <3>1. method' = method /\ key' = key /\ val' = val
      BY <2>2 DEF text
    <3>2. QED
      BY <3>1, Zenon DEF Chunked, Cleared
  <2>11. QED
    BY <1>1, <2>2, <2>3, <2>4, <2>7, <2>8, <2>9, <2>10, MessageEnds DEF N
<1>12. QED
  BY <1>10, <1>11

----------------------------------------------------------------------------
(* The steps keep the story.                                               *)

\* The phases of a message, each with the round that parse does in it.
LEMMA ChunksRound ==
  ASSUME InputInv, ParseStep, NEW m \in Nat, NEW msg, NEW rest, Here(m, msg, rest),
         InChunks(m, msg, rest)
  PROVE  Story'
<1>1. Chunked(m, msg)
  BY DEF InChunks, Chunked
<1>2. ASSUME NEW i \in 0 .. Len(msg.chunks), InSize(msg, i, rest)
      PROVE  Story'
  <2>1. got = 0 /\ SymbolsOf(body) = Before(Datas(msg), i)
    BY <1>2 DEF InSize
  <2>2. PICK q \in 0 .. 2 :
          /\ At(q, SizeLine(msg, i), BehindSize(msg, i) \o rest)
          /\ sub_state = IF q = 2 THEN "S_GET_INITIAL_CR" ELSE "S_EXPECT_LENGTH"
          /\ hex = IF q = 0 THEN <<>> ELSE <<SizeAt(msg, i)>>
    BY <1>2 DEF InSize
  <2>3. CASE q = 2
    <3>1. /\ At(2, SizeLine(msg, i), BehindSize(msg, i) \o rest)
          /\ sub_state = "S_GET_INITIAL_CR" /\ hex = <<SizeAt(msg, i)>>
      BY <2>2, <2>3
    <3>2. QED
      BY <1>1, <1>2, <2>1, <3>1, SizeEndRound
  <2>4. CASE q \in 0 .. 1
    <3>1. sub_state = "S_EXPECT_LENGTH"
      BY <2>2, <2>4
    <3>2. QED
      BY <1>1, <1>2, <2>1, <2>2, <2>4, <3>1, SizeRound
  <2>5. q = 2 \/ q \in 0 .. 1
    BY <2>2
  <2>6. QED
    BY <2>3, <2>4, <2>5
<1>3. ASSUME NEW i \in 0 .. Len(msg.chunks), InData(msg, i, rest)
      PROVE  Story'
  BY <1>1, <1>3, DataRound
<1>4. ASSUME NEW i \in 0 .. Len(msg.chunks), BehindData(msg, i, rest)
      PROVE  Story'
  BY <1>1, <1>4, BehindRound
<1>5. CASE InFinish(msg, rest)
  BY <1>1, <1>5, FinishRound
<1>6. QED
  BY <1>2, <1>3, <1>4, <1>5 DEF InChunks

\* A round of parse keeps the story.
LEMMA ParseStepStory ==
  ASSUME InputInv, ParseStep, Story
  PROVE  Story'
<1>1. PICK m \in 0 .. Len(stream) : StoryAt(m)
  BY DEF Story
<1>2. m \in Nat /\ ctx.err = FALSE
  <2>1. ctx.err = FALSE
    BY RoundIs
  <2>2. m \in Nat
    BY <1>1
  <2>3. QED
    BY <2>1, <2>2
<1>3. CASE Between(m)
  BY <1>1, <1>3, BetweenRound
<1>4. ASSUME m < Len(stream), NEW msg, NEW rest,
             msg = stream[m + 1], rest = Behind(Encodings(stream), m + 1),
             \/ InHeader(m, msg, rest) \/ InBody(m, msg, rest) \/ InChunks(m, msg, rest)
      PROVE  Story'
  <2>1. Here(m, msg, rest)
    BY <1>4 DEF Here
  <2>2. CASE InHeader(m, msg, rest)
    <3>1. Begun(m, <<"StartRecvingHeader">>) /\ SymbolsOf(body) = <<>>
      BY <2>2 DEF InHeader
    <3>2. PICK q \in 1 .. 14 :
            /\ At(q, HeaderOf(msg), TailOf(msg) \o rest)
            /\ HeaderAt(q, NameOf(msg), ValueOf(msg))
      BY <2>2 DEF InHeader
    <3>3. CASE q = 14
      BY <1>2, <2>1, <3>1, <3>2, <3>3, HeaderEndRound
    <3>4. CASE q \in 1 .. 13
      BY <1>2, <2>1, <3>1, <3>2, <3>4, HeaderRound
    <3>5. q = 14 \/ q \in 1 .. 13
      BY <3>2
    <3>6. QED
      BY <3>3, <3>4, <3>5
  <2>3. CASE InBody(m, msg, rest)
    BY <1>2, <2>1, <2>3, BodyRound
  <2>4. CASE InChunks(m, msg, rest)
    BY <1>2, <2>1, <2>4, ChunksRound
  <2>5. QED
    BY <1>4, <2>2, <2>3, <2>4
<1>5. ~Failed(m)
  BY <1>2 DEF Failed
<1>6. m < Len(stream) \/ Between(m)
  BY <1>1, <1>5 DEF StoryAt, InHeader, InBody, InChunks, Begun
<1>7. QED
  BY <1>1, <1>3, <1>4, <1>5, <1>6 DEF StoryAt

\* What is still to be read stays what it is while the place does.
LEMMA AtStays ==
  ASSUME bytes \in Seq(Symbols), UNCHANGED bytes, Place' = Place,
         NEW q \in Nat, NEW a, NEW b, At(q, a, b)
  PROVE  At(q, a, b)'
<1>1. PICK s \in 0 .. Len(bytes) : Place = s + q /\ Reads(s, a \o b)
  BY DEF At
<1>2. Place' = s + q /\ s \in 0 .. Len(bytes')
  BY <1>1
<1>3. Reads(s, a \o b)'
  BY <1>1 DEF Reads
<1>4. QED
  BY <1>2, <1>3 DEF At

\* The steps of the thread outside of parse keep the story.
LEMMA QuietStory ==
  ASSUME bytes \in Seq(Symbols), Quiet, Story
  PROVE  Story'
<1>1. /\ stream' = stream /\ bytes' = bytes /\ complete' = complete /\ handed' = handed
      /\ curr_state' = curr_state /\ sub_state' = sub_state
      /\ method' = method /\ key' = key /\ val' = val /\ headers' = headers
      /\ got' = got /\ expect' = expect /\ hex' = hex /\ ctx' = ctx
      /\ Place' = Place /\ SymbolsOf(body)' = SymbolsOf(body)
  BY DEF Quiet, pvars, text, counts
<1>2. PICK m \in 0 .. Len(stream) : StoryAt(m)
  BY DEF Story
<1>3. \A q \in Nat : \A a, b : At(q, a, b) => At(q, a, b)'
  BY <1>1, AtStays
<1>4. CASE Between(m)
  <2>0. PICK x : x = Behind(Encodings(stream), m)
    OBVIOUS
  <2>1. At(0, <<>>, x)' /\ x = Behind(Encodings(stream'), m)
    BY <1>1, <1>3, <1>4, <2>0 DEF Between
  <2>2. Between(m)'
    BY <1>1, <1>4, <2>1 DEF Between, In
  <2>3. QED
    BY <1>1, <1>2, <2>2 DEF Story, StoryAt
<1>5. CASE Failed(m)
  <2>1. Failed(m)'
    BY <1>1, <1>5 DEF Failed
  <2>2. QED
    BY <1>1, <1>2, <2>1 DEF Story, StoryAt
<1>6. ASSUME NEW msg, NEW rest, msg = stream[m + 1], rest = Behind(Encodings(stream), m + 1),
             \/ InHeader(m, msg, rest) \/ InBody(m, msg, rest) \/ InChunks(m, msg, rest)
      PROVE  Story'
  <2>1. msg = stream'[m + 1] /\ rest = Behind(Encodings(stream'), m + 1)
    BY <1>1, <1>6
  <2>2. ASSUME NEW told, Begun(m, told) PROVE Begun(m, told)'
    BY <1>1, <2>2 DEF Begun
  <2>3. Cleared => Cleared'
    BY <1>1 DEF Cleared
  <2>4. CASE InHeader(m, msg, rest)
    <3>1. PICK q \in 1 .. 14 :
            /\ At(q, HeaderOf(msg), TailOf(msg) \o rest)
            /\ HeaderAt(q, NameOf(msg), ValueOf(msg))
      BY <2>4 DEF InHeader
    <3>2. At(q, HeaderOf(msg), TailOf(msg) \o rest)'
      BY <1>3, <3>1
    <3>3. HeaderAt(q, NameOf(msg), ValueOf(msg))'
      BY <1>1, <3>1 DEF HeaderAt, In
    <3>4. InHeader(m, msg, rest)'
      BY <1>1, <2>2, <2>4, <3>2, <3>3 DEF InHeader
    <3>5. QED
      BY <1>1, <1>2, <2>1, <3>4 DEF Story, StoryAt
  <2>5. CASE InBody(m, msg, rest)
    <3>1. At(got, msg.chunks[1].data, rest)'
      <4>1. \E s \in 0 .. Len(bytes) : Place = s + got /\ Reads(s, msg.chunks[1].data \o rest)
        BY <2>5 DEF InBody, At
      <4>2. PICK s \in 0 .. Len(bytes) : Place = s + got /\ Reads(s, msg.chunks[1].data \o rest)
        BY <4>1
      <4>3. Reads(s, msg.chunks[1].data \o rest)'
        BY <1>1, <4>2 DEF Reads
      <4>4. Place' = s + got' /\ s \in 0 .. Len(bytes')
        BY <1>1, <4>2
      <4>5. QED
        BY <4>3, <4>4 DEF At
    <3>2. InBody(m, msg, rest)'
      BY <1>1, <2>2, <2>3, <2>5, <3>1 DEF InBody
    <3>3. QED
      BY <1>1, <1>2, <2>1, <3>2 DEF Story, StoryAt
  <2>6. CASE InChunks(m, msg, rest)
    <3>1. Begun(m, HeaderTold)' /\ Cleared' /\ curr_state' = "Chunk" /\ msg.kind = "chunked"
      BY <1>1, <2>2, <2>3, <2>6 DEF InChunks
    <3>2. ASSUME NEW i \in 0 .. Len(msg.chunks), InSize(msg, i, rest) PROVE InSize(msg, i, rest)'
      <4>1. PICK q \in 0 .. 2 :
              /\ At(q, SizeLine(msg, i), BehindSize(msg, i) \o rest)
              /\ sub_state = IF q = 2 THEN "S_GET_INITIAL_CR" ELSE "S_EXPECT_LENGTH"
              /\ hex = IF q = 0 THEN <<>> ELSE <<SizeAt(msg, i)>>
        BY <3>2 DEF InSize
      <4>2. At(q, SizeLine(msg, i), BehindSize(msg, i) \o rest)'
        BY <1>3, <4>1
      <4>3. QED
        BY <1>1, <3>2, <4>1, <4>2 DEF InSize
    <3>3. ASSUME NEW i \in 0 .. Len(msg.chunks), InData(msg, i, rest) PROVE InData(msg, i, rest)'
      <4>1. PICK s \in 0 .. Len(bytes) :
              /\ Place = s + got
              /\ Reads(s, msg.chunks[i + 1].data \o ((<<"CR", "LF">> \o ChunksFrom(msg, i + 1)) \o rest))
        BY <3>3, SMTT(30) DEF InData, At
      <4>2. Reads(s, msg.chunks[i + 1].data \o ((<<"CR", "LF">> \o ChunksFrom(msg, i + 1)) \o rest))'
        BY <1>1, <4>1 DEF Reads
      <4>3. Place' = s + got' /\ s \in 0 .. Len(bytes')
        BY <1>1, <4>1
      <4>4. At(got, msg.chunks[i + 1].data, (<<"CR", "LF">> \o ChunksFrom(msg, i + 1)) \o rest)'
        BY <4>2, <4>3 DEF At
      <4>5. QED
        BY <1>1, <3>3, <4>4 DEF InData
    <3>4. ASSUME NEW i \in 0 .. Len(msg.chunks), BehindData(msg, i, rest) PROVE BehindData(msg, i, rest)'
      <4>1. PICK q \in 0 .. 1 :
              /\ At(q, <<"CR", "LF">>, ChunksFrom(msg, i + 1) \o rest)
              /\ sub_state = IF q = 0 THEN "S_EXPECT_CHUNK_CR" ELSE "S_EXPECT_CHUNK_LF"
        BY <3>4 DEF BehindData
      <4>2. At(q, <<"CR", "LF">>, ChunksFrom(msg, i + 1) \o rest)'
        BY <1>3, <4>1
      <4>3. QED
        BY <1>1, <3>4, <4>1, <4>2 DEF BehindData
    <3>5. ASSUME InFinish(msg, rest) PROVE InFinish(msg, rest)'
      <4>1. PICK q \in 0 .. 1 :
              /\ At(q, <<"CR", "LF">>, rest)
              /\ sub_state = IF q = 0 THEN "S_FINISH_WAIT_CR" ELSE "S_FINISH_WAIT_LF"
        BY <3>5 DEF InFinish
      <4>2. At(q, <<"CR", "LF">>, rest)'
        BY <1>3, <4>1
      <4>3. QED
        BY <1>1, <3>5, <4>1, <4>2 DEF InFinish
    <3>6. InChunks(m, msg, rest)'
      BY <2>6, <3>1, <3>2, <3>3, <3>4, <3>5 DEF InChunks
    <3>7. QED
      BY <1>1, <1>2, <2>1, <3>6 DEF Story, StoryAt
  <2>7. QED
    BY <1>6, <2>4, <2>5, <2>6
<1>7. QED
  BY <1>2, <1>4, <1>5, <1>6 DEF StoryAt

\* A request that waits for its answer is behind the message it came with.
LEMMA CompleteIsBetween ==
  ASSUME complete, complete \in BOOLEAN, NEW m, StoryAt(m)
  PROVE  Between(m)
<1>1. complete # FALSE
  OBVIOUS
<1>2. QED
  BY <1>1 DEF StoryAt, InHeader, InBody, InChunks, Failed, Begun

\* An answer keeps the story.
LEMMA AnsweredStory ==
  ASSUME InputInv, Answered, Story
  PROVE  Story'
<1>1. /\ UNCHANGED <<stream, bytes, handed>>
      /\ UNCHANGED <<curr_state, sub_state, method, key, val, ctx>> /\ headers' = {}
      /\ complete /\ complete' = FALSE
  BY DEF Answered, PrepareForNextReq, ClearRequest, client
<1>2. Place' = Place /\ SymbolsOf(body)' = <<>> /\ bytes \in Seq(Symbols) /\ complete \in BOOLEAN
  BY AnsweredKeeps DEF InputInv
<1>3. PICK m \in 0 .. Len(stream) : StoryAt(m)
  BY DEF Story
<1>4. Between(m)
  BY <1>1, <1>2, <1>3, CompleteIsBetween
<1>5. PICK x : x = Behind(Encodings(stream), m)
  OBVIOUS
<1>6. At(0, <<>>, x)' /\ x = Behind(Encodings(stream'), m)
  <2>1. At(0, <<>>, x)
    BY <1>4, <1>5 DEF Between
  <2>2. At(0, <<>>, x)'
    BY <1>1, <1>2, <2>1, AtStays
  <2>3. QED
    BY <1>1, <1>5, <2>2
<1>7. Between(m)'
  BY <1>1, <1>2, <1>4, <1>6 DEF Between, In
<1>8. QED
  BY <1>1, <1>3, <1>7 DEF Story, StoryAt

----------------------------------------------------------------------------
(* What the story says of the properties.                                  *)

\* The inductive invariant.
InputIInv == InputInv /\ Story

\* The inductive invariant holds when a client has connected.
LEMMA InputInit ==
  ASSUME Init
  PROVE  InputIInv
<1> DEFINE E == Encodings(stream)
<1>1. /\ ParserInit /\ stream \in Streams
      /\ bytes = FlattenSeq([i \in DOMAIN stream |-> Encode(stream[i])])
      /\ sent = 0 /\ received = 0
      /\ raws = [r \in Raws |-> Uninitialized]
      /\ input = <<>> /\ body = <<>> /\ cur = <<>>
      /\ complete = FALSE /\ pc = "idle" /\ handed = <<>>
  BY DEF Init, End
<1>2. stream \in Seq(Messages)
  BY <1>1, InputAssumption
<1>3. /\ E \in Seq(Seq(Symbols)) /\ Len(E) = Len(stream) /\ Len(stream) \in Nat
      /\ Meanings(stream) \in Seq(Seq(Told))
      /\ bytes = FlattenSeq(E)
  BY <1>1, <1>2, StreamIs
<1>4. /\ FlattenSeq(E) \in Seq(Symbols) /\ Behind(E, 0) = FlattenSeq(E)
  BY <1>3, Parts, PartsEnds
<1>5. Before(Meanings(stream), 0) = <<>>
  BY <1>3, PartsEnds
<1>6. bytes \in Seq(Symbols) /\ Len(bytes) \in Nat /\ Behind(E, 0) = bytes
  BY <1>3, <1>4, LenProperties
<1>7. ToEnd[<<>>] = 0 /\ <<>> \in Chains
  <2>1. <<>> \in Chains
    BY EmptySeq DEF Chains
  <2>2. QED
    BY <2>1, ToEndIs DEF End
<1>8. ChainsInv
  <2>1. raws \in Memories
    BY <1>1 DEF Memories, Uninitialized
  <2>2. Unread(input) /\ Distinct(input) /\ Apart(body, input)
    BY <1>1 DEF Unread, Distinct, Apart, Ends
  <2>3. Content(raws, input) = Counted(0, 0)
    <3>1. Content(raws, input) = <<>>
      BY <1>1, ContentOfNone
    <3>2. Counted(0, 0) \in Seq(Nat) /\ Len(Counted(0, 0)) = 0
      BY CountedIs
    <3>3. QED
      BY <3>1, <3>2, EmptySeq
  <2>4. QED
    BY <1>1, <1>7, <2>1, <2>2, <2>3 DEF ChainsInv, End
<1>9. ParserInv /\ ctx.err = FALSE
  BY <1>1, ParserInitInv DEF ParserInit
<1>10. InputInv
  <2>1. /\ sent \in Nat /\ received <= sent /\ sent <= Len(bytes)
        /\ complete \in BOOLEAN /\ pc \in Places /\ ~ctx.err
    <3>1. Len(bytes) \in Nat /\ 0 <= Len(bytes)
      BY <1>6
    <3>2. sent \in Nat /\ received <= sent /\ sent <= Len(bytes)
      BY <1>1, <3>1
    <3>3. complete \in BOOLEAN
      BY <1>1
    <3>4. pc \in Places /\ ~ctx.err
      BY <1>1, <1>9 DEF Places
    <3>5. QED
      BY <3>2, <3>3, <3>4
  <2>2. QED
    BY <1>1, <1>2, <1>6, <1>8, <1>9, <2>1 DEF InputInv
<1>11. Between(0)
  <2>1. Place = 0
    BY <1>1, <1>7 DEF Place
  <2>2. <<>> \o Behind(E, 0) = bytes
    BY <1>6, ConcatEmptySeq
  <2>3. Reads(0, bytes)
    BY <1>6 DEF Reads
  <2>4. At(0, <<>>, Behind(E, 0))
    BY <1>6, <2>1, <2>2, <2>3 DEF At
  <2>5. SymbolsOf(body) = <<>>
    <3>1. Content(raws, body) = <<>>
      BY <1>1, ContentOfNone
    <3>2. QED
      BY <3>1 DEF SymbolsOf
  <2>6. QED
    BY <1>1, <1>5, <1>9, <2>4, <2>5 DEF Between, ParserInit, In
<1>12. Story
  BY <1>3, <1>11 DEF Story, StoryAt
<1>13. QED
  BY <1>10, <1>12 DEF InputIInv

\* Every step keeps it, when recv reads until the tail has room left.
LEMMA InputStep ==
  ASSUME ~ExactFills, InputIInv, [Next]_vars
  PROVE  InputIInv'
<1>1. InputInv /\ Story /\ bytes \in Seq(Symbols)
  BY DEF InputIInv, InputInv
<1>2. ASSUME InputInv', Quiet PROVE InputIInv'
  BY <1>1, <1>2, QuietStory DEF InputIInv
<1>3. CASE Arrives
  BY <1>1, <1>2, <1>3, ArrivesKeeps
<1>4. CASE OnStreamReadable
  BY <1>1, <1>2, <1>4, OnStreamReadableKeeps
<1>5. CASE ReadFromFd
  BY <1>1, <1>2, <1>5, ReadFromFdKeeps
<1>6. CASE ReadFindsNothing
  BY <1>1, <1>2, <1>6, ReadFindsNothingKeeps
<1>7. CASE Extract
  BY <1>1, <1>2, <1>7, ExtractKeeps
<1>8. CASE ExtractDone
  BY <1>1, <1>2, <1>8, ExtractDoneKeeps
<1>9. CASE ParseStep
  BY <1>1, <1>9, ParseStepKeeps, ParseStepStory DEF InputIInv
<1>10. CASE ParseReturns
  BY <1>1, <1>2, <1>10, ParseReturnsKeeps
<1>11. CASE Answered
  BY <1>1, <1>11, AnsweredKeeps, AnsweredStory DEF InputIInv
<1>12. CASE UNCHANGED vars
  <2>1. /\ UNCHANGED <<stream, bytes, sent, received, raws, input, body, cur, complete, pc, handed>>
        /\ UNCHANGED pvars
    BY <1>12 DEF vars, client, conn
  <2>2. ChainsInv' /\ Place' = Place
    BY <1>1, <2>1, SameChains DEF InputInv
  <2>3. ParserInv' /\ ctx' = ctx
    BY <1>1, <2>1, ParserSame DEF InputInv
  <2>4. SymbolsOf(body)' = SymbolsOf(body)
    BY <2>1, BodySame
  <2>5. Quiet
    BY <2>1, <2>2, <2>4 DEF Quiet
  <2>6. InputInv'
    BY <1>1, <2>1, <2>2, <2>3 DEF InputInv
  <2>7. QED
    BY <1>2, <2>5, <2>6
<1>13. QED
  BY <1>3, <1>4, <1>5, <1>6, <1>7, <1>8, <1>9, <1>10, <1>11, <1>12 DEF Next

\* The beginning of a sequence.
LEMMA BeginsWith ==
  ASSUME NEW T, NEW a \in Seq(T), NEW b \in Seq(T)
  PROVE  IsPrefix(a, a \o b)
<1> DEFINE c == a \o b
<1>1. /\ c \in Seq(T) /\ Len(c) = Len(a) + Len(b) /\ Len(a) \in Nat /\ Len(b) \in Nat
      /\ \A i \in 1 .. Len(a) : c[i] = a[i]
  <2>1. Len(a) \in Nat /\ Len(b) \in Nat
    BY LenProperties
  <2>2. /\ c \in Seq(T) /\ Len(c) = Len(a) + Len(b)
        /\ \A i \in 1 .. Len(a) + Len(b) : c[i] = IF i <= Len(a) THEN a[i] ELSE b[i - Len(a)]
    BY ConcatProperties
  <2>3. \A i \in 1 .. Len(a) : i \in 1 .. Len(a) + Len(b) /\ i <= Len(a)
    BY <2>1
  <2>4. QED
    BY <2>1, <2>2, <2>3
<1> HIDE DEF c
<1>2. Len(a) <= Len(c)
  BY <1>1
<1>3. Take(a, Len(a)) = a
  BY TakeDropEnds
<1>4. /\ Take(c, Len(a)) \in Seq(T) /\ Len(Take(c, Len(a))) = Len(a)
      /\ \A i \in 1 .. Len(a) : Take(c, Len(a))[i] = c[i]
  BY <1>1, <1>2, TakeIs
<1>5. Take(c, Len(a)) = a
  BY <1>1, <1>4, SeqEqual
<1>6. QED
  BY <1>2, <1>3, <1>5 DEF IsPrefix, Take, c

\* What is behind a beginning of the beginning.
LEMMA BeginsWithin ==
  ASSUME NEW T, NEW a \in Seq(T), NEW b \in Seq(T), NEW c \in Seq(T)
  PROVE  IsPrefix(a, (a \o b) \o c)
<1>1. b \o c \in Seq(T) /\ (a \o b) \o c = a \o (b \o c)
  BY ConcatProperties, ConcatAssociative, SMTT(30)
<1>2. QED
  BY <1>1, BeginsWith

\* What the handlers know of a message is the beginning of what it means.
LEMMA ToldIsPart ==
  ASSUME NEW m \in Messages
  PROVE  /\ <<"StartRecvingHeader">> \in Seq(Told)
         /\ \E b \in Seq(Told) : Meaning(m) = <<"StartRecvingHeader">> \o b
         /\ HeaderTold \in Seq(Told)
         /\ m.kind \in {"length", "chunked"} =>
              \E b \in Seq(Told) : Meaning(m) = HeaderTold \o b
<1> DEFINE B == BodyOf(m)
           x == Append(B, "RequestReceived")
           s == <<"StartRecvingHeader">>
           h == <<"HeaderReceived">>
           e == <<"ParseError">>
           he == <<"HeaderReceived", "ParseError">>
           hx == h \o x
           all == HeaderTold \o B \o <<"RequestReceived">>
<1>0. /\ m.kind \in {"plain", "length", "chunked", "bad_line", "bad_length"}
      /\ B \in Seq(Told)
  BY MessageIs, MeaningIs DEF Kinds
<1>1. /\ s \in Seq(Told) /\ h \in Seq(Told) /\ e \in Seq(Told) /\ he \in Seq(Told)
      /\ HeaderTold \in Seq(Told)
  BY DEF Told, Events, HeaderTold
<1>2. x \in Seq(Told) /\ hx \in Seq(Told)
  <2>1. "RequestReceived" \in Told
    BY DEF Told, Events
  <2>2. x \in Seq(Told)
    BY <1>0, <2>1, AppendProperties
  <2>3. QED
    BY <1>1, <2>2, ConcatProperties
<1>3. /\ <<>> \in Seq(Told) /\ <<>> \o HeaderTold = HeaderTold /\ <<>> \o s = s
      /\ <<>> \o all = all
  <2>1. all \in Seq(Told)
    <3>1. HeaderTold \o B \in Seq(Told) /\ <<"RequestReceived">> \in Seq(Told)
      BY <1>0, <1>1, ConcatProperties DEF Told, Events
    <3>2. QED
      BY <3>1, ConcatProperties
  <2>2. QED
    BY <1>1, <2>1, EmptySeq, ConcatEmptySeq
<1>4. /\ (<<>> \o HeaderTold) \o x = <<>> \o all
      /\ (<<>> \o s) \o hx = <<>> \o all
      /\ (<<>> \o s) \o e = <<>> \o <<"StartRecvingHeader", "ParseError">>
      /\ (<<>> \o s) \o he = <<>> \o <<"StartRecvingHeader", "HeaderReceived", "ParseError">>
  BY <1>0, <1>3, TellingsAdd, Zenon
<1>5. /\ <<>> \o <<"StartRecvingHeader", "ParseError">> = <<"StartRecvingHeader", "ParseError">>
      /\ <<>> \o <<"StartRecvingHeader", "HeaderReceived", "ParseError">> =
           <<"StartRecvingHeader", "HeaderReceived", "ParseError">>
  BY ConcatEmptySeq DEF Told, Events
<1>6. /\ HeaderTold \o x = all /\ s \o hx = all
      /\ s \o e = <<"StartRecvingHeader", "ParseError">>
      /\ s \o he = <<"StartRecvingHeader", "HeaderReceived", "ParseError">>
  BY <1>3, <1>4, <1>5, Zenon
<1>7. CASE m.kind = "bad_line"
  <2>1. Meaning(m) = <<"StartRecvingHeader", "ParseError">>
    BY <1>7 DEF Meaning
  <2>2. Meaning(m) = s \o e
    BY <1>6, <2>1, Zenon
  <2>3. QED
    BY <1>1, <1>7, <2>2
<1>8. CASE m.kind = "bad_length"
  <2>1. Meaning(m) = <<"StartRecvingHeader", "HeaderReceived", "ParseError">>
    BY <1>8 DEF Meaning
  <2>2. Meaning(m) = s \o he
    BY <1>6, <2>1, Zenon
  <2>3. QED
    BY <1>1, <1>8, <2>2
<1>9. CASE m.kind \in {"plain", "length", "chunked"}
  <2>1. Meaning(m) = all
    BY <1>9 DEF Meaning, HeaderTold
  <2>2. Meaning(m) = s \o hx /\ Meaning(m) = HeaderTold \o x
    BY <1>6, <2>1, Zenon
  <2> HIDE DEF hx, x
  <2>3. QED
    BY <1>1, <1>2, <2>2
<1>10. QED
  BY <1>0, <1>7, <1>8, <1>9

\* What was handed over is the beginning of what the stream means.
LEMMA StoryHands ==
  ASSUME InputInv, Story
  PROVE  HandsWhatWasSent
<1> DEFINE M == Meanings(stream)
<1>1. PICK m \in 0 .. Len(stream) : StoryAt(m)
  BY DEF Story
<1>2. /\ stream \in Seq(Messages) /\ M \in Seq(Seq(Told)) /\ Len(M) = Len(stream)
      /\ Len(stream) \in Nat /\ MeaningOf(stream) = FlattenSeq(M) /\ m \in Nat
  <2>1. stream \in Seq(Messages)
    BY DEF InputInv
  <2>2. /\ M \in Seq(Seq(Told)) /\ Len(M) = Len(stream)
        /\ Len(stream) \in Nat /\ MeaningOf(stream) = FlattenSeq(M)
    BY <2>1, StreamIs
  <2>3. m \in Nat
    BY <1>1, <2>2
  <2>4. QED
    BY <2>1, <2>2, <2>3
<1>3. ASSUME NEW k \in Nat, k <= Len(stream), handed = Before(M, k)
      PROVE  HandsWhatWasSent
  <2>1. /\ Before(M, k) \in Seq(Told) /\ Behind(M, k) \in Seq(Told)
        /\ FlattenSeq(M) = Before(M, k) \o Behind(M, k)
    BY <1>2, <1>3, Parts
  <2>2. IsPrefix(handed, handed \o Behind(M, k))
    BY <1>3, <2>1, BeginsWith
  <2>3. QED
    BY <1>2, <1>3, <2>1, <2>2 DEF HandsWhatWasSent
<1>4. ASSUME m < Len(stream), NEW told \in Seq(Told), NEW b \in Seq(Told),
             Meaning(stream[m + 1]) = told \o b, handed = Before(M, m) \o told
      PROVE  HandsWhatWasSent
  <2>0. m \in Nat /\ m < Len(M) /\ m <= Len(M) /\ m + 1 \in 1 .. Len(stream)
    BY <1>2, <1>4
  <2>1. /\ Before(M, m) \in Seq(Told) /\ M[m + 1] = told \o b
        /\ Before(M, m + 1) = Before(M, m) \o M[m + 1]
    <3>1. Before(M, m) \in Seq(Told)
      BY <1>2, <2>0, Parts
    <3>2. Before(M, m + 1) = Before(M, m) \o M[m + 1]
      BY <1>2, <2>0, NextPart
    <3>3. M[m + 1] = Meaning(stream[m + 1])
      BY <1>2, <2>0, StreamIs
    <3>4. QED
      BY <1>4, <3>1, <3>2, <3>3
  <2>2. /\ Before(M, m + 1) \in Seq(Told) /\ Behind(M, m + 1) \in Seq(Told)
        /\ FlattenSeq(M) = Before(M, m + 1) \o Behind(M, m + 1)
    <3>1. PICK k \in Nat : k = m + 1 /\ k <= Len(M)
      BY <1>2, <2>0
    <3>2. /\ Before(M, k) \in Seq(Told) /\ Behind(M, k) \in Seq(Told)
          /\ FlattenSeq(M) = Before(M, k) \o Behind(M, k)
      BY <1>2, <3>1, Parts
    <3>3. QED
      BY <3>1, <3>2
  <2> DEFINE D == Before(M, m)
             R == Behind(M, m + 1)
  <2>3. D \in Seq(Told) /\ told \in Seq(Told) /\ b \in Seq(Told)
    BY <2>1
  <2>4. (D \o told) \o b = D \o (told \o b)
    <3>1. Associates(D, told, b)
      BY <2>3, Joining
    <3>2. QED
      BY <3>1 DEF Associates
  <2>5. FlattenSeq(M) = (handed \o b) \o R
    BY <1>4, <2>1, <2>2, <2>4
  <2>6. handed \in Seq(Told)
    BY <1>4, <2>3, ConcatProperties
  <2>7. IsPrefix(handed, (handed \o b) \o R)
    BY <2>2, <2>6, BeginsWithin
  <2>8. QED
    BY <1>2, <2>5, <2>7 DEF HandsWhatWasSent
<1>5. CASE Between(m)
  BY <1>1, <1>2, <1>3, <1>5 DEF Between
<1>6. CASE Failed(m)
  <2>1. m + 1 \in Nat /\ m + 1 <= Len(stream) /\ handed = Before(M, m + 1)
    BY <1>2, <1>6 DEF Failed
  <2>2. QED
    BY <1>3, <2>1
<1>7. ASSUME NEW msg, NEW rest, msg = stream[m + 1],
             \/ InHeader(m, msg, rest) \/ InBody(m, msg, rest) \/ InChunks(m, msg, rest)
      PROVE  HandsWhatWasSent
  <2>1. m < Len(stream)
    BY <1>7 DEF InHeader, InBody, InChunks, Begun
  <2>2. msg \in Messages
    BY <1>2, <1>7, <2>1, StreamIs
  <2>3. CASE InHeader(m, msg, rest)
    <3>1. handed = Before(M, m) \o <<"StartRecvingHeader">>
      BY <2>3 DEF InHeader, Begun
    <3>2. /\ <<"StartRecvingHeader">> \in Seq(Told)
          /\ \E b \in Seq(Told) : Meaning(msg) = <<"StartRecvingHeader">> \o b
      BY <2>2, ToldIsPart
    <3>3. QED
      BY <1>4, <1>7, <2>1, <3>1, <3>2
  <2>4. CASE InBody(m, msg, rest) \/ InChunks(m, msg, rest)
    <3>1. handed = Before(M, m) \o HeaderTold /\ msg.kind \in {"length", "chunked"}
      BY <2>4 DEF InBody, InChunks, Begun
    <3>2. HeaderTold \in Seq(Told) /\ \E b \in Seq(Told) : Meaning(msg) = HeaderTold \o b
      BY <2>2, <3>1, ToldIsPart
    <3>3. QED
      BY <1>4, <1>7, <2>1, <3>1, <3>2
  <2>5. QED
    BY <1>7, <2>3, <2>4
<1>8. QED
  BY <1>1, <1>5, <1>6, <1>7 DEF StoryAt

\* In the middle of a message some of its bytes are still to be read.
LEMMA MoreIsDue ==
  ASSUME InputInv, NEW m \in 0 .. Len(stream), StoryAt(m), ~Between(m), ctx.err = FALSE
  PROVE  Place < Len(bytes)
<1> DEFINE msg == stream[m + 1]
           rest == Behind(Encodings(stream), m + 1)
<1>1. \/ InHeader(m, msg, rest) \/ InBody(m, msg, rest) \/ InChunks(m, msg, rest)
  BY DEF StoryAt, Failed
<1>2. Here(m, msg, rest) /\ m \in Nat
  <2>1. m < Len(stream)
    BY <1>1 DEF InHeader, InBody, InChunks, Begun
  <2>2. QED
    BY <2>1 DEF Here
<1>3. /\ stream \in Seq(Messages) /\ bytes \in Seq(Symbols)
      /\ got \in Nat
  BY DEF InputInv, ParserInv, ParserTypeOK
<1>4. PICK m1, r1 : m1 = msg /\ r1 = rest
  OBVIOUS
<1>5. Here(m, m1, r1)
  BY <1>2, <1>4
<1> HIDE DEF msg, rest
<1>6. m1 \in Messages /\ r1 \in Seq(Symbols)
  BY <1>2, <1>3, <1>5, HereIs
<1>7. CASE InHeader(m, m1, r1)
  <2>1. PICK q \in 1 .. 14 : At(q, HeaderOf(m1), TailOf(m1) \o r1)
    BY <1>7 DEF InHeader
  <2>2. /\ HeaderOf(m1) \in Seq(Symbols) /\ Len(HeaderOf(m1)) = 15
        /\ TailOf(m1) \o r1 \in Seq(Symbols)
    BY <1>6, HeaderIs, TailIs, ConcatProperties
  <2>3. q \in Nat /\ q < Len(HeaderOf(m1))
    BY <2>2
  <2>4. QED
    BY <1>3, <2>1, <2>2, <2>3, AtNext
<1>8. CASE InBody(m, m1, r1)
  <2>1. /\ m1.kind = "length" /\ got < Len(m1.chunks[1].data)
        /\ At(got, m1.chunks[1].data, r1)
    BY <1>8 DEF InBody
  <2>2. m1.chunks[1].data \in Seq(Symbols)
    BY <1>6, <2>1, OneChunk
  <2>3. QED
    BY <1>3, <1>6, <2>1, <2>2, AtNext
<1>9. ASSUME InChunks(m, m1, r1) PROVE Place < Len(bytes)
  <2>1. <<"CR", "LF">> \in Seq(Symbols) /\ Len(<<"CR", "LF">>) = 2
    BY SymbolsAre
  <2>2. ASSUME NEW i \in 0 .. Len(m1.chunks), InSize(m1, i, r1) PROVE Place < Len(bytes)
    <3>1. PICK q \in 0 .. 2 : At(q, SizeLine(m1, i), BehindSize(m1, i) \o r1)
      BY <2>2 DEF InSize
    <3>2. /\ SizeLine(m1, i) \in Seq(Symbols) /\ Len(SizeLine(m1, i)) = 3
          /\ BehindSize(m1, i) \o r1 \in Seq(Symbols)
      BY <1>6, ChunksFromIs, ConcatProperties
    <3>3. q \in Nat /\ q < Len(SizeLine(m1, i))
      BY <3>2
    <3>4. QED
      BY <1>3, <3>1, <3>2, <3>3, AtNext
  <2>3. ASSUME NEW i \in 0 .. Len(m1.chunks), i < Len(m1.chunks)
        PROVE  /\ m1.chunks[i + 1].data \in Seq(Symbols)
               /\ ChunksFrom(m1, i + 1) \in Seq(Symbols)
               /\ ChunksFrom(m1, i + 1) \o r1 \in Seq(Symbols)
               /\ (<<"CR", "LF">> \o ChunksFrom(m1, i + 1)) \o r1 \in Seq(Symbols)
    <3>1. Len(m1.chunks) \in Nat
      BY <1>6, MessageIs
    <3>2. i + 1 \in 0 .. Len(m1.chunks) /\ i + 1 \in 1 .. Len(m1.chunks)
      BY <2>3, <3>1
    <3>3. ChunksFrom(m1, i + 1) \in Seq(Symbols)
      BY <1>6, <3>2, ChunksFromIs
    <3>4. m1.chunks[i + 1].data \in Seq(Symbols)
      BY <1>6, <3>2, MessageIs, ChunkIs
    <3>5. QED
      BY <1>6, <2>1, <3>3, <3>4, ConcatProperties
  <2>4. ASSUME NEW i \in 0 .. Len(m1.chunks), InData(m1, i, r1) PROVE Place < Len(bytes)
    <3>1. /\ i < Len(m1.chunks) /\ got < Len(m1.chunks[i + 1].data)
          /\ At(got, m1.chunks[i + 1].data, (<<"CR", "LF">> \o ChunksFrom(m1, i + 1)) \o r1)
      BY <2>4 DEF InData
    <3>2. /\ m1.chunks[i + 1].data \in Seq(Symbols)
          /\ (<<"CR", "LF">> \o ChunksFrom(m1, i + 1)) \o r1 \in Seq(Symbols)
      BY <2>3, <3>1
    <3>3. QED
      BY <1>3, <3>1, <3>2, AtNext
  <2>5. ASSUME NEW i \in 0 .. Len(m1.chunks), BehindData(m1, i, r1) PROVE Place < Len(bytes)
    <3>1. i < Len(m1.chunks)
      BY <2>5 DEF BehindData
    <3>2. PICK q \in 0 .. 1 : At(q, <<"CR", "LF">>, ChunksFrom(m1, i + 1) \o r1)
      BY <2>5 DEF BehindData
    <3>3. q \in Nat /\ q < Len(<<"CR", "LF">>)
      BY <2>1
    <3>4. ChunksFrom(m1, i + 1) \o r1 \in Seq(Symbols)
      BY <2>3, <3>1
    <3>5. QED
      BY <1>3, <2>1, <3>2, <3>3, <3>4, AtNext
  <2>6. ASSUME InFinish(m1, r1) PROVE Place < Len(bytes)
    <3>1. PICK q \in 0 .. 1 : At(q, <<"CR", "LF">>, r1)
      BY <2>6 DEF InFinish
    <3>2. q \in Nat /\ q < Len(<<"CR", "LF">>)
      BY <2>1
    <3>3. QED
      BY <1>3, <1>6, <2>1, <3>1, <3>2, AtNext
  <2>7. QED
    BY <1>9, <2>2, <2>4, <2>5, <2>6 DEF InChunks
<1>10. QED
  BY <1>1, <1>4, <1>7, <1>8, <1>9

\* Nothing is left in the buffer of a connection that waits.
LEMMA StoryLeaves ==
  ASSUME InputInv, Story
  PROVE  NothingLeftBehind
<1> SUFFICES ASSUME pc = "idle", ~complete
             PROVE  /\ Content(raws, input) = <<>>
                    /\ received = Len(bytes) => handed = MeaningOf(stream)
  BY DEF NothingLeftBehind
<1>1. input = <<>>
  BY DEF InputInv
<1>2. Content(raws, input) = <<>>
  BY <1>1, ContentOfNone
<1>3. ASSUME received = Len(bytes) PROVE handed = MeaningOf(stream)
  <2>1. bytes \in Seq(Symbols) /\ Len(bytes) \in Nat /\ stream \in Seq(Messages)
    BY LenProperties DEF InputInv
  <2>2. Place = Len(bytes)
    <3>1. ToEnd[input] = 0
      BY <1>1, ToEndIs DEF InputInv, ChainsInv, End
    <3>2. Place = received - 0
      BY <3>1 DEF Place
    <3>3. QED
      BY <1>3, <2>1, <3>2
  <2>3. ctx.err = FALSE
    <3>1. ~ctx.err
      BY DEF InputInv
    <3>2. ctx.err \in BOOLEAN
      BY DEF InputInv, ParserInv, ParserTypeOK
    <3>3. QED
      BY <3>1, <3>2
  <2>4. PICK m \in 0 .. Len(stream) : StoryAt(m)
    BY DEF Story
  <2>5. Between(m)
    <3>1. ASSUME ~Between(m) PROVE FALSE
      <4>1. Place < Len(bytes)
        BY <2>3, <2>4, <3>1, MoreIsDue
      <4>2. QED
        BY <2>1, <2>2, <4>1
    <3>2. QED
      BY <3>1
  <2>6. m = Len(stream)
    <3>1. SUFFICES ASSUME m # Len(stream) PROVE FALSE
      OBVIOUS
    <3>2. m \in Nat /\ m < Len(stream)
      BY <2>4, <3>1, <2>1, LenProperties
    <3>3. PICK msg, rest : msg = stream[m + 1] /\ rest = Behind(Encodings(stream), m + 1)
      OBVIOUS
    <3>4. Here(m, msg, rest)
      BY <3>2, <3>3 DEF Here
    <3>5. /\ msg \in Messages /\ rest \in Seq(Symbols)
          /\ Behind(Encodings(stream), m) = HeaderOf(msg) \o (TailOf(msg) \o rest)
      BY <2>1, <3>2, <3>4, HereIs, SMTT(30)
    <3>6. /\ HeaderOf(msg) \in Seq(Symbols) /\ Len(HeaderOf(msg)) = 15
          /\ TailOf(msg) \o rest \in Seq(Symbols)
      BY <3>5, HeaderIs, TailIs, ConcatProperties
    <3>7. At(0, HeaderOf(msg), TailOf(msg) \o rest)
      <4>1. At(0, <<>>, Behind(Encodings(stream), m))
        BY <2>5 DEF Between
      <4>2. QED
        BY <3>5, <3>6, <4>1, AtOpens
    <3>8. 0 < Len(HeaderOf(msg))
      BY <3>6
    <3>9. Place < Len(bytes)
      BY <2>1, <3>6, <3>7, <3>8, AtNext
    <3>10. QED
      BY <2>1, <2>2, <3>9
  <2>7. handed = Before(Meanings(stream), Len(stream))
    BY <2>5, <2>6 DEF Between
  <2>8. QED
    BY <2>1, <2>7, StreamIs, PartsEnds
<1>4. QED
  BY <1>2, <1>3

\* The body of a request that waits for its answer is the one of its message.
LEMMA StoryKeepsBody ==
  ASSUME InputInv, Story
  PROVE  BodyStays
<1> SUFFICES ASSUME complete
             PROVE  \E i \in DOMAIN stream :
                      /\ handed = MeaningOf(SubSeq(stream, 1, i))
                      /\ SymbolsOf(body) = BodyOf(stream[i])
  BY DEF BodyStays
<1>1. PICK m \in 0 .. Len(stream) : StoryAt(m)
  BY DEF Story
<1>2. Between(m)
  BY <1>1, CompleteIsBetween DEF InputInv
<1>3. m # 0 /\ SymbolsOf(body) = BodyOf(stream[m]) /\ handed = Before(Meanings(stream), m)
  BY <1>2 DEF Between
<1>4. stream \in Seq(Messages) /\ Len(stream) \in Nat /\ DOMAIN stream = 1 .. Len(stream)
  BY LenProperties DEF InputInv
<1>5. m \in Nat /\ m <= Len(stream) /\ m \in DOMAIN stream
  BY <1>1, <1>3, <1>4
<1>6. MeaningOf(SubSeq(stream, 1, m)) = Before(Meanings(stream), m)
  BY <1>4, <1>5, MeaningBefore
<1>7. QED
  BY <1>3, <1>5, <1>6

\* The iterator of parse is in the buffer, or at its end.
LEMMA InvReads ==
  ASSUME InputInv
  PROVE  ReadsWhatIsThere
<1> SUFFICES ASSUME pc = "parse", cur # End
             PROVE  Inside(cur)
  BY DEF ReadsWhatIsThere
<1>1. cur \in Chains /\ cur # <<>> /\ Unread(cur)
  BY DEF InputInv, ChainsInv, Rest, End
<1>2. readable_size(Head(cur)) \in Nat \ {0}
  BY <1>1, UnreadParts
<1>3. QED
  BY <1>1, <1>2 DEF Inside, End

\* What is proved of every step: see the theorems below.
LEMMA InputSays ==
  ASSUME InputIInv
  PROVE  /\ HandsWhatWasSent /\ NothingLeftBehind /\ BodyStays
         /\ ReadsWhatIsThere /\ PiecesFit
<1>1. InputInv /\ Story
  BY DEF InputIInv
<1>2. PiecesFit
  BY <1>1 DEF InputInv, ParserInv
<1>3. QED
  BY <1>1, <1>2, StoryHands, StoryLeaves, StoryKeepsBody, InvReads

\* The inductive invariant: the input buffer holds the last of the bytes that
\* were received, and the parser is where these bytes have brought it.
THEOREM InputCorrect ==
  ~ExactFills => (Spec => []InputIInv)
<1> SUFFICES ASSUME ~ExactFills PROVE Spec => []InputIInv
  OBVIOUS
<1>1. Init => InputIInv
  BY InputInit
<1>2. InputIInv /\ [Next]_vars => InputIInv'
  BY InputStep
<1>3. QED
  BY <1>1, <1>2, PTL DEF Spec

\* HandsWhatWasSent: however many messages a client sends, wherever recv cuts
\* the bytes and whenever they come, the handlers get the events and bodies of
\* these messages, in their order and once.
THEOREM HandedInOrder == ~ExactFills => (Spec => []HandsWhatWasSent)
<1> SUFFICES ASSUME ~ExactFills PROVE Spec => []HandsWhatWasSent
  OBVIOUS
<1>1. Spec => []InputIInv
  BY InputCorrect
<1>2. InputIInv => HandsWhatWasSent
  BY InputSays
<1>3. QED
  BY <1>1, <1>2, PTL

\* NothingLeftBehind: when the thread goes back to wait with no request to
\* answer, the buffer is empty, and when all that the client sends was received
\* every message was handed over.
THEOREM NothingIsLeft == ~ExactFills => (Spec => []NothingLeftBehind)
<1> SUFFICES ASSUME ~ExactFills PROVE Spec => []NothingLeftBehind
  OBVIOUS
<1>1. Spec => []InputIInv
  BY InputCorrect
<1>2. InputIInv => NothingLeftBehind
  BY InputSays
<1>3. QED
  BY <1>1, <1>2, PTL

\* BodyStays: the body that a waiting request has is the one of the message it
\* came with, whatever is written to the memory that it shares with the buffer.
THEOREM BodiesAreKept == ~ExactFills => (Spec => []BodyStays)
<1> SUFFICES ASSUME ~ExactFills PROVE Spec => []BodyStays
  OBVIOUS
<1>1. Spec => []InputIInv
  BY InputCorrect
<1>2. InputIInv => BodyStays
  BY InputSays
<1>3. QED
  BY <1>1, <1>2, PTL

\* ReadsWhatIsThere: the iterator of parse points to a byte of the buffer or is
\* at its end, unless recv has left an empty slice there.
THEOREM IteratorStaysInside == ~ExactFills => (Spec => []ReadsWhatIsThere)
<1> SUFFICES ASSUME ~ExactFills PROVE Spec => []ReadsWhatIsThere
  OBVIOUS
<1>1. Spec => []InputIInv
  BY InputCorrect
<1>2. InputIInv => ReadsWhatIsThere
  BY InputSays
<1>3. QED
  BY <1>1, <1>2, PTL

\* PiecesFit, of the parser as parse drives it: n_left is what the buffer holds.
THEOREM PiecesFitTheBuffer == ~ExactFills => (Spec => []PiecesFit)
<1> SUFFICES ASSUME ~ExactFills PROVE Spec => []PiecesFit
  OBVIOUS
<1>1. Spec => []InputIInv
  BY InputCorrect
<1>2. InputIInv => PiecesFit
  BY InputSays
<1>3. QED
  BY <1>1, <1>2, PTL

=========================================================================
