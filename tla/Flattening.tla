----------------------------- MODULE Flattening -----------------------------
(***************************************************************************)
(* Facts about FlattenSeq, by which the specifications say what a filter   *)
(* leaves of a sequence, and the two principles of induction behind them.  *)
(* A principle speaks of a set where the library's speak of a predicate,   *)
(* so that it can be used without an operator as a parameter: what is to   *)
(* be shown of n is that n is in {k \in Nat : ...}.                        *)
(***************************************************************************)
EXTENDS SequencesExt, SequenceTheorems, WellFoundedInduction, TLAPS

LEMMA LessWellFounded ==
  \E R : IsWellFoundedOn(R, Nat) /\ \A x, y \in Nat : x < y => <<x, y>> \in R
<1> DEFINE R == OpToRel(<, Nat)
<1>1. IsWellFoundedOn(R, Nat)
  BY NatLessThanWellFounded
<1>2. \A x, y \in Nat : x < y => <<x, y>> \in R
  BY DEF OpToRel
<1> HIDE DEF R
<1> QED BY <1>1, <1>2

(* A set of numbers that is not empty has a least one.                     *)
LEMMA LeastNumber ==
  ASSUME NEW U, U \subseteq Nat, U # {}
  PROVE  \E x \in U : \A y \in U : x <= y
<1>1. PICK R : IsWellFoundedOn(R, Nat) /\ \A x, y \in Nat : x < y => <<x, y>> \in R
  BY LessWellFounded
<1>2. PICK x \in U : \A y \in U : ~(<<y, x>> \in R)
  <2>1. IsWellFoundedOn(R, Nat)
    BY <1>1
  <2> QED BY <2>1, WFMin, Zenon
<1>3. ASSUME NEW y \in U PROVE x <= y
  <2>1. x \in Nat /\ y \in Nat /\ ~(y < x)
    BY <1>1, <1>2
  <2> QED BY <2>1
<1> QED BY <1>3

LEMMA NumberInduction ==
  ASSUME NEW T, 0 \in T, \A n \in Nat : n \in T => n + 1 \in T
  PROVE  Nat \subseteq T
<1> DEFINE U == Nat \ T
<1>1. SUFFICES ASSUME U # {} PROVE FALSE
  OBVIOUS
<1>2. PICK x \in U : \A y \in U : x <= y
  <2>1. U \subseteq Nat
    OBVIOUS
  <2> HIDE DEF U
  <2> QED BY <1>1, <2>1, LeastNumber
<1>3. x # 0 /\ x - 1 \in Nat /\ x - 1 < x
  BY <1>2
<1>4. x - 1 \notin U
  BY <1>2, <1>3
<1> QED BY <1>2, <1>3, <1>4

(* A sequence grows element by element.                                    *)
LEMMA SequenceInduction ==
  ASSUME NEW S, NEW T, <<>> \in T, \A q \in Seq(S), x \in S : q \in T => Append(q, x) \in T
  PROVE  Seq(S) \subseteq T
<1> DEFINE U == {n \in Nat : \A q \in Seq(S) : Len(q) = n => q \in T}
<1>1. 0 \in U
  BY EmptySeq
<1>2. ASSUME NEW n \in Nat, n \in U PROVE n + 1 \in U
  <2> SUFFICES ASSUME NEW q \in Seq(S), Len(q) = n + 1 PROVE q \in T
    OBVIOUS
  <2> DEFINE p == SubSeq(q, 1, n)
  <2>1. p \in Seq(S) /\ Len(p) = n /\ q[n + 1] \in S
    OBVIOUS
  <2>2. q = Append(p, q[n + 1])
    OBVIOUS
  <2>3. p \in T
    BY <1>2, <2>1
  <2> HIDE DEF p
  <2> QED BY <2>1, <2>2, <2>3
<1>3. Nat \subseteq U
  <2> HIDE DEF U
  <2> QED BY <1>1, <1>2, NumberInduction
<1> QED BY <1>3

(* Sequences put one after the other, in groups.                           *)
LEMMA Regroup ==
  ASSUME NEW S
  PROVE  /\ \A a, b \in Seq(S) : a \o b \in Seq(S)
         /\ \A a \in Seq(S) : a \o <<>> = a /\ <<>> \o a = a
         /\ \A a, b, c \in Seq(S) : (a \o b) \o c = a \o (b \o c)
<1>1. \A a, b, c \in Seq(S) : (a \o b) \o c = a \o (b \o c)
  BY ConcatAssociative
<1>2. \A a, b \in Seq(S) : a \o b \in Seq(S)
  OBVIOUS
<1>3. \A a \in Seq(S) : a \o <<>> = a /\ <<>> \o a = a
  OBVIOUS
<1> QED BY <1>1, <1>2, <1>3, Zenon

LEMMA RegroupLast ==
  ASSUME NEW S, NEW x \in S
  PROVE  /\ \A a, b, c \in Seq(S) : (a \o b) \o (c \o <<x>>) = Append((a \o b) \o c, x)
         /\ \A a, b \in Seq(S) : (a \o (b \o <<x>>)) \o <<>> = Append((a \o b) \o <<>>, x)
  OBVIOUS

-----------------------------------------------------------------------------
(* The function FlattenSeq is defined by.                                  *)
Flattens(f, q, n) == f = [i \in 1 .. n |-> IF i = 1 THEN q[i] ELSE f[i - 1] \o q[i]]

LEMMA FlatteningExists == ASSUME NEW q, NEW n \in Nat PROVE \E f : Flattens(f, q, n)
<1> DEFINE T == {k \in Nat : \E f : Flattens(f, q, k)}
<1>1. 0 \in T
  <2>1. Flattens([i \in 1 .. 0 |-> q[i]], q, 0)
    BY DEF Flattens
  <2> QED BY <2>1
<1>2. ASSUME NEW k \in Nat, k \in T PROVE k + 1 \in T
  <2>1. PICK f : Flattens(f, q, k)
    BY <1>2
  <2> DEFINE v == f[k] \o q[k + 1]
             w(i) == IF i = k + 1 THEN v ELSE f[i]
             g == [i \in 1 .. k + 1 |-> IF i = 1 THEN q[1] ELSE w(i)]
  <2>2. ASSUME NEW i \in 1 .. k + 1
        PROVE  g[i] = IF i = 1 THEN q[i] ELSE g[i - 1] \o q[i]
    <3>0. v = f[k] \o q[k + 1]
      OBVIOUS
    <3>1. CASE i = 1
      BY <3>1
    <3>2. CASE i # 1 /\ i = k + 1
      <4>1. k \in 1 .. k /\ k \in 1 .. k + 1 /\ k # k + 1 /\ k + 1 # 1 /\ i - 1 = k
        BY <3>2
      <4>2. g[k] = f[k]
        BY <2>1, <4>1 DEF Flattens
      <4>3. g[i] = v
        <5> HIDE DEF v
        <5> QED BY <3>2
      <4> HIDE DEF g, v
      <4> QED BY <3>0, <3>2, <4>1, <4>2, <4>3
    <3>3. CASE i # 1 /\ i # k + 1
      <4>1. i \in 1 .. k /\ i - 1 \in 1 .. k /\ i - 1 # k + 1
        BY <3>3
      <4> HIDE DEF v
      <4>2. g[i] = f[i - 1] \o q[i]
        BY <2>1, <3>3, <4>1 DEF Flattens
      <4>3. g[i - 1] = f[i - 1]
        BY <2>1, <4>1 DEF Flattens
      <4> HIDE DEF g
      <4> QED BY <3>3, <4>2, <4>3
    <3> QED BY <3>1, <3>2, <3>3
  <2>3. g = [i \in 1 .. k + 1 |-> g[i]]
    OBVIOUS
  <2>4. Flattens(g, q, k + 1)
    <3> HIDE DEF g
    <3> QED BY <2>2, <2>3 DEF Flattens
  <2> QED BY <2>4
<1>3. Nat \subseteq T
  <2> HIDE DEF T
  <2> QED BY <1>1, <1>2, NumberInduction
<1> QED BY <1>3

(* What it is up to i depends on the elements up to i.                     *)
SameUpTo(f, g, k) == \A i \in 1 .. k : f[i] = g[i]

LEMMA FlatteningUnique ==
  ASSUME NEW p, NEW q, NEW f, NEW g, NEW m \in Nat, NEW k \in Nat, k <= m,
         SameUpTo(p, q, k), Flattens(f, p, m), Flattens(g, q, k)
  PROVE  SameUpTo(f, g, k)
<1>0. \A i \in 1 .. k : p[i] = q[i]
  BY DEF SameUpTo
<1> DEFINE T == {j \in Nat : j \in 1 .. k => f[j] = g[j]}
<1>1. 0 \in T
  OBVIOUS
<1>2. ASSUME NEW j \in Nat, j \in T PROVE j + 1 \in T
  <2> SUFFICES ASSUME j + 1 \in 1 .. k PROVE f[j + 1] = g[j + 1]
    OBVIOUS
  <2>1. j + 1 \in 1 .. m /\ (j + 1) - 1 = j /\ p[j + 1] = q[j + 1]
    BY <1>0
  <2>2. f[j + 1] = (IF j + 1 = 1 THEN p[j + 1] ELSE f[j] \o p[j + 1])
    BY <2>1 DEF Flattens
  <2>3. g[j + 1] = (IF j + 1 = 1 THEN q[j + 1] ELSE g[j] \o q[j + 1])
    BY <2>1 DEF Flattens
  <2>4. j + 1 # 1 => j \in 1 .. k
    OBVIOUS
  <2> QED BY <1>2, <2>1, <2>2, <2>3, <2>4
<1>3. Nat \subseteq T
  <2> HIDE DEF T
  <2> QED BY <1>1, <1>2, NumberInduction
<1> QED BY <1>3 DEF SameUpTo

LEMMA FlattenEmpty == FlattenSeq(<<>>) = <<>>
  BY DEF FlattenSeq

LEMMA FlattenLast ==
  ASSUME NEW q, Len(q) \in Nat \ {0}
  PROVE  \E f : Flattens(f, q, Len(q)) /\ FlattenSeq(q) = f[Len(q)]
<1> DEFINE f == CHOOSE f : Flattens(f, q, Len(q))
<1>1. Flattens(f, q, Len(q))
  BY FlatteningExists
<1>2. FlattenSeq(q) = f[Len(q)]
  BY DEF FlattenSeq, Flattens
<1> QED BY <1>1, <1>2

(* The last part comes last.                                               *)
LEMMA FlattenAppend ==
  ASSUME NEW S, NEW q \in Seq(Seq(S)), NEW x \in Seq(S)
  PROVE  FlattenSeq(Append(q, x)) = FlattenSeq(q) \o x
<1> DEFINE r == Append(q, x)
<1>1. /\ Len(q) \in Nat /\ Len(r) = Len(q) + 1 /\ r[Len(r)] = x
      /\ \A i \in 1 .. Len(q) : r[i] = q[i]
  OBVIOUS
<1> HIDE DEF r
<1>2. PICK f : Flattens(f, r, Len(r)) /\ FlattenSeq(r) = f[Len(r)]
  BY <1>1, FlattenLast
<1>3. CASE Len(q) = 0
  <2>1. q = <<>>
    BY <1>3, EmptySeq
  <2>2. f[Len(r)] = x
    BY <1>1, <1>2, <1>3 DEF Flattens
  <2> QED BY <1>2, <2>1, <2>2, FlattenEmpty DEF r
<1>4. CASE Len(q) # 0
  <2>1. PICK g : Flattens(g, q, Len(q)) /\ FlattenSeq(q) = g[Len(q)]
    BY <1>1, <1>4, FlattenLast
  <2>2. f[Len(q)] = g[Len(q)]
    <3>1. SameUpTo(f, g, Len(q))
      <4>1. Len(r) \in Nat /\ Len(q) \in Nat /\ Len(q) <= Len(r)
        BY <1>1
      <4>2. SameUpTo(r, q, Len(q))
        BY <1>1 DEF SameUpTo
      <4> QED BY <1>2, <2>1, <4>1, <4>2, FlatteningUnique, Zenon
    <3> QED BY <1>1, <1>4, <3>1 DEF SameUpTo
  <2>3. f[Len(r)] = f[Len(q)] \o x
    <3>1. Len(r) \in 1 .. Len(r) /\ Len(r) # 1 /\ Len(r) - 1 = Len(q)
      BY <1>1, <1>4
    <3> QED BY <1>1, <1>2, <3>1 DEF Flattens
  <2> QED BY <1>2, <2>1, <2>2, <2>3 DEF r
<1> QED BY <1>3, <1>4

LEMMA FlattenType == ASSUME NEW S, NEW q \in Seq(Seq(S)) PROVE FlattenSeq(q) \in Seq(S)
<1> DEFINE T == {r \in Seq(Seq(S)) : FlattenSeq(r) \in Seq(S)}
<1>1. <<>> \in T
  <2>1. <<>> \in Seq(Seq(S)) /\ <<>> \in Seq(S)
    OBVIOUS
  <2> QED BY <2>1, FlattenEmpty, Zenon
<1>2. ASSUME NEW r \in Seq(Seq(S)), NEW x \in Seq(S), r \in T PROVE Append(r, x) \in T
  <2>1. FlattenSeq(Append(r, x)) = FlattenSeq(r) \o x
    BY FlattenAppend
  <2>2. FlattenSeq(r) \in Seq(S) /\ Append(r, x) \in Seq(Seq(S))
    BY <1>2
  <2>3. FlattenSeq(r) \o x \in Seq(S)
    BY <2>2
  <2> QED BY <2>1, <2>2, <2>3, Zenon
<1>3. Seq(Seq(S)) \subseteq T
  <2> HIDE DEF T
  <2> QED BY <1>1, <1>2, SequenceInduction
<1> QED BY <1>3

LEMMA FlattenConcat ==
  ASSUME NEW S, NEW p \in Seq(Seq(S)), NEW q \in Seq(Seq(S))
  PROVE  FlattenSeq(p \o q) = FlattenSeq(p) \o FlattenSeq(q)
<1> DEFINE T == {r \in Seq(Seq(S)) : FlattenSeq(p \o r) = FlattenSeq(p) \o FlattenSeq(r)}
<1>0. FlattenSeq(p) \in Seq(S)
  BY FlattenType
<1>1. <<>> \in T
  BY <1>0, FlattenEmpty
<1>2. ASSUME NEW r \in Seq(Seq(S)), NEW x \in Seq(S), r \in T PROVE Append(r, x) \in T
  <2>1. p \o r \in Seq(Seq(S)) /\ p \o Append(r, x) = Append(p \o r, x)
    OBVIOUS
  <2>2. FlattenSeq(Append(p \o r, x)) = FlattenSeq(p \o r) \o x
    BY <2>1, FlattenAppend
  <2>3. FlattenSeq(Append(r, x)) = FlattenSeq(r) \o x
    BY FlattenAppend
  <2>4. FlattenSeq(r) \in Seq(S) /\ FlattenSeq(p \o r) = FlattenSeq(p) \o FlattenSeq(r)
    BY <1>2, FlattenType
  <2>5. (FlattenSeq(p) \o FlattenSeq(r)) \o x = FlattenSeq(p) \o (FlattenSeq(r) \o x)
    <3>1. \A a, b, c \in Seq(S) : (a \o b) \o c = a \o (b \o c)
      BY ConcatAssociative
    <3> QED BY <1>0, <2>4, <3>1
  <2>6. FlattenSeq(p \o Append(r, x)) = FlattenSeq(p) \o FlattenSeq(Append(r, x))
    BY <2>1, <2>2, <2>3, <2>4, <2>5, Zenon
  <2>7. Append(r, x) \in Seq(Seq(S))
    OBVIOUS
  <2> QED BY <2>6, <2>7, Zenon
<1>3. Seq(Seq(S)) \subseteq T
  <2> HIDE DEF T
  <2> QED BY <1>1, <1>2, SequenceInduction
<1> QED BY <1>3

(* A first part comes first.                                               *)
LEMMA FlattenHead ==
  ASSUME NEW S, NEW q \in Seq(Seq(S)), q # <<>>
  PROVE  FlattenSeq(q) = Head(q) \o FlattenSeq(Tail(q))
<1>1. Head(q) \in Seq(S) /\ Tail(q) \in Seq(Seq(S)) /\ q = <<Head(q)>> \o Tail(q)
  OBVIOUS
<1>2. FlattenSeq(<<Head(q)>>) = Head(q)
  <2>1. <<>> \in Seq(Seq(S)) /\ <<Head(q)>> = Append(<<>>, Head(q))
    BY <1>1
  <2>2. FlattenSeq(Append(<<>>, Head(q))) = FlattenSeq(<<>>) \o Head(q)
    BY <1>1, <2>1, FlattenAppend
  <2>3. <<>> \o Head(q) = Head(q)
    BY <1>1
  <2> QED BY <2>1, <2>2, <2>3, FlattenEmpty, Zenon
<1>3. <<Head(q)>> \in Seq(Seq(S))
  BY <1>1
<1>4. FlattenSeq(<<Head(q)>> \o Tail(q)) = FlattenSeq(<<Head(q)>>) \o FlattenSeq(Tail(q))
  BY <1>1, <1>3, FlattenConcat
<1> QED BY <1>1, <1>2, <1>4

(* Empty parts leave nothing.                                              *)
LEMMA FlattenNothing ==
  ASSUME NEW S, NEW q \in Seq(Seq(S)), \A i \in 1 .. Len(q) : q[i] = <<>>
  PROVE  FlattenSeq(q) = <<>>
<1> DEFINE T == {r \in Seq(Seq(S)) : (\A i \in 1 .. Len(r) : r[i] = <<>>) => FlattenSeq(r) = <<>>}
<1>1. <<>> \in T
  <2>1. <<>> \in Seq(Seq(S))
    OBVIOUS
  <2> QED BY <2>1, FlattenEmpty, Zenon
<1>2. ASSUME NEW r \in Seq(Seq(S)), NEW x \in Seq(S), r \in T PROVE Append(r, x) \in T
  <2>1. Append(r, x) \in Seq(Seq(S))
    OBVIOUS
  <2>2. ASSUME \A i \in 1 .. Len(Append(r, x)) : Append(r, x)[i] = <<>>
        PROVE  FlattenSeq(Append(r, x)) = <<>>
    <3>1. x = <<>> /\ \A i \in 1 .. Len(r) : r[i] = <<>>
      <4>1. Append(r, x)[Len(r) + 1] = x /\ \A i \in 1 .. Len(r) : Append(r, x)[i] = r[i]
        OBVIOUS
      <4>2. Len(Append(r, x)) = Len(r) + 1 /\ Len(r) \in Nat
        OBVIOUS
      <4> QED BY <2>2, <4>1, <4>2
    <3>2. FlattenSeq(r) = <<>>
      BY <1>2, <3>1
    <3>3. FlattenSeq(Append(r, x)) = FlattenSeq(r) \o x
      BY FlattenAppend
    <3>4. <<>> \o <<>> = <<>>
      OBVIOUS
    <3> QED BY <3>1, <3>2, <3>3, <3>4, Zenon
  <2> QED BY <2>1, <2>2, Zenon
<1>3. Seq(Seq(S)) \subseteq T
  <2> HIDE DEF T
  <2> QED BY <1>1, <1>2, SequenceInduction
<1> QED BY <1>3

=============================================================================
