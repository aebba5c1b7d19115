------------------------------- MODULE ListProofs -------------------------------
(***************************************************************************)
(* What the other proofs need to know of numbers and of sequences.         *)
(*                                                                         *)
(* Induction is used in the form of a least counterexample (Least): the    *)
(* theorems of induction of the library take an operator and are of no use *)
(* to the provers here, but every set of natural numbers that is not empty *)
(* has a least element, and with it a function that is defined by          *)
(* recursion exists (KeptExists) and does what it is meant to do for       *)
(* lists of any length (DroppingProperties).                               *)
(***************************************************************************)
EXTENDS Lists, TLAPS, SequenceTheorems, WellFoundedInduction

\* Induction, as the least element of a set of natural numbers.
LEMMA Least ==
  ASSUME NEW T \in SUBSET Nat, T # {}
  PROVE  \E x \in T : \A y \in T : x <= y
<1> DEFINE R == {ss \in Nat \X Nat : ss[1] < ss[2]}
<1>1. IsWellFoundedOn(R, Nat)
  BY NatLessThanWellFounded DEF OpToRel
<1>2. \E x \in T : \A y \in T : <<y, x>> \notin R
  <2> HIDE DEF R
  <2>. QED BY <1>1, WFMin
<1>3. ASSUME NEW x \in T, NEW y \in T, <<y, x>> \notin R
      PROVE  x <= y
  <2>1. <<y, x>> \in Nat \X Nat
    OBVIOUS
  <2>2. ~(y < x)
    BY <1>3, <2>1
  <2>. QED BY <2>2
<1>. QED BY <1>2, <1>3

\* The places of a sequence.
LEMMA Places ==
  ASSUME NEW S, NEW q \in Seq(S)
  PROVE  Len(q) \in Nat /\ DOMAIN q = 1 .. Len(q) /\ \A i \in 1 .. Len(q) : q[i] \in S
OBVIOUS

\* What is put at the end of a sequence comes after all that it has.
LEMMA Queued ==
  ASSUME NEW S, NEW q \in Seq(S), NEW x \in S
  PROVE  /\ Append(q, x) \in Seq(S) /\ Len(q) \in Nat
         /\ Len(Append(q, x)) = Len(q) + 1
         /\ \A i \in 1 .. Len(q) : Append(q, x)[i] = q[i]
         /\ Append(q, x)[Len(q) + 1] = x
OBVIOUS

\* What is taken from the head of a sequence leaves the others in their order.
LEMMA Shorter ==
  ASSUME NEW S, NEW q \in Seq(S), q # <<>>
  PROVE  /\ Tail(q) \in Seq(S) /\ Len(q) \in Nat \ {0}
         /\ Len(Tail(q)) = Len(q) - 1
         /\ Head(q) = q[1] /\ q[1] \in S
         /\ \A i \in 1 .. Len(q) - 1 : Tail(q)[i] = q[i + 1]
OBVIOUS

\* What Dropping computes up to the element n.
KeptUpTo(f, list, S, n) ==
  f = [i \in 0 .. n |->
         IF i = 0 THEN <<>>
         ELSE IF list[i] \in S THEN f[i - 1]
         ELSE Append(f[i - 1], list[i])]

\* The recursion of Dropping has a solution.
LEMMA KeptExists ==
  ASSUME NEW list, NEW S, NEW n \in Nat
  PROVE  \E f : KeptUpTo(f, list, S, n)
<1> DEFINE Step(v, i) == IF list[i] \in S THEN v ELSE Append(v, list[i])
           Loop(f, k) == f = [i \in 0 .. k |-> IF i = 0 THEN <<>> ELSE Step(f[i - 1], i)]
           T == {k \in Nat : ~\E f : Loop(f, k)}
<1>1. T \subseteq Nat /\ \A k \in Nat : k \in T <=> ~\E f : Loop(f, k)
  OBVIOUS
<1> HIDE DEF T
<1>2. T = {}
  <2>1. SUFFICES ASSUME T # {} PROVE FALSE
    OBVIOUS
  <2>2. PICK k \in T : \A y \in T : k <= y
    BY <1>1, <2>1, Least
  <2>3. CASE k = 0
    <3>1. Loop([i \in 0 .. 0 |-> <<>>], 0)
      BY DEF Loop
    <3>. QED BY <1>1, <2>2, <2>3, <3>1
  <2>4. CASE k > 0
    <3> HIDE DEF Loop
    <3>1. k \in Nat /\ k - 1 \in Nat
      BY <1>1, <2>2, <2>4
    <3>2. k - 1 \notin T
      BY <2>2, <3>1
    <3>3. PICK f : Loop(f, k - 1)
      BY <1>1, <3>1, <3>2
    <3> DEFINE g == [i \in 0 .. k |-> IF i < k THEN f[i] ELSE Step(f[k - 1], k)]
    <3> USE DEF Loop
    <3> HIDE DEF Step
    <3>4. \A i \in 1 .. k : g[i - 1] = f[i - 1]
      BY <3>1
    <3>5. \A i \in 0 .. k - 1 : f[i] = IF i = 0 THEN <<>> ELSE Step(f[i - 1], i)
      BY <3>3
    <3>6. ASSUME NEW i \in 0 .. k
          PROVE  g[i] = IF i = 0 THEN <<>> ELSE Step(g[i - 1], i)
      <4>1. CASE i < k
        <5>1. i \in 0 .. k - 1
          BY <3>1, <4>1
        <5>2. g[i] = f[i]
          BY <4>1
        <5>. QED BY <3>4, <3>5, <5>1, <5>2
      <4>2. CASE i = k
        BY <2>4, <3>1, <3>4, <4>2
      <4>. QED BY <3>1, <4>1, <4>2
    <3>7. g = [i \in 0 .. k |-> IF i = 0 THEN <<>> ELSE Step(g[i - 1], i)]
      BY <3>6
    <3>8. Loop(g, k)
      BY <3>7
    <3>. QED BY <1>1, <3>1, <3>8
  <2>. QED BY <1>1, <2>2, <2>3, <2>4
<1>3. \E f : Loop(f, n)
  BY <1>1, <1>2
<1>. QED BY <1>3 DEF KeptUpTo

\* i is the place in the list of the element that is at k[i] of what is kept.
PlacesOf(f, k, list, n) ==
  /\ f \in [1 .. Len(k) -> 1 .. n]
  /\ \A i, j \in 1 .. Len(k) : i < j => f[i] < f[j]
  /\ \A i \in 1 .. Len(k) : k[i] = list[f[i]]

\* Dropping leaves the others, in their order, and each as often as before.
LEMMA DroppingProperties ==
  ASSUME NEW T, NEW list \in Seq(T), NEW S
  PROVE  /\ Dropping(list, S) \in Seq(T)
         /\ Len(Dropping(list, S)) \in 0 .. Len(list)
         /\ \A i \in 1 .. Len(Dropping(list, S)) : Dropping(list, S)[i] \notin S
         /\ \A i \in 1 .. Len(list) : list[i] \notin S =>
              \E j \in 1 .. Len(Dropping(list, S)) : Dropping(list, S)[j] = list[i]
         /\ \E f : PlacesOf(f, Dropping(list, S), list, Len(list))
<1> DEFINE N == Len(list)
           Step(v, i) == IF list[i] \in S THEN v ELSE Append(v, list[i])
           kept == CHOOSE f : f = [i \in 0 .. N |-> IF i = 0 THEN <<>>
                                   ELSE IF list[i] \in S THEN f[i - 1]
                                   ELSE Append(f[i - 1], list[i])]
           Good(n) == /\ kept[n] \in Seq(T) /\ Len(kept[n]) <= n
                      /\ \A i \in 1 .. Len(kept[n]) : kept[n][i] \notin S
                      /\ \A i \in 1 .. n : list[i] \notin S =>
                           \E j \in 1 .. Len(kept[n]) : kept[n][j] = list[i]
                      /\ \E f : PlacesOf(f, kept[n], list, n)
           Bad == {n \in 0 .. N : ~Good(n)}
<1>1. N \in Nat /\ \A i \in 1 .. N : list[i] \in T
  OBVIOUS
<1>2. kept = [i \in 0 .. N |-> IF i = 0 THEN <<>> ELSE Step(kept[i - 1], i)]
  <2>1. \E f : KeptUpTo(f, list, S, N)
    BY <1>1, KeptExists
  <2>2. kept = [i \in 0 .. N |-> IF i = 0 THEN <<>>
                  ELSE IF list[i] \in S THEN kept[i - 1]
                  ELSE Append(kept[i - 1], list[i])]
    BY <2>1 DEF KeptUpTo
  <2> HIDE DEF kept
  <2>. QED BY <2>2
<1>3. Dropping(list, S) = kept[N]
  BY DEF Dropping
<1> HIDE DEF kept, N, Step
<1>4. Good(0)
  <2>1. kept[0] = <<>>
    BY <1>1, <1>2
  <2>2. PlacesOf(<<>>, <<>>, list, 0)
    BY DEF PlacesOf
  <2>. QED BY <2>1, <2>2
<1>5. ASSUME NEW n \in 1 .. N, Good(n - 1)
      PROVE  Good(n)
  <2> DEFINE k == kept[n - 1]
  <2>1. kept[n] = Step(k, n) /\ list[n] \in T /\ n \in Nat /\ n - 1 \in Nat
    BY <1>1, <1>2
  <2>2. k \in Seq(T) /\ Len(k) \in Nat /\ Len(k) <= n - 1
    BY <1>5
  <2>3. PICK f : PlacesOf(f, k, list, n - 1)
    BY <1>5
  <2>4. CASE list[n] \in S
    <3>1. kept[n] = k
      BY <2>1, <2>4 DEF Step
    <3>2. PlacesOf(f, k, list, n)
      BY <2>1, <2>3 DEF PlacesOf
    <3>3. \A i \in 1 .. n : list[i] \notin S => i \in 1 .. n - 1
      BY <2>1, <2>4
    <3> HIDE DEF k
    <3>. QED BY <1>5, <2>1, <2>2, <3>1, <3>2, <3>3 DEF k
  <2>5. CASE list[n] \notin S
    <3> DEFINE g == [i \in 1 .. Len(k) + 1 |-> IF i <= Len(k) THEN f[i] ELSE n]
    <3>1. kept[n] = Append(k, list[n])
      BY <2>1, <2>5 DEF Step
    <3>2. \A i \in 1 .. Len(k) : k[i] \notin S
      BY <1>5
    <3>3. \A i \in 1 .. n - 1 : list[i] \notin S => \E j \in 1 .. Len(k) : k[j] = list[i]
      BY <1>5
    <3> HIDE DEF k
    <3>4. /\ kept[n] \in Seq(T) /\ Len(kept[n]) = Len(k) + 1
          /\ \A i \in 1 .. Len(k) : kept[n][i] = k[i]
          /\ kept[n][Len(k) + 1] = list[n]
      BY <2>1, <2>2, <3>1, Queued
    <3>5. \A i \in 1 .. Len(kept[n]) : i \in 1 .. Len(k) \/ i = Len(k) + 1
      BY <2>2, <3>4
    <3>6. \A i \in 1 .. Len(kept[n]) : kept[n][i] \notin S
      BY <2>5, <3>2, <3>4, <3>5
    <3>7. ASSUME NEW i \in 1 .. n, list[i] \notin S
          PROVE  \E j \in 1 .. Len(kept[n]) : kept[n][j] = list[i]
      <4>1. CASE i = n
        <5>1. Len(k) + 1 \in 1 .. Len(kept[n])
          BY <2>2, <3>4
        <5>. QED BY <3>4, <4>1, <5>1
      <4>2. CASE i # n
        <5>1. PICK j \in 1 .. Len(k) : k[j] = list[i]
          BY <2>1, <3>3, <3>7, <4>2
        <5>2. j \in 1 .. Len(kept[n])
          BY <2>2, <3>4
        <5>. QED BY <3>4, <5>1, <5>2
      <4>. QED BY <4>1, <4>2
    <3>8. PlacesOf(g, kept[n], list, n)
      <4>1. /\ f \in [1 .. Len(k) -> 1 .. n - 1] /\ \A i \in 1 .. Len(k) : k[i] = list[f[i]]
            /\ \A i, j \in 1 .. Len(k) : i < j => f[i] < f[j]
        BY <2>3 DEF PlacesOf
      <4>2. \A i \in 1 .. Len(k) : g[i] = f[i] /\ f[i] \in 1 .. n - 1
        BY <2>2, <4>1
      <4>3. g[Len(k) + 1] = n
        BY <2>2
      <4>4. g \in [1 .. Len(k) + 1 -> 1 .. n]
        BY <2>1, <2>2, <4>1
      <4>5. \A i \in 1 .. Len(k) + 1 : i \in 1 .. Len(k) \/ i = Len(k) + 1
        BY <2>2
      <4> HIDE DEF g
      <4>6. \A i, j \in 1 .. Len(k) + 1 : i < j => g[i] < g[j]
        BY <2>1, <2>2, <4>1, <4>2, <4>3, <4>5
      <4>7. \A i \in 1 .. Len(k) + 1 : kept[n][i] = list[g[i]]
        BY <3>4, <4>1, <4>2, <4>3, <4>5
      <4>. QED BY <3>4, <4>4, <4>6, <4>7 DEF PlacesOf
    <3>9. Len(kept[n]) <= n
      BY <2>1, <2>2, <3>4
    <3>. QED BY <3>4, <3>6, <3>7, <3>8, <3>9
  <2>. QED BY <2>4, <2>5
<1>6. Bad = {}
  <2>1. SUFFICES ASSUME Bad # {} PROVE FALSE
    OBVIOUS
  <2> HIDE DEF Good
  <2>2. PICK n \in Bad : \A y \in Bad : n <= y
    <3>1. Bad \in SUBSET Nat
      BY <1>1
    <3>. QED BY <2>1, <3>1, Least
  <2>3. n # 0
    BY <1>4, <2>2
  <2>4. n \in 1 .. N /\ n - 1 \in 0 .. N /\ n - 1 \notin Bad
    BY <1>1, <2>2, <2>3
  <2>. QED BY <1>5, <2>2, <2>4
<1>7. Good(N)
  <2> HIDE DEF Good
  <2>. QED BY <1>1, <1>6
<1>. QED BY <1>1, <1>3, <1>7 DEF N

\* A key that no two elements of a list share is shared by no two of what is
\* left of it.
LEMMA PlacesApart ==
  ASSUME NEW k, Len(k) \in Nat, NEW list, NEW n \in Nat, NEW f, PlacesOf(f, k, list, n),
         NEW i \in 1 .. Len(k), NEW j \in 1 .. Len(k), i # j
  PROVE  f[i] # f[j]
<1>1. f[i] \in 1 .. n /\ f[j] \in 1 .. n /\ (i < j => f[i] < f[j]) /\ (j < i => f[j] < f[i])
  BY DEF PlacesOf
<1>. QED BY <1>1
=================================================================================
