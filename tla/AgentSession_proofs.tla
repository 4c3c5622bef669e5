-------------------------- MODULE AgentSession_proofs --------------------------
(***************************************************************************)
(* Theorems about a session of the agent, for any number of prompts,       *)
(* requests, calls and troubles.                                           *)
(*                                                                         *)
(* Histories are made by recursive functions; what these compute is shown  *)
(* by induction over the natural numbers, stated for a set: the library's  *)
(* induction theorems have an operator for a parameter.                    *)
(***************************************************************************)
EXTENDS AgentSession, SequenceTheorems, FiniteSetTheorems, WellFoundedInduction, TLAPS

\* A set with 0 and every successor has every number.
LEMMA Induction ==
  ASSUME NEW T, 0 \in T, \A n \in Nat : n \in T => n + 1 \in T
  PROVE  \A n \in Nat : n \in T
<1> DEFINE less == {ss \in Nat \X Nat : ss[1] < ss[2]}
           U == Nat \ T
<1>1. IsWellFoundedOn(less, Nat)
  BY NatLessThanWellFounded DEF OpToRel
<1>2. SUFFICES ASSUME U # {} PROVE FALSE
  OBVIOUS
<1>3. PICK m \in U : \A y \in U : ~(<<y, m>> \in less)
  <2>1. U \subseteq Nat
    OBVIOUS
  <2> HIDE DEF U, less
  <2> QED
    BY <1>1, <1>2, <2>1, WFMin
<1>4. m \in Nat /\ m # 0 /\ m \notin T
  OBVIOUS
<1>5. m - 1 \in Nat /\ m - 1 < m /\ (m - 1) + 1 = m
  BY <1>4
<1>6. <<m - 1, m>> \in less
  BY <1>4, <1>5
<1>7. m - 1 \in T
  <2> HIDE DEF less
  <2> QED
    BY <1>3, <1>5, <1>6
<1> QED
  BY <1>4, <1>5, <1>7

\* A definition by recursion on a set of numbers: given at the first of them, and
\* elsewhere by its value at a smaller one; and what it defines.
Recursive(T, S, first, base, below, step) ==
  /\ first \in T /\ base \in S /\ below \in [T -> T] /\ step \in [S \X T -> S]
  /\ \A n \in T : n # first => below[n] < n
Defined(f, T, S, first, base, below, step) ==
  /\ f \in [T -> S]
  /\ \A n \in T : f[n] = IF n = first THEN base ELSE step[<<f[below[n]], n>>]

\* On numbers up to a bound it defines something.
LEMMA Recursion ==
  ASSUME NEW m \in Nat, NEW T \in SUBSET (0..m), NEW S, NEW first, NEW base,
         NEW below, NEW step, Recursive(T, S, first, base, below, step)
  PROVE  \E f : Defined(f, T, S, first, base, below, step)
<1> USE DEF Recursive
<1> DEFINE Upto(k) == {n \in T : n <= k}
           Rec(f, k) == \A n \in Upto(k) :
             f[n] = IF n = first THEN base ELSE step[<<f[below[n]], n>>]
           K == {k \in Nat : \E f \in [T -> S] : Rec(f, k)}
<1>1. \A n \in T : /\ n \in Nat /\ below[n] \in T /\ below[n] \in Nat
                   /\ n # first => below[n] < n
  <2>1. T \subseteq Nat
    OBVIOUS
  <2>2. \A n \in T : below[n] \in T
    OBVIOUS
  <2> QED
    BY <2>1, <2>2
<1>2. 0 \in K
  <2> DEFINE f == [n \in T |-> base]
  <2>1. \A n \in Upto(0) : n = first
    BY <1>1
  <2>2. f \in [T -> S]
    OBVIOUS
  <2>3. Rec(f, 0)
    <3> TAKE n \in Upto(0)
    <3>1. n = first /\ n \in T
      BY <2>1
    <3> QED
      BY <3>1
  <2> QED
    <3> HIDE DEF f, Rec
    <3> QED
      BY <2>2, <2>3
<1>3. ASSUME NEW k \in Nat, k \in K
      PROVE  k + 1 \in K
  <2>1. PICK f \in [T -> S] : Rec(f, k)
    BY <1>3
  <2> DEFINE g == [n \in T |-> IF n <= k THEN f[n]
                               ELSE IF n = first THEN base ELSE step[<<f[below[n]], n>>]]
  <2>2. g \in [T -> S]
    <3>1. ASSUME NEW n \in T
          PROVE  f[n] \in S /\ step[<<f[below[n]], n>>] \in S
      <4>1. f[n] \in S /\ f[below[n]] \in S
        BY <1>1
      <4>2. <<f[below[n]], n>> \in S \X T
        BY <4>1
      <4> QED
        BY <4>1, <4>2
    <3> QED
      BY <3>1
  <2>3. ASSUME NEW n \in Upto(k + 1)
        PROVE  g[n] = IF n = first THEN base ELSE step[<<g[below[n]], n>>]
    <3>1. n \in T /\ n \in Nat /\ n <= k + 1
      BY <1>1
    <3>2. n # first => below[n] \in T /\ below[n] \in Nat /\ below[n] <= k
      BY <1>1, <3>1
    <3>3. n # first => g[below[n]] = f[below[n]]
      BY <3>2
    <3>4. CASE n <= k
      <4>1. n \in Upto(k) /\ g[n] = f[n]
        BY <3>4, <3>1
      <4>2. f[n] = IF n = first THEN base ELSE step[<<f[below[n]], n>>]
        <5> HIDE DEF Upto
        <5> QED
          BY <4>1, <2>1
      <4> HIDE DEF Upto, g
      <4> QED
        BY <4>1, <4>2, <3>3
    <3>5. CASE ~(n <= k)
      <4>1. g[n] = IF n = first THEN base ELSE step[<<f[below[n]], n>>]
        BY <3>1, <3>5
      <4> QED
        BY <4>1, <3>3
    <3> QED
      BY <3>4, <3>5
  <2>4. Rec(g, k + 1)
    BY <2>3
  <2> QED
    <3> HIDE DEF g, Rec
    <3> QED
      BY <2>2, <2>4
<1>4. m \in K
  <2> HIDE DEF K
  <2> QED
    BY <1>2, <1>3, Induction
<1>5. PICK f \in [T -> S] : Rec(f, m)
  BY <1>4
<1>6. \A n \in T : n \in Upto(m)
  OBVIOUS
<1> QED
  <2> HIDE DEF Upto
  <2> QED
    BY <1>5, <1>6 DEF Defined

\* The same, from each number to the next.
Stepped(f, n, S, base, step) ==
  /\ f \in [0..n -> S] /\ f[0] = base
  /\ \A i \in 1..n : f[i] = step[<<f[i - 1], i>>]

LEMMA Steps ==
  ASSUME NEW n \in Nat, NEW S, NEW base \in S, NEW step, step \in [S \X (1..n) -> S]
  PROVE  \E f : Stepped(f, n, S, base, step)
<1> DEFINE T == 0..n
           below == [i \in T |-> IF i = 0 THEN 0 ELSE i - 1]
           all == [x \in S \X T |-> IF x[2] = 0 THEN base ELSE step[x]]
<1>1. T \in SUBSET (0..n) /\ 0 \in T
  OBVIOUS
<1>2. below \in [T -> T] /\ \A i \in T : i # 0 => below[i] < i
  OBVIOUS
<1>3. all \in [S \X T -> S]
  <2>1. ASSUME NEW x \in S \X T
        PROVE  all[x] \in S
    <3>1. CASE x[2] = 0
      BY <3>1
    <3>2. CASE x[2] # 0
      <4>1. x \in S \X (1..n)
        <5>1. x = <<x[1], x[2]>> /\ x[1] \in S /\ x[2] \in 1..n
          BY <3>2
        <5> QED
          BY <5>1
      <4> QED
        BY <3>2, <4>1
    <3> QED
      BY <3>1, <3>2
  <2> QED
    BY <2>1
<1>4. PICK f : Defined(f, T, S, 0, base, below, all)
  <2>1. Recursive(T, S, 0, base, below, all)
    <3> HIDE DEF T, below, all
    <3> QED
      BY <1>1, <1>2, <1>3 DEF Recursive
  <2> HIDE DEF T, below, all
  <2> QED
    BY <1>1, <2>1, Recursion
<1>5. f \in [T -> S] /\ \A i \in T : f[i] = IF i = 0 THEN base ELSE all[<<f[below[i]], i>>]
  <2> HIDE DEF T, below, all
  <2> QED
    BY <1>4 DEF Defined
<1>6. f[0] = base
  BY <1>1, <1>5
<1>7. ASSUME NEW i \in 1..n
      PROVE  f[i] = step[<<f[i - 1], i>>]
  <2>1. i \in T /\ i # 0 /\ i - 1 \in T /\ below[i] = i - 1
    OBVIOUS
  <2>2. f[i] = all[<<f[i - 1], i>>]
    <3> HIDE DEF all, below, T
    <3> QED
      BY <2>1, <1>5
  <2>3. <<f[i - 1], i>> \in S \X T
    BY <1>5, <2>1
  <2> QED
    BY <2>1, <2>2, <2>3
<1> QED
  BY <1>5, <1>6, <1>7 DEF Stepped

-----------------------------------------------------------------------------
(* Sequences.                                                              *)

\* The function by which Within is defined.
Scan(s, S) ==
  CHOOSE upTo : upTo = [i \in 0..Len(s) |->
    IF i = 0 THEN <<>>
    ELSE IF s[i] \in S THEN Append(upTo[i - 1], s[i]) ELSE upTo[i - 1]]

LEMMA ScanFacts ==
  ASSUME NEW D, NEW s \in Seq(D), NEW S
  PROVE  /\ Within(s, S) = Scan(s, S)[Len(s)]
         /\ Scan(s, S)[0] = <<>>
         /\ \A i \in 1..Len(s) :
              Scan(s, S)[i] = IF s[i] \in S THEN Append(Scan(s, S)[i - 1], s[i])
                              ELSE Scan(s, S)[i - 1]
<1> DEFINE n == Len(s)
           step == [x \in Seq(D) \X (1..n) |->
                     IF s[x[2]] \in S THEN Append(x[1], s[x[2]]) ELSE x[1]]
           Eq(f) == f = [i \in 0..n |->
                      IF i = 0 THEN <<>>
                      ELSE IF s[i] \in S THEN Append(f[i - 1], s[i]) ELSE f[i - 1]]
<1>1. n \in Nat /\ \A i \in 1..n : s[i] \in D
  OBVIOUS
<1>2. step \in [Seq(D) \X (1..n) -> Seq(D)]
  <2>1. ASSUME NEW x \in Seq(D) \X (1..n)
        PROVE  step[x] \in Seq(D)
    <3>1. x[1] \in Seq(D) /\ s[x[2]] \in D
      BY <1>1
    <3> QED
      BY <3>1
  <2> QED
    BY <2>1
<1>3. PICK f \in [0..n -> Seq(D)] : f[0] = <<>> /\ \A i \in 1..n : f[i] = step[<<f[i - 1], i>>]
  <2>1. <<>> \in Seq(D)
    OBVIOUS
  <2>2. \E g : Stepped(g, n, Seq(D), <<>>, step)
    <3> HIDE DEF n, step
    <3> QED
      BY <1>1, <1>2, <2>1, Steps
  <2> HIDE DEF step, n
  <2> QED
    BY <2>2 DEF Stepped
<1>4. \A i \in 1..n : f[i] = IF s[i] \in S THEN Append(f[i - 1], s[i]) ELSE f[i - 1]
  <2> TAKE i \in 1..n
  <2>1. i - 1 \in 0..n /\ f[i - 1] \in Seq(D)
    <3> HIDE DEF n
    <3> QED
      BY <1>1
  <2>2. <<f[i - 1], i>> \in Seq(D) \X (1..n)
    BY <2>1
  <2> QED
    BY <1>3, <2>2
<1>5. Eq(f)
  <2>1. \A i \in 0..n : i # 0 => i \in 1..n
    BY <1>1
  <2> QED
    BY <1>3, <1>4, <2>1
<1>6. Eq(Scan(s, S))
  <2>1. Scan(s, S) = CHOOSE g : Eq(g)
    BY DEF Scan
  <2> HIDE DEF Eq
  <2> QED
    BY <1>5, <2>1
<1>7. Within(s, S) = Scan(s, S)[Len(s)]
  BY DEF Within, Scan
<1>8. Scan(s, S)[0] = <<>>
  BY <1>1, <1>6
<1>9. ASSUME NEW i \in 1..n
      PROVE  Scan(s, S)[i] = IF s[i] \in S THEN Append(Scan(s, S)[i - 1], s[i])
                             ELSE Scan(s, S)[i - 1]
  <2>1. i \in 0..n /\ i # 0
    <3> HIDE DEF n
    <3> QED
      BY <1>1
  <2> QED
    BY <1>6, <2>1
<1> QED
  BY <1>7, <1>8, <1>9

\* What Within keeps: the elements that are in the set, and nothing else.
LEMMA WithinKeeps ==
  ASSUME NEW D, NEW s \in Seq(D), NEW S
  PROVE  /\ Within(s, S) \in Seq(D)
         /\ Range(Within(s, S)) = Range(s) \cap S
         /\ IsInjective(s) => IsInjective(Within(s, S))
<1> DEFINE n == Len(s)
           f == Scan(s, S)
           Good(k) == /\ f[k] \in Seq(D)
                      /\ \A x : x \in Range(f[k]) <=> x \in S /\ \E i \in 1..k : x = s[i]
                      /\ IsInjective(s) => IsInjective(f[k])
           T == {k \in Nat : k <= n => Good(k)}
<1>1. n \in Nat /\ DOMAIN s = 1..n /\ \A i \in 1..n : s[i] \in D
  OBVIOUS
<1>2. f[0] = <<>> /\ \A i \in 1..n : f[i] = IF s[i] \in S THEN Append(f[i - 1], s[i])
                                             ELSE f[i - 1]
  BY ScanFacts
<1>3. 0 \in T
  <2>1. f[0] \in Seq(D) /\ Range(f[0]) = {} /\ IsInjective(f[0])
    <3> HIDE DEF f
    <3> QED
      BY <1>2 DEF Range, IsInjective
  <2>2. \A i \in 1..0 : FALSE
    OBVIOUS
  <2> QED
    <3> HIDE DEF f
    <3> QED
      BY <2>1, <2>2
<1>4. ASSUME NEW k \in Nat, k \in T
      PROVE  k + 1 \in T
  <2>1. SUFFICES ASSUME k + 1 <= n PROVE Good(k + 1)
    OBVIOUS
  <2>2. Good(k) /\ k + 1 \in 1..n /\ (k + 1) - 1 = k
    BY <1>4, <2>1
  <2>3. f[k + 1] = IF s[k + 1] \in S THEN Append(f[k], s[k + 1]) ELSE f[k]
    <3> HIDE DEF f
    <3> QED
      BY <1>2, <2>2
  <2>4. CASE s[k + 1] \in S
    <3> DEFINE e == s[k + 1]
    <3>1. e \in D /\ f[k + 1] = Append(f[k], e) /\ f[k] \in Seq(D)
      BY <1>1, <2>2, <2>3, <2>4
    <3>2. Range(Append(f[k], e)) = Range(f[k]) \cup {e}
      <4> HIDE DEF f, e
      <4>1. /\ Append(f[k], e) \in Seq(D) /\ Len(Append(f[k], e)) = Len(f[k]) + 1
            /\ \A i \in 1..Len(f[k]) : Append(f[k], e)[i] = f[k][i]
            /\ Append(f[k], e)[Len(f[k]) + 1] = e
        BY <3>1, AppendProperties
      <4>2. Len(f[k]) \in Nat /\ DOMAIN f[k] = 1..Len(f[k])
            /\ DOMAIN Append(f[k], e) = 1..(Len(f[k]) + 1)
        BY <3>1, <4>1
      <4>3. \A i \in 1..(Len(f[k]) + 1) : i \in 1..Len(f[k]) \/ i = Len(f[k]) + 1
        BY <4>2
      <4>4. \A i \in 1..Len(f[k]) : i \in 1..(Len(f[k]) + 1)
        BY <4>2
      <4>5. Len(f[k]) + 1 \in 1..(Len(f[k]) + 1)
        BY <4>2
      <4>6. Range(Append(f[k], e)) \subseteq Range(f[k]) \cup {e}
        BY <4>1, <4>2, <4>3 DEF Range
      <4>7. Range(f[k]) \cup {e} \subseteq Range(Append(f[k], e))
        BY <4>1, <4>2, <4>4, <4>5 DEF Range
      <4> QED
        BY <4>6, <4>7
    <3>3. \A i \in 1..(k + 1) : i \in 1..k \/ i = k + 1
      OBVIOUS
    <3>4. \A x : x \in Range(f[k + 1]) <=> x \in S /\ \E i \in 1..(k + 1) : x = s[i]
      <4> HIDE DEF f
      <4> QED
        BY <2>2, <2>4, <3>1, <3>2, <3>3
    <3>5. IsInjective(s) => e \notin Range(f[k])
      <4> HIDE DEF f
      <4> QED
        BY <1>1, <2>2 DEF IsInjective
    <3>6. IsInjective(s) => IsInjective(f[k + 1])
      <4> HIDE DEF f, e
      <4> QED
        BY <2>2, <3>1, <3>5 DEF IsInjective, Range
    <3> QED
      <4> HIDE DEF f, e
      <4> QED
        BY <3>1, <3>4, <3>6
  <2>5. CASE s[k + 1] \notin S
    <3>1. \A i \in 1..(k + 1) : i \in 1..k \/ i = k + 1
      OBVIOUS
    <3> HIDE DEF f
    <3> QED
      BY <2>2, <2>3, <2>5, <3>1
  <2> QED
    BY <2>4, <2>5
<1>5. Good(n)
  <2> HIDE DEF Good
  <2>1. n \in T
    <3> HIDE DEF T
    <3> QED
      BY <1>1, <1>3, <1>4, Induction
  <2> QED
    BY <1>1, <2>1
<1>6. Within(s, S) = f[n]
  BY ScanFacts
<1>7. Range(s) = {s[i] : i \in 1..n}
  BY <1>1 DEF Range
<1>8. Range(f[n]) = Range(s) \cap S
  <2> HIDE DEF f, n
  <2> QED
    BY <1>5, <1>7
<1> QED
  BY <1>5, <1>6, <1>8

\* What holds at 0 and goes from each number to the next.
LEMMA Stays ==
  ASSUME NEW n \in Nat, NEW f, NEW S, f[0] \in S, \A i \in 1..n : f[i - 1] \in S => f[i] \in S
  PROVE  \A i \in 0..n : f[i] \in S
<1> DEFINE T == {k \in Nat : k <= n => f[k] \in S}
<1>1. 0 \in T
  OBVIOUS
<1>2. ASSUME NEW k \in Nat, k \in T
      PROVE  k + 1 \in T
  <2>1. k + 1 <= n => k + 1 \in 1..n /\ (k + 1) - 1 = k /\ f[k] \in S
    BY <1>2
  <2> QED
    BY <2>1
<1>3. \A k \in Nat : k \in T
  <2> HIDE DEF T
  <2> QED
    BY <1>1, <1>2, Induction
<1> QED
  BY <1>3

\* Sequences, one after the other.
LEMMA FlattenIsSeq ==
  ASSUME NEW D, NEW ss \in Seq(Seq(D))
  PROVE  FlattenSeq(ss) \in Seq(D)
<1> DEFINE n == Len(ss)
           T == 1..n
           below == [i \in T |-> IF i = 1 THEN 1 ELSE i - 1]
           step == [x \in Seq(D) \X T |-> x[1] \o ss[x[2]]]
           Eq(f) == f = [i \in 1..n |-> IF i = 1 THEN ss[i] ELSE f[i - 1] \o ss[i]]
           flat == CHOOSE f : Eq(f)
<1>1. n \in Nat /\ \A i \in T : ss[i] \in Seq(D)
  OBVIOUS
<1>2. CASE n = 0
  <2>1. ss = <<>>
    BY <1>2
  <2> QED
    BY <2>1 DEF FlattenSeq
<1>3. CASE n # 0
  <2>1. 1 \in T /\ T \in SUBSET (0..n) /\ n \in T
    <3> HIDE DEF n
    <3> QED
      BY <1>1, <1>3
  <2>2. below \in [T -> T] /\ \A i \in T : i # 1 => below[i] < i
    <3> HIDE DEF n
    <3> QED
      BY <1>1, <1>3
  <2>3. step \in [Seq(D) \X T -> Seq(D)]
    <3>1. ASSUME NEW x \in Seq(D) \X T
          PROVE  step[x] \in Seq(D)
      <4>1. x[1] \in Seq(D) /\ x[2] \in T
        OBVIOUS
      <4>2. ss[x[2]] \in Seq(D)
        BY <1>1, <4>1
      <4> HIDE DEF T
      <4> QED
        BY <4>1, <4>2
    <3> QED
      BY <3>1
  <2>4. PICK f : Defined(f, T, Seq(D), 1, ss[1], below, step)
    <3>1. Recursive(T, Seq(D), 1, ss[1], below, step)
      <4> HIDE DEF T, below, step
      <4> QED
        BY <1>1, <2>1, <2>2, <2>3 DEF Recursive
    <3> HIDE DEF T, below, step, n
    <3> QED
      BY <1>1, <2>1, <3>1, Recursion
  <2>5. /\ f \in [T -> Seq(D)]
        /\ \A i \in T : f[i] = IF i = 1 THEN ss[1] ELSE step[<<f[below[i]], i>>]
    <3> HIDE DEF T, below, step
    <3> QED
      BY <2>4 DEF Defined
  <2>6. \A i \in T : f[i] = IF i = 1 THEN ss[i] ELSE f[i - 1] \o ss[i]
    <3> TAKE i \in T
    <3>1. CASE i = 1
      BY <2>5, <3>1
    <3>2. CASE i # 1
      <4>1. below[i] = i - 1 /\ i - 1 \in T
        <5> HIDE DEF n
        <5> QED
          BY <1>1, <3>2
      <4>2. <<f[i - 1], i>> \in Seq(D) \X T
        BY <2>5, <4>1
      <4>3. f[i] = step[<<f[i - 1], i>>]
        <5> HIDE DEF step, below, T
        <5> QED
          BY <2>5, <3>2, <4>1
      <4> QED
        BY <3>2, <4>2, <4>3
    <3> QED
      BY <3>1, <3>2
  <2>7. Eq(f)
    BY <2>5, <2>6
  <2>8. Eq(flat)
    <3> HIDE DEF Eq
    <3> QED
      BY <2>7
  <2>9. /\ flat[1] = ss[1]
        /\ \A i \in T : i # 1 => flat[i] = flat[i - 1] \o ss[i]
    <3> HIDE DEF flat, n
    <3> QED
      BY <2>1, <2>8
  <2> DEFINE K == {k \in Nat : k + 1 \in T => flat[k + 1] \in Seq(D)}
  <2>10. 0 \in K
    <3> HIDE DEF flat, T
    <3> QED
      BY <1>1, <2>9
  <2>11. ASSUME NEW k \in Nat, k \in K
         PROVE  k + 1 \in K
    <3>1. SUFFICES ASSUME k + 2 \in T PROVE flat[k + 2] \in Seq(D)
      <4>1. (k + 1) + 1 = k + 2 /\ k + 1 \in Nat
        OBVIOUS
      <4> HIDE DEF flat, T
      <4> QED
        BY <4>1
    <3>2. k + 1 \in T /\ k + 2 # 1 /\ (k + 2) - 1 = k + 1
      <4> HIDE DEF n
      <4> QED
        BY <1>1, <3>1
    <3>3. flat[k + 1] \in Seq(D) /\ ss[k + 2] \in Seq(D)
      <4> HIDE DEF flat, T
      <4> QED
        BY <1>1, <2>11, <3>1, <3>2
    <3>4. flat[k + 2] = flat[k + 1] \o ss[k + 2]
      <4> HIDE DEF flat, T
      <4> QED
        BY <2>9, <3>1, <3>2
    <3> HIDE DEF flat, T
    <3> QED
      BY <3>3, <3>4
  <2>12. n - 1 \in K
    <3>1. n - 1 \in Nat
      <4> HIDE DEF n
      <4> QED
        BY <1>1, <1>3
    <3> HIDE DEF K
    <3> QED
      BY <2>10, <2>11, <3>1, Induction
  <2>13. flat[n] \in Seq(D)
    <3>1. (n - 1) + 1 = n
      <4> HIDE DEF n
      <4> QED
        BY <1>1
    <3> HIDE DEF flat, T, n
    <3> QED
      BY <2>1, <2>12, <3>1
  <2>14. FlattenSeq(ss) = flat[n]
    BY <1>3 DEF FlattenSeq
  <2> QED
    BY <2>13, <2>14
<1> QED
  BY <1>2, <1>3

-----------------------------------------------------------------------------
(* The invariant.                                                          *)

CallIds == Nat \X Nat
Outcomes == {"none", "preparing", "running", "prepared", "refused", "aborted", "ran"}
Hows == Outcomes \cup {"interrupted", "missing", "truncated"}
ResultsOf(hows) == [kind : {"result"}, of : CallIds, how : hows]
Answers ==
  [kind : {"assistant"}, turn : Nat, calls : 0..MaxCalls,
   stop : {"done", "cut", "error", "aborted"}, blank : BOOLEAN]
Message == {Plain} \cup Answers \cup ResultsOf(Hows)

RunsOver(ids) ==
  [phase : Phases, out : Seq(ids), cancelled : BOOLEAN, answer : Nat, next : Nat \ {0},
   more : BOOLEAN, blank : BOOLEAN, emptied : BOOLEAN, error : BOOLEAN, failing : BOOLEAN,
   late : BOOLEAN]

Budgets ==
  [requests : Nat, prompts : Nat, calls : 0..MaxCalls, queued : Nat, cancels : Nat, closes : Nat,
   faults : Nat, restarts : Nat]

Typed ==
  /\ log \in Seq(Message)
  /\ mem \in Seq(DOMAIN log) /\ IsInjective(mem)
  /\ run \in RunsOver(DOMAIN log)
  /\ tools \in [1..MaxCalls -> Outcomes]
  /\ queue \in [steer : Nat, follow : Nat]
  /\ started \in SUBSET CallIds
  /\ spent \in Budgets

\* The entries that were made stand under entries made before them, and what is still
\* to be published was either tried already or is newer than all of them.
Tree(s) ==
  /\ s = [file |-> s.file, tip |-> s.tip, up |-> s.up, last |-> s.last, writes |-> s.writes]
  /\ s.up = [n \in DOMAIN s.up |-> s.up[n]]
  /\ \A n \in DOMAIN s.up : s.up[n] \in Nat /\ s.up[n] < n
  /\ s.file \subseteq DOMAIN s.up
  /\ s.tip \in s.file \cup {0} /\ s.last \in DOMAIN s.up \cup {0}
  /\ s.writes \in Seq(DOMAIN s.up) /\ IsInjective(s.writes)
Newer(s, n) == \A d \in DOMAIN s.up : d < n
Outgoing(s, out) ==
  /\ \A i \in DOMAIN out : out[i] \in DOMAIN s.up \/ Newer(s, out[i])
  /\ \A i, j \in DOMAIN out : i < j => out[j] \in DOMAIN s.up \/ out[i] < out[j]
Filed == Tree(store) /\ DOMAIN store.up \subseteq DOMAIN log /\ Outgoing(store, run.out)

\* Turns of which a call was entered, or was not executed.
Denials == {i \in Results(log) : log[i].how \in {"refused", "truncated"}}
Used == {c[1] : c \in started} \cup {log[i].of[1] : i \in Denials}

\* An answer with calls is of a turn that is new.
Turns ==
  /\ \A t \in Used : t <= spent.requests
  /\ run.phase = "waiting" /\ ~run.late => spent.requests \notin Used
  /\ run.phase \in {"answered", "seq", "par"} =>
       /\ run.answer \in DOMAIN log /\ log[run.answer].kind = "assistant"
       /\ log[run.answer].turn <= spent.requests
  /\ run.phase = "answered" =>
       /\ log[run.answer].calls > 0 => log[run.answer].turn \notin Used
       /\ run.out = <<run.answer>> \/ (run.out = <<>> /\ run.answer \in store.file)
  /\ run.phase \in {"seq", "par"} =>
       /\ run.answer \in store.file /\ log[run.answer].stop = "done"

\* How far a batch has come: which calls of its answer were entered, or denied.
Batch ==
  /\ run.phase = "seq" =>
       /\ \A c \in started : c[1] = log[run.answer].turn =>
            c[2] < run.next \/ (c[2] = run.next /\ tools[run.next] = "running")
       /\ \A i \in Denials : log[i].of[1] = log[run.answer].turn => log[i].of[2] < run.next
  /\ run.phase = "par" =>
       /\ \A c \in started : c[1] = log[run.answer].turn =>
            /\ c[2] \in 1..MaxCalls /\ c[2] < run.next
            /\ tools[c[2]] \in {"running", "ran", "aborted"}
       /\ \A i \in Denials : log[i].of[1] # log[run.answer].turn

IInv == Typed /\ Filed /\ Turns /\ Batch /\ RanIsRecorded

-----------------------------------------------------------------------------
(* Messages and histories.                                                 *)

LEMMA MessageFacts ==
  ASSUME NEW m \in Message
  PROVE  /\ m.kind \in {"user", "assistant", "result"}
         /\ m.kind = "assistant" => m \in Answers /\ m.turn \in Nat /\ m.calls \in 0..MaxCalls
         /\ m.kind = "result" => m.of \in CallIds /\ m.how \in Hows
         /\ m.kind = "user" => m = Plain
  BY DEF Message, Plain, Answers, ResultsOf

LEMMA CallsAreIds ==
  ASSUME NEW m \in Message
  PROVE  CallsOf(m) \in Seq(CallIds)
<1>1. CASE m.kind = "assistant"
  <2>1. m.turn \in Nat /\ m.calls \in Nat
    BY <1>1, MessageFacts, SessionAssumption
  <2>2. \A k \in 1..m.calls : <<m.turn, k>> \in CallIds
    BY <2>1 DEF CallIds
  <2>3. [k \in 1..m.calls |-> <<m.turn, k>>] \in Seq(CallIds)
    BY <2>1, <2>2
  <2> QED
    BY <1>1, <2>3 DEF CallsOf
<1>2. CASE m.kind # "assistant"
  BY <1>2 DEF CallsOf
<1> QED
  BY <1>1, <1>2

\* Results made of a sequence of calls.
LEMMA ResultsAre ==
  ASSUME NEW cs \in Seq(CallIds), NEW hows \in SUBSET Hows, NEW how \in hows
  PROVE  [i \in DOMAIN cs |-> Result(cs[i], how)] \in Seq(ResultsOf(hows))
<1>1. Len(cs) \in Nat /\ DOMAIN cs = 1..Len(cs) /\ \A i \in 1..Len(cs) : cs[i] \in CallIds
  OBVIOUS
<1>2. \A i \in 1..Len(cs) : Result(cs[i], how) \in ResultsOf(hows)
  BY <1>1 DEF Result, ResultsOf
<1>3. [i \in 1..Len(cs) |-> Result(cs[i], how)] \in Seq(ResultsOf(hows))
  BY <1>1, <1>2
<1> QED
  BY <1>1, <1>3

\* The open calls of a history are answered as interrupted.
LEMMA InterruptedAre ==
  ASSUME NEW ms \in Seq(Message)
  PROVE  Interrupted(ms) \in Seq(ResultsOf({"interrupted"}))
<1> DEFINE all == FlattenSeq([i \in DOMAIN ms |-> CallsOf(ms[i])])
           done == {ms[i].of : i \in Results(ms)}
           open == Within(all, Range(all) \ done)
<1>1. Len(ms) \in Nat /\ DOMAIN ms = 1..Len(ms) /\ \A i \in 1..Len(ms) : ms[i] \in Message
  OBVIOUS
<1>2. [i \in 1..Len(ms) |-> CallsOf(ms[i])] \in Seq(Seq(CallIds))
  <2>1. \A i \in 1..Len(ms) : CallsOf(ms[i]) \in Seq(CallIds)
    BY <1>1, CallsAreIds
  <2> QED
    BY <1>1, <2>1
<1>3. all \in Seq(CallIds)
  BY <1>1, <1>2, FlattenIsSeq
<1>4. open \in Seq(CallIds)
  <2> HIDE DEF all, done
  <2> QED
    BY <1>3, WithinKeeps
<1>5. Interrupted(ms) = [i \in DOMAIN open |-> Result(open[i], "interrupted")]
  BY DEF Interrupted
<1> QED
  <2> HIDE DEF open
  <2>1. {"interrupted"} \in SUBSET Hows
    BY DEF Hows
  <2> QED
    BY <1>4, <1>5, <2>1, ResultsAre

\* How far a repair of messages of M may have come.
Repairs(M) ==
  [out : Seq(M \cup ResultsOf({"missing"})), open : Seq(CallIds), have : SUBSET CallIds]

LEMMA MissingAre ==
  ASSUME NEW M, NEW r \in Repairs(M)
  PROVE  Missing(r) \in Seq(ResultsOf({"missing"}))
<1> DEFINE open == Within(r.open, Range(r.open) \ r.have)
<1>1. r.open \in Seq(CallIds)
  BY DEF Repairs
<1>2. open \in Seq(CallIds)
  BY <1>1, WithinKeeps
<1>3. Missing(r) = [i \in DOMAIN open |-> Result(open[i], "missing")]
  BY DEF Missing
<1>4. {"missing"} \in SUBSET Hows
  BY DEF Hows
<1> QED
  <2> HIDE DEF open
  <2> QED
    BY <1>2, <1>3, <1>4, ResultsAre

LEMMA OpenedIsRepair ==
  ASSUME NEW M, NEW out \in Seq(M \cup ResultsOf({"missing"})), NEW calls \in Seq(CallIds)
  PROVE  Opened(out, calls) \in Repairs(M)
BY DEF Opened, Repairs

\* A step of it.
LEMMA RepairedIs ==
  ASSUME NEW M \in SUBSET Message, NEW r \in Repairs(M), NEW m \in M
  PROVE  Repaired(r, m) \in Repairs(M)
<1> DEFINE X == M \cup ResultsOf({"missing"})
<1>1. r.out \in Seq(X) /\ r.open \in Seq(CallIds) /\ r.have \in SUBSET CallIds
      /\ r = [out |-> r.out, open |-> r.open, have |-> r.have]
  BY DEF Repairs
<1>2. Missing(r) \in Seq(X)
  <2>1. Missing(r) \in Seq(ResultsOf({"missing"}))
    BY MissingAre
  <2>2. ResultsOf({"missing"}) \subseteq X
    OBVIOUS
  <2> HIDE DEF X
  <2> QED
    BY <2>1, <2>2, SeqMonotonic
<1>3. r.out \o Missing(r) \in Seq(X) /\ m \in X
  <2>1. m \in X
    OBVIOUS
  <2> HIDE DEF X
  <2> QED
    BY <1>1, <1>2, <2>1
<1>4. CASE m.kind = "result"
  <2>1. m.of \in CallIds
    BY <1>4, MessageFacts
  <2>2. Append(r.out, m) \in Seq(X)
    <3> HIDE DEF X
    <3> QED
      BY <1>1, <1>3
  <2>3. Repaired(r, m)
        = [out |-> Append(r.out, m), open |-> r.open, have |-> r.have \cup {m.of}]
    <3>1. Repaired(r, m) = [r EXCEPT !.out = Append(@, m), !.have = @ \cup {m.of}]
      <4>1. ~Failed(m)
        BY <1>4 DEF Failed
      <4> QED
        BY <1>4, <4>1 DEF Repaired
    <3> QED
      BY <3>1 DEF Repairs
  <2> QED
    BY <1>1, <2>1, <2>2, <2>3 DEF Repairs
<1>5. CASE m.kind # "result" /\ Failed(m)
  <2>1. Repaired(r, m) = Opened(r.out \o Missing(r), <<>>)
    BY <1>5 DEF Repaired
  <2>2. <<>> \in Seq(CallIds)
    OBVIOUS
  <2> QED
    BY <1>3, <2>1, <2>2, OpenedIsRepair
<1>6. CASE m.kind # "result" /\ ~Failed(m)
  <2>1. Repaired(r, m) = Opened(Append(r.out \o Missing(r), m), CallsOf(m))
    BY <1>6 DEF Repaired
  <2>2. Append(r.out \o Missing(r), m) \in Seq(X)
    <3> HIDE DEF X
    <3> QED
      BY <1>3
  <2>3. CallsOf(m) \in Seq(CallIds)
    BY CallsAreIds
  <2> QED
    BY <2>1, <2>2, <2>3, OpenedIsRepair
<1> QED
  BY <1>4, <1>5, <1>6

\* A repair goes from message to message.
Repairing(upTo, ms, M) ==
  /\ upTo[0] = Opened(<<>>, <<>>)
  /\ \A i \in 1..Len(ms) : upTo[i] = Repaired(upTo[i - 1], ms[i])
  /\ \A i \in 0..Len(ms) : upTo[i] \in Repairs(M)
  /\ Repair(ms) = upTo[Len(ms)].out \o Missing(upTo[Len(ms)])

LEMMA RepairSteps ==
  ASSUME NEW M \in SUBSET Message, NEW ms \in Seq(M)
  PROVE  \E upTo : Repairing(upTo, ms, M)
<1> DEFINE n == Len(ms)
           S == Repairs(M)
           base == Opened(<<>>, <<>>)
           step == [x \in S \X (1..n) |-> Repaired(x[1], ms[x[2]])]
           Eq(f) == f = [i \in 0..n |-> IF i = 0 THEN base ELSE Repaired(f[i - 1], ms[i])]
           upTo == CHOOSE f : Eq(f)
<1>1. n \in Nat /\ \A i \in 1..n : ms[i] \in M
  OBVIOUS
<1>2. base \in S
  <2>1. <<>> \in Seq(M \cup ResultsOf({"missing"})) /\ <<>> \in Seq(CallIds)
    OBVIOUS
  <2> QED
    BY <2>1, OpenedIsRepair
<1>3. step \in [S \X (1..n) -> S]
  <2>1. ASSUME NEW x \in S \X (1..n)
        PROVE  step[x] \in S
    <3> HIDE DEF S, n
    <3>1. x[1] \in S /\ ms[x[2]] \in M
      BY <1>1
    <3>2. Repaired(x[1], ms[x[2]]) \in S
      BY <3>1, RepairedIs DEF S
    <3> QED
      BY <3>2
  <2> QED
    BY <2>1
<1>4. PICK f : Stepped(f, n, S, base, step)
  <2> HIDE DEF n, S, base, step
  <2> QED
    BY <1>1, <1>2, <1>3, Steps
<1>5. f \in [0..n -> S] /\ f[0] = base /\ \A i \in 1..n : f[i] = step[<<f[i - 1], i>>]
  <2> HIDE DEF n, S, base, step
  <2> QED
    BY <1>4 DEF Stepped
<1>6. \A i \in 1..n : f[i] = Repaired(f[i - 1], ms[i])
  <2> TAKE i \in 1..n
  <2>1. <<f[i - 1], i>> \in S \X (1..n)
    <3> HIDE DEF n, S
    <3> QED
      BY <1>1, <1>5
  <2> HIDE DEF n, S
  <2> QED
    BY <1>5, <2>1
<1>7. Eq(f)
  <2>1. \A i \in 0..n : i # 0 => i \in 1..n
    <3> HIDE DEF n
    <3> QED
      BY <1>1
  <2> HIDE DEF n, S, base
  <2> QED
    BY <1>5, <1>6, <2>1
<1>8. Eq(upTo)
  <2> HIDE DEF Eq
  <2> QED
    BY <1>7
<1>9. upTo[0] = base /\ \A i \in 1..n : upTo[i] = Repaired(upTo[i - 1], ms[i])
  <2>1. \A i \in 1..n : i # 0 /\ i \in 0..n
    <3> HIDE DEF n
    <3> QED
      BY <1>1
  <2>2. 0 \in 0..n
    BY <1>1
  <2> HIDE DEF n, upTo, base
  <2> QED
    BY <1>8, <2>1, <2>2
<1>10. \A i \in 0..n : upTo[i] \in S
  <2>1. ASSUME NEW i \in 1..n, upTo[i - 1] \in S
        PROVE  upTo[i] \in S
    <3> HIDE DEF n, upTo
    <3>1. ms[i] \in M /\ upTo[i] = Repaired(upTo[i - 1], ms[i])
      BY <1>1, <1>9
    <3> QED
      BY <2>1, <3>1, RepairedIs
  <2> HIDE DEF n, upTo, S, base
  <2> QED
    BY <1>1, <1>2, <1>9, <2>1, Stays
<1>11. Repair(ms) = upTo[n].out \o Missing(upTo[n])
  BY DEF Repair
<1>12. Repairing(upTo, ms, M)
  <2> HIDE DEF upTo
  <2> QED
    BY <1>9, <1>10, <1>11 DEF Repairing
<1> QED
  <2> HIDE DEF upTo
  <2> QED
    BY <1>12

\* It keeps messages and adds results that say that there was none.
LEMMA RepairAdds ==
  ASSUME NEW M \in SUBSET Message, NEW ms \in Seq(M)
  PROVE  Repair(ms) \in Seq(M \cup ResultsOf({"missing"}))
<1>1. PICK upTo : Repairing(upTo, ms, M)
  BY RepairSteps
<1> DEFINE r == upTo[Len(ms)]
<1>2. r \in Repairs(M) /\ Repair(ms) = r.out \o Missing(r)
  <2>1. Len(ms) \in 0..Len(ms)
    OBVIOUS
  <2> QED
    BY <1>1, <2>1 DEF Repairing
<1> HIDE DEF r
<1>3. r.out \in Seq(M \cup ResultsOf({"missing"}))
  BY <1>2 DEF Repairs
<1>4. Missing(r) \in Seq(M \cup ResultsOf({"missing"}))
  <2>1. Missing(r) \in Seq(ResultsOf({"missing"}))
    BY <1>2, MissingAre
  <2>2. ResultsOf({"missing"}) \subseteq M \cup ResultsOf({"missing"})
    OBVIOUS
  <2> QED
    BY <2>1, <2>2, SeqMonotonic
<1> QED
  BY <1>2, <1>3, <1>4

\* A path is the path to the parent and the entry: the recursion of Path has a solution
\* where every entry stands under one that was made before.
LEMMA PathIs ==
  ASSUME NEW m \in Nat, NEW s, s.file \in SUBSET (1..m),
         \A n \in s.file : s.up[n] \in Nat /\ s.up[n] < n
  PROVE  /\ Path(s, 0) = <<>>
         /\ \A n \in s.file :
              Path(s, n) = Append(Path(s, IF s.up[n] \in s.file THEN s.up[n] ELSE 0), n)
<1> DEFINE F == s.file
           T == F \cup {0}
           below == [n \in T |-> IF n # 0 /\ s.up[n] \in F THEN s.up[n] ELSE 0]
           step == [x \in Seq(F) \X T |-> IF x[2] = 0 THEN <<>> ELSE Append(x[1], x[2])]
           Eq(f) == f = [n \in F \cup {0} |->
                      IF n = 0 THEN <<>>
                      ELSE Append(f[IF s.up[n] \in F THEN s.up[n] ELSE 0], n)]
           path == CHOOSE f : Eq(f)
<1>1. T \in SUBSET (0..m) /\ 0 \in T /\ 0 \notin F /\ F \subseteq Nat
  OBVIOUS
<1>2. below \in [T -> T] /\ \A n \in T : n # 0 => below[n] < n
  OBVIOUS
<1>3. step \in [Seq(F) \X T -> Seq(F)]
  <2>1. ASSUME NEW x \in Seq(F) \X T
        PROVE  step[x] \in Seq(F)
    <3>1. x[1] \in Seq(F) /\ x[2] \in T
      OBVIOUS
    <3>2. x[2] # 0 => x[2] \in F
      BY <3>1
    <3> HIDE DEF F
    <3> QED
      BY <3>1, <3>2
  <2> QED
    BY <2>1
<1>4. PICK f : Defined(f, T, Seq(F), 0, <<>>, below, step)
  <2>1. <<>> \in Seq(F)
    OBVIOUS
  <2>2. Recursive(T, Seq(F), 0, <<>>, below, step)
    <3> HIDE DEF T, F, below, step
    <3> QED
      BY <1>1, <1>2, <1>3, <2>1 DEF Recursive
  <2> HIDE DEF T, F, below, step
  <2> QED
    BY <1>1, <2>2, Recursion
<1>5. /\ f \in [T -> Seq(F)]
      /\ \A n \in T : f[n] = IF n = 0 THEN <<>> ELSE step[<<f[below[n]], n>>]
  <2> HIDE DEF T, F, below, step
  <2> QED
    BY <1>4 DEF Defined
<1>6. Eq(f)
  <2>1. ASSUME NEW n \in T
        PROVE  f[n] = IF n = 0 THEN <<>>
                      ELSE Append(f[IF s.up[n] \in F THEN s.up[n] ELSE 0], n)
    <3>1. CASE n = 0
      BY <1>5, <3>1
    <3>2. CASE n # 0
      <4>1. below[n] = (IF s.up[n] \in F THEN s.up[n] ELSE 0) /\ below[n] \in T
        BY <1>2, <3>2
      <4>2. <<f[below[n]], n>> \in Seq(F) \X T
        <5> HIDE DEF F, T, below
        <5> QED
          BY <1>5, <4>1
      <4>3. step[<<f[below[n]], n>>] = Append(f[below[n]], n)
        <5> HIDE DEF F, T, below
        <5> QED
          BY <3>2, <4>2
      <4>4. f[n] = step[<<f[below[n]], n>>]
        <5> HIDE DEF F, T, below, step
        <5> QED
          BY <1>5, <3>2
      <4> HIDE DEF F, T, below, step
      <4> QED
        BY <3>2, <4>1, <4>3, <4>4
    <3> QED
      BY <3>1, <3>2
  <2>2. f \in [F \cup {0} -> Seq(F)] /\ T = F \cup {0}
    <3> HIDE DEF F
    <3> QED
      BY <1>5
  <2> HIDE DEF F, T, below, step
  <2> QED
    BY <2>1, <2>2
<1>7. Eq(path)
  <2> HIDE DEF Eq
  <2> QED
    BY <1>6
<1>8. /\ path[0] = <<>>
      /\ \A n \in F : path[n] = Append(path[IF s.up[n] \in F THEN s.up[n] ELSE 0], n)
  <2> HIDE DEF path
  <2> QED
    BY <1>1, <1>7
<1>9. \A n : Path(s, n) = path[n]
  BY DEF Path
<1> QED
  <2> HIDE DEF path
  <2> QED
    BY <1>8, <1>9

\* In a file where every entry stands under one that was made before, the path to an
\* entry is there, and goes up by one entry after the other.
Climbs(path, file, leaf) ==
  /\ path \in Seq(file)
  /\ \A i \in DOMAIN path : path[i] <= leaf
  /\ \A i, j \in DOMAIN path : i < j => path[i] < path[j]

LEMMA PathClimbs ==
  ASSUME NEW m \in Nat, NEW s, s.file \in SUBSET (1..m),
         \A n \in s.file : s.up[n] \in Nat /\ s.up[n] < n,
         NEW leaf \in s.file \cup {0}
  PROVE  Climbs(Path(s, leaf), s.file, leaf)
<1> DEFINE F == s.file
           T == F \cup {0}
           path == [n \in T |-> Path(s, n)]
<1>1. T \in SUBSET (0..m) /\ 0 \in T /\ 0 \notin F /\ F \subseteq Nat
  OBVIOUS
<1>2. /\ path[0] = <<>>
      /\ \A n \in F : path[n] = Append(path[IF s.up[n] \in F THEN s.up[n] ELSE 0], n)
  <2>1. /\ Path(s, 0) = <<>>
        /\ \A n \in F : Path(s, n) = Append(Path(s, IF s.up[n] \in F THEN s.up[n] ELSE 0), n)
    BY PathIs
  <2>2. \A n \in T : path[n] = Path(s, n)
    OBVIOUS
  <2> HIDE DEF path
  <2> QED
    BY <2>1, <2>2
<1> DEFINE K == {k \in Nat : \A n \in T : n <= k => Climbs(path[n], F, n)}
<1>3. Climbs(path[0], F, 0)
  <2> HIDE DEF path
  <2> QED
    BY <1>2 DEF Climbs
<1>4. 0 \in K
  <2>1. \A n \in T : n <= 0 => n = 0
    BY <1>1
  <2> HIDE DEF path, T, F
  <2> QED
    BY <1>3, <2>1
<1>5. ASSUME NEW k \in Nat, k \in K
       PROVE  k + 1 \in K
  <2>1. SUFFICES ASSUME NEW n \in T, n <= k + 1 PROVE Climbs(path[n], F, n)
    <3> HIDE DEF path, T, F
    <3> QED
      OBVIOUS
  <2>2. CASE n = 0
    <3> HIDE DEF path, T, F
    <3> QED
      BY <1>3, <2>2
  <2>3. CASE n # 0
    <3> DEFINE u == IF s.up[n] \in F THEN s.up[n] ELSE 0
               q == path[u]
    <3>1. n \in F /\ n \in Nat /\ u \in T /\ u \in Nat /\ u < n
      BY <1>1, <2>1, <2>3
    <3>2. Climbs(q, F, u)
      <4>1. u <= k
        <5> HIDE DEF u, T, F
        <5> QED
          BY <2>1, <3>1
      <4> HIDE DEF path, T, F, u
      <4> QED
        BY <1>5, <3>1, <4>1
    <3>3. path[n] = Append(q, n)
      <4> HIDE DEF path, T, F
      <4> QED
        BY <1>2, <3>1
    <3>4. /\ q \in Seq(F) /\ Len(q) \in Nat /\ DOMAIN q = 1..Len(q)
          /\ \A i \in 1..Len(q) : q[i] \in Nat /\ q[i] <= u
          /\ \A i, j \in 1..Len(q) : i < j => q[i] < q[j]
      <4>1. q \in Seq(F)
        <5> HIDE DEF q, u, F
        <5> QED
          BY <3>2 DEF Climbs
      <4>2. Len(q) \in Nat /\ DOMAIN q = 1..Len(q) /\ \A i \in 1..Len(q) : q[i] \in F
        <5> HIDE DEF q, F
        <5> QED
          BY <4>1
      <4> HIDE DEF q, u, F
      <4> QED
        BY <1>1, <3>2, <4>1, <4>2 DEF Climbs
    <3>5. /\ Append(q, n) \in Seq(F) /\ DOMAIN Append(q, n) = 1..(Len(q) + 1)
          /\ \A i \in 1..Len(q) : Append(q, n)[i] = q[i]
          /\ Append(q, n)[Len(q) + 1] = n
      <4> HIDE DEF q, u, F
      <4> QED
        BY <3>1, <3>4
    <3>6. \A i \in 1..(Len(q) + 1) : i \in 1..Len(q) \/ i = Len(q) + 1
      <4> HIDE DEF q
      <4> QED
        BY <3>4
    <3>7. \A i \in 1..(Len(q) + 1) : Append(q, n)[i] <= n
      <4> HIDE DEF q, u, F, T
      <4> QED
        BY <3>1, <3>4, <3>5, <3>6
    <3>8. ASSUME NEW i \in 1..(Len(q) + 1), NEW j \in 1..(Len(q) + 1), i < j
          PROVE  Append(q, n)[i] < Append(q, n)[j]
      <4>1. i \in 1..Len(q)
        <5> HIDE DEF q
        <5> QED
          BY <3>4, <3>8
      <4>2. CASE j \in 1..Len(q)
        <5> HIDE DEF q, u, F, T
        <5> QED
          BY <3>4, <3>5, <3>8, <4>1, <4>2
      <4>3. CASE j = Len(q) + 1
        <5> HIDE DEF q, u, F, T
        <5> QED
          BY <3>1, <3>4, <3>5, <4>1, <4>3
      <4> QED
        BY <3>6, <4>2, <4>3
    <3> HIDE DEF q, u, F, T, path
    <3> QED
      BY <3>3, <3>5, <3>7, <3>8 DEF Climbs
  <2> QED
    BY <2>2, <2>3
<1>6. leaf \in K
  <2>1. leaf \in Nat
    OBVIOUS
  <2> HIDE DEF K
  <2> QED
    BY <1>4, <1>5, <2>1, Induction
<1>7. Climbs(path[leaf], F, leaf)
  <2>1. leaf \in T /\ leaf <= leaf
    OBVIOUS
  <2> HIDE DEF path, T, F
  <2> QED
    BY <1>6, <2>1
<1>8. Path(s, leaf) = path[leaf]
  OBVIOUS
<1> QED
  <2> HIDE DEF path
  <2> QED
    BY <1>7, <1>8

\* What two histories have in common at their beginning.
LEMMA CommonBeginning ==
  ASSUME NEW D, NEW s \in Seq(D), NEW t \in Seq(D)
  PROVE  LET k == Len(LongestCommonPrefix({s, t}))
         IN  k \in Nat /\ k <= Len(s) /\ k <= Len(t) /\ \A i \in 1..k : s[i] = t[i]
<1> DEFINE C == CommonPrefixes({s, t})
<1>1. Len(s) \in Nat /\ Len(t) \in Nat
  OBVIOUS
<1>2. ASSUME NEW p \in C
      PROVE  /\ Len(p) \in Nat /\ Len(p) <= Len(s) /\ Len(p) <= Len(t)
             /\ \A i \in 1..Len(p) : s[i] = t[i]
  <2>1. IsPrefix(p, s) /\ IsPrefix(p, t) /\ \E u \in {s, t} : p \in Prefixes(u)
    BY DEF CommonPrefixes
  <2>2. PICK u \in {s, t} : \E l \in 0..Len(u) : p = SubSeq(u, 1, l)
    BY <2>1 DEF Prefixes
  <2>3. u \in Seq(D)
    OBVIOUS
  <2>4. PICK l \in 0..Len(u) : p = SubSeq(u, 1, l)
    BY <2>2
  <2>5. Len(p) \in Nat
    BY <2>3, <2>4
  <2>6. Len(p) <= Len(s) /\ Len(p) <= Len(t) /\ SubSeq(s, 1, Len(p)) = SubSeq(t, 1, Len(p))
    BY <2>1 DEF IsPrefix
  <2>7. \A i \in 1..Len(p) : SubSeq(s, 1, Len(p))[i] = s[i] /\ SubSeq(t, 1, Len(p))[i] = t[i]
    BY <1>1, <2>5, <2>6
  <2> QED
    BY <2>5, <2>6, <2>7
<1>3. <<>> \in C
  <2>1. SubSeq(s, 1, 0) = <<>> /\ 0 \in 0..Len(s)
    BY <1>1
  <2>2. <<>> \in Prefixes(s)
    BY <2>1 DEF Prefixes
  <2>3. \A u \in {s, t} : IsPrefix(<<>>, u)
    <3>1. SubSeq(<<>>, 1, Len(<<>>)) = <<>> /\ SubSeq(t, 1, Len(<<>>)) = <<>>
          /\ SubSeq(s, 1, Len(<<>>)) = <<>> /\ Len(<<>>) = 0
      BY EmptySeq, SubSeqEmpty
    <3> QED
      BY <1>1, <3>1 DEF IsPrefix
  <2> QED
    BY <2>2, <2>3 DEF CommonPrefixes
<1>4. \E p \in C : \A q \in C : Len(q) <= Len(p)
  <2>1. SUFFICES ASSUME \A p \in C : \E q \in C : ~(Len(q) <= Len(p)) PROVE FALSE
    OBVIOUS
  <2> DEFINE K == {k \in Nat : \E p \in C : k <= Len(p)}
  <2> HIDE DEF C
  <2>2. 0 \in K
    BY <1>2, <1>3
  <2>3. ASSUME NEW k \in Nat, k \in K
        PROVE  k + 1 \in K
    <3>1. PICK p \in C : k <= Len(p)
      BY <2>3
    <3>2. PICK q \in C : ~(Len(q) <= Len(p))
      BY <2>1
    <3>3. k + 1 <= Len(q)
      BY <1>2, <3>1, <3>2
    <3> QED
      BY <3>3
  <2>4. Len(s) + 1 \in K
    <3> HIDE DEF K
    <3> QED
      BY <1>1, <2>2, <2>3, Induction
  <2> QED
    BY <1>1, <1>2, <2>4
<1>5. LongestCommonPrefix({s, t}) \in C
  BY <1>4 DEF LongestCommonPrefix
<1> QED
  <2> HIDE DEF C
  <2> QED
    BY <1>2, <1>5

-----------------------------------------------------------------------------
(* What most steps have in common.                                         *)

\* The log only grows.
Grows(new) ==
  /\ new \in Seq(Message) /\ log' \in Seq(Message)
  /\ Len(log') = Len(log) + Len(new) /\ DOMAIN log \subseteq DOMAIN log'
  /\ \A i \in DOMAIN log : log'[i] = log[i]
  /\ \A i \in DOMAIN new : log'[Len(log) + i] = new[i]
  /\ \A i \in DOMAIN log' : i \in DOMAIN log \/ i - Len(log) \in DOMAIN new

LEMMA LogsGrow ==
  ASSUME log \in Seq(Message), NEW new \in Seq(Message), Logs(new)
  PROVE  Grows(new)
<1>1. log' = log \o new
  BY DEF Logs
<1>2. /\ log' \in Seq(Message) /\ Len(log') = Len(log) + Len(new)
      /\ \A i \in 1..(Len(log) + Len(new)) :
           log'[i] = IF i <= Len(log) THEN log[i] ELSE new[i - Len(log)]
  BY <1>1, ConcatProperties
<1>3. /\ Len(log) \in Nat /\ Len(new) \in Nat
      /\ DOMAIN log = 1..Len(log) /\ DOMAIN new = 1..Len(new) /\ DOMAIN log' = 1..Len(log')
  BY <1>2
<1>4. \A i \in DOMAIN log : i \in DOMAIN log' /\ log'[i] = log[i]
  BY <1>2, <1>3
<1>5. ASSUME NEW i \in DOMAIN new
      PROVE  log'[Len(log) + i] = new[i]
  <2>1. Len(log) + i \in 1..(Len(log) + Len(new)) /\ ~(Len(log) + i <= Len(log))
        /\ (Len(log) + i) - Len(log) = i
    BY <1>3
  <2> QED
    BY <1>2, <2>1
<1>6. \A i \in DOMAIN log' : i \in DOMAIN log \/ i - Len(log) \in DOMAIN new
  BY <1>2, <1>3
<1> QED
  BY <1>2, <1>4, <1>5, <1>6 DEF Grows

LEMMA SameGrows ==
  ASSUME log \in Seq(Message), UNCHANGED log
  PROVE  Grows(<<>>)
BY DEF Grows

\* Messages that have been made keep their numbers.
LEMMA IdsStay ==
  ASSUME log \in Seq(Message), NEW new, Grows(new)
  PROVE  /\ Len(log) \in Nat /\ Len(new) \in Nat
         /\ DOMAIN log = 1..Len(log) /\ DOMAIN log' = 1..(Len(log) + Len(new))
         /\ \A ids \in Seq(DOMAIN log) : ids \in Seq(DOMAIN log')
<1>1. Len(log) \in Nat /\ Len(new) \in Nat /\ DOMAIN log = 1..Len(log)
      /\ DOMAIN log' = 1..(Len(log) + Len(new)) /\ DOMAIN log \subseteq DOMAIN log'
  BY DEF Grows
<1>2. ASSUME NEW ids \in Seq(DOMAIN log)
      PROVE  ids \in Seq(DOMAIN log')
  BY <1>1, <1>2, SeqMonotonic
<1> QED
  BY <1>1, <1>2

\* The numbers of new messages.
LEMMA IdsAre ==
  ASSUME NEW from \in Nat, NEW ms \in Seq(Message)
  PROVE  /\ Ids(from, ms) \in Seq(Nat \ {0}) /\ Len(Ids(from, ms)) = Len(ms)
         /\ DOMAIN Ids(from, ms) = 1..Len(ms)
         /\ \A i \in 1..Len(ms) : Ids(from, ms)[i] = from + i
<1>1. Len(ms) \in Nat /\ DOMAIN ms = 1..Len(ms)
  OBVIOUS
<1>2. \A i \in 1..Len(ms) : from + i \in Nat \ {0}
  BY <1>1
<1>3. [i \in 1..Len(ms) |-> from + i] \in Seq(Nat \ {0})
  BY <1>1, <1>2
<1> QED
  BY <1>1, <1>3 DEF Ids

\* What is published next are the new messages, in their order.
Publishes(out) ==
  /\ out \in Seq(DOMAIN log') /\ \A i \in DOMAIN out : out[i] = Len(log) + i

LEMMA IdsPublish ==
  ASSUME log \in Seq(Message), NEW new, Grows(new)
  PROVE  Publishes(Ids(Len(log), new)) /\ Publishes(<<>>)
<1>1. new \in Seq(Message)
  BY DEF Grows
<1>2. Len(log) \in Nat /\ Len(new) \in Nat /\ DOMAIN log' = 1..(Len(log) + Len(new))
  BY IdsStay
<1> DEFINE ids == Ids(Len(log), new)
<1>3. /\ ids \in Seq(Nat \ {0}) /\ DOMAIN ids = 1..Len(new) /\ Len(ids) = Len(new)
      /\ \A i \in 1..Len(new) : ids[i] = Len(log) + i
  BY <1>1, <1>2, IdsAre
<1>4. \A i \in 1..Len(new) : ids[i] \in DOMAIN log'
  <2> HIDE DEF ids
  <2> QED
    BY <1>2, <1>3
<1>5. ids \in Seq(DOMAIN log')
  <2>1. ids = [i \in 1..Len(new) |-> ids[i]]
    <3> HIDE DEF ids
    <3> QED
      BY <1>3
  <2>2. [i \in 1..Len(new) |-> ids[i]] \in Seq(DOMAIN log')
    <3> HIDE DEF ids
    <3> QED
      BY <1>2, <1>4
  <2> QED
    BY <2>1, <2>2
<1>6. Publishes(ids)
  <2> HIDE DEF ids
  <2> QED
    BY <1>3, <1>5 DEF Publishes
<1>7. Publishes(<<>>)
  BY DEF Publishes
<1> QED
  BY <1>6, <1>7

\* A step that only makes messages and publishes them, or goes on publishing.
LEMMA FiledStays ==
  ASSUME Typed, Filed, NEW new, Grows(new), UNCHANGED store,
         run'.out = run.out \/ Publishes(run'.out)
  PROVE  Filed'
<1>1. /\ Len(log) \in Nat /\ DOMAIN log = 1..Len(log) /\ DOMAIN log \subseteq DOMAIN log'
  BY IdsStay DEF Typed, Grows
<1>2. Tree(store)' /\ DOMAIN store'.up \subseteq DOMAIN log'
  BY <1>1 DEF Filed, Tree
<1>3. CASE run'.out = run.out
  BY <1>2, <1>3 DEF Filed, Outgoing, Newer
<1>4. CASE Publishes(run'.out)
  <2>1. /\ run'.out \in Seq(DOMAIN log') /\ \A i \in DOMAIN run'.out : run'.out[i] = Len(log) + i
    BY <1>4 DEF Publishes
  <2>2. \A i \in DOMAIN run'.out : i \in Nat /\ i >= 1
    BY <2>1
  <2>3. \A d \in DOMAIN store.up : d \in Nat /\ d <= Len(log)
    BY <1>1 DEF Filed
  <2>4. Outgoing(store, run'.out)
    <3> DEFINE out == run'.out
    <3>1. \A i \in DOMAIN out : i \in Nat /\ i >= 1 /\ out[i] = Len(log) + i
      BY <2>1, <2>2
    <3> HIDE DEF out
    <3>2. \A i \in DOMAIN out : Newer(store, out[i])
      BY <1>1, <2>3, <3>1 DEF Newer
    <3>3. \A i, j \in DOMAIN out : i < j => out[i] < out[j]
      BY <1>1, <3>1
    <3>4. Outgoing(store, out)
      BY <3>2, <3>3 DEF Outgoing
    <3> QED
      BY <3>4 DEF out
  <2> QED
    BY <1>2, <2>4 DEF Filed
<1> QED
  BY <1>3, <1>4

\* New messages that deny no call that was not denied before.
Harmless(new) ==
  \A k \in DOMAIN new :
    new[k].kind = "result" /\ new[k].how \in {"refused", "truncated"}
    => \E j \in Denials : log[j].of = new[k].of

Busy == {"waiting", "answered", "seq", "par"}

LEMMA DenialsStay ==
  ASSUME log \in Seq(Message), NEW new, Grows(new), Harmless(new)
  PROVE  \A i \in Denials' : \E j \in Denials : log[j].of = log'[i].of
<1> TAKE i \in Denials'
<1>1. i \in DOMAIN log' /\ log'[i].kind = "result" /\ log'[i].how \in {"refused", "truncated"}
  BY DEF Denials, Results
<1>2. CASE i \in DOMAIN log
  <2>1. log'[i] = log[i]
    BY <1>2 DEF Grows
  <2>2. i \in Denials
    BY <1>1, <1>2, <2>1 DEF Denials, Results
  <2> QED
    BY <2>1, <2>2
<1>3. CASE i \notin DOMAIN log
  <2> DEFINE k == i - Len(log)
  <2>1. k \in DOMAIN new
    BY <1>1, <1>3 DEF Grows
  <2>2. Len(log) + k = i
    BY <1>1, IdsStay
  <2>3. log'[i] = new[k]
    <3> HIDE DEF k
    <3> QED
      BY <2>1, <2>2 DEF Grows
  <2> HIDE DEF k
  <2> QED
    BY <1>1, <2>1, <2>3 DEF Harmless
<1> QED
  BY <1>2, <1>3

LEMMA UsedStays ==
  ASSUME log \in Seq(Message), NEW new, Grows(new), Harmless(new), UNCHANGED started
  PROVE  Used' \subseteq Used
BY DenialsStay DEF Used

LEMMA RecordedStays ==
  ASSUME log \in Seq(Message), RanIsRecorded, NEW new, Grows(new), Harmless(new),
         UNCHANGED started, store.file \subseteq DOMAIN log, store.file \subseteq store'.file
  PROVE  RanIsRecorded'
<1> SUFFICES ASSUME NEW c \in started
             PROVE  /\ \E n \in store'.file : /\ log'[n].kind = "assistant"
                                              /\ log'[n].turn = c[1] /\ log'[n].stop = "done"
                    /\ \A i \in Results(log') :
                         log'[i].of = c => log'[i].how \notin {"refused", "truncated"}
  BY DEF RanIsRecorded
<1>1. PICK n \in store.file : log[n].kind = "assistant" /\ log[n].turn = c[1]
       /\ log[n].stop = "done"
  BY DEF RanIsRecorded
<1>2. n \in store'.file /\ log'[n] = log[n]
  BY DEF Grows
<1>3. ASSUME NEW i \in Results(log'), log'[i].of = c, log'[i].how \in {"refused", "truncated"}
      PROVE  FALSE
  <2>1. i \in Denials'
    BY <1>3 DEF Denials, Results
  <2>2. PICK j \in Denials : log[j].of = c
    BY <1>3, <2>1, DenialsStay
  <2> QED
    BY <2>2 DEF RanIsRecorded, Denials
<1> QED
  BY <1>1, <1>2, <1>3

LEMMA UsedAreNumbers ==
  ASSUME IInv
  PROVE  \A t \in Used : t \in Nat /\ t <= spent.requests
<1>1. log \in Seq(Message) /\ started \in SUBSET CallIds
  BY DEF IInv, Typed
<1>2. \A c \in started : c[1] \in Nat
  BY <1>1 DEF CallIds
<1>3. ASSUME NEW i \in Denials
      PROVE  log[i].of[1] \in Nat
  <2>1. log[i] \in Message /\ log[i].kind = "result"
    BY <1>1 DEF Denials, Results
  <2> QED
    BY <2>1, MessageFacts DEF CallIds
<1>4. \A t \in Used : t \in Nat
  BY <1>2, <1>3 DEF Used
<1> QED
  BY <1>4 DEF IInv, Turns

\* Away from an answer and its calls a step needs no more than that.
LEMMA LeavesTurns ==
  ASSUME IInv, NEW new, Grows(new), Harmless(new), UNCHANGED started,
         store.file \subseteq store'.file, spent.requests <= spent'.requests,
         spent'.requests \in Nat, run'.phase \notin Busy
  PROVE  Turns' /\ Batch' /\ RanIsRecorded'
<1>1. log \in Seq(Message) /\ store.file \subseteq DOMAIN log /\ started \in SUBSET CallIds
      /\ spent.requests \in Nat
  BY DEF IInv, Typed, Budgets, Filed, Tree
<1>2. RanIsRecorded'
  BY <1>1, RecordedStays DEF IInv
<1>3. \A t \in Used : t \in Nat /\ t <= spent.requests
  BY UsedAreNumbers
<1>4. Used' \subseteq Used
  BY <1>1, UsedStays
<1>5. \A t \in Used' : t <= spent'.requests
  BY <1>1, <1>3, <1>4
<1> QED
  BY <1>2, <1>5 DEF Turns, Batch, Busy

\* While it goes on in its phase, with no new outcome of a call.
LEMMA TurnsStay ==
  ASSUME IInv, NEW new, Grows(new), Harmless(new), UNCHANGED <<started, tools>>,
         store.file \subseteq store'.file, spent'.requests = spent.requests,
         run'.phase = run.phase, run'.answer = run.answer, run'.next = run.next,
         run'.late = run.late,
         run.phase = "answered" =>
           run'.out = run.out \/ (run'.out = <<>> /\ run.answer \in store'.file)
  PROVE  Turns' /\ Batch' /\ RanIsRecorded'
<1>1. log \in Seq(Message) /\ store.file \subseteq DOMAIN log
  BY DEF IInv, Typed, Filed, Tree
<1>2. RanIsRecorded'
  BY <1>1, RecordedStays DEF IInv
<1>3. Used' \subseteq Used
  BY <1>1, UsedStays
<1>4. run.phase \in {"answered", "seq", "par"} =>
        run.answer \in DOMAIN log /\ log'[run.answer] = log[run.answer]
        /\ run.answer \in DOMAIN log'
  BY DEF IInv, Turns, Grows
<1>5. Turns'
  BY <1>1, <1>3, <1>4 DEF IInv, Turns
<1>6. \A i \in Denials' : \E j \in Denials : log[j].of = log'[i].of
  BY <1>1, DenialsStay
<1>7. Batch'
  BY <1>4, <1>6 DEF IInv, Batch
<1> QED
  BY <1>2, <1>5, <1>7

\* A step that makes no entry, enters no call and denies none, away from an answer.
Quiet(new) ==
  /\ Grows(new) /\ Harmless(new) /\ UNCHANGED <<store, started>>
  /\ mem' \in Seq(DOMAIN log') /\ IsInjective(mem')
  /\ run' \in RunsOver(DOMAIN log') /\ run'.phase \notin Busy
  /\ run'.out = run.out \/ Publishes(run'.out)
  /\ tools' \in [1..MaxCalls -> Outcomes] /\ queue' \in [steer : Nat, follow : Nat]
  /\ spent' \in Budgets /\ spent.requests <= spent'.requests

LEMMA QuietKeeps ==
  ASSUME IInv, NEW new, Quiet(new)
  PROVE  IInv'
<1>1. Typed'
  BY DEF Quiet, Grows, IInv, Typed
<1>2. Filed'
  BY FiledStays DEF Quiet, IInv
<1>3. spent'.requests \in Nat
  BY DEF Quiet, Budgets
<1>4. Turns' /\ Batch' /\ RanIsRecorded'
  BY <1>3, LeavesTurns DEF Quiet
<1> QED
  BY <1>1, <1>2, <1>4 DEF IInv

\* The numbers a history had are those of messages that were made before.
LEMMA NumbersStay ==
  ASSUME log \in Seq(Message), NEW new, Grows(new), NEW ms \in Seq(DOMAIN log), IsInjective(ms),
         NEW ids, Publishes(ids)
  PROVE  /\ ms \in Seq(DOMAIN log') /\ IsInjective(ms)
         /\ ms \o ids \in Seq(DOMAIN log') /\ IsInjective(ms \o ids)
<1> DEFINE all == ms \o ids
<1>1. ms \in Seq(DOMAIN log') /\ Len(log) \in Nat /\ DOMAIN log = 1..Len(log)
  BY IdsStay
<1>2. ids \in Seq(DOMAIN log') /\ \A i \in DOMAIN ids : ids[i] = Len(log) + i
  BY DEF Publishes
<1>3. all \in Seq(DOMAIN log')
  BY <1>1, <1>2
<1>4. ASSUME NEW i \in DOMAIN all, NEW j \in DOMAIN all, all[i] = all[j]
      PROVE  i = j
  <2>1. /\ Len(ms) \in Nat /\ Len(ids) \in Nat /\ DOMAIN all = 1..(Len(ms) + Len(ids))
        /\ DOMAIN ms = 1..Len(ms) /\ DOMAIN ids = 1..Len(ids)
    BY <1>1, <1>2, <1>3
  <2>2. ASSUME NEW k \in DOMAIN all, k > Len(ms)
        PROVE  all[k] = Len(log) + (k - Len(ms))
    <3>1. all[k] = ids[k - Len(ms)] /\ k - Len(ms) \in DOMAIN ids
      BY <1>1, <1>2, <2>1, <2>2
    <3> HIDE DEF all
    <3> QED
      BY <1>2, <3>1
  <2>3. ASSUME NEW k \in DOMAIN all, k <= Len(ms)
        PROVE  all[k] = ms[k] /\ k \in DOMAIN ms /\ ms[k] \in 1..Len(log)
    BY <1>1, <1>2, <2>1, <2>3
  <2> HIDE DEF all
  <2>4. CASE i <= Len(ms) /\ j <= Len(ms)
    BY <1>4, <2>3, <2>4 DEF IsInjective
  <2>5. CASE i > Len(ms) /\ j > Len(ms)
    BY <1>1, <1>4, <2>1, <2>2, <2>5
  <2>6. CASE i <= Len(ms) /\ j > Len(ms)
    BY <1>1, <1>4, <2>1, <2>2, <2>3, <2>6
  <2>7. CASE i > Len(ms) /\ j <= Len(ms)
    BY <1>1, <1>4, <2>1, <2>2, <2>3, <2>7
  <2> QED
    BY <2>1, <2>4, <2>5, <2>6, <2>7
<1>5. IsInjective(all)
  BY <1>4 DEF IsInjective
<1> QED
  BY <1>1, <1>3, <1>5

LEMMA RunsStay ==
  ASSUME log \in Seq(Message), NEW new, Grows(new), NEW r \in RunsOver(DOMAIN log)
  PROVE  r \in RunsOver(DOMAIN log')
<1>1. r.out \in Seq(DOMAIN log')
  BY IdsStay DEF RunsOver
<1> QED
  BY <1>1 DEF RunsOver

LEMMA RecordsAre ==
  ASSUME log \in Seq(Message), NEW ids \in Seq(DOMAIN log)
  PROVE  Records(ids) \in Seq(Message)
<1>1. Len(ids) \in Nat /\ DOMAIN ids = 1..Len(ids) /\ \A i \in 1..Len(ids) : log[ids[i]] \in Message
  OBVIOUS
<1>2. [i \in 1..Len(ids) |-> log[ids[i]]] \in Seq(Message)
  BY <1>1
<1> QED
  BY <1>1, <1>2 DEF Records

\* Messages of the user, and results that say that a call was interrupted.
LEMMA HarmlessMessages ==
  ASSUME NEW new, \A k \in DOMAIN new :
           new[k].kind = "result" => new[k].how \notin {"refused", "truncated"}
  PROVE  Harmless(new)
BY DEF Harmless

-----------------------------------------------------------------------------
(* The steps.                                                              *)

LEMMA InitHolds == Init => IInv
<1> SUFFICES ASSUME Init PROVE IInv
  OBVIOUS
<1>1. log = <<>> /\ mem = <<>> /\ store = EmptyStore /\ run = Idle /\ started = {}
  BY DEF Init
<1>2. Typed
  <2>1. log \in Seq(Message) /\ mem \in Seq(DOMAIN log) /\ IsInjective(mem)
    BY <1>1 DEF IsInjective
  <2>2. run \in RunsOver(DOMAIN log)
    BY <1>1 DEF Idle, RunsOver, Phases
  <2>3. tools \in [1..MaxCalls -> Outcomes] /\ started \in SUBSET CallIds
    BY DEF Init, NoTools, Outcomes
  <2>4. queue \in [steer : Nat, follow : Nat] /\ spent \in Budgets
    BY SessionAssumption DEF Init, Budgets
  <2> QED
    BY <2>1, <2>2, <2>3, <2>4 DEF Typed
<1>3. Filed
  <2>1. store.up = <<>> /\ store.file = {} /\ DOMAIN store.up = {}
    BY <1>1 DEF EmptyStore
  <2>2. Tree(store)
    BY <1>1, <2>1 DEF EmptyStore, Tree, IsInjective
  <2>3. Outgoing(store, run.out)
    BY <1>1 DEF Idle, Outgoing
  <2> QED
    BY <2>1, <2>2, <2>3 DEF Filed
<1>4. Denials = {} /\ Used = {}
  BY <1>1 DEF Denials, Used, Results
<1>5. Turns /\ Batch /\ RanIsRecorded
  BY <1>1, <1>4 DEF Turns, Batch, RanIsRecorded, Idle
<1> QED
  BY <1>2, <1>3, <1>5 DEF IInv

\* What every step may use.
LEMMA Facts ==
  ASSUME IInv
  PROVE  /\ log \in Seq(Message) /\ Len(log) \in Nat /\ DOMAIN log = 1..Len(log)
         /\ mem \in Seq(DOMAIN log) /\ IsInjective(mem)
         /\ run \in RunsOver(DOMAIN log) /\ run.out \in Seq(DOMAIN log) /\ run.next \in Nat \ {0}
         /\ run.answer \in Nat
         /\ tools \in [1..MaxCalls -> Outcomes] /\ NoTools \in [1..MaxCalls -> Outcomes]
         /\ queue \in [steer : Nat, follow : Nat]
         /\ started \in SUBSET CallIds
         /\ spent \in Budgets /\ spent.requests \in Nat /\ spent.calls \in 0..MaxCalls
         /\ MaxCalls \in Nat
BY SessionAssumption, SMTT(40) DEF IInv, Typed, RunsOver, Budgets, NoTools, Outcomes

LEMMA Spends ==
  ASSUME IInv
  PROVE  /\ [spent EXCEPT !.closes = @ + 1] \in Budgets
         /\ [spent EXCEPT !.cancels = @ + 1] \in Budgets
         /\ [spent EXCEPT !.queued = @ + 1] \in Budgets
         /\ [spent EXCEPT !.prompts = @ + 1] \in Budgets
         /\ [spent EXCEPT !.restarts = @ + 1] \in Budgets
         /\ [spent EXCEPT !.requests = @ + 1] \in Budgets
         /\ [spent EXCEPT !.faults = @ + 1] \in Budgets
         /\ [spent EXCEPT !.faults = @ + 0] \in Budgets
<1>1. /\ spent.requests + 1 \in Nat /\ spent.prompts + 1 \in Nat /\ spent.queued + 1 \in Nat
      /\ spent.cancels + 1 \in Nat /\ spent.closes + 1 \in Nat /\ spent.faults + 1 \in Nat
      /\ spent.restarts + 1 \in Nat /\ spent.faults + 0 \in Nat
  <2>1. /\ spent.requests \in Nat /\ spent.prompts \in Nat /\ spent.queued \in Nat
        /\ spent.cancels \in Nat /\ spent.closes \in Nat /\ spent.faults \in Nat
        /\ spent.restarts \in Nat
    BY Facts DEF Budgets
  <2>2. \A n \in Nat : n + 1 \in Nat /\ n + 0 \in Nat
    OBVIOUS
  <2> QED
    BY <2>1, <2>2
<1>2. spent \in Budgets
  BY Facts
<1>3. ASSUME NEW n \in Nat
      PROVE  /\ [spent EXCEPT !.closes = n] \in Budgets /\ [spent EXCEPT !.cancels = n] \in Budgets
             /\ [spent EXCEPT !.queued = n] \in Budgets /\ [spent EXCEPT !.prompts = n] \in Budgets
             /\ [spent EXCEPT !.restarts = n] \in Budgets /\ [spent EXCEPT !.faults = n] \in Budgets
             /\ [spent EXCEPT !.requests = n] \in Budgets
  BY <1>2 DEF Budgets
<1> QED
  BY <1>1, <1>3

\* Nothing is logged, and the history stays.
LEMMA QuietHere ==
  ASSUME IInv, UNCHANGED <<log, mem, store, started>>,
         run' \in RunsOver(DOMAIN log), run'.phase \notin Busy, run'.out \in {run.out, <<>>},
         tools' \in [1..MaxCalls -> Outcomes], queue' \in [steer : Nat, follow : Nat],
         spent' \in Budgets, spent.requests <= spent'.requests
  PROVE  IInv'
<1>1. Grows(<<>>) /\ Harmless(<<>>)
  BY Facts, SameGrows DEF Harmless
<1>2. Publishes(<<>>)
  BY DEF Publishes
<1>3. Quiet(<<>>)
  BY <1>1, <1>2, Facts DEF Quiet
<1> QED
  BY <1>3, QuietKeeps

\* The next turn begins.
LEMMA GoesKeeps ==
  ASSUME IInv, NEW polled \in {<<>>, <<Plain>>}, Goes(polled),
         UNCHANGED <<mem, store, tools, started, spent>>,
         queue' \in [steer : Nat, follow : Nat]
  PROVE  IInv'
<1>1. polled \in Seq(Message)
  <2>1. Plain \in Message
    BY DEF Message
  <2>2. <<>> \in Seq(Message) /\ <<Plain>> \in Seq(Message)
    BY <2>1
  <2> QED
    BY <2>2
<1>2. Grows(polled)
  BY <1>1, Facts, LogsGrow DEF Goes
<1>3. Harmless(polled)
  BY DEF Harmless, Plain
<1>4. Publishes(Ids(Len(log), polled))
  BY <1>2, Facts, IdsPublish
<1>5. run' = [run EXCEPT !.phase = "turn", !.out = Ids(Len(log), polled),
                    !.emptied = @ \/ run.blank]
  BY DEF Goes
<1>6. run' \in RunsOver(DOMAIN log')
  <2>1. run \in RunsOver(DOMAIN log')
    BY <1>2, Facts, RunsStay
  <2>2. Ids(Len(log), polled) \in Seq(DOMAIN log')
    BY <1>4 DEF Publishes
  <2>3. (run.emptied \/ run.blank) \in BOOLEAN
    BY <2>1 DEF RunsOver
  <2> QED
    BY <1>5, <2>1, <2>2, <2>3 DEF RunsOver, Phases
<1>7. run'.phase = "turn" /\ run'.out = Ids(Len(log), polled)
  BY <1>5, Facts DEF RunsOver
<1>8. mem \in Seq(DOMAIN log') /\ IsInjective(mem)
  BY <1>2, <1>4, Facts, NumbersStay
<1>9. Quiet(polled)
  BY <1>2, <1>3, <1>4, <1>6, <1>7, <1>8, Facts DEF Quiet, Busy
<1> QED
  BY <1>9, QuietKeeps

LEMMA PolledKeeps ==
  ASSUME IInv, NEW which \in {"steer", "follow"}, Polled(which),
         UNCHANGED <<mem, store, tools, started, spent>>
  PROVE  IInv'
<1>1. queue' \in [steer : Nat, follow : Nat]
  BY Facts DEF Polled
<1> QED
  BY <1>1, GoesKeeps DEF Polled

LEMMA StartTurnKeeps == IInv /\ StartTurn => IInv'
<1> SUFFICES ASSUME IInv, StartTurn PROVE IInv'
  OBVIOUS
<1>1. CASE Polled("steer")
  BY <1>1, PolledKeeps DEF StartTurn
<1>2. CASE Goes(<<>>) /\ UNCHANGED queue
  BY <1>2, Facts, GoesKeeps DEF StartTurn
<1> QED
  BY <1>1, <1>2 DEF StartTurn

LEMMA NextTurnKeeps == IInv /\ NextTurn => IInv'
<1> SUFFICES ASSUME IInv, NextTurn PROVE IInv'
  OBVIOUS
<1>1. UNCHANGED <<mem, store, tools, started, spent>>
  BY DEF NextTurn
<1>2. CASE \E which \in {"steer", "follow"} : Polled(which)
  BY <1>1, <1>2, PolledKeeps
<1>3. CASE \E polled \in {<<>>, <<Plain>>} : Goes(polled) /\ UNCHANGED queue
  BY <1>1, <1>3, Facts, GoesKeeps
<1>4. CASE run' = [run EXCEPT !.phase = "ended"] /\ UNCHANGED <<queue, log>>
  <2>1. run' \in RunsOver(DOMAIN log) /\ run'.phase = "ended" /\ run'.out = run.out
    BY <1>4, Facts DEF RunsOver, Phases
  <2> QED
    BY <1>1, <1>4, <2>1, Facts, QuietHere DEF Busy
<1> QED
  BY <1>2, <1>3, <1>4 DEF NextTurn

LEMMA PausesKeeps == IInv /\ Pauses => IInv'
<1> SUFFICES ASSUME IInv, Pauses PROVE IInv'
  OBVIOUS
<1>1. run' \in RunsOver(DOMAIN log) /\ run'.phase = "ended" /\ run'.out = run.out
  BY Facts DEF Pauses, RunsOver, Phases
<1> QED
  BY <1>1, Facts, QuietHere DEF Pauses, Busy

LEMMA FailedEndsKeeps == IInv /\ FailedEnds => IInv'
<1> SUFFICES ASSUME IInv, FailedEnds PROVE IInv'
  OBVIOUS
<1>1. run' \in RunsOver(DOMAIN log) /\ run'.phase = "ended" /\ run'.out = run.out
  BY Facts DEF FailedEnds, RunsOver, Phases
<1> QED
  BY <1>1, Facts, QuietHere DEF FailedEnds, Busy

LEMMA WordsEndKeeps == IInv /\ WordsEnd => IInv'
<1> SUFFICES ASSUME IInv, WordsEnd PROVE IInv'
  OBVIOUS
<1>1. run' \in RunsOver(DOMAIN log) /\ run'.phase = "turnEnd" /\ run'.out = run.out
  BY Facts DEF WordsEnd, RunsOver, Phases
<1> QED
  BY <1>1, Facts, QuietHere DEF WordsEnd, Busy

LEMMA CloseKeeps == IInv /\ Close => IInv'
<1> SUFFICES ASSUME IInv, Close PROVE IInv'
  OBVIOUS
<1>1. run' \in RunsOver(DOMAIN log) /\ run'.phase = "ended" /\ run'.out = <<>>
  <2>1. <<>> \in Seq(DOMAIN log)
    OBVIOUS
  <2> QED
    BY <2>1, Facts DEF Close, RunsOver, Phases
<1>2. spent' \in Budgets
  BY Spends DEF Close
<1>3. spent'.requests = spent.requests
  BY Facts DEF Close, Budgets
<1> QED
  BY <1>1, <1>2, <1>3, Facts, QuietHere DEF Close, Busy

LEMMA SeqEndsKeeps == IInv /\ SeqEnds => IInv'
<1> SUFFICES ASSUME IInv, SeqEnds PROVE IInv'
  OBVIOUS
<1>1. PICK more \in {TRUE, ~Terminates} : run' = [run EXCEPT !.phase = "turnEnd", !.more = more]
  BY DEF SeqEnds
<1>2. more \in BOOLEAN
  BY DEF Terminates
<1>3. run' \in RunsOver(DOMAIN log) /\ run'.phase = "turnEnd" /\ run'.out = run.out
  BY <1>1, <1>2, Facts DEF RunsOver, Phases
<1> QED
  BY <1>3, Facts, QuietHere DEF SeqEnds, Busy

LEMMA QueueKeeps ==
  ASSUME IInv, NEW which \in {"steer", "follow"}, Queue(which)
  PROVE  IInv'
<1>1. queue' \in [steer : Nat, follow : Nat]
  <2>1. queue.steer + 1 \in Nat /\ queue.follow + 1 \in Nat
    BY Facts
  <2> QED
    BY <2>1, Facts DEF Queue
<1>2. spent' \in Budgets /\ spent'.requests = spent.requests
  <2>1. spent' \in Budgets
    BY Spends DEF Queue
  <2> QED
    BY <2>1, Facts DEF Queue, Budgets
<1>3. run' = run /\ run.phase \in {"start", "turnEnd"}
  BY DEF Queue, Ready
<1> QED
  BY <1>1, <1>2, <1>3, Facts, QuietHere DEF Queue, Busy

\* A history without its last message.
LEMMA FrontKeeps ==
  ASSUME NEW D, NEW s \in Seq(D), IsInjective(s)
  PROVE  /\ Front(s) \in Seq(D) /\ IsInjective(Front(s))
         /\ Range(Front(s)) \subseteq Range(s)
<1>1. Len(s) \in Nat /\ DOMAIN s = 1..Len(s) /\ \A i \in 1..Len(s) : s[i] \in D
  OBVIOUS
<1>2. CASE Len(s) = 0
  <2>1. SubSeq(s, 1, Len(s) - 1) = <<>>
    BY <1>2
  <2> QED
    BY <2>1 DEF Front, IsInjective, Range
<1>3. CASE Len(s) # 0
  <2> DEFINE f == SubSeq(s, 1, Len(s) - 1)
  <2>1. f \in Seq(D) /\ DOMAIN f = 1..(Len(s) - 1) /\ \A i \in 1..(Len(s) - 1) : f[i] = s[i]
    BY <1>1, <1>3
  <2>2. \A i \in 1..(Len(s) - 1) : i \in DOMAIN s
    BY <1>1
  <2>3. IsInjective(f)
    <3> HIDE DEF f
    <3> QED
      BY <2>1, <2>2 DEF IsInjective
  <2>4. Range(f) \subseteq Range(s)
    <3> HIDE DEF f
    <3> QED
      BY <2>1, <2>2 DEF Range
  <2> QED
    BY <2>1, <2>3, <2>4 DEF Front
<1> QED
  BY <1>2, <1>3

\* The numbers of new messages that are made in two parts.
LEMMA IdsJoin ==
  ASSUME NEW a \in Seq(Message), NEW b \in Seq(Message), NEW from \in Nat
  PROVE  Ids(from, a) \o Ids(from + Len(a), b) = Ids(from, a \o b)
<1> DEFINE x == Ids(from, a)
           y == Ids(from + Len(a), b)
           z == Ids(from, a \o b)
<1>1. Len(a) \in Nat /\ Len(b) \in Nat /\ from + Len(a) \in Nat
      /\ a \o b \in Seq(Message) /\ Len(a \o b) = Len(a) + Len(b)
  OBVIOUS
<1>2. /\ x \in Seq(Nat \ {0}) /\ Len(x) = Len(a) /\ \A i \in 1..Len(a) : x[i] = from + i
  BY IdsAre
<1>3. /\ y \in Seq(Nat \ {0}) /\ Len(y) = Len(b)
      /\ \A i \in 1..Len(b) : y[i] = from + Len(a) + i
  BY <1>1, IdsAre
<1>4. /\ z \in Seq(Nat \ {0}) /\ Len(z) = Len(a) + Len(b)
      /\ \A i \in 1..(Len(a) + Len(b)) : z[i] = from + i
  BY <1>1, IdsAre
<1> HIDE DEF x, y, z
<1>5. x \o y \in Seq(Nat \ {0}) /\ Len(x \o y) = Len(a) + Len(b)
  <2> DEFINE P == Nat \ {0}
  <2>1. x \in Seq(P) /\ y \in Seq(P)
    BY <1>2, <1>3
  <2> HIDE DEF P
  <2>2. x \o y \in Seq(P) /\ Len(x \o y) = Len(x) + Len(y)
    BY <2>1, ConcatProperties
  <2> QED
    BY <1>2, <1>3, <2>2 DEF P
<1>6. ASSUME NEW i \in 1..(Len(a) + Len(b))
      PROVE  (x \o y)[i] = from + i
  <2>1. CASE i <= Len(a)
    BY <1>1, <1>2, <1>3, <2>1
  <2>2. CASE ~(i <= Len(a))
    <3>1. i - Len(a) \in 1..Len(b) /\ from + Len(a) + (i - Len(a)) = from + i
      BY <1>1, <2>2
    <3>2. (x \o y)[i] = y[i - Len(a)]
      BY <1>1, <1>2, <1>3, <2>2
    <3> QED
      BY <1>3, <3>1, <3>2
  <2> QED
    BY <2>1, <2>2
<1>7. x \o y = z
  <2> DEFINE P == Nat \ {0}
             xy == x \o y
  <2>1. /\ xy \in Seq(P) /\ z \in Seq(P) /\ Len(xy) = Len(z)
        /\ \A i \in 1..Len(xy) : xy[i] = z[i]
    BY <1>4, <1>5, <1>6
  <2> HIDE DEF P, xy
  <2>2. xy = z
    BY <2>1, SeqEqual, Zenon
  <2> QED
    BY <2>2 DEF xy
<1> QED
  BY <1>7 DEF x, y, z

\* What a run begins with: results of calls that were interrupted, in the history
\* already, and the prompts.
Begins(ms, new, ids, out) ==
  /\ Grows(new) /\ Harmless(new) /\ Publishes(ids) /\ Publishes(out)
  /\ mem' = ms \o ids /\ run' = [Idle EXCEPT !.phase = "start", !.out = out]
  /\ \A i \in DOMAIN ids : log'[ids[i]] \in ResultsOf({"interrupted"})

LEMMA BeginMakes ==
  ASSUME IInv, NEW ms \in Seq(DOMAIN log), NEW prompts \in {<<>>, <<Plain>>},
         Begin(ms, prompts)
  PROVE  \E new, ids, out : Begins(ms, new, ids, out)
<1> DEFINE repairs == Interrupted(Records(ms))
           new == repairs \o prompts
           ids == Ids(Len(log), repairs)
           out == ids \o Ids(Len(log) + Len(repairs), prompts)
<1>1. repairs \in Seq(ResultsOf({"interrupted"})) /\ repairs \in Seq(Message)
  <2>1. Records(ms) \in Seq(Message)
    BY Facts, RecordsAre
  <2>2. repairs \in Seq(ResultsOf({"interrupted"}))
    BY <2>1, InterruptedAre
  <2>3. ResultsOf({"interrupted"}) \subseteq Message
    BY DEF ResultsOf, Message, Hows
  <2> HIDE DEF repairs
  <2> QED
    BY <2>2, <2>3, SeqMonotonic
<1>2. prompts \in Seq(Message)
  <2>1. Plain \in Message
    BY DEF Message
  <2>2. <<>> \in Seq(Message) /\ <<Plain>> \in Seq(Message)
    BY <2>1
  <2> QED
    BY <2>2
<1>3. Logs(new) /\ mem' = ms \o ids /\ run' = [Idle EXCEPT !.phase = "start", !.out = out]
  BY DEF Begin
<1> HIDE DEF repairs
<1>4. new \in Seq(Message) /\ Len(new) = Len(repairs) + Len(prompts)
      /\ Len(repairs) \in Nat /\ Len(prompts) \in Nat
      /\ \A k \in DOMAIN new : \/ k \in DOMAIN repairs /\ new[k] = repairs[k]
                               \/ k - Len(repairs) \in DOMAIN prompts
                                  /\ new[k] = prompts[k - Len(repairs)]
  BY <1>1, <1>2
<1>5. Grows(new)
  <2> HIDE DEF new
  <2> QED
    BY <1>3, <1>4, Facts, LogsGrow
<1>6. Harmless(new)
  <2>1. ASSUME NEW k \in DOMAIN new
        PROVE  new[k].kind = "result" => new[k].how \notin {"refused", "truncated"}
    <3>1. CASE k \in DOMAIN repairs /\ new[k] = repairs[k]
      <4>1. repairs[k] \in ResultsOf({"interrupted"})
        BY <1>1, <3>1
      <4> QED
        BY <3>1, <4>1 DEF ResultsOf
    <3>2. CASE k - Len(repairs) \in DOMAIN prompts /\ new[k] = prompts[k - Len(repairs)]
      <4> DEFINE j == k - Len(repairs)
      <4>1. prompts[j] = Plain
        <5> HIDE DEF j
        <5>1. j \in DOMAIN prompts
          BY <3>2 DEF j
        <5>2. \A i \in DOMAIN prompts : prompts[i] = Plain
          <6>1. \A i \in DOMAIN <<Plain>> : <<Plain>>[i] = Plain
            OBVIOUS
          <6>2. \A i \in DOMAIN <<>> : <<>>[i] = Plain
            OBVIOUS
          <6> QED
            BY <6>1, <6>2
        <5> QED
          BY <5>1, <5>2
      <4> QED
        BY <3>2, <4>1 DEF Plain
    <3> QED
      BY <1>4, <3>1, <3>2
  <2> HIDE DEF new
  <2> QED
    BY <2>1, HarmlessMessages
<1>7. Publishes(out)
  <2>1. out = Ids(Len(log), new)
    BY <1>1, <1>2, Facts, IdsJoin
  <2> HIDE DEF out, new
  <2> QED
    BY <1>5, <2>1, Facts, IdsPublish
<1>8. Publishes(ids)
  <2>1. ids \in Seq(Nat \ {0}) /\ Len(ids) = Len(repairs) /\ DOMAIN ids = 1..Len(repairs)
        /\ \A i \in 1..Len(repairs) : ids[i] = Len(log) + i
    BY <1>1, Facts, IdsAre
  <2>2. DOMAIN log' = 1..(Len(log) + Len(new)) /\ Len(log) \in Nat
    <3> HIDE DEF new
    <3> QED
      BY <1>5, Facts, IdsStay
  <2> HIDE DEF ids, new
  <2>3. \A i \in 1..Len(repairs) : ids[i] \in DOMAIN log'
    BY <1>4, <2>1, <2>2
  <2>4. ids \in Seq(DOMAIN log')
    <3>1. [i \in 1..Len(repairs) |-> ids[i]] \in Seq(DOMAIN log')
      BY <1>4, <2>3
    <3>2. ids = [i \in 1..Len(repairs) |-> ids[i]]
      BY <2>1
    <3> QED
      BY <3>1, <3>2
  <2> QED
    BY <2>1, <2>4 DEF Publishes
<1>9. \A i \in DOMAIN ids : log'[ids[i]] \in ResultsOf({"interrupted"})
  <2>1. /\ DOMAIN ids = 1..Len(repairs) /\ \A i \in 1..Len(repairs) : ids[i] = Len(log) + i
    BY <1>1, Facts, IdsAre
  <2>2. \A i \in 1..Len(repairs) : i \in DOMAIN new /\ new[i] = repairs[i]
    BY <1>1, <1>2
  <2>3. \A i \in 1..Len(repairs) : repairs[i] \in ResultsOf({"interrupted"})
    BY <1>1
  <2> HIDE DEF ids, new
  <2> QED
    BY <1>5, <2>1, <2>2, <2>3 DEF Grows
<1> HIDE DEF ids, out, new
<1> QED
  BY <1>3, <1>5, <1>6, <1>7, <1>8, <1>9 DEF Begins

\* A run begins.
LEMMA BeginKeeps ==
  ASSUME IInv, NEW ms \in Seq(DOMAIN log), IsInjective(ms), NEW prompts \in {<<>>, <<Plain>>},
         Begin(ms, prompts), UNCHANGED <<store, tools, queue, started>>,
         spent' \in Budgets, spent'.requests = spent.requests
  PROVE  IInv'
<1>1. PICK new, ids, out : Begins(ms, new, ids, out)
  BY BeginMakes
<1>2. mem' \in Seq(DOMAIN log') /\ IsInjective(mem')
  BY <1>1, Facts, NumbersStay DEF Begins
<1>3. run' \in RunsOver(DOMAIN log') /\ run'.phase = "start" /\ run'.out = out
  <2>1. out \in Seq(DOMAIN log') /\ 1 \in Nat \ {0}
    BY <1>1 DEF Begins, Publishes
  <2> QED
    BY <1>1, <2>1 DEF Begins, Idle, RunsOver, Phases
<1>4. Quiet(new)
  BY <1>1, <1>2, <1>3, Facts DEF Begins, Quiet, Busy
<1> QED
  BY <1>4, QuietKeeps

\* Entries that were made before are written again.
LEMMA WritesAgain ==
  ASSUME IInv, UNCHANGED <<log, mem, store, queue, started>>,
         run' \in RunsOver(DOMAIN log), run'.phase \notin Busy,
         \A i \in DOMAIN run'.out : run'.out[i] \in DOMAIN store.up,
         tools' \in [1..MaxCalls -> Outcomes],
         spent' \in Budgets, spent'.requests = spent.requests
  PROVE  IInv'
<1>1. Grows(<<>>) /\ Harmless(<<>>)
  BY Facts, SameGrows DEF Harmless
<1>2. Typed'
  BY Facts DEF Typed
<1>3. Filed'
  BY DEF IInv, Filed, Tree, Outgoing, Newer
<1>4. Turns' /\ Batch' /\ RanIsRecorded'
  BY <1>1, Facts, LeavesTurns
<1> QED
  BY <1>2, <1>3, <1>4 DEF IInv

LEMMA PromptKeeps == IInv /\ Prompt => IInv'
<1> SUFFICES ASSUME IInv, Prompt PROVE IInv'
  OBVIOUS
<1>1. spent' \in Budgets /\ spent'.requests = spent.requests
  <2>1. spent' \in Budgets
    BY Spends DEF Prompt
  <2> QED
    BY <2>1, Facts DEF Prompt, Budgets
<1>2. CASE store.writes = <<>>
  <2>1. Begin(mem, <<Plain>>) /\ UNCHANGED <<store, tools, queue, started>>
    BY <1>2 DEF Prompt
  <2> QED
    BY <1>1, <2>1, Facts, BeginKeeps
<1>3. CASE store.writes # <<>>
  <2>1. /\ run' = [Idle EXCEPT !.phase = "flush", !.out = store.writes]
        /\ UNCHANGED <<log, mem, store, tools, queue, started>>
    BY <1>3 DEF Prompt
  <2>2. store.writes \in Seq(DOMAIN store.up) /\ DOMAIN store.up \subseteq DOMAIN log
    BY DEF IInv, Filed, Tree
  <2>3. store.writes \in Seq(DOMAIN log) /\ 1 \in Nat \ {0}
    BY <2>2, SeqMonotonic
  <2>4. run' \in RunsOver(DOMAIN log) /\ run'.out = store.writes /\ run'.phase = "flush"
    BY <2>1, <2>3 DEF RunsOver, Idle, Phases
  <2>5. \A i \in DOMAIN run'.out : run'.out[i] \in DOMAIN store.up
    BY <2>2, <2>4
  <2> QED
    BY <1>1, <2>1, <2>4, <2>5, Facts, WritesAgain DEF Busy
<1> QED
  BY <1>2, <1>3

LEMMA FlushedKeeps == IInv /\ Flushed => IInv'
<1> SUFFICES ASSUME IInv, Flushed PROVE IInv'
  OBVIOUS
<1> QED
  BY Facts, BeginKeeps DEF Flushed

LEMMA RetryKeeps == IInv /\ Retry => IInv'
<1> SUFFICES ASSUME IInv, Retry PROVE IInv'
  OBVIOUS
<1>1. Front(mem) \in Seq(DOMAIN log) /\ IsInjective(Front(mem))
  BY Facts, FrontKeeps
<1> QED
  BY <1>1, Facts, BeginKeeps DEF Retry

LEMMA InterruptedHarmless ==
  ASSUME IInv, NEW ms \in Seq(DOMAIN log)
  PROVE  Interrupted(Records(ms)) \in Seq(Message) /\ Harmless(Interrupted(Records(ms)))
<1> DEFINE repairs == Interrupted(Records(ms))
<1>1. repairs \in Seq(ResultsOf({"interrupted"}))
  <2>1. Records(ms) \in Seq(Message)
    BY Facts, RecordsAre
  <2> QED
    BY <2>1, InterruptedAre
<1> HIDE DEF repairs
<1>2. ResultsOf({"interrupted"}) \subseteq Message
  BY DEF ResultsOf, Message, Hows
<1>3. repairs \in Seq(Message)
  BY <1>1, <1>2, SeqMonotonic
<1>4. \A k \in DOMAIN repairs : repairs[k] \in ResultsOf({"interrupted"})
  BY <1>1
<1>5. Harmless(repairs)
  BY <1>4 DEF Harmless, ResultsOf
<1> QED
  BY <1>3, <1>5 DEF repairs

LEMMA FinishKeeps == IInv /\ Finish => IInv'
<1> SUFFICES ASSUME IInv, Finish PROVE IInv'
  OBVIOUS
<1> DEFINE repairs == IF run.cancelled THEN Interrupted(Records(mem)) ELSE <<>>
           ids == Ids(Len(log), repairs)
<1>1. repairs \in Seq(Message) /\ Harmless(repairs)
  <2>1. <<>> \in Seq(Message) /\ Harmless(<<>>)
    BY DEF Harmless
  <2> QED
    BY <2>1, Facts, InterruptedHarmless
<1>2. PICK drop \in {FALSE, run.error /\ repairs = <<>>} :
        mem' = IF drop THEN Front(mem) ELSE mem \o ids
  BY DEF Finish
<1>3. Logs(repairs) /\ run' = [run EXCEPT !.phase = "closing", !.out = ids]
      /\ UNCHANGED <<store, tools, queue, started, spent>>
  BY DEF Finish
<1>4. mem' \in {Front(mem), mem \o ids}
  BY <1>2
<1> HIDE DEF repairs
<1>5. Grows(repairs)
  BY <1>1, <1>3, Facts, LogsGrow
<1>6. Publishes(ids)
  BY <1>5, Facts, IdsPublish
<1> HIDE DEF ids
<1>7. mem' \in Seq(DOMAIN log') /\ IsInjective(mem')
  <2>1. mem \o ids \in Seq(DOMAIN log') /\ IsInjective(mem \o ids)
    BY <1>5, <1>6, Facts, NumbersStay
  <2>2. Front(mem) \in Seq(DOMAIN log) /\ IsInjective(Front(mem))
    BY Facts, FrontKeeps
  <2>3. Front(mem) \in Seq(DOMAIN log')
    BY <1>5, <2>2, Facts, IdsStay
  <2> QED
    BY <1>4, <2>1, <2>2, <2>3
<1>8. run' \in RunsOver(DOMAIN log') /\ run'.phase = "closing" /\ run'.out = ids
  <2>1. run \in RunsOver(DOMAIN log')
    BY <1>5, Facts, RunsStay
  <2>2. ids \in Seq(DOMAIN log')
    BY <1>6 DEF Publishes
  <2> QED
    BY <1>3, <2>1, <2>2 DEF RunsOver, Phases
<1>9. Quiet(repairs)
  BY <1>1, <1>3, <1>5, <1>6, <1>7, <1>8, Facts DEF Quiet, Busy
<1> QED
  BY <1>9, QuietKeeps

LEMMA SettleKeeps == IInv /\ Settle => IInv'
<1> SUFFICES ASSUME IInv, Settle PROVE IInv'
  OBVIOUS
<1> DEFINE unsaved == Within(mem, Range(store.writes))
<1>1. unsaved \in Seq(DOMAIN log) /\ Range(unsaved) = Range(mem) \cap Range(store.writes)
  BY Facts, WithinKeeps
<1>2. /\ run' \in {[run EXCEPT !.phase = "settle", !.out = unsaved], Idle}
      /\ tools' = NoTools /\ UNCHANGED <<log, mem, store, queue, started, spent>>
  BY DEF Settle
<1>3. Range(store.writes) \subseteq DOMAIN store.up
  BY DEF IInv, Filed, Tree, Range
<1> HIDE DEF unsaved
<1>4. run' \in RunsOver(DOMAIN log) /\ run'.phase \notin Busy /\ run'.out \in {unsaved, <<>>}
  <2>1. CASE run' = [run EXCEPT !.phase = "settle", !.out = unsaved]
    BY <1>1, <2>1, Facts DEF RunsOver, Phases, Busy
  <2>2. CASE run' = Idle
    BY <2>2 DEF Idle, RunsOver, Phases, Busy
  <2> QED
    BY <1>2, <2>1, <2>2
<1>5. \A i \in DOMAIN unsaved : unsaved[i] \in DOMAIN store.up
  BY <1>1, <1>3 DEF Range
<1>6. \A i \in DOMAIN run'.out : run'.out[i] \in DOMAIN store.up
  BY <1>4, <1>5
<1> QED
  BY <1>2, <1>4, <1>6, Facts, WritesAgain

\* One new message, that is published next.
LEMMA OneMore ==
  ASSUME IInv, NEW m \in Message, Logs(<<m>>)
  PROVE  /\ Grows(<<m>>) /\ Publishes(<<Len(log) + 1>>)
         /\ Len(log) + 1 \in DOMAIN log' /\ log'[Len(log) + 1] = m
<1>1. <<m>> \in Seq(Message) /\ Len(<<m>>) = 1 /\ DOMAIN <<m>> = 1..1 /\ <<m>>[1] = m
  OBVIOUS
<1>2. Grows(<<m>>)
  BY <1>1, Facts, LogsGrow
<1>3. DOMAIN log' = 1..(Len(log) + 1) /\ Len(log) \in Nat
  BY <1>1, <1>2, Facts, IdsStay
<1>4. Len(log) + 1 \in DOMAIN log' /\ log'[Len(log) + 1] = m
  BY <1>1, <1>2, <1>3 DEF Grows
<1>5. Publishes(<<Len(log) + 1>>)
  BY <1>4 DEF Publishes
<1> QED
  BY <1>2, <1>4, <1>5

LEMMA BlankEndsKeeps == IInv /\ BlankEnds => IInv'
<1> SUFFICES ASSUME IInv, BlankEnds PROVE IInv'
  OBVIOUS
<1> DEFINE m == Answered(spent.requests, 0, "error", TRUE)
<1>1. m \in Message /\ m.kind = "assistant"
  BY Facts DEF Answered, Message, Answers
<1>2. CASE run.emptied
  <2>1. Logs(<<m>>) /\ run' = [run EXCEPT !.phase = "ended", !.out = <<Len(log) + 1>>]
        /\ UNCHANGED <<mem, store, tools, queue, started, spent>>
    BY <1>2 DEF BlankEnds
  <2> HIDE DEF m
  <2>2. Grows(<<m>>) /\ Publishes(<<Len(log) + 1>>)
    BY <1>1, <2>1, OneMore
  <2>3. Harmless(<<m>>)
    BY <1>1 DEF Harmless
  <2>4. run' \in RunsOver(DOMAIN log') /\ run'.phase = "ended" /\ run'.out = <<Len(log) + 1>>
    <3>1. run \in RunsOver(DOMAIN log')
      BY <2>2, Facts, RunsStay
    <3>2. <<Len(log) + 1>> \in Seq(DOMAIN log')
      BY <2>2 DEF Publishes
    <3> QED
      BY <2>1, <3>1, <3>2 DEF RunsOver, Phases
  <2>5. mem \in Seq(DOMAIN log')
    BY <2>2, Facts, IdsStay
  <2>6. Quiet(<<m>>)
    BY <2>1, <2>2, <2>3, <2>4, <2>5, Facts DEF Quiet, Busy
  <2> QED
    BY <2>6, QuietKeeps
<1>3. CASE ~run.emptied
  <2>1. /\ run' = [run EXCEPT !.phase = "turnEnd", !.blank = TRUE, !.more = FALSE]
        /\ UNCHANGED <<log, mem, store, tools, queue, started, spent>>
    BY <1>3 DEF BlankEnds
  <2>2. run' \in RunsOver(DOMAIN log) /\ run'.phase = "turnEnd" /\ run'.out = run.out
    BY <2>1, Facts DEF RunsOver, Phases
  <2> QED
    BY <2>1, <2>2, Facts, QuietHere DEF Busy
<1> QED
  BY <1>2, <1>3

LEMMA RequestKeeps == IInv /\ Request => IInv'
<1> SUFFICES ASSUME IInv, Request PROVE IInv'
  OBVIOUS
<1>1. /\ run' = [run EXCEPT !.phase = "waiting", !.late = run.cancelled]
      /\ UNCHANGED <<log, mem, store, tools, queue, started>>
  BY DEF Request
<1>2. /\ run' \in RunsOver(DOMAIN log) /\ run'.phase = "waiting" /\ run'.out = run.out
      /\ run'.late = run.cancelled /\ run.cancelled \in BOOLEAN
  BY <1>1, Facts DEF RunsOver, Phases
<1>3. /\ spent' \in Budgets
      /\ spent'.requests = IF run.cancelled THEN spent.requests ELSE spent.requests + 1
  <2>1. CASE run.cancelled
    <3>1. spent' = [spent EXCEPT !.requests = @ + 0]
      BY <2>1 DEF Request
    <3>2. spent.requests + 0 = spent.requests
      BY Facts
    <3>3. spent' = spent
      BY <3>1, <3>2, Facts DEF Budgets
    <3> QED
      BY <2>1, <3>3, Facts
  <2>2. CASE ~run.cancelled
    <3>1. spent' = [spent EXCEPT !.requests = @ + 1]
      BY <2>2 DEF Request
    <3>2. spent'.requests = spent.requests + 1
      BY <3>1, Facts DEF Budgets
    <3> QED
      BY <2>2, <3>1, <3>2, Spends
  <2> QED
    BY <1>2, <2>1, <2>2
<1>4. Typed'
  BY <1>1, <1>2, <1>3, Facts DEF Typed
<1>5. Filed'
  BY <1>1, <1>2 DEF IInv, Filed, Tree, Outgoing, Newer
<1>6. Used' = Used
  BY <1>1 DEF Used, Denials
<1>7. Turns'
  <2>1. \A t \in Used' : t <= spent'.requests
    BY <1>3, <1>6, Facts, UsedAreNumbers
  <2>2. ~run.cancelled => spent'.requests \notin Used'
    BY <1>3, <1>6, Facts, UsedAreNumbers
  <2> QED
    BY <1>2, <2>1, <2>2 DEF Turns
<1>8. Batch'
  BY <1>2 DEF Batch
<1>9. RanIsRecorded'
  BY <1>1 DEF IInv, RanIsRecorded
<1> QED
  BY <1>4, <1>5, <1>7, <1>8, <1>9 DEF IInv

LEMMA CancelKeeps == IInv /\ Cancel => IInv'
<1> SUFFICES ASSUME IInv, Cancel PROVE IInv'
  OBVIOUS
<1>1. /\ run' = [run EXCEPT !.cancelled = TRUE]
      /\ UNCHANGED <<log, mem, store, tools, queue, started>>
  BY DEF Cancel
<1>2. /\ run' \in RunsOver(DOMAIN log) /\ run'.phase = run.phase /\ run'.out = run.out
      /\ run'.answer = run.answer /\ run'.next = run.next /\ run'.late = run.late
  BY <1>1, Facts DEF RunsOver
<1>3. spent' \in Budgets /\ spent'.requests = spent.requests
  <2>1. spent' \in Budgets
    BY Spends DEF Cancel
  <2> QED
    BY <2>1, Facts DEF Cancel, Budgets
<1>4. Grows(<<>>) /\ Harmless(<<>>)
  BY <1>1, Facts, SameGrows DEF Harmless
<1>5. Typed'
  BY <1>1, <1>2, <1>3, Facts DEF Typed
<1>6. Filed'
  BY <1>1, <1>2 DEF IInv, Filed, Tree, Outgoing, Newer
<1>7. Turns' /\ Batch' /\ RanIsRecorded'
  BY <1>1, <1>2, <1>3, <1>4, TurnsStay
<1> QED
  BY <1>5, <1>6, <1>7 DEF IInv

LEMMA AnswerKeeps ==
  ASSUME IInv, NEW calls \in 0..MaxCalls, NEW stop \in {"done", "cut", "error", "aborted"},
         NEW blank \in BOOLEAN, Answer(calls, stop, blank)
  PROVE  IInv'
<1> DEFINE m == Answered(spent.requests, calls, stop, blank)
           n == Len(log) + 1
<1>1. m \in Message /\ m.kind = "assistant" /\ m.turn = spent.requests /\ m.calls = calls
  BY Facts DEF Answered, Message, Answers
<1>2. /\ Logs(<<m>>) /\ run' = [run EXCEPT !.phase = "answered", !.answer = n, !.out = <<n>>]
      /\ UNCHANGED <<mem, store, tools, queue, started>>
      /\ run.phase = "waiting" /\ (blank => calls = 0) /\ (run.late => blank)
  BY DEF Answer, Ready
<1> HIDE DEF m
<1>3. Grows(<<m>>) /\ Publishes(<<n>>) /\ n \in DOMAIN log' /\ log'[n] = m
  BY <1>1, <1>2, OneMore
<1>4. Harmless(<<m>>)
  BY <1>1 DEF Harmless
<1>5. /\ run' \in RunsOver(DOMAIN log') /\ run'.phase = "answered" /\ run'.answer = n
      /\ run'.out = <<n>>
  <2>1. run \in RunsOver(DOMAIN log')
    BY <1>3, Facts, RunsStay
  <2>2. <<n>> \in Seq(DOMAIN log') /\ n \in Nat
    BY <1>3, Facts DEF Publishes
  <2> HIDE DEF n
  <2> QED
    BY <1>2, <2>1, <2>2 DEF RunsOver, Phases
<1> HIDE DEF n
<1>6. spent' \in Budgets /\ spent'.requests = spent.requests
  <2>1. spent' = [spent EXCEPT !.calls = @ + calls] /\ spent.calls + calls <= MaxCalls
    BY DEF Answer
  <2>2. spent.calls + calls \in 0..MaxCalls
    BY <2>1, Facts
  <2> QED
    BY <2>1, <2>2, Facts DEF Budgets
<1>7. Typed'
  <2>1. mem \in Seq(DOMAIN log') /\ log' \in Seq(Message)
    BY <1>3, Facts, IdsStay DEF Grows
  <2> QED
    BY <1>2, <1>5, <1>6, <2>1, Facts DEF Typed
<1>8. Filed'
  BY <1>2, <1>3, <1>5, FiledStays DEF IInv
<1>9. Used' \subseteq Used
  BY <1>2, <1>3, <1>4, Facts, UsedStays
<1>10. Turns'
  <2>1. \A t \in Used' : t <= spent'.requests
    BY <1>6, <1>9, UsedAreNumbers
  <2>2. calls > 0 => spent.requests \notin Used
    <3>1. calls > 0 => ~run.late
      BY <1>2, Facts
    <3> QED
      BY <1>2, <3>1 DEF IInv, Turns
  <2>3. log'[run'.answer].kind = "assistant" /\ log'[run'.answer].turn = spent.requests
        /\ log'[run'.answer].calls = calls /\ run'.answer \in DOMAIN log'
    BY <1>1, <1>3, <1>5
  <2>4. log'[run'.answer].turn <= spent'.requests
    BY <1>6, <2>3, Facts
  <2>5. run'.out = <<run'.answer>>
    BY <1>5
  <2> QED
    BY <1>5, <1>9, <2>1, <2>2, <2>3, <2>4, <2>5 DEF Turns
<1>11. Batch'
  BY <1>5 DEF Batch
<1>12. RanIsRecorded'
  <2>1. store.file \subseteq DOMAIN log
    BY DEF IInv, Filed, Tree
  <2> QED
    BY <1>2, <1>3, <1>4, <2>1, Facts, RecordedStays DEF IInv
<1> QED
  BY <1>7, <1>8, <1>10, <1>11, <1>12 DEF IInv

-----------------------------------------------------------------------------
(* The steps of a batch.                                                   *)

\* Denials after a step: those before, and those that are new.
LEMMA DenialsAre ==
  ASSUME log \in Seq(Message), NEW new, Grows(new)
  PROVE  \A i \in Denials' :
           \/ i \in Denials /\ log'[i] = log[i]
           \/ \E k \in DOMAIN new : /\ i = Len(log) + k /\ log'[i] = new[k]
                                    /\ new[k].how \in {"refused", "truncated"}
<1> TAKE i \in Denials'
<1>1. i \in DOMAIN log' /\ log'[i].kind = "result" /\ log'[i].how \in {"refused", "truncated"}
  BY DEF Denials, Results
<1>2. CASE i \in DOMAIN log
  <2>1. log'[i] = log[i]
    BY <1>2 DEF Grows
  <2> QED
    BY <1>1, <1>2, <2>1 DEF Denials, Results
<1>3. CASE i \notin DOMAIN log
  <2> DEFINE k == i - Len(log)
  <2>1. k \in DOMAIN new
    BY <1>1, <1>3 DEF Grows
  <2>2. Len(log) + k = i
    BY <1>1, IdsStay
  <2>3. log'[i] = new[k]
    <3> HIDE DEF k
    <3> QED
      BY <2>1, <2>2 DEF Grows
  <2> HIDE DEF k
  <2> QED
    BY <1>1, <2>1, <2>2, <2>3
<1> QED
  BY <1>2, <1>3

\* The calls of the answer at hand.
LEMMA CallsAre ==
  ASSUME IInv, run.phase \in {"answered", "seq", "par"}
  PROVE  /\ log[run.answer] \in Answers /\ log[run.answer].turn \in Nat
         /\ log[run.answer].calls \in 0..MaxCalls
         /\ Calls \in Seq(CallIds) /\ Len(Calls) = log[run.answer].calls
         /\ DOMAIN Calls = 1..log[run.answer].calls
         /\ \A k \in 1..log[run.answer].calls : Calls[k] = <<log[run.answer].turn, k>>
<1>1. run.answer \in DOMAIN log /\ log[run.answer].kind = "assistant"
  BY DEF IInv, Turns
<1>2. log[run.answer] \in Message
  BY <1>1, Facts
<1>3. /\ log[run.answer] \in Answers /\ log[run.answer].turn \in Nat
      /\ log[run.answer].calls \in 0..MaxCalls
  BY <1>1, <1>2, MessageFacts
<1>4. Calls = [k \in 1..log[run.answer].calls |-> <<log[run.answer].turn, k>>]
  BY <1>1 DEF Calls, CallsOf
<1>5. Calls \in Seq(CallIds)
  BY <1>2, CallsAreIds DEF Calls
<1> QED
  BY <1>3, <1>4, <1>5, Facts

\* A step of a batch: it may enter calls of the answer, that were not denied, and deny
\* calls of it that were not entered.
Advances(new) ==
  /\ run.phase \in {"answered", "seq", "par"}
  /\ Grows(new) /\ UNCHANGED <<mem, store, queue, spent>>
  /\ started' \subseteq started \cup Range(Calls)
  /\ run.phase = "answered" => started' = started
  /\ \A c \in started' : c \in started \/ \A i \in Denials : log[i].of # c
  /\ \A k \in DOMAIN new : new[k].how \in {"refused", "truncated"} =>
       new[k].of \in Range(Calls) /\ new[k].of \notin started'

LEMMA AdvancesKeeps ==
  ASSUME IInv, NEW new, Advances(new)
  PROVE  /\ RanIsRecorded' /\ \A t \in Used' : t <= spent'.requests
         /\ started' \in SUBSET CallIds
<1> DEFINE answer == log[run.answer]
<1>1. /\ answer \in Answers /\ answer.turn \in Nat /\ answer.turn <= spent.requests
      /\ \A c \in Range(Calls) : c \in CallIds /\ c[1] = answer.turn
  <2>1. /\ answer \in Answers /\ answer.turn \in Nat /\ Calls \in Seq(CallIds)
        /\ \A k \in DOMAIN Calls : Calls[k] = <<answer.turn, k>>
    BY CallsAre DEF Advances
  <2>2. answer.turn <= spent.requests
    BY DEF IInv, Turns, Advances
  <2>3. \A k \in DOMAIN Calls : Calls[k] \in CallIds
    BY <2>1
  <2> QED
    BY <2>1, <2>2, <2>3 DEF Range
<1>2. \A i \in Denials' :
        \/ i \in Denials /\ log'[i] = log[i]
        \/ /\ log'[i].of \in Range(Calls) /\ log'[i].of \notin started'
  <2>1. \A i \in Denials' :
          \/ i \in Denials /\ log'[i] = log[i]
          \/ \E k \in DOMAIN new : /\ i = Len(log) + k /\ log'[i] = new[k]
                                   /\ new[k].how \in {"refused", "truncated"}
    BY Facts, DenialsAre DEF Advances
  <2> QED
    BY <2>1 DEF Advances
<1>3. started' \in SUBSET CallIds
  BY <1>1, Facts DEF Advances
<1>4. ASSUME NEW t \in Used'
      PROVE  t <= spent'.requests
  <2>1. CASE \E c \in started' : t = c[1]
    <3>1. PICK c \in started' : t = c[1]
      BY <2>1
    <3>2. c \in started \/ c \in Range(Calls)
      BY DEF Advances
    <3>3. t \in Used \/ t = answer.turn
      BY <1>1, <3>1, <3>2 DEF Used
    <3> QED
      BY <1>1, <3>3, UsedAreNumbers DEF Advances
  <2>2. CASE \E i \in Denials' : t = log'[i].of[1]
    <3>1. PICK i \in Denials' : t = log'[i].of[1]
      BY <2>2
    <3>2. t \in Used \/ t = answer.turn
      BY <1>1, <1>2, <3>1 DEF Used
    <3> QED
      BY <1>1, <3>2, UsedAreNumbers DEF Advances
  <2> QED
    BY <2>1, <2>2 DEF Used
<1>5. ASSUME NEW c \in started'
      PROVE  /\ \E n \in store'.file : /\ log'[n].kind = "assistant"
                                       /\ log'[n].turn = c[1] /\ log'[n].stop = "done"
             /\ \A i \in Results(log') :
                  log'[i].of = c => log'[i].how \notin {"refused", "truncated"}
  <2>1. \E n \in store.file : log[n].kind = "assistant" /\ log[n].turn = c[1]
          /\ log[n].stop = "done"
    <3>1. CASE c \in started
      BY <3>1 DEF IInv, RanIsRecorded
    <3>2. CASE c \notin started
      <4>1. run.phase \in {"seq", "par"} /\ c \in Range(Calls)
        BY <3>2 DEF Advances
      <4>2. run.answer \in store.file /\ answer.stop = "done" /\ answer.kind = "assistant"
        BY <4>1 DEF IInv, Turns
      <4> QED
        BY <1>1, <4>1, <4>2
    <3> QED
      BY <3>1, <3>2
  <2>2. \A n \in store.file : n \in DOMAIN log
    BY DEF IInv, Filed, Tree
  <2>3. \A n \in store.file : n \in store'.file /\ log'[n] = log[n]
    BY <2>2 DEF Advances, Grows
  <2>4. ASSUME NEW i \in Results(log'), log'[i].of = c, log'[i].how \in {"refused", "truncated"}
        PROVE  FALSE
    <3>1. i \in Denials'
      BY <2>4 DEF Denials, Results
    <3>2. i \in Denials /\ log[i].of = c
      BY <1>2, <2>4, <3>1
    <3>3. c \notin started
      BY <3>2 DEF IInv, RanIsRecorded, Denials
    <3> QED
      BY <3>2, <3>3 DEF Advances
  <2> QED
    BY <2>1, <2>3, <2>4
<1>6. RanIsRecorded'
  BY <1>5 DEF RanIsRecorded
<1> QED
  BY <1>3, <1>4, <1>6

\* Its messages and the run, when it publishes what it made.
LEMMA AdvancesFiled ==
  ASSUME IInv, NEW new, Advances(new), run' \in RunsOver(DOMAIN log'),
         run'.out = run.out \/ Publishes(run'.out), tools' \in [1..MaxCalls -> Outcomes]
  PROVE  Typed' /\ Filed'
<1>1. Filed'
  BY FiledStays DEF Advances, IInv
<1>2. mem' \in Seq(DOMAIN log') /\ IsInjective(mem') /\ log' \in Seq(Message)
  BY Facts, IdsStay DEF Advances, Grows
<1>3. started' \in SUBSET CallIds
  BY AdvancesKeeps
<1> QED
  BY <1>1, <1>2, <1>3, Facts DEF Typed, Advances

LEMMA BatchBeginsKeeps == IInv /\ BatchBegins => IInv'
<1> SUFFICES ASSUME IInv, BatchBegins PROVE IInv'
  OBVIOUS
<1> DEFINE answer == log[run.answer]
<1>1. /\ run.phase = "answered" /\ run.out = <<>> /\ ~Failed(answer) /\ Calls # <<>>
      /\ tools' = NoTools /\ UNCHANGED <<mem, store, queue, started, spent>>
  BY DEF BatchBegins, Ready
<1>2. /\ answer \in Answers /\ answer.turn \in Nat /\ answer.calls \in 0..MaxCalls
      /\ Calls \in Seq(CallIds) /\ DOMAIN Calls = 1..answer.calls
      /\ \A k \in 1..answer.calls : Calls[k] = <<answer.turn, k>>
  BY <1>1, CallsAre
<1>3. answer.calls > 0
  <2>1. Len(Calls) = answer.calls
    BY <1>1, CallsAre
  <2>2. Len(Calls) # 0
    BY <1>1, <1>2
  <2> QED
    BY <1>2, <2>1, <2>2, Facts
<1>4. answer.turn \notin Used
  BY <1>1, <1>3 DEF IInv, Turns
<1>5. /\ \A c \in started : c[1] # answer.turn
      /\ \A i \in Denials : log[i].of[1] # answer.turn
  BY <1>4 DEF Used
<1>6. run.answer \in store.file /\ run.answer \in DOMAIN log /\ answer.kind = "assistant"
      /\ answer.turn <= spent.requests
  BY <1>1 DEF IInv, Turns
<1>7. CASE Cut
  <2> DEFINE results == [k \in DOMAIN Calls |-> Result(Calls[k], "truncated")]
             ids == Ids(Len(log), results)
  <2>1. Logs(results) /\ run' = [run EXCEPT !.phase = "turnEnd", !.blank = FALSE, !.more = TRUE,
                                            !.out = ids]
    BY <1>7 DEF BatchBegins
  <2>2. results \in Seq(ResultsOf({"truncated"}))
    <3>1. {"truncated"} \in SUBSET Hows
      BY DEF Hows
    <3> QED
      BY <1>2, <3>1, ResultsAre
  <2>3. ResultsOf({"truncated"}) \subseteq Message
    BY DEF ResultsOf, Message, Hows
  <2>4. \A k \in DOMAIN results : results[k].of = Calls[k] /\ k \in DOMAIN Calls
    BY DEF Result
  <2> HIDE DEF results
  <2>5. results \in Seq(Message)
    BY <2>2, <2>3, SeqMonotonic
  <2>6. Grows(results)
    BY <2>1, <2>5, Facts, LogsGrow
  <2>7. Publishes(ids)
    BY <2>6, Facts, IdsPublish
  <2> HIDE DEF ids
  <2>8. run' \in RunsOver(DOMAIN log') /\ run'.phase = "turnEnd" /\ run'.out = ids
    <3>1. run \in RunsOver(DOMAIN log') /\ ids \in Seq(DOMAIN log')
      BY <2>6, <2>7, Facts, RunsStay DEF Publishes
    <3> QED
      BY <2>1, <3>1 DEF RunsOver, Phases
  <2>9. \A k \in DOMAIN results : results[k].of \in Range(Calls) /\ results[k].of \notin started
    BY <1>2, <1>5, <2>4 DEF Range
  <2>10. Advances(results)
    BY <1>1, <2>6, <2>9 DEF Advances
  <2>11. Typed' /\ Filed'
    BY <1>1, <2>7, <2>8, <2>10, Facts, AdvancesFiled
  <2>12. RanIsRecorded' /\ \A t \in Used' : t <= spent'.requests
    BY <2>10, AdvancesKeeps
  <2>13. Turns' /\ Batch'
    BY <2>8, <2>12 DEF Turns, Batch
  <2> QED
    BY <2>11, <2>12, <2>13 DEF IInv
<1>8. CASE ~Cut
  <2>1. PICK mode \in {"seq", "par"} :
          run' = [run EXCEPT !.phase = mode, !.blank = FALSE, !.more = TRUE, !.next = 1]
    BY <1>8 DEF BatchBegins
  <2>2. UNCHANGED log
    BY <1>8 DEF BatchBegins
  <2>3. /\ run' \in RunsOver(DOMAIN log') /\ run'.phase = mode /\ run'.out = run.out
        /\ run'.answer = run.answer /\ run'.next = 1
    <3>1. 1 \in Nat \ {0}
      OBVIOUS
    <3> QED
      BY <2>1, <2>2, <3>1, Facts DEF RunsOver, Phases
  <2>4. Grows(<<>>)
    BY <2>2, Facts, SameGrows
  <2>5. Advances(<<>>)
    BY <1>1, <2>4 DEF Advances
  <2>6. Typed' /\ Filed'
    BY <1>1, <2>3, <2>5, Facts, AdvancesFiled
  <2>7. RanIsRecorded' /\ \A t \in Used' : t <= spent'.requests
    BY <2>5, AdvancesKeeps
  <2>8. answer.stop = "done"
    <3>1. answer.stop \in {"done", "cut", "error", "aborted"}
      BY <1>2 DEF Answers
    <3> QED
      BY <1>1, <1>6, <1>8, <3>1 DEF Failed, Cut
  <2>9. Turns'
    BY <1>1, <1>6, <2>2, <2>3, <2>7, <2>8 DEF Turns
  <2>10. Denials' = Denials
    BY <2>2 DEF Denials
  <2>11. Batch'
    BY <1>1, <1>5, <2>2, <2>3, <2>10 DEF Batch
  <2> QED
    BY <2>6, <2>7, <2>9, <2>11 DEF IInv
<1> QED
  BY <1>7, <1>8

\* In a batch its answer is there, and complete.
LEMMA BatchFacts ==
  ASSUME IInv, run.phase \in {"seq", "par"}
  PROVE  LET answer == log[run.answer]
         IN  /\ run.answer \in DOMAIN log /\ run.answer \in store.file
             /\ answer.kind = "assistant" /\ answer.stop = "done"
             /\ answer.turn \in Nat /\ answer.turn <= spent.requests
             /\ answer.calls \in Nat /\ answer.calls <= MaxCalls
             /\ Calls \in Seq(CallIds) /\ Len(Calls) = answer.calls
             /\ DOMAIN Calls = 1..answer.calls
             /\ \A k \in 1..answer.calls : /\ Calls[k] = <<answer.turn, k>> /\ Calls[k] \in CallIds
                                           /\ k \in 1..MaxCalls
<1>1. /\ run.answer \in DOMAIN log /\ run.answer \in store.file
      /\ log[run.answer].kind = "assistant" /\ log[run.answer].stop = "done"
      /\ log[run.answer].turn <= spent.requests
  BY DEF IInv, Turns
<1>2. /\ log[run.answer].turn \in Nat /\ log[run.answer].calls \in 0..MaxCalls
      /\ Calls \in Seq(CallIds) /\ Len(Calls) = log[run.answer].calls
      /\ DOMAIN Calls = 1..log[run.answer].calls
      /\ \A k \in 1..log[run.answer].calls : Calls[k] = <<log[run.answer].turn, k>>
  BY CallsAre
<1>3. log[run.answer].calls \in Nat /\ log[run.answer].calls <= MaxCalls
  BY <1>2, Facts
<1>4. ASSUME NEW k \in 1..log[run.answer].calls
      PROVE  Calls[k] \in CallIds /\ k \in 1..MaxCalls
  <2>1. k \in 1..MaxCalls
    BY <1>3, Facts
  <2>2. <<log[run.answer].turn, k>> \in CallIds
    BY <1>2, <2>1 DEF CallIds
  <2> QED
    BY <1>2, <2>1, <2>2
<1> QED
  BY <1>1, <1>2, <1>3, <1>4

\* What remains to be shown of a step that stays in its batch.
LEMMA BatchGoesOn ==
  ASSUME IInv, NEW new, Advances(new), run' \in RunsOver(DOMAIN log'),
         run'.out = run.out \/ Publishes(run'.out), tools' \in [1..MaxCalls -> Outcomes],
         run.phase \in {"seq", "par"}, run'.phase = run.phase, run'.answer = run.answer, Batch'
  PROVE  IInv'
<1>1. Typed' /\ Filed'
  BY AdvancesFiled
<1>2. RanIsRecorded' /\ \A t \in Used' : t <= spent'.requests
  BY AdvancesKeeps
<1>3. /\ run.answer \in DOMAIN log /\ run.answer \in store.file
      /\ log[run.answer].kind = "assistant"
      /\ log[run.answer].stop = "done" /\ log[run.answer].turn <= spent.requests
  BY BatchFacts
<1>4. run.answer \in DOMAIN log' /\ log'[run.answer] = log[run.answer]
  BY <1>3 DEF Advances, Grows
<1>5. Turns'
  BY <1>2, <1>3, <1>4 DEF Turns, Advances
<1> QED
  BY <1>1, <1>2, <1>5 DEF IInv

\* The call a sequence has come to.
LEMMA AtNext ==
  ASSUME IInv, run.phase = "seq", run.next <= Len(Calls)
  PROVE  /\ run.next \in DOMAIN Calls /\ run.next \in 1..MaxCalls
         /\ Calls[run.next] = <<log[run.answer].turn, run.next>>
         /\ Calls[run.next] \in CallIds /\ Calls[run.next] \in Range(Calls)
<1>1. run.next \in DOMAIN Calls
  BY BatchFacts, Facts
<1> QED
  BY <1>1, BatchFacts DEF Range

\* An outcome becomes a result: the call is one that was entered, or is denied now.
LEMMA SettlesKeeps ==
  ASSUME IInv, run.phase = "seq", run.next <= Len(Calls),
         NEW how \in {"refused", "aborted", "ran"}, Settles(run.next, how),
         how = "refused" => tools[run.next] # "running",
         UNCHANGED <<mem, store, queue, started, spent>>
  PROVE  IInv'
<1> DEFINE call == Calls[run.next]
           m == Result(call, how)
           turn == log[run.answer].turn
<1>1. /\ run.next \in 1..MaxCalls /\ call = <<turn, run.next>> /\ call \in CallIds
      /\ call \in Range(Calls) /\ run.next \in Nat \ {0}
  BY AtNext, Facts
<1>2. /\ tools' = [tools EXCEPT ![run.next] = how] /\ Logs(<<m>>)
      /\ run' = [run EXCEPT !.out = <<Len(log) + 1>>, !.next = run.next + 1]
  BY DEF Settles
<1> HIDE DEF call
<1>3. m \in Message /\ m.kind = "result" /\ m.of = call /\ m.how = how
  BY <1>1 DEF Result, Message, ResultsOf, Hows, Outcomes
<1> HIDE DEF m
<1>4. Grows(<<m>>) /\ Publishes(<<Len(log) + 1>>)
  BY <1>2, <1>3, OneMore
<1>5. tools' \in [1..MaxCalls -> Outcomes]
  BY <1>2, Facts DEF Outcomes
<1>6. /\ run' \in RunsOver(DOMAIN log') /\ run'.out = <<Len(log) + 1>>
      /\ run'.next = run.next + 1 /\ run'.phase = run.phase /\ run'.answer = run.answer
  <2>1. run \in RunsOver(DOMAIN log') /\ <<Len(log) + 1>> \in Seq(DOMAIN log')
    BY <1>4, Facts, RunsStay DEF Publishes
  <2>2. run.next + 1 \in Nat \ {0}
    BY <1>1
  <2> QED
    BY <1>2, <2>1, <2>2 DEF RunsOver
<1>7. how = "refused" => call \notin started
  BY <1>1 DEF IInv, Batch
<1>8. Advances(<<m>>)
  <2>1. \A k \in DOMAIN <<m>> : <<m>>[k] = m
    OBVIOUS
  <2> QED
    BY <1>1, <1>3, <1>4, <1>7, <2>1 DEF Advances
<1>9. Batch'
  <2>1. run.answer \in DOMAIN log /\ log'[run.answer] = log[run.answer]
    BY <1>4, BatchFacts DEF Grows
  <2>2. \A c \in started : c[2] \in Nat
    BY Facts DEF CallIds
  <2>3. \A c \in started' : c[1] = turn => c[2] < run.next + 1
    BY <1>1, <2>2 DEF IInv, Batch
  <2>4. ASSUME NEW i \in Denials', log'[i].of[1] = turn
        PROVE  log'[i].of[2] < run.next + 1
    <3>1. CASE i \in Denials /\ log'[i] = log[i]
      <4>1. log[i].of[2] < run.next
        BY <2>4, <3>1 DEF IInv, Batch
      <4>2. log[i].of[2] \in Nat
        <5>1. log[i] \in Message /\ log[i].kind = "result"
          BY <3>1, Facts DEF Denials, Results
        <5> QED
          BY <5>1, MessageFacts DEF CallIds
      <4> QED
        BY <1>1, <3>1, <4>1, <4>2
    <3>2. CASE log'[i] = m
      <4>1. log'[i].of = <<turn, run.next>>
        BY <1>1, <1>3, <3>2
      <4> QED
        BY <1>1, <4>1
    <3>3. log'[i] = m \/ (i \in Denials /\ log'[i] = log[i])
      <4>1. \A k \in DOMAIN <<m>> : <<m>>[k] = m
        OBVIOUS
      <4> QED
        BY <1>4, <4>1, Facts, DenialsAre
    <3> QED
      BY <3>1, <3>2, <3>3
  <2> QED
    BY <1>6, <2>1, <2>3, <2>4 DEF Batch
<1> QED
  BY <1>4, <1>5, <1>6, <1>8, <1>9, BatchGoesOn

LEMMA SeqDoneKeeps == IInv /\ SeqDone => IInv'
<1> SUFFICES ASSUME IInv, SeqDone PROVE IInv'
  OBVIOUS
<1>1. run.phase = "seq" /\ run.next <= Len(Calls)
      /\ UNCHANGED <<mem, store, queue, started, spent>>
  BY DEF SeqDone, Ready
<1>2. CASE Settles(run.next, "aborted")
  BY <1>1, <1>2, SettlesKeeps
<1>3. CASE Settles(run.next, "ran")
  BY <1>1, <1>3, SettlesKeeps
<1> QED
  BY <1>2, <1>3 DEF SeqDone

LEMMA SeqPrepareKeeps == IInv /\ SeqPrepare => IInv'
<1> SUFFICES ASSUME IInv, SeqPrepare PROVE IInv'
  OBVIOUS
<1>1. /\ run.phase = "seq" /\ run.next <= Len(Calls) /\ tools[run.next] = "preparing"
      /\ UNCHANGED <<mem, store, queue, spent>>
  BY DEF SeqPrepare, Ready
<1>2. CASE Settles(run.next, "refused") /\ UNCHANGED started
  BY <1>1, <1>2, SettlesKeeps
<1>3. CASE Settles(run.next, "aborted") /\ UNCHANGED started
  BY <1>1, <1>3, SettlesKeeps
<1>4. CASE /\ tools' = [tools EXCEPT ![run.next] = "running"]
           /\ started' = started \cup {Calls[run.next]} /\ UNCHANGED <<log, run>>
  <2> DEFINE call == Calls[run.next]
             turn == log[run.answer].turn
  <2>1. /\ run.next \in 1..MaxCalls /\ call = <<turn, run.next>> /\ call \in CallIds
        /\ call \in Range(Calls) /\ run.next \in Nat \ {0}
    BY <1>1, AtNext, Facts
  <2> HIDE DEF call
  <2>2. Grows(<<>>) /\ Denials' = Denials
    BY <1>4, Facts, SameGrows DEF Denials
  <2>3. \A i \in Denials : log[i].of # call
    <3>1. \A i \in Denials : log[i].of[1] = turn => log[i].of[2] < run.next
      BY <1>1 DEF IInv, Batch
    <3> QED
      BY <2>1, <3>1
  <2>4. started' = started \cup {call}
    BY <1>4 DEF call
  <2>5. Advances(<<>>)
    BY <1>1, <2>1, <2>2, <2>3, <2>4 DEF Advances
  <2>6. tools' \in [1..MaxCalls -> Outcomes] /\ tools'[run.next] = "running"
    BY <1>4, <2>1, Facts DEF Outcomes
  <2>7. Batch'
    <3>1. ASSUME NEW c \in started', c[1] = turn
          PROVE  c[2] < run.next \/ (c[2] = run.next /\ tools'[run.next] = "running")
      <4>1. CASE c = call
        BY <2>1, <2>6, <4>1
      <4>2. CASE c \in started
        BY <1>1, <3>1, <4>2 DEF IInv, Batch
      <4> QED
        BY <2>4, <4>1, <4>2
    <3> QED
      BY <1>1, <1>4, <2>2, <3>1 DEF IInv, Batch
  <2> QED
    BY <1>1, <1>4, <2>5, <2>6, <2>7, Facts, BatchGoesOn
<1> QED
  BY <1>2, <1>3, <1>4 DEF SeqPrepare

LEMMA SeqBeginsKeeps == IInv /\ SeqBegins => IInv'
<1> SUFFICES ASSUME IInv, SeqBegins PROVE IInv'
  OBVIOUS
<1>1. /\ run.phase = "seq" /\ run.next <= Len(Calls) /\ tools[run.next] = "none"
      /\ tools' = [tools EXCEPT ![run.next] = "preparing"]
      /\ UNCHANGED <<log, mem, store, run, queue, started, spent>>
  BY DEF SeqBegins, Ready
<1>2. Grows(<<>>) /\ Denials' = Denials
  BY <1>1, Facts, SameGrows DEF Denials
<1>3. Advances(<<>>)
  BY <1>1, <1>2 DEF Advances
<1>4. tools' \in [1..MaxCalls -> Outcomes]
  BY <1>1, Facts DEF Outcomes
<1>5. Batch'
  BY <1>1, <1>2 DEF IInv, Batch
<1> QED
  BY <1>1, <1>3, <1>4, <1>5, Facts, BatchGoesOn

LEMMA ParPrepareKeeps == IInv /\ ParPrepare => IInv'
<1> SUFFICES ASSUME IInv, ParPrepare PROVE IInv'
  OBVIOUS
<1>1. /\ run.phase = "par" /\ run.next <= Len(Calls)
      /\ UNCHANGED <<log, mem, store, queue, started, spent>>
  BY DEF ParPrepare, Ready
<1>2. PICK how \in {"refused", "aborted", "prepared"} : tools' = [tools EXCEPT ![run.next] = how]
  BY DEF ParPrepare
<1>3. /\ Len(Calls) \in Nat /\ Len(Calls) <= MaxCalls /\ run.next \in Nat \ {0}
  BY <1>1, BatchFacts, Facts
<1>4. run.next \in 1..MaxCalls
  BY <1>1, <1>3, Facts
<1>5. tools' \in [1..MaxCalls -> Outcomes]
      /\ \A k \in 1..MaxCalls : k # run.next => tools'[k] = tools[k]
  BY <1>2, <1>4, Facts DEF Outcomes
<1>6. /\ run' \in RunsOver(DOMAIN log') /\ run'.phase = run.phase /\ run'.out = run.out
      /\ run'.answer = run.answer /\ run'.next \in Nat /\ run.next < run'.next
  <2>1. run' = [run EXCEPT !.next = IF run.cancelled THEN Len(Calls) + 1 ELSE run.next + 1]
    BY DEF ParPrepare
  <2>2. Len(Calls) + 1 \in Nat \ {0} /\ run.next + 1 \in Nat \ {0}
        /\ run.next < Len(Calls) + 1 /\ run.next < run.next + 1
    BY <1>1, <1>3
  <2>3. PICK n \in Nat \ {0} : run' = [run EXCEPT !.next = n] /\ run.next < n
    BY <2>1, <2>2
  <2> QED
    BY <1>1, <2>3, Facts DEF RunsOver
<1>7. Grows(<<>>) /\ Denials' = Denials
  BY <1>1, Facts, SameGrows DEF Denials
<1>8. Advances(<<>>)
  BY <1>1, <1>7 DEF Advances
<1>9. Batch'
  <2>1. ASSUME NEW c \in started, c[1] = log[run.answer].turn
        PROVE  /\ c[2] \in 1..MaxCalls /\ c[2] < run'.next
               /\ tools'[c[2]] \in {"running", "ran", "aborted"}
    <3>1. /\ c[2] \in 1..MaxCalls /\ c[2] < run.next
          /\ tools[c[2]] \in {"running", "ran", "aborted"}
      BY <1>1, <2>1 DEF IInv, Batch
    <3> QED
      BY <1>3, <1>5, <1>6, <3>1
  <2> QED
    BY <1>1, <1>6, <1>7, <2>1 DEF IInv, Batch
<1> QED
  BY <1>1, <1>5, <1>6, <1>8, <1>9, BatchGoesOn

LEMMA ParStartKeeps == IInv /\ ParStart => IInv'
<1> SUFFICES ASSUME IInv, ParStart PROVE IInv'
  OBVIOUS
<1> DEFINE turn == log[run.answer].turn
           entered == {Calls[k] : k \in Prepared}
<1>1. /\ run.phase = "par" /\ run.next > Len(Calls)
      /\ tools' = [k \in DOMAIN tools |-> IF tools[k] = "prepared" THEN "running" ELSE tools[k]]
      /\ started' = started \cup entered
      /\ UNCHANGED <<log, mem, store, run, queue, spent>>
  BY DEF ParStart, Ready
<1>2. /\ tools' \in [1..MaxCalls -> Outcomes]
      /\ \A k \in 1..MaxCalls :
           tools'[k] = IF tools[k] = "prepared" THEN "running" ELSE tools[k]
  BY <1>1, Facts DEF Outcomes
<1>3. \A c \in entered : \E k \in 1..MaxCalls :
        /\ c = Calls[k] /\ c = <<turn, k>> /\ c \in Range(Calls) /\ k < run.next
        /\ tools[k] = "prepared"
  <2> TAKE c \in entered
  <2>1. PICK k \in DOMAIN Calls : c = Calls[k] /\ tools[k] = "prepared"
    BY DEF Prepared
  <2>2. k \in 1..MaxCalls /\ c = <<turn, k>> /\ k <= Len(Calls) /\ Len(Calls) \in Nat
    <3>1. /\ Len(Calls) \in Nat /\ DOMAIN Calls = 1..Len(Calls)
          /\ \A j \in DOMAIN Calls : Calls[j] = <<turn, j>> /\ j \in 1..MaxCalls
      BY <1>1, BatchFacts
    <3> QED
      BY <2>1, <3>1
  <2>3. k < run.next
    BY <1>1, <2>2, Facts
  <2> QED
    BY <2>1, <2>2, <2>3 DEF Range
<1> HIDE DEF entered
<1>4. Grows(<<>>) /\ Denials' = Denials
  BY <1>1, Facts, SameGrows DEF Denials
<1>5. \A i \in Denials : log[i].of[1] # turn
  BY <1>1 DEF IInv, Batch
<1>6. Advances(<<>>)
  <2>1. \A c \in entered : c \in Range(Calls) /\ \A i \in Denials : log[i].of # c
    BY <1>3, <1>5
  <2> QED
    BY <1>1, <1>4, <2>1 DEF Advances
<1>7. Batch'
  <2>1. ASSUME NEW c \in started', c[1] = turn
        PROVE  /\ c[2] \in 1..MaxCalls /\ c[2] < run.next
               /\ tools'[c[2]] \in {"running", "ran", "aborted"}
    <3>1. CASE c \in entered
      <4>1. PICK k \in 1..MaxCalls : c = <<turn, k>> /\ k < run.next /\ tools[k] = "prepared"
        BY <1>3, <3>1
      <4> QED
        BY <1>2, <4>1
    <3>2. CASE c \in started
      <4>1. /\ c[2] \in 1..MaxCalls /\ c[2] < run.next
            /\ tools[c[2]] \in {"running", "ran", "aborted"}
        BY <1>1, <2>1, <3>2 DEF IInv, Batch
      <4> QED
        BY <1>2, <4>1
    <3> QED
      BY <1>1, <3>1, <3>2
  <2> QED
    BY <1>1, <1>4, <1>5, <2>1 DEF Batch
<1> QED
  BY <1>1, <1>2, <1>6, <1>7, Facts, BatchGoesOn

LEMMA ParDoneKeeps ==
  ASSUME IInv, NEW k, ParDone(k)
  PROVE  IInv'
<1>1. /\ run.phase = "par" /\ k \in DOMAIN Calls /\ tools[k] = "running"
      /\ UNCHANGED <<log, mem, store, run, queue, started, spent>>
  BY DEF ParDone, Ready, InFlight
<1>2. k \in 1..MaxCalls
  BY <1>1, BatchFacts
<1>3. PICK how \in {"ran", "aborted"} : tools' = [tools EXCEPT ![k] = how]
  BY DEF ParDone
<1>4. /\ tools' \in [1..MaxCalls -> Outcomes] /\ tools'[k] = how
      /\ \A j \in 1..MaxCalls : j # k => tools'[j] = tools[j]
  BY <1>2, <1>3, Facts DEF Outcomes
<1>5. Grows(<<>>) /\ Denials' = Denials
  BY <1>1, Facts, SameGrows DEF Denials
<1>6. Advances(<<>>)
  BY <1>1, <1>5 DEF Advances
<1>7. Batch'
  <2>1. ASSUME NEW c \in started, c[1] = log[run.answer].turn
        PROVE  /\ c[2] \in 1..MaxCalls /\ c[2] < run.next
               /\ tools'[c[2]] \in {"running", "ran", "aborted"}
    <3>1. /\ c[2] \in 1..MaxCalls /\ c[2] < run.next
          /\ tools[c[2]] \in {"running", "ran", "aborted"}
      BY <1>1, <2>1 DEF IInv, Batch
    <3> QED
      BY <1>4, <3>1
  <2> QED
    BY <1>1, <1>5, <2>1 DEF IInv, Batch
<1> QED
  BY <1>1, <1>4, <1>6, <1>7, Facts, BatchGoesOn

\* The results of a batch side by side, in the order of the calls.
OfCalls(results) ==
  /\ results \in Seq(Message)
  /\ \A i \in DOMAIN results : \E k \in DOMAIN Calls :
       results[i].of = Calls[k] /\ results[i].how = tools[k]

LEMMA ParResultsAre ==
  ASSUME IInv, run.phase = "par",
         NEW settled,
         settled = Within([k \in DOMAIN Calls |-> k], {k \in DOMAIN Calls : tools[k] # "none"}),
         NEW results,
         results = [i \in DOMAIN settled |-> Result(Calls[settled[i]], tools[settled[i]])]
  PROVE  OfCalls(results)
<1> DEFINE numbers == [k \in DOMAIN Calls |-> k]
<1>1. /\ Len(Calls) \in Nat /\ DOMAIN Calls = 1..Len(Calls)
      /\ \A k \in DOMAIN Calls : Calls[k] \in CallIds /\ k \in 1..MaxCalls
  BY BatchFacts
<1>2. numbers \in Seq(DOMAIN Calls)
  <2>1. [k \in 1..Len(Calls) |-> k] \in Seq(1..Len(Calls))
    BY <1>1
  <2> QED
    BY <1>1, <2>1
<1>3. settled \in Seq(DOMAIN Calls)
  <2> HIDE DEF numbers
  <2>1. settled = Within(numbers, {k \in DOMAIN Calls : tools[k] # "none"})
    BY DEF numbers
  <2> QED
    BY <1>2, <2>1, WithinKeeps
<1>4. ASSUME NEW s \in Seq(DOMAIN Calls)
      PROVE  /\ [i \in DOMAIN s |-> Result(Calls[s[i]], tools[s[i]])] \in Seq(Message)
             /\ \A i \in DOMAIN s : s[i] \in DOMAIN Calls
  <2>1. Len(s) \in Nat /\ DOMAIN s = 1..Len(s) /\ \A i \in 1..Len(s) : s[i] \in DOMAIN Calls
    OBVIOUS
  <2>2. \A i \in 1..Len(s) : Calls[s[i]] \in CallIds /\ tools[s[i]] \in Outcomes
    BY <1>1, <2>1, Facts
  <2>3. \A i \in 1..Len(s) : Result(Calls[s[i]], tools[s[i]]) \in Message
    BY <2>2 DEF Result, Message, ResultsOf, Hows
  <2>4. [i \in 1..Len(s) |-> Result(Calls[s[i]], tools[s[i]])] \in Seq(Message)
    BY <2>1, <2>3
  <2> QED
    BY <2>1, <2>4
<1>5. results \in Seq(Message)
  BY <1>3, <1>4
<1>6. \A i \in DOMAIN results : \E k \in DOMAIN Calls :
        results[i].of = Calls[k] /\ results[i].how = tools[k]
  <2>1. \A i \in DOMAIN settled : settled[i] \in DOMAIN Calls
    BY <1>3, <1>4
  <2> QED
    BY <2>1 DEF Result
<1> QED
  BY <1>5, <1>6 DEF OfCalls

LEMMA ParEndsKeeps == IInv /\ ParEnds => IInv'
<1> SUFFICES ASSUME IInv, ParEnds PROVE IInv'
  OBVIOUS
<1> DEFINE turn == log[run.answer].turn
           settled == Within([k \in DOMAIN Calls |-> k], {k \in DOMAIN Calls : tools[k] # "none"})
           results == [i \in DOMAIN settled |-> Result(Calls[settled[i]], tools[settled[i]])]
           ids == Ids(Len(log), results)
<1>1. /\ run.phase = "par" /\ run.out = <<>> /\ Logs(results) /\ tools' = NoTools
      /\ \E more \in {TRUE, ~Terminates} :
           run' = [run EXCEPT !.phase = "turnEnd", !.more = more, !.out = ids]
      /\ UNCHANGED <<mem, store, queue, started, spent>>
  BY DEF ParEnds, Ready
<1>2. /\ Len(Calls) \in Nat /\ DOMAIN Calls = 1..Len(Calls)
      /\ \A k \in DOMAIN Calls : /\ Calls[k] = <<turn, k>> /\ Calls[k] \in CallIds
                                 /\ k \in 1..MaxCalls
  BY <1>1, BatchFacts
<1>3. OfCalls(results)
  BY <1>1, ParResultsAre
<1> HIDE DEF results
<1>4. /\ results \in Seq(Message)
      /\ \A i \in DOMAIN results : \E k \in DOMAIN Calls :
           results[i].of = Calls[k] /\ results[i].how = tools[k]
  BY <1>3 DEF OfCalls
<1>5. Grows(results)
  BY <1>1, <1>4, Facts, LogsGrow
<1>6. Publishes(ids)
  BY <1>5, Facts, IdsPublish
<1> HIDE DEF ids
<1>7. run' \in RunsOver(DOMAIN log') /\ run'.phase = "turnEnd" /\ run'.out = ids
  <2>1. PICK more \in BOOLEAN :
          run' = [run EXCEPT !.phase = "turnEnd", !.more = more, !.out = ids]
    BY <1>1 DEF Terminates
  <2>2. run \in RunsOver(DOMAIN log') /\ ids \in Seq(DOMAIN log')
    BY <1>5, <1>6, Facts, RunsStay DEF Publishes
  <2> QED
    BY <2>1, <2>2 DEF RunsOver, Phases
<1>8. Advances(results)
  <2>1. ASSUME NEW i \in DOMAIN results, results[i].how \in {"refused", "truncated"}
        PROVE  results[i].of \in Range(Calls) /\ results[i].of \notin started
    <3>1. PICK k \in DOMAIN Calls : results[i].of = Calls[k] /\ results[i].how = tools[k]
      BY <1>4
    <3>2. Calls[k] = <<turn, k>>
      BY <1>2
    <3>3. Calls[k] \notin started
      <4>1. \A c \in started : c[1] = turn => tools[c[2]] \in {"running", "ran", "aborted"}
        BY <1>1 DEF IInv, Batch
      <4> QED
        BY <2>1, <3>1, <3>2, <4>1
    <3> QED
      BY <3>1, <3>3 DEF Range
  <2> QED
    BY <1>1, <1>5, <2>1 DEF Advances
<1>9. Typed' /\ Filed'
  BY <1>1, <1>6, <1>7, <1>8, Facts, AdvancesFiled
<1>10. RanIsRecorded' /\ \A t \in Used' : t <= spent'.requests
  BY <1>8, AdvancesKeeps
<1>11. Turns' /\ Batch'
  BY <1>7, <1>10 DEF Turns, Batch
<1> QED
  BY <1>9, <1>10, <1>11 DEF IInv

-----------------------------------------------------------------------------
(* Saving a message.                                                       *)

Extends(new, up, more) ==
  /\ new = [n \in DOMAIN new |-> new[n]] /\ DOMAIN new = DOMAIN up \cup DOMAIN more
  /\ \A n \in DOMAIN up : new[n] = up[n]
  /\ \A n \in DOMAIN more : n \notin DOMAIN up => new[n] = more[n]

LEMMA ParentsAre ==
  ASSUME NEW up, NEW more
  PROVE  Extends(Parents(up, more), up, more)
BY DEF Parents, Extends

\* A message that is not in a history is put at its end.
LEMMA AppendOther ==
  ASSUME NEW D, NEW s \in Seq(D), IsInjective(s), NEW e \in D, e \notin Range(s)
  PROVE  Append(s, e) \in Seq(D) /\ IsInjective(Append(s, e))
<1>1. Len(s) \in Nat /\ DOMAIN s = 1..Len(s) /\ \A i \in 1..Len(s) : s[i] # e
  BY DEF Range
<1>2. /\ Append(s, e) \in Seq(D) /\ DOMAIN Append(s, e) = 1..(Len(s) + 1)
      /\ \A i \in 1..Len(s) : Append(s, e)[i] = s[i]
      /\ Append(s, e)[Len(s) + 1] = e
  BY <1>1, AppendProperties
<1>3. \A i \in 1..(Len(s) + 1) : i \in 1..Len(s) \/ i = Len(s) + 1
  BY <1>1
<1>4. IsInjective(Append(s, e))
  BY <1>1, <1>2, <1>3 DEF IsInjective
<1> QED
  BY <1>2, <1>4

LEMMA RememberedAre ==
  ASSUME NEW D, NEW writes \in Seq(D), IsInjective(writes), NEW n \in D, NEW fault
  PROVE  Remembered(writes, n, fault) \in Seq(D) /\ IsInjective(Remembered(writes, n, fault))
<1>1. CASE fault = "none"
  BY <1>1, WithinKeeps DEF Remembered
<1>2. CASE fault # "none" /\ n \in Range(writes)
  BY <1>2 DEF Remembered
<1>3. CASE fault # "none" /\ n \notin Range(writes)
  <2>1. Remembered(writes, n, fault) = Append(writes, n)
    BY <1>3 DEF Remembered
  <2> QED
    BY <1>3, <2>1, AppendOther
<1> QED
  BY <1>1, <1>2, <1>3

\* What is saved is in the tree, under what was saved last.
LEMMA SavedTree ==
  ASSUME Tree(store), DOMAIN store.up \subseteq Nat,
         NEW n \in Nat \ {0}, n \in DOMAIN store.up \/ Newer(store, n),
         NEW fault \in {"none", "before", "after"}, store' = Saved(store, n, fault)
  PROVE  /\ Tree(store)' /\ DOMAIN store'.up = DOMAIN store.up \cup {n}
         /\ store.file \subseteq store'.file
         /\ fault = "none" => n \in store'.file
<1> DEFINE more == [m \in {n} |-> store.last]
           lands == fault # "before" /\ n \notin store.file
<1>1. /\ store = [file |-> store.file, tip |-> store.tip, up |-> store.up, last |-> store.last,
                  writes |-> store.writes]
      /\ \A m \in DOMAIN store.up : store.up[m] \in Nat /\ store.up[m] < m
      /\ store.file \subseteq DOMAIN store.up
      /\ store.tip \in store.file \cup {0} /\ store.last \in DOMAIN store.up \cup {0}
      /\ store.writes \in Seq(DOMAIN store.up) /\ IsInjective(store.writes)
  BY DEF Tree
<1>2. store' = [file |-> IF lands THEN store.file \cup {n} ELSE store.file,
                tip |-> IF lands THEN n ELSE store.tip, up |-> Parents(store.up, more),
                last |-> n, writes |-> Remembered(store.writes, n, fault)]
  BY <1>1 DEF Saved, Appended
<1>3. /\ store'.file = (IF lands THEN store.file \cup {n} ELSE store.file)
      /\ store'.tip = (IF lands THEN n ELSE store.tip)
      /\ store'.up = Parents(store.up, more) /\ store'.last = n
      /\ store'.writes = Remembered(store.writes, n, fault)
      /\ store' = [file |-> store'.file, tip |-> store'.tip, up |-> store'.up,
                   last |-> store'.last, writes |-> store'.writes]
  BY <1>2
<1>4. /\ store'.up = [m \in DOMAIN store'.up |-> store'.up[m]]
      /\ DOMAIN store'.up = DOMAIN store.up \cup {n}
      /\ \A m \in DOMAIN store.up : store'.up[m] = store.up[m]
      /\ n \notin DOMAIN store.up => store'.up[n] = store.last
  <2>1. DOMAIN more = {n} /\ more[n] = store.last
    OBVIOUS
  <2> HIDE DEF more
  <2> DEFINE up == Parents(store.up, more)
  <2>2. Extends(up, store.up, more)
    BY ParentsAre
  <2> HIDE DEF up
  <2>3. /\ up = [m \in DOMAIN up |-> up[m]] /\ DOMAIN up = DOMAIN store.up \cup DOMAIN more
        /\ \A m \in DOMAIN store.up : up[m] = store.up[m]
        /\ \A m \in DOMAIN more : m \notin DOMAIN store.up => up[m] = more[m]
    BY <2>2 DEF Extends
  <2>4. n \notin DOMAIN store.up => up[n] = store.last
    BY <2>1, <2>3
  <2>5. store'.up = up
    BY <1>3 DEF up
  <2> QED
    BY <2>1, <2>3, <2>4, <2>5
<1>5. \A m \in DOMAIN store'.up : store'.up[m] \in Nat /\ store'.up[m] < m
  <2>1. n \notin DOMAIN store.up => store.last \in Nat /\ store.last < n
    <3>1. CASE store.last = 0
      BY <3>1
    <3>2. CASE store.last # 0
      <4>1. store.last \in DOMAIN store.up
        BY <1>1, <3>2
      <4>2. n \notin DOMAIN store.up => store.last < n
        BY <4>1 DEF Newer
      <4>3. store.last \in Nat
        BY <4>1
      <4> QED
        BY <4>2, <4>3
    <3> QED
      BY <3>1, <3>2
  <2> QED
    BY <1>1, <1>4, <2>1
<1>6. store'.file \subseteq DOMAIN store'.up /\ store.file \subseteq store'.file
      /\ store'.tip \in store'.file \cup {0} /\ store'.last \in DOMAIN store'.up \cup {0}
  BY <1>1, <1>3, <1>4
<1>7. store'.writes \in Seq(DOMAIN store'.up) /\ IsInjective(store'.writes)
  <2>1. store.writes \in Seq(DOMAIN store'.up) /\ n \in DOMAIN store'.up
    BY <1>1, <1>4, SeqMonotonic
  <2> QED
    BY <1>1, <1>3, <2>1, RememberedAre
<1>8. fault = "none" => n \in store'.file
  BY <1>3
<1>9. Tree(store)'
  BY <1>3, <1>4, <1>5, <1>6, <1>7 DEF Tree
<1> QED
  BY <1>4, <1>6, <1>8, <1>9

\* A run that could not save its own failure is at its end.
Fails == run.failing => run.phase \in {"ended", "closing", "settle"}

\* What is published after a message that is saved.
LEMMA TailGoesOut ==
  ASSUME NEW D, NEW out \in Seq(D), out # <<>>, Outgoing(store, out),
         DOMAIN store'.up = DOMAIN store.up \cup {Head(out)}
  PROVE  Tail(out) \in Seq(D) /\ Outgoing(store', Tail(out))
<1> DEFINE rest == Tail(out)
<1>1. /\ rest \in Seq(D) /\ Len(out) \in Nat /\ Len(out) > 0 /\ DOMAIN out = 1..Len(out)
      /\ DOMAIN rest = 1..(Len(out) - 1)
      /\ \A i \in 1..(Len(out) - 1) : rest[i] = out[i + 1]
  <2>1. rest \in Seq(D) /\ Len(rest) = Len(out) - 1 /\ \A i \in 1..Len(rest) : rest[i] = out[i + 1]
    BY HeadTailProperties
  <2>2. Len(out) \in Nat /\ Len(out) > 0 /\ DOMAIN out = 1..Len(out)
    BY LenProperties
  <2> HIDE DEF rest
  <2> QED
    BY <2>1, <2>2, LenProperties
<1> HIDE DEF rest
<1>2. \A i \in DOMAIN rest : /\ i + 1 \in DOMAIN out /\ 1 \in DOMAIN out /\ 1 < i + 1
                             /\ rest[i] = out[i + 1]
  BY <1>1
<1>3. Head(out) = out[1]
  OBVIOUS
<1>4. ASSUME NEW i \in DOMAIN rest
      PROVE  rest[i] \in DOMAIN store'.up \/ Newer(store', rest[i])
  <2>1. out[i + 1] \in DOMAIN store.up \/ Newer(store, out[i + 1])
    BY <1>2 DEF Outgoing
  <2>2. out[i + 1] \in DOMAIN store.up \/ out[1] < out[i + 1]
    BY <1>2 DEF Outgoing
  <2> QED
    BY <1>2, <1>3, <2>1, <2>2 DEF Newer
<1>5. ASSUME NEW i \in DOMAIN rest, NEW j \in DOMAIN rest, i < j
      PROVE  rest[j] \in DOMAIN store'.up \/ rest[i] < rest[j]
  <2>1. i + 1 < j + 1
    BY <1>1, <1>5
  <2>2. out[j + 1] \in DOMAIN store.up \/ out[i + 1] < out[j + 1]
    BY <1>2, <2>1 DEF Outgoing
  <2> QED
    BY <1>2, <2>2
<1> QED
  BY <1>1, <1>4, <1>5 DEF Outgoing, rest

LEMMA PublishKeeps ==
  ASSUME IInv, Fails, Publish
  PROVE  IInv'
<1> DEFINE n == Head(run.out)
           mem1 == IF n \in Range(mem) THEN mem ELSE Append(mem, n)
           failure == Len(log) + 1
           m == Answered(0, 0, IF run.cancelled THEN "aborted" ELSE "error", TRUE)
<1>1. run.out # <<>> /\ UNCHANGED <<tools, queue, started>>
  BY DEF Publish
<1>2. PICK fault \in {"none", "before", "after"} :
        /\ spent' = [spent EXCEPT !.faults = @ + (IF fault = "none" THEN 0 ELSE 1)]
        /\ store' = Saved(store, n, fault)
        /\ \/ /\ fault = "none" \/ run.phase \in {"closing", "settle"}
              /\ mem' = mem1 /\ run' = [run EXCEPT !.out = Tail(@)] /\ UNCHANGED log
           \/ /\ run.phase = "flush" \/ run.failing
              /\ mem' = mem1
              /\ run' = IF run.failing THEN [run EXCEPT !.out = <<>>] ELSE Idle
              /\ UNCHANGED log
           \/ /\ Logs(<<m>>) /\ mem' = Append(mem1, failure)
              /\ run' = [run EXCEPT !.phase = "ended", !.out = <<failure>>, !.error = FALSE,
                                    !.failing = TRUE]
  BY DEF Publish
<1>3. /\ n \in DOMAIN log /\ n \in Nat \ {0} /\ run.out[1] = n /\ 1 \in DOMAIN run.out
  BY <1>1, Facts
<1> HIDE DEF n
<1>4. /\ Tree(store) /\ DOMAIN store.up \subseteq DOMAIN log /\ Outgoing(store, run.out)
      /\ DOMAIN store.up \subseteq Nat /\ store.file \subseteq DOMAIN log
  BY Facts, SMTT(40) DEF IInv, Filed, Tree
<1>5. n \in DOMAIN store.up \/ Newer(store, n)
  BY <1>3, <1>4 DEF Outgoing
<1>6. /\ Tree(store)' /\ DOMAIN store'.up = DOMAIN store.up \cup {n}
      /\ store.file \subseteq store'.file /\ (fault = "none" => n \in store'.file)
  BY <1>2, <1>3, <1>4, <1>5, SavedTree
<1>7. spent' \in Budgets /\ spent'.requests = spent.requests
  <2>1. spent' \in Budgets
    <3>1. CASE fault = "none"
      <4>1. spent' = [spent EXCEPT !.faults = @ + 0]
        BY <1>2, <3>1
      <4> QED
        BY <4>1, Spends
    <3>2. CASE fault # "none"
      <4>1. spent' = [spent EXCEPT !.faults = @ + 1]
        BY <1>2, <3>2
      <4> QED
        BY <4>1, Spends
    <3> QED
      BY <3>1, <3>2
  <2> QED
    BY <1>2, <2>1, Facts DEF Budgets
<1>8. spent'.requests \in Nat /\ spent.requests <= spent'.requests
  BY <1>7, Facts
<1>9. mem1 \in Seq(DOMAIN log) /\ IsInjective(mem1)
  BY <1>3, Facts, AppendOther
<1> HIDE DEF mem1
<1>10. CASE /\ fault = "none" \/ run.phase \in {"closing", "settle"}
           /\ mem' = mem1 /\ run' = [run EXCEPT !.out = Tail(@)] /\ UNCHANGED log
  <2>1. Tail(run.out) \in Seq(DOMAIN log) /\ Outgoing(store', Tail(run.out))
    BY <1>1, <1>4, <1>6, Facts, TailGoesOut DEF n
  <2>2. /\ run' \in RunsOver(DOMAIN log) /\ run'.phase = run.phase /\ run'.out = Tail(run.out)
        /\ run'.answer = run.answer /\ run'.next = run.next /\ run'.late = run.late
    BY <1>10, <2>1, Facts DEF RunsOver
  <2>3. Typed'
    BY <1>1, <1>7, <1>9, <1>10, <2>2, Facts DEF Typed
  <2>4. Filed'
    BY <1>3, <1>4, <1>6, <1>10, <2>1, <2>2 DEF Filed
  <2>5. Grows(<<>>) /\ Harmless(<<>>)
    BY <1>10, Facts, SameGrows DEF Harmless
  <2>6. run.phase = "answered" => run'.out = <<>> /\ run.answer \in store'.file
    <3>1. SUFFICES ASSUME run.phase = "answered"
                   PROVE  run'.out = <<>> /\ run.answer \in store'.file
      OBVIOUS
    <3>2. run.out = <<run.answer>>
      BY <1>1, <3>1 DEF IInv, Turns
    <3>3. n = run.answer /\ Tail(run.out) = <<>>
      BY <1>3, <3>2
    <3> QED
      BY <1>6, <1>10, <2>2, <3>1, <3>3
  <2>7. Turns' /\ Batch' /\ RanIsRecorded'
    BY <1>1, <1>6, <1>7, <2>2, <2>5, <2>6, TurnsStay
  <2> QED
    BY <2>3, <2>4, <2>7 DEF IInv
<1>11. CASE /\ run.phase = "flush" \/ run.failing
            /\ mem' = mem1
            /\ run' = IF run.failing THEN [run EXCEPT !.out = <<>>] ELSE Idle
            /\ UNCHANGED log
  <2>1. /\ run' \in RunsOver(DOMAIN log) /\ run'.phase \notin Busy /\ run'.out = <<>>
    <3>1. <<>> \in Seq(DOMAIN log) /\ 1 \in Nat \ {0}
      OBVIOUS
    <3>2. CASE run.failing
      <4>1. run' = [run EXCEPT !.out = <<>>] /\ run.phase \in {"ended", "closing", "settle"}
        BY <1>11, <3>2 DEF Fails
      <4> QED
        BY <3>1, <4>1, Facts DEF RunsOver, Busy
    <3>3. CASE ~run.failing
      <4>1. run' = Idle
        BY <1>11, <3>3
      <4> QED
        BY <3>1, <4>1 DEF Idle, RunsOver, Phases, Busy
    <3> QED
      BY <3>2, <3>3
  <2>2. Typed'
    BY <1>1, <1>7, <1>9, <1>11, <2>1, Facts DEF Typed
  <2>3. Filed'
    BY <1>3, <1>4, <1>6, <1>11, <2>1 DEF Filed, Outgoing
  <2>4. Grows(<<>>) /\ Harmless(<<>>)
    BY <1>11, Facts, SameGrows DEF Harmless
  <2>5. Turns' /\ Batch' /\ RanIsRecorded'
    BY <1>1, <1>6, <1>8, <2>1, <2>4, LeavesTurns
  <2> QED
    BY <2>2, <2>3, <2>5 DEF IInv
<1>12. CASE /\ Logs(<<m>>) /\ mem' = Append(mem1, failure)
            /\ run' = [run EXCEPT !.phase = "ended", !.out = <<failure>>, !.error = FALSE,
                                  !.failing = TRUE]
  <2>1. m \in Message /\ m.kind = "assistant"
    BY Facts DEF Answered, Message, Answers
  <2> HIDE DEF m
  <2>2. Grows(<<m>>) /\ Publishes(<<failure>>)
    BY <1>12, <2>1, OneMore
  <2>3. Harmless(<<m>>)
    BY <2>1 DEF Harmless
  <2>4. /\ failure \in Nat /\ DOMAIN log' = 1..failure /\ DOMAIN log \subseteq DOMAIN log'
        /\ log' \in Seq(Message) /\ failure \in DOMAIN log' /\ DOMAIN log = 1..Len(log)
    <3>1. Len(<<m>>) = 1
      OBVIOUS
    <3>2. DOMAIN log' = 1..(Len(log) + 1) /\ Len(log) \in Nat /\ DOMAIN log = 1..Len(log)
      BY <2>2, <3>1, Facts, IdsStay
    <3> QED
      BY <2>2, <3>2 DEF Grows
  <2>5. mem' \in Seq(DOMAIN log') /\ IsInjective(mem')
    <3>1. mem1 \in Seq(DOMAIN log')
      BY <1>9, <2>2, Facts, IdsStay
    <3>2. failure \notin Range(mem1)
      BY <1>9, <2>4, Facts DEF Range
    <3> HIDE DEF failure
    <3> QED
      BY <1>9, <1>12, <2>4, <3>1, <3>2, AppendOther
  <2>6. run' \in RunsOver(DOMAIN log') /\ run'.phase = "ended" /\ run'.out = <<failure>>
    <3>1. run \in RunsOver(DOMAIN log') /\ <<failure>> \in Seq(DOMAIN log')
      BY <2>2, Facts, RunsStay DEF Publishes
    <3> HIDE DEF failure
    <3> QED
      BY <1>12, <3>1 DEF RunsOver, Phases
  <2>7. Typed'
    BY <1>1, <1>7, <2>4, <2>5, <2>6, Facts DEF Typed
  <2>8. Filed'
    <3>1. Newer(store', failure)
      BY <1>3, <1>4, <1>6, <2>4, Facts DEF Newer
    <3>2. Outgoing(store', <<failure>>)
      <4> HIDE DEF failure
      <4> QED
        BY <3>1 DEF Outgoing
    <3> QED
      BY <1>3, <1>4, <1>6, <2>4, <2>6, <3>2 DEF Filed
  <2>9. Turns' /\ Batch' /\ RanIsRecorded'
    <3>1. run'.phase \notin Busy
      BY <2>6 DEF Busy
    <3> QED
      BY <1>1, <1>6, <1>8, <2>2, <2>3, <3>1, LeavesTurns
  <2> QED
    BY <2>7, <2>8, <2>9 DEF IInv
<1> QED
  BY <1>2, <1>10, <1>11, <1>12

\* The history that is loaded: its entries are in the file, in their order.
LEMMA LoadedAre ==
  ASSUME IInv, NEW path, path = Path(store, store.tip)
  PROVE  /\ path \in Seq(store.file) /\ path \in Seq(DOMAIN log) /\ IsInjective(path)
         /\ Records(path) \in Seq({log[n] : n \in store.file})
         /\ Len(Records(path)) = Len(path)
         /\ {log[n] : n \in store.file} \in SUBSET Message
<1>1. /\ store.file \subseteq DOMAIN log /\ DOMAIN log = 1..Len(log) /\ Len(log) \in Nat
      /\ \A n \in store.file : store.up[n] \in Nat /\ store.up[n] < n
      /\ store.tip \in store.file \cup {0}
  BY Facts DEF IInv, Filed, Tree
<1>2. Climbs(path, store.file, store.tip)
  <2>1. store.file \in SUBSET (1..Len(log))
    BY <1>1
  <2> QED
    BY <1>1, <2>1, PathClimbs
<1>3. path \in Seq(store.file)
  BY <1>2 DEF Climbs
<1>4. path \in Seq(DOMAIN log)
  BY <1>1, <1>3, SeqMonotonic
<1>5. /\ Len(path) \in Nat /\ DOMAIN path = 1..Len(path)
      /\ \A i \in 1..Len(path) : path[i] \in store.file /\ path[i] \in Nat
  BY <1>1, <1>3
<1>6. IsInjective(path)
  <2>1. ASSUME NEW i \in DOMAIN path, NEW j \in DOMAIN path, path[i] = path[j]
        PROVE  i = j
    <3>1. ~(path[i] < path[j]) /\ ~(path[j] < path[i])
      BY <1>5, <2>1
    <3>2. ~(i < j) /\ ~(j < i)
      BY <1>2, <3>1 DEF Climbs
    <3> QED
      BY <1>5, <3>2
  <2> QED
    BY <2>1 DEF IsInjective
<1>7. /\ Records(path) \in Seq({log[n] : n \in store.file}) /\ Len(Records(path)) = Len(path)
  <2> DEFINE M == {log[n] : n \in store.file}
  <2>1. \A i \in 1..Len(path) : log[path[i]] \in M
    BY <1>5
  <2> HIDE DEF M
  <2>2. [i \in 1..Len(path) |-> log[path[i]]] \in Seq(M)
    BY <1>5, <2>1
  <2>3. Records(path) = [i \in 1..Len(path) |-> log[path[i]]]
    BY <1>5 DEF Records
  <2>4. Len(Records(path)) = Len(path)
    BY <1>5, <2>3
  <2> QED
    BY <2>2, <2>3, <2>4 DEF M
<1>8. {log[n] : n \in store.file} \in SUBSET Message
  BY <1>1, Facts
<1> QED
  BY <1>3, <1>4, <1>6, <1>7, <1>8

\* What a repair changed: messages of the file again, and results that were missing.
LEMMA BranchIs ==
  ASSUME IInv, NEW path, path = Path(store, store.tip),
         NEW fixed, fixed = Repair(Records(path)), NEW keep,
         keep = Len(LongestCommonPrefix({Records(path), fixed}))
  PROVE  /\ keep \in Nat /\ keep <= Len(path)
         /\ SubSeq(fixed, keep + 1, Len(fixed)) \in Seq(Message)
         /\ Harmless(SubSeq(fixed, keep + 1, Len(fixed)))
         /\ SubSeq(fixed, keep + 1, Len(fixed)) = <<>> /\ fixed = Records(path) => keep = Len(path)
<1> DEFINE M == {log[n] : n \in store.file}
           X == M \cup ResultsOf({"missing"})
           old == Records(path)
           new == SubSeq(fixed, keep + 1, Len(fixed))
<1>1. M \in SUBSET Message /\ old \in Seq(M) /\ Len(old) = Len(path)
  BY LoadedAre
<1>2. fixed \in Seq(X)
  <2> HIDE DEF M, old
  <2>1. Repair(old) \in Seq(M \cup ResultsOf({"missing"}))
    BY <1>1, RepairAdds
  <2> QED
    BY <2>1 DEF old
<1>3. X \subseteq Message
  <2>1. ResultsOf({"missing"}) \subseteq Message
    BY DEF ResultsOf, Message, Hows
  <2> HIDE DEF M
  <2> QED
    BY <1>1, <2>1
<1>4. keep \in Nat /\ keep <= Len(path) /\ keep <= Len(fixed)
  <2> HIDE DEF M, X
  <2>1. old \in Seq(Message) /\ fixed \in Seq(Message)
    BY <1>1, <1>2, <1>3, SeqMonotonic
  <2>2. keep = Len(LongestCommonPrefix({old, fixed}))
    OBVIOUS
  <2> HIDE DEF old
  <2> QED
    BY <1>1, <2>1, <2>2, CommonBeginning
<1>5. new \in Seq(X)
  <2> HIDE DEF X
  <2>1. Len(fixed) \in Nat /\ \A i \in 1..Len(fixed) : fixed[i] \in X
    BY <1>2
  <2>2. keep + 1 \in Int /\ Len(fixed) \in Int /\ \A i \in (keep + 1)..Len(fixed) : fixed[i] \in X
    BY <1>4, <2>1
  <2> QED
    BY <2>2, SubSeqProperties
<1>6. new \in Seq(Message)
  <2> HIDE DEF X, new
  <2> QED
    BY <1>3, <1>5, SeqMonotonic
<1>7. Harmless(new)
  <2> HIDE DEF new
  <2>1. ASSUME NEW k \in DOMAIN new, new[k].kind = "result", new[k].how \in {"refused", "truncated"}
        PROVE  \E j \in Denials : log[j].of = new[k].of
    <3>1. new[k] \in X
      <4> HIDE DEF X
      <4> QED
        BY <1>5, <2>1
    <3>2. new[k] \notin ResultsOf({"missing"})
      BY <2>1 DEF ResultsOf
    <3>3. PICK n \in store.file : new[k] = log[n]
      BY <3>1, <3>2
    <3>4. n \in DOMAIN log
      BY DEF IInv, Filed, Tree
    <3>5. n \in Denials
      BY <2>1, <3>3, <3>4 DEF Denials, Results
    <3> QED
      BY <3>3, <3>5
  <2> QED
    BY <2>1 DEF Harmless
<1>8. new = <<>> /\ fixed = old => keep = Len(path)
  <2>1. Len(fixed) \in Nat /\ \A i \in 1..Len(fixed) : fixed[i] \in X
    <3> HIDE DEF X
    <3> QED
      BY <1>2
  <2>2. ASSUME keep < Len(fixed)
        PROVE  Len(new) # 0
    <3>1. /\ keep + 1 \in Int /\ Len(fixed) \in Int /\ keep + 1 <= Len(fixed)
          /\ \A i \in (keep + 1)..Len(fixed) : fixed[i] \in X
      BY <1>4, <2>1, <2>2
    <3>2. Len(new) = Len(fixed) - (keep + 1) + 1
      <4> HIDE DEF X
      <4> QED
        BY <3>1, SubSeqProperties
    <3> HIDE DEF new
    <3> QED
      BY <1>4, <2>1, <2>2, <3>2
  <2>3. Len(<<>>) = 0
    OBVIOUS
  <2> HIDE DEF new, old
  <2>4. new = <<>> /\ fixed = old => ~(keep < Len(fixed)) /\ Len(fixed) = Len(path)
    BY <1>1, <2>2, <2>3
  <2>5. keep \in Nat /\ keep <= Len(path) /\ (~(keep < Len(path)) => keep = Len(path))
    <3>1. Len(path) \in Nat
      BY LoadedAre
    <3> QED
      BY <1>4, <3>1
  <2> QED
    BY <2>4, <2>5
<1> QED
  BY <1>4, <1>6, <1>7, <1>8

\* A branch in the file: the first of the new entries is under one that was kept, every
\* other under the one before.
Branched(s, ids, under, tip) ==
  [s EXCEPT
    !.file = @ \cup Range(ids), !.tip = tip, !.last = tip, !.writes = <<>>,
    !.up = Parents(@, [n \in Range(ids) |-> IF n = Len(log) + 1 THEN under ELSE n - 1])]

LEMMA BranchTree ==
  ASSUME Tree(store), DOMAIN store.up \subseteq 1..Len(log), Len(log) \in Nat,
         NEW count \in Nat, NEW ids, Range(ids) = (Len(log) + 1)..(Len(log) + count),
         NEW under \in store.file \cup {0}, NEW tip \in Range(ids) \cup store.file \cup {0},
         store' = Branched(store, ids, under, tip)
  PROVE  /\ Tree(store)' /\ DOMAIN store'.up = DOMAIN store.up \cup Range(ids)
         /\ store'.file = store.file \cup Range(ids) /\ store'.writes = <<>>
         /\ store'.tip = tip /\ store'.last = tip
         /\ \A n \in DOMAIN store.up : store'.up[n] = store.up[n]
         /\ \A n \in Range(ids) : store'.up[n] = IF n = Len(log) + 1 THEN under ELSE n - 1
<1> DEFINE more == [n \in Range(ids) |-> IF n = Len(log) + 1 THEN under ELSE n - 1]
           up == Parents(store.up, more)
<1>1. /\ \A m \in DOMAIN store.up : store.up[m] \in Nat /\ store.up[m] < m
      /\ store.file \subseteq DOMAIN store.up
      /\ store = [file |-> store.file, tip |-> store.tip, up |-> store.up, last |-> store.last,
                  writes |-> store.writes]
  BY DEF Tree
<1>2. store' = [file |-> store.file \cup Range(ids), tip |-> tip, up |-> up, last |-> tip,
                writes |-> <<>>]
  BY <1>1 DEF Branched
<1>3. \A n \in Range(ids) : /\ n \in Nat /\ n > Len(log) /\ n \notin DOMAIN store.up
                            /\ more[n] \in Nat /\ more[n] < n
  <2>1. under \in Nat /\ under <= Len(log)
    BY <1>1
  <2> TAKE n \in Range(ids)
  <2>2. n \in Nat /\ n > Len(log) /\ n \notin DOMAIN store.up
    OBVIOUS
  <2> QED
    BY <2>1, <2>2
<1>4. DOMAIN more = Range(ids)
  OBVIOUS
<1> HIDE DEF more
<1>5. Extends(up, store.up, more)
  BY ParentsAre
<1> HIDE DEF up
<1>6. /\ up = [m \in DOMAIN up |-> up[m]] /\ DOMAIN up = DOMAIN store.up \cup Range(ids)
      /\ \A m \in DOMAIN up : up[m] \in Nat /\ up[m] < m
  BY <1>1, <1>3, <1>4, <1>5 DEF Extends
<1>7. Tree(store)'
  <2>1. <<>> \in Seq(DOMAIN up) /\ IsInjective(<<>>)
    BY DEF IsInjective
  <2>2. /\ store'.file = store.file \cup Range(ids) /\ store'.tip = tip /\ store'.up = up
        /\ store'.last = tip /\ store'.writes = <<>>
    BY <1>2
  <2>3. store' = [file |-> store'.file, tip |-> store'.tip, up |-> store'.up,
                  last |-> store'.last, writes |-> store'.writes]
    BY <1>2, <2>2
  <2>4. /\ tip \in DOMAIN up \cup {0}
        /\ tip \in store'.file \cup {0}
        /\ store'.file \subseteq DOMAIN up
    BY <1>1, <1>6, <2>2
  <2> QED
    BY <1>6, <2>1, <2>2, <2>3, <2>4 DEF Tree
<1>8. \A n \in DOMAIN store.up : up[n] = store.up[n]
  BY <1>5 DEF Extends
<1>9. \A n \in Range(ids) : up[n] = IF n = Len(log) + 1 THEN under ELSE n - 1
  <2>1. \A n \in Range(ids) : more[n] = IF n = Len(log) + 1 THEN under ELSE n - 1
    BY DEF more
  <2> QED
    BY <1>3, <1>4, <1>5, <2>1 DEF Extends
<1> QED
  BY <1>2, <1>6, <1>7, <1>8, <1>9

LEMMA RestartKeeps == IInv /\ Restart => IInv'
<1> SUFFICES ASSUME IInv, Restart PROVE IInv'
  OBVIOUS
<1> DEFINE path  == Path(store, store.tip)
           old   == Records(path)
           fixed == Repair(old)
           keep  == Len(LongestCommonPrefix({old, fixed}))
           new   == SubSeq(fixed, keep + 1, Len(fixed))
           ids   == Ids(Len(log), new)
           under == IF keep = 0 THEN 0 ELSE path[keep]
           tip   == IF new # <<>> THEN Last(ids) ELSE IF fixed # old THEN under ELSE store.tip
           kept  == SubSeq(path, 1, keep)
<1>1. /\ Logs(new) /\ mem' = kept \o ids /\ store' = Branched(store, ids, under, tip)
      /\ run' = Idle /\ tools' = NoTools /\ queue' = [steer |-> 0, follow |-> 0]
      /\ spent' = [spent EXCEPT !.restarts = @ + 1] /\ UNCHANGED started
  BY DEF Restart, Logs, Branched
<1>2. path \in Seq(store.file) /\ path \in Seq(DOMAIN log) /\ IsInjective(path)
  BY LoadedAre
<1>3. keep \in Nat /\ keep <= Len(path) /\ new \in Seq(Message) /\ Harmless(new)
  BY BranchIs
<1> HIDE DEF path, keep, new
<1>4. Grows(new)
  BY <1>1, <1>3, Facts, LogsGrow
<1>5. /\ Len(new) \in Nat /\ DOMAIN log' = 1..(Len(log) + Len(new)) /\ Len(log) \in Nat
      /\ DOMAIN log = 1..Len(log)
  BY <1>4, Facts, IdsStay
<1>6. Publishes(ids)
  BY <1>4, Facts, IdsPublish
<1>7. /\ Len(ids) = Len(new) /\ DOMAIN ids = 1..Len(new)
      /\ \A i \in 1..Len(new) : ids[i] = Len(log) + i
  BY <1>3, <1>5, IdsAre
<1> HIDE DEF ids
<1>8. Range(ids) = (Len(log) + 1)..(Len(log) + Len(new))
  <2>1. \A n \in (Len(log) + 1)..(Len(log) + Len(new)) :
          n - Len(log) \in 1..Len(new) /\ n = Len(log) + (n - Len(log))
    BY <1>5
  <2>2. \A i \in 1..Len(new) : Len(log) + i \in (Len(log) + 1)..(Len(log) + Len(new))
    BY <1>5
  <2>3. Range(ids) = {Len(log) + i : i \in 1..Len(new)}
    BY <1>7 DEF Range
  <2> QED
    BY <2>1, <2>2, <2>3
<1>9. under \in store.file \cup {0}
  <2>1. keep # 0 => path[keep] \in store.file
    BY <1>2, <1>3
  <2> QED
    BY <2>1
<1> HIDE DEF under
<1>10. tip \in Range(ids) \cup store.file \cup {0}
  <2>1. new # <<>> => Last(ids) \in Range(ids)
    <3>1. new # <<>> => Len(new) # 0
      BY <1>3
    <3>2. new # <<>> => Len(new) \in 1..Len(new)
      BY <1>5, <3>1
    <3> QED
      BY <1>7, <3>2 DEF Last, Range
  <2>2. store.tip \in store.file \cup {0}
    BY DEF IInv, Filed, Tree
  <2> QED
    BY <1>9, <2>1, <2>2
<1> HIDE DEF tip
<1>11. /\ Tree(store)' /\ DOMAIN store'.up = DOMAIN store.up \cup Range(ids)
       /\ store.file \subseteq store'.file
  <2>1. Tree(store) /\ DOMAIN store.up \subseteq 1..Len(log)
    BY <1>5 DEF IInv, Filed
  <2>2. store'.file = store.file \cup Range(ids)
    BY <1>1, <1>5, <1>8, <1>9, <1>10, <2>1, BranchTree
  <2> QED
    BY <1>1, <1>5, <1>8, <1>9, <1>10, <2>1, <2>2, BranchTree
<1>12. mem' \in Seq(DOMAIN log') /\ IsInjective(mem')
  <2>1. kept \in Seq(DOMAIN log) /\ IsInjective(kept)
    <3>1. Len(path) \in Nat /\ DOMAIN path = 1..Len(path)
          /\ \A i \in 1..Len(path) : path[i] \in DOMAIN log
      BY <1>2
    <3>2. /\ \A i \in 1..keep : path[i] \in DOMAIN log /\ i \in DOMAIN path
      BY <1>3, <3>1
    <3>3. /\ kept \in Seq(DOMAIN log) /\ Len(kept) = (IF 1 <= keep THEN keep - 1 + 1 ELSE 0)
          /\ \A i \in 1..(keep - 1 + 1) : kept[i] = path[1 + i - 1]
      BY <1>3, <3>2, SubSeqProperties
    <3>4. DOMAIN kept = 1..keep /\ \A i \in 1..keep : kept[i] = path[i]
      <4> HIDE DEF kept
      <4> QED
        BY <1>3, <3>3
    <3>5. IsInjective(kept)
      <4> HIDE DEF kept
      <4> QED
        BY <1>2, <3>2, <3>4 DEF IsInjective
    <3> QED
      BY <3>3, <3>5
  <2> HIDE DEF kept
  <2> QED
    BY <1>1, <1>4, <1>6, <2>1, Facts, NumbersStay
<1>13. spent' \in Budgets /\ spent'.requests = spent.requests
  <2>1. spent' \in Budgets
    BY <1>1, Spends
  <2> QED
    BY <1>1, <2>1, Facts DEF Budgets
<1>14. Typed'
  <2>1. run' \in RunsOver(DOMAIN log')
    <3>1. <<>> \in Seq(DOMAIN log') /\ 1 \in Nat \ {0}
      OBVIOUS
    <3> QED
      BY <1>1, <3>1 DEF Idle, RunsOver, Phases
  <2>2. queue' \in [steer : Nat, follow : Nat]
    BY <1>1
  <2>3. log' \in Seq(Message)
    BY <1>4 DEF Grows
  <2> QED
    BY <1>1, <1>12, <1>13, <2>1, <2>2, <2>3, Facts DEF Typed
<1>15. Filed'
  <2>1. DOMAIN store'.up \subseteq DOMAIN log'
    <3>1. DOMAIN store.up \subseteq DOMAIN log
      BY DEF IInv, Filed
    <3> QED
      BY <1>5, <1>8, <1>11, <3>1
  <2>2. run'.out = <<>>
    BY <1>1 DEF Idle
  <2> QED
    BY <1>11, <2>1, <2>2 DEF Filed, Outgoing
<1>16. Turns' /\ Batch' /\ RanIsRecorded'
  <2>1. run'.phase \notin Busy
    BY <1>1 DEF Idle, Busy
  <2>2. spent'.requests \in Nat /\ spent.requests <= spent'.requests
    BY <1>13, Facts
  <2> QED
    BY <1>1, <1>3, <1>4, <1>11, <2>1, <2>2, LeavesTurns
<1> QED
  BY <1>14, <1>15, <1>16 DEF IInv

-----------------------------------------------------------------------------
(* Paths and selections.                                                   *)

\* Strong induction.
LEMMA Minimal ==
  ASSUME NEW T, \A n \in Nat : (\A k \in Nat : k < n => k \in T) => n \in T
  PROVE  \A n \in Nat : n \in T
<1> DEFINE U == {n \in Nat : \A k \in Nat : k < n => k \in T}
<1>1. 0 \in U
  OBVIOUS
<1>2. ASSUME NEW n \in Nat, n \in U
      PROVE  n + 1 \in U
  <2>1. n \in T
    BY <1>2
  <2>2. \A k \in Nat : k < n + 1 => k < n \/ k = n
    OBVIOUS
  <2> QED
    BY <1>2, <2>1, <2>2
<1>3. \A n \in Nat : n \in U
  <2> HIDE DEF U
  <2> QED
    BY <1>1, <1>2, Induction
<1> QED
  BY <1>3

\* Files whose entries stand under older ones.
Stands(s, m) ==
  /\ m \in Nat /\ s.file \in SUBSET (1..m)
  /\ \A n \in s.file : s.up[n] \in Nat /\ s.up[n] < n

\* A path is the same in a file that got other entries, if none of them is a parent
\* that was missing.
LEMMA PathStays ==
  ASSUME NEW m, NEW s, Stands(s, m), NEW k, NEW t, Stands(t, k), s.file \subseteq t.file,
         \A n \in s.file : /\ t.up[n] = s.up[n]
                           /\ s.up[n] \in t.file => s.up[n] \in s.file
  PROVE  \A n \in s.file \cup {0} : Path(t, n) = Path(s, n)
<1> DEFINE T == {n \in Nat : n \in s.file \cup {0} => Path(t, n) = Path(s, n)}
<1>1. /\ Path(s, 0) = <<>>
      /\ \A n \in s.file :
           Path(s, n) = Append(Path(s, IF s.up[n] \in s.file THEN s.up[n] ELSE 0), n)
  BY PathIs DEF Stands
<1>2. /\ Path(t, 0) = <<>>
      /\ \A n \in t.file :
           Path(t, n) = Append(Path(t, IF t.up[n] \in t.file THEN t.up[n] ELSE 0), n)
  BY PathIs DEF Stands
<1>3. ASSUME NEW n \in Nat, \A j \in Nat : j < n => j \in T
      PROVE  n \in T
  <2>1. SUFFICES ASSUME n \in s.file PROVE Path(t, n) = Path(s, n)
    BY <1>1, <1>2
  <2> DEFINE u == IF s.up[n] \in s.file THEN s.up[n] ELSE 0
  <2>2. u \in s.file \cup {0} /\ u \in Nat /\ u < n
    BY <2>1 DEF Stands
  <2>3. Path(s, n) = Append(Path(s, u), n)
    BY <1>1, <2>1
  <2>4. (IF t.up[n] \in t.file THEN t.up[n] ELSE 0) = u
    BY <2>1
  <2>5. Path(t, n) = Append(Path(t, u), n)
    BY <1>2, <2>1, <2>4
  <2> HIDE DEF u
  <2>6. Path(t, u) = Path(s, u)
    BY <1>3, <2>2
  <2> QED
    BY <2>3, <2>5, <2>6
<1>4. \A n \in Nat : n \in T
  <2> HIDE DEF T
  <2> QED
    BY <1>3, Minimal
<1>5. \A n \in s.file \cup {0} : n \in Nat
  BY DEF Stands
<1> QED
  BY <1>4, <1>5

\* The path to an entry of a path is its beginning.
LEMMA PathBegins ==
  ASSUME NEW m, NEW s, Stands(s, m)
  PROVE  \A n \in s.file \cup {0} : \A k \in 1..Len(Path(s, n)) :
           Path(s, Path(s, n)[k]) = SubSeq(Path(s, n), 1, k)
<1> DEFINE Good(n) == \A k \in 1..Len(Path(s, n)) :
             Path(s, Path(s, n)[k]) = SubSeq(Path(s, n), 1, k)
           T == {n \in Nat : n \in s.file \cup {0} => Good(n)}
<1>1. /\ Path(s, 0) = <<>>
      /\ \A n \in s.file :
           Path(s, n) = Append(Path(s, IF s.up[n] \in s.file THEN s.up[n] ELSE 0), n)
  BY PathIs DEF Stands
<1>2. \A n \in s.file \cup {0} : Path(s, n) \in Seq(s.file)
  BY PathClimbs DEF Stands, Climbs
<1>3. ASSUME NEW n \in Nat, \A j \in Nat : j < n => j \in T
      PROVE  n \in T
  <2>1. CASE n = 0
    BY <1>1, <2>1
  <2>2. CASE n \in s.file
    <3> DEFINE u == IF s.up[n] \in s.file THEN s.up[n] ELSE 0
               p == Path(s, n)
               q == Path(s, u)
    <3>1. u \in s.file \cup {0} /\ u \in Nat /\ u < n
      BY <2>2 DEF Stands
    <3>2. p = Append(q, n)
      BY <1>1, <2>2
    <3>3. q \in Seq(s.file) /\ p \in Seq(s.file)
      BY <1>2, <2>2, <3>1
    <3>4. \A k \in 1..Len(q) : Path(s, q[k]) = SubSeq(q, 1, k)
      <4> HIDE DEF u
      <4> QED
        BY <1>3, <3>1
    <3> HIDE DEF p, q, u
    <3>5. ASSUME NEW k \in 1..Len(p)
          PROVE  Path(s, p[k]) = SubSeq(p, 1, k)
      <4>1. Len(q) \in Nat /\ Len(p) = Len(q) + 1 /\ DOMAIN p = 1..Len(p)
            /\ (\A i \in 1..Len(q) : p[i] = q[i]) /\ p[Len(q) + 1] = n
        BY <2>2, <3>2, <3>3, AppendProperties
      <4>2. CASE k <= Len(q)
        <5>1. k \in 1..Len(q) /\ p[k] = q[k]
          BY <4>1, <4>2
        <5>2. SubSeq(p, 1, k) = SubSeq(q, 1, k)
          BY <2>2, <3>2, <3>3, <4>1, <5>1
        <5> QED
          BY <3>4, <5>1, <5>2
      <4>3. CASE ~(k <= Len(q))
        <5>1. k = Len(p) /\ p[k] = n
          BY <4>1, <4>3
        <5>2. SubSeq(p, 1, Len(p)) = p
          BY <3>3
        <5> QED
          BY <5>1, <5>2 DEF p
      <4> QED
        BY <4>2, <4>3
    <3> QED
      BY <3>5 DEF p
  <2> QED
    BY <2>1, <2>2
<1>4. \A n \in Nat : n \in T
  <2> HIDE DEF T
  <2> QED
    BY <1>3, Minimal
<1>5. \A n \in s.file \cup {0} : n \in Nat
  BY DEF Stands
<1> QED
  BY <1>4, <1>5

\* Scans that see the same say the same.
Agree(s, S, t, T, n) == \A i \in 1..n : s[i] = t[i] /\ (s[i] \in S <=> t[i] \in T)

LEMMA ScansAgree ==
  ASSUME NEW D, NEW s \in Seq(D), NEW t \in Seq(D), NEW S, NEW T, NEW n \in Nat,
         n <= Len(s), n <= Len(t), Agree(s, S, t, T, n)
  PROVE  Scan(s, S)[n] = Scan(t, T)[n]
<1> DEFINE f == Scan(s, S)
           g == Scan(t, T)
           K == {k \in Nat : k <= n => f[k] = g[k]}
<1>1. /\ f[0] = <<>>
      /\ \A i \in 1..Len(s) : f[i] = IF s[i] \in S THEN Append(f[i - 1], s[i]) ELSE f[i - 1]
  BY ScanFacts
<1>2. /\ g[0] = <<>>
      /\ \A i \in 1..Len(t) : g[i] = IF t[i] \in T THEN Append(g[i - 1], t[i]) ELSE g[i - 1]
  BY ScanFacts
<1> HIDE DEF f, g
<1>3. 0 \in K
  BY <1>1, <1>2
<1>4. ASSUME NEW k \in Nat, k \in K
      PROVE  k + 1 \in K
  <2>1. SUFFICES ASSUME k + 1 <= n PROVE f[k + 1] = g[k + 1]
    OBVIOUS
  <2>2. k + 1 \in 1..n /\ k + 1 \in 1..Len(s) /\ k + 1 \in 1..Len(t) /\ (k + 1) - 1 = k
    BY <2>1
  <2>3. f[k] = g[k]
    BY <1>4, <2>1
  <2>4. f[k + 1] = IF s[k + 1] \in S THEN Append(f[k], s[k + 1]) ELSE f[k]
    BY <1>1, <2>2
  <2>5. g[k + 1] = IF t[k + 1] \in T THEN Append(g[k], t[k + 1]) ELSE g[k]
    BY <1>2, <2>2
  <2> QED
    BY <2>2, <2>3, <2>4, <2>5 DEF Agree
<1>5. n \in K
  <2> HIDE DEF K
  <2> QED
    BY <1>3, <1>4, Induction
<1> QED
  BY <1>5 DEF f, g

LEMMA WithinSame ==
  ASSUME NEW D, NEW s \in Seq(D), NEW S, NEW T, \A x \in D : x \in S <=> x \in T
  PROVE  Within(s, S) = Within(s, T)
<1>1. Len(s) \in Nat /\ Len(s) <= Len(s) /\ \A i \in 1..Len(s) : s[i] \in D
  OBVIOUS
<1>2. Scan(s, S)[Len(s)] = Scan(s, T)[Len(s)]
  BY <1>1, ScansAgree DEF Agree
<1> QED
  BY <1>2, ScanFacts

LEMMA WithinAppend ==
  ASSUME NEW D, NEW s \in Seq(D), NEW e \in D, NEW S
  PROVE  Within(Append(s, e), S) = IF e \in S THEN Append(Within(s, S), e) ELSE Within(s, S)
<1> DEFINE t == Append(s, e)
           n == Len(s)
<1>1. /\ n \in Nat /\ t \in Seq(D) /\ Len(t) = n + 1
      /\ (\A i \in 1..n : t[i] = s[i]) /\ t[n + 1] = e
      /\ n <= Len(s) /\ n <= Len(t) /\ n + 1 \in 1..Len(t) /\ (n + 1) - 1 = n
  BY AppendProperties
<1> HIDE DEF t, n
<1>2. Scan(t, S)[n] = Scan(s, S)[n]
  <2>1. Agree(t, S, s, S, n)
    BY <1>1 DEF Agree
  <2> QED
    BY <1>1, <2>1, ScansAgree
<1>3. Scan(t, S)[n + 1] = IF t[n + 1] \in S THEN Append(Scan(t, S)[(n + 1) - 1], t[n + 1])
                          ELSE Scan(t, S)[(n + 1) - 1]
  BY <1>1, ScanFacts
<1>4. Within(t, S) = Scan(t, S)[n + 1]
  BY <1>1, ScanFacts
<1>5. Within(s, S) = Scan(s, S)[n]
  BY ScanFacts DEF n
<1> QED
  BY <1>1, <1>2, <1>3, <1>4, <1>5 DEF t

\* What follows and is not in the set adds nothing.
LEMMA WithinOthers ==
  ASSUME NEW D, NEW a \in Seq(D), NEW b \in Seq(D), NEW S, Range(b) \cap S = {}
  PROVE  Within(a \o b, S) = Within(a, S)
<1> DEFINE s == a \o b
           n == Len(a)
           f == Scan(s, S)
           K == {k \in Nat : k <= Len(b) => f[n + k] = f[n]}
<1>1. /\ n \in Nat /\ Len(b) \in Nat /\ s \in Seq(D) /\ Len(s) = n + Len(b)
      /\ \A i \in 1..n : s[i] = a[i]
      /\ \A i \in 1..Len(b) : s[n + i] = b[i] /\ b[i] \notin S
  <2>1. s \in Seq(D) /\ Len(s) = Len(a) + Len(b)
        /\ \A i \in 1..(Len(a) + Len(b)) : s[i] = IF i <= Len(a) THEN a[i] ELSE b[i - Len(a)]
    BY ConcatProperties
  <2>2. Len(a) \in Nat /\ Len(b) \in Nat /\ DOMAIN b = 1..Len(b)
    OBVIOUS
  <2>3. \A i \in 1..Len(b) : b[i] \notin S
    BY <2>2 DEF Range
  <2> HIDE DEF s
  <2>4. \A i \in 1..Len(a) : i \in 1..(Len(a) + Len(b)) /\ i <= Len(a)
    BY <2>2
  <2>5. \A i \in 1..Len(b) : /\ Len(a) + i \in 1..(Len(a) + Len(b)) /\ ~(Len(a) + i <= Len(a))
                             /\ (Len(a) + i) - Len(a) = i
    BY <2>2
  <2> QED
    BY <2>1, <2>2, <2>3, <2>4, <2>5
<1>2. s \in Seq(D)
  BY <1>1
<1> HIDE DEF s
<1>3. /\ \A i \in 1..Len(s) : f[i] = IF s[i] \in S THEN Append(f[i - 1], s[i]) ELSE f[i - 1]
      /\ Within(s, S) = f[Len(s)] /\ Within(a, S) = Scan(a, S)[n]
  BY <1>2, ScanFacts
<1>4. f[n] = Scan(a, S)[n]
  <2>1. Agree(s, S, a, S, n)
    BY <1>1 DEF Agree
  <2>2. n <= Len(s) /\ n <= Len(a) /\ n \in Nat
    BY <1>1
  <2> HIDE DEF n
  <2> QED
    BY <1>2, <2>1, <2>2, ScansAgree
<1> HIDE DEF f, n
<1>5. 0 \in K
  BY <1>1
<1>6. ASSUME NEW k \in Nat, k \in K
      PROVE  k + 1 \in K
  <2>1. SUFFICES ASSUME k + 1 <= Len(b) PROVE f[n + (k + 1)] = f[n]
    OBVIOUS
  <2>2. k + 1 \in 1..Len(b) /\ n + (k + 1) \in 1..Len(s) /\ (n + (k + 1)) - 1 = n + k
        /\ k <= Len(b)
    BY <1>1, <2>1
  <2>3. f[n + k] = f[n]
    BY <1>6, <2>2
  <2>4. s[n + (k + 1)] \notin S
    BY <1>1, <2>2
  <2> QED
    BY <1>3, <2>2, <2>3, <2>4
<1>7. Len(b) \in K
  <2> HIDE DEF K
  <2> QED
    BY <1>1, <1>5, <1>6, Induction
<1> QED
  BY <1>1, <1>3, <1>4, <1>7 DEF s

LEMMA WithinFront ==
  ASSUME NEW D, NEW s \in Seq(D), s # <<>>, NEW S, Last(s) \notin S
  PROVE  Within(Front(s), S) = Within(s, S)
<1> DEFINE f == SubSeq(s, 1, Len(s) - 1)
           e == s[Len(s)]
<1>1. Len(s) \in Nat /\ Len(s) > 0 /\ e \in D /\ Front(s) = f /\ Last(s) = e
  BY DEF Front, Last
<1>2. /\ \A i \in 1..Len(s) : s[i] \in D
      /\ DOMAIN s = 1..Len(s)
  OBVIOUS
<1>3. /\ f \in Seq(D) /\ Len(f) = Len(s) - 1
      /\ \A i \in 1..(Len(s) - 1) : f[i] = s[i]
  BY <1>1, <1>2
<1> HIDE DEF f, e
<1>4. /\ Append(f, e) \in Seq(D) /\ Len(Append(f, e)) = Len(s)
      /\ \A i \in 1..(Len(s) - 1) : Append(f, e)[i] = s[i]
      /\ Append(f, e)[Len(s)] = e
  BY <1>1, <1>3, AppendProperties
<1>5. \A i \in 1..Len(s) : i \in 1..(Len(s) - 1) \/ i = Len(s)
  BY <1>1
<1>6. \A i \in 1..Len(s) : Append(f, e)[i] = s[i]
  BY <1>4, <1>5 DEF e
<1>7. Append(f, e) = s
  BY <1>4, <1>6, SeqEqual
<1>8. Within(Append(f, e), S) = Within(f, S)
  BY <1>1, <1>3, WithinAppend
<1> QED
  BY <1>1, <1>7, <1>8

-----------------------------------------------------------------------------
(* The file follows the history.                                           *)

\* The file as it will be when what is unfinished is written.
Live(s) == [s EXCEPT !.file = @ \cup Range(s.writes)]

\* The path to the entry that comes next, or to one that is unfinished, or to the last one of
\* the file if all that is unfinished is in it, tells what was told.
Follows(s, T, told) ==
  /\ s.last \in Live(s).file \cup {0}
  /\ Within(Path(Live(s), s.last), T) = told
  /\ \A n \in Range(s.writes) : Within(Path(Live(s), n), T) = told
  /\ Within(Path(Live(s), s.tip), T) = told \/ ~(Range(s.writes) \subseteq s.file)

LEMMA LiveIs ==
  ASSUME NEW s, Tree(s), NEW m \in Nat, DOMAIN s.up \subseteq 1..m
  PROVE  /\ Live(s).file = s.file \cup Range(s.writes) /\ Live(s).up = s.up
         /\ Stands(s, m) /\ Stands(Live(s), m) /\ Live(s).file \subseteq DOMAIN s.up
         /\ s.writes = <<>> => Live(s) = s
         /\ \A n \in Live(s).file \cup {0} : Path(Live(s), n) \in Seq(DOMAIN s.up)
         /\ \A n \in s.file \cup {0} : Path(s, n) \in Seq(DOMAIN s.up)
<1>1. /\ s = [file |-> s.file, tip |-> s.tip, up |-> s.up, last |-> s.last, writes |-> s.writes]
      /\ \A n \in DOMAIN s.up : s.up[n] \in Nat /\ s.up[n] < n
      /\ s.file \subseteq DOMAIN s.up /\ s.writes \in Seq(DOMAIN s.up)
  BY DEF Tree
<1>2. Range(s.writes) \subseteq DOMAIN s.up
  BY <1>1 DEF Range
<1>3. Live(s) = [file |-> s.file \cup Range(s.writes), tip |-> s.tip, up |-> s.up,
                 last |-> s.last, writes |-> s.writes]
  <2> DEFINE file == s.file \cup Range(s.writes)
  <2>1. Live(s) = [s EXCEPT !.file = file]
    BY DEF Live
  <2> HIDE DEF file
  <2>2. Live(s) = [file |-> file, tip |-> s.tip, up |-> s.up, last |-> s.last, writes |-> s.writes]
    BY <1>1, <2>1
  <2> QED
    BY <2>2 DEF file
<1>4. Live(s).file = s.file \cup Range(s.writes) /\ Live(s).up = s.up
  BY <1>3
<1>5. Stands(s, m) /\ Stands(Live(s), m) /\ Live(s).file \subseteq DOMAIN s.up
  BY <1>1, <1>2, <1>4 DEF Stands
<1>6. s.writes = <<>> => Live(s) = s
  <2>1. Range(<<>>) = {}
    BY DEF Range
  <2>2. s.writes = <<>> => s.file \cup Range(s.writes) = s.file
    BY <2>1
  <2> QED
    BY <1>1, <1>3, <2>2
<1>7. \A n \in Live(s).file \cup {0} : Path(Live(s), n) \in Seq(DOMAIN s.up)
  <2>1. \A n \in Live(s).file \cup {0} : Path(Live(s), n) \in Seq(Live(s).file)
    BY <1>5, PathClimbs DEF Stands, Climbs
  <2> QED
    BY <1>5, <2>1, SeqMonotonic
<1>8. \A n \in s.file \cup {0} : Path(s, n) \in Seq(DOMAIN s.up)
  <2>1. \A n \in s.file \cup {0} : Path(s, n) \in Seq(s.file)
    BY <1>5, PathClimbs DEF Stands, Climbs
  <2> QED
    BY <1>1, <2>1, SeqMonotonic
<1> QED
  BY <1>4, <1>5, <1>6, <1>7, <1>8

\* Of messages that are no entries it does not depend.
LEMMA FollowsOthers ==
  ASSUME NEW s, Tree(s), NEW m \in Nat, DOMAIN s.up \subseteq 1..m, NEW T, NEW S, NEW told,
         Follows(s, T, told), \A n \in DOMAIN s.up : n \in T <=> n \in S
  PROVE  Follows(s, S, told)
<1>1. \A n \in Live(s).file \cup {0} : Path(Live(s), n) \in Seq(DOMAIN s.up)
  BY LiveIs
<1>2. \A n \in Live(s).file \cup {0} : Within(Path(Live(s), n), S) = Within(Path(Live(s), n), T)
  BY <1>1, WithinSame
<1>3. s.tip \in Live(s).file \cup {0} /\ Range(s.writes) \subseteq Live(s).file
  BY LiveIs DEF Tree
<1> QED
  BY <1>2, <1>3 DEF Follows

\* What a message that is saved changes.
Changes(s, n, fault, t) ==
  /\ t.file = (IF fault # "before" THEN s.file \cup {n} ELSE s.file)
  /\ t.tip = (IF fault # "before" /\ n \notin s.file THEN n ELSE s.tip)
  /\ t.last = n /\ DOMAIN t.up = DOMAIN s.up \cup {n}
  /\ \A k \in DOMAIN s.up : t.up[k] = s.up[k]
  /\ n \notin DOMAIN s.up => t.up[n] = s.last
  /\ fault = "none" => Range(t.writes) = Range(s.writes) \ {n}
  /\ fault # "none" => Range(t.writes) = Range(s.writes) \cup {n}

LEMMA SavedIs ==
  ASSUME NEW s, Tree(s), NEW n, NEW fault, NEW t, t = Saved(s, n, fault)
  PROVE  Changes(s, n, fault, t)
<1> DEFINE more == [m \in {n} |-> s.last]
           lands == fault # "before" /\ n \notin s.file
<1>1. /\ s = [file |-> s.file, tip |-> s.tip, up |-> s.up, last |-> s.last, writes |-> s.writes]
      /\ s.writes \in Seq(DOMAIN s.up)
  BY DEF Tree
<1>2. t = [file |-> IF lands THEN s.file \cup {n} ELSE s.file,
           tip |-> IF lands THEN n ELSE s.tip, up |-> Parents(s.up, more),
           last |-> n, writes |-> Remembered(s.writes, n, fault)]
  BY <1>1 DEF Saved, Appended
<1>3. /\ t.file = (IF fault # "before" THEN s.file \cup {n} ELSE s.file)
      /\ t.tip = (IF fault # "before" /\ n \notin s.file THEN n ELSE s.tip)
      /\ t.last = n /\ t.writes = Remembered(s.writes, n, fault) /\ t.up = Parents(s.up, more)
  BY <1>2
<1>4. /\ DOMAIN t.up = DOMAIN s.up \cup {n}
      /\ \A k \in DOMAIN s.up : t.up[k] = s.up[k]
      /\ n \notin DOMAIN s.up => t.up[n] = s.last
  <2>1. DOMAIN more = {n} /\ more[n] = s.last
    OBVIOUS
  <2> HIDE DEF more
  <2>2. Extends(t.up, s.up, more)
    BY <1>3, ParentsAre
  <2> QED
    BY <2>1, <2>2 DEF Extends
<1>5. fault = "none" => Range(t.writes) = Range(s.writes) \ {n}
  <2>1. Range(Within(s.writes, Range(s.writes) \ {n}))
        = Range(s.writes) \cap (Range(s.writes) \ {n})
    BY <1>1, WithinKeeps
  <2> QED
    BY <1>3, <2>1 DEF Remembered
<1>6. fault # "none" => Range(t.writes) = Range(s.writes) \cup {n}
  <2>1. SUFFICES ASSUME fault # "none" PROVE Range(t.writes) = Range(s.writes) \cup {n}
    OBVIOUS
  <2>2. CASE n \in Range(s.writes)
    BY <1>3, <2>1, <2>2 DEF Remembered
  <2>3. CASE n \notin Range(s.writes)
    <3> DEFINE w == s.writes
               D == DOMAIN s.up \cup {n}
    <3>1. t.writes = Append(w, n)
      BY <1>3, <2>1, <2>3 DEF Remembered
    <3>2. w \in Seq(D) /\ n \in D
      BY <1>1, SeqMonotonic
    <3> HIDE DEF D, w
    <3>3. Len(w) \in Nat /\ DOMAIN w = 1..Len(w) /\ DOMAIN Append(w, n) = 1..(Len(w) + 1)
          /\ (\A i \in 1..Len(w) : Append(w, n)[i] = w[i]) /\ Append(w, n)[Len(w) + 1] = n
      BY <3>2, AppendProperties
    <3>4. \A i \in 1..(Len(w) + 1) : i \in 1..Len(w) \/ i = Len(w) + 1
      BY <3>3
    <3>5. (\A i \in 1..Len(w) : i \in 1..(Len(w) + 1)) /\ Len(w) + 1 \in 1..(Len(w) + 1)
      BY <3>3
    <3>6. Range(Append(w, n)) \subseteq Range(w) \cup {n}
      BY <3>3, <3>4 DEF Range
    <3>7. Range(w) \cup {n} \subseteq Range(Append(w, n))
      BY <3>3, <3>5 DEF Range
    <3> QED
      BY <3>1, <3>6, <3>7 DEF w
  <2> QED
    BY <2>2, <2>3
<1> QED
  BY <1>3, <1>4, <1>5, <1>6 DEF Changes

\* A message whose append failed is saved again.
LEMMA FollowsAgain ==
  ASSUME NEW s, Tree(s), NEW m \in Nat, DOMAIN s.up \subseteq 1..m, NEW T, NEW told,
         Follows(s, T, told), NEW n \in Range(s.writes),
         NEW fault \in {"none", "before", "after"}, NEW t, t = Saved(s, n, fault), Tree(t)
  PROVE  Follows(t, T, told)
<1>1. n \in DOMAIN s.up /\ Range(s.writes) \subseteq DOMAIN s.up /\ n \in Nat \ {0}
      /\ s.file \subseteq DOMAIN s.up
  BY DEF Tree, Range
<1>2. /\ t.file = (IF fault # "before" THEN s.file \cup {n} ELSE s.file)
      /\ t.tip = (IF fault # "before" /\ n \notin s.file THEN n ELSE s.tip) /\ t.last = n
      /\ DOMAIN t.up = DOMAIN s.up /\ \A k \in DOMAIN s.up : t.up[k] = s.up[k]
      /\ fault = "none" => Range(t.writes) = Range(s.writes) \ {n}
      /\ fault # "none" => Range(t.writes) = Range(s.writes)
  <2>1. Changes(s, n, fault, t)
    BY SavedIs
  <2>2. DOMAIN s.up \cup {n} = DOMAIN s.up /\ Range(s.writes) \cup {n} = Range(s.writes)
    BY <1>1
  <2> QED
    BY <1>1, <2>1, <2>2 DEF Changes
<1>3. /\ Live(s).file = s.file \cup Range(s.writes) /\ Live(s).up = s.up /\ Stands(Live(s), m)
      /\ Live(s).file \subseteq DOMAIN s.up
  BY LiveIs
<1>4. Live(t).file = t.file \cup Range(t.writes) /\ Live(t).up = t.up /\ Stands(Live(t), m)
  BY <1>2, LiveIs
<1>5. Live(t).file = Live(s).file
  BY <1>2, <1>3, <1>4
<1>6. \A k \in Live(s).file \cup {0} : Path(Live(t), k) = Path(Live(s), k)
  BY <1>2, <1>3, <1>4, <1>5, PathStays
<1>7. /\ n \in Live(s).file /\ Range(s.writes) \subseteq Live(s).file
      /\ s.tip \in Live(s).file \cup {0}
  BY <1>3 DEF Tree
<1>8. \A k \in Range(t.writes) : Within(Path(Live(t), k), T) = told
  BY <1>2, <1>6, <1>7 DEF Follows
<1>9. Within(Path(Live(t), n), T) = told
  BY <1>6, <1>7 DEF Follows
<1>10. Within(Path(Live(t), t.tip), T) = told \/ ~(Range(t.writes) \subseteq t.file)
  <2>1. CASE t.tip = n
    BY <1>9, <2>1
  <2>2. CASE t.tip # n
    <3>1. t.tip = s.tip /\ (fault # "before" => n \in s.file)
      BY <1>2, <2>2
    <3>2. Range(s.writes) \subseteq s.file => Within(Path(Live(t), t.tip), T) = told
      BY <1>6, <1>7, <3>1 DEF Follows
    <3>3. ~(Range(s.writes) \subseteq s.file) => ~(Range(t.writes) \subseteq t.file)
      BY <1>2, <3>1
    <3> QED
      BY <3>2, <3>3
  <2> QED
    BY <2>1, <2>2
<1> QED
  BY <1>2, <1>5, <1>7, <1>8, <1>9, <1>10 DEF Follows

\* A new message is saved; while others are unfinished it tells nothing.
LEMMA FollowsNew ==
  ASSUME NEW s, Tree(s), NEW m \in Nat, DOMAIN s.up \subseteq 1..m, NEW T, NEW told,
         Follows(s, T, told), NEW n \in 1..m, Newer(s, n), n \notin T \/ s.writes = <<>>,
         NEW fault \in {"none", "before", "after"}, NEW t, t = Saved(s, n, fault), Tree(t)
  PROVE  Follows(t, T, IF n \in T THEN Append(told, n) ELSE told)
<1> DEFINE now == IF n \in T THEN Append(told, n) ELSE told
<1>1. n \notin DOMAIN s.up /\ Range(s.writes) \subseteq DOMAIN s.up /\ n \in Nat \ {0}
      /\ s.file \subseteq DOMAIN s.up
  <2>1. n \notin DOMAIN s.up
    BY DEF Newer
  <2> QED
    BY <2>1 DEF Tree, Range
<1>2. /\ t.file = (IF fault # "before" THEN s.file \cup {n} ELSE s.file)
      /\ t.tip = (IF fault # "before" THEN n ELSE s.tip) /\ t.last = n
      /\ DOMAIN t.up = DOMAIN s.up \cup {n} /\ (\A k \in DOMAIN s.up : t.up[k] = s.up[k])
      /\ t.up[n] = s.last
      /\ fault = "none" => Range(t.writes) = Range(s.writes)
      /\ fault # "none" => Range(t.writes) = Range(s.writes) \cup {n}
  <2>1. n \notin s.file /\ n \notin Range(s.writes)
    BY <1>1
  <2>2. Changes(s, n, fault, t)
    BY SavedIs
  <2>3. Range(s.writes) \ {n} = Range(s.writes)
    BY <2>1
  <2> QED
    BY <1>1, <2>1, <2>2, <2>3 DEF Changes
<1>3. /\ Live(s).file = s.file \cup Range(s.writes) /\ Live(s).up = s.up /\ Stands(Live(s), m)
      /\ Live(s).file \subseteq DOMAIN s.up
  BY LiveIs
<1>4. Live(t).file = t.file \cup Range(t.writes) /\ Live(t).up = t.up /\ Stands(Live(t), m)
  <2>1. DOMAIN t.up \subseteq 1..m
    BY <1>2
  <2> QED
    BY <2>1, LiveIs
<1>5. Live(t).file = Live(s).file \cup {n}
  BY <1>2, <1>3, <1>4
<1>6. \A k \in Live(s).file \cup {0} : Path(Live(t), k) = Path(Live(s), k)
  <2>1. \A k \in DOMAIN s.up : s.up[k] # n
    <3>1. \A k \in DOMAIN s.up : s.up[k] \in Nat /\ s.up[k] < k /\ k < n /\ k \in Nat
      BY DEF Tree, Newer
    <3> QED
      BY <1>1, <3>1
  <2> QED
    BY <1>2, <1>3, <1>4, <1>5, <2>1, PathStays
<1>7. /\ Range(s.writes) \subseteq Live(s).file
      /\ s.tip \in Live(s).file \cup {0} /\ s.last \in Live(s).file \cup {0}
  BY <1>3 DEF Tree, Follows
<1>8. Path(Live(t), n) = Append(Path(Live(s), s.last), n)
  <2>1. Path(Live(t), n)
        = Append(Path(Live(t), IF Live(t).up[n] \in Live(t).file THEN Live(t).up[n] ELSE 0), n)
    BY <1>4, <1>5, PathIs DEF Stands
  <2>2. (IF Live(t).up[n] \in Live(t).file THEN Live(t).up[n] ELSE 0) = s.last
    BY <1>2, <1>4, <1>5, <1>7
  <2> QED
    BY <1>6, <1>7, <2>1, <2>2
<1>9. Within(Path(Live(t), n), T) = now
  <2>1. Path(Live(s), s.last) \in Seq(1..m)
    <3>1. Path(Live(s), s.last) \in Seq(DOMAIN s.up)
      BY <1>7, LiveIs
    <3> QED
      BY <3>1, SeqMonotonic
  <2>2. Within(Append(Path(Live(s), s.last), n), T)
        = IF n \in T THEN Append(Within(Path(Live(s), s.last), T), n)
          ELSE Within(Path(Live(s), s.last), T)
    BY <2>1, WithinAppend, ZenonT(40)
  <2> QED
    BY <1>8, <2>2 DEF Follows
<1>10. s.writes # <<>> => now = told
  OBVIOUS
<1>11. Range(<<>>) = {}
  BY DEF Range
<1> HIDE DEF now
<1>12. \A k \in Range(s.writes) : Within(Path(Live(t), k), T) = now
  BY <1>6, <1>7, <1>10, <1>11 DEF Follows
<1>13. \A k \in Range(t.writes) : Within(Path(Live(t), k), T) = now
  BY <1>2, <1>9, <1>12
<1>14. Within(Path(Live(t), t.tip), T) = now \/ ~(Range(t.writes) \subseteq t.file)
  <2>1. CASE fault # "before"
    BY <1>2, <1>9, <2>1
  <2>2. CASE fault = "before"
    BY <1>1, <1>2, <2>2
  <2> QED
    BY <2>1, <2>2
<1>15. Follows(t, T, now)
  BY <1>2, <1>5, <1>9, <1>13, <1>14 DEF Follows
<1> QED
  BY <1>15 DEF now

\* The path to an entry of a branch: the one to the entry that it stands under, and the
\* branch.
Prolongs(q, p, i) ==
  /\ q \in Seq(Nat) /\ Len(q) = Len(p) + i
  /\ \A j \in 1..Len(p) : q[j] = p[j]
  /\ \A j \in 1..i : q[Len(p) + j] = Len(log) + j

LEMMA BranchPath ==
  ASSUME Tree(store), DOMAIN store.up \subseteq 1..Len(log), Len(log) \in Nat,
         NEW count \in Nat, NEW ids, Range(ids) = (Len(log) + 1)..(Len(log) + count),
         NEW under \in store.file \cup {0}, NEW tip \in Range(ids) \cup store.file \cup {0},
         store' = Branched(store, ids, under, tip)
  PROVE  /\ \A n \in store.file \cup {0} : Path(store', n) = Path(store, n)
         /\ \A i \in 1..count : Prolongs(Path(store', Len(log) + i), Path(store, under), i)
<1> DEFINE m == Len(log) + count
           p == Path(store, under)
           Q(i) == Path(store', Len(log) + i)
           T == {i \in Nat : i \in 1..count => Prolongs(Q(i), p, i)}
<1>1. /\ Tree(store)' /\ DOMAIN store'.up = DOMAIN store.up \cup Range(ids)
      /\ store'.file = store.file \cup Range(ids)
      /\ \A n \in DOMAIN store.up : store'.up[n] = store.up[n]
      /\ \A n \in Range(ids) : store'.up[n] = IF n = Len(log) + 1 THEN under ELSE n - 1
  BY BranchTree
<1>2. m \in Nat /\ DOMAIN store.up \subseteq 1..m /\ DOMAIN store'.up \subseteq 1..m
  BY <1>1
<1>3. /\ Stands(store, m) /\ Stands(store', m) /\ store.file \subseteq DOMAIN store.up
      /\ p \in Seq(DOMAIN store.up)
  <2>1. Stands(store, m) /\ \A n \in store.file \cup {0} : Path(store, n) \in Seq(DOMAIN store.up)
    <3> HIDE DEF m
    <3> QED
      BY <1>2, LiveIs
  <2>2. Stands(store', m)
    <3> HIDE DEF m
    <3> QED
      BY <1>1, <1>2 DEF Tree, Stands
  <2> QED
    BY <2>1, <2>2 DEF Tree
<1>4. \A n \in store.file \cup {0} : Path(store', n) = Path(store, n)
  <2>1. \A n \in store.file : store.up[n] \notin Range(ids)
    <3>1. \A n \in store.file : store.up[n] \in Nat /\ store.up[n] < n /\ n \in Nat /\ n <= Len(log)
      BY <1>3 DEF Tree
    <3> QED
      BY <3>1
  <2>2. \A n \in store.file : /\ store'.up[n] = store.up[n]
                              /\ store.up[n] \in store'.file => store.up[n] \in store.file
    BY <1>1, <1>3, <2>1
  <2> HIDE DEF m
  <2> QED
    BY <1>1, <1>3, <2>2, PathStays
<1>5. /\ p \in Seq(Nat) /\ Len(p) \in Nat
  <2>1. DOMAIN store.up \subseteq Nat
    BY <1>2
  <2>2. p \in Seq(Nat)
    <3> HIDE DEF p
    <3> QED
      BY <1>3, <2>1, SeqMonotonic
  <2> HIDE DEF p
  <2> QED
    BY <2>2
<1>6. \A n \in store'.file :
        Path(store', n)
        = Append(Path(store', IF store'.up[n] \in store'.file THEN store'.up[n] ELSE 0), n)
  BY <1>3, PathIs DEF Stands
<1> HIDE DEF p
<1>7. ASSUME NEW i \in Nat, i \in T
      PROVE  i + 1 \in T
  <2>1. SUFFICES ASSUME i + 1 \in 1..count PROVE Prolongs(Q(i + 1), p, i + 1)
    OBVIOUS
  <2> DEFINE n == Len(log) + (i + 1)
             q == IF i = 0 THEN p ELSE Q(i)
  <2>2. n \in Range(ids) /\ n \in Nat /\ n \in store'.file
    BY <1>1, <2>1
  <2>3. Prolongs(q, p, i)
    <3>1. CASE i = 0
      BY <1>5, <3>1 DEF Prolongs
    <3>2. CASE i # 0
      <4>1. i \in 1..count
        BY <2>1, <3>2
      <4> HIDE DEF Q
      <4> QED
        BY <1>7, <3>2, <4>1
    <3> QED
      BY <3>1, <3>2
  <2>4. Path(store', n) = Append(q, n)
    <3> DEFINE u == IF store'.up[n] \in store'.file THEN store'.up[n] ELSE 0
    <3>1. Path(store', n) = Append(Path(store', u), n)
      <4> HIDE DEF n
      <4> QED
        BY <1>6, <2>2
    <3>2. CASE i = 0
      <4>1. n = Len(log) + 1 /\ store'.up[n] = under
        BY <1>1, <2>2, <3>2
      <4>2. u = under
        BY <1>1, <4>1
      <4>3. Path(store', under) = p
        BY <1>4 DEF p
      <4> HIDE DEF u
      <4> QED
        BY <3>1, <3>2, <4>2, <4>3
    <3>3. CASE i # 0
      <4>1. n - 1 = Len(log) + i /\ n # Len(log) + 1 /\ Len(log) + i \in Range(ids)
        BY <2>1, <3>3
      <4>2. store'.up[n] = Len(log) + i
        <5> HIDE DEF n
        <5> QED
          BY <1>1, <2>2, <4>1
      <4>3. u = Len(log) + i
        BY <1>1, <4>1, <4>2
      <4> HIDE DEF u, n
      <4> QED
        BY <3>1, <3>3, <4>3
    <3> QED
      BY <3>2, <3>3
  <2> HIDE DEF q, n
  <2>5. /\ q \in Seq(Nat) /\ Len(q) = Len(p) + i
        /\ \A j \in 1..Len(p) : q[j] = p[j]
        /\ \A j \in 1..i : q[Len(p) + j] = Len(log) + j
    BY <2>3 DEF Prolongs
  <2>6. /\ Append(q, n) \in Seq(Nat) /\ Len(Append(q, n)) = Len(q) + 1
        /\ \A j \in 1..Len(q) : Append(q, n)[j] = q[j]
        /\ Append(q, n)[Len(q) + 1] = n
    BY <2>2, <2>5, AppendProperties
  <2>7. \A j \in 1..Len(p) : j \in 1..Len(q)
    BY <1>5, <2>5
  <2>8. \A j \in 1..(i + 1) : (j \in 1..i /\ Len(p) + j \in 1..Len(q)) \/ j = i + 1
    BY <1>5, <2>5
  <2>9. Len(p) + (i + 1) = Len(q) + 1 /\ n = Len(log) + (i + 1)
    BY <1>5, <2>5 DEF n
  <2>10. \A j \in 1..(i + 1) : Append(q, n)[Len(p) + j] = Len(log) + j
    BY <2>5, <2>6, <2>8, <2>9
  <2>11. Prolongs(Append(q, n), p, i + 1)
    BY <1>5, <2>5, <2>6, <2>7, <2>9, <2>10 DEF Prolongs
  <2> QED
    BY <2>4, <2>11 DEF n
<1>8. 0 \in T
  OBVIOUS
<1>9. \A i \in Nat : i \in T
  <2> HIDE DEF T
  <2> QED
    BY <1>7, <1>8, Induction
<1> QED
  BY <1>4, <1>9 DEF p

\* After a load the session has in memory what is in the file.
LEMMA LoadedIsSaved ==
  ASSUME IInv, Restart
  PROVE  /\ mem' = Path(store', store'.tip) /\ store'.last = store'.tip /\ store'.writes = <<>>
         /\ Tree(store') /\ run' = Idle
<1> DEFINE path  == Path(store, store.tip)
           old   == Records(path)
           fixed == Repair(old)
           keep  == Len(LongestCommonPrefix({old, fixed}))
           new   == SubSeq(fixed, keep + 1, Len(fixed))
           ids   == Ids(Len(log), new)
           under == IF keep = 0 THEN 0 ELSE path[keep]
           tip   == IF new # <<>> THEN Last(ids) ELSE IF fixed # old THEN under ELSE store.tip
           kept  == SubSeq(path, 1, keep)
           count == Len(new)
<1>1. mem' = kept \o ids /\ store' = Branched(store, ids, under, tip) /\ run' = Idle
  BY DEF Restart, Branched
<1>2. path \in Seq(store.file) /\ path \in Seq(DOMAIN log) /\ store.tip \in store.file \cup {0}
      /\ Tree(store) /\ DOMAIN store.up \subseteq 1..Len(log) /\ Len(log) \in Nat
  BY LoadedAre, Facts DEF IInv, Filed, Tree
<1>3. keep \in Nat /\ keep <= Len(path) /\ new \in Seq(Message)
      /\ (new = <<>> /\ fixed = old => keep = Len(path))
  BY BranchIs
<1>4. \A k \in 1..Len(path) : Path(store, path[k]) = SubSeq(path, 1, k)
  <2>1. Stands(store, Len(log))
    BY <1>2, LiveIs
  <2> QED
    BY <1>2, <2>1, PathBegins
<1>5. Path(store, 0) = <<>>
  <2>1. Stands(store, Len(log))
    BY <1>2, LiveIs
  <2> QED
    BY <2>1, PathIs DEF Stands
<1>6. path = Path(store, store.tip)
  OBVIOUS
<1> HIDE DEF path, keep, new, fixed, old
<1>7. /\ Len(ids) = count /\ ids \in Seq(Nat \ {0}) /\ DOMAIN ids = 1..count /\ count \in Nat
      /\ \A i \in 1..count : ids[i] = Len(log) + i
  BY <1>2, <1>3, IdsAre
<1> HIDE DEF ids
<1>8. Range(ids) = (Len(log) + 1)..(Len(log) + count)
  <2>1. \A n \in (Len(log) + 1)..(Len(log) + count) :
          n - Len(log) \in 1..count /\ n = Len(log) + (n - Len(log))
    BY <1>2, <1>7
  <2>2. \A i \in 1..count : Len(log) + i \in (Len(log) + 1)..(Len(log) + count)
    BY <1>2, <1>7
  <2>3. Range(ids) = {Len(log) + i : i \in 1..count}
    BY <1>7 DEF Range
  <2> HIDE DEF count
  <2> QED
    BY <2>1, <2>2, <2>3
<1>9. (new = <<>> <=> count = 0) /\ (new = <<>> => ids = <<>>)
  <2>1. new = <<>> <=> count = 0
    BY <1>3
  <2> QED
    BY <1>7, <2>1
<1> HIDE DEF count
<1>10. under \in store.file \cup {0} /\ Path(store, under) = kept
  <2>1. CASE keep = 0
    <3>1. SubSeq(path, 1, 0) = <<>>
      BY <1>2
    <3> QED
      BY <1>5, <2>1, <3>1
  <2>2. CASE keep # 0
    <3>1. keep \in 1..Len(path) /\ path[keep] \in store.file
      BY <1>2, <1>3, <2>2
    <3> QED
      BY <1>4, <2>2, <3>1
  <2> QED
    BY <2>1, <2>2
<1> HIDE DEF under, kept
<1>11. CASE new # <<>>
  <2>1. tip = Len(log) + count /\ count \in 1..count /\ tip \in Range(ids)
    BY <1>2, <1>7, <1>8, <1>9, <1>11 DEF Last
  <2> HIDE DEF tip
  <2>2. Prolongs(Path(store', tip), kept, count)
    BY <1>1, <1>2, <1>7, <1>8, <1>10, <2>1, BranchPath
  <2>3. kept \in Seq(Nat)
    <3>1. kept \in Seq(DOMAIN store.up)
      BY <1>2, <1>10, LiveIs
    <3>2. DOMAIN store.up \subseteq Nat
      BY <1>2
    <3> QED
      BY <3>1, <3>2, SeqMonotonic
  <2>4. /\ kept \o ids \in Seq(Nat) /\ Len(kept \o ids) = Len(kept) + count
        /\ \A i \in 1..(Len(kept) + count) :
             (kept \o ids)[i] = IF i <= Len(kept) THEN kept[i] ELSE ids[i - Len(kept)]
    <3>1. ids \in Seq(Nat)
      BY <1>7, SeqMonotonic
    <3> QED
      BY <1>7, <2>3, <3>1, ConcatProperties
  <2>5. ASSUME NEW i \in 1..(Len(kept) + count)
        PROVE  (kept \o ids)[i] = Path(store', tip)[i]
    <3>1. Len(kept) \in Nat
      BY <2>3
    <3>2. CASE i <= Len(kept)
      <4>1. i \in 1..Len(kept)
        BY <1>7, <3>1, <3>2
      <4> QED
        BY <2>2, <2>4, <3>2, <4>1 DEF Prolongs
    <3>3. CASE ~(i <= Len(kept))
      <4>1. i - Len(kept) \in 1..count /\ Len(kept) + (i - Len(kept)) = i
        BY <1>7, <3>1, <3>3
      <4>2. Path(store', tip)[i] = Len(log) + (i - Len(kept))
        BY <2>2, <4>1 DEF Prolongs
      <4> QED
        BY <1>7, <2>4, <3>3, <4>1, <4>2
    <3> QED
      BY <3>2, <3>3
  <2>6. Path(store', tip) = kept \o ids
    <3>1. Path(store', tip) \in Seq(Nat) /\ Len(Path(store', tip)) = Len(kept) + count
      BY <2>2 DEF Prolongs
    <3> QED
      BY <2>4, <2>5, <3>1, SeqEqual
  <2> QED
    BY <1>1, <1>2, <1>7, <1>8, <1>10, <2>1, <2>6, BranchTree, ZenonT(40)
<1>12. CASE new = <<>>
  <2>1. mem' = kept
    <3>1. kept \in Seq(DOMAIN store.up)
      BY <1>2, <1>10, LiveIs
    <3> QED
      BY <1>1, <1>9, <1>12, <3>1
  <2>2. tip \in store.file \cup {0} /\ Path(store, tip) = kept
    <3>1. CASE fixed # old
      BY <1>10, <1>12, <3>1
    <3>2. CASE fixed = old
      <4>1. keep = Len(path) /\ tip = store.tip
        BY <1>3, <1>12, <3>2
      <4>2. SubSeq(path, 1, Len(path)) = path
        BY <1>2
      <4> QED
        BY <1>2, <1>6, <4>1, <4>2 DEF kept
    <3> QED
      BY <3>1, <3>2
  <2> HIDE DEF tip
  <2>3. Path(store', tip) = Path(store, tip)
    BY <1>1, <1>2, <1>7, <1>8, <1>10, <2>2, BranchPath
  <2>4. /\ tip \in Range(ids) \cup store.file \cup {0}
        /\ Range(ids) = (Len(log) + 1)..(Len(log) + count)
    BY <1>8, <2>2
  <2>5. Tree(store)' /\ store'.tip = tip /\ store'.last = tip /\ store'.writes = <<>>
    BY <1>1, <1>2, <1>7, <1>10, <2>4, BranchTree
  <2> QED
    BY <1>1, <2>1, <2>2, <2>3, <2>5
<1> QED
  BY <1>11, <1>12

-----------------------------------------------------------------------------
(* Memory and file agree.                                                  *)

\* While entries are unfinished nothing is published but they, or what tells nothing;
\* otherwise what is published is new.
Again == {"flush", "settle"}
Unfinished ==
  /\ store.writes # <<>> => run.failing \/ run.phase \in {"idle", "closing"} \cup Again
  /\ run.phase = "flush" => Range(store.writes) \subseteq Range(run.out)
  /\ run.phase \in Again => IsInjective(run.out) /\ Range(run.out) \subseteq Range(store.writes)
  /\ run.phase \notin Again => Range(run.out) \cap DOMAIN store.up = {}
  /\ run.phase = "idle" => run.out = <<>>
  /\ run.phase = "closing" \/ (run.phase = "ended" /\ run.failing)
       => Range(run.out) \cap Telling = {}

\* What memory tells has an entry, and the last message is the answer at hand, or the
\* failed one that a retry drops.
LastIs ==
  /\ Range(mem) \cap Telling \subseteq DOMAIN store.up
  /\ run.phase = "answered" =>
       IF run.out = <<>> THEN mem # <<>> /\ Last(mem) = run.answer
       ELSE run.answer \notin Range(mem)
  /\ run.error =>
       /\ ~run.failing /\ run.phase \in {"ended", "closing", "settle"}
       /\ run.phase = "ended" => run.out = <<>> /\ mem # <<>> /\ Failed(log[Last(mem)])

Remembers == Follows(store, Telling, Within(mem, Telling)) /\ Unfinished /\ LastIs

\* What was made tells the same as before.
LEMMA TellingStays ==
  ASSUME IInv, NEW new, Grows(new)
  PROVE  /\ \A n \in DOMAIN log : n \in DOMAIN log' /\ (n \in Telling <=> n \in Telling')
         /\ Telling \subseteq DOMAIN log /\ Telling' \subseteq DOMAIN log'
<1>1. \A n \in DOMAIN log : n \in DOMAIN log' /\ log'[n] = log[n]
  BY DEF Grows
<1> QED
  BY <1>1 DEF Telling

LEMMA FollowsStays ==
  ASSUME IInv, Remembers, NEW new, Grows(new), UNCHANGED store,
         Within(mem', Telling') = Within(mem, Telling)
  PROVE  Follows(store', Telling', Within(mem', Telling'))
<1>1. Follows(store, Telling, Within(mem, Telling))
  BY DEF Remembers
<1>2. Tree(store) /\ DOMAIN store.up \subseteq DOMAIN log /\ DOMAIN log = 1..Len(log)
      /\ Len(log) \in Nat
  BY Facts DEF IInv, Filed
<1>3. \A n \in DOMAIN store.up : n \in Telling <=> n \in Telling'
  BY <1>2, TellingStays
<1>4. Follows(store, Telling', Within(mem, Telling))
  BY <1>1, <1>2, <1>3, FollowsOthers
<1> QED
  BY <1>4

\* Messages that tell nothing are added to a history.
LEMMA ToldStays ==
  ASSUME IInv, NEW new, Grows(new), NEW ms \in Seq(DOMAIN log)
  PROVE  /\ Within(ms, Telling') = Within(ms, Telling)
         /\ \A ids \in Seq(DOMAIN log') :
              Range(ids) \cap Telling' = {} => Within(ms \o ids, Telling') = Within(ms, Telling)
<1>1. Within(ms, Telling') = Within(ms, Telling)
  BY TellingStays, WithinSame
<1>2. ms \in Seq(DOMAIN log')
  BY Facts, IdsStay
<1>3. ASSUME NEW ids \in Seq(DOMAIN log'), Range(ids) \cap Telling' = {}
      PROVE  Within(ms \o ids, Telling') = Within(ms, Telling)
  BY <1>1, <1>2, <1>3, WithinOthers
<1> QED
  BY <1>1, <1>3

\* What is newly made has no entry.
LEMMA PublishedAreNew ==
  ASSUME IInv, NEW out, Publishes(out)
  PROVE  Range(out) \cap DOMAIN store.up = {} /\ Range(out) \cap DOMAIN log = {}
<1>1. \A i \in DOMAIN out : i \in Nat /\ i >= 1 /\ out[i] = Len(log) + i
  <2>1. out \in Seq(DOMAIN log') /\ \A i \in DOMAIN out : out[i] = Len(log) + i
    BY DEF Publishes
  <2> QED
    BY <2>1
<1>2. Range(out) \cap DOMAIN log = {}
  BY <1>1, Facts DEF Range
<1> QED
  BY <1>2 DEF IInv, Filed

Loops == {"start", "turn", "waiting", "answered", "seq", "par", "turnEnd"}

\* In the loop nothing is unfinished and no answer has failed.
LEMMA InLoop ==
  ASSUME Fails, Remembers, run.phase \in Loops
  PROVE  store.writes = <<>> /\ ~run.failing /\ ~run.error
BY DEF Fails, Remembers, Unfinished, LastIs, Loops, Again

\* A step of the loop that only makes messages.
LEMMA Onward ==
  ASSUME IInv, Fails, Remembers, NEW new, Grows(new), UNCHANGED <<mem, store>>,
         run.phase \in Loops, run'.phase \in (Loops \ {"answered"}) \cup {"ended"},
         run'.failing = run.failing, run'.error = run.error,
         run'.out = run.out \/ Publishes(run'.out)
  PROVE  Remembers'
<1>1. store.writes = <<>> /\ ~run.failing /\ ~run.error
  BY InLoop
<1>2. Follows(store', Telling', Within(mem', Telling'))
  BY Facts, ToldStays, FollowsStays
<1>3. Range(run'.out) \cap DOMAIN store.up = {}
  <2>1. CASE run'.out = run.out
    BY <2>1 DEF Remembers, Unfinished, Loops, Again
  <2>2. CASE Publishes(run'.out)
    BY <2>2, PublishedAreNew
  <2> QED
    BY <2>1, <2>2
<1>4. Unfinished'
  BY <1>1, <1>3 DEF Unfinished, Loops, Again
<1>5. Range(mem) \subseteq DOMAIN log
  BY Facts DEF Range
<1>6. LastIs'
  <2>1. Range(mem) \cap Telling' \subseteq Range(mem) \cap Telling
    BY <1>5, TellingStays
  <2>2. Range(mem) \cap Telling \subseteq DOMAIN store.up
    BY DEF Remembers, LastIs
  <2> QED
    BY <1>1, <2>1, <2>2 DEF LastIs, Loops
<1> QED
  BY <1>2, <1>4, <1>6 DEF Remembers

\* A step that changes nothing of what is remembered.
LEMMA Untouched ==
  ASSUME Remembers, UNCHANGED <<log, mem, store>>,
         run'.phase = run.phase, run'.out = run.out, run'.answer = run.answer,
         run'.failing = run.failing, run'.error = run.error
  PROVE  Remembers'
<1>1. Telling' = Telling
  BY DEF Telling
<1> QED
  BY <1>1 DEF Remembers, Unfinished, LastIs

LEMMA RunIs ==
  ASSUME IInv
  PROVE  run = [phase |-> run.phase, out |-> run.out, cancelled |-> run.cancelled,
                answer |-> run.answer, next |-> run.next, more |-> run.more,
                blank |-> run.blank, emptied |-> run.emptied, error |-> run.error,
                failing |-> run.failing, late |-> run.late]
BY Facts DEF RunsOver

\* A step of the loop that makes no message.
LEMMA OnwardSilent ==
  ASSUME IInv, Fails, Remembers, UNCHANGED <<log, mem, store>>,
         run.phase \in Loops, run'.phase \in (Loops \ {"answered"}) \cup {"ended"},
         run'.failing = run.failing, run'.error = run.error, run'.out = run.out
  PROVE  Remembers'
<1>1. Grows(<<>>)
  BY Facts, SameGrows
<1> QED
  BY <1>1, Onward

LEMMA GoesRemembers ==
  ASSUME IInv, Fails, Remembers, NEW polled \in {<<>>, <<Plain>>}, Goes(polled),
         UNCHANGED <<mem, store>>, run.phase \in Loops
  PROVE  Remembers'
<1> DEFINE ids == Ids(Len(log), polled)
<1>1. polled \in Seq(Message)
  <2>1. Plain \in Message
    BY DEF Message
  <2>2. <<>> \in Seq(Message) /\ <<Plain>> \in Seq(Message)
    BY <2>1
  <2> QED
    BY <2>2
<1>2. Grows(polled)
  BY <1>1, Facts, LogsGrow DEF Goes
<1>3. Publishes(ids)
  BY <1>2, Facts, IdsPublish
<1>4. run' = [run EXCEPT !.phase = "turn", !.out = ids, !.emptied = @ \/ run.blank]
  BY DEF Goes
<1> HIDE DEF ids
<1>5. /\ run'.phase = "turn" /\ run'.failing = run.failing /\ run'.error = run.error
      /\ run'.out = ids
  BY <1>4, RunIs
<1> QED
  BY <1>2, <1>3, <1>5, Onward DEF Loops

LEMMA TurnsRemember ==
  ASSUME IInv, Fails, Remembers, StartTurn \/ NextTurn \/ Pauses \/ Request \/ WordsEnd
  PROVE  Remembers'
<1>1. run.phase \in Loops /\ UNCHANGED <<mem, store>>
  BY DEF StartTurn, NextTurn, Pauses, Request, WordsEnd, Ready, Loops
<1>2. CASE \E polled \in {<<>>, <<Plain>>} : Goes(polled)
  BY <1>1, <1>2, GoesRemembers
<1>3. CASE /\ UNCHANGED log
           /\ \/ run' = [run EXCEPT !.phase = "ended"]
              \/ run' = [run EXCEPT !.phase = "waiting", !.late = run.cancelled]
              \/ run' = [run EXCEPT !.phase = "turnEnd", !.blank = FALSE, !.more = FALSE]
  <2>1. /\ run'.phase \in {"ended", "waiting", "turnEnd"} /\ run'.failing = run.failing
        /\ run'.error = run.error /\ run'.out = run.out
    BY <1>3, RunIs
  <2> QED
    BY <1>1, <1>3, <2>1, OnwardSilent DEF Loops
<1>4. StartTurn \/ NextTurn => (\E polled \in {<<>>, <<Plain>>} : Goes(polled))
                               \/ (run' = [run EXCEPT !.phase = "ended"] /\ UNCHANGED log)
  BY DEF StartTurn, NextTurn, Polled
<1> QED
  BY <1>2, <1>3, <1>4 DEF Pauses, Request, WordsEnd

\* One message is made and published.
LEMMA OnwardOne ==
  ASSUME IInv, Fails, Remembers, NEW m \in Message, Logs(<<m>>), UNCHANGED <<mem, store>>,
         run.phase \in Loops, run'.phase \in (Loops \ {"answered"}) \cup {"ended"},
         run'.failing = run.failing, run'.error = run.error, run'.out = <<Len(log) + 1>>
  PROVE  Remembers'
<1>1. Grows(<<m>>) /\ Publishes(<<Len(log) + 1>>)
  BY OneMore
<1> QED
  BY <1>1, Onward

LEMMA BlankRemembers ==
  ASSUME IInv, Fails, Remembers, BlankEnds
  PROVE  Remembers'
<1> DEFINE m == Answered(spent.requests, 0, "error", TRUE)
           n == Len(log) + 1
<1>1. m \in Message
  BY Facts DEF Answered, Message, Answers
<1>2. run.phase \in Loops /\ UNCHANGED <<mem, store>>
  BY DEF BlankEnds, Ready, Loops
<1>3. CASE Logs(<<m>>) /\ run' = [run EXCEPT !.phase = "ended", !.out = <<n>>]
  <2> HIDE DEF m, n
  <2>1. /\ run'.phase = "ended" /\ run'.failing = run.failing /\ run'.error = run.error
        /\ run'.out = <<n>>
    BY <1>3, RunIs
  <2> QED
    BY <1>1, <1>2, <1>3, <2>1, OnwardOne DEF n
<1>4. CASE /\ run' = [run EXCEPT !.phase = "turnEnd", !.blank = TRUE, !.more = FALSE]
           /\ UNCHANGED log
  <2>1. /\ run'.phase = "turnEnd" /\ run'.failing = run.failing /\ run'.error = run.error
        /\ run'.out = run.out
    BY <1>4, RunIs
  <2> QED
    BY <1>2, <1>4, <2>1, OnwardSilent DEF Loops
<1> QED
  BY <1>3, <1>4 DEF BlankEnds

LEMMA SeqRemembers ==
  ASSUME IInv, Fails, Remembers, SeqBegins \/ SeqPrepare \/ SeqDone \/ SeqEnds
  PROVE  Remembers'
<1>1. run.phase = "seq" /\ UNCHANGED <<mem, store>>
  BY DEF SeqBegins, SeqPrepare, SeqDone, SeqEnds, Ready
<1>2. CASE UNCHANGED <<log, run>>
  BY <1>1, <1>2, Untouched
<1>3. CASE /\ run.next <= Len(Calls)
           /\ \E how \in {"refused", "aborted", "ran"} : Settles(run.next, how)
  <2>1. PICK how \in {"refused", "aborted", "ran"} : Settles(run.next, how)
    BY <1>3
  <2> DEFINE m == Result(Calls[run.next], how)
             n == Len(log) + 1
             k == run.next + 1
  <2>2. m \in Message
    <3>1. Calls[run.next] \in CallIds
      BY <1>1, <1>3, AtNext
    <3> QED
      BY <3>1 DEF Result, Message, ResultsOf, Hows, Outcomes
  <2>3. Logs(<<m>>) /\ run' = [run EXCEPT !.out = <<n>>, !.next = k]
    BY <2>1 DEF Settles
  <2> HIDE DEF m, n, k
  <2>4. /\ run'.phase = "seq" /\ run'.failing = run.failing /\ run'.error = run.error
        /\ run'.out = <<n>>
    BY <1>1, <2>3, RunIs
  <2> QED
    BY <1>1, <2>2, <2>3, <2>4, OnwardOne DEF Loops, n
<1>4. CASE SeqEnds
  <2>1. PICK more : run' = [run EXCEPT !.phase = "turnEnd", !.more = more]
    BY <1>4 DEF SeqEnds
  <2>2. /\ run'.phase = "turnEnd" /\ run'.failing = run.failing /\ run'.error = run.error
        /\ run'.out = run.out
    BY <2>1, RunIs
  <2>3. UNCHANGED log
    BY <1>4 DEF SeqEnds
  <2> QED
    BY <1>1, <2>2, <2>3, OnwardSilent DEF Loops
<1> QED
  BY <1>2, <1>3, <1>4 DEF SeqBegins, SeqPrepare, SeqDone

LEMMA BatchRemembers ==
  ASSUME IInv, Fails, Remembers, BatchBegins
  PROVE  Remembers'
<1>1. run.phase = "answered" /\ UNCHANGED <<mem, store>>
  BY DEF BatchBegins, Ready
<1>2. CASE Cut
  <2> DEFINE results == [k \in DOMAIN Calls |-> Result(Calls[k], "truncated")]
             ids == Ids(Len(log), results)
  <2>1. Logs(results) /\ run' = [run EXCEPT !.phase = "turnEnd", !.blank = FALSE, !.more = TRUE,
                                            !.out = ids]
    BY <1>2 DEF BatchBegins
  <2>2. results \in Seq(ResultsOf({"truncated"}))
    <3>1. {"truncated"} \in SUBSET Hows
      BY DEF Hows
    <3>2. Calls \in Seq(CallIds)
      BY <1>1, CallsAre
    <3> QED
      BY <3>1, <3>2, ResultsAre
  <2>3. ResultsOf({"truncated"}) \subseteq Message
    BY DEF ResultsOf, Message, Hows
  <2> HIDE DEF results
  <2>4. results \in Seq(Message)
    BY <2>2, <2>3, SeqMonotonic
  <2>5. Grows(results)
    BY <2>1, <2>4, Facts, LogsGrow
  <2>6. Publishes(ids)
    BY <2>5, Facts, IdsPublish
  <2> HIDE DEF ids
  <2>7. /\ run'.phase = "turnEnd" /\ run'.failing = run.failing /\ run'.error = run.error
        /\ run'.out = ids
    BY <2>1, RunIs
  <2> QED
    BY <1>1, <2>5, <2>6, <2>7, Onward DEF Loops
<1>3. CASE ~Cut
  <2>1. PICK mode \in {"seq", "par"} :
          run' = [run EXCEPT !.phase = mode, !.blank = FALSE, !.more = TRUE, !.next = 1]
    BY <1>3 DEF BatchBegins
  <2>2. UNCHANGED log
    BY <1>3 DEF BatchBegins
  <2>3. /\ run'.phase = mode /\ run'.failing = run.failing /\ run'.error = run.error
        /\ run'.out = run.out
    BY <2>1, RunIs
  <2> QED
    BY <1>1, <2>2, <2>3, OnwardSilent DEF Loops
<1> QED
  BY <1>2, <1>3

LEMMA ParRemembers ==
  ASSUME IInv, Fails, Remembers,
         ParPrepare \/ ParStart \/ ParEnds \/ \E k \in 1..MaxCalls : ParDone(k)
  PROVE  Remembers'
<1>1. run.phase = "par" /\ UNCHANGED <<mem, store>>
  BY DEF ParPrepare, ParStart, ParEnds, ParDone, Ready
<1>2. CASE UNCHANGED <<log, run>>
  BY <1>1, <1>2, Untouched
<1>3. CASE ParPrepare
  <2> DEFINE k == IF run.cancelled THEN Len(Calls) + 1 ELSE run.next + 1
  <2>1. run' = [run EXCEPT !.next = k] /\ UNCHANGED log
    BY <1>3 DEF ParPrepare
  <2> HIDE DEF k
  <2>2. /\ run'.phase = "par" /\ run'.failing = run.failing /\ run'.error = run.error
        /\ run'.out = run.out
    BY <1>1, <2>1, RunIs
  <2> QED
    BY <1>1, <2>1, <2>2, OnwardSilent DEF Loops
<1>4. CASE ParEnds
  <2> DEFINE settled == Within([k \in DOMAIN Calls |-> k], {k \in DOMAIN Calls : tools[k] # "none"})
             results == [i \in DOMAIN settled |-> Result(Calls[settled[i]], tools[settled[i]])]
             ids == Ids(Len(log), results)
  <2>1. Logs(results)
    BY <1>4 DEF ParEnds
  <2>2. PICK more : run' = [run EXCEPT !.phase = "turnEnd", !.more = more, !.out = ids]
    BY <1>4 DEF ParEnds
  <2>3. OfCalls(results)
    BY <1>1, ParResultsAre
  <2> HIDE DEF results
  <2>4. Grows(results)
    BY <2>1, <2>3, Facts, LogsGrow DEF OfCalls
  <2>5. Publishes(ids)
    BY <2>4, Facts, IdsPublish
  <2> HIDE DEF ids
  <2>6. /\ run'.phase = "turnEnd" /\ run'.failing = run.failing /\ run'.error = run.error
        /\ run'.out = ids
    BY <2>2, RunIs
  <2> QED
    BY <1>1, <2>4, <2>5, <2>6, Onward DEF Loops
<1> QED
  BY <1>2, <1>3, <1>4 DEF ParStart, ParDone

-----------------------------------------------------------------------------
(* A run begins, and ends.                                                 *)

\* Results that stand for interrupted calls tell nothing.
LEMMA InterruptedUntold ==
  ASSUME NEW ids, \A i \in DOMAIN ids : log'[ids[i]] \in ResultsOf({"interrupted"})
  PROVE  Range(ids) \cap Telling' = {}
<1>1. ASSUME NEW i \in DOMAIN ids
      PROVE  ids[i] \notin Telling'
  <2>1. log'[ids[i]].kind = "result" /\ log'[ids[i]].how = "interrupted"
    BY DEF ResultsOf
  <2> QED
    BY <2>1 DEF Telling
<1> QED
  BY <1>1 DEF Range

\* Messages that have an entry if they tell something have it still, when messages that
\* tell nothing are added.
LEMMA EntriesStay ==
  ASSUME IInv, Remembers, NEW new, Grows(new), UNCHANGED store,
         NEW ms \in Seq(DOMAIN log), Range(ms) \subseteq Range(mem),
         NEW ids \in Seq(DOMAIN log'), Range(ids) \cap Telling' = {}
  PROVE  Range(ms \o ids) \cap Telling' \subseteq DOMAIN store'.up
<1>1. ms \in Seq(DOMAIN log')
  BY Facts, IdsStay
<1>2. Range(ms \o ids) = Range(ms) \cup Range(ids)
  BY <1>1, RangeConcatenation
<1>3. Range(mem) \cap Telling' \subseteq Range(mem) \cap Telling
  <2>1. Range(mem) \subseteq DOMAIN log
    BY Facts DEF Range
  <2> QED
    BY <2>1, TellingStays
<1>4. Range(mem) \cap Telling \subseteq DOMAIN store.up
  BY DEF Remembers, LastIs
<1> QED
  BY <1>2, <1>3, <1>4

LEMMA BeginRemembers ==
  ASSUME IInv, Remembers, NEW ms \in Seq(DOMAIN log), NEW prompts \in {<<>>, <<Plain>>},
         Within(ms, Telling) = Within(mem, Telling), Range(ms) \subseteq Range(mem),
         Begin(ms, prompts), UNCHANGED store, store.writes = <<>>
  PROVE  Remembers'
<1>1. PICK new, ids, out : Begins(ms, new, ids, out)
  BY BeginMakes
<1>2. Grows(new) /\ Publishes(ids) /\ Publishes(out) /\ mem' = ms \o ids
      /\ ids \in Seq(DOMAIN log')
  BY <1>1 DEF Begins, Publishes
<1>3. Range(ids) \cap Telling' = {}
  BY <1>1, InterruptedUntold DEF Begins
<1>4. /\ run'.phase = "start" /\ run'.out = out /\ ~run'.failing /\ ~run'.error
  BY <1>1 DEF Begins, Idle
<1>5. Within(mem', Telling') = Within(mem, Telling)
  BY <1>2, <1>3, ToldStays
<1>6. Follows(store', Telling', Within(mem', Telling'))
  BY <1>2, <1>5, FollowsStays
<1>7. Unfinished'
  BY <1>2, <1>4, PublishedAreNew DEF Unfinished, Again
<1>8. LastIs'
  BY <1>2, <1>3, <1>4, EntriesStay DEF LastIs
<1> QED
  BY <1>6, <1>7, <1>8 DEF Remembers

\* A run that was not working and goes on with what memory and file already agree on.
LEMMA Calm ==
  ASSUME Remembers, UNCHANGED <<log, mem, store>>, Unfinished', run'.phase # "answered",
         ~run'.error
  PROVE  Remembers'
<1>1. Telling' = Telling
  BY DEF Telling
<1> QED
  BY <1>1 DEF Remembers, LastIs

LEMMA EmptyRange ==
  ASSUME NEW D, NEW s \in Seq(D), Range(s) = {}
  PROVE  s = <<>>
<1>1. s # <<>> => 1 \in DOMAIN s
  OBVIOUS
<1>2. 1 \in DOMAIN s => s[1] \in Range(s)
  BY DEF Range
<1> QED
  BY <1>1, <1>2

LEMMA PromptRemembers ==
  ASSUME IInv, Remembers, Prompt \/ Flushed
  PROVE  Remembers'
<1>1. CASE Begin(mem, <<Plain>>) /\ store.writes = <<>> /\ UNCHANGED store
  BY <1>1, Facts, BeginRemembers
<1>2. CASE /\ run' = [Idle EXCEPT !.phase = "flush", !.out = store.writes]
           /\ UNCHANGED <<log, mem, store>>
  <2>1. /\ run'.phase = "flush" /\ run'.out = store.writes /\ ~run'.failing /\ ~run'.error
    BY <1>2 DEF Idle
  <2>2. IsInjective(store.writes)
    BY DEF IInv, Filed, Tree
  <2>3. Unfinished'
    BY <1>2, <2>1, <2>2 DEF Unfinished, Again
  <2> QED
    BY <1>2, <2>1, <2>3, Calm
<1>3. Flushed => Begin(mem, <<Plain>>) /\ store.writes = <<>> /\ UNCHANGED store
  <2>1. SUFFICES ASSUME Flushed PROVE store.writes = <<>>
    BY DEF Flushed
  <2>2. run.phase = "flush" /\ run.out = <<>> /\ Range(<<>>) = {}
    BY <2>1 DEF Flushed, Ready, Range
  <2>3. Range(store.writes) = {}
    BY <2>2 DEF Remembers, Unfinished
  <2>4. store.writes \in Seq(DOMAIN store.up)
    BY DEF IInv, Filed, Tree
  <2> QED
    BY <2>3, <2>4, EmptyRange
<1> QED
  BY <1>1, <1>2, <1>3 DEF Prompt

\* The failed answer that is dropped told nothing.
LEMMA DropIs ==
  ASSUME IInv, Remembers, run.phase = "ended", run.error
  PROVE  /\ Front(mem) \in Seq(DOMAIN log) /\ Range(Front(mem)) \subseteq Range(mem)
         /\ Within(Front(mem), Telling) = Within(mem, Telling)
         /\ store.writes = <<>> /\ ~run.failing /\ mem # <<>> /\ Failed(log[Last(mem)])
<1>1. ~run.failing /\ mem # <<>> /\ Failed(log[Last(mem)]) /\ Last(mem) \notin Telling
  BY DEF Remembers, LastIs, Telling
<1>2. store.writes = <<>>
  BY <1>1 DEF Remembers, Unfinished, Again
<1>3. Front(mem) \in Seq(DOMAIN log) /\ Range(Front(mem)) \subseteq Range(mem)
  BY Facts, FrontKeeps
<1>4. Within(Front(mem), Telling) = Within(mem, Telling)
  BY <1>1, Facts, WithinFront
<1> QED
  BY <1>1, <1>2, <1>3, <1>4

LEMMA RetryRemembers ==
  ASSUME IInv, Remembers, Retry
  PROVE  Remembers'
<1>1. run.phase = "ended" /\ run.error /\ Begin(Front(mem), <<>>) /\ UNCHANGED store
  BY DEF Retry, Ready
<1> QED
  BY <1>1, DropIs, BeginRemembers

LEMMA FinishRemembers ==
  ASSUME IInv, Remembers, Finish
  PROVE  Remembers'
<1> DEFINE repairs == IF run.cancelled THEN Interrupted(Records(mem)) ELSE <<>>
           ids == Ids(Len(log), repairs)
<1>1. PICK drop \in {FALSE, run.error /\ repairs = <<>>} :
        mem' = IF drop THEN Front(mem) ELSE mem \o ids
  BY DEF Finish
<1>2. Logs(repairs) /\ run' = [run EXCEPT !.phase = "closing", !.out = ids] /\ UNCHANGED store
      /\ run.phase = "ended" /\ run.out = <<>>
  BY DEF Finish, Ready
<1>3. repairs \in Seq(ResultsOf({"interrupted"}))
  <2>1. Records(mem) \in Seq(Message)
    BY Facts, RecordsAre
  <2>2. Interrupted(Records(mem)) \in Seq(ResultsOf({"interrupted"}))
    BY <2>1, InterruptedAre
  <2>3. <<>> \in Seq(ResultsOf({"interrupted"}))
    OBVIOUS
  <2> QED
    BY <2>2, <2>3
<1>4. (drop /\ run.error /\ mem' = Front(mem)) \/ mem' = mem \o ids
  BY <1>1
<1> HIDE DEF repairs
<1>5. repairs \in Seq(Message)
  <2>1. ResultsOf({"interrupted"}) \subseteq Message
    BY DEF ResultsOf, Message, Hows
  <2> QED
    BY <1>3, <2>1, SeqMonotonic
<1>6. Grows(repairs)
  BY <1>2, <1>5, Facts, LogsGrow
<1>7. Publishes(ids)
  BY <1>6, Facts, IdsPublish
<1>8. Range(ids) \cap Telling' = {}
  <2>1. DOMAIN ids = 1..Len(repairs) /\ \A i \in 1..Len(repairs) : ids[i] = Len(log) + i
    BY <1>5, Facts, IdsAre
  <2>2. \A i \in 1..Len(repairs) : /\ i \in DOMAIN repairs
                                   /\ repairs[i] \in ResultsOf({"interrupted"})
    BY <1>3
  <2> HIDE DEF ids
  <2>3. \A i \in DOMAIN ids : log'[ids[i]] \in ResultsOf({"interrupted"})
    BY <1>6, <2>1, <2>2 DEF Grows
  <2> QED
    BY <2>3, InterruptedUntold
<1> HIDE DEF ids
<1>9. ids \in Seq(DOMAIN log') /\ <<>> \in Seq(DOMAIN log') /\ Range(<<>>) = {}
  BY <1>7 DEF Publishes, Range
<1>10. /\ run'.phase = "closing" /\ run'.out = ids /\ run'.failing = run.failing
       /\ run'.error = run.error
  BY <1>2, RunIs
<1>11. /\ Within(mem', Telling') = Within(mem, Telling)
       /\ Range(mem') \cap Telling' \subseteq DOMAIN store'.up
  <2>1. CASE mem' = mem \o ids
    BY <1>2, <1>6, <1>8, <1>9, <2>1, Facts, ToldStays, EntriesStay
  <2>2. CASE run.error /\ mem' = Front(mem)
    <3> DEFINE f == Front(mem)
    <3>1. f \in Seq(DOMAIN log) /\ Range(f) \subseteq Range(mem)
          /\ Within(f, Telling) = Within(mem, Telling)
      BY <1>2, <2>2, DropIs
    <3> HIDE DEF f
    <3>2. Within(f, Telling') = Within(mem, Telling)
      BY <1>6, <3>1, ToldStays
    <3>3. Range(f \o <<>>) \cap Telling' \subseteq DOMAIN store'.up
      BY <1>2, <1>6, <1>9, <3>1, EntriesStay
    <3>4. f \o <<>> = f
      BY <3>1
    <3> QED
      BY <2>2, <3>2, <3>3, <3>4 DEF f
  <2> QED
    BY <1>4, <2>1, <2>2
<1>12. Follows(store', Telling', Within(mem', Telling'))
  BY <1>2, <1>6, <1>11, FollowsStays
<1>13. Unfinished'
  BY <1>2, <1>7, <1>8, <1>10, PublishedAreNew DEF Unfinished, Again
<1>14. LastIs'
  <2>1. run.error => ~run.failing
    BY DEF Remembers, LastIs
  <2> QED
    BY <1>10, <1>11, <2>1 DEF LastIs
<1> QED
  BY <1>12, <1>13, <1>14 DEF Remembers

LEMMA AnswerRemembers ==
  ASSUME IInv, Fails, Remembers, NEW calls \in 0..MaxCalls,
         NEW stop \in {"done", "cut", "error", "aborted"}, NEW blank \in BOOLEAN,
         Answer(calls, stop, blank)
  PROVE  Remembers'
<1> DEFINE m == Answered(spent.requests, calls, stop, blank)
           n == Len(log) + 1
<1>1. m \in Message
  BY Facts DEF Answered, Message, Answers
<1>2. /\ Logs(<<m>>) /\ run' = [run EXCEPT !.phase = "answered", !.answer = n, !.out = <<n>>]
      /\ UNCHANGED <<mem, store>> /\ run.phase = "waiting"
  BY DEF Answer, Ready
<1> HIDE DEF m
<1>3. Grows(<<m>>) /\ Publishes(<<n>>)
  BY <1>1, <1>2, OneMore
<1>4. n \notin DOMAIN log /\ n \in Nat
  BY Facts
<1> HIDE DEF n
<1>5. /\ run'.phase = "answered" /\ run'.answer = n /\ run'.out = <<n>>
      /\ run'.failing = run.failing /\ run'.error = run.error
  BY <1>2, RunIs
<1>6. store.writes = <<>> /\ ~run.failing /\ ~run.error
  BY <1>2, InLoop DEF Loops
<1>7. Follows(store', Telling', Within(mem', Telling'))
  BY <1>2, <1>3, Facts, ToldStays, FollowsStays
<1>8. Unfinished'
  BY <1>2, <1>3, <1>5, <1>6, PublishedAreNew DEF Unfinished, Again
<1>9. Range(mem) \subseteq DOMAIN log
  BY Facts DEF Range
<1>10. Range(mem) \cap Telling' \subseteq DOMAIN store.up
  BY <1>3, <1>9, TellingStays DEF Remembers, LastIs
<1>11. LastIs'
  BY <1>2, <1>4, <1>5, <1>6, <1>9, <1>10 DEF LastIs
<1> QED
  BY <1>7, <1>8, <1>11 DEF Remembers

LEMMA FailedRemembers ==
  ASSUME IInv, Fails, Remembers, FailedEnds
  PROVE  Remembers'
<1> DEFINE e == log[run.answer].stop = "error"
<1>1. /\ run.phase = "answered" /\ run.out = <<>> /\ Failed(log[run.answer])
      /\ run' = [run EXCEPT !.phase = "ended", !.error = e] /\ UNCHANGED <<log, mem, store>>
  BY DEF FailedEnds, Ready
<1> HIDE DEF e
<1>2. /\ run'.phase = "ended" /\ run'.out = <<>> /\ run'.failing = run.failing
  BY <1>1, RunIs
<1>3. store.writes = <<>> /\ ~run.failing
  BY <1>1, InLoop DEF Loops
<1>4. mem # <<>> /\ Last(mem) = run.answer /\ Range(mem) \cap Telling \subseteq DOMAIN store.up
  BY <1>1 DEF Remembers, LastIs
<1>5. run.answer \notin Telling
  BY <1>1 DEF Telling
<1>6. Telling' = Telling
  BY <1>1 DEF Telling
<1>7. Range(<<>>) = {}
  BY DEF Range
<1>8. Unfinished'
  BY <1>1, <1>2, <1>3, <1>7 DEF Unfinished, Again
<1>9. LastIs'
  BY <1>1, <1>2, <1>3, <1>4, <1>5, <1>6 DEF LastIs
<1> QED
  BY <1>1, <1>6, <1>8, <1>9 DEF Remembers

LEMMA UserRemembers ==
  ASSUME IInv, Fails, Remembers, Cancel \/ Close \/ \E which \in {"steer", "follow"} : Queue(which)
  PROVE  Remembers'
<1>1. UNCHANGED <<log, mem, store>>
  BY DEF Cancel, Close, Queue
<1>2. CASE run' \in {run, [run EXCEPT !.cancelled = TRUE]}
  <2>1. /\ run'.phase = run.phase /\ run'.out = run.out /\ run'.answer = run.answer
        /\ run'.failing = run.failing /\ run'.error = run.error
    BY <1>2, RunIs
  <2> QED
    BY <1>1, <2>1, Untouched
<1>3. CASE Close
  <2>1. /\ run'.phase = "ended" /\ run'.out = <<>> /\ run'.failing = run.failing /\ ~run'.error
    <3>1. run' = [run EXCEPT !.phase = "ended", !.out = <<>>, !.error = FALSE]
      BY <1>3 DEF Close
    <3> QED
      BY <3>1, RunIs
  <2>2. run.phase \in Loops \cup {"ended"}
    BY <1>3 DEF Close, Looping, Loops
  <2>3. store.writes # <<>> => run.failing
    BY <2>2 DEF Remembers, Unfinished, Loops, Again
  <2>4. Range(<<>>) = {}
    BY DEF Range
  <2>5. Unfinished'
    BY <1>1, <2>1, <2>3, <2>4 DEF Unfinished, Again
  <2> QED
    BY <1>1, <2>1, <2>5, Calm
<1> QED
  BY <1>2, <1>3 DEF Cancel, Queue

LEMMA SettleRemembers ==
  ASSUME IInv, Remembers, Settle
  PROVE  Remembers'
<1> DEFINE unsaved == Within(mem, Range(store.writes))
<1>1. /\ run' \in {[run EXCEPT !.phase = "settle", !.out = unsaved], Idle}
      /\ UNCHANGED <<log, mem, store>> /\ run.phase \in {"closing", "settle"}
  BY DEF Settle, Ready
<1>2. Range(unsaved) \subseteq Range(store.writes) /\ IsInjective(unsaved)
  BY Facts, WithinKeeps
<1> HIDE DEF unsaved
<1>3. CASE run' = Idle
  <2>1. run'.phase = "idle" /\ run'.out = <<>> /\ ~run'.failing /\ ~run'.error
    BY <1>3 DEF Idle
  <2>2. Range(<<>>) = {}
    BY DEF Range
  <2>3. Unfinished'
    BY <1>1, <2>1, <2>2 DEF Unfinished, Again
  <2> QED
    BY <1>1, <2>1, <2>3, Calm
<1>4. CASE run' = [run EXCEPT !.phase = "settle", !.out = unsaved]
  <2>1. /\ run'.phase = "settle" /\ run'.out = unsaved /\ run'.failing = run.failing
        /\ run'.error = run.error
    BY <1>4, RunIs
  <2>2. Unfinished'
    BY <1>1, <1>2, <2>1 DEF Unfinished, Again
  <2>3. Telling' = Telling
    BY <1>1 DEF Telling
  <2>4. LastIs'
    BY <1>1, <2>1, <2>3 DEF Remembers, LastIs
  <2> QED
    BY <1>1, <2>2, <2>3, <2>4 DEF Remembers
<1> QED
  BY <1>1, <1>3, <1>4

LEMMA RestartRemembers ==
  ASSUME IInv, IInv', Restart
  PROVE  Remembers'
<1>1. /\ mem' = Path(store', store'.tip) /\ store'.last = store'.tip /\ store'.writes = <<>>
      /\ Tree(store') /\ run' = Idle
  BY LoadedIsSaved
<1>2. DOMAIN store'.up \subseteq 1..Len(log') /\ Len(log') \in Nat
  <2>1. DOMAIN store'.up \subseteq DOMAIN log' /\ log' \in Seq(Message)
    BY DEF IInv, Filed, Typed
  <2> QED
    BY <2>1
<1>3. Live(store') = store' /\ store'.tip \in store'.file \cup {0}
      /\ \A n \in store'.file \cup {0} : Path(store', n) \in Seq(DOMAIN store'.up)
  BY <1>1, <1>2, LiveIs DEF Tree
<1>4. Range(<<>>) = {}
  BY DEF Range
<1>5. Follows(store', Telling', Within(mem', Telling'))
  BY <1>1, <1>3, <1>4 DEF Follows
<1>6. run'.phase = "idle" /\ run'.out = <<>> /\ ~run'.failing /\ ~run'.error
  BY <1>1 DEF Idle
<1>7. Unfinished'
  BY <1>1, <1>4, <1>6 DEF Unfinished, Again
<1>8. mem' \in Seq(DOMAIN store'.up)
  BY <1>1, <1>3
<1>9. Range(mem') \subseteq DOMAIN store'.up
  BY <1>8, RangeOfSeq
<1>10. LastIs'
  BY <1>6, <1>9 DEF LastIs
<1> QED
  BY <1>5, <1>7, <1>10 DEF Remembers

-----------------------------------------------------------------------------
(* A message is published.                                                 *)

LEMMA TailIs ==
  ASSUME NEW D, NEW s \in Seq(D), s # <<>>
  PROVE  /\ Tail(s) \in Seq(D) /\ Range(s) = {Head(s)} \cup Range(Tail(s))
         /\ IsInjective(s) => IsInjective(Tail(s)) /\ Head(s) \notin Range(Tail(s))
<1> DEFINE t == Tail(s)
<1>1. /\ t \in Seq(D) /\ DOMAIN t = 1..(Len(s) - 1) /\ Head(s) = s[1]
      /\ \A i \in 1..(Len(s) - 1) : t[i] = s[i + 1]
      /\ Len(s) \in Nat /\ Len(s) > 0 /\ DOMAIN s = 1..Len(s)
  OBVIOUS
<1> HIDE DEF t
<1>2. /\ \A i \in DOMAIN t : i + 1 \in DOMAIN s /\ i + 1 # 1 /\ t[i] = s[i + 1]
      /\ 1 \in DOMAIN s
      /\ \A i \in DOMAIN s : i = 1 \/ (i - 1 \in DOMAIN t /\ t[i - 1] = s[i])
  BY <1>1
<1>3. {Head(s)} \cup Range(t) \subseteq Range(s)
  BY <1>1, <1>2 DEF Range
<1>4. Range(s) \subseteq {Head(s)} \cup Range(t)
  BY <1>1, <1>2 DEF Range
<1>5. IsInjective(s) => IsInjective(t)
  BY <1>1, <1>2 DEF IsInjective
<1>6. IsInjective(s) => Head(s) \notin Range(t)
  BY <1>1, <1>2 DEF IsInjective, Range
<1> QED
  BY <1>1, <1>3, <1>4, <1>5, <1>6 DEF t

\* What is published are different messages.
LEMMA OutIsInjective ==
  ASSUME IInv, Remembers
  PROVE  IsInjective(run.out)
<1>1. CASE run.phase \in Again
  BY <1>1 DEF Remembers, Unfinished
<1>2. CASE run.phase \notin Again
  <2> DEFINE out == run.out
  <2>1. Range(out) \cap DOMAIN store.up = {}
    BY <1>2 DEF Remembers, Unfinished
  <2>2. \A i, j \in DOMAIN out : i < j => out[j] \in DOMAIN store.up \/ out[i] < out[j]
    BY DEF IInv, Filed, Outgoing
  <2>3. \A i \in DOMAIN out : i \in Nat /\ out[i] \in Nat /\ out[i] \notin DOMAIN store.up
    <3>1. out \in Seq(DOMAIN log) /\ DOMAIN log \subseteq Nat
      BY Facts
    <3> HIDE DEF out
    <3>2. \A i \in DOMAIN out : i \in Nat /\ out[i] \in DOMAIN log
      BY <3>1
    <3> QED
      BY <2>1, <3>1, <3>2 DEF Range
  <2> HIDE DEF out
  <2>4. ASSUME NEW i \in DOMAIN out, NEW j \in DOMAIN out, out[i] = out[j]
        PROVE  i = j
    <3>1. ~(i < j) /\ ~(j < i)
      BY <2>2, <2>3, <2>4
    <3> QED
      BY <2>3, <3>1
  <2>5. IsInjective(out)
    BY <2>4 DEF IsInjective
  <2> QED
    BY <2>5 DEF out
<1> QED
  BY <1>1, <1>2

LEMMA AppendRange ==
  ASSUME NEW D, NEW s \in Seq(D), NEW e \in D
  PROVE  Range(Append(s, e)) = Range(s) \cup {e}
<1>1. /\ Len(s) \in Nat /\ DOMAIN s = 1..Len(s) /\ DOMAIN Append(s, e) = 1..(Len(s) + 1)
      /\ (\A i \in 1..Len(s) : Append(s, e)[i] = s[i]) /\ Append(s, e)[Len(s) + 1] = e
  BY AppendProperties
<1>2. /\ \A i \in 1..(Len(s) + 1) : i \in 1..Len(s) \/ i = Len(s) + 1
      /\ \A i \in 1..Len(s) : i \in 1..(Len(s) + 1)
      /\ Len(s) + 1 \in 1..(Len(s) + 1)
  BY <1>1
<1>3. Range(Append(s, e)) \subseteq Range(s) \cup {e}
  BY <1>1, <1>2 DEF Range
<1>4. Range(s) \cup {e} \subseteq Range(Append(s, e))
  BY <1>1, <1>2 DEF Range
<1> QED
  BY <1>3, <1>4

LEMMA LastAppended ==
  ASSUME NEW D, NEW s \in Seq(D), NEW e \in D
  PROVE  Append(s, e) # <<>> /\ Last(Append(s, e)) = e
<1> DEFINE t == Append(s, e)
<1>1. Len(s) \in Nat /\ Len(t) = Len(s) + 1 /\ t[Len(s) + 1] = e
  BY AppendProperties
<1> HIDE DEF t
<1>2. t # <<>> /\ Last(t) = e
  BY <1>1 DEF Last
<1> QED
  BY <1>2 DEF t

\* The path to an entry ends with it.
LEMMA PathEnds ==
  ASSUME NEW m, NEW s, Stands(s, m), NEW n \in s.file
  PROVE  n \in Range(Path(s, n))
<1> DEFINE u == IF s.up[n] \in s.file THEN s.up[n] ELSE 0
           p == Path(s, u)
<1>1. Path(s, n) = Append(p, n)
  BY PathIs DEF Stands
<1>2. p \in Seq(s.file)
  <2>1. \A k \in s.file \cup {0} : Path(s, k) \in Seq(s.file)
    BY PathClimbs DEF Stands, Climbs
  <2> QED
    BY <2>1
<1> HIDE DEF p
<1> QED
  BY <1>1, <1>2, AppendRange

LEMMA MoreIsTold ==
  ASSUME IInv, NEW n \in DOMAIN log
  PROVE  Within(Append(mem, n), Telling)
         = IF n \in Telling THEN Append(Within(mem, Telling), n) ELSE Within(mem, Telling)
<1>1. mem \in Seq(DOMAIN log)
  BY Facts
<1> QED
  BY <1>1, WithinAppend

\* The file and the history after a message was saved.
LEMMA SavedFollows ==
  ASSUME IInv, Fails, Remembers, run.out # <<>>, NEW n, n = Head(run.out),
         NEW fault \in {"none", "before", "after"}, store' = Saved(store, n, fault),
         Tree(store'), DOMAIN store'.up = DOMAIN store.up \cup {n},
         NEW ms, ms = IF n \in Range(mem) THEN mem ELSE Append(mem, n)
  PROVE  /\ Follows(store', Telling, Within(ms, Telling))
         /\ Range(ms) \cap Telling \subseteq DOMAIN store'.up
<1> DEFINE told == Within(mem, Telling)
           m == Len(log)
<1>1. /\ Tree(store) /\ DOMAIN store.up \subseteq 1..m /\ m \in Nat /\ DOMAIN log = 1..m
      /\ Follows(store, Telling, told) /\ Range(mem) \cap Telling \subseteq DOMAIN store.up
  BY Facts DEF IInv, Filed, Remembers, LastIs
<1>2. n \in 1..m /\ n \in Range(run.out)
  <2>1. Head(run.out) \in Range(run.out) /\ Range(run.out) \subseteq DOMAIN log
    BY Facts, TailIs, RangeOfSeq
  <2> QED
    BY <1>1, <2>1
<1>3. Range(ms) \cap Telling \subseteq DOMAIN store'.up
  <2>1. n \notin Range(mem) => Range(Append(mem, n)) = Range(mem) \cup {n}
    BY <1>1, <1>2, Facts, AppendRange
  <2> QED
    BY <1>1, <2>1
<1>4. Within(Append(mem, n), Telling) = IF n \in Telling THEN Append(told, n) ELSE told
  <2>1. n \in DOMAIN log
    BY <1>1, <1>2
  <2> QED
    BY <2>1, MoreIsTold
<1> HIDE DEF told, m
<1>5. CASE run.phase \in Again
  <2>1. n \in Range(store.writes)
    BY <1>2, <1>5 DEF Remembers, Unfinished
  <2>2. Follows(store', Telling, told)
    BY <1>1, <2>1, FollowsAgain
  <2>3. n \in Telling => n \in Range(mem)
    <3>1. Within(Path(Live(store), n), Telling) = told
      BY <1>1, <2>1 DEF Follows
    <3>2. /\ n \in Live(store).file /\ Stands(Live(store), m)
          /\ Path(Live(store), n) \in Seq(DOMAIN store.up)
      BY <1>1, <2>1, LiveIs
    <3>3. n \in Range(Path(Live(store), n))
      BY <3>2, PathEnds
    <3>4. Range(Within(Path(Live(store), n), Telling)) = Range(Path(Live(store), n)) \cap Telling
      BY <3>2, WithinKeeps
    <3>5. Range(told) = Range(mem) \cap Telling
      BY Facts, WithinKeeps DEF told
    <3> QED
      BY <3>1, <3>3, <3>4, <3>5
  <2>4. Within(ms, Telling) = told
    BY <1>4, <2>3 DEF told
  <2> QED
    BY <1>3, <2>2, <2>4
<1>6. CASE run.phase \notin Again
  <2>1. n \notin DOMAIN store.up
    BY <1>2, <1>6 DEF Remembers, Unfinished
  <2>2. Newer(store, n)
    <3>1. Outgoing(store, run.out) /\ run.out[1] = n /\ 1 \in DOMAIN run.out
      BY Facts DEF IInv, Filed
    <3> QED
      BY <2>1, <3>1 DEF Outgoing
  <2>3. n \in Telling => store.writes = <<>> /\ n \notin Range(mem)
    <3>1. n \in Telling => n \notin Range(mem)
      BY <1>1, <2>1
    <3>2. n \in Telling => ~(run.phase = "closing" \/ (run.phase = "ended" /\ run.failing))
      BY <1>2 DEF Remembers, Unfinished
    <3>3. run.phase # "idle"
      BY DEF Remembers, Unfinished
    <3> QED
      BY <1>6, <3>1, <3>2, <3>3 DEF Remembers, Unfinished, Fails, Again
  <2>4. Follows(store', Telling, IF n \in Telling THEN Append(told, n) ELSE told)
    BY <1>1, <1>2, <2>2, <2>3, FollowsNew
  <2>5. Within(ms, Telling) = IF n \in Telling THEN Append(told, n) ELSE told
    BY <1>4, <2>3 DEF told
  <2> QED
    BY <1>3, <2>4, <2>5
<1> QED
  BY <1>5, <1>6

LEMMA PublishRemembers ==
  ASSUME IInv, IInv', Fails, Remembers, Publish
  PROVE  Remembers'
<1> DEFINE n == Head(run.out)
           mem1 == IF n \in Range(mem) THEN mem ELSE Append(mem, n)
           rest == Tail(run.out)
           failure == Len(log) + 1
           m == Answered(0, 0, IF run.cancelled THEN "aborted" ELSE "error", TRUE)
<1>1. run.out # <<>>
  BY DEF Publish
<1>2. PICK fault \in {"none", "before", "after"} :
        /\ store' = Saved(store, n, fault)
        /\ \/ /\ fault = "none" \/ run.phase \in {"closing", "settle"}
              /\ mem' = mem1 /\ run' = [run EXCEPT !.out = rest] /\ UNCHANGED log
           \/ /\ ~(fault = "none" \/ run.phase \in {"closing", "settle"})
              /\ run.phase = "flush" \/ run.failing
              /\ mem' = mem1
              /\ run' = IF run.failing THEN [run EXCEPT !.out = <<>>] ELSE Idle
              /\ UNCHANGED log
           \/ /\ ~(fault = "none" \/ run.phase \in {"closing", "settle"})
              /\ ~(run.phase = "flush" \/ run.failing)
              /\ Logs(<<m>>) /\ mem' = Append(mem1, failure)
              /\ run' = [run EXCEPT !.phase = "ended", !.out = <<failure>>, !.error = FALSE,
                                    !.failing = TRUE]
  BY DEF Publish
<1>3. /\ rest \in Seq(DOMAIN log) /\ Range(run.out) = {n} \cup Range(rest)
      /\ IsInjective(rest) /\ n \notin Range(rest) /\ n \in DOMAIN log
  <2>1. /\ rest \in Seq(DOMAIN log) /\ Range(run.out) = {n} \cup Range(rest)
        /\ IsInjective(run.out) => IsInjective(rest) /\ n \notin Range(rest)
    BY <1>1, Facts, TailIs
  <2>2. n \in DOMAIN log
    BY <1>1, Facts
  <2> HIDE DEF n, rest
  <2> QED
    BY <2>1, <2>2, OutIsInjective
<1>4. n \in DOMAIN store.up \/ Newer(store, n)
  <2>1. Outgoing(store, run.out) /\ run.out[1] = n /\ 1 \in DOMAIN run.out
    BY <1>1, Facts DEF IInv, Filed
  <2> QED
    BY <2>1 DEF Outgoing
<1>5. n = Head(run.out) /\ mem1 = (IF n \in Range(mem) THEN mem ELSE Append(mem, n))
  OBVIOUS
<1> HIDE DEF n, rest, mem1
<1>6. /\ Tree(store') /\ DOMAIN store'.up = DOMAIN store.up \cup {n}
      /\ Changes(store, n, fault, store')
  <2>1. Tree(store) /\ DOMAIN store.up \subseteq Nat /\ n \in Nat \ {0}
    BY <1>3, Facts DEF IInv, Filed
  <2>2. Tree(store)' /\ DOMAIN store'.up = DOMAIN store.up \cup {n}
    BY <1>2, <1>4, <2>1, SavedTree
  <2>3. Changes(store, n, fault, store')
    BY <1>2, <2>1, SavedIs
  <2> QED
    BY <2>2, <2>3
<1>7. /\ Follows(store', Telling, Within(mem1, Telling))
      /\ Range(mem1) \cap Telling \subseteq DOMAIN store'.up
  BY <1>1, <1>2, <1>5, <1>6, SavedFollows
<1>8. /\ fault = "none" => Range(store'.writes) = Range(store.writes) \ {n}
      /\ fault # "none" => Range(store'.writes) = Range(store.writes) \cup {n}
  BY <1>6 DEF Changes
<1>9. /\ Tree(store) => store.writes \in Seq(DOMAIN store.up)
      /\ Tree(store') => store'.writes \in Seq(DOMAIN store'.up)
  BY DEF Tree
<1>10. fault = "none" /\ store.writes = <<>> => store'.writes = <<>>
  <2>1. Range(<<>>) = {}
    BY DEF Range
  <2>2. fault = "none" /\ store.writes = <<>> => Range(store'.writes) = {}
    BY <1>8, <2>1
  <2> QED
    BY <1>6, <1>9, <2>2, EmptyRange
<1>11. CASE /\ fault = "none" \/ run.phase \in {"closing", "settle"}
            /\ mem' = mem1 /\ run' = [run EXCEPT !.out = rest] /\ UNCHANGED log
  <2>1. /\ run'.phase = run.phase /\ run'.out = rest /\ run'.failing = run.failing
        /\ run'.error = run.error /\ run'.answer = run.answer
    BY <1>11, RunIs
  <2>2. Telling' = Telling
    BY <1>11 DEF Telling
  <2>3. Unfinished'
    <3>1. store'.writes # <<>> => run.failing \/ run.phase \in {"idle", "closing"} \cup Again
      BY <1>10, <1>11 DEF Remembers, Unfinished, Again
    <3>2. run.phase = "flush" => Range(store'.writes) \subseteq Range(rest)
      BY <1>3, <1>8, <1>11 DEF Remembers, Unfinished
    <3>3. run.phase \in Again => Range(rest) \subseteq Range(store'.writes)
      BY <1>3, <1>8 DEF Remembers, Unfinished
    <3>4. run.phase \notin Again => Range(rest) \cap DOMAIN store'.up = {}
      BY <1>3, <1>6 DEF Remembers, Unfinished
    <3>5. run.phase # "idle"
      BY <1>1 DEF Remembers, Unfinished
    <3>6. run.phase = "closing" \/ (run.phase = "ended" /\ run.failing)
            => Range(rest) \cap Telling = {}
      BY <1>3 DEF Remembers, Unfinished
    <3> QED
      BY <1>3, <2>1, <2>2, <3>1, <3>2, <3>3, <3>4, <3>5, <3>6 DEF Unfinished
  <2>4. LastIs'
    <3>1. run.phase = "answered" => rest = <<>> /\ mem1 # <<>> /\ Last(mem1) = run.answer
      <4>1. SUFFICES ASSUME run.phase = "answered"
                     PROVE  rest = <<>> /\ mem1 # <<>> /\ Last(mem1) = run.answer
        OBVIOUS
      <4>2. run.out = <<run.answer>>
        BY <1>1, <4>1 DEF IInv, Turns
      <4>3. n = run.answer /\ rest = <<>>
        BY <4>2 DEF n, rest
      <4>4. n \notin Range(mem)
        BY <1>1, <4>1, <4>3 DEF Remembers, LastIs
      <4>5. mem1 = Append(mem, n)
        BY <1>5, <4>4
      <4>6. mem \in Seq(DOMAIN log)
        BY Facts
      <4> QED
        BY <1>3, <4>3, <4>5, <4>6, LastAppended
    <3>2. run.error => ~run.failing /\ run.phase \in {"closing", "settle"}
      BY <1>1 DEF Remembers, LastIs
    <3> QED
      BY <1>7, <1>11, <2>1, <2>2, <3>1, <3>2 DEF LastIs
  <2> QED
    BY <1>7, <1>11, <2>2, <2>3, <2>4 DEF Remembers
<1>12. CASE /\ ~(fault = "none" \/ run.phase \in {"closing", "settle"})
            /\ run.phase = "flush" \/ run.failing
            /\ mem' = mem1
            /\ run' = IF run.failing THEN [run EXCEPT !.out = <<>>] ELSE Idle
            /\ UNCHANGED log
  <2>1. Telling' = Telling
    BY <1>12 DEF Telling
  <2>2. /\ run'.out = <<>> /\ ~run'.error
        /\ \/ run'.phase = "ended" /\ run'.failing
           \/ run'.phase = "idle"
    <3>1. CASE run.failing
      <4>1. run.phase = "ended"
        BY <1>12, <3>1 DEF Fails
      <4>2. ~run.error
        BY <3>1 DEF Remembers, LastIs
      <4>3. run' = [run EXCEPT !.out = <<>>]
        BY <1>12, <3>1
      <4> QED
        BY <3>1, <4>1, <4>2, <4>3, RunIs
    <3>2. CASE ~run.failing
      <4>1. run' = Idle
        BY <1>12, <3>2
      <4> QED
        BY <4>1 DEF Idle
    <3> QED
      BY <3>1, <3>2
  <2>3. Range(<<>>) = {}
    BY DEF Range
  <2>4. Unfinished'
    BY <2>2, <2>3 DEF Unfinished, Again
  <2>5. LastIs'
    BY <1>7, <1>12, <2>1, <2>2 DEF LastIs
  <2> QED
    BY <1>7, <1>12, <2>1, <2>4, <2>5 DEF Remembers
<1>13. CASE /\ Logs(<<m>>) /\ mem' = Append(mem1, failure)
            /\ run' = [run EXCEPT !.phase = "ended", !.out = <<failure>>, !.error = FALSE,
                                  !.failing = TRUE]
  <2>1. m \in Message /\ Failed(m)
    BY Facts DEF Answered, Message, Answers, Failed
  <2> HIDE DEF m
  <2>2. Grows(<<m>>) /\ Publishes(<<failure>>) /\ failure \in DOMAIN log' /\ log'[failure] = m
    BY <1>13, <2>1, OneMore
  <2>3. failure \notin Telling' /\ failure \notin DOMAIN log
    BY <2>1, <2>2, Facts DEF Telling
  <2> HIDE DEF failure
  <2>4. /\ run'.phase = "ended" /\ run'.out = <<failure>> /\ ~run'.error /\ run'.failing
    BY <1>13, RunIs
  <2>5. mem1 \in Seq(DOMAIN log)
    <3>1. mem \in Seq(DOMAIN log)
      BY Facts
    <3>2. Append(mem, n) \in Seq(DOMAIN log)
      BY <1>3, <3>1, AppendProperties
    <3> QED
      BY <1>5, <3>1, <3>2
  <2>6. mem1 \in Seq(DOMAIN log') /\ Range(mem1) \subseteq DOMAIN log
    BY <2>2, <2>5, Facts, IdsStay, RangeOfSeq
  <2>7. Within(mem', Telling') = Within(mem1, Telling)
    <3>1. Within(Append(mem1, failure), Telling') = Within(mem1, Telling')
      BY <2>2, <2>3, <2>6, WithinAppend
    <3>2. Within(mem1, Telling') = Within(mem1, Telling)
      BY <2>2, <2>5, ToldStays
    <3> QED
      BY <1>13, <3>1, <3>2
  <2>8. /\ DOMAIN store'.up \subseteq DOMAIN log /\ DOMAIN log = 1..Len(log) /\ Len(log) \in Nat
    BY <1>3, <1>6, Facts DEF IInv, Filed
  <2>9. Follows(store', Telling', Within(mem', Telling'))
    <3>1. \A k \in DOMAIN store'.up : k \in Telling <=> k \in Telling'
      BY <2>2, <2>8, TellingStays
    <3>2. Follows(store', Telling', Within(mem1, Telling))
      BY <1>6, <1>7, <2>8, <3>1, FollowsOthers
    <3> QED
      BY <2>7, <3>2
  <2>10. Range(<<failure>>) = {failure}
    BY DEF Range
  <2>11. Unfinished'
    BY <2>3, <2>4, <2>8, <2>10 DEF Unfinished, Again
  <2>12. LastIs'
    <3>1. Range(mem') = Range(mem1) \cup {failure}
      BY <1>13, <2>2, <2>6, AppendRange
    <3>2. Range(mem1) \cap Telling' \subseteq Range(mem1) \cap Telling
      BY <2>2, <2>6, TellingStays
    <3> QED
      BY <1>7, <2>3, <2>4, <3>1, <3>2 DEF LastIs
  <2> QED
    BY <2>9, <2>11, <2>12 DEF Remembers
<1> QED
  BY <1>2, <1>11, <1>12, <1>13

LEMMA NextRemembers ==
  ASSUME IInv, IInv', Fails, Remembers, [Next]_vars
  PROVE  Remembers'
<1>1. CASE UNCHANGED vars
  BY <1>1, Untouched DEF vars
<1>2. CASE Prompt \/ Flushed \/ Retry \/ Finish \/ Settle \/ Restart
  BY <1>2, PromptRemembers, RetryRemembers, FinishRemembers, SettleRemembers, RestartRemembers
<1>3. CASE Publish
  BY <1>3, PublishRemembers
<1>4. CASE StartTurn \/ NextTurn \/ Pauses \/ Request \/ WordsEnd \/ FailedEnds \/ BlankEnds
  BY <1>4, TurnsRemember, FailedRemembers, BlankRemembers
<1>5. CASE BatchBegins \/ SeqBegins \/ SeqPrepare \/ SeqDone \/ SeqEnds
  BY <1>5, BatchRemembers, SeqRemembers
<1>6. CASE ParPrepare \/ ParStart \/ ParEnds \/ \E k \in 1..MaxCalls : ParDone(k)
  BY <1>6, ParRemembers
<1>7. CASE \E calls \in 0..MaxCalls, stop \in {"done", "cut", "error", "aborted"},
              blank \in BOOLEAN : Answer(calls, stop, blank)
  BY <1>7, AnswerRemembers
<1>8. CASE Cancel \/ Close \/ \E which \in {"steer", "follow"} : Queue(which)
  BY <1>8, UserRemembers
<1> QED
  BY <1>1, <1>2, <1>3, <1>4, <1>5, <1>6, <1>7, <1>8 DEF Next, ToolStep, LoopStep

LEMMA InitRemembers == Init => Remembers
<1> SUFFICES ASSUME Init PROVE Remembers
  OBVIOUS
<1>1. IInv
  BY InitHolds
<1>2. /\ mem = <<>> /\ store = EmptyStore /\ run = Idle /\ log = <<>>
  BY DEF Init
<1>3. /\ store.writes = <<>> /\ store.last = 0 /\ store.tip = 0 /\ store.file = {}
      /\ Range(<<>>) = {} /\ DOMAIN store.up = {}
  BY <1>2 DEF EmptyStore, Range
<1>4. Tree(store) /\ DOMAIN store.up \subseteq 1..0
  BY <1>1, <1>3 DEF IInv, Filed
<1>5. Live(store) = store
  BY <1>3, <1>4, LiveIs
<1>6. Path(store, 0) = <<>>
  <2>1. Stands(store, 0)
    BY <1>4, LiveIs
  <2> QED
    BY <2>1, PathIs DEF Stands
<1>7. Follows(store, Telling, Within(mem, Telling))
  BY <1>2, <1>3, <1>5, <1>6 DEF Follows
<1>8. Unfinished /\ LastIs
  BY <1>2, <1>3 DEF Unfinished, LastIs, Again, Idle
<1> QED
  BY <1>7, <1>8 DEF Remembers

-----------------------------------------------------------------------------
(* Calls and their results.  A history is given by g, that says which       *)
(* message a number names, and by the set S of the numbers that are in it.  *)

History(g, S) == S \subseteq Nat /\ \A n \in S : g[n] \in Message

IsResult(g, n) == g[n].kind = "result"
Made(g, a) == Range(CallsOf(g[a]))
Given(g, S) == {g[n].of : n \in {x \in S : IsResult(g, x)}}
Opens(g, S) == (UNION {Made(g, a) : a \in S}) \ Given(g, S)
Behind(g, a, n) == IsResult(g, n) /\ g[n].of[1] = g[a].turn

\* A turn made one answer; a call has one result; and a result stands behind its answer
\* and other results of it.
OneTurn(g, S) ==
  \A a, b \in S :
    Made(g, a) # {} /\ Made(g, b) # {} /\ g[a].turn = g[b].turn => a = b
OneResult(g, S) ==
  \A q, r \in S : IsResult(g, q) /\ IsResult(g, r) /\ g[q].of = g[r].of => q = r
Near(g, S, a, n) == \A x \in S : a < x /\ x < n => Behind(g, a, x)
Answering(g, S) ==
  \A r \in S : IsResult(g, r) =>
    \E a \in S : a < r /\ g[r].of \in Made(g, a) /\ Near(g, S, a, r)
Orderly(g, S) == OneTurn(g, S) /\ OneResult(g, S) /\ Answering(g, S)

\* Behind the answer of an open call there are only results of it.
LastIsOpen(g, S) ==
  \A a \in S : Made(g, a) \cap Opens(g, S) # {} => \A x \in S : a < x => Behind(g, a, x)
Laid(g, S) == Orderly(g, S) /\ LastIsOpen(g, S)

LEMMA MadeIs ==
  ASSUME NEW g, NEW a, g[a] \in Message
  PROVE  /\ \A c \in Made(g, a) :
              g[a].kind = "assistant" /\ g[a].calls # 0 /\ c[1] = g[a].turn /\ c \in CallIds
         /\ g[a].kind = "assistant" =>
              \A c : c \in Made(g, a) <=> \E k \in 1..g[a].calls : c = <<g[a].turn, k>>
         /\ g[a].kind # "assistant" => Made(g, a) = {}
<1>1. CASE g[a].kind = "assistant"
  <2>1. g[a].turn \in Nat /\ g[a].calls \in Nat
    BY <1>1, MessageFacts, SessionAssumption
  <2>2. CallsOf(g[a]) = [k \in 1..g[a].calls |-> <<g[a].turn, k>>]
    BY <1>1 DEF CallsOf
  <2>3. \A c : c \in Made(g, a) <=> \E k \in 1..g[a].calls : c = <<g[a].turn, k>>
    BY <2>2 DEF Made, Range
  <2>4. ASSUME NEW c \in Made(g, a)
        PROVE  g[a].calls # 0 /\ c[1] = g[a].turn /\ c \in CallIds
    <3>1. PICK k \in 1..g[a].calls : c = <<g[a].turn, k>>
      BY <2>3, <2>4
    <3> QED
      BY <2>1, <3>1 DEF CallIds
  <2> QED
    BY <1>1, <2>3, <2>4
<1>2. CASE g[a].kind # "assistant"
  BY <1>2 DEF Made, CallsOf, Range
<1> QED
  BY <1>1, <1>2

LEMMA GivenIs ==
  ASSUME NEW g, NEW S, NEW c
  PROVE  /\ c \in Given(g, S) <=> \E n \in S : IsResult(g, n) /\ g[n].of = c
         /\ c \in Opens(g, S) <=> c \notin Given(g, S) /\ \E a \in S : c \in Made(g, a)
<1>1. c \in Given(g, S) <=> \E n \in S : IsResult(g, n) /\ g[n].of = c
  BY DEF Given
<1> DEFINE all == UNION {Made(g, a) : a \in S}
<1>2. c \in all <=> \E a \in S : c \in Made(g, a)
  OBVIOUS
<1>3. Opens(g, S) = all \ Given(g, S)
  BY DEF Opens
<1> HIDE DEF all
<1> QED
  BY <1>1, <1>2, <1>3

\* What a history says depends on its messages only.
LEMMA SameHistory ==
  ASSUME NEW g, NEW h, NEW S, \A n \in S : h[n] = g[n]
  PROVE  /\ \A n \in S : Made(h, n) = Made(g, n) /\ (IsResult(h, n) <=> IsResult(g, n))
         /\ Given(h, S) = Given(g, S) /\ Opens(h, S) = Opens(g, S)
         /\ Orderly(g, S) => Orderly(h, S)
         /\ Laid(g, S) => Laid(h, S)
<1>1. \A n \in S : Made(h, n) = Made(g, n) /\ (IsResult(h, n) <=> IsResult(g, n))
  BY DEF Made, IsResult
<1>2. Given(h, S) = Given(g, S)
  BY <1>1 DEF Given
<1>3. Opens(h, S) = Opens(g, S)
  <2>1. \A c : (\E a \in S : c \in Made(h, a)) <=> (\E a \in S : c \in Made(g, a))
    BY <1>1
  <2>2. \A c : c \in Opens(h, S) <=> c \in Opens(g, S)
    BY <1>2, <2>1, GivenIs
  <2>3. Opens(h, S) \subseteq Opens(g, S) /\ Opens(g, S) \subseteq Opens(h, S)
    BY <2>2
  <2> QED
    BY <2>3
<1>4. \A a, n \in S : Behind(h, a, n) <=> Behind(g, a, n)
  BY <1>1 DEF Behind
<1>5. Orderly(g, S) => Orderly(h, S)
  <2>1. OneTurn(g, S) => OneTurn(h, S)
    BY <1>1 DEF OneTurn
  <2>2. OneResult(g, S) => OneResult(h, S)
    BY <1>1 DEF OneResult
  <2>3. \A a, n \in S : Near(g, S, a, n) => Near(h, S, a, n)
    BY <1>4 DEF Near
  <2>4. Answering(g, S) => Answering(h, S)
    BY <1>1, <2>3 DEF Answering
  <2> QED
    BY <2>1, <2>2, <2>4 DEF Orderly
<1>6. LastIsOpen(g, S) => LastIsOpen(h, S)
  BY <1>1, <1>3, <1>4 DEF LastIsOpen
<1> QED
  BY <1>1, <1>2, <1>3, <1>5, <1>6 DEF Laid

\* Open calls are of one answer.
LEMMA OneIsOpen ==
  ASSUME NEW g, NEW S, History(g, S), Laid(g, S),
         NEW a \in S, NEW b \in S, Made(g, a) \cap Opens(g, S) # {},
         Made(g, b) \cap Opens(g, S) # {}
  PROVE  a = b
<1>1. a \in Nat /\ b \in Nat /\ g[a] \in Message /\ g[b] \in Message
  BY DEF History
<1>2. g[a].kind = "assistant" /\ g[b].kind = "assistant"
  BY <1>1, MadeIs
<1>3. ~(a < b) /\ ~(b < a)
  BY <1>2 DEF Laid, LastIsOpen, Behind, IsResult
<1> QED
  BY <1>1, <1>3

\* Open calls get their results.
LEMMA AddResults ==
  ASSUME NEW g, NEW S, NEW R, History(g, S \cup R), Laid(g, S),
         \A x \in S, r \in R : x < r,
         \A r \in R : IsResult(g, r) /\ g[r].of \in Opens(g, S),
         OneResult(g, R)
  PROVE  Laid(g, S \cup R) /\ Opens(g, S \cup R) = Opens(g, S) \ Given(g, R)
<1> DEFINE T == S \cup R
<1>1. History(g, S) /\ T \subseteq Nat /\ \A n \in T : g[n] \in Message
  BY DEF History
<1>2. \A r \in R : Made(g, r) = {}
  <2> TAKE r \in R
  <2>1. g[r].kind # "assistant"
    BY DEF IsResult
  <2> QED
    BY <1>1, <2>1, MadeIs
<1>3. \A c : c \in Given(g, T) <=> c \in Given(g, S) \/ c \in Given(g, R)
  BY GivenIs
<1>4. Opens(g, T) = Opens(g, S) \ Given(g, R)
  <2>1. \A c : (\E a \in T : c \in Made(g, a)) <=> (\E a \in S : c \in Made(g, a))
    BY <1>2
  <2> HIDE DEF T
  <2> QED
    BY <1>3, <2>1, GivenIs
<1>5. OneTurn(g, T)
  BY <1>2 DEF Laid, Orderly, OneTurn
<1>6. OneResult(g, T)
  <2>1. SUFFICES ASSUME NEW q \in S, NEW r \in R, IsResult(g, q), g[q].of = g[r].of PROVE FALSE
    BY DEF Laid, Orderly, OneResult
  <2>2. g[r].of \in Given(g, S)
    BY <2>1, GivenIs
  <2> QED
    BY <2>2, GivenIs
<1>7. \A a \in S, r \in R : g[r].of \in Made(g, a) => \A x \in T : a < x => Behind(g, a, x)
  <2> TAKE a \in S, r \in R
  <2> HAVE g[r].of \in Made(g, a)
  <2>1. Made(g, a) \cap Opens(g, S) # {}
    OBVIOUS
  <2>2. ASSUME NEW q \in R
        PROVE  Behind(g, a, q)
    <3>1. PICK b \in S : g[q].of \in Made(g, b)
      BY GivenIs
    <3>2. Made(g, b) \cap Opens(g, S) # {}
      BY <3>1
    <3>3. b = a
      BY <1>1, <2>1, <3>2, OneIsOpen
    <3>4. g[a] \in Message
      BY <1>1
    <3>5. g[q].of[1] = g[a].turn
      BY <3>1, <3>3, <3>4, MadeIs
    <3> QED
      BY <3>5 DEF Behind
  <2> QED
    BY <2>1, <2>2 DEF Laid, LastIsOpen
<1>8. Answering(g, T)
  <2>1. ASSUME NEW r \in S, IsResult(g, r)
        PROVE  \E a \in T : a < r /\ g[r].of \in Made(g, a) /\ Near(g, T, a, r)
    <3>1. PICK a \in S : a < r /\ g[r].of \in Made(g, a) /\ Near(g, S, a, r)
      BY <2>1 DEF Laid, Orderly, Answering
    <3>2. \A x \in T : x < r => x \in S
      <4>1. \A x \in R : r < x /\ x \in Nat /\ r \in Nat
        BY <1>1
      <4> QED
        BY <4>1
    <3> QED
      BY <3>1, <3>2 DEF Near
  <2>2. ASSUME NEW r \in R
        PROVE  \E a \in T : a < r /\ g[r].of \in Made(g, a) /\ Near(g, T, a, r)
    <3>1. PICK a \in S : g[r].of \in Made(g, a)
      BY GivenIs
    <3> QED
      BY <1>7, <3>1 DEF Near
  <2> QED
    BY <2>1, <2>2 DEF Answering
<1>9. LastIsOpen(g, T)
  <2>1. SUFFICES ASSUME NEW a \in T, NEW c, c \in Made(g, a), c \in Opens(g, T), NEW x \in T, a < x
                 PROVE  Behind(g, a, x)
    BY DEF LastIsOpen
  <2>2. a \in S /\ c \in Opens(g, S)
    BY <1>2, <1>4, <2>1
  <2>3. CASE x \in S
    BY <2>1, <2>2, <2>3 DEF Laid, LastIsOpen
  <2>4. CASE x \in R
    <3>1. PICK b \in S : g[x].of \in Made(g, b)
      BY <2>4, GivenIs
    <3>2. Made(g, b) \cap Opens(g, S) # {} /\ Made(g, a) \cap Opens(g, S) # {}
      BY <2>1, <2>2, <2>4, <3>1
    <3>3. b = a
      BY <1>1, <2>2, <3>2, OneIsOpen
    <3> QED
      BY <1>7, <2>1, <2>2, <2>4, <3>1, <3>3
  <2> QED
    BY <2>3, <2>4
<1> QED
  BY <1>4, <1>5, <1>6, <1>8, <1>9 DEF Laid, Orderly

\* When no call is open, something else may follow.
LEMMA AddOther ==
  ASSUME NEW g, NEW S, NEW n, History(g, S \cup {n}), Orderly(g, S), Opens(g, S) = {},
         \A x \in S : x < n, ~IsResult(g, n),
         Made(g, n) # {} => \A a \in S : Made(g, a) # {} => g[a].turn # g[n].turn
  PROVE  Laid(g, S \cup {n}) /\ Opens(g, S \cup {n}) = Made(g, n)
<1> DEFINE T == S \cup {n}
<1>1. T \subseteq Nat /\ S \subseteq Nat /\ n \in Nat /\ \A m \in T : g[m] \in Message
  BY DEF History
<1>2. \A c : c \in Given(g, T) <=> c \in Given(g, S)
  BY GivenIs
<1>3. ASSUME NEW c \in Made(g, n)
      PROVE  c \notin Given(g, S)
  <2>1. SUFFICES ASSUME NEW r \in S, IsResult(g, r), g[r].of = c PROVE FALSE
    BY GivenIs
  <2>2. PICK a \in S : c \in Made(g, a)
    BY <2>1 DEF Orderly, Answering
  <2>3. g[a].turn = c[1] /\ g[n].turn = c[1]
    <3>1. g[a] \in Message /\ g[n] \in Message
      BY <1>1
    <3> QED
      BY <1>3, <2>2, <3>1, MadeIs
  <2> QED
    BY <1>3, <2>2, <2>3
<1>4. Opens(g, T) = Made(g, n)
  <2>1. \A c : c \in Opens(g, T) <=> c \notin Given(g, S) /\ \E a \in T : c \in Made(g, a)
    BY <1>2, GivenIs
  <2>2. \A c : (\E a \in S : c \in Made(g, a)) => c \in Given(g, S)
    BY GivenIs
  <2> QED
    BY <1>3, <2>1, <2>2
<1>5. OneTurn(g, T)
  BY DEF Orderly, OneTurn
<1>6. OneResult(g, T)
  BY DEF Orderly, OneResult
<1>7. Answering(g, T)
  <2>1. SUFFICES ASSUME NEW r \in S, IsResult(g, r)
                 PROVE  \E a \in T : a < r /\ g[r].of \in Made(g, a) /\ Near(g, T, a, r)
    BY DEF Answering
  <2>2. PICK a \in S : a < r /\ g[r].of \in Made(g, a) /\ Near(g, S, a, r)
    BY <2>1 DEF Orderly, Answering
  <2>3. ~(n < r)
    BY <1>1
  <2> QED
    BY <2>2, <2>3 DEF Near
<1>8. LastIsOpen(g, T)
  <2>1. SUFFICES ASSUME NEW a \in T, NEW c, c \in Made(g, a), c \in Made(g, n), NEW x \in T, a < x
                 PROVE  FALSE
    BY <1>4 DEF LastIsOpen
  <2>2. CASE a = n
    BY <1>1, <2>1, <2>2
  <2>3. CASE a \in S
    <3>1. g[a].turn = c[1] /\ g[n].turn = c[1]
      <4>1. g[a] \in Message /\ g[n] \in Message
        BY <1>1
      <4> QED
        BY <2>1, <4>1, MadeIs
    <3> QED
      BY <2>1, <2>3, <3>1
  <2> QED
    BY <2>2, <2>3
<1> QED
  BY <1>4, <1>5, <1>6, <1>7, <1>8 DEF Laid, Orderly

\* What is neither an answer with calls nor a result may be left out.
LEMMA LeaveOut ==
  ASSUME NEW g, NEW S, NEW T, T \subseteq S,
         \A n \in S \ T : ~IsResult(g, n) /\ Made(g, n) = {}
  PROVE  /\ Opens(g, T) = Opens(g, S)
         /\ Orderly(g, S) => Orderly(g, T)
         /\ Laid(g, S) => Laid(g, T)
<1>1. \A c : c \in Given(g, T) <=> c \in Given(g, S)
  BY GivenIs
<1>2. Opens(g, T) = Opens(g, S)
  <2>1. \A c, a : a \in S /\ c \in Made(g, a) => a \in T
    OBVIOUS
  <2>2. \A c : c \in Opens(g, T) <=> c \in Opens(g, S)
    BY <1>1, <2>1, GivenIs
  <2>3. Opens(g, T) \subseteq Opens(g, S) /\ Opens(g, S) \subseteq Opens(g, T)
    BY <2>2
  <2> QED
    BY <2>3
<1>3. Orderly(g, S) => Orderly(g, T)
  <2>1. SUFFICES ASSUME Orderly(g, S) PROVE Orderly(g, T)
    OBVIOUS
  <2>2. OneTurn(g, T) /\ OneResult(g, T)
    BY <2>1 DEF Orderly, OneTurn, OneResult
  <2>3. Answering(g, T)
    <3>1. SUFFICES ASSUME NEW r \in T, IsResult(g, r)
                   PROVE  \E a \in T : a < r /\ g[r].of \in Made(g, a) /\ Near(g, T, a, r)
      BY DEF Answering
    <3>2. PICK a \in S : a < r /\ g[r].of \in Made(g, a) /\ Near(g, S, a, r)
      BY <2>1, <3>1 DEF Orderly, Answering
    <3> QED
      BY <3>2 DEF Near
  <2> QED
    BY <2>2, <2>3 DEF Orderly
<1>4. LastIsOpen(g, S) => LastIsOpen(g, T)
  BY <1>2 DEF LastIsOpen
<1> QED
  BY <1>2, <1>3, <1>4 DEF Laid

-----------------------------------------------------------------------------
(* The repair of a history.                                                *)

\* Results are appended.
LEMMA MoreResults ==
  ASSUME NEW out \in Seq(Message), NEW more \in Seq(Message), Laid(out, DOMAIN out),
         \A i \in DOMAIN more : more[i].kind = "result" /\ more[i].of \in Opens(out, DOMAIN out),
         \A i, j \in DOMAIN more : more[i].of = more[j].of => i = j
  PROVE  LET all == out \o more
         IN  /\ all \in Seq(Message) /\ Laid(all, DOMAIN all)
             /\ Opens(all, DOMAIN all)
                = Opens(out, DOMAIN out) \ {more[i].of : i \in DOMAIN more}
<1> DEFINE all == out \o more
           m == Len(out)
           S == 1..m
           R == (m + 1)..(m + Len(more))
<1>1. /\ m \in Nat /\ Len(more) \in Nat /\ DOMAIN out = S /\ DOMAIN more = 1..Len(more)
      /\ all \in Seq(Message) /\ Len(all) = m + Len(more) /\ DOMAIN all = 1..(m + Len(more))
      /\ \A i \in 1..(m + Len(more)) : all[i] = IF i <= m THEN out[i] ELSE more[i - m]
  BY ConcatProperties
<1> HIDE DEF all
<1>2. DOMAIN all = S \cup R /\ S \subseteq Nat /\ R \subseteq Nat
  BY <1>1
<1>3. \A i \in S : all[i] = out[i]
  BY <1>1
<1>4. \A r \in R : r - m \in DOMAIN more /\ all[r] = more[r - m] /\ m + (r - m) = r
  BY <1>1
<1>5. Laid(all, S) /\ Opens(all, S) = Opens(out, S)
  BY <1>1, <1>3, SameHistory
<1>6. History(all, S \cup R)
  BY <1>1, <1>2 DEF History
<1>7. \A r \in R : IsResult(all, r) /\ all[r].of \in Opens(all, S)
  BY <1>1, <1>4, <1>5 DEF IsResult
<1>8. OneResult(all, R)
  <2>1. SUFFICES ASSUME NEW q \in R, NEW r \in R, all[q].of = all[r].of PROVE q = r
    BY DEF OneResult
  <2>2. q - m = r - m
    BY <1>4, <2>1
  <2> QED
    BY <1>4, <2>2
<1>9. \A x \in S, r \in R : x < r
  BY <1>1
<1>10. Laid(all, S \cup R) /\ Opens(all, S \cup R) = Opens(all, S) \ Given(all, R)
  <2> HIDE DEF S, R
  <2> QED
    BY <1>5, <1>6, <1>7, <1>8, <1>9, AddResults
<1>11. Given(all, R) = {more[i].of : i \in DOMAIN more}
  <2>1. ASSUME NEW i \in DOMAIN more
        PROVE  more[i].of \in Given(all, R)
    <3>1. m + i \in R /\ (m + i) - m = i
      BY <1>1
    <3> HIDE DEF R
    <3>2. IsResult(all, m + i) /\ all[m + i].of = more[i].of
      BY <1>4, <1>7, <3>1
    <3> QED
      BY <3>1, <3>2, GivenIs
  <2>2. ASSUME NEW c \in Given(all, R)
        PROVE  \E i \in DOMAIN more : c = more[i].of
    <3>1. PICK r \in R : all[r].of = c
      BY <2>2, GivenIs
    <3> QED
      BY <1>4, <3>1
  <2> QED
    BY <2>1, <2>2
<1> QED
  BY <1>1, <1>2, <1>5, <1>10, <1>11 DEF all

\* Something else is appended, when no call is open.
LEMMA OtherMessage ==
  ASSUME NEW out \in Seq(Message), NEW m \in Message, Laid(out, DOMAIN out),
         Opens(out, DOMAIN out) = {}, m.kind # "result",
         Range(CallsOf(m)) # {} =>
           \A a \in DOMAIN out : Made(out, a) # {} => out[a].turn # m.turn
  PROVE  LET all == Append(out, m)
         IN  /\ all \in Seq(Message) /\ Laid(all, DOMAIN all)
             /\ Opens(all, DOMAIN all) = Range(CallsOf(m))
<1> DEFINE all == Append(out, m)
           S == DOMAIN out
           n == Len(out) + 1
<1>1. /\ Len(out) \in Nat /\ S = 1..Len(out)
      /\ all \in Seq(Message) /\ Len(all) = n /\ DOMAIN all = 1..n
      /\ \A i \in S : all[i] = out[i]
      /\ all[n] = m
  BY AppendProperties
<1> HIDE DEF all
<1>2. DOMAIN all = S \cup {n} /\ S \subseteq Nat /\ n \in Nat /\ \A x \in S : x < n
  BY <1>1
<1>3. Laid(all, S) /\ Opens(all, S) = Opens(out, S) /\ \A a \in S : Made(all, a) = Made(out, a)
  BY <1>1, SameHistory
<1>4. History(all, S \cup {n})
  BY <1>1, <1>2 DEF History
<1>5. Made(all, n) = Range(CallsOf(m)) /\ ~IsResult(all, n)
  BY <1>1 DEF Made, IsResult
<1>6. Laid(all, S \cup {n}) /\ Opens(all, S \cup {n}) = Made(all, n)
  <2> HIDE DEF S, n
  <2>1. Orderly(all, S) /\ Opens(all, S) = {}
    BY <1>3 DEF Laid, S
  <2>2. Made(all, n) # {} => \A a \in S : Made(all, a) # {} => all[a].turn # all[n].turn
    BY <1>1, <1>3, <1>5
  <2> QED
    BY <1>2, <1>4, <1>5, <2>1, <2>2, AddOther
<1> QED
  BY <1>1, <1>2, <1>5, <1>6 DEF all

\* The calls of an answer are different ones.
LEMMA CallsDiffer ==
  ASSUME NEW m \in Message
  PROVE  CallsOf(m) \in Seq(CallIds) /\ IsInjective(CallsOf(m))
<1>1. CallsOf(m) \in Seq(CallIds)
  BY CallsAreIds
<1>2. CASE m.kind = "assistant"
  <2>1. CallsOf(m) = [k \in 1..m.calls |-> <<m.turn, k>>]
    BY <1>2 DEF CallsOf
  <2> QED
    BY <1>1, <2>1 DEF IsInjective
<1>3. CASE m.kind # "assistant"
  BY <1>1, <1>3 DEF CallsOf, IsInjective
<1> QED
  BY <1>2, <1>3

\* What is missing are the calls that are open.
LEMMA MissingAnswers ==
  ASSUME NEW D \in SUBSET Message, NEW r \in Repairs(D), IsInjective(r.open)
  PROVE  /\ Missing(r) \in Seq(Message)
         /\ \A i \in DOMAIN Missing(r) : Missing(r)[i].kind = "result"
         /\ {Missing(r)[i].of : i \in DOMAIN Missing(r)} = Range(r.open) \ r.have
         /\ \A i, j \in DOMAIN Missing(r) : Missing(r)[i].of = Missing(r)[j].of => i = j
<1> DEFINE open == Within(r.open, Range(r.open) \ r.have)
<1>1. r.open \in Seq(CallIds)
  BY DEF Repairs
<1>2. /\ open \in Seq(CallIds) /\ IsInjective(open)
      /\ Range(open) = Range(r.open) \cap (Range(r.open) \ r.have)
  BY <1>1, WithinKeeps
<1>3. Missing(r) = [i \in DOMAIN open |-> Result(open[i], "missing")]
  BY DEF Missing
<1> HIDE DEF open
<1>4. /\ DOMAIN Missing(r) = DOMAIN open
      /\ \A i \in DOMAIN open : Missing(r)[i].kind = "result" /\ Missing(r)[i].of = open[i]
  BY <1>3 DEF Result
<1>5. Missing(r) \in Seq(Message)
  <2>1. Missing(r) \in Seq(ResultsOf({"missing"}))
    BY MissingAre
  <2>2. ResultsOf({"missing"}) \subseteq Message
    BY DEF Message, ResultsOf, Hows
  <2> QED
    BY <2>1, <2>2, SeqMonotonic
<1>6. {Missing(r)[i].of : i \in DOMAIN Missing(r)} = Range(open)
  BY <1>4 DEF Range
<1> QED
  BY <1>2, <1>4, <1>5, <1>6 DEF IsInjective

\* How far a repair has come: what it has kept is laid, its open calls are those of the
\* answer at hand without a result, and the answers it has kept were in the history.
SoFar(ms, i, r) ==
  /\ r.out \in Seq(Message) /\ Laid(r.out, DOMAIN r.out)
  /\ IsInjective(r.open) /\ Opens(r.out, DOMAIN r.out) = Range(r.open) \ r.have
  /\ \A p \in DOMAIN r.out : ~Failed(r.out[p])
  /\ \A p \in DOMAIN r.out : Made(r.out, p) # {} =>
       \E k \in 1..i : Made(ms, k) # {} /\ ms[k].turn = r.out[p].turn
  /\ \A j \in 1..i :
       ms[j].kind # "result" /\ (\A k \in (j + 1)..i : ms[k].kind = "result") =>
         /\ r.open = IF Failed(ms[j]) THEN <<>> ELSE CallsOf(ms[j])
         /\ r.have = {ms[k].of : k \in (j + 1)..i}

LEMMA RepairsResult ==
  ASSUME NEW ms \in Seq(Message), Orderly(ms, DOMAIN ms),
         \A k \in DOMAIN ms : Failed(ms[k]) => Made(ms, k) = {},
         NEW i \in 1..Len(ms), NEW r \in Repairs(Message), SoFar(ms, i - 1, r),
         ms[i].kind = "result"
  PROVE  SoFar(ms, i, Repaired(r, ms[i]))
<1> DEFINE m == ms[i]
           t == Repaired(r, m)
<1>1. /\ Len(ms) \in Nat /\ DOMAIN ms = 1..Len(ms) /\ i \in Nat /\ i - 1 \in Nat
      /\ m \in Message /\ \A k \in DOMAIN ms : ms[k] \in Message
  OBVIOUS
<1>2. t = [out |-> Append(r.out, m), open |-> r.open, have |-> r.have \cup {m.of}]
  <2>1. ~Failed(m)
    BY DEF Failed
  <2>2. t = [r EXCEPT !.out = Append(@, m), !.have = @ \cup {m.of}]
    BY <2>1 DEF Repaired
  <2> QED
    BY <2>2 DEF Repairs
<1> HIDE DEF t
<1>3. PICK j \in DOMAIN ms : j < i /\ m.of \in Made(ms, j) /\ Near(ms, DOMAIN ms, j, i)
  BY <1>1 DEF Orderly, Answering, IsResult
<1>4. /\ j \in 1..(i - 1) /\ j \in Nat
      /\ ms[j].kind # "result" /\ ~Failed(ms[j])
         /\ \A k \in (j + 1)..(i - 1) : ms[k].kind = "result"
  <2>1. ms[j].kind = "assistant"
    BY <1>1, <1>3, MadeIs
  <2>2. \A k \in (j + 1)..(i - 1) : k \in DOMAIN ms /\ j < k /\ k < i
    BY <1>1, <1>3
  <2> QED
    BY <1>1, <1>3, <2>1, <2>2 DEF Near, Behind, IsResult
<1>5. r.open = CallsOf(ms[j]) /\ r.have = {ms[k].of : k \in (j + 1)..(i - 1)}
  BY <1>4 DEF SoFar
<1>6. m.of \in Range(r.open) \ r.have
  <2>1. m.of \in Range(r.open)
    BY <1>3, <1>5 DEF Made
  <2>2. ASSUME NEW k \in (j + 1)..(i - 1), m.of = ms[k].of
        PROVE  FALSE
    <3>1. k \in DOMAIN ms /\ k # i /\ IsResult(ms, k) /\ IsResult(ms, i)
      BY <1>1, <1>4 DEF IsResult
    <3> QED
      BY <1>1, <2>2, <3>1 DEF Orderly, OneResult
  <2> QED
    BY <1>5, <2>1, <2>2
<1>7. LET all == r.out \o <<m>>
      IN  /\ all \in Seq(Message) /\ Laid(all, DOMAIN all)
          /\ Opens(all, DOMAIN all) = Opens(r.out, DOMAIN r.out) \ {m.of}
  <2>1. <<m>> \in Seq(Message) /\ DOMAIN <<m>> = {1} /\ <<m>>[1] = m
    BY <1>1
  <2>2. {<<m>>[x].of : x \in DOMAIN <<m>>} = {m.of}
    BY <2>1
  <2>3. \A x \in DOMAIN <<m>> : /\ <<m>>[x].kind = "result"
                                /\ <<m>>[x].of \in Opens(r.out, DOMAIN r.out)
    BY <1>6, <2>1 DEF SoFar
  <2>4. \A x, y \in DOMAIN <<m>> : <<m>>[x].of = <<m>>[y].of => x = y
    BY <2>1
  <2> DEFINE one == <<m>>
             all == r.out \o one
  <2> HIDE DEF one
  <2>5. r.out \in Seq(Message) /\ Laid(r.out, DOMAIN r.out)
    BY DEF SoFar
  <2>6. /\ all \in Seq(Message) /\ Laid(all, DOMAIN all)
        /\ Opens(all, DOMAIN all)
           = Opens(r.out, DOMAIN r.out) \ {one[x].of : x \in DOMAIN one}
    BY <2>1, <2>3, <2>4, <2>5, MoreResults DEF one
  <2> QED
    BY <2>2, <2>6 DEF one
<1>8. Append(r.out, m) = r.out \o <<m>>
  BY <1>1 DEF SoFar
<1>9. \A p \in DOMAIN Append(r.out, m) : p \in DOMAIN r.out \/ p = Len(r.out) + 1
  BY <1>1 DEF SoFar
<1>10. \A p \in DOMAIN r.out : Append(r.out, m)[p] = r.out[p]
  BY <1>1 DEF SoFar
<1>11. Append(r.out, m)[Len(r.out) + 1] = m
  BY <1>1 DEF SoFar
<1> DEFINE all == Append(r.out, m)
<1> HIDE DEF all
<1>12. /\ all \in Seq(Message) /\ Laid(all, DOMAIN all)
       /\ Opens(all, DOMAIN all) = Range(r.open) \ (r.have \cup {m.of})
  BY <1>7, <1>8 DEF SoFar, all
<1>13. \A p \in DOMAIN all : ~Failed(all[p])
  BY <1>9, <1>10, <1>11 DEF SoFar, Failed, all
<1>14. \A p \in DOMAIN all : Made(all, p) # {} =>
         \E k \in 1..i : Made(ms, k) # {} /\ ms[k].turn = all[p].turn
  <2> TAKE p \in DOMAIN all
  <2> HAVE Made(all, p) # {}
  <2>1. CASE p \in DOMAIN r.out
    <3>1. all[p] = r.out[p] /\ Made(all, p) = Made(r.out, p)
      BY <1>10, <2>1 DEF all, Made
    <3>2. PICK k \in 1..(i - 1) : Made(ms, k) # {} /\ ms[k].turn = r.out[p].turn
      BY <2>1, <3>1 DEF SoFar
    <3>3. k \in 1..i
      BY <1>1
    <3> QED
      BY <3>1, <3>2, <3>3
  <2>2. CASE p = Len(r.out) + 1
    <3>1. all[p] = m
      BY <1>11, <2>2 DEF all
    <3>2. Made(all, p) = {}
      BY <1>1, <3>1, MadeIs
    <3> QED
      BY <3>2
  <2> QED
    BY <1>9, <2>1, <2>2 DEF all
<1>15. ASSUME NEW l \in 1..i, ms[l].kind # "result",
              \A k \in (l + 1)..i : ms[k].kind = "result"
       PROVE  /\ r.open = IF Failed(ms[l]) THEN <<>> ELSE CallsOf(ms[l])
              /\ r.have \cup {m.of} = {ms[k].of : k \in (l + 1)..i}
  <2>1. l \in 1..(i - 1) /\ \A k \in (l + 1)..(i - 1) : k \in (l + 1)..i
    <3>1. l # i
      BY <1>15
    <3> QED
      BY <1>1, <3>1
  <2>2. /\ r.open = IF Failed(ms[l]) THEN <<>> ELSE CallsOf(ms[l])
        /\ r.have = {ms[k].of : k \in (l + 1)..(i - 1)}
    BY <1>15, <2>1 DEF SoFar
  <2>3. (l + 1)..i = ((l + 1)..(i - 1)) \cup {i}
    BY <1>1, <2>1
  <2> QED
    BY <2>2, <2>3
<1>16. t.out = all /\ t.open = r.open /\ t.have = r.have \cup {m.of} /\ IsInjective(r.open)
  BY <1>2 DEF all, SoFar
<1>17. SoFar(ms, i, t)
  <2> HIDE DEF m
  <2> QED
    BY <1>12, <1>13, <1>14, <1>15, <1>16 DEF SoFar
<1> QED
  BY <1>17 DEF t

\* A history in order, as a repair leaves it: nothing failed is in it, no call is open, and
\* each result stands behind its answer.
Whole(ms) ==
  /\ ms \in Seq(Message) /\ Laid(ms, DOMAIN ms) /\ Opens(ms, DOMAIN ms) = {}
  /\ \A p \in DOMAIN ms : ~Failed(ms[p])

\* Its answers are among the first of a history.
AnswersAmong(all, ms, i) ==
  \A p \in DOMAIN all : Made(all, p) # {} =>
    \E k \in 1..i : Made(ms, k) # {} /\ ms[k].turn = all[p].turn

\* What is missing is put at the end.
LEMMA Completes ==
  ASSUME NEW ms, NEW i, NEW r \in Repairs(Message), SoFar(ms, i, r)
  PROVE  Whole(r.out \o Missing(r)) /\ AnswersAmong(r.out \o Missing(r), ms, i)
<1> DEFINE more == Missing(r)
           all == r.out \o more
<1>1. /\ r.out \in Seq(Message) /\ Laid(r.out, DOMAIN r.out)
      /\ Opens(r.out, DOMAIN r.out) = Range(r.open) \ r.have /\ IsInjective(r.open)
  BY DEF SoFar
<1>2. /\ more \in Seq(Message) /\ \A x \in DOMAIN more : more[x].kind = "result"
      /\ {more[x].of : x \in DOMAIN more} = Range(r.open) \ r.have
      /\ \A x, y \in DOMAIN more : more[x].of = more[y].of => x = y
  BY <1>1, MissingAnswers
<1> HIDE DEF more
<1>3. /\ all \in Seq(Message) /\ Laid(all, DOMAIN all)
      /\ Opens(all, DOMAIN all)
         = Opens(r.out, DOMAIN r.out) \ {more[x].of : x \in DOMAIN more}
  <2>1. \A x \in DOMAIN more : more[x].of \in Opens(r.out, DOMAIN r.out)
    BY <1>1, <1>2
  <2> QED
    BY <1>1, <1>2, <2>1, MoreResults
<1>4. \A p \in DOMAIN all : IF p \in DOMAIN r.out THEN all[p] = r.out[p]
                            ELSE p - Len(r.out) \in DOMAIN more /\ all[p] = more[p - Len(r.out)]
  BY <1>1, <1>2
<1> HIDE DEF all
<1>5. \A p \in DOMAIN all : ~Failed(all[p])
  BY <1>2, <1>4 DEF SoFar, Failed
<1>6. \A p \in DOMAIN all : Made(all, p) # {} =>
        \E k \in 1..i : Made(ms, k) # {} /\ ms[k].turn = all[p].turn
  <2> TAKE p \in DOMAIN all
  <2> HAVE Made(all, p) # {}
  <2>1. CASE p \in DOMAIN r.out
    <3>1. all[p] = r.out[p] /\ Made(all, p) = Made(r.out, p)
      BY <1>4, <2>1 DEF Made
    <3> QED
      BY <2>1, <3>1 DEF SoFar
  <2>2. CASE p \notin DOMAIN r.out
    <3>1. all[p] \in Message /\ all[p].kind = "result"
      BY <1>2, <1>3, <1>4, <2>2
    <3> QED
      BY <3>1, MadeIs
  <2> QED
    BY <2>1, <2>2
<1> QED
  BY <1>1, <1>2, <1>3, <1>5, <1>6 DEF all, more, Whole, AnswersAmong

LEMMA RepairsOther ==
  ASSUME NEW ms \in Seq(Message), Orderly(ms, DOMAIN ms),
         \A k \in DOMAIN ms : Failed(ms[k]) => Made(ms, k) = {},
         NEW i \in 1..Len(ms), NEW r \in Repairs(Message), SoFar(ms, i - 1, r),
         ms[i].kind # "result"
  PROVE  SoFar(ms, i, Repaired(r, ms[i]))
<1> DEFINE m == ms[i]
           all == r.out \o Missing(r)
<1>1. /\ Len(ms) \in Nat /\ DOMAIN ms = 1..Len(ms) /\ i \in Nat /\ i - 1 \in Nat
      /\ m \in Message /\ \A k \in DOMAIN ms : ms[k] \in Message
      /\ \A k \in 1..(i - 1) : k \in 1..i /\ k \in DOMAIN ms /\ k # i
      /\ i \in DOMAIN ms /\ i \in 1..i
  OBVIOUS
<1>2. /\ all \in Seq(Message) /\ Laid(all, DOMAIN all) /\ Opens(all, DOMAIN all) = {}
      /\ \A p \in DOMAIN all : ~Failed(all[p])
      /\ \A p \in DOMAIN all : Made(all, p) # {} =>
           \E k \in 1..(i - 1) : Made(ms, k) # {} /\ ms[k].turn = all[p].turn
  <2>1. Whole(all) /\ AnswersAmong(all, ms, i - 1)
    BY Completes
  <2> HIDE DEF all
  <2> QED
    BY <2>1 DEF Whole, AnswersAmong
<1> HIDE DEF all
<1>3. ASSUME NEW l \in 1..i, ms[l].kind # "result", \A k \in (l + 1)..i : ms[k].kind = "result"
      PROVE  l = i /\ (l + 1)..i = {}
  <2>1. l = i
    <3>1. l # i => i \in (l + 1)..i
      BY <1>1
    <3> QED
      BY <1>3, <3>1
  <2> QED
    BY <1>1, <2>1
<1>4. CASE Failed(m)
  <2>1. Repaired(r, m) = [out |-> all, open |-> <<>>, have |-> {}]
    BY <1>4 DEF Repaired, Opened, all
  <2>2. IsInjective(<<>>) /\ Range(<<>>) = {}
    BY DEF IsInjective, Range
  <2>3. \A p \in DOMAIN all : Made(all, p) # {} =>
          \E k \in 1..i : Made(ms, k) # {} /\ ms[k].turn = all[p].turn
    BY <1>1, <1>2
  <2>4. ASSUME NEW l \in 1..i, ms[l].kind # "result",
               \A k \in (l + 1)..i : ms[k].kind = "result"
        PROVE  /\ <<>> = IF Failed(ms[l]) THEN <<>> ELSE CallsOf(ms[l])
               /\ {} = {ms[k].of : k \in (l + 1)..i}
    BY <1>3, <1>4, <2>4
  <2> DEFINE t == Repaired(r, m)
  <2>5. t.out = all /\ t.open = <<>> /\ t.have = {}
    BY <2>1
  <2> HIDE DEF t, m
  <2>6. SoFar(ms, i, t)
    BY <1>2, <2>2, <2>3, <2>4, <2>5 DEF SoFar
  <2> QED
    BY <2>6 DEF t, m
<1>5. CASE ~Failed(m)
  <2> DEFINE more == Append(all, m)
  <2>1. Repaired(r, m) = [out |-> more, open |-> CallsOf(m), have |-> {}]
    BY <1>5 DEF Repaired, Opened, all
  <2>2. IsInjective(CallsOf(m)) /\ CallsOf(m) \in Seq(CallIds)
    BY <1>1, CallsDiffer
  <2>3. ASSUME Range(CallsOf(m)) # {}, NEW a \in DOMAIN all, Made(all, a) # {},
               all[a].turn = m.turn
        PROVE  FALSE
    <3>1. PICK k \in 1..(i - 1) : Made(ms, k) # {} /\ ms[k].turn = all[a].turn
      BY <1>2, <2>3
    <3>2. Made(ms, i) # {}
      BY <2>3 DEF Made
    <3> QED
      BY <1>1, <2>3, <3>1, <3>2 DEF Orderly, OneTurn
  <2>4. /\ more \in Seq(Message) /\ Laid(more, DOMAIN more)
        /\ Opens(more, DOMAIN more) = Range(CallsOf(m))
    <3> HIDE DEF m
    <3> QED
      BY <1>1, <1>2, <2>3, OtherMessage DEF m
  <2>5. \A p \in DOMAIN more : IF p \in DOMAIN all THEN more[p] = all[p] ELSE more[p] = m
    BY <1>1, <1>2
  <2> HIDE DEF more
  <2>6. \A p \in DOMAIN more : ~Failed(more[p])
    BY <1>2, <1>5, <2>5
  <2>7. \A p \in DOMAIN more : Made(more, p) # {} =>
          \E k \in 1..i : Made(ms, k) # {} /\ ms[k].turn = more[p].turn
    <3> TAKE p \in DOMAIN more
    <3> HAVE Made(more, p) # {}
    <3>1. CASE p \in DOMAIN all
      <4>1. more[p] = all[p] /\ Made(more, p) = Made(all, p)
        BY <2>5, <3>1 DEF Made
      <4>2. PICK k \in 1..(i - 1) : Made(ms, k) # {} /\ ms[k].turn = all[p].turn
        BY <1>2, <3>1, <4>1
      <4> QED
        BY <1>1, <4>1, <4>2
    <3>2. CASE p \notin DOMAIN all
      <4>1. more[p] = ms[i] /\ Made(more, p) = Made(ms, i)
        BY <2>5, <3>2 DEF Made
      <4> QED
        BY <1>1, <4>1
    <3> QED
      BY <3>1, <3>2
  <2>8. ASSUME NEW l \in 1..i, ms[l].kind # "result",
               \A k \in (l + 1)..i : ms[k].kind = "result"
        PROVE  /\ CallsOf(m) = IF Failed(ms[l]) THEN <<>> ELSE CallsOf(ms[l])
               /\ {} = {ms[k].of : k \in (l + 1)..i}
    BY <1>3, <1>5, <2>8
  <2> DEFINE t == Repaired(r, m)
  <2>9. t.out = more /\ t.open = CallsOf(m) /\ t.have = {}
    BY <2>1
  <2> HIDE DEF t, m
  <2>10. Opens(more, DOMAIN more) = Range(CallsOf(m)) \ {}
    BY <2>4
  <2>11. SoFar(ms, i, t)
    BY <2>2, <2>4, <2>6, <2>7, <2>8, <2>9, <2>10 DEF SoFar
  <2> QED
    BY <2>11 DEF t, m
<1> QED
  BY <1>4, <1>5

\* What a repair makes of a history that is in order.
LEMMA RepairIsWhole ==
  ASSUME NEW ms \in Seq(Message), Orderly(ms, DOMAIN ms),
         \A k \in DOMAIN ms : Failed(ms[k]) => Made(ms, k) = {}
  PROVE  Whole(Repair(ms))
<1> DEFINE n == Len(ms)
<1>1. PICK upTo : Repairing(upTo, ms, Message)
  BY RepairSteps
<1>2. /\ n \in Nat /\ upTo[0] = Opened(<<>>, <<>>)
      /\ \A i \in 1..n : upTo[i] = Repaired(upTo[i - 1], ms[i])
      /\ \A i \in 0..n : upTo[i] \in Repairs(Message)
      /\ Repair(ms) = upTo[n].out \o Missing(upTo[n])
  BY <1>1 DEF Repairing
<1> DEFINE T == {k \in Nat : k <= n => SoFar(ms, k, upTo[k])}
<1>3. 0 \in T
  <2>1. /\ upTo[0].out = <<>> /\ upTo[0].open = <<>> /\ upTo[0].have = {}
        /\ DOMAIN <<>> = {} /\ Range(<<>>) = {} /\ IsInjective(<<>>) /\ <<>> \in Seq(Message)
    BY <1>2 DEF Opened, Range, IsInjective
  <2>2. Given(<<>>, {}) = {} /\ Opens(<<>>, {}) = {}
    BY DEF Given, Opens
  <2>3. Laid(<<>>, {})
    BY DEF Laid, Orderly, OneTurn, OneResult, Answering, LastIsOpen
  <2> DEFINE r == upTo[0]
  <2>4. Opens(r.out, DOMAIN r.out) = Range(r.open) \ r.have /\ Laid(r.out, DOMAIN r.out)
    BY <2>1, <2>2, <2>3
  <2>5. DOMAIN r.out = {} /\ r.out \in Seq(Message) /\ IsInjective(r.open) /\ 1..0 = {}
    BY <2>1
  <2> HIDE DEF r
  <2>6. SoFar(ms, 0, r)
    BY <2>4, <2>5 DEF SoFar
  <2>7. SoFar(ms, 0, upTo[0])
    BY <2>6 DEF r
  <2> QED
    BY <2>7
<1>4. ASSUME NEW k \in Nat, k \in T
      PROVE  k + 1 \in T
  <2>1. SUFFICES ASSUME k + 1 <= n PROVE SoFar(ms, k + 1, upTo[k + 1])
    OBVIOUS
  <2>2. k + 1 \in 1..n /\ (k + 1) - 1 = k /\ k \in 0..n /\ SoFar(ms, k, upTo[k])
    BY <1>2, <1>4, <2>1
  <2>3. upTo[k + 1] = Repaired(upTo[k], ms[k + 1]) /\ upTo[k] \in Repairs(Message)
    BY <1>2, <2>2
  <2> HIDE DEF T
  <2> QED
    BY <2>2, <2>3, RepairsResult, RepairsOther
<1>5. SoFar(ms, n, upTo[n]) /\ upTo[n] \in Repairs(Message)
  <2>1. \A k \in Nat : k \in T
    <3> HIDE DEF T
    <3> QED
      BY <1>3, <1>4, Induction
  <2> QED
    BY <1>2, <2>1
<1> HIDE DEF n
<1> QED
  BY <1>2, <1>5, Completes

\* In a whole history the results of an answer follow it at once: there are as many of
\* them as it made calls, and between it and each of them there are only others of them.
LEMMA WholeIsPaired ==
  ASSUME NEW ms, Whole(ms)
  PROVE  Paired(ms)
<1> DEFINE D == DOMAIN ms
<1>1. /\ Len(ms) \in Nat /\ D = 1..Len(ms) /\ \A i \in D : ms[i] \in Message
      /\ Orderly(ms, D) /\ Opens(ms, D) = {}
  BY DEF Whole, Laid
<1>2. ASSUME NEW i \in D, NEW n, n = Len(CallsOf(ms[i])), NEW k \in 1..n
      PROVE  i + k \in D /\ Behind(ms, i, i + k)
  <2>1. /\ ms[i].kind = "assistant" /\ n = ms[i].calls /\ n \in Nat /\ i \in Nat /\ k \in Nat
        /\ \A c : c \in Made(ms, i) <=> \E l \in 1..n : c = <<ms[i].turn, l>>
    <3>1. ms[i].kind = "assistant"
      <4>1. ms[i].kind # "assistant" => n = 0
        BY <1>2 DEF CallsOf
      <4> QED
        BY <1>2, <4>1
    <3>2. ms[i].calls \in Nat /\ ms[i].turn \in Nat
      BY <1>1, <3>1, MessageFacts, SessionAssumption
    <3>3. CallsOf(ms[i]) = [l \in 1..ms[i].calls |-> <<ms[i].turn, l>>]
      BY <3>1 DEF CallsOf
    <3>4. n = ms[i].calls
      BY <1>2, <3>2, <3>3
    <3> QED
      BY <1>1, <3>1, <3>2, <3>4, MadeIs
  <2>2. \A l \in 1..n : \E q \in D :
          /\ i < q /\ Behind(ms, i, q) /\ ms[q].of = <<ms[i].turn, l>> /\ Near(ms, D, i, q)
    <3> TAKE l \in 1..n
    <3> DEFINE c == <<ms[i].turn, l>>
    <3>1. c \in Made(ms, i)
      BY <2>1
    <3>2. c \in Given(ms, D)
      BY <1>1, <3>1, GivenIs
    <3>3. PICK q \in D : IsResult(ms, q) /\ ms[q].of = c
      BY <3>2, GivenIs
    <3>4. PICK a \in D : a < q /\ c \in Made(ms, a) /\ Near(ms, D, a, q)
      BY <1>1, <3>3 DEF Orderly, Answering
    <3>5. ms[a].turn = ms[i].turn
      <4>1. c[1] = ms[a].turn
        BY <1>1, <3>4, MadeIs
      <4> QED
        BY <4>1
    <3>6. a = i
      BY <1>1, <3>1, <3>4, <3>5 DEF Orderly, OneTurn
    <3> QED
      BY <3>3, <3>4, <3>6 DEF Behind
  <2> DEFINE at == [l \in 1..n |-> CHOOSE q \in D :
          /\ i < q /\ Behind(ms, i, q) /\ ms[q].of = <<ms[i].turn, l>> /\ Near(ms, D, i, q)]
  <2>3. \A l \in 1..n : /\ at[l] \in D /\ i < at[l] /\ Behind(ms, i, at[l])
                        /\ ms[at[l]].of = <<ms[i].turn, l>> /\ Near(ms, D, i, at[l])
    BY <2>2
  <2> HIDE DEF at
  <2>4. SUFFICES ASSUME ~(i + k \in D /\ Behind(ms, i, i + k)) PROVE FALSE
    OBVIOUS
  <2>5. \A l \in 1..n : at[l] \in (i + 1)..(i + k - 1)
    <3> TAKE l \in 1..n
    <3>1. at[l] \in Nat /\ at[l] <= Len(ms)
      BY <1>1, <2>3
    <3>2. ~(i + k <= at[l])
      <4>1. SUFFICES ASSUME i + k <= at[l] PROVE FALSE
        OBVIOUS
      <4>2. i + k \in D
        BY <1>1, <2>1, <3>1, <4>1
      <4>3. i < i + k /\ (i + k = at[l] \/ i + k < at[l])
        <5> DEFINE q == at[l]
        <5>1. q \in Nat /\ i + k <= q /\ k \in Nat /\ k >= 1 /\ i \in Nat
          BY <2>1, <3>1, <4>1
        <5> HIDE DEF q
        <5>2. i < i + k /\ (i + k = q \/ i + k < q)
          BY <5>1
        <5> QED
          BY <5>2 DEF q
      <4>4. CASE i + k = at[l]
        BY <2>3, <2>4, <4>4
      <4>5. CASE i + k < at[l]
        BY <2>3, <2>4, <4>2, <4>3, <4>5 DEF Near
      <4> QED
        BY <4>3, <4>4, <4>5
    <3> QED
      BY <2>1, <2>3, <3>1, <3>2
  <2> DEFINE S == 1..n
             T == (i + 1)..(i + k - 1)
  <2>6. IsFiniteSet(S) /\ IsFiniteSet(T) /\ Cardinality(T) < Cardinality(S)
    <3>1. i + 1 \in Int /\ i + k - 1 \in Int /\ 1 \in Int /\ n \in Int
      BY <2>1
    <3>2. IsFiniteSet(S) /\ Cardinality(S) = IF 1 > n THEN 0 ELSE n - 1 + 1
      BY <3>1, FS_Interval
    <3>3. /\ IsFiniteSet(T)
          /\ Cardinality(T) = IF i + 1 > i + k - 1 THEN 0 ELSE (i + k - 1) - (i + 1) + 1
      BY <3>1, FS_Interval
    <3>4. Cardinality(S) = n /\ Cardinality(T) = k - 1
      <4>1. n - 1 + 1 = n /\ ~(1 > n) /\ k >= 1
        BY <2>1
      <4>2. k = 1 \/ ~(i + 1 > i + k - 1)
        BY <2>1
      <4>3. (i + k - 1) - (i + 1) + 1 = k - 1 /\ (k = 1 => i + 1 > i + k - 1)
        BY <2>1
      <4> HIDE DEF S, T
      <4> QED
        BY <2>1, <3>2, <3>3, <4>1, <4>2, <4>3
    <3> QED
      BY <2>1, <3>2, <3>3, <3>4
  <2>7. at \in [S -> T]
    BY <2>5 DEF at
  <2>8. \E x, y \in S : x # y /\ at[x] = at[y]
    <3> HIDE DEF S, T
    <3> QED
      BY <2>6, <2>7, FS_PigeonHole
  <2>9. PICK x \in S, y \in S : x # y /\ at[x] = at[y]
    BY <2>8
  <2>10. <<ms[i].turn, x>> = <<ms[i].turn, y>>
    BY <2>3, <2>9
  <2> QED
    BY <2>9, <2>10
<1>3. ASSUME NEW i \in D
      PROVE  LET n == Len(CallsOf(ms[i]))
             IN  /\ i + n <= Len(ms)
                 /\ \A k \in 1..n : ms[i + k].kind = "result" /\ ms[i + k].of[1] = ms[i].turn
  <2> DEFINE n == Len(CallsOf(ms[i]))
  <2>1. n \in Nat
    BY <1>1, CallsDiffer
  <2>2. \A k \in 1..n : i + k \in D /\ Behind(ms, i, i + k)
    BY <1>2
  <2>3. i + n <= Len(ms)
    <3>1. CASE n = 0
      BY <1>1, <3>1
    <3>2. CASE n # 0
      <4>1. n \in 1..n
        BY <2>1, <3>2
      <4>2. i + n \in D
        BY <2>2, <4>1
      <4> QED
        BY <1>1, <4>2
    <3> QED
      BY <3>1, <3>2
  <2> QED
    BY <2>2, <2>3 DEF Behind, IsResult
<1>4. \A i \in Results(ms) : ms[i].of \in UNION {Range(CallsOf(ms[j])) : j \in 1..(i - 1)}
  <2> TAKE i \in Results(ms)
  <2>1. i \in D /\ IsResult(ms, i)
    BY DEF Results, IsResult
  <2>2. PICK a \in D : a < i /\ ms[i].of \in Made(ms, a)
    BY <1>1, <2>1 DEF Orderly, Answering
  <2>3. a \in 1..(i - 1)
    BY <1>1, <2>1, <2>2
  <2> QED
    BY <2>2, <2>3 DEF Made
<1>5. \A i, j \in Results(ms) : ms[i].of = ms[j].of => i = j
  BY <1>1 DEF Results, Orderly, OneResult, IsResult
<1> QED
  BY <1>3, <1>4, <1>5 DEF Paired

-----------------------------------------------------------------------------
(* The theorems.                                                           *)

LEMMA FailsStays ==
  ASSUME IInv, Fails, Next
  PROVE  Fails'
<1>1. run = [phase |-> run.phase, out |-> run.out, cancelled |-> run.cancelled,
             answer |-> run.answer, next |-> run.next, more |-> run.more, blank |-> run.blank,
             emptied |-> run.emptied, error |-> run.error, failing |-> run.failing,
             late |-> run.late]
  BY Facts DEF RunsOver
<1>2. CASE Prompt \/ Flushed \/ Retry \/ Restart \/ Settle
  <2>1. ASSUME NEW ms, NEW prompts, Begin(ms, prompts)
        PROVE  ~run'.failing
    BY <2>1 DEF Begin, Idle
  <2>2. Prompt \/ Flushed \/ Retry => ~run'.failing
    <3>1. Prompt /\ store.writes # <<>> => ~run'.failing
      BY DEF Prompt, Idle
    <3>2. Prompt /\ store.writes = <<>> => Begin(mem, <<Plain>>)
      BY DEF Prompt
    <3>3. Flushed => Begin(mem, <<Plain>>)
      BY DEF Flushed
    <3>4. Retry => Begin(Front(mem), <<>>)
      BY DEF Retry
    <3> QED
      BY <2>1, <3>1, <3>2, <3>3, <3>4
  <2>3. Restart => run' = Idle
    BY DEF Restart
  <2>4. ASSUME Settle
        PROVE  run'.phase = "settle" \/ run' = Idle
    <3> DEFINE unsaved == Within(mem, Range(store.writes))
    <3>1. run' \in {[run EXCEPT !.phase = "settle", !.out = unsaved], Idle}
      BY <2>4 DEF Settle
    <3> HIDE DEF unsaved
    <3> QED
      BY <1>1, <3>1
  <2> QED
    BY <1>2, <2>2, <2>3, <2>4 DEF Fails, Idle
<1>3. CASE Publish
  <2>1. \/ run'.phase = run.phase /\ (run'.failing => run.failing)
        \/ run'.phase = "ended"
        \/ ~run'.failing
    <3> DEFINE out == Tail(run.out)
               failure == <<Len(log) + 1>>
    <3>1. \/ run' = [run EXCEPT !.out = out]
          \/ run' = [run EXCEPT !.out = <<>>]
          \/ run' = Idle
          \/ run' = [run EXCEPT !.phase = "ended", !.out = failure, !.error = FALSE,
                       !.failing = TRUE]
      BY <1>3 DEF Publish
    <3> HIDE DEF out, failure
    <3>2. CASE run' = Idle
      BY <3>2 DEF Idle
    <3>3. CASE run' # Idle
      BY <1>1, <3>1, <3>3
    <3> QED
      BY <3>2, <3>3
  <2> QED
    BY <2>1 DEF Fails
<1>4. CASE StartTurn \/ NextTurn
  BY <1>1, <1>4 DEF StartTurn, NextTurn, Polled, Goes, Fails, Ready
<1>5. CASE Request \/ FailedEnds \/ BlankEnds \/ WordsEnd \/ BatchBegins \/ Pauses \/ Finish
  BY <1>1, <1>5
     DEF Request, FailedEnds, BlankEnds, WordsEnd, BatchBegins, Pauses, Finish, Fails, Ready
<1>6. CASE \E calls \in 0..MaxCalls, stop \in {"done", "cut", "error", "aborted"},
              blank \in BOOLEAN : Answer(calls, stop, blank)
  BY <1>1, <1>6 DEF Answer, Fails, Ready
<1>7. CASE SeqBegins \/ SeqPrepare \/ SeqDone \/ SeqEnds
  BY <1>1, <1>7 DEF SeqBegins, SeqPrepare, SeqDone, SeqEnds, Settles, Fails, Ready
<1>8. CASE ParPrepare \/ ParStart \/ ParEnds \/ \E k \in 1..MaxCalls : ParDone(k)
  BY <1>1, <1>8 DEF ParPrepare, ParStart, ParEnds, ParDone, Fails, Ready
<1>9. CASE Cancel \/ Close \/ \E which \in {"steer", "follow"} : Queue(which)
  BY <1>1, <1>9 DEF Cancel, Close, Queue, Fails
<1> QED
  BY <1>2, <1>3, <1>4, <1>5, <1>6, <1>7, <1>8, <1>9 DEF Next, ToolStep, LoopStep

LEMMA NextKeeps ==
  ASSUME IInv, Fails, [Next]_vars
  PROVE  IInv' /\ Fails'
<1>1. CASE UNCHANGED vars
  BY <1>1 DEF vars, IInv, Typed, Filed, Turns, Batch, RanIsRecorded, Fails, Used, Denials, Results
<1>2. CASE Next
  <2>1. IInv'
    <3>1. CASE Prompt
      BY <3>1, PromptKeeps
    <3>2. CASE ToolStep
      BY <3>2, SeqDoneKeeps, ParDoneKeeps DEF ToolStep
    <3>3. CASE LoopStep
      <4>1. CASE Flushed \/ Publish \/ StartTurn \/ Request \/ FailedEnds \/ BlankEnds \/ WordsEnd
        BY <4>1, FlushedKeeps, PublishKeeps, StartTurnKeeps, RequestKeeps, FailedEndsKeeps,
           BlankEndsKeeps, WordsEndKeeps
      <4>2. CASE BatchBegins \/ SeqBegins \/ SeqPrepare \/ SeqEnds \/ ParPrepare \/ ParStart
                \/ ParEnds
        BY <4>2, BatchBeginsKeeps, SeqBeginsKeeps, SeqPrepareKeeps, SeqEndsKeeps, ParPrepareKeeps,
           ParStartKeeps, ParEndsKeeps
      <4>3. CASE Pauses \/ NextTurn \/ Retry \/ Finish \/ Settle
        BY <4>3, PausesKeeps, NextTurnKeeps, RetryKeeps, FinishKeeps, SettleKeeps
      <4>4. CASE \E calls \in 0..MaxCalls, stop \in {"done", "cut", "error", "aborted"},
                    blank \in BOOLEAN : Answer(calls, stop, blank)
        BY <4>4, AnswerKeeps
      <4> QED
        BY <3>3, <4>1, <4>2, <4>3, <4>4 DEF LoopStep
    <3>4. CASE Cancel \/ Close \/ Restart
      BY <3>4, CancelKeeps, CloseKeeps, RestartKeeps
    <3>5. CASE \E which \in {"steer", "follow"} : Queue(which)
      BY <3>5, QueueKeeps
    <3> QED
      BY <1>2, <3>1, <3>2, <3>3, <3>4, <3>5 DEF Next
  <2>2. Fails'
    BY <1>2, FailsStays
  <2> QED
    BY <2>1, <2>2
<1> QED
  BY <1>1, <1>2

\* The history and the list of unfinished writes name messages, none of them twice; what
\* is in the file has a parent: the invariant that TLC checks, for every bound.
THEOREM SessionTyped == Spec => []TypeOK
<1>1. Init => IInv /\ Fails
  <2>1. Init => Fails
    BY DEF Init, Fails, Idle
  <2> QED
    BY <2>1, InitHolds
<1>2. IInv /\ Fails /\ [Next]_vars => IInv' /\ Fails'
  BY NextKeeps
<1>3. IInv => TypeOK
  <2>1. SUFFICES ASSUME IInv PROVE TypeOK
    OBVIOUS
  <2>2. store.writes \in Seq(DOMAIN store.up) /\ DOMAIN store.up \subseteq DOMAIN log
        /\ store.file \subseteq DOMAIN store.up /\ IsInjective(store.writes)
        /\ store.tip \in store.file \cup {0}
    BY <2>1 DEF IInv, Filed, Tree
  <2>3. store.writes \in Seq(DOMAIN log)
    BY <2>2, SeqMonotonic
  <2>4. run.phase \in Phases /\ run.out \in Seq(DOMAIN log)
    BY <2>1, Facts DEF RunsOver
  <2>5. Range(run.out) \subseteq DOMAIN log
    BY <2>4 DEF Range
  <2>6. mem \in Seq(DOMAIN log) /\ IsInjective(mem)
    BY <2>1, Facts
  <2> QED
    BY <2>2, <2>3, <2>4, <2>5, <2>6 DEF TypeOK
<1> QED
  BY <1>1, <1>2, <1>3, PTL DEF Spec

\* A tool is only entered for a call of a complete answer that is in the session file, and
\* no result says of such a call that it was not executed (loop.py:569-864,
\* session.py:3665).
THEOREM Recorded == Spec => []RanIsRecorded
<1>1. Init => IInv /\ Fails
  <2>1. Init => Fails
    BY DEF Init, Fails, Idle
  <2> QED
    BY <2>1, InitHolds
<1>2. IInv /\ Fails /\ [Next]_vars => IInv' /\ Fails'
  BY NextKeeps
<1>3. IInv => RanIsRecorded
  BY DEF IInv
<1> QED
  BY <1>1, <1>2, <1>3, PTL DEF Spec

\* At rest, with every write finished, a load of the file would bring back what the
\* session has in memory, in the same order: attempts that failed, their repetition and
\* the branch of a repair lose, double or move no message (session.py:3672-3754).
THEOREM FileFollowsMemory == Spec => []SavedIsMemory
<1>1. Init => IInv /\ Fails /\ Remembers
  <2>1. Init => Fails
    BY DEF Init, Fails, Idle
  <2> QED
    BY <2>1, InitHolds, InitRemembers
<1>2. IInv /\ Fails /\ Remembers /\ [Next]_vars => IInv' /\ Fails' /\ Remembers'
  BY NextKeeps, NextRemembers
<1>3. IInv /\ Remembers => SavedIsMemory
  <2>1. SUFFICES ASSUME IInv, Remembers, store.writes = <<>>
                 PROVE  Within(mem, Telling) = Within(Path(store, store.tip), Telling)
    BY DEF SavedIsMemory
  <2>2. Live(store) = store
    BY <2>1, Facts, LiveIs DEF IInv, Filed
  <2>3. Range(store.writes) = {}
    BY <2>1 DEF Range
  <2> QED
    BY <2>1, <2>2, <2>3 DEF Remembers, Follows
<1> QED
  BY <1>1, <1>2, <1>3, PTL DEF Spec

\* A history in which each call is of one answer, and has at most one result that stands
\* behind it and other results of its answer, is repaired to a transcript that providers
\* accept, wherever the runs before broke off: what is missing is added right behind its
\* answer, and failed answers without calls are left out (tool_history.py:40-91).
THEOREM HistoryIsRepaired ==
  ASSUME NEW ms \in Seq(Message), Orderly(ms, DOMAIN ms),
         \A k \in DOMAIN ms : Failed(ms[k]) => Made(ms, k) = {}
  PROVE  Paired(Repair(ms))
BY RepairIsWhole, WholeIsPaired
=============================================================================
