--------------------------------- MODULE Sums ---------------------------------
(***************************************************************************)
(* Sums of the values of a function on a finite set, as the folds of the   *)
(* community modules compute them: they do not depend on the order in      *)
(* which the fold takes the elements, they are linear, and they can be     *)
(* taken group by group.                                                   *)
(*                                                                         *)
(* Induction is by the least natural number of a set, which needs no       *)
(* operator as a parameter.                                                *)
(***************************************************************************)
EXTENDS Integers, FiniteSets, Functions, FiniteSetTheorems, TLAPS

IntegersOn(f, S) == \A x \in S : f[x] \in Int

\* The function by which the fold computes the sum of a set: its value at a
\* set comes from its value at the set without one chosen element.
Chosen(s) == CHOOSE x \in s : TRUE
SumStep(f, g, s) ==
    IF s = {} THEN 0 ELSE f[Chosen(s)] + g[s \ {Chosen(s)}]
SumFcn(f, S) == CHOOSE g : g = [s \in SUBSET S |-> SumStep(f, g, s)]

\* The fold is that function.
LEMMA SumOnDef ==
   ASSUME NEW f, NEW S
   PROVE  SumFunctionOnSet(f, S) = SumFcn(f, S)[S]
  BY Zenon DEF SumFunctionOnSet, FoldFunctionOnSet, MapThenFoldSet, SumFcn, SumStep, Chosen

\* A set of natural numbers that is not empty has a least element.
LEMMA LeastNatural ==
    ASSUME NEW T \in SUBSET Nat, T # {}
    PROVE  \E x \in T : \A y \in T : x <= y
  <1>1. PICK x \in T : \A y \in T : ~ (<<y, x>> \in OpToRel(<, Nat))
    BY NatLessThanWellFounded, WFMin, Zenon
  <1>2. \A y \in T : ~(y < x)
    BY <1>1 DEF OpToRel
  <1>3. QED
    BY <1>2

\* One with a bound has a greatest element.
LEMMA GreatestNatural ==
    ASSUME NEW n \in Nat, NEW S \in SUBSET (0 .. n), S # {}
    PROVE  \E x \in S : \A y \in S : y <= x
  <1>1. PICK T : T = {n - x : x \in S}
    OBVIOUS
  <1>2. T \in SUBSET Nat /\ T # {}
    <2>1. \A x \in S : n - x \in Nat
      OBVIOUS
    <2>2. QED
      BY <1>1, <2>1
  <1>3. PICK t \in T : \A y \in T : t <= y
    BY <1>2, LeastNatural
  <1>4. PICK x \in S : t = n - x
    BY <1>1, <1>3
  <1>5. ASSUME NEW y \in S PROVE y <= x
    <2>1. n - x <= n - y
      BY <1>1, <1>3, <1>4
    <2>2. x \in Int /\ y \in Int
      OBVIOUS
    <2>3. QED
      BY <2>1, <2>2
  <1>6. QED
    BY <1>5

\* A set of natural numbers with 0 and the successors of its elements has all.
LEMMA AllNaturals ==
    ASSUME NEW T \in SUBSET Nat, 0 \in T, \A n \in T : n + 1 \in T
    PROVE  T = Nat
  <1>1. SUFFICES ASSUME Nat \ T # {} PROVE FALSE
    OBVIOUS
  <1>2. PICK m \in Nat \ T : \A y \in Nat \ T : m <= y
    BY <1>1, LeastNatural
  <1>3. m # 0 /\ m - 1 \in Nat /\ m - 1 \in T
    BY <1>2
  <1>4. (m - 1) + 1 = m
    BY <1>2
  <1>5. QED
    BY <1>2, <1>3, <1>4

\* What a subset of a finite set and its elements say of cardinalities.
LEMMA SubsetSize ==
    ASSUME NEW S, IsFiniteSet(S), NEW s \in SUBSET S
    PROVE  /\ IsFiniteSet(s)
           /\ Cardinality(s) \in Nat
           /\ Cardinality(s) <= Cardinality(S)
           /\ s = {} <=> Cardinality(s) = 0
           /\ s # {} => Chosen(s) \in s
           /\ \A x \in s : /\ s \ {x} \in SUBSET S
                           /\ Cardinality(s \ {x}) = Cardinality(s) - 1
  <1>1. IsFiniteSet(s) /\ Cardinality(s) \in Nat /\ Cardinality(s) <= Cardinality(S)
    BY FS_Subset, FS_CardinalityType
  <1>2. s = {} <=> Cardinality(s) = 0
    BY <1>1, FS_EmptySet
  <1>3. s # {} => Chosen(s) \in s
    BY DEF Chosen
  <1>4. ASSUME NEW x \in s
        PROVE  s \ {x} \in SUBSET S /\ Cardinality(s \ {x}) = Cardinality(s) - 1
    BY <1>1, FS_RemoveElement
  <1>5. QED
    BY <1>1, <1>2, <1>3, <1>4

\* If a set of subsets of S has {} and every set that is in it without one of
\* its elements (the chosen one and any other), it has every subset of S.
LEMMA SubsetInduction ==
    ASSUME NEW S, IsFiniteSet(S), NEW Q \in SUBSET SUBSET S, {} \in Q,
           \A s \in SUBSET S : s # {} /\ (\A x \in s : s \ {x} \in Q) => s \in Q
    PROVE  Q = SUBSET S
  <1> DEFINE T == {n \in Nat : \A s \in SUBSET S : Cardinality(s) = n => s \in Q}
  <1>1. 0 \in T
    BY SubsetSize
  <1>2. ASSUME NEW n \in T
        PROVE  n + 1 \in T
    <2>1. ASSUME NEW s \in SUBSET S, Cardinality(s) = n + 1
          PROVE  s \in Q
      <3>1. s # {}
        BY <2>1, SubsetSize
      <3>2. ASSUME NEW x \in s
            PROVE  s \ {x} \in Q
        <4>1. s \ {x} \in SUBSET S /\ Cardinality(s \ {x}) = n
          BY <2>1, SubsetSize
        <4>2. QED
          BY <4>1
      <3>3. QED
        BY <3>1, <3>2
    <2>2. QED
      BY <2>1
  <1>3. T = Nat
    <2> HIDE DEF T
    <2>1. T \in SUBSET Nat
      BY DEF T
    <2>2. QED
      BY <1>1, <1>2, <2>1, AllNaturals
  <1>4. ASSUME NEW s \in SUBSET S
        PROVE  s \in Q
    BY <1>3, SubsetSize
  <1>5. QED
    BY <1>4
-------------------------------------------------------------------------------
\* The recursion has a solution.
LEMMA SumFcnDef ==
    ASSUME NEW f, NEW S, IsFiniteSet(S), IntegersOn(f, S)
    PROVE  \A s \in SUBSET S : SumFcn(f, S)[s] = SumStep(f, SumFcn(f, S), s)
  <1> DEFINE Upto(n, g) == \A s \in SUBSET S :
                             Cardinality(s) <= n => g[s] = SumStep(f, g, s)
             T == {n \in Nat : \E g \in [SUBSET S -> Int] : Upto(n, g)}
  <1>1. 0 \in T
    <2> DEFINE g == [s \in SUBSET S |-> 0]
    <2>1. g \in [SUBSET S -> Int]
      OBVIOUS
    <2>2. ASSUME NEW s \in SUBSET S, Cardinality(s) <= 0
          PROVE  g[s] = SumStep(f, g, s)
      <3>1. s = {}
        BY <2>2, SubsetSize
      <3>2. QED
        BY <3>1 DEF SumStep
    <2> HIDE DEF g
    <2>3. QED
      BY <2>1, <2>2
  <1>2. ASSUME NEW n \in T
        PROVE  n + 1 \in T
    <2>1. PICK g \in [SUBSET S -> Int] : Upto(n, g)
      OBVIOUS
    <2> DEFINE h == [s \in SUBSET S |-> SumStep(f, g, s)]
    <2>2. ASSUME NEW s \in SUBSET S, s # {}
          PROVE  /\ Chosen(s) \in s
                 /\ s \ {Chosen(s)} \in SUBSET S
                 /\ Cardinality(s \ {Chosen(s)}) = Cardinality(s) - 1
                 /\ f[Chosen(s)] \in Int
      BY <2>2, SubsetSize DEF IntegersOn
    <2>3. h \in [SUBSET S -> Int]
      <3>1. ASSUME NEW s \in SUBSET S
            PROVE  SumStep(f, g, s) \in Int
        <4>1. CASE s = {}
          BY <4>1 DEF SumStep
        <4>2. CASE s # {}
          <5>1. PICK c : c = Chosen(s)
            OBVIOUS
          <5>2. f[c] \in Int /\ g[s \ {c}] \in Int
            BY <2>2, <4>2, <5>1
          <5>3. SumStep(f, g, s) = f[c] + g[s \ {c}]
            BY <4>2, <5>1, Zenon DEF SumStep
          <5>4. QED
            BY <5>2, <5>3
        <4>3. QED
          BY <4>1, <4>2
      <3>2. QED
        BY <3>1
    <2>4. ASSUME NEW s \in SUBSET S, Cardinality(s) <= n + 1
          PROVE  h[s] = SumStep(f, h, s)
      <3>1. CASE s = {}
        BY <3>1 DEF SumStep
      <3>2. CASE s # {}
        <4> DEFINE r == s \ {Chosen(s)}
        <4>1. r \in SUBSET S /\ Cardinality(r) <= n
          BY <2>2, <2>4, <3>2, SubsetSize
        <4> HIDE DEF r
        <4>2. g[r] = h[r]
          BY <2>1, <4>1
        <4>3. h[s] = f[Chosen(s)] + g[r]
          BY <3>2 DEF SumStep, r
        <4>4. SumStep(f, h, s) = f[Chosen(s)] + h[r]
          BY <3>2, Zenon DEF SumStep, r
        <4>5. QED
          BY <4>2, <4>3, <4>4
      <3>3. QED
        BY <3>1, <3>2
    <2> HIDE DEF h
    <2>5. QED
      BY <2>3, <2>4
  <1>3. T = Nat
    <2> HIDE DEF T
    <2>1. T \in SUBSET Nat
      BY DEF T
    <2>2. QED
      BY <1>1, <1>2, <2>1, AllNaturals
  <1>4. PICK g \in [SUBSET S -> Int] : Upto(Cardinality(S), g)
    BY <1>3, SubsetSize
  <1>5. \A s \in SUBSET S : g[s] = SumStep(f, g, s)
    BY <1>4, SubsetSize
  <1>6. g = [s \in SUBSET S |-> SumStep(f, g, s)]
    BY <1>5
  <1>7. SumFcn(f, S) = [s \in SUBSET S |-> SumStep(f, SumFcn(f, S), s)]
    BY <1>6, Zenon DEF SumFcn
  <1>8. QED
    BY <1>7, Zenon

\* The fold may take any element first.
LEMMA AnyFirst ==
    ASSUME NEW f, NEW S, IsFiniteSet(S), IntegersOn(f, S)
    PROVE  \A s \in SUBSET S :
             /\ SumFcn(f, S)[s] \in Int
             /\ \A x \in s : SumFcn(f, S)[s] = f[x] + SumFcn(f, S)[s \ {x}]
  <1> DEFINE F == SumFcn(f, S)
             Free(s) == /\ F[s] \in Int
                        /\ \A x \in s : /\ F[s \ {x}] \in Int
                                        /\ F[s] = f[x] + F[s \ {x}]
             Q == {s \in SUBSET S : Free(s)}
  <1>1. \A s \in SUBSET S : F[s] = SumStep(f, F, s)
    BY SumFcnDef
  <1> HIDE DEF F
  <1>2. {} \in Q
    <2>1. F[{}] = 0
      BY <1>1, Zenon DEF SumStep
    <2>2. QED
      BY <2>1
  <1>3. ASSUME NEW s \in SUBSET S, s # {}, \A x \in s : s \ {x} \in Q
        PROVE  s \in Q
    <2>1. PICK c \in s : c = Chosen(s)
      BY <1>3, SubsetSize
    <2>2. F[s] = f[c] + F[s \ {c}]
      BY <1>1, <1>3, <2>1 DEF SumStep
    <2>3. \A x \in s : f[x] \in Int /\ Free(s \ {x})
      BY <1>3 DEF IntegersOn
    <2>4. F[s] \in Int /\ \A x \in s : F[s \ {x}] \in Int
      <3>1. \A x \in s : F[s \ {x}] \in Int
        BY <2>3
      <3>2. F[s \ {c}] \in Int /\ f[c] \in Int
        BY <2>3, <3>1
      <3>3. F[s] \in Int
        BY <2>2, <3>2
      <3>4. QED
        BY <3>1, <3>3
    <2>5. ASSUME NEW x \in s, x # c
          PROVE  F[s] = f[x] + F[s \ {x}]
      <3>1. F[s \ {c}] = f[x] + F[(s \ {c}) \ {x}]
        BY <2>3, <2>5
      <3>2. F[s \ {x}] = f[c] + F[(s \ {x}) \ {c}]
        BY <2>3, <2>5
      <3>3. (s \ {x}) \ {c} = (s \ {c}) \ {x}
        OBVIOUS
      <3>4. PICK t : t = (s \ {x}) \ {c}
        OBVIOUS
      <3>5. F[s \ {x}] = f[c] + F[t] /\ F[t] \in Int
        BY <2>3, <2>5, <3>4
      <3>6. F[s \ {c}] = f[x] + F[t]
        BY <3>1, <3>3, <3>4
      <3>7. f[c] \in Int /\ f[x] \in Int
        BY <2>3
      <3>8. QED
        BY <2>2, <3>5, <3>6, <3>7
    <2>6. Free(s)
      <3>1. \A x \in s : F[s] = f[x] + F[s \ {x}]
        BY <2>2, <2>5
      <3>2. QED
        BY <2>4, <3>1
    <2>7. QED
      BY <2>6
  <1>4. Q = SUBSET S
    <2> HIDE DEF Q
    <2>1. Q \in SUBSET SUBSET S
      BY DEF Q
    <2>2. QED
      BY <1>2, <1>3, <2>1, SubsetInduction
  <1>5. QED
    BY <1>4 DEF F

\* The sum of the part of a set depends on the amounts of that part only.
LEMMA SameSums ==
    ASSUME NEW f, NEW S, IsFiniteSet(S), IntegersOn(f, S),
           NEW g, NEW S2, IsFiniteSet(S2), IntegersOn(g, S2),
           S \subseteq S2, \A i \in S : g[i] = f[i]
    PROVE  \A s \in SUBSET S : SumFcn(g, S2)[s] = SumFcn(f, S)[s]
  <1> DEFINE F == SumFcn(f, S)
             G == SumFcn(g, S2)
             Q == {s \in SUBSET S : G[s] = F[s]}
  <1>1. /\ \A s \in SUBSET S : F[s] = SumStep(f, F, s)
        /\ \A s \in SUBSET S2 : G[s] = SumStep(g, G, s)
    BY SumFcnDef
  <1> HIDE DEF F, G
  <1>2. {} \in Q
    BY <1>1 DEF SumStep
  <1>3. ASSUME NEW s \in SUBSET S, s # {}, \A x \in s : s \ {x} \in Q
        PROVE  s \in Q
    <2>1. PICK c \in s : c = Chosen(s)
      BY <1>3, SubsetSize
    <2>2. F[s] = f[c] + F[s \ {c}] /\ G[s] = g[c] + G[s \ {c}]
      BY <1>1, <1>3, <2>1 DEF SumStep
    <2>3. QED
      BY <1>3, <2>2
  <1>4. Q = SUBSET S
    <2> HIDE DEF Q
    <2>1. Q \in SUBSET SUBSET S
      BY DEF Q
    <2>2. QED
      BY <1>2, <1>3, <2>1, SubsetInduction
  <1>5. QED
    BY <1>4 DEF F, G
-------------------------------------------------------------------------------
(* Sums on finite sets.                                                     *)

\* Nothing sums to 0, and a sum of integers is the value of any one element
\* and the sum of the others.
LEMMA SumOnStep ==
    ASSUME NEW f, NEW S, IsFiniteSet(S), IntegersOn(f, S)
    PROVE  /\ SumFunctionOnSet(f, {}) = 0
           /\ SumFunctionOnSet(f, S) \in Int
           /\ \A x \in S :
                /\ f[x] \in Int /\ SumFunctionOnSet(f, S \ {x}) \in Int
                /\ SumFunctionOnSet(f, S) = f[x] + SumFunctionOnSet(f, S \ {x})
  <1>1. SumFunctionOnSet(f, {}) = 0
    <2>1. IsFiniteSet({}) /\ IntegersOn(f, {})
      BY FS_EmptySet DEF IntegersOn
    <2>2. SumFcn(f, {})[{}] = SumStep(f, SumFcn(f, {}), {})
      BY <2>1, SumFcnDef
    <2>3. SumFcn(f, {})[{}] = 0
      BY <2>2, Zenon DEF SumStep
    <2>4. QED
      BY <2>3, SumOnDef
  <1>2. SumFunctionOnSet(f, S) \in Int
    BY SumOnDef, AnyFirst
  <1>3. ASSUME NEW x \in S
        PROVE  /\ f[x] \in Int /\ SumFunctionOnSet(f, S \ {x}) \in Int
               /\ SumFunctionOnSet(f, S) = f[x] + SumFunctionOnSet(f, S \ {x})
    <2> DEFINE r == S \ {x}
    <2>1. IsFiniteSet(r) /\ IntegersOn(f, r) /\ r \in SUBSET S /\ f[x] \in Int
      BY FS_RemoveElement DEF IntegersOn
    <2>2. SumFcn(f, S)[S] = f[x] + SumFcn(f, S)[r]
      BY AnyFirst
    <2> HIDE DEF r
    <2>3. SumFcn(f, S)[r] = SumFcn(f, r)[r]
      BY <2>1, SameSums
    <2>4. /\ SumFunctionOnSet(f, S) = SumFcn(f, S)[S]
          /\ SumFunctionOnSet(f, r) = SumFcn(f, r)[r]
      BY SumOnDef
    <2>5. SumFunctionOnSet(f, r) \in Int
      BY <2>1, <2>4, AnyFirst
    <2>6. SumFunctionOnSet(f, S) = f[x] + SumFunctionOnSet(f, r)
      BY <2>2, <2>3, <2>4
    <2>7. QED
      BY <2>1, <2>5, <2>6 DEF r
  <1>4. QED
    BY <1>1, <1>2, <1>3

\* A sum depends on the values on the set only.
LEMMA SumOnSame ==
    ASSUME NEW f, NEW S, IsFiniteSet(S), IntegersOn(f, S),
           NEW g, \A x \in S : g[x] = f[x]
    PROVE  SumFunctionOnSet(g, S) = SumFunctionOnSet(f, S)
  <1>1. IntegersOn(g, S)
    BY DEF IntegersOn
  <1>2. SumFcn(g, S)[S] = SumFcn(f, S)[S]
    BY <1>1, SameSums
  <1>3. QED
    BY <1>2, SumOnDef

\* One element has its own value.
LEMMA SumOnOne ==
    ASSUME NEW f, NEW x, f[x] \in Int
    PROVE  SumFunctionOnSet(f, {x}) = f[x]
  <1>1. IsFiniteSet({x}) /\ IntegersOn(f, {x}) /\ {x} \ {x} = {}
    BY FS_Singleton DEF IntegersOn
  <1>2. SumFunctionOnSet(f, {x}) = f[x] + SumFunctionOnSet(f, {x} \ {x})
    BY <1>1, SumOnStep
  <1>3. SumFunctionOnSet(f, {}) = 0
    BY <1>1, SumOnStep
  <1>4. SumFunctionOnSet(f, {x}) = f[x] + 0
    BY <1>1, <1>2, <1>3
  <1>5. QED
    BY <1>4

\* Sums add up element by element.
LEMMA SumOnPlus ==
    ASSUME NEW S, IsFiniteSet(S), NEW f, IntegersOn(f, S), NEW g, IntegersOn(g, S),
           NEW h, \A x \in S : h[x] = f[x] + g[x]
    PROVE  SumFunctionOnSet(h, S) = SumFunctionOnSet(f, S) + SumFunctionOnSet(g, S)
  <1> DEFINE A(s) == SumFunctionOnSet(f, s)
             B(s) == SumFunctionOnSet(g, s)
             C(s) == SumFunctionOnSet(h, s)
             Q == {s \in SUBSET S : C(s) = A(s) + B(s)}
  <1>1. IntegersOn(h, S)
    BY DEF IntegersOn
  <1>2. ASSUME NEW s \in SUBSET S
        PROVE  /\ A({}) = 0 /\ B({}) = 0 /\ C({}) = 0
               /\ \A x \in s :
                    /\ f[x] \in Int /\ g[x] \in Int /\ h[x] = f[x] + g[x]
                    /\ A(s \ {x}) \in Int /\ B(s \ {x}) \in Int
                    /\ A(s) = f[x] + A(s \ {x})
                    /\ B(s) = g[x] + B(s \ {x})
                    /\ C(s) = h[x] + C(s \ {x})
    <2>1. IsFiniteSet(s) /\ IntegersOn(f, s) /\ IntegersOn(g, s) /\ IntegersOn(h, s)
      BY <1>1, FS_Subset DEF IntegersOn
    <2>2. QED
      BY <2>1, SumOnStep
  <1> HIDE DEF A, B, C
  <1>3. {} \in Q
    BY <1>2
  <1>4. ASSUME NEW s \in SUBSET S, s # {}, \A x \in s : s \ {x} \in Q
        PROVE  s \in Q
    <2>1. PICK x \in s : TRUE
      BY <1>4
    <2>2. PICK a, b : a = A(s \ {x}) /\ b = B(s \ {x})
      OBVIOUS
    <2>3. a \in Int /\ b \in Int /\ f[x] \in Int /\ g[x] \in Int
      BY <1>2, <2>1, <2>2
    <2>4. C(s \ {x}) = a + b
      BY <1>4, <2>1, <2>2
    <2>5. A(s) = f[x] + a /\ B(s) = g[x] + b /\ C(s) = (f[x] + g[x]) + (a + b)
      BY <1>2, <2>1, <2>2, <2>4
    <2>6. C(s) = A(s) + B(s)
      BY <2>3, <2>5
    <2>7. QED
      BY <2>6
  <1>5. Q = SUBSET S
    <2>1. Q \in SUBSET SUBSET S
      OBVIOUS
    <2> HIDE DEF Q
    <2>2. QED
      BY <1>3, <1>4, <2>1, SubsetInduction
  <1>6. QED
    BY <1>5 DEF A, B, C
\* Zeroes sum to zero.
LEMMA SumOnZero ==
    ASSUME NEW S, IsFiniteSet(S), NEW f, \A x \in S : f[x] = 0
    PROVE  SumFunctionOnSet(f, S) = 0
  <1>1. IntegersOn(f, S) /\ \A x \in S : f[x] = f[x] + f[x]
    BY DEF IntegersOn
  <1>2. SumFunctionOnSet(f, S) = SumFunctionOnSet(f, S) + SumFunctionOnSet(f, S)
    BY <1>1, SumOnPlus
  <1>3. SumFunctionOnSet(f, S) \in Int
    BY <1>1, SumOnStep
  <1>4. PICK n : n = SumFunctionOnSet(f, S)
    OBVIOUS
  <1>5. n \in Int /\ n = n + n
    BY <1>2, <1>3, <1>4
  <1>6. n = 0
    BY <1>5
  <1>7. QED
    BY <1>4, <1>6

\* What differs element by element differs by the sum of the differences.
LEMMA SumOnMinus ==
    ASSUME NEW S, IsFiniteSet(S), NEW f, IntegersOn(f, S), NEW g, IntegersOn(g, S),
           NEW h, \A x \in S : h[x] = f[x] - g[x]
    PROVE  SumFunctionOnSet(h, S) = SumFunctionOnSet(f, S) - SumFunctionOnSet(g, S)
  <1>1. IntegersOn(h, S) /\ \A x \in S : f[x] = h[x] + g[x]
    BY DEF IntegersOn
  <1>2. SumFunctionOnSet(f, S) = SumFunctionOnSet(h, S) + SumFunctionOnSet(g, S)
    BY <1>1, SumOnPlus
  <1>3. SumFunctionOnSet(h, S) \in Int /\ SumFunctionOnSet(g, S) \in Int
    BY <1>1, SumOnStep
  <1>4. QED
    BY <1>2, <1>3

\* The opposite values have the opposite sum.
LEMMA SumOnOpposite ==
    ASSUME NEW S, IsFiniteSet(S), NEW f, IntegersOn(f, S),
           NEW h, \A x \in S : h[x] = -f[x]
    PROVE  SumFunctionOnSet(h, S) = -SumFunctionOnSet(f, S)
  <1> DEFINE z == [x \in S |-> 0]
  <1>1. \A x \in S : z[x] = 0
    OBVIOUS
  <1> HIDE DEF z
  <1>2. IntegersOn(h, S) /\ \A x \in S : z[x] = h[x] + f[x]
    BY <1>1 DEF IntegersOn
  <1>3. SumFunctionOnSet(z, S) = SumFunctionOnSet(h, S) + SumFunctionOnSet(f, S)
    BY <1>2, SumOnPlus
  <1>4. SumFunctionOnSet(z, S) = 0
    BY <1>1, SumOnZero
  <1>5. SumFunctionOnSet(h, S) \in Int /\ SumFunctionOnSet(f, S) \in Int
    BY <1>2, SumOnStep
  <1>6. QED
    BY <1>3, <1>4, <1>5

\* Amounts of whole cents, which are multiples of ten thousandths, sum to whole
\* cents.
LEMMA SumOnTens ==
    ASSUME NEW S, IsFiniteSet(S), NEW f, NEW g, IntegersOn(g, S),
           \A x \in S : f[x] = 10 * g[x]
    PROVE  SumFunctionOnSet(f, S) = 10 * SumFunctionOnSet(g, S)
  <1> DEFINE A(s) == SumFunctionOnSet(f, s)
             B(s) == SumFunctionOnSet(g, s)
             Q == {s \in SUBSET S : A(s) = 10 * B(s)}
  <1>1. IntegersOn(f, S)
    BY DEF IntegersOn
  <1>2. ASSUME NEW s \in SUBSET S
        PROVE  /\ A({}) = 0 /\ B({}) = 0
               /\ \A x \in s : /\ g[x] \in Int /\ f[x] = 10 * g[x]
                               /\ B(s \ {x}) \in Int
                               /\ A(s) = f[x] + A(s \ {x})
                               /\ B(s) = g[x] + B(s \ {x})
    <2>1. IsFiniteSet(s) /\ IntegersOn(f, s) /\ IntegersOn(g, s)
      BY <1>1, FS_Subset DEF IntegersOn
    <2>2. QED
      BY <2>1, SumOnStep
  <1> HIDE DEF A, B
  <1>3. {} \in Q
    BY <1>2
  <1>4. ASSUME NEW s \in SUBSET S, s # {}, \A x \in s : s \ {x} \in Q
        PROVE  s \in Q
    <2>1. PICK x \in s : TRUE
      BY <1>4
    <2>2. PICK b : b = B(s \ {x})
      OBVIOUS
    <2>3. b \in Int /\ g[x] \in Int /\ A(s \ {x}) = 10 * b
      BY <1>2, <1>4, <2>1, <2>2
    <2>4. A(s) = 10 * g[x] + 10 * b /\ B(s) = g[x] + b
      BY <1>2, <2>1, <2>2, <2>3
    <2>5. A(s) = 10 * B(s)
      BY <2>3, <2>4
    <2>6. QED
      BY <2>5
  <1>5. Q = SUBSET S
    <2>1. Q \in SUBSET SUBSET S
      OBVIOUS
    <2> HIDE DEF Q
    <2>2. QED
      BY <1>3, <1>4, <2>1, SubsetInduction
  <1>6. QED
    BY <1>5 DEF A, B

\* Amounts that are not smaller have no smaller sum.
LEMMA SumOnLeq ==
    ASSUME NEW S, IsFiniteSet(S), NEW f, IntegersOn(f, S), NEW g, IntegersOn(g, S),
           \A x \in S : f[x] <= g[x]
    PROVE  SumFunctionOnSet(f, S) <= SumFunctionOnSet(g, S)
  <1> DEFINE A(s) == SumFunctionOnSet(f, s)
             B(s) == SumFunctionOnSet(g, s)
             Q == {s \in SUBSET S : A(s) <= B(s)}
  <1>1. ASSUME NEW s \in SUBSET S
        PROVE  /\ A({}) = 0 /\ B({}) = 0
               /\ \A x \in s : /\ f[x] \in Int /\ g[x] \in Int /\ f[x] <= g[x]
                               /\ A(s \ {x}) \in Int /\ B(s \ {x}) \in Int
                               /\ A(s) = f[x] + A(s \ {x})
                               /\ B(s) = g[x] + B(s \ {x})
    <2>1. IsFiniteSet(s) /\ IntegersOn(f, s) /\ IntegersOn(g, s)
      BY FS_Subset DEF IntegersOn
    <2>2. QED
      BY <2>1, SumOnStep
  <1> HIDE DEF A, B
  <1>2. {} \in Q
    BY <1>1
  <1>3. ASSUME NEW s \in SUBSET S, s # {}, \A x \in s : s \ {x} \in Q
        PROVE  s \in Q
    <2>1. PICK x \in s : TRUE
      BY <1>3
    <2>2. A(s \ {x}) <= B(s \ {x})
      BY <1>3, <2>1
    <2>3. A(s) <= B(s)
      BY <1>1, <2>1, <2>2
    <2>4. QED
      BY <2>3
  <1>4. Q = SUBSET S
    <2>1. Q \in SUBSET SUBSET S
      OBVIOUS
    <2> HIDE DEF Q
    <2>2. QED
      BY <1>2, <1>3, <2>1, SubsetInduction
  <1>5. QED
    BY <1>4 DEF A, B

\* The elements that k puts in group c.
GroupOf(S, k, c) == {x \in S : k[x] = c}

\* A sum may be taken group by group: T gives every group the sum of its own.
LEMMA SumByGroup ==
    ASSUME NEW S, IsFiniteSet(S), NEW f, IntegersOn(f, S),
           NEW C, IsFiniteSet(C), NEW k, \A x \in S : k[x] \in C,
           NEW T, \A c \in C : T[c] = SumFunctionOnSet(f, GroupOf(S, k, c))
    PROVE  SumFunctionOnSet(T, C) = SumFunctionOnSet(f, S)
  <1> DEFINE A(s) == SumFunctionOnSet(f, s)
             Of(s, c) == {x \in s : k[x] = c}
             G(s) == [c \in C |-> A(Of(s, c))]
             Q == {s \in SUBSET S : SumFunctionOnSet(G(s), C) = A(s)}
  <1>1. ASSUME NEW s \in SUBSET S
        PROVE  /\ A({}) = 0 /\ A(s) \in Int
               /\ \A x \in s : /\ f[x] \in Int /\ A(s \ {x}) \in Int
                               /\ A(s) = f[x] + A(s \ {x})
    <2>1. IsFiniteSet(s) /\ IntegersOn(f, s)
      BY FS_Subset DEF IntegersOn
    <2>2. QED
      BY <2>1, SumOnStep
  <1> HIDE DEF A
  <1>2. ASSUME NEW s \in SUBSET S
        PROVE  /\ IntegersOn(G(s), C)
               /\ \A c \in C : G(s)[c] = A(Of(s, c))
    <2>1. \A c \in C : G(s)[c] = A(Of(s, c)) /\ Of(s, c) \in SUBSET S
      OBVIOUS
    <2>2. \A c \in C : A(Of(s, c)) \in Int
      BY <1>1, <2>1
    <2>3. QED
      BY <2>1, <2>2 DEF IntegersOn
  <1>3. {} \in Q
    <2>1. \A c \in C : G({})[c] = 0
      <3>1. \A c \in C : Of({}, c) = {}
        OBVIOUS
      <3>2. QED
        BY <1>1, <1>2, <3>1
    <2>2. SumFunctionOnSet(G({}), C) = 0
      BY <2>1, SumOnZero
    <2>3. QED
      BY <1>1, <2>2
  <1>4. ASSUME NEW s \in SUBSET S, s # {}, \A x \in s : s \ {x} \in Q
        PROVE  s \in Q
    <2>1. PICK x \in s : TRUE
      BY <1>4
    <2>2. PICK r : r = s \ {x}
      OBVIOUS
    <2>3. PICK d : d = k[x]
      OBVIOUS
    <2>4. d \in C /\ r \in SUBSET S /\ SumFunctionOnSet(G(r), C) = A(r)
      BY <1>4, <2>1, <2>2, <2>3
    <2>5. /\ Of(r, d) = Of(s, d) \ {x} /\ x \in Of(s, d)
          /\ \A c \in C \ {d} : Of(s, c) = Of(r, c)
      BY <2>1, <2>2, <2>3
    <2>6. /\ G(s)[d] = f[x] + G(r)[d]
          /\ \A c \in C \ {d} : G(s)[c] = G(r)[c]
      <3>1. Of(s, d) \in SUBSET S
        OBVIOUS
      <3>2. A(Of(s, d)) = f[x] + A(Of(s, d) \ {x})
        BY <1>1, <2>5, <3>1
      <3>3. G(s)[d] = A(Of(s, d)) /\ G(r)[d] = A(Of(r, d))
        BY <2>4
      <3>4. G(s)[d] = f[x] + G(r)[d]
        BY <2>5, <3>2, <3>3
      <3>5. ASSUME NEW c \in C \ {d}
            PROVE  G(s)[c] = G(r)[c]
        BY <2>5
      <3>6. QED
        BY <3>4, <3>5
    <2>7. PICK gs, gr : gs = G(s) /\ gr = G(r)
      OBVIOUS
    <2>8. IntegersOn(gs, C) /\ IntegersOn(gr, C)
      BY <1>2, <2>4, <2>7
    <2>9. PICK D : D = C \ {d}
      OBVIOUS
    <2>10. /\ IsFiniteSet(D) /\ IntegersOn(gr, D)
           /\ \A c \in D : gs[c] = gr[c]
      BY <2>6, <2>7, <2>8, <2>9, FS_RemoveElement DEF IntegersOn
    <2>11. SumFunctionOnSet(gs, D) = SumFunctionOnSet(gr, D)
      BY <2>10, SumOnSame
    <2>12. /\ SumFunctionOnSet(gs, C) = gs[d] + SumFunctionOnSet(gs, D)
           /\ SumFunctionOnSet(gr, C) = gr[d] + SumFunctionOnSet(gr, D)
           /\ gr[d] \in Int /\ SumFunctionOnSet(gr, D) \in Int
      <3>1. ASSUME NEW e, IntegersOn(e, C)
            PROVE  /\ SumFunctionOnSet(e, C) = e[d] + SumFunctionOnSet(e, D)
                   /\ e[d] \in Int /\ SumFunctionOnSet(e, D) \in Int
        <4>1. /\ SumFunctionOnSet(e, C) = e[d] + SumFunctionOnSet(e, C \ {d})
              /\ e[d] \in Int /\ SumFunctionOnSet(e, C \ {d}) \in Int
          BY <2>4, <3>1, SumOnStep
        <4>2. QED
          BY <2>9, <4>1, Zenon
      <3>2. QED
        BY <2>8, <3>1
    <2>13. /\ gs[d] = f[x] + gr[d] /\ SumFunctionOnSet(gr, C) = A(r)
           /\ f[x] \in Int /\ A(s) = f[x] + A(r)
      BY <1>1, <2>1, <2>2, <2>4, <2>6, <2>7
    <2>14. SumFunctionOnSet(gs, C) = A(s)
      BY <2>11, <2>12, <2>13
    <2>15. QED
      BY <2>7, <2>14
  <1>5. Q = SUBSET S
    <2>1. Q \in SUBSET SUBSET S
      OBVIOUS
    <2> HIDE DEF Q
    <2>2. QED
      BY <1>3, <1>4, <2>1, SubsetInduction
  <1>6. SumFunctionOnSet(G(S), C) = A(S)
    <2>1. S \in Q
      BY <1>5
    <2>2. QED
      BY <2>1
  <1>7. \A c \in C : T[c] = G(S)[c]
    BY DEF A, GroupOf
  <1>8. PICK g : g = G(S)
    OBVIOUS
  <1>9. IntegersOn(g, C) /\ \A c \in C : T[c] = g[c]
    BY <1>2, <1>7, <1>8
  <1>10. SumFunctionOnSet(T, C) = SumFunctionOnSet(g, C)
    BY <1>9, SumOnSame
  <1>11. QED
    BY <1>6, <1>8, <1>10 DEF A

\* Renaming the elements changes no sum.
LEMMA SumOnImage ==
    ASSUME NEW S, IsFiniteSet(S), NEW C, IsFiniteSet(C), NEW b, NEW f, NEW g,
           \A x \in S : b[x] \in C /\ f[x] = g[b[x]],
           \A x, y \in S : b[x] = b[y] => x = y,
           \A c \in C : g[c] \in Int /\ \E x \in S : b[x] = c
    PROVE  SumFunctionOnSet(f, S) = SumFunctionOnSet(g, C)
  <1>1. IntegersOn(f, S)
    BY DEF IntegersOn
  <1>2. ASSUME NEW c \in C
        PROVE  g[c] = SumFunctionOnSet(f, GroupOf(S, b, c))
    <2>1. PICK x \in S : b[x] = c
      OBVIOUS
    <2>2. GroupOf(S, b, c) = {x}
      BY <2>1 DEF GroupOf
    <2>3. f[x] = g[c] /\ f[x] \in Int
      BY <2>1
    <2>4. SumFunctionOnSet(f, {x}) = f[x]
      BY <2>3, SumOnOne
    <2>5. QED
      BY <2>2, <2>3, <2>4
  <1>3. \A x \in S : b[x] \in C
    OBVIOUS
  <1>4. SumFunctionOnSet(g, C) = SumFunctionOnSet(f, S)
    BY <1>1, <1>2, <1>3, SumByGroup, SMT
  <1>5. QED
    BY <1>4

\* One element more.
LEMMA SumGrows ==
    ASSUME NEW S, IsFiniteSet(S), NEW f, IntegersOn(f, S), NEW x, x \notin S, NEW T, T = S \union {x},
           NEW g, g[x] \in Int, \A y \in S : g[y] = f[y]
    PROVE  /\ SumFunctionOnSet(f, S) \in Int
           /\ SumFunctionOnSet(g, T) = SumFunctionOnSet(f, S) + g[x]
  <1>1. IsFiniteSet(T) /\ IntegersOn(g, T) /\ x \in T /\ T \ {x} = S
    BY FS_AddElement DEF IntegersOn
  <1>2. /\ SumFunctionOnSet(g, T) = g[x] + SumFunctionOnSet(g, S)
        /\ SumFunctionOnSet(g, S) \in Int
    BY <1>1, SumOnStep
  <1>3. SumFunctionOnSet(g, S) = SumFunctionOnSet(f, S)
    BY SumOnSame
  <1>4. QED
    BY <1>2, <1>3

\* What is zero adds nothing.
LEMMA SumOnSupport ==
    ASSUME NEW S, IsFiniteSet(S), NEW T, T \subseteq S, NEW f, IntegersOn(f, T), NEW g,
           \A x \in S : g[x] = IF x \in T THEN f[x] ELSE 0
    PROVE  SumFunctionOnSet(g, S) = SumFunctionOnSet(f, T)
  <1>1. PICK k : k = [x \in S |-> IF x \in T THEN 1 ELSE 2]
    OBVIOUS
  <1>2. PICK rest : rest = S \ T
    OBVIOUS
  <1>3. PICK C : C = 1 .. 2
    OBVIOUS
  <1>4. GroupOf(S, k, 1) = T /\ GroupOf(S, k, 2) = rest
    BY <1>1, <1>2 DEF GroupOf
  <1>5. IsFiniteSet(T) /\ IsFiniteSet(rest) /\ IsFiniteSet(C) /\ IntegersOn(g, S)
    <2>1. IsFiniteSet(C)
      <3>1. 1 \in Int /\ 2 \in Int
        OBVIOUS
      <3>2. IsFiniteSet(1 .. 2)
        BY <3>1, FS_Interval
      <3>3. QED
        BY <1>3, <3>2
    <2>2. rest \subseteq S
      BY <1>2
    <2>3. IntegersOn(g, S)
      BY DEF IntegersOn
    <2>4. QED
      BY <2>1, <2>2, <2>3, FS_Subset
  <1>6. SumFunctionOnSet(g, T) = SumFunctionOnSet(f, T)
    BY <1>5, SumOnSame
  <1>7. SumFunctionOnSet(g, rest) = 0
    BY <1>2, <1>5, SumOnZero
  <1>8. SumFunctionOnSet(f, T) \in Int
    BY <1>5, SumOnStep
  <1>9. PICK sums : sums = [c \in C |-> SumFunctionOnSet(g, GroupOf(S, k, c))]
    OBVIOUS
  <1>10. (\A x \in S : k[x] \in C) /\ C = {1, 2}
    BY <1>1, <1>3
  <1>11. SumFunctionOnSet(sums, C) = SumFunctionOnSet(g, S)
    BY <1>5, <1>9, <1>10, SumByGroup
  <1>12. sums[1] = SumFunctionOnSet(f, T) /\ sums[2] = 0
    BY <1>4, <1>6, <1>7, <1>9, <1>10
  <1>13. SumFunctionOnSet(sums, C) = sums[1] + 0
    <2>1. SumFunctionOnSet(sums, {1}) = sums[1]
      BY <1>8, <1>12, SumOnOne
    <2>2. IntegersOn(sums, C) /\ 2 \in C /\ C \ {2} = {1}
      BY <1>8, <1>10, <1>12 DEF IntegersOn
    <2>3. SumFunctionOnSet(sums, C) = sums[2] + SumFunctionOnSet(sums, C \ {2})
      BY <1>5, <2>2, SumOnStep
    <2>4. QED
      BY <1>8, <1>12, <2>1, <2>2, <2>3
  <1>14. QED
    BY <1>8, <1>11, <1>12, <1>13

\* One value for all.
LEMMA SumOnConstant ==
    ASSUME NEW S, IsFiniteSet(S), NEW d \in Int, NEW f, \A x \in S : f[x] = d
    PROVE  SumFunctionOnSet(f, S) = d * Cardinality(S)
  <1> DEFINE A(s) == SumFunctionOnSet(f, s)
             Q == {s \in SUBSET S : A(s) = d * Cardinality(s)}
  <1>1. ASSUME NEW s \in SUBSET S
        PROVE  /\ A({}) = 0 /\ Cardinality({}) = 0
               /\ \A x \in s : /\ f[x] = d /\ A(s \ {x}) \in Int
                               /\ A(s) = f[x] + A(s \ {x})
                               /\ Cardinality(s \ {x}) \in Nat
                               /\ Cardinality(s) = Cardinality(s \ {x}) + 1
    <2>1. IsFiniteSet(s) /\ IntegersOn(f, s)
      BY FS_Subset DEF IntegersOn
    <2>2. ASSUME NEW x \in s
          PROVE  Cardinality(s \ {x}) \in Nat /\ Cardinality(s) = Cardinality(s \ {x}) + 1
      <3>1. IsFiniteSet(s \ {x}) /\ Cardinality(s \ {x}) = Cardinality(s) - 1
        BY <2>1, FS_RemoveElement
      <3>2. Cardinality(s) \in Nat /\ Cardinality(s \ {x}) \in Nat
        BY <2>1, <3>1, FS_CardinalityType
      <3>3. QED
        BY <3>1, <3>2
    <2>3. QED
      BY <2>1, <2>2, SumOnStep, FS_EmptySet
  <1> HIDE DEF A
  <1>2. {} \in Q
    BY <1>1
  <1>3. ASSUME NEW s \in SUBSET S, s # {}, \A x \in s : s \ {x} \in Q
        PROVE  s \in Q
    <2>1. PICK x \in s : TRUE
      BY <1>3
    <2>2. A(s \ {x}) = d * Cardinality(s \ {x})
      BY <1>3, <2>1
    <2>3. PICK n : n = Cardinality(s \ {x})
      OBVIOUS
    <2>4. n \in Nat /\ Cardinality(s) = n + 1 /\ A(s) = d + d * n
      BY <1>1, <2>1, <2>2, <2>3
    <2>5. d * (n + 1) = d + d * n
      BY <2>4
    <2>6. QED
      BY <2>4, <2>5
  <1>4. Q = SUBSET S
    <2>1. Q \in SUBSET SUBSET S
      OBVIOUS
    <2> HIDE DEF Q
    <2>2. QED
      BY <1>2, <1>3, <2>1, SubsetInduction
  <1>5. QED
    BY <1>4 DEF A
===============================================================================
