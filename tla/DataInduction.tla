---------------------------- MODULE DataInduction ----------------------------
(***************************************************************************)
(* Lemmas whose proofs are inductions over finite sets and over naturals,  *)
(* for the proofs of the other modules to cite: about SumFunctionOnSet,    *)
(* the sum of a function over a finite set, and about functions defined by *)
(* iterating a step.                                                       *)
(*                                                                         *)
(* Induction takes the form of a least counterexample: a set of finite sets*)
(* that is not empty has a member no proper subset of which is in it, and a*)
(* set of naturals that is not empty has a least member.                   *)
(***************************************************************************)
EXTENDS Functions, FiniteSetTheorems, TLAPS

\* The least counterexample.
LEMMA LeastSet ==
  ASSUME NEW S, IsFiniteSet(S), NEW Bad, Bad \subseteq SUBSET S, Bad # {}
  PROVE  \E T \in Bad : \A U \in Bad : U \subseteq T => U = T
  <1>1. IsWellFoundedOn(StrictSubsetOrdering(S), SUBSET S)
    BY FS_FiniteSubsetsOfFinite, FS_StrictSubsetOrderingWellFounded
  <1>2. PICK T \in Bad : \A U \in Bad : <<U, T>> \notin StrictSubsetOrdering(S)
    BY <1>1, WFMin
  <1>3. ASSUME NEW U \in Bad, U \subseteq T, U # T
        PROVE  FALSE
    <2>1. <<U, T>> \in (SUBSET S) \X (SUBSET S)
      OBVIOUS
    <2> QED BY <1>2, <1>3, <2>1 DEF StrictSubsetOrdering
  <1> QED BY <1>3

\* The same for naturals: the least one has the least interval below it.
LEMMA LeastNumber ==
  ASSUME NEW S, S \subseteq Nat, S # {}
  PROVE  \E n \in S : \A m \in S : n <= m
  <1>1. PICK k \in S : TRUE
    OBVIOUS
  <1> DEFINE Below == {0 .. m : m \in {i \in S : i <= k}}
  <1>2. IsFiniteSet(0 .. k)
    BY FS_Interval
  <1>3. Below \subseteq SUBSET (0 .. k) /\ Below # {}
    OBVIOUS
  <1>4. PICK T \in Below : \A U \in Below : U \subseteq T => U = T
    <2> DEFINE All == 0 .. k
    <2>1. IsFiniteSet(All) /\ Below \subseteq SUBSET All /\ Below # {}
      BY <1>2, <1>3
    <2> HIDE DEF Below, All
    <2> QED BY <2>1, LeastSet
  <1>5. PICK n \in S : n <= k /\ T = 0 .. n
    BY <1>4
  <1>6. ASSUME NEW m \in S, m < n
        PROVE  FALSE
    <2>1. (0 .. m) \in Below /\ 0 .. m \subseteq 0 .. n
      BY <1>5, <1>6
    <2>2. 0 .. m = 0 .. n
      <3> HIDE DEF Below
      <3> QED BY <2>1, <1>4, <1>5
    <2>3. n \in 0 .. m
      BY <2>2
    <2> QED BY <1>6, <2>3
  <1>7. \A m \in S : n <= m
    BY <1>6
  <1> QED BY <1>7

(***************************************************************************)
(* Iteration.                                                              *)
(***************************************************************************)

IsStep(D, step) == step \in [D \X Nat -> D]

\* What N rounds of a step reach, one after the other.
Reaches(D, first, step, N, f) ==
    f \in [0 .. N -> D] /\ f[0] = first /\ \A i \in 1 .. N : f[i] = step[<<f[i - 1], i>>]

\* A step can be iterated any number of times.
LEMMA Iterated ==
  ASSUME NEW D, NEW first, first \in D, NEW step, IsStep(D, step), NEW N \in Nat
  PROVE  \E f : Reaches(D, first, step, N, f)
  <1> USE DEF IsStep, Reaches
  <1> DEFINE Iterates(n, f) == Reaches(D, first, step, n, f)
             Bad == {n \in Nat : ~ \E f : Iterates(n, f)}
  <1> SUFFICES ASSUME Bad # {} PROVE FALSE
    OBVIOUS
  <1>1. PICK n \in Bad : \A m \in Bad : n <= m
    <2>1. Bad \subseteq Nat
      OBVIOUS
    <2> HIDE DEF Bad
    <2> QED BY <2>1, LeastNumber
  <1>2. n \in Nat /\ ~ \E f : Iterates(n, f)
    OBVIOUS
  <1>3. n # 0
    <2> SUFFICES ASSUME n = 0 PROVE FALSE
      OBVIOUS
    <2>1. Iterates(0, [i \in 0 .. 0 |-> first])
      OBVIOUS
    <2> QED BY <1>2, <2>1
  <1>4. n - 1 \in Nat /\ n - 1 \notin Bad
    <2>1. n - 1 \in Nat /\ ~(n <= n - 1)
      BY <1>2, <1>3
    <2> HIDE DEF Bad
    <2> QED BY <1>1, <2>1
  <1>5. PICK f : Iterates(n - 1, f)
    BY <1>4
  <1> DEFINE g == [i \in 0 .. n |-> IF i = n THEN step[<<f[n - 1], n>>] ELSE f[i]]
  <1>6. \A i \in 0 .. n : i # n => i \in 0 .. n - 1
    BY <1>2
  <1>7. step[<<f[n - 1], n>>] \in D
    BY <1>2, <1>4, <1>5
  <1>8. g \in [0 .. n -> D] /\ g[0] = first
    BY <1>2, <1>3, <1>5, <1>6, <1>7
  <1>9. ASSUME NEW i \in 1 .. n
        PROVE  g[i] = step[<<g[i - 1], i>>]
    <2>1. i - 1 \in 0 .. n /\ i - 1 # n /\ i \in 0 .. n
      BY <1>2
    <2>2. g[i - 1] = f[i - 1]
      BY <2>1
    <2>3. CASE i = n
      BY <2>1, <2>2, <2>3
    <2>4. CASE i # n
      <3>1. i \in 1 .. n - 1 /\ g[i] = f[i]
        BY <1>2, <2>1, <2>4
      <3> QED BY <1>5, <2>2, <3>1
    <2> QED BY <2>3, <2>4
  <1>10. Iterates(n, g)
    <2> HIDE DEF g
    <2> QED BY <1>8, <1>9
  <1> QED BY <1>2, <1>10

(***************************************************************************)
(* Sums.  A sum is defined by a recursive function over the subsets of the *)
(* set, which chooses the next element to add.  The lemmas say that there  *)
(* is such a function, that the choice does not matter, and what follows   *)
(* from that.                                                              *)
(***************************************************************************)

\* Sums of function f over the subsets of T.
SumsOver(f, T, g) ==
    g = [s \in SUBSET T |-> IF s = {} THEN 0
                            ELSE LET x == CHOOSE x \in s : TRUE IN f[x] + g[s \ {x}]]

\* The sum is one of those functions.
LEMMA Unfolded ==
  ASSUME NEW f, NEW S
  PROVE  SumFunctionOnSet(f, S) = (CHOOSE g : SumsOver(f, S, g))[S]
  BY DEF SumFunctionOnSet, FoldFunctionOnSet, MapThenFoldSet, SumsOver

\* Two of them agree where both are defined.
LEMMA SumsUnique ==
  ASSUME NEW f, NEW T, NEW U, IsFiniteSet(T), NEW g, NEW h, SumsOver(f, T, g), SumsOver(f, U, h),
         NEW s \in SUBSET T, s \in SUBSET U
  PROVE  g[s] = h[s]
  <1> DEFINE Bad == {u \in SUBSET T : u \in SUBSET U /\ g[u] # h[u]}
  <1>1. Bad = {}
    <2> SUFFICES ASSUME Bad # {} PROVE FALSE
      OBVIOUS
    <2>1. PICK u \in Bad : \A v \in Bad : v \subseteq u => v = u
      <3>1. Bad \subseteq SUBSET T
        OBVIOUS
      <3> HIDE DEF Bad
      <3> QED BY <3>1, LeastSet
    <2>2. /\ u \subseteq T /\ u \subseteq U /\ g[u] # h[u]
      OBVIOUS
    <2>3. u # {}
      BY <2>2 DEF SumsOver
    <2> DEFINE x == CHOOSE x \in u : TRUE
    <2>4. x \in u
      BY <2>3
    <2>5. u \ {x} \notin Bad
      BY <2>1, <2>4
    <2>6. g[u \ {x}] = h[u \ {x}]
      BY <2>2, <2>5
    <2>7. g[u] = f[x] + g[u \ {x}] /\ h[u] = f[x] + h[u \ {x}]
      <3>1. u \in SUBSET T /\ u \in SUBSET U
        BY <2>2
      <3> HIDE DEF Bad
      <3> QED BY <3>1, <2>3 DEF SumsOver
    <2> QED BY <2>2, <2>6, <2>7
  <1> QED BY <1>1

\* There are such sums.
LEMMA SumsExist ==
  ASSUME NEW f, NEW S, IsFiniteSet(S)
  PROVE  \E g : SumsOver(f, S, g)
  <1> DEFINE Bad == {T \in SUBSET S : ~ \E g : SumsOver(f, T, g)}
  <1> SUFFICES ASSUME Bad # {} PROVE FALSE
    OBVIOUS
  <1>1. PICK T \in Bad : \A U \in Bad : U \subseteq T => U = T
    <2>1. Bad \subseteq SUBSET S
      OBVIOUS
    <2> HIDE DEF Bad
    <2> QED BY <2>1, LeastSet
  <1> DEFINE sums(U) == CHOOSE g : SumsOver(f, U, g)
             value(s) == IF s = {} THEN 0
                         ELSE LET x == CHOOSE x \in s : TRUE IN f[x] + sums(s \ {x})[s \ {x}]
             g == [s \in SUBSET T |-> value(s)]
  <1>2. ASSUME NEW U \in SUBSET T, U # T
        PROVE  SumsOver(f, U, sums(U))
    <2>1. U \notin Bad /\ U \in SUBSET S
      <3>1. U \notin Bad
        <4> HIDE DEF Bad
        <4> QED BY <1>1, <1>2
      <3> QED BY <1>1, <1>2, <3>1
    <2>2. \E g1 : SumsOver(f, U, g1)
      BY <2>1
    <2> QED BY <2>2
  <1>3. ASSUME NEW s \in SUBSET T, s # {}
        PROVE  g[s] = f[CHOOSE x \in s : TRUE] + g[s \ {CHOOSE x \in s : TRUE}]
    <2> DEFINE x == CHOOSE x \in s : TRUE
               r == s \ {x}
    <2>1. x \in s /\ r \in SUBSET T /\ r # T
      BY <1>3
    <2>2. g[s] = f[x] + sums(r)[r]
      BY <1>3
    <2>3. g[r] = sums(r)[r]
      <3>1. CASE r = {}
        <4>1. SumsOver(f, r, sums(r))
          BY <1>2, <2>1
        <4> QED BY <3>1, <4>1, <2>1 DEF SumsOver
      <3>2. CASE r # {}
        <4> DEFINE y == CHOOSE y \in r : TRUE
                   q == r \ {y}
        <4>1. SumsOver(f, r, sums(r)) /\ SumsOver(f, q, sums(q))
          <5>1. q \in SUBSET T /\ q # T
            BY <2>1
          <5> QED BY <1>2, <2>1, <5>1
        <4>2. sums(r)[r] = f[y] + sums(r)[q]
          BY <3>2, <4>1 DEF SumsOver
        <4>3. sums(r)[q] = sums(q)[q]
          <5>1. IsFiniteSet(r)
            BY <2>1, FS_Subset
          <5> QED BY <4>1, <5>1, SumsUnique
        <4>4. g[r] = f[y] + sums(q)[q]
          BY <2>1, <3>2
        <4> QED BY <4>2, <4>3, <4>4
      <3> QED BY <3>1, <3>2
    <2> QED BY <2>2, <2>3
  <1>4. SumsOver(f, T, g)
    <2>1. g[{}] = 0
      OBVIOUS
    <2>2. g = [s \in SUBSET T |-> g[s]]
      OBVIOUS
    <2> HIDE DEF g
    <2>3. g = [s \in SUBSET T |-> IF s = {} THEN 0
                                  ELSE f[CHOOSE x \in s : TRUE] + g[s \ {CHOOSE x \in s : TRUE}]]
      BY <1>3, <2>1, <2>2
    <2> QED BY <2>3 DEF SumsOver
  <1> QED BY <1>4

\* Nothing adds up to zero.
LEMMA SumEmpty ==
  ASSUME NEW f
  PROVE  SumFunctionOnSet(f, {}) = 0
  <1>1. \E g : SumsOver(f, {}, g)
    BY SumsExist, FS_EmptySet
  <1>2. SumsOver(f, {}, CHOOSE g : SumsOver(f, {}, g))
    BY <1>1
  <1> QED BY <1>2, Unfolded DEF SumsOver

\* The sum adds the element it chooses.
LEMMA SumChosen ==
  ASSUME NEW f, NEW S, IsFiniteSet(S), S # {}
  PROVE  \E x \in S : SumFunctionOnSet(f, S) = f[x] + SumFunctionOnSet(f, S \ {x})
  <1> DEFINE x == CHOOSE x \in S : TRUE
             R == S \ {x}
             sums(U) == CHOOSE g : SumsOver(f, U, g)
  <1>1. x \in S /\ R \in SUBSET S /\ IsFiniteSet(R)
    BY FS_Subset
  <1>2. SumsOver(f, S, sums(S)) /\ SumsOver(f, R, sums(R))
    <2>1. (\E g : SumsOver(f, S, g)) /\ (\E g : SumsOver(f, R, g))
      BY <1>1, SumsExist
    <2> QED BY <2>1
  <1>3. sums(S)[S] = f[x] + sums(S)[R]
    BY <1>1, <1>2 DEF SumsOver
  <1>4. sums(S)[R] = sums(R)[R]
    BY <1>1, <1>2, SumsUnique
  <1> QED BY <1>1, <1>3, <1>4, Unfolded

\* Integers add up to an integer.
LEMMA SumInt ==
  ASSUME NEW f, NEW S, IsFiniteSet(S), \A x \in S : f[x] \in Int
  PROVE  SumFunctionOnSet(f, S) \in Int
  <1> DEFINE Bad == {T \in SUBSET S : SumFunctionOnSet(f, T) \notin Int}
  <1> SUFFICES ASSUME Bad # {} PROVE FALSE
    OBVIOUS
  <1>1. PICK T \in Bad : \A U \in Bad : U \subseteq T => U = T
    <2>1. Bad \subseteq SUBSET S
      OBVIOUS
    <2> HIDE DEF Bad
    <2> QED BY <2>1, LeastSet
  <1>2. T \in SUBSET S /\ IsFiniteSet(T) /\ SumFunctionOnSet(f, T) \notin Int
    BY FS_Subset
  <1>3. T # {}
    BY <1>2, SumEmpty
  <1>4. PICK x \in T : SumFunctionOnSet(f, T) = f[x] + SumFunctionOnSet(f, T \ {x})
    BY <1>2, <1>3, SumChosen
  <1>5. T \ {x} \notin Bad
    <2> HIDE DEF Bad
    <2> QED BY <1>1, <1>4
  <1>6. SumFunctionOnSet(f, T \ {x}) \in Int
    BY <1>2, <1>5
  <1> QED BY <1>2, <1>4, <1>6

\* Whichever element is taken out first.
LEMMA SumRemove ==
  ASSUME NEW f, NEW S, IsFiniteSet(S), \A x \in S : f[x] \in Int, NEW e \in S
  PROVE  SumFunctionOnSet(f, S) = f[e] + SumFunctionOnSet(f, S \ {e})
  <1> DEFINE Bad == {T \in SUBSET S : \E a \in T : SumFunctionOnSet(f, T) # f[a] + SumFunctionOnSet(f, T \ {a})}
  <1> SUFFICES ASSUME Bad # {} PROVE FALSE
    OBVIOUS
  <1>1. PICK T \in Bad : \A U \in Bad : U \subseteq T => U = T
    <2>1. Bad \subseteq SUBSET S
      OBVIOUS
    <2> HIDE DEF Bad
    <2> QED BY <2>1, LeastSet
  <1>2. T \in SUBSET S /\ IsFiniteSet(T)
    BY FS_Subset
  <1>3. PICK a \in T : SumFunctionOnSet(f, T) # f[a] + SumFunctionOnSet(f, T \ {a})
    OBVIOUS
  <1>4. PICK c \in T : SumFunctionOnSet(f, T) = f[c] + SumFunctionOnSet(f, T \ {c})
    BY <1>2, SumChosen
  <1>5. a # c
    BY <1>3, <1>4
  <1>6. ASSUME NEW U \in SUBSET S, U \notin Bad, NEW b \in U
        PROVE  SumFunctionOnSet(f, U) = f[b] + SumFunctionOnSet(f, U \ {b})
    BY <1>6
  <1>7. T \ {c} \notin Bad /\ T \ {a} \notin Bad
    <2> HIDE DEF Bad
    <2> QED BY <1>1
  <1> DEFINE rest == T \ {a, c}
  <1>8. (T \ {c}) \ {a} = rest /\ (T \ {a}) \ {c} = rest
    OBVIOUS
  <1>9. SumFunctionOnSet(f, T \ {c}) = f[a] + SumFunctionOnSet(f, rest)
    <2>1. T \ {c} \in SUBSET S /\ a \in T \ {c}
      BY <1>2, <1>5
    <2> HIDE DEF Bad
    <2> QED BY <2>1, <1>6, <1>7, <1>8
  <1>10. SumFunctionOnSet(f, T \ {a}) = f[c] + SumFunctionOnSet(f, rest)
    <2>1. T \ {a} \in SUBSET S /\ c \in T \ {a}
      BY <1>2, <1>5
    <2> HIDE DEF Bad
    <2> QED BY <2>1, <1>6, <1>7, <1>8
  <1>11. f[a] \in Int /\ f[c] \in Int /\ SumFunctionOnSet(f, rest) \in Int
    <2>1. IsFiniteSet(rest) /\ \A x \in rest : f[x] \in Int
      BY <1>2, FS_Subset
    <2> QED BY <1>2, <2>1, SumInt
  <1> QED BY <1>3, <1>4, <1>9, <1>10, <1>11

\* The sum over a set with one more element.
LEMMA SumAdd ==
  ASSUME NEW f, NEW S, IsFiniteSet(S), NEW e, e \notin S, \A x \in S \cup {e} : f[x] \in Int
  PROVE  SumFunctionOnSet(f, S \cup {e}) = f[e] + SumFunctionOnSet(f, S)
  <1>1. IsFiniteSet(S \cup {e}) /\ (S \cup {e}) \ {e} = S
    BY FS_AddElement
  <1>2. SumFunctionOnSet(f, S \cup {e}) = f[e] + SumFunctionOnSet(f, (S \cup {e}) \ {e})
    BY <1>1, SumRemove
  <1> QED BY <1>1, <1>2

\* Only the values on the set count.
LEMMA SumAgree ==
  ASSUME NEW f, NEW g, NEW S, IsFiniteSet(S), \A x \in S : f[x] \in Int /\ g[x] = f[x]
  PROVE  SumFunctionOnSet(g, S) = SumFunctionOnSet(f, S)
  <1> DEFINE Bad == {T \in SUBSET S : SumFunctionOnSet(g, T) # SumFunctionOnSet(f, T)}
  <1> SUFFICES ASSUME Bad # {} PROVE FALSE
    OBVIOUS
  <1>1. PICK T \in Bad : \A U \in Bad : U \subseteq T => U = T
    <2>1. Bad \subseteq SUBSET S
      OBVIOUS
    <2> HIDE DEF Bad
    <2> QED BY <2>1, LeastSet
  <1>2. T \in SUBSET S /\ IsFiniteSet(T) /\ SumFunctionOnSet(g, T) # SumFunctionOnSet(f, T)
    BY FS_Subset
  <1>3. T # {}
    BY <1>2, SumEmpty
  <1>4. PICK x \in T : TRUE
    BY <1>3
  <1>5. T \ {x} \notin Bad
    <2> HIDE DEF Bad
    <2> QED BY <1>1
  <1>6. SumFunctionOnSet(g, T \ {x}) = SumFunctionOnSet(f, T \ {x})
    BY <1>2, <1>5
  <1>7. /\ SumFunctionOnSet(f, T) = f[x] + SumFunctionOnSet(f, T \ {x})
        /\ SumFunctionOnSet(g, T) = g[x] + SumFunctionOnSet(g, T \ {x})
    <2>1. (\A y \in T : f[y] \in Int) /\ (\A y \in T : g[y] \in Int)
      BY <1>2
    <2> QED BY <1>2, <2>1, SumRemove
  <1> QED BY <1>2, <1>6, <1>7

\* What changing one value does to the sum.
LEMMA SumUpdate ==
  ASSUME NEW f, NEW g, NEW S, IsFiniteSet(S), NEW e \in S,
         \A x \in S : f[x] \in Int /\ g[x] \in Int, \A x \in S \ {e} : g[x] = f[x]
  PROVE  SumFunctionOnSet(g, S) = SumFunctionOnSet(f, S) + (g[e] - f[e])
  <1>1. IsFiniteSet(S \ {e})
    BY FS_Subset
  <1>2. SumFunctionOnSet(g, S \ {e}) = SumFunctionOnSet(f, S \ {e}) /\ SumFunctionOnSet(f, S \ {e}) \in Int
    BY <1>1, SumAgree, SumInt
  <1>3. /\ SumFunctionOnSet(f, S) = f[e] + SumFunctionOnSet(f, S \ {e})
        /\ SumFunctionOnSet(g, S) = g[e] + SumFunctionOnSet(g, S \ {e})
    BY SumRemove
  <1> QED BY <1>2, <1>3

\* Naturals add up to a natural.
LEMMA SumNat ==
  ASSUME NEW f, NEW S, IsFiniteSet(S), \A x \in S : f[x] \in Nat
  PROVE  SumFunctionOnSet(f, S) \in Nat
  <1> DEFINE Bad == {T \in SUBSET S : SumFunctionOnSet(f, T) \notin Nat}
  <1> SUFFICES ASSUME Bad # {} PROVE FALSE
    OBVIOUS
  <1>1. PICK T \in Bad : \A U \in Bad : U \subseteq T => U = T
    <2>1. Bad \subseteq SUBSET S
      OBVIOUS
    <2> HIDE DEF Bad
    <2> QED BY <2>1, LeastSet
  <1>2. T \in SUBSET S /\ IsFiniteSet(T) /\ SumFunctionOnSet(f, T) \notin Nat
    BY FS_Subset
  <1>3. T # {}
    BY <1>2, SumEmpty
  <1>4. PICK x \in T : SumFunctionOnSet(f, T) = f[x] + SumFunctionOnSet(f, T \ {x})
    BY <1>2, <1>3, SumChosen
  <1>5. T \ {x} \notin Bad
    <2> HIDE DEF Bad
    <2> QED BY <1>1, <1>4
  <1>6. SumFunctionOnSet(f, T \ {x}) \in Nat
    BY <1>2, <1>5
  <1> QED BY <1>2, <1>4, <1>6

\* A set apart from the other adds its sum.
LEMMA SumUnion ==
  ASSUME NEW f, NEW S, NEW T, IsFiniteSet(S), IsFiniteSet(T), S \cap T = {}, \A x \in S \cup T : f[x] \in Int
  PROVE  SumFunctionOnSet(f, S \cup T) = SumFunctionOnSet(f, S) + SumFunctionOnSet(f, T)
  <1> DEFINE Sum(U) == SumFunctionOnSet(f, U)
             Bad == {U \in SUBSET T : Sum(S \cup U) # Sum(S) + Sum(U)}
  <1> SUFFICES ASSUME Bad # {} PROVE FALSE
    OBVIOUS
  <1>1. PICK U \in Bad : \A V \in Bad : V \subseteq U => V = U
    <2>1. Bad \subseteq SUBSET T
      OBVIOUS
    <2> HIDE DEF Bad
    <2> QED BY <2>1, LeastSet
  <1>2. U \in SUBSET T /\ IsFiniteSet(U) /\ Sum(S \cup U) # Sum(S) + Sum(U)
    BY FS_Subset
  <1>3. U # {}
    <2> SUFFICES ASSUME U = {} PROVE FALSE
      OBVIOUS
    <2>1. S \cup U = S
      OBVIOUS
    <2>2. SumFunctionOnSet(f, S \cup U) = SumFunctionOnSet(f, S)
      BY <2>1
    <2>3. SumFunctionOnSet(f, U) = 0 /\ SumFunctionOnSet(f, S) \in Int
      BY SumEmpty, SumInt
    <2>4. SumFunctionOnSet(f, S \cup U) # SumFunctionOnSet(f, S) + SumFunctionOnSet(f, U)
      BY <1>2
    <2> HIDE DEF Bad, Sum
    <2> QED BY <2>2, <2>3, <2>4
  <1>4. PICK x \in U : TRUE
    BY <1>3
  <1>5. U \ {x} \notin Bad
    <2> HIDE DEF Bad
    <2> QED BY <1>1
  <1>6. Sum(S \cup (U \ {x})) = Sum(S) + Sum(U \ {x})
    BY <1>2, <1>5
  <1>7. Sum(U) = f[x] + Sum(U \ {x})
    BY <1>2, SumRemove
  <1>8. Sum(S \cup U) = f[x] + Sum(S \cup (U \ {x}))
    <2>1. x \in S \cup U /\ (S \cup U) \ {x} = S \cup (U \ {x}) /\ IsFiniteSet(S \cup U)
      BY <1>2, FS_Union
    <2>2. \A y \in S \cup U : f[y] \in Int
      BY <1>2
    <2>3. SumFunctionOnSet(f, S \cup U) = f[x] + SumFunctionOnSet(f, (S \cup U) \ {x})
      BY <2>1, <2>2, SumRemove
    <2> QED BY <2>1, <2>3
  <1>9. Sum(S) \in Int /\ Sum(U \ {x}) \in Int /\ f[x] \in Int
    <2>1. IsFiniteSet(U \ {x})
      BY <1>2, FS_Subset
    <2> QED BY <1>2, <2>1, SumInt
  <1> HIDE DEF Bad, Sum
  <1> QED BY <1>2, <1>6, <1>7, <1>8, <1>9

\* A sum of naturals is not less than any of them.
LEMMA SumAtLeast ==
  ASSUME NEW f, NEW S, IsFiniteSet(S), \A x \in S : f[x] \in Nat, NEW e \in S
  PROVE  f[e] <= SumFunctionOnSet(f, S)
  <1>1. IsFiniteSet(S \ {e})
    BY FS_Subset
  <1>2. SumFunctionOnSet(f, S \ {e}) \in Nat
    BY <1>1, SumNat
  <1>3. SumFunctionOnSet(f, S) = f[e] + SumFunctionOnSet(f, S \ {e})
    BY SumRemove
  <1> QED BY <1>2, <1>3

\* A sum of zeros is zero.
LEMMA SumZero ==
  ASSUME NEW f, NEW S, IsFiniteSet(S), \A x \in S : f[x] = 0
  PROVE  SumFunctionOnSet(f, S) = 0
  <1> DEFINE Bad == {T \in SUBSET S : SumFunctionOnSet(f, T) # 0}
  <1> SUFFICES ASSUME Bad # {} PROVE FALSE
    OBVIOUS
  <1>1. PICK T \in Bad : \A U \in Bad : U \subseteq T => U = T
    <2>1. Bad \subseteq SUBSET S
      OBVIOUS
    <2> HIDE DEF Bad
    <2> QED BY <2>1, LeastSet
  <1>2. T \in SUBSET S /\ IsFiniteSet(T) /\ SumFunctionOnSet(f, T) # 0
    BY FS_Subset
  <1>3. T # {}
    BY <1>2, SumEmpty
  <1>4. PICK x \in T : SumFunctionOnSet(f, T) = f[x] + SumFunctionOnSet(f, T \ {x})
    BY <1>2, <1>3, SumChosen
  <1>5. T \ {x} \notin Bad
    <2> HIDE DEF Bad
    <2> QED BY <1>1, <1>4
  <1>6. SumFunctionOnSet(f, T \ {x}) = 0
    BY <1>2, <1>5
  <1> QED BY <1>2, <1>4, <1>6
===============================================================================
