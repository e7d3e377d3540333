---------------------------- MODULE SumTheorems ----------------------------
(***************************************************************************)
(* Sums over finite sets, as the models write them: SumFunctionOnSet of    *)
(* the community modules, a fold whose recursion chooses one element after *)
(* the other. It is well defined on every finite set, does not depend on   *)
(* the choice, and grows with the set. Every induction is by a smallest    *)
(* counterexample: a set of sets, or of numbers, has a minimal element.    *)
(***************************************************************************)
EXTENDS Functions, FiniteSetTheorems, TLAPS

-----------------------------------------------------------------------------
(* Induction                                                               *)

LEMMA SmallestNumber ==
  ASSUME NEW A \in SUBSET Nat, A # {}
  PROVE  \E n \in A : \A m \in A : n <= m
<1>1. PICK n \in A : \A m \in A : ~ (<<m, n>> \in OpToRel(<, Nat))
  BY NatLessThanWellFounded, WFMin
<1>2. ASSUME NEW m \in A PROVE n <= m
  <2>1. n \in Nat /\ m \in Nat
    OBVIOUS
  <2>2. m < n => <<m, n>> \in OpToRel(<, Nat)
    BY <2>1 DEF OpToRel
  <2>3. ~ (m < n)
    BY <1>1, <2>2, Zenon
  <2> QED
    BY <2>1, <2>3
<1> QED
  BY <1>2

\* A set of finite sets has one that is left by taking any element away.
LEMMA SmallestSet ==
  ASSUME NEW S, IsFiniteSet(S), NEW B \in SUBSET SUBSET S, B # {}
  PROVE  \E T \in B : IsFiniteSet(T) /\ \A x \in T : T \ {x} \notin B
<1> DEFINE Sizes == {Cardinality(T) : T \in B}
<1>1. \A T \in SUBSET S : IsFiniteSet(T) /\ Cardinality(T) \in Nat
  BY FS_Subset, FS_CardinalityType
<1>2. Sizes \in SUBSET Nat /\ Sizes # {}
  BY <1>1
<1>3. PICK n \in Sizes : \A m \in Sizes : n <= m
  <2> HIDE DEF Sizes
  <2> QED
    BY <1>2, SmallestNumber
<1>4. PICK T \in B : Cardinality(T) = n
  BY <1>3
<1>5. ASSUME NEW x \in T PROVE T \ {x} \notin B
  <2>1. Cardinality(T \ {x}) = n - 1
    BY <1>1, <1>4, FS_RemoveElement
  <2>2. n \in Nat
    BY <1>1, <1>4
  <2>3. T \ {x} \in B => Cardinality(T \ {x}) \in Sizes
    OBVIOUS
  <2> HIDE DEF Sizes
  <2> QED
    BY <1>3, <2>1, <2>2, <2>3
<1> QED
  BY <1>1, <1>5

\* What holds of the empty set and stays when an element is added holds of
\* every finite set.
LEMMA OneByOne ==
  ASSUME NEW S, IsFiniteSet(S), NEW G \in SUBSET SUBSET S, {} \in G,
         \A T \in G : \A x \in S \ T : T \cup {x} \in G
  PROVE  S \in G
<1> DEFINE B == (SUBSET S) \ G
<1> SUFFICES ASSUME B # {} PROVE FALSE
  OBVIOUS
<1>1. PICK T \in B : IsFiniteSet(T) /\ \A x \in T : T \ {x} \notin B
  <2>1. B \in SUBSET SUBSET S
    OBVIOUS
  <2> HIDE DEF B
  <2> QED
    BY <2>1, SmallestSet
<1>2. PICK x \in T : TRUE
  OBVIOUS
<1>3. T \ {x} \in G /\ x \in S \ (T \ {x})
  BY <1>1
<1>4. (T \ {x}) \cup {x} = T
  OBVIOUS
<1> QED
  BY <1>3, <1>4

-----------------------------------------------------------------------------
(* The fold                                                                *)

Chosen(s) == CHOOSE x \in s : TRUE

SumStep(g, h, s) == IF s = {} THEN 0 ELSE g[Chosen(s)] + h[s \ {Chosen(s)}]

\* h holds the sum of g over every subset of S.
SumsUp(h, g, S) == h = [s \in SUBSET S |-> SumStep(g, h, s)]

LEMMA ChosenIn == ASSUME NEW s, s # {} PROVE Chosen(s) \in s
BY DEF Chosen

LEMMA SumsUpExists ==
  ASSUME NEW g, NEW S, IsFiniteSet(S)
  PROVE  \E h : SumsUp(h, g, S)
<1> DEFINE Layer(h, n) ==
             /\ h = [s \in SUBSET S |-> h[s]]
             /\ \A s \in SUBSET S : Cardinality(s) <= n => h[s] = SumStep(g, h, s)
           Missing == {n \in Nat : ~ \E h : Layer(h, n)}
<1>1. \A s \in SUBSET S : /\ IsFiniteSet(s) /\ Cardinality(s) \in Nat
                          /\ Cardinality(s) = 0 => s = {}
                          /\ Cardinality(s) <= Cardinality(S)
                          /\ s # {} => /\ s \ {Chosen(s)} \in SUBSET S
                                       /\ Cardinality(s \ {Chosen(s)}) = Cardinality(s) - 1
  <2> SUFFICES ASSUME NEW s \in SUBSET S
               PROVE  /\ IsFiniteSet(s) /\ Cardinality(s) \in Nat
                      /\ Cardinality(s) = 0 => s = {}
                      /\ Cardinality(s) <= Cardinality(S)
                      /\ s # {} => /\ s \ {Chosen(s)} \in SUBSET S
                                   /\ Cardinality(s \ {Chosen(s)}) = Cardinality(s) - 1
    OBVIOUS
  <2>1. IsFiniteSet(s) /\ Cardinality(s) <= Cardinality(S)
    BY FS_Subset
  <2>2. Cardinality(s) \in Nat /\ (Cardinality(s) = 0 => s = {})
    BY <2>1, FS_CardinalityType, FS_EmptySet
  <2>3. s # {} => Cardinality(s \ {Chosen(s)}) = Cardinality(s) - 1
    BY <2>1, FS_RemoveElement, ChosenIn
  <2> QED
    BY <2>1, <2>2, <2>3
<1>2. 0 \notin Missing
  <2> DEFINE h == [s \in SUBSET S |-> 0]
  <2>1. ASSUME NEW s \in SUBSET S, Cardinality(s) <= 0 PROVE h[s] = SumStep(g, h, s)
    <3>1. Cardinality(s) \in Nat /\ (Cardinality(s) = 0 => s = {})
      BY <1>1, Zenon
    <3>2. s = {}
      BY <2>1, <3>1
    <3> QED
      BY <3>2 DEF SumStep
  <2> QED
    BY <2>1
<1>3. ASSUME NEW n \in Nat, n \notin Missing PROVE n + 1 \notin Missing
  <2>1. PICK h : Layer(h, n)
    BY <1>3
  <2> DEFINE k == [s \in SUBSET S |-> IF Cardinality(s) = n + 1 THEN SumStep(g, h, s)
                                                              ELSE h[s]]
  <2>2. ASSUME NEW s \in SUBSET S, Cardinality(s) <= n + 1
        PROVE  k[s] = SumStep(g, k, s)
    <3>0. Cardinality(s) \in Nat
      BY <1>1, Zenon
    <3>1. SumStep(g, k, s) = SumStep(g, h, s)
      BY <1>1, <2>2 DEF SumStep
    <3>2. CASE Cardinality(s) = n + 1
      BY <3>1, <3>2
    <3>3. CASE Cardinality(s) <= n
      <4>1. Cardinality(s) # n + 1
        BY <1>1, <3>3
      <4>2. h[s] = SumStep(g, h, s)
        BY <2>1, <3>3
      <4> QED
        BY <3>1, <4>1, <4>2
    <3> QED
      BY <2>2, <3>0, <3>2, <3>3
  <2>3. Layer(k, n + 1)
    BY <2>2
  <2> QED
    BY <2>3
<1>4. Missing = {}
  <2> SUFFICES ASSUME Missing # {} PROVE FALSE
    OBVIOUS
  <2>1. PICK n \in Missing : \A m \in Missing : n <= m
    <3>1. Missing \in SUBSET Nat
      OBVIOUS
    <3> HIDE DEF Missing
    <3> QED
      BY <3>1, SmallestNumber
  <2>2. n \in Nat
    OBVIOUS
  <2> HIDE DEF Missing
  <2>3. n # 0
    BY <1>2
  <2>4. n - 1 \in Nat /\ n - 1 \notin Missing /\ (n - 1) + 1 = n
    BY <2>1, <2>2, <2>3
  <2> QED
    BY <1>3, <2>4
<1>5. PICK h : Layer(h, Cardinality(S))
  <2>1. Cardinality(S) \in Nat
    BY <1>1
  <2> QED
    BY <1>4, <2>1
<1> QED
  BY <1>1, <1>5 DEF SumsUp

LEMMA SumIsFold ==
  ASSUME NEW g, NEW S, IsFiniteSet(S)
  PROVE  \E h : SumsUp(h, g, S) /\ SumFunctionOnSet(g, S) = h[S]
<1> DEFINE h == CHOOSE k : SumsUp(k, g, S)
<1>1. SumsUp(h, g, S)
  BY SumsUpExists
<1>2. SumFunctionOnSet(g, S) = h[S]
  BY DEF SumFunctionOnSet, FoldFunctionOnSet, MapThenFoldSet, SumsUp, SumStep, Chosen
<1> QED
  BY <1>1, <1>2

\* The sum over s depends on nothing but the values in s.
LEMMA SumsAgree ==
  ASSUME NEW g, NEW h, NEW S, SumsUp(h, g, S),
         NEW i, NEW k, NEW U, SumsUp(k, i, U),
         NEW s, IsFiniteSet(s), s \subseteq S, s \subseteq U, \A x \in s : g[x] = i[x]
  PROVE  h[s] = k[s]
<1> DEFINE B == {t \in SUBSET s : h[t] # k[t]}
<1> SUFFICES ASSUME B # {} PROVE FALSE
  OBVIOUS
<1>1. PICK t \in B : \A x \in t : t \ {x} \notin B
  <2>1. B \in SUBSET SUBSET s
    OBVIOUS
  <2> HIDE DEF B
  <2> QED
    BY <2>1, SmallestSet
<1>2. h[t] = SumStep(g, h, t) /\ k[t] = SumStep(i, k, t)
  BY DEF SumsUp
<1>3. CASE t = {}
  BY <1>2, <1>3 DEF SumStep
<1>4. CASE t # {}
  <2>1. Chosen(t) \in t
    BY <1>4, ChosenIn
  <2>2. h[t \ {Chosen(t)}] = k[t \ {Chosen(t)}] /\ g[Chosen(t)] = i[Chosen(t)]
    BY <1>1, <2>1
  <2> QED
    BY <1>2, <2>2, <1>4 DEF SumStep
<1> QED
  BY <1>3, <1>4

\* Any element may be taken first.
LEMMA AnyElementFirst ==
  ASSUME NEW g, NEW h, NEW S, IsFiniteSet(S), SumsUp(h, g, S),
         \A x \in S : g[x] \in Int
  PROVE  \A T \in SUBSET S : /\ h[T] \in Int
                             /\ \A x \in T : h[T] = g[x] + h[T \ {x}]
<1>0. \A T \in SUBSET S : h[T] = SumStep(g, h, T)
  BY DEF SumsUp
<1>1. \A T \in SUBSET S : h[T] \in Int
  <2> DEFINE B == {T \in SUBSET S : h[T] \notin Int}
  <2> SUFFICES ASSUME B # {} PROVE FALSE
    OBVIOUS
  <2>1. PICK T \in B : \A x \in T : T \ {x} \notin B
    <3>1. B \in SUBSET SUBSET S
      OBVIOUS
    <3> HIDE DEF B
    <3> QED
      BY <3>1, SmallestSet
  <2>2. T \in SUBSET S /\ h[T] \notin Int /\ h[T] = SumStep(g, h, T)
    BY <1>0
  <2> HIDE DEF B
  <2>3. T # {}
    BY <2>2 DEF SumStep
  <2>4. Chosen(T) \in T
    BY <2>3, ChosenIn
  <2>5. h[T \ {Chosen(T)}] \in Int /\ g[Chosen(T)] \in Int
    BY <2>1, <2>2, <2>4 DEF B
  <2> QED
    BY <2>2, <2>3, <2>5 DEF SumStep
<1>2. \A T \in SUBSET S : \A x \in T : h[T] = g[x] + h[T \ {x}]
  <2> DEFINE B == {T \in SUBSET S : \E x \in T : h[T] # g[x] + h[T \ {x}]}
  <2> SUFFICES ASSUME B # {} PROVE FALSE
    OBVIOUS
  <2>1. PICK T \in B : \A x \in T : T \ {x} \notin B
    <3>1. B \in SUBSET SUBSET S
      OBVIOUS
    <3> HIDE DEF B
    <3> QED
      BY <3>1, SmallestSet
  <2>2. PICK x \in T : h[T] # g[x] + h[T \ {x}]
    OBVIOUS
  <2> DEFINE c == Chosen(T)
  <2>3. c \in T /\ h[T] = g[c] + h[T \ {c}]
    BY <1>0, ChosenIn DEF SumStep
  <2>4. x # c
    BY <2>2, <2>3
  <2>5. h[T \ {c}] = g[x] + h[(T \ {c}) \ {x}] /\ h[T \ {x}] = g[c] + h[(T \ {x}) \ {c}]
    BY <2>1, <2>3, <2>4
  <2>6. (T \ {c}) \ {x} = (T \ {x}) \ {c}
    OBVIOUS
  <2>7. g[x] \in Int /\ g[c] \in Int /\ h[(T \ {c}) \ {x}] \in Int
    BY <1>1, <2>3
  <2> HIDE DEF c, B
  <2>8. \A a, b, v \in Int : a + (b + v) = b + (a + v)
    OBVIOUS
  <2>9. h[T] = g[c] + (g[x] + h[(T \ {c}) \ {x}])
    BY <2>3, <2>5, Zenon
  <2>10. g[x] + h[T \ {x}] = g[x] + (g[c] + h[(T \ {c}) \ {x}])
    BY <2>5, <2>6, Zenon
  <2>11. h[T] = g[x] + h[T \ {x}]
    BY <2>7, <2>8, <2>9, <2>10, Zenon
  <2> QED
    BY <2>2, <2>11
<1> QED
  BY <1>1, <1>2

-----------------------------------------------------------------------------
(* What the models use                                                     *)

\* Nothing adds up to 0.
THEOREM SumOfNone == ASSUME NEW g PROVE SumFunctionOnSet(g, {}) = 0
<1>1. PICK h : SumsUp(h, g, {}) /\ SumFunctionOnSet(g, {}) = h[{}]
  BY SumIsFold, FS_EmptySet
<1> QED
  BY <1>1 DEF SumsUp, SumStep

\* Integers add up to an integer.
THEOREM SumIsInt ==
  ASSUME NEW S, IsFiniteSet(S), NEW g, \A x \in S : g[x] \in Int
  PROVE  SumFunctionOnSet(g, S) \in Int
<1>1. PICK h : SumsUp(h, g, S) /\ SumFunctionOnSet(g, S) = h[S]
  BY SumIsFold
<1>2. h[S] \in Int
  BY <1>1, AnyElementFirst
<1> QED
  BY <1>1, <1>2

\* Only the values on the set count.
THEOREM SumSame ==
  ASSUME NEW S, IsFiniteSet(S), NEW g, NEW i, \A x \in S : g[x] = i[x]
  PROVE  SumFunctionOnSet(g, S) = SumFunctionOnSet(i, S)
<1>1. PICK h : SumsUp(h, g, S) /\ SumFunctionOnSet(g, S) = h[S]
  BY SumIsFold
<1>2. PICK k : SumsUp(k, i, S) /\ SumFunctionOnSet(i, S) = k[S]
  BY SumIsFold
<1>3. h[S] = k[S]
  BY <1>1, <1>2, SumsAgree
<1> QED
  BY <1>1, <1>2, <1>3

\* Any element may be taken out first: the fold takes one of its own choice.
THEOREM SumOneLess ==
  ASSUME NEW S, IsFiniteSet(S), NEW g, \A x \in S : g[x] \in Int, NEW x \in S
  PROVE  SumFunctionOnSet(g, S) = g[x] + SumFunctionOnSet(g, S \ {x})
<1>1. PICK h : SumsUp(h, g, S) /\ SumFunctionOnSet(g, S) = h[S]
  BY SumIsFold
<1>2. IsFiniteSet(S \ {x})
  BY FS_RemoveElement
<1>3. PICK k : SumsUp(k, g, S \ {x}) /\ SumFunctionOnSet(g, S \ {x}) = k[S \ {x}]
  BY <1>2, SumIsFold
<1>4. h[S \ {x}] = k[S \ {x}]
  BY <1>1, <1>2, <1>3, SumsAgree
<1>5. h[S] = g[x] + h[S \ {x}]
  BY <1>1, AnyElementFirst
<1> QED
  BY <1>1, <1>3, <1>4, <1>5

\* A new element adds its own value.
THEOREM SumOneMore ==
  ASSUME NEW S, IsFiniteSet(S), NEW x, x \notin S,
         NEW g, \A y \in S \cup {x} : g[y] \in Int
  PROVE  SumFunctionOnSet(g, S \cup {x}) = g[x] + SumFunctionOnSet(g, S)
<1>1. IsFiniteSet(S \cup {x}) /\ (S \cup {x}) \ {x} = S
  BY FS_AddElement
<1>2. SumFunctionOnSet(g, S \cup {x}) =
        g[x] + SumFunctionOnSet(g, (S \cup {x}) \ {x})
  BY <1>1, SumOneLess
<1> QED
  BY <1>1, <1>2

\* A sum changes by as much as the one value that changes.
THEOREM SumChanged ==
  ASSUME NEW S, IsFiniteSet(S), NEW x \in S,
         NEW g, \A y \in S : g[y] \in Int,
         NEW i, i[x] \in Int, \A y \in S \ {x} : i[y] = g[y]
  PROVE  SumFunctionOnSet(i, S) = SumFunctionOnSet(g, S) + (i[x] - g[x])
<1>1. IsFiniteSet(S \ {x})
  BY FS_RemoveElement
<1>2. SumFunctionOnSet(g, S) = g[x] + SumFunctionOnSet(g, S \ {x})
  BY SumOneLess
<1>3. SumFunctionOnSet(i, S) = i[x] + SumFunctionOnSet(i, S \ {x})
  <2>1. \A y \in S : i[y] \in Int
    OBVIOUS
  <2> QED
    BY <2>1, SumOneLess
<1>4. SumFunctionOnSet(i, S \ {x}) = SumFunctionOnSet(g, S \ {x})
  BY <1>1, SumSame
<1>5. SumFunctionOnSet(g, S \ {x}) \in Int
  BY <1>1, SumIsInt
<1> QED
  BY <1>2, <1>3, <1>4, <1>5

\* c for each element of W and nothing for the others.
THEOREM SumOfShares ==
  ASSUME NEW S, IsFiniteSet(S), NEW W \in SUBSET S, NEW c \in Int,
         NEW g, \A x \in S : g[x] = IF x \in W THEN c ELSE 0
  PROVE  SumFunctionOnSet(g, S) = Cardinality(W) * c
<1> DEFINE G == {T \in SUBSET S : SumFunctionOnSet(g, T) = Cardinality(T \cap W) * c}
<1>1. {} \in G
  BY SumOfNone, FS_EmptySet
<1>2. ASSUME NEW T \in G, NEW x \in S \ T PROVE T \cup {x} \in G
  <2>1. IsFiniteSet(T) /\ IsFiniteSet(T \cap W)
    BY FS_Subset
  <2>2. SumFunctionOnSet(g, T \cup {x}) = g[x] + SumFunctionOnSet(g, T)
    <3>1. \A y \in T \cup {x} : g[y] \in Int
      OBVIOUS
    <3> QED
      BY <2>1, <3>1, SumOneMore
  <2>3. Cardinality(T \cap W) \in Nat
    BY <2>1, FS_CardinalityType
  <2>4. CASE x \in W
    <3>1. (T \cup {x}) \cap W = (T \cap W) \cup {x}
      BY <2>4
    <3>2. Cardinality((T \cap W) \cup {x}) = Cardinality(T \cap W) + 1
      BY <2>1, FS_AddElement
    <3>3. \A n \in Nat : c + n * c = (n + 1) * c
      OBVIOUS
    <3>4. g[x] = c
      BY <2>4
    <3> QED
      BY <2>2, <2>3, <3>1, <3>2, <3>3, <3>4
  <2>5. CASE x \notin W
    <3>1. (T \cup {x}) \cap W = T \cap W /\ g[x] = 0
      BY <2>5
    <3>2. SumFunctionOnSet(g, T) \in Int
      BY <2>1, SumIsInt
    <3>3. SumFunctionOnSet(g, T \cup {x}) = SumFunctionOnSet(g, T)
      BY <2>2, <3>1, <3>2
    <3> QED
      BY <3>1, <3>3
  <2> QED
    BY <2>4, <2>5
<1>3. S \in G
  <2>1. G \in SUBSET SUBSET S
    OBVIOUS
  <2> HIDE DEF G
  <2> QED
    BY <1>1, <1>2, <2>1, OneByOne
<1>4. S \cap W = W
  OBVIOUS
<1> QED
  BY <1>3, <1>4

\* Two functions add up to what their sums add up to.
THEOREM SumOfBoth ==
  ASSUME NEW S, IsFiniteSet(S),
         NEW g, \A x \in S : g[x] \in Int, NEW i, \A x \in S : i[x] \in Int,
         NEW k, \A x \in S : k[x] = g[x] + i[x]
  PROVE  SumFunctionOnSet(k, S) = SumFunctionOnSet(g, S) + SumFunctionOnSet(i, S)
<1> DEFINE G == {T \in SUBSET S : SumFunctionOnSet(k, T) =
                                    SumFunctionOnSet(g, T) + SumFunctionOnSet(i, T)}
<1>1. {} \in G
  BY SumOfNone
<1>2. ASSUME NEW T \in G, NEW x \in S \ T PROVE T \cup {x} \in G
  <2>1. IsFiniteSet(T)
    BY FS_Subset
  <2>2. /\ SumFunctionOnSet(g, T \cup {x}) = g[x] + SumFunctionOnSet(g, T)
        /\ SumFunctionOnSet(i, T \cup {x}) = i[x] + SumFunctionOnSet(i, T)
    BY <2>1, SumOneMore
  <2>3. SumFunctionOnSet(k, T \cup {x}) = k[x] + SumFunctionOnSet(k, T)
    <3>1. \A y \in T \cup {x} : k[y] \in Int
      OBVIOUS
    <3> QED
      BY <2>1, <3>1, SumOneMore
  <2>4. SumFunctionOnSet(g, T) \in Int /\ SumFunctionOnSet(i, T) \in Int
    BY <2>1, SumIsInt
  <2> QED
    BY <2>2, <2>3, <2>4
<1>3. S \in G
  <2>1. G \in SUBSET SUBSET S
    OBVIOUS
  <2> HIDE DEF G
  <2> QED
    BY <1>1, <1>2, <2>1, OneByOne
<1> QED
  BY <1>3

\* A sum that is as large as its bounds allow has every value at its bound.
THEOREM SumAtBound ==
  ASSUME NEW S, IsFiniteSet(S), NEW c \in Int,
         NEW g, \A x \in S : g[x] \in Int /\ g[x] <= c
  PROVE  /\ SumFunctionOnSet(g, S) <= Cardinality(S) * c
         /\ SumFunctionOnSet(g, S) = Cardinality(S) * c => \A x \in S : g[x] = c
<1> DEFINE G == {T \in SUBSET S :
                   /\ SumFunctionOnSet(g, T) <= Cardinality(T) * c
                   /\ SumFunctionOnSet(g, T) = Cardinality(T) * c => \A x \in T : g[x] = c}
<1>1. {} \in G
  BY SumOfNone, FS_EmptySet
<1>2. ASSUME NEW T \in G, NEW x \in S \ T PROVE T \cup {x} \in G
  <2>1. IsFiniteSet(T) /\ Cardinality(T) \in Nat
    BY FS_Subset, FS_CardinalityType
  <2>2. SumFunctionOnSet(g, T \cup {x}) = g[x] + SumFunctionOnSet(g, T)
    BY <2>1, SumOneMore
  <2>3. Cardinality(T \cup {x}) = Cardinality(T) + 1
    BY <2>1, FS_AddElement
  <2>4. SumFunctionOnSet(g, T) \in Int /\ g[x] \in Int /\ g[x] <= c
    BY <2>1, SumIsInt
  <2>5. (Cardinality(T) + 1) * c = Cardinality(T) * c + c /\ Cardinality(T) * c \in Int
    BY <2>1
  <2>6. /\ SumFunctionOnSet(g, T) <= Cardinality(T) * c
        /\ SumFunctionOnSet(g, T) = Cardinality(T) * c => \A y \in T : g[y] = c
    OBVIOUS
  <2>7. SumFunctionOnSet(g, T \cup {x}) <= Cardinality(T \cup {x}) * c
    BY <2>2, <2>3, <2>4, <2>5, <2>6
  <2>8. SumFunctionOnSet(g, T \cup {x}) = Cardinality(T \cup {x}) * c =>
          SumFunctionOnSet(g, T) = Cardinality(T) * c /\ g[x] = c
    BY <2>2, <2>3, <2>4, <2>5, <2>6
  <2> QED
    BY <2>6, <2>7, <2>8
<1>3. S \in G
  <2>1. G \in SUBSET SUBSET S
    OBVIOUS
  <2> HIDE DEF G
  <2> QED
    BY <1>1, <1>2, <2>1, OneByOne
<1> QED
  BY <1>3

\* A part of what is not negative is not more than the whole.
THEOREM SumOfPart ==
  ASSUME NEW S, IsFiniteSet(S), NEW P \in SUBSET S,
         NEW g, \A x \in S : g[x] \in Nat
  PROVE  SumFunctionOnSet(g, P) <= SumFunctionOnSet(g, S)
<1> DEFINE G == {T \in SUBSET S : SumFunctionOnSet(g, T \cap P) <= SumFunctionOnSet(g, T)}
<1>0. \A x \in S : g[x] \in Int
  OBVIOUS
<1>1. {} \in G
  <2>1. {} \cap P = {}
    OBVIOUS
  <2> QED
    BY <2>1, SumOfNone
<1>2. ASSUME NEW T \in G, NEW x \in S \ T PROVE T \cup {x} \in G
  <2>1. IsFiniteSet(T) /\ IsFiniteSet(T \cap P)
    BY FS_Subset
  <2>2. /\ SumFunctionOnSet(g, T) \in Int /\ SumFunctionOnSet(g, T \cap P) \in Int
        /\ g[x] \in Nat
    BY <2>1, SumIsInt
  <2>3. SumFunctionOnSet(g, T \cup {x}) = g[x] + SumFunctionOnSet(g, T)
    BY <1>0, <2>1, SumOneMore
  <2>4. SumFunctionOnSet(g, T \cap P) <= SumFunctionOnSet(g, T)
    OBVIOUS
  <2>5. CASE x \in P
    <3>1. (T \cup {x}) \cap P = (T \cap P) \cup {x}
      BY <2>5
    <3>2. PICK Q \in SUBSET S : Q = T \cap P
      OBVIOUS
    <3>3. SumFunctionOnSet(g, Q \cup {x}) = g[x] + SumFunctionOnSet(g, Q)
      BY <1>0, <2>1, <3>2, SumOneMore
    <3>4. SumFunctionOnSet(g, Q \cup {x}) <= SumFunctionOnSet(g, T \cup {x})
      BY <2>2, <2>3, <2>4, <3>2, <3>3
    <3> QED
      BY <3>1, <3>2, <3>4
  <2>6. CASE x \notin P
    <3>1. (T \cup {x}) \cap P = T \cap P
      BY <2>6
    <3>2. SumFunctionOnSet(g, T \cap P) <= SumFunctionOnSet(g, T \cup {x})
      BY <2>2, <2>3, <2>4
    <3> QED
      BY <3>1, <3>2
  <2> QED
    BY <2>5, <2>6
<1>3. S \in G
  <2>1. G \in SUBSET SUBSET S
    OBVIOUS
  <2> HIDE DEF G
  <2> QED
    BY <1>1, <1>2, <2>1, OneByOne
<1>4. S \cap P = P
  OBVIOUS
<1> QED
  BY <1>3, <1>4

\* The elements of disjoint sets, counted set by set.
THEOREM CountByParts ==
  ASSUME NEW S, IsFiniteSet(S), NEW F,
         \A x \in S : IsFiniteSet(F[x]),
         \A x, y \in S : x # y => F[x] \cap F[y] = {},
         NEW n, \A x \in S : n[x] = Cardinality(F[x])
  PROVE  /\ IsFiniteSet(UNION {F[x] : x \in S})
         /\ Cardinality(UNION {F[x] : x \in S}) = SumFunctionOnSet(n, S)
<1> DEFINE All(T) == UNION {F[x] : x \in T}
           G == {T \in SUBSET S : /\ IsFiniteSet(All(T))
                                  /\ Cardinality(All(T)) = SumFunctionOnSet(n, T)}
<1>1. {} \in G
  <2>1. All({}) = {}
    OBVIOUS
  <2> QED
    BY <2>1, SumOfNone, FS_EmptySet
<1>2. ASSUME NEW T \in G, NEW x \in S \ T PROVE T \cup {x} \in G
  <2>1. IsFiniteSet(T)
    BY FS_Subset
  <2>2. \A y \in S : n[y] \in Nat
    BY FS_CardinalityType
  <2>3. SumFunctionOnSet(n, T \cup {x}) = n[x] + SumFunctionOnSet(n, T)
    <3>1. \A y \in T \cup {x} : n[y] \in Int
      BY <2>2
    <3> QED
      BY <2>1, <3>1, SumOneMore
  <2>4. All(T \cup {x}) = All(T) \cup F[x]
    OBVIOUS
  <2>5. All(T) \cap F[x] = {}
    OBVIOUS
  <2>6. IsFiniteSet(All(T)) /\ IsFiniteSet(F[x])
    OBVIOUS
  <2>7. /\ IsFiniteSet(All(T) \cup F[x])
        /\ Cardinality(All(T) \cup F[x]) =
             Cardinality(All(T)) + Cardinality(F[x]) - Cardinality(All(T) \cap F[x])
    <3> HIDE DEF All
    <3> QED
      BY <2>6, FS_Union
  <2>8. Cardinality(All(T)) \in Nat /\ n[x] \in Nat /\ n[x] = Cardinality(F[x])
    BY <2>2, <2>6, FS_CardinalityType
  <2>9. Cardinality(All(T)) = SumFunctionOnSet(n, T)
    OBVIOUS
  <2> HIDE DEF All
  <2>10. Cardinality(All(T) \cap F[x]) = 0
    BY <2>5, FS_EmptySet
  <2>11. Cardinality(All(T) \cup F[x]) = n[x] + SumFunctionOnSet(n, T)
    BY <2>7, <2>8, <2>9, <2>10
  <2> QED
    BY <2>3, <2>4, <2>7, <2>11
<1>3. S \in G
  <2>1. G \in SUBSET SUBSET S
    OBVIOUS
  <2> HIDE DEF G
  <2> QED
    BY <1>1, <1>2, <2>1, OneByOne
<1> QED
  BY <1>3
=============================================================================
