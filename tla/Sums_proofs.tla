----------------------------- MODULE Sums_proofs -----------------------------
(***************************************************************************)
(* Sums over finite sets, as MapThenSumSet and FoldLeft define them: a     *)
(* recursive function on the parts of a set that picks one element after   *)
(* the other.  By well-founded induction on the parts of the set, with     *)
(* what is to be shown as a set of parts that fail it.                     *)
(***************************************************************************)
EXTENDS Integers, FiniteSetTheorems, WellFoundedInduction, TLAPS

\* sum adds up f over every part of S, taking the terms in the order of pick.
Picks(pick, S) == \A s \in SUBSET S : s # {} => pick[s] \in s
SumsUp(sum, f, pick, S) ==
  sum = [s \in SUBSET S |-> IF s = {} THEN 0 ELSE f[pick[s]] + sum[s \ {pick[s]}]]

LEMMA SmallestSet ==
  ASSUME NEW S, IsFiniteSet(S), NEW Bad \in SUBSET (SUBSET S), Bad # {}
  PROVE  \E t \in Bad : \A s \in Bad : s \subseteq t => s = t
<1>1. IsWellFoundedOn(StrictSubsetOrdering(S), SUBSET S)
  BY FS_StrictSubsetOrderingWellFounded, FS_FiniteSubsetsOfFinite
<1>2. PICK t \in Bad : \A s \in Bad : ~(<<s, t>> \in StrictSubsetOrdering(S))
  BY <1>1, WFMin
<1> QED
  BY <1>2 DEF StrictSubsetOrdering

LEMMA EmptySum ==
  ASSUME NEW S, NEW f, NEW pick, NEW sum, SumsUp(sum, f, pick, S)
  PROVE  sum[{}] = 0
BY DEF SumsUp

LEMMA SumUnfolds ==
  ASSUME NEW S, NEW f, NEW pick, Picks(pick, S), NEW sum, SumsUp(sum, f, pick, S),
         NEW s \in SUBSET S, s # {}
  PROVE  /\ pick[s] \in s
         /\ s \ {pick[s]} \in SUBSET S
         /\ sum[s] = f[pick[s]] + sum[s \ {pick[s]}]
BY DEF SumsUp, Picks

\* A sum is an integer, or a natural number, when its terms are.
LEMMA SumType ==
  ASSUME NEW S, IsFiniteSet(S), NEW f, \A x \in S : f[x] \in Int,
         NEW pick, Picks(pick, S), NEW sum, SumsUp(sum, f, pick, S), NEW s \in SUBSET S
  PROVE  sum[s] \in Int /\ ((\A x \in S : f[x] \in Nat) => sum[s] \in Nat)
<1> DEFINE Typed(t) == sum[t] \in Int /\ ((\A x \in S : f[x] \in Nat) => sum[t] \in Nat)
           Bad == {t \in SUBSET S : ~Typed(t)}
<1>1. Bad \in SUBSET (SUBSET S) /\ (s \in Bad \/ Typed(s))
  OBVIOUS
<1>2. ASSUME NEW t \in Bad, \A u \in Bad : u \subseteq t => u = t PROVE FALSE
  <2>1. t \in SUBSET S /\ ~Typed(t) /\ \A u \in SUBSET t : u # t => Typed(u)
    BY <1>2
  <2> HIDE DEF Bad
  <2>2. t = {} => sum[t] = 0
    BY EmptySum, Zenon
  <2>3. t # {}
    BY <2>1, <2>2
  <2>4. pick[t] \in t /\ sum[t] = f[pick[t]] + sum[t \ {pick[t]}]
    BY <2>1, <2>3, SumUnfolds
  <2>5. t \ {pick[t]} \in SUBSET t /\ t \ {pick[t]} # t /\ pick[t] \in S
    BY <2>1, <2>4
  <2>6. Typed(t \ {pick[t]})
    BY <2>1, <2>5
  <2>7. Typed(t)
    BY <2>4, <2>5, <2>6
  <2> QED
    BY <2>1, <2>7
<1> HIDE DEF Bad
<1> QED
  BY <1>1, <1>2, SmallestSet

\* Sums agree where both are defined and their terms agree.
LEMMA SumsAgree ==
  ASSUME NEW S, IsFiniteSet(S), NEW T, NEW f, NEW g,
         NEW pick, Picks(pick, S), Picks(pick, T),
         NEW sum, SumsUp(sum, f, pick, S), NEW total, SumsUp(total, g, pick, T),
         NEW s \in SUBSET S, s \in SUBSET T, \A x \in s : f[x] = g[x]
  PROVE  sum[s] = total[s]
<1> DEFINE Bad == {t \in SUBSET S : t \subseteq s /\ sum[t] # total[t]}
<1>1. Bad \in SUBSET (SUBSET S) /\ (s \in Bad \/ sum[s] = total[s])
  OBVIOUS
<1>2. ASSUME NEW t \in Bad, \A u \in Bad : u \subseteq t => u = t PROVE FALSE
  <2>0. t \in SUBSET S /\ t \in SUBSET T /\ t \subseteq s
    BY <1>2
  <2>1. sum[t] # total[t]
    BY <1>2
  <2> HIDE DEF Bad
  <2>2. t = {} => sum[t] = 0 /\ total[t] = 0
    BY EmptySum, Zenon
  <2>3. t # {}
    BY <2>1, <2>2
  <2>A. pick[t] \in t /\ sum[t] = f[pick[t]] + sum[t \ {pick[t]}]
    BY <2>0, <2>3, SumUnfolds
  <2>B. total[t] = g[pick[t]] + total[t \ {pick[t]}]
    BY <2>0, <2>3, SumUnfolds
  <2>4. /\ pick[t] \in t
        /\ sum[t] = f[pick[t]] + sum[t \ {pick[t]}]
        /\ total[t] = g[pick[t]] + total[t \ {pick[t]}]
    BY <2>A, <2>B
  <2>5. t \ {pick[t]} \in SUBSET t /\ t \ {pick[t]} # t /\ f[pick[t]] = g[pick[t]]
    BY <2>0, <2>4
  <2>6. sum[t \ {pick[t]}] = total[t \ {pick[t]}]
    BY <1>2, <2>0, <2>5 DEF Bad
  <2> QED
    BY <2>1, <2>4, <2>5, <2>6
<1> HIDE DEF Bad
<1> QED
  BY <1>1, <1>2, SmallestSet

\* There is a sum over every finite set.
LEMMA SumExists ==
  ASSUME NEW S, IsFiniteSet(S), NEW f, NEW pick, Picks(pick, S)
  PROVE  \E sum : SumsUp(sum, f, pick, S)
<1> DEFINE Sum(u) == CHOOSE sum : SumsUp(sum, f, pick, u)
           Bad == {t \in SUBSET S : ~SumsUp(Sum(t), f, pick, t)}
<1>1. Bad \in SUBSET (SUBSET S) /\ (S \in Bad \/ SumsUp(Sum(S), f, pick, S))
  OBVIOUS
<1>2. ASSUME NEW t \in Bad, \A u \in Bad : u \subseteq t => u = t PROVE FALSE
  <2>1. /\ t \in SUBSET S /\ ~SumsUp(Sum(t), f, pick, t)
        /\ \A u \in SUBSET t : u # t => SumsUp(Sum(u), f, pick, u)
    BY <1>2
  <2> HIDE DEF Bad, Sum
  <2>P. \A u \in SUBSET t : Picks(pick, u)
    BY <2>1 DEF Picks
  <2> DEFINE whole == [s \in SUBSET t |->
                IF s = {} THEN 0 ELSE f[pick[s]] + Sum(s \ {pick[s]})[s \ {pick[s]}]]
  <2>2. ASSUME NEW u \in SUBSET t, u # t PROVE Sum(u)[u] = whole[u]
    <3>1. SumsUp(Sum(u), f, pick, u) /\ IsFiniteSet(u) /\ u \in SUBSET u /\ Picks(pick, u)
      BY <2>1, <2>2, <2>P, FS_Subset
    <3>E. Sum(u)[{}] = 0
      BY <3>1, EmptySum
    <3>2. u # {} => /\ pick[u] \in u
                    /\ Sum(u)[u] = f[pick[u]] + Sum(u)[u \ {pick[u]}]
      BY <3>1, SumUnfolds
    <3>3. ASSUME u # {} PROVE Sum(u)[u \ {pick[u]}] = Sum(u \ {pick[u]})[u \ {pick[u]}]
      <4> DEFINE w == u \ {pick[u]}
      <4>1. w \in SUBSET t /\ w # t /\ w \in SUBSET u /\ w \in SUBSET w
        BY <2>2, <3>2, <3>3
      <4>2. SumsUp(Sum(w), f, pick, w) /\ Picks(pick, w)
        BY <2>1, <2>P, <4>1
      <4> HIDE DEF w
      <4>3. Sum(u)[w] = Sum(w)[w]
        BY <3>1, <4>1, <4>2, SumsAgree
      <4> QED
        BY <4>3 DEF w
    <3> QED
      BY <2>2, <3>E, <3>2, <3>3
  <2>3. ASSUME NEW s \in SUBSET t, s # {}
        PROVE  whole[s] = f[pick[s]] + whole[s \ {pick[s]}]
    <3>1. pick[s] \in s
      BY <2>1, <2>3 DEF Picks
    <3>2. s \ {pick[s]} \in SUBSET t /\ s \ {pick[s]} # t
      BY <3>1
    <3>3. Sum(s \ {pick[s]})[s \ {pick[s]}] = whole[s \ {pick[s]}]
      BY <2>2, <3>2
    <3>4. whole[s] = f[pick[s]] + Sum(s \ {pick[s]})[s \ {pick[s]}]
      BY <2>3
    <3> QED
      BY <3>3, <3>4
  <2>4. /\ whole = [s \in SUBSET t |-> whole[s]]
        /\ \A s \in SUBSET t : s = {} => whole[s] = 0
    OBVIOUS
  <2> HIDE DEF whole
  <2>5. SumsUp(whole, f, pick, t)
    BY <2>3, <2>4 DEF SumsUp
  <2>6. SumsUp(Sum(t), f, pick, t)
    BY <2>5, Zenon DEF Sum
  <2> QED
    BY <2>1, <2>6
<1> HIDE DEF Bad
<1> QED
  BY <1>1, <1>2, SmallestSet

\* The order in which terms are picked does not matter: any one may come last.
LEMMA SumGrows ==
  ASSUME NEW S, IsFiniteSet(S), NEW f, \A x \in S : f[x] \in Int,
         NEW pick, Picks(pick, S),
         NEW sum, SumsUp(sum, f, pick, S), NEW s \in SUBSET S, NEW x \in S \ s
  PROVE  sum[s \cup {x}] = sum[s] + f[x]
<1>0. ASSUME NEW t \in SUBSET S, t # {}
      PROVE  pick[t] \in t /\ sum[t] = f[pick[t]] + sum[t \ {pick[t]}]
  BY <1>0, SumUnfolds
<1> DEFINE Bad == {t \in SUBSET S : \E y \in S \ t : sum[t \cup {y}] # sum[t] + f[y]}
<1>1. Bad \in SUBSET (SUBSET S) /\ (s \in Bad \/ sum[s \cup {x}] = sum[s] + f[x])
  OBVIOUS
<1>2. ASSUME NEW t \in Bad, \A u \in Bad : u \subseteq t => u = t PROVE FALSE
  <2>1. /\ t \in SUBSET S /\ \E y \in S \ t : sum[t \cup {y}] # sum[t] + f[y]
        /\ \A u \in SUBSET t : u # t =>
             \A y \in S \ u : sum[u \cup {y}] = sum[u] + f[y]
    BY <1>2
  <2> HIDE DEF Bad
  <2>2. PICK y \in S \ t : sum[t \cup {y}] # sum[t] + f[y]
    BY <2>1
  <2> DEFINE more == t \cup {y}
             c == pick[more]
             u == t \ {c}
  <2>3. more \in SUBSET S /\ more # {}
    BY <2>1
  <2>4. c \in more /\ sum[more] = f[c] + sum[more \ {c}]
    <3>1. more \in SUBSET S /\ more # {}
      BY <2>3
    <3> HIDE DEF more
    <3>2. pick[more] \in more /\ sum[more] = f[pick[more]] + sum[more \ {pick[more]}]
      BY <1>0, <3>1
    <3> QED
      BY <3>2
  <2> HIDE DEF c
  <2>5. sum[t] \in Int /\ f[y] \in Int /\ f[c] \in Int /\ u \in SUBSET S /\ sum[u] \in Int
    BY <2>1, <2>3, <2>4, SumType
  <2>6. CASE c = y
    <3>1. more \ {c} = t
      BY <2>6
    <3> HIDE DEF more
    <3>2. sum[more] = f[y] + sum[t]
      BY <2>4, <2>6, <3>1
    <3> QED
      BY <2>2, <2>5, <3>2 DEF more
  <2>7. CASE c # y
    <3>1. /\ c \in t /\ u \in SUBSET t /\ u # t
          /\ more \ {c} = u \cup {y} /\ u \cup {c} = t
          /\ y \in S \ u /\ c \in S \ u
      BY <2>1, <2>4, <2>7
    <3> HIDE DEF u, more
    <3>2. sum[u \cup {y}] = sum[u] + f[y] /\ sum[u \cup {c}] = sum[u] + f[c]
      BY <2>1, <3>1
    <3>3. sum[more] = f[c] + sum[u \cup {y}] /\ sum[t] = sum[u] + f[c]
      BY <2>4, <3>1, <3>2
    <3>4. sum[more] = sum[t] + f[y]
      BY <2>5, <3>2, <3>3
    <3> QED
      BY <2>2, <3>4 DEF more
  <2> QED
    BY <2>6, <2>7
<1> HIDE DEF Bad
<1> QED
  BY <1>1, <1>2, SmallestSet

\* Leaving terms out does not make a sum larger.
LEMMA SumMonotone ==
  ASSUME NEW S, IsFiniteSet(S), NEW f, \A x \in S : f[x] \in Nat,
         NEW pick, Picks(pick, S), NEW sum, SumsUp(sum, f, pick, S), NEW s \in SUBSET S
  PROVE  sum[s] <= sum[S]
<1> DEFINE Bad == {t \in SUBSET S : s \subseteq t /\ ~(sum[s] <= sum[t])}
<1>1. Bad \in SUBSET (SUBSET S) /\ (S \in Bad \/ sum[s] <= sum[S])
  OBVIOUS
<1>2. ASSUME NEW t \in Bad, \A u \in Bad : u \subseteq t => u = t PROVE FALSE
  <2>1. /\ t \in SUBSET S /\ s \subseteq t /\ ~(sum[s] <= sum[t])
        /\ \A u \in SUBSET t : u # t /\ s \subseteq u => sum[s] <= sum[u]
    BY <1>2
  <2> HIDE DEF Bad
  <2>2. sum[s] \in Nat /\ sum[t] \in Nat
    BY <2>1, SumType
  <2>3. PICK x \in t : x \notin s
    <3>1. s # t /\ s \subseteq t
      BY <2>1, <2>2
    <3> QED
      BY <3>1
  <2> DEFINE u == t \ {x}
  <2>4. /\ u \in SUBSET S /\ u \in SUBSET t /\ u # t /\ s \subseteq u
        /\ x \in S \ u /\ u \cup {x} = t
    BY <2>1, <2>3
  <2> HIDE DEF u
  <2>5. sum[u \cup {x}] = sum[u] + f[x] /\ sum[u] \in Nat /\ f[x] \in Nat
    BY <2>4, SumGrows, SumType
  <2>6. sum[s] <= sum[u]
    BY <2>1, <2>4
  <2>7. sum[t] = sum[u] + f[x]
    BY <2>4, <2>5
  <2> QED
    BY <2>1, <2>2, <2>5, <2>6, <2>7
<1> HIDE DEF Bad
<1> QED
  BY <1>1, <1>2, SmallestSet

\* The sum of f over S, and what it shares with every other such sum.
Sum(f, pick, S) == (CHOOSE sum : SumsUp(sum, f, pick, S))[S]

LEMMA SumAddsUp ==
  ASSUME NEW S, IsFiniteSet(S), NEW f, NEW pick, Picks(pick, S)
  PROVE  \E sum : SumsUp(sum, f, pick, S) /\ Sum(f, pick, S) = sum[S]
<1>1. \E sum : SumsUp(sum, f, pick, S)
  BY SumExists
<1>2. SumsUp(CHOOSE sum : SumsUp(sum, f, pick, S), f, pick, S)
  BY <1>1, Zenon
<1> QED
  BY <1>2, Zenon DEF Sum

LEMMA SumOfNone ==
  ASSUME NEW f, NEW pick
  PROVE  Sum(f, pick, {}) = 0
<1>1. IsFiniteSet({}) /\ Picks(pick, {})
  BY FS_EmptySet DEF Picks
<1>2. PICK sum : SumsUp(sum, f, pick, {}) /\ Sum(f, pick, {}) = sum[{}]
  BY <1>1, SumAddsUp
<1> QED
  BY <1>2, EmptySum

LEMMA SumOfSame ==
  ASSUME NEW S, IsFiniteSet(S), NEW f, NEW g, \A x \in S : f[x] = g[x],
         NEW pick, Picks(pick, S)
  PROVE  Sum(f, pick, S) = Sum(g, pick, S)
<1>1. PICK T : T = S
  OBVIOUS
<1>2. PICK sum : SumsUp(sum, f, pick, S) /\ Sum(f, pick, S) = sum[S]
  BY SumAddsUp
<1>3. PICK total : SumsUp(total, g, pick, S) /\ Sum(g, pick, S) = total[S]
  BY SumAddsUp
<1>4. SumsUp(total, g, pick, T) /\ Picks(pick, T) /\ S \in SUBSET T /\ S \in SUBSET S
  BY <1>1, <1>3
<1>5. sum[S] = total[S]
  BY <1>2, <1>4, SumsAgree
<1> QED
  BY <1>2, <1>3, <1>5

LEMMA SumOfNumbers ==
  ASSUME NEW S, IsFiniteSet(S), NEW f, \A x \in S : f[x] \in Int,
         NEW pick, Picks(pick, S)
  PROVE  Sum(f, pick, S) \in Int /\ ((\A x \in S : f[x] \in Nat) => Sum(f, pick, S) \in Nat)
<1>1. PICK sum : SumsUp(sum, f, pick, S) /\ Sum(f, pick, S) = sum[S]
  BY SumAddsUp
<1>2. S \in SUBSET S
  OBVIOUS
<1>3. sum[S] \in Int /\ ((\A x \in S : f[x] \in Nat) => sum[S] \in Nat)
  BY <1>1, <1>2, SumType
<1> QED
  BY <1>1, <1>3

\* One term more, in any order.
LEMMA SumOfOneMore ==
  ASSUME NEW S, IsFiniteSet(S), NEW x, x \notin S, NEW T, T = S \cup {x},
         NEW f, \A y \in T : f[y] \in Int, NEW pick, Picks(pick, T)
  PROVE  Sum(f, pick, T) = Sum(f, pick, S) + f[x]
<1>1. /\ IsFiniteSet(T) /\ S \in SUBSET T /\ S \in SUBSET S /\ x \in T \ S
      /\ Picks(pick, T) /\ Picks(pick, S) /\ \A y \in T : f[y] \in Int
  BY FS_AddElement DEF Picks
<1>2. PICK sum : SumsUp(sum, f, pick, S) /\ Sum(f, pick, S) = sum[S]
  BY <1>1, SumAddsUp
<1>3. PICK total : SumsUp(total, f, pick, T) /\ Sum(f, pick, T) = total[T]
  BY <1>1, SumAddsUp
<1>4. total[S \cup {x}] = total[S] + f[x]
  BY <1>1, <1>3, SumGrows
<1>5. sum[S] = total[S]
  BY <1>1, <1>2, <1>3, SumsAgree
<1> QED
  BY <1>2, <1>3, <1>4, <1>5

LEMMA SumOfPart ==
  ASSUME NEW S, IsFiniteSet(S), NEW s \in SUBSET S, NEW f, \A x \in S : f[x] \in Nat,
         NEW pick, Picks(pick, S)
  PROVE  Sum(f, pick, s) <= Sum(f, pick, S)
<1>1. IsFiniteSet(s) /\ Picks(pick, s) /\ s \in SUBSET s
  BY FS_Subset DEF Picks
<1>2. PICK sum : SumsUp(sum, f, pick, s) /\ Sum(f, pick, s) = sum[s]
  BY <1>1, SumAddsUp
<1>3. PICK total : SumsUp(total, f, pick, S) /\ Sum(f, pick, S) = total[S]
  BY SumAddsUp
<1>4. total[s] <= total[S]
  BY <1>3, SumMonotone
<1>5. sum[s] = total[s]
  BY <1>1, <1>2, <1>3, SumsAgree
<1> QED
  BY <1>2, <1>3, <1>4, <1>5

\* A sum of terms that are at most c.
LEMMA SumIsBounded ==
  ASSUME NEW c \in Nat, NEW S, IsFiniteSet(S), NEW f, \A x \in S : f[x] \in 0..c,
         NEW pick, Picks(pick, S)
  PROVE  Sum(f, pick, S) <= c * Cardinality(S)
<1>1. PICK sum : SumsUp(sum, f, pick, S) /\ Sum(f, pick, S) = sum[S]
  BY SumAddsUp
<1>2. \A s \in SUBSET S : IsFiniteSet(s) /\ Cardinality(s) \in Nat /\ sum[s] \in Int
  BY <1>1, FS_Subset, FS_CardinalityType, SumType
<1> DEFINE Bad == {t \in SUBSET S : ~(sum[t] <= c * Cardinality(t))}
<1>3. Bad \in SUBSET (SUBSET S) /\ (S \in Bad \/ sum[S] <= c * Cardinality(S))
  OBVIOUS
<1>4. ASSUME NEW t \in Bad, \A u \in Bad : u \subseteq t => u = t PROVE FALSE
  <2>1. /\ t \in SUBSET S /\ ~(sum[t] <= c * Cardinality(t))
        /\ \A u \in SUBSET t : u # t => sum[u] <= c * Cardinality(u)
    BY <1>4
  <2> HIDE DEF Bad
  <2>E. sum[{}] <= c * Cardinality({})
    <3>1. sum[{}] = 0 /\ Cardinality({}) = 0 /\ c * 0 = 0
      BY <1>1, EmptySum, FS_EmptySet
    <3> QED
      BY <3>1
  <2>2. t # {}
    BY <2>1, <2>E
  <2>3. pick[t] \in t /\ sum[t] = f[pick[t]] + sum[t \ {pick[t]}]
    BY <1>1, <2>1, <2>2, SumUnfolds
  <2>4. PICK u \in SUBSET t : u # t /\ sum[t] = f[pick[t]] + sum[u] /\ u = t \ {pick[t]}
    BY <2>3
  <2>5. Cardinality(t) = Cardinality(u) + 1
    BY <1>2, <2>1, <2>3, <2>4, FS_RemoveElement
  <2>6. sum[u] <= c * Cardinality(u) /\ f[pick[t]] \in 0..c
    BY <2>1, <2>3, <2>4
  <2>7. \A n \in Nat : c * (n + 1) = c * n + c /\ c * n \in Nat
    OBVIOUS
  <2>8. c * Cardinality(t) = c * Cardinality(u) + c /\ c * Cardinality(u) \in Nat
    BY <1>2, <2>1, <2>5, <2>7
  <2> QED
    BY <1>2, <2>1, <2>4, <2>6, <2>8
<1> HIDE DEF Bad
<1> QED
  BY <1>1, <1>3, <1>4, SmallestSet

\* The order in which MapThenSumSet takes its terms.
Pick(s) == CHOOSE x \in s : TRUE
Picking(S) == [s \in SUBSET S |-> Pick(s)]

LEMMA AnyPicks ==
  ASSUME NEW S
  PROVE  \A T \in SUBSET S : Picks(Picking(S), T)
<1> SUFFICES ASSUME NEW T \in SUBSET S, NEW s \in SUBSET T, s # {}
             PROVE  Picking(S)[s] \in s
  BY DEF Picks
<1>1. Pick(s) \in s
  BY Zenon DEF Pick
<1> QED
  BY <1>1 DEF Picking
=============================================================================
