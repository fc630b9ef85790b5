------------------------------ MODULE FiniteSums ------------------------------
(* Sums of finite families of integers: what FoldFunction(+, 0, f) computes,   *)
(* however it chooses the order.  The amounts of an outcome, the holdings of    *)
(* the channels and the funding milestones are such sums.                       *)
EXTENDS Integers, FiniteSets, Functions, FiniteSetTheorems, TLAPS

SumAll(f) == FoldFunction(+, 0, f)

------------------------------------------------------------------------------
(* Induction, stated with sets instead of predicates. *)

\* A nonempty set of natural numbers has a least element.
LEMMA LeastElement ==
  ASSUME NEW T \in SUBSET Nat, T # {}
  PROVE  \E x \in T : \A y \in T : x <= y
<1>. DEFINE R == {ss \in Nat \X Nat : ss[1] < ss[2]}
<1>1. IsWellFoundedOn(R, Nat)
  BY NatLessThanWellFounded DEF OpToRel
<1>2. \A y, x \in Nat : <<y, x>> \notin R => x <= y
  OBVIOUS
<1>. HIDE DEF R
<1>3. \E x \in T : \A y \in T : ~ (<<y, x>> \in R)
  BY <1>1, WFMin
<1>. QED  BY <1>2, <1>3

\* Induction over the natural numbers.
LEMMA NatSetInduction ==
  ASSUME NEW P, 0 \in P, \A m \in Nat : m \in P => m + 1 \in P
  PROVE  Nat \subseteq P
<1>. DEFINE Bad == {m \in Nat : m \notin P}
<1>1. SUFFICES ASSUME Bad # {} PROVE FALSE
  OBVIOUS
<1>2. PICK m \in Bad : \A k \in Bad : m <= k
  <2>1. Bad \in SUBSET Nat
    OBVIOUS
  <2>. HIDE DEF Bad
  <2>. QED  BY <1>1, <2>1, LeastElement
<1>3. m \in Nat /\ m - 1 \in Nat /\ ~ (m <= m - 1)
  BY <1>2
<1>4. m - 1 \in P
  BY <1>2, <1>3
<1>. QED  BY <1>2, <1>3, <1>4

\* A set of subsets of a finite set that has the empty set, and with a subset each that
\* has one element more, has all of them.
LEMMA SubsetInduction ==
  ASSUME NEW S, IsFiniteSet(S), NEW P, {} \in P,
         \A T \in SUBSET S : \A x \in S \ T : T \in P => T \union {x} \in P
  PROVE  SUBSET S \subseteq P
<1>. DEFINE Bad == {m \in Nat : \E T \in SUBSET S : T \notin P /\ Cardinality(T) = m}
<1>1. SUFFICES ASSUME NEW U \in SUBSET S, U \notin P PROVE FALSE
  OBVIOUS
<1>2. \A T \in SUBSET S : IsFiniteSet(T) /\ Cardinality(T) \in Nat
  BY FS_Subset, FS_CardinalityType
<1>3. PICK m \in Bad : \A k \in Bad : m <= k
  <2>1. Bad # {} /\ Bad \in SUBSET Nat
    BY <1>1, <1>2
  <2>. HIDE DEF Bad
  <2>. QED  BY <2>1, LeastElement
<1>4. PICK T \in SUBSET S : T \notin P /\ Cardinality(T) = m
  BY <1>3
<1>5. PICK x : x \in T
  BY <1>4
<1>6. IsFiniteSet(T \ {x}) /\ Cardinality(T \ {x}) = m - 1 /\ Cardinality(T \ {x}) \in Nat
  BY <1>2, <1>4, <1>5, FS_RemoveElement
<1>7. m - 1 \notin Bad
  <2>1. m \in Nat
    BY <1>3
  <2>2. ~ (m <= m - 1)
    BY <2>1, SMT
  <2>. QED  BY <1>3, <2>2
<1>8. T \ {x} \in P
  BY <1>6, <1>7
<1>9. x \in S \ (T \ {x}) /\ (T \ {x}) \union {x} = T
  BY <1>5
<1>. QED  BY <1>4, <1>8, <1>9

\* Induction along a loop of n rounds.
LEMMA LoopInduction ==
  ASSUME NEW n \in Nat, NEW P, 0 \in P, \A i \in 1 .. n : i - 1 \in P => i \in P
  PROVE  0 .. n \subseteq P
<1>. DEFINE Q == {m \in Nat : m <= n => m \in P}
<1>1. 0 \in Q /\ \A m \in Nat : m \in Q => m + 1 \in Q
  <2>. SUFFICES ASSUME NEW m \in Nat, m \in Q, m + 1 <= n PROVE m + 1 \in P
    OBVIOUS
  <2>1. m + 1 \in 1 .. n /\ (m + 1) - 1 = m /\ m \in P
    OBVIOUS
  <2>. QED  BY <2>1
<1>2. Nat \subseteq Q
  <2>. HIDE DEF Q
  <2>. QED  BY <1>1, NatSetInduction
<1>. QED  BY <1>2

\* The rounds of a loop: F[i][y] is what round i makes of y.
Loops(n, Y, base, F) ==
  {g \in [0 .. n -> Y] : g[0] = base /\ \A i \in 1 .. n : g[i] = F[i][g[i - 1]]}

\* A loop has a result after every round.
LEMMA LoopExists ==
  ASSUME NEW n \in Nat, NEW Y, NEW base \in Y, NEW F \in [1 .. n -> [Y -> Y]]
  PROVE  Loops(n, Y, base, F) # {}
<1>. DEFINE Loop(m, g) == g[0] = base /\ \A i \in 1 .. m : g[i] = F[i][g[i - 1]]
            P == {m \in Nat : \E g \in [0 .. m -> Y] : Loop(m, g)}
<1>1. 0 \in P
  <2>. DEFINE g == [i \in 0 .. 0 |-> base]
  <2>1. g \in [0 .. 0 -> Y] /\ Loop(0, g)
    OBVIOUS
  <2>. QED  BY <2>1
<1>2. \A m \in 1 .. n : m - 1 \in P => m \in P
  <2>. SUFFICES ASSUME NEW m \in 1 .. n, m - 1 \in P PROVE m \in P
    OBVIOUS
  <2>1. PICK g \in [0 .. m - 1 -> Y] : Loop(m - 1, g)
    OBVIOUS
  <2>. DEFINE h == [i \in 0 .. m |-> IF i = m THEN F[m][g[m - 1]] ELSE g[i]]
  <2>2. g[m - 1] \in Y /\ F[m][g[m - 1]] \in Y
    OBVIOUS
  <2>3. h \in [0 .. m -> Y]
    BY <2>2
  <2>4. ASSUME NEW i \in 1 .. m PROVE h[i] = F[i][h[i - 1]]
    <3>1. i - 1 \in 0 .. m /\ i - 1 # m /\ h[i - 1] = g[i - 1]
      OBVIOUS
    <3>2. CASE i = m
      BY <3>1, <3>2
    <3>3. CASE i # m
      <4>1. i \in 1 .. m - 1 /\ h[i] = g[i]
        BY <3>3
      <4>2. g[i] = F[i][g[i - 1]]
        BY <2>1, <4>1
      <4>. QED  BY <3>1, <4>1, <4>2, Zenon
    <3>. QED  BY <3>2, <3>3
  <2>5. h[0] = base
    BY <2>1
  <2>. HIDE DEF h
  <2>6. Loop(m, h)
    BY <2>4, <2>5
  <2>. HIDE DEF Loop
  <2>. QED  BY <2>3, <2>6
<1>3. 0 .. n \subseteq P
  <2>. HIDE DEF P
  <2>. QED  BY <1>1, <1>2, LoopInduction
<1>4. n \in P
  <2>1. n \in 0 .. n
    OBVIOUS
  <2>. HIDE DEF P
  <2>. QED  BY <1>3, <2>1
<1>. QED  BY <1>4 DEF Loops

\* The results of a fold over S for each of its subsets, whichever element it takes next:
\* F[x][y] is what x makes of y.
FoldResults(S, pick, Y, base, F) ==
  {g \in [SUBSET S -> Y] :
     \A s \in SUBSET S : g[s] = IF s = {} THEN base ELSE F[pick[s]][g[s \ {pick[s]}]]}

\* A fold over a finite set has results.
LEMMA FoldRounds ==
  ASSUME NEW S, IsFiniteSet(S), NEW pick, \A s \in SUBSET S : s # {} => pick[s] \in s,
         NEW Y, NEW base \in Y, NEW F \in [S -> [Y -> Y]]
  PROVE  FoldResults(S, pick, Y, base, F) # {}
<1>. DEFINE Small(m) == {s \in SUBSET S : Cardinality(s) <= m}
            Round(g, s) == IF s = {} THEN base ELSE F[pick[s]][g[s \ {pick[s]}]]
            P == {m \in Nat : \E g \in [Small(m) -> Y] : \A s \in Small(m) : g[s] = Round(g, s)}
<1>1. \A s \in SUBSET S : IsFiniteSet(s) /\ Cardinality(s) \in Nat
  BY FS_Subset, FS_CardinalityType
<1>2. ASSUME NEW m \in Nat, NEW s \in Small(m), s # {}
      PROVE  s \ {pick[s]} \in Small(m - 1) /\ pick[s] \in S
  <2>1. PICK x \in s : x = pick[s]
    BY <1>2
  <2>2. s \in SUBSET S /\ Cardinality(s) <= m /\ IsFiniteSet(s) /\ Cardinality(s) \in Nat
    BY <1>1
  <2>3. Cardinality(s \ {x}) = Cardinality(s) - 1
    BY <2>2, FS_RemoveElement
  <2>. QED  BY <2>1, <2>2, <2>3
<1>3. 0 \in P
  <2>1. \A s \in Small(0) : s = {}
    BY <1>1, FS_EmptySet
  <2>2. PICK g : g = [s \in Small(0) |-> base]
    OBVIOUS
  <2>. HIDE DEF Small
  <2>3. g \in [Small(0) -> Y] /\ \A s \in Small(0) : g[s] = Round(g, s)
    BY <2>1, <2>2
  <2>. QED  BY <2>3
<1>4. ASSUME NEW m \in Nat, m \in P PROVE m + 1 \in P
  <2>1. PICK g \in [Small(m) -> Y] : \A s \in Small(m) : g[s] = Round(g, s)
    BY <1>4
  <2>2. PICK h : h = [s \in Small(m + 1) |-> Round(g, s)]
    OBVIOUS
  <2>3. Small(m) \subseteq Small(m + 1)
    BY <1>1
  <2>4. \A s \in Small(m + 1) : s # {} => s \ {pick[s]} \in Small(m) /\ pick[s] \in S
    <3>1. m + 1 \in Nat /\ (m + 1) - 1 = m
      OBVIOUS
    <3>. HIDE DEF Small
    <3>. QED  BY <1>2, <3>1
  <2>. HIDE DEF Small
  <2>5. \A s \in Small(m) : h[s] = g[s]
    BY <2>1, <2>2, <2>3
  <2>6. ASSUME NEW s \in Small(m + 1) PROVE h[s] \in Y /\ h[s] = Round(h, s)
    <3>1. CASE s = {}
      BY <2>2, <3>1
    <3>2. CASE s # {}
      <4>1. PICK t \in Small(m) : t = s \ {pick[s]}
        BY <2>4, <3>2
      <4>2. h[t] = g[t] /\ g[t] \in Y /\ pick[s] \in S
        BY <2>4, <2>5, <3>2, <4>1
      <4>3. h[s] = F[pick[s]][g[t]]
        BY <2>2, <3>2, <4>1
      <4>4. F[pick[s]] \in [Y -> Y]
        BY <4>2
      <4>5. F[pick[s]][g[t]] \in Y
        BY <4>2, <4>4
      <4>. QED  BY <3>2, <4>1, <4>2, <4>3, <4>5
    <3>. QED  BY <3>1, <3>2
  <2>7. h \in [Small(m + 1) -> Y]
    BY <2>2, <2>6
  <2>. HIDE DEF Round
  <2>8. m + 1 \in Nat
    OBVIOUS
  <2>. QED  BY <2>6, <2>7, <2>8
<1>5. Cardinality(S) \in P
  <2>. HIDE DEF P
  <2>. QED  BY <1>1, <1>3, <1>4, NatSetInduction
<1>6. Small(Cardinality(S)) = SUBSET S
  BY FS_Subset
<1>7. \E g \in [Small(Cardinality(S)) -> Y] : \A s \in Small(Cardinality(S)) : g[s] = Round(g, s)
  BY <1>5
<1>. HIDE DEF Small
<1>. QED  BY <1>6, <1>7 DEF FoldResults

------------------------------------------------------------------------------
(* The recursion behind the fold. *)

Choice(s) == CHOOSE x \in s : TRUE

\* What FoldFunction computes on the way, for the subsets of S.
Folds(f, S, g) ==
  g = [s \in SUBSET S |-> IF s = {} THEN 0 ELSE f[Choice(s)] + g[s \ {Choice(s)}]]

\* The element that is chosen is one of them.
LEMMA ChoiceIn == ASSUME NEW s, s # {} PROVE Choice(s) \in s
BY DEF Choice

\* There is such a function.
LEMMA FoldExists ==
  ASSUME NEW f, NEW S, IsFiniteSet(S)
  PROVE  \E g : Folds(f, S, g)
<1>. DEFINE Small(m) == {s \in SUBSET S : Cardinality(s) <= m}
            Next(g, s) == IF s = {} THEN 0 ELSE f[Choice(s)] + g[s \ {Choice(s)}]
            P == {m \in Nat : \E g : g = [s \in Small(m) |-> Next(g, s)]}
<1>1. \A s \in SUBSET S : IsFiniteSet(s) /\ Cardinality(s) \in Nat
  BY FS_Subset, FS_CardinalityType
<1>2. ASSUME NEW m \in Nat, NEW g,
             \A s \in Small(m) : s # {} => s \ {Choice(s)} \in Small(m - 1),
             g = [s \in Small(m - 1) |-> Next(g, s)]
      PROVE  \E h : h = [s \in Small(m) |-> Next(h, s)]
  <2>. DEFINE h == [s \in Small(m) |-> Next(g, s)]
  <2>1. Small(m - 1) \subseteq Small(m)
    BY <1>1
  <2>. HIDE DEF Small
  <2>2. \A s \in Small(m - 1) : h[s] = g[s]
    BY <1>2, <2>1
  <2>3. ASSUME NEW s \in Small(m) PROVE Next(h, s) = Next(g, s)
    <3>. HIDE DEF h
    <3>1. s # {} => h[s \ {Choice(s)}] = g[s \ {Choice(s)}]
      BY <1>2, <2>2
    <3>. QED  BY <3>1
  <2>4. h = [s \in Small(m) |-> Next(h, s)]
    <3>. HIDE DEF Next
    <3>. QED  BY <2>3
  <2>. QED  BY <2>4
<1>3. ASSUME NEW m \in Nat, NEW s \in Small(m), s # {}
      PROVE  s \ {Choice(s)} \in Small(m - 1)
  BY <1>1, <1>3, ChoiceIn, FS_RemoveElement
<1>4. 0 \in P
  <2>1. Small(0 - 1) = {}
    BY <1>1
  <2>. DEFINE g == [s \in Small(0 - 1) |-> 0]
  <2>2. g = [s \in Small(0 - 1) |-> Next(g, s)]
    BY <2>1
  <2>. HIDE DEF Small, Next, g
  <2>3. \E h : h = [s \in Small(0) |-> Next(h, s)]
    BY <1>2, <1>3, <2>2
  <2>. QED  BY <2>3
<1>5. ASSUME NEW m \in Nat, m \in P PROVE m + 1 \in P
  <2>1. PICK g : g = [s \in Small(m) |-> Next(g, s)]
    BY <1>5
  <2>2. m + 1 \in Nat /\ (m + 1) - 1 = m
    OBVIOUS
  <2>. HIDE DEF Small, Next
  <2>3. \E h : h = [s \in Small(m + 1) |-> Next(h, s)]
    BY <1>2, <1>3, <2>1, <2>2
  <2>. QED  BY <2>2, <2>3
<1>6. Cardinality(S) \in P
  <2>. HIDE DEF P
  <2>. QED  BY <1>1, <1>4, <1>5, NatSetInduction
<1>7. Small(Cardinality(S)) = SUBSET S
  BY FS_Subset
<1>. HIDE DEF Small
<1>. QED  BY <1>6, <1>7 DEF Folds

\* FoldFunction computes one of them.
LEMMA SumFolds ==
  ASSUME NEW f, IsFiniteSet(DOMAIN f)
  PROVE  \E g : Folds(f, DOMAIN f, g) /\ SumAll(f) = g[DOMAIN f]
<1>. DEFINE iter == CHOOSE g : Folds(f, DOMAIN f, g)
<1>1. Folds(f, DOMAIN f, iter)
  BY FoldExists
<1>2. SumAll(f) = iter[DOMAIN f]
  BY DEF SumAll, FoldFunction, FoldFunctionOnSet, MapThenFoldSet, Folds, Choice
<1>. QED  BY <1>1, <1>2

\* It does not matter in which order the elements are taken.
LEMMA FoldAdds ==
  ASSUME NEW S, IsFiniteSet(S), NEW f \in [S -> Int], NEW g, Folds(f, S, g)
  PROVE  \A s \in SUBSET S : /\ g[s] \in Int
                             /\ \A x \in S \ s : g[s \union {x}] = f[x] + g[s]
<1>. DEFINE Adds(s) == g[s] \in Int /\ \A x \in S \ s : g[s \union {x}] = f[x] + g[s]
            P == {m \in Nat : \A s \in SUBSET S : Cardinality(s) = m => Adds(s)}
<1>1. \A s \in SUBSET S : IsFiniteSet(s) /\ Cardinality(s) \in Nat
  BY FS_Subset, FS_CardinalityType
<1>2. \A s \in SUBSET S : g[s] = IF s = {} THEN 0 ELSE f[Choice(s)] + g[s \ {Choice(s)}]
  BY DEF Folds
<1>3. ASSUME NEW s \in SUBSET S, \A t \in SUBSET S : Cardinality(t) + 1 = Cardinality(s) => Adds(t)
      PROVE  Adds(s)
  <2>1. ASSUME NEW c \in s PROVE Adds(s \ {c})
    <3>1. Cardinality(s \ {c}) + 1 = Cardinality(s)
      BY <1>1, FS_RemoveElement
    <3>. QED  BY <1>3, <3>1
  <2>2. g[s] \in Int
    <3>1. CASE s = {}
      <4>1. g[s] = 0
        BY <1>2, <3>1, Zenon
      <4>. QED  BY <4>1
    <3>2. CASE s # {}
      <4>1. Choice(s) \in s /\ g[s] = f[Choice(s)] + g[s \ {Choice(s)}]
        BY <1>2, <3>2, ChoiceIn
      <4>2. g[s \ {Choice(s)}] \in Int /\ f[Choice(s)] \in Int
        BY <2>1, <4>1
      <4>. QED  BY <4>1, <4>2
    <3>. QED  BY <3>1, <3>2
  <2>3. ASSUME NEW x \in S \ s PROVE g[s \union {x}] = f[x] + g[s]
    <3>. DEFINE t == s \union {x}
                c == Choice(t)
    <3>1. t \in SUBSET S /\ t # {} /\ c \in t /\ g[t] = f[c] + g[t \ {c}]
      BY <1>2, ChoiceIn
    <3>2. CASE c = x
      BY <3>1, <3>2
    <3>3. CASE c # x
      <4>1. c \in s /\ t \ {c} = (s \ {c}) \union {x} /\ x \in S \ (s \ {c})
            /\ c \in S \ (s \ {c}) /\ (s \ {c}) \union {c} = s
        BY <3>1, <3>3
      <4>. HIDE DEF t, c
      <4>2. /\ g[(s \ {c}) \union {x}] = f[x] + g[s \ {c}]
            /\ g[s] = f[c] + g[s \ {c}] /\ g[s \ {c}] \in Int
        BY <2>1, <4>1
      <4>3. f[c] \in Int /\ f[x] \in Int
        BY <4>1
      <4>4. g[t] = f[c] + (f[x] + g[s \ {c}])
        BY <3>1, <4>1, <4>2
      <4>5. g[t] = f[x] + g[s]
        BY <4>2, <4>3, <4>4
      <4>. QED  BY <4>5 DEF t
    <3>. QED  BY <3>2, <3>3
  <2>. QED  BY <2>2, <2>3
<1>. HIDE DEF Adds
<1>4. 0 \in P
  BY <1>1, <1>3
<1>5. ASSUME NEW m \in Nat, m \in P PROVE m + 1 \in P
  BY <1>1, <1>3, <1>5
<1>6. Nat \subseteq P
  <2>. HIDE DEF P
  <2>. QED  BY <1>4, <1>5, NatSetInduction
<1>. QED  BY <1>1, <1>6 DEF Adds

------------------------------------------------------------------------------
(* What a sum is: it is nothing of no elements, and grows by each that is added. *)

\* A sum of nothing.
LEMMA SumEmpty == ASSUME NEW f, DOMAIN f = {} PROVE SumAll(f) = 0
<1>1. PICK g : Folds(f, {}, g) /\ SumAll(f) = g[{}]
  BY SumFolds, FS_EmptySet
<1>. QED  BY <1>1 DEF Folds

\* A sum of integers is one.
LEMMA SumInt ==
  ASSUME NEW S, IsFiniteSet(S), NEW f \in [S -> Int]
  PROVE  SumAll(f) \in Int
<1>1. PICK g : Folds(f, S, g) /\ SumAll(f) = g[S]
  BY SumFolds
<1>. QED  BY <1>1, FoldAdds

\* One element and the rest.
LEMMA SumRemove ==
  ASSUME NEW T, IsFiniteSet(T), NEW f \in [T -> Int], NEW x \in T
  PROVE  SumAll(f) = f[x] + SumAll([y \in T \ {x} |-> f[y]])
<1>1. SUFFICES ASSUME NEW S, S = T \ {x}, NEW h, h = [y \in S |-> f[y]]
               PROVE  SumAll(f) = f[x] + SumAll(h)
  OBVIOUS
<1>2. /\ IsFiniteSet(S) /\ h \in [S -> Int] /\ DOMAIN h = S /\ DOMAIN f = T
      /\ S \subseteq T /\ S \union {x} = T /\ x \notin S
  BY <1>1, FS_Subset
<1>3. PICK g : Folds(f, T, g) /\ SumAll(f) = g[T]
  BY <1>2, SumFolds
<1>4. PICK k : Folds(h, S, k) /\ SumAll(h) = k[S]
  BY <1>2, SumFolds
<1>5. \A s \in SUBSET T : g[s] \in Int /\ \A z \in T \ s : g[s \union {z}] = f[z] + g[s]
  BY <1>3, FoldAdds
<1>6. \A s \in SUBSET S : k[s] \in Int /\ \A z \in S \ s : k[s \union {z}] = h[z] + k[s]
  BY <1>2, <1>4, FoldAdds
<1>. DEFINE P == {s \in SUBSET S : g[s] = k[s]}
<1>7. {} \in P
  BY <1>3, <1>4 DEF Folds
<1>8. \A s \in SUBSET S : \A z \in S \ s : s \in P => s \union {z} \in P
  <2>. SUFFICES ASSUME NEW s \in SUBSET S, NEW z \in S \ s, s \in P PROVE s \union {z} \in P
    OBVIOUS
  <2>1. g[s \union {z}] = f[z] + g[s] /\ k[s \union {z}] = f[z] + k[s]
    BY <1>1, <1>2, <1>5, <1>6
  <2>. QED  BY <2>1
<1>9. SUBSET S \subseteq P
  <2>. HIDE DEF P
  <2>1. IsFiniteSet(S)
    BY <1>2
  <2>. QED  BY <2>1, <1>7, <1>8, SubsetInduction
<1>10. g[S] = k[S] /\ g[T] = f[x] + g[S]
  BY <1>2, <1>5, <1>9
<1>. QED  BY <1>3, <1>4, <1>10

\* The sum over some of the elements.
SumOn(f, s) == SumAll([y \in s |-> f[y]])

\* It grows with the elements, up to the sum over all of them.
LEMMA SumOnFacts ==
  ASSUME NEW S, IsFiniteSet(S), NEW f \in [S -> Int]
  PROVE  /\ SumOn(f, {}) = 0
         /\ \A s \in SUBSET S : SumOn(f, s) \in Int
         /\ \A s \in SUBSET S : \A x \in S \ s : SumOn(f, s \union {x}) = f[x] + SumOn(f, s)
         /\ SumOn(f, S) = SumAll(f)
<1>1. SumOn(f, {}) = 0
  BY SumEmpty DEF SumOn
<1>2. ASSUME NEW s \in SUBSET S PROVE SumOn(f, s) \in Int
  <2>1. IsFiniteSet(s) /\ [y \in s |-> f[y]] \in [s -> Int]
    BY FS_Subset
  <2>. QED  BY <2>1, SumInt DEF SumOn
<1>3. ASSUME NEW s \in SUBSET S, NEW x \in S \ s
      PROVE  SumOn(f, s \union {x}) = f[x] + SumOn(f, s)
  <2>1. PICK T : T = s \union {x}
    OBVIOUS
  <2>2. PICK g : g = [y \in T |-> f[y]]
    OBVIOUS
  <2>3. T \in SUBSET S /\ x \in T /\ T \ {x} = s /\ g \in [T -> Int] /\ g[x] = f[x]
    BY <2>1, <2>2
  <2>4. IsFiniteSet(T)
    BY <2>3, FS_Subset
  <2>5. SumAll(g) = g[x] + SumAll([y \in T \ {x} |-> g[y]])
    BY <2>3, <2>4, SumRemove
  <2>6. [y \in T \ {x} |-> g[y]] = [y \in s |-> f[y]]
    BY <2>2, <2>3
  <2>. QED  BY <2>1, <2>2, <2>3, <2>5, <2>6 DEF SumOn
<1>4. SumOn(f, S) = SumAll(f)
  <2>1. [y \in S |-> f[y]] = f
    OBVIOUS
  <2>. QED  BY <2>1 DEF SumOn
<1>. QED  BY <1>1, <1>2, <1>3, <1>4

\* A sum is not larger when no element is.
LEMMA SumLeq ==
  ASSUME NEW S, IsFiniteSet(S), NEW f \in [S -> Int], NEW g \in [S -> Int],
         \A x \in S : f[x] <= g[x]
  PROVE  SumAll(f) <= SumAll(g)
<1>. DEFINE P == {s \in SUBSET S : SumOn(f, s) <= SumOn(g, s)}
<1>1. {} \in P
  BY SumOnFacts
<1>2. \A s \in SUBSET S : \A x \in S \ s : s \in P => s \union {x} \in P
  <2>. SUFFICES ASSUME NEW s \in SUBSET S, NEW x \in S \ s, s \in P PROVE s \union {x} \in P
    OBVIOUS
  <2>1. /\ SumOn(f, s \union {x}) = f[x] + SumOn(f, s) /\ SumOn(f, s) \in Int
        /\ SumOn(g, s \union {x}) = g[x] + SumOn(g, s) /\ SumOn(g, s) \in Int
    BY SumOnFacts
  <2>. QED  BY <2>1
<1>3. SUBSET S \subseteq P
  <2>. HIDE DEF P
  <2>. QED  BY <1>1, <1>2, SubsetInduction
<1>. QED  BY <1>3, SumOnFacts

\* A sum of zeros.
LEMMA SumZero ==
  ASSUME NEW S, IsFiniteSet(S), NEW f \in [S -> Int], \A x \in S : f[x] = 0
  PROVE  SumAll(f) = 0
<1>. DEFINE P == {s \in SUBSET S : SumOn(f, s) = 0}
<1>1. {} \in P
  BY SumOnFacts
<1>2. \A s \in SUBSET S : \A x \in S \ s : s \in P => s \union {x} \in P
  BY SumOnFacts
<1>3. SUBSET S \subseteq P
  <2>. HIDE DEF P
  <2>. QED  BY <1>1, <1>2, SubsetInduction
<1>. QED  BY <1>3, SumOnFacts

\* A sum of natural numbers is one, and none of them is larger.
LEMMA SumNat ==
  ASSUME NEW S, IsFiniteSet(S), NEW f \in [S -> Nat]
  PROVE  SumAll(f) \in Nat /\ \A x \in S : f[x] <= SumAll(f)
<1>1. f \in [S -> Int]
  OBVIOUS
<1>2. ASSUME NEW T \in SUBSET S PROVE SumOn(f, T) \in Nat
  <2>. DEFINE z == [x \in T |-> 0]
              g == [x \in T |-> f[x]]
  <2>1. IsFiniteSet(T) /\ z \in [T -> Int] /\ g \in [T -> Int] /\ \A x \in T : z[x] <= g[x] /\ z[x] = 0
    BY FS_Subset
  <2>. HIDE DEF z, g
  <2>2. SumAll(z) <= SumAll(g) /\ SumAll(z) = 0 /\ SumAll(g) \in Int
    BY <2>1, SumLeq, SumZero, SumInt
  <2>. QED  BY <2>2 DEF SumOn, g
<1>3. ASSUME NEW x \in S PROVE f[x] <= SumAll(f)
  <2>1. SumAll(f) = f[x] + SumOn(f, S \ {x})
    BY <1>1, SumRemove DEF SumOn
  <2>2. SumOn(f, S \ {x}) \in Nat
    BY <1>2
  <2>. QED  BY <2>1, <2>2
<1>. QED  BY <1>1, <1>2, <1>3, SumOnFacts

\* Sums are added element by element.
LEMMA SumPlus ==
  ASSUME NEW S, IsFiniteSet(S), NEW f \in [S -> Int], NEW g \in [S -> Int],
         NEW h \in [S -> Int], \A x \in S : h[x] = f[x] + g[x]
  PROVE  SumAll(h) = SumAll(f) + SumAll(g)
<1>. DEFINE P == {s \in SUBSET S : SumOn(h, s) = SumOn(f, s) + SumOn(g, s)}
<1>1. {} \in P
  BY SumOnFacts
<1>2. \A s \in SUBSET S : \A x \in S \ s : s \in P => s \union {x} \in P
  <2>. SUFFICES ASSUME NEW s \in SUBSET S, NEW x \in S \ s, s \in P PROVE s \union {x} \in P
    OBVIOUS
  <2>1. /\ SumOn(f, s \union {x}) = f[x] + SumOn(f, s) /\ SumOn(f, s) \in Int
        /\ SumOn(g, s \union {x}) = g[x] + SumOn(g, s) /\ SumOn(g, s) \in Int
        /\ SumOn(h, s \union {x}) = h[x] + SumOn(h, s)
    BY SumOnFacts
  <2>. QED  BY <2>1
<1>3. SUBSET S \subseteq P
  <2>. HIDE DEF P
  <2>. QED  BY <1>1, <1>2, SubsetInduction
<1>. QED  BY <1>3, SumOnFacts

\* Only one element is another.
LEMMA SumUpdate ==
  ASSUME NEW S, IsFiniteSet(S), NEW f \in [S -> Int], NEW g \in [S -> Int],
         NEW x \in S, \A y \in S \ {x} : g[y] = f[y]
  PROVE  SumAll(g) = SumAll(f) - f[x] + g[x]
<1>1. /\ SumAll(f) = f[x] + SumAll([y \in S \ {x} |-> f[y]])
      /\ SumAll(g) = g[x] + SumAll([y \in S \ {x} |-> g[y]])
  BY SumRemove
<1>2. [y \in S \ {x} |-> f[y]] = [y \in S \ {x} |-> g[y]]
  OBVIOUS
<1>3. SumAll([y \in S \ {x} |-> f[y]]) \in Int
  BY SumOnFacts DEF SumOn
<1>. QED  BY <1>1, <1>2, <1>3

\* Two parts without a common element.
LEMMA SumDisjoint ==
  ASSUME NEW S, IsFiniteSet(S), NEW f \in [S -> Int],
         NEW A \in SUBSET S, NEW B \in SUBSET S, A \cap B = {}
  PROVE  SumOn(f, A \union B) = SumOn(f, A) + SumOn(f, B)
<1>. DEFINE P == {s \in SUBSET B : SumOn(f, A \union s) = SumOn(f, A) + SumOn(f, s)}
<1>1. /\ SumOn(f, {}) = 0
      /\ \A s \in SUBSET S : SumOn(f, s) \in Int
      /\ \A s \in SUBSET S : \A x \in S \ s : SumOn(f, s \union {x}) = f[x] + SumOn(f, s)
  BY SumOnFacts
<1>2. {} \in P
  <2>1. A \union {} = A
    OBVIOUS
  <2>2. SumOn(f, A) \in Int
    BY <1>1
  <2>. QED  BY <2>1, <2>2, <1>1
<1>3. \A s \in SUBSET B : \A x \in B \ s : s \in P => s \union {x} \in P
  <2>. SUFFICES ASSUME NEW s \in SUBSET B, NEW x \in B \ s, s \in P PROVE s \union {x} \in P
    OBVIOUS
  <2>1. /\ s \in SUBSET S /\ x \in S \ s /\ A \union s \in SUBSET S /\ x \in S \ (A \union s)
        /\ (A \union s) \union {x} = A \union (s \union {x})
    OBVIOUS
  <2>2. SumOn(f, s \union {x}) = f[x] + SumOn(f, s) /\ SumOn(f, s) \in Int /\ SumOn(f, A) \in Int
    BY <1>1, <2>1
  <2>3. SumOn(f, (A \union s) \union {x}) = f[x] + SumOn(f, A \union s)
    BY <1>1, <2>1
  <2>4. f[x] \in Int
    BY <2>1
  <2>5. SumOn(f, A \union s) = SumOn(f, A) + SumOn(f, s)
    OBVIOUS
  <2>6. SumOn(f, A \union (s \union {x})) = f[x] + (SumOn(f, A) + SumOn(f, s))
    BY <2>1, <2>3, <2>5, Zenon
  <2>7. f[x] + (SumOn(f, A) + SumOn(f, s)) = SumOn(f, A) + (f[x] + SumOn(f, s))
    BY <2>2, <2>4
  <2>8. SumOn(f, A \union (s \union {x})) = SumOn(f, A) + SumOn(f, s \union {x})
    BY <2>2, <2>6, <2>7, Zenon
  <2>. QED  BY <2>8
<1>4. SUBSET B \subseteq P
  <2>1. IsFiniteSet(B)
    BY FS_Subset
  <2>2. PICK T : T = B
    OBVIOUS
  <2>. HIDE DEF P
  <2>3. SUBSET T \subseteq P
    <3>1. IsFiniteSet(T)
      BY <2>1, <2>2
    <3>2. \A s \in SUBSET T : \A x \in T \ s : s \in P => s \union {x} \in P
      BY <1>3, <2>2
    <3>. QED  BY <1>2, <3>1, <3>2, SubsetInduction
  <2>. QED  BY <2>2, <2>3
<1>. QED  BY <1>4

\* Summing up by groups: d says which group an element is in.
LEMMA SumByGroup ==
  ASSUME NEW S, IsFiniteSet(S), NEW f \in [S -> Int], NEW D, IsFiniteSet(D), NEW d
  PROVE  SumAll([c \in D |-> SumOn(f, {i \in S : d[i] = c})]) = SumOn(f, {i \in S : d[i] \in D})
<1>. DEFINE Of(c) == {i \in S : d[i] = c}
            In(C) == {i \in S : d[i] \in C}
            h == [c \in D |-> SumOn(f, Of(c))]
            P == {C \in SUBSET D : SumOn(h, C) = SumOn(f, In(C))}
<1>1. h \in [D -> Int]
  BY SumOnFacts
<1>2. {} \in P
  <2>1. In({}) = {}
    OBVIOUS
  <2>. HIDE DEF h, In
  <2>. QED  BY <1>1, <2>1, SumOnFacts
<1>3. \A C \in SUBSET D : \A c \in D \ C : C \in P => C \union {c} \in P
  <2>. SUFFICES ASSUME NEW C \in SUBSET D, NEW c \in D \ C, C \in P PROVE C \union {c} \in P
    OBVIOUS
  <2>1. /\ In(C \union {c}) = In(C) \union Of(c) /\ In(C) \cap Of(c) = {}
        /\ In(C) \in SUBSET S /\ Of(c) \in SUBSET S
    OBVIOUS
  <2>2. h[c] = SumOn(f, Of(c))
    OBVIOUS
  <2>. HIDE DEF h, In, Of
  <2>3. SumOn(h, C \union {c}) = h[c] + SumOn(h, C)
    BY <1>1, SumOnFacts
  <2>4. SumOn(f, In(C) \union Of(c)) = SumOn(f, In(C)) + SumOn(f, Of(c))
    BY <2>1, SumDisjoint
  <2>5. SumOn(f, In(C)) \in Int /\ SumOn(f, Of(c)) \in Int
    BY <2>1, SumOnFacts
  <2>6. SumOn(h, C) = SumOn(f, In(C))
    OBVIOUS
  <2>7. SumOn(h, C \union {c}) = SumOn(f, In(C \union {c}))
    <3>1. SumOn(h, C \union {c}) = SumOn(f, Of(c)) + SumOn(f, In(C))
      BY <2>2, <2>3, <2>6, Zenon
    <3>2. SumOn(f, Of(c)) + SumOn(f, In(C)) = SumOn(f, In(C)) + SumOn(f, Of(c))
      BY <2>5
    <3>. QED  BY <2>1, <2>4, <3>1, <3>2, Zenon
  <2>8. C \union {c} \in SUBSET D
    OBVIOUS
  <2>. QED  BY <2>7, <2>8
<1>4. SUBSET D \subseteq P
  <2>. HIDE DEF P
  <2>. QED  BY <1>2, <1>3, SubsetInduction
<1>5. SumOn(h, D) = SumAll(h)
  <2>. HIDE DEF h
  <2>. QED  BY <1>1, SumOnFacts
<1>. QED  BY <1>4, <1>5

\* The sum over some of the elements, with zeros for the others.
LEMMA SumWhere ==
  ASSUME NEW S, IsFiniteSet(S), NEW f \in [S -> Int], NEW A \in SUBSET S,
         NEW g \in [S -> Int], \A x \in S : g[x] = IF x \in A THEN f[x] ELSE 0
  PROVE  SumAll(g) = SumOn(f, A)
<1>1. A \union (S \ A) = S /\ A \cap (S \ A) = {} /\ S \ A \in SUBSET S
  OBVIOUS
<1>2. SumOn(g, S) = SumOn(g, A) + SumOn(g, S \ A)
  BY <1>1, SumDisjoint
<1>3. SumOn(g, A) = SumOn(f, A)
  <2>1. [y \in A |-> g[y]] = [y \in A |-> f[y]]
    OBVIOUS
  <2>. QED  BY <2>1 DEF SumOn
<1>4. SumOn(g, S \ A) = 0
  <2>1. PICK T : T = S \ A
    OBVIOUS
  <2>2. PICK z : z = [y \in T |-> g[y]]
    OBVIOUS
  <2>3. IsFiniteSet(T)
    BY <2>1, FS_Subset
  <2>4. z \in [T -> Int] /\ \A y \in T : z[y] = 0
    BY <2>1, <2>2
  <2>5. SumAll(z) = 0
    BY <2>3, <2>4, SumZero
  <2>. QED  BY <2>1, <2>2, <2>5 DEF SumOn
<1>5. SumOn(g, S) = SumAll(g) /\ SumOn(f, A) \in Int
  BY SumOnFacts
<1>. QED  BY <1>2, <1>3, <1>4, <1>5

\* The elements may have other names.
LEMMA SumRename ==
  ASSUME NEW S, IsFiniteSet(S), NEW f \in [S -> Int],
         NEW T, IsFiniteSet(T), NEW g \in [T -> Int], NEW p \in [S -> T],
         \A x, y \in S : p[x] = p[y] => x = y,
         \A t \in T : \E x \in S : p[x] = t,
         \A x \in S : g[p[x]] = f[x]
  PROVE  SumAll(g) = SumAll(f)
<1>. DEFINE Image(s) == {p[x] : x \in s}
            P == {s \in SUBSET S : SumOn(g, Image(s)) = SumOn(f, s)}
<1>1. {} \in P
  <2>1. Image({}) = {}
    OBVIOUS
  <2>2. SumOn(f, {}) = 0 /\ SumOn(g, {}) = 0
    BY SumOnFacts
  <2>. QED  BY <2>1, <2>2
<1>2. \A s \in SUBSET S : \A x \in S \ s : s \in P => s \union {x} \in P
  <2>. SUFFICES ASSUME NEW s \in SUBSET S, NEW x \in S \ s, s \in P PROVE s \union {x} \in P
    OBVIOUS
  <2>1. Image(s) \in SUBSET T /\ p[x] \in T \ Image(s) /\ Image(s \union {x}) = Image(s) \union {p[x]}
    OBVIOUS
  <2>2. SumOn(f, s \union {x}) = f[x] + SumOn(f, s)
    BY SumOnFacts
  <2>3. SumOn(g, Image(s)) = SumOn(f, s)
    OBVIOUS
  <2>. HIDE DEF Image
  <2>4. SumOn(g, Image(s) \union {p[x]}) = g[p[x]] + SumOn(g, Image(s))
    BY <2>1, SumOnFacts
  <2>5. g[p[x]] = f[x]
    OBVIOUS
  <2>6. SumOn(g, Image(s \union {x})) = SumOn(f, s \union {x})
    BY <2>1, <2>2, <2>3, <2>4, <2>5, Zenon
  <2>7. s \union {x} \in SUBSET S
    OBVIOUS
  <2>. QED  BY <2>6, <2>7
<1>3. SUBSET S \subseteq P
  <2>. HIDE DEF P
  <2>. QED  BY <1>1, <1>2, SubsetInduction
<1>4. Image(S) = T
  OBVIOUS
<1>5. SumOn(g, T) = SumAll(g) /\ SumOn(f, S) = SumAll(f)
  BY SumOnFacts
<1>. QED  BY <1>3, <1>4, <1>5
------------------------------------------------------------------------------
(* Running sums: what comes before the k-th of n. *)

RunningSum(f, k) == SumAll([i \in 0 .. k - 1 |-> f[i]])

\* They begin with nothing, add one member at a time, and grow.
LEMMA RunningSums ==
  ASSUME NEW n \in Nat, NEW f \in [0 .. n - 1 -> Nat]
  PROVE  /\ RunningSum(f, 0) = 0
         /\ \A k \in 0 .. n : RunningSum(f, k) \in Nat
         /\ \A k \in 0 .. n - 1 : RunningSum(f, k + 1) = RunningSum(f, k) + f[k]
         /\ \A k, m \in 0 .. n : k <= m => RunningSum(f, k) <= RunningSum(f, m)
<1>1. RunningSum(f, 0) = 0
  <2>1. DOMAIN [i \in 0 .. 0 - 1 |-> f[i]] = {}
    OBVIOUS
  <2>. QED  BY <2>1, SumEmpty DEF RunningSum
<1>2. ASSUME NEW k \in 0 .. n PROVE RunningSum(f, k) \in Nat
  <2>1. IsFiniteSet(0 .. k - 1)
    BY FS_Interval
  <2>2. [i \in 0 .. k - 1 |-> f[i]] \in [0 .. k - 1 -> Nat]
    OBVIOUS
  <2>. QED  BY <2>1, <2>2, SumNat DEF RunningSum
<1>3. ASSUME NEW k \in 0 .. n - 1 PROVE RunningSum(f, k + 1) = RunningSum(f, k) + f[k]
  <2>1. PICK T : T = 0 .. (k + 1) - 1
    OBVIOUS
  <2>2. PICK g : g = [i \in T |-> f[i]]
    OBVIOUS
  <2>3. IsFiniteSet(T)
    BY <2>1, FS_Interval
  <2>4. g \in [T -> Int] /\ k \in T /\ g[k] = f[k]
    BY <2>1, <2>2
  <2>5. T \ {k} = 0 .. k - 1
    BY <2>1
  <2>6. [i \in T \ {k} |-> g[i]] = [i \in 0 .. k - 1 |-> f[i]]
    BY <2>2, <2>5
  <2>7. SumAll(g) = g[k] + SumAll([i \in T \ {k} |-> g[i]])
    BY <2>3, <2>4, SumRemove
  <2>8. RunningSum(f, k + 1) = SumAll(g) /\ RunningSum(f, k) = SumAll([i \in T \ {k} |-> g[i]])
    BY <2>1, <2>2, <2>6, Zenon DEF RunningSum
  <2>9. RunningSum(f, k) \in Nat /\ f[k] \in Nat
    BY <1>2
  <2>. QED  BY <2>4, <2>7, <2>8, <2>9
<1>4. ASSUME NEW k \in 0 .. n, NEW m \in 0 .. n, k <= m
      PROVE  RunningSum(f, k) <= RunningSum(f, m)
  <2>. DEFINE P == {d \in Nat : k + d <= n => RunningSum(f, k) <= RunningSum(f, k + d)}
  <2>1. 0 \in P
    BY <1>2
  <2>2. ASSUME NEW d \in Nat, d \in P PROVE d + 1 \in P
    <3>1. SUFFICES ASSUME k + (d + 1) <= n
                   PROVE  RunningSum(f, k) <= RunningSum(f, k + (d + 1))
      OBVIOUS
    <3>2. k + d \in 0 .. n - 1 /\ k + (d + 1) = (k + d) + 1
      BY <3>1
    <3>3. RunningSum(f, k + (d + 1)) = RunningSum(f, k + d) + f[k + d]
      BY <1>3, <3>2
    <3>4. RunningSum(f, k) <= RunningSum(f, k + d)
      BY <2>2, <3>2
    <3>5. RunningSum(f, k + d) \in Nat /\ RunningSum(f, k) \in Nat /\ f[k + d] \in Nat
      BY <1>2, <3>2
    <3>. QED  BY <3>3, <3>4, <3>5
  <2>. HIDE DEF P
  <2>3. Nat \subseteq P
    BY <2>1, <2>2, NatSetInduction
  <2>4. m - k \in P /\ k + (m - k) = m
    BY <1>4, <2>3
  <2>. QED  BY <2>4 DEF P
<1>. QED  BY <1>1, <1>2, <1>3, <1>4
===============================================================================
