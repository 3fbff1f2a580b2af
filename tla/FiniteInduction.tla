-------------------------- MODULE FiniteInduction --------------------------
(***************************************************************************)
(* What induction over a finite set proves for the other modules: a        *)
(* transitive relation has a maximal element (nobody waits in a circle),   *)
(* and the sums that the ledger, the payments and the transfers are        *)
(* checked by are what they should be.                                     *)
(*                                                                         *)
(* The induction theorems of the library are about operators.  This one is *)
(* about sets, F below, of the subsets for which a claim is true: the      *)
(* strict subsets of a finite set are well-founded (FiniteSetTheorems), so *)
(* that a subset which is not in F has one that is minimal (WFMin).        *)
(*                                                                         *)
(* SumFunctionOnSet folds: it picks an element, adds it to the sum of the  *)
(* rest, and is defined by CHOOSE.  First it is shown that the equations   *)
(* of that recursion have one solution, and then that the order in which   *)
(* elements are picked does not matter (SumTakeOut).                       *)
(***************************************************************************)
EXTENDS Integers, Functions, FiniteSetTheorems, TLAPS

-----------------------------------------------------------------------------
(* Induction *)

(* A set that has every subset of S all of whose strict subsets it has has *)
(* every subset of S.                                                      *)
LEMMA SetInduction ==
  ASSUME NEW S, IsFiniteSet(S), NEW F,
         \A T \in SUBSET S : (\A U \in SUBSET T : U # T => U \in F) => T \in F
  PROVE  SUBSET S \subseteq F
<1> DEFINE Bad == (SUBSET S) \ F
<1> SUFFICES ASSUME Bad # {} PROVE FALSE
  OBVIOUS
<1>1. IsWellFoundedOn(StrictSubsetOrdering(S), SUBSET S)
  <2>1. IsWellFoundedOn(StrictSubsetOrdering(S), FiniteSubsetsOf(S))
    BY FS_StrictSubsetOrderingWellFounded
  <2>2. FiniteSubsetsOf(S) = SUBSET S
    BY FS_FiniteSubsetsOfFinite
  <2> QED BY <2>1, <2>2
<1>2. PICK T \in Bad : \A U \in Bad : ~ (<<U, T>> \in StrictSubsetOrdering(S))
  <2> HIDE DEF Bad
  <2>1. Bad \subseteq SUBSET S
    BY DEF Bad
  <2> QED BY <1>1, <2>1, WFMin
<1>3. \A U \in SUBSET T : U # T => U \in F
  BY <1>2 DEF StrictSubsetOrdering
<1> QED BY <1>2, <1>3

-----------------------------------------------------------------------------
(* A transitive relation without loops has, in every finite set that is    *)
(* not empty, an element that leads to no other.                           *)
THEOREM HasMaximal ==
  ASSUME NEW S, IsFiniteSet(S), S # {}, NEW R,
         \A x, y, z \in S : <<x, y>> \in R /\ <<y, z>> \in R => <<x, z>> \in R,
         \A x \in S : <<x, x>> \notin R
  PROVE  \E x \in S : \A y \in S : <<x, y>> \notin R
<1> DEFINE F == {T \in SUBSET S : T = {} \/ \E x \in T : \A y \in T : <<x, y>> \notin R}
<1>1. ASSUME NEW T \in SUBSET S, \A U \in SUBSET T : U # T => U \in F
      PROVE  T \in F
  <2>1. CASE T = {}
    BY <2>1
  <2>2. CASE T # {}
    <3>1. PICK z \in T : TRUE
      BY <2>2
    <3>2. T \ {z} \in F
      BY <1>1, <3>1
    <3>3. CASE T \ {z} = {}
      <4>1. \A y \in T : <<z, y>> \notin R
        BY <1>1, <3>1, <3>3
      <4> QED BY <3>1, <4>1
    <3>4. CASE T \ {z} # {}
      <4>1. PICK x \in T \ {z} : \A y \in T \ {z} : <<x, y>> \notin R
        BY <3>2, <3>4
      <4>2. CASE <<x, z>> \notin R
        BY <4>1, <4>2
      <4>3. CASE <<x, z>> \in R
        <5>1. \A y \in T : <<z, y>> \notin R
          BY <1>1, <3>1, <4>1, <4>3
        <5> QED BY <3>1, <5>1
      <4> QED BY <4>2, <4>3
    <3> QED BY <3>3, <3>4
  <2> QED BY <2>1, <2>2
<1>2. SUBSET S \subseteq F
  <2> HIDE DEF F
  <2> QED BY <1>1, SetInduction
<1> QED BY <1>2

-----------------------------------------------------------------------------
(* The recursion of a sum *)

(* The element that a fold takes next. *)
Picked(S) == CHOOSE x \in S : TRUE

(* g is the function by which SumFunctionOnSet sums f over S. *)
SumRecursion(f, S, g) ==
  g = [s \in SUBSET S |-> IF s = {} THEN 0 ELSE f[Picked(s)] + g[s \ {Picked(s)}]]

(* The equations of the recursion that SumFunctionOnSet is defined by. *)
SumEquations(f, S, g) ==
  \A s \in SUBSET S : g[s] = IF s = {} THEN 0 ELSE f[Picked(s)] + g[s \ {Picked(s)}]

LEMMA FirstIn == ASSUME NEW S, S # {} PROVE Picked(S) \in S
BY DEF Picked

(* Those equations determine the sums. *)
LEMMA SumsUnique ==
  ASSUME NEW f, NEW S, IsFiniteSet(S), NEW g, NEW h, SumEquations(f, S, g), SumEquations(f, S, h)
  PROVE  \A s \in SUBSET S : g[s] = h[s]
<1> DEFINE F == {s \in SUBSET S : g[s] = h[s]}
<1>1. ASSUME NEW T \in SUBSET S, \A U \in SUBSET T : U # T => U \in F
      PROVE  T \in F
  <2>1. CASE T = {}
    BY <2>1 DEF SumEquations
  <2>2. CASE T # {}
    <3>1. Picked(T) \in T
      BY <2>2, FirstIn
    <3>2. T \ {Picked(T)} \in F
      BY <3>1, <1>1
    <3> QED BY <2>2, <3>2 DEF SumEquations
  <2> QED BY <2>1, <2>2
<1>2. SUBSET S \subseteq F
  <2> HIDE DEF F
  <2> QED BY <1>1, SetInduction
<1> QED BY <1>2

(* What solves them for a set solves them for its subsets. *)
LEMMA SumsRestrict ==
  ASSUME NEW f, NEW S, NEW T \in SUBSET S, NEW g, SumEquations(f, S, g)
  PROVE  SumEquations(f, T, g)
BY DEF SumEquations

(* They have a solution, which the recursion describes. *)
LEMMA SumsExist ==
  ASSUME NEW f, NEW S, IsFiniteSet(S)
  PROVE  \E g : SumRecursion(f, S, g) /\ SumEquations(f, S, g)
<1> DEFINE F == {T \in SUBSET S : \E g : SumEquations(f, T, g)}
           G(U) == CHOOSE g : SumEquations(f, U, g)
           Rest(s) == s \ {Picked(s)}
           New(T) == [s \in SUBSET T |-> IF s = {} THEN 0 ELSE f[Picked(s)] + G(Rest(s))[Rest(s)]]
<1>1. ASSUME NEW T \in SUBSET S, \A U \in SUBSET T : U # T => U \in F
      PROVE  SumEquations(f, T, New(T))
  <2>1. ASSUME NEW U \in SUBSET T, U # T PROVE SumEquations(f, U, G(U))
    <3>1. \E g : SumEquations(f, U, g)
      BY <1>1, <2>1
    <3> QED BY <3>1
  <2>2. ASSUME NEW s \in SUBSET T, s # {}
        PROVE  New(T)[Rest(s)] = G(Rest(s))[Rest(s)]
    <3> DEFINE r == Rest(s)
    <3>1. Picked(s) \in s /\ r \in SUBSET T /\ r # T
      BY <2>2, FirstIn
    <3>2. SumEquations(f, r, G(r))
      BY <3>1, <2>1
    <3>3. CASE r = {}
      <4>1. G(r)[r] = 0
        BY <3>2, <3>3 DEF SumEquations
      <4>2. New(T)[r] = 0
        BY <3>1, <3>3
      <4> QED BY <4>1, <4>2
    <3>4. CASE r # {}
      <4>1. Picked(r) \in r /\ Rest(r) \in SUBSET r /\ Rest(r) \in SUBSET T /\ Rest(r) # T
        BY <3>1, <3>4, FirstIn
      <4>2. SumEquations(f, Rest(r), G(Rest(r))) /\ SumEquations(f, Rest(r), G(r))
        BY <4>1, <2>1, <3>2, SumsRestrict
      <4>3. IsFiniteSet(Rest(r))
        BY <4>1, FS_Subset
      <4>4. G(Rest(r))[Rest(r)] = G(r)[Rest(r)]
        <5> HIDE DEF G, Rest, r
        <5> QED BY <4>2, <4>3, SumsUnique
      <4>5. G(r)[r] = f[Picked(r)] + G(r)[Rest(r)]
        BY <3>2, <3>4 DEF SumEquations
      <4>6. New(T)[r] = f[Picked(r)] + G(Rest(r))[Rest(r)]
        BY <3>1, <3>4
      <4> QED BY <4>4, <4>5, <4>6
    <3> QED BY <3>3, <3>4
  <2>3. ASSUME NEW s \in SUBSET T
        PROVE  New(T)[s] = IF s = {} THEN 0 ELSE f[Picked(s)] + New(T)[Rest(s)]
    <3>1. New(T)[s] = IF s = {} THEN 0 ELSE f[Picked(s)] + G(Rest(s))[Rest(s)]
      OBVIOUS
    <3> HIDE DEF New
    <3> QED BY <3>1, <2>2
  <2> HIDE DEF New
  <2> QED BY <2>3 DEF SumEquations
<1>2. SUBSET S \subseteq F
  <2>1. \A T \in SUBSET S : (\A U \in SUBSET T : U # T => U \in F) => T \in F
    <3> SUFFICES ASSUME NEW T \in SUBSET S, \A U \in SUBSET T : U # T => U \in F
                 PROVE  \E g : SumEquations(f, T, g)
      OBVIOUS
    <3> QED BY <1>1
  <2> HIDE DEF F
  <2> QED BY <2>1, SetInduction
<1>3. SumEquations(f, S, New(S))
  <2>1. \A U \in SUBSET S : U # S => U \in F
    BY <1>2
  <2> HIDE DEF F, New
  <2> QED BY <2>1, <1>1
<1>4. New(S) = [s \in SUBSET S |-> IF s = {} THEN 0 ELSE f[Picked(s)] + New(S)[s \ {Picked(s)}]]
  <2> DEFINE e(s) == IF s = {} THEN 0 ELSE f[Picked(s)] + New(S)[s \ {Picked(s)}]
  <2>1. \A s \in SUBSET S : New(S)[s] = e(s)
    BY <1>3 DEF SumEquations
  <2>2. New(S) = [s \in SUBSET S |-> New(S)[s]]
    OBVIOUS
  <2> HIDE DEF New, e
  <2>3. New(S) = [s \in SUBSET S |-> e(s)]
    BY <2>1, <2>2
  <2> QED BY <2>3 DEF e
<1> HIDE DEF New
<1>5. SumRecursion(f, S, New(S))
  BY <1>4 DEF SumRecursion
<1> QED BY <1>3, <1>5

(* SumFunctionOnSet is defined by that recursion. *)
LEMMA SumIsRecursion ==
  ASSUME NEW f, NEW S
  PROVE  SumFunctionOnSet(f, S) = (CHOOSE g : SumRecursion(f, S, g))[S]
BY Zenon DEF SumRecursion, SumFunctionOnSet, FoldFunctionOnSet, MapThenFoldSet, Picked

(* So that a sum obeys the equations. *)
LEMMA SumIsSums ==
  ASSUME NEW f, NEW S, IsFiniteSet(S)
  PROVE  \E g : SumEquations(f, S, g) /\ SumFunctionOnSet(f, S) = g[S]
<1> DEFINE it == CHOOSE g : SumRecursion(f, S, g)
<1>1. \E g : SumRecursion(f, S, g)
  BY SumsExist
<1>2. SumRecursion(f, S, it)
  BY <1>1
<1>3. SumEquations(f, S, it)
  <2> HIDE DEF it
  <2> QED BY <1>2 DEF SumRecursion, SumEquations
<1>4. SumFunctionOnSet(f, S) = it[S]
  BY SumIsRecursion
<1> HIDE DEF it
<1> QED BY <1>3, <1>4

(* A sum of nothing, and of something. *)
LEMMA SumEmpty == ASSUME NEW f PROVE SumFunctionOnSet(f, {}) = 0
BY SumIsSums, FS_EmptySet DEF SumEquations

LEMMA SumUnfold ==
  ASSUME NEW f, NEW S, IsFiniteSet(S), S # {}
  PROVE  SumFunctionOnSet(f, S) = f[Picked(S)] + SumFunctionOnSet(f, S \ {Picked(S)})
<1> DEFINE R == S \ {Picked(S)}
<1>1. PICK g : SumEquations(f, S, g) /\ SumFunctionOnSet(f, S) = g[S]
  BY SumIsSums
<1>2. R \in SUBSET S /\ IsFiniteSet(R)
  BY FS_Subset
<1>3. PICK h : SumEquations(f, R, h) /\ SumFunctionOnSet(f, R) = h[R]
  BY <1>2, SumIsSums
<1>4. SumEquations(f, R, g)
  BY <1>1, <1>2, SumsRestrict
<1>5. g[R] = h[R]
  <2> HIDE DEF R
  <2> QED BY <1>2, <1>3, <1>4, SumsUnique
<1>6. g[S] = f[Picked(S)] + g[R]
  BY <1>1 DEF SumEquations
<1> QED BY <1>1, <1>3, <1>5, <1>6

-----------------------------------------------------------------------------
(* Sums *)

(* A sum of integers is an integer. *)
THEOREM SumType ==
  ASSUME NEW S, IsFiniteSet(S), NEW f, \A x \in S : f[x] \in Int
  PROVE  SumFunctionOnSet(f, S) \in Int
<1> DEFINE F == {T \in SUBSET S : SumFunctionOnSet(f, T) \in Int}
<1>1. ASSUME NEW T \in SUBSET S, \A U \in SUBSET T : U # T => U \in F
      PROVE  T \in F
  <2>1. CASE T = {}
    BY <2>1, SumEmpty
  <2>2. CASE T # {}
    <3>1. Picked(T) \in T /\ T \ {Picked(T)} \in F
      BY <2>2, <1>1, FirstIn
    <3>2. IsFiniteSet(T)
      BY FS_Subset
    <3>3. SumFunctionOnSet(f, T) = f[Picked(T)] + SumFunctionOnSet(f, T \ {Picked(T)})
      BY <2>2, <3>2, SumUnfold
    <3> QED BY <3>1, <3>3
  <2> QED BY <2>1, <2>2
<1>2. SUBSET S \subseteq F
  <2> HIDE DEF F
  <2> QED BY <1>1, SetInduction
<1> QED BY <1>2

(* Equal summands have equal sums. *)
THEOREM SumSame ==
  ASSUME NEW S, IsFiniteSet(S), NEW f, NEW g, \A x \in S : f[x] = g[x]
  PROVE  SumFunctionOnSet(f, S) = SumFunctionOnSet(g, S)
<1> DEFINE F == {T \in SUBSET S : SumFunctionOnSet(f, T) = SumFunctionOnSet(g, T)}
<1>1. ASSUME NEW T \in SUBSET S, \A U \in SUBSET T : U # T => U \in F
      PROVE  T \in F
  <2>1. CASE T = {}
    BY <2>1, SumEmpty
  <2>2. CASE T # {}
    <3>1. Picked(T) \in T /\ T \ {Picked(T)} \in F
      BY <2>2, <1>1, FirstIn
    <3>2. IsFiniteSet(T)
      BY FS_Subset
    <3>3. SumFunctionOnSet(f, T) = f[Picked(T)] + SumFunctionOnSet(f, T \ {Picked(T)})
      BY <2>2, <3>2, SumUnfold
    <3>4. SumFunctionOnSet(g, T) = g[Picked(T)] + SumFunctionOnSet(g, T \ {Picked(T)})
      BY <2>2, <3>2, SumUnfold
    <3> QED BY <3>1, <3>3, <3>4
  <2> QED BY <2>1, <2>2
<1>2. SUBSET S \subseteq F
  <2> HIDE DEF F
  <2> QED BY <1>1, SetInduction
<1> QED BY <1>2

(* Whichever summand is taken out, the rest sums to the difference. *)
THEOREM SumTakeOut ==
  ASSUME NEW S, IsFiniteSet(S), NEW f, \A x \in S : f[x] \in Int, NEW x \in S
  PROVE  SumFunctionOnSet(f, S) = f[x] + SumFunctionOnSet(f, S \ {x})
<1> DEFINE F == {T \in SUBSET S : \A y \in T :
                   SumFunctionOnSet(f, T) = f[y] + SumFunctionOnSet(f, T \ {y})}
<1>1. ASSUME NEW T \in SUBSET S, \A U \in SUBSET T : U # T => U \in F
      PROVE  T \in F
  <2> SUFFICES ASSUME NEW y \in T
               PROVE  SumFunctionOnSet(f, T) = f[y] + SumFunctionOnSet(f, T \ {y})
    OBVIOUS
  <2> DEFINE z == Picked(T)
  <2>1. z \in T /\ IsFiniteSet(T)
    BY FirstIn, FS_Subset
  <2>2. SumFunctionOnSet(f, T) = f[z] + SumFunctionOnSet(f, T \ {z})
    BY <2>1, SumUnfold
  <2> HIDE DEF z
  <2>3. CASE y = z
    BY <2>2, <2>3
  <2>4. CASE y # z
    <3> DEFINE R == (T \ {y}) \ {z}
    <3>1. R = (T \ {z}) \ {y} /\ R \in SUBSET S /\ T \ {y} \in F /\ T \ {z} \in F
      BY <2>1, <1>1
    <3>2. SumFunctionOnSet(f, T \ {z}) = f[y] + SumFunctionOnSet(f, R)
      BY <3>1, <2>4
    <3>3. SumFunctionOnSet(f, T \ {y}) = f[z] + SumFunctionOnSet(f, R)
      BY <3>1, <2>1, <2>4
    <3>4. SumFunctionOnSet(f, R) \in Int
      BY <3>1, SumType, FS_Subset
    <3>5. f[y] \in Int /\ f[z] \in Int
      BY <2>1
    <3> HIDE DEF R
    <3> QED BY <2>2, <3>2, <3>3, <3>4, <3>5
  <2> QED BY <2>3, <2>4
<1>2. SUBSET S \subseteq F
  <2> HIDE DEF F
  <2> QED BY <1>1, SetInduction
<1> QED BY <1>2

(* One more summand. *)
THEOREM SumAdd ==
  ASSUME NEW S, IsFiniteSet(S), NEW x, x \notin S,
         NEW f, \A y \in S \cup {x} : f[y] \in Int
  PROVE  SumFunctionOnSet(f, S \cup {x}) = f[x] + SumFunctionOnSet(f, S)
<1>1. IsFiniteSet(S \cup {x})
  BY FS_AddElement
<1>2. (S \cup {x}) \ {x} = S
  OBVIOUS
<1>3. SumFunctionOnSet(f, S \cup {x}) = f[x] + SumFunctionOnSet(f, (S \cup {x}) \ {x})
  BY <1>1, SumTakeOut
<1> QED BY <1>2, <1>3

(* The sum of sums is the sum of the sums. *)
THEOREM SumPlus ==
  ASSUME NEW S, IsFiniteSet(S), NEW f, NEW g, NEW h,
         \A x \in S : f[x] \in Int /\ g[x] \in Int /\ h[x] = f[x] + g[x]
  PROVE  SumFunctionOnSet(h, S) = SumFunctionOnSet(f, S) + SumFunctionOnSet(g, S)
<1> DEFINE F == {T \in SUBSET S :
                   SumFunctionOnSet(h, T) = SumFunctionOnSet(f, T) + SumFunctionOnSet(g, T)}
<1>1. ASSUME NEW T \in SUBSET S, \A U \in SUBSET T : U # T => U \in F
      PROVE  T \in F
  <2>1. CASE T = {}
    BY <2>1, SumEmpty
  <2>2. CASE T # {}
    <3> DEFINE z == Picked(T)
               R == T \ {z}
    <3>1. z \in T /\ R \in F /\ R \in SUBSET S
      BY <2>2, <1>1, FirstIn
    <3>2. IsFiniteSet(T) /\ IsFiniteSet(R)
      BY FS_Subset
    <3>3. /\ SumFunctionOnSet(f, T) = f[z] + SumFunctionOnSet(f, R)
          /\ SumFunctionOnSet(g, T) = g[z] + SumFunctionOnSet(g, R)
          /\ SumFunctionOnSet(h, T) = h[z] + SumFunctionOnSet(h, R)
      BY <2>2, <3>2, SumUnfold
    <3>4. SumFunctionOnSet(f, R) \in Int /\ SumFunctionOnSet(g, R) \in Int
      BY <3>1, <3>2, SumType
    <3>5. SumFunctionOnSet(h, R) = SumFunctionOnSet(f, R) + SumFunctionOnSet(g, R)
      BY <3>1
    <3>6. f[z] \in Int /\ g[z] \in Int /\ h[z] = f[z] + g[z]
      BY <3>1
    <3> HIDE DEF z, R
    <3>7. SumFunctionOnSet(h, T) = SumFunctionOnSet(f, T) + SumFunctionOnSet(g, T)
      BY <3>3, <3>4, <3>5, <3>6
    <3> QED BY <3>7
  <2> QED BY <2>1, <2>2
<1>2. SUBSET S \subseteq F
  <2> HIDE DEF F
  <2> QED BY <1>1, SetInduction
<1> QED BY <1>2

(* Nothing sums to nothing. *)
THEOREM SumZero ==
  ASSUME NEW S, IsFiniteSet(S), NEW f, \A x \in S : f[x] = 0
  PROVE  SumFunctionOnSet(f, S) = 0
<1> DEFINE total == SumFunctionOnSet(f, S)
<1>1. total = total + total
  BY SumPlus
<1>2. total \in Int
  BY SumType
<1> HIDE DEF total
<1>3. total = 0
  BY <1>1, <1>2
<1> QED BY <1>3 DEF total

(* The same of sums over the whole domain of a function. *)
THEOREM WholeSumType ==
  ASSUME NEW f, IsFiniteSet(DOMAIN f), \A x \in DOMAIN f : f[x] \in Int
  PROVE  SumFunction(f) \in Int
BY SumType DEF SumFunction

(* The sum of a function depends on its values only. *)
THEOREM WholeSumSame ==
  ASSUME NEW f, NEW g, DOMAIN f = DOMAIN g, IsFiniteSet(DOMAIN f),
         \A x \in DOMAIN f : f[x] = g[x]
  PROVE  SumFunction(f) = SumFunction(g)
BY SumSame DEF SumFunction

(* A function that is 0 everywhere sums to 0. *)
THEOREM WholeSumZero ==
  ASSUME NEW f, IsFiniteSet(DOMAIN f), \A x \in DOMAIN f : f[x] = 0
  PROVE  SumFunction(f) = 0
BY SumZero DEF SumFunction

(* The sum of two functions is the sum of their sums. *)
THEOREM WholeSumPlus ==
  ASSUME NEW f, NEW g, NEW h, IsFiniteSet(DOMAIN h), DOMAIN f = DOMAIN h, DOMAIN g = DOMAIN h,
         \A x \in DOMAIN h : f[x] \in Int /\ g[x] \in Int /\ h[x] = f[x] + g[x]
  PROVE  SumFunction(h) = SumFunction(f) + SumFunction(g)
BY SumPlus DEF SumFunction

(* g is f with x added to its domain. *)
THEOREM WholeSumAdd ==
  ASSUME NEW f, NEW g, NEW x, IsFiniteSet(DOMAIN f), x \notin DOMAIN f,
         DOMAIN g = DOMAIN f \cup {x}, \A y \in DOMAIN f : g[y] = f[y],
         \A y \in DOMAIN g : g[y] \in Int
  PROVE  SumFunction(g) = g[x] + SumFunction(f)
<1>1. SumFunctionOnSet(g, DOMAIN f \cup {x}) = g[x] + SumFunctionOnSet(g, DOMAIN f)
  BY SumAdd
<1>2. SumFunctionOnSet(g, DOMAIN f) = SumFunctionOnSet(f, DOMAIN f)
  BY SumSame
<1> QED BY <1>1, <1>2 DEF SumFunction

=============================================================================
