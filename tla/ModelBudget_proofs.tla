-------------------------- MODULE ModelBudget_proofs --------------------------
(***************************************************************************)
(* The inductive invariant of ModelBudget, and from it that the rows of    *)
(* the day count what is open and charged to the unit and stay within the  *)
(* limit, for all sets of requests, units, limits, days and lifetimes.     *)
(* The sums are the library's: that they are what their recursion says is  *)
(* proved first, by taking the smallest set for which they are not.        *)
(***************************************************************************)
EXTENDS ModelBudget, FiniteSetTheorems, TLAPS

Handlers ==
  [pc : {"new", "failed"}] \union [pc : {"begun"}, at : 0 .. MaxTime]
    \union [pc : {"selected"}, at : 0 .. MaxTime, expired : SUBSET Requests]
    \union [pc : {"calling"}, tried : Nat] \union [pc : {"answered"}, cost : Nat]
    \union [pc : {"ended"}, answer : {"OK", "UNAVAILABLE", "ERROR", "NONE"}]

\* TypeOK with the types of what it leaves open.
HandlerInv ==
  /\ now \in 0 .. MaxTime
  /\ handler \in [Requests -> Handlers]
  /\ stranded \subseteq {r \in Requests : reservation[r] # NULL}

\* A request has a reservation from the moment its transaction commits; only its own
\* settlement settles it, with the cost of an answer within its units.
OwnInv ==
  \A r \in Requests :
    /\ handler[r].pc \in {"new", "begun", "selected"} => reservation[r] = NULL
    /\ handler[r].pc \in {"calling", "answered", "failed"} =>
         reservation[r] # NULL /\ reservation[r].status # "SETTLED"
    /\ handler[r].pc = "answered" => handler[r].cost <= Units[r] /\ handler[r].cost <= used[r]
    /\ reservation[r] # NULL /\ reservation[r].status = "SETTLED" =>
         reservation[r].actual \in Nat /\ reservation[r].actual <= used[r]

\* Rows that a transaction selected stay as they were, and no other has selected them.
SelectedInv ==
  \A r \in Requests : handler[r].pc = "selected" =>
    /\ handler[r].expired \subseteq Overdue(handler[r].at)
    /\ \A q \in Requests \ {r} :
         handler[q].pc = "selected" => handler[q].expired \intersect handler[r].expired = {}

IInv == TypeOK /\ HandlerInv /\ OwnInv /\ SelectedInv /\ CountedExactly /\ WithinLimit

-----------------------------------------------------------------------------
(* Sums over finite sets                                                   *)

\* Of the sets of subsets of a finite set, each that is not empty has a smallest.
LEMMA SmallestSubset ==
  ASSUME NEW S, IsFiniteSet(S), NEW F, F \subseteq SUBSET S, F # {}
  PROVE  \E T \in F : \A U \in F : U \subseteq T => U = T
<1>1. IsWellFoundedOn(StrictSubsetOrdering(S), SUBSET S)
  BY FS_StrictSubsetOrderingWellFounded, FS_FiniteSubsetsOfFinite
<1>2. PICK T \in F : \A U \in F : ~ (<<U, T>> \in StrictSubsetOrdering(S))
  BY <1>1, WFMin
<1>3. \A U \in F : U \subseteq T => U = T
  BY <1>2 DEF StrictSubsetOrdering
<1> QED
  BY <1>3

PickOne(s) == CHOOSE x \in s : TRUE

\* g sums f over the subsets of S, as the library's recursive function does.
Sums(g, f, S) ==
  g = [s \in SUBSET S |-> IF s = {} THEN 0 ELSE f[PickOne(s)] + g[s \ {PickOne(s)}]]

LEMMA SumDef ==
  \A f, S : SumFunctionOnSet(f, S) = (CHOOSE g : Sums(g, f, S))[S]
BY DEF SumFunctionOnSet, FoldFunctionOnSet, MapThenFoldSet, Sums, PickOne

LEMMA PickedIn == \A s : s # {} => PickOne(s) \in s
BY DEF PickOne

LEMMA SumsUnique ==
  ASSUME NEW S, IsFiniteSet(S), NEW f, NEW g, NEW h, Sums(g, f, S), Sums(h, f, S)
  PROVE  g = h
<1> DEFINE Differ == {s \in SUBSET S : g[s] # h[s]}
<1>1. ASSUME Differ # {} PROVE FALSE
  <2>0. Differ \subseteq SUBSET S
    OBVIOUS
  <2> HIDE DEF Differ
  <2>1. PICK s \in Differ : \A u \in Differ : u \subseteq s => u = s
    BY <1>1, <2>0, SmallestSubset
  <2> USE DEF Differ
  <2>2. CASE s = {}
    BY <2>1, <2>2 DEF Sums
  <2>3. CASE s # {}
    <3>1. PickOne(s) \in s
      BY <2>3, PickedIn
    <3>2. g[s \ {PickOne(s)}] = h[s \ {PickOne(s)}]
      BY <2>1, <3>1
    <3> QED
      BY <2>1, <2>3, <3>2 DEF Sums
  <2> QED
    BY <2>2, <2>3
<1> QED
  BY <1>1 DEF Sums

\* What sums over a set sums, where it is defined, over its subsets.
LEMMA SumsRestrict ==
  ASSUME NEW S, NEW T \in SUBSET S, NEW f, NEW g, Sums(g, f, S)
  PROVE  Sums([s \in SUBSET T |-> g[s]], f, T)
<1> DEFINE h == [s \in SUBSET T |-> g[s]]
<1>1. ASSUME NEW s \in SUBSET T
      PROVE  h[s] = IF s = {} THEN 0 ELSE f[PickOne(s)] + h[s \ {PickOne(s)}]
  <2>1. s \in SUBSET S /\ s \ {PickOne(s)} \in SUBSET T
    OBVIOUS
  <2>2. g[s] = IF s = {} THEN 0 ELSE f[PickOne(s)] + g[s \ {PickOne(s)}]
    BY <2>1 DEF Sums
  <2> QED
    BY <2>1, <2>2
<1>2. h = [s \in SUBSET T |-> h[s]]
  OBVIOUS
<1> HIDE DEF h
<1>3. h = [s \in SUBSET T |-> IF s = {} THEN 0 ELSE f[PickOne(s)] + h[s \ {PickOne(s)}]]
  BY <1>1, <1>2
<1> QED
  BY <1>3 DEF Sums, h

\* A function that sums over a set gives the sum of each subset.
LEMMA SumsValue ==
  ASSUME NEW S, IsFiniteSet(S), NEW f, NEW g, Sums(g, f, S), NEW T \in SUBSET S
  PROVE  SumFunctionOnSet(f, T) = g[T]
<1>1. IsFiniteSet(T)
  BY FS_Subset
<1> DEFINE h == [s \in SUBSET T |-> g[s]]
           k == CHOOSE j : Sums(j, f, T)
<1>2. Sums(h, f, T)
  BY SumsRestrict
<1>3. Sums(k, f, T)
  BY <1>2
<1>4. h = k
  BY <1>1, <1>2, <1>3, SumsUnique
<1> QED
  BY <1>4, SumDef

LEMMA SumsExists ==
  ASSUME NEW S, IsFiniteSet(S), NEW f
  PROVE  \E g : Sums(g, f, S)
<1> DEFINE Without == {T \in SUBSET S : ~ \E g : Sums(g, f, T)}
<1>1. ASSUME Without # {} PROVE FALSE
  <2>0. Without \subseteq SUBSET S
    OBVIOUS
  <2> HIDE DEF Without
  <2>1. PICK T \in Without : \A U \in Without : U \subseteq T => U = T
    BY <1>1, <2>0, SmallestSubset
  <2> USE DEF Without
  <2>2. IsFiniteSet(T)
    BY FS_Subset
  <2> DEFINE sum(s) == SumFunctionOnSet(f, s)
             last == IF T = {} THEN 0 ELSE f[PickOne(T)] + sum(T \ {PickOne(T)})
             g == [s \in SUBSET T |-> IF s = T THEN last ELSE sum(s)]
  <2>3. ASSUME NEW s \in SUBSET T, s # T
        PROVE  sum(s) = IF s = {} THEN 0 ELSE f[PickOne(s)] + sum(s \ {PickOne(s)})
    <3>1. PICK h : Sums(h, f, s)
      BY <2>1, <2>3
    <3>2. IsFiniteSet(s)
      BY <2>2, FS_Subset
    <3>3. \A u \in SUBSET s : sum(u) = h[u]
      BY <3>1, <3>2, SumsValue
    <3>4. h[s] = IF s = {} THEN 0 ELSE f[PickOne(s)] + h[s \ {PickOne(s)}]
      BY <3>1 DEF Sums
    <3>5. s \in SUBSET s /\ s \ {PickOne(s)} \in SUBSET s
      OBVIOUS
    <3> HIDE DEF sum
    <3> QED
      BY <3>3, <3>4, <3>5
  <2> HIDE DEF sum
  <2>4. ASSUME NEW s \in SUBSET T
        PROVE  g[s] = IF s = {} THEN 0 ELSE f[PickOne(s)] + g[s \ {PickOne(s)}]
    <3>1. s # {} => s \ {PickOne(s)} \in SUBSET T /\ s \ {PickOne(s)} # T
      BY PickedIn
    <3>2. s # {} => g[s \ {PickOne(s)}] = sum(s \ {PickOne(s)})
      BY <3>1
    <3>3. CASE s = T
      BY <3>2, <3>3
    <3>4. CASE s # T
      BY <2>3, <3>2, <3>4
    <3> QED
      BY <3>3, <3>4
  <2>5. g = [s \in SUBSET T |-> g[s]]
    OBVIOUS
  <2> HIDE DEF g
  <2>6. Sums(g, f, T)
    BY <2>4, <2>5 DEF Sums
  <2> QED
    BY <2>1, <2>6
<1>2. S \in SUBSET S
  OBVIOUS
<1> QED
  BY <1>1, <1>2

\* The sum over a finite set is what its recursion says.
LEMMA SumStep ==
  ASSUME NEW S, IsFiniteSet(S), NEW f
  PROVE  SumFunctionOnSet(f, S) =
           IF S = {} THEN 0
           ELSE f[PickOne(S)] + SumFunctionOnSet(f, S \ {PickOne(S)})
<1>1. PICK g : Sums(g, f, S)
  BY SumsExists
<1>2. S \in SUBSET S /\ S \ {PickOne(S)} \in SUBSET S
  OBVIOUS
<1>3. /\ SumFunctionOnSet(f, S) = g[S]
      /\ SumFunctionOnSet(f, S \ {PickOne(S)}) = g[S \ {PickOne(S)}]
  BY <1>1, <1>2, SumsValue
<1>4. g[S] = IF S = {} THEN 0 ELSE f[PickOne(S)] + g[S \ {PickOne(S)}]
  BY <1>1, <1>2 DEF Sums
<1> QED
  BY <1>3, <1>4

LEMMA SumEmpty == \A f : SumFunctionOnSet(f, {}) = 0
BY SumStep, FS_EmptySet

\* Induction over the subsets of a set, once for the lemmas below: the subsets of
\* which a statement holds are those in Good.
LEMMA SubsetInduction ==
  ASSUME NEW S, IsFiniteSet(S), NEW Good, Good \subseteq SUBSET S,
         \A T \in SUBSET S : (\A U \in SUBSET T : U # T => U \in Good) => T \in Good
  PROVE  \A T \in SUBSET S : T \in Good
<1> SUFFICES ASSUME NEW T0 \in SUBSET S, T0 \notin Good PROVE FALSE
  OBVIOUS
<1> DEFINE Bad == (SUBSET S) \ Good
<1>0. Bad \subseteq SUBSET S /\ Bad # {}
  OBVIOUS
<1> HIDE DEF Bad
<1>1. PICK T \in Bad : \A U \in Bad : U \subseteq T => U = T
  BY <1>0, SmallestSubset
<1> USE DEF Bad
<1> QED
  BY <1>1

LEMMA SumInt ==
  ASSUME NEW S, IsFiniteSet(S), NEW f, \A x \in S : f[x] \in Int
  PROVE  SumFunctionOnSet(f, S) \in Int
<1> DEFINE Good == {T \in SUBSET S : SumFunctionOnSet(f, T) \in Int}
<1>1. ASSUME NEW T \in SUBSET S, \A U \in SUBSET T : U # T => U \in Good
      PROVE  T \in Good
  <2>1. IsFiniteSet(T)
    BY FS_Subset
  <2>2. CASE T = {}
    BY <2>2, SumEmpty
  <2>3. CASE T # {}
    <3>1. PickOne(T) \in T /\ T \ {PickOne(T)} # T
      BY <2>3, PickedIn
    <3>2. SumFunctionOnSet(f, T \ {PickOne(T)}) \in Int
      BY <1>1, <3>1
    <3>3. SumFunctionOnSet(f, T) = f[PickOne(T)] + SumFunctionOnSet(f, T \ {PickOne(T)})
      BY <2>1, <2>3, SumStep
    <3> QED
      BY <3>1, <3>2, <3>3
  <2> QED
    BY <2>2, <2>3
<1> HIDE DEF Good
<1>2. \A T \in SUBSET S : T \in Good
  <2>1. Good \subseteq SUBSET S
    BY DEF Good
  <2> QED
    BY <1>1, <2>1, SubsetInduction
<1> QED
  BY <1>2 DEF Good

\* The order of the elements does not matter.
LEMMA SumRemove ==
  ASSUME NEW S, IsFiniteSet(S), NEW f, \A x \in S : f[x] \in Int, NEW x \in S
  PROVE  SumFunctionOnSet(f, S) = f[x] + SumFunctionOnSet(f, S \ {x})
<1> DEFINE sum(T) == SumFunctionOnSet(f, T)
           Good == {T \in SUBSET S : \A y \in T : sum(T) = f[y] + sum(T \ {y})}
<1>0. \A T \in SUBSET S : IsFiniteSet(T) /\ sum(T) \in Int
  BY FS_Subset, SumInt
<1>1. ASSUME NEW T \in SUBSET S, \A U \in SUBSET T : U # T => U \in Good
      PROVE  T \in Good
  <2> SUFFICES ASSUME NEW y \in T PROVE sum(T) = f[y] + sum(T \ {y})
    OBVIOUS
  <2> DEFINE c == PickOne(T)
  <2>1. c \in T
    BY PickedIn
  <2>2. sum(T) = f[c] + sum(T \ {c})
    BY <1>0, SumStep
  <2> HIDE DEF c, sum
  <2>3. CASE y = c
    BY <2>2, <2>3
  <2>4. CASE y # c
    <3>1. sum(T \ {c}) = f[y] + sum((T \ {c}) \ {y})
      <4>1. T \ {c} \in SUBSET T /\ T \ {c} # T /\ y \in T \ {c}
        BY <2>1, <2>4
      <4> QED
        BY <1>1, <4>1
    <3>2. sum(T \ {y}) = f[c] + sum((T \ {y}) \ {c})
      <4>1. T \ {y} \in SUBSET T /\ T \ {y} # T /\ c \in T \ {y}
        BY <2>1, <2>4
      <4> QED
        BY <1>1, <4>1
    <3>3. sum((T \ {c}) \ {y}) = sum((T \ {y}) \ {c})
      <4>1. (T \ {c}) \ {y} = (T \ {y}) \ {c}
        OBVIOUS
      <4> QED
        BY <4>1
    <3>4. /\ f[y] \in Int /\ f[c] \in Int
          /\ sum((T \ {y}) \ {c}) \in Int
      BY <1>0, <2>1
    <3> QED
      BY <2>2, <3>1, <3>2, <3>3, <3>4
  <2> QED
    BY <2>3, <2>4
<1> HIDE DEF Good
<1>2. \A T \in SUBSET S : T \in Good
  <2>1. Good \subseteq SUBSET S
    BY DEF Good
  <2> QED
    BY <1>1, <2>1, SubsetInduction
<1> QED
  BY <1>2 DEF Good


\* Sums that the lemmas below need: of an element more, of two functions that agree,
\* of the rest of a set.
LEMMA SumAdd ==
  ASSUME NEW S, IsFiniteSet(S), NEW f, \A y \in S : f[y] \in Int, NEW x, x \notin S,
         f[x] \in Int
  PROVE  SumFunctionOnSet(f, S \union {x}) = SumFunctionOnSet(f, S) + f[x]
<1>1. IsFiniteSet(S \union {x})
  BY FS_AddElement
<1>2. (S \union {x}) \ {x} = S
  OBVIOUS
<1> DEFINE T == S \union {x}
<1>3. x \in T /\ (\A y \in T : f[y] \in Int) /\ IsFiniteSet(T) /\ T \ {x} = S
  BY <1>1, <1>2
<1> HIDE DEF T
<1>4. SumFunctionOnSet(f, T) = f[x] + SumFunctionOnSet(f, S)
  BY <1>3, SumRemove
<1>5. SumFunctionOnSet(f, S) \in Int
  BY SumInt
<1>6. SumFunctionOnSet(f, T) = SumFunctionOnSet(f, S) + f[x]
  BY <1>4, <1>5
<1> QED
  BY <1>6 DEF T

LEMMA SumAgree ==
  ASSUME NEW S, IsFiniteSet(S), NEW f, NEW g, \A x \in S : f[x] = g[x]
  PROVE  SumFunctionOnSet(f, S) = SumFunctionOnSet(g, S)
<1> DEFINE Good == {T \in SUBSET S : SumFunctionOnSet(f, T) = SumFunctionOnSet(g, T)}
<1>1. ASSUME NEW T \in SUBSET S, \A U \in SUBSET T : U # T => U \in Good
      PROVE  T \in Good
  <2>1. IsFiniteSet(T)
    BY FS_Subset
  <2>2. CASE T = {}
    BY <2>2, SumEmpty
  <2>3. CASE T # {}
    <3>1. PickOne(T) \in T /\ T \ {PickOne(T)} # T
      BY <2>3, PickedIn
    <3>2. SumFunctionOnSet(f, T \ {PickOne(T)}) = SumFunctionOnSet(g, T \ {PickOne(T)})
      BY <1>1, <3>1
    <3>3. /\ SumFunctionOnSet(f, T) = f[PickOne(T)] + SumFunctionOnSet(f, T \ {PickOne(T)})
          /\ SumFunctionOnSet(g, T) = g[PickOne(T)] + SumFunctionOnSet(g, T \ {PickOne(T)})
      BY <2>1, <2>3, SumStep
    <3> QED
      BY <3>1, <3>2, <3>3
  <2> QED
    BY <2>2, <2>3
<1> HIDE DEF Good
<1>2. \A T \in SUBSET S : T \in Good
  <2>1. Good \subseteq SUBSET S
    BY DEF Good
  <2> QED
    BY <1>1, <2>1, SubsetInduction
<1> QED
  BY <1>2 DEF Good

LEMMA SumNat ==
  ASSUME NEW S, IsFiniteSet(S), NEW f, \A x \in S : f[x] \in Nat
  PROVE  SumFunctionOnSet(f, S) \in Nat
<1> DEFINE Good == {T \in SUBSET S : SumFunctionOnSet(f, T) \in Nat}
<1>1. ASSUME NEW T \in SUBSET S, \A U \in SUBSET T : U # T => U \in Good
      PROVE  T \in Good
  <2>1. IsFiniteSet(T)
    BY FS_Subset
  <2>2. CASE T = {}
    BY <2>2, SumEmpty
  <2>3. CASE T # {}
    <3>1. PickOne(T) \in T /\ T \ {PickOne(T)} # T
      BY <2>3, PickedIn
    <3>2. SumFunctionOnSet(f, T \ {PickOne(T)}) \in Nat
      BY <1>1, <3>1
    <3>3. SumFunctionOnSet(f, T) = f[PickOne(T)] + SumFunctionOnSet(f, T \ {PickOne(T)})
      BY <2>1, <2>3, SumStep
    <3> QED
      BY <3>1, <3>2, <3>3
  <2> QED
    BY <2>2, <2>3
<1> HIDE DEF Good
<1>2. \A T \in SUBSET S : T \in Good
  <2>1. Good \subseteq SUBSET S
    BY DEF Good
  <2> QED
    BY <1>1, <2>1, SubsetInduction
<1> QED
  BY <1>2 DEF Good

LEMMA SumSplit ==
  ASSUME NEW S, IsFiniteSet(S), NEW f, \A x \in S : f[x] \in Nat, NEW T \in SUBSET S
  PROVE  /\ SumFunctionOnSet(f, S) = SumFunctionOnSet(f, S \ T) + SumFunctionOnSet(f, T)
         /\ SumFunctionOnSet(f, T) \in Nat /\ SumFunctionOnSet(f, S \ T) \in Nat
<1> DEFINE sum(U) == SumFunctionOnSet(f, U)
           Good == {U \in SUBSET S : sum(S) = sum(S \ U) + sum(U)}
<1>0. \A U \in SUBSET S : IsFiniteSet(U) /\ sum(U) \in Nat
  BY FS_Subset, SumNat
<1>1. ASSUME NEW U \in SUBSET S, \A V \in SUBSET U : V # U => V \in Good
      PROVE  U \in Good
  <2> HIDE DEF sum
  <2>1. CASE U = {}
    <3>1. sum({}) = 0
      BY SumEmpty DEF sum
    <3>2. sum(S \ {}) = sum(S) /\ sum(S) \in Nat
      <4>1. S \ {} = S /\ S \in SUBSET S
        OBVIOUS
      <4> QED
        BY <1>0, <4>1
    <3>3. sum(S) = sum(S \ U) + sum(U)
      BY <2>1, <3>1, <3>2
    <3> QED
      BY <3>3
  <2>2. CASE U # {}
    <3>1. PICK x \in U : TRUE
      BY <2>2
    <3> DEFINE V == U \ {x}
    <3>2. V \in SUBSET U /\ V # U /\ V \in SUBSET S
      BY <3>1
    <3>3. sum(S) = sum(S \ V) + sum(V)
      BY <1>1, <3>2
    <3>4. sum(U) = f[x] + sum(V)
      BY <1>0, <3>1, SumRemove DEF sum
    <3>5. sum(S \ V) = f[x] + sum(S \ U)
      <4>1. x \in S \ V /\ S \ V \in SUBSET S /\ (S \ V) \ {x} = S \ U
        BY <3>1
      <4>2. IsFiniteSet(S \ V) /\ \A y \in S \ V : f[y] \in Int
        BY <1>0, <4>1
      <4> HIDE DEF V
      <4>3. sum(S \ V) = f[x] + sum((S \ V) \ {x})
        BY <4>1, <4>2, SumRemove DEF sum
      <4> QED
        BY <4>1, <4>3
    <3>6. sum(V) \in Nat /\ sum(S \ U) \in Nat /\ f[x] \in Nat
      <4>1. S \ U \in SUBSET S
        OBVIOUS
      <4> QED
        BY <1>0, <3>1, <3>2, <4>1
    <3> HIDE DEF V
    <3>7. sum(S) = sum(S \ U) + sum(U)
      BY <3>3, <3>4, <3>5, <3>6
    <3> QED
      BY <3>7
  <2> QED
    BY <2>1, <2>2
<1>2. S \ T \in SUBSET S
  OBVIOUS
<1>3. sum(T) \in Nat /\ sum(S \ T) \in Nat
  BY <1>0, <1>2
<1> HIDE DEF Good
<1>4. \A U \in SUBSET S : U \in Good
  <2>1. Good \subseteq SUBSET S
    BY DEF Good
  <2> QED
    BY <1>1, <2>1, SubsetInduction
<1> QED
  BY <1>3, <1>4 DEF Good

-----------------------------------------------------------------------------
(* The operators of the model                                              *)

\* The date of a time of the run is one of the model's.
LEMMA DateInDates == \A t \in 0 .. MaxTime : DateOf(t) \in Dates
<1> SUFFICES ASSUME NEW t \in 0 .. MaxTime PROVE DateOf(t) \in Dates
  OBVIOUS
<1>1. Day \in Nat /\ Day > 0 /\ MaxTime \in Nat /\ t \in Nat /\ t <= MaxTime
  BY BudgetAssumption
<1>2. t \div Day \in Nat /\ MaxTime \div Day \in Nat /\ t \div Day <= MaxTime \div Day
  BY <1>1, SMTT(30)
<1> QED
  BY <1>2 DEF DateOf, Dates

LEMMA TotalFacts ==
  ASSUME NEW S \in SUBSET Requests
  PROVE  /\ IsFiniteSet(S) /\ Total(S) \in Nat
         /\ \A r \in Requests \ S : Total(S \union {r}) = Total(S) + Units[r]
         /\ \A T \in SUBSET S : Total(S \ T) = Total(S) - Total(T) /\ Total(T) <= Total(S)
         /\ \A r \in S : Total(S \ {r}) = Total(S) - Units[r] /\ Units[r] <= Total(S)
<1>1. \A r \in Requests : Units[r] \in Nat
  BY BudgetAssumption
<1>2. IsFiniteSet(S)
  BY BudgetAssumption, FS_Subset
<1>3. Total(S) \in Nat
  BY <1>1, <1>2, SumNat DEF Total
<1>4. ASSUME NEW r \in Requests \ S
      PROVE  Total(S \union {r}) = Total(S) + Units[r]
  BY <1>1, <1>2, SumAdd DEF Total
<1>5. ASSUME NEW T \in SUBSET S
      PROVE  Total(S \ T) = Total(S) - Total(T) /\ Total(T) <= Total(S)
  <2>1. /\ Total(S) = Total(S \ T) + Total(T) /\ Total(T) \in Nat /\ Total(S \ T) \in Nat
    BY <1>1, <1>2, SumSplit DEF Total
  <2> QED
    BY <2>1, <1>3
<1>6. ASSUME NEW r \in S
      PROVE  Total(S \ {r}) = Total(S) - Units[r] /\ Units[r] <= Total(S)
  <2>1. Total(S) = Units[r] + Total(S \ {r})
    BY <1>1, <1>2, SumRemove DEF Total
  <2>2. Total(S \ {r}) \in Nat
    <3>1. IsFiniteSet(S \ {r}) /\ \A x \in S \ {r} : Units[x] \in Nat
      BY <1>1, <1>2, FS_RemoveElement
    <3> QED
      BY <3>1, SumNat DEF Total
  <2> QED
    BY <1>1, <1>3, <2>1, <2>2
<1> QED
  BY <1>2, <1>3, <1>4, <1>5, <1>6

\* What the settled reservations of a day were charged.
Charges(date) == [r \in Of(date, "SETTLED") |-> reservation[r].actual]

LEMMA ChargesNat ==
  ASSUME IInv, NEW date \in Dates
  PROVE  /\ Of(date, "SETTLED") \subseteq Requests /\ IsFiniteSet(Of(date, "SETTLED"))
         /\ \A r \in Of(date, "SETTLED") : Charges(date)[r] \in Nat
         /\ SumFunction(Charges(date)) = SumFunctionOnSet(Charges(date), Of(date, "SETTLED"))
<1>1. Of(date, "SETTLED") \subseteq Requests
  BY DEF Of
<1>2. IsFiniteSet(Of(date, "SETTLED"))
  BY <1>1, BudgetAssumption, FS_Subset
<1>3. \A r \in Of(date, "SETTLED") : Charges(date)[r] \in Nat
  BY DEF Of, Charges, IInv, OwnInv
<1> QED
  BY <1>1, <1>2, <1>3 DEF SumFunction, Charges

LEMMA HandlerShape ==
  ASSUME NEW h \in Handlers
  PROVE  /\ h.pc \in {"new", "failed", "begun", "selected", "calling", "answered", "ended"}
         /\ h.pc = "begun" => h.at \in 0 .. MaxTime
         /\ h.pc = "selected" => h.at \in 0 .. MaxTime /\ h.expired \in SUBSET Requests
         /\ h.pc = "calling" => h \in [pc : {"calling"}, tried : Nat]
         /\ h.pc = "answered" => h.cost \in Nat
BY DEF Handlers

-----------------------------------------------------------------------------
LEMMA InitInvariant == Init => IInv
<1> SUFFICES ASSUME Init PROVE IInv
  OBVIOUS
<1>1. /\ now = 0 /\ daily = [date \in Dates |-> [reserved |-> 0, spent |-> 0]]
      /\ reservation = [r \in Requests |-> NULL] /\ used = [r \in Requests |-> 0]
      /\ handler = [r \in Requests |-> [pc |-> "new"]] /\ stranded = {}
  BY DEF Init
<1>2. TypeOK /\ HandlerInv
  BY <1>1, BudgetAssumption DEF TypeOK, HandlerInv, Handlers
<1>3. OwnInv /\ SelectedInv
  BY <1>1 DEF OwnInv, SelectedInv
<1>4. \A date, status : Of(date, status) = {}
  BY <1>1 DEF Of
<1>5. \A date : Stranded(date) = {}
  BY <1>1 DEF Stranded
<1>6. \A f : SumFunctionOnSet(f, {}) = 0
  BY SumEmpty
<1>7. CountedExactly
  <2> SUFFICES ASSUME NEW date \in Dates
               PROVE  /\ daily[date].reserved = Total(Of(date, "RESERVED") \union Stranded(date))
                      /\ daily[date].spent = SumFunction(Charges(date))
                      /\ \A r \in Of(date, "SETTLED") : reservation[r].actual <= used[r]
    BY DEF CountedExactly, Charges
  <2>1. Total({}) = 0
    BY <1>6 DEF Total
  <2>2. SumFunction(Charges(date)) = 0
    BY <1>4, <1>6 DEF SumFunction, Charges
  <2> QED
    BY <1>1, <1>4, <1>5, <2>1, <2>2
<1>8. WithinLimit
  BY <1>1, BudgetAssumption DEF WithinLimit
<1> QED
  BY <1>2, <1>3, <1>7, <1>8 DEF IInv

-----------------------------------------------------------------------------
\* A step that leaves the tables alone: what it must say of the request it serves.
LEMMA QuietStep ==
  ASSUME IInv, NEW r \in Requests, NEW h \in Handlers, handler' = [handler EXCEPT ![r] = h],
         UNCHANGED <<now, daily, reservation, stranded>>,
         used' \in [Requests -> Nat], \A q \in Requests : used[q] <= used'[q],
         h.pc \in {"new", "begun", "selected"} => reservation[r] = NULL,
         h.pc \in {"calling", "answered", "failed"} =>
           reservation[r] # NULL /\ reservation[r].status # "SETTLED",
         h.pc = "answered" => h.cost <= Units[r] /\ h.cost <= used'[r],
         h.pc = "selected" =>
           /\ h.expired \subseteq Overdue(h.at)
           /\ \A q \in Requests \ {r} :
                handler[q].pc = "selected" => handler[q].expired \intersect h.expired = {}
  PROVE  IInv'
<1>1. /\ handler'[r] = h /\ handler' \in [Requests -> Handlers]
      /\ \A q \in Requests : q # r => handler'[q] = handler[q]
      /\ \A q \in Requests : handler[q] \in Handlers
  BY DEF IInv, HandlerInv
<1>2. TypeOK'
  BY <1>1 DEF IInv, TypeOK
<1>3. HandlerInv'
  BY <1>1 DEF IInv, HandlerInv
<1>4. OwnInv'
  <2> SUFFICES ASSUME NEW q \in Requests
               PROVE  /\ handler'[q].pc \in {"new", "begun", "selected"} => reservation[q] = NULL
                      /\ handler'[q].pc \in {"calling", "answered", "failed"} =>
                           reservation[q] # NULL /\ reservation[q].status # "SETTLED"
                      /\ handler'[q].pc = "answered" =>
                           handler'[q].cost <= Units[q] /\ handler'[q].cost <= used'[q]
                      /\ reservation[q] # NULL /\ reservation[q].status = "SETTLED" =>
                           reservation[q].actual \in Nat /\ reservation[q].actual <= used'[q]
    BY DEF OwnInv
  <2>1. used[q] \in Nat /\ used'[q] \in Nat /\ used[q] <= used'[q]
    BY DEF IInv, TypeOK
  <2>2. reservation[q] # NULL /\ reservation[q].status = "SETTLED" =>
          reservation[q].actual \in Nat /\ reservation[q].actual <= used'[q]
    BY <2>1 DEF IInv, OwnInv
  <2>3. CASE q = r
    BY <1>1, <2>2, <2>3
  <2>4. CASE q # r
    <3>1. handler[q].pc = "answered" => handler[q].cost \in Nat
      BY <1>1, HandlerShape
    <3> QED
      BY <1>1, <2>1, <2>2, <2>4, <3>1 DEF IInv, OwnInv
  <2> QED
    BY <2>3, <2>4
<1>5. SelectedInv'
  <2>1. \A t : Overdue(t)' = Overdue(t)
    BY DEF Overdue
  <2>2. \A q \in Requests : handler'[q].pc = "selected" =>
          handler'[q].expired \subseteq Overdue(handler'[q].at)
    BY <1>1 DEF IInv, SelectedInv
  <2>3. \A q \in Requests : handler'[q].pc = "selected" =>
          \A p \in Requests \ {q} :
            handler'[p].pc = "selected" => handler'[p].expired \intersect handler'[q].expired = {}
    BY <1>1 DEF IInv, SelectedInv
  <2> QED
    BY <2>1, <2>2, <2>3 DEF SelectedInv, Overdue
<1>6. CountedExactly'
  <2>1. \A date : Stranded(date)' = Stranded(date)
    BY DEF Stranded
  <2>2. \A date, status : Of(date, status)' = Of(date, status)
    BY DEF Of
  <2> SUFFICES ASSUME NEW date \in Dates
               PROVE  /\ daily[date].reserved = Total(Of(date, "RESERVED") \union Stranded(date))
                      /\ daily[date].spent = SumFunction(Charges(date))
                      /\ \A q \in Of(date, "SETTLED") : reservation[q].actual <= used'[q]
    BY <2>1, <2>2 DEF CountedExactly, Charges, Total
  <2>3. \A q \in Of(date, "SETTLED") : reservation[q].actual <= used'[q]
    BY <1>4 DEF OwnInv, Of
  <2> QED
    BY <2>3 DEF IInv, CountedExactly, Charges
<1>7. WithinLimit'
  BY DEF IInv, WithinLimit
<1> QED
  BY <1>2, <1>3, <1>4, <1>5, <1>6, <1>7 DEF IInv

-----------------------------------------------------------------------------
(* The steps that leave the tables alone                                   *)

\* What the invariant says of the request that a step serves.
LEMMA Known ==
  ASSUME IInv, NEW r \in Requests
  PROVE  /\ handler[r] \in Handlers /\ used[r] \in Nat /\ Units[r] \in Nat
         /\ handler[r].pc \in {"new", "begun", "selected"} => reservation[r] = NULL
         /\ handler[r].pc \in {"calling", "answered", "failed"} =>
              reservation[r] # NULL /\ reservation[r].status # "SETTLED"
         /\ now \in 0 .. MaxTime /\ used \in [Requests -> Nat]
BY BudgetAssumption DEF IInv, HandlerInv, TypeOK, OwnInv

LEMMA EndStep ==
  ASSUME IInv, NEW r \in Requests, NEW answer \in {"OK", "UNAVAILABLE", "ERROR", "NONE"},
         End(r, answer), UNCHANGED <<now, daily, reservation, used, stranded>>
  PROVE  IInv'
<1> DEFINE h == [pc |-> "ended", answer |-> answer]
<1>1. h \in Handlers /\ h.pc = "ended" /\ handler' = [handler EXCEPT ![r] = h]
  BY DEF Handlers, End
<1>2. used' \in [Requests -> Nat] /\ \A q \in Requests : used[q] <= used'[q]
  BY Known
<1> HIDE DEF h
<1> QED
  BY <1>1, <1>2, QuietStep

LEMMA BeginStep ==
  ASSUME IInv, NEW r \in Requests, BeginReserve(r)
  PROVE  IInv'
<1> DEFINE h == [pc |-> "begun", at |-> now]
<1>1. h \in Handlers /\ h.pc = "begun" /\ handler' = [handler EXCEPT ![r] = h]
  BY Known DEF Handlers, BeginReserve
<1>2. used' \in [Requests -> Nat] /\ \A q \in Requests : used[q] <= used'[q]
  BY Known DEF BeginReserve
<1>3. reservation[r] = NULL /\ UNCHANGED <<now, daily, reservation, stranded>>
  BY Known DEF BeginReserve
<1> HIDE DEF h
<1> QED
  BY <1>1, <1>2, <1>3, QuietStep

LEMMA SelectStep ==
  ASSUME IInv, NEW r \in Requests, SelectExpired(r)
  PROVE  IInv'
<1> DEFINE expired == Overdue(handler[r].at)
           h == [pc |-> "selected", at |-> handler[r].at, expired |-> expired]
<1>1. handler[r].pc = "begun" /\ handler[r].at \in 0 .. MaxTime
  BY Known, HandlerShape DEF SelectExpired
<1>2. /\ h \in Handlers /\ h.pc = "selected" /\ handler' = [handler EXCEPT ![r] = h]
      /\ h.at = handler[r].at /\ h.expired = expired
  BY <1>1 DEF Handlers, SelectExpired, Overdue
<1>3. used' \in [Requests -> Nat] /\ \A q \in Requests : used[q] <= used'[q]
  BY Known DEF SelectExpired
<1>4. reservation[r] = NULL /\ UNCHANGED <<now, daily, reservation, stranded>>
  BY <1>1, Known DEF SelectExpired
<1>5. \A q \in Requests \ {r} :
        handler[q].pc = "selected" => handler[q].expired \intersect expired = {}
  BY DEF SelectExpired, LockedByOthers
<1> HIDE DEF h, expired
<1>6. h.expired \subseteq Overdue(h.at)
  BY <1>2 DEF expired
<1> QED
  BY <1>2, <1>3, <1>4, <1>5, <1>6, QuietStep

LEMMA CompleteSteps ==
  ASSUME IInv, NEW r \in Requests, CompleteStep(r)
  PROVE  IInv'
<1>1. /\ handler[r].pc = "calling" /\ reservation[r] # NULL
      /\ reservation[r].status # "SETTLED"
      /\ UNCHANGED <<now, daily, reservation, stranded>>
  BY Known DEF CompleteStep, Answer, FailAttempt, GiveUp
<1>2. ASSUME NEW cost \in Consumption, Answer(r, cost) PROVE IInv'
  <2> DEFINE h == [pc |-> "answered", cost |-> cost]
  <2>1. cost \in Nat
    BY BudgetAssumption
  <2>2. h \in Handlers /\ h.pc = "answered" /\ handler' = [handler EXCEPT ![r] = h]
        /\ h.cost = cost /\ cost <= Units[r]
    BY <1>2, <2>1 DEF Handlers, Answer
  <2>3. /\ used' \in [Requests -> Nat] /\ \A q \in Requests : used[q] <= used'[q]
        /\ cost <= used'[r]
    <3>1. used' = [used EXCEPT ![r] = used[r] + cost]
      BY <1>2 DEF Answer
    <3> QED
      BY <2>1, <3>1, Known
  <2> HIDE DEF h
  <2> QED
    BY <1>1, <2>2, <2>3, QuietStep
<1>3. ASSUME NEW cost \in Consumption, FailAttempt(r, cost) PROVE IInv'
  <2> DEFINE h == [handler[r] EXCEPT !.tried = @ + 1]
  <2>1. cost \in Nat
    BY BudgetAssumption
  <2>2. h \in Handlers /\ h.pc = "calling" /\ handler' = [handler EXCEPT ![r] = h]
    <3>1. handler[r] \in [pc : {"calling"}, tried : Nat]
      BY <1>1, Known, HandlerShape
    <3>2. h \in [pc : {"calling"}, tried : Nat]
      BY <3>1
    <3>3. handler' = [handler EXCEPT ![r] = h]
      BY <1>3 DEF FailAttempt
    <3> HIDE DEF h
    <3> QED
      BY <3>2, <3>3 DEF Handlers
  <2>3. used' \in [Requests -> Nat] /\ \A q \in Requests : used[q] <= used'[q]
    <3>1. used' = [used EXCEPT ![r] = used[r] + cost]
      BY <1>3 DEF FailAttempt
    <3> QED
      BY <2>1, <3>1, Known
  <2> HIDE DEF h
  <2> QED
    BY <1>1, <2>2, <2>3, QuietStep
<1>4. CASE GiveUp(r)
  <2> DEFINE h == [pc |-> "failed"]
  <2>1. h \in Handlers /\ h.pc = "failed" /\ handler' = [handler EXCEPT ![r] = h]
    BY <1>4 DEF Handlers, GiveUp
  <2>2. used' \in [Requests -> Nat] /\ \A q \in Requests : used[q] <= used'[q]
    BY <1>4, Known DEF GiveUp
  <2> HIDE DEF h
  <2> QED
    BY <1>1, <2>1, <2>2, QuietStep
<1> QED
  BY <1>2, <1>3, <1>4 DEF CompleteStep

\* Time passes: nothing but now() depends on it until a transaction begins.
LEMMA TickStep ==
  ASSUME IInv, Tick
  PROVE  IInv'
<1>1. UNCHANGED <<daily, reservation, handler, used, stranded>> /\ now' \in 0 .. MaxTime
  BY BudgetAssumption DEF Tick, IInv, HandlerInv
<1>2. TypeOK' /\ HandlerInv' /\ OwnInv' /\ WithinLimit'
  BY <1>1 DEF IInv, TypeOK, HandlerInv, OwnInv, WithinLimit
<1>3. SelectedInv'
  BY <1>1 DEF IInv, SelectedInv, Overdue
<1>4. CountedExactly'
  BY <1>1 DEF IInv, CountedExactly, Of, Stranded
<1> QED
  BY <1>2, <1>3, <1>4 DEF IInv

-----------------------------------------------------------------------------
(* reserve and settle                                                      *)

\* What the row of a day counts as reserved.
Counted(date) == Of(date, "RESERVED") \union Stranded(date)

LEMMA CountedFacts ==
  ASSUME IInv, NEW date \in Dates
  PROVE  /\ Counted(date) \in SUBSET Requests
         /\ Of(date, "RESERVED") \intersect stranded = {}
         /\ daily[date].reserved = Total(Counted(date))
         /\ daily[date].reserved \in Nat /\ daily[date].spent \in Nat
         /\ daily[date] \in [reserved : Nat, spent : Nat]
         /\ daily[date].reserved + daily[date].spent <= DailyLimit
         /\ DailyLimit \in Nat
<1>1. /\ Counted(date) \in SUBSET Requests /\ Of(date, "RESERVED") \intersect stranded = {}
  BY DEF Counted, Of, Stranded, IInv, HandlerInv, TypeOK
<1>2. daily[date] \in [reserved : Nat, spent : Nat]
  BY DEF IInv, TypeOK
<1>3. daily[date].reserved = Total(Counted(date))
  BY DEF IInv, CountedExactly, Counted
<1> QED
  BY <1>1, <1>2, <1>3, BudgetAssumption DEF IInv, WithinLimit

\* What Reserve does to the rows: t is the time of its transaction, E the rows it
\* selected, O those that are overdue when it updates them.
LEMMA ReserveRows ==
  ASSUME IInv, NEW r \in Requests, Reserve(r),
         NEW t, t = handler[r].at, NEW d, d = DateOf(t),
         NEW E, E = handler[r].expired, NEW O, O = Overdue(t)
  PROVE  /\ t \in 0 .. MaxTime /\ d \in Dates /\ E \in SUBSET Requests
         /\ E \subseteq O /\ O \subseteq Of(d, "RESERVED") /\ O \subseteq Requests
         /\ reservation[r] = NULL /\ r \notin O /\ r \notin stranded
         /\ Reserved(t) \in Rows /\ \A row \in Rows : row # NULL
         /\ \A x \in O : /\ reservation[x] \in Rows /\ reservation[x].status = "RESERVED"
                         /\ reservation[x].date = d
         /\ reservation'[r] = Reserved(t) /\ DOMAIN reservation' = Requests
         /\ \A x \in O : /\ reservation'[x] \in Rows /\ reservation'[x].status = "RELEASED"
                         /\ reservation'[x].date = d
         /\ \A x \in Requests : x # r /\ x \notin O => reservation'[x] = reservation[x]
<1>1. /\ handler[r].pc = "selected" /\ t \in 0 .. MaxTime /\ E \in SUBSET Requests
      /\ d \in Dates /\ reservation[r] = NULL
  BY Known, HandlerShape, DateInDates DEF Reserve
<1>2. reservation' = [x \in Requests |->
        IF x = r THEN Reserved(t)
        ELSE IF x \in O THEN [reservation[x] EXCEPT !.status = "RELEASED"]
        ELSE reservation[x]]
  BY DEF Reserve
<1>3. E \subseteq O
  BY <1>1 DEF IInv, SelectedInv
<1>4. /\ O \subseteq Of(d, "RESERVED") /\ O \subseteq Requests /\ r \notin O
      /\ r \notin stranded
  BY <1>1 DEF Overdue, Of, IInv, HandlerInv
<1>5. \A x \in O : /\ reservation[x] \in Rows /\ reservation[x].status = "RESERVED"
                   /\ reservation[x].date = d
  BY DEF Overdue, IInv, TypeOK
<1>6. Reserved(t) \in Rows
  <2>1. t + Lifetime \in Nat
    BY <1>1, BudgetAssumption
  <2> QED
    BY <1>1, <2>1 DEF Reserved, Rows
<1>7. \A row \in Rows : row # NULL
  BY NullAssumption, BudgetAssumption DEF Rows, Dates
<1>8. /\ reservation'[r] = Reserved(t) /\ DOMAIN reservation' = Requests
      /\ \A x \in O : reservation'[x] = [reservation[x] EXCEPT !.status = "RELEASED"]
      /\ \A x \in Requests : x # r /\ x \notin O => reservation'[x] = reservation[x]
  BY <1>2, <1>4
<1>9. \A x \in O : /\ reservation'[x] \in Rows /\ reservation'[x].status = "RELEASED"
                   /\ reservation'[x].date = d
  BY <1>5, <1>8 DEF Rows
<1> QED
  BY <1>1, <1>3, <1>4, <1>5, <1>6, <1>7, <1>8, <1>9

LEMMA ReserveStepInv ==
  ASSUME IInv, NEW r \in Requests, Reserve(r)
  PROVE  IInv'
<1>0. PICK t, d, E, O : /\ t = handler[r].at /\ d = DateOf(t)
                        /\ E = handler[r].expired /\ O = Overdue(t)
  OBVIOUS
<1>1. /\ t \in 0 .. MaxTime /\ E \in SUBSET Requests
      /\ d \in Dates /\ reservation[r] = NULL
  BY <1>0, ReserveRows
<1>2. /\ ~ LockedByOthers(r, O) /\ Fits(r)
      /\ daily' = [daily EXCEPT ![d].reserved = StillReserved(r) + Units[r]]
      /\ handler' = [handler EXCEPT ![r] = [pc |-> "calling", tried |-> 0]]
      /\ stranded' = stranded \union (O \ E)
      /\ UNCHANGED <<now, used>>
  BY <1>0 DEF Reserve
<1>3. /\ E \subseteq O /\ O \subseteq Of(d, "RESERVED") /\ O \subseteq Requests /\ r \notin O
      /\ r \notin stranded
  BY <1>0, ReserveRows
<1>4. \A x \in O : /\ reservation[x] \in Rows /\ reservation[x].status = "RESERVED"
                   /\ reservation[x].date = d
  BY <1>0, ReserveRows
<1>5. Reserved(t) \in Rows
  BY <1>0, ReserveRows
<1>6. \A row \in Rows : row # NULL
  BY <1>0, ReserveRows
<1>7. /\ reservation'[r] = Reserved(t) /\ DOMAIN reservation' = Requests
      /\ \A x \in Requests : x # r /\ x \notin O => reservation'[x] = reservation[x]
  BY <1>0, ReserveRows
<1>8. \A x \in O : /\ reservation'[x] \in Rows /\ reservation'[x].status = "RELEASED"
                   /\ reservation'[x].date = d
  BY <1>0, ReserveRows
<1>9. /\ handler'[r].pc = "calling" /\ handler' \in [Requests -> Handlers]
      /\ \A x \in Requests : x # r => handler'[x] = handler[x]
  BY <1>2 DEF IInv, HandlerInv, Handlers
<1>10. /\ StillReserved(r) = Total(Counted(d) \ E) /\ Total(Counted(d) \ E) \in Nat
       /\ Counted(d) \ E \in SUBSET Requests /\ r \notin Counted(d)
  <2>1. /\ Counted(d) \in SUBSET Requests /\ daily[d].reserved = Total(Counted(d))
    BY <1>1, CountedFacts
  <2>2. E \in SUBSET Counted(d) /\ E \in SUBSET Requests
    BY <1>3 DEF Counted
  <2>3. Total(Counted(d) \ E) = Total(Counted(d)) - Total(E) /\ Total(E) <= Total(Counted(d))
        /\ Total(Counted(d)) \in Nat
    BY <2>1, <2>2, TotalFacts
  <2>4. Total(E) \in Nat
    BY <2>2, TotalFacts
  <2>5. StillReserved(r) = Total(Counted(d)) - Total(E)
    BY <1>0, <2>1, <2>3, <2>4 DEF StillReserved, Less
  <2>6. r \notin Counted(d)
    BY <1>1, <1>3 DEF Counted, Of, Stranded
  <2> QED
    BY <2>1, <2>3, <2>4, <2>5, <2>6
<1>11. /\ daily'[d] = [reserved |-> StillReserved(r) + Units[r], spent |-> daily[d].spent]
       /\ \A date \in Dates : date # d => daily'[date] = daily[date]
       /\ daily' \in [Dates -> [reserved : Nat, spent : Nat]]
  <2>1. StillReserved(r) + Units[r] \in Nat
    BY <1>10, Known
  <2> QED
    BY <1>1, <1>2, <2>1 DEF IInv, TypeOK
<1>12. /\ Of(d, "RESERVED")' = (Of(d, "RESERVED") \ O) \union {r}
       /\ \A date \in Dates : date # d => Of(date, "RESERVED")' = Of(date, "RESERVED")
       /\ \A date \in Dates : Of(date, "SETTLED")' = Of(date, "SETTLED")
  <2>1. /\ reservation'[r] # NULL /\ reservation'[r].date = d
        /\ reservation'[r].status = "RESERVED"
    BY <1>0, <1>5, <1>6, <1>7 DEF Reserved
  <2>2. \A x \in O : reservation'[x] # NULL
    BY <1>6, <1>8
  <2>3. reservation[r] = NULL
    BY <1>1
  <2>4. ASSUME NEW x \in Requests, NEW date \in Dates
        PROVE  /\ x \in Of(date, "RESERVED")' <=>
                    (x \in Of(date, "RESERVED") /\ x \notin O) \/ (x = r /\ date = d)
               /\ x \in Of(date, "SETTLED")' <=> x \in Of(date, "SETTLED")
    <3>1. CASE x = r
      BY <1>3, <2>1, <2>3, <3>1 DEF Of
    <3>2. CASE x \in O
      BY <1>3, <1>4, <1>8, <2>2, <3>2 DEF Of
    <3>3. CASE x # r /\ x \notin O
      BY <1>7, <3>3 DEF Of
    <3> QED
      BY <3>1, <3>2, <3>3
  <2>5. /\ \A date, status : Of(date, status) \subseteq Requests
        /\ \A date, status : Of(date, status)' \subseteq Requests
    BY DEF Of
  <2>6. Of(d, "RESERVED")' = (Of(d, "RESERVED") \ O) \union {r}
    BY <1>1, <1>3, <2>4, <2>5
  <2>8. ASSUME NEW date \in Dates, date # d
        PROVE  Of(date, "RESERVED")' = Of(date, "RESERVED")
    <3>1. Of(date, "RESERVED") \intersect O = {}
      BY <1>4, <2>8 DEF Of
    <3>2. \A x \in Requests : x \in Of(date, "RESERVED")' <=> x \in Of(date, "RESERVED")
      BY <2>4, <2>8, <3>1
    <3>3. Of(date, "RESERVED") \subseteq Requests /\ Of(date, "RESERVED")' \subseteq Requests
      BY DEF Of
    <3> QED
      BY <3>2, <3>3
  <2>9. ASSUME NEW date \in Dates
        PROVE  Of(date, "SETTLED")' = Of(date, "SETTLED")
    <3>1. \A x \in Requests : x \in Of(date, "SETTLED")' <=> x \in Of(date, "SETTLED")
      BY <2>4
    <3>2. Of(date, "SETTLED") \subseteq Requests /\ Of(date, "SETTLED")' \subseteq Requests
      BY DEF Of
    <3> QED
      BY <3>1, <3>2
  <2> QED
    BY <2>6, <2>8, <2>9
<1>13. \A x \in stranded : x \in Requests /\ x # r /\ x \notin O /\ reservation'[x] = reservation[x]
                           /\ reservation[x] # NULL /\ reservation[x].status = "RELEASED"
  <2>1. \A x \in stranded : /\ x \in Requests /\ reservation[x] # NULL
                            /\ reservation[x].status = "RELEASED"
    BY DEF IInv, TypeOK, HandlerInv
  <2> QED
    BY <1>3, <1>4, <1>7, <2>1
<1>14. /\ Stranded(d)' = Stranded(d) \union (O \ E)
       /\ \A date \in Dates : date # d => Stranded(date)' = Stranded(date)
  BY <1>2, <1>8, <1>13 DEF Stranded
<1>15. TypeOK'
  <2>1. reservation' \in [Requests -> Rows \union {NULL}]
    <3>1. \A x \in Requests : reservation'[x] \in Rows \union {NULL}
      BY <1>5, <1>7, <1>8 DEF IInv, TypeOK
    <3>2. reservation' = [x \in Requests |-> reservation'[x]]
      BY DEF Reserve
    <3> QED
      BY <3>1, <3>2
  <2>2. \A x \in stranded' : reservation'[x].status = "RELEASED"
    BY <1>2, <1>8, <1>13
  <2> QED
    BY <1>2, <1>9, <1>11, <2>1, <2>2 DEF IInv, TypeOK
<1>16. HandlerInv'
  <2>1. \A x \in stranded' : x \in Requests /\ reservation'[x] # NULL
    BY <1>2, <1>3, <1>6, <1>8, <1>13
  <2> QED
    BY <1>2, <1>9, <2>1 DEF IInv, HandlerInv
<1>17. OwnInv'
  <2> SUFFICES ASSUME NEW x \in Requests
               PROVE  /\ handler'[x].pc \in {"new", "begun", "selected"} => reservation'[x] = NULL
                      /\ handler'[x].pc \in {"calling", "answered", "failed"} =>
                           reservation'[x] # NULL /\ reservation'[x].status # "SETTLED"
                      /\ handler'[x].pc = "answered" =>
                           handler'[x].cost <= Units[x] /\ handler'[x].cost <= used'[x]
                      /\ reservation'[x] # NULL /\ reservation'[x].status = "SETTLED" =>
                           reservation'[x].actual \in Nat /\ reservation'[x].actual <= used'[x]
    BY DEF OwnInv
  <2>1. CASE x = r
    BY <1>5, <1>6, <1>7, <1>9, <2>1 DEF Reserved
  <2>2. CASE x \in O
    <3>1. reservation[x] # NULL /\ x # r
      BY <1>3, <1>4, <1>6, <2>2
    <3>2. reservation'[x] # NULL /\ reservation'[x].status = "RELEASED"
      BY <1>6, <1>8, <2>2
    <3> QED
      BY <1>2, <1>9, <3>1, <3>2 DEF IInv, OwnInv
  <2>3. CASE x # r /\ x \notin O
    BY <1>2, <1>7, <1>9, <2>3 DEF IInv, OwnInv
  <2> QED
    BY <2>1, <2>2, <2>3
<1>18. SelectedInv'
  <2>1. ASSUME NEW q \in Requests, handler'[q].pc = "selected"
        PROVE  /\ q # r /\ handler'[q] = handler[q] /\ handler[q].pc = "selected"
               /\ \A x \in handler[q].expired :
                    x \in Overdue(handler[q].at) /\ reservation'[x] = reservation[x]
    <3>1. q # r /\ handler'[q] = handler[q] /\ handler[q].pc = "selected"
      BY <1>9, <2>1
    <3>2. handler[q].expired \subseteq Overdue(handler[q].at)
      BY <3>1 DEF IInv, SelectedInv
    <3>3. handler[q].expired \intersect O = {}
      BY <1>2, <3>1 DEF LockedByOthers
    <3>4. \A x \in handler[q].expired : x \in Requests /\ x # r /\ x \notin O
      BY <1>1, <3>2, <3>3 DEF Overdue
    <3> QED
      BY <1>7, <3>1, <3>2, <3>4
  <2>2. ASSUME NEW q \in Requests, handler'[q].pc = "selected"
        PROVE  \A x \in handler'[q].expired :
                 /\ x \in Requests /\ reservation'[x] # NULL
                 /\ reservation'[x].date = DateOf(handler'[q].at)
                 /\ reservation'[x].status = "RESERVED" /\ reservation'[x].expires <= handler'[q].at
    BY <2>1, <2>2 DEF Overdue
  <2>3. ASSUME NEW q \in Requests, handler'[q].pc = "selected",
               NEW p \in Requests \ {q}, handler'[p].pc = "selected"
        PROVE  handler'[p].expired \intersect handler'[q].expired = {}
    BY <2>1, <2>3 DEF IInv, SelectedInv
  <2> QED
    BY <2>2, <2>3 DEF SelectedInv, Overdue
<1>19. CountedExactly'
  <2> SUFFICES ASSUME NEW date \in Dates
               PROVE  /\ daily'[date].reserved = Total(Counted(date)')
                      /\ daily'[date].spent = SumFunction(Charges(date)')
                      /\ \A x \in Of(date, "SETTLED")' : reservation'[x].actual <= used'[x]
    BY DEF CountedExactly, Counted, Charges, Total
  <2>1. daily'[date].reserved = Total(Counted(date)')
    <3>1. CASE date = d
      <4>1. Counted(date)' = (Counted(d) \ E) \union {r}
        <5>1. Counted(d)' = ((Of(d, "RESERVED") \ O) \union {r}) \union (Stranded(d) \union (O \ E))
          BY <1>12, <1>14, <3>1 DEF Counted
        <5>2. Stranded(d) \intersect O = {}
          BY <1>13 DEF Stranded
        <5> QED
          BY <1>3, <3>1, <5>1, <5>2 DEF Counted
      <4>2. Total((Counted(d) \ E) \union {r}) = Total(Counted(d) \ E) + Units[r]
        BY <1>10, TotalFacts
      <4> QED
        BY <1>10, <1>11, <3>1, <4>1, <4>2
    <3>2. CASE date # d
      <4>1. Counted(date)' = Counted(date)
        BY <1>12, <1>14, <3>2 DEF Counted
      <4> QED
        BY <1>11, <3>2, <4>1, CountedFacts
    <3> QED
      BY <3>1, <3>2
  <2>2. \A x \in Of(date, "SETTLED") : reservation'[x] = reservation[x]
    <3>1. \A x \in Of(date, "SETTLED") : x \in Requests /\ x # r /\ x \notin O
      BY <1>1, <1>4 DEF Of
    <3> QED
      BY <1>7, <3>1
  <2>3. Charges(date)' = Charges(date)
    BY <1>12, <2>2 DEF Charges
  <2>4. daily'[date].spent = daily[date].spent
    BY <1>11
  <2>5. daily[date].spent = SumFunction(Charges(date))
    BY DEF IInv, CountedExactly, Charges
  <2>6. \A x \in Of(date, "SETTLED")' : reservation'[x].actual <= used'[x]
    BY <1>2, <1>12, <2>2 DEF IInv, CountedExactly
  <2> QED
    BY <2>1, <2>3, <2>4, <2>5, <2>6
<1>20. WithinLimit'
  <2> SUFFICES ASSUME NEW date \in Dates
               PROVE  daily'[date].reserved + daily'[date].spent <= DailyLimit
    BY DEF WithinLimit
  <2>1. CASE date = d
    <3>1. StillReserved(r) + daily[d].spent + Units[r] <= DailyLimit
      BY <1>0, <1>2 DEF Fits
    <3>2. StillReserved(r) \in Nat /\ daily[d].spent \in Nat /\ Units[r] \in Nat /\ DailyLimit \in Nat
      BY <1>1, <1>10, CountedFacts, Known
    <3> QED
      BY <1>11, <2>1, <3>1, <3>2
  <2>2. CASE date # d
    BY <1>11, <2>2, CountedFacts
  <2> QED
    BY <2>1, <2>2
<1> QED
  BY <1>15, <1>16, <1>17, <1>18, <1>19, <1>20 DEF IInv

LEMMA SettleStepInv ==
  ASSUME IInv, NEW r \in Requests, Settle(r)
  PROVE  IInv'
<1> DEFINE c == Charged(r)
           answered == handler[r].pc = "answered"
           h == [pc |-> "ended", answer |-> IF answered THEN "OK" ELSE "UNAVAILABLE"]
           row == [reservation[r] EXCEPT !.actual = c,
                                         !.status = IF answered THEN "SETTLED" ELSE "RELEASED"]
<1>1. /\ handler[r].pc \in {"answered", "failed"} /\ ~ LockedByOthers(r, {r})
      /\ reservation[r].status = "RESERVED" /\ reservation[r] \in Rows
      /\ reservation[r] # NULL /\ r \notin stranded
  BY Known DEF Settle, Settling, Settleable, IInv, TypeOK
<1>2. PICK d \in Dates : d = reservation[r].date
  BY <1>1 DEF Rows
<1>3. c \in Nat /\ Units[r] \in Nat /\ (answered => c <= Units[r] /\ c <= used[r])
      /\ (~ answered => c = 0)
  BY <1>1, Known, HandlerShape DEF Charged, IInv, OwnInv
<1>4. /\ daily' = [daily EXCEPT ![d] = [reserved |-> Less(daily[d].reserved, Units[r]),
                                        spent |-> daily[d].spent + c]]
      /\ reservation' = [reservation EXCEPT ![r] = row]
      /\ handler' = [handler EXCEPT ![r] = h]
      /\ UNCHANGED <<now, used, stranded>>
  <2>1. reservation' = [reservation EXCEPT ![r] = row]
    BY DEF Settle, IInv, TypeOK
  <2> QED
    BY <1>2, <2>1 DEF Settle, SettledDay, End
<1>5. h \in Handlers /\ h.pc = "ended"
  BY DEF Handlers
<1>6. /\ row \in Rows /\ row # NULL /\ row.date = d /\ row.actual = c
      /\ (answered => row.status = "SETTLED") /\ (~ answered => row.status = "RELEASED")
  <2>1. /\ row \in Rows /\ row.date = d /\ row.actual = c
        /\ (answered => row.status = "SETTLED") /\ (~ answered => row.status = "RELEASED")
    BY <1>1, <1>2, <1>3 DEF Rows
  <2>2. \A x \in Rows : x # NULL
    BY NullAssumption, BudgetAssumption DEF Rows, Dates
  <2> HIDE DEF row
  <2> QED
    BY <2>1, <2>2
<1> HIDE DEF c, answered, h, row
<1>7. /\ reservation'[r] = row /\ handler'[r] = h
      /\ \A x \in Requests : x # r =>
           reservation'[x] = reservation[x] /\ handler'[x] = handler[x]
      /\ handler' \in [Requests -> Handlers]
      /\ reservation' \in [Requests -> Rows \union {NULL}]
  BY <1>4, <1>5, <1>6 DEF IInv, TypeOK, HandlerInv
<1>8. /\ daily[d].reserved \in Nat /\ daily[d].spent \in Nat /\ Units[r] <= daily[d].reserved
      /\ Less(daily[d].reserved, Units[r]) = Total(Counted(d) \ {r})
      /\ Less(daily[d].reserved, Units[r]) = daily[d].reserved - Units[r]
  <2>1. /\ Counted(d) \in SUBSET Requests /\ daily[d].reserved = Total(Counted(d))
        /\ daily[d].reserved \in Nat /\ daily[d].spent \in Nat
    BY CountedFacts
  <2>2. r \in Counted(d)
    BY <1>1, <1>2 DEF Counted, Of
  <2>3. Total(Counted(d) \ {r}) = Total(Counted(d)) - Units[r] /\ Units[r] <= Total(Counted(d))
    BY <2>1, <2>2, TotalFacts
  <2>4. Less(daily[d].reserved, Units[r]) = daily[d].reserved - Units[r]
    BY <1>3, <2>1, <2>3 DEF Less
  <2> QED
    BY <2>1, <2>3, <2>4
<1>9. /\ daily'[d] = [reserved |-> daily[d].reserved - Units[r], spent |-> daily[d].spent + c]
      /\ \A date \in Dates : date # d => daily'[date] = daily[date]
      /\ daily' \in [Dates -> [reserved : Nat, spent : Nat]]
  <2>1. daily[d].reserved - Units[r] \in Nat /\ daily[d].spent + c \in Nat
    BY <1>3, <1>8
  <2> QED
    BY <1>4, <1>8, <2>1 DEF IInv, TypeOK
<1>10. ASSUME NEW x \in Requests, NEW date \in Dates
       PROVE  /\ x \in Of(date, "RESERVED")' <=> x \in Of(date, "RESERVED") /\ x # r
              /\ x \in Of(date, "SETTLED")' <=>
                   x \in Of(date, "SETTLED") \/ (x = r /\ date = d /\ answered)
  <2>1. CASE x = r
    BY <1>1, <1>6, <1>7, <2>1 DEF Of
  <2>2. CASE x # r
    BY <1>7, <2>2 DEF Of
  <2> QED
    BY <2>1, <2>2
<1>11. \A date \in Dates : /\ Stranded(date)' = Stranded(date) /\ r \notin Stranded(date)
                           /\ Stranded(date) \subseteq Requests
  <2>1. \A x \in stranded : x \in Requests /\ reservation'[x] = reservation[x]
    BY <1>1, <1>7 DEF IInv, HandlerInv
  <2> QED
    BY <1>1, <1>4, <2>1 DEF Stranded
<1>12. \A date \in Dates : Counted(date)' = Counted(date) \ {r}
  <2> SUFFICES ASSUME NEW date \in Dates PROVE Counted(date)' = Counted(date) \ {r}
    OBVIOUS
  <2>1. \A x \in Requests : x \in Of(date, "RESERVED")' <=> x \in Of(date, "RESERVED") /\ x # r
    BY <1>10
  <2>2. Of(date, "RESERVED") \subseteq Requests /\ Of(date, "RESERVED")' \subseteq Requests
    BY DEF Of
  <2>3. Of(date, "RESERVED")' = Of(date, "RESERVED") \ {r}
    BY <2>1, <2>2
  <2> QED
    BY <1>11, <2>3 DEF Counted
<1>13. TypeOK'
  <2>1. \A x \in stranded' : reservation'[x].status = "RELEASED"
    BY <1>1, <1>4, <1>7 DEF IInv, TypeOK, HandlerInv
  <2> QED
    BY <1>4, <1>7, <1>9, <2>1 DEF IInv, TypeOK
<1>14. HandlerInv'
  BY <1>4, <1>6, <1>7 DEF IInv, HandlerInv
<1>15. OwnInv'
  <2> SUFFICES ASSUME NEW x \in Requests
               PROVE  /\ handler'[x].pc \in {"new", "begun", "selected"} => reservation'[x] = NULL
                      /\ handler'[x].pc \in {"calling", "answered", "failed"} =>
                           reservation'[x] # NULL /\ reservation'[x].status # "SETTLED"
                      /\ handler'[x].pc = "answered" =>
                           handler'[x].cost <= Units[x] /\ handler'[x].cost <= used'[x]
                      /\ reservation'[x] # NULL /\ reservation'[x].status = "SETTLED" =>
                           reservation'[x].actual \in Nat /\ reservation'[x].actual <= used'[x]
    BY DEF OwnInv
  <2>1. CASE x = r
    BY <1>3, <1>4, <1>5, <1>6, <1>7, <2>1
  <2>2. CASE x # r
    BY <1>4, <1>7, <2>2 DEF IInv, OwnInv
  <2> QED
    BY <2>1, <2>2
<1>16. SelectedInv'
  <2>1. ASSUME NEW q \in Requests, handler'[q].pc = "selected"
        PROVE  /\ q # r /\ handler'[q] = handler[q] /\ handler[q].pc = "selected"
               /\ \A x \in handler[q].expired :
                    x \in Overdue(handler[q].at) /\ reservation'[x] = reservation[x]
    <3>1. q # r /\ handler'[q] = handler[q] /\ handler[q].pc = "selected"
      BY <1>5, <1>7, <2>1
    <3>2. handler[q].expired \subseteq Overdue(handler[q].at)
      BY <3>1 DEF IInv, SelectedInv
    <3>3. r \notin handler[q].expired
      BY <1>1, <3>1 DEF LockedByOthers
    <3>4. \A x \in handler[q].expired : x \in Requests /\ x # r
      BY <3>2, <3>3 DEF Overdue
    <3> QED
      BY <1>7, <3>1, <3>2, <3>4
  <2>2. ASSUME NEW q \in Requests, handler'[q].pc = "selected"
        PROVE  \A x \in handler'[q].expired :
                 /\ x \in Requests /\ reservation'[x] # NULL
                 /\ reservation'[x].date = DateOf(handler'[q].at)
                 /\ reservation'[x].status = "RESERVED" /\ reservation'[x].expires <= handler'[q].at
    BY <2>1, <2>2 DEF Overdue
  <2>3. ASSUME NEW q \in Requests, handler'[q].pc = "selected",
               NEW p \in Requests \ {q}, handler'[p].pc = "selected"
        PROVE  handler'[p].expired \intersect handler'[q].expired = {}
    BY <2>1, <2>3 DEF IInv, SelectedInv
  <2> QED
    BY <2>2, <2>3 DEF SelectedInv, Overdue
<1>17. ASSUME NEW date \in Dates
       PROVE  daily'[date].reserved = Total(Counted(date)')
  <2>1. CASE date = d
    BY <1>8, <1>9, <1>12, <2>1
  <2>2. CASE date # d
    <3>1. r \notin Counted(date)
      BY <1>2, <1>11, <2>2 DEF Counted, Of
    <3>2. Counted(date)' = Counted(date)
      BY <1>12, <3>1
    <3> QED
      BY <1>9, <2>2, <3>2, CountedFacts
  <2> QED
    BY <2>1, <2>2
<1>18. ASSUME NEW date \in Dates
       PROVE  daily'[date].spent = SumFunction(Charges(date)')
  <2> DEFINE S == Of(date, "SETTLED")
  <2>1. /\ S \subseteq Requests /\ IsFiniteSet(S) /\ \A x \in S : Charges(date)[x] \in Nat
        /\ SumFunction(Charges(date)) = SumFunctionOnSet(Charges(date), S)
        /\ daily[date].spent = SumFunction(Charges(date))
    BY ChargesNat DEF IInv, CountedExactly, Charges
  <2>2. \A x \in S : x # r /\ reservation'[x] = reservation[x]
    BY <1>1, <1>7 DEF Of
  <2>3. Of(date, "SETTLED")' \subseteq Requests
    BY DEF Of
  <2>4. CASE date = d /\ answered
    <3>1. Of(date, "SETTLED")' = S \union {r}
      <4>1. \A x \in Requests : x \in Of(date, "SETTLED")' <=> x \in S \/ x = r
        BY <1>10, <2>4
      <4> QED
        BY <2>1, <2>3, <4>1
    <3>2. Charges(date)' = [x \in S \union {r} |-> reservation'[x].actual]
      BY <3>1 DEF Charges
    <3>3. /\ \A x \in S : Charges(date)'[x] = Charges(date)[x]
          /\ Charges(date)'[r] = c /\ DOMAIN Charges(date)' = S \union {r}
      BY <1>6, <1>7, <2>2, <3>2 DEF Charges
    <3>4. r \notin S
      BY <2>2
    <3> HIDE DEF S
    <3>5. PICK g : g = Charges(date)'
      OBVIOUS
    <3>6. /\ \A x \in S : g[x] = Charges(date)[x] /\ g[x] \in Nat
          /\ g[r] = c /\ g[r] \in Nat /\ DOMAIN g = S \union {r}
      BY <1>3, <2>1, <3>3, <3>5
    <3>7. SumFunction(g) = SumFunctionOnSet(g, S \union {r})
      BY <3>6 DEF SumFunction
    <3>8. SumFunctionOnSet(g, S \union {r}) = SumFunctionOnSet(g, S) + g[r]
      BY <2>1, <3>4, <3>6, SumAdd
    <3>9. SumFunctionOnSet(g, S) = SumFunctionOnSet(Charges(date), S)
      BY <2>1, <3>6, SumAgree
    <3> QED
      BY <1>9, <2>1, <2>4, <3>5, <3>6, <3>7, <3>8, <3>9
  <2>5. CASE ~ (date = d /\ answered)
    <3>1. Of(date, "SETTLED")' = S
      <4>1. \A x \in Requests : x \in Of(date, "SETTLED")' <=> x \in S
        BY <1>10, <2>5
      <4> QED
        BY <2>1, <2>3, <4>1
    <3>2. Charges(date)' = Charges(date)
      BY <2>2, <3>1 DEF Charges
    <3>3. daily'[date].spent = daily[date].spent
      <4>1. daily[date].spent \in Nat
        BY CountedFacts
      <4> QED
        BY <1>3, <1>9, <2>5, <4>1
    <3> QED
      BY <2>1, <3>2, <3>3
  <2> QED
    BY <2>4, <2>5
<1>19. CountedExactly'
  <2>1. \A date \in Dates : \A x \in Of(date, "SETTLED")' : reservation'[x].actual <= used'[x]
    BY <1>15 DEF OwnInv, Of
  <2> SUFFICES ASSUME NEW date \in Dates
               PROVE  /\ daily'[date].reserved = Total(Counted(date)')
                      /\ daily'[date].spent = SumFunction(Charges(date)')
    BY <2>1 DEF CountedExactly, Counted, Charges, Total
  <2> QED
    BY <1>17, <1>18
<1>20. WithinLimit'
  <2> SUFFICES ASSUME NEW date \in Dates
               PROVE  daily'[date].reserved + daily'[date].spent <= DailyLimit
    BY DEF WithinLimit
  <2>1. CASE date = d
    <3>1. /\ daily[d].reserved + daily[d].spent <= DailyLimit /\ DailyLimit \in Nat
          /\ c <= Units[r]
      BY <1>3, CountedFacts
    <3> QED
      BY <1>3, <1>8, <1>9, <2>1, <3>1
  <2>2. CASE date # d
    BY <1>9, <2>2, CountedFacts
  <2> QED
    BY <2>1, <2>2
<1> QED
  BY <1>13, <1>14, <1>15, <1>16, <1>19, <1>20 DEF IInv

-----------------------------------------------------------------------------
(* The theorems                                                            *)

LEMMA NextInvariant == IInv /\ [Next]_vars => IInv'
<1> SUFFICES ASSUME IInv, [Next]_vars PROVE IInv'
  OBVIOUS
<1>1. ASSUME NEW r \in Requests, ReserveStep(r) PROVE IInv'
  <2>1. CASE BeginReserve(r)
    BY <2>1, BeginStep
  <2>2. CASE SelectExpired(r)
    BY <2>2, SelectStep
  <2>3. CASE Reserve(r)
    BY <2>3, ReserveStepInv
  <2>4. CASE RefuseReserve(r)
    BY <2>4, EndStep DEF RefuseReserve
  <2> QED
    BY <1>1, <2>1, <2>2, <2>3, <2>4 DEF ReserveStep
<1>2. ASSUME NEW r \in Requests, CompleteStep(r) PROVE IInv'
  BY <1>2, CompleteSteps
<1>3. ASSUME NEW r \in Requests, SettleStep(r) PROVE IInv'
  <2>1. CASE Settle(r)
    BY <2>1, SettleStepInv
  <2>2. CASE RefuseSettle(r)
    BY <2>2, EndStep DEF RefuseSettle
  <2> QED
    BY <1>3, <2>1, <2>2 DEF SettleStep
<1>4. ASSUME NEW r \in Requests, Abort(r) PROVE IInv'
  BY <1>4, EndStep DEF Abort
<1>5. CASE Tick
  BY <1>5, TickStep
<1>6. CASE UNCHANGED vars
  <2>1. UNCHANGED <<now, daily, reservation, handler, used, stranded>>
    BY <1>6 DEF vars
  <2>2. TypeOK' /\ HandlerInv' /\ OwnInv' /\ WithinLimit'
    BY <2>1 DEF IInv, TypeOK, HandlerInv, OwnInv, WithinLimit
  <2>3. SelectedInv'
    BY <2>1 DEF IInv, SelectedInv, Overdue
  <2>4. CountedExactly'
    BY <2>1 DEF IInv, CountedExactly, Of, Stranded
  <2> QED
    BY <2>2, <2>3, <2>4 DEF IInv
<1> QED
  BY <1>1, <1>2, <1>3, <1>4, <1>5, <1>6 DEF Next

\* The invariant on which the theorems rest.  Between the SELECT ... FOR UPDATE of
\* the expired reservations and the UPDATE of the day nobody else touches a row
\* selected, so that the units given back are units that were counted.
THEOREM BudgetInvariant == Spec => []IInv
<1> QED
  BY InitInvariant, NextInvariant, PTL DEF Spec

\* The rows keep their types whatever reserve and settle do and wherever they are
\* interrupted: in particular no counter of a day falls below zero, as the CHECKs
\* of model_budget_daily demand.
THEOREM TypeCorrect == Spec => []TypeOK
<1>1. IInv => TypeOK
  BY DEF IInv
<1> QED
  BY <1>1, BudgetInvariant, PTL

\* reserve and settle of PostgresModelUsageRepository count a day to the unit: what
\* is reserved is the sum over the open reservations and those stranded, what is
\* spent is the sum of what the settled ones were charged.
THEOREM AlwaysCountedExactly == Spec => []CountedExactly
<1>1. IInv => CountedExactly
  BY DEF IInv
<1> QED
  BY <1>1, BudgetInvariant, PTL

\* The daily limit of ATLANTIS_MODEL_DAILY_BUDGET_UNITS is never exceeded, although
\* concurrent requests release expired reservations and settle in any order.
THEOREM AlwaysWithinLimit == Spec => []WithinLimit
<1>1. IInv => WithinLimit
  BY DEF IInv
<1> QED
  BY <1>1, BudgetInvariant, PTL

-----------------------------------------------------------------------------
(* The allowance                                                           *)

\* The sums of the allowance are those of the budget.
LEMMA SameSums == \A f, S : Promise!SumFunctionOnSet(f, S) = SumFunctionOnSet(f, S)
BY DEF SumFunctionOnSet, FoldFunctionOnSet, MapThenFoldSet,
       Promise!SumFunctionOnSet, Promise!FoldFunctionOnSet, Promise!MapThenFoldSet

\* What the allowance counts as taken from a day is what the day's row counts.
LEMMA TakenIsCounted ==
  IInv => \A d \in Dates : Promise!Taken(d) = daily[d].reserved + daily[d].spent
<1> SUFFICES ASSUME IInv, NEW d \in Dates
             PROVE  Promise!Taken(d) = daily[d].reserved + daily[d].spent
  OBVIOUS
<1> DEFINE S == Of(d, "SETTLED")
<1>0. \A row \in Rows : row # NULL /\ row.date # NULL
  BY NullAssumption, BudgetAssumption DEF Rows, Dates
<1>1. \A r \in stranded : r \in Requests /\ reservation[r] # NULL
  BY DEF IInv, HandlerInv
<1>2. Promise!HeldOn(d) = Counted(d)
  BY <1>0, <1>1, NullAssumption DEF Promise!HeldOn, Counted, Of, Stranded, Held, InStatus, DayOf, Dates
<1>3. Promise!ChargedOn(d) = S
  BY <1>0, NullAssumption DEF Promise!ChargedOn, Of, InStatus, DayOf, ChargeOf, Dates, IInv, OwnInv
<1>4. \A r \in S : ChargeOf[r] = Charges(d)[r]
  BY DEF ChargeOf, Charges, InStatus, Of
<1>5. /\ S \subseteq Requests /\ IsFiniteSet(S) /\ \A r \in S : Charges(d)[r] \in Nat
      /\ SumFunction(Charges(d)) = SumFunctionOnSet(Charges(d), S)
  BY ChargesNat
<1>6. SumFunctionOnSet(ChargeOf, S) = SumFunctionOnSet(Charges(d), S)
  <2> HIDE DEF S
  <2> QED
    BY <1>4, <1>5, SumAgree
<1>7. /\ daily[d].reserved = Total(Counted(d))
      /\ daily[d].spent = SumFunction(Charges(d))
  BY DEF IInv, CountedExactly, Counted, Charges
<1> QED
  BY <1>2, <1>3, <1>5, <1>6, <1>7, SameSums DEF Promise!Taken, Total

LEMMA TakenWithinLimit == IInv => \A d \in Dates : Promise!Taken(d) <= DailyLimit
BY TakenIsCounted DEF IInv, WithinLimit

LEMMA TakenWithinLimitNext == (IInv => \A d \in Dates : Promise!Taken(d) <= DailyLimit)'
BY TakenWithinLimit, PTL

\* Reserve takes the units of the request, and those it selected from their owners.
LEMMA ReserveTakes ==
  ASSUME IInv, IInv', NEW r \in Requests, Reserve(r)
  PROVE  \E d \in Dates : Promise!Take(r, d)
<1>0. PICK t, d, E, O : /\ t = handler[r].at /\ d = DateOf(t)
                        /\ E = handler[r].expired /\ O = Overdue(t)
  OBVIOUS
<1>1. /\ d \in Dates /\ E \subseteq O /\ O \subseteq Of(d, "RESERVED") /\ O \subseteq Requests
      /\ reservation[r] = NULL /\ r \notin O /\ r \notin stranded
      /\ Reserved(t) \in Rows /\ \A row \in Rows : row # NULL
  BY <1>0, ReserveRows
<1>2. \A x \in O : /\ reservation[x] # NULL /\ reservation[x].status = "RESERVED"
                   /\ reservation[x].date = d
                   /\ reservation'[x] # NULL /\ reservation'[x].status = "RELEASED"
                   /\ reservation'[x].date = d
  BY <1>0, ReserveRows
<1>3. /\ reservation'[r] # NULL /\ reservation'[r].status = "RESERVED"
      /\ reservation'[r].date = d
      /\ \A x \in Requests : x # r /\ x \notin O => reservation'[x] = reservation[x]
  <2>1. /\ reservation'[r] = Reserved(t)
        /\ \A x \in Requests : x # r /\ x \notin O => reservation'[x] = reservation[x]
    BY <1>0, ReserveRows
  <2> QED
    BY <1>0, <1>1, <2>1 DEF Reserved
<1>4. stranded' = stranded \union (O \ E) /\ stranded \subseteq Requests
      /\ \A x \in stranded : reservation[x].status = "RELEASED"
  BY <1>0 DEF Reserve, IInv, HandlerInv, TypeOK
<1>5. DayOf[r] = NULL /\ DayOf' = [DayOf EXCEPT ![r] = d]
  BY <1>1, <1>2, <1>3 DEF DayOf
<1>6. ChargeOf' = ChargeOf
  BY <1>1, <1>2, <1>3 DEF ChargeOf, InStatus
<1>7. E \in SUBSET Promise!HeldOn(d)
  BY <1>1, <1>2 DEF Promise!HeldOn, Held, InStatus, DayOf
<1>8. Held' = (Held \ E) \union {r}
  <2>1. ASSUME NEW x \in Requests
        PROVE  x \in Held' <=> (x \in Held /\ x \notin E) \/ x = r
    <3>1. CASE x = r
      BY <1>3, <3>1 DEF Held, InStatus
    <3>2. CASE x \in O
      BY <1>1, <1>2, <1>4, <3>2 DEF Held, InStatus
    <3>3. CASE x # r /\ x \notin O
      BY <1>1, <1>3, <1>4, <3>3 DEF Held, InStatus
    <3> QED
      BY <3>1, <3>2, <3>3
  <2>2. Held \subseteq Requests /\ Held' \subseteq Requests
    BY <1>1, <1>4 DEF Held, InStatus
  <2> QED
    BY <2>1, <2>2
<1>9. Promise!Taken(d)' <= DailyLimit
  BY <1>1, TakenWithinLimitNext
<1>10. Promise!Take(r, d)
  BY <1>5, <1>6, <1>7, <1>8, <1>9 DEF Promise!Take
<1> QED
  BY <1>1, <1>10

\* Settle charges the request, or gives its units back.
LEMMA SettleCharges ==
  ASSUME IInv, NEW r \in Requests, Settle(r)
  PROVE  Promise!Charge(r) \/ Promise!GiveBack(r)
<1> DEFINE c == Charged(r)
           answered == handler[r].pc = "answered"
           row == [reservation[r] EXCEPT !.actual = c,
                                         !.status = IF answered THEN "SETTLED" ELSE "RELEASED"]
<1>1. /\ reservation[r].status = "RESERVED" /\ reservation[r] \in Rows
      /\ reservation[r] # NULL /\ r \notin stranded
  BY Known DEF Settle, Settling, Settleable, IInv, TypeOK
<1>2. c \in Nat /\ Units[r] \in Nat /\ c <= Units[r]
  BY Known, HandlerShape DEF Charged, IInv, OwnInv, Settle, Settling
<1>3. reservation' = [reservation EXCEPT ![r] = row] /\ stranded' = stranded
  BY DEF Settle, IInv, TypeOK
<1>4. /\ row # NULL /\ row.date = reservation[r].date /\ row.actual = c
      /\ (answered => row.status = "SETTLED") /\ (~ answered => row.status = "RELEASED")
  <2>1. /\ row \in Rows /\ row.date = reservation[r].date /\ row.actual = c
        /\ (answered => row.status = "SETTLED") /\ (~ answered => row.status = "RELEASED")
    BY <1>1, <1>2 DEF Rows
  <2>2. \A x \in Rows : x # NULL
    BY NullAssumption, BudgetAssumption DEF Rows, Dates
  <2> HIDE DEF row
  <2> QED
    BY <2>1, <2>2
<1> HIDE DEF c, answered, row
<1>5. /\ reservation'[r] = row
      /\ \A x \in Requests : x # r => reservation'[x] = reservation[x]
  BY <1>3 DEF IInv, TypeOK
<1>6. DayOf' = DayOf
  BY <1>1, <1>4, <1>5 DEF DayOf
<1>7. r \in Held /\ Held' = Held \ {r}
  <2>1. ASSUME NEW x \in Requests
        PROVE  x \in Held' <=> x \in Held /\ x # r
    BY <1>1, <1>3, <1>4, <1>5 DEF Held, InStatus
  <2>2. Held \subseteq Requests /\ Held' \subseteq Requests
    BY <1>3 DEF Held, InStatus, IInv, HandlerInv
  <2>3. r \in Held
    BY <1>1 DEF Held, InStatus
  <2> QED
    BY <2>1, <2>2, <2>3
<1>8. CASE answered
  <2>1. ChargeOf' = [ChargeOf EXCEPT ![r] = c]
    BY <1>4, <1>5, <1>8 DEF ChargeOf, InStatus
  <2>2. c \in 0 .. Units[r]
    BY <1>2
  <2> QED
    BY <1>6, <1>7, <2>1, <2>2 DEF Promise!Charge
<1>9. CASE ~ answered
  <2>1. ChargeOf' = ChargeOf
    BY <1>1, <1>4, <1>5, <1>9 DEF ChargeOf, InStatus
  <2> QED
    BY <1>6, <1>7, <2>1 DEF Promise!GiveBack
<1> QED
  BY <1>8, <1>9

\* Every other step leaves reservations and stranded units as they are.
LEMMA MappedNext ==
  IInv /\ IInv' /\ [Next]_vars => [Promise!ANext]_<<DayOf, Held, ChargeOf>>
<1> SUFFICES ASSUME IInv, IInv', [Next]_vars
             PROVE  [Promise!ANext]_<<DayOf, Held, ChargeOf>>
  OBVIOUS
<1>1. ASSUME NEW r \in Requests, Reserve(r) PROVE Promise!ANext
  BY <1>1, ReserveTakes DEF Promise!ANext
<1>2. ASSUME NEW r \in Requests, Settle(r) PROVE Promise!ANext
  BY <1>2, SettleCharges DEF Promise!ANext
<1>3. ASSUME UNCHANGED <<reservation, stranded>>
      PROVE  UNCHANGED <<DayOf, Held, ChargeOf>>
  BY <1>3 DEF DayOf, Held, ChargeOf, InStatus
<1>4. ASSUME NEW r \in Requests,
             ReserveStep(r) \/ CompleteStep(r) \/ SettleStep(r) \/ Abort(r)
      PROVE  Reserve(r) \/ Settle(r) \/ UNCHANGED <<reservation, stranded>>
  BY <1>4 DEF ReserveStep, CompleteStep, SettleStep, Abort, BeginReserve, SelectExpired,
     RefuseReserve, Answer, FailAttempt, GiveUp, RefuseSettle
<1>5. CASE Tick \/ UNCHANGED vars
  BY <1>3, <1>5 DEF Tick, vars
<1> QED
  BY <1>1, <1>2, <1>3, <1>4, <1>5 DEF Next

\* However transactions wait for each other, expire and die, postgres_usage.py keeps
\* the promise of the allowance: each request is charged once at most, within its
\* units, on its day, and never for units that were given to others.
THEOREM KeepsAllowance == Spec => ImplementsAllowance
<1>1. Init => Promise!AInit
  BY DEF Init, Promise!AInit, DayOf, Held, ChargeOf, InStatus
<1> QED
  BY <1>1, MappedNext, BudgetInvariant, PTL
  DEF Spec, ImplementsAllowance, Promise!ASpec, Promise!allowed

=============================================================================
