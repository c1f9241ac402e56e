-------------------------- MODULE AllocationProofs --------------------------
(***************************************************************************)
(* Proofs about the resolution of allocation instructions, for every       *)
(* budget and every list of instructions.  In order:                       *)
(*                                                                         *)
(*   sums over finite sets: what one more member, a disjoint union or a    *)
(*   renaming does to them.  The library's induction on finite sets takes  *)
(*   an operator, so these are proved by taking the smallest cardinality   *)
(*   for which one fails (WellFoundedInduction);                           *)
(*                                                                         *)
(*   ranks: who is among the first n of an order, and that the keys at a   *)
(*   rank are those of any list of the same members;                       *)
(*                                                                         *)
(*   the resolution: it loses no unit, follows the largest remainders, and *)
(*   takes no account of the order of the instructions.                    *)
(***************************************************************************)
EXTENDS Allocation, TLAPS, FiniteSetTheorems, WellFoundedInduction

-----------------------------------------------------------------------------
(* Sums                                                                    *)

(* The least element of a set of numbers, and induction from it.           *)
LEMMA NatOrder ==
  \E R : IsWellFoundedOn(R, Nat) /\ \A x, y \in Nat : <<x, y>> \in R <=> x < y
<1> DEFINE R == OpToRel(<, Nat)
<1>1. IsWellFoundedOn(R, Nat)
  BY NatLessThanWellFounded
<1>2. \A x, y \in Nat : <<x, y>> \in R <=> x < y
  BY DEF OpToRel
<1>q. QED
  BY <1>1, <1>2

(* A set of numbers that is not empty has a least element.                 *)
LEMMA LeastNat ==
  ASSUME NEW T \in SUBSET Nat, T # {}
  PROVE  \E x \in T : \A y \in T : x <= y
<1>1. PICK R : IsWellFoundedOn(R, Nat) /\ \A x, y \in Nat : <<x, y>> \in R <=> x < y
  BY NatOrder
<1>2. T \subseteq Nat /\ IsWellFoundedOn(R, Nat)
  BY <1>1
<1>3. \E x \in T : \A y \in T : ~(<<y, x>> \in R)
  BY <1>2, WFMin
<1>4. PICK x \in T : \A y \in T : ~(<<y, x>> \in R)
  BY <1>3
<1>5. \A y \in T : ~(y < x)
  BY <1>1, <1>4, Zenon
<1>6. \A y \in T : x <= y
  BY <1>5
<1>q. QED
  BY <1>6

(* Induction over a set of numbers.                                        *)
LEMMA AllNaturals ==
  ASSUME NEW S, 0 \in S, \A n \in Nat : n \in S => n + 1 \in S
  PROVE  \A n \in Nat : n \in S
<1> SUFFICES ASSUME ~(Nat \subseteq S) PROVE FALSE
  OBVIOUS
<1>1. PICK x \in Nat \ S : \A y \in Nat \ S : x <= y
  BY LeastNat
<1>2. x # 0 /\ x - 1 \in Nat
  BY <1>1
<1>3. x - 1 \in S
  BY <1>1, <1>2
<1>q. QED
  BY <1>1, <1>2, <1>3

(* The element a sum takes first, and the function that computes the sums  *)
(* over the subsets of S.                                                  *)
Taken(s) == CHOOSE x \in s : TRUE

Others(s) == s \ {Taken(s)}

SumOver(g, w, s) == IF s = {} THEN 0 ELSE w[Taken(s)] + g[Others(s)]

IsSum(g, w, S) == g = [s \in SUBSET S |-> SumOver(g, w, s)]

Total(w, S) == SumFunctionOnSet(w, S)

(* The element a sum takes first, and what is left.                        *)
LEMMA TakenFacts ==
  ASSUME NEW s, s # {}, IsFiniteSet(s)
  PROVE  /\ Taken(s) \in s /\ Taken(s) \notin Others(s) /\ s = Others(s) \cup {Taken(s)}
         /\ Others(s) \subseteq s
         /\ IsFiniteSet(Others(s)) /\ Cardinality(s) = Cardinality(Others(s)) + 1
         /\ Cardinality(s) \in Nat /\ Cardinality(Others(s)) \in Nat
<1>1. Taken(s) \in s
  BY DEF Taken
<1>2. IsFiniteSet(Others(s)) /\ Cardinality(Others(s)) = Cardinality(s) - 1
  BY <1>1, FS_RemoveElement DEF Others
<1>3. Cardinality(s) \in Nat /\ Cardinality(Others(s)) \in Nat
  BY <1>2, FS_CardinalityType
<1>q. QED
  BY <1>1, <1>2, <1>3 DEF Others

(* There is a function that computes the sums.                             *)
LEMMA SumExists ==
  ASSUME NEW w, NEW S, IsFiniteSet(S)
  PROVE  \E g : IsSum(g, w, S)
<1> DEFINE Sub(n) == {s \in SUBSET S : Cardinality(s) <= n}
           IsPart(g, n) == g = [s \in Sub(n) |-> SumOver(g, w, s)]
           D == {n \in Nat : \E g : IsPart(g, n)}
<1>1. \A s \in SUBSET S : IsFiniteSet(s) /\ Cardinality(s) \in Nat
  BY FS_Subset, FS_CardinalityType
<1>2. 0 \in D
  <2> DEFINE g == [s \in Sub(0) |-> 0]
  <2>1. \A s \in Sub(0) : s = {}
    BY <1>1, FS_EmptySet
  <2>2. \A s \in Sub(0) : SumOver(g, w, s) = 0
    BY <2>1 DEF SumOver
  <2>3. IsPart(g, 0)
    BY <2>2
  <2>q. QED
    BY <2>3
<1>3. ASSUME NEW n \in Nat, n \in D
      PROVE  n + 1 \in D
  <2>1. PICK g : IsPart(g, n)
    BY <1>3
  <2> DEFINE f == [s \in Sub(n + 1) |-> SumOver(g, w, s)]
  <2>2. Sub(n) \subseteq Sub(n + 1)
    BY <1>1
  <2>3. \A s \in Sub(n) : f[s] = g[s]
    BY <2>1, <2>2
  <2>4. ASSUME NEW s \in Sub(n + 1)
        PROVE  SumOver(g, w, s) = SumOver(f, w, s)
    <3>1. CASE s = {}
      BY <3>1 DEF SumOver
    <3>2. CASE s # {}
      <4>1. Others(s) \in Sub(n)
        BY <1>1, <3>2, TakenFacts
      <4>2. f[Others(s)] = g[Others(s)]
        BY <2>3, <4>1
      <4>q. QED
        BY <4>2 DEF SumOver
    <3>q. QED
      BY <3>1, <3>2
  <2>5. IsPart(f, n + 1)
    BY <2>4
  <2> HIDE DEF f, IsPart
  <2>6. \E g1 : IsPart(g1, n + 1)
    BY <2>5
  <2>q. QED
    BY <2>6
<1>4. \A n \in Nat : n \in D
  <2> HIDE DEF D
  <2>q. QED
    BY <1>2, <1>3, AllNaturals
<1>5. PICK g : IsPart(g, Cardinality(S))
  BY <1>1, <1>4
<1>6. Sub(Cardinality(S)) = SUBSET S
  BY FS_Subset
<1>q. QED
  BY <1>5, <1>6 DEF IsSum

(* Such functions agree, whatever set they were made for.                  *)
LEMMA SumIsUnique ==
  ASSUME NEW w, NEW S, IsFiniteSet(S), NEW T \in SUBSET S,
         NEW f, IsSum(f, w, S), NEW g, IsSum(g, w, T)
  PROVE  f[T] = g[T]
<1> DEFINE D == {n \in Nat : \A s \in SUBSET T : Cardinality(s) = n => f[s] = g[s]}
<1>1. \A s \in SUBSET T : /\ IsFiniteSet(s) /\ Cardinality(s) \in Nat
                          /\ f[s] = SumOver(f, w, s)
                          /\ g[s] = SumOver(g, w, s)
  <2>1. \A s \in SUBSET T : s \in SUBSET S
    OBVIOUS
  <2>2. \A s \in SUBSET T : IsFiniteSet(s) /\ Cardinality(s) \in Nat
    BY <2>1, FS_Subset, FS_CardinalityType
  <2>3. \A s \in SUBSET S : f[s] = SumOver(f, w, s)
    BY DEF IsSum
  <2>4. \A s \in SUBSET T : g[s] = SumOver(g, w, s)
    BY DEF IsSum
  <2>q. QED
    BY <2>1, <2>2, <2>3, <2>4
<1>2. 0 \in D
  BY <1>1, FS_EmptySet DEF SumOver
<1>3. ASSUME NEW n \in Nat, n \in D
      PROVE  n + 1 \in D
  <2>1. ASSUME NEW s \in SUBSET T, Cardinality(s) = n + 1
        PROVE  f[s] = g[s]
    <3>1. s # {}
      BY <1>1, <2>1, FS_EmptySet
    <3>2. Others(s) \in SUBSET T /\ Cardinality(Others(s)) = n
      BY <1>1, <2>1, <3>1, TakenFacts
    <3>3. f[Others(s)] = g[Others(s)]
      BY <1>3, <3>2
    <3>q. QED
      BY <1>1, <3>3 DEF SumOver
  <2>q. QED
    BY <2>1
<1>4. \A n \in Nat : n \in D
  <2> HIDE DEF D
  <2>q. QED
    BY <1>2, <1>3, AllNaturals
<1>q. QED
  BY <1>1, <1>4

(* A sum is what any of them computes.                                     *)
LEMMA TotalIs ==
  ASSUME NEW w, NEW S, IsFiniteSet(S), NEW f, IsSum(f, w, S)
  PROVE  \A T \in SUBSET S : Total(w, T) = f[T]
<1>1. ASSUME NEW T \in SUBSET S
      PROVE  Total(w, T) = f[T]
  <2>1. \E g : IsSum(g, w, T)
    BY FS_Subset, SumExists
  <2>2. \E g : IsSum(g, w, T) /\ Total(w, T) = g[T]
    BY <2>1
    DEF Total, SumFunctionOnSet, FoldFunctionOnSet, MapThenFoldSet, IsSum, SumOver, Taken, Others
  <2>q. QED
    BY <2>2, SumIsUnique
<1>q. QED
  BY <1>1

(* So a sum satisfies its recursive definition.                            *)
LEMMA TotalUnfold ==
  ASSUME NEW w, NEW S, IsFiniteSet(S)
  PROVE  Total(w, S) = IF S = {} THEN 0 ELSE w[Taken(S)] + Total(w, Others(S))
<1>1. PICK f : IsSum(f, w, S)
  BY SumExists
<1>2. Total(w, S) = f[S] /\ Total(w, Others(S)) = f[Others(S)]
  BY <1>1, TotalIs DEF Others
<1>3. f[S] = SumOver(f, w, S)
  BY <1>1 DEF IsSum
<1>q. QED
  BY <1>2, <1>3 DEF SumOver

(* A set of numbers added up in any order: any element may come first.     *)
Numbers(w, S) == \A x \in S : w[x] \in Int

Takes(w, S) ==
  Total(w, S) \in Int /\ \A x \in S : Total(w, S) = w[x] + Total(w, S \ {x})

(* And it does not depend on the element that is taken first.              *)
LEMMA TotalTakes ==
  ASSUME NEW w, NEW S, IsFiniteSet(S), Numbers(w, S)
  PROVE  Takes(w, S)
<1> DEFINE D == {n \in Nat : \A s \in SUBSET S : Cardinality(s) <= n => Takes(w, s)}
<1>1. \A s \in SUBSET S : IsFiniteSet(s) /\ Cardinality(s) \in Nat
  BY FS_Subset, FS_CardinalityType
<1>2. 0 \in D
  <2>1. \A s \in SUBSET S : Cardinality(s) <= 0 => s = {}
    BY <1>1, FS_EmptySet
  <2>2. Total(w, {}) = 0
    BY FS_EmptySet, TotalUnfold
  <2>3. Takes(w, {})
    BY <2>2 DEF Takes
  <2>4. \A s \in SUBSET S : Cardinality(s) <= 0 => Takes(w, s)
    BY <2>1, <2>3
  <2>q. QED
    BY <2>4
<1>3. ASSUME NEW n \in Nat, n \in D
      PROVE  n + 1 \in D
  <2>1. ASSUME NEW s \in SUBSET S, Cardinality(s) = n + 1
        PROVE  Takes(w, s)
    <3>1. s # {} /\ IsFiniteSet(s)
      BY <1>1, <2>1, FS_EmptySet
    <3>2. ASSUME NEW x \in s
          PROVE  s \ {x} \in SUBSET S /\ Cardinality(s \ {x}) <= n
      <4>1. Cardinality(s \ {x}) = Cardinality(s) - 1
        BY <3>1, <3>2, FS_RemoveElement
      <4>q. QED
        BY <2>1, <4>1
    <3>3. \A x \in s : Takes(w, s \ {x})
      BY <1>3, <3>2
    <3>4. PICK c \in s : c = Taken(s) /\ Others(s) = s \ {c}
      BY <3>1, TakenFacts DEF Others
    <3>5. Total(w, s) = w[c] + Total(w, s \ {c})
      BY <3>1, <3>4, TotalUnfold
    <3>6. \A x \in s : w[x] \in Int /\ Total(w, s \ {x}) \in Int
      BY <3>3 DEF Takes, Numbers
    <3>7. ASSUME NEW x \in s, x # c
          PROVE  Total(w, s) = w[x] + Total(w, s \ {x})
      <4>1. PICK t : t = (s \ {c}) \ {x}
        OBVIOUS
      <4>2. t = (s \ {x}) \ {c} /\ x \in s \ {c} /\ c \in s \ {x}
        BY <3>7, <4>1
      <4>3. Total(w, s \ {c}) = w[x] + Total(w, t)
        BY <3>3, <4>1, <4>2 DEF Takes
      <4>4. Total(w, s \ {x}) = w[c] + Total(w, t)
        BY <3>3, <4>2 DEF Takes
      <4>5. Total(w, t) \in Int
        <5>1. t \in SUBSET S /\ Cardinality(t) <= n
          <6>1. t \in SUBSET (s \ {x}) /\ s \ {x} \in SUBSET S
            BY <4>2
          <6>2. IsFiniteSet(s \ {x}) /\ Cardinality(s \ {x}) <= n
            BY <1>1, <3>2, <6>1
          <6>3. Cardinality(t) <= Cardinality(s \ {x}) /\ t \in SUBSET S
            BY <6>1, <6>2, FS_Subset
          <6>q. QED
            BY <1>1, <6>1, <6>2, <6>3
        <5>q. QED
          BY <1>3, <5>1 DEF Takes
      <4>q. QED
        BY <3>5, <3>6, <4>3, <4>4, <4>5
    <3>8. Total(w, s) \in Int
      BY <3>5, <3>6
    <3>9. \A x \in s : Total(w, s) = w[x] + Total(w, s \ {x})
      BY <3>5, <3>7
    <3>q. QED
      BY <3>8, <3>9 DEF Takes
  <2>2. \A s \in SUBSET S : Cardinality(s) <= n => Takes(w, s)
    BY <1>3
  <2>3. \A s \in SUBSET S : Cardinality(s) <= n + 1 => Takes(w, s)
    BY <1>1, <2>1, <2>2
  <2>q. QED
    BY <2>3
<1>4. \A n \in Nat : n \in D
  <2> HIDE DEF D
  <2>q. QED
    BY <1>2, <1>3, AllNaturals
<1>q. QED
  BY <1>1, <1>4

(* What holds of the empty set and of a set with one more element, where   *)
(* it holds of the set, holds of every finite set.                         *)
LEMMA EveryFiniteSet ==
  ASSUME NEW S, IsFiniteSet(S), NEW D, {} \in D,
         \A T \in SUBSET S : T \in D => \A x \in S \ T : T \cup {x} \in D
  PROVE  S \in D
<1> DEFINE N == {n \in Nat : \A s \in SUBSET S : Cardinality(s) = n => s \in D}
<1>1. \A s \in SUBSET S : IsFiniteSet(s) /\ Cardinality(s) \in Nat
  BY FS_Subset, FS_CardinalityType
<1>2. 0 \in N
  BY <1>1, FS_EmptySet
<1>3. ASSUME NEW n \in Nat, n \in N
      PROVE  n + 1 \in N
  <2>1. ASSUME NEW s \in SUBSET S, Cardinality(s) = n + 1
        PROVE  s \in D
    <3>1. s # {} /\ IsFiniteSet(s)
      BY <1>1, <2>1, FS_EmptySet
    <3>2. PICK x : x = Taken(s)
      OBVIOUS
    <3>3. x \in S \ Others(s) /\ s = Others(s) \cup {x} /\ Others(s) \in SUBSET S
      BY <3>1, <3>2, TakenFacts
    <3>4. Cardinality(Others(s)) = n
      BY <2>1, <3>1, TakenFacts
    <3>5. Others(s) \in D
      BY <1>3, <3>3, <3>4
    <3>q. QED
      BY <3>3, <3>5
  <2>q. QED
    BY <2>1
<1>4. \A n \in Nat : n \in N
  <2> HIDE DEF N
  <2>q. QED
    BY <1>2, <1>3, AllNaturals
<1>q. QED
  BY <1>1, <1>4

(* Nothing adds up to zero.                                                *)
LEMMA TotalEmpty == \A w : Total(w, {}) = 0
  BY FS_EmptySet, TotalUnfold

(* One more element.                                                       *)
LEMMA TotalAdd ==
  ASSUME NEW w, NEW S, IsFiniteSet(S), NEW x, x \notin S, Numbers(w, S \cup {x})
  PROVE  /\ Total(w, S \cup {x}) = Total(w, S) + w[x]
         /\ Total(w, S) \in Int /\ w[x] \in Int
<1>1. IsFiniteSet(S \cup {x}) /\ (S \cup {x}) \ {x} = S
  BY FS_AddElement
<1>2. Takes(w, S \cup {x}) /\ Takes(w, S)
  BY <1>1, TotalTakes DEF Numbers
<1>3. Total(w, S \cup {x}) = w[x] + Total(w, S)
  BY <1>1, <1>2 DEF Takes
<1>q. QED
  BY <1>2, <1>3 DEF Takes, Numbers

(* A sum of integers is an integer.                                        *)
LEMMA TotalType ==
  ASSUME NEW w, NEW S, IsFiniteSet(S), Numbers(w, S)
  PROVE  Total(w, S) \in Int
BY TotalTakes DEF Takes

(* A sum of natural numbers is one.                                        *)
LEMMA TotalNat ==
  ASSUME NEW w, NEW S, IsFiniteSet(S), \A x \in S : w[x] \in Nat
  PROVE  Total(w, S) \in Nat
<1> DEFINE D == {T \in SUBSET S : Total(w, T) \in Nat}
<1>1. {} \in D
  BY TotalEmpty
<1>2. ASSUME NEW T \in SUBSET S, T \in D, NEW x \in S \ T
      PROVE  T \cup {x} \in D
  <2>1. IsFiniteSet(T) /\ Numbers(w, T \cup {x})
    BY FS_Subset DEF Numbers
  <2>2. Total(w, T \cup {x}) = Total(w, T) + w[x]
    BY <2>1, TotalAdd
  <2>q. QED
    BY <1>2, <2>2
<1>3. S \in D
  <2> HIDE DEF D
  <2>q. QED
    BY <1>1, <1>2, EveryFiniteSet
<1>q. QED
  BY <1>3

(* Sums of a pointwise sum, and so of equal functions.                     *)
LEMMA TotalPlus ==
  ASSUME NEW u, NEW v, NEW w, NEW S, IsFiniteSet(S), Numbers(v, S), Numbers(w, S),
         \A x \in S : u[x] = v[x] + w[x]
  PROVE  Total(u, S) = Total(v, S) + Total(w, S)
<1> DEFINE D == {T \in SUBSET S : Total(u, T) = Total(v, T) + Total(w, T)}
<1>1. {} \in D
  BY TotalEmpty
<1>2. ASSUME NEW T \in SUBSET S, T \in D, NEW x \in S \ T
      PROVE  T \cup {x} \in D
  <2>1. /\ IsFiniteSet(T) /\ Numbers(u, T \cup {x})
        /\ Numbers(v, T \cup {x}) /\ Numbers(w, T \cup {x})
    BY FS_Subset DEF Numbers
  <2>2. /\ Total(u, T \cup {x}) = Total(u, T) + u[x]
        /\ Total(v, T \cup {x}) = Total(v, T) + v[x]
        /\ Total(w, T \cup {x}) = Total(w, T) + w[x]
        /\ Total(v, T) \in Int /\ Total(w, T) \in Int /\ v[x] \in Int /\ w[x] \in Int
    BY <2>1, TotalAdd
  <2>3. u[x] = v[x] + w[x] /\ Total(u, T) = Total(v, T) + Total(w, T)
    BY <1>2
  <2>4. Total(u, T \cup {x}) = Total(v, T \cup {x}) + Total(w, T \cup {x})
    BY <2>2, <2>3
  <2>q. QED
    BY <2>4
<1>3. S \in D
  <2> HIDE DEF D
  <2>q. QED
    BY <1>1, <1>2, EveryFiniteSet
<1>q. QED
  BY <1>3

(* Sums of the same values are the same.                                   *)
LEMMA TotalSame ==
  ASSUME NEW v, NEW w, NEW S, IsFiniteSet(S), Numbers(w, S), \A x \in S : v[x] = w[x]
  PROVE  Total(v, S) = Total(w, S)
<1> DEFINE z == [x \in S |-> 0]
<1>1. Total(v, S) = Total(w, S) + Total(z, S) /\ Total(z, S) = Total(z, S) + Total(z, S)
  BY TotalPlus DEF Numbers
<1>2. Total(z, S) \in Int /\ Total(w, S) \in Int
  BY TotalType DEF Numbers
<1>3. PICK a \in Int, b \in Int : a = Total(w, S) /\ b = Total(z, S)
  BY <1>2
<1>4. b = b + b /\ Total(v, S) = a + b
  BY <1>1, <1>3
<1>5. b = 0
  BY <1>4
<1>q. QED
  BY <1>3, <1>4, <1>5

(* The sum over two disjoint sets.                                         *)
LEMMA TotalUnion ==
  ASSUME NEW w, NEW S, NEW T, IsFiniteSet(S), IsFiniteSet(T), S \cap T = {},
         Numbers(w, S \cup T)
  PROVE  Total(w, S \cup T) = Total(w, S) + Total(w, T)
<1> DEFINE D == {U \in SUBSET T : Total(w, S \cup U) = Total(w, S) + Total(w, U)}
<1>1. {} \in D
  <2>1. Total(w, S) \in Int
    BY TotalType DEF Numbers
  <2>2. Total(w, S \cup {}) = Total(w, S) + Total(w, {})
    BY <2>1, TotalEmpty
  <2>q. QED
    BY <2>2
<1>2. ASSUME NEW U \in SUBSET T, U \in D, NEW x \in T \ U
      PROVE  U \cup {x} \in D
  <2>1. /\ IsFiniteSet(U) /\ Numbers(w, U \cup {x}) /\ x \notin U
        /\ IsFiniteSet(S \cup U) /\ Numbers(w, (S \cup U) \cup {x}) /\ x \notin S \cup U
    BY FS_Subset, FS_Union DEF Numbers
  <2>2. /\ Total(w, U \cup {x}) = Total(w, U) + w[x]
        /\ Total(w, U) \in Int /\ w[x] \in Int
    BY <2>1, TotalAdd
  <2>3. Total(w, (S \cup U) \cup {x}) = Total(w, S \cup U) + w[x]
    BY <2>1, TotalAdd
  <2>4. Total(w, S) \in Int
    BY TotalType DEF Numbers
  <2>5. (S \cup U) \cup {x} = S \cup (U \cup {x})
    OBVIOUS
  <2>6. Total(w, S \cup U) = Total(w, S) + Total(w, U)
    BY <1>2
  <2>7. Total(w, S \cup (U \cup {x})) = Total(w, S) + Total(w, U \cup {x})
    <3>1. PICK a \in Int, b \in Int, c \in Int :
            a = Total(w, S) /\ b = Total(w, U) /\ c = w[x]
      BY <2>2, <2>4
    <3>2. Total(w, S \cup (U \cup {x})) = (a + b) + c /\ Total(w, U \cup {x}) = b + c
      BY <2>2, <2>3, <2>5, <2>6, <3>1
    <3>q. QED
      BY <3>1, <3>2
  <2>q. QED
    BY <2>7
<1>3. T \in D
  <2> HIDE DEF D
  <2>q. QED
    BY <1>1, <1>2, EveryFiniteSet
<1>q. QED
  BY <1>3

(* A sum over other names for the same elements.                           *)
LEMMA TotalRenamed ==
  ASSUME NEW v, NEW w, NEW S, IsFiniteSet(S), NEW f,
         \A x, y \in S : f[x] = f[y] => x = y,
         \A x \in S : v[x] = w[f[x]] /\ v[x] \in Int
  PROVE  Total(v, S) = Total(w, {f[x] : x \in S})
<1> DEFINE Image(T) == {f[x] : x \in T}
           D == {T \in SUBSET S : IsFiniteSet(Image(T)) /\ Total(v, T) = Total(w, Image(T))}
<1>1. {} \in D
  <2>1. Image({}) = {}
    OBVIOUS
  <2>q. QED
    BY <2>1, TotalEmpty, FS_EmptySet
<1>2. ASSUME NEW T \in SUBSET S, T \in D, NEW x \in S \ T
      PROVE  T \cup {x} \in D
  <2>1. Image(T \cup {x}) = Image(T) \cup {f[x]} /\ f[x] \notin Image(T)
    OBVIOUS
  <2>2. Numbers(v, T \cup {x}) /\ Numbers(w, Image(T) \cup {f[x]})
    BY DEF Numbers
  <2>3. IsFiniteSet(T) /\ IsFiniteSet(Image(T)) /\ IsFiniteSet(Image(T) \cup {f[x]})
    BY <1>2, FS_Subset, FS_AddElement
  <2> HIDE DEF Image
  <2>4. Total(v, T \cup {x}) = Total(v, T) + v[x]
    BY <2>2, <2>3, TotalAdd
  <2>5. Total(w, Image(T) \cup {f[x]}) = Total(w, Image(T)) + w[f[x]]
    BY <2>1, <2>2, <2>3, TotalAdd
  <2>q. QED
    BY <1>2, <2>1, <2>3, <2>4, <2>5
<1>3. S \in D
  <2> HIDE DEF D
  <2>q. QED
    BY <1>1, <1>2, EveryFiniteSet
<1>q. QED
  BY <1>3

(* Sums of multiples.                                                      *)
LEMMA TotalTimes ==
  ASSUME NEW v, NEW w, NEW S, IsFiniteSet(S), NEW c \in Int, Numbers(w, S),
         \A x \in S : v[x] = c * w[x]
  PROVE  Total(v, S) = c * Total(w, S)
<1> DEFINE D == {T \in SUBSET S : Total(v, T) = c * Total(w, T)}
<1>1. {} \in D
  BY TotalEmpty
<1>2. ASSUME NEW T \in SUBSET S, T \in D, NEW x \in S \ T
      PROVE  T \cup {x} \in D
  <2>1. IsFiniteSet(T) /\ Numbers(v, T \cup {x}) /\ Numbers(w, T \cup {x}) /\ x \notin T
    BY FS_Subset DEF Numbers
  <2>2. /\ Total(v, T \cup {x}) = Total(v, T) + v[x]
        /\ Total(w, T \cup {x}) = Total(w, T) + w[x]
        /\ Total(w, T) \in Int /\ w[x] \in Int
    BY <2>1, TotalAdd
  <2>3. PICK a \in Int, b \in Int : a = Total(w, T) /\ b = w[x]
    BY <2>2
  <2>4. c * (a + b) = c * a + c * b
    OBVIOUS
  <2>5. Total(v, T \cup {x}) = c * Total(w, T \cup {x})
    BY <1>2, <2>2, <2>3, <2>4
  <2>q. QED
    BY <2>5
<1>3. S \in D
  <2> HIDE DEF D
  <2>q. QED
    BY <1>1, <1>2, EveryFiniteSet
<1>q. QED
  BY <1>3

(* Sums of larger numbers.                                                 *)
LEMMA TotalAtMost ==
  ASSUME NEW v, NEW w, NEW S, IsFiniteSet(S), Numbers(v, S), Numbers(w, S),
         \A x \in S : v[x] <= w[x]
  PROVE  Total(v, S) <= Total(w, S)
<1> DEFINE D == {T \in SUBSET S : Total(v, T) <= Total(w, T)}
<1>1. {} \in D
  BY TotalEmpty
<1>2. ASSUME NEW T \in SUBSET S, T \in D, NEW x \in S \ T
      PROVE  T \cup {x} \in D
  <2>1. IsFiniteSet(T) /\ Numbers(v, T \cup {x}) /\ Numbers(w, T \cup {x}) /\ x \notin T
    BY FS_Subset DEF Numbers
  <2>2. /\ Total(v, T \cup {x}) = Total(v, T) + v[x]
        /\ Total(w, T \cup {x}) = Total(w, T) + w[x]
        /\ Total(v, T) \in Int /\ Total(w, T) \in Int /\ v[x] \in Int /\ w[x] \in Int
    BY <2>1, TotalAdd
  <2>3. Total(v, T \cup {x}) <= Total(w, T \cup {x})
    BY <1>2, <2>2
  <2>q. QED
    BY <2>3
<1>3. S \in D
  <2> HIDE DEF D
  <2>q. QED
    BY <1>1, <1>2, EveryFiniteSet
<1>q. QED
  BY <1>3

(* Sums of ones count.                                                     *)
LEMMA TotalCounts ==
  ASSUME NEW w, NEW S, IsFiniteSet(S), \A x \in S : w[x] \in {0, 1}
  PROVE  Total(w, S) = Cardinality({x \in S : w[x] = 1})
<1> DEFINE Ones(T) == {x \in T : w[x] = 1}
           D == {T \in SUBSET S : Total(w, T) = Cardinality(Ones(T))}
<1>1. {} \in D
  <2>1. Ones({}) = {}
    OBVIOUS
  <2>q. QED
    BY <2>1, TotalEmpty, FS_EmptySet
<1>2. ASSUME NEW T \in SUBSET S, T \in D, NEW x \in S \ T
      PROVE  T \cup {x} \in D
  <2>1. IsFiniteSet(T) /\ Numbers(w, T \cup {x}) /\ x \notin T
    BY FS_Subset DEF Numbers
  <2>2. Total(w, T \cup {x}) = Total(w, T) + w[x]
    BY <2>1, TotalAdd
  <2>3. Ones(T) \in SUBSET T /\ IsFiniteSet(Ones(T)) /\ Cardinality(Ones(T)) \in Nat
    BY <2>1, FS_Subset, FS_CardinalityType
  <2>4. Ones(T \cup {x}) = IF w[x] = 1 THEN Ones(T) \cup {x} ELSE Ones(T)
    OBVIOUS
  <2>5. Cardinality(Ones(T) \cup {x}) = Cardinality(Ones(T)) + 1
    BY <2>1, <2>3, FS_AddElement
  <2>6. Total(w, T) = Cardinality(Ones(T)) /\ w[x] \in {0, 1}
    BY <1>2
  <2> HIDE DEF Ones
  <2>7. Total(w, T \cup {x}) = Cardinality(Ones(T \cup {x}))
    BY <2>2, <2>3, <2>4, <2>5, <2>6
  <2>q. QED
    BY <2>7
<1>3. S \in D
  <2> HIDE DEF D
  <2>q. QED
    BY <1>1, <1>2, EveryFiniteSet
<1>q. QED
  BY <1>3

(* A sum in two stages.                                                    *)
LEMMA TotalOfTotals ==
  ASSUME NEW w, NEW S, IsFiniteSet(S), Numbers(w, S), NEW f, NEW a, NEW M, IsFiniteSet(M),
         \A x \in S : f[x] \in M,
         \A r \in M : a[r] = Total(w, {x \in S : f[x] = r})
  PROVE  Total(a, M) = Total(w, S)
<1> DEFINE Over(U) == {x \in S : f[x] \in U}
           D == {U \in SUBSET M : Total(a, U) = Total(w, Over(U))}
<1>0. \A U : Over(U) \in SUBSET S
  OBVIOUS
<1>1. {} \in D
  <2>1. Over({}) = {}
    OBVIOUS
  <2>q. QED
    BY <2>1, TotalEmpty
<1>2. ASSUME NEW U \in SUBSET M, U \in D, NEW r \in M \ U
      PROVE  U \cup {r} \in D
  <2>1. /\ Over(U \cup {r}) = Over(U) \cup {x \in S : f[x] = r}
        /\ Over(U) \cap {x \in S : f[x] = r} = {}
    OBVIOUS
  <2>2. PICK V : V = {x \in S : f[x] = r}
    OBVIOUS
  <2>3. V \in SUBSET S
    BY <2>2
  <2> HIDE DEF Over
  <2>4. /\ IsFiniteSet(V) /\ IsFiniteSet(Over(U))
        /\ Numbers(w, V) /\ Numbers(w, Over(U)) /\ Numbers(w, Over(U) \cup V)
    BY <1>0, <2>3, FS_Subset DEF Numbers
  <2>5. Over(U) \cap V = {}
    BY <2>1, <2>2
  <2>6. Total(w, Over(U) \cup V) = Total(w, Over(U)) + Total(w, V)
    BY <2>4, <2>5, TotalUnion
  <2>7. \A y \in M : a[y] \in Int
    <3>1. ASSUME NEW y \in M PROVE a[y] \in Int
      <4>1. PICK W \in SUBSET S : W = {x \in S : f[x] = y}
        OBVIOUS
      <4>2. IsFiniteSet(W) /\ Numbers(w, W)
        BY FS_Subset DEF Numbers
      <4>3. Total(w, W) \in Int
        BY <4>2, TotalType
      <4>q. QED
        BY <4>1, <4>3
    <3>q. QED
      BY <3>1
  <2>8. IsFiniteSet(U) /\ Numbers(a, U \cup {r}) /\ r \notin U
    BY <2>7, FS_Subset DEF Numbers
  <2>9. Total(a, U \cup {r}) = Total(a, U) + a[r]
    BY <2>8, TotalAdd
  <2>10. a[r] = Total(w, V)
    BY <2>2
  <2>11. Total(a, U \cup {r}) = Total(w, Over(U \cup {r}))
    BY <1>2, <2>1, <2>2, <2>6, <2>9, <2>10
  <2>q. QED
    BY <2>11
<1>3. M \in D
  <2> HIDE DEF D
  <2>q. QED
    BY <1>1, <1>2, EveryFiniteSet
<1>4. Over(M) = S
  OBVIOUS
<1>q. QED
  BY <1>3, <1>4

-----------------------------------------------------------------------------
(* Ranks                                                                   *)

(* The order by a first key, larger first, then by a second, smaller       *)
(* first, then by place; and the rank of a member of a set in it.          *)
Before(a, b, j, i) ==
  \/ a[j] > a[i]
  \/ a[j] = a[i] /\ b[j] < b[i]
  \/ a[j] = a[i] /\ b[j] = b[i] /\ j < i

Earlier(a, b, S, i) == {j \in S : Before(a, b, j, i)}

Rank(a, b, S, i) == Cardinality(Earlier(a, b, S, i))

Ranked(a, b, S) ==
  IsFiniteSet(S) /\ \A i \in S : i \in Int /\ a[i] \in Int /\ b[i] \in Int

(* It is a strict total order.                                             *)
LEMMA BeforeOrders ==
  ASSUME NEW a, NEW b, NEW S, Ranked(a, b, S)
  PROVE  /\ \A i \in S : ~Before(a, b, i, i)
         /\ \A i, j \in S : Before(a, b, i, j) \/ Before(a, b, j, i) \/ i = j
         /\ \A i, j, k \in S : Before(a, b, i, j) /\ Before(a, b, j, k) => Before(a, b, i, k)
  BY DEF Ranked, Before

(* Ranks are below the number of members and follow the order.             *)
LEMMA RankBounds ==
  ASSUME NEW a, NEW b, NEW S, Ranked(a, b, S)
  PROVE  /\ Cardinality(S) \in Nat
         /\ \A i \in S : Rank(a, b, S, i) \in Nat /\ Rank(a, b, S, i) < Cardinality(S)
<1>1. IsFiniteSet(S) /\ Cardinality(S) \in Nat
  BY FS_CardinalityType DEF Ranked
<1>2. ASSUME NEW i \in S
      PROVE  Rank(a, b, S, i) \in Nat /\ Rank(a, b, S, i) < Cardinality(S)
  <2>1. Earlier(a, b, S, i) \in SUBSET (S \ {i})
    BY BeforeOrders DEF Earlier
  <2>2. IsFiniteSet(S \ {i}) /\ Cardinality(S \ {i}) = Cardinality(S) - 1
    BY <1>1, FS_RemoveElement
  <2>3. /\ IsFiniteSet(Earlier(a, b, S, i))
        /\ Cardinality(Earlier(a, b, S, i)) <= Cardinality(S \ {i})
    BY <2>1, <2>2, FS_Subset
  <2>4. Cardinality(Earlier(a, b, S, i)) \in Nat
    BY <2>3, FS_CardinalityType
  <2>q. QED
    BY <1>1, <2>2, <2>3, <2>4 DEF Rank
<1>q. QED
  BY <1>1, <1>2

LEMMA RankOrders ==
  ASSUME NEW a, NEW b, NEW S, Ranked(a, b, S)
  PROVE  \A i, j \in S : Before(a, b, i, j) <=> Rank(a, b, S, i) < Rank(a, b, S, j)
<1>1. ASSUME NEW i \in S, NEW j \in S, Before(a, b, i, j)
      PROVE  Rank(a, b, S, i) < Rank(a, b, S, j)
  <2>1. /\ Earlier(a, b, S, i) \in SUBSET Earlier(a, b, S, j)
        /\ i \in Earlier(a, b, S, j) /\ i \notin Earlier(a, b, S, i)
    BY <1>1, BeforeOrders DEF Earlier
  <2>2. Earlier(a, b, S, j) \in SUBSET S /\ IsFiniteSet(S)
    BY DEF Earlier, Ranked
  <2>3. IsFiniteSet(Earlier(a, b, S, j))
    BY <2>2, FS_Subset
  <2>4. /\ Cardinality(Earlier(a, b, S, i)) <= Cardinality(Earlier(a, b, S, j))
        /\ Cardinality(Earlier(a, b, S, i)) # Cardinality(Earlier(a, b, S, j))
    BY <2>1, <2>3, FS_Subset
  <2>5. Rank(a, b, S, i) \in Nat /\ Rank(a, b, S, j) \in Nat
    BY RankBounds
  <2>q. QED
    BY <2>4, <2>5 DEF Rank
<1>2. ASSUME NEW i \in S, NEW j \in S, Rank(a, b, S, i) < Rank(a, b, S, j)
      PROVE  Before(a, b, i, j)
  <2>1. Rank(a, b, S, i) \in Nat /\ Rank(a, b, S, j) \in Nat
    BY RankBounds
  <2>2. ~Before(a, b, j, i) /\ i # j
    BY <1>1, <1>2, <2>1
  <2>q. QED
    BY <2>2, BeforeOrders
<1>q. QED
  BY <1>1, <1>2

(* So members have different ranks, and every rank is taken.               *)
LEMMA RanksAreDifferent ==
  ASSUME NEW a, NEW b, NEW S, Ranked(a, b, S)
  PROVE  \A i, j \in S : Rank(a, b, S, i) = Rank(a, b, S, j) => i = j
<1>1. \A i \in S : Rank(a, b, S, i) \in Nat
  BY RankBounds
<1>2. \A i, j \in S : Rank(a, b, S, i) = Rank(a, b, S, j) =>
        ~Before(a, b, i, j) /\ ~Before(a, b, j, i)
  BY <1>1, RankOrders
<1>q. QED
  BY <1>2, BeforeOrders

LEMMA RanksAreTaken ==
  ASSUME NEW a, NEW b, NEW S, Ranked(a, b, S), NEW k \in Nat, k < Cardinality(S)
  PROVE  \E i \in S : Rank(a, b, S, i) = k
<1>0. PICK n \in Nat : n = Cardinality(S)
  BY RankBounds
<1> DEFINE f == [i \in S |-> Rank(a, b, S, i)]
<1>1. \A i \in S : f[i] \in 0 .. n - 1
  BY <1>0, RankBounds
<1>2. f \in Injection(S, 0 .. n - 1)
  BY <1>1, RanksAreDifferent DEF Injection, IsInjective
<1>3. IsFiniteSet(0 .. n - 1) /\ Cardinality(0 .. n - 1) = n
  BY <1>1, FS_Interval
<1>4. f \in Surjection(S, 0 .. n - 1)
  <2> HIDE DEF f
  <2>q. QED
    BY <1>0, <1>2, <1>3, FS_Injection
<1>5. k \in 0 .. n - 1
  BY <1>0
<1>6. \E i \in S : f[i] = k
  BY <1>4, <1>5 DEF Surjection
<1>q. QED
  BY <1>6

(* As many members are among the first n as n says.                        *)
LEMMA FirstOnes ==
  ASSUME NEW a, NEW b, NEW S, Ranked(a, b, S), NEW n \in Nat, n <= Cardinality(S)
  PROVE  Cardinality({i \in S : Rank(a, b, S, i) < n}) = n
<1> DEFINE T == {i \in S : Rank(a, b, S, i) < n}
           f == [i \in T |-> Rank(a, b, S, i)]
<1>1. T \in SUBSET S /\ IsFiniteSet(S) /\ Cardinality(S) \in Nat
  BY RankBounds DEF Ranked
<1>2. \A i \in T : f[i] \in 0 .. n - 1
  BY RankBounds
<1>3. f \in Injection(T, 0 .. n - 1)
  BY <1>2, RanksAreDifferent DEF Injection, IsInjective
<1>4. f \in Surjection(T, 0 .. n - 1)
  <2>1. ASSUME NEW k \in 0 .. n - 1
        PROVE  \E i \in T : f[i] = k
    <3>1. k \in Nat /\ k < n /\ k < Cardinality(S)
      BY <1>1
    <3>2. PICK i \in S : Rank(a, b, S, i) = k
      BY <3>1, RanksAreTaken
    <3>q. QED
      BY <3>1, <3>2
  <2>2. f \in [T -> 0 .. n - 1]
    BY <1>2
  <2> HIDE DEF f, T
  <2>q. QED
    BY <2>1, <2>2 DEF Surjection
<1>5. ExistsBijection(T, 0 .. n - 1)
  BY <1>3, <1>4 DEF ExistsBijection, Bijection
<1>6. IsFiniteSet(T)
  BY <1>1, FS_Subset
<1>7. Cardinality(0 .. n - 1) = n
  BY FS_Interval
<1> HIDE DEF T
<1>8. Cardinality(T) = n
  BY <1>5, <1>6, <1>7, FS_Bijection
<1>q. QED
  BY <1>8 DEF T

(* The members with a key before x and y, and those with such a key or     *)
(* with x and y.                                                           *)
Ahead(a, b, S, x, y)    == {j \in S : a[j] > x \/ (a[j] = x /\ b[j] < y)}
NotAfter(a, b, S, x, y) == {j \in S : a[j] > x \/ (a[j] = x /\ b[j] <= y)}

(* A member comes after those with a key before its own, and before those  *)
(* with a later one.                                                       *)
LEMMA RankIsBetween ==
  ASSUME NEW a, NEW b, NEW S, Ranked(a, b, S), NEW i \in S
  PROVE  /\ Cardinality(Ahead(a, b, S, a[i], b[i])) <= Rank(a, b, S, i)
         /\ Rank(a, b, S, i) < Cardinality(NotAfter(a, b, S, a[i], b[i]))
<1> DEFINE F == Ahead(a, b, S, a[i], b[i])
           W == NotAfter(a, b, S, a[i], b[i])
           E == Earlier(a, b, S, i)
<1>1. F \in SUBSET E /\ E \in SUBSET W /\ W \in SUBSET S
  <2>1. \A j \in S : a[i] \in Int /\ b[i] \in Int /\ a[j] \in Int /\ b[j] \in Int
    BY DEF Ranked
  <2>2. \A j \in S : (j \in F => Before(a, b, j, i)) /\ (Before(a, b, j, i) => j \in W)
    BY <2>1 DEF Ahead, NotAfter, Before
  <2>q. QED
    BY <2>2 DEF Ahead, NotAfter, Earlier
<1>2. i \in W /\ i \notin E
  BY BeforeOrders DEF NotAfter, Earlier, Ranked
<1>3. IsFiniteSet(S) /\ E \in SUBSET S
  BY DEF Ranked, Earlier
<1> HIDE DEF F, W, E
<1>4. IsFiniteSet(W) /\ IsFiniteSet(E)
  BY <1>1, <1>3, FS_Subset
<1>5. Cardinality(W) \in Nat /\ Cardinality(E) \in Nat
  BY <1>4, FS_CardinalityType
<1>6. Cardinality(F) <= Cardinality(E)
  BY <1>1, <1>4, FS_Subset
<1>7. Cardinality(E) <= Cardinality(W) /\ Cardinality(E) # Cardinality(W)
  BY <1>1, <1>2, <1>4, FS_Subset
<1>q. QED
  BY <1>5, <1>6, <1>7 DEF Rank, F, W, E

(* A list of the same members in another order.                            *)
Reordered(a, b, S, c, d, T, p) ==
  /\ p \in Bijection(T, S)
  /\ \A x \in T : c[x] = a[p[x]] /\ d[x] = b[p[x]]

LEMMA CountRenamed ==
  ASSUME NEW S, NEW T, NEW p \in Bijection(T, S), NEW V \in SUBSET S, NEW U \in SUBSET T,
         IsFiniteSet(T), \A x \in T : x \in U <=> p[x] \in V
  PROVE  Cardinality(U) = Cardinality(V)
<1> DEFINE q == [x \in U |-> p[x]]
<1>1. /\ p \in [T -> S] /\ \A x, y \in T : p[x] = p[y] => x = y
      /\ \A s \in S : \E x \in T : p[x] = s
  BY DEF Bijection, Injection, Surjection, IsInjective
<1>2. q \in [U -> V] /\ \A x, y \in U : q[x] = q[y] => x = y
  BY <1>1
<1>3. \A s \in V : \E x \in U : q[x] = s
  BY <1>1
<1> HIDE DEF q
<1>4. ExistsBijection(U, V)
  BY <1>2, <1>3 DEF ExistsBijection, Bijection, Injection, Surjection, IsInjective
<1>5. IsFiniteSet(U)
  BY FS_Subset
<1>q. QED
  BY <1>4, <1>5, FS_Bijection

LEMMA ReorderedCounts ==
  ASSUME NEW a, NEW b, NEW S, NEW c, NEW d, NEW T, NEW p,
         Reordered(a, b, S, c, d, T, p), IsFiniteSet(T), NEW x, NEW y
  PROVE  /\ Cardinality(Ahead(c, d, T, x, y)) = Cardinality(Ahead(a, b, S, x, y))
         /\ Cardinality(NotAfter(c, d, T, x, y)) = Cardinality(NotAfter(a, b, S, x, y))
<1>1. p \in Bijection(T, S) /\ \A j \in T : p[j] \in S
  BY DEF Reordered, Bijection, Injection
<1>2. /\ Ahead(a, b, S, x, y) \in SUBSET S /\ Ahead(c, d, T, x, y) \in SUBSET T
      /\ \A j \in T : j \in Ahead(c, d, T, x, y) <=> p[j] \in Ahead(a, b, S, x, y)
  BY <1>1 DEF Reordered, Ahead
<1>3. /\ NotAfter(a, b, S, x, y) \in SUBSET S /\ NotAfter(c, d, T, x, y) \in SUBSET T
      /\ \A j \in T : j \in NotAfter(c, d, T, x, y) <=> p[j] \in NotAfter(a, b, S, x, y)
  BY <1>1 DEF Reordered, NotAfter
<1>4. Cardinality(Ahead(c, d, T, x, y)) = Cardinality(Ahead(a, b, S, x, y))
  BY <1>1, <1>2, CountRenamed
<1>5. Cardinality(NotAfter(c, d, T, x, y)) = Cardinality(NotAfter(a, b, S, x, y))
  BY <1>1, <1>3, CountRenamed
<1>q. QED
  BY <1>4, <1>5

(* Members at one rank have one key: fewer members than the rank have a    *)
(* key before it, in either list, and more have one up to it.              *)
LEMMA OneKeyPerRank ==
  ASSUME NEW a, NEW b, NEW S, Ranked(a, b, S), NEW c, NEW d, NEW T, Ranked(c, d, T),
         NEW p, Reordered(a, b, S, c, d, T, p),
         NEW i \in T, NEW j \in S, Rank(c, d, T, i) = Rank(a, b, S, j)
  PROVE  c[i] = a[j] /\ d[i] = b[j]
<1>1. IsFiniteSet(S) /\ IsFiniteSet(T)
  BY DEF Ranked
<1>2. PICK x \in Int, y \in Int, u \in Int, v \in Int :
        x = c[i] /\ y = d[i] /\ u = a[j] /\ v = b[j]
  BY DEF Ranked
<1> DEFINE Fr(m, n) == Cardinality(Ahead(a, b, S, m, n))
           Wi(m, n) == Cardinality(NotAfter(a, b, S, m, n))
<1>3. \A m, n : Fr(m, n) \in Nat /\ Wi(m, n) \in Nat
  <2>1. \A m, n : Ahead(a, b, S, m, n) \in SUBSET S /\ NotAfter(a, b, S, m, n) \in SUBSET S
    BY DEF Ahead, NotAfter
  <2>2. \A m, n : IsFiniteSet(Ahead(a, b, S, m, n)) /\ IsFiniteSet(NotAfter(a, b, S, m, n))
    BY <1>1, <2>1, FS_Subset
  <2>q. QED
    BY <2>2, FS_CardinalityType
<1>4. Fr(u, v) <= Rank(a, b, S, j) /\ Rank(a, b, S, j) < Wi(u, v)
  BY <1>2, RankIsBetween
<1>5. Fr(x, y) <= Rank(c, d, T, i) /\ Rank(c, d, T, i) < Wi(x, y)
  <2>1. /\ Cardinality(Ahead(c, d, T, x, y)) <= Rank(c, d, T, i)
        /\ Rank(c, d, T, i) < Cardinality(NotAfter(c, d, T, x, y))
    BY <1>2, RankIsBetween
  <2>q. QED
    BY <1>1, <2>1, ReorderedCounts
<1>6. ASSUME NEW m \in Int, NEW n \in Int, NEW k \in Int, NEW l \in Int,
             m > k \/ (m = k /\ n < l)
      PROVE  Wi(m, n) <= Fr(k, l)
  <2>1. NotAfter(a, b, S, m, n) \in SUBSET Ahead(a, b, S, k, l)
    BY <1>6 DEF NotAfter, Ahead, Ranked
  <2>2. Ahead(a, b, S, k, l) \in SUBSET S
    BY DEF Ahead
  <2>3. IsFiniteSet(Ahead(a, b, S, k, l))
    BY <1>1, <2>2, FS_Subset
  <2>q. QED
    BY <2>1, <2>3, FS_Subset
<1>7. Rank(a, b, S, j) \in Nat
  BY RankBounds
<1> HIDE DEF Fr, Wi
<1>8. ~(x > u \/ (x = u /\ y < v))
  <2>1. Wi(x, y) <= Fr(u, v) => FALSE
    BY <1>3, <1>4, <1>5, <1>7
  <2>q. QED
    BY <1>6, <2>1
<1>9. ~(u > x \/ (u = x /\ v < y))
  <2>1. Wi(u, v) <= Fr(x, y) => FALSE
    BY <1>3, <1>4, <1>5, <1>7
  <2>q. QED
    BY <1>6, <2>1
<1>10. x = u /\ y = v
  BY <1>2, <1>8, <1>9
<1>q. QED
  BY <1>2, <1>10

(* So of those with one second key equally many are among the first n.     *)
FirstWith(a, b, S, n, r) == {i \in S : b[i] = r /\ Rank(a, b, S, i) < n}

LEMMA EquallyManyServed ==
  ASSUME NEW a, NEW b, NEW S, Ranked(a, b, S), NEW c, NEW d, NEW T, Ranked(c, d, T),
         NEW p, Reordered(a, b, S, c, d, T, p), NEW n, NEW r
  PROVE  Cardinality(FirstWith(c, d, T, n, r)) = Cardinality(FirstWith(a, b, S, n, r))
<1> DEFINE U == {i \in T : d[i] = r /\ Rank(c, d, T, i) < n}
           V == {j \in S : b[j] = r /\ Rank(a, b, S, j) < n}
           Peer(i, j) == Rank(c, d, T, i) = Rank(a, b, S, j)
           q == [i \in U |-> CHOOSE j \in S : Peer(i, j)]
<1>1. Cardinality(S) = Cardinality(T) /\ IsFiniteSet(T)
  <2>1. ExistsBijection(T, S) /\ IsFiniteSet(T)
    BY DEF Reordered, ExistsBijection, Ranked
  <2>q. QED
    BY <2>1, FS_Bijection
<1>2. \A i \in T : \E j \in S : Peer(i, j)
  <2>1. ASSUME NEW i \in T
        PROVE  \E j \in S : Rank(a, b, S, j) = Rank(c, d, T, i)
    <3>1. PICK k \in Nat : k = Rank(c, d, T, i) /\ k < Cardinality(S)
      BY <1>1, RankBounds
    <3>2. \E j \in S : Rank(a, b, S, j) = k
      BY <3>1, RanksAreTaken
    <3>q. QED
      BY <3>1, <3>2
  <2>q. QED
    BY <2>1
<1>3. \A j \in S : \E i \in T : Peer(i, j)
  <2>1. ASSUME NEW j \in S
        PROVE  \E i \in T : Rank(c, d, T, i) = Rank(a, b, S, j)
    <3>1. PICK k \in Nat : k = Rank(a, b, S, j) /\ k < Cardinality(T)
      BY <1>1, RankBounds
    <3>2. \E i \in T : Rank(c, d, T, i) = k
      BY <3>1, RanksAreTaken
    <3>q. QED
      BY <3>1, <3>2
  <2>q. QED
    BY <2>1
<1>4. \A i \in T, j \in S : Peer(i, j) => d[i] = b[j]
  BY OneKeyPerRank
<1>5. \A i \in U : q[i] \in S /\ Peer(i, q[i])
  BY <1>2
<1>6. \A i \in T, j \in S : Peer(i, j) => (i \in U <=> j \in V)
  BY <1>4
<1>7. \A i, k \in T, j \in S : Peer(i, j) /\ Peer(k, j) => i = k
  BY RanksAreDifferent
<1>8. \A i \in T, j, k \in S : Peer(i, j) /\ Peer(i, k) => j = k
  <2>1. \A j, k \in S : Rank(a, b, S, j) = Rank(a, b, S, k) => j = k
    BY RanksAreDifferent
  <2>q. QED
    BY <2>1
<1>9. U \in SUBSET T /\ V \in SUBSET S /\ DOMAIN q = U
  OBVIOUS
<1> HIDE DEF U, V, q, Peer
<1>10. q \in [U -> V] /\ \A i, k \in U : q[i] = q[k] => i = k
  <2>1. \A i \in U : q[i] \in V
    BY <1>5, <1>6, <1>9
  <2>2. q \in [U -> V]
    BY <2>1 DEF q
  <2>q. QED
    BY <1>5, <1>7, <1>9, <2>2
<1>11. \A j \in V : \E i \in U : q[i] = j
  BY <1>3, <1>5, <1>6, <1>8, <1>9
<1>12. ExistsBijection(U, V)
  BY <1>10, <1>11 DEF ExistsBijection, Bijection, Injection, Surjection, IsInjective
<1>13. IsFiniteSet(U)
  BY <1>1, <1>9, FS_Subset
<1>14. Cardinality(U) = Cardinality(V)
  BY <1>12, <1>13, FS_Bijection
<1>q. QED
  BY <1>14 DEF U, V, FirstWith

-----------------------------------------------------------------------------
(* The resolution                                                          *)

(* The total of amounts is such a sum.                                     *)
LEMMA AmountTotalIs ==
  ASSUME NEW a
  PROVE  AmountTotal(a) = Total(a, DOMAIN a)
BY DEF AmountTotal, MapThenSumSet, Total, SumFunctionOnSet, FoldFunctionOnSet

ValuesOf(ins) == [i \in DOMAIN ins |-> ins[i].value]

(* The total of a kind of instruction is a sum over its reserves.          *)
LEMMA ValueOverIs ==
  ASSUME NEW ins, NEW S \in SUBSET DOMAIN ins, IsFiniteSet(S)
  PROVE  ValueOver(ins, S) = Total(ValuesOf(ins), S)
<1> DEFINE IsIter(iter) ==
      iter = [s \in SUBSET S |->
                IF s = {} THEN 0
                ELSE ins[CHOOSE x \in s : TRUE].value + iter[s \ {CHOOSE x \in s : TRUE}]]
<1>1. ASSUME NEW f
      PROVE  IsIter(f) <=> IsSum(f, ValuesOf(ins), S)
  <2>1. \A s \in SUBSET S : s # {} => ValuesOf(ins)[Taken(s)] = ins[Taken(s)].value
    BY DEF ValuesOf, Taken
  <2>2. \A s \in SUBSET S : SumOver(f, ValuesOf(ins), s) =
             IF s = {} THEN 0
             ELSE ins[CHOOSE x \in s : TRUE].value + f[s \ {CHOOSE x \in s : TRUE}]
    BY <2>1 DEF SumOver, Taken, Others
  <2>3. [s \in SUBSET S |-> SumOver(f, ValuesOf(ins), s)]
          = [s \in SUBSET S |->
               IF s = {} THEN 0
               ELSE ins[CHOOSE x \in s : TRUE].value + f[s \ {CHOOSE x \in s : TRUE}]]
    BY <2>2
  <2>q. QED
    BY <2>3 DEF IsSum
<1>2. ValueOver(ins, S) = (CHOOSE iter : IsIter(iter))[S]
  BY DEF ValueOver, MapThenSumSet, MapThenFoldSet
<1> HIDE DEF IsIter
<1>3. PICK f : IsIter(f) /\ ValueOver(ins, S) = f[S]
  BY <1>1, <1>2, SumExists
<1>q. QED
  BY <1>1, <1>3, TotalIs

ShareSum(budget, ins, S) == MapThenSumSet(LAMBDA i : Share(budget, ins, i), S)

SharesOf(budget, ins) == [i \in DOMAIN ins |-> Share(budget, ins, i)]

(* The shares add up like a sum.                                           *)
LEMMA ShareSumIs ==
  ASSUME NEW budget, NEW ins, NEW S \in SUBSET DOMAIN ins, IsFiniteSet(S)
  PROVE  ShareSum(budget, ins, S) = Total(SharesOf(budget, ins), S)
<1> DEFINE IsIter(iter) ==
      iter = [s \in SUBSET S |->
                IF s = {} THEN 0
                ELSE Share(budget, ins, CHOOSE x \in s : TRUE) + iter[s \ {CHOOSE x \in s : TRUE}]]
<1>1. ASSUME NEW f
      PROVE  IsIter(f) <=> IsSum(f, SharesOf(budget, ins), S)
  <2>1. \A s \in SUBSET S : s # {} =>
          SharesOf(budget, ins)[Taken(s)] = Share(budget, ins, Taken(s))
    BY DEF SharesOf, Taken
  <2>2. \A s \in SUBSET S : SumOver(f, SharesOf(budget, ins), s) =
             IF s = {} THEN 0
             ELSE Share(budget, ins, CHOOSE x \in s : TRUE) + f[s \ {CHOOSE x \in s : TRUE}]
    BY <2>1 DEF SumOver, Taken, Others
  <2>3. [s \in SUBSET S |-> SumOver(f, SharesOf(budget, ins), s)]
          = [s \in SUBSET S |->
               IF s = {} THEN 0
               ELSE Share(budget, ins, CHOOSE x \in s : TRUE) + f[s \ {CHOOSE x \in s : TRUE}]]
    BY <2>2
  <2>q. QED
    BY <2>3 DEF IsSum
<1>2. ShareSum(budget, ins, S) = (CHOOSE iter : IsIter(iter))[S]
  BY DEF ShareSum, MapThenSumSet, MapThenFoldSet
<1> HIDE DEF IsIter
<1>3. PICK f : IsIter(f) /\ ShareSum(budget, ins, S) = f[S]
  BY <1>1, <1>2, SumExists
<1>q. QED
  BY <1>1, <1>3, TotalIs

FloorsOf(budget, ins)     == [i \in DOMAIN ins |-> Floor(budget, ins, i)]
RemaindersOf(budget, ins) == [i \in DOMAIN ins |-> Remainder(budget, ins, i)]
ExactsOf(budget, ins)     == [i \in DOMAIN ins |-> Exact(budget, ins, i)]
ReservesOf(ins)           == [i \in DOMAIN ins |-> ins[i].reserve]

FloorSum(budget, ins, S) == MapThenSumSet(LAMBDA i : Floor(budget, ins, i), S)

(* And so do the shares rounded down.                                      *)
LEMMA FloorSumIs ==
  ASSUME NEW budget, NEW ins, NEW S \in SUBSET DOMAIN ins, IsFiniteSet(S)
  PROVE  FloorSum(budget, ins, S) = Total(FloorsOf(budget, ins), S)
<1> DEFINE IsIter(iter) ==
      iter = [s \in SUBSET S |->
                IF s = {} THEN 0
                ELSE Floor(budget, ins, CHOOSE x \in s : TRUE) + iter[s \ {CHOOSE x \in s : TRUE}]]
<1>1. ASSUME NEW f
      PROVE  IsIter(f) <=> IsSum(f, FloorsOf(budget, ins), S)
  <2>1. \A s \in SUBSET S : s # {} =>
          FloorsOf(budget, ins)[Taken(s)] = Floor(budget, ins, Taken(s))
    BY DEF FloorsOf, Taken
  <2>2. \A s \in SUBSET S : SumOver(f, FloorsOf(budget, ins), s) =
             IF s = {} THEN 0
             ELSE Floor(budget, ins, CHOOSE x \in s : TRUE) + f[s \ {CHOOSE x \in s : TRUE}]
    BY <2>1 DEF SumOver, Taken, Others
  <2>3. [s \in SUBSET S |-> SumOver(f, FloorsOf(budget, ins), s)]
          = [s \in SUBSET S |->
               IF s = {} THEN 0
               ELSE Floor(budget, ins, CHOOSE x \in s : TRUE) + f[s \ {CHOOSE x \in s : TRUE}]]
    BY <2>2
  <2>q. QED
    BY <2>3 DEF IsSum
<1>2. FloorSum(budget, ins, S) = (CHOOSE iter : IsIter(iter))[S]
  BY DEF FloorSum, MapThenSumSet, MapThenFoldSet
<1> HIDE DEF IsIter
<1>3. PICK f : IsIter(f) /\ FloorSum(budget, ins, S) = f[S]
  BY <1>1, <1>2, SumExists
<1>q. QED
  BY <1>1, <1>3, TotalIs

(* A list of instructions and a budget it can be resolved for.             *)
Instructions(ins) ==
  /\ IsFiniteSet(DOMAIN ins) /\ DOMAIN ins \subseteq Int
  /\ \A i \in DOMAIN ins : /\ ins[i].reserve \in Int /\ ins[i].value \in Nat
                           /\ ins[i].kind \in {"FIXED", "PERCENTAGE"}

Posed(budget, ins) ==
  /\ Instructions(ins) /\ budget \in Int
  /\ PercentageTotal(ins) <= FullShare
  /\ FixedTotal(ins) <= budget

(* Every instruction is of one kind.                                       *)
LEMMA KindsPartition ==
  ASSUME NEW ins, Instructions(ins)
  PROVE  /\ FixedOnes(ins) \in SUBSET DOMAIN ins /\ IsFiniteSet(FixedOnes(ins))
         /\ Percentages(ins) \in SUBSET DOMAIN ins /\ IsFiniteSet(Percentages(ins))
         /\ FixedOnes(ins) \cap Percentages(ins) = {}
         /\ FixedOnes(ins) \cup Percentages(ins) = DOMAIN ins
         /\ FixedTotal(ins) = Total(ValuesOf(ins), FixedOnes(ins))
         /\ PercentageTotal(ins) = Total(ValuesOf(ins), Percentages(ins))
         /\ FixedTotal(ins) \in Nat /\ PercentageTotal(ins) \in Nat
<1>1. /\ FixedOnes(ins) \in SUBSET DOMAIN ins
      /\ Percentages(ins) \in SUBSET DOMAIN ins
      /\ FixedOnes(ins) \cap Percentages(ins) = {}
      /\ FixedOnes(ins) \cup Percentages(ins) = DOMAIN ins
  BY DEF FixedOnes, Percentages, Instructions
<1>2. IsFiniteSet(FixedOnes(ins)) /\ IsFiniteSet(Percentages(ins))
  BY <1>1, FS_Subset DEF Instructions
<1>3. /\ FixedTotal(ins) = Total(ValuesOf(ins), FixedOnes(ins))
      /\ PercentageTotal(ins) = Total(ValuesOf(ins), Percentages(ins))
  BY <1>1, <1>2, ValueOverIs DEF FixedTotal, PercentageTotal
<1>4. \A i \in DOMAIN ins : ValuesOf(ins)[i] \in Nat
  BY DEF Instructions, ValuesOf
<1>5. FixedTotal(ins) \in Nat /\ PercentageTotal(ins) \in Nat
  BY <1>1, <1>2, <1>3, <1>4, TotalNat
<1>q. QED
  BY <1>1, <1>2, <1>3, <1>5

(* Division with a remainder.                                              *)
LEMMA Division ==
  ASSUME NEW x \in Nat
  PROVE  /\ x \div FullShare \in Nat /\ x % FullShare \in Nat
         /\ x = FullShare * (x \div FullShare) + (x % FullShare)
         /\ x % FullShare < FullShare
  BY DEF FullShare

(* An exact share is so many units and a remainder.                        *)
LEMMA SharesDivide ==
  ASSUME NEW budget, NEW ins, Posed(budget, ins)
  PROVE  /\ PercentageBudget(budget, ins) \in Nat
         /\ \A i \in DOMAIN ins :
              /\ Exact(budget, ins, i) \in Nat
              /\ Floor(budget, ins, i) \in Nat
              /\ Remainder(budget, ins, i) \in Nat
              /\ Remainder(budget, ins, i) < FullShare
              /\ Exact(budget, ins, i)
                   = FullShare * Floor(budget, ins, i) + Remainder(budget, ins, i)
<1>1. PercentageBudget(budget, ins) \in Nat
  <2>1. FixedTotal(ins) \in Nat
    BY KindsPartition DEF Posed
  <2>q. QED
    BY <2>1 DEF Posed, PercentageBudget
<1>2. ASSUME NEW i \in DOMAIN ins
      PROVE  Exact(budget, ins, i) \in Nat
  <2>1. ins[i].value \in Nat
    BY DEF Posed, Instructions
  <2>q. QED
    BY <1>1, <2>1 DEF Exact
<1>q. QED
  BY <1>1, <1>2, Division DEF Floor, Remainder

(* There is a leftover unit for each who has a remainder, at most: all     *)
(* remainders together make the leftover and less than one unit.           *)
Waiting(budget, ins) == {i \in Percentages(ins) : Remainder(budget, ins, i) > 0}

LEMMA LeftoverIsShort ==
  ASSUME NEW budget, NEW ins, Posed(budget, ins)
  PROVE  /\ Leftover(budget, ins) \in Nat
         /\ PercentageTarget(budget, ins) \in Nat
         /\ Leftover(budget, ins) <= Cardinality(Waiting(budget, ins))
         /\ Leftover(budget, ins) <= Cardinality(Percentages(ins))
         /\ Cardinality(Waiting(budget, ins)) \in Nat
         /\ Total(FloorsOf(budget, ins), Percentages(ins)) \in Nat
         /\ PercentageTarget(budget, ins)
              = Total(FloorsOf(budget, ins), Percentages(ins)) + Leftover(budget, ins)
<1> DEFINE P == Percentages(ins)
           W == Waiting(budget, ins)
           B == PercentageBudget(budget, ins)
           V == Total(ValuesOf(ins), P)
           E == Total(ExactsOf(budget, ins), P)
           F == Total(FloorsOf(budget, ins), P)
           R == Total(RemaindersOf(budget, ins), P)
           fulls == [i \in DOMAIN ins |-> FullShare * Floor(budget, ins, i)]
           ones  == [i \in DOMAIN ins |-> IF i \in W THEN 1 ELSE 0]
           tops  == [i \in DOMAIN ins |-> FullShare * ones[i]]
<1>1. P \in SUBSET DOMAIN ins /\ IsFiniteSet(P) /\ W \in SUBSET P
  BY KindsPartition DEF Posed, Waiting
<1>2. B \in Nat /\ FullShare = 10000
  BY SharesDivide DEF FullShare
<1>3. \A i \in P : /\ ValuesOf(ins)[i] \in Nat
                   /\ ExactsOf(budget, ins)[i] = B * ValuesOf(ins)[i]
                   /\ ExactsOf(budget, ins)[i] \in Nat
  BY <1>1, SharesDivide DEF ValuesOf, ExactsOf, Exact, Posed, Instructions
<1>4. \A i \in P :
        /\ FloorsOf(budget, ins)[i] \in Nat
        /\ RemaindersOf(budget, ins)[i] \in Nat /\ fulls[i] \in Nat
        /\ fulls[i] = FullShare * FloorsOf(budget, ins)[i]
        /\ ExactsOf(budget, ins)[i] = fulls[i] + RemaindersOf(budget, ins)[i]
  BY <1>1, <1>2, SharesDivide DEF FloorsOf, RemaindersOf, ExactsOf
<1>5. \A i \in P : /\ ones[i] \in {0, 1} /\ tops[i] \in Nat /\ tops[i] = FullShare * ones[i]
                   /\ RemaindersOf(budget, ins)[i] <= tops[i]
                   /\ ones[i] = 1 <=> i \in W
  <2>1. \A i \in P : /\ Remainder(budget, ins, i) \in Nat
                     /\ Remainder(budget, ins, i) < FullShare
                     /\ i \in W <=> Remainder(budget, ins, i) > 0
    BY <1>1, SharesDivide DEF Waiting
  <2>q. QED
    BY <1>1, <1>2, <2>1 DEF RemaindersOf
<1>6. V \in Nat /\ F \in Nat /\ R \in Nat
  BY <1>1, <1>3, <1>4, TotalNat
<1>7. E = B * V
  BY <1>1, <1>2, <1>3, TotalTimes DEF Numbers
<1>8. E = FullShare * F + R
  <2>1. Total(fulls, P) = FullShare * F
    <3> HIDE DEF fulls
    <3>q. QED
      BY <1>1, <1>2, <1>4, TotalTimes DEF Numbers
  <2>2. E = Total(fulls, P) + R
    <3> HIDE DEF fulls
    <3>q. QED
      BY <1>1, <1>4, TotalPlus DEF Numbers
  <2>q. QED
    BY <2>1, <2>2
<1>9. R <= FullShare * Cardinality(W)
  <2>1. {i \in P : ones[i] = 1} = W
    BY <1>1, <1>5
  <2> HIDE DEF ones, tops
  <2>2. Total(ones, P) = Cardinality(W)
    BY <1>1, <1>5, <2>1, TotalCounts
  <2>3. Total(tops, P) = FullShare * Total(ones, P)
    BY <1>1, <1>2, <1>5, TotalTimes DEF Numbers
  <2>4. R <= Total(tops, P)
    <3> HIDE DEF P, fulls
    <3>1. Numbers(RemaindersOf(budget, ins), P)
      BY <1>4 DEF Numbers
    <3>2. Numbers(tops, P)
      BY <1>5 DEF Numbers
    <3>3. \A i \in P : RemaindersOf(budget, ins)[i] <= tops[i]
      BY <1>5
    <3>q. QED
      BY <1>1, <3>1, <3>2, <3>3, TotalAtMost
  <2>q. QED
    BY <2>2, <2>3, <2>4
<1>10. /\ Cardinality(W) \in Nat /\ Cardinality(P) \in Nat
       /\ Cardinality(W) <= Cardinality(P)
  <2>1. IsFiniteSet(W) /\ Cardinality(W) <= Cardinality(P)
    BY <1>1, FS_Subset
  <2>q. QED
    BY <1>1, <2>1, FS_CardinalityType
<1>11. /\ PercentageTarget(budget, ins) = (B * V) \div FullShare
       /\ Leftover(budget, ins) = PercentageTarget(budget, ins) - F
  BY <1>1, KindsPartition, FloorSumIs DEF PercentageTarget, Leftover, FloorSum, Posed
<1> HIDE DEF P, W, B, V, E, F, R
<1>12. PICK e \in Nat, f \in Nat, r \in Nat, m \in Nat, n \in Nat :
         e = B * V /\ f = F /\ r = R /\ m = Cardinality(W) /\ n = Cardinality(P)
  BY <1>2, <1>6, <1>10
<1>13. e = 10000 * f + r /\ r <= 10000 * m /\ m <= n
  BY <1>2, <1>7, <1>8, <1>9, <1>10, <1>12
<1>14. PICK t \in Nat : t = e \div 10000 /\ 10000 * t <= e /\ e < 10000 * t + 10000
  OBVIOUS
<1>15. PercentageTarget(budget, ins) = t /\ Leftover(budget, ins) = t - f
  BY <1>2, <1>11, <1>12, <1>14
<1>16. t - f \in Nat /\ t - f <= m /\ t - f <= n
  BY <1>13, <1>14
<1>17. t = f + (t - f)
  OBVIOUS
<1>q. QED
  BY <1>12, <1>15, <1>16, <1>17 DEF P, W, F

-----------------------------------------------------------------------------
(* No unit is lost                                                         *)

Served(budget, ins) == {i \in Percentages(ins) : GetsLeftoverUnit(budget, ins, i)}

(* A share without, and only, its leftover unit.                           *)
BasesOf(budget, ins) ==
  [i \in DOMAIN ins |-> IF ins[i].kind = "FIXED" THEN ins[i].value ELSE Floor(budget, ins, i)]
UnitsOf(budget, ins) == [i \in DOMAIN ins |-> IF i \in Served(budget, ins) THEN 1 ELSE 0]

LEMMA SharesAreBasesAndUnits ==
  ASSUME NEW budget, NEW ins, Posed(budget, ins)
  PROVE  \A i \in DOMAIN ins :
           /\ BasesOf(budget, ins)[i] \in Nat /\ UnitsOf(budget, ins)[i] \in {0, 1}
           /\ SharesOf(budget, ins)[i] = BasesOf(budget, ins)[i] + UnitsOf(budget, ins)[i]
           /\ SharesOf(budget, ins)[i] \in Nat
<1> SUFFICES ASSUME NEW i \in DOMAIN ins
             PROVE  /\ BasesOf(budget, ins)[i] \in Nat /\ UnitsOf(budget, ins)[i] \in {0, 1}
                    /\ SharesOf(budget, ins)[i]
                         = BasesOf(budget, ins)[i] + UnitsOf(budget, ins)[i]
                    /\ SharesOf(budget, ins)[i] \in Nat
  OBVIOUS
<1>1. /\ Floor(budget, ins, i) \in Nat /\ ins[i].value \in Nat
      /\ ins[i].kind \in {"FIXED", "PERCENTAGE"}
  BY SharesDivide DEF Posed, Instructions
<1>2. CASE ins[i].kind = "FIXED"
  <2>1. i \notin Served(budget, ins)
    BY <1>2 DEF Served, Percentages
  <2>q. QED
    BY <1>1, <1>2, <2>1 DEF BasesOf, UnitsOf, SharesOf, Share
<1>3. CASE ins[i].kind = "PERCENTAGE"
  <2>1. i \in Served(budget, ins) <=> GetsLeftoverUnit(budget, ins, i)
    BY <1>3 DEF Served, Percentages
  <2>q. QED
    BY <1>1, <1>3, <2>1 DEF BasesOf, UnitsOf, SharesOf, Share
<1>q. QED
  BY <1>1, <1>2, <1>3

(* Who is served is who is among the first, as many as there are units.    *)
LEMMA ServedAreFirst ==
  ASSUME NEW budget, NEW ins, Posed(budget, ins)
  PROVE  LET a == RemaindersOf(budget, ins)
             b == ReservesOf(ins)
             P == Percentages(ins)
         IN  /\ Ranked(a, b, P)
             /\ \A i \in P : i \in Served(budget, ins) <=> Rank(a, b, P, i) < Leftover(budget, ins)
<1> DEFINE a == RemaindersOf(budget, ins)
           b == ReservesOf(ins)
           P == Percentages(ins)
<1>1. P \in SUBSET DOMAIN ins /\ IsFiniteSet(P)
  BY KindsPartition DEF Posed
<1>2. \A i \in P : /\ i \in Int /\ a[i] = Remainder(budget, ins, i) /\ b[i] = ins[i].reserve
                   /\ a[i] \in Int /\ b[i] \in Int
  BY <1>1, SharesDivide DEF RemaindersOf, ReservesOf, Posed, Instructions
<1>3. \A i, j \in P : ServedBefore(budget, ins, j, i) <=> Before(a, b, j, i)
  BY <1>2 DEF ServedBefore, Before
<1>4. \A i \in P : {j \in P : ServedBefore(budget, ins, j, i)} = Earlier(a, b, P, i)
  BY <1>3 DEF Earlier
<1>5. \A i \in P : GetsLeftoverUnit(budget, ins, i) <=> Rank(a, b, P, i) < Leftover(budget, ins)
  BY <1>4 DEF GetsLeftoverUnit, Rank
<1>q. QED
  BY <1>1, <1>2, <1>5 DEF Ranked, Served

(* So every leftover unit is given, and given once.                        *)
LEMMA EveryUnitIsGiven ==
  ASSUME NEW budget, NEW ins, Posed(budget, ins)
  PROVE  Cardinality(Served(budget, ins)) = Leftover(budget, ins)
<1> DEFINE a == RemaindersOf(budget, ins)
           b == ReservesOf(ins)
           P == Percentages(ins)
<1>1. /\ Ranked(a, b, P)
      /\ \A i \in P : i \in Served(budget, ins) <=> Rank(a, b, P, i) < Leftover(budget, ins)
  BY ServedAreFirst
<1>2. Served(budget, ins) = {i \in P : Rank(a, b, P, i) < Leftover(budget, ins)}
  BY <1>1 DEF Served
<1>3. Leftover(budget, ins) \in Nat /\ Leftover(budget, ins) <= Cardinality(P)
  BY LeftoverIsShort
<1> HIDE DEF a, b, P
<1>q. QED
  BY <1>1, <1>2, <1>3, FirstOnes

(* What is given is the fixed amounts and the percentages' part.           *)
LEMMA SharesTotal ==
  ASSUME NEW budget, NEW ins, Posed(budget, ins)
  PROVE  Total(SharesOf(budget, ins), DOMAIN ins)
           = FixedTotal(ins) + PercentageTarget(budget, ins)
<1> DEFINE I == DOMAIN ins
           P == Percentages(ins)
           Q == FixedOnes(ins)
           s == SharesOf(budget, ins)
           b == BasesOf(budget, ins)
           u == UnitsOf(budget, ins)
<1>1. /\ IsFiniteSet(I) /\ IsFiniteSet(P) /\ IsFiniteSet(Q)
      /\ P \in SUBSET I /\ Q \in SUBSET I /\ Q \cap P = {} /\ Q \cup P = I
  BY KindsPartition DEF Posed, Instructions
<1>2. \A i \in I : /\ b[i] \in Nat /\ u[i] \in {0, 1} /\ s[i] = b[i] + u[i]
  BY SharesAreBasesAndUnits
<1>3. Total(u, I) = Leftover(budget, ins)
  <2>1. {i \in I : u[i] = 1} = Served(budget, ins)
    BY <1>1 DEF UnitsOf, Served
  <2> HIDE DEF u
  <2>2. Total(u, I) = Cardinality({i \in I : u[i] = 1})
    BY <1>1, <1>2, TotalCounts
  <2>q. QED
    BY <2>1, <2>2, EveryUnitIsGiven
<1>4. Total(b, Q) = FixedTotal(ins)
  <2>1. \A i \in Q : b[i] = ValuesOf(ins)[i]
    BY <1>1 DEF BasesOf, ValuesOf, FixedOnes
  <2>2. Numbers(ValuesOf(ins), Q)
    BY <1>1, <1>2, <2>1 DEF Numbers
  <2> HIDE DEF b, Q
  <2>3. Total(b, Q) = Total(ValuesOf(ins), Q)
    BY <1>1, <2>1, <2>2, TotalSame
  <2>q. QED
    BY <2>3, KindsPartition DEF Posed, Q
<1>5. Total(b, P) = Total(FloorsOf(budget, ins), P)
  <2>1. \A i \in P : b[i] = FloorsOf(budget, ins)[i]
    BY <1>1 DEF BasesOf, FloorsOf, Percentages
  <2>2. Numbers(FloorsOf(budget, ins), P)
    BY <1>1, <1>2, <2>1 DEF Numbers
  <2> HIDE DEF b, P
  <2>q. QED
    BY <1>1, <2>1, <2>2, TotalSame
<1>6. Numbers(b, Q \cup P) /\ Numbers(b, I) /\ Numbers(u, I)
  BY <1>1, <1>2 DEF Numbers
<1> HIDE DEF I, P, Q, s, b, u
<1>7. Total(b, I) = Total(b, Q) + Total(b, P)
  BY <1>1, <1>6, TotalUnion
<1>8. Total(s, I) = Total(b, I) + Total(u, I)
  BY <1>1, <1>2, <1>6, TotalPlus
<1>9. /\ FixedTotal(ins) \in Nat /\ Leftover(budget, ins) \in Nat
      /\ Total(FloorsOf(budget, ins), P) \in Nat
      /\ PercentageTarget(budget, ins)
           = Total(FloorsOf(budget, ins), P) + Leftover(budget, ins)
  BY KindsPartition, LeftoverIsShort DEF Posed, P
<1>10. PICK f \in Nat, l \in Nat, t \in Nat :
         f = FixedTotal(ins) /\ l = Leftover(budget, ins)
           /\ t = Total(FloorsOf(budget, ins), P)
  BY <1>9
<1>11. Total(s, I) = (f + t) + l /\ PercentageTarget(budget, ins) = t + l
  BY <1>3, <1>4, <1>5, <1>7, <1>8, <1>9, <1>10
<1>12. (f + t) + l = f + (t + l)
  OBVIOUS
<1>q. QED
  BY <1>10, <1>11, <1>12 DEF s, I

(* What a reserve receives is a sum of shares.                             *)
LEMMA ResolveIs ==
  ASSUME NEW budget, NEW ins, Instructions(ins)
  PROVE  /\ Resolve(budget, ins) =
              [r \in Mentioned(ins) |->
                 Total(SharesOf(budget, ins), {i \in DOMAIN ins : ReservesOf(ins)[i] = r})]
         /\ IsFiniteSet(Mentioned(ins))
         /\ \A i \in DOMAIN ins : ReservesOf(ins)[i] \in Mentioned(ins)
<1>1. Resolve(budget, ins) =
        [r \in Mentioned(ins) |-> ShareSum(budget, ins, {i \in DOMAIN ins : ins[i].reserve = r})]
  BY DEF Resolve, ShareSum
<1>2. ASSUME NEW r
      PROVE  ShareSum(budget, ins, {i \in DOMAIN ins : ins[i].reserve = r})
               = Total(SharesOf(budget, ins), {i \in DOMAIN ins : ReservesOf(ins)[i] = r})
  <2>1. PICK S \in SUBSET DOMAIN ins : S = {i \in DOMAIN ins : ins[i].reserve = r}
    OBVIOUS
  <2>2. S = {i \in DOMAIN ins : ReservesOf(ins)[i] = r}
    BY <2>1 DEF ReservesOf
  <2>3. IsFiniteSet(S)
    BY FS_Subset DEF Instructions
  <2>4. ShareSum(budget, ins, S) = Total(SharesOf(budget, ins), S)
    BY <2>3, ShareSumIs
  <2>q. QED
    BY <2>1, <2>2, <2>4
<1>3. IsFiniteSet(Mentioned(ins)) /\ \A i \in DOMAIN ins : ReservesOf(ins)[i] \in Mentioned(ins)
  <2>1. ReservesOf(ins) \in Surjection(DOMAIN ins, Mentioned(ins))
    BY DEF Surjection, ReservesOf, Mentioned
  <2>2. \A i \in DOMAIN ins : ReservesOf(ins)[i] \in Mentioned(ins)
    BY DEF ReservesOf, Mentioned
  <2>q. QED
    BY <2>1, <2>2, FS_Surjection DEF Instructions
<1>q. QED
  BY <1>1, <1>2, <1>3

LEMMA ResolvedTotal ==
  ASSUME NEW budget, NEW ins, Posed(budget, ins)
  PROVE  AmountTotal(Resolve(budget, ins)) = FixedTotal(ins) + PercentageTarget(budget, ins)
<1>1. PICK a, M, w, f, S : /\ a = Resolve(budget, ins) /\ M = Mentioned(ins)
                           /\ w = SharesOf(budget, ins) /\ f = ReservesOf(ins)
                           /\ S = DOMAIN ins
  OBVIOUS
<1>2. /\ a = [r \in M |-> Total(w, {x \in S : f[x] = r})]
      /\ IsFiniteSet(M) /\ \A x \in S : f[x] \in M
  BY <1>1, ResolveIs DEF Posed
<1>3. DOMAIN a = M /\ \A r \in M : a[r] = Total(w, {x \in S : f[x] = r})
  BY <1>2
<1>4. IsFiniteSet(S) /\ Numbers(w, S)
  BY <1>1, SharesAreBasesAndUnits DEF Numbers, Posed, Instructions
<1>5. Total(a, M) = Total(w, S)
  BY <1>2, <1>3, <1>4, TotalOfTotals
<1>q. QED
  BY <1>1, <1>3, <1>5, AmountTotalIs, SharesTotal

(* No unit is lost or invented by rounding, and the budget is never        *)
(* exceeded.                                                               *)
LEMMA ResolveLosesNoUnit ==
  ASSUME NEW budget, NEW ins, Posed(budget, ins)
  PROVE  LET total == AmountTotal(Resolve(budget, ins))
         IN  /\ total <= budget
             /\ FullShare * (total - FixedTotal(ins))
                  <= (budget - FixedTotal(ins)) * PercentageTotal(ins)
             /\ FullShare * (total - FixedTotal(ins) + 1)
                  > (budget - FixedTotal(ins)) * PercentageTotal(ins)
<1>1. PICK f \in Nat, v \in Nat, b \in Nat :
        f = FixedTotal(ins) /\ v = PercentageTotal(ins) /\ b = budget - f
  BY KindsPartition, SharesDivide DEF Posed, PercentageBudget
<1>2. PICK t : t = PercentageTarget(budget, ins)
  OBVIOUS
<1>3. b * v \in Nat /\ t = (b * v) \div FullShare /\ FullShare = 10000
  BY <1>1, <1>2 DEF PercentageTarget, PercentageBudget, FullShare
<1>4. t \in Nat /\ 10000 * t <= b * v /\ b * v < 10000 * (t + 1)
  <2>1. PICK e \in Nat : e = b * v
    BY <1>3
  <2>2. e \div 10000 \in Nat /\ 10000 * (e \div 10000) <= e /\ e < 10000 * ((e \div 10000) + 1)
    OBVIOUS
  <2>q. QED
    BY <1>3, <2>1, <2>2
<1>5. v <= 10000
  BY <1>1, <1>3 DEF Posed
<1>6. b * v <= b * 10000
  BY <1>5
<1>7. t <= b
  BY <1>3, <1>4, <1>6
<1>8. budget \in Int /\ budget = f + b
  BY <1>1 DEF Posed
<1>9. AmountTotal(Resolve(budget, ins)) = f + t
  BY <1>1, <1>2, ResolvedTotal
<1>10. f + t <= budget /\ (f + t) - f = t /\ budget - f = b
  BY <1>4, <1>7, <1>8
<1>q. QED
  BY <1>1, <1>3, <1>4, <1>9, <1>10

-----------------------------------------------------------------------------
(* The largest remainders are served                                       *)

(* Who has no remainder gets no unit: those who have one come first, and   *)
(* are enough for all.                                                     *)
LEMMA ServedHaveRemainders ==
  ASSUME NEW budget, NEW ins, Posed(budget, ins)
  PROVE  \A i \in Served(budget, ins) : Remainder(budget, ins, i) > 0
<1> SUFFICES ASSUME NEW i \in Served(budget, ins), ~(Remainder(budget, ins, i) > 0)
             PROVE  FALSE
  OBVIOUS
<1> DEFINE P == Percentages(ins)
           W == Waiting(budget, ins)
           E == {j \in P : ServedBefore(budget, ins, j, i)}
<1>1. P \in SUBSET DOMAIN ins /\ IsFiniteSet(P) /\ i \in P
  BY KindsPartition DEF Posed, Served
<1>2. \A j \in P : Remainder(budget, ins, j) \in Nat
  BY <1>1, SharesDivide
<1>3. \A j \in W : j \in P /\ ServedBefore(budget, ins, j, i)
  BY <1>1, <1>2 DEF Waiting, ServedBefore
<1>4. W \in SUBSET E /\ E \in SUBSET P
  BY <1>3
<1>5. Cardinality(E) < Leftover(budget, ins)
  BY DEF Served, GetsLeftoverUnit
<1> HIDE DEF E, W, P
<1>6. IsFiniteSet(E)
  BY <1>1, <1>4, FS_Subset
<1>7. Cardinality(W) <= Cardinality(E) /\ Cardinality(E) \in Nat
  BY <1>4, <1>6, FS_Subset, FS_CardinalityType
<1>8. /\ Leftover(budget, ins) \in Nat /\ Cardinality(W) \in Nat
      /\ Leftover(budget, ins) <= Cardinality(W)
  BY LeftoverIsShort DEF W
<1>q. QED
  BY <1>5, <1>7, <1>8

(* A share is the exact one rounded down or up, up for those served.       *)
LEMMA SharesRound ==
  ASSUME NEW budget, NEW ins, Posed(budget, ins), NEW i \in Percentages(ins)
  PROVE  /\ FullShare * Share(budget, ins, i) < Exact(budget, ins, i) + FullShare
         /\ FullShare * Share(budget, ins, i) > Exact(budget, ins, i) - FullShare
         /\ FullShare * Share(budget, ins, i) > Exact(budget, ins, i)
              <=> i \in Served(budget, ins)
<1>1. i \in DOMAIN ins /\ ins[i].kind # "FIXED"
  BY DEF Percentages
<1>2. PICK e \in Nat, f \in Nat, m \in Nat :
        /\ e = Exact(budget, ins, i) /\ f = Floor(budget, ins, i)
        /\ m = Remainder(budget, ins, i) /\ m < 10000 /\ e = 10000 * f + m
  BY <1>1, SharesDivide DEF FullShare
<1>3. Share(budget, ins, i) = f + (IF i \in Served(budget, ins) THEN 1 ELSE 0)
  BY <1>1, <1>2 DEF Share, Served
<1>4. CASE i \in Served(budget, ins)
  <2>1. m > 0
    BY <1>2, <1>4, ServedHaveRemainders
  <2>2. 10000 * (f + 1) < e + 10000 /\ 10000 * (f + 1) > e
    BY <1>2, <2>1
  <2>q. QED
    BY <1>2, <1>3, <1>4, <2>2 DEF FullShare
<1>5. CASE i \notin Served(budget, ins)
  <2>1. 10000 * f <= e /\ 10000 * f > e - 10000
    BY <1>2
  <2>q. QED
    BY <1>2, <1>3, <1>5, <2>1 DEF FullShare
<1>q. QED
  BY <1>4, <1>5

(* The rounding policy of the code.                                        *)
LEMMA ResolveServesRemainders ==
  ASSUME NEW budget, NEW ins, Posed(budget, ins),
         NEW i \in Percentages(ins), NEW j \in Percentages(ins)
  PROVE  LET Up(n)       == FullShare * Share(budget, ins, n) > Exact(budget, ins, n)
             Fraction(n) == Exact(budget, ins, n) % FullShare
         IN  /\ Share(budget, ins, i) * FullShare < Exact(budget, ins, i) + FullShare
             /\ Share(budget, ins, i) * FullShare > Exact(budget, ins, i) - FullShare
             /\ Up(i) /\ ~Up(j) =>
                  \/ Fraction(i) > Fraction(j)
                  \/ Fraction(i) = Fraction(j) /\ ins[i].reserve <= ins[j].reserve
<1> DEFINE a == RemaindersOf(budget, ins)
           b == ReservesOf(ins)
           P == Percentages(ins)
<1>1. Share(budget, ins, i) \in Nat
  <2>1. i \in DOMAIN ins
    BY DEF Percentages
  <2>2. SharesOf(budget, ins)[i] = Share(budget, ins, i)
    BY <2>1 DEF SharesOf
  <2>q. QED
    BY <2>1, <2>2, SharesAreBasesAndUnits
<1>2. Share(budget, ins, i) * FullShare = FullShare * Share(budget, ins, i)
  BY <1>1 DEF FullShare
<1>3. ASSUME i \in Served(budget, ins), j \notin Served(budget, ins)
      PROVE  \/ Remainder(budget, ins, i) > Remainder(budget, ins, j)
             \/ /\ Remainder(budget, ins, i) = Remainder(budget, ins, j)
                /\ ins[i].reserve <= ins[j].reserve
  <2>1. Ranked(a, b, P)
    BY ServedAreFirst
  <2>2. Rank(a, b, P, i) < Leftover(budget, ins) /\ ~(Rank(a, b, P, j) < Leftover(budget, ins))
    BY <1>3, ServedAreFirst
  <2>3. a[i] = Remainder(budget, ins, i) /\ b[i] = ins[i].reserve
        /\ a[j] = Remainder(budget, ins, j) /\ b[j] = ins[j].reserve
    BY DEF Percentages, RemaindersOf, ReservesOf
  <2> HIDE DEF a, b, P
  <2>4. Rank(a, b, P, i) \in Nat /\ Rank(a, b, P, j) \in Nat /\ Leftover(budget, ins) \in Nat
    BY <2>1, RankBounds, LeftoverIsShort DEF P
  <2>5. Rank(a, b, P, i) < Rank(a, b, P, j)
    BY <2>2, <2>4
  <2>6. Before(a, b, i, j)
    BY <2>1, <2>5, RankOrders DEF P
  <2>7. b[i] \in Int /\ b[j] \in Int
    BY <2>1 DEF Ranked, P
  <2>q. QED
    BY <2>3, <2>6, <2>7 DEF Before
<1>q. QED
  BY <1>2, <1>3, SharesRound DEF Remainder

-----------------------------------------------------------------------------
(* The order of the instructions does not matter                           *)

Permuted(ins, p) == [i \in DOMAIN ins |-> ins[p[i]]]

(* A sum over members under their names in another order.                  *)
LEMMA TotalReordered ==
  ASSUME NEW S, IsFiniteSet(S), NEW p \in Bijection(S, S), NEW v, NEW w, Numbers(w, S),
         \A i \in S : v[i] = w[p[i]], NEW V \in SUBSET S
  PROVE  Total(v, {i \in S : p[i] \in V}) = Total(w, V)
<1> DEFINE U == {i \in S : p[i] \in V}
<1>1. /\ p \in [S -> S] /\ \A x, y \in S : p[x] = p[y] => x = y
      /\ \A s \in S : \E x \in S : p[x] = s
  BY DEF Bijection, Injection, Surjection, IsInjective
<1>2. {p[i] : i \in U} = V
  BY <1>1
<1>3. /\ \A x, y \in U : p[x] = p[y] => x = y
      /\ \A x \in U : v[x] = w[p[x]] /\ v[x] \in Int
  BY <1>1 DEF Numbers
<1>4. IsFiniteSet(U)
  BY FS_Subset
<1> HIDE DEF U
<1>5. Total(v, U) = Total(w, {p[i] : i \in U})
  BY <1>3, <1>4, TotalRenamed
<1>q. QED
  BY <1>2, <1>5 DEF U

(* What another order leaves as it is.                                     *)
LEMMA PermutedTotals ==
  ASSUME NEW budget, NEW ins, Posed(budget, ins), NEW p \in Bijection(DOMAIN ins, DOMAIN ins),
         NEW new, new = Permuted(ins, p)
  PROVE  /\ Posed(budget, new) /\ DOMAIN new = DOMAIN ins
         /\ FixedOnes(new) = {i \in DOMAIN ins : p[i] \in FixedOnes(ins)}
         /\ Percentages(new) = {i \in DOMAIN ins : p[i] \in Percentages(ins)}
         /\ FixedTotal(new) = FixedTotal(ins) /\ PercentageTotal(new) = PercentageTotal(ins)
         /\ \A i \in DOMAIN ins : p[i] \in DOMAIN ins /\ new[i] = ins[p[i]]
<1> DEFINE S == DOMAIN ins
<1>1. \A i \in S : p[i] \in S
  BY DEF Bijection, Injection
<1>2. DOMAIN new = S /\ \A i \in S : new[i] = ins[p[i]]
  BY DEF Permuted
<1>3. IsFiniteSet(S) /\ Instructions(new)
  BY <1>1, <1>2 DEF Posed, Instructions
<1>4. /\ FixedOnes(new) = {i \in S : p[i] \in FixedOnes(ins)}
      /\ Percentages(new) = {i \in S : p[i] \in Percentages(ins)}
  BY <1>1, <1>2 DEF FixedOnes, Percentages
<1>5. /\ \A i \in S : ValuesOf(new)[i] = ValuesOf(ins)[p[i]]
      /\ Numbers(ValuesOf(ins), S)
  BY <1>1, <1>2 DEF ValuesOf, Numbers, Posed, Instructions
<1>6. FixedOnes(ins) \in SUBSET S /\ Percentages(ins) \in SUBSET S
  BY DEF FixedOnes, Percentages
<1> HIDE DEF S
<1>7. Total(ValuesOf(new), FixedOnes(new)) = Total(ValuesOf(ins), FixedOnes(ins))
  BY <1>3, <1>4, <1>5, <1>6, TotalReordered DEF S
<1>8. Total(ValuesOf(new), Percentages(new)) = Total(ValuesOf(ins), Percentages(ins))
  BY <1>3, <1>4, <1>5, <1>6, TotalReordered DEF S
<1>9. FixedTotal(new) = FixedTotal(ins) /\ PercentageTotal(new) = PercentageTotal(ins)
  BY <1>3, <1>7, <1>8, KindsPartition DEF Posed
<1>10. Posed(budget, new)
  BY <1>3, <1>9 DEF Posed
<1>q. QED
  BY <1>1, <1>2, <1>4, <1>9, <1>10 DEF S

LEMMA PermutedShares ==
  ASSUME NEW budget, NEW ins, Posed(budget, ins), NEW p \in Bijection(DOMAIN ins, DOMAIN ins),
         NEW new, new = Permuted(ins, p)
  PROVE  /\ \A i \in DOMAIN ins :
              /\ RemaindersOf(budget, new)[i] = RemaindersOf(budget, ins)[p[i]]
              /\ FloorsOf(budget, new)[i] = FloorsOf(budget, ins)[p[i]]
              /\ BasesOf(budget, new)[i] = BasesOf(budget, ins)[p[i]]
              /\ ReservesOf(new)[i] = ReservesOf(ins)[p[i]]
         /\ Leftover(budget, new) = Leftover(budget, ins)
<1>1. /\ DOMAIN new = DOMAIN ins
      /\ \A i \in DOMAIN ins : p[i] \in DOMAIN ins /\ new[i] = ins[p[i]]
      /\ PercentageBudget(budget, new) = PercentageBudget(budget, ins)
      /\ PercentageTarget(budget, new) = PercentageTarget(budget, ins)
  BY PermutedTotals DEF PercentageBudget, PercentageTarget
<1>2. \A i \in DOMAIN ins : /\ Floor(budget, new, i) = Floor(budget, ins, p[i])
                            /\ Remainder(budget, new, i) = Remainder(budget, ins, p[i])
  BY <1>1 DEF Floor, Remainder, Exact
<1>3. \A i \in DOMAIN ins :
        /\ RemaindersOf(budget, new)[i] = RemaindersOf(budget, ins)[p[i]]
        /\ FloorsOf(budget, new)[i] = FloorsOf(budget, ins)[p[i]]
        /\ BasesOf(budget, new)[i] = BasesOf(budget, ins)[p[i]]
        /\ ReservesOf(new)[i] = ReservesOf(ins)[p[i]]
  BY <1>1, <1>2 DEF RemaindersOf, FloorsOf, BasesOf, ReservesOf
<1>4. Leftover(budget, new) = Leftover(budget, ins)
  <2>1. /\ Leftover(budget, new) =
             PercentageTarget(budget, new) - FloorSum(budget, new, Percentages(new))
        /\ Leftover(budget, ins) =
             PercentageTarget(budget, ins) - FloorSum(budget, ins, Percentages(ins))
    BY DEF Leftover, FloorSum
  <2>2. /\ Percentages(new) = {i \in DOMAIN ins : p[i] \in Percentages(ins)}
        /\ Percentages(ins) \in SUBSET DOMAIN ins
        /\ Percentages(new) \in SUBSET DOMAIN new
        /\ IsFiniteSet(DOMAIN ins) /\ IsFiniteSet(Percentages(ins))
        /\ IsFiniteSet(Percentages(new))
    <3>1. /\ Percentages(new) = {i \in DOMAIN ins : p[i] \in Percentages(ins)}
          /\ Instructions(new) /\ Instructions(ins)
      BY PermutedTotals DEF Posed
    <3>2. /\ Percentages(ins) \in SUBSET DOMAIN ins /\ IsFiniteSet(Percentages(ins))
          /\ Percentages(new) \in SUBSET DOMAIN new /\ IsFiniteSet(Percentages(new))
      BY <3>1, KindsPartition
    <3>q. QED
      BY <3>1, <3>2 DEF Instructions
  <2>3. Numbers(FloorsOf(budget, ins), DOMAIN ins)
    BY SharesDivide DEF FloorsOf, Numbers
  <2>4. Total(FloorsOf(budget, new), Percentages(new))
          = Total(FloorsOf(budget, ins), Percentages(ins))
    BY <1>3, <2>2, <2>3, TotalReordered
  <2>5. /\ FloorSum(budget, new, Percentages(new))
             = Total(FloorsOf(budget, new), Percentages(new))
        /\ FloorSum(budget, ins, Percentages(ins))
             = Total(FloorsOf(budget, ins), Percentages(ins))
    BY <2>2, FloorSumIs
  <2>q. QED
    BY <1>1, <2>1, <2>4, <2>5
<1>q. QED
  BY <1>3, <1>4

(* A reserve gets equally many leftover units in another order.            *)
ServedFor(budget, ins, r) == {i \in Served(budget, ins) : ReservesOf(ins)[i] = r}

LEMMA ServedForIs ==
  ASSUME NEW budget, NEW ins, Posed(budget, ins), NEW r
  PROVE  ServedFor(budget, ins, r)
           = FirstWith(RemaindersOf(budget, ins), ReservesOf(ins), Percentages(ins),
                       Leftover(budget, ins), r)
<1>1. \A i \in Percentages(ins) :
        i \in Served(budget, ins)
          <=> Rank(RemaindersOf(budget, ins), ReservesOf(ins), Percentages(ins), i)
                < Leftover(budget, ins)
  BY ServedAreFirst
<1>2. Served(budget, ins) \in SUBSET Percentages(ins)
  BY DEF Served
<1>q. QED
  BY <1>1, <1>2 DEF ServedFor, FirstWith

LEMMA PermutedUnits ==
  ASSUME NEW budget, NEW ins, Posed(budget, ins), NEW p \in Bijection(DOMAIN ins, DOMAIN ins),
         NEW new, new = Permuted(ins, p), NEW r
  PROVE  Cardinality(ServedFor(budget, new, r)) = Cardinality(ServedFor(budget, ins, r))
<1> DEFINE q == [i \in Percentages(new) |-> p[i]]
<1>1. PICK a, b, S, c, d, T, n :
        /\ a = RemaindersOf(budget, ins) /\ b = ReservesOf(ins) /\ S = Percentages(ins)
        /\ c = RemaindersOf(budget, new) /\ d = ReservesOf(new) /\ T = Percentages(new)
        /\ n = Leftover(budget, ins)
  OBVIOUS
<1>2. Posed(budget, new) /\ T = {i \in DOMAIN ins : p[i] \in S} /\ S \in SUBSET DOMAIN ins
  BY <1>1, PermutedTotals DEF Percentages
<1>3. Ranked(a, b, S) /\ Ranked(c, d, T)
  BY <1>1, <1>2, ServedAreFirst
<1>4. \A i \in DOMAIN ins : c[i] = a[p[i]] /\ d[i] = b[p[i]]
  BY <1>1, PermutedShares
<1>5. q \in Bijection(T, S)
  <2>1. /\ p \in [DOMAIN ins -> DOMAIN ins]
        /\ \A x, y \in DOMAIN ins : p[x] = p[y] => x = y
        /\ \A s \in DOMAIN ins : \E x \in DOMAIN ins : p[x] = s
    BY DEF Bijection, Injection, Surjection, IsInjective
  <2>2. \A i \in T : q[i] = p[i] /\ i \in DOMAIN ins /\ p[i] \in S
    BY <1>1, <1>2
  <2>3. q \in [T -> S]
    BY <1>1, <2>2
  <2> HIDE DEF q
  <2>4. \A x, y \in T : q[x] = q[y] => x = y
    BY <2>1, <2>2
  <2>5. \A s \in S : \E x \in T : q[x] = s
    BY <1>2, <2>1, <2>2
  <2>q. QED
    BY <2>3, <2>4, <2>5 DEF Bijection, Injection, Surjection, IsInjective
<1>6. Reordered(a, b, S, c, d, T, q)
  <2>1. \A x \in T : q[x] = p[x] /\ x \in DOMAIN ins
    BY <1>1, <1>2
  <2> HIDE DEF q
  <2>q. QED
    BY <1>4, <1>5, <2>1 DEF Reordered
<1>7. Cardinality(FirstWith(c, d, T, n, r)) = Cardinality(FirstWith(a, b, S, n, r))
  <2> HIDE DEF q
  <2>q. QED
    BY <1>3, <1>6, EquallyManyServed
<1>8. ServedFor(budget, ins, r) = FirstWith(a, b, S, n, r)
  BY <1>1, ServedForIs
<1>9. ServedFor(budget, new, r) = FirstWith(c, d, T, n, r)
  <2>1. Leftover(budget, new) = n
    BY <1>1, PermutedShares
  <2>q. QED
    BY <1>1, <1>2, <2>1, ServedForIs
<1>q. QED
  BY <1>7, <1>8, <1>9

(* What a reserve receives is its bases and its leftover units.            *)
LEMMA ReserveReceives ==
  ASSUME NEW budget, NEW ins, Posed(budget, ins), NEW r, NEW S,
         S = {i \in DOMAIN ins : ReservesOf(ins)[i] = r}
  PROVE  Total(SharesOf(budget, ins), S)
           = Total(BasesOf(budget, ins), S) + Cardinality(ServedFor(budget, ins, r))
<1>1. IsFiniteSet(S) /\ S \in SUBSET DOMAIN ins
  BY FS_Subset DEF Posed, Instructions
<1>2. \A i \in S : /\ BasesOf(budget, ins)[i] \in Nat /\ UnitsOf(budget, ins)[i] \in {0, 1}
                   /\ SharesOf(budget, ins)[i] = BasesOf(budget, ins)[i] + UnitsOf(budget, ins)[i]
  BY <1>1, SharesAreBasesAndUnits
<1>3. {i \in S : UnitsOf(budget, ins)[i] = 1} = ServedFor(budget, ins, r)
  BY DEF UnitsOf, ServedFor, Served, Percentages
<1>4. Total(UnitsOf(budget, ins), S) = Cardinality(ServedFor(budget, ins, r))
  BY <1>1, <1>2, <1>3, TotalCounts
<1>5. Numbers(BasesOf(budget, ins), S) /\ Numbers(UnitsOf(budget, ins), S)
  BY <1>2 DEF Numbers
<1>6. Total(SharesOf(budget, ins), S)
        = Total(BasesOf(budget, ins), S) + Total(UnitsOf(budget, ins), S)
  BY <1>1, <1>2, <1>5, TotalPlus
<1>q. QED
  BY <1>4, <1>6

(* What is given to each reserve does not depend on the order.             *)
LEMMA ResolveIgnoresOrder ==
  ASSUME NEW budget, NEW ins, Posed(budget, ins), NEW p \in Bijection(DOMAIN ins, DOMAIN ins)
  PROVE  Resolve(budget, [i \in DOMAIN ins |-> ins[p[i]]]) = Resolve(budget, ins)
<1>1. PICK new : new = Permuted(ins, p)
  OBVIOUS
<1>2. Posed(budget, new) /\ DOMAIN new = DOMAIN ins
  BY <1>1, PermutedTotals
<1>3. Mentioned(new) = Mentioned(ins)
  <2>1. /\ \A i \in DOMAIN ins : p[i] \in DOMAIN ins
        /\ \A s \in DOMAIN ins : \E x \in DOMAIN ins : p[x] = s
    BY DEF Bijection, Injection, Surjection
  <2>2. \A i \in DOMAIN ins : new[i] = ins[p[i]]
    BY <1>1 DEF Permuted
  <2>3. ASSUME NEW r \in Mentioned(new) PROVE r \in Mentioned(ins)
    <3>1. PICK x \in DOMAIN new : r = new[x].reserve
      BY DEF Mentioned
    <3>2. p[x] \in DOMAIN ins /\ r = ins[p[x]].reserve
      BY <1>2, <2>1, <2>2, <3>1
    <3>q. QED
      BY <3>2 DEF Mentioned
  <2>4. ASSUME NEW r \in Mentioned(ins) PROVE r \in Mentioned(new)
    <3>1. PICK s \in DOMAIN ins : r = ins[s].reserve
      BY DEF Mentioned
    <3>2. PICK x \in DOMAIN ins : p[x] = s
      BY <2>1
    <3>3. r = new[x].reserve
      BY <2>2, <3>1, <3>2
    <3>q. QED
      BY <1>2, <3>3 DEF Mentioned
  <2>q. QED
    BY <2>3, <2>4
<1>4. ASSUME NEW r
      PROVE  Total(SharesOf(budget, new), {i \in DOMAIN new : ReservesOf(new)[i] = r})
               = Total(SharesOf(budget, ins), {i \in DOMAIN ins : ReservesOf(ins)[i] = r})
  <2>1. PICK V, U : /\ V = {i \in DOMAIN ins : ReservesOf(ins)[i] = r}
                    /\ U = {i \in DOMAIN new : ReservesOf(new)[i] = r}
    OBVIOUS
  <2>2. \A i \in DOMAIN ins : /\ p[i] \in DOMAIN ins
                              /\ ReservesOf(new)[i] = ReservesOf(ins)[p[i]]
                              /\ BasesOf(budget, new)[i] = BasesOf(budget, ins)[p[i]]
    BY <1>1, PermutedShares DEF Bijection, Injection
  <2>3. U = {i \in DOMAIN ins : p[i] \in V} /\ V \in SUBSET DOMAIN ins
    BY <1>2, <2>1, <2>2
  <2>4. Numbers(BasesOf(budget, ins), DOMAIN ins) /\ IsFiniteSet(DOMAIN ins)
    BY SharesAreBasesAndUnits DEF Numbers, Posed, Instructions
  <2>5. Total(BasesOf(budget, new), U) = Total(BasesOf(budget, ins), V)
    BY <2>2, <2>3, <2>4, TotalReordered
  <2>6. Cardinality(ServedFor(budget, new, r)) = Cardinality(ServedFor(budget, ins, r))
    BY <1>1, PermutedUnits
  <2>7. Total(SharesOf(budget, new), U)
          = Total(BasesOf(budget, new), U) + Cardinality(ServedFor(budget, new, r))
    BY <1>2, <2>1, ReserveReceives
  <2>8. Total(SharesOf(budget, ins), V)
          = Total(BasesOf(budget, ins), V) + Cardinality(ServedFor(budget, ins, r))
    BY <2>1, ReserveReceives
  <2>q. QED
    BY <2>1, <2>5, <2>6, <2>7, <2>8
<1>5. Resolve(budget, new) = Resolve(budget, ins)
  <2>1. Resolve(budget, ins) =
          [r \in Mentioned(ins) |->
             Total(SharesOf(budget, ins), {i \in DOMAIN ins : ReservesOf(ins)[i] = r})]
    BY ResolveIs DEF Posed
  <2>2. Resolve(budget, new) =
          [r \in Mentioned(new) |->
             Total(SharesOf(budget, new), {i \in DOMAIN new : ReservesOf(new)[i] = r})]
    BY <1>2, ResolveIs DEF Posed
  <2>q. QED
    BY <1>3, <1>4, <2>1, <2>2, Zenon
<1>q. QED
  BY <1>1, <1>5 DEF Permuted

=============================================================================
