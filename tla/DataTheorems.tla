---------------------------- MODULE DataTheorems ----------------------------
(***************************************************************************)
(* Facts about sequences and sums that several proofs need.                *)
(*                                                                         *)
(* Sums over finite sets: SumFunctionOnSet(f, S) adds f[x] for every x of  *)
(* S, in an order the definition leaves to CHOOSE.  The library's theorems *)
(* about recursive functions take operators as parameters, so the facts    *)
(* the models need are proved here, by looking at a smallest set for which *)
(* they fail.                                                              *)
(***************************************************************************)
EXTENDS Integers, Sequences, Functions, FiniteSetTheorems, WellFoundedInduction, TLAPS

LEMMA AppendFacts ==
    ASSUME NEW S, NEW s \in Seq(S), NEW x \in S
    PROVE  /\ Append(s, x) \in Seq(S) /\ Len(Append(s, x)) = Len(s) + 1
           /\ DOMAIN Append(s, x) = DOMAIN s \cup {Len(s) + 1}
           /\ \A i \in DOMAIN s : Append(s, x)[i] = s[i]
           /\ Append(s, x)[Len(s) + 1] = x
OBVIOUS

LEMMA ExceptFacts ==
    ASSUME NEW S, NEW s \in Seq(S), NEW i, NEW x, i \in DOMAIN s => x \in S
    PROVE  /\ [s EXCEPT ![i] = x] \in Seq(S) /\ Len([s EXCEPT ![i] = x]) = Len(s)
           /\ DOMAIN [s EXCEPT ![i] = x] = DOMAIN s
<1> DEFINE t == [s EXCEPT ![i] = x]
<1>1. Len(s) \in Nat /\ DOMAIN s = 1 .. Len(s) /\ s \in [1 .. Len(s) -> S]
  OBVIOUS
<1>2. t \in [1 .. Len(s) -> S]
  BY <1>1
<1> HIDE DEF t
<1>3. t \in Seq(S) /\ Len(t) = Len(s) /\ DOMAIN t = 1 .. Len(s)
  BY <1>1, <1>2
<1> QED
  BY <1>1, <1>3 DEF t

LEMMA ElementOf == ASSUME NEW S, NEW s \in Seq(S), NEW i \in DOMAIN s PROVE s[i] \in S
OBVIOUS

-----------------------------------------------------------------------------
First(s) == CHOOSE x \in s : TRUE

Remaining(s) == s \ {First(s)}

(* g sums f over each subset of S. *)
Sums(f, S, g) ==
    g = [s \in SUBSET S |-> IF s = {} THEN 0 ELSE f[First(s)] + g[Remaining(s)]]

(* A set of subsets of a finite set has a minimal element.                 *)
LEMMA MinimalSubset ==
    ASSUME NEW S, IsFiniteSet(S), NEW T \in SUBSET SUBSET S, T # {}
    PROVE  \E s \in T : \A t \in T : t \subseteq s => t = s
<1>1. IsWellFoundedOn(StrictSubsetOrdering(S), SUBSET S)
  BY FS_StrictSubsetOrderingWellFounded, FS_FiniteSubsetsOfFinite
<1>2. PICK s \in T : \A t \in T : ~ (<<t, s>> \in StrictSubsetOrdering(S))
  BY <1>1, WFMin
<1> QED
  BY <1>2 DEF StrictSubsetOrdering

LEMMA FirstIn == ASSUME NEW s, s # {} PROVE First(s) \in s
BY DEF First

LEMMA SumIs ==
    ASSUME NEW f, NEW S
    PROVE  SumFunctionOnSet(f, S) = (CHOOSE g : Sums(f, S, g))[S]
BY DEF SumFunctionOnSet, FoldFunctionOnSet, MapThenFoldSet, Sums, First, Remaining

(* What such a function gives for a set does not depend on the others.     *)
LEMMA SumsAgree ==
    ASSUME NEW f, NEW U, NEW V, NEW g, NEW h, Sums(f, U, g), Sums(f, V, h),
           NEW S, IsFiniteSet(S), S \subseteq U, S \subseteq V
    PROVE  g[S] = h[S]
<1> DEFINE Bad == { s \in SUBSET S : g[s] # h[s] }
<1>1. SUFFICES ASSUME Bad # {} PROVE FALSE
  OBVIOUS
<1>a. Bad \in SUBSET SUBSET S
  OBVIOUS
<1> HIDE DEF Bad
<1>2. PICK s \in Bad : \A t \in Bad : t \subseteq s => t = s
  BY <1>1, <1>a, MinimalSubset
<1> USE DEF Bad
<1>3. s # {}
  BY <1>2 DEF Sums
<1>4. Remaining(s) \subseteq s /\ Remaining(s) # s
  BY <1>3, FirstIn DEF Remaining
<1>5. g[Remaining(s)] = h[Remaining(s)]
  BY <1>2, <1>4
<1>6. g[s] = f[First(s)] + g[Remaining(s)] /\ h[s] = f[First(s)] + h[Remaining(s)]
  BY <1>2, <1>3 DEF Sums
<1> QED
  BY <1>2, <1>5, <1>6

LEMMA SumsExist ==
    ASSUME NEW f, NEW S, IsFiniteSet(S)
    PROVE  \E g : Sums(f, S, g)
<1> DEFINE Bad == { s \in SUBSET S : \A g : ~Sums(f, s, g) }
           Over(s) == CHOOSE g : Sums(f, s, g)
<1>1. SUFFICES ASSUME Bad # {} PROVE FALSE
  OBVIOUS
<1>a. Bad \in SUBSET SUBSET S
  OBVIOUS
<1> HIDE DEF Bad
<1>2. PICK s \in Bad : \A t \in Bad : t \subseteq s => t = s
  BY <1>1, <1>a, MinimalSubset
<1> USE DEF Bad
<1>3. ASSUME NEW t \in SUBSET s, t # s PROVE Sums(f, t, Over(t))
  BY <1>2, <1>3
<1>4. ASSUME NEW t \in SUBSET s, t # {} PROVE Remaining(t) \in SUBSET s /\ Remaining(t) # s
  BY <1>4, FirstIn DEF Remaining
<1> HIDE DEF Over
<1> DEFINE Value(t) == IF t = {} THEN 0 ELSE f[First(t)] + Over(Remaining(t))[Remaining(t)]
           g == [t \in SUBSET s |-> Value(t)]
<1>5. ASSUME NEW t \in SUBSET s, t # {} PROVE g[Remaining(t)] = Over(Remaining(t))[Remaining(t)]
  <2>1. g[Remaining(t)] = Value(Remaining(t))
    BY <1>4, <1>5
  <2>2. Sums(f, Remaining(t), Over(Remaining(t)))
    BY <1>3, <1>4, <1>5
  <2>3. CASE Remaining(t) = {}
    BY <2>1, <2>2, <2>3 DEF Sums
  <2>4. CASE Remaining(t) # {}
    <3> DEFINE u == Remaining(Remaining(t))
    <3>1. u \subseteq Remaining(t) /\ u \in SUBSET s /\ u # s
      BY <1>4, <1>5, <2>4 DEF Remaining
    <3>2. Sums(f, u, Over(u)) /\ IsFiniteSet(u)
      BY <1>3, <3>1, FS_Subset
    <3>3. Over(u)[u] = Over(Remaining(t))[u]
      BY <2>2, <3>1, <3>2, SumsAgree
    <3>4. Over(Remaining(t))[Remaining(t)] = f[First(Remaining(t))] + Over(Remaining(t))[u]
      BY <2>2, <2>4 DEF Sums
    <3> QED
      BY <2>1, <2>4, <3>3, <3>4
  <2> QED
    BY <2>3, <2>4
<1>6. Sums(f, s, g)
  BY <1>5 DEF Sums
<1> QED
  BY <1>2, <1>6

-----------------------------------------------------------------------------
LEMMA SumEmpty == ASSUME NEW f PROVE SumFunctionOnSet(f, {}) = 0
<1>1. PICK g : Sums(f, {}, g)
  BY SumsExist, FS_EmptySet
<1>2. Sums(f, {}, CHOOSE h : Sums(f, {}, h))
  BY <1>1
<1> QED
  BY <1>2, SumIs DEF Sums

LEMMA SumFirst ==
    ASSUME NEW f, NEW S, IsFiniteSet(S), S # {}
    PROVE  SumFunctionOnSet(f, S) = f[First(S)] + SumFunctionOnSet(f, Remaining(S))
<1> DEFINE Over(s) == CHOOSE g : Sums(f, s, g)
<1>1. IsFiniteSet(Remaining(S)) /\ Remaining(S) \subseteq S
  BY FS_Subset DEF Remaining
<1>2. Sums(f, S, Over(S)) /\ Sums(f, Remaining(S), Over(Remaining(S)))
  BY <1>1, SumsExist
<1>3. SumFunctionOnSet(f, S) = Over(S)[S]
      /\ SumFunctionOnSet(f, Remaining(S)) = Over(Remaining(S))[Remaining(S)]
  BY SumIs
<1> HIDE DEF Over
<1>4. Over(S)[Remaining(S)] = Over(Remaining(S))[Remaining(S)]
  BY <1>1, <1>2, SumsAgree
<1>5. Over(S)[S] = f[First(S)] + Over(S)[Remaining(S)]
  BY <1>2 DEF Sums
<1> QED
  BY <1>3, <1>4, <1>5

(* Whole numbers have a whole sum, and numbers that are not negative one   *)
(* that is not.                                                            *)
LEMMA SumType ==
    ASSUME NEW f, NEW S, IsFiniteSet(S), NEW N \in {Nat, Int}, \A x \in S : f[x] \in N
    PROVE  SumFunctionOnSet(f, S) \in N
<1> DEFINE Bad == { s \in SUBSET S : SumFunctionOnSet(f, s) \notin N }
<1>1. SUFFICES ASSUME Bad # {} PROVE FALSE
  OBVIOUS
<1>a. Bad \in SUBSET SUBSET S
  OBVIOUS
<1> HIDE DEF Bad
<1>2. PICK s \in Bad : \A t \in Bad : t \subseteq s => t = s
  BY <1>1, <1>a, MinimalSubset
<1> USE DEF Bad
<1>b. 0 \in N
  OBVIOUS
<1>3. s # {}
  BY <1>2, <1>b, SumEmpty
<1>4. First(s) \in s /\ Remaining(s) \in SUBSET s /\ Remaining(s) # s
  BY <1>3, FirstIn DEF Remaining
<1>5. SumFunctionOnSet(f, Remaining(s)) \in N
  BY <1>2, <1>4
<1>6. SumFunctionOnSet(f, s) = f[First(s)] + SumFunctionOnSet(f, Remaining(s))
  BY <1>2, <1>3, FS_Subset, SumFirst
<1>7. f[First(s)] \in N
  BY <1>2, <1>4
<1> QED
  BY <1>2, <1>5, <1>6, <1>7

(* Any element may be taken out of the sum, not only the one CHOOSE takes. *)
LEMMA SumRemove ==
    ASSUME NEW f, NEW S, IsFiniteSet(S), \A x \in S : f[x] \in Int, NEW x \in S
    PROVE  SumFunctionOnSet(f, S) = f[x] + SumFunctionOnSet(f, S \ {x})
<1> DEFINE Sum(s) == SumFunctionOnSet(f, s)
           Bad == { s \in SUBSET S : \E y \in s : Sum(s) # f[y] + Sum(s \ {y}) }
<1>1. SUFFICES ASSUME Bad # {} PROVE FALSE
  OBVIOUS
<1>a. Bad \in SUBSET SUBSET S
  OBVIOUS
<1> HIDE DEF Bad
<1>2. PICK s \in Bad : \A t \in Bad : t \subseteq s => t = s
  BY <1>1, <1>a, MinimalSubset
<1> USE DEF Bad
<1>3. PICK y \in s : Sum(s) # f[y] + Sum(s \ {y})
  BY <1>2
<1> DEFINE a == First(s)
<1>4. a \in s /\ Remaining(s) = s \ {a} /\ s \subseteq S
  BY <1>2, <1>3, FirstIn DEF Remaining
<1>5. \A t \in SUBSET S : IsFiniteSet(t) /\ Sum(t) \in Int
  <2> TAKE t \in SUBSET S
  <2>1. IsFiniteSet(t)
    BY FS_Subset
  <2> QED
    BY <2>1, SumType, Int \in {Nat, Int}
<1>6. Sum(s) = f[a] + Sum(s \ {a})
  BY <1>3, <1>4, <1>5, SumFirst
<1> HIDE DEF a, Sum
<1>7. a # y
  BY <1>3, <1>6
<1>8. s \ {a} \notin Bad /\ s \ {y} \notin Bad
  BY <1>2, <1>3, <1>4
<1>9. Sum(s \ {a}) = f[y] + Sum((s \ {a}) \ {y})
  BY <1>3, <1>4, <1>7, <1>8
<1>10. Sum(s \ {y}) = f[a] + Sum((s \ {y}) \ {a})
  BY <1>3, <1>4, <1>7, <1>8
<1>11. (s \ {a}) \ {y} = (s \ {y}) \ {a}
  OBVIOUS
<1>12. Sum((s \ {y}) \ {a}) \in Int /\ f[a] \in Int /\ f[y] \in Int
  BY <1>3, <1>4, <1>5
<1>13. \A p, q, z \in Int : p + (q + z) = q + (p + z)
  OBVIOUS
<1>14. Sum(s) = f[a] + (f[y] + Sum((s \ {y}) \ {a}))
  BY <1>6, <1>9, <1>11
<1>15. Sum(s \ {y}) = f[a] + Sum((s \ {y}) \ {a})
  BY <1>10
<1> QED
  BY <1>3, <1>12, <1>13, <1>14, <1>15

LEMMA SumAdd ==
    ASSUME NEW f, NEW S, IsFiniteSet(S), NEW x, x \notin S,
           \A y \in S \cup {x} : f[y] \in Int
    PROVE  SumFunctionOnSet(f, S \cup {x}) = f[x] + SumFunctionOnSet(f, S)
<1>1. IsFiniteSet(S \cup {x})
  BY FS_AddElement
<1>2. (S \cup {x}) \ {x} = S
  OBVIOUS
<1> QED
  BY <1>1, <1>2, SumRemove

(* The sum looks at f on S only. *)
LEMMA SumSame ==
    ASSUME NEW f, NEW g, NEW S, IsFiniteSet(S), \A x \in S : f[x] = g[x]
    PROVE  SumFunctionOnSet(f, S) = SumFunctionOnSet(g, S)
<1> DEFINE Bad == { s \in SUBSET S : SumFunctionOnSet(f, s) # SumFunctionOnSet(g, s) }
<1>1. SUFFICES ASSUME Bad # {} PROVE FALSE
  OBVIOUS
<1>a. Bad \in SUBSET SUBSET S
  OBVIOUS
<1> HIDE DEF Bad
<1>2. PICK s \in Bad : \A t \in Bad : t \subseteq s => t = s
  BY <1>1, <1>a, MinimalSubset
<1> USE DEF Bad
<1>3. s # {}
  BY <1>2, SumEmpty
<1>4. First(s) \in s /\ Remaining(s) \in SUBSET s /\ Remaining(s) # s /\ IsFiniteSet(s)
  BY <1>3, FirstIn, FS_Subset DEF Remaining
<1>5. SumFunctionOnSet(f, Remaining(s)) = SumFunctionOnSet(g, Remaining(s))
  BY <1>2, <1>4
<1>6. f[First(s)] = g[First(s)]
  BY <1>2, <1>4
<1> QED
  BY <1>2, <1>3, <1>4, <1>5, <1>6, SumFirst
=============================================================================
