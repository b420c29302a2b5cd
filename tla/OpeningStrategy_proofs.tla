----------------------- MODULE OpeningStrategy_proofs -----------------------
(***************************************************************************)
(* Theorems about the opening strategy: the types of its state, that no    *)
(* fill is lost, what an open cycle waits for, that the execution keeps    *)
(* the promise of PlacementCycle, and when a candidate is placed.          *)
(*                                                                         *)
(* Shares are added up with a fold of the community modules.  What such a  *)
(* sum computes is proved first, from a smallest set for which it would    *)
(* not hold.                                                               *)
(***************************************************************************)
EXTENDS OpeningStrategy, FiniteSetTheorems, FunctionTheorems, WellFoundedInduction, TLAPS

(* Sums *)

Pick(S) == CHOOSE x \in S : TRUE

Follows(g, fn, S) ==
    g = [s \in SUBSET S |-> IF s = {} THEN 0 ELSE fn[Pick(s)] + g[s \ {Pick(s)}]]

Partial(fn, S) == CHOOSE g : Follows(g, fn, S)

LEMMA SumIsPartial ==
    ASSUME NEW fn, NEW S
    PROVE  SumFunctionOnSet(fn, S) = Partial(fn, S)[S]
BY DEF SumFunctionOnSet, FoldFunctionOnSet, MapThenFoldSet, Partial, Follows, Pick

LEMMA MinimalSet ==
    ASSUME NEW S, IsFiniteSet(S), NEW Bad \in SUBSET SUBSET S, Bad # {}
    PROVE  \E U \in Bad : \A V \in Bad : V \subseteq U => V = U
<1> DEFINE Sizes == {Cardinality(U) : U \in Bad}
<1>1. \A U \in Bad : IsFiniteSet(U) /\ Cardinality(U) \in Nat
  BY FS_Subset, FS_CardinalityType
<1>2. IsWellFoundedOn(OpToRel(<, Nat), Nat)
  BY NatLessThanWellFounded
<1>3. Sizes \subseteq Nat /\ Sizes # {}
  BY <1>1
<1> HIDE DEF Sizes
<1>4. PICK n \in Sizes : \A m \in Sizes : ~(<<m, n>> \in OpToRel(<, Nat))
  BY <1>2, <1>3, WFMin
<1>5. \A m \in Sizes : ~(m < n)
  BY <1>3, <1>4 DEF OpToRel
<1>6. PICK U \in Bad : n = Cardinality(U)
  BY DEF Sizes
<1>7. ASSUME NEW V \in Bad, V \subseteq U, V # U
      PROVE  FALSE
  <2>1. IsFiniteSet(U) /\ Cardinality(V) <= Cardinality(U)
        /\ (Cardinality(U) = Cardinality(V) => U = V)
    BY <1>1, <1>7, FS_Subset
  <2>2. Cardinality(V) \in Sizes
    BY DEF Sizes
  <2>3. Cardinality(V) \in Nat /\ Cardinality(U) \in Nat
    BY <1>1
  <2>4. ~(Cardinality(V) < Cardinality(U))
    BY <2>2, <1>5, <1>6
  <2> QED  BY <2>1, <2>3, <2>4, <1>7
<1> QED  BY <1>6, <1>7

LEMMA PickIn == ASSUME NEW S, S # {} PROVE Pick(S) \in S
BY DEF Pick

LEMMA PartialsAgree ==
    ASSUME NEW fn, NEW S, NEW T, NEW g, NEW h, Follows(g, fn, S), Follows(h, fn, T),
           NEW V, IsFiniteSet(V), V \subseteq S, V \subseteq T
    PROVE  g[V] = h[V]
<1> DEFINE Bad == {U \in SUBSET V : g[U] # h[U]}
<1>1. ASSUME Bad # {} PROVE FALSE
  <2>1. PICK U \in Bad : \A W \in Bad : W \subseteq U => W = U
    <3>1. Bad \in SUBSET SUBSET V
      OBVIOUS
    <3> HIDE DEF Bad
    <3> QED  BY <1>1, <3>1, MinimalSet
  <2>2. \A W \in SUBSET V : W \in SUBSET S /\ W \in SUBSET T
    OBVIOUS
  <2>3. \A W \in SUBSET V : g[W] = IF W = {} THEN 0 ELSE fn[Pick(W)] + g[W \ {Pick(W)}]
    BY <2>2 DEF Follows
  <2>4. \A W \in SUBSET V : h[W] = IF W = {} THEN 0 ELSE fn[Pick(W)] + h[W \ {Pick(W)}]
    BY <2>2 DEF Follows
  <2>5. U # {}
    BY <2>3, <2>4
  <2>6. Pick(U) \in U
    BY <2>5, PickIn
  <2>7. U \ {Pick(U)} \in SUBSET V /\ U \ {Pick(U)} # U
    BY <2>6
  <2>8. g[U \ {Pick(U)}] = h[U \ {Pick(U)}]
    BY <2>1, <2>7
  <2> QED  BY <2>3, <2>4, <2>5, <2>8
<1>2. V \in SUBSET V
  OBVIOUS
<1> QED  BY <1>1, <1>2

LEMMA PartialFollows ==
    ASSUME NEW fn, NEW S, IsFiniteSet(S)
    PROVE  Follows(Partial(fn, S), fn, S)
<1> DEFINE Bad == {U \in SUBSET S : ~ \E g : Follows(g, fn, U)}
<1>1. ASSUME Bad # {} PROVE FALSE
  <2>1. PICK U \in Bad : \A W \in Bad : W \subseteq U => W = U
    <3>1. Bad \in SUBSET SUBSET S
      OBVIOUS
    <3> HIDE DEF Bad
    <3> QED  BY <1>1, <3>1, MinimalSet
  <2>2. \A W \in SUBSET U : W # U => Follows(Partial(fn, W), fn, W)
    BY <2>1 DEF Partial
  <2> DEFINE E(V) == Partial(fn, V)[V]
             G == [s \in SUBSET U |-> IF s = {} THEN 0 ELSE fn[Pick(s)] + E(s \ {Pick(s)})]
  <2>3. ASSUME NEW s \in SUBSET U, s # {}
        PROVE  G[s \ {Pick(s)}] = E(s \ {Pick(s)})
    <3> DEFINE v == s \ {Pick(s)}
    <3>1. Pick(s) \in s
      BY <2>3, PickIn
    <3>2. v \in SUBSET U /\ v # U
      BY <3>1
    <3>3. Follows(Partial(fn, v), fn, v)
      BY <2>2, <3>2
    <3>4. E(v) = IF v = {} THEN 0 ELSE fn[Pick(v)] + Partial(fn, v)[v \ {Pick(v)}]
      <4>1. v \in SUBSET v
        OBVIOUS
      <4> HIDE DEF v
      <4> QED  BY <3>3, <4>1 DEF Follows
    <3>5. ASSUME v # {} PROVE Partial(fn, v)[v \ {Pick(v)}] = E(v \ {Pick(v)})
      <4>1. v \ {Pick(v)} \in SUBSET U /\ v \ {Pick(v)} # U
        BY <3>2
      <4>2. Follows(Partial(fn, v \ {Pick(v)}), fn, v \ {Pick(v)})
        BY <2>2, <4>1
      <4>3. IsFiniteSet(v \ {Pick(v)})
        BY <4>1, FS_Subset
      <4> HIDE DEF v
      <4> QED  BY <3>3, <4>2, <4>3, PartialsAgree
    <3>6. G[v] = IF v = {} THEN 0 ELSE fn[Pick(v)] + E(v \ {Pick(v)})
      BY <3>2
    <3> HIDE DEF v, E, G
    <3>7. G[v] = E(v)
      BY <3>4, <3>5, <3>6
    <3> QED  BY <3>7 DEF v
  <2>4. Follows(G, fn, U)
    <3>1. \A s \in SUBSET U : (IF s = {} THEN 0 ELSE fn[Pick(s)] + E(s \ {Pick(s)}))
                               = (IF s = {} THEN 0 ELSE fn[Pick(s)] + G[s \ {Pick(s)}])
      <4> HIDE DEF G, E
      <4> QED  BY <2>3
    <3> HIDE DEF E
    <3>2. G = [s \in SUBSET U |-> IF s = {} THEN 0 ELSE fn[Pick(s)] + G[s \ {Pick(s)}]]
      BY <3>1
    <3> HIDE DEF G
    <3> QED  BY <3>2 DEF Follows
  <2> HIDE DEF G
  <2> QED  BY <2>1, <2>4
<1>2. S \in SUBSET S
  OBVIOUS
<1>3. \E g : Follows(g, fn, S)
  BY <1>1, <1>2
<1> QED  BY <1>3 DEF Partial

(* The sum of no values, and of some.                                      *)
LEMMA SumOfNone == ASSUME NEW fn PROVE SumFunctionOnSet(fn, {}) = 0
<1>1. Follows(Partial(fn, {}), fn, {})
  BY PartialFollows, FS_EmptySet
<1>2. Partial(fn, {})[{}] = 0
  BY <1>1 DEF Follows
<1> QED  BY <1>2, SumIsPartial

LEMMA SumByPick ==
    ASSUME NEW fn, NEW S, IsFiniteSet(S), S # {}
    PROVE  SumFunctionOnSet(fn, S) = fn[Pick(S)] + SumFunctionOnSet(fn, S \ {Pick(S)})
<1>1. Follows(Partial(fn, S), fn, S)
  BY PartialFollows
<1>2. S \in SUBSET S
  OBVIOUS
<1>3. Partial(fn, S)[S] = fn[Pick(S)] + Partial(fn, S)[S \ {Pick(S)}]
  BY <1>1, <1>2 DEF Follows
<1>4. IsFiniteSet(S \ {Pick(S)})
  BY FS_Subset
<1>5. Follows(Partial(fn, S \ {Pick(S)}), fn, S \ {Pick(S)})
  BY <1>4, PartialFollows
<1>6. Partial(fn, S)[S \ {Pick(S)}] = Partial(fn, S \ {Pick(S)})[S \ {Pick(S)}]
  BY <1>1, <1>4, <1>5, PartialsAgree
<1> QED  BY <1>3, <1>6, SumIsPartial

LEMMA SumType ==
    ASSUME NEW S, IsFiniteSet(S), NEW fn, \A x \in S : fn[x] \in Nat
    PROVE  SumFunctionOnSet(fn, S) \in Nat
<1> DEFINE Bad == {U \in SUBSET S : SumFunctionOnSet(fn, U) \notin Nat}
<1>1. ASSUME Bad # {} PROVE FALSE
  <2>1. PICK U \in Bad : \A W \in Bad : W \subseteq U => W = U
    <3>1. Bad \in SUBSET SUBSET S
      OBVIOUS
    <3> HIDE DEF Bad
    <3> QED  BY <1>1, <3>1, MinimalSet
  <2>2. U # {}
    BY SumOfNone
  <2>3. Pick(U) \in U
    BY <2>2, PickIn
  <2>4. IsFiniteSet(U)
    BY FS_Subset
  <2>5. SumFunctionOnSet(fn, U \ {Pick(U)}) \in Nat
    BY <2>1, <2>3
  <2> QED  BY <2>2, <2>3, <2>4, <2>5, SumByPick
<1> QED  BY <1>1

(* Any value can be taken out first.                                       *)
LEMMA SumByPart ==
    ASSUME NEW S, IsFiniteSet(S), NEW fn, \A x \in S : fn[x] \in Nat, NEW x \in S
    PROVE  SumFunctionOnSet(fn, S) = fn[x] + SumFunctionOnSet(fn, S \ {x})
<1> DEFINE Total(U) == SumFunctionOnSet(fn, U)
           Bad == {U \in SUBSET S : \E y \in U : Total(U) # fn[y] + Total(U \ {y})}
<1>0. \A U \in SUBSET S : IsFiniteSet(U) /\ Total(U) \in Nat
  BY FS_Subset, SumType
<1>1. \A U \in SUBSET S : U # {} => Total(U) = fn[Pick(U)] + Total(U \ {Pick(U)})
  BY <1>0, SumByPick
<1>2. Bad \in SUBSET SUBSET S
  OBVIOUS
<1>3. ASSUME Bad # {} PROVE FALSE
  <2>1. PICK U \in Bad : \A W \in Bad : W \subseteq U => W = U
    <3> HIDE DEF Bad
    <3> QED  BY <1>2, <1>3, MinimalSet
  <2>2. PICK y \in U : Total(U) # fn[y] + Total(U \ {y})
    OBVIOUS
  <2> DEFINE p == Pick(U)
  <2>3. p \in U /\ Total(U) = fn[p] + Total(U \ {p})
    BY <1>1, PickIn
  <2> HIDE DEF p
  <2>4. p # y
    BY <2>2, <2>3
  <2>5. Total(U \ {p}) = fn[y] + Total((U \ {p}) \ {y})
    BY <2>1, <2>3, <2>4
  <2>6. Total(U \ {y}) = fn[p] + Total((U \ {y}) \ {p})
    BY <2>1, <2>3, <2>4
  <2>7. (U \ {p}) \ {y} = (U \ {y}) \ {p}
    OBVIOUS
  <2>8. (U \ {p}) \ {y} \in SUBSET S /\ p \in S /\ y \in S
    BY <2>3
  <2> HIDE DEF Total
  <2>9. Total((U \ {p}) \ {y}) \in Nat /\ fn[p] \in Nat /\ fn[y] \in Nat
    BY <1>0, <2>8
  <2> QED  BY <2>2, <2>3, <2>5, <2>6, <2>7, <2>9
<1> QED  BY <1>3

(* Equal values have equal sums.                                           *)
LEMMA SumAgrees ==
    ASSUME NEW S, IsFiniteSet(S), NEW fn, NEW gn, \A x \in S : fn[x] = gn[x]
    PROVE  SumFunctionOnSet(fn, S) = SumFunctionOnSet(gn, S)
<1> DEFINE Bad == {U \in SUBSET S : SumFunctionOnSet(fn, U) # SumFunctionOnSet(gn, U)}
<1>1. Bad \in SUBSET SUBSET S
  OBVIOUS
<1>2. ASSUME Bad # {} PROVE FALSE
  <2>1. PICK U \in Bad : \A W \in Bad : W \subseteq U => W = U
    <3> HIDE DEF Bad
    <3> QED  BY <1>1, <1>2, MinimalSet
  <2>2. U # {} /\ IsFiniteSet(U)
    BY SumOfNone, FS_Subset
  <2>3. Pick(U) \in U /\ Pick(U) \in S
    BY <2>2, PickIn
  <2>4. SumFunctionOnSet(fn, U \ {Pick(U)}) = SumFunctionOnSet(gn, U \ {Pick(U)})
    BY <2>1, <2>3
  <2> QED  BY <2>2, <2>3, <2>4, SumByPick
<1> QED  BY <1>2

(* One value more.                                                         *)
LEMMA SumAfterUpdate ==
    ASSUME NEW S, IsFiniteSet(S), NEW fn, NEW gn, NEW x \in S,
           \A y \in S : fn[y] \in Nat /\ gn[y] \in Nat,
           \A y \in S : y # x => gn[y] = fn[y]
    PROVE  SumFunctionOnSet(gn, S) = SumFunctionOnSet(fn, S) + gn[x] - fn[x]
<1>1. IsFiniteSet(S \ {x})
  BY FS_Subset
<1>2. SumFunctionOnSet(gn, S \ {x}) = SumFunctionOnSet(fn, S \ {x})
  BY <1>1, SumAgrees
<1>3. SumFunctionOnSet(fn, S \ {x}) \in Nat
  BY <1>1, SumType
<1>4. /\ SumFunctionOnSet(gn, S) = gn[x] + SumFunctionOnSet(gn, S \ {x})
      /\ SumFunctionOnSet(fn, S) = fn[x] + SumFunctionOnSet(fn, S \ {x})
  BY SumByPart
<1> QED  BY <1>2, <1>3, <1>4

(* Smaller values over fewer places have a smaller sum.                    *)
LEMMA LargerSummands ==
    ASSUME NEW a \in Nat, NEW b \in Nat, NEW c \in Nat, NEW d \in Nat, a <= b, c <= d
    PROVE  a + c <= b + d
OBVIOUS

LEMMA SumGrows ==
    ASSUME NEW S, IsFiniteSet(S), NEW fn, NEW gn, NEW T \in SUBSET S,
           \A x \in S : fn[x] \in Nat /\ gn[x] \in Nat,
           \A x \in T : fn[x] <= gn[x], \A x \in S : x \notin T => fn[x] = 0
    PROVE  SumFunctionOnSet(fn, S) <= SumFunctionOnSet(gn, T)
<1> DEFINE F(U) == SumFunctionOnSet(fn, U)
           G(U) == SumFunctionOnSet(gn, U)
           Bad == {U \in SUBSET S : ~(F(U) <= G(U \cap T))}
<1>0. \A U \in SUBSET S : IsFiniteSet(U) /\ F(U) \in Nat /\ G(U) \in Nat
  BY FS_Subset, SumType
<1>1. Bad \in SUBSET SUBSET S
  OBVIOUS
<1>2. ASSUME Bad # {} PROVE FALSE
  <2>1. PICK U \in Bad : \A W \in Bad : W \subseteq U => W = U
    <3> HIDE DEF Bad
    <3> QED  BY <1>1, <1>2, MinimalSet
  <2>2. U # {}
    <3>1. ~(F(U) <= G(U \cap T)) /\ F({}) = 0 /\ G({}) = 0 /\ {} \cap T = {}
      BY SumOfNone
    <3> HIDE DEF F, G, Bad
    <3> QED  BY <3>1
  <2>3. PICK x \in U : TRUE
    BY <2>2
  <2>4. F(U) = fn[x] + F(U \ {x})
    BY <1>0, SumByPart
  <2>5. F(U \ {x}) <= G((U \ {x}) \cap T)
    BY <2>1, <2>3
  <2>6. CASE x \in T
    <3>1. G(U \cap T) = gn[x] + G((U \cap T) \ {x})
      BY <1>0, <2>6, SumByPart
    <3>2. (U \cap T) \ {x} = (U \ {x}) \cap T
      OBVIOUS
    <3>3. fn[x] \in Nat /\ gn[x] \in Nat /\ fn[x] <= gn[x]
      BY <2>6
    <3>4. F(U \ {x}) \in Nat /\ G((U \ {x}) \cap T) \in Nat
      BY <1>0
    <3>5. ~(F(U) <= G(U \cap T))
      OBVIOUS
    <3>6. F(U) = fn[x] + F(U \ {x}) /\ G(U \cap T) = gn[x] + G((U \ {x}) \cap T)
      BY <2>4, <3>1, <3>2
    <3> QED  BY <2>5, <3>3, <3>4, <3>5, <3>6, LargerSummands
  <2>7. CASE x \notin T
    <3>1. U \cap T = (U \ {x}) \cap T /\ fn[x] = 0
      BY <2>7
    <3>2. F(U \ {x}) \in Nat
      BY <1>0
    <3>3. ~(F(U) <= G(U \cap T))
      OBVIOUS
    <3>4. F(U) = F(U \ {x})
      BY <2>4, <3>1, <3>2
    <3>5. G(U \cap T) = G((U \ {x}) \cap T)
      BY <3>1
    <3> HIDE DEF Bad
    <3> QED  BY <2>5, <3>3, <3>4, <3>5
  <2> QED  BY <2>6, <2>7
<1>3. S \in SUBSET S /\ S \cap T = T
  OBVIOUS
<1>4. F(S) <= G(S \cap T)
  BY <1>2, <1>3
<1> QED  BY <1>3, <1>4

(* The sum over a part is not larger.                                      *)
LEMMA SumOfPart ==
    ASSUME NEW S, IsFiniteSet(S), NEW fn, \A x \in S : fn[x] \in Nat, NEW T \in SUBSET S
    PROVE  SumFunctionOnSet(fn, T) <= SumFunctionOnSet(fn, S)
<1> DEFINE F(U) == SumFunctionOnSet(fn, U)
           Bad == {U \in SUBSET (S \ T) : ~(F(T) <= F(T \cup U))}
<1>1. \A U \in SUBSET S : IsFiniteSet(U) /\ F(U) \in Nat
  BY FS_Subset, SumType
<1>2. Bad \in SUBSET SUBSET (S \ T) /\ IsFiniteSet(S \ T)
  BY FS_Subset
<1>3. ASSUME Bad # {} PROVE FALSE
  <2>1. PICK U \in Bad : \A W \in Bad : W \subseteq U => W = U
    <3> HIDE DEF Bad
    <3> QED  BY <1>2, <1>3, MinimalSet
  <2>2. ~(F(T) <= F(T \cup U)) /\ U \subseteq S \ T
    OBVIOUS
  <2>3. U # {}
    <3>1. T \cup {} = T /\ F(T) \in Nat
      BY <1>1
    <3> HIDE DEF F, Bad
    <3> QED  BY <2>2, <3>1
  <2>4. PICK x \in U : TRUE
    BY <2>3
  <2>5. F(T) <= F(T \cup (U \ {x}))
    <3>1. U \ {x} \in SUBSET (S \ T) /\ U \ {x} \subseteq U /\ U \ {x} # U
      BY <2>2, <2>4
    <3>2. U \ {x} \notin Bad
      <4> HIDE DEF Bad
      <4> QED  BY <2>1, <3>1
    <3> QED  BY <3>1, <3>2
  <2>6. F(T \cup U) = fn[x] + F((T \cup U) \ {x})
    BY <1>1, SumByPart
  <2>7. (T \cup U) \ {x} = T \cup (U \ {x})
    BY <2>2
  <2>8. F(T) \in Nat /\ F(T \cup (U \ {x})) \in Nat /\ fn[x] \in Nat
    BY <1>1, <2>2
  <2> HIDE DEF F, Bad
  <2>9. F(T \cup U) = fn[x] + F(T \cup (U \ {x}))
    BY <2>6, <2>7
  <2> QED  BY <2>2, <2>5, <2>8, <2>9
<1>4. T \cup (S \ T) = S
  OBVIOUS
<1>5. F(T) <= F(T \cup (S \ T))
  BY <1>3
<1> QED  BY <1>4, <1>5
-----------------------------------------------------------------------------
(* The shares of layers *)

LEMMA LayersAreFinite ==
    IsFiniteSet(Layers) /\ \A i \in Layers : LayerSizes[i] \in Nat /\ LayerSizes[i] > 0
<1>1. Layers = 1 .. Len(LayerSizes) /\ Len(LayerSizes) \in Nat
  BY ParametersAssumption DEF Layers
<1>2. IsFiniteSet(Layers)
  BY <1>1, FS_Interval
<1>3. \A i \in Layers : LayerSizes[i] \in Nat \ {0}
  BY ParametersAssumption DEF Layers
<1> QED  BY <1>2, <1>3

LEMMA SharesBound ==
    ASSUME NEW layers \in SUBSET Layers
    PROVE  /\ SharesOf(layers) \in Nat
           /\ SharesOf(layers) <= SharesOf(Layers)
           /\ layers # {} => SharesOf(layers) \in Nat \ {0}
<1>1. IsFiniteSet(layers)
  BY LayersAreFinite, FS_Subset
<1>2. SharesOf(layers) \in Nat
  BY <1>1, LayersAreFinite, SumType DEF SharesOf
<1>3. SharesOf(layers) <= SharesOf(Layers)
  BY LayersAreFinite, SumOfPart DEF SharesOf
<1>4. ASSUME NEW i \in layers
      PROVE  SharesOf(layers) \in Nat \ {0}
  <2>1. SharesOf(layers) = LayerSizes[i] + SharesOf(layers \ {i})
    BY <1>1, LayersAreFinite, SumByPart DEF SharesOf
  <2>2. SharesOf(layers \ {i}) \in Nat
    <3>1. IsFiniteSet(layers \ {i})
      BY <1>1, FS_Subset
    <3> QED  BY <3>1, LayersAreFinite, SumType DEF SharesOf
  <2> QED  BY <2>1, <2>2, LayersAreFinite
<1> QED  BY <1>2, <1>3, <1>4
-----------------------------------------------------------------------------
(* Types *)

LEMMA NoneIsFavoured == NoCandidate \in Candidates
  BY DEF Candidates, NoCandidate, Never

LEMMA InitTypes == Init => TypeOK
<1>1. <<>> \in Seq(OrderEvents)
  OBVIOUS
<1>2. ASSUME Init
      PROVE  engine \in [Layers -> [state : {"none", "sent", "open", "closed"}, filled : Nat]]
  BY <1>2 DEF Init
<1>3. ASSUME Init
      PROVE  /\ now \in Nat /\ filled \in Nat /\ active \subseteq Layers
             /\ cancels \subseteq Layers /\ phase \in Phases
             /\ running \in BOOLEAN /\ usable \in BOOLEAN
  BY <1>3 DEF Init, Phases
<1>4. ASSUME Init
      PROVE  /\ plan \in Plans \cup {None} /\ signal \in Signals \cup {None}
             /\ candidate \in Candidates /\ backed \in Candidates
  BY <1>4, NoneIsFavoured DEF Init
<1> QED  BY <1>1, <1>2, <1>3, <1>4 DEF Init, TypeOK

(* What a signal or a book can do to the execution.                        *)
Still == UNCHANGED <<execution, active, market>>

LEMMA Decisions ==
    ASSUME NEW s, NEW u, NEW best, ProcessSignal(s, u, best)
    PROVE  \/ Still
           \/ phase = "monitoring" /\ Places(s, u, best)
           \/ phase = "order_working" /\ RequestCancel /\ UNCHANGED candidate
<1>1. CASE s # None /\ phase = "monitoring"
  <2>1. SubmitPlanIfActionable(s, u, best)
    BY <1>1 DEF ProcessSignal
  <2> QED  BY <1>1, <2>1 DEF SubmitPlanIfActionable, Rejects, WaitsForBooks, SeesNoPlan,
              NamesCandidate, WaitsForPersistence, MaterializesNothing, Still
<1>2. CASE s # None /\ phase = "order_working"
  <2>1. EvaluateWorkingOrders(s)
    BY <1>2 DEF ProcessSignal
  <2> QED  BY <1>2, <2>1 DEF EvaluateWorkingOrders, Still
<1>3. CASE ~(s # None /\ phase = "monitoring") /\ ~(s # None /\ phase = "order_working")
  BY <1>3 DEF ProcessSignal, Still
<1> QED  BY <1>1, <1>2, <1>3

LEMMA DecisionType ==
    ASSUME TypeOK, NEW s \in Signals \cup {None}, NEW best \in Sides \cup {None}
    PROVE  Decision(s, best) \in Sides \cup {None}
BY DEF Decision

LEMMA CandidateType ==
    ASSUME TypeOK, NEW s \in Signals \cup {None}, NEW u \in BOOLEAN,
           NEW best \in Sides \cup {None}, ProcessSignal(s, u, best)
    PROVE  candidate' \in Candidates
<1>1. candidate \in Candidates /\ NoCandidate \in Candidates
  BY DEF TypeOK, Candidates, NoCandidate, Never
<1>2. ASSUME NamesCandidate(s, u, best) PROVE candidate' \in Candidates
  <2>1. Decision(s, best) \in Sides \cup {None} /\ Decision(s, best) # None
    BY <1>2, DecisionType DEF NamesCandidate
  <2>2. now \in Nat
    BY DEF TypeOK
  <2> QED  BY <1>2, <2>1, <2>2 DEF NamesCandidate, Candidates, Never
<1>3. CASE s # None /\ phase = "monitoring"
  <2>1. SubmitPlanIfActionable(s, u, best)
    BY <1>3 DEF ProcessSignal
  <2> QED  BY <1>1, <1>2, <2>1 DEF SubmitPlanIfActionable, Rejects, WaitsForBooks,
              SeesNoPlan, WaitsForPersistence, MaterializesNothing, Places, Forget
<1>4. CASE s # None /\ phase = "order_working"
  <2>1. EvaluateWorkingOrders(s)
    BY <1>4 DEF ProcessSignal
  <2> QED  BY <1>1, <2>1 DEF EvaluateWorkingOrders
<1>5. CASE ~(s # None /\ phase = "monitoring") /\ ~(s # None /\ phase = "order_working")
  BY <1>1, <1>5 DEF ProcessSignal
<1> QED  BY <1>3, <1>4, <1>5

LEMMA PlacesType ==
    ASSUME TypeOK, NEW s \in Signals, NEW u \in BOOLEAN,
           NEW best \in Sides \cup {None}, Places(s, u, best)
    PROVE  /\ phase' \in Phases /\ plan' \in Plans /\ filled' = filled
           /\ active' \subseteq Layers /\ cancels' = cancels /\ events' = events
           /\ missed' = missed
           /\ engine' \in [Layers -> [state : {"none", "sent", "open", "closed"}, filled : Nat]]
<1>1. PICK layers \in SUBSET Layers, refused \in SUBSET Layers, denied \in SUBSET Layers :
        /\ layers # {} /\ refused \subseteq layers /\ denied \subseteq layers \ refused
        /\ Submits(s, layers, refused, denied)
  BY DEF Places
<1>2. candidate.side \in Sides
  BY DecisionType DEF Places
<1>3. SharesOf(layers) \in Nat \ {0}
  BY <1>1, SharesBound
<1>4. plan' \in Plans
  <2>1. now + MaxWork \in Nat /\ s.at \in Nat
    BY ParametersAssumption DEF TypeOK, Signals
  <2> QED  BY <1>1, <1>2, <1>3, <2>1 DEF Submits, Plans
<1>5. engine' \in [Layers -> [state : {"none", "sent", "open", "closed"}, filled : Nat]]
  <2>1. engine \in [Layers -> [state : {"none", "sent", "open", "closed"}, filled : Nat]]
    BY DEF TypeOK
  <2>2. \A i \in Layers :
          (CASE i \in denied -> [state |-> "closed", filled |-> 0]
             [] i \in (layers \ refused) \ denied -> [state |-> "sent", filled |-> 0]
             [] OTHER -> engine[i])
          \in [state : {"none", "sent", "open", "closed"}, filled : Nat]
    BY <2>1
  <2> QED  BY <1>1, <2>2 DEF Submits
<1>6. filled' = filled /\ cancels' = cancels /\ events' = events /\ missed' = missed
  BY DEF Places
<1> QED  BY <1>1, <1>4, <1>5, <1>6 DEF Submits, Phases

LEMMA ProcessType ==
    ASSUME TypeOK, NEW s \in Signals \cup {None}, NEW u \in BOOLEAN,
           NEW best \in Sides \cup {None}, ProcessSignal(s, u, best)
    PROVE  /\ phase' \in Phases /\ plan' \in Plans \cup {None} /\ filled' \in Nat
           /\ active' \subseteq Layers /\ cancels' \subseteq Layers
           /\ events' \in Seq(OrderEvents) /\ candidate' \in Candidates /\ missed' \in Nat
           /\ engine' \in [Layers -> [state : {"none", "sent", "open", "closed"}, filled : Nat]]
<1>1. candidate' \in Candidates
  BY CandidateType
<1>2. CASE Still
  BY <1>1, <1>2 DEF Still, TypeOK, execution, market
<1>3. CASE phase = "monitoring" /\ Places(s, u, best)
  <2>1. CASE s = None
    <3>1. Still
      BY <2>1 DEF ProcessSignal, Still
    <3> QED  BY <1>1, <3>1 DEF Still, TypeOK, execution, market
  <2>2. CASE s \in Signals
    BY <1>1, <1>3, <2>2, PlacesType DEF TypeOK
  <2> QED  BY <2>1, <2>2
<1>4. CASE phase = "order_working" /\ RequestCancel
  BY <1>1, <1>4 DEF RequestCancel, TypeOK, Phases
<1> QED  BY <1>2, <1>3, <1>4, Decisions

LEMMA BackedType ==
    ASSUME TypeOK, NEW s \in Signals \cup {None}, NEW u \in BOOLEAN,
           NEW best \in Sides \cup {None}
    PROVE  Backed(s, u, best) \in Candidates
<1>1. backed \in Candidates /\ NoCandidate \in Candidates
  BY DEF TypeOK, Candidates, NoCandidate, Never
<1> DEFINE side == Decision(s, best)
<1>2. side \in Sides \cup {None} /\ now \in Nat
  BY DecisionType DEF TypeOK
<1>3. [side |-> side, since |-> IF side = None THEN Never ELSE now] \in Candidates
  <2> HIDE DEF side
  <2> QED  BY <1>2 DEF Candidates, Never
<1> QED  BY <1>1, <1>3 DEF Backed

LEMMA StepTypes ==
    ASSUME TypeOK, [Next]_vars
    PROVE  TypeOK'
<1> USE DEF TypeOK
<1>1. CASE Start
  BY <1>1 DEF Start, market, Phases
<1>2. CASE OnData
  <2>1. PICK age \in SignalAges, clean \in BOOLEAN, best \in Sides \cup {None} :
          /\ signal' = [at |-> now, age |-> age, clean |-> clean]
          /\ ProcessSignal(signal', usable, best)
          /\ backed' = Backed(signal', usable, best)
    BY <1>2 DEF OnData
  <2>2. signal' \in Signals
    BY <2>1, ParametersAssumption DEF Signals
  <2> DEFINE s == signal'
  <2>3. s \in Signals \cup {None}
    BY <2>2
  <2> HIDE DEF s, TypeOK
  <2>4. usable \in BOOLEAN
    BY DEF TypeOK
  <2>5. ProcessSignal(s, usable, best) /\ backed' = Backed(s, usable, best)
    BY <2>1 DEF s
  <2>6. backed' \in Candidates
    BY <2>3, <2>4, <2>5, BackedType
  <2>7. /\ phase' \in Phases /\ plan' \in Plans \cup {None} /\ filled' \in Nat
        /\ active' \subseteq Layers /\ cancels' \subseteq Layers
        /\ events' \in Seq(OrderEvents) /\ candidate' \in Candidates /\ missed' \in Nat
        /\ engine' \in [Layers -> [state : {"none", "sent", "open", "closed"}, filled : Nat]]
    BY <2>3, <2>4, <2>5, ProcessType
  <2>8. running' = running /\ now' = now /\ usable' = usable
    BY <1>2 DEF OnData
  <2> QED  BY <2>2, <2>6, <2>7, <2>8 DEF TypeOK
<1>3. CASE OnOrderBookDeltas
  <2>1. PICK best \in Sides \cup {None} :
          /\ ProcessSignal(signal, usable', best)
          /\ backed' = Backed(signal, usable', best)
    BY <1>3 DEF OnOrderBookDeltas
  <2>2. usable' \in BOOLEAN /\ running' = running /\ now' = now /\ signal' = signal
    BY <1>3 DEF OnOrderBookDeltas
  <2> DEFINE u == usable'
  <2>3. u \in BOOLEAN /\ ProcessSignal(signal, u, best) /\ backed' = Backed(signal, u, best)
    BY <2>1, <2>2
  <2> HIDE DEF u, TypeOK
  <2>4. signal \in Signals \cup {None}
    BY DEF TypeOK
  <2>5. backed' \in Candidates
    BY <2>3, <2>4, BackedType
  <2>6. /\ phase' \in Phases /\ plan' \in Plans \cup {None} /\ filled' \in Nat
        /\ active' \subseteq Layers /\ cancels' \subseteq Layers
        /\ events' \in Seq(OrderEvents) /\ candidate' \in Candidates /\ missed' \in Nat
        /\ engine' \in [Layers -> [state : {"none", "sent", "open", "closed"}, filled : Nat]]
    BY <2>3, <2>4, ProcessType
  <2> QED  BY <2>2, <2>4, <2>5, <2>6 DEF TypeOK
<1>4. CASE Tick
  BY <1>4 DEF Tick, execution, market
<1>5. CASE OnOrderFilled
  <2>1. events' \in Seq(OrderEvents)
    BY <1>5 DEF OnOrderFilled, Receives
  <2>2. phase' \in Phases /\ filled' \in Nat /\ plan' = plan /\ cancels' \subseteq Layers
        /\ running' \in BOOLEAN
    <3>1. CASE Head(events).layer \notin active
      BY <1>5, <3>1 DEF OnOrderFilled, execution
    <3>2. CASE Head(events).layer \in active /\ AcceptsFill
      <4>1. RecordFill
        BY <1>5, <3>2 DEF OnOrderFilled
      <4> QED  BY <4>1 DEF RecordFill, Phases
    <3>3. CASE Head(events).layer \in active /\ ~AcceptsFill
      <4>1. StopOnError
        BY <1>5, <3>3 DEF OnOrderFilled
      <4> QED  BY <4>1 DEF StopOnError, Phases
    <3> QED  BY <3>1, <3>2, <3>3
  <2> QED  BY <1>5, <2>1, <2>2 DEF OnOrderFilled
<1>6. CASE CloseOrderEvent
  <2>1. events' \in Seq(OrderEvents)
    BY <1>6 DEF CloseOrderEvent, Receives
  <2>2. phase' \in Phases /\ active' \subseteq Layers
    BY <1>6 DEF CloseOrderEvent, PhaseAfterClose, Phases
  <2> QED  BY <1>6, <2>1, <2>2 DEF CloseOrderEvent
<1>11. CASE ReportDropped
  <2>1. events' \in Seq(OrderEvents)
    BY <1>11 DEF ReportDropped
  <2> QED  BY <1>11, <2>1 DEF ReportDropped, execution
<1>7. CASE Stop
  BY <1>7 DEF Stop, RequestCancel, execution, market, Phases
<1>8. CASE Reset
  <2>1. engine' \in [Layers -> [state : {"none", "sent", "open", "closed"}, filled : Nat]]
    BY <1>8 DEF Reset
  <2>2. candidate' \in Candidates /\ backed' \in Candidates
    BY <1>8, NoneIsFavoured DEF Reset, Forget
  <2>3. <<>> \in Seq(OrderEvents)
    OBVIOUS
  <2> QED  BY <1>8, <2>1, <2>2, <2>3 DEF Reset, Phases
<1>9. ASSUME NEW i \in Layers,
             \/ Accepts(i) \/ RejectsOrder(i) \/ Fills(i) \/ Cancels(i) \/ RejectsCancel(i)
             \/ Expires(i)
      PROVE  TypeOK'
  <2> DEFINE Records == [state : {"none", "sent", "open", "closed"}, filled : Nat]
  <2>1. engine[i] \in Records /\ LayerSizes[i] \in Nat
    BY LayersAreFinite
  <2>2. ASSUME NEW record, NEW reports, record \in Records, reports \in Seq(OrderEvents),
               Engine(i, record, reports), cancels' \subseteq Layers
        PROVE  TypeOK'
    <3>1. engine' \in [Layers -> Records]
      BY <2>2 DEF Engine
    <3>2. events' \in Seq(OrderEvents)
      BY <2>2 DEF Engine
    <3> QED  BY <2>2, <3>1, <3>2 DEF Engine, execution
  <2>3. \A type \in {"fill", "canceled", "expired", "rejected"} :
          Reported(type, i) \in Seq(OrderEvents)
    BY DEF Reported, OrderEvents
  <2>4. CASE Accepts(i)
    <3> DEFINE record == [engine[i] EXCEPT !.state = "open"]
    <3>1. record \in Records
      BY <2>1
    <3>2. Engine(i, record, <<>>) /\ cancels' \subseteq Layers /\ <<>> \in Seq(OrderEvents)
      BY <2>4 DEF Accepts
    <3> HIDE DEF record, Records, TypeOK
    <3> QED  BY <2>2, <3>1, <3>2
  <2>5. CASE RejectsOrder(i) \/ Expires(i) \/ Cancels(i)
    <3> DEFINE record == [engine[i] EXCEPT !.state = "closed"]
    <3>1. record \in Records
      BY <2>1
    <3>2. \E type \in {"canceled", "expired", "rejected"} :
            Engine(i, record, Reported(type, i)) /\ cancels' \subseteq Layers
      BY <2>5 DEF RejectsOrder, Expires, Cancels
    <3> HIDE DEF record, Records, TypeOK
    <3> QED  BY <2>2, <2>3, <3>1, <3>2
  <2>6. CASE Fills(i)
    <3> DEFINE done == engine[i].filled + 1
               record == [state |-> IF done = LayerSizes[i] THEN "closed" ELSE "open",
                          filled |-> done]
    <3>1. record \in Records
      BY <2>1
    <3>2. Engine(i, record, Reported("fill", i)) /\ cancels' \subseteq Layers
      BY <2>6 DEF Fills
    <3> HIDE DEF record, Records, TypeOK
    <3> QED  BY <2>2, <2>3, <3>1, <3>2
  <2>7. CASE RejectsCancel(i)
    <3>1. /\ Engine(i, engine[i], <<>>) /\ cancels' \subseteq Layers
          /\ <<>> \in Seq(OrderEvents)
      BY <2>7 DEF RejectsCancel
    <3> HIDE DEF Records, TypeOK
    <3> QED  BY <2>1, <2>2, <3>1
  <2> QED  BY <1>9, <2>4, <2>5, <2>6, <2>7
<1>10. CASE UNCHANGED vars
  BY <1>10 DEF vars, execution, market
<1> QED  BY <1>1, <1>2, <1>3, <1>4, <1>5, <1>6, <1>7, <1>8, <1>9, <1>10, <1>11
         DEF Next, HandleEvent, EngineStep

(* The state of the strategy and of the engine has the types it should     *)
(* have, for all layers, sides and times (strategy.py, lifecycle.py).      *)
THEOREM StrategyTypes == Spec => []TypeOK
  BY InitTypes, StepTypes, PTL DEF Spec
-----------------------------------------------------------------------------
(* Reports on their way *)

FillsIn(reports) == {k \in DOMAIN reports : reports[k].type = "fill"}

LEMMA FillsInType ==
    ASSUME NEW e \in Seq(OrderEvents)
    PROVE  IsFiniteSet(FillsIn(e)) /\ Cardinality(FillsIn(e)) \in Nat
<1>1. FillsIn(e) \subseteq 1 .. Len(e) /\ Len(e) \in Nat
  BY DEF FillsIn
<1>2. IsFiniteSet(1 .. Len(e))
  BY <1>1, FS_Interval
<1>3. IsFiniteSet(FillsIn(e))
  BY <1>1, <1>2, FS_Subset
<1> QED  BY <1>3, FS_CardinalityType

LEMMA FillsInNone == Cardinality(FillsIn(<<>>)) = 0
<1>1. FillsIn(<<>>) = {}
  BY DEF FillsIn
<1> QED  BY <1>1, FS_EmptySet

LEMMA FillsAfterTail ==
    ASSUME NEW e \in Seq(OrderEvents), e # <<>>
    PROVE  Cardinality(FillsIn(Tail(e))) =
             Cardinality(FillsIn(e)) - (IF Head(e).type = "fill" THEN 1 ELSE 0)
<1> DEFINE F == FillsIn(e)
           G == FillsIn(Tail(e))
           shift == [k \in G |-> k + 1]
<1>1. /\ Len(e) \in Nat /\ Len(e) > 0 /\ DOMAIN e = 1 .. Len(e) /\ Head(e) = e[1]
      /\ DOMAIN Tail(e) = 1 .. (Len(e) - 1)
      /\ \A k \in 1 .. (Len(e) - 1) : Tail(e)[k] = e[k + 1]
  OBVIOUS
<1>2. G = {k \in 1 .. (Len(e) - 1) : e[k + 1].type = "fill"}
  BY <1>1 DEF FillsIn
<1>3. F = {k \in 1 .. Len(e) : e[k].type = "fill"}
  BY <1>1 DEF FillsIn
<1>4. IsFiniteSet(F) /\ IsFiniteSet(G)
  <2>1. Tail(e) \in Seq(OrderEvents)
    OBVIOUS
  <2> QED  BY <2>1, FillsInType
<1> HIDE DEF F, G
<1>5. shift \in Bijection(G, F \ {1})
  <2>1. \A k \in G : k \in Nat /\ shift[k] = k + 1 /\ k + 1 \in F \ {1}
    BY <1>1, <1>2, <1>3
  <2>2. \A m \in F \ {1} : m - 1 \in G /\ shift[m - 1] = m
    BY <1>1, <1>2, <1>3
  <2> HIDE DEF shift
  <2>3. shift \in [G -> F \ {1}]
    BY <2>1 DEF shift
  <2>4. shift \in Injection(G, F \ {1})
    BY <2>1, <2>3, Fun_IsInj
  <2>5. shift \in Surjection(G, F \ {1})
    BY <2>2, <2>3, Fun_IsSurj
  <2> QED  BY <2>4, <2>5 DEF Bijection
<1>6. Cardinality(G) = Cardinality(F \ {1})
  <2>1. IsFiniteSet(F \ {1}) /\ ExistsBijection(G, F \ {1})
    BY <1>4, <1>5, FS_Subset DEF ExistsBijection
  <2> QED  BY <1>4, <2>1, FS_Bijection
<1>7. Cardinality(F \ {1}) = IF 1 \in F THEN Cardinality(F) - 1 ELSE Cardinality(F)
  BY <1>4, FS_RemoveElement
<1>8. 1 \in F <=> Head(e).type = "fill"
  BY <1>1, <1>3
<1>9. Cardinality(F) \in Nat
  BY <1>4, FS_CardinalityType
<1>10. Cardinality(G) = Cardinality(F) - (IF Head(e).type = "fill" THEN 1 ELSE 0)
  BY <1>6, <1>7, <1>8, <1>9
<1> QED  BY <1>10 DEF F, G

LEMMA FillsAfterReport ==
    ASSUME NEW e \in Seq(OrderEvents), NEW r \in OrderEvents
    PROVE  Cardinality(FillsIn(e \o <<r>>)) =
             Cardinality(FillsIn(e)) + (IF r.type = "fill" THEN 1 ELSE 0)
<1> DEFINE all == e \o <<r>>
<1>1. /\ Len(e) \in Nat /\ DOMAIN e = 1 .. Len(e)
      /\ DOMAIN all = 1 .. (Len(e) + 1)
      /\ \A k \in 1 .. Len(e) : all[k] = e[k]
      /\ all[Len(e) + 1] = r
  OBVIOUS
<1>2. FillsIn(e) = {k \in 1 .. Len(e) : e[k].type = "fill"}
  BY <1>1 DEF FillsIn
<1>3. FillsIn(all) = {k \in 1 .. (Len(e) + 1) : all[k].type = "fill"}
  BY <1>1 DEF FillsIn
<1> HIDE DEF all
<1>4. FillsIn(all) = IF r.type = "fill" THEN FillsIn(e) \cup {Len(e) + 1} ELSE FillsIn(e)
  BY <1>1, <1>2, <1>3
<1>5. Len(e) + 1 \notin FillsIn(e)
  BY <1>1, <1>2
<1>6. IsFiniteSet(FillsIn(e)) /\ Cardinality(FillsIn(e)) \in Nat
  BY FillsInType
<1>7. Cardinality(FillsIn(e) \cup {Len(e) + 1}) = Cardinality(FillsIn(e)) + 1
  BY <1>5, <1>6, FS_AddElement
<1> QED  BY <1>4, <1>6, <1>7 DEF all

LEMMA SumOfZeros ==
    ASSUME NEW fn, \A i \in Layers : fn[i] = 0
    PROVE  SumFunctionOnSet(fn, Layers) = 0
<1>1. SumFunctionOnSet(fn, Layers) <= SumFunctionOnSet(fn, {})
  BY LayersAreFinite, SumGrows
<1>2. SumFunctionOnSet(fn, Layers) \in Nat
  BY LayersAreFinite, SumType
<1> QED  BY <1>1, <1>2, SumOfNone
-----------------------------------------------------------------------------
(* The invariant *)

Waiting == phase \in {"discovered", "monitoring"}

(* Before a placement there is nothing to report, to cancel or to count.   *)
WaitsEmpty ==
    Waiting => /\ plan = None /\ filled = 0
               /\ active = {} /\ cancels = {} /\ events = <<>> /\ missed = 0
               /\ \A i \in Layers : engine[i].state = "none"

(* The engine fills what it works, and works what the strategy holds to be *)
(* active.                                                                 *)
OrdersFit ==
    \A i \in Layers :
        /\ engine[i].filled <= LayerSizes[i]
        /\ engine[i].state \in {"none", "sent"} => engine[i].filled = 0
        /\ engine[i].state = "open" => engine[i].filled < LayerSizes[i]
        /\ engine[i].state \in {"sent", "open"} => i \in active
        /\ i \in active => engine[i].state # "none"

(* Only orders that the plan counts are executed.                          *)
PlanFits ==
    ~Waiting =>
        \E layers \in SUBSET Layers :
            /\ plan # None /\ plan.total = SharesOf(layers)
            /\ \A i \in Layers \ layers : engine[i].state = "none"

(* Every report of a fill finds its order active; the report of an end is  *)
(* the last one of its order.                                              *)
ReportsFit ==
    \A k \in DOMAIN events :
        /\ events[k].type = "fill" => events[k].layer \in active
        /\ events[k].type # "fill" =>
             /\ engine[events[k].layer].state = "closed"
             /\ \A j \in DOMAIN events : k < j => events[j].layer # events[k].layer

PhaseFits ==
    /\ phase \in OpenPhases => active # {} /\ filled < plan.total
    /\ phase = "filled" => filled = plan.total
    /\ phase \in Terminal \ {"filled"} => active = {} /\ filled <= plan.total

EndsAreReported ==
    running => \A i \in active :
        engine[i].state = "closed" =>
            \/ EndGoesUnnoticed(i)
            \/ \E k \in DOMAIN events : events[k].layer = i /\ events[k].type # "fill"

Accounts ==
    /\ WaitsEmpty /\ OrdersFit /\ PlanFits /\ ReportsFit /\ PhaseFits
    /\ EndsAreReported /\ NoFillLost

CycleInv == TypeOK /\ Accounts

LEMMA ExecutedType ==
    ASSUME TypeOK
    PROVE  /\ Executed \in Nat
           /\ PendingFills = Cardinality(FillsIn(events)) /\ PendingFills \in Nat
<1>1. \A i \in Layers : [j \in Layers |-> engine[j].filled][i] \in Nat
  BY DEF TypeOK
<1>2. Executed \in Nat
  BY <1>1, LayersAreFinite, SumType DEF Executed
<1>3. events \in Seq(OrderEvents)
  BY DEF TypeOK
<1> QED  BY <1>2, <1>3, FillsInType DEF PendingFills, FillsIn

(* What the engine has executed was planned.                               *)
LEMMA ExecutedBound ==
    ASSUME TypeOK, OrdersFit, PlanFits, ~Waiting
    PROVE  Executed <= plan.total
<1>1. PICK layers \in SUBSET Layers :
        /\ plan.total = SharesOf(layers)
        /\ \A i \in Layers \ layers : engine[i].state = "none"
  BY DEF PlanFits
<1> DEFINE fn == [i \in Layers |-> engine[i].filled]
<1>2. \A i \in Layers : fn[i] \in Nat /\ LayerSizes[i] \in Nat
  BY LayersAreFinite DEF TypeOK
<1>3. \A i \in layers : fn[i] <= LayerSizes[i]
  BY DEF OrdersFit
<1>4. \A i \in Layers : i \notin layers => fn[i] = 0
  BY <1>1 DEF OrdersFit
<1> HIDE DEF fn
<1>5. SumFunctionOnSet(fn, Layers) <= SumFunctionOnSet(LayerSizes, layers)
  BY <1>2, <1>3, <1>4, LayersAreFinite, SumGrows
<1> QED  BY <1>1, <1>5 DEF fn, Executed, SharesOf

LEMMA InitAccounts == Init => Accounts
<1> SUFFICES ASSUME Init PROVE Accounts
  OBVIOUS
<1>1. TypeOK
  BY InitTypes
<1>2. \A i \in Layers : engine[i].state = "none" /\ engine[i].filled = 0
  BY DEF Init
<1>3. WaitsEmpty /\ OrdersFit /\ PlanFits /\ ReportsFit /\ PhaseFits /\ EndsAreReported
  BY <1>2, LayersAreFinite DEF Init, WaitsEmpty, OrdersFit, PlanFits, ReportsFit, PhaseFits,
     EndsAreReported, Waiting, OpenPhases, Terminal
<1>4. NoFillLost
  <2>1. Executed = 0
    BY <1>2, SumOfZeros DEF Executed
  <2>2. PendingFills = 0
    BY <1>1, ExecutedType, FillsInNone DEF Init
  <2>3. filled = 0 /\ missed = 0
    BY DEF Init
  <2> QED  BY <2>1, <2>2, <2>3 DEF NoFillLost
<1> QED  BY <1>3, <1>4 DEF Accounts

LEMMA StillAccounts ==
    ASSUME Accounts, UNCHANGED <<plan, filled, active, engine, events, missed>>,
           running' => running,
           \/ UNCHANGED <<phase, cancels>>
           \/ phase = "order_working" /\ phase' = "cancel_requested"
    PROVE  Accounts'
<1>1. Waiting' = Waiting
  BY DEF Waiting
<1>2. NoFillLost'
  BY DEF Accounts, NoFillLost, PendingFills, Executed
<1>3. OrdersFit' /\ ReportsFit' /\ EndsAreReported'
  BY DEF Accounts, OrdersFit, ReportsFit, EndsAreReported, EndGoesUnnoticed
<1>4. WaitsEmpty'
  BY <1>1 DEF Accounts, WaitsEmpty, Waiting
<1>5. PlanFits'
  BY <1>1 DEF Accounts, PlanFits
<1>6. PhaseFits'
  BY DEF Accounts, PhaseFits, OpenPhases, Terminal
<1> QED  BY <1>2, <1>3, <1>4, <1>5, <1>6 DEF Accounts

(* A strategy starts with nothing executed.                                *)
LEMMA StartAccounts ==
    ASSUME CycleInv, Start
    PROVE  Accounts'
<1>1. /\ phase = "discovered" /\ phase' = "monitoring"
      /\ UNCHANGED <<plan, filled, active, engine, events, cancels, missed>>
  BY DEF Start, market
<1>2. /\ plan = None /\ filled = 0 /\ active = {} /\ cancels = {} /\ events = <<>>
      /\ missed = 0
      /\ \A i \in Layers : engine[i].state = "none" /\ engine[i].filled = 0
  BY <1>1 DEF CycleInv, Accounts, WaitsEmpty, OrdersFit, Waiting
<1>3. WaitsEmpty' /\ OrdersFit' /\ PlanFits' /\ ReportsFit' /\ PhaseFits' /\ EndsAreReported'
  BY <1>1, <1>2, LayersAreFinite DEF WaitsEmpty, OrdersFit, PlanFits, ReportsFit, PhaseFits,
     EndsAreReported, Waiting, OpenPhases, Terminal
<1>4. NoFillLost'
  <2>1. Executed' = 0
    BY <1>1, <1>2, SumOfZeros DEF Executed
  <2>2. PendingFills' = Cardinality(FillsIn(events'))
    BY DEF PendingFills, FillsIn
  <2> QED  BY <1>1, <1>2, <2>1, <2>2, FillsInNone DEF NoFillLost
<1> QED  BY <1>3, <1>4 DEF Accounts

LEMMA PlacingAccounts ==
    ASSUME CycleInv, TypeOK', phase = "monitoring",
           NEW s, NEW u, NEW best, Places(s, u, best), plan' \in Plans
    PROVE  Accounts'
<1>1. PICK layers \in SUBSET Layers, refused \in SUBSET Layers, denied \in SUBSET Layers :
        /\ layers # {} /\ refused \subseteq layers /\ denied \subseteq layers \ refused
        /\ DeniedInCall \/ denied = {}
        /\ Submits(s, layers, refused, denied)
  BY DEF Places
<1>2. /\ filled' = 0 /\ events' = <<>> /\ missed' = 0
      /\ \A i \in Layers : engine[i].state = "none" /\ engine[i].filled = 0
  BY DEF CycleInv, Accounts, WaitsEmpty, OrdersFit, Waiting, Places
<1>3. /\ active' = layers \ refused /\ plan'.total = SharesOf(layers)
      /\ phase' = IF active' = {} THEN "rejected" ELSE "order_working"
  BY <1>1 DEF Submits
<1>4. \A i \in Layers :
        /\ engine'[i].filled = 0
        /\ engine'[i].state = IF i \in denied THEN "closed"
                              ELSE IF i \in active' THEN "sent" ELSE "none"
  BY <1>1, <1>2, <1>3 DEF Submits
<1>5. SharesOf(layers) \in Nat /\ SharesOf(layers) > 0
  BY <1>1, SharesBound
<1>6. ~Waiting'
  BY <1>3 DEF Waiting
<1>7. WaitsEmpty'
  BY <1>6 DEF WaitsEmpty
<1>8. OrdersFit'
  BY <1>1, <1>3, <1>4, LayersAreFinite DEF OrdersFit
<1>9. PlanFits'
  <2>1. plan' # None
    BY NoneAssumption
  <2>2. \A i \in Layers \ layers : engine'[i].state = "none"
    BY <1>1, <1>3, <1>4
  <2> QED  BY <1>3, <2>1, <2>2 DEF PlanFits, SharesOf
<1>10. ReportsFit'
  BY <1>2 DEF ReportsFit
<1>11. PhaseFits'
  BY <1>2, <1>3, <1>5 DEF PhaseFits, OpenPhases, Terminal
<1>12. EndsAreReported'
  BY <1>1, <1>3, <1>4 DEF EndsAreReported, EndGoesUnnoticed
<1>13. NoFillLost'
  <2>1. Executed' = 0
    BY <1>4, SumOfZeros DEF Executed
  <2>2. PendingFills' = Cardinality(FillsIn(events'))
    BY DEF PendingFills, FillsIn
  <2>3. PendingFills' = 0
    BY <1>2, <2>2, FillsInNone
  <2> QED  BY <1>2, <2>1, <2>3 DEF NoFillLost
<1> QED  BY <1>7, <1>8, <1>9, <1>10, <1>11, <1>12, <1>13 DEF Accounts

LEMMA ResetAccounts ==
    ASSUME Reset
    PROVE  Accounts'
<1>1. \A i \in Layers : engine'[i].state = "none" /\ engine'[i].filled = 0
  BY DEF Reset
<1>2. /\ phase' = "discovered" /\ plan' = None /\ filled' = 0
      /\ active' = {} /\ cancels' = {} /\ events' = <<>> /\ missed' = 0
  BY DEF Reset
<1>3. WaitsEmpty' /\ OrdersFit' /\ PlanFits' /\ ReportsFit' /\ PhaseFits' /\ EndsAreReported'
  BY <1>1, <1>2, LayersAreFinite DEF WaitsEmpty, OrdersFit, PlanFits, ReportsFit, PhaseFits,
     EndsAreReported, Waiting, OpenPhases, Terminal
<1>4. NoFillLost'
  <2>1. Executed' = 0
    BY <1>1, SumOfZeros DEF Executed
  <2>2. PendingFills' = Cardinality(FillsIn(events'))
    BY DEF PendingFills, FillsIn
  <2> QED  BY <1>2, <2>1, <2>2, FillsInNone DEF NoFillLost
<1> QED  BY <1>3, <1>4 DEF Accounts

(* The queue without its head.                                             *)
LEMMA AfterHead ==
    ASSUME TypeOK, events # <<>>, events' = Tail(events)
    PROVE  /\ \A k \in DOMAIN events' : k + 1 \in DOMAIN events /\ events'[k] = events[k + 1]
           /\ \A k \in DOMAIN events : k # 1 => k - 1 \in DOMAIN events' /\ events'[k - 1] = events[k]
           /\ 1 \in DOMAIN events /\ Head(events) = events[1] /\ Head(events) \in OrderEvents
           /\ PendingFills' = PendingFills - (IF Head(events).type = "fill" THEN 1 ELSE 0)
<1>1. events \in Seq(OrderEvents)
  BY DEF TypeOK
<1>2. Cardinality(FillsIn(Tail(events))) =
        Cardinality(FillsIn(events)) - (IF Head(events).type = "fill" THEN 1 ELSE 0)
  BY <1>1, FillsAfterTail
<1>3. /\ PendingFills = Cardinality(FillsIn(events))
      /\ PendingFills' = Cardinality(FillsIn(events'))
  BY DEF PendingFills, FillsIn
<1>4. PendingFills' = PendingFills - (IF Head(events).type = "fill" THEN 1 ELSE 0)
  BY <1>2, <1>3
<1>5. /\ Len(events) \in Nat /\ Len(events) > 0 /\ DOMAIN events = 1 .. Len(events)
      /\ DOMAIN Tail(events) = 1 .. (Len(events) - 1)
      /\ \A k \in 1 .. (Len(events) - 1) : Tail(events)[k] = events[k + 1]
      /\ Head(events) = events[1]
  BY <1>1
<1>6. Head(events) \in OrderEvents
  BY <1>1, <1>5
<1> QED  BY <1>4, <1>5, <1>6

LEMMA DroppedAccounts ==
    ASSUME CycleInv, ReportDropped
    PROVE  Accounts'
<1>1. /\ ~running /\ ~running' /\ events # <<>> /\ events' = Tail(events)
      /\ UNCHANGED <<phase, plan, filled, active, engine, cancels>>
  BY DEF ReportDropped, execution
<1>2. ~Waiting /\ ~Waiting'
  BY <1>1 DEF CycleInv, Accounts, WaitsEmpty, Waiting
<1>3. /\ \A k \in DOMAIN events' : k + 1 \in DOMAIN events /\ events'[k] = events[k + 1]
      /\ PendingFills' = PendingFills - (IF Head(events).type = "fill" THEN 1 ELSE 0)
  BY <1>1, AfterHead DEF CycleInv
<1>4. WaitsEmpty' /\ OrdersFit' /\ PlanFits' /\ PhaseFits' /\ EndsAreReported'
  BY <1>1, <1>2 DEF CycleInv, Accounts, WaitsEmpty, OrdersFit, PlanFits, PhaseFits,
     EndsAreReported
<1>5. ReportsFit'
  <2>1. ReportsFit
    BY DEF CycleInv, Accounts
  <2>2. \A j, k \in DOMAIN events' : j < k => j + 1 < k + 1
    <3>1. DOMAIN events' \subseteq Nat
      BY <1>1 DEF CycleInv, TypeOK
    <3> QED  BY <3>1
  <2> QED  BY <1>1, <1>3, <2>1, <2>2 DEF ReportsFit
<1>6. NoFillLost'
  <2>1. Executed' = Executed
    BY <1>1 DEF Executed
  <2>2. PendingFills \in Nat /\ Executed \in Nat /\ filled \in Nat /\ missed \in Nat
    BY ExecutedType DEF CycleInv, TypeOK
  <2>3. filled + PendingFills + missed = Executed
    BY DEF CycleInv, Accounts, NoFillLost
  <2>4. missed' = missed + (IF Head(events).type = "fill" THEN 1 ELSE 0)
    BY <2>2 DEF ReportDropped
  <2> QED  BY <1>1, <1>3, <2>1, <2>2, <2>3, <2>4 DEF NoFillLost
<1> QED  BY <1>4, <1>5, <1>6 DEF Accounts

(* A fill whose report arrives finds its order active and its cycle open,  *)
(* with shares still to come.                                              *)
LEMMA FillIsAccepted ==
    ASSUME CycleInv, Receives("fill")
    PROVE  Head(events).layer \in active /\ AcceptsFill
<1>1. events \in Seq(OrderEvents) /\ events # <<>> /\ Head(events).type = "fill"
  BY DEF CycleInv, TypeOK, Receives
<1>2. 1 \in DOMAIN events /\ Head(events) = events[1]
  BY <1>1
<1>3. Head(events).layer \in active
  BY <1>1, <1>2 DEF CycleInv, Accounts, ReportsFit
<1>4. ~Waiting
  BY <1>1 DEF CycleInv, Accounts, WaitsEmpty
<1>5. Executed <= plan.total
  BY <1>4, ExecutedBound DEF CycleInv, Accounts
<1>6. PendingFills > 0
  <2>1. 1 \in FillsIn(events)
    BY <1>1, <1>2 DEF FillsIn
  <2>2. IsFiniteSet(FillsIn(events)) /\ Cardinality(FillsIn(events)) \in Nat
    BY <1>1, FillsInType
  <2>3. Cardinality(FillsIn(events)) # 0
    BY <2>1, <2>2, FS_EmptySet
  <2> QED  BY <2>2, <2>3 DEF PendingFills, FillsIn
<1>7. plan \in Plans /\ plan.total \in Nat
  BY <1>4 DEF CycleInv, Accounts, PlanFits, TypeOK, Plans
<1>8. Executed \in Nat /\ PendingFills \in Nat /\ filled \in Nat /\ missed \in Nat
  BY ExecutedType DEF CycleInv, TypeOK
<1>9. filled < plan.total
  BY <1>5, <1>6, <1>7, <1>8 DEF CycleInv, Accounts, NoFillLost
<1>10. phase \in OpenPhases
  <2>1. phase # "filled"
    BY <1>7, <1>8, <1>9 DEF CycleInv, Accounts, PhaseFits
  <2>2. phase \notin Terminal \ {"filled"}
    BY <1>3 DEF CycleInv, Accounts, PhaseFits
  <2> QED  BY <1>4, <2>1, <2>2 DEF CycleInv, TypeOK, Phases, Terminal, OpenPhases, Waiting
<1> QED  BY <1>3, <1>9, <1>10 DEF AcceptsFill

LEMMA FilledAccounts ==
    ASSUME CycleInv, OnOrderFilled
    PROVE  Accounts' /\ RecordFill
<1>1. Head(events).layer \in active /\ AcceptsFill
  BY FillIsAccepted DEF OnOrderFilled
<1>2. RecordFill /\ events # <<>> /\ events' = Tail(events) /\ Head(events).type = "fill"
  BY <1>1 DEF OnOrderFilled, Receives
<1>3. active' = active /\ engine' = engine /\ missed' = missed
  BY DEF OnOrderFilled
<1>4. filled' = filled + 1 /\ plan' = plan /\ running' = running
      /\ phase' = IF filled' = plan.total THEN "filled" ELSE phase
  BY <1>2 DEF RecordFill
<1>5. /\ \A k \in DOMAIN events' : k + 1 \in DOMAIN events /\ events'[k] = events[k + 1]
      /\ \A k \in DOMAIN events : k # 1 => k - 1 \in DOMAIN events' /\ events'[k - 1] = events[k]
      /\ 1 \in DOMAIN events /\ Head(events) = events[1]
      /\ PendingFills' = PendingFills - 1
  BY <1>2, AfterHead DEF CycleInv
<1>6. phase \in OpenPhases /\ filled < plan.total /\ ~Waiting
  BY <1>1 DEF AcceptsFill, OpenPhases, Waiting
<1>7. filled \in Nat /\ plan.total \in Nat
  BY <1>6 DEF CycleInv, TypeOK, Accounts, PlanFits, Plans
<1>8. ~Waiting' /\ WaitsEmpty'
  BY <1>4, <1>6 DEF WaitsEmpty, Waiting, OpenPhases
<1>9. OrdersFit' /\ PlanFits'
  BY <1>3, <1>4, <1>6 DEF CycleInv, Accounts, OrdersFit, PlanFits, Waiting
<1>10. ReportsFit'
  <2>1. DOMAIN events \subseteq Nat /\ DOMAIN events' \subseteq Nat
    BY <1>2 DEF CycleInv, TypeOK
  <2>2. ReportsFit
    BY DEF CycleInv, Accounts
  <2>3. \A j, k \in DOMAIN events' : j < k => j + 1 < k + 1
    BY <2>1
  <2> QED  BY <1>3, <1>5, <2>2, <2>3 DEF ReportsFit
<1>11. PhaseFits'
  <2>1. PhaseFits
    BY DEF CycleInv, Accounts
  <2> QED  BY <1>3, <1>4, <1>6, <1>7, <2>1 DEF PhaseFits, OpenPhases, Terminal
<1>12. EndsAreReported'
  <2>1. EndsAreReported
    BY DEF CycleInv, Accounts
  <2>2. ASSUME NEW k \in DOMAIN events, events[k].type # "fill"
        PROVE  k - 1 \in DOMAIN events' /\ events'[k - 1] = events[k]
    BY <1>2, <1>5, <2>2
  <2> QED  BY <1>3, <1>4, <2>1, <2>2 DEF EndsAreReported, EndGoesUnnoticed
<1>13. NoFillLost'
  <2>1. Executed' = Executed
    BY <1>3 DEF Executed
  <2>2. PendingFills \in Nat /\ Executed \in Nat /\ missed \in Nat
    BY ExecutedType DEF CycleInv, TypeOK
  <2> QED  BY <1>3, <1>4, <1>5, <1>7, <2>1, <2>2 DEF CycleInv, Accounts, NoFillLost
<1> QED  BY <1>2, <1>8, <1>9, <1>10, <1>11, <1>12, <1>13 DEF Accounts

LEMMA ClosedAccounts ==
    ASSUME CycleInv, CloseOrderEvent
    PROVE  Accounts'
<1>1. events # <<>> /\ events' = Tail(events) /\ Head(events).type # "fill"
  BY DEF CloseOrderEvent, Receives
<1>2. /\ filled' = filled /\ engine' = engine /\ plan' = plan /\ cancels' = cancels
      /\ running' = running /\ missed' = missed
  BY DEF CloseOrderEvent
<1>3. /\ \A k \in DOMAIN events' : k + 1 \in DOMAIN events /\ events'[k] = events[k + 1]
      /\ \A k \in DOMAIN events : k # 1 => k - 1 \in DOMAIN events' /\ events'[k - 1] = events[k]
      /\ 1 \in DOMAIN events /\ Head(events) = events[1]
      /\ PendingFills' = PendingFills
  BY <1>1, AfterHead, ExecutedType DEF CycleInv
<1>4. DOMAIN events \subseteq Nat \ {0} /\ DOMAIN events' \subseteq Nat \ {0}
  BY <1>1 DEF CycleInv, TypeOK
<1> DEFINE i == Head(events).layer
<1>5. /\ engine[i].state = "closed"
      /\ \A k \in DOMAIN events' : events'[k].layer # i
  <2>1. \A k \in DOMAIN events' : 1 < k + 1
    BY <1>4
  <2> QED  BY <1>1, <1>3, <2>1 DEF CycleInv, Accounts, ReportsFit
<1>6. active' = active \ {i}
  BY DEF CloseOrderEvent
<1>7. phase' = IF i \in active THEN PhaseAfterClose(active', Head(events).type = "rejected")
               ELSE phase
  BY DEF CloseOrderEvent
<1> HIDE DEF i
<1>8. ~Waiting /\ ~Waiting' /\ WaitsEmpty'
  <2>1. ~Waiting
    BY <1>1 DEF CycleInv, Accounts, WaitsEmpty
  <2> QED  BY <1>7, <2>1 DEF Waiting, WaitsEmpty, PhaseAfterClose
<1>9. OrdersFit' /\ PlanFits'
  BY <1>2, <1>5, <1>6, <1>8 DEF CycleInv, Accounts, OrdersFit, PlanFits
<1>10. ReportsFit'
  <2>1. ReportsFit
    BY DEF CycleInv, Accounts
  <2>2. \A j, k \in DOMAIN events' : j < k => j + 1 < k + 1
    BY <1>4
  <2> QED  BY <1>2, <1>3, <1>5, <1>6, <2>1, <2>2 DEF ReportsFit
<1>11. PhaseFits'
  <2>1. PhaseFits /\ filled \in Nat
    BY DEF CycleInv, Accounts, TypeOK
  <2>2. CASE i \notin active
    <3>1. active' = active /\ phase' = phase
      BY <1>6, <1>7, <2>2
    <3> QED  BY <1>2, <2>1, <3>1 DEF PhaseFits
  <2>3. CASE i \in active /\ active' # {}
    <3>1. phase' = phase
      BY <1>7, <2>3 DEF PhaseAfterClose
    <3> QED  BY <1>2, <1>6, <2>1, <2>3, <3>1 DEF PhaseFits
  <2>4. CASE i \in active /\ active' = {} /\ phase \in OpenPhases
    <3>1. phase' \in {"rejected", "partially_filled", "canceled"}
      BY <1>7, <2>4 DEF PhaseAfterClose, OpenPhases
    <3>2. filled <= plan.total
      <4>1. plan.total \in Nat
        BY <1>8 DEF CycleInv, TypeOK, Accounts, PlanFits, Plans
      <4> QED  BY <2>1, <2>4, <4>1 DEF PhaseFits
    <3> QED  BY <1>2, <2>4, <3>1, <3>2 DEF PhaseFits, OpenPhases
  <2>5. CASE i \in active /\ active' = {} /\ phase \notin OpenPhases
    <3>1. phase' = phase
      BY <1>7, <2>5 DEF PhaseAfterClose, OpenPhases
    <3> QED  BY <1>2, <2>1, <2>5, <3>1 DEF PhaseFits
  <2> QED  BY <2>2, <2>3, <2>4, <2>5
<1>12. EndsAreReported'
  <2>1. EndsAreReported
    BY DEF CycleInv, Accounts
  <2>2. ASSUME NEW k \in DOMAIN events, events[k].layer # i
        PROVE  k - 1 \in DOMAIN events' /\ events'[k - 1] = events[k]
    BY <1>3, <2>2 DEF i
  <2> QED  BY <1>2, <1>6, <2>1, <2>2 DEF EndsAreReported, EndGoesUnnoticed
<1>13. NoFillLost'
  <2>1. Executed' = Executed
    BY <1>2 DEF Executed
  <2> QED  BY <1>2, <1>3, <2>1 DEF CycleInv, Accounts, NoFillLost
<1> QED  BY <1>8, <1>9, <1>10, <1>11, <1>12, <1>13 DEF Accounts

(* What the engine does to one order: one more share, or an end.           *)
LEMMA EngineAccounts ==
    ASSUME CycleInv, NEW i \in Layers, NEW record, NEW reports,
           Engine(i, record, reports), cancels' \subseteq cancels,
           \/ /\ engine[i].state = "sent" /\ reports = <<>>
              /\ record = [engine[i] EXCEPT !.state = "open"]
           \/ /\ engine[i].state \in {"sent", "open"}
              /\ record = [engine[i] EXCEPT !.state = "closed"]
              /\ \E type \in {"canceled", "expired", "rejected"} : reports = Reported(type, i)
           \/ /\ engine[i].state = "open" /\ reports = Reported("fill", i)
              /\ record = [state |-> IF engine[i].filled + 1 = LayerSizes[i]
                                     THEN "closed" ELSE "open",
                           filled |-> engine[i].filled + 1]
    PROVE  Accounts'
<1>1. /\ engine[i].state \in {"sent", "open"} /\ engine[i].filled \in Nat
      /\ LayerSizes[i] \in Nat /\ LayerSizes[i] > 0
      /\ engine[i] \in [state : {"none", "sent", "open", "closed"}, filled : Nat]
  BY LayersAreFinite DEF CycleInv, TypeOK
<1>2. /\ engine'[i] = record /\ \A j \in Layers : j # i => engine'[j] = engine[j]
      /\ \A j \in Layers : engine[j].filled \in Nat
  BY DEF Engine, CycleInv, TypeOK
<1>3. UNCHANGED <<running, phase, plan, filled, active, missed>> /\ events' = events \o reports
  BY DEF Engine, execution
<1>4. i \in active /\ ~Waiting /\ ~Waiting' /\ WaitsEmpty'
  BY <1>1, <1>3 DEF CycleInv, Accounts, OrdersFit, WaitsEmpty, Waiting
<1>5. events \in Seq(OrderEvents)
  BY DEF CycleInv, TypeOK
<1>6. PlanFits'
  <2>1. PICK layers \in SUBSET Layers :
          /\ plan # None /\ plan.total = SharesOf(layers)
          /\ \A j \in Layers \ layers : engine[j].state = "none"
    BY <1>4 DEF CycleInv, Accounts, PlanFits
  <2>2. \A j \in Layers \ layers : engine'[j].state = "none"
    BY <1>1, <1>2, <2>1
  <2> QED  BY <1>3, <2>1, <2>2 DEF PlanFits, SharesOf
<1>7. PhaseFits'
  BY <1>3 DEF CycleInv, Accounts, PhaseFits
<1>8. ASSUME record.filled = engine[i].filled
      PROVE  Executed' = Executed
  <2>1. \A j \in Layers : engine'[j].filled = engine[j].filled
    BY <1>2, <1>8
  <2> QED  BY <2>1, LayersAreFinite, SumAgrees DEF Executed
<1>9. CASE record = [engine[i] EXCEPT !.state = "open"] /\ reports = <<>>
           /\ engine[i].state = "sent"
  <2>1. record.state = "open" /\ record.filled = engine[i].filled /\ events' = events
    BY <1>1, <1>3, <1>5, <1>9
  <2>2. NoFillLost'
    BY <1>3, <1>8, <2>1 DEF CycleInv, Accounts, NoFillLost, PendingFills
  <2>3. OrdersFit'
    BY <1>1, <1>2, <1>3, <1>4, <1>9, <2>1 DEF CycleInv, Accounts, OrdersFit
  <2>4. ReportsFit'
    <3>1. \A k \in DOMAIN events : events[k].layer \in Layers
      <4>1. \A k \in DOMAIN events : events[k] \in OrderEvents
        BY <1>5
      <4> QED  BY <4>1 DEF OrderEvents
    <3>2. ReportsFit
      BY DEF CycleInv, Accounts
    <3>3. \A j \in Layers : engine[j].state = "closed" => engine'[j].state = "closed"
      BY <1>2, <1>9
    <3> QED  BY <1>3, <2>1, <3>1, <3>2, <3>3 DEF ReportsFit
  <2>5. EndsAreReported'
    BY <1>2, <1>3, <2>1 DEF CycleInv, Accounts, EndsAreReported, EndGoesUnnoticed, TypeOK
  <2> QED  BY <1>4, <1>6, <1>7, <2>2, <2>3, <2>4, <2>5 DEF Accounts
<1>10. ASSUME NEW r \in OrderEvents, r.layer = i, reports = <<r>>
       PROVE  /\ DOMAIN events' = 1 .. (Len(events) + 1) /\ DOMAIN events = 1 .. Len(events)
              /\ Len(events) \in Nat
              /\ \A k \in DOMAIN events : events'[k] = events[k] /\ events[k].layer \in Layers
              /\ events'[Len(events) + 1] = r
              /\ PendingFills' = PendingFills + (IF r.type = "fill" THEN 1 ELSE 0)
              /\ \A k \in DOMAIN events : events[k].type # "fill" => events[k].layer # i
  <2>1. /\ Len(events) \in Nat /\ DOMAIN events = 1 .. Len(events)
        /\ DOMAIN (events \o <<r>>) = 1 .. (Len(events) + 1)
        /\ \A k \in 1 .. Len(events) : (events \o <<r>>)[k] = events[k]
        /\ (events \o <<r>>)[Len(events) + 1] = r
        /\ \A k \in 1 .. Len(events) : events[k] \in OrderEvents
    BY <1>5
  <2>2. Cardinality(FillsIn(events \o <<r>>)) =
          Cardinality(FillsIn(events)) + (IF r.type = "fill" THEN 1 ELSE 0)
    BY <1>5, FillsAfterReport
  <2>3. /\ PendingFills = Cardinality(FillsIn(events))
        /\ PendingFills' = Cardinality(FillsIn(events'))
    BY DEF PendingFills, FillsIn
  <2>4. PendingFills' = PendingFills + (IF r.type = "fill" THEN 1 ELSE 0)
    BY <1>3, <1>10, <2>2, <2>3
  <2>5. \A k \in DOMAIN events : events[k].type # "fill" => events[k].layer # i
    BY <1>1 DEF CycleInv, Accounts, ReportsFit
  <2> QED  BY <1>3, <1>10, <2>1, <2>4, <2>5 DEF OrderEvents
<1>11. ASSUME NEW r \in OrderEvents, r.layer = i, reports = <<r>>,
              r.type # "fill" => record.state = "closed"
       PROVE  ReportsFit'
  <2>1. /\ DOMAIN events' = 1 .. (Len(events) + 1) /\ DOMAIN events = 1 .. Len(events)
        /\ Len(events) \in Nat
        /\ \A k \in DOMAIN events : events'[k] = events[k] /\ events[k].layer \in Layers
        /\ events'[Len(events) + 1] = r
        /\ \A k \in DOMAIN events : events[k].type # "fill" => events[k].layer # i
    BY <1>10, <1>11
  <2>2. ReportsFit
    BY DEF CycleInv, Accounts
  <2>3. ASSUME NEW k \in DOMAIN events
        PROVE  /\ events'[k].type = "fill" => events'[k].layer \in active'
               /\ events'[k].type # "fill" =>
                    /\ engine'[events'[k].layer].state = "closed"
                    /\ \A j \in DOMAIN events' : k < j => events'[j].layer # events'[k].layer
    <3>1. events'[k].type = "fill" => events'[k].layer \in active'
      BY <1>3, <2>1, <2>2 DEF ReportsFit
    <3>2. ASSUME events'[k].type # "fill"
          PROVE  /\ engine'[events'[k].layer].state = "closed"
                 /\ \A j \in DOMAIN events : k < j => events'[j].layer # events'[k].layer
                 /\ events'[k].layer # i
      BY <1>2, <2>1, <2>2, <3>2 DEF ReportsFit
    <3>3. \A j \in DOMAIN events' : j \in DOMAIN events \/ events'[j] = r
      BY <2>1
    <3> QED  BY <1>11, <3>1, <3>2, <3>3
  <2>4. ASSUME NEW k \in DOMAIN events', k \notin DOMAIN events
        PROVE  /\ events'[k] = r
               /\ \A j \in DOMAIN events' : ~(k < j)
    BY <2>1, <2>4
  <2>5. ASSUME NEW k \in DOMAIN events', k \notin DOMAIN events
        PROVE  /\ events'[k].type = "fill" => events'[k].layer \in active'
               /\ events'[k].type # "fill" =>
                    /\ engine'[events'[k].layer].state = "closed"
                    /\ \A j \in DOMAIN events' : k < j => events'[j].layer # events'[k].layer
    BY <1>2, <1>3, <1>4, <1>11, <2>4, <2>5
  <2> QED  BY <2>3, <2>5 DEF ReportsFit
<1>12. CASE /\ record = [engine[i] EXCEPT !.state = "closed"]
            /\ \E type \in {"canceled", "expired", "rejected"} : reports = Reported(type, i)
  <2>1. record.state = "closed" /\ record.filled = engine[i].filled
    BY <1>1, <1>12
  <2>2. PICK r \in OrderEvents : r.layer = i /\ reports = <<r>> /\ r.type # "fill"
    BY <1>12 DEF Reported, OrderEvents
  <2>3. NoFillLost'
    <3>1. PendingFills' = PendingFills
      BY <1>10, <2>2, ExecutedType DEF CycleInv
    <3> QED  BY <1>3, <1>8, <2>1, <3>1 DEF CycleInv, Accounts, NoFillLost
  <2>4. OrdersFit'
    BY <1>1, <1>2, <1>3, <1>4, <2>1 DEF CycleInv, Accounts, OrdersFit
  <2>5. ReportsFit'
    BY <1>11, <2>1, <2>2
  <2>6. EndsAreReported'
    <3>1. \A k \in DOMAIN events : k \in DOMAIN events' /\ events'[k] = events[k]
      BY <1>10, <2>2
    <3>2. \E k \in DOMAIN events' : events'[k].layer = i /\ events'[k].type # "fill"
      <4>1. Len(events) + 1 \in DOMAIN events' /\ events'[Len(events) + 1] = r
        BY <1>10, <2>2
      <4> QED  BY <2>2, <4>1
    <3>3. active \subseteq Layers
      BY DEF CycleInv, TypeOK
    <3> QED  BY <1>2, <1>3, <3>1, <3>2, <3>3 DEF CycleInv, Accounts, EndsAreReported,
                EndGoesUnnoticed
  <2> QED  BY <1>4, <1>6, <1>7, <2>3, <2>4, <2>5, <2>6 DEF Accounts
<1>13. CASE /\ engine[i].state = "open" /\ reports = Reported("fill", i)
            /\ record = [state |-> IF engine[i].filled + 1 = LayerSizes[i]
                                   THEN "closed" ELSE "open",
                         filled |-> engine[i].filled + 1]
  <2>1. /\ record.filled = engine[i].filled + 1
        /\ record.state = IF record.filled = LayerSizes[i] THEN "closed" ELSE "open"
    BY <1>13
  <2>2. PICK r \in OrderEvents : r.layer = i /\ reports = <<r>> /\ r.type = "fill"
    BY <1>13 DEF Reported, OrderEvents
  <2>3. NoFillLost'
    <3>1. PendingFills' = PendingFills + 1
      BY <1>10, <2>2
    <3>2. Executed' = Executed + 1
      <4> DEFINE fn == [j \in Layers |-> engine[j].filled]
                 gn == [j \in Layers |-> engine'[j].filled]
      <4>1. /\ \A j \in Layers : fn[j] \in Nat /\ gn[j] \in Nat
            /\ \A j \in Layers : j # i => gn[j] = fn[j]
            /\ gn[i] = fn[i] + 1
        BY <1>1, <1>2, <2>1
      <4>2. fn[i] \in Nat /\ Executed = SumFunctionOnSet(fn, Layers)
            /\ Executed' = SumFunctionOnSet(gn, Layers)
        BY <1>1 DEF Executed
      <4> HIDE DEF fn, gn
      <4>3. SumFunctionOnSet(gn, Layers) = SumFunctionOnSet(fn, Layers) + gn[i] - fn[i]
        <5>1. IsFiniteSet(Layers)
          BY LayersAreFinite
        <5>2. \A f, g : /\ \A j \in Layers : f[j] \in Nat /\ g[j] \in Nat
                        /\ \A j \in Layers : j # i => g[j] = f[j]
                        => SumFunctionOnSet(g, Layers) = SumFunctionOnSet(f, Layers) + g[i] - f[i]
          BY <5>1, SumAfterUpdate
        <5> QED  BY <4>1, <5>2
      <4>4. Executed \in Nat
        BY ExecutedType DEF CycleInv
      <4> QED  BY <4>1, <4>2, <4>3, <4>4
    <3>3. Executed \in Nat /\ PendingFills \in Nat /\ filled \in Nat /\ missed \in Nat
      BY ExecutedType DEF CycleInv, TypeOK
    <3>4. NoFillLost
      BY DEF CycleInv, Accounts
    <3>5. filled' = filled /\ missed' = missed
      BY <1>3
    <3> QED  BY <3>1, <3>2, <3>3, <3>4, <3>5 DEF NoFillLost
  <2>4. OrdersFit'
    <3>1. record.filled <= LayerSizes[i]
          /\ (record.state = "open" => record.filled < LayerSizes[i])
          /\ record.state \in {"open", "closed"}
      BY <1>1, <1>13, <2>1 DEF CycleInv, Accounts, OrdersFit
    <3> QED  BY <1>2, <1>3, <1>4, <3>1 DEF CycleInv, Accounts, OrdersFit
  <2>5. ReportsFit'
    BY <1>11, <2>2
  <2>6. EndsAreReported'
    <3>1. \A k \in DOMAIN events : k \in DOMAIN events' /\ events'[k] = events[k]
      BY <1>10, <2>2
    <3>2. engine'[i].state = "closed" => EndGoesUnnoticed(i)'
      BY <1>2, <2>1 DEF EndGoesUnnoticed
    <3>3. active \subseteq Layers
      BY DEF CycleInv, TypeOK
    <3> QED  BY <1>2, <1>3, <3>1, <3>2, <3>3 DEF CycleInv, Accounts, EndsAreReported,
                EndGoesUnnoticed
  <2> QED  BY <1>4, <1>6, <1>7, <2>3, <2>4, <2>5, <2>6 DEF Accounts
<1> QED  BY <1>9, <1>12, <1>13

LEMMA StepAccounts ==
    ASSUME CycleInv, [Next]_vars
    PROVE  CycleInv'
<1>1. TypeOK'
  BY StepTypes DEF CycleInv
<1>2. ASSUME Still, running' => running
      PROVE  Accounts'
  BY <1>2, StillAccounts DEF Still, execution, market, CycleInv
<1>3. ASSUME phase = "order_working", RequestCancel, running' => running
      PROVE  Accounts'
  BY <1>3, StillAccounts DEF RequestCancel, CycleInv
<1>4. ASSUME NEW s \in Signals \cup {None}, NEW u \in BOOLEAN, NEW best \in Sides \cup {None},
             ProcessSignal(s, u, best), running' => running
      PROVE  Accounts'
  <2>1. CASE s = None
    <3>1. Still
      BY <1>4, <2>1 DEF ProcessSignal, Still
    <3> QED  BY <1>2, <1>4, <3>1
  <2>2. ASSUME s \in Signals, phase = "monitoring", Places(s, u, best)
        PROVE  Accounts'
    <3>1. plan' \in Plans
      BY <2>2, PlacesType DEF CycleInv
    <3> QED  BY <1>1, <2>2, <3>1, PlacingAccounts
  <2>3. running' => running
    BY <1>4
  <2> QED  BY <1>2, <1>3, <1>4, <2>1, <2>2, <2>3, Decisions
<1>5. CASE Start
  BY <1>1, <1>5, StartAccounts DEF CycleInv
<1>6. CASE OnData
  <2>1. PICK age \in SignalAges, clean \in BOOLEAN, best \in Sides \cup {None} :
          /\ signal' = [at |-> now, age |-> age, clean |-> clean]
          /\ ProcessSignal(signal', usable, best)
    BY <1>6 DEF OnData
  <2> DEFINE s == signal'
  <2>2. s \in Signals \cup {None} /\ ProcessSignal(s, usable, best)
    BY <1>1, <2>1 DEF TypeOK
  <2>3. usable \in BOOLEAN /\ running' = running
    BY <1>6 DEF OnData, CycleInv, TypeOK
  <2> HIDE DEF s
  <2> QED  BY <1>1, <1>4, <2>2, <2>3 DEF CycleInv
<1>7. CASE OnOrderBookDeltas
  <2>1. PICK best \in Sides \cup {None} : ProcessSignal(signal, usable', best)
    BY <1>7 DEF OnOrderBookDeltas
  <2> DEFINE u == usable'
  <2>2. u \in BOOLEAN /\ ProcessSignal(signal, u, best)
    BY <1>1, <2>1 DEF TypeOK
  <2>3. signal \in Signals \cup {None} /\ running' = running
    BY <1>7 DEF OnOrderBookDeltas, CycleInv, TypeOK
  <2> HIDE DEF u
  <2> QED  BY <1>1, <1>4, <2>2, <2>3 DEF CycleInv
<1>8. CASE Tick \/ UNCHANGED vars
  <2>1. Still /\ running' = running
    BY <1>8 DEF Tick, vars, Still, execution
  <2> QED  BY <1>1, <1>2, <2>1 DEF CycleInv
<1>9. CASE HandleEvent
  BY <1>1, <1>9, FilledAccounts, ClosedAccounts DEF HandleEvent, CycleInv
<1>10. CASE Stop
  <2>1. (Still \/ (phase = "order_working" /\ RequestCancel)) /\ ~running'
    BY <1>10 DEF Stop, Still
  <2> QED  BY <1>1, <1>2, <1>3, <2>1 DEF CycleInv
<1>13. CASE ReportDropped
  BY <1>1, <1>13, DroppedAccounts DEF CycleInv
<1>11. CASE Reset
  BY <1>1, <1>11, ResetAccounts DEF CycleInv
<1>12. ASSUME NEW i \in Layers,
              \/ Accepts(i) \/ RejectsOrder(i) \/ Fills(i) \/ Cancels(i) \/ RejectsCancel(i)
              \/ Expires(i)
       PROVE  Accounts'
  <2>1. CASE Accepts(i)
    BY <2>1, EngineAccounts DEF Accepts
  <2>2. CASE RejectsOrder(i) \/ Expires(i) \/ Cancels(i)
    <3>1. /\ engine[i].state \in {"sent", "open"} /\ cancels' \subseteq cancels
          /\ \E type \in {"canceled", "expired", "rejected"} :
               Engine(i, [engine[i] EXCEPT !.state = "closed"], Reported(type, i))
      BY <2>2 DEF RejectsOrder, Expires, Cancels
    <3> QED  BY <3>1, EngineAccounts
  <2>3. CASE Fills(i)
    BY <2>3, EngineAccounts DEF Fills
  <2>4. CASE RejectsCancel(i)
    <3>1. engine' = engine
      BY <2>4 DEF RejectsCancel, Engine, CycleInv, TypeOK
    <3>2. events' = events
      <4>1. events \in Seq(OrderEvents) /\ events' = events \o <<>>
        BY <2>4 DEF RejectsCancel, Engine, CycleInv, TypeOK
      <4> QED  BY <4>1
    <3>3. UNCHANGED <<running, phase, plan, filled, active, missed>> /\ cancels' = cancels \ {i}
      BY <2>4 DEF RejectsCancel, Engine, execution
    <3>4. Accounts
      BY DEF CycleInv
    <3> QED
      BY <3>1, <3>2, <3>3, <3>4 DEF Accounts, WaitsEmpty, OrdersFit, PlanFits, ReportsFit,
         PhaseFits, EndsAreReported, NoFillLost, Waiting, EndGoesUnnoticed, PendingFills, Executed
  <2> QED  BY <1>12, <2>1, <2>2, <2>3, <2>4
<1> QED
  BY <1>1, <1>5, <1>6, <1>7, <1>8, <1>9, <1>10, <1>11, <1>12, <1>13
  DEF Next, EngineStep, CycleInv

LEMMA CycleInvariant == Spec => []CycleInv
<1>1. Init => CycleInv
  BY InitTypes, InitAccounts DEF CycleInv
<1>2. CycleInv /\ [Next]_vars => CycleInv'
  BY StepAccounts
<1> QED  BY <1>1, <1>2, PTL DEF Spec

(* No fill is lost, whatever it races: a cancellation or the end of        *)
(* another layer; and none is counted twice (strategy.py: on_order_filled; *)
(* lifecycle.py: record_fill).                                             *)
THEOREM FillsAreKept == Spec => []NoFillLost
<1>1. CycleInv => NoFillLost
  BY DEF CycleInv, Accounts
<1> QED  BY <1>1, CycleInvariant, PTL

(* A cycle stays open only for an order that the engine still works, or    *)
(* whose end it does not report as one (strategy.py: _close_order_event).  *)
THEOREM OpenCycleHasOrders == Spec => []CycleWaitsForOrders
<1>1. CycleInv => CycleWaitsForOrders
  <2> SUFFICES ASSUME CycleInv, running, phase \in OpenPhases, events = <<>>,
                      \A i \in Layers : engine[i].state \notin {"sent", "open"}
               PROVE  \E i \in active : EndGoesUnnoticed(i)
    BY DEF CycleWaitsForOrders
  <2>1. PICK i \in active : TRUE
    BY DEF CycleInv, Accounts, PhaseFits
  <2>2. engine[i].state = "closed"
    BY DEF CycleInv, TypeOK, Accounts, OrdersFit
  <2> QED  BY <2>2 DEF CycleInv, Accounts, EndsAreReported
<1> QED  BY <1>1, CycleInvariant, PTL
-----------------------------------------------------------------------------
(* One placement cycle per life *)

Planned == IF plan = None THEN 0 ELSE plan.total
Promised == <<running, Stage, filled, Planned>>

LEMMA InitKeeps == Init => Cycle!Init
  BY DEF Init, Cycle!Init, Stage, OpenPhases, Terminal

LEMMA PlacingKeeps ==
    ASSUME CycleInv, running, running' = running, phase = "monitoring",
           NEW s \in Signals, NEW u \in BOOLEAN, NEW best \in Sides \cup {None},
           Places(s, u, best)
    PROVE  Cycle!Next
<1>1. PICK layers \in SUBSET Layers, refused \in SUBSET Layers, denied \in SUBSET Layers :
        layers # {} /\ Submits(s, layers, refused, denied)
  BY DEF Places
<1>2. phase' \in {"rejected", "order_working"} /\ plan'.total = SharesOf(layers)
  BY <1>1 DEF Submits
<1>3. filled' = filled /\ plan' \in Plans
  BY PlacesType DEF CycleInv
<1>4. SharesOf(layers) \in 1 .. SharesOf(Layers)
  BY <1>1, SharesBound
<1>5. plan' # None
  BY <1>3, NoneAssumption
<1>6. Stage = "waiting" /\ Stage' \in {"working", "ended"}
  BY <1>2 DEF Stage, OpenPhases, Terminal
<1> QED  BY <1>2, <1>3, <1>4, <1>5, <1>6 DEF Cycle!Next, Cycle!Place

LEMMA StepKeeps ==
    ASSUME CycleInv, [Next]_vars
    PROVE  [Cycle!Next]_Promised
<1>1. ASSUME running' = running, UNCHANGED <<phase, plan, filled>>
      PROVE  UNCHANGED Promised
  BY <1>1 DEF Promised, Stage, Planned
<1>2. ASSUME running' = running, phase = "order_working", RequestCancel
      PROVE  UNCHANGED Promised
  BY <1>2 DEF RequestCancel, Promised, Stage, Planned, OpenPhases, Terminal
<1>3. ASSUME running, running' = running, NEW s \in Signals \cup {None}, NEW u \in BOOLEAN,
             NEW best \in Sides \cup {None}, ProcessSignal(s, u, best)
      PROVE  [Cycle!Next]_Promised
  <2>1. CASE s = None
    <3>1. Still
      BY <1>3, <2>1 DEF ProcessSignal, Still
    <3> QED  BY <1>1, <1>3, <3>1 DEF Still, execution
  <2>2. CASE s \in Signals
    BY <1>1, <1>2, <1>3, <2>2, Decisions, PlacingKeeps DEF Still, execution
  <2> QED  BY <2>1, <2>2
<1>4. CASE Start
  <2>1. Stage' = Stage /\ running' = ~running /\ plan' = plan /\ filled' = filled
    BY <1>4 DEF Start, Stage, OpenPhases, Terminal, CycleInv, TypeOK
  <2>2. Cycle!Toggle
    BY <2>1 DEF Cycle!Toggle
  <2> QED  BY <2>2 DEF Cycle!Next
<1>5. TypeOK'
  BY StepTypes DEF CycleInv
<1>6. CASE OnData
  <2>1. PICK age \in SignalAges, clean \in BOOLEAN, best \in Sides \cup {None} :
          /\ signal' = [at |-> now, age |-> age, clean |-> clean]
          /\ ProcessSignal(signal', usable, best)
    BY <1>6 DEF OnData
  <2> DEFINE s == signal'
  <2>2. s \in Signals \cup {None} /\ ProcessSignal(s, usable, best)
    BY <1>5, <2>1 DEF TypeOK
  <2>3. usable \in BOOLEAN /\ running /\ running' = running
    BY <1>6 DEF OnData, CycleInv, TypeOK
  <2> HIDE DEF s
  <2> QED  BY <1>3, <2>2, <2>3
<1>7. CASE OnOrderBookDeltas
  <2>1. PICK best \in Sides \cup {None} : ProcessSignal(signal, usable', best)
    BY <1>7 DEF OnOrderBookDeltas
  <2> DEFINE u == usable'
  <2>2. u \in BOOLEAN /\ ProcessSignal(signal, u, best)
    BY <1>5, <2>1 DEF TypeOK
  <2>3. signal \in Signals \cup {None} /\ running /\ running' = running
    BY <1>7 DEF OnOrderBookDeltas, CycleInv, TypeOK
  <2> HIDE DEF u
  <2> QED  BY <1>3, <2>2, <2>3
<1>8. CASE Tick \/ UNCHANGED vars
  BY <1>1, <1>8 DEF Tick, vars, execution
<1>9. CASE OnOrderFilled
  <2>1. RecordFill /\ running' = running /\ running
    BY <1>9, FilledAccounts DEF OnOrderFilled, RecordFill, Receives
  <2>2. phase \in OpenPhases /\ filled < plan.total
    BY <1>9, FillIsAccepted DEF OnOrderFilled, AcceptsFill
  <2>3. /\ plan # None /\ plan' = plan /\ filled' = filled + 1
        /\ phase' = IF filled' = plan.total THEN "filled" ELSE phase
        /\ filled \in Nat /\ plan.total \in Nat
    BY <2>1, <2>2 DEF RecordFill, CycleInv, TypeOK, Plans, Accounts, PlanFits, Waiting, OpenPhases
  <2>4. Stage = "working" /\ Stage' = IF filled' = plan.total THEN "ended" ELSE "working"
    BY <2>2, <2>3 DEF Stage, OpenPhases, Terminal
  <2>5. Cycle!Buy
    BY <2>1, <2>2, <2>3, <2>4 DEF Cycle!Buy
  <2> QED  BY <2>5 DEF Cycle!Next
<1>10. CASE CloseOrderEvent
  <2>1. running /\ running' = running /\ filled' = filled /\ plan' = plan
    BY <1>10 DEF CloseOrderEvent, Receives
  <2>2. \/ phase' = phase
        \/ phase \in OpenPhases /\ phase' \in {"rejected", "partially_filled", "canceled"}
    BY <1>10 DEF CloseOrderEvent, PhaseAfterClose, OpenPhases
  <2>3. CASE phase' = phase
    BY <1>1, <2>1, <2>3
  <2>4. CASE phase \in OpenPhases /\ phase' \in {"rejected", "partially_filled", "canceled"}
    <3>1. Stage = "working" /\ Stage' = "ended"
      BY <2>4 DEF Stage, OpenPhases, Terminal
    <3>2. Cycle!End
      BY <2>1, <3>1 DEF Cycle!End
    <3> QED  BY <3>2 DEF Cycle!Next
  <2> QED  BY <2>2, <2>3, <2>4
<1>11. CASE Stop
  <2>1. running' = ~running /\ plan' = plan /\ filled' = filled /\ Stage' = Stage
    BY <1>11 DEF Stop, RequestCancel, execution, Stage, OpenPhases, Terminal, CycleInv, TypeOK
  <2>2. Cycle!Toggle
    BY <2>1 DEF Cycle!Toggle
  <2> QED  BY <2>2 DEF Cycle!Next
<1>14. CASE ReportDropped
  BY <1>1, <1>14 DEF ReportDropped, execution
<1>12. CASE Reset
  <2>1. Cycle!Renew
    BY <1>12 DEF Reset, Cycle!Renew, Stage, OpenPhases, Terminal
  <2> QED  BY <2>1 DEF Cycle!Next
<1>13. ASSUME NEW i \in Layers,
              \/ Accepts(i) \/ RejectsOrder(i) \/ Fills(i) \/ Cancels(i) \/ RejectsCancel(i)
              \/ Expires(i)
       PROVE  UNCHANGED Promised
  BY <1>1, <1>13 DEF Accepts, RejectsOrder, Fills, Cancels, RejectsCancel, Expires, Engine,
     execution
<1> QED
  BY <1>4, <1>6, <1>7, <1>8, <1>9, <1>10, <1>11, <1>12, <1>13, <1>14
  DEF Next, HandleEvent, EngineStep

(* The execution keeps the promise of one placement per life, for every    *)
(* structure of layers: no placement after a first one, nothing bought     *)
(* before or after it or beyond the plan (lifecycle.py, strategy.py).      *)
THEOREM OnePlacementCycle == Spec => KeepsCycle
<1>1. CycleInv /\ [Next]_vars => [Cycle!Next]_<<running, Stage, filled, Planned>>
  BY StepKeeps DEF Promised
<1> QED  BY <1>1, InitKeeps, CycleInvariant, PTL DEF Spec, KeepsCycle, Cycle!Spec, Planned
-----------------------------------------------------------------------------
(* The candidate *)

(* Before a placement the candidate is what the history says.              *)
CandidateInv ==
    /\ TypeOK
    /\ running => phase # "discovered"
    /\ backed.side # None => signal # None
    /\ Waiting => candidate = backed

LEMMA InitCandidate == Init => CandidateInv
  BY InitTypes DEF Init, CandidateInv, NoCandidate

(* What a decision says of the candidate, and of its history.              *)
LEMMA JudgedAlike ==
    ASSUME CandidateInv, phase = "monitoring", NEW s \in Signals, NEW u \in BOOLEAN,
           NEW best \in Sides \cup {None}, ProcessSignal(s, u, best)
    PROVE  candidate' = Backed(s, u, best)
<1>1. s # None /\ candidate = backed
  BY NoneAssumption DEF CandidateInv, Waiting
<1>2. SubmitPlanIfActionable(s, u, best)
  BY <1>1 DEF ProcessSignal
<1>3. CASE Rejects(s)
  BY <1>1, <1>3 DEF Rejects, Forget, Backed
<1>4. CASE WaitsForBooks(s, u, best)
  BY <1>1, <1>4 DEF WaitsForBooks, Backed
<1>5. backed.side = None <=> backed = NoCandidate
  BY DEF CandidateInv, TypeOK, Candidates, NoCandidate
<1>6. CASE SeesNoPlan(s, u, best)
  BY <1>1, <1>5, <1>6 DEF SeesNoPlan, Forget, Backed, NoCandidate
<1>7. CASE NamesCandidate(s, u, best)
  BY <1>1, <1>7 DEF NamesCandidate, Backed
<1>8. CASE WaitsForPersistence(s, u, best) \/ Places(s, u, best)
           \/ MaterializesNothing(s, u, best)
  <2>1. Acceptable(s) /\ u /\ Decision(s, best) = candidate.side /\ candidate' = candidate
    BY <1>8 DEF WaitsForPersistence, Places, MaterializesNothing
  <2> QED  BY <1>1, <2>1 DEF Backed
<1> QED  BY <1>2, <1>3, <1>4, <1>6, <1>7, <1>8 DEF SubmitPlanIfActionable

LEMMA StepCandidate ==
    ASSUME CandidateInv, [Next]_vars
    PROVE  CandidateInv'
<1>1. TypeOK'
  BY StepTypes DEF CandidateInv
<1>2. ASSUME UNCHANGED <<running, phase, signal, candidate, backed>>
      PROVE  CandidateInv'
  BY <1>1, <1>2 DEF CandidateInv, Waiting
<1>3. ASSUME UNCHANGED <<signal, backed>>, ~Waiting, ~Waiting', running' => running
      PROVE  CandidateInv'
  BY <1>1, <1>3 DEF CandidateInv, Waiting
<1>4. CASE Start
  BY <1>1, <1>4 DEF Start, CandidateInv, Waiting
<1>5. ASSUME running, running' = running, NEW s \in Signals, NEW u \in BOOLEAN,
             NEW best \in Sides \cup {None}, ProcessSignal(s, u, best),
             backed' = Backed(s, u, best), signal' = s
      PROVE  CandidateInv'
  <2>1. signal' # None
    BY <1>5, NoneAssumption
  <2>2. phase # "discovered" /\ phase' # "discovered"
    <3>1. phase # "discovered"
      BY <1>5 DEF CandidateInv
    <3>2. ASSUME Places(s, u, best) PROVE phase' # "discovered"
      BY <3>2 DEF Places, Submits
    <3> QED  BY <1>5, <3>1, <3>2, Decisions DEF Still, execution, RequestCancel
  <2>3. Waiting' => phase = "monitoring"
    <3>1. ASSUME phase # "monitoring"
          PROVE  phase' = phase \/ phase' = "cancel_requested"
      BY <1>5, <3>1, Decisions DEF Still, execution, RequestCancel
    <3> QED  BY <2>2, <3>1 DEF Waiting
  <2>4. Waiting' => candidate' = backed'
    BY <1>5, <2>3, JudgedAlike
  <2> QED  BY <1>1, <1>5, <2>1, <2>2, <2>4 DEF CandidateInv
<1>6. CASE OnData
  <2>1. PICK age \in SignalAges, clean \in BOOLEAN, best \in Sides \cup {None} :
          /\ signal' = [at |-> now, age |-> age, clean |-> clean]
          /\ ProcessSignal(signal', usable, best)
          /\ backed' = Backed(signal', usable, best)
    BY <1>6 DEF OnData
  <2>2. signal' \in Signals
    BY <2>1, ParametersAssumption DEF Signals, CandidateInv, TypeOK
  <2> DEFINE s == signal'
  <2>3. /\ s \in Signals /\ ProcessSignal(s, usable, best) /\ backed' = Backed(s, usable, best)
        /\ signal' = s
    BY <2>1, <2>2
  <2>4. usable \in BOOLEAN /\ running /\ running' = running
    BY <1>6 DEF OnData, CandidateInv, TypeOK
  <2> HIDE DEF s
  <2> QED  BY <1>5, <2>3, <2>4
<1>7. CASE OnOrderBookDeltas
  <2>1. PICK best \in Sides \cup {None} :
          ProcessSignal(signal, usable', best) /\ backed' = Backed(signal, usable', best)
    BY <1>7 DEF OnOrderBookDeltas
  <2>2. usable' \in BOOLEAN /\ running /\ running' = running /\ signal' = signal
    BY <1>7 DEF OnOrderBookDeltas
  <2> DEFINE u == usable'
  <2>3. u \in BOOLEAN /\ ProcessSignal(signal, u, best) /\ backed' = Backed(signal, u, best)
    BY <2>1, <2>2
  <2> HIDE DEF u
  <2>4. CASE signal = None
    <3>1. backed' = backed
      BY <2>3, <2>4 DEF Backed
    <3>2. candidate' = candidate /\ phase' = phase
      BY <2>3, <2>4 DEF ProcessSignal, execution
    <3> QED  BY <1>2, <2>2, <3>1, <3>2
  <2>5. CASE signal \in Signals
    BY <1>5, <2>2, <2>3, <2>5
  <2> QED  BY <2>4, <2>5 DEF CandidateInv, TypeOK
<1>8. CASE Tick \/ UNCHANGED vars
  BY <1>2, <1>8 DEF Tick, vars, execution
<1>9. CASE OnOrderFilled
  <2>1. UNCHANGED <<signal, candidate, backed>> /\ (running' => running)
    BY <1>9 DEF OnOrderFilled, Receives
  <2>2. \/ phase' = phase
        \/ ~Waiting /\ ~Waiting'
    BY <1>9 DEF OnOrderFilled, RecordFill, AcceptsFill, StopOnError, execution, Waiting, OpenPhases
  <2> QED  BY <1>1, <2>1, <2>2 DEF CandidateInv, Waiting
<1>10. CASE CloseOrderEvent
  <2>1. UNCHANGED <<running, signal, candidate, backed>>
    BY <1>10 DEF CloseOrderEvent
  <2>2. \/ phase' = phase
        \/ ~Waiting /\ ~Waiting'
    BY <1>10 DEF CloseOrderEvent, PhaseAfterClose, Waiting, OpenPhases
  <2> QED  BY <1>1, <2>1, <2>2 DEF CandidateInv, Waiting
<1>11. CASE Stop
  BY <1>1, <1>11 DEF Stop, RequestCancel, execution, CandidateInv, Waiting
<1>14. CASE ReportDropped
  BY <1>2, <1>14 DEF ReportDropped, execution
<1>12. CASE Reset
  BY <1>1, <1>12 DEF Reset, Forget, CandidateInv, NoCandidate
<1>13. ASSUME NEW i \in Layers,
              \/ Accepts(i) \/ RejectsOrder(i) \/ Fills(i) \/ Cancels(i) \/ RejectsCancel(i)
              \/ Expires(i)
       PROVE  CandidateInv'
  BY <1>2, <1>13 DEF Accepts, RejectsOrder, Fills, Cancels, RejectsCancel, Expires, Engine,
     execution
<1> QED
  BY <1>4, <1>6, <1>7, <1>8, <1>9, <1>10, <1>11, <1>12, <1>13, <1>14
  DEF Next, HandleEvent, EngineStep

LEMMA CandidateInvariant == Spec => []CandidateInv
  BY InitCandidate, StepCandidate, PTL DEF Spec

(* The step of a signal or a book while nothing is placed.                 *)
LEMMA Judgement ==
    ASSUME CandidateInv, phase = "monitoring", OnData \/ OnOrderBookDeltas
    PROVE  \/ UNCHANGED <<execution, backed>> /\ backed.side = None
           \/ \E s \in Signals, u \in BOOLEAN, best \in Sides \cup {None} :
                /\ s = signal' /\ u = usable'
                /\ ProcessSignal(s, u, best) /\ backed' = Backed(s, u, best)
<1>1. CASE OnData
  <2>1. PICK age \in SignalAges, clean \in BOOLEAN, best \in Sides \cup {None} :
          /\ signal' = [at |-> now, age |-> age, clean |-> clean]
          /\ ProcessSignal(signal', usable, best)
          /\ backed' = Backed(signal', usable, best)
    BY <1>1 DEF OnData
  <2>2. signal' \in Signals
    BY <2>1, ParametersAssumption DEF Signals, CandidateInv, TypeOK
  <2>3. usable \in BOOLEAN /\ usable' = usable
    BY <1>1 DEF OnData, CandidateInv, TypeOK
  <2> DEFINE s == signal'
  <2>4. /\ s \in Signals /\ ProcessSignal(s, usable, best) /\ backed' = Backed(s, usable, best)
        /\ s = signal'
    BY <2>1, <2>2
  <2> HIDE DEF s
  <2> QED  BY <2>3, <2>4
<1>2. CASE OnOrderBookDeltas
  <2>1. PICK best \in Sides \cup {None} :
          ProcessSignal(signal, usable', best) /\ backed' = Backed(signal, usable', best)
    BY <1>2 DEF OnOrderBookDeltas
  <2> DEFINE u == usable'
  <2>2. /\ u \in BOOLEAN /\ ProcessSignal(signal, u, best) /\ backed' = Backed(signal, u, best)
        /\ signal' = signal /\ u = usable'
    BY <1>2, <2>1 DEF OnOrderBookDeltas
  <2> HIDE DEF u
  <2>3. CASE signal = None
    <3>1. backed' = backed
      BY <2>2, <2>3 DEF Backed
    <3>2. UNCHANGED execution
      BY <2>2, <2>3 DEF ProcessSignal
    <3> QED  BY <2>3, <3>1, <3>2 DEF CandidateInv
  <2>4. CASE signal \in Signals
    BY <2>2, <2>4
  <2> QED  BY <2>3, <2>4 DEF CandidateInv, TypeOK
<1> QED  BY <1>1, <1>2

LEMMA PlacementStep ==
    ASSUME CandidateInv, [Next]_vars, phase = "monitoring", phase' \in OpenPhases
    PROVE  backed'.side = plan'.side /\ now - backed'.since >= Persistence
<1>1. OnData \/ OnOrderBookDeltas
  <2>1. ~Start /\ ~Reset
    BY DEF Start, Reset, OpenPhases
  <2>2. ASSUME UNCHANGED phase PROVE FALSE
    BY <2>2 DEF OpenPhases
  <2>3. ~Tick /\ ~UNCHANGED vars
    BY <2>2 DEF Tick, vars, execution
  <2>4. ~HandleEvent
    BY <2>2 DEF HandleEvent, OnOrderFilled, CloseOrderEvent, RecordFill, AcceptsFill, StopOnError,
       PhaseAfterClose, execution, OpenPhases
  <2>5. ~Stop /\ ~ReportDropped
    BY <2>2 DEF Stop, ReportDropped, execution
  <2>6. ~EngineStep
    BY <2>2 DEF EngineStep, Accepts, RejectsOrder, Fills, Cancels, RejectsCancel, Expires, Engine,
       execution
  <2> QED  BY <2>1, <2>3, <2>4, <2>5, <2>6 DEF Next
<1>2. phase' # phase
  BY DEF OpenPhases
<1>3. PICK s \in Signals, u \in BOOLEAN, best \in Sides \cup {None} :
        ProcessSignal(s, u, best) /\ backed' = Backed(s, u, best)
  BY <1>1, <1>2, Judgement DEF execution
<1>4. Places(s, u, best)
  BY <1>2, <1>3, Decisions DEF Still, execution
<1>5. /\ candidate' = candidate /\ candidate = backed
      /\ now - candidate.since >= Persistence /\ plan'.side = candidate.side
  BY <1>4 DEF Places, Submits, PersistedLongEnough, CandidateInv, Waiting
<1>6. backed' = candidate'
  BY <1>3, JudgedAlike
<1> QED  BY <1>5, <1>6

(* No plan is placed unless every signal and book of the last              *)
(* edge_persistence_seconds favoured its side (strategy.py:                *)
(* _submit_plan_if_actionable).                                            *)
THEOREM PlacementsPersisted == Spec => PlacementIsPersistent
<1>1. CandidateInv /\ [Next]_vars
        => [phase = "monitoring" /\ phase' \in OpenPhases
              => /\ backed'.side = plan'.side
                 /\ now - backed'.since >= Persistence]_vars
  BY PlacementStep
<1> QED  BY <1>1, CandidateInvariant, PTL DEF Spec, PlacementIsPersistent

LEMMA CandidateStep ==
    ASSUME CandidateInv, OnData \/ OnOrderBookDeltas,
           phase = "monitoring", usable', backed'.side # None, backed' = backed,
           now - backed.since >= Persistence
    PROVE  phase' # "monitoring" \/ MaterializesNothing(signal', usable', backed.side)
<1>1. PICK s \in Signals, u \in BOOLEAN, best \in Sides \cup {None} :
        /\ s = signal' /\ u = usable'
        /\ ProcessSignal(s, u, best) /\ backed' = Backed(s, u, best)
  BY Judgement
<1>2. s # None /\ candidate = backed /\ u
  BY <1>1, NoneAssumption DEF CandidateInv, Waiting
<1>3. SubmitPlanIfActionable(s, u, best)
  BY <1>1, <1>2 DEF ProcessSignal
<1>4. Acceptable(s)
  BY <1>1, <1>2 DEF Backed, NoCandidate
<1>5. Decision(s, best) = backed.side
  <2>1. \/ backed' = backed /\ Decision(s, best) = backed.side
        \/ backed'.side = Decision(s, best)
    BY <1>1, <1>2, <1>4 DEF Backed
  <2> QED  BY <2>1
<1>6. Places(s, u, best) \/ MaterializesNothing(s, u, best)
  BY <1>2, <1>3, <1>4, <1>5 DEF SubmitPlanIfActionable, Rejects, WaitsForBooks, SeesNoPlan,
     NamesCandidate, WaitsForPersistence, PersistedLongEnough
<1>7. CASE Places(s, u, best)
  BY <1>7 DEF Places, Submits
<1>8. CASE MaterializesNothing(s, u, best)
  <2>1. Decision(s, backed.side) = backed.side
    BY <1>5 DEF Decision
  <2>2. MaterializesNothing(s, u, backed.side)
    BY <1>2, <1>8, <2>1 DEF MaterializesNothing
  <2> QED  BY <1>1, <2>2
<1> QED  BY <1>6, <1>7, <1>8

(* No candidate waits longer than edge_persistence_seconds for its         *)
(* placement, once a signal or a book is judged (strategy.py:              *)
(* _submit_plan_if_actionable).                                            *)
THEOREM CandidatesArePlaced == Spec => CandidateIsPlaced
<1>1. CandidateInv /\ [Next]_vars
        => [(/\ OnData \/ OnOrderBookDeltas
             /\ phase = "monitoring" /\ usable'
             /\ backed'.side # None /\ backed' = backed
             /\ now - backed.since >= Persistence)
            => \/ phase' # "monitoring"
               \/ MaterializesNothing(signal', usable', backed.side)]_vars
  BY CandidateStep
<1> QED  BY <1>1, CandidateInvariant, PTL DEF Spec, CandidateIsPlaced
=============================================================================
