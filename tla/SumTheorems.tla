----------------------------- MODULE SumTheorems -----------------------------
(***************************************************************************)
(* Facts about the sums of the models, SumFunctionOnSet(f, S): the values of f     *)
(* over a finite set S, added up in an unspecified order. The proofs by induction     *)
(* take a smallest set for which a fact fails, which exists because the strict         *)
(* subsets of a finite set are well-founded.                                             *)
(***************************************************************************)
EXTENDS Integers, Functions, FiniteSetTheorems, WellFoundedInduction, TLAPS

\* Among any subsets of a finite set one has no smaller one among them.
LEMMA SmallestSubset ==
  ASSUME NEW S, IsFiniteSet(S), NEW Bad, Bad \subseteq SUBSET S, Bad # {}
  PROVE  \E B \in Bad : \A x \in B : B \ {x} \notin Bad
<1>1. IsWellFoundedOn(StrictSubsetOrdering(S), SUBSET S)
  BY FS_StrictSubsetOrderingWellFounded, FS_FiniteSubsetsOfFinite
<1>2. PICK B \in Bad : \A y \in Bad : <<y, B>> \notin StrictSubsetOrdering(S)
  BY <1>1, WFMin
<1>3. ASSUME NEW x \in B, B \ {x} \in Bad PROVE FALSE
  <2>1. <<B \ {x}, B>> \in StrictSubsetOrdering(S)
    BY <1>3 DEF StrictSubsetOrdering
  <2>2. QED
    BY <1>2, <1>3, <2>1
<1>4. QED
  BY <1>3

\* The image of a finite set is finite.
LEMMA FiniteImage ==
  ASSUME NEW S, IsFiniteSet(S), NEW b
  PROVE  IsFiniteSet({b[x] : x \in S})
<1> DEFINE T == {b[x] : x \in S}
           h == [x \in S |-> b[x]]
<1>1. h \in Surjection(S, T)
  BY DEF Surjection
<1>2. QED
  BY <1>1, FS_Surjection

-----------------------------------------------------------------------------
(* What SumFunctionOnSet computes *)

Some(s) == CHOOSE x \in s : TRUE

\* g is the function that the fold recurses with.
IsFold(g, f, S) ==
  g = [s \in SUBSET S |-> IF s = {} THEN 0 ELSE f[Some(s)] + g[s \ {Some(s)}]]

\* F adds up the values of f, whatever element is taken first.
Additive(F, f, S) ==
  /\ F \in [SUBSET S -> Int]
  /\ F[{}] = 0
  /\ \A s \in SUBSET S : \A x \in s : F[s] = f[x] + F[s \ {x}]

IntOn(f, S) == \A x \in S : f[x] \in Int

\* The sum of the library is the value at S of the fold's function.
LEMMA SumIsFold ==
  ASSUME NEW f, NEW S
  PROVE  SumFunctionOnSet(f, S) = (CHOOSE g : IsFold(g, f, S))[S]
BY DEF SumFunctionOnSet, FoldFunctionOnSet, MapThenFoldSet, IsFold, Some

\* A function with integer values has an additive one on the subsets.
LEMMA AdditiveExists ==
  ASSUME NEW S, IsFiniteSet(S), NEW f, IntOn(f, S)
  PROVE  \E F : Additive(F, f, S)
<1> DEFINE Bad == {T \in SUBSET S : ~ \E F : Additive(F, f, T)}
<1>1. SUFFICES ASSUME S \in Bad PROVE FALSE
  OBVIOUS
<1>2. PICK B \in Bad : \A x \in B : B \ {x} \notin Bad
  BY <1>1, SmallestSubset
<1>3. B # {}
  <2> SUFFICES ASSUME B = {} PROVE \E F : Additive(F, f, B)
    BY <1>2
  <2>1. Additive([s \in SUBSET {} |-> 0], f, {})
    BY DEF Additive
  <2>2. QED
    BY <2>1
<1>4. PICK p \in B : TRUE
  BY <1>3
<1>5. PICK G : Additive(G, f, B \ {p})
  BY <1>2, <1>4
<1> DEFINE F == [s \in SUBSET B |-> IF p \in s THEN f[p] + G[s \ {p}] ELSE G[s]]
<1>6. f[p] \in Int /\ p \in S
  BY <1>4, <1>2 DEF IntOn
<1>7. \A s \in SUBSET (B \ {p}) : G[s] \in Int
  BY <1>5 DEF Additive
<1>8. F \in [SUBSET B -> Int] /\ F[{}] = 0
  <2>1. \A s \in SUBSET B : s \ {p} \in SUBSET (B \ {p}) /\ (p \notin s => s \in SUBSET (B \ {p}))
    OBVIOUS
  <2>2. G[{}] = 0
    BY <1>5 DEF Additive
  <2>3. QED
    BY <1>6, <1>7, <2>1, <2>2
<1>9. ASSUME NEW s \in SUBSET B, NEW x \in s PROVE F[s] = f[x] + F[s \ {x}]
  <2>1. f[x] \in Int
    BY <1>2 DEF IntOn
  <2>2. CASE x = p
    BY <2>2
  <2>3. CASE x # p /\ p \notin s
    <3>1. s \in SUBSET (B \ {p}) /\ p \notin s \ {x}
      BY <2>3
    <3>2. G[s] = f[x] + G[s \ {x}]
      BY <1>5, <3>1 DEF Additive
    <3>3. QED
      BY <2>3, <3>1, <3>2
  <2>4. CASE x # p /\ p \in s
    <3>1. s \ {p} \in SUBSET (B \ {p}) /\ x \in s \ {p} /\ (s \ {p}) \ {x} = (s \ {x}) \ {p}
      BY <2>4
    <3>2. G[s \ {p}] = f[x] + G[(s \ {x}) \ {p}]
      BY <1>5, <3>1 DEF Additive
    <3>3. F[s] = f[p] + G[s \ {p}] /\ F[s \ {x}] = f[p] + G[(s \ {x}) \ {p}]
      BY <2>4
    <3>4. G[s \ {p}] \in Int /\ G[(s \ {x}) \ {p}] \in Int
      BY <1>7
    <3>5. QED
      BY <1>6, <2>1, <3>2, <3>3, <3>4
  <2>5. QED
    BY <2>2, <2>3, <2>4
<1>10. Additive(F, f, B)
  BY <1>8, <1>9 DEF Additive
<1>11. QED
  BY <1>2, <1>10

\* The fold agrees with every additive function, whatever order it takes.
LEMMA FoldIsAdditive ==
  ASSUME NEW S, IsFiniteSet(S), NEW f, NEW F, Additive(F, f, S)
  PROVE  SumFunctionOnSet(f, S) = F[S]
<1>1. IsFold(F, f, S)
  <2>1. \A s \in SUBSET S : s # {} => Some(s) \in s
    BY DEF Some
  <2>2. \A s \in SUBSET S : F[s] = IF s = {} THEN 0 ELSE f[Some(s)] + F[s \ {Some(s)}]
    BY <2>1 DEF Additive
  <2>3. QED
    BY <2>2 DEF IsFold, Additive
<1> DEFINE g == CHOOSE h : IsFold(h, f, S)
<1>2. IsFold(g, f, S)
  BY <1>1
<1> HIDE DEF g
<1> DEFINE Bad == {s \in SUBSET S : g[s] # F[s]}
<1>3. SUFFICES ASSUME Bad # {} PROVE FALSE
  BY SumIsFold DEF g
<1>4. PICK B \in Bad : \A x \in B : B \ {x} \notin Bad
  BY <1>3, SmallestSubset
<1>5. g[B] = IF B = {} THEN 0 ELSE f[Some(B)] + g[B \ {Some(B)}]
  BY <1>2, <1>4 DEF IsFold
<1>6. F[B] = IF B = {} THEN 0 ELSE f[Some(B)] + F[B \ {Some(B)}]
  BY <1>1, <1>4 DEF IsFold
<1>7. CASE B = {}
  BY <1>4, <1>5, <1>6, <1>7
<1>8. CASE B # {}
  <2>1. Some(B) \in B
    BY <1>8 DEF Some
  <2>2. g[B \ {Some(B)}] = F[B \ {Some(B)}]
    BY <1>4, <2>1
  <2>3. QED
    BY <1>4, <1>5, <1>6, <1>8, <2>2
<1>9. QED
  BY <1>7, <1>8

\* One additive function gives the sums over all subsets.
LEMMA SumsAreAdditive ==
  ASSUME NEW S, IsFiniteSet(S), NEW f, IntOn(f, S)
  PROVE  \E F : Additive(F, f, S) /\ \A T \in SUBSET S : SumFunctionOnSet(f, T) = F[T]
<1>1. PICK F : Additive(F, f, S)
  BY AdditiveExists
<1>2. ASSUME NEW T \in SUBSET S PROVE SumFunctionOnSet(f, T) = F[T]
  <2>1. IsFiniteSet(T)
    BY FS_Subset
  <2> DEFINE G == [s \in SUBSET T |-> F[s]]
  <2>2. Additive(G, f, T)
    <3>1. SUBSET T \subseteq SUBSET S
      OBVIOUS
    <3>2. \A s \in SUBSET T : G[s] \in Int
      BY <1>1, <3>1 DEF Additive
    <3>3. \A s \in SUBSET T : \A x \in s : G[s] = f[x] + G[s \ {x}]
      BY <1>1, <3>1 DEF Additive
    <3>4. QED
      BY <1>1, <3>2, <3>3 DEF Additive
  <2>3. SumFunctionOnSet(f, T) = G[T]
    BY <2>1, <2>2, FoldIsAdditive
  <2>4. QED
    BY <2>3
<1>3. QED
  BY <1>1, <1>2

-----------------------------------------------------------------------------
(* The facts to cite *)

\* The sum of nothing is 0.
LEMMA SumEmpty == \A f : SumFunctionOnSet(f, {}) = 0
<1> SUFFICES ASSUME NEW f PROVE SumFunctionOnSet(f, {}) = 0
  OBVIOUS
<1>1. Additive([s \in SUBSET {} |-> 0], f, {})
  BY DEF Additive
<1>2. QED
  BY <1>1, FoldIsAdditive, FS_EmptySet

\* The sum of integers is an integer.
LEMMA SumInt ==
  ASSUME NEW S, IsFiniteSet(S), NEW f, IntOn(f, S)
  PROVE  SumFunctionOnSet(f, S) \in Int
<1>1. PICK F : Additive(F, f, S) /\ \A T \in SUBSET S : SumFunctionOnSet(f, T) = F[T]
  BY SumsAreAdditive
<1>2. QED
  BY <1>1 DEF Additive

\* A sum is any of its values and the sum of the others.
LEMMA SumRemove ==
  ASSUME NEW S, IsFiniteSet(S), NEW f, IntOn(f, S), NEW x \in S
  PROVE  SumFunctionOnSet(f, S) = f[x] + SumFunctionOnSet(f, S \ {x})
<1>1. PICK F : Additive(F, f, S) /\ \A T \in SUBSET S : SumFunctionOnSet(f, T) = F[T]
  BY SumsAreAdditive
<1>2. F[S] = f[x] + F[S \ {x}]
  BY <1>1 DEF Additive
<1>3. QED
  BY <1>1, <1>2

\* A new element adds its value.
LEMMA SumAdd ==
  ASSUME NEW S, IsFiniteSet(S), NEW f, NEW x, x \notin S, IntOn(f, S \cup {x})
  PROVE  SumFunctionOnSet(f, S \cup {x}) = f[x] + SumFunctionOnSet(f, S)
<1>1. IsFiniteSet(S \cup {x}) /\ (S \cup {x}) \ {x} = S
  BY FS_AddElement
<1>2. QED
  BY <1>1, SumRemove

\* Only the values on the set count.
LEMMA SumSame ==
  ASSUME NEW S, IsFiniteSet(S), NEW f, IntOn(f, S), NEW g, \A x \in S : g[x] = f[x]
  PROVE  SumFunctionOnSet(g, S) = SumFunctionOnSet(f, S)
<1>1. PICK F : Additive(F, f, S) /\ \A T \in SUBSET S : SumFunctionOnSet(f, T) = F[T]
  BY SumsAreAdditive
<1>2. Additive(F, g, S)
  BY <1>1 DEF Additive
<1>3. QED
  BY <1>1, <1>2, FoldIsAdditive

\* The sums of two functions are the sum of their sums.
LEMMA SumPlus ==
  ASSUME NEW S, IsFiniteSet(S), NEW f, IntOn(f, S), NEW g, IntOn(g, S),
         NEW h, \A x \in S : h[x] = f[x] + g[x]
  PROVE  SumFunctionOnSet(h, S) = SumFunctionOnSet(f, S) + SumFunctionOnSet(g, S)
<1>1. PICK F : Additive(F, f, S) /\ \A T \in SUBSET S : SumFunctionOnSet(f, T) = F[T]
  BY SumsAreAdditive
<1>2. PICK G : Additive(G, g, S) /\ \A T \in SUBSET S : SumFunctionOnSet(g, T) = G[T]
  BY SumsAreAdditive
<1> DEFINE H == [s \in SUBSET S |-> F[s] + G[s]]
<1>3. Additive(H, h, S)
  <2>1. \A s \in SUBSET S : F[s] \in Int /\ G[s] \in Int
    BY <1>1, <1>2 DEF Additive
  <2>2. F[{}] = 0 /\ G[{}] = 0
    BY <1>1, <1>2 DEF Additive
  <2>3. ASSUME NEW s \in SUBSET S, NEW x \in s PROVE H[s] = h[x] + H[s \ {x}]
    <3>1. F[s] = f[x] + F[s \ {x}] /\ G[s] = g[x] + G[s \ {x}]
      BY <1>1, <1>2 DEF Additive
    <3>2. f[x] \in Int /\ g[x] \in Int /\ h[x] = f[x] + g[x]
      BY DEF IntOn
    <3>3. F[s \ {x}] \in Int /\ G[s \ {x}] \in Int
      BY <2>1
    <3>4. QED
      BY <3>1, <3>2, <3>3
  <2>4. H \in [SUBSET S -> Int] /\ H[{}] = 0
    BY <2>1, <2>2
  <2> HIDE DEF H
  <2>5. QED
    BY <2>3, <2>4 DEF Additive
<1>4. QED
  BY <1>1, <1>2, <1>3, FoldIsAdditive

\* Zeros add up to zero.
LEMMA SumZero ==
  ASSUME NEW S, IsFiniteSet(S), NEW f, \A x \in S : f[x] = 0
  PROVE  SumFunctionOnSet(f, S) = 0
<1>1. Additive([s \in SUBSET S |-> 0], f, S)
  BY DEF Additive
<1>2. QED
  BY <1>1, FoldIsAdditive

\* What holds of the sum when one value changes.
LEMMA SumUpdate ==
  ASSUME NEW S, IsFiniteSet(S), NEW f, IntOn(f, S), NEW g, NEW x \in S, g[x] \in Int,
         \A y \in S \ {x} : g[y] = f[y]
  PROVE  SumFunctionOnSet(g, S) = SumFunctionOnSet(f, S) + g[x] - f[x]
<1>1. IsFiniteSet(S \ {x}) /\ IntOn(f, S \ {x}) /\ IntOn(g, S)
  BY FS_RemoveElement DEF IntOn
<1>2. SumFunctionOnSet(g, S \ {x}) = SumFunctionOnSet(f, S \ {x})
  BY <1>1, SumSame
<1>3. SumFunctionOnSet(f, S \ {x}) \in Int /\ f[x] \in Int
  BY <1>1, SumInt DEF IntOn
<1>4. SumFunctionOnSet(g, S) = g[x] + SumFunctionOnSet(g, S \ {x})
  BY <1>1, SumRemove
<1>5. SumFunctionOnSet(f, S) = f[x] + SumFunctionOnSet(f, S \ {x})
  BY SumRemove
<1>6. QED
  BY <1>2, <1>3, <1>4, <1>5

\* The sums of two disjoint sets add up.
LEMMA SumDisjoint ==
  ASSUME NEW S, IsFiniteSet(S), NEW T, IsFiniteSet(T), S \cap T = {},
         NEW f, IntOn(f, S \cup T)
  PROVE  SumFunctionOnSet(f, S \cup T) = SumFunctionOnSet(f, S) + SumFunctionOnSet(f, T)
<1>1. IsFiniteSet(S \cup T)
  BY FS_Union
<1>2. PICK F : Additive(F, f, S \cup T)
                /\ \A R \in SUBSET (S \cup T) : SumFunctionOnSet(f, R) = F[R]
  BY <1>1, SumsAreAdditive
<1> DEFINE Bad == {R \in SUBSET S : F[R \cup T] # F[R] + F[T]}
<1>3. SUFFICES ASSUME S \in Bad PROVE FALSE
  BY <1>2
<1>4. PICK B \in Bad : \A x \in B : B \ {x} \notin Bad
  BY <1>3, SmallestSubset
<1>5. \A R \in SUBSET (S \cup T) : F[R] \in Int
  BY <1>2 DEF Additive
<1>6. CASE B = {}
  <2>1. B \cup T = T
    BY <1>6
  <2>2. QED
    BY <1>2, <1>4, <1>5, <1>6, <2>1 DEF Additive
<1>7. CASE B # {}
  <2>1. PICK x \in B : TRUE
    BY <1>7
  <2>2. (B \cup T) \ {x} = (B \ {x}) \cup T
    BY <1>4, <2>1
  <2>3. F[(B \ {x}) \cup T] = F[B \ {x}] + F[T]
    BY <1>4, <2>1
  <2>4. F[B \cup T] = f[x] + F[(B \ {x}) \cup T]
    <3>1. B \cup T \in SUBSET (S \cup T) /\ x \in B \cup T
      BY <1>4, <2>1
    <3>2. QED
      BY <1>2, <2>2, <3>1 DEF Additive
  <2>5. F[B] = f[x] + F[B \ {x}]
    BY <1>2, <1>4, <2>1 DEF Additive
  <2>6. f[x] \in Int /\ F[B \ {x}] \in Int /\ F[T] \in Int
    BY <1>4, <1>5, <2>1 DEF IntOn
  <2>7. QED
    BY <1>4, <2>3, <2>4, <2>5, <2>6
<1>8. QED
  BY <1>6, <1>7

\* Sums of natural numbers are natural, and at least the sum over any part.
LEMMA SumNat ==
  ASSUME NEW S, IsFiniteSet(S), NEW f, \A x \in S : f[x] \in Nat
  PROVE  SumFunctionOnSet(f, S) \in Nat
<1>1. IntOn(f, S)
  BY DEF IntOn
<1>2. PICK F : Additive(F, f, S) /\ \A T \in SUBSET S : SumFunctionOnSet(f, T) = F[T]
  BY <1>1, SumsAreAdditive
<1> DEFINE Bad == {R \in SUBSET S : F[R] \notin Nat}
<1>3. SUFFICES ASSUME S \in Bad PROVE FALSE
  BY <1>2
<1>4. PICK B \in Bad : \A x \in B : B \ {x} \notin Bad
  BY <1>3, SmallestSubset
<1>5. B # {}
  BY <1>2, <1>4 DEF Additive
<1>6. PICK x \in B : TRUE
  BY <1>5
<1>7. F[B] = f[x] + F[B \ {x}] /\ F[B \ {x}] \in Nat
  BY <1>2, <1>4, <1>6 DEF Additive
<1>8. QED
  BY <1>4, <1>6, <1>7

\* A part of naturals makes up at most the whole.
LEMMA SumPart ==
  ASSUME NEW S, IsFiniteSet(S), NEW f, \A x \in S : f[x] \in Nat, NEW T \in SUBSET S
  PROVE  SumFunctionOnSet(f, T) <= SumFunctionOnSet(f, S)
<1>1. IsFiniteSet(T) /\ IsFiniteSet(S \ T) /\ S = T \cup (S \ T) /\ T \cap (S \ T) = {}
  BY FS_Subset, FS_Difference
<1>2. IntOn(f, T \cup (S \ T))
  BY DEF IntOn
<1>3. SumFunctionOnSet(f, S) = SumFunctionOnSet(f, T) + SumFunctionOnSet(f, S \ T)
  BY <1>1, <1>2, SumDisjoint
<1>4. SumFunctionOnSet(f, T) \in Nat /\ SumFunctionOnSet(f, S \ T) \in Nat
  BY <1>1, SumNat
<1>5. QED
  BY <1>3, <1>4

\* No natural is more than the sum it is a part of.
LEMMA SumMember ==
  ASSUME NEW S, IsFiniteSet(S), NEW f, \A y \in S : f[y] \in Nat, NEW x \in S
  PROVE  f[x] <= SumFunctionOnSet(f, S)
<1>1. IntOn(f, S) /\ IsFiniteSet(S \ {x})
  BY FS_RemoveElement DEF IntOn
<1>2. SumFunctionOnSet(f, S) = f[x] + SumFunctionOnSet(f, S \ {x})
  BY <1>1, SumRemove
<1>3. SumFunctionOnSet(f, S \ {x}) \in Nat
  BY <1>1, SumNat
<1>4. QED
  BY <1>2, <1>3

\* The sum over the image of a set under an injection.
LEMMA SumReindex ==
  ASSUME NEW S, IsFiniteSet(S), NEW f, IntOn(f, S), NEW b,
         \A x, y \in S : b[x] = b[y] => x = y,
         NEW g, \A x \in S : g[b[x]] = f[x]
  PROVE  /\ IsFiniteSet({b[x] : x \in S})
         /\ SumFunctionOnSet(g, {b[x] : x \in S}) = SumFunctionOnSet(f, S)
<1> DEFINE Image(R) == {b[x] : x \in R}
<1>1. PICK F : Additive(F, f, S) /\ \A T \in SUBSET S : SumFunctionOnSet(f, T) = F[T]
  BY SumsAreAdditive
<1> DEFINE Bad == {R \in SUBSET S : ~(IsFiniteSet(Image(R)) /\ SumFunctionOnSet(g, Image(R)) = F[R])}
<1>2. SUFFICES ASSUME S \in Bad PROVE FALSE
  BY <1>1
<1>3. PICK B \in Bad : \A x \in B : B \ {x} \notin Bad
  BY <1>2, SmallestSubset
<1>4. CASE B = {}
  <2>1. Image(B) = {}
    BY <1>4
  <2>2. F[B] = 0
    BY <1>1, <1>4 DEF Additive
  <2>3. QED
    BY <1>3, <2>1, <2>2, SumEmpty, FS_EmptySet
<1>5. CASE B # {}
  <2>1. PICK x \in B : TRUE
    BY <1>5
  <2>2. B \ {x} \in SUBSET S /\ IsFiniteSet(Image(B \ {x}))
          /\ SumFunctionOnSet(g, Image(B \ {x})) = F[B \ {x}]
    BY <1>3, <2>1
  <2>3. Image(B) = Image(B \ {x}) \cup {b[x]} /\ b[x] \notin Image(B \ {x})
    BY <1>3, <2>1
  <2>4. IntOn(g, Image(B \ {x}) \cup {b[x]})
    <3>1. \A y \in B : g[b[y]] \in Int
      BY <1>3 DEF IntOn
    <3>2. QED
      BY <2>1, <3>1 DEF IntOn
  <2>5. SumFunctionOnSet(g, Image(B)) = g[b[x]] + F[B \ {x}] /\ IsFiniteSet(Image(B))
    <3> DEFINE T == Image(B \ {x})
    <3> HIDE DEF T
    <3>1. IsFiniteSet(T) /\ b[x] \notin T /\ IntOn(g, T \cup {b[x]}) /\ Image(B) = T \cup {b[x]}
      BY <2>2, <2>3, <2>4 DEF T
    <3>2. SumFunctionOnSet(g, T \cup {b[x]}) = g[b[x]] + SumFunctionOnSet(g, T)
      BY <3>1, SumAdd
    <3>3. SumFunctionOnSet(g, T) = F[B \ {x}]
      BY <2>2 DEF T
    <3>4. IsFiniteSet(T \cup {b[x]})
      BY <3>1, FS_AddElement
    <3> HIDE DEF Image
    <3>5. QED
      BY <3>1, <3>2, <3>3, <3>4
  <2>6. F[B] = f[x] + F[B \ {x}] /\ g[b[x]] = f[x]
    BY <1>1, <1>3, <2>1 DEF Additive
  <2>7. QED
    BY <1>3, <2>5, <2>6
<1>6. QED
  BY <1>4, <1>5

\* Two sums can be taken in either order.
LEMMA SumSwap ==
  ASSUME NEW S, IsFiniteSet(S), NEW T, IsFiniteSet(T), NEW m,
         \A x \in S, y \in T : m[x][y] \in Int
  PROVE  SumFunctionOnSet([x \in S |-> SumFunctionOnSet([y \in T |-> m[x][y]], T)], S)
           = SumFunctionOnSet([y \in T |-> SumFunctionOnSet([x \in S |-> m[x][y]], S)], T)
<1> DEFINE row(x) == [y \in T |-> m[x][y]]
           col(R, y) == SumFunctionOnSet([x \in S |-> m[x][y]], R)
           rows == [x \in S |-> SumFunctionOnSet(row(x), T)]
           cols(R) == [y \in T |-> col(R, y)]
           Bad == {R \in SUBSET S :
                     SumFunctionOnSet(rows, R) # SumFunctionOnSet(cols(R), T)}
<1>1. SUFFICES ASSUME S \in Bad PROVE FALSE
  OBVIOUS
<1>2. PICK B \in Bad : \A x \in B : B \ {x} \notin Bad
  BY <1>1, SmallestSubset
<1>3. \A R \in SUBSET S : IsFiniteSet(R)
  BY FS_Subset
<1>4. \A x \in S : IntOn(row(x), T)
  BY DEF IntOn
<1>5. \A y \in T : \A R \in SUBSET S : IntOn([x \in S |-> m[x][y]], R)
  BY DEF IntOn
<1>6. \A y \in T : \A R \in SUBSET S : col(R, y) \in Int
  BY <1>3, <1>5, SumInt
<1>7. IntOn(rows, S)
  BY <1>4, SumInt DEF IntOn
<1>8. CASE B = {}
  <2>1. \A y \in T : cols(B)[y] = 0
    BY <1>8, SumEmpty
  <2>2. SumFunctionOnSet(cols(B), T) = 0
    BY <2>1, SumZero
  <2>3. QED
    BY <1>2, <1>8, <2>2, SumEmpty
<1>9. CASE B # {}
  <2>1. PICK x \in B : TRUE
    BY <1>9
  <2>2. SumFunctionOnSet(rows, B \ {x}) = SumFunctionOnSet(cols(B \ {x}), T)
    BY <1>2, <2>1
  <2>3. SumFunctionOnSet(rows, B) = rows[x] + SumFunctionOnSet(rows, B \ {x})
    <3>1. IntOn(rows, B)
      BY <1>2, <1>7 DEF IntOn
    <3>2. QED
      BY <1>2, <1>3, <2>1, <3>1, SumRemove
  <2>4. rows[x] = SumFunctionOnSet(row(x), T)
    BY <1>2, <2>1
  <2>5. \A y \in T : cols(B)[y] = row(x)[y] + cols(B \ {x})[y]
    <3> SUFFICES ASSUME NEW y \in T PROVE col(B, y) = m[x][y] + col(B \ {x}, y)
      OBVIOUS
    <3> DEFINE h == [z \in S |-> m[z][y]]
    <3>1. IntOn(h, B) /\ IsFiniteSet(B) /\ h[x] = m[x][y]
      BY <1>2, <1>3, <1>5, <2>1
    <3> HIDE DEF h
    <3>2. SumFunctionOnSet(h, B) = h[x] + SumFunctionOnSet(h, B \ {x})
      BY <2>1, <3>1, SumRemove
    <3>3. QED
      BY <3>1, <3>2 DEF h
  <2>6. IntOn(row(x), T) /\ IntOn(cols(B \ {x}), T)
    BY <1>2, <1>4, <1>6, <2>1 DEF IntOn
  <2>7. SumFunctionOnSet(cols(B), T)
          = SumFunctionOnSet(row(x), T) + SumFunctionOnSet(cols(B \ {x}), T)
    <3>1. PICK p, q, s : p = row(x) /\ q = cols(B \ {x}) /\ s = cols(B)
      OBVIOUS
    <3>2. IntOn(p, T) /\ IntOn(q, T) /\ IsFiniteSet(T) /\ \A y \in T : s[y] = p[y] + q[y]
      BY <2>5, <2>6, <3>1
    <3>3. SumFunctionOnSet(s, T) = SumFunctionOnSet(p, T) + SumFunctionOnSet(q, T)
      BY <3>2, SumPlus
    <3>4. QED
      BY <3>1, <3>3
  <2>8. QED
    BY <1>2, <2>2, <2>3, <2>4, <2>7
<1>10. QED
  BY <1>8, <1>9

\* A sum of multiples is the multiple of the sum.
LEMMA SumScale ==
  ASSUME NEW S, IsFiniteSet(S), NEW f, IntOn(f, S), NEW c \in Int,
         NEW g, \A x \in S : g[x] = c * f[x]
  PROVE  SumFunctionOnSet(g, S) = c * SumFunctionOnSet(f, S)
<1>1. PICK F : Additive(F, f, S) /\ \A T \in SUBSET S : SumFunctionOnSet(f, T) = F[T]
  BY SumsAreAdditive
<1> DEFINE G == [s \in SUBSET S |-> c * F[s]]
<1>2. Additive(G, g, S)
  <2>1. \A s \in SUBSET S : F[s] \in Int
    BY <1>1 DEF Additive
  <2>2. F[{}] = 0
    BY <1>1 DEF Additive
  <2>3. ASSUME NEW s \in SUBSET S, NEW x \in s PROVE G[s] = g[x] + G[s \ {x}]
    <3>1. F[s] = f[x] + F[s \ {x}] /\ f[x] \in Int /\ F[s \ {x}] \in Int
      BY <1>1, <2>1 DEF Additive, IntOn
    <3>2. \A u, v \in Int : c * (u + v) = c * u + c * v
      OBVIOUS
    <3>3. c * F[s] = c * f[x] + c * F[s \ {x}]
      BY <3>1, <3>2
    <3>4. QED
      BY <3>3
  <2>4. G \in [SUBSET S -> Int] /\ G[{}] = 0
    BY <2>1, <2>2
  <2> HIDE DEF G
  <2>5. QED
    BY <2>3, <2>4 DEF Additive
<1>3. QED
  BY <1>1, <1>2, FoldIsAdditive

\* Zeros outside a part leave the sum of the part.
LEMMA SumWhere ==
  ASSUME NEW S, IsFiniteSet(S), NEW P \in SUBSET S, NEW f, IntOn(f, P),
         NEW g, \A x \in P : g[x] = f[x], \A x \in S \ P : g[x] = 0
  PROVE  SumFunctionOnSet(g, S) = SumFunctionOnSet(f, P)
<1>1. IsFiniteSet(P) /\ IsFiniteSet(S \ P) /\ S = P \cup (S \ P) /\ P \cap (S \ P) = {}
  BY FS_Subset
<1>2. IntOn(g, P \cup (S \ P)) /\ \A x \in S \ P : g[x] = 0
  BY DEF IntOn
<1>3. SumFunctionOnSet(g, P) = SumFunctionOnSet(f, P)
  BY <1>1, SumSame
<1>4. SumFunctionOnSet(g, S \ P) = 0
  BY <1>1, SumZero
<1>5. SumFunctionOnSet(f, P) \in Int
  BY <1>1, SumInt
<1>6. SumFunctionOnSet(g, S) = SumFunctionOnSet(g, P) + SumFunctionOnSet(g, S \ P)
  BY <1>1, <1>2, SumDisjoint
<1>7. QED
  BY <1>3, <1>4, <1>5, <1>6

\* One value, or two, among zeros.
LEMMA SumOnly ==
  ASSUME NEW S, IsFiniteSet(S), NEW f, NEW x \in S, f[x] \in Int,
         \A y \in S \ {x} : f[y] = 0
  PROVE  SumFunctionOnSet(f, S) = f[x]
<1>1. IntOn(f, S) /\ IsFiniteSet(S \ {x})
  BY FS_RemoveElement DEF IntOn
<1>2. SumFunctionOnSet(f, S) = f[x] + SumFunctionOnSet(f, S \ {x})
  BY <1>1, SumRemove
<1>3. SumFunctionOnSet(f, S \ {x}) = 0
  BY <1>1, SumZero
<1>4. QED
  BY <1>2, <1>3

\* Two values that cancel each other add up to nothing.
LEMMA SumOpposites ==
  ASSUME NEW S, IsFiniteSet(S), NEW f, NEW x \in S, NEW y \in S, x # y, f[x] \in Int,
         f[y] = -f[x], \A z \in S \ {x, y} : f[z] = 0
  PROVE  SumFunctionOnSet(f, S) = 0
<1>1. IntOn(f, S) /\ IsFiniteSet(S \ {x}) /\ y \in S \ {x} /\ f[y] \in Int
  BY FS_RemoveElement DEF IntOn
<1>2. SumFunctionOnSet(f, S) = f[x] + SumFunctionOnSet(f, S \ {x})
  BY <1>1, SumRemove
<1>3. SumFunctionOnSet(f, S \ {x}) = f[y]
  BY <1>1, SumOnly
<1>4. QED
  BY <1>2, <1>3
=============================================================================
