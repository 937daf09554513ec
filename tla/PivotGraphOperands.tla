------------------------- MODULE PivotGraphOperands -------------------------
(***************************************************************************)
(* The operands of the pivot graph, proved about: first how counts are     *)
(* sums and what the loops compute, then what an operation on operands     *)
(* does to the counts, then what becomes of the graph when edges are       *)
(* terminated, acquired, freed, deleted or normalized.  PivotGraphProof    *)
(* goes on with those that make edges anew, and with the solver.           *)
(***************************************************************************)
EXTENDS PivotGraphInvariant, FiniteSetTheorems, SequenceTheorems, WellFoundedInduction, TLAPS

-----------------------------------------------------------------------------
(* Induction *)

\* What holds at first, and after each step if it did before, holds in the end.
LEMMA StepByStep ==
  ASSUME NEW n \in Nat, NEW Good, 0 \in Good, \A k \in 0 .. (n - 1) : k \in Good => k + 1 \in Good
  PROVE  n \in Good
<1>. DEFINE Bad == {m \in 0 .. n : m \notin Good}
<1>1. ASSUME Bad # {} PROVE FALSE
  <2>1. IsWellFoundedOn(OpToRel(<, Nat), Nat)
    BY NatLessThanWellFounded
  <2>2. Bad \subseteq Nat
    OBVIOUS
  <2>. HIDE DEF Bad
  <2>3. PICK m \in Bad : \A k \in Bad : ~(k < m)
    <3>1. PICK m \in Bad : \A k \in Bad : <<k, m>> \notin OpToRel(<, Nat)
      BY <1>1, <2>1, <2>2, WFMin
    <3>. QED BY <2>2, <3>1 DEF OpToRel
  <2>4. m \in 0 .. n /\ m \notin Good
    BY <2>3 DEF Bad
  <2>5. m # 0 /\ m - 1 \in 0 .. (n - 1) /\ m - 1 \in 0 .. n /\ m - 1 < m
    BY <2>4
  <2>6. m - 1 \in Good
    BY <2>3, <2>5 DEF Bad
  <2>7. (m - 1) + 1 = m
    BY <2>4
  <2>. QED BY <2>4, <2>5, <2>6, <2>7
<1>. QED BY <1>1

\* Among sets that are finite there is one that includes none of the others.
LEMMA SmallestSet ==
  ASSUME NEW S, NEW Bad, Bad \subseteq FiniteSubsetsOf(S), Bad # {}
  PROVE  \E u \in Bad : \A v \in Bad : ~ (v \subseteq u /\ v # u)
<1>1. PICK u \in Bad : \A v \in Bad : <<v, u>> \notin StrictSubsetOrdering(S)
  BY FS_StrictSubsetOrderingWellFounded, WFMin
<1>2. ASSUME NEW v \in Bad, v \subseteq u, v # u PROVE FALSE
  BY <1>1, <1>2 DEF StrictSubsetOrdering, FiniteSubsetsOf
<1>. QED BY <1>2

\* What holds of the empty set, and with one more member if it does without, holds of
\* every finite set.
LEMMA OneByOne ==
  ASSUME NEW S, IsFiniteSet(S), NEW Good, {} \in Good,
         \A T \in SUBSET S : \A x \in S \ T : IsFiniteSet(T) /\ T \in Good => T \cup {x} \in Good
  PROVE  S \in Good
<1>. DEFINE Bad == {u \in FiniteSubsetsOf(S) : u \notin Good}
<1>1. ASSUME Bad # {} PROVE FALSE
  <2>1. PICK u \in Bad : \A v \in Bad : ~ (v \subseteq u /\ v # u)
    <3>1. Bad \subseteq FiniteSubsetsOf(S)
      OBVIOUS
    <3>. HIDE DEF Bad
    <3>. QED BY <1>1, <3>1, SmallestSet
  <2>2. u \subseteq S /\ IsFiniteSet(u) /\ u \notin Good
    BY DEF FiniteSubsetsOf
  <2>3. PICK x \in u : TRUE
    BY <2>2
  <2>. DEFINE v == u \ {x}
  <2>4. v \subseteq u /\ v # u /\ IsFiniteSet(v) /\ v \cup {x} = u /\ x \in S \ v /\ v \in SUBSET S
    BY <2>2, FS_RemoveElement
  <2>5. v \in FiniteSubsetsOf(S)
    BY <2>2, <2>4 DEF FiniteSubsetsOf
  <2>6. v \in Good
    BY <2>1, <2>4, <2>5
  <2>. HIDE DEF v
  <2>. QED BY <2>2, <2>4, <2>6
<1>2. S \in FiniteSubsetsOf(S)
  BY DEF FiniteSubsetsOf
<1>. QED BY <1>1, <1>2
-----------------------------------------------------------------------------
(* Sums *)

\* The recursive function that a sum is defined with, and the term it adds next.
First(S) == CHOOSE c \in S : TRUE
IsFold(g, f, Q) ==
  g = [s \in SUBSET Q |-> IF s = {} THEN 0 ELSE f[First(s)] + g[s \ {First(s)}]]

\* What CHOOSE takes first is a member.
LEMMA FirstIn == \A S : S # {} => First(S) \in S
  BY DEF First

\* What the recursive function gives for a set, and that there is such a function for
\* finite sets, which agrees with that for a larger one.
LEMMA FoldStep ==
  ASSUME NEW g, NEW f, NEW Q, IsFold(g, f, Q), NEW u, u \subseteq Q
  PROVE  /\ u = {} => g[u] = 0
         /\ u # {} => g[u] = f[First(u)] + g[u \ {First(u)}]
<1>. u \in SUBSET Q
  OBVIOUS
<1>. QED BY DEF IsFold

\* Two tables of a sum agree where both are defined.
LEMMA FoldsAgree ==
  ASSUME NEW f, NEW S, NEW T, NEW g, NEW h, IsFold(g, f, S), IsFold(h, f, T)
  PROVE  \A u : IsFiniteSet(u) /\ u \subseteq S /\ u \subseteq T => g[u] = h[u]
<1>. DEFINE Bad == {u \in FiniteSubsetsOf(S \cap T) : g[u] # h[u]}
<1>1. ASSUME Bad # {} PROVE FALSE
  <2>1. PICK u \in Bad : \A v \in Bad : ~ (v \subseteq u /\ v # u)
    <3>1. Bad \subseteq FiniteSubsetsOf(S \cap T)
      OBVIOUS
    <3>. HIDE DEF Bad
    <3>. QED BY <1>1, <3>1, SmallestSet
  <2>2. u \subseteq S /\ u \subseteq T /\ IsFiniteSet(u) /\ g[u] # h[u]
    BY DEF FiniteSubsetsOf
  <2>3. u # {}
    BY <2>2, FoldStep
  <2>. DEFINE v == u \ {First(u)}
  <2>4. v \subseteq u /\ v # u /\ IsFiniteSet(v)
    BY <2>2, <2>3, FirstIn, FS_RemoveElement
  <2>5. v \in FiniteSubsetsOf(S \cap T)
    BY <2>2, <2>4 DEF FiniteSubsetsOf
  <2>6. g[v] = h[v]
    BY <2>1, <2>4, <2>5
  <2>7. /\ g[u] = f[First(u)] + g[v]
        /\ h[u] = f[First(u)] + h[v]
    BY <2>2, <2>3, FoldStep
  <2>. QED BY <2>2, <2>6, <2>7
<1>2. ASSUME NEW u, IsFiniteSet(u), u \subseteq S, u \subseteq T PROVE g[u] = h[u]
  <2>1. u \in FiniteSubsetsOf(S \cap T)
    BY <1>2 DEF FiniteSubsetsOf
  <2>. QED BY <1>1, <2>1
<1>. QED BY <1>2

\* There is a table of the sum for every finite set: the smallest set without one has one.
LEMMA FoldExists ==
  ASSUME NEW f, NEW S, IsFiniteSet(S)
  PROVE  \E g : IsFold(g, f, S)
<1>. DEFINE Bad == {u \in FiniteSubsetsOf(S) : ~ \E g : IsFold(g, f, u)}
<1>1. ASSUME Bad # {} PROVE FALSE
  <2>1. PICK u \in Bad : \A v \in Bad : ~ (v \subseteq u /\ v # u)
    <3>1. Bad \subseteq FiniteSubsetsOf(S)
      OBVIOUS
    <3>. HIDE DEF Bad
    <3>. QED BY <1>1, <3>1, SmallestSet
  <2>2. u \subseteq S /\ IsFiniteSet(u) /\ ~ \E g : IsFold(g, f, u)
    BY DEF FiniteSubsetsOf
  <2>. DEFINE G(v) == CHOOSE g : IsFold(g, f, v)
              Low(v) == G(v)[v]
              g == [s \in SUBSET u |-> IF s = {} THEN 0
                      ELSE f[First(s)] + Low(s \ {First(s)})]
  <2>3. ASSUME NEW v, v \subseteq u, v # u PROVE IsFold(G(v), f, v) /\ IsFiniteSet(v)
    <3>1. IsFiniteSet(v)
      BY <2>2, <2>3, FS_Subset
    <3>2. v \in FiniteSubsetsOf(S)
      BY <2>2, <2>3, <3>1 DEF FiniteSubsetsOf
    <3>3. \E h : IsFold(h, f, v)
      BY <2>1, <2>3, <3>2
    <3>. QED BY <3>1, <3>3
  <2>4. ASSUME NEW s, s \subseteq u, s # u PROVE g[s] = Low(s)
    <3>0. s \in SUBSET u
      BY <2>4
    <3>1. IsFold(G(s), f, s)
      BY <2>3, <2>4
    <3>2. CASE s = {}
      <4>. HIDE DEF G
      <4>1. G(s)[s] = 0
        BY <3>1, <3>2, FoldStep
      <4>. QED BY <3>0, <3>2, <4>1
    <3>3. CASE s # {}
      <4>. DEFINE v == s \ {First(s)}
      <4>1. v \subseteq u /\ v # u /\ v \subseteq s
        BY <2>4, <3>3, FirstIn
      <4>2. IsFold(G(v), f, v) /\ IsFiniteSet(v)
        BY <2>3, <4>1
      <4>. HIDE DEF v, G
      <4>3. G(s)[v] = G(v)[v]
        BY <3>1, <4>1, <4>2, FoldsAgree
      <4>4. G(s)[s] = f[First(s)] + G(s)[v]
        BY <3>1, <3>3, FoldStep DEF v
      <4>5. g[s] = f[First(s)] + G(v)[v]
        BY <3>0, <3>3 DEF v
      <4>. QED BY <4>3, <4>4, <4>5
    <3>. QED BY <3>2, <3>3
  <2>. HIDE DEF Low
  <2>5. ASSUME NEW s \in SUBSET u
        PROVE  g[s] = IF s = {} THEN 0
                      ELSE f[First(s)] + g[s \ {First(s)}]
    <3>1. CASE s = {}
      BY <3>1
    <3>2. CASE s # {}
      <4>. DEFINE v == s \ {First(s)}
      <4>1. v \subseteq u /\ v # u
        BY <3>2, FirstIn
      <4>2. g[s] = f[First(s)] + Low(v)
        BY <3>2
      <4>. HIDE DEF v, g
      <4>3. g[v] = Low(v)
        BY <2>4, <4>1
      <4>. QED BY <3>2, <4>2, <4>3 DEF v
    <3>. QED BY <3>1, <3>2
  <2>6. IsFold(g, f, u)
    <3>1. g = [s \in SUBSET u |-> g[s]]
      OBVIOUS
    <3>. HIDE DEF g
    <3>2. g = [s \in SUBSET u |-> IF s = {} THEN 0
                      ELSE f[First(s)] + g[s \ {First(s)}]]
      BY <2>5, <3>1
    <3>. QED BY <3>2 DEF IsFold
  <2>. QED BY <2>2, <2>6
<1>2. S \in FiniteSubsetsOf(S)
  BY DEF FiniteSubsetsOf
<1>. QED BY <1>1, <1>2

\* The sum, one term after the other.
LEMMA SumStep ==
  ASSUME NEW f, NEW Q, IsFiniteSet(Q)
  PROVE  /\ Q = {} => SumOf(f, Q) = 0
         /\ Q # {} => SumOf(f, Q) =
                        f[First(Q)] + SumOf(f, Q \ {First(Q)})
<1>. DEFINE G(v) == CHOOSE g : IsFold(g, f, v)
<1>1. \A v : SumOf(f, v) = G(v)[v]
  BY DEF SumOf, MapThenSumSet, MapThenFoldSet, IsFold, First
<1>2. ASSUME NEW v, IsFiniteSet(v) PROVE IsFold(G(v), f, v)
  BY <1>2, FoldExists
<1>3. CASE Q = {}
  <2>. HIDE DEF G
  <2>1. G(Q)[Q] = 0
    BY <1>2, <1>3, FoldStep
  <2>. QED BY <1>1, <1>3, <2>1
<1>4. CASE Q # {}
  <2>. DEFINE v == Q \ {First(Q)}
  <2>1. v \subseteq Q /\ IsFiniteSet(v)
    BY FS_RemoveElement
  <2>2. IsFold(G(Q), f, Q) /\ IsFold(G(v), f, v)
    BY <1>2, <2>1
  <2>. HIDE DEF v, G
  <2>3. G(Q)[v] = G(v)[v]
    BY <2>1, <2>2, FoldsAgree
  <2>4. G(Q)[Q] = f[First(Q)] + G(Q)[v]
    BY <1>4, <2>2, FoldStep DEF v
  <2>. QED BY <1>1, <1>4, <2>3, <2>4 DEF v
<1>. QED BY <1>3, <1>4


\* The sum of numbers is a number.
LEMMA SumType ==
  ASSUME NEW f, NEW Q, IsFiniteSet(Q), \A c \in Q : f[c] \in Int
  PROVE  SumOf(f, Q) \in Int
<1>. DEFINE Bad == {u \in FiniteSubsetsOf(Q) : SumOf(f, u) \notin Int}
<1>1. ASSUME Bad # {} PROVE FALSE
  <2>1. PICK u \in Bad : \A v \in Bad : ~ (v \subseteq u /\ v # u)
    <3>1. Bad \subseteq FiniteSubsetsOf(Q)
      OBVIOUS
    <3>. HIDE DEF Bad
    <3>. QED BY <1>1, <3>1, SmallestSet
  <2>2. u \subseteq Q /\ IsFiniteSet(u) /\ SumOf(f, u) \notin Int
    BY DEF FiniteSubsetsOf
  <2>3. u # {}
    <3>1. u = {} => SumOf(f, u) = 0
      BY <2>2, SumStep
    <3>. QED BY <2>2, <3>1
  <2>. DEFINE v == u \ {First(u)}
  <2>4. First(u) \in Q /\ v \subseteq u /\ v # u /\ IsFiniteSet(v)
    BY <2>2, <2>3, FirstIn, FS_RemoveElement
  <2>5. v \in FiniteSubsetsOf(Q)
    BY <2>2, <2>4 DEF FiniteSubsetsOf
  <2>6. SumOf(f, v) \in Int
    BY <2>1, <2>4, <2>5
  <2>7. SumOf(f, u) = f[First(u)] + SumOf(f, v)
    BY <2>2, <2>3, SumStep
  <2>8. f[First(u)] \in Int
    BY <2>4
  <2>. HIDE DEF v
  <2>. QED BY <2>2, <2>6, <2>7, <2>8
<1>2. Q \in FiniteSubsetsOf(Q)
  BY DEF FiniteSubsetsOf
<1>. QED BY <1>1, <1>2

\* Any term may be the first.
LEMMA SumRemove ==
  ASSUME NEW f, NEW Q, IsFiniteSet(Q), \A c \in Q : f[c] \in Int, NEW c \in Q
  PROVE  SumOf(f, Q) = f[c] + SumOf(f, Q \ {c})
<1>. DEFINE Bad == {u \in FiniteSubsetsOf(Q) :
                      \E d \in u : SumOf(f, u) # f[d] + SumOf(f, u \ {d})}
<1>1. ASSUME Bad # {} PROVE FALSE
  <2>1. PICK u \in Bad : \A v \in Bad : ~ (v \subseteq u /\ v # u)
    <3>1. Bad \subseteq FiniteSubsetsOf(Q)
      OBVIOUS
    <3>. HIDE DEF Bad
    <3>. QED BY <1>1, <3>1, SmallestSet
  <2>2. u \subseteq Q /\ IsFiniteSet(u)
    BY DEF FiniteSubsetsOf
  <2>3. PICK d \in u : SumOf(f, u) # f[d] + SumOf(f, u \ {d})
    OBVIOUS
  <2>. DEFINE e == First(u)
              v == u \ {e}
              w == u \ {d}
              z == v \ {d}
  <2>4. e \in u /\ d \in u /\ f[e] \in Int /\ f[d] \in Int
    BY <2>2, <2>3, FirstIn
  <2>5. SumOf(f, u) = f[e] + SumOf(f, v)
    BY <2>2, <2>4, SumStep
  <2>6. e # d
    BY <2>3, <2>5
  <2>7. /\ v \subseteq u /\ v # u /\ IsFiniteSet(v) /\ v \in FiniteSubsetsOf(Q)
        /\ w \subseteq u /\ w # u /\ IsFiniteSet(w) /\ w \in FiniteSubsetsOf(Q)
        /\ z = w \ {e} /\ IsFiniteSet(z) /\ z \subseteq Q /\ d \in v /\ e \in w
    BY <2>2, <2>4, <2>6, FS_RemoveElement DEF FiniteSubsetsOf
  <2>8. SumOf(f, v) = f[d] + SumOf(f, z)
    BY <2>1, <2>7
  <2>9. SumOf(f, w) = f[e] + SumOf(f, w \ {e})
    BY <2>1, <2>7
  <2>10. SumOf(f, z) \in Int
    BY <2>7, SumType
  <2>. HIDE DEF e, v, w, z
  <2>11. SumOf(f, u) = f[d] + SumOf(f, w)
    BY <2>4, <2>5, <2>7, <2>8, <2>9, <2>10
  <2>. QED BY <2>3, <2>11 DEF w
<1>2. Q \in FiniteSubsetsOf(Q)
  BY DEF FiniteSubsetsOf
<1>. QED BY <1>1, <1>2

\* A sum of nothing is zero.
LEMMA SumEmpty == \A f : SumOf(f, {}) = 0
  BY SumStep, FS_EmptySet

\* One more term.
LEMMA SumInsert ==
  ASSUME NEW f, NEW Q, IsFiniteSet(Q), NEW c, c \notin Q, \A d \in Q \cup {c} : f[d] \in Int
  PROVE  SumOf(f, Q \cup {c}) = f[c] + SumOf(f, Q)
<1>1. IsFiniteSet(Q \cup {c}) /\ (Q \cup {c}) \ {c} = Q
  BY FS_AddElement
<1>. QED BY <1>1, SumRemove

\* The sum of sums.
LEMMA SumAdds ==
  ASSUME NEW f, NEW d, NEW h, NEW Q, IsFiniteSet(Q),
         \A c \in Q : f[c] \in Int /\ d[c] \in Int /\ h[c] = f[c] + d[c]
  PROVE  SumOf(h, Q) = SumOf(f, Q) + SumOf(d, Q)
<1>. DEFINE Good == {T \in SUBSET Q : SumOf(h, T) = SumOf(f, T) + SumOf(d, T)}
<1>1. {} \in Good
  BY SumEmpty
<1>2. ASSUME NEW T \in SUBSET Q, NEW x \in Q \ T, IsFiniteSet(T), T \in Good
      PROVE  T \cup {x} \in Good
  <2>1. \A c \in T \cup {x} : f[c] \in Int /\ d[c] \in Int /\ h[c] \in Int
    OBVIOUS
  <2>2. /\ SumOf(h, T \cup {x}) = h[x] + SumOf(h, T)
        /\ SumOf(f, T \cup {x}) = f[x] + SumOf(f, T)
        /\ SumOf(d, T \cup {x}) = d[x] + SumOf(d, T)
    BY <1>2, <2>1, SumInsert
  <2>3. SumOf(f, T) \in Int /\ SumOf(d, T) \in Int /\ SumOf(h, T) = SumOf(f, T) + SumOf(d, T)
    BY <1>2, SumType
  <2>4. h[x] = f[x] + d[x] /\ f[x] \in Int /\ d[x] \in Int
    OBVIOUS
  <2>5. SumOf(h, T \cup {x}) = SumOf(f, T \cup {x}) + SumOf(d, T \cup {x})
    BY <2>2, <2>3, <2>4
  <2>. QED BY <1>2, <2>5
<1>. HIDE DEF Good
<1>3. Q \in Good
  BY <1>1, <1>2, OneByOne
<1>. QED BY <1>3 DEF Good

\* A sum of zeros is zero.
LEMMA SumZero ==
  ASSUME NEW f, NEW Q, IsFiniteSet(Q), \A c \in Q : f[c] = 0
  PROVE  SumOf(f, Q) = 0
<1>1. SumOf(f, Q) \in Int
  BY SumType
<1>2. SumOf(f, Q) = SumOf(f, Q) + SumOf(f, Q)
  BY SumAdds
<1>. QED BY <1>1, <1>2, SMTT(30)

\* The sum is determined by its terms.
LEMMA SumSame ==
  ASSUME NEW f, NEW h, NEW Q, IsFiniteSet(Q), \A c \in Q : f[c] \in Int /\ h[c] = f[c]
  PROVE  SumOf(h, Q) = SumOf(f, Q)
<1>. DEFINE d == [c \in Q |-> 0]
<1>1. \A c \in Q : f[c] \in Int /\ d[c] \in Int /\ h[c] = f[c] + d[c] /\ d[c] = 0
  OBVIOUS
<1>. HIDE DEF d
<1>2. SumOf(h, Q) = SumOf(f, Q) + SumOf(d, Q) /\ SumOf(d, Q) = 0 /\ SumOf(f, Q) \in Int
  BY <1>1, SumAdds, SumZero, SumType
<1>. QED BY <1>2

\* When one term is changed, the sum changes by as much.
LEMMA SumChange ==
  ASSUME NEW f, NEW h, NEW Q, IsFiniteSet(Q), NEW c \in Q, h[c] \in Int, f[c] \in Int,
         \A e \in Q \ {c} : f[e] \in Int /\ h[e] = f[e]
  PROVE  SumOf(h, Q) = SumOf(f, Q) - f[c] + h[c]
<1>1. IsFiniteSet(Q \ {c})
  BY FS_RemoveElement
<1>2. SumOf(f, Q) = f[c] + SumOf(f, Q \ {c}) /\ SumOf(h, Q) = h[c] + SumOf(h, Q \ {c})
  BY SumRemove
<1>3. SumOf(h, Q \ {c}) = SumOf(f, Q \ {c}) /\ SumOf(f, Q \ {c}) \in Int
  BY <1>1, SumSame, SumType
<1>. QED BY <1>2, <1>3

\* What lies outside of a part adds nothing when it is zero.
LEMMA SumPart ==
  ASSUME NEW f, NEW Q, IsFiniteSet(Q), NEW R \in SUBSET Q, \A c \in R : f[c] \in Int,
         \A c \in Q \ R : f[c] = 0
  PROVE  SumOf(f, Q) = SumOf(f, R)
<1>. DEFINE Good == {T \in SUBSET Q : SumOf(f, T) = SumOf(f, T \cap R)}
<1>1. {} \in Good
  <2>1. {} \cap R = {}
    OBVIOUS
  <2>. QED BY <2>1
<1>2. ASSUME NEW T \in SUBSET Q, NEW x \in Q \ T, IsFiniteSet(T), T \in Good
      PROVE  T \cup {x} \in Good
  <2>1. \A c \in T \cup {x} : f[c] \in Int
    OBVIOUS
  <2>2. SumOf(f, T \cup {x}) = f[x] + SumOf(f, T)
    BY <1>2, <2>1, SumInsert
  <2>3. IsFiniteSet(T \cap R)
    BY <1>2, FS_Intersection
  <2>4. SumOf(f, T) = SumOf(f, T \cap R) /\ SumOf(f, T \cap R) \in Int
    BY <1>2, <2>1, <2>3, SumType
  <2>5. CASE x \in R
    <3>1. (T \cup {x}) \cap R = (T \cap R) \cup {x}
      BY <2>5
    <3>2. SumOf(f, (T \cap R) \cup {x}) = f[x] + SumOf(f, T \cap R)
      BY <2>1, <2>3, SumInsert
    <3>. QED BY <2>2, <2>4, <3>1, <3>2
  <2>6. CASE x \notin R
    <3>1. (T \cup {x}) \cap R = T \cap R /\ f[x] = 0
      BY <2>6
    <3>2. SumOf(f, T \cup {x}) = SumOf(f, T)
      BY <2>2, <2>4, <3>1
    <3>. QED BY <1>2, <2>4, <3>1, <3>2
  <2>. QED BY <2>5, <2>6
<1>. HIDE DEF Good
<1>3. Q \in Good
  BY <1>1, <1>2, OneByOne
<1>4. Q \cap R = R
  OBVIOUS
<1>. QED BY <1>3, <1>4 DEF Good

\* A sum of natural numbers is one, and none of them is greater.
LEMMA SumNat ==
  ASSUME NEW f, NEW Q, IsFiniteSet(Q), \A c \in Q : f[c] \in Nat
  PROVE  SumOf(f, Q) \in Nat /\ \A c \in Q : f[c] <= SumOf(f, Q)
<1>3. ASSUME NEW T \in SUBSET Q, IsFiniteSet(T) PROVE SumOf(f, T) \in Nat
  <2>. DEFINE Fine == {U \in SUBSET T : SumOf(f, U) \in Nat}
  <2>1. {} \in Fine
    BY SumEmpty
  <2>2. ASSUME NEW U \in SUBSET T, NEW x \in T \ U, IsFiniteSet(U), U \in Fine
        PROVE  U \cup {x} \in Fine
    <3>1. \A c \in U \cup {x} : f[c] \in Int
      OBVIOUS
    <3>2. SumOf(f, U \cup {x}) = f[x] + SumOf(f, U)
      BY <2>2, <3>1, SumInsert
    <3>. QED BY <2>2, <3>2
  <2>. HIDE DEF Fine
  <2>3. T \in Fine
    BY <1>3, <2>1, <2>2, OneByOne
  <2>. QED BY <2>3 DEF Fine
<1>4. ASSUME NEW c \in Q PROVE f[c] <= SumOf(f, Q)
  <2>1. IsFiniteSet(Q \ {c})
    BY FS_RemoveElement
  <2>2. SumOf(f, Q) = f[c] + SumOf(f, Q \ {c}) /\ SumOf(f, Q \ {c}) \in Nat
    BY <1>3, <2>1, SumRemove
  <2>. QED BY <2>2
<1>. QED BY <1>3, <1>4

\* A smaller sum, term by term.
LEMMA SumBelow ==
  ASSUME NEW f, NEW h, NEW Q, IsFiniteSet(Q),
         \A c \in Q : f[c] \in Int /\ h[c] \in Int /\ f[c] <= h[c]
  PROVE  SumOf(f, Q) <= SumOf(h, Q)
<1>. DEFINE d == [c \in Q |-> h[c] - f[c]]
<1>1. \A c \in Q : d[c] \in Nat /\ d[c] \in Int /\ h[c] = f[c] + d[c]
  OBVIOUS
<1>. HIDE DEF d
<1>2. SumOf(h, Q) = SumOf(f, Q) + SumOf(d, Q) /\ SumOf(d, Q) \in Nat /\ SumOf(f, Q) \in Int
  BY <1>1, SumAdds, SumNat, SumType
<1>. QED BY <1>2

\* Two parts of a sum.
LEMMA SumParts ==
  ASSUME NEW f, NEW Q, IsFiniteSet(Q), \A c \in Q : f[c] \in Int, NEW R \in SUBSET Q
  PROVE  SumOf(f, Q) = SumOf(f, R) + SumOf(f, Q \ R)
<1>. DEFINE a == [c \in Q |-> IF c \in R THEN f[c] ELSE 0]
            b == [c \in Q |-> IF c \in R THEN 0 ELSE f[c]]
<1>1. /\ \A c \in Q : a[c] \in Int /\ b[c] \in Int /\ f[c] = a[c] + b[c]
      /\ \A c \in R : a[c] = f[c] /\ f[c] \in Int
      /\ \A c \in Q \ R : a[c] = 0 /\ b[c] = f[c]
      /\ \A c \in R : b[c] = 0
  OBVIOUS
<1>2. IsFiniteSet(R) /\ IsFiniteSet(Q \ R) /\ Q \ R \in SUBSET Q /\ Q \ (Q \ R) = R
  BY FS_Subset
<1>. HIDE DEF a, b
<1>3. SumOf(f, Q) = SumOf(a, Q) + SumOf(b, Q)
  BY <1>1, SumAdds
<1>4. SumOf(a, Q) = SumOf(a, R) /\ SumOf(a, R) = SumOf(f, R)
  BY <1>1, <1>2, SumPart, SumSame
<1>5. SumOf(b, Q) = SumOf(b, Q \ R)
  BY <1>1, <1>2, SumPart
<1>6. SumOf(b, Q \ R) = SumOf(f, Q \ R)
  BY <1>1, <1>2, SumSame
<1>. QED BY <1>3, <1>4, <1>5, <1>6

-----------------------------------------------------------------------------
(* Sets that grow *)

\* A function that grows sets, and the recursive one that does it up to the end.
Growing(grown, D) == grown \in [SUBSET D -> SUBSET D] /\ \A F \in SUBSET D : F \subseteq grown[F]
IsLimit(f, grown, X) == f = [F \in X |-> IF grown[F] = F THEN F ELSE f[grown[F]]]

\* How far from all of D.
Within(D, m) == {F \in SUBSET D : Cardinality(D \ F) <= m}

\* What grows has less left to grow.
LEMMA GrowsNearer ==
  ASSUME NEW D, IsFiniteSet(D), NEW grown, Growing(grown, D), NEW m \in Nat,
         NEW F \in Within(D, m + 1), grown[F] # F
  PROVE  grown[F] \in Within(D, m)
<1>1. F \in SUBSET D /\ F \subseteq grown[F] /\ grown[F] \in SUBSET D
  BY DEF Within, Growing
<1>2. PICK x \in grown[F] : x \notin F
  BY <1>1
<1>3. IsFiniteSet(D \ F) /\ IsFiniteSet(D \ grown[F])
  BY FS_Difference
<1>4. IsFiniteSet((D \ F) \ {x}) /\ Cardinality((D \ F) \ {x}) = Cardinality(D \ F) - 1
  BY <1>1, <1>2, <1>3, FS_RemoveElement
<1>5. D \ grown[F] \in SUBSET ((D \ F) \ {x})
  BY <1>1, <1>2
<1>6. Cardinality(D \ grown[F]) <= Cardinality((D \ F) \ {x})
  BY <1>4, <1>5, FS_Subset
<1>7. Cardinality(D \ grown[F]) \in Nat /\ Cardinality(D \ F) \in Nat
  BY <1>3, FS_CardinalityType
<1>8. Cardinality(D \ F) <= m + 1
  BY DEF Within
<1>9. Cardinality(D \ grown[F]) <= m
  BY <1>4, <1>6, <1>7, <1>8
<1>. QED BY <1>1, <1>9 DEF Within

\* A set that grows within a finite one stops growing.
LEMMA LimitExists ==
  ASSUME NEW D, IsFiniteSet(D), NEW grown, Growing(grown, D)
  PROVE  \E f : IsLimit(f, grown, SUBSET D)
<1>. DEFINE n == Cardinality(D)
            Good == {m \in 0 .. n : \E f : IsLimit(f, grown, Within(D, m))}
<1>1. n \in Nat
  BY FS_CardinalityType
<1>2. 0 \in Good
  <2>. DEFINE f == [F \in Within(D, 0) |-> F]
  <2>1. \A F \in Within(D, 0) : grown[F] = F
    <3>1. ASSUME NEW F \in Within(D, 0) PROVE F = D
      <4>1. IsFiniteSet(D \ F) /\ F \subseteq D
        BY FS_Difference DEF Within
      <4>2. Cardinality(D \ F) = 0
        BY <4>1, FS_CardinalityType DEF Within
      <4>3. D \ F = {}
        BY <4>1, <4>2, FS_EmptySet
      <4>. QED BY <4>1, <4>3
    <3>2. grown[D] = D
      BY DEF Growing
    <3>. QED BY <3>1, <3>2
  <2>2. IsLimit(f, grown, Within(D, 0))
    BY <2>1 DEF IsLimit
  <2>. QED BY <1>1, <2>2
<1>3. ASSUME NEW k \in 0 .. (n - 1), k \in Good PROVE k + 1 \in Good
  <2>1. k \in Nat /\ k + 1 \in 0 .. n
    BY <1>1
  <2>2. PICK f : IsLimit(f, grown, Within(D, k))
    BY <1>3
  <2>. DEFINE h == [F \in Within(D, k + 1) |-> IF grown[F] = F THEN F ELSE f[grown[F]]]
  <2>3. \A F \in Within(D, k) : F \in Within(D, k + 1)
    <3>1. ASSUME NEW F \in Within(D, k) PROVE F \in Within(D, k + 1)
      <4>1. IsFiniteSet(D \ F)
        BY FS_Difference
      <4>2. Cardinality(D \ F) \in Nat
        BY <4>1, FS_CardinalityType
      <4>. QED BY <2>1, <4>2 DEF Within
    <3>. QED BY <3>1
  <2>4. ASSUME NEW F \in Within(D, k) PROVE h[F] = f[F]
    <3>1. f[F] = IF grown[F] = F THEN F ELSE f[grown[F]]
      BY <2>2 DEF IsLimit
    <3>. QED BY <2>3, <3>1
  <2>5. ASSUME NEW F \in Within(D, k + 1)
        PROVE  h[F] = IF grown[F] = F THEN F ELSE h[grown[F]]
    <3>1. CASE grown[F] = F
      BY <3>1
    <3>2. CASE grown[F] # F
      <4>1. grown[F] \in Within(D, k)
        BY <2>1, <3>2, GrowsNearer
      <4>2. h[F] = f[grown[F]]
        BY <3>2
      <4>3. h[grown[F]] = f[grown[F]]
        BY <2>4, <4>1
      <4>. QED BY <3>2, <4>2, <4>3
    <3>. QED BY <3>1, <3>2
  <2>6. h = [F \in Within(D, k + 1) |-> h[F]]
    OBVIOUS
  <2>. HIDE DEF h
  <2>7. IsLimit(h, grown, Within(D, k + 1))
    BY <2>5, <2>6 DEF IsLimit
  <2>. QED BY <2>1, <2>7
<1>. HIDE DEF Good
<1>4. n \in Good
  BY <1>1, <1>2, <1>3, StepByStep
<1>5. Within(D, n) = SUBSET D
  <2>1. ASSUME NEW F \in SUBSET D PROVE F \in Within(D, n)
    <3>1. D \ F \in SUBSET D
      OBVIOUS
    <3>. QED BY <3>1, FS_Subset DEF Within
  <2>. QED BY <2>1 DEF Within
<1>. QED BY <1>4, <1>5 DEF Good

\* What has grown up to the end does not grow any more, and has all that the start has and
\* that growing keeps.
LEMMA LimitIs ==
  ASSUME NEW D, IsFiniteSet(D), NEW grown, Growing(grown, D), NEW start \in SUBSET D
  PROVE  /\ Limit(grown, start) \in SUBSET D
         /\ start \subseteq Limit(grown, start)
         /\ grown[Limit(grown, start)] = Limit(grown, start)
         /\ \A Kind : start \in Kind /\ (\A F \in SUBSET D : F \in Kind => grown[F] \in Kind)
                        => Limit(grown, start) \in Kind
<1>. DEFINE limit == CHOOSE f : f = [F \in DOMAIN grown |-> IF grown[F] = F THEN F ELSE f[grown[F]]]
            n == Cardinality(D)
<1>1. Limit(grown, start) = limit[start]
  BY DEF Limit
<1>2. DOMAIN grown = SUBSET D /\ n \in Nat
  BY FS_CardinalityType DEF Growing
<1>3. limit = [F \in SUBSET D |-> IF grown[F] = F THEN F ELSE limit[grown[F]]]
  <2>1. PICK f : IsLimit(f, grown, SUBSET D)
    BY LimitExists
  <2>2. f = [F \in DOMAIN grown |-> IF grown[F] = F THEN F ELSE f[grown[F]]]
    BY <1>2, <2>1 DEF IsLimit
  <2>3. limit = [F \in DOMAIN grown |-> IF grown[F] = F THEN F ELSE limit[grown[F]]]
    BY <2>2
  <2>. QED BY <1>2, <2>3
<1>. HIDE DEF limit
<1>4. ASSUME NEW F \in SUBSET D PROVE limit[F] = IF grown[F] = F THEN F ELSE limit[grown[F]]
  BY <1>3
<1>. DEFINE Fine(F, X) == X \in SUBSET D /\ F \subseteq X /\ grown[X] = X
            Good == {m \in 0 .. n : \A F \in Within(D, m) : Fine(F, limit[F])}
<1>5. 0 \in Good
  <2>1. ASSUME NEW F \in Within(D, 0) PROVE Fine(F, limit[F])
    <3>1. IsFiniteSet(D \ F) /\ F \in SUBSET D
      BY FS_Difference DEF Within
    <3>2. Cardinality(D \ F) = 0
      BY <3>1, FS_CardinalityType DEF Within
    <3>3. D \ F = {}
      BY <3>1, <3>2, FS_EmptySet
    <3>4. grown[F] = F
      BY <3>1, <3>3 DEF Growing
    <3>. QED BY <1>4, <3>1, <3>4
  <2>. QED BY <1>2, <2>1
<1>6. ASSUME NEW k \in 0 .. (n - 1), k \in Good PROVE k + 1 \in Good
  <2>1. k \in Nat /\ k + 1 \in 0 .. n
    BY <1>2
  <2>2. ASSUME NEW F \in Within(D, k + 1) PROVE Fine(F, limit[F])
    <3>1. F \in SUBSET D /\ F \subseteq grown[F]
      BY DEF Within, Growing
    <3>2. CASE grown[F] = F
      BY <1>4, <3>1, <3>2
    <3>3. CASE grown[F] # F
      <4>1. grown[F] \in Within(D, k)
        BY <2>1, <3>3, GrowsNearer
      <4>2. Fine(grown[F], limit[grown[F]])
        BY <1>6, <4>1
      <4>. QED BY <1>4, <3>1, <3>3, <4>2
    <3>. QED BY <3>2, <3>3
  <2>. QED BY <2>1, <2>2
<1>7. n \in Good
  <2>. HIDE DEF Good
  <2>. QED BY <1>2, <1>5, <1>6, StepByStep
<1>8. \A F \in SUBSET D : F \in Within(D, n)
  <2>1. ASSUME NEW F \in SUBSET D PROVE F \in Within(D, n)
    <3>1. D \ F \in SUBSET D
      OBVIOUS
    <3>. QED BY <3>1, FS_Subset DEF Within
  <2>. QED BY <2>1
<1>9. ASSUME NEW Kind, \A F \in SUBSET D : F \in Kind => grown[F] \in Kind, start \in Kind
      PROVE  limit[start] \in Kind
  <2>. DEFINE Well == {m \in 0 .. n : \A F \in Within(D, m) : F \in Kind => limit[F] \in Kind}
  <2>1. 0 \in Well
    <3>1. ASSUME NEW F \in Within(D, 0), F \in Kind PROVE limit[F] \in Kind
      <4>1. IsFiniteSet(D \ F) /\ F \in SUBSET D
        BY FS_Difference DEF Within
      <4>2. Cardinality(D \ F) = 0
        BY <4>1, FS_CardinalityType DEF Within
      <4>3. D \ F = {}
        BY <4>1, <4>2, FS_EmptySet
      <4>4. grown[F] = F
        BY <4>1, <4>3 DEF Growing
      <4>. QED BY <1>4, <3>1, <4>1, <4>4
    <3>. QED BY <1>2, <3>1
  <2>2. ASSUME NEW k \in 0 .. (n - 1), k \in Well PROVE k + 1 \in Well
    <3>1. k \in Nat /\ k + 1 \in 0 .. n
      BY <1>2
    <3>2. ASSUME NEW F \in Within(D, k + 1), F \in Kind PROVE limit[F] \in Kind
      <4>1. F \in SUBSET D
        BY DEF Within
      <4>2. CASE grown[F] = F
        BY <1>4, <3>2, <4>1, <4>2
      <4>3. CASE grown[F] # F
        <5>1. grown[F] \in Within(D, k)
          BY <3>1, <4>3, GrowsNearer
        <5>2. grown[F] \in Kind
          BY <1>9, <3>2, <4>1
        <5>3. limit[grown[F]] \in Kind
          BY <2>2, <5>1, <5>2
        <5>. QED BY <1>4, <4>1, <4>3, <5>3
      <4>. QED BY <4>2, <4>3
    <3>. QED BY <3>1, <3>2
  <2>3. n \in Well
    <3>. HIDE DEF Well
    <3>. QED BY <1>2, <2>1, <2>2, StepByStep
  <2>. QED BY <1>8, <1>9, <2>3
<1>10. Fine(start, limit[start])
  BY <1>7, <1>8
<1>. QED BY <1>1, <1>9, <1>10

-----------------------------------------------------------------------------
(* Sequences *)

LEMMA SeqElements ==
  ASSUME NEW S, NEW seq
  PROVE  seq \in Seq(S) <=> /\ Len(seq) \in Nat /\ DOMAIN seq = 1 .. Len(seq)
                            /\ seq = [k \in 1 .. Len(seq) |-> seq[k]]
                            /\ \A k \in 1 .. Len(seq) : seq[k] \in S
<1>1. ASSUME seq \in Seq(S)
      PROVE  /\ Len(seq) \in Nat /\ DOMAIN seq = 1 .. Len(seq)
             /\ seq = [k \in 1 .. Len(seq) |-> seq[k]]
             /\ \A k \in 1 .. Len(seq) : seq[k] \in S
  BY <1>1, LenProperties
<1>2. ASSUME /\ Len(seq) \in Nat /\ DOMAIN seq = 1 .. Len(seq)
             /\ seq = [k \in 1 .. Len(seq) |-> seq[k]]
             /\ \A k \in 1 .. Len(seq) : seq[k] \in S
      PROVE  seq \in Seq(S)
  <2>1. seq \in [1 .. Len(seq) -> S]
    BY <1>2
  <2>2. seq \in UNION {[1 .. n -> S] : n \in Nat}
    BY <1>2, <2>1
  <2>. QED BY <2>2, SeqDef
<1>. QED BY <1>1, <1>2

\* All but the last, after one was replaced by the last.
LEMMA MovedIs ==
  ASSUME NEW S, NEW seq \in Seq(S), NEW j \in 1 .. Len(seq)
  PROVE  /\ Moved(seq, j) \in Seq(S) /\ Len(Moved(seq, j)) = Len(seq) - 1
         /\ \A k \in 1 .. (Len(seq) - 1) :
              Moved(seq, j)[k] = IF k = j THEN seq[Len(seq)] ELSE seq[k]
<1>. DEFINE n == Len(seq)
            t == [seq EXCEPT ![j] = Last(seq)]
<1>1. n \in Nat /\ n \in 1 .. n /\ Last(seq) = seq[n] /\ seq[n] \in S
  BY LenProperties, ElementOfSeq DEF Last
<1>2. t \in Seq(S) /\ Len(t) = n /\ \A k \in 1 .. n : t[k] = IF k = j THEN seq[n] ELSE seq[k]
  BY <1>1, ExceptSeq
<1>. HIDE DEF t
<1>3. \A k \in 1 .. (n - 1) : t[k] \in S
  BY <1>1, <1>2, ElementOfSeq
<1>4. /\ SubSeq(t, 1, n - 1) \in Seq(S)
      /\ Len(SubSeq(t, 1, n - 1)) = IF 1 <= n - 1 THEN (n - 1) - 1 + 1 ELSE 0
      /\ \A k \in 1 .. (n - 1) - 1 + 1 : SubSeq(t, 1, n - 1)[k] = t[1 + k - 1]
  BY <1>1, <1>3, SubSeqProperties
<1>5. Moved(seq, j) = SubSeq(t, 1, n - 1)
  BY <1>2 DEF Moved, Front, t
<1>6. Len(SubSeq(t, 1, n - 1)) = n - 1
  <2>1. n \in Nat /\ 1 <= n
    BY <1>1
  <2>. HIDE DEF n
  <2>2. (IF 1 <= n - 1 THEN (n - 1) - 1 + 1 ELSE 0) = n - 1
    BY <2>1
  <2>. QED BY <1>4, <2>2
<1>7. \A k \in 1 .. (n - 1) : SubSeq(t, 1, n - 1)[k] = t[k]
  <2>1. ASSUME NEW k \in 1 .. (n - 1) PROVE 1 + k - 1 = k /\ k \in 1 .. (n - 1) - 1 + 1
    BY <1>1
  <2>. HIDE DEF n
  <2>. QED BY <1>4, <2>1
<1>. QED BY <1>1, <1>2, <1>4, <1>5, <1>6, <1>7

-----------------------------------------------------------------------------
(* Counting in sequences *)

Is(a, o) == IF a = o THEN 1 ELSE 0

\* To count is to add up ones.
LEMMA CountIsSum ==
  ASSUME NEW D, IsFiniteSet(D), NEW f, NEW o
  PROVE  Cardinality({k \in D : f[k] = o}) = SumOf([k \in D |-> Is(f[k], o)], D)
<1>. DEFINE h == [k \in D |-> Is(f[k], o)]
            At(T) == {k \in T : f[k] = o}
            Good == {T \in SUBSET D : Cardinality(At(T)) = SumOf(h, T)}
<1>1. {} \in Good
  <2>1. At({}) = {}
    OBVIOUS
  <2>. QED BY <2>1, SumEmpty, FS_EmptySet
<1>2. ASSUME NEW T \in SUBSET D, NEW x \in D \ T, IsFiniteSet(T), T \in Good
      PROVE  T \cup {x} \in Good
  <2>1. \A c \in T \cup {x} : h[c] \in Int
    BY DEF Is
  <2>2. SumOf(h, T \cup {x}) = h[x] + SumOf(h, T)
    <3>. HIDE DEF h
    <3>. QED BY <1>2, <2>1, SumInsert
  <2>3. At(T) \in SUBSET T /\ IsFiniteSet(At(T))
    BY <1>2, FS_Subset
  <2>4. Cardinality(At(T)) \in Nat /\ Cardinality(At(T)) = SumOf(h, T)
    BY <1>2, <2>3, FS_CardinalityType
  <2>5. CASE f[x] = o
    <3>1. At(T \cup {x}) = At(T) \cup {x} /\ x \notin At(T) /\ h[x] = 1
      BY <2>5 DEF Is
    <3>. HIDE DEF At, h
    <3>2. Cardinality(At(T) \cup {x}) = Cardinality(At(T)) + 1
      BY <2>3, <3>1, FS_AddElement
    <3>3. Cardinality(At(T \cup {x})) = SumOf(h, T \cup {x})
      <4>1. \A a, b, c, d \in Int : a = b /\ c = b + 1 /\ d = 1 + a => c = d
        OBVIOUS
      <4>2. Cardinality(At(T \cup {x})) = Cardinality(At(T)) + 1
        BY <3>1, <3>2
      <4>3. SumOf(h, T \cup {x}) = 1 + SumOf(h, T)
        BY <2>2, <3>1
      <4>. QED BY <2>4, <4>2, <4>3
    <3>. QED BY <1>2, <3>3
  <2>6. CASE f[x] # o
    <3>1. At(T \cup {x}) = At(T) /\ h[x] = 0
      BY <2>6 DEF Is
    <3>. HIDE DEF At, h
    <3>2. Cardinality(At(T \cup {x})) = SumOf(h, T \cup {x})
      BY <2>2, <2>4, <3>1
    <3>. QED BY <1>2, <3>2
  <2>. QED BY <2>5, <2>6
<1>. HIDE DEF Good
<1>3. D \in Good
  BY <1>1, <1>2, OneByOne
<1>. QED BY <1>3 DEF Good

\* Of a sequence, the terms may be added up to any index.
LEMMA SumLonger ==
  ASSUME NEW f, NEW n \in Nat, \A k \in 1 .. (n + 1) : f[k] \in Int
  PROVE  SumOf(f, 1 .. (n + 1)) = SumOf(f, 1 .. n) + f[n + 1] /\ SumOf(f, 1 .. n) \in Int
<1>1. IsFiniteSet(1 .. n)
  BY FS_Interval
<1>2. 1 .. (n + 1) = (1 .. n) \cup {n + 1} /\ n + 1 \notin 1 .. n
  OBVIOUS
<1>3. SumOf(f, 1 .. n) \in Int
  BY <1>1, SumType
<1>4. SumOf(f, (1 .. n) \cup {n + 1}) = f[n + 1] + SumOf(f, 1 .. n)
  BY <1>1, <1>2, SumInsert
<1>5. f[n + 1] \in Int
  OBVIOUS
<1>6. SumOf(f, 1 .. (n + 1)) = f[n + 1] + SumOf(f, 1 .. n)
  BY <1>2, <1>4
<1>. QED BY <1>3, <1>5, <1>6

\* When the last takes the place of another, that other is missing.
LEMMA SumMoved ==
  ASSUME NEW f, NEW h, NEW n \in Nat, NEW j \in 1 .. n, \A k \in 1 .. n : f[k] \in Int,
         \A k \in 1 .. (n - 1) : h[k] = IF k = j THEN f[n] ELSE f[k]
  PROVE  SumOf(h, 1 .. (n - 1)) = SumOf(f, 1 .. n) - f[j]
<1>. DEFINE m == n - 1
<1>1. m \in Nat /\ m + 1 = n /\ IsFiniteSet(1 .. m)
  BY FS_Interval
<1>2. \A k \in 1 .. m : k \in 1 .. n /\ f[k] \in Int /\ h[k] \in Int
  OBVIOUS
<1>3. f[j] \in Int /\ f[n] \in Int
  OBVIOUS
<1>. HIDE DEF m
<1>4. SumOf(f, 1 .. n) = SumOf(f, 1 .. m) + f[n] /\ SumOf(f, 1 .. m) \in Int
  BY <1>1, SumLonger
<1>5. CASE j = n
  <2>1. \A k \in 1 .. m : h[k] = f[k]
    BY <1>1, <1>2, <1>5 DEF m
  <2>2. SumOf(h, 1 .. m) = SumOf(f, 1 .. m)
    BY <1>1, <1>2, <2>1, SumSame
  <2>. QED BY <1>3, <1>4, <1>5, <2>2 DEF m
<1>6. CASE j # n
  <2>1. j \in 1 .. m
    BY <1>6 DEF m
  <2>2. h[j] = f[n] /\ \A k \in (1 .. m) \ {j} : h[k] = f[k]
    BY <2>1 DEF m
  <2>3. SumOf(h, 1 .. m) = SumOf(f, 1 .. m) - f[j] + h[j]
    <3>1. h[j] \in Int /\ f[j] \in Int /\ \A e \in (1 .. m) \ {j} : f[e] \in Int /\ h[e] = f[e]
      BY <1>2, <1>3, <2>1, <2>2
    <3>. QED BY <1>1, <2>1, <3>1, SumChange
  <2>. QED BY <1>3, <1>4, <2>2, <2>3 DEF m
<1>. QED BY <1>5, <1>6

\* Occurrences are a sum over the places of a sequence.
LEMMA OccurrencesSum ==
  ASSUME NEW S, NEW seq \in Seq(S), NEW o
  PROVE  /\ Occurrences(seq, o) = SumOf([k \in 1 .. Len(seq) |-> Is(seq[k], o)], 1 .. Len(seq))
         /\ Occurrences(seq, o) \in Nat
         /\ Occurrences(seq, o) = 0 <=> \A k \in 1 .. Len(seq) : seq[k] # o
         /\ \A k \in 1 .. Len(seq) : seq[k] = o => Occurrences(seq, o) >= 1
<1>1. DOMAIN seq = 1 .. Len(seq) /\ Len(seq) \in Nat /\ IsFiniteSet(1 .. Len(seq))
  BY LenProperties, FS_Interval
<1>2. Occurrences(seq, o) = SumOf([k \in 1 .. Len(seq) |-> Is(seq[k], o)], 1 .. Len(seq))
  <2>1. \A D, f : IsFiniteSet(D) => Cardinality({k \in D : f[k] = o}) = SumOf([k \in D |-> Is(f[k], o)], D)
    BY CountIsSum
  <2>2. Cardinality({k \in 1 .. Len(seq) : seq[k] = o})
          = SumOf([k \in 1 .. Len(seq) |-> Is(seq[k], o)], 1 .. Len(seq))
    BY <1>1, <2>1, Zenon
  <2>. QED BY <1>1, <2>2 DEF Occurrences
<1>. DEFINE At == {k \in 1 .. Len(seq) : seq[k] = o}
<1>3. IsFiniteSet(At) /\ Occurrences(seq, o) = Cardinality(At)
  BY <1>1, FS_Subset DEF Occurrences
<1>4. Cardinality(At) \in Nat /\ (Cardinality(At) = 0 <=> At = {})
  BY <1>3, FS_CardinalityType, FS_EmptySet
<1>5. At = {} <=> \A k \in 1 .. Len(seq) : seq[k] # o
  OBVIOUS
<1>. HIDE DEF At
<1>6. Cardinality(At) # 0 => Cardinality(At) >= 1
  BY <1>4
<1>. QED BY <1>2, <1>3, <1>4, <1>5, <1>6

\* Occurrences in short sequences.
LEMMA OccurrencesShort ==
  ASSUME NEW a, NEW b, NEW o
  PROVE  /\ Occurrences(<<>>, o) = 0
         /\ Occurrences(<<a>>, o) = Is(a, o)
         /\ Occurrences(<<a, b>>, o) = Is(a, o) + Is(b, o)
<1>. DEFINE S == {a, b}
            f == [k \in 1 .. 2 |-> Is(<<a, b>>[k], o)]
            g == [k \in 1 .. 1 |-> Is(<<a>>[k], o)]
<1>1. <<>> \in Seq(S) /\ <<a>> \in Seq(S) /\ <<a, b>> \in Seq(S)
  OBVIOUS
<1>2. Len(<<>>) = 0 /\ Len(<<a>>) = 1 /\ Len(<<a, b>>) = 2
  OBVIOUS
<1>3. Occurrences(<<>>, o) = 0
  <2>1. Occurrences(<<>>, o) = 0 <=> \A k \in 1 .. Len(<<>>) : <<>>[k] # o
    BY <1>1, OccurrencesSum, Zenon
  <2>. QED BY <1>2, <2>1
<1>4. Occurrences(<<a>>, o) = SumOf(g, 1 .. 1) /\ Occurrences(<<a, b>>, o) = SumOf(f, 1 .. 2)
  <2>1. /\ Occurrences(<<a>>, o) = SumOf([k \in 1 .. Len(<<a>>) |-> Is(<<a>>[k], o)], 1 .. Len(<<a>>))
        /\ Occurrences(<<a, b>>, o) = SumOf([k \in 1 .. Len(<<a, b>>) |-> Is(<<a, b>>[k], o)], 1 .. Len(<<a, b>>))
    BY <1>1, OccurrencesSum, Zenon
  <2>. QED BY <1>2, <2>1
<1>5. g[1] = Is(a, o) /\ f[1] = Is(a, o) /\ f[2] = Is(b, o)
  OBVIOUS
<1>6. Is(a, o) \in Int /\ Is(b, o) \in Int
  BY DEF Is
<1>. HIDE DEF f, g
<1>7. 1 .. 0 = {} /\ 0 + 1 = 1 /\ 1 + 1 = 2
  OBVIOUS
<1>8. SumOf(g, 1 .. 1) = g[1]
  <2>1. \A k \in 1 .. 1 : g[k] \in Int
    BY <1>5, <1>6
  <2>2. SumOf(g, 1 .. 1) = SumOf(g, 1 .. 0) + g[1]
    BY <1>7, <2>1, SumLonger
  <2>. QED BY <1>5, <1>6, <1>7, <2>2, SumEmpty
<1>9. SumOf(f, 1 .. 2) = f[1] + f[2]
  <2>1. \A k \in 1 .. 2 : f[k] \in Int
    BY <1>5, <1>6
  <2>2. SumOf(f, 1 .. 1) = SumOf(f, 1 .. 0) + f[1]
    <3>1. \A k \in 1 .. 1 : f[k] \in Int
      BY <2>1
    <3>. QED BY <1>7, <3>1, SumLonger
  <2>3. SumOf(f, 1 .. 2) = SumOf(f, 1 .. 1) + f[2]
    BY <1>7, <2>1, SumLonger
  <2>. QED BY <1>5, <1>6, <1>7, <2>2, <2>3, SumEmpty
<1>. QED BY <1>3, <1>4, <1>5, <1>8, <1>9

-----------------------------------------------------------------------------
(* Counting in edges *)

\* How often one edge refers to o.
Touches(e, o) == Is(e.coefficient, o) + Is(e.numeric, o)

\* What edges have on an operand is a sum over the edges.
LEMMA EdgeUsesSum ==
  ASSUME NEW edges \in Seq(Edges), NEW o
  PROVE  /\ EdgeUses(edges, o) = SumOf([k \in 1 .. Len(edges) |-> Touches(edges[k], o)], 1 .. Len(edges))
         /\ EdgeUses(edges, o) \in Nat
         /\ EdgeUses(edges, o) = 0 <=> \A k \in 1 .. Len(edges) : edges[k].coefficient # o /\ edges[k].numeric # o
         /\ \A k \in 1 .. Len(edges) : Touches(edges[k], o) <= EdgeUses(edges, o)
<1>. DEFINE n == Len(edges)
            cs == Coefficients(edges)
            ns == Numerics(edges)
            f == [k \in 1 .. n |-> Is(cs[k], o)]
            g == [k \in 1 .. n |-> Is(ns[k], o)]
            h == [k \in 1 .. n |-> Touches(edges[k], o)]
<1>1. n \in Nat /\ DOMAIN edges = 1 .. n /\ IsFiniteSet(1 .. n) /\ \A k \in 1 .. n : edges[k] \in Edges
  BY LenProperties, FS_Interval, ElementOfSeq
<1>2. cs \in [1 .. n -> Nat] /\ ns \in [1 .. n -> Nat]
  BY <1>1 DEF Coefficients, Numerics, Edges
<1>3. cs \in Seq(Nat) /\ ns \in Seq(Nat) /\ Len(cs) = n /\ Len(ns) = n
  <2>1. cs \in Seq(Nat) /\ ns \in Seq(Nat)
    <3>. HIDE DEF cs, ns, n
    <3>. QED BY <1>1, <1>2, SeqDef
  <2>2. DOMAIN cs = 1 .. Len(cs) /\ DOMAIN ns = 1 .. Len(ns) /\ Len(cs) \in Nat /\ Len(ns) \in Nat
    BY <2>1, LenProperties
  <2>. HIDE DEF cs, ns
  <2>. QED BY <1>1, <1>2, <2>1, <2>2
<1>4. \A k \in 1 .. n : cs[k] = edges[k].coefficient /\ ns[k] = edges[k].numeric
  BY <1>1 DEF Coefficients, Numerics
<1>5. EdgeUses(edges, o) = Occurrences(cs, o) + Occurrences(ns, o)
  BY DEF EdgeUses
<1>. HIDE DEF cs, ns
<1>6. /\ Occurrences(cs, o) = SumOf(f, 1 .. n) /\ Occurrences(cs, o) \in Nat
      /\ Occurrences(cs, o) = 0 <=> \A k \in 1 .. n : cs[k] # o
      /\ Occurrences(ns, o) = SumOf(g, 1 .. n) /\ Occurrences(ns, o) \in Nat
      /\ Occurrences(ns, o) = 0 <=> \A k \in 1 .. n : ns[k] # o
  BY <1>3, OccurrencesSum
<1>7. \A k \in 1 .. n : f[k] \in Int /\ g[k] \in Int /\ h[k] = f[k] + g[k] /\ h[k] \in Nat
                        /\ h[k] = Touches(edges[k], o)
  BY <1>4 DEF Touches, Is
<1>. HIDE DEF f, g
<1>8. EdgeUses(edges, o) \in Nat
  BY <1>5, <1>6
<1>8a. EdgeUses(edges, o) = 0 <=> Occurrences(cs, o) = 0 /\ Occurrences(ns, o) = 0
  BY <1>5, <1>6
<1>8b. EdgeUses(edges, o) = 0 <=> \A k \in 1 .. n : edges[k].coefficient # o /\ edges[k].numeric # o
  <2>. HIDE DEF n
  <2>. QED BY <1>4, <1>6, <1>8a
<1>9. SumOf(h, 1 .. n) = SumOf(f, 1 .. n) + SumOf(g, 1 .. n)
  <2>. HIDE DEF h, n
  <2>. QED BY <1>1, <1>7, SumAdds
<1>10. \A k \in 1 .. n : h[k] <= SumOf(h, 1 .. n)
  <2>. HIDE DEF h, n
  <2>. QED BY <1>1, <1>7, SumNat
<1>11. EdgeUses(edges, o) = SumOf(h, 1 .. n)
  BY <1>5, <1>6, <1>9
<1>12. \A k \in 1 .. n : Touches(edges[k], o) <= EdgeUses(edges, o)
  <2>. HIDE DEF h, n
  <2>. QED BY <1>7, <1>10, <1>11
<1>. QED BY <1>8, <1>8b, <1>11, <1>12

\* What operations on edges do to the count.
LEMMA EdgeUsesAppend ==
  ASSUME NEW edges \in Seq(Edges), NEW e \in Edges, NEW o
  PROVE  EdgeUses(Append(edges, e), o) = EdgeUses(edges, o) + Touches(e, o)
<1>. DEFINE n == Len(edges)
            more == Append(edges, e)
            f == [k \in 1 .. n |-> Touches(edges[k], o)]
            h == [k \in 1 .. (n + 1) |-> Touches(more[k], o)]
<1>1. /\ n \in Nat /\ IsFiniteSet(1 .. n) /\ more \in Seq(Edges) /\ Len(more) = n + 1
      /\ \A k \in 1 .. n : more[k] = edges[k]
      /\ more[n + 1] = e
  BY LenProperties, FS_Interval, AppendProperties
<1>. HIDE DEF more
<1>2. EdgeUses(edges, o) = SumOf(f, 1 .. n) /\ EdgeUses(more, o) = SumOf(h, 1 .. (n + 1))
  BY <1>1, EdgeUsesSum, SMTT(30)
<1>3. /\ \A k \in 1 .. n : h[k] = f[k] /\ f[k] \in Int
      /\ \A k \in 1 .. (n + 1) : h[k] \in Int
      /\ h[n + 1] = Touches(e, o) /\ Touches(e, o) \in Int
  BY <1>1 DEF Touches, Is
<1>. HIDE DEF f, h, n
<1>4. SumOf(h, 1 .. (n + 1)) = SumOf(h, 1 .. n) + h[n + 1]
  BY <1>1, <1>3, SumLonger
<1>5. SumOf(h, 1 .. n) = SumOf(f, 1 .. n)
  BY <1>1, <1>3, SumSame
<1>. QED BY <1>2, <1>3, <1>4, <1>5 DEF more

\* ... when one edge is replaced, ...
LEMMA EdgeUsesChange ==
  ASSUME NEW edges \in Seq(Edges), NEW j \in 1 .. Len(edges), NEW e \in Edges, NEW o
  PROVE  EdgeUses([edges EXCEPT ![j] = e], o)
           = EdgeUses(edges, o) - Touches(edges[j], o) + Touches(e, o)
<1>. DEFINE n == Len(edges)
            other == [edges EXCEPT ![j] = e]
            f == [k \in 1 .. n |-> Touches(edges[k], o)]
            h == [k \in 1 .. n |-> Touches(other[k], o)]
<1>1. /\ n \in Nat /\ IsFiniteSet(1 .. n) /\ other \in Seq(Edges) /\ Len(other) = n
      /\ \A k \in 1 .. n : other[k] = IF k = j THEN e ELSE edges[k]
  BY LenProperties, FS_Interval, ExceptSeq
<1>. HIDE DEF other
<1>2. EdgeUses(edges, o) = SumOf(f, 1 .. n) /\ EdgeUses(other, o) = SumOf(h, 1 .. n)
  BY <1>1, EdgeUsesSum
<1>3. /\ \A k \in 1 .. n : f[k] \in Int /\ h[k] \in Int
      /\ \A k \in (1 .. n) \ {j} : h[k] = f[k]
      /\ h[j] = Touches(e, o) /\ f[j] = Touches(edges[j], o)
  BY <1>1 DEF Touches, Is
<1>. HIDE DEF f, h, n
<1>4. SumOf(h, 1 .. n) = SumOf(f, 1 .. n) - f[j] + h[j]
  <2>1. j \in 1 .. n
    BY DEF n
  <2>. QED BY <1>1, <1>3, <2>1, SumChange
<1>. QED BY <1>2, <1>3, <1>4 DEF other

\* ... and when the last takes the place of another.
LEMMA EdgeUsesMoved ==
  ASSUME NEW edges \in Seq(Edges), NEW j \in 1 .. Len(edges), NEW o
  PROVE  EdgeUses(Moved(edges, j), o) = EdgeUses(edges, o) - Touches(edges[j], o)
<1>. DEFINE n == Len(edges)
            less == Moved(edges, j)
            f == [k \in 1 .. n |-> Touches(edges[k], o)]
            h == [k \in 1 .. (n - 1) |-> Touches(less[k], o)]
<1>1. /\ n \in Nat /\ less \in Seq(Edges) /\ Len(less) = n - 1
      /\ \A k \in 1 .. (n - 1) : less[k] = IF k = j THEN edges[n] ELSE edges[k]
  BY LenProperties, MovedIs
<1>. HIDE DEF less
<1>2. EdgeUses(edges, o) = SumOf(f, 1 .. n) /\ EdgeUses(less, o) = SumOf(h, 1 .. (n - 1))
  BY <1>1, EdgeUsesSum
<1>3. /\ \A k \in 1 .. n : f[k] \in Int
      /\ \A k \in 1 .. (n - 1) : h[k] = IF k = j THEN f[n] ELSE f[k]
      /\ f[j] = Touches(edges[j], o)
  <2>1. \A k \in 1 .. n : f[k] = Touches(edges[k], o) /\ Touches(edges[k], o) \in Int
    BY DEF Touches, Is
  <2>2. \A k \in 1 .. (n - 1) : h[k] = Touches(less[k], o) /\ k \in 1 .. n /\ n \in 1 .. n
    BY <1>1
  <2>. HIDE DEF f, h
  <2>. QED BY <1>1, <2>1, <2>2
<1>. HIDE DEF f, h
<1>4. SumOf(h, 1 .. (n - 1)) = SumOf(f, 1 .. n) - f[j]
  BY <1>1, <1>3, SumMoved
<1>. QED BY <1>2, <1>3, <1>4 DEF less

-----------------------------------------------------------------------------
(* Finding *)

\* The least member of a finite set of numbers.
LEMMA MinIs ==
  ASSUME NEW I \in SUBSET Nat, I # {}
  PROVE  Min(I) \in I /\ \A k \in I : Min(I) <= k
<1>1. IsWellFoundedOn(OpToRel(<, Nat), Nat)
  BY NatLessThanWellFounded
<1>2. PICK m \in I : \A k \in I : <<k, m>> \notin OpToRel(<, Nat)
  BY <1>1, WFMin
<1>3. \A k \in I : ~(k < m)
  BY <1>2 DEF OpToRel
<1>4. \A k \in I : m <= k
  BY <1>3
<1>. QED BY <1>4 DEF Min

\* The first that has what is looked for.
LEMMA IndexIs ==
  ASSUME NEW edges \in Seq(Edges), NEW v
  PROVE  /\ \/ /\ IndexOf(edges, v) = 0
               /\ \A k \in 1 .. Len(edges) : edges[k].head # v
            \/ /\ IndexOf(edges, v) \in 1 .. Len(edges) /\ edges[IndexOf(edges, v)].head = v
               /\ \A k \in 1 .. Len(edges) : edges[k].head = v => IndexOf(edges, v) <= k
         /\ \/ /\ IndexByNumeric(edges, v) = 0
               /\ \A k \in 1 .. Len(edges) : edges[k].numeric # v
            \/ IndexByNumeric(edges, v) \in 1 .. Len(edges) /\ edges[IndexByNumeric(edges, v)].numeric = v
         /\ \/ /\ IndexByCoefficient(edges, v) = 0
               /\ \A k \in 1 .. Len(edges) : edges[k].coefficient # v
            \/ /\ IndexByCoefficient(edges, v) \in 1 .. Len(edges)
               /\ edges[IndexByCoefficient(edges, v)].coefficient = v
<1>. DEFINE A == {k \in 1 .. Len(edges) : edges[k].head = v}
            B == {k \in 1 .. Len(edges) : edges[k].numeric = v}
            C == {k \in 1 .. Len(edges) : edges[k].coefficient = v}
<1>1. A \in SUBSET Nat /\ B \in SUBSET Nat /\ C \in SUBSET Nat
  OBVIOUS
<1>2. /\ IndexOf(edges, v) = IF A # {} THEN Min(A) ELSE 0
      /\ IndexByNumeric(edges, v) = IF B # {} THEN Min(B) ELSE 0
      /\ IndexByCoefficient(edges, v) = IF C # {} THEN Min(C) ELSE 0
  BY DEF IndexOf, IndexByNumeric, IndexByCoefficient, SelectInSeq
<1>3. /\ A # {} => Min(A) \in A /\ \A k \in A : Min(A) <= k
      /\ B # {} => Min(B) \in B
      /\ C # {} => Min(C) \in C
  BY <1>1, MinIs
<1>4. /\ A = {} <=> \A k \in 1 .. Len(edges) : edges[k].head # v
      /\ B = {} <=> \A k \in 1 .. Len(edges) : edges[k].numeric # v
      /\ C = {} <=> \A k \in 1 .. Len(edges) : edges[k].coefficient # v
  OBVIOUS
<1>. QED BY <1>2, <1>3, <1>4

\* The pivots, one after the other.
LEMMA SetToSeqIs ==
  ASSUME NEW S, IsFiniteSet(S)
  PROVE  /\ SetToSeq(S) \in Seq(S)
         /\ \A x \in S : \E k \in 1 .. Len(SetToSeq(S)) : SetToSeq(S)[k] = x
         /\ \A k, m \in 1 .. Len(SetToSeq(S)) : SetToSeq(S)[k] = SetToSeq(S)[m] => k = m
<1>. DEFINE n == Cardinality(S)
<1>1. n \in Nat /\ ExistsBijection(1 .. n, S)
  BY FS_CardinalityType
<1>2. PICK f \in [1 .. n -> S] : IsInjective(f)
  BY <1>1 DEF ExistsBijection, Bijection, Injection, IsInjective
<1>. DEFINE g == SetToSeq(S)
<1>3. g \in [1 .. n -> S] /\ IsInjective(g)
  BY <1>2 DEF SetToSeq
<1>. HIDE DEF g
<1>4. g \in Seq(S) /\ Len(g) = n
  <2>1. g \in Seq(S)
    BY <1>1, <1>3, SeqDef
  <2>. QED BY <1>1, <1>3, <2>1, LenProperties
<1>5. \A k, m \in 1 .. n : g[k] = g[m] => k = m
  BY <1>3 DEF IsInjective
<1>6. IsFiniteSet(1 .. n) /\ Cardinality(1 .. n) = n
  BY <1>1, FS_Interval
<1>7. g \in Surjection(1 .. n, S)
  BY <1>3, <1>5, <1>6, FS_Injection DEF Injection, IsInjective
<1>8. \A x \in S : \E k \in 1 .. n : g[k] = x
  BY <1>7 DEF Surjection
<1>. QED BY <1>4, <1>5, <1>8 DEF g

-----------------------------------------------------------------------------
(* Operands *)

\* Merge is one function where that is defined, and the other elsewhere.
LEMMA MergeIs ==
  ASSUME NEW f, NEW g
  PROVE  Merge(f, g) = [x \in DOMAIN f \cup DOMAIN g |-> IF x \in DOMAIN f THEN f[x] ELSE g[x]]
BY DEF Merge

LEMMA StoreIs ==
  ASSUME NEW s, Store(s), NEW o \in DOMAIN s
  PROVE  /\ o \in Nat /\ s[o] \in Operand /\ s[o].kind \in {"link", "terminal"}
         /\ s[o].args \in Seq(DOMAIN s) /\ s[o].args \in Seq(Nat)
         /\ s[o].val \in Coefficient /\ s[o].count \in Nat /\ s[o].done \in BOOLEAN
         /\ s[o].dropped \in BOOLEAN /\ s[o].uses \in Nat
         /\ Drop(s, o) \in Nat /\ Drop(s, o) <= 1
BY DEF Store, Operand, Drop

\* Uses are sums of natural numbers, which grow with the set.
LEMMA UsesIs ==
  ASSUME NEW s, Store(s), NEW F \in SUBSET DOMAIN s, NEW o
  PROVE  /\ IsFiniteSet(F) /\ Uses(s, F, o) \in Nat
         /\ \A n \in F : Occurrences(s[n].args, o) \in Nat
         /\ \A n \in F : Occurrences(s[n].args, o) <= Uses(s, F, o)
<1>. DEFINE f == [n \in F |-> Occurrences(s[n].args, o)]
<1>1. IsFiniteSet(F)
  BY FS_Subset DEF Store
<1>2. \A n \in F : f[n] \in Nat /\ f[n] = Occurrences(s[n].args, o)
  BY StoreIs, OccurrencesSum
<1>. HIDE DEF f
<1>3. SumOf(f, F) \in Nat /\ \A n \in F : f[n] <= SumOf(f, F)
  BY <1>1, <1>2, SumNat
<1>. QED BY <1>1, <1>2, <1>3 DEF Uses, f

\* The uses by a set of operands are those by its parts.
LEMMA UsesParts ==
  ASSUME NEW s, Store(s), NEW F \in SUBSET DOMAIN s, NEW G \in SUBSET F, NEW o
  PROVE  Uses(s, F, o) = Uses(s, G, o) + Uses(s, F \ G, o)
<1>. DEFINE f(X) == [n \in X |-> Occurrences(s[n].args, o)]
<1>1. IsFiniteSet(F) /\ IsFiniteSet(G) /\ IsFiniteSet(F \ G)
  BY UsesIs, FS_Subset, FS_Difference
<1>2. \A n \in F : Occurrences(s[n].args, o) \in Int
  BY UsesIs
<1>3. \A X \in SUBSET F : \A n \in X : f(X)[n] = f(F)[n] /\ f(F)[n] \in Int
  BY <1>2
<1>4. SumOf(f(F), F) = SumOf(f(F), G) + SumOf(f(F), F \ G)
  <2>1. \A n \in F : f(F)[n] \in Int
    BY <1>3
  <2>. HIDE DEF f
  <2>. QED BY <1>1, <2>1, SumParts
<1>5. SumOf(f(G), G) = SumOf(f(F), G) /\ SumOf(f(F \ G), F \ G) = SumOf(f(F), F \ G)
  <2>1. G \in SUBSET F /\ F \ G \in SUBSET F
    OBVIOUS
  <2>. HIDE DEF f
  <2>. QED BY <1>1, <1>3, <2>1, SumSame
<1>. QED BY <1>4, <1>5 DEF Uses

\* Uses depend on the expressions only.
LEMMA UsesSame ==
  ASSUME NEW s, Store(s), NEW F \in SUBSET DOMAIN s, NEW t, \A n \in F : t[n].args = s[n].args, NEW o
  PROVE  Uses(t, F, o) = Uses(s, F, o)
<1>1. [n \in F |-> Occurrences(t[n].args, o)] = [n \in F |-> Occurrences(s[n].args, o)]
  OBVIOUS
<1>. QED BY <1>1 DEF Uses

\* There is always another operand.
LEMMA FreshIs ==
  ASSUME NEW s, Store(s)
  PROVE  Fresh(s) \in Nat /\ Fresh(s) \notin DOMAIN s
<1>. DEFINE n == Cardinality(DOMAIN s)
<1>1. IsFiniteSet(DOMAIN s) /\ n \in Nat
  BY FS_CardinalityType DEF Store
<1>2. IsFiniteSet(0 .. n) /\ Cardinality(0 .. n) = n + 1
  BY <1>1, FS_Interval
<1>3. \E o \in 0 .. n : o \notin DOMAIN s
  <2>1. ASSUME 0 .. n \subseteq DOMAIN s PROVE FALSE
    <3>1. 0 .. n \in SUBSET DOMAIN s
      BY <2>1
    <3>2. Cardinality(0 .. n) <= Cardinality(DOMAIN s)
      BY <1>1, <3>1, FS_Subset
    <3>. QED BY <1>1, <1>2, <3>2
  <2>. QED BY <2>1
<1>4. Fresh(s) \in 0 .. n /\ Fresh(s) \notin DOMAIN s
  BY <1>3 DEF Fresh
<1>. QED BY <1>4

-----------------------------------------------------------------------------
(* Giving references back *)

\* What goes.
Going(s, back) == Limit([F \in SUBSET DOMAIN s |-> F \cup Spent(s, back, F)], {})

\* What goes in the end: nothing more than is spent, and all of that.
LEMMA GoneIs ==
  ASSUME NEW s, Store(s), NEW back \in [DOMAIN s -> Nat]
  PROVE  /\ Going(s, back) \in SUBSET DOMAIN s
         /\ \A o \in Going(s, back) : s[o].count > 0 /\ Left(s, back, Going(s, back), o) <= 0
                                     /\ (IsTerminal(s, o) => s[o].done)
         /\ Spent(s, back, Going(s, back)) \subseteq Going(s, back)
<1>. DEFINE D == DOMAIN s
            grown == [F \in SUBSET D |-> F \cup Spent(s, back, F)]
            Fine(F, o) == s[o].count > 0 /\ Left(s, back, F, o) <= 0 /\ (IsTerminal(s, o) => s[o].done)
            Kind == {F \in SUBSET D : \A o \in F : Fine(F, o)}
<1>1. IsFiniteSet(D) /\ Growing(grown, D)
  BY DEF Store, Growing, Spent
<1>2. {} \in Kind /\ {} \in SUBSET D
  OBVIOUS
<1>3. ASSUME NEW F \in SUBSET D, F \in Kind PROVE grown[F] \in Kind
  <2>. DEFINE G == F \cup Spent(s, back, F)
  <2>1. grown[F] = G /\ G \in SUBSET D /\ F \in SUBSET G
    BY DEF Spent
  <2>2. ASSUME NEW o \in G PROVE Fine(G, o)
    <3>1. Fine(F, o) /\ o \in D
      BY <1>3, <2>1 DEF Spent
    <3>2. Uses(s, G, o) = Uses(s, F, o) + Uses(s, G \ F, o)
      BY <2>1, UsesParts
    <3>3. Uses(s, F, o) \in Nat /\ Uses(s, G \ F, o) \in Nat
      BY <2>1, UsesIs
    <3>4. s[o].count \in Nat /\ back[o] \in Nat
      BY <3>1, StoreIs
    <3>. HIDE DEF G
    <3>5. Left(s, back, G, o) <= Left(s, back, F, o) /\ Left(s, back, F, o) \in Int /\ Left(s, back, G, o) \in Int
      BY <3>2, <3>3, <3>4 DEF Left
    <3>. QED BY <3>1, <3>5
  <2>. HIDE DEF G, Fine
  <2>. QED BY <2>1, <2>2
<1>. DEFINE X == Limit(grown, {})
<1>4. X \in SUBSET D /\ grown[X] = X /\ X \in Kind
  <2>. HIDE DEF grown, Kind
  <2>. QED BY <1>1, <1>2, <1>3, LimitIs
<1>5. X = Going(s, back)
  BY DEF Going
<1>. HIDE DEF X
<1>6. Spent(s, back, X) \subseteq X
  BY <1>4
<1>. QED BY <1>4, <1>5, <1>6

\* What stays, with fewer references.
LEMMA ReleaseIs ==
  ASSUME NEW s, Store(s), NEW back \in [DOMAIN s -> Nat]
  PROVE  /\ DOMAIN Release(s, back) = DOMAIN s \ Going(s, back)
         /\ Release(s, back) = [o \in DOMAIN s \ Going(s, back) |->
                                  [s[o] EXCEPT !.count = Left(s, back, Going(s, back), o)]]
<1>. DEFINE gone == Going(s, back)
            kept == DOMAIN s \ gone
            less == {o \in kept : Left(s, back, gone, o) # s[o].count}
            low == [o \in less |-> [s[o] EXCEPT !.count = Left(s, back, gone, o)]]
            all == [o \in kept |-> [s[o] EXCEPT !.count = Left(s, back, gone, o)]]
<1>1. Release(s, back) = Merge(low, [o \in kept |-> s[o]])
  BY DEF Release, Going
<1>2. \A o \in kept : s[o] \in Operand
  BY StoreIs
<1>3. \A o \in kept \ less : [s[o] EXCEPT !.count = Left(s, back, gone, o)] = s[o]
  BY <1>2 DEF Operand
<1>4. Merge(low, [o \in kept |-> s[o]]) = [o \in kept |-> IF o \in less THEN low[o] ELSE s[o]]
  <2>. DEFINE old == [o \in kept |-> s[o]]
  <2>1. DOMAIN low = less /\ DOMAIN old = kept /\ less \cup kept = kept /\ \A o \in kept : old[o] = s[o]
    OBVIOUS
  <2>. HIDE DEF low, old
  <2>2. Merge(low, old) = [o \in less \cup kept |-> IF o \in less THEN low[o] ELSE old[o]]
    BY <2>1, MergeIs
  <2>3. Merge(low, old) = [o \in kept |-> IF o \in less THEN low[o] ELSE old[o]]
    BY <2>1, <2>2
  <2>4. Merge(low, old) = [o \in kept |-> IF o \in less THEN low[o] ELSE s[o]]
    BY <2>1, <2>3
  <2>. QED BY <2>4 DEF old
<1>5. \A o \in kept : (IF o \in less THEN low[o] ELSE s[o]) = all[o]
  BY <1>3
<1>. QED BY <1>1, <1>4, <1>5

\* What an operand is, but for its references.
Same(s, t, o) ==
  /\ t[o].kind = s[o].kind /\ t[o].args = s[o].args /\ t[o].val = s[o].val
  /\ t[o].done = s[o].done /\ t[o].dropped = s[o].dropped /\ t[o].uses = s[o].uses

\* References are given back: K[o] are left of H[o].
Returned(s, H, back, K) ==
  /\ back \in [DOMAIN s -> Nat] /\ K \in [Nat -> Nat]
  /\ \A o \in DOMAIN s : H[o] = K[o] + back[o]
  /\ \A o \in Nat \ DOMAIN s : K[o] = 0

\* What is left is what the others have.
LEMMA LeftIs ==
  ASSUME NEW s, Store(s), NEW H, Counted(s, H), NEW back, NEW K, Returned(s, H, back, K),
         NEW o \in DOMAIN s, NEW F \in SUBSET DOMAIN s
  PROVE  /\ Left(s, back, F, o) = Uses(s, DOMAIN s \ F, o) + Drop(s, o) + K[o]
         /\ Uses(s, DOMAIN s \ F, o) \in Nat /\ Drop(s, o) \in Nat /\ K[o] \in Nat
<1>. DEFINE u == Uses(s, DOMAIN s, o)
            v == Uses(s, F, o)
            w == Uses(s, DOMAIN s \ F, o)
            d == Drop(s, o)
<1>1. u = v + w
  BY UsesParts
<1>2. v \in Nat /\ w \in Nat
  BY UsesIs
<1>3. o \in Nat /\ d \in Nat /\ s[o].count \in Nat
  BY StoreIs
<1>3a. back[o] \in Nat /\ K[o] \in Nat /\ H[o] = K[o] + back[o]
  BY <1>3 DEF Returned
<1>4. s[o].count = u + d + H[o]
  BY DEF Counted
<1>5. Left(s, back, F, o) = s[o].count - back[o] - v
  BY DEF Left
<1>. HIDE DEF u, v, w, d
<1>6. Left(s, back, F, o) = w + d + K[o]
  BY <1>1, <1>2, <1>3, <1>3a, <1>4, <1>5
<1>. QED BY <1>2, <1>3, <1>3a, <1>6 DEF w, d

\* Releasing keeps every count exact, whatever chain of operands goes with it.
LEMMA ReleaseSound ==
  ASSUME NEW s, Store(s), NEW H, Counted(s, H), NEW back, NEW K, Returned(s, H, back, K)
  PROVE  /\ Store(Release(s, back)) /\ Counted(Release(s, back), K)
         /\ DOMAIN Release(s, back) \subseteq DOMAIN s
         /\ \A o \in DOMAIN Release(s, back) : Same(s, Release(s, back), o)
<1>. DEFINE gone == Going(s, back)
            kept == DOMAIN s \ gone
            t == Release(s, back)
<1>0. back \in [DOMAIN s -> Nat]
  BY DEF Returned
<1>1. gone \in SUBSET DOMAIN s /\ \A o \in gone : Left(s, back, gone, o) <= 0
  BY <1>0, GoneIs
<1>2. /\ DOMAIN t = kept
      /\ t = [o \in kept |-> [s[o] EXCEPT !.count = Left(s, back, gone, o)]]
  BY <1>0, ReleaseIs
<1>3. ASSUME NEW o \in DOMAIN s
      PROVE  /\ Left(s, back, gone, o) = Uses(s, kept, o) + Drop(s, o) + K[o]
             /\ Uses(s, kept, o) \in Nat /\ Drop(s, o) \in Nat /\ K[o] \in Nat
  <2>. HIDE DEF gone
  <2>. QED BY <1>1, LeftIs
<1>. HIDE DEF gone, t
<1>4. ASSUME NEW o \in kept
      PROVE  /\ t[o].kind = s[o].kind /\ t[o].args = s[o].args /\ t[o].val = s[o].val
             /\ t[o].done = s[o].done /\ t[o].dropped = s[o].dropped /\ t[o].uses = s[o].uses
             /\ t[o].count = Uses(s, kept, o) + Drop(s, o) + K[o]
             /\ t[o] \in Operand
  <2>1. s[o] \in Operand
    BY StoreIs
  <2>2. Uses(s, kept, o) + Drop(s, o) + K[o] \in Nat /\ Left(s, back, gone, o) = Uses(s, kept, o) + Drop(s, o) + K[o]
    <3>1. /\ Left(s, back, gone, o) = Uses(s, kept, o) + Drop(s, o) + K[o]
          /\ Uses(s, kept, o) \in Nat /\ Drop(s, o) \in Nat /\ K[o] \in Nat
      BY <1>3
    <3>. HIDE DEF kept
    <3>. QED BY <3>1
  <2>3. t[o] = [s[o] EXCEPT !.count = Uses(s, kept, o) + Drop(s, o) + K[o]]
    BY <1>2, <2>2
  <2>. QED BY <2>1, <2>2, <2>3 DEF Operand
<1>5. ASSUME NEW n \in kept PROVE s[n].args \in Seq(kept)
  <2>1. s[n].args \in Seq(DOMAIN s)
    BY StoreIs
  <2>2. ASSUME NEW k \in 1 .. Len(s[n].args) PROVE s[n].args[k] \in kept
    <3>. DEFINE x == s[n].args[k]
    <3>1. x \in DOMAIN s
      BY <2>1, ElementOfSeq
    <3>2. Occurrences(s[n].args, x) >= 1 /\ Occurrences(s[n].args, x) \in Nat
      BY <2>1, OccurrencesSum
    <3>3. Occurrences(s[n].args, x) <= Uses(s, kept, x)
      BY UsesIs
    <3>4. /\ Left(s, back, gone, x) = Uses(s, kept, x) + Drop(s, x) + K[x]
          /\ Uses(s, kept, x) \in Nat /\ Drop(s, x) \in Nat /\ K[x] \in Nat
      BY <1>3, <3>1
    <3>. HIDE DEF x, kept
    <3>5. Left(s, back, gone, x) > 0
      BY <3>2, <3>3, <3>4
    <3>6. x \notin gone
      <4>1. ASSUME x \in gone PROVE FALSE
        <5>1. Left(s, back, gone, x) <= 0
          BY <1>1, <4>1
        <5>. QED BY <3>4, <3>5, <5>1
      <4>. QED BY <4>1
    <3>. QED BY <3>1, <3>6 DEF x, kept
  <2>. HIDE DEF kept
  <2>. QED BY <2>1, <2>2, SeqElements
<1>6. Store(t)
  <2>1. IsFiniteSet(kept) /\ kept \subseteq Nat
    BY FS_Difference DEF Store
  <2>2. t \in [kept -> Operand]
    BY <1>2, <1>4
  <2>3. ASSUME NEW o \in kept
        PROVE  /\ t[o].args \in Seq(kept)
               /\ t[o].done => t[o].args = <<>>
               /\ ~IsTerminal(t, o) => ~t[o].done /\ ~t[o].dropped
               /\ IsTerminal(t, o) => t[o].uses = 0
    <3>1. o \in DOMAIN s
      OBVIOUS
    <3>. HIDE DEF kept
    <3>. QED BY <1>4, <1>5, <3>1 DEF Store, IsTerminal
  <2>. QED BY <1>2, <2>1, <2>2, <2>3 DEF Store
<1>7. ASSUME NEW o PROVE Uses(t, kept, o) = Uses(s, kept, o)
  BY <1>4, UsesSame
<1>8. ASSUME NEW o \in Nat \ kept PROVE K[o] = 0
  <2>1. CASE o \in DOMAIN s
    <3>1. Left(s, back, gone, o) <= 0
      BY <1>1, <2>1
    <3>2. /\ Left(s, back, gone, o) = Uses(s, kept, o) + Drop(s, o) + K[o]
          /\ Uses(s, kept, o) \in Nat /\ Drop(s, o) \in Nat /\ K[o] \in Nat
      BY <1>3, <2>1
    <3>. HIDE DEF kept
    <3>. QED BY <3>1, <3>2
  <2>2. CASE o \notin DOMAIN s
    BY <2>2 DEF Returned
  <2>. QED BY <2>1, <2>2
<1>9. Counted(t, K)
  <2>0. K \in [Nat -> Nat]
    BY DEF Returned
  <2>1. ASSUME NEW o \in kept PROVE t[o].count = Uses(t, kept, o) + Drop(t, o) + K[o]
    <3>1. Drop(t, o) = Drop(s, o)
      BY <1>4 DEF Drop
    <3>. QED BY <1>4, <1>7, <3>1
  <2>. QED BY <1>2, <1>8, <2>0, <2>1 DEF Counted
<1>. QED BY <1>2, <1>4, <1>6, <1>9 DEF Same, t

\* f is new in t.
Extended(s, t, f, kind, args, val) ==
  /\ f \in Nat /\ f \notin DOMAIN s /\ DOMAIN t = DOMAIN s \cup {f}
  /\ t[f].kind = kind /\ t[f].val = val % P /\ t[f].uses = 0
  /\ t[f].done = FALSE /\ t[f].dropped = FALSE
  /\ \A o \in DOMAIN s :
       /\ t[o].kind = s[o].kind /\ t[o].args = s[o].args /\ t[o].val = s[o].val
       /\ t[o].done = s[o].done /\ t[o].dropped = s[o].dropped
       /\ t[o].uses = s[o].uses + (IF IsTerminal(s, o) THEN 0 ELSE Occurrences(args, o))

\* A new operand with one reference, and one more reference on each of its arguments.
LEMMA NewSound ==
  ASSUME NEW s, Store(s), NEW H, Counted(s, H), NEW kind \in {"link", "terminal"},
         NEW args \in Seq(DOMAIN s), NEW val \in Int, NEW t, t = New(s, kind, args, val)
  PROVE  /\ Store(t) /\ Counted(t, [H EXCEPT ![Fresh(s)] = 1])
         /\ Extended(s, t, Fresh(s), kind, args, val)
<1>. DEFINE f == Fresh(s)
            D == DOMAIN s
            new == [kind |-> kind, args |-> args, val |-> val % P, count |-> 1,
                    done |-> FALSE, dropped |-> FALSE, uses |-> 0]
            more(o) == [s[o] EXCEPT !.count = @ + Occurrences(args, o),
                                    !.uses  = @ + (IF IsTerminal(s, o) THEN 0 ELSE Occurrences(args, o))]
            a == [o \in {f} |-> new]
            b == [o \in D |-> more(o)]
            K == [H EXCEPT ![f] = 1]
<1>1. f \in Nat /\ f \notin D
  BY FreshIs
<1>2. t = Merge(a, b)
  BY DEF New
<1>3. DOMAIN a = {f} /\ DOMAIN b = D /\ a[f] = new /\ \A o \in D : b[o] = more(o)
  OBVIOUS
<1>4. t = [o \in {f} \cup D |-> IF o \in {f} THEN a[o] ELSE b[o]]
  <2>1. Merge(a, b) = [o \in DOMAIN a \cup DOMAIN b |-> IF o \in DOMAIN a THEN a[o] ELSE b[o]]
    BY MergeIs
  <2>. HIDE DEF a, b
  <2>. QED BY <1>2, <1>3, <2>1
<1>5. DOMAIN t = D \cup {f} /\ t[f] = new /\ \A o \in D : t[o] = more(o)
  <2>. HIDE DEF a, b, more, new
  <2>. QED BY <1>1, <1>3, <1>4
<1>5a. /\ t[f].kind = kind /\ t[f].val = val % P /\ t[f].args = args /\ t[f].count = 1 /\ t[f].uses = 0
       /\ t[f].done = FALSE /\ t[f].dropped = FALSE
  <2>1. /\ new.kind = kind /\ new.val = val % P /\ new.args = args /\ new.count = 1 /\ new.uses = 0
        /\ new.done = FALSE /\ new.dropped = FALSE
    OBVIOUS
  <2>2. t[f] = new
    BY <1>5
  <2>. HIDE DEF new
  <2>. QED BY <2>1, <2>2
<1>6. t = [o \in D \cup {f} |-> t[o]]
  <2>1. {f} \cup D = D \cup {f}
    OBVIOUS
  <2>. HIDE DEF a, b
  <2>. QED BY <1>4, <2>1
<1>. HIDE DEF a, b
<1>7. args \in Seq(Nat) /\ \A o : Occurrences(args, o) \in Nat
  <2>1. D \subseteq Nat
    BY DEF Store
  <2>. QED BY <2>1, SeqMonotonic, OccurrencesSum
<1>8. new \in Operand
  <2>1. val % P \in Coefficient
    BY PrimeAssumption DEF Coefficient
  <2>. QED BY <1>7, <2>1 DEF Operand
<1>9. ASSUME NEW o \in D
      PROVE  /\ t[o] \in Operand
             /\ t[o].kind = s[o].kind /\ t[o].args = s[o].args /\ t[o].val = s[o].val
             /\ t[o].done = s[o].done /\ t[o].dropped = s[o].dropped
             /\ t[o].uses = s[o].uses + (IF IsTerminal(s, o) THEN 0 ELSE Occurrences(args, o))
             /\ t[o].count = s[o].count + Occurrences(args, o)
  <2>1. s[o] \in Operand
    BY StoreIs
  <2>2. Occurrences(args, o) \in Nat /\ s[o].count \in Nat /\ s[o].uses \in Nat
    BY <1>7, StoreIs
  <2>3. t[o] = more(o)
    BY <1>5
  <2>4. /\ s[o].count + Occurrences(args, o) \in Nat
        /\ s[o].uses + (IF IsTerminal(s, o) THEN 0 ELSE Occurrences(args, o)) \in Nat
    BY <2>2
  <2>. QED BY <2>1, <2>3, <2>4 DEF Operand
<1>10. ASSUME NEW x, NEW y, x \in Seq(D) PROVE x \in Seq(D \cup {y})
  BY <1>10, SeqMonotonic
<1>11. Store(t)
  <2>1. IsFiniteSet(D \cup {f}) /\ D \cup {f} \subseteq Nat
    BY <1>1, FS_AddElement DEF Store
  <2>2. t \in [D \cup {f} -> Operand]
    BY <1>5, <1>6, <1>8, <1>9
  <2>3. ASSUME NEW o \in D
        PROVE  /\ t[o].args \in Seq(D \cup {f})
               /\ t[o].done => t[o].args = <<>>
               /\ ~IsTerminal(t, o) => ~t[o].done /\ ~t[o].dropped
               /\ IsTerminal(t, o) => t[o].uses = 0
    <3>1. s[o].args \in Seq(D)
      BY StoreIs
    <3>. HIDE DEF f
    <3>2. t[o].args \in Seq(D \cup {f})
      BY <1>9, <1>10, <3>1
    <3>3. /\ s[o].done => s[o].args = <<>>
          /\ ~IsTerminal(s, o) => ~s[o].done /\ ~s[o].dropped
          /\ IsTerminal(s, o) => s[o].uses = 0
          /\ s[o].uses \in Nat
      BY StoreIs DEF Store
    <3>4. /\ IsTerminal(t, o) <=> IsTerminal(s, o)
          /\ t[o].done = s[o].done /\ t[o].dropped = s[o].dropped /\ t[o].args = s[o].args
      BY <1>9 DEF IsTerminal
    <3>5. IsTerminal(s, o) => t[o].uses = s[o].uses + 0
      BY <1>9
    <3>. QED BY <3>2, <3>3, <3>4, <3>5
  <2>4. /\ t[f].args \in Seq(D \cup {f})
        /\ t[f].done => t[f].args = <<>>
        /\ ~IsTerminal(t, f) => ~t[f].done /\ ~t[f].dropped
        /\ IsTerminal(t, f) => t[f].uses = 0
    <3>1. args \in Seq(D \cup {f})
      BY <1>10
    <3>2. t[f].args = args /\ t[f].done = FALSE /\ t[f].dropped = FALSE /\ t[f].uses = 0
      BY <1>5a
    <3>. QED BY <3>1, <3>2
  <2>. QED BY <1>5, <2>1, <2>2, <2>3, <2>4 DEF Store
<1>12. H \in [Nat -> Nat] /\ H[f] = 0 /\ K \in [Nat -> Nat] /\ K[f] = 1 /\ \A o \in D : K[o] = H[o]
  BY <1>1 DEF Counted, Store
<1>13. ASSUME NEW o PROVE Uses(t, D \cup {f}, o) = Uses(s, D, o) + Occurrences(args, o)
                          /\ Uses(s, D, o) \in Nat
  <2>. DEFINE h == [n \in D \cup {f} |-> Occurrences(t[n].args, o)]
              g == [n \in D |-> Occurrences(s[n].args, o)]
  <2>1. IsFiniteSet(D) /\ Uses(s, D, o) \in Nat /\ \A n \in D : g[n] \in Int
    <3>1. \A n \in D : Occurrences(s[n].args, o) \in Nat
      BY UsesIs
    <3>2. IsFiniteSet(D) /\ Uses(s, D, o) \in Nat
      BY UsesIs
    <3>. QED BY <3>1, <3>2
  <2>2. \A n \in D : h[n] = g[n]
    BY <1>9
  <2>3. h[f] = Occurrences(args, o) /\ h[f] \in Int
    <3>1. t[f].args = args /\ Occurrences(args, o) \in Nat
      BY <1>5a, <1>7
    <3>. HIDE DEF f
    <3>. QED BY <3>1
  <2>. HIDE DEF h, g
  <2>4. SumOf(h, D \cup {f}) = h[f] + SumOf(h, D)
    BY <1>1, <2>1, <2>2, <2>3, SumInsert
  <2>5. SumOf(h, D) = SumOf(g, D)
    BY <2>1, <2>2, SumSame
  <2>6. Uses(s, D, o) = SumOf(g, D) /\ Uses(t, D \cup {f}, o) = SumOf(h, D \cup {f})
    BY DEF Uses, g, h
  <2>. QED BY <2>1, <2>3, <2>4, <2>5, <2>6
<1>14. Counted(t, K)
  <2>1. ASSUME NEW o \in D PROVE t[o].count = Uses(t, D \cup {f}, o) + Drop(t, o) + K[o]
    <3>1. s[o].count = Uses(s, D, o) + Drop(s, o) + H[o] /\ o \in Nat
      BY StoreIs DEF Counted
    <3>2. Drop(t, o) = Drop(s, o) /\ Drop(s, o) \in Nat
      BY <1>9, StoreIs DEF Drop
    <3>3. t[o].count = s[o].count + Occurrences(args, o) /\ Occurrences(args, o) \in Nat
      BY <1>7, <1>9
    <3>4. K[o] = H[o] /\ H[o] \in Nat
      BY <1>12, <3>1
    <3>5. Uses(t, D \cup {f}, o) = Uses(s, D, o) + Occurrences(args, o) /\ Uses(s, D, o) \in Nat
      BY <1>13
    <3>. HIDE DEF D, K, f
    <3>. QED BY <3>1, <3>2, <3>3, <3>4, <3>5
  <2>2. t[f].count = Uses(t, D \cup {f}, f) + Drop(t, f) + K[f]
    <3>1. Uses(s, D, f) = 0
      <4>. DEFINE g == [n \in D |-> Occurrences(s[n].args, f)]
      <4>1. \A n \in D : g[n] = 0
        <5>1. ASSUME NEW n \in D PROVE Occurrences(s[n].args, f) = 0
          <6>1. s[n].args \in Seq(D)
            BY StoreIs
          <6>2. \A k \in 1 .. Len(s[n].args) : s[n].args[k] # f
            BY <1>1, <6>1, ElementOfSeq
          <6>. QED BY <6>1, <6>2, OccurrencesSum
        <5>. QED BY <5>1
      <4>2. IsFiniteSet(D)
        BY DEF Store
      <4>. HIDE DEF g
      <4>3. SumOf(g, D) = 0
        BY <4>1, <4>2, SumZero
      <4>. QED BY <4>3 DEF Uses, g
    <3>2. Occurrences(args, f) = 0
      <4>1. \A k \in 1 .. Len(args) : args[k] # f
        BY <1>1, ElementOfSeq
      <4>. QED BY <4>1, OccurrencesSum
    <3>3. Drop(t, f) = 0 /\ t[f].count = 1
      <4>1. t[f].dropped = FALSE /\ t[f].count = 1
        BY <1>5a
      <4>. QED BY <4>1 DEF Drop
    <3>4. Uses(t, D \cup {f}, f) = Uses(s, D, f) + Occurrences(args, f)
      BY <1>13
    <3>. HIDE DEF D, K, f
    <3>. QED BY <1>12, <3>1, <3>2, <3>3, <3>4
  <2>3. \A o \in Nat \ (D \cup {f}) : K[o] = 0
    BY <1>12 DEF Counted
  <2>. HIDE DEF new, more, K
  <2>. QED BY <1>5, <1>12, <2>1, <2>2, <2>3 DEF Counted
<1>. HIDE DEF new, more
<1>15. Extended(s, t, f, kind, args, val)
  BY <1>1, <1>5, <1>5a, <1>9 DEF Extended
<1>. QED BY <1>11, <1>14, <1>15

\* What operands that stay keep; t may have finished some.
Later(s, t) ==
  \A o \in DOMAIN s \cap DOMAIN t :
    /\ t[o].kind = s[o].kind /\ t[o].val = s[o].val /\ (s[o].done => t[o].done)

\* References are given back.
LEMMA GivenBack ==
  ASSUME NEW s, NEW H, Sound(s, H), NEW back, NEW K, Returned(s, H, back, K)
  PROVE  /\ Sound(Release(s, back), K) /\ DOMAIN Release(s, back) \subseteq DOMAIN s
         /\ \A o \in DOMAIN Release(s, back) : Same(s, Release(s, back), o)
<1>. DEFINE t == Release(s, back)
<1>1. Store(s) /\ Counted(s, H) /\ Single(s, H)
  BY DEF Sound
<1>2. /\ Store(t) /\ Counted(t, K) /\ DOMAIN t \subseteq DOMAIN s
      /\ \A o \in DOMAIN t : Same(s, t, o)
  BY <1>1, ReleaseSound
<1>. HIDE DEF t
<1>3. Single(t, K)
  <2>1. ASSUME NEW o \in DOMAIN t, ~t[o].done PROVE t[o].uses + K[o] + Drop(t, o) <= 1
    <3>1. o \in DOMAIN s /\ Same(s, t, o)
      BY <1>2
    <3>2. s[o].uses + H[o] + Drop(s, o) <= 1
      BY <1>1, <2>1, <3>1 DEF Single, Same
    <3>3. t[o].uses = s[o].uses /\ Drop(t, o) = Drop(s, o)
      BY <3>1 DEF Same, Drop
    <3>4. s[o].uses \in Nat /\ Drop(s, o) \in Nat /\ o \in Nat
      BY <1>1, <3>1, StoreIs
    <3>5. back[o] \in Nat /\ K[o] \in Nat /\ H[o] = K[o] + back[o]
      BY <3>1, <3>4 DEF Returned
    <3>. QED BY <3>2, <3>3, <3>4, <3>5
  <2>. QED BY <2>1 DEF Single
<1>. QED BY <1>2, <1>3 DEF Sound, t

\* A reference is given to the operand f, ...
Added(H, f, K) == K \in [Nat -> Nat] /\ \A x \in Nat : K[x] = H[x] + Is(f, x)

\* ... or taken from o, ...
Taken(H, o, K) == K \in [Nat -> Nat] /\ \A x \in Nat : K[x] = H[x] - Is(o, x)

\* ... or goes from o to n.
Passed(H, o, n, K) == K \in [Nat -> Nat] /\ \A x \in Nat : K[x] = H[x] - Is(o, x) + Is(n, x)

LEMMA AddedIs ==
  ASSUME NEW H \in [Nat -> Int], NEW f \in Nat, NEW K, Added(H, f, K)
  PROVE  K \in [Nat -> Nat] /\ K[f] = H[f] + 1 /\ \A n \in Nat \ {f} : K[n] = H[n]
<1>1. K[f] = H[f] + 1
  BY DEF Added, Is
<1>2. ASSUME NEW n \in Nat \ {f} PROVE K[n] = H[n]
  <2>1. K[n] = H[n] + 0 /\ H[n] \in Int
    BY DEF Added, Is
  <2>. QED BY <2>1
<1>. QED BY <1>1, <1>2 DEF Added

LEMMA TakenIs ==
  ASSUME NEW H \in [Nat -> Int], NEW o \in Nat, NEW K, Taken(H, o, K)
  PROVE  K \in [Nat -> Nat] /\ K[o] = H[o] - 1 /\ \A n \in Nat \ {o} : K[n] = H[n]
<1>1. K[o] = H[o] - 1
  BY DEF Taken, Is
<1>2. ASSUME NEW n \in Nat \ {o} PROVE K[n] = H[n]
  <2>1. K[n] = H[n] - 0 /\ H[n] \in Int
    BY DEF Taken, Is
  <2>. QED BY <2>1
<1>. QED BY <1>1, <1>2 DEF Taken

\* Giving back what one held is what Release expects.
LEMMA TakenReturns ==
  ASSUME NEW s, Store(s), NEW H, Counted(s, H), NEW o \in Nat, NEW K, Taken(H, o, K), H[o] >= 1
  PROVE  /\ o \in DOMAIN s
         /\ Returned(s, H, [n \in DOMAIN s |-> IF n = o THEN 1 ELSE 0], K)
<1>. DEFINE back == [n \in DOMAIN s |-> IF n = o THEN 1 ELSE 0]
<1>1. H \in [Nat -> Nat] /\ (\A n \in Nat \ DOMAIN s : H[n] = 0) /\ DOMAIN s \subseteq Nat
  BY DEF Counted, Store
<1>2. o \in DOMAIN s
  BY <1>1
<1>2a. K \in [Nat -> Nat] /\ K[o] = H[o] - 1 /\ \A n \in Nat \ {o} : K[n] = H[n]
  <2>1. H \in [Nat -> Int]
    BY <1>1
  <2>. QED BY <2>1, TakenIs
<1>3. \A n \in DOMAIN s : back[n] \in Nat /\ (n = o => back[n] = 1) /\ (n # o => back[n] = 0)
  OBVIOUS
<1>4. back \in [DOMAIN s -> Nat]
  BY <1>3
<1>. HIDE DEF back
<1>5. ASSUME NEW n \in DOMAIN s PROVE H[n] = K[n] + back[n]
  <2>1. n \in Nat /\ H[n] \in Nat /\ K[n] \in Nat /\ back[n] \in Nat
    BY <1>1, <1>2a, <1>3
  <2>2. CASE n = o
    <3>1. K[o] = H[o] - 1 /\ back[n] = 1
      BY <1>2a, <1>3, <2>2
    <3>. QED BY <2>1, <2>2, <3>1
  <2>3. CASE n # o
    <3>1. K[n] = H[n] /\ back[n] = 0
      BY <1>2a, <1>3, <2>1, <2>3
    <3>. QED BY <2>1, <3>1
  <2>. QED BY <2>2, <2>3
<1>6. \A n \in Nat \ DOMAIN s : K[n] = 0
  BY <1>1, <1>2, <1>2a
<1>. QED BY <1>2, <1>2a, <1>4, <1>5, <1>6 DEF Returned, back

\* One reference is given back.
LEMMA UnrefSound ==
  ASSUME NEW s, NEW H, Sound(s, H), NEW o \in Nat, H[o] >= 1, NEW K, Taken(H, o, K)
  PROVE  /\ o \in DOMAIN s /\ Sound(Unref(s, o), K) /\ DOMAIN Unref(s, o) \subseteq DOMAIN s
         /\ \A n \in DOMAIN Unref(s, o) : Same(s, Unref(s, o), n)
<1>1. Store(s) /\ Counted(s, H)
  BY DEF Sound
<1>2. /\ o \in DOMAIN s
      /\ Returned(s, H, [n \in DOMAIN s |-> IF n = o THEN 1 ELSE 0], K)
  BY <1>1, TakenReturns
<1>. QED BY <1>2, GivenBack DEF Unref

\* What is finished or baked may be linked, and the link that is made.
TerminalArguments(s, args) ==
  args \in Seq(DOMAIN s) /\ \A k \in 1 .. Len(args) : IsTerminal(s, args[k])

LinkMade(s, t, K, f, val) ==
  /\ Sound(t, K) /\ DOMAIN t = DOMAIN s \cup {f} /\ f \in Nat /\ f \notin DOMAIN s
  /\ t[f].val = val % P /\ \A o \in DOMAIN s : Same(s, t, o)

\* It has one reference.
LEMMA LinkSound ==
  ASSUME NEW s, NEW H, Sound(s, H), NEW args, TerminalArguments(s, args), NEW val \in Int,
         NEW t, t = Link(s, args, val), NEW K, Added(H, Fresh(s), K)
  PROVE  LinkMade(s, t, K, Fresh(s), val)
<1>. DEFINE f == Fresh(s)
            kind == "link"
<1>0. /\ t = New(s, kind, args, val) /\ kind \in {"link", "terminal"}
      /\ args \in Seq(DOMAIN s) /\ \A k \in 1 .. Len(args) : IsTerminal(s, args[k])
  BY DEF Link, TerminalArguments
<1>. HIDE DEF kind
<1>1. Store(s) /\ Counted(s, H) /\ Single(s, H)
  BY DEF Sound
<1>2. /\ Store(t) /\ Counted(t, [H EXCEPT ![f] = 1]) /\ DOMAIN t = DOMAIN s \cup {f}
      /\ f \in Nat /\ f \notin DOMAIN s
      /\ t[f].kind = kind /\ t[f].val = val % P /\ t[f].uses = 0
      /\ t[f].done = FALSE /\ t[f].dropped = FALSE
      /\ \A o \in DOMAIN s :
           /\ t[o].kind = s[o].kind /\ t[o].args = s[o].args /\ t[o].val = s[o].val
           /\ t[o].done = s[o].done /\ t[o].dropped = s[o].dropped
           /\ t[o].uses = s[o].uses + (IF IsTerminal(s, o) THEN 0 ELSE Occurrences(args, o))
  <2>1. /\ Store(t) /\ Counted(t, [H EXCEPT ![f] = 1]) /\ Extended(s, t, f, kind, args, val)
    BY <1>0, <1>1, NewSound
  <2>. HIDE DEF f
  <2>. QED BY <2>1 DEF Extended
<1>. HIDE DEF f
<1>3. /\ t[f].kind = kind /\ t[f].val = val % P /\ t[f].uses = 0 /\ t[f].dropped = FALSE
  BY <1>2
<1>4. ASSUME NEW o \in DOMAIN s PROVE t[o].uses = s[o].uses
  <2>1. s[o].uses \in Nat
    BY <1>1, StoreIs
  <2>2. CASE IsTerminal(s, o)
    BY <1>2, <2>1, <2>2
  <2>3. CASE ~IsTerminal(s, o)
    <3>1. Occurrences(args, o) = 0
      <4>1. \A k \in 1 .. Len(args) : args[k] # o
          BY <1>0, <2>3
      <4>. QED BY <1>0, <4>1, OccurrencesSum
    <3>. QED BY <1>2, <2>1, <2>3, <3>1
  <2>. QED BY <2>2, <2>3
<1>5. \A o \in DOMAIN s : Same(s, t, o)
  BY <1>2, <1>4 DEF Same
<1>6. K = [H EXCEPT ![f] = 1] /\ H \in [Nat -> Nat] /\ K[f] = 1
  <2>0. H \in [Nat -> Nat] /\ H \in [Nat -> Int] /\ H[f] = 0
    BY <1>1, <1>2 DEF Counted
  <2>1. K \in [Nat -> Nat] /\ K[f] = 1 /\ \A n \in Nat \ {f} : K[n] = H[n]
    <3>0. f \in Nat /\ Added(H, f, K)
      BY <1>2 DEF f
    <3>1. K \in [Nat -> Nat] /\ K[f] = H[f] + 1 /\ \A n \in Nat \ {f} : K[n] = H[n]
      BY <2>0, <3>0, AddedIs
    <3>2. \A u, v \in Int : u = 0 /\ v = u + 1 => v = 1
      OBVIOUS
    <3>3. K[f] = 1
      <4>1. H[f] \in Int /\ K[f] \in Int /\ H[f] = 0
        BY <2>0, <3>0, <3>1
      <4>. QED BY <3>1, <3>2, <4>1, Zenon
    <3>. QED BY <3>1, <3>3
  <2>. DEFINE N == [H EXCEPT ![f] = 1]
  <2>2. N \in [Nat -> Nat] /\ \A n \in Nat : N[n] = IF n = f THEN 1 ELSE H[n]
    BY <1>2, <2>0
  <2>3. \A n \in Nat : K[n] = N[n]
    BY <2>1, <2>2
  <2>. HIDE DEF N
  <2>4. K = N
    BY <2>1, <2>2, <2>3
  <2>. QED BY <2>0, <2>1, <2>4 DEF N
<1>7. Single(t, K)
  <2>1. ASSUME NEW o \in DOMAIN s, ~t[o].done PROVE t[o].uses + K[o] + Drop(t, o) <= 1
    <3>1. s[o].uses + H[o] + Drop(s, o) <= 1
      BY <1>1, <1>5, <2>1 DEF Single, Same
    <3>2. t[o].uses = s[o].uses /\ Drop(t, o) = Drop(s, o)
      BY <1>5 DEF Same, Drop
    <3>3. K[o] = H[o]
      BY <1>2, <1>6, <1>1 DEF Store
    <3>. QED BY <3>1, <3>2, <3>3
  <2>2. t[f].uses + K[f] + Drop(t, f) <= 1
    <3>1. K[f] = 1 /\ Drop(t, f) = 0
      BY <1>2, <1>3, <1>6 DEF Drop
    <3>. QED BY <1>3, <3>1
  <2>. QED BY <1>2, <2>1, <2>2 DEF Single
<1>. QED BY <1>2, <1>3, <1>5, <1>6, <1>7 DEF Sound, LinkMade, f

\* A new operand takes the place of o, on which it may depend.
LEMMA ReplaceSound ==
  ASSUME NEW s, NEW H, Sound(s, H), NEW kind \in {"link", "terminal"}, NEW args \in Seq(DOMAIN s),
         NEW val \in Int, NEW o \in Nat, H[o] >= 1,
         Occurrences(args, o) <= 1, \A k \in 1 .. Len(args) : args[k] # o => IsTerminal(s, args[k]),
         NEW K, Passed(H, o, Fresh(s), K),
         NEW t, t = Unref(New(s, kind, args, val), o)
  PROVE  /\ o \in DOMAIN s /\ Sound(t, K)
         /\ DOMAIN t \subseteq DOMAIN s \cup {Fresh(s)}
         /\ Fresh(s) \in Nat /\ Fresh(s) \notin DOMAIN s /\ Fresh(s) \in DOMAIN t
         /\ t[Fresh(s)].val = val % P /\ t[Fresh(s)].kind = kind
         /\ Later(s, t)
<1>. DEFINE f == Fresh(s)
            n == New(s, kind, args, val)
            N == [H EXCEPT ![f] = 1]
<1>1. Store(s) /\ Counted(s, H) /\ Single(s, H)
  BY DEF Sound
<1>2. /\ Store(n) /\ Counted(n, N) /\ DOMAIN n = DOMAIN s \cup {f}
      /\ f \in Nat /\ f \notin DOMAIN s
      /\ n[f].kind = kind /\ n[f].val = val % P /\ n[f].uses = 0
      /\ n[f].done = FALSE /\ n[f].dropped = FALSE
      /\ \A a \in DOMAIN s :
           /\ n[a].kind = s[a].kind /\ n[a].args = s[a].args /\ n[a].val = s[a].val
           /\ n[a].done = s[a].done /\ n[a].dropped = s[a].dropped
           /\ n[a].uses = s[a].uses + (IF IsTerminal(s, a) THEN 0 ELSE Occurrences(args, a))
  <2>1. /\ Store(n) /\ Counted(n, N) /\ Extended(s, n, f, kind, args, val)
    BY <1>1, NewSound
  <2>. HIDE DEF f, n, N
  <2>. QED BY <2>1 DEF Extended
<1>3. H \in [Nat -> Nat] /\ (\A a \in Nat \ DOMAIN s : H[a] = 0) /\ DOMAIN s \subseteq Nat
  BY <1>1 DEF Counted, Store
<1>4. o \in DOMAIN s /\ o # f
  BY <1>2, <1>3, SMTT(30)
<1>. HIDE DEF f, n
<1>5. N \in [Nat -> Nat] /\ N[f] = 1 /\ (\A a \in Nat \ {f} : N[a] = H[a])
  BY <1>2, <1>3
<1>6. /\ K \in [Nat -> Nat] /\ K[f] = 1 /\ K[o] = H[o] - 1
      /\ \A a \in Nat \ {f, o} : K[a] = H[a]
  <2>0. K \in [Nat -> Nat] /\ H \in [Nat -> Nat] /\ H[f] = 0 /\ \A a \in Nat : K[a] = H[a] - Is(o, a) + Is(f, a)
    BY <1>2, <1>3 DEF Passed, f
  <2>1. Is(o, o) = 1 /\ Is(f, f) = 1 /\ Is(o, f) = 0 /\ Is(f, o) = 0
    BY <1>4 DEF Is
  <2>2. K[f] = 1 /\ K[o] = H[o] - 1
    <3>1. K[f] = H[f] - 0 + 1 /\ K[o] = H[o] - 1 + 0
      BY <1>2, <2>0, <2>1
    <3>2. H[f] \in Int /\ H[f] = 0 /\ H[o] \in Int /\ K[f] \in Int /\ K[o] \in Int
      BY <1>2, <2>0
    <3>3. \A u, v \in Int : u = 0 /\ v = u - 0 + 1 => v = 1
      OBVIOUS
    <3>4. \A u, v \in Int : v = u - 1 + 0 => v = u - 1
      OBVIOUS
    <3>5. K[f] = 1
      BY <3>1, <3>2, <3>3, Zenon
    <3>6. K[o] = H[o] - 1
      BY <3>1, <3>2, <3>4, Zenon
    <3>. QED BY <3>5, <3>6
  <2>3. ASSUME NEW a \in Nat \ {f, o} PROVE K[a] = H[a]
    <3>1. Is(o, a) = 0 /\ Is(f, a) = 0
      BY DEF Is
    <3>2. K[a] = H[a] - 0 + 0 /\ H[a] \in Nat
      BY <2>0, <3>1
    <3>. QED BY <3>2
  <2>. QED BY <2>0, <2>2, <2>3
<1>. HIDE DEF N
<1>7. Taken(N, o, K)
  <2>1. ASSUME NEW a \in Nat PROVE K[a] = N[a] - Is(o, a)
    <3>1. N[a] \in Nat
      BY <1>5
    <3>2. CASE a = o
      BY <1>4, <1>5, <1>6, <3>2 DEF Is
    <3>3. CASE a # o
      <4>1. K[a] = N[a] /\ Is(o, a) = 0
        BY <1>5, <1>6, <3>3 DEF Is
      <4>. QED BY <3>1, <4>1
    <3>. QED BY <3>2, <3>3
  <2>. QED BY <1>6, <2>1 DEF Taken
<1>8. N[o] >= 1
  BY <1>4, <1>5
<1>. DEFINE back == [a \in DOMAIN n |-> IF a = o THEN 1 ELSE 0]
<1>9. Returned(n, N, back, K)
  BY <1>2, <1>7, <1>8, TakenReturns
<1>10. t = Release(n, back)
  BY DEF Unref, n
<1>. HIDE DEF back
<1>11. /\ Store(t) /\ Counted(t, K) /\ DOMAIN t \subseteq DOMAIN n
       /\ \A a \in DOMAIN t : Same(n, t, a)
  BY <1>2, <1>9, <1>10, ReleaseSound
<1>12. n[f].kind = kind /\ n[f].val = val % P /\ n[f].uses = 0 /\ n[f].dropped = FALSE
  BY <1>2
<1>13. f \in DOMAIN t
  <2>1. \A a \in Nat \ DOMAIN t : K[a] = 0
    BY <1>11 DEF Counted
  <2>. QED BY <1>2, <1>6, <2>1
<1>14. Later(s, t)
  <2>1. ASSUME NEW a \in DOMAIN s \cap DOMAIN t
        PROVE  t[a].kind = s[a].kind /\ t[a].val = s[a].val /\ t[a].done = s[a].done
    BY <1>2, <1>11 DEF Same
  <2>. QED BY <2>1 DEF Later
<1>15. Single(t, K)
  <2>1. ASSUME NEW a \in DOMAIN s, a \in DOMAIN t, ~t[a].done PROVE t[a].uses + K[a] + Drop(t, a) <= 1
    <3>1. Same(n, t, a) /\ a # f /\ a \in Nat
      BY <1>2, <1>3, <1>11, <2>1
    <3>2. s[a].uses + H[a] + Drop(s, a) <= 1
      BY <1>1, <1>2, <2>1, <3>1 DEF Single, Same
    <3>3. t[a].uses = s[a].uses + (IF IsTerminal(s, a) THEN 0 ELSE Occurrences(args, a))
      BY <1>2, <3>1 DEF Same
    <3>4. Drop(t, a) = Drop(s, a)
      BY <1>2, <3>1 DEF Same, Drop
    <3>5. s[a].uses \in Nat /\ Drop(s, a) \in Nat /\ H[a] \in Nat /\ Occurrences(args, a) \in Nat
      BY <1>1, <1>3, <3>1, StoreIs, OccurrencesSum
    <3>6. CASE IsTerminal(s, a)
      <4>1. K[a] <= H[a] /\ K[a] \in Nat
        <5>0. K[a] \in Nat
          BY <1>6, <3>1
        <5>1. K[a] = H[a] - 1 \/ K[a] = H[a]
          BY <1>6, <3>1
        <5>. QED BY <3>5, <5>0, <5>1
      <4>2. t[a].uses = s[a].uses
        BY <3>3, <3>5, <3>6
      <4>. QED BY <3>2, <3>4, <3>5, <4>1, <4>2
    <3>7. CASE ~IsTerminal(s, a)
      <4>1. CASE a = o
        <5>1. t[a].uses = s[a].uses + Occurrences(args, a) /\ Occurrences(args, a) <= 1 /\ K[a] = H[a] - 1
          BY <1>6, <3>3, <3>7, <4>1
        <5>. QED BY <3>2, <3>4, <3>5, <5>1
      <4>2. CASE a # o
        <5>1. Occurrences(args, a) = 0
          <6>1. \A k \in 1 .. Len(args) : args[k] # a
            BY <3>7, <4>2
          <6>. QED BY <6>1, OccurrencesSum
        <5>2. t[a].uses = s[a].uses + 0 /\ K[a] = H[a]
          BY <1>6, <3>1, <3>3, <3>7, <4>2, <5>1
        <5>. QED BY <3>2, <3>4, <3>5, <5>2
      <4>. QED BY <4>1, <4>2
    <3>. QED BY <3>6, <3>7
  <2>2. t[f].uses + K[f] + Drop(t, f) <= 1
    <3>1. Same(n, t, f)
      BY <1>11, <1>13
    <3>2. K[f] = 1 /\ Drop(t, f) = 0 /\ t[f].uses = 0
      BY <1>6, <1>12, <3>1 DEF Drop, Same
    <3>. QED BY <3>2
  <2>. QED BY <1>2, <1>11, <2>1, <2>2 DEF Single
<1>16. t[f].val = val % P /\ t[f].kind = kind
  BY <1>11, <1>12, <1>13 DEF Same
<1>. QED BY <1>2, <1>4, <1>11, <1>13, <1>14, <1>15, <1>16 DEF Sound, f, n

\* Remainders.
LEMMA ModuloIs ==
  ASSUME NEW a \in Coefficient
  PROVE  a \in Int /\ a % P = a
BY PrimeAssumption DEF Coefficient

\* An operand that is not baked yet is replaced by one that is.
LEMMA TerminateSound ==
  ASSUME NEW s, NEW H, Sound(s, H), NEW o \in Nat, H[o] >= 1,
         NEW n, n = Terminated(s, o), NEW t, t = Terminate(s, o), NEW K, Passed(H, o, n, K)
  PROVE  /\ o \in DOMAIN s /\ n \in Nat /\ n \in DOMAIN t /\ Sound(t, K)
         /\ IsTerminal(t, n) /\ t[n].val = s[o].val
         /\ (IsTerminal(s, o) => n = o) /\ (~IsTerminal(s, o) => n \notin DOMAIN s)
         /\ Later(s, t)
<1>1. Store(s) /\ Counted(s, H)
  BY DEF Sound
<1>2. o \in DOMAIN s /\ H \in [Nat -> Nat]
  BY <1>1 DEF Counted
<1>3. s[o].val \in Coefficient
  BY <1>1, <1>2, StoreIs
<1>4. CASE IsTerminal(s, o)
  <2>1. n = o /\ t = s
    BY <1>4 DEF Terminated, Terminate
  <2>2. K \in [Nat -> Nat] /\ \A x \in Nat : K[x] = H[x] - Is(o, x) + Is(o, x)
    BY <2>1 DEF Passed
  <2>3. \A x \in Nat : K[x] = H[x]
    <3>1. ASSUME NEW x \in Nat PROVE K[x] = H[x]
      <4>1. H[x] \in Int /\ K[x] \in Int /\ Is(o, x) \in Int /\ K[x] = H[x] - Is(o, x) + Is(o, x)
        BY <1>2, <2>2 DEF Is
      <4>2. \A u, v, w \in Int : u = v - w + w => u = v
        OBVIOUS
      <4>. QED BY <4>1, <4>2, Zenon
    <3>. QED BY <3>1
  <2>4. K = H
    BY <1>2, <2>2, <2>3
  <2>. QED BY <1>2, <1>4, <2>1, <2>4 DEF Later
<1>5. CASE ~IsTerminal(s, o)
  <2>1. n = Fresh(s) /\ t = Unref(New(s, "terminal", <<o>>, s[o].val), o)
    BY <1>5 DEF Terminated, Terminate, Bake
  <2>2. <<o>> \in Seq(DOMAIN s) /\ Len(<<o>>) = 1 /\ <<o>>[1] = o
    BY <1>2
  <2>3. Occurrences(<<o>>, o) <= 1
    <3>1. Is(o, o) = 1
      BY DEF Is
    <3>2. Occurrences(<<o>>, o) = Is(o, o)
      BY OccurrencesShort
    <3>. QED BY <3>1, <3>2
  <2>4. \A k \in 1 .. Len(<<o>>) : <<o>>[k] # o => IsTerminal(s, <<o>>[k])
    BY <2>2
  <2>5. s[o].val \in Int /\ s[o].val % P = s[o].val
    BY <1>3, ModuloIs
  <2>6. Passed(H, o, Fresh(s), K)
    BY <2>1
  <2>. DEFINE v == s[o].val
              args == <<o>>
  <2>6a. /\ args \in Seq(DOMAIN s) /\ v \in Int /\ t = Unref(New(s, "terminal", args, v), o)
         /\ Occurrences(args, o) <= 1 /\ \A k \in 1 .. Len(args) : args[k] # o => IsTerminal(s, args[k])
    BY <2>1, <2>2, <2>3, <2>4, <2>5
  <2>. HIDE DEF v, args
  <2>7. /\ o \in DOMAIN s /\ Sound(t, K)
        /\ Fresh(s) \in Nat /\ Fresh(s) \notin DOMAIN s /\ Fresh(s) \in DOMAIN t
        /\ t[Fresh(s)].val = v % P /\ t[Fresh(s)].kind = "terminal"
        /\ Later(s, t)
    BY <2>6, <2>6a, ReplaceSound
  <2>. QED BY <1>5, <2>1, <2>5, <2>7 DEF IsTerminal, v
<1>. QED BY <1>4, <1>5

LEMMA BelowIs ==
  ASSUME NEW s, Store(s), NEW o \in DOMAIN s
  PROVE  Below(s, o) \in SUBSET DOMAIN s /\ o \in Below(s, o)
<1>. DEFINE D == DOMAIN s
            grown == [N \in SUBSET D |-> N \cup UNION {ToSet(s[n].args) : n \in N}]
<1>1. ASSUME NEW N \in SUBSET D PROVE UNION {ToSet(s[n].args) : n \in N} \subseteq D
  <2>1. ASSUME NEW n \in N PROVE ToSet(s[n].args) \subseteq D
    <3>1. s[n].args \in Seq(D)
      BY StoreIs
    <3>. QED BY <3>1 DEF ToSet
  <2>. QED BY <2>1
<1>2. IsFiniteSet(D) /\ Growing(grown, D)
  BY <1>1 DEF Store, Growing
<1>3. {o} \in SUBSET D
  OBVIOUS
<1>. HIDE DEF grown
<1>4. Limit(grown, {o}) \in SUBSET D /\ {o} \subseteq Limit(grown, {o})
  BY <1>2, <1>3, LimitIs
<1>. QED BY <1>4 DEF Below, grown

\* What is not finished yet of what o depends on.
Open(s, o) == {n \in Below(s, o) : IsTerminal(s, n) /\ ~s[n].done}
Complete(s, o) == [n \in DOMAIN s |-> IF n \in Open(s, o) THEN [s[n] EXCEPT !.done = TRUE, !.args = <<>>] ELSE s[n]]
Backs(s, o) == [n \in DOMAIN s |-> Uses(s, Open(s, o), n) + IF n \in Open(s, o) /\ s[n].dropped THEN 1 ELSE 0]

\* Finish completes and then releases.
LEMMA FinishIs ==
  ASSUME NEW s, Store(s), NEW o \in DOMAIN s
  PROVE  /\ Open(s, o) \in SUBSET DOMAIN s
         /\ Finish(s, o) = Release(Complete(s, o), Backs(s, o))
<1>. DEFINE D == Open(s, o)
            new == [n \in D |-> [s[n] EXCEPT !.done = TRUE, !.args = <<>>]]
<1>1. D \in SUBSET DOMAIN s
  BY BelowIs DEF Open
<1>2. Merge(new, s) = Complete(s, o)
  <2>1. DOMAIN new = D /\ \A n \in D : new[n] = [s[n] EXCEPT !.done = TRUE, !.args = <<>>]
    OBVIOUS
  <2>. HIDE DEF new
  <2>2. Merge(new, s) = [x \in DOMAIN new \cup DOMAIN s |-> IF x \in DOMAIN new THEN new[x] ELSE s[x]]
    BY MergeIs
  <2>3. D \cup DOMAIN s = DOMAIN s
    BY <1>1
  <2>4. Merge(new, s) = [x \in DOMAIN s |-> IF x \in D THEN new[x] ELSE s[x]]
    BY <2>1, <2>2, <2>3
  <2>. HIDE DEF D
  <2>. QED BY <2>1, <2>4 DEF Complete, D
<1>. QED BY <1>1, <1>2 DEF Finish, Open, Backs

\* Completing alone leaves the counts with what is given back next.
LEMMA CompleteSound ==
  ASSUME NEW s, NEW H, Sound(s, H), NEW o \in DOMAIN s,
         NEW N, N = [x \in Nat |-> IF x \in DOMAIN s THEN H[x] + Backs(s, o)[x] ELSE 0]
  PROVE  /\ Store(Complete(s, o)) /\ Counted(Complete(s, o), N)
         /\ Returned(Complete(s, o), N, Backs(s, o), H)
<1>. DEFINE D == Open(s, o)
            E == DOMAIN s
            c == Complete(s, o)
            back == Backs(s, o)
<1>1. Store(s) /\ Counted(s, H) /\ E \subseteq Nat /\ IsFiniteSet(E)
  BY DEF Sound, Store
<1>2. D \in SUBSET E
  BY <1>1, FinishIs
<1>3. DOMAIN c = E /\ \A n \in E : c[n] = IF n \in D THEN [s[n] EXCEPT !.done = TRUE, !.args = <<>>] ELSE s[n]
  BY DEF Complete
<1>4. /\ DOMAIN back = E
      /\ \A n \in E : back[n] = Uses(s, D, n) + IF n \in D /\ s[n].dropped THEN 1 ELSE 0
      /\ \A n \in E : back[n] \in Nat
  <2>. DEFINE d(n) == IF n \in D /\ s[n].dropped THEN 1 ELSE 0
  <2>1. DOMAIN back = E /\ \A n \in E : back[n] = Uses(s, D, n) + d(n)
    BY DEF Backs
  <2>2. \A n \in E : Uses(s, D, n) \in Nat
    BY <1>1, <1>2, UsesIs
  <2>3. \A n \in E : d(n) \in Nat
    OBVIOUS
  <2>4. ASSUME NEW n \in E PROVE back[n] \in Nat
    <3>. HIDE DEF d, D, E, back
    <3>. QED BY <2>1, <2>2, <2>3
  <2>. QED BY <2>1, <2>4
<1>4a. back \in [E -> Nat]
  <2>1. back = [n \in E |-> back[n]]
    BY DEF Backs
  <2>. QED BY <1>4, <2>1
<1>5. ASSUME NEW n \in D PROVE IsTerminal(s, n) /\ s[n].done = FALSE
  <2>1. s[n].done \in BOOLEAN
    BY <1>1, <1>2, StoreIs
  <2>. QED BY <2>1 DEF Open
<1>6. ASSUME NEW n \in E
      PROVE  /\ c[n] \in Operand /\ c[n].kind = s[n].kind /\ c[n].count = s[n].count
             /\ c[n].args = (IF n \in D THEN <<>> ELSE s[n].args)
             /\ c[n].done = (IF n \in D THEN TRUE ELSE s[n].done)
             /\ c[n].dropped = s[n].dropped /\ c[n].uses = s[n].uses
  <2>1. s[n] \in Operand
    BY <1>1, StoreIs
  <2>2. <<>> \in Seq(Nat)
    OBVIOUS
  <2>. HIDE DEF c, D
  <2>3. CASE n \in D
    BY <1>3, <2>1, <2>2, <2>3 DEF Operand
  <2>4. CASE n \notin D
    BY <1>3, <2>1, <2>4 DEF Operand
  <2>. QED BY <2>3, <2>4
<1>7. c = [n \in E |-> c[n]]
  BY DEF Complete
<1>. HIDE DEF c, D, back
<1>8. Store(c)
  <2>1. c \in [E -> Operand]
    BY <1>6, <1>7
  <2>2. ASSUME NEW n \in E
        PROVE  /\ c[n].args \in Seq(E)
               /\ c[n].done => c[n].args = <<>>
               /\ ~IsTerminal(c, n) => ~c[n].done /\ ~c[n].dropped
               /\ IsTerminal(c, n) => c[n].uses = 0
    <3>1. s[n].args \in Seq(E)
      BY <1>1, StoreIs
    <3>2. CASE n \in D
      <4>1. IsTerminal(s, n)
        BY <1>5, <3>2
      <4>2. c[n].args = <<>> /\ c[n].done /\ c[n].kind = s[n].kind /\ c[n].uses = s[n].uses
        BY <1>6, <3>2
      <4>3. <<>> \in Seq(E)
        OBVIOUS
      <4>. QED BY <1>1, <4>1, <4>2, <4>3 DEF Store, IsTerminal
    <3>3. CASE n \notin D
      BY <1>1, <1>6, <3>1, <3>3 DEF Store, IsTerminal
    <3>. QED BY <3>2, <3>3
  <2>. QED BY <1>1, <1>3, <2>1, <2>2 DEF Store
<1>9. ASSUME NEW x \in E PROVE Uses(c, E, x) = Uses(s, E \ D, x) /\ Uses(s, E, x) = Uses(s, D, x) + Uses(s, E \ D, x)
  <2>1. Uses(c, E, x) = Uses(c, D, x) + Uses(c, E \ D, x)
    <3>1. E \in SUBSET DOMAIN c /\ D \in SUBSET E
      BY <1>2, <1>3
    <3>. HIDE DEF E
    <3>. QED BY <1>8, <3>1, UsesParts
  <2>2. Uses(c, E \ D, x) = Uses(s, E \ D, x)
    <3>1. E \ D \in SUBSET E /\ \A n \in E \ D : c[n].args = s[n].args
      BY <1>6
    <3>. QED BY <1>1, <3>1, UsesSame
  <2>3. Uses(c, D, x) = 0
    <3>. DEFINE g == [n \in D |-> Occurrences(c[n].args, x)]
    <3>1. \A n \in D : g[n] = 0
      BY <1>2, <1>6, OccurrencesShort
    <3>2. IsFiniteSet(D)
      BY <1>1, <1>2, FS_Subset
    <3>. HIDE DEF g
    <3>3. SumOf(g, D) = 0
      BY <3>1, <3>2, SumZero
    <3>. QED BY <3>3 DEF Uses, g
  <2>4. Uses(c, E \ D, x) \in Nat
    BY <1>3, <1>8, UsesIs
  <2>5. Uses(c, E, x) = Uses(c, E \ D, x)
    BY <2>1, <2>3, <2>4
  <2>6. Uses(s, E, x) = Uses(s, D, x) + Uses(s, E \ D, x)
    BY <1>1, <1>2, UsesParts
  <2>. QED BY <2>2, <2>5, <2>6
<1>10. ASSUME NEW x \in E PROVE Drop(s, x) = Drop(c, x) + IF x \in D /\ s[x].dropped THEN 1 ELSE 0
  <2>1. CASE x \in D
    <3>1. ~s[x].done /\ c[x].done
      BY <1>5, <1>6, <2>1
    <3>2. Drop(c, x) = 0 /\ Drop(s, x) = IF s[x].dropped THEN 1 ELSE 0
      BY <3>1 DEF Drop
    <3>. QED BY <2>1, <3>2
  <2>2. CASE x \notin D
    <3>1. Drop(s, x) = Drop(c, x) /\ Drop(c, x) \in Int
      <4>1. c[x].done = s[x].done /\ c[x].dropped = s[x].dropped
        BY <1>6, <2>2
      <4>. QED BY <4>1 DEF Drop
    <3>. QED BY <2>2, <3>1
  <2>. QED BY <2>1, <2>2
<1>11. H \in [Nat -> Nat] /\ N \in [Nat -> Nat] /\ (\A x \in E : N[x] = H[x] + back[x])
       /\ \A x \in Nat \ E : N[x] = 0
  <2>1. H \in [Nat -> Nat]
    BY <1>1 DEF Counted
  <2>2. \A x \in E : H[x] + back[x] \in Nat
    <3>1. ASSUME NEW x \in E PROVE H[x] + back[x] \in Nat
      <4>1. H[x] \in Nat /\ back[x] \in Nat
        BY <1>1, <1>4, <2>1
      <4>. QED BY <4>1
    <3>. QED BY <3>1
  <2>3. N = [x \in Nat |-> IF x \in E THEN H[x] + back[x] ELSE 0]
    BY DEF back
  <2>. HIDE DEF E
  <2>. QED BY <1>1, <2>1, <2>2, <2>3
<1>12. ASSUME NEW x \in E PROVE c[x].count = Uses(c, E, x) + Drop(c, x) + N[x]
  <2>. DEFINE d == IF x \in D /\ s[x].dropped THEN 1 ELSE 0
  <2>1. /\ s[x].count = Uses(s, E, x) + Drop(s, x) + H[x] /\ c[x].count = s[x].count
        /\ N[x] = H[x] + back[x] /\ back[x] = Uses(s, D, x) + d /\ Drop(s, x) = Drop(c, x) + d
        /\ Uses(c, E, x) = Uses(s, E \ D, x) /\ Uses(s, E, x) = Uses(s, D, x) + Uses(s, E \ D, x)
    BY <1>1, <1>4, <1>6, <1>9, <1>10, <1>11 DEF Counted
  <2>2. Drop(c, x) \in Nat /\ d \in Nat /\ H[x] \in Nat /\ Uses(s, D, x) \in Nat /\ Uses(s, E \ D, x) \in Nat
    BY <1>1, <1>2, <1>3, <1>8, <1>11, StoreIs, UsesIs
  <2>. HIDE DEF d
  <2>. QED BY <2>1, <2>2
<1>13. Counted(c, N)
  BY <1>3, <1>11, <1>12 DEF Counted
<1>14. Returned(c, N, back, H)
  BY <1>1, <1>3, <1>4a, <1>11 DEF Returned, Counted
<1>. QED BY <1>8, <1>13, <1>14 DEF c, back

\* A worker finishes operands: nothing is lost, and what remains is what it was.
LEMMA FinishSound ==
  ASSUME NEW s, NEW H, Sound(s, H), NEW o \in DOMAIN s, NEW t, t = Finish(s, o)
  PROVE  /\ Sound(t, H) /\ DOMAIN t \subseteq DOMAIN s /\ Later(s, t)
         /\ o \in DOMAIN t /\ IsTerminal(s, o) => t[o].done
<1>. DEFINE c == Complete(s, o)
            N == [x \in Nat |-> IF x \in DOMAIN s THEN H[x] + Backs(s, o)[x] ELSE 0]
<1>1. Store(s) /\ Counted(s, H) /\ Single(s, H)
  BY DEF Sound
<1>2. Store(c) /\ Counted(c, N) /\ Returned(c, N, Backs(s, o), H)
  BY CompleteSound
<1>3. t = Release(c, Backs(s, o)) /\ Open(s, o) \in SUBSET DOMAIN s
  BY <1>1, FinishIs
<1>4. /\ DOMAIN c = DOMAIN s
      /\ \A n \in DOMAIN s : c[n] = IF n \in Open(s, o) THEN [s[n] EXCEPT !.done = TRUE, !.args = <<>>] ELSE s[n]
  BY DEF Complete
<1>5. ASSUME NEW n \in DOMAIN s
      PROVE  /\ c[n].kind = s[n].kind /\ c[n].val = s[n].val
             /\ c[n].done = (IF n \in Open(s, o) THEN TRUE ELSE s[n].done)
             /\ c[n].dropped = s[n].dropped /\ c[n].uses = s[n].uses
  <2>1. s[n] \in Operand
    BY <1>1, StoreIs
  <2>2. CASE n \in Open(s, o)
    BY <1>4, <2>1, <2>2 DEF Operand
  <2>3. CASE n \notin Open(s, o)
    BY <1>4, <2>1, <2>3 DEF Operand
  <2>. QED BY <2>2, <2>3
<1>. HIDE DEF c, N
<1>6. Store(t) /\ Counted(t, H) /\ DOMAIN t \subseteq DOMAIN c /\ \A n \in DOMAIN t : Same(c, t, n)
  BY <1>2, <1>3, ReleaseSound
<1>7. ASSUME NEW n \in DOMAIN t
      PROVE  /\ n \in DOMAIN s /\ t[n].kind = s[n].kind /\ t[n].val = s[n].val
             /\ t[n].done = (IF n \in Open(s, o) THEN TRUE ELSE s[n].done)
             /\ t[n].dropped = s[n].dropped /\ t[n].uses = s[n].uses
  BY <1>4, <1>5, <1>6, ZenonT(40) DEF Same
<1>8. Single(t, H)
  <2>1. ASSUME NEW n \in DOMAIN t, ~t[n].done PROVE t[n].uses + H[n] + Drop(t, n) <= 1
    <3>1. n \in DOMAIN s /\ t[n].uses = s[n].uses /\ ~s[n].done /\ Drop(t, n) = Drop(s, n)
      BY <1>7, <2>1 DEF Drop
    <3>2. s[n].uses + H[n] + Drop(s, n) <= 1
      BY <1>1, <3>1 DEF Single
    <3>. QED BY <3>1, <3>2
  <2>. QED BY <2>1 DEF Single
<1>9. Later(s, t)
  <2>1. ASSUME NEW n \in DOMAIN t PROVE t[n].kind = s[n].kind /\ t[n].val = s[n].val /\ (s[n].done => t[n].done)
    BY <1>7
  <2>. QED BY <2>1 DEF Later
<1>10. ASSUME o \in DOMAIN t, IsTerminal(s, o) PROVE t[o].done
  <2>1. o \in Below(s, o)
    BY <1>1, BelowIs
  <2>2. s[o].done \/ o \in Open(s, o)
    BY <1>10, <2>1 DEF Open
  <2>. QED BY <1>7, <1>10, <2>2
<1>. QED BY <1>4, <1>6, <1>8, <1>9, <1>10 DEF Sound

\* A terminal is discarded: its reference is given back, now or by the worker.
LEMMA DiscardSound ==
  ASSUME NEW s, NEW H, Sound(s, H), NEW o \in Nat, H[o] >= 1, IsTerminal(s, o),
         NEW arrived \in BOOLEAN, NEW K, Taken(H, o, K), NEW t, t = Discard(s, o, arrived)
  PROVE  o \in DOMAIN s /\ Sound(t, K) /\ DOMAIN t \subseteq DOMAIN s /\ Later(s, t)
<1>1. Store(s) /\ Counted(s, H) /\ Single(s, H) /\ H \in [Nat -> Nat]
  BY DEF Sound, Counted
<1>2. o \in DOMAIN s
  BY <1>1 DEF Counted
<1>3. CASE s[o].done \/ arrived
  <2>. DEFINE c == Finish(s, o)
  <2>1. Sound(c, H) /\ DOMAIN c \subseteq DOMAIN s /\ Later(s, c)
    BY <1>2, FinishSound
  <2>2. t = Unref(c, o)
    BY <1>3 DEF Discard
  <2>. HIDE DEF c
  <2>3. Sound(t, K) /\ DOMAIN t \subseteq DOMAIN c /\ \A n \in DOMAIN t : Same(c, t, n)
    BY <2>1, <2>2, UnrefSound
  <2>4. Later(s, t)
    <3>1. ASSUME NEW n \in DOMAIN s \cap DOMAIN t
          PROVE  t[n].kind = s[n].kind /\ t[n].val = s[n].val /\ (s[n].done => t[n].done)
      <4>1. n \in DOMAIN c /\ Same(c, t, n)
        BY <2>3
      <4>. QED BY <2>1, <4>1 DEF Later, Same
    <3>. QED BY <3>1 DEF Later
  <2>. QED BY <1>2, <2>1, <2>3, <2>4
<1>4. CASE ~(s[o].done \/ arrived)
  <2>1. t = [s EXCEPT ![o].dropped = TRUE]
    BY <1>4 DEF Discard
  <2>2. /\ DOMAIN t = DOMAIN s
        /\ \A n \in DOMAIN s : n # o => t[n] = s[n]
        /\ t[o] = [s[o] EXCEPT !.dropped = TRUE]
    BY <1>2, <2>1
  <2>3. s[o] \in Operand
    BY <1>1, <1>2, StoreIs
  <2>4. /\ t[o].kind = s[o].kind /\ t[o].args = s[o].args /\ t[o].val = s[o].val
        /\ t[o].count = s[o].count /\ t[o].done = s[o].done /\ t[o].dropped = TRUE
        /\ t[o].uses = s[o].uses /\ t[o] \in Operand
    BY <2>2, <2>3 DEF Operand
  <2>5. /\ s[o].uses = 0 /\ H[o] = 1 /\ Drop(s, o) = 0
    <3>1. s[o].uses + H[o] + Drop(s, o) <= 1
      BY <1>1, <1>2, <1>4 DEF Single
    <3>2. s[o].uses \in Nat /\ H[o] \in Nat /\ Drop(s, o) \in Nat
      BY <1>1, <1>2, StoreIs
    <3>. QED BY <3>1, <3>2
  <2>6. K \in [Nat -> Nat] /\ K[o] = 0 /\ \A n \in Nat \ {o} : K[n] = H[n]
    <3>1. K \in [Nat -> Nat] /\ K[o] = H[o] - 1 /\ \A n \in Nat \ {o} : K[n] = H[n]
      <4>1. H \in [Nat -> Int]
        BY <1>1
      <4>. QED BY <4>1, TakenIs
    <3>2. \A u, v \in Int : u = 1 /\ v = u - 1 => v = 0
      OBVIOUS
    <3>3. K[o] \in Int /\ H[o] \in Int
      BY <1>1, <3>1
    <3>. QED BY <2>5, <3>1, <3>2, <3>3, Zenon
  <2>7. Drop(t, o) = 1
    BY <1>4, <2>4 DEF Drop
  <2>8. Store(t)
    <3>1. t \in [DOMAIN s -> Operand]
      <4>1. t = [n \in DOMAIN s |-> t[n]]
        BY <2>1
      <4>2. \A n \in DOMAIN s : t[n] \in Operand
        BY <1>1, <2>2, <2>4, StoreIs
      <4>. QED BY <4>1, <4>2
    <3>2. ASSUME NEW n \in DOMAIN s
          PROVE  /\ t[n].args \in Seq(DOMAIN s)
                 /\ t[n].done => t[n].args = <<>>
                 /\ ~IsTerminal(t, n) => ~t[n].done /\ ~t[n].dropped
                 /\ IsTerminal(t, n) => t[n].uses = 0
      <4>1. CASE n = o
        BY <1>1, <2>4, <4>1 DEF Store, IsTerminal
      <4>2. CASE n # o
        BY <1>1, <2>2, <4>2 DEF Store, IsTerminal
      <4>. QED BY <4>1, <4>2
    <3>. QED BY <1>1, <2>2, <3>1, <3>2 DEF Store
  <2>9. ASSUME NEW x PROVE Uses(t, DOMAIN s, x) = Uses(s, DOMAIN s, x)
    <3>1. \A n \in DOMAIN s : t[n].args = s[n].args
      BY <2>2, <2>4
    <3>. QED BY <1>1, <3>1, UsesSame
  <2>10. ASSUME NEW n \in DOMAIN s PROVE t[n].count = Uses(t, DOMAIN s, n) + Drop(t, n) + K[n]
    <3>1. s[n].count = Uses(s, DOMAIN s, n) + Drop(s, n) + H[n] /\ Uses(s, DOMAIN s, n) \in Nat
      BY <1>1, UsesIs DEF Counted
    <3>2. CASE n = o
      <4>1. s[o].count = Uses(s, DOMAIN s, o) + 0 + 1 /\ Uses(s, DOMAIN s, o) \in Nat
        BY <2>5, <3>1, <3>2
      <4>2. \A u, v \in Int : v = u + 0 + 1 => v = u + 1 + 0
        OBVIOUS
      <4>3. s[o].count = Uses(s, DOMAIN s, o) + 1 + 0
        BY <4>1
      <4>. QED BY <2>4, <2>6, <2>7, <2>9, <3>2, <4>3
    <3>3. CASE n # o
      <4>1. t[n] = s[n] /\ Drop(t, n) = Drop(s, n) /\ K[n] = H[n]
        BY <1>1, <2>2, <2>6, <3>3 DEF Drop, Store
      <4>. QED BY <2>9, <3>1, <4>1
    <3>. QED BY <3>2, <3>3
  <2>11. Counted(t, K)
    <3>1. \A n \in Nat \ DOMAIN s : K[n] = 0
      BY <1>1, <1>2, <2>6 DEF Counted
    <3>. QED BY <2>2, <2>6, <2>10, <3>1 DEF Counted
  <2>12. Single(t, K)
    <3>1. ASSUME NEW n \in DOMAIN s, ~t[n].done PROVE t[n].uses + K[n] + Drop(t, n) <= 1
      <4>1. CASE n = o
        BY <2>4, <2>5, <2>6, <2>7, <4>1
      <4>2. CASE n # o
        <5>1. t[n] = s[n] /\ Drop(t, n) = Drop(s, n) /\ K[n] = H[n]
          BY <1>1, <2>2, <2>6, <4>2 DEF Drop, Store
        <5>. QED BY <1>1, <3>1, <5>1 DEF Single
      <4>. QED BY <4>1, <4>2
    <3>. QED BY <2>2, <3>1 DEF Single
  <2>13. Later(s, t)
    <3>1. ASSUME NEW n \in DOMAIN s PROVE t[n].kind = s[n].kind /\ t[n].val = s[n].val /\ t[n].done = s[n].done
      <4>1. CASE n = o
        BY <2>4, <4>1
      <4>2. CASE n # o
        BY <2>2, <4>2
      <4>. QED BY <4>1, <4>2
    <3>. QED BY <3>1 DEF Later
  <2>. QED BY <1>2, <2>2, <2>8, <2>11, <2>12, <2>13 DEF Sound
<1>. QED BY <1>3, <1>4

\* Two sequences of operands become the arguments of two links, and what referred to them
\* refers to these instead.
Relinking(H, cs, ns, f, n, K) ==
  /\ K \in [Nat -> Nat]
  /\ \A x \in Nat : K[x] = H[x] - (Occurrences(cs, x) + Occurrences(ns, x)) + Is(f, x) + Is(n, x)

Linked(s, b, cs, ns, u, v, f, n) ==
  /\ f \in Nat /\ n \in Nat /\ f # n /\ f \notin DOMAIN s /\ n \notin DOMAIN s
  /\ DOMAIN b = DOMAIN s \cup {f, n}
  /\ b[f].val = u % P /\ b[n].val = v % P
  /\ b[f].dropped = FALSE /\ b[n].dropped = FALSE /\ b[f].uses = 0 /\ b[n].uses = 0
  /\ \A o \in DOMAIN s :
       /\ b[o].kind = s[o].kind /\ b[o].val = s[o].val
       /\ b[o].done = s[o].done /\ b[o].dropped = s[o].dropped
       /\ IsTerminal(s, o) => b[o].uses = s[o].uses
       /\ ~IsTerminal(s, o) => b[o].uses = s[o].uses + Occurrences(cs, o) + Occurrences(ns, o)

\* s becomes a, and that b, with links f and n.
Linking(s, cs, ns, u, v, a, b, f, n) ==
  a = Link(s, cs, u) /\ b = Link(a, ns, v) /\ f = Fresh(s) /\ n = Fresh(a)

\* They have one reference each.
More(H, f, n) == [x \in Nat |-> H[x] + Is(f, x) + Is(n, x)]

\* Two expressions over operands of their own, one after the other.
LEMMA LinkTwice ==
  ASSUME NEW s, NEW H, Sound(s, H), NEW cs \in Seq(DOMAIN s), NEW ns \in Seq(DOMAIN s),
         NEW u \in Int, NEW v \in Int,
         NEW a, NEW b, NEW f, NEW n, Linking(s, cs, ns, u, v, a, b, f, n)
  PROVE  /\ Store(b) /\ Counted(b, More(H, f, n))
         /\ Linked(s, b, cs, ns, u, v, f, n)
<1>. DEFINE M == [H EXCEPT ![f] = 1]
            Q == [M EXCEPT ![n] = 1]
            N == More(H, f, n)
<1>0. a = Link(s, cs, u) /\ b = Link(a, ns, v) /\ f = Fresh(s) /\ n = Fresh(a)
  BY DEF Linking
<1>1. Store(s) /\ Counted(s, H) /\ H \in [Nat -> Nat] /\ \A x \in Nat \ DOMAIN s : H[x] = 0
  BY DEF Sound, Counted
<1>2. Store(a) /\ Counted(a, M) /\ Extended(s, a, f, "link", cs, u)
  BY <1>0, <1>1, NewSound DEF Link
<1>. HIDE DEF M
<1>3. DOMAIN a = DOMAIN s \cup {f} /\ f \in Nat /\ f \notin DOMAIN s
  BY <1>2 DEF Extended
<1>4. ns \in Seq(DOMAIN a)
  <2>1. ASSUME NEW S, NEW T, S \subseteq T, ns \in Seq(S) PROVE ns \in Seq(T)
    BY <2>1
  <2>. QED BY <1>3, <2>1
<1>5. Store(b) /\ Counted(b, Q) /\ Extended(a, b, n, "link", ns, v)
  BY <1>0, <1>2, <1>4, NewSound DEF Link
<1>6. DOMAIN b = DOMAIN a \cup {n} /\ n \in Nat /\ n \notin DOMAIN a
  BY <1>5 DEF Extended
<1>7. /\ a[f].val = u % P /\ a[f].uses = 0 /\ a[f].done = FALSE /\ a[f].dropped = FALSE /\ a[f].kind = "link"
  BY <1>2 DEF Extended
<1>8. /\ b[n].val = v % P /\ b[n].uses = 0 /\ b[n].dropped = FALSE
  BY <1>5 DEF Extended
<1>9. ASSUME NEW o \in DOMAIN s
      PROVE  /\ a[o].kind = s[o].kind /\ a[o].val = s[o].val
             /\ a[o].done = s[o].done /\ a[o].dropped = s[o].dropped
             /\ IsTerminal(s, o) => a[o].uses = s[o].uses
             /\ ~IsTerminal(s, o) => a[o].uses = s[o].uses + Occurrences(cs, o)
  <2>1. s[o].uses \in Nat
    BY <1>1, StoreIs
  <2>2. a[o].uses = s[o].uses + (IF IsTerminal(s, o) THEN 0 ELSE Occurrences(cs, o))
    BY <1>2 DEF Extended
  <2>3. /\ a[o].kind = s[o].kind /\ a[o].val = s[o].val
        /\ a[o].done = s[o].done /\ a[o].dropped = s[o].dropped
    BY <1>2 DEF Extended
  <2>. QED BY <2>1, <2>2, <2>3
<1>10. ASSUME NEW o \in DOMAIN a
       PROVE  /\ b[o].kind = a[o].kind /\ b[o].val = a[o].val
              /\ b[o].done = a[o].done /\ b[o].dropped = a[o].dropped
              /\ IsTerminal(a, o) => b[o].uses = a[o].uses
              /\ ~IsTerminal(a, o) => b[o].uses = a[o].uses + Occurrences(ns, o)
  <2>1. a[o].uses \in Nat
    BY <1>2, StoreIs
  <2>2. b[o].uses = a[o].uses + (IF IsTerminal(a, o) THEN 0 ELSE Occurrences(ns, o))
    BY <1>5 DEF Extended
  <2>3. /\ b[o].kind = a[o].kind /\ b[o].val = a[o].val
        /\ b[o].done = a[o].done /\ b[o].dropped = a[o].dropped
    BY <1>5 DEF Extended
  <2>. QED BY <2>1, <2>2, <2>3
<1>11. Occurrences(ns, f) = 0
  <2>1. \A k \in 1 .. Len(ns) : ns[k] # f
    BY <1>3, ElementOfSeq
  <2>. QED BY <2>1, OccurrencesSum
<1>12. b[f].val = u % P /\ b[f].uses = 0 /\ b[f].dropped = FALSE
  <2>1. f \in DOMAIN a /\ ~IsTerminal(a, f)
    BY <1>3, <1>7 DEF IsTerminal
  <2>2. b[f].uses = a[f].uses + Occurrences(ns, f) /\ b[f].val = a[f].val /\ b[f].dropped = a[f].dropped
    BY <1>10, <2>1
  <2>3. b[f].uses = 0
    BY <1>7, <1>11, <2>2
  <2>. QED BY <1>7, <2>2, <2>3
<1>13. N = Q
  <2>1. M \in [Nat -> Nat] /\ \A x \in Nat : M[x] = IF x = f THEN 1 ELSE H[x]
    BY <1>1, <1>3 DEF M
  <2>2. Q \in [Nat -> Nat] /\ \A x \in Nat : Q[x] = IF x = n THEN 1 ELSE M[x]
    BY <1>6, <2>1
  <2>3. ASSUME NEW x \in Nat PROVE N[x] = Q[x]
    <3>1. N[x] = H[x] + Is(f, x) + Is(n, x) /\ H[x] \in Nat
      BY <1>1 DEF More
    <3>2. CASE x = f
      <4>1. H[x] = 0 /\ Is(f, x) = 1 /\ Is(n, x) = 0
        BY <1>1, <1>3, <1>6, <3>2 DEF Is
      <4>2. Q[x] = 1
        BY <1>3, <1>6, <2>1, <2>2, <3>2
      <4>. QED BY <3>1, <4>1, <4>2
    <3>3. CASE x = n
      <4>1. H[x] = 0 /\ Is(f, x) = 0 /\ Is(n, x) = 1
        BY <1>1, <1>3, <1>6, <3>3 DEF Is
      <4>2. Q[x] = 1
        BY <2>2, <3>3
      <4>. QED BY <3>1, <4>1, <4>2
    <3>4. CASE x # f /\ x # n
      <4>1. Is(f, x) = 0 /\ Is(n, x) = 0
        BY <3>4 DEF Is
      <4>2. Q[x] = H[x]
        BY <2>1, <2>2, <3>4
      <4>. QED BY <3>1, <4>1, <4>2
    <3>. QED BY <3>2, <3>3, <3>4
  <2>4. N = [x \in Nat |-> N[x]] /\ Q = [x \in Nat |-> Q[x]]
    BY <2>2 DEF More
  <2>. HIDE DEF Q
  <2>. HIDE DEF N
  <2>. QED BY <2>3, <2>4
<1>. HIDE DEF Q, N
<1>14. ASSUME NEW o \in DOMAIN s
       PROVE  /\ b[o].kind = s[o].kind /\ b[o].val = s[o].val
              /\ b[o].done = s[o].done /\ b[o].dropped = s[o].dropped
              /\ IsTerminal(s, o) => b[o].uses = s[o].uses
              /\ ~IsTerminal(s, o) => b[o].uses = s[o].uses + Occurrences(cs, o) + Occurrences(ns, o)
  <2>1. o \in DOMAIN a /\ (IsTerminal(a, o) <=> IsTerminal(s, o))
    BY <1>3, <1>9 DEF IsTerminal
  <2>. QED BY <1>9, <1>10, <2>1
<1>15. Linked(s, b, cs, ns, u, v, f, n)
  BY <1>3, <1>6, <1>8, <1>12, <1>14 DEF Linked
<1>. QED BY <1>5, <1>13, <1>15 DEF N

\* An expression over operands replaces the references on these.
LEMMA RelinkSound ==
  ASSUME NEW s, NEW H, Sound(s, H), NEW cs \in Seq(DOMAIN s), NEW ns \in Seq(DOMAIN s),
         NEW u \in Int, NEW v \in Int,
         NEW a, NEW b, NEW f, NEW n, Linking(s, cs, ns, u, v, a, b, f, n),
         NEW K, Relinking(H, cs, ns, f, n, K),
         NEW t, t = Release(b, [x \in DOMAIN b |-> Occurrences(cs, x) + Occurrences(ns, x)])
  PROVE  /\ Sound(t, K)
         /\ f \in Nat /\ n \in Nat /\ f # n /\ f \notin DOMAIN s /\ n \notin DOMAIN s
         /\ f \in DOMAIN t /\ n \in DOMAIN t /\ DOMAIN t \subseteq DOMAIN s \cup {f, n}
         /\ t[f].val = u % P /\ t[n].val = v % P
         /\ Later(s, t)
<1>. DEFINE N == More(H, f, n)
            back == [x \in DOMAIN b |-> Occurrences(cs, x) + Occurrences(ns, x)]
            uu == u % P
            vv == v % P
<1>1. Store(s) /\ Counted(s, H) /\ Single(s, H) /\ H \in [Nat -> Nat] /\ \A x \in Nat \ DOMAIN s : H[x] = 0
  BY DEF Sound, Counted
<1>2. /\ Store(b) /\ Counted(b, N)
      /\ f \in Nat /\ n \in Nat /\ f # n /\ f \notin DOMAIN s /\ n \notin DOMAIN s
      /\ DOMAIN b = DOMAIN s \cup {f, n}
      /\ b[f].val = uu /\ b[n].val = vv
      /\ b[f].dropped = FALSE /\ b[n].dropped = FALSE /\ b[f].uses = 0 /\ b[n].uses = 0
      /\ \A o \in DOMAIN s :
           /\ b[o].kind = s[o].kind /\ b[o].val = s[o].val
           /\ b[o].done = s[o].done /\ b[o].dropped = s[o].dropped
           /\ IsTerminal(s, o) => b[o].uses = s[o].uses
           /\ ~IsTerminal(s, o) => b[o].uses = s[o].uses + Occurrences(cs, o) + Occurrences(ns, o)
  <2>1. Store(b) /\ Counted(b, N) /\ Linked(s, b, cs, ns, u, v, f, n)
    BY LinkTwice
  <2>. QED BY <2>1 DEF Linked
<1>. HIDE DEF uu, vv
<1>3. ASSUME NEW x PROVE Occurrences(cs, x) \in Nat /\ Occurrences(ns, x) \in Nat
  BY OccurrencesSum
<1>4. ASSUME NEW x, x \notin DOMAIN s PROVE Occurrences(cs, x) = 0 /\ Occurrences(ns, x) = 0
  <2>1. (\A k \in 1 .. Len(cs) : cs[k] # x) /\ \A k \in 1 .. Len(ns) : ns[k] # x
    BY <1>4, ElementOfSeq
  <2>. QED BY <2>1, OccurrencesSum
<1>5. /\ K \in [Nat -> Nat]
      /\ \A x \in Nat : K[x] = H[x] - (Occurrences(cs, x) + Occurrences(ns, x)) + Is(f, x) + Is(n, x)
  BY DEF Relinking
<1>6. \A x : Is(f, x) \in Nat /\ Is(n, x) \in Nat
  BY DEF Is
<1>7. ASSUME NEW x \in DOMAIN b PROVE N[x] = K[x] + back[x] /\ back[x] \in Nat
  <2>1. x \in Nat
    BY <1>2 DEF Store
  <2>2. /\ N[x] = H[x] + Is(f, x) + Is(n, x)
        /\ K[x] = H[x] - (Occurrences(cs, x) + Occurrences(ns, x)) + Is(f, x) + Is(n, x)
        /\ back[x] = Occurrences(cs, x) + Occurrences(ns, x)
    BY <1>5, <2>1 DEF More
  <2>3. H[x] \in Nat /\ Is(f, x) \in Nat /\ Is(n, x) \in Nat /\ Occurrences(cs, x) \in Nat /\ Occurrences(ns, x) \in Nat
    BY <1>1, <1>3, <1>6, <2>1
  <2>. HIDE DEF N, back
  <2>. QED BY <2>2, <2>3
<1>8. ASSUME NEW x \in Nat \ DOMAIN b PROVE K[x] = 0
  <2>1. x \notin DOMAIN s /\ x # f /\ x # n
    BY <1>2
  <2>2. Occurrences(cs, x) = 0 /\ Occurrences(ns, x) = 0 /\ H[x] = 0
    BY <1>1, <1>4, <2>1
  <2>3. Is(f, x) = 0 /\ Is(n, x) = 0
    BY <2>1 DEF Is
  <2>4. K[x] = H[x] - (Occurrences(cs, x) + Occurrences(ns, x)) + Is(f, x) + Is(n, x)
    BY <1>5
  <2>5. K[x] = 0 - (0 + 0) + 0 + 0
    BY <2>2, <2>3, <2>4
  <2>. QED BY <2>5
<1>9. back \in [DOMAIN b -> Nat]
  BY <1>7
<1>. HIDE DEF back, N
<1>10. Returned(b, N, back, K)
  BY <1>5, <1>7, <1>8, <1>9 DEF Returned
<1>11. t = Release(b, back)
  BY DEF back
<1>12. /\ Store(t) /\ Counted(t, K) /\ DOMAIN t \subseteq DOMAIN b
       /\ \A o \in DOMAIN t : Same(b, t, o)
  <2>1. Store(b) /\ Counted(b, N)
    BY <1>2
  <2>. QED BY <1>10, <1>11, <2>1, ReleaseSound
<1>13. K[f] = 1 /\ K[n] = 1
  <2>1. Is(f, f) = 1 /\ Is(n, n) = 1 /\ Is(f, n) = 0 /\ Is(n, f) = 0
    BY <1>2 DEF Is
  <2>2. H[f] = 0 /\ H[n] = 0 /\ Occurrences(cs, f) = 0 /\ Occurrences(ns, f) = 0 /\ Occurrences(cs, n) = 0 /\ Occurrences(ns, n) = 0
    BY <1>1, <1>2, <1>4
  <2>3. /\ K[f] = H[f] - (Occurrences(cs, f) + Occurrences(ns, f)) + Is(f, f) + Is(n, f)
        /\ K[n] = H[n] - (Occurrences(cs, n) + Occurrences(ns, n)) + Is(f, n) + Is(n, n)
    BY <1>2, <1>5
  <2>4. K[f] = 0 - (0 + 0) + 1 + 0 /\ K[n] = 0 - (0 + 0) + 0 + 1
    BY <2>1, <2>2, <2>3
  <2>. QED BY <2>4
<1>14. f \in DOMAIN t /\ n \in DOMAIN t
  <2>1. \A x \in Nat \ DOMAIN t : K[x] = 0
    BY <1>12 DEF Counted
  <2>2. f \in Nat /\ n \in Nat /\ K[f] # 0 /\ K[n] # 0
    BY <1>2, <1>13
  <2>. QED BY <2>1, <2>2
<1>15. Later(s, t)
  <2>1. ASSUME NEW o \in DOMAIN s \cap DOMAIN t
        PROVE  t[o].kind = s[o].kind /\ t[o].val = s[o].val /\ t[o].done = s[o].done
    <3>1. Same(b, t, o)
      BY <1>12
    <3>2. b[o].kind = s[o].kind /\ b[o].val = s[o].val /\ b[o].done = s[o].done
      BY <1>2
    <3>. QED BY <3>1, <3>2 DEF Same
  <2>. QED BY <2>1 DEF Later
<1>16. ASSUME NEW o \in DOMAIN s \cap DOMAIN t, ~t[o].done PROVE t[o].uses + K[o] + Drop(t, o) <= 1
  <2>1. Same(b, t, o) /\ o # f /\ o # n /\ o \in Nat
    BY <1>1, <1>2, <1>12 DEF Store
  <2>2. s[o].done = t[o].done /\ s[o].dropped = t[o].dropped /\ t[o].uses = b[o].uses
    BY <1>2, <2>1 DEF Same
  <2>3. s[o].uses + H[o] + Drop(s, o) <= 1
    BY <1>1, <1>16, <2>2 DEF Single
  <2>4. Drop(t, o) = Drop(s, o)
    BY <2>2 DEF Drop
  <2>5. s[o].uses \in Nat /\ Drop(s, o) \in Nat /\ H[o] \in Nat
    BY <1>1, <2>1, StoreIs
  <2>6. K[o] = H[o] - (Occurrences(cs, o) + Occurrences(ns, o))
    <3>1. Is(f, o) = 0 /\ Is(n, o) = 0
      BY <2>1 DEF Is
    <3>2. K[o] = H[o] - (Occurrences(cs, o) + Occurrences(ns, o)) + 0 + 0
      BY <1>5, <2>1, <3>1
    <3>3. Occurrences(cs, o) \in Nat /\ Occurrences(ns, o) \in Nat
      BY <1>3
    <3>. QED BY <2>5, <3>2, <3>3
  <2>7. Occurrences(cs, o) \in Nat /\ Occurrences(ns, o) \in Nat
    BY <1>3
  <2>8. CASE IsTerminal(s, o)
    <3>1. t[o].uses = s[o].uses
      BY <1>2, <2>2, <2>8
    <3>. QED BY <2>3, <2>4, <2>5, <2>6, <2>7, <3>1
  <2>9. CASE ~IsTerminal(s, o)
    <3>1. t[o].uses = s[o].uses + Occurrences(cs, o) + Occurrences(ns, o)
      BY <1>2, <2>2, <2>9
    <3>. QED BY <2>3, <2>4, <2>5, <2>6, <2>7, <3>1
  <2>. QED BY <2>8, <2>9
<1>17. ASSUME NEW o \in {f, n} PROVE t[o].uses + K[o] + Drop(t, o) <= 1
  <2>1. Same(b, t, o) /\ b[o].uses = 0 /\ b[o].dropped = FALSE /\ K[o] = 1
    BY <1>2, <1>12, <1>13, <1>14
  <2>2. t[o].uses = 0 /\ Drop(t, o) = 0
    BY <2>1 DEF Same, Drop
  <2>. QED BY <2>1, <2>2
<1>18. Single(t, K)
  BY <1>2, <1>12, <1>16, <1>17 DEF Single
<1>19. t[f].val = uu /\ t[n].val = vv
  BY <1>2, <1>12, <1>14 DEF Same
<1>. QED BY <1>2, <1>12, <1>14, <1>15, <1>18, <1>19 DEF Sound, uu, vv

LEMMA PivotsFinite == IsFiniteSet(Pivot)
  BY PivotAssumption, FS_Subset

LEMMA EdgeIs ==
  ASSUME NEW edges \in Seq(Edges), NEW k \in 1 .. Len(edges)
  PROVE  /\ k \in DOMAIN edges /\ edges[k] \in Edges
         /\ edges[k].head \in Integral /\ edges[k].coefficient \in Nat /\ edges[k].numeric \in Nat
<1>1. edges[k] \in Edges /\ DOMAIN edges = 1 .. Len(edges)
  BY ElementOfSeq, LenProperties
<1>. QED BY <1>1 DEF Edges

LEMMA TouchesIs ==
  ASSUME NEW e, NEW o
  PROVE  /\ Touches(e, o) \in Nat
         /\ o \in Ends(e) <=> Touches(e, o) >= 1
BY DEF Touches, Is, Ends

\* What others have on operands comprises what edges have.
LEMMA OutsideIs ==
  ASSUME NEW r \in [Pivot -> Seq(Edges)], NEW L \in [Nat -> Nat]
  PROVE  /\ Outside(r, L) \in [Nat -> Nat]
         /\ \A o \in Nat : Outside(r, L)[o] >= L[o]
         /\ \A o \in Nat : \A i \in Pivot : L[o] + EdgeUses(r[i], o) <= Outside(r, L)[o]
<1>. DEFINE f(o) == [i \in Pivot |-> EdgeUses(r[i], o)]
<1>1. ASSUME NEW o \in Nat
      PROVE  /\ SumOf(f(o), Pivot) \in Nat
             /\ \A i \in Pivot : EdgeUses(r[i], o) <= SumOf(f(o), Pivot)
             /\ \A i \in Pivot : EdgeUses(r[i], o) \in Nat
             /\ Outside(r, L)[o] = SumOf(f(o), Pivot) + L[o]
  <2>. DEFINE g == f(o)
  <2>1. \A i \in Pivot : g[i] \in Nat /\ g[i] = EdgeUses(r[i], o)
    BY EdgeUsesSum
  <2>2. Outside(r, L)[o] = SumOf(g, Pivot) + L[o]
    BY DEF Outside
  <2>. HIDE DEF g
  <2>3. SumOf(g, Pivot) \in Nat /\ \A i \in Pivot : g[i] <= SumOf(g, Pivot)
    BY <2>1, PivotsFinite, SumNat
  <2>4. \A i \in Pivot : EdgeUses(r[i], o) \in Nat /\ EdgeUses(r[i], o) <= SumOf(g, Pivot)
    BY <2>1, <2>3
  <2>. QED BY <2>2, <2>3, <2>4 DEF g
<1>. HIDE DEF f
<1>2. ASSUME NEW o \in Nat
      PROVE  /\ Outside(r, L)[o] \in Nat /\ Outside(r, L)[o] >= L[o]
             /\ \A i \in Pivot : L[o] + EdgeUses(r[i], o) <= Outside(r, L)[o]
  <2>1. SumOf(f(o), Pivot) \in Nat /\ L[o] \in Nat /\ Outside(r, L)[o] = SumOf(f(o), Pivot) + L[o]
    BY <1>1
  <2>2. ASSUME NEW i \in Pivot PROVE L[o] + EdgeUses(r[i], o) <= Outside(r, L)[o]
    <3>1. EdgeUses(r[i], o) \in Nat /\ EdgeUses(r[i], o) <= SumOf(f(o), Pivot)
      BY <1>1
    <3>. QED BY <2>1, <3>1
  <2>3. Outside(r, L)[o] \in Nat /\ Outside(r, L)[o] >= L[o]
    BY <2>1, SMTT(30)
  <2>. QED BY <2>2, <2>3
<1>3. Outside(r, L) = [o \in Nat |-> Outside(r, L)[o]]
  BY DEF Outside
<1>. QED BY <1>2, <1>3

Shifted(f, h, Q, c) ==
  /\ IsFiniteSet(Q) /\ c \in Q /\ \A e \in Q : f[e] \in Int /\ h[e] \in Int
  /\ \A e \in Q \ {c} : h[e] = f[e]

LEMMA SumShift ==
  ASSUME NEW f, NEW h, NEW Q, NEW c, Shifted(f, h, Q, c)
  PROVE  SumOf(h, Q) = SumOf(f, Q) - f[c] + h[c] /\ SumOf(f, Q) \in Int /\ SumOf(h, Q) \in Int
<1>1. SumOf(h, Q) = SumOf(f, Q) - f[c] + h[c]
  BY SumChange DEF Shifted
<1>2. SumOf(f, Q) \in Int /\ SumOf(h, Q) \in Int
  BY SumType DEF Shifted
<1>. QED BY <1>1, <1>2

\* The edges of one pivot change.
RowChanged(r, L, M, i, es, o) ==
  /\ Outside([r EXCEPT ![i] = es], M)[o] = Outside(r, L)[o] - EdgeUses(r[i], o) + EdgeUses(es, o) - L[o] + M[o]
  /\ EdgeUses(r[i], o) \in Nat /\ EdgeUses(es, o) \in Nat

\* What a change of one row makes of the references of all edges.
LEMMA OutsideChange ==
  ASSUME NEW r \in [Pivot -> Seq(Edges)], NEW L \in [Nat -> Nat], NEW M \in [Nat -> Nat],
         NEW i \in Pivot, NEW es \in Seq(Edges), NEW o \in Nat
  PROVE  RowChanged(r, L, M, i, es, o)
<1>. DEFINE q == [r EXCEPT ![i] = es]
            f == [n \in Pivot |-> EdgeUses(r[n], o)]
            h == [n \in Pivot |-> EdgeUses(q[n], o)]
<1>1. q \in [Pivot -> Seq(Edges)] /\ q[i] = es /\ \A n \in Pivot \ {i} : q[n] = r[n]
  OBVIOUS
<1>. HIDE DEF q
<1>2. /\ \A n \in Pivot : f[n] \in Int /\ h[n] \in Int
      /\ f[i] = EdgeUses(r[i], o) /\ h[i] = EdgeUses(es, o)
      /\ \A n \in Pivot \ {i} : h[n] = f[n]
  <2>1. \A n \in Pivot : EdgeUses(r[n], o) \in Int /\ EdgeUses(q[n], o) \in Int
    <3>1. ASSUME NEW n \in Pivot PROVE EdgeUses(r[n], o) \in Int /\ EdgeUses(q[n], o) \in Int
      <4>1. r[n] \in Seq(Edges) /\ q[n] \in Seq(Edges)
        BY <1>1
      <4>2. EdgeUses(r[n], o) \in Nat /\ EdgeUses(q[n], o) \in Nat
        BY <4>1, EdgeUsesSum
      <4>. QED BY <4>2
    <3>. QED BY <3>1
  <2>. QED BY <1>1, <2>1
<1>3. Outside(r, L)[o] = SumOf(f, Pivot) + L[o] /\ Outside(q, M)[o] = SumOf(h, Pivot) + M[o]
  BY DEF Outside
<1>4. EdgeUses(r[i], o) \in Nat /\ EdgeUses(es, o) \in Nat
  BY EdgeUsesSum
<1>. HIDE DEF f, h
<1>5. L[o] \in Nat /\ M[o] \in Nat
  BY Zenon
<1>6. \A u : u \in Nat => u \in Int
  OBVIOUS
<1>7. L[o] \in Int /\ M[o] \in Int
  BY <1>5, <1>6, Zenon
<1>9. SumOf(h, Pivot) + M[o] = (SumOf(f, Pivot) + L[o]) - f[i] + h[i] - L[o] + M[o]
  <2>1. Shifted(f, h, Pivot, i)
    BY <1>2, PivotsFinite DEF Shifted
  <2>2. SumOf(h, Pivot) = SumOf(f, Pivot) - f[i] + h[i] /\ SumOf(f, Pivot) \in Int
    BY <2>1, SumShift
  <2>3. \A a, b, c, d, u, v \in Int : v = u - c + d => v + b = (u + a) - c + d - a + b
    OBVIOUS
  <2>4. f[i] \in Int /\ h[i] \in Int /\ SumOf(h, Pivot) \in Int
    BY <1>2, <2>1, SumShift
  <2>. DEFINE a == L[o]
              b == M[o]
              c == f[i]
              d == h[i]
              u == SumOf(f, Pivot)
              v == SumOf(h, Pivot)
  <2>5. a \in Int /\ b \in Int /\ c \in Int /\ d \in Int /\ u \in Int /\ v \in Int /\ v = u - c + d
    BY <1>7, <2>2, <2>4
  <2>. HIDE DEF a, b, c, d, u, v
  <2>6. v + b = (u + a) - c + d - a + b
    BY <2>5
  <2>. QED BY <2>6 DEF a, b, c, d, u, v
<1>. QED BY <1>1, <1>2, <1>3, <1>4, <1>9 DEF q, RowChanged

\* What edges refer to is there, and so is what else is referred to.
LEMMA WholeIs ==
  ASSUME NEW g, NEW L, Whole(g, L)
  PROVE  /\ Store(g.op) /\ Counted(g.op, Outside(g.refs, L)) /\ g.refs \in [Pivot -> Seq(Edges)]
         /\ L \in [Nat -> Nat] /\ Outside(g.refs, L) \in [Nat -> Nat]
         /\ One \in DOMAIN g.op /\ g.op[One].done /\ \A o \in Nat : L[o] >= 1 => o \in DOMAIN g.op
<1>1. /\ Store(g.op) /\ Counted(g.op, Outside(g.refs, L)) /\ g.refs \in [Pivot -> Seq(Edges)]
      /\ L \in [Nat -> Nat] /\ L[One] >= 1 /\ g.op[One].done
  BY DEF Whole, Sound
<1>. DEFINE H == Outside(g.refs, L)
<1>2. /\ H \in [Nat -> Nat] /\ \A o \in Nat : H[o] >= L[o]
      /\ \A o \in Nat : \A i \in Pivot : L[o] + EdgeUses(g.refs[i], o) <= H[o]
  BY <1>1, OutsideIs
<1>3. \A o \in Nat : H[o] >= 1 => o \in DOMAIN g.op
  <2>1. \A o \in Nat \ DOMAIN g.op : H[o] = 0
    BY <1>1 DEF Counted
  <2>. HIDE DEF H
  <2>. QED BY <2>1
<1>. HIDE DEF H
<1>6. \A o \in Nat : L[o] >= 1 => o \in DOMAIN g.op
  <2>1. ASSUME NEW o \in Nat, L[o] >= 1 PROVE o \in DOMAIN g.op
    <3>1. L[o] \in Nat /\ H[o] \in Nat /\ H[o] >= L[o]
      BY <1>1, <1>2
    <3>. QED BY <1>3, <2>1, <3>1
  <2>. QED BY <2>1
<1>7. One \in DOMAIN g.op
  BY <1>1, <1>6 DEF One
<1>. QED BY <1>1, <1>2, <1>6, <1>7 DEF H

\* What an edge refers to is there, and its numeric stands for its coefficient.
FineEdge(g, i, k) ==
  /\ g.refs[i][k] \in Edges /\ Ends(g.refs[i][k]) \subseteq DOMAIN g.op
  /\ g.refs[i][k].coefficient \in DOMAIN g.op /\ g.refs[i][k].numeric \in DOMAIN g.op
  /\ g.op[g.refs[i][k].coefficient].val = g.op[g.refs[i][k].numeric].val
  /\ One \in Ends(g.refs[i][k]) => g.refs[i][k].head = i

\* What is known about one edge of a whole graph.
LEMMA WholeEdge ==
  ASSUME NEW g, NEW L, Whole(g, L), NEW i \in Pivot, NEW k \in 1 .. Len(g.refs[i])
  PROVE  FineEdge(g, i, k)
<1>. DEFINE H == Outside(g.refs, L)
            e == g.refs[i][k]
<1>1. /\ g.refs \in [Pivot -> Seq(Edges)] /\ L \in [Nat -> Nat] /\ H \in [Nat -> Nat]
      /\ Counted(g.op, H)
  BY WholeIs
<1>2. \A o \in Nat : L[o] + EdgeUses(g.refs[i], o) <= H[o]
  BY <1>1, OutsideIs
<1>3. \A o \in Nat \ DOMAIN g.op : H[o] = 0
  BY <1>1 DEF Counted
<1>4. g.refs[i] \in Seq(Edges)
  BY <1>1
<1>5. k \in DOMAIN g.refs[i] /\ e \in Edges /\ Ends(e) \subseteq Nat
  BY <1>4, EdgeIs DEF Ends
<1>. HIDE DEF H
<1>6. ASSUME NEW o \in Ends(e) PROVE o \in DOMAIN g.op
  <2>1. o \in Nat /\ Touches(e, o) >= 1 /\ Touches(e, o) \in Nat
    BY <1>5, TouchesIs
  <2>2. Touches(e, o) <= EdgeUses(g.refs[i], o) /\ EdgeUses(g.refs[i], o) \in Nat
    BY <1>4, EdgeUsesSum
  <2>3. L[o] \in Nat /\ H[o] \in Nat /\ L[o] + EdgeUses(g.refs[i], o) <= H[o]
    BY <1>1, <1>2, <2>1
  <2>4. \A a, b, c, d \in Nat : a >= 1 /\ a <= b /\ c + b <= d => d # 0
    OBVIOUS
  <2>5. H[o] # 0
    BY <2>1, <2>2, <2>3, <2>4, Zenon
  <2>. QED BY <1>3, <2>1, <2>5
<1>7. Agree(g) /\ Apart(g.refs)
  BY DEF Whole
<1>. QED BY <1>5, <1>6, <1>7 DEF Agree, Apart, Ends, FineEdge

\* An edge of i with operands that are new, or One, or from the edges that i had, ...
Fitting(g, i, e, t) ==
  /\ t[e.coefficient].val = t[e.numeric].val
  /\ One \in Ends(e) => e.head = i
  /\ \A o \in Ends(e) : o \in DOMAIN g.op /\ o # One => \E m \in 1 .. Len(g.refs[i]) : o \in Ends(g.refs[i][m])

\* ... and edges for i, of which some are the ones it had.
Fits(g, i, es, t) ==
  \A k \in 1 .. Len(es) :
    /\ (\E m \in 1 .. Len(g.refs[i]) : es[k] = g.refs[i][m]) \/ Fitting(g, i, es[k], t)
    /\ \A m \in 1 .. Len(es) : m # k => Ends(es[k]) \cap Ends(es[m]) \subseteq {One}

\* The edges of a pivot and the operands change, the other edges keep theirs.
LEMMA WholeChange ==
  ASSUME NEW g, NEW L, Whole(g, L), NEW i \in Pivot, NEW es \in Seq(Edges),
         NEW t, NEW M \in [Nat -> Nat], M[One] >= 1,
         Sound(t, Outside([g.refs EXCEPT ![i] = es], M)), Later(g.op, t),
         Fits(g, i, es, t)
  PROVE  Whole([refs |-> [g.refs EXCEPT ![i] = es], op |-> t], M)
<1>. DEFINE r == g.refs
            q == [r EXCEPT ![i] = es]
            h == [refs |-> q, op |-> t]
<1>1. /\ Store(g.op) /\ r \in [Pivot -> Seq(Edges)]
      /\ \A n \in Pivot : \A k \in 1 .. Len(r[n]) :
           /\ r[n][k] \in Edges /\ Ends(r[n][k]) \subseteq DOMAIN g.op
           /\ g.op[r[n][k].coefficient].val = g.op[r[n][k].numeric].val
           /\ One \in Ends(r[n][k]) => r[n][k].head = n
      /\ One \in DOMAIN g.op /\ g.op[One].done
  <2>1. Store(g.op) /\ r \in [Pivot -> Seq(Edges)] /\ One \in DOMAIN g.op /\ g.op[One].done
    BY WholeIs
  <2>2. ASSUME NEW n \in Pivot, NEW k \in 1 .. Len(r[n])
        PROVE  /\ r[n][k] \in Edges /\ Ends(r[n][k]) \subseteq DOMAIN g.op
               /\ g.op[r[n][k].coefficient].val = g.op[r[n][k].numeric].val
               /\ One \in Ends(r[n][k]) => r[n][k].head = n
    <3>1. FineEdge(g, n, k)
      BY WholeEdge
    <3>. QED BY <3>1 DEF FineEdge
  <2>. QED BY <2>1, <2>2
<1>2. /\ q \in [Pivot -> Seq(Edges)] /\ q[i] = es /\ \A n \in Pivot \ {i} : q[n] = r[n]
  BY <1>1
<1>3. h.refs = q /\ h.op = t /\ h = [refs |-> h.refs, op |-> h.op]
  OBVIOUS
<1>. HIDE DEF q
<1>4. Sound(t, Outside(q, M))
  BY DEF q
<1>5. \A o \in Nat : Outside(q, M)[o] >= M[o] /\ Outside(q, M)[o] \in Nat
  BY <1>2, OutsideIs
<1>6. /\ \A o \in Nat : Outside(q, M)[o] >= 1 => o \in DOMAIN t
  BY <1>4, <1>5 DEF Sound, Counted
<1>7. One \in DOMAIN t
  <2>1. One \in Nat
    BY DEF One
  <2>2. M[One] \in Nat /\ Outside(q, M)[One] \in Nat /\ Outside(q, M)[One] >= M[One]
    BY <1>5, <2>1
  <2>3. Outside(q, M)[One] >= 1
    BY <2>2
  <2>. QED BY <1>6, <2>1, <2>3
<1>8. t[One].done
  BY <1>1, <1>7 DEF Later
<1>9. ASSUME NEW n \in Pivot, NEW k \in 1 .. Len(q[n])
      PROVE  q[n][k] \in Edges /\ \A o \in Ends(q[n][k]) : o \in DOMAIN t
  <2>1. q[n] \in Seq(Edges)
    BY <1>2
  <2>2. q[n][k] \in Edges /\ Ends(q[n][k]) \subseteq Nat
    BY <2>1, EdgeIs DEF Ends
  <2>3. ASSUME NEW o \in Ends(q[n][k]) PROVE o \in DOMAIN t
    <3>1. o \in Nat /\ Touches(q[n][k], o) >= 1 /\ Touches(q[n][k], o) \in Nat
      BY <2>2, TouchesIs
    <3>2. Touches(q[n][k], o) <= EdgeUses(q[n], o) /\ EdgeUses(q[n], o) \in Nat
      BY <2>1, EdgeUsesSum
    <3>3. M[o] \in Nat /\ Outside(q, M)[o] \in Nat /\ M[o] + EdgeUses(q[n], o) <= Outside(q, M)[o]
      BY <1>2, <1>5, <3>1, OutsideIs
    <3>4. Outside(q, M)[o] >= 1
      <4>1. \A a, b, c, d \in Nat : a >= 1 /\ a <= b /\ c + b <= d => d >= 1
        OBVIOUS
      <4>. QED BY <3>1, <3>2, <3>3, <4>1, Zenon
    <3>. QED BY <1>6, <3>1, <3>4
  <2>. QED BY <2>2, <2>3
<1>9a. ASSUME NEW n \in Pivot, NEW k \in 1 .. Len(q[n]), NEW m \in 1 .. Len(r[n]), q[n][k] = r[n][m]
       PROVE  t[q[n][k].coefficient].val = t[q[n][k].numeric].val
  <2>1. q[n][k].coefficient \in Ends(q[n][k]) /\ q[n][k].numeric \in Ends(q[n][k])
    BY DEF Ends
  <2>2. q[n][k].coefficient \in DOMAIN t /\ q[n][k].numeric \in DOMAIN t
    BY <1>9, <2>1
  <2>3. /\ Ends(r[n][m]) \subseteq DOMAIN g.op
        /\ g.op[r[n][m].coefficient].val = g.op[r[n][m].numeric].val
    BY <1>1
  <2>4. /\ q[n][k].coefficient \in DOMAIN g.op \cap DOMAIN t /\ q[n][k].numeric \in DOMAIN g.op \cap DOMAIN t
        /\ g.op[q[n][k].coefficient].val = g.op[q[n][k].numeric].val
    BY <1>9a, <2>1, <2>2, <2>3
  <2>. QED BY <2>4 DEF Later
<1>10. ASSUME NEW n \in Pivot, NEW k \in 1 .. Len(q[n])
       PROVE  t[q[n][k].coefficient].val = t[q[n][k].numeric].val
  <2>1. CASE n = i
    <3>1. k \in 1 .. Len(es) /\ q[n][k] = es[k]
      BY <1>2, <2>1
    <3>2. (\E m \in 1 .. Len(r[i]) : es[k] = r[i][m]) \/ Fitting(g, i, es[k], t)
      BY <3>1 DEF Fits
    <3>3. CASE Fitting(g, i, es[k], t)
      BY <3>1, <3>3 DEF Fitting
    <3>4. CASE \E m \in 1 .. Len(r[i]) : es[k] = r[i][m]
      <4>1. PICK m \in 1 .. Len(r[i]) : es[k] = r[i][m]
        BY <3>4
      <4>. QED BY <1>9a, <2>1, <3>1, <4>1
    <3>. QED BY <3>2, <3>3, <3>4
  <2>2. CASE n # i
    <3>1. q[n] = r[n]
      BY <1>2, <2>2
    <3>2. k \in 1 .. Len(r[n]) /\ q[n][k] = r[n][k]
      BY <3>1
    <3>. QED BY <1>9a, <3>2
  <2>. QED BY <2>1, <2>2
<1>10a. ASSUME NEW k \in 1 .. Len(es), NEW o \in Ends(es[k]), o \in DOMAIN g.op, o # One
        PROVE  \E m \in 1 .. Len(r[i]) : o \in Ends(r[i][m])
  <2>1. (\E m \in 1 .. Len(r[i]) : es[k] = r[i][m]) \/ Fitting(g, i, es[k], t)
    BY DEF Fits
  <2>2. CASE Fitting(g, i, es[k], t)
    BY <1>10a, <2>2 DEF Fitting
  <2>3. CASE \E m \in 1 .. Len(r[i]) : es[k] = r[i][m]
    BY <1>10a, <2>3
  <2>. QED BY <2>1, <2>2, <2>3
<1>11. \A n \in Pivot : DOMAIN q[n] = 1 .. Len(q[n])
  BY <1>2, LenProperties
<1>12. Agree(h)
  BY <1>3, <1>10, <1>11 DEF Agree
<1>13. ASSUME NEW m \in Pivot, m # i, NEW k \in 1 .. Len(q[i]), NEW j \in 1 .. Len(q[m]),
              NEW o \in Ends(q[i][k]), o \in Ends(q[m][j])
       PROVE  o = One
  <2>1. q[m] = r[m] /\ j \in 1 .. Len(r[m]) /\ o \in Ends(r[m][j]) /\ o \in DOMAIN g.op
    <3>1. q[m] = r[m]
      BY <1>2, <1>13
    <3>2. j \in 1 .. Len(r[m]) /\ o \in Ends(r[m][j])
      BY <1>13, <3>1
    <3>3. Ends(r[m][j]) \subseteq DOMAIN g.op
      BY <1>1, <3>2
    <3>. QED BY <3>1, <3>2, <3>3
  <2>2. ASSUME o # One PROVE FALSE
    <3>1. PICK p \in 1 .. Len(r[i]) : o \in Ends(r[i][p])
      BY <1>2, <1>10a, <2>1, <2>2
    <3>2. p \in DOMAIN r[i] /\ j \in DOMAIN r[m] /\ <<i, p>> # <<m, j>>
      <4>1. r[i] \in Seq(Edges) /\ r[m] \in Seq(Edges)
        BY <1>1
      <4>. QED BY <1>13, <2>1, <4>1, LenProperties
    <3>3. Ends(r[i][p]) \cap Ends(r[m][j]) \subseteq {One}
      BY <3>2 DEF Whole, Apart
    <3>. QED BY <2>1, <2>2, <3>1, <3>3
  <2>. QED BY <2>2
<1>14. ASSUME NEW n \in Pivot, NEW m \in Pivot, NEW k \in 1 .. Len(q[n]), NEW j \in 1 .. Len(q[m]),
              <<n, k>> # <<m, j>>, NEW o \in Ends(q[n][k]), o \in Ends(q[m][j])
       PROVE  o = One
  <2>1. CASE n = i /\ m = i
    <3>1. k # j /\ q[n] = es /\ q[m] = es
      BY <1>2, <1>14, <2>1
    <3>2. Ends(es[k]) \cap Ends(es[j]) \subseteq {One}
      BY <1>2, <2>1, <3>1 DEF Fits
    <3>. QED BY <1>14, <3>1, <3>2
  <2>2. CASE n = i /\ m # i
    BY <1>13, <1>14, <2>2
  <2>3. CASE n # i /\ m = i
    BY <1>13, <1>14, <2>3
  <2>4. CASE n # i /\ m # i
    <3>1. q[n] = r[n] /\ q[m] = r[m] /\ k \in DOMAIN r[n] /\ j \in DOMAIN r[m]
      BY <1>2, <1>11, <2>4
    <3>2. Ends(r[n][k]) \cap Ends(r[m][j]) \subseteq {One}
      BY <1>14, <3>1 DEF Whole, Apart
    <3>. QED BY <1>14, <3>1, <3>2
  <2>. QED BY <2>1, <2>2, <2>3, <2>4
<1>15. ASSUME NEW n \in Pivot, NEW k \in 1 .. Len(q[n]), One \in Ends(q[n][k]) PROVE q[n][k].head = n
  <2>1. CASE n = i
    <3>1. k \in 1 .. Len(es) /\ q[n][k] = es[k]
      BY <1>2, <2>1
    <3>2. (\E m \in 1 .. Len(r[i]) : es[k] = r[i][m]) \/ Fitting(g, i, es[k], t)
      BY <3>1 DEF Fits
    <3>3. CASE Fitting(g, i, es[k], t)
      BY <1>15, <2>1, <3>1, <3>3 DEF Fitting
    <3>4. CASE \E m \in 1 .. Len(r[i]) : es[k] = r[i][m]
      <4>1. PICK m \in 1 .. Len(r[i]) : es[k] = r[i][m]
        BY <3>4
      <4>2. One \in Ends(r[i][m])
        BY <1>15, <3>1, <4>1
      <4>3. r[i][m].head = i
        BY <1>1, <4>2
      <4>. QED BY <2>1, <3>1, <4>1, <4>3
    <3>. QED BY <3>2, <3>3, <3>4
  <2>2. CASE n # i
    <3>1. q[n] = r[n]
      BY <1>2, <2>2
    <3>2. k \in 1 .. Len(r[n]) /\ One \in Ends(r[n][k])
      BY <1>15, <3>1
    <3>. QED BY <1>1, <3>1, <3>2
  <2>. QED BY <2>1, <2>2
<1>16. Apart(q)
  BY <1>11, <1>14, <1>15 DEF Apart
<1>. QED BY <1>2, <1>3, <1>4, <1>8, <1>12, <1>16 DEF Whole, q

\* Only operands change.
LEMMA WholeStore ==
  ASSUME NEW g, NEW L, Whole(g, L), NEW t, NEW M \in [Nat -> Nat], M[One] >= 1,
         Sound(t, Outside(g.refs, M)), Later(g.op, t)
  PROVE  Whole([g EXCEPT !.op = t], M) /\ [g EXCEPT !.op = t] = [refs |-> g.refs, op |-> t]
<1>. DEFINE r == g.refs
            h == [refs |-> r, op |-> t]
<1>1. g = [refs |-> g.refs, op |-> g.op]
  BY DEF Whole
<1>2. [g EXCEPT !.op = t] = h
  BY <1>1
<1>3. /\ r \in [Pivot -> Seq(Edges)] /\ Outside(r, L) \in [Nat -> Nat]
      /\ \A n \in Pivot : \A k \in 1 .. Len(r[n]) :
           /\ r[n][k] \in Edges /\ Ends(r[n][k]) \subseteq DOMAIN g.op
           /\ r[n][k].coefficient \in DOMAIN g.op /\ r[n][k].numeric \in DOMAIN g.op
           /\ g.op[r[n][k].coefficient].val = g.op[r[n][k].numeric].val
      /\ One \in DOMAIN g.op /\ g.op[One].done
  <2>1. r \in [Pivot -> Seq(Edges)] /\ Outside(r, L) \in [Nat -> Nat] /\ One \in DOMAIN g.op /\ g.op[One].done
    BY WholeIs
  <2>2. ASSUME NEW n \in Pivot, NEW k \in 1 .. Len(r[n])
        PROVE  /\ r[n][k] \in Edges /\ Ends(r[n][k]) \subseteq DOMAIN g.op
               /\ r[n][k].coefficient \in DOMAIN g.op /\ r[n][k].numeric \in DOMAIN g.op
               /\ g.op[r[n][k].coefficient].val = g.op[r[n][k].numeric].val
    <3>1. FineEdge(g, n, k)
      BY WholeEdge
    <3>. QED BY <3>1 DEF FineEdge
  <2>. QED BY <2>1, <2>2
<1>4. \A o \in Nat : Outside(r, M)[o] >= M[o] /\ Outside(r, M)[o] \in Nat
  BY <1>3, OutsideIs, ZenonT(40)
<1>5. \A o \in Nat : Outside(r, M)[o] >= 1 => o \in DOMAIN t
  BY <1>4 DEF Sound, Counted
<1>6. One \in DOMAIN t
  <2>1. One \in Nat
    BY DEF One
  <2>2. M[One] \in Nat /\ Outside(r, M)[One] \in Nat /\ Outside(r, M)[One] >= M[One]
    BY <1>4, <2>1
  <2>3. Outside(r, M)[One] >= 1
    BY <2>2
  <2>. QED BY <1>5, <2>1, <2>3
<1>7. t[One].done
  BY <1>3, <1>6 DEF Later
<1>8. ASSUME NEW n \in Pivot, NEW k \in 1 .. Len(r[n])
      PROVE  t[r[n][k].coefficient].val = t[r[n][k].numeric].val
  <2>1. r[n] \in Seq(Edges) /\ r[n][k] \in Edges
    BY <1>3
  <2>2. ASSUME NEW o \in Ends(r[n][k]) PROVE o \in DOMAIN t
    <3>1. o \in Nat /\ Touches(r[n][k], o) >= 1 /\ Touches(r[n][k], o) \in Nat
      BY <2>1, TouchesIs DEF Ends, Edges
    <3>2. Touches(r[n][k], o) <= EdgeUses(r[n], o) /\ EdgeUses(r[n], o) \in Nat
      BY <2>1, EdgeUsesSum
    <3>3. M[o] \in Nat /\ Outside(r, M)[o] \in Nat /\ M[o] + EdgeUses(r[n], o) <= Outside(r, M)[o]
      BY <1>3, <1>4, <3>1, OutsideIs
    <3>4. Outside(r, M)[o] >= 1
      <4>1. \A a, b, c, d \in Nat : a >= 1 /\ a <= b /\ c + b <= d => d >= 1
        OBVIOUS
      <4>. QED BY <3>1, <3>2, <3>3, <4>1, Zenon
    <3>. QED BY <1>5, <3>1, <3>4
  <2>3. r[n][k].coefficient \in DOMAIN t /\ r[n][k].numeric \in DOMAIN t
    BY <2>2 DEF Ends
  <2>4. /\ r[n][k].coefficient \in DOMAIN g.op \cap DOMAIN t /\ r[n][k].numeric \in DOMAIN g.op \cap DOMAIN t
        /\ g.op[r[n][k].coefficient].val = g.op[r[n][k].numeric].val
    BY <1>3, <2>3
  <2>. QED BY <2>4 DEF Later
<1>9. \A n \in Pivot : DOMAIN r[n] = 1 .. Len(r[n])
  BY <1>3, LenProperties
<1>10. Agree(h)
  BY <1>8, <1>9 DEF Agree
<1>11. Apart(r)
  BY DEF Whole
<1>12. h.refs = r /\ h.op = t /\ h = [refs |-> h.refs, op |-> h.op]
  OBVIOUS
<1>. HIDE DEF h
<1>13. Whole(h, M)
  BY <1>3, <1>7, <1>10, <1>11, <1>12 DEF Whole
<1>. QED BY <1>2, <1>13 DEF h

\* What sequences become: seq with e at j, with e at its end, and without what is at j.
IsChanged(new, S, seq, j, e) ==
  /\ new \in Seq(S) /\ Len(new) = Len(seq) /\ new[j] = e
  /\ \A k \in 1 .. Len(new) : k \in 1 .. Len(seq) /\ (k # j => new[k] = seq[k])

LEMMA ChangedIs ==
  ASSUME NEW S, NEW seq \in Seq(S), NEW j \in 1 .. Len(seq), NEW e \in S
  PROVE  IsChanged([seq EXCEPT ![j] = e], S, seq, j, e)
<1>1. DOMAIN seq = 1 .. Len(seq)
  BY LenProperties
<1>2. [seq EXCEPT ![j] = e] \in Seq(S) /\ Len([seq EXCEPT ![j] = e]) = Len(seq)
  BY ExceptSeq
<1>. QED BY <1>1, <1>2 DEF IsChanged

IsAppended(new, S, seq, e) ==
  /\ new \in Seq(S) /\ Len(new) = Len(seq) + 1 /\ Len(seq) \in Nat
  /\ \A k \in 1 .. Len(new) : (k = Len(seq) + 1 /\ new[k] = e) \/ (k \in 1 .. Len(seq) /\ new[k] = seq[k])
  /\ \A k \in 1 .. Len(seq) : k \in 1 .. Len(new) /\ new[k] = seq[k]

LEMMA AppendIs ==
  ASSUME NEW S, NEW seq \in Seq(S), NEW e \in S
  PROVE  IsAppended(Append(seq, e), S, seq, e)
BY AppendProperties, LenProperties DEF IsAppended

IsMoved(new, S, seq, j) ==
  /\ new \in Seq(S) /\ Len(new) = Len(seq) - 1 /\ Len(seq) \in Nat
  /\ \A k \in 1 .. Len(new) : k \in 1 .. Len(seq) /\ k < Len(seq) /\ new[k] = IF k = j THEN seq[Len(seq)] ELSE seq[k]

LEMMA MovedAre ==
  ASSUME NEW S, NEW seq \in Seq(S), NEW j \in 1 .. Len(seq)
  PROVE  IsMoved(Moved(seq, j), S, seq, j)
<1>1. Len(seq) \in Nat
  BY LenProperties
<1>2. /\ Moved(seq, j) \in Seq(S) /\ Len(Moved(seq, j)) = Len(seq) - 1
      /\ \A k \in 1 .. (Len(seq) - 1) : Moved(seq, j)[k] = IF k = j THEN seq[Len(seq)] ELSE seq[k]
  BY MovedIs
<1>. QED BY <1>1, <1>2 DEF IsMoved

LEMMA OwnApart ==
  ASSUME NEW g, NEW L, Whole(g, L), NEW i \in Pivot, NEW k \in 1 .. Len(g.refs[i]),
         NEW m \in 1 .. Len(g.refs[i]), k # m
  PROVE  Ends(g.refs[i][k]) \cap Ends(g.refs[i][m]) \subseteq {One}
<1>1. g.refs \in [Pivot -> Seq(Edges)]
  BY WholeIs
<1>2. DOMAIN g.refs[i] = 1 .. Len(g.refs[i])
  BY <1>1, LenProperties
<1>3. <<i, k>> # <<i, m>>
  OBVIOUS
<1>4. Apart(g.refs)
  BY DEF Whole
<1>. QED BY <1>2, <1>3, <1>4 DEF Apart

\* The edge of i at j becomes e, in the graph and its store t.
Changed(g, i, j, e, t) == [refs |-> [g.refs EXCEPT ![i] = [g.refs[i] EXCEPT ![j] = e]], op |-> t]

\* e has operands that are new, or One, or from the edge at j.
Replacing(g, i, j, e, t) ==
  /\ t[e.coefficient].val = t[e.numeric].val
  /\ One \in Ends(e) => e.head = i
  /\ \A o \in Ends(e) : o \in DOMAIN g.op /\ o # One => o \in Ends(g.refs[i][j])

\* A row that changes into one that fits leaves the graph whole.
LEMMA ChangeSound ==
  ASSUME NEW g, NEW L, Whole(g, L), NEW i \in Pivot, NEW j \in 1 .. Len(g.refs[i]), NEW e \in Edges,
         NEW t, NEW M \in [Nat -> Nat], M[One] >= 1,
         Sound(t, Outside(Changed(g, i, j, e, t).refs, M)), Later(g.op, t), Replacing(g, i, j, e, t)
  PROVE  Whole(Changed(g, i, j, e, t), M)
<1>. DEFINE old == g.refs[i]
            es == [old EXCEPT ![j] = e]
<1>1. old \in Seq(Edges)
  BY WholeIs
<1>2. /\ es \in Seq(Edges) /\ Len(es) = Len(old) /\ es[j] = e
      /\ \A k \in 1 .. Len(es) : k \in 1 .. Len(old) /\ (k # j => es[k] = old[k])
  <2>1. IsChanged(es, Edges, old, j, e)
    BY <1>1, ChangedIs
  <2>. HIDE DEF es, old
  <2>. QED BY <2>1 DEF IsChanged
<1>. HIDE DEF es
<1>3. Fitting(g, i, e, t)
  BY DEF Replacing, Fitting
<1>4. ASSUME NEW k \in 1 .. Len(old), k # j PROVE Ends(old[k]) \cap Ends(e) \subseteq {One}
  <2>1. ASSUME NEW o \in Ends(old[k]), o \in Ends(e), o # One PROVE FALSE
    <3>1. o \in DOMAIN g.op
      BY WholeEdge DEF FineEdge
    <3>2. o \in Ends(old[j])
      BY <2>1, <3>1 DEF Replacing
    <3>3. Ends(old[k]) \cap Ends(old[j]) \subseteq {One}
      BY <1>4, OwnApart
    <3>. QED BY <2>1, <3>2, <3>3
  <2>. QED BY <2>1
<1>5. ASSUME NEW k \in 1 .. Len(es), NEW m \in 1 .. Len(es), m # k
      PROVE  Ends(es[k]) \cap Ends(es[m]) \subseteq {One}
  <2>1. CASE k = j
    <3>1. m \in 1 .. Len(old) /\ m # j /\ es[k] = e /\ es[m] = old[m]
      BY <1>2, <1>5, <2>1
    <3>. QED BY <1>4, <3>1
  <2>2. CASE m = j
    <3>1. k \in 1 .. Len(old) /\ k # j /\ es[m] = e /\ es[k] = old[k]
      BY <1>2, <1>5, <2>2
    <3>. QED BY <1>4, <3>1
  <2>3. CASE k # j /\ m # j
    <3>1. k \in 1 .. Len(old) /\ m \in 1 .. Len(old) /\ es[m] = old[m] /\ es[k] = old[k]
      BY <1>2, <2>3
    <3>. QED BY <1>5, <3>1, OwnApart
  <2>. QED BY <2>1, <2>2, <2>3
<1>6. ASSUME NEW k \in 1 .. Len(es)
      PROVE  (\E m \in 1 .. Len(old) : es[k] = old[m]) \/ Fitting(g, i, es[k], t)
  <2>1. CASE k = j
    BY <1>2, <1>3, <2>1
  <2>2. CASE k # j
    <3>1. k \in 1 .. Len(old) /\ es[k] = old[k]
      BY <1>2, <2>2
    <3>. QED BY <3>1
  <2>. QED BY <2>1, <2>2
<1>7. Fits(g, i, es, t)
  BY <1>5, <1>6 DEF Fits
<1>8. Changed(g, i, j, e, t) = [refs |-> [g.refs EXCEPT ![i] = es], op |-> t]
  BY DEF Changed, es
<1>9. Sound(t, Outside([g.refs EXCEPT ![i] = es], M))
  BY <1>8
<1>10. Whole([refs |-> [g.refs EXCEPT ![i] = es], op |-> t], M)
  BY <1>2, <1>7, <1>9, WholeChange
<1>. QED BY <1>8, <1>10

\* The edge at j goes; what it had is left to others.
Removed(g, i, j) == [refs |-> [g.refs EXCEPT ![i] = Moved(g.refs[i], j)], op |-> g.op]

Inherited(L, e, M) == M \in [Nat -> Nat] /\ \A o \in Nat : M[o] = L[o] + Touches(e, o)

LEMMA SameStore ==
  ASSUME NEW s
  PROVE  Later(s, s)
BY DEF Later

LEMMA SameOutside ==
  ASSUME NEW H \in [Nat -> Nat], NEW K \in [Nat -> Nat], \A o \in Nat : K[o] = H[o]
  PROVE  K = H
OBVIOUS

\* An edge is taken out of the row; its references are left to the caller.
LEMMA RemoveSound ==
  ASSUME NEW g, NEW L, Whole(g, L), NEW i \in Pivot, NEW j \in 1 .. Len(g.refs[i]),
         NEW M, Inherited(L, g.refs[i][j], M)
  PROVE  Whole(Removed(g, i, j), M)
<1>. DEFINE old == g.refs[i]
            es == Moved(old, j)
            q == [g.refs EXCEPT ![i] = es]
            n == Len(old)
<1>1. old \in Seq(Edges) /\ n \in Nat /\ g.refs \in [Pivot -> Seq(Edges)] /\ L \in [Nat -> Nat] /\ M \in [Nat -> Nat]
  <2>1. g.refs \in [Pivot -> Seq(Edges)] /\ L \in [Nat -> Nat] /\ M \in [Nat -> Nat]
    BY WholeIs DEF Inherited
  <2>2. old \in Seq(Edges)
    BY <2>1
  <2>. HIDE DEF old
  <2>3. n \in Nat
    BY <2>2, LenProperties
  <2>. QED BY <2>1, <2>2, <2>3 DEF old
<1>2. /\ es \in Seq(Edges) /\ Len(es) = n - 1
      /\ \A k \in 1 .. (n - 1) : es[k] = IF k = j THEN old[n] ELSE old[k]
  BY <1>1, MovedIs
<1>3. ASSUME NEW o \in Nat PROVE Outside(q, M)[o] = Outside(g.refs, L)[o]
  <2>1. /\ Outside(q, M)[o] = Outside(g.refs, L)[o] - EdgeUses(old, o) + EdgeUses(es, o) - L[o] + M[o]
        /\ EdgeUses(old, o) \in Nat /\ EdgeUses(es, o) \in Nat
    <3>1. RowChanged(g.refs, L, M, i, es, o)
      BY <1>1, <1>2, OutsideChange
    <3>. QED BY <3>1 DEF RowChanged
  <2>2. EdgeUses(es, o) = EdgeUses(old, o) - Touches(old[j], o)
    BY <1>1, EdgeUsesMoved
  <2>3. M[o] = L[o] + Touches(old[j], o)
    BY DEF Inherited
  <2>4. Outside(g.refs, L)[o] \in Nat /\ Touches(old[j], o) \in Nat /\ L[o] \in Nat /\ M[o] \in Nat
    BY <1>1, OutsideIs, TouchesIs, ZenonT(40)
  <2>. HIDE DEF old, es, q
  <2>. QED BY <2>1, <2>2, <2>3, <2>4
<1>. HIDE DEF es
<1>4. q \in [Pivot -> Seq(Edges)]
  BY <1>1, <1>2
<1>5. Outside(q, M) = Outside(g.refs, L)
  <2>1. Outside(q, M) \in [Nat -> Nat] /\ Outside(g.refs, L) \in [Nat -> Nat]
    BY <1>1, <1>4, OutsideIs
  <2>. HIDE DEF q
  <2>. QED BY <1>3, <2>1, SameOutside
<1>6. Sound(g.op, Outside(q, M))
  BY <1>5 DEF Whole
<1>7. ASSUME NEW k \in 1 .. (n - 1)
      PROVE  \E m \in 1 .. n : es[k] = old[m] /\ m = IF k = j THEN n ELSE k
  <2>1. (IF k = j THEN n ELSE k) \in 1 .. n
    <3>1. j \in 1 .. n /\ n \in Nat
      BY <1>1
    <3>. HIDE DEF n
    <3>. QED BY <3>1
  <2>. QED BY <1>2, <2>1
<1>8. Fits(g, i, es, g.op)
  <2>1. ASSUME NEW k \in 1 .. Len(es) PROVE \E m \in 1 .. Len(old) : es[k] = old[m]
    BY <1>2, <1>7
  <2>2. ASSUME NEW k \in 1 .. Len(es), NEW m \in 1 .. Len(es), m # k
        PROVE  Ends(es[k]) \cap Ends(es[m]) \subseteq {One}
    <3>1. PICK kk \in 1 .. n : es[k] = old[kk] /\ kk = IF k = j THEN n ELSE k
      BY <1>2, <1>7
    <3>2. PICK mm \in 1 .. n : es[m] = old[mm] /\ mm = IF m = j THEN n ELSE m
      BY <1>2, <1>7
    <3>3. kk # mm
      <4>1. n \in Nat /\ k \in 1 .. (n - 1) /\ m \in 1 .. (n - 1)
        BY <1>1, <1>2
      <4>. HIDE DEF n
      <4>. QED BY <2>2, <3>1, <3>2, <4>1
    <3>. QED BY <3>1, <3>2, <3>3, OwnApart
  <2>. QED BY <2>1, <2>2 DEF Fits
<1>9. M[One] >= 1
  <2>1. M[One] = L[One] + Touches(old[j], One) /\ L[One] >= 1 /\ L[One] \in Nat /\ Touches(old[j], One) \in Nat
    BY <1>1, TouchesIs DEF Inherited, One, Whole
  <2>. QED BY <2>1
<1>10. Whole([refs |-> q, op |-> g.op], M)
  BY <1>1, <1>2, <1>6, <1>8, <1>9, SameStore, WholeChange
<1>. QED BY <1>10 DEF Removed, es

\* i gets another edge, with operands that are new.
Appended(g, i, e, t) == [refs |-> [g.refs EXCEPT ![i] = Append(g.refs[i], e)], op |-> t]

\* An edge with operands of its own is put at the end.
LEMMA AppendSound ==
  ASSUME NEW g, NEW L, Whole(g, L), NEW i \in Pivot, NEW e \in Edges,
         NEW t, NEW M \in [Nat -> Nat], M[One] >= 1,
         Sound(t, Outside(Appended(g, i, e, t).refs, M)), Later(g.op, t),
         t[e.coefficient].val = t[e.numeric].val, Ends(e) \cap DOMAIN g.op = {}
  PROVE  Whole(Appended(g, i, e, t), M)
<1>. DEFINE old == g.refs[i]
            es == Append(old, e)
            n == Len(old)
<1>1. old \in Seq(Edges) /\ n \in Nat /\ One \in DOMAIN g.op
  <2>1. old \in Seq(Edges) /\ One \in DOMAIN g.op
    BY WholeIs
  <2>. HIDE DEF old
  <2>2. n \in Nat
    BY <2>1, LenProperties
  <2>. QED BY <2>1, <2>2
<1>2. /\ es \in Seq(Edges)
      /\ \A k \in 1 .. Len(es) : (k = n + 1 /\ es[k] = e) \/ (k \in 1 .. n /\ es[k] = old[k])
  <2>1. IsAppended(es, Edges, old, e)
    BY <1>1, AppendIs
  <2>. HIDE DEF es, old
  <2>. QED BY <2>1 DEF IsAppended
<1>. HIDE DEF es, n
<1>2a. n + 1 \notin 1 .. n
  BY <1>1
<1>3. Fitting(g, i, e, t)
  BY <1>1 DEF Fitting
<1>4. ASSUME NEW k \in 1 .. n PROVE Ends(old[k]) \cap Ends(e) = {}
  <2>1. Ends(old[k]) \subseteq DOMAIN g.op
    BY WholeEdge DEF FineEdge, n
  <2>. QED BY <2>1
<1>5. ASSUME NEW k \in 1 .. Len(es), NEW m \in 1 .. Len(es), m # k
      PROVE  Ends(es[k]) \cap Ends(es[m]) \subseteq {One}
  <2>1. CASE k = n + 1
    <3>1. m \in 1 .. n /\ es[k] = e /\ es[m] = old[m]
      BY <1>2, <1>2a, <1>5, <2>1
    <3>. QED BY <1>4, <3>1
  <2>2. CASE m = n + 1
    <3>1. k \in 1 .. n /\ es[m] = e /\ es[k] = old[k]
      BY <1>2, <1>2a, <1>5, <2>2
    <3>. QED BY <1>4, <3>1
  <2>3. CASE k # n + 1 /\ m # n + 1
    <3>1. k \in 1 .. n /\ m \in 1 .. n /\ es[m] = old[m] /\ es[k] = old[k]
      BY <1>2, <2>3
    <3>. QED BY <1>5, <3>1, OwnApart DEF n
  <2>. QED BY <2>1, <2>2, <2>3
<1>6. ASSUME NEW k \in 1 .. Len(es)
      PROVE  (\E m \in 1 .. n : es[k] = old[m]) \/ Fitting(g, i, es[k], t)
  <2>1. CASE k = n + 1
    BY <1>2, <1>3, <2>1
  <2>2. CASE k # n + 1
    <3>1. k \in 1 .. n /\ es[k] = old[k]
      BY <1>2, <2>2
    <3>. QED BY <3>1
  <2>. QED BY <2>1, <2>2
<1>7. Fits(g, i, es, t)
  BY <1>5, <1>6 DEF Fits, n
<1>8. Appended(g, i, e, t) = [refs |-> [g.refs EXCEPT ![i] = es], op |-> t]
  BY DEF Appended, es
<1>9. Sound(t, Outside([g.refs EXCEPT ![i] = es], M))
  BY <1>8
<1>10. Whole([refs |-> [g.refs EXCEPT ![i] = es], op |-> t], M)
  BY <1>2, <1>7, <1>9, WholeChange
<1>. QED BY <1>8, <1>10

LEMMA EdgeTouches ==
  ASSUME NEW h \in Integral, NEW c \in Nat, NEW n \in Nat
  PROVE  /\ Edge(h, c, n) \in Edges /\ Edge(h, c, n).head = h
         /\ Edge(h, c, n).coefficient = c /\ Edge(h, c, n).numeric = n
         /\ Ends(Edge(h, c, n)) = {c, n}
         /\ \A x : Touches(Edge(h, c, n), x) = Is(c, x) + Is(n, x)
BY DEF Edge, Edges, Ends, Touches

LEMMA EdgeParts ==
  ASSUME NEW e \in Edges
  PROVE  /\ e.head \in Integral /\ e.coefficient \in Nat /\ e.numeric \in Nat
         /\ e = Edge(e.head, e.coefficient, e.numeric)
         /\ Ends(e) = {e.coefficient, e.numeric} /\ Ends(e) \subseteq Nat
         /\ \A x : Touches(e, x) = Is(e.coefficient, x) + Is(e.numeric, x)
BY DEF Edges, Edge, Ends, Touches

\* What edges refer to has a reference, so it is there.
LEMMA EndsThere ==
  ASSUME NEW r \in [Pivot -> Seq(Edges)], NEW L \in [Nat -> Nat], NEW t, Counted(t, Outside(r, L)),
         NEW i \in Pivot, NEW k \in 1 .. Len(r[i]), NEW o \in Ends(r[i][k])
  PROVE  o \in Nat /\ Outside(r, L)[o] >= 1 /\ o \in DOMAIN t
<1>1. r[i] \in Seq(Edges)
  OBVIOUS
<1>2. o \in Nat
  BY <1>1, EdgeIs, EdgeParts
<1>3. Touches(r[i][k], o) >= 1 /\ Touches(r[i][k], o) \in Nat
  BY TouchesIs
<1>4. Touches(r[i][k], o) <= EdgeUses(r[i], o) /\ EdgeUses(r[i], o) \in Nat
  BY <1>1, EdgeUsesSum
<1>5. L[o] \in Nat /\ Outside(r, L)[o] \in Nat /\ L[o] + EdgeUses(r[i], o) <= Outside(r, L)[o]
  BY <1>2, OutsideIs
<1>6. \A a, b, c, d \in Nat : a >= 1 /\ a <= b /\ c + b <= d => d >= 1
  OBVIOUS
<1>7. Outside(r, L)[o] >= 1
  BY <1>3, <1>4, <1>5, <1>6, Zenon
<1>8. \A x \in Nat \ DOMAIN t : Outside(r, L)[x] = 0
  BY DEF Counted
<1>9. o \in DOMAIN t
  <2>1. \A d \in Nat : d >= 1 => d # 0
    OBVIOUS
  <2>. QED BY <1>2, <1>5, <1>7, <1>8, <2>1
<1>. QED BY <1>2, <1>7, <1>9

\* The edge of i at j becomes e.
Put(r, i, j, e) == [r EXCEPT ![i] = [r[i] EXCEPT ![j] = e]]

\* What the others have of x then.
PutCount(r, L, M, i, j, e, x) ==
  /\ Outside(Put(r, i, j, e), M)[x] = Outside(r, L)[x] - Touches(r[i][j], x) + Touches(e, x) - L[x] + M[x]
  /\ Outside(r, L)[x] \in Nat /\ Outside(Put(r, i, j, e), M)[x] \in Nat
  /\ Outside(r, L)[x] >= Touches(r[i][j], x) + L[x]
  /\ Touches(r[i][j], x) \in Nat /\ Touches(e, x) \in Nat /\ L[x] \in Nat /\ M[x] \in Nat

\* Nothing else changes.
IsPut(q, r, i, j, e) ==
  /\ Len(q[i]) = Len(r[i]) /\ q[i][j] = e
  /\ \A p \in Pivot : \A k \in 1 .. Len(r[p]) : (p # i \/ k # j) => q[p][k] = r[p][k]
  /\ \A p \in Pivot : Len(q[p]) = Len(r[p])

LEMMA PutIs ==
  ASSUME NEW r \in [Pivot -> Seq(Edges)], NEW L \in [Nat -> Nat], NEW M \in [Nat -> Nat],
         NEW i \in Pivot, NEW j \in 1 .. Len(r[i]), NEW e \in Edges
  PROVE  /\ Put(r, i, j, e) \in [Pivot -> Seq(Edges)]
         /\ Outside(Put(r, i, j, e), M) \in [Nat -> Nat]
         /\ IsPut(Put(r, i, j, e), r, i, j, e)
         /\ \A x \in Nat : PutCount(r, L, M, i, j, e, x)
<1>. DEFINE old == r[i]
            es == [old EXCEPT ![j] = e]
            q == Put(r, i, j, e)
<1>1. old \in Seq(Edges)
  OBVIOUS
<1>2. IsChanged(es, Edges, old, j, e)
  BY <1>1, ChangedIs
<1>3. q = [r EXCEPT ![i] = es]
  BY DEF Put
<1>. HIDE DEF es
<1>4. es \in Seq(Edges) /\ Len(es) = Len(old) /\ es[j] = e /\ \A k \in 1 .. Len(old) : k # j => es[k] = old[k]
  BY <1>2 DEF IsChanged
<1>5. q \in [Pivot -> Seq(Edges)] /\ q[i] = es /\ \A p \in Pivot : p # i => q[p] = r[p]
  BY <1>3, <1>4
<1>6. Outside(q, M) \in [Nat -> Nat] /\ Outside(r, L) \in [Nat -> Nat]
  BY <1>5, OutsideIs
<1>7. ASSUME NEW x \in Nat PROVE PutCount(r, L, M, i, j, e, x)
  <2>1. RowChanged(r, L, M, i, es, x)
    BY <1>4, OutsideChange
  <2>2. EdgeUses(es, x) = EdgeUses(old, x) - Touches(old[j], x) + Touches(e, x)
    BY <1>1, EdgeUsesChange DEF es
  <2>3. L[x] + EdgeUses(old, x) <= Outside(r, L)[x]
    BY OutsideIs
  <2>4. Touches(old[j], x) <= EdgeUses(old, x)
    BY <1>1, EdgeUsesSum
  <2>5. Touches(old[j], x) \in Nat /\ Touches(e, x) \in Nat /\ L[x] \in Nat /\ M[x] \in Nat
    BY TouchesIs
  <2>6. Outside(r, L)[x] \in Nat /\ Outside(q, M)[x] \in Nat
    BY <1>6
  <2>7. /\ Outside(q, M)[x] = Outside(r, L)[x] - EdgeUses(old, x) + EdgeUses(es, x) - L[x] + M[x]
        /\ EdgeUses(old, x) \in Nat /\ EdgeUses(es, x) \in Nat
    BY <1>3, <2>1 DEF RowChanged
  <2>. DEFINE a == Outside(q, M)[x]
              b == Outside(r, L)[x]
              c == EdgeUses(old, x)
              d == EdgeUses(es, x)
              u == Touches(old[j], x)
              v == Touches(e, x)
              l == L[x]
              m == M[x]
  <2>8. /\ a \in Nat /\ b \in Nat /\ c \in Nat /\ d \in Nat /\ u \in Nat /\ v \in Nat /\ l \in Nat /\ m \in Nat
        /\ a = b - c + d - l + m /\ d = c - u + v /\ l + c <= b /\ u <= c
    BY <2>2, <2>3, <2>4, <2>5, <2>6, <2>7
  <2>. HIDE DEF a, b, c, d, u, v, l, m
  <2>9. a = b - u + v - l + m /\ b >= u + l
    BY <2>8
  <2>. QED BY <2>8, <2>9 DEF a, b, u, v, l, m, PutCount
<1>8. \A p \in Pivot : Len(q[p]) = Len(r[p])
  BY <1>4, <1>5
<1>9. ASSUME NEW p \in Pivot, NEW k \in 1 .. Len(r[p]), p # i \/ k # j PROVE q[p][k] = r[p][k]
  BY <1>4, <1>5, <1>9
<1>10. Len(q[i]) = Len(r[i]) /\ q[i][j] = e
  BY <1>4, <1>5
<1>. HIDE DEF q
<1>11. IsPut(q, r, i, j, e)
  BY <1>8, <1>9, <1>10 DEF IsPut
<1>. QED BY <1>5, <1>6, <1>7, <1>11 DEF q

\* A reference goes from o to n.
Shifting(d, e, o, n) ==
  d \in Edges /\ e \in Edges /\ o \in Nat /\ n \in Nat /\ o \in Ends(d)
  /\ \A x \in Nat : Touches(e, x) = Touches(d, x) - Is(o, x) + Is(n, x)

\* The references of an edge are passed on to what replaces it.
LEMMA PutPassed ==
  ASSUME NEW r \in [Pivot -> Seq(Edges)], NEW L \in [Nat -> Nat], NEW i \in Pivot, NEW j \in 1 .. Len(r[i]),
         NEW d, NEW e, NEW o, NEW n, Shifting(d, e, o, n)
  PROVE  /\ Passed(Outside(Put(r, i, j, d), L), o, n, Outside(Put(r, i, j, e), L))
         /\ Outside(Put(r, i, j, d), L)[o] >= 1
<1>. DEFINE A == Outside(Put(r, i, j, d), L)
            B == Outside(Put(r, i, j, e), L)
            H == Outside(r, L)
<1>1. d \in Edges /\ e \in Edges /\ o \in Nat /\ n \in Nat /\ o \in Ends(d)
  BY DEF Shifting
<1>2. A \in [Nat -> Nat] /\ B \in [Nat -> Nat]
      /\ \A x \in Nat : PutCount(r, L, L, i, j, d, x) /\ PutCount(r, L, L, i, j, e, x)
  BY <1>1, PutIs
<1>3. ASSUME NEW x \in Nat
      PROVE  /\ A[x] = H[x] - Touches(r[i][j], x) + Touches(d, x) - L[x] + L[x]
             /\ B[x] = H[x] - Touches(r[i][j], x) + Touches(e, x) - L[x] + L[x]
             /\ A[x] \in Nat /\ B[x] \in Nat /\ H[x] \in Nat /\ H[x] >= Touches(r[i][j], x) + L[x]
             /\ Touches(r[i][j], x) \in Nat /\ Touches(d, x) \in Nat /\ Touches(e, x) \in Nat /\ L[x] \in Nat
  <2>1. PutCount(r, L, L, i, j, d, x) /\ PutCount(r, L, L, i, j, e, x)
    BY <1>2
  <2>. QED BY <2>1 DEF PutCount
<1>. HIDE DEF A, B, H
<1>4. ASSUME NEW x \in Nat PROVE B[x] = A[x] - Is(o, x) + Is(n, x)
  <2>1. Touches(e, x) = Touches(d, x) - Is(o, x) + Is(n, x) /\ Is(o, x) \in Nat /\ Is(n, x) \in Nat
    BY DEF Shifting, Is
  <2>. DEFINE a == A[x]
              b == B[x]
              h == H[x]
              t == Touches(r[i][j], x)
              u == Touches(d, x)
              v == Touches(e, x)
              l == L[x]
              y == Is(o, x)
              z == Is(n, x)
  <2>2. /\ a = h - t + u - l + l /\ b = h - t + v - l + l /\ v = u - y + z
        /\ a \in Int /\ b \in Int /\ h \in Int /\ t \in Int /\ u \in Int /\ v \in Int
        /\ l \in Int /\ y \in Int /\ z \in Int
    <3>1. a = h - t + u - l + l /\ b = h - t + v - l + l
      BY <1>3, Zenon
    <3>2. a \in Nat /\ b \in Nat /\ h \in Nat /\ t \in Nat /\ u \in Nat /\ v \in Nat /\ l \in Nat
      BY <1>3, Zenon
    <3>3. v = u - y + z /\ y \in Nat /\ z \in Nat
      BY <2>1, Zenon
    <3>. HIDE DEF a, b, h, t, u, v, l, y, z
    <3>. QED BY <3>1, <3>2, <3>3
  <2>. HIDE DEF a, b, h, t, u, v, l, y, z
  <2>3. b = a - y + z
    BY <2>2
  <2>. QED BY <2>3 DEF a, b, y, z
<1>5. A[o] >= 1
  <2>1. Touches(d, o) >= 1
    BY <1>1, TouchesIs
  <2>2. \A a, h, t, u, l \in Nat : a = h - t + u - l + l /\ h >= t + l /\ u >= 1 => a >= 1
    OBVIOUS
  <2>. QED BY <1>1, <1>3, <2>1, <2>2, Zenon
<1>. QED BY <1>2, <1>4, <1>5 DEF A, B, Passed

\* How a graph may change at one edge at most: h is what g becomes.
AtEdge(g, h, i, j) ==
  \A p \in Pivot :
    /\ Len(h.refs[p]) = Len(g.refs[p])
    /\ \A k \in 1 .. Len(g.refs[p]) :
         h.refs[p][k].head = g.refs[p][k].head /\ (p # i \/ k # j => h.refs[p][k] = g.refs[p][k])

\* o is replaced by n unless it is terminal.
Renewed(s, t, o, n) ==
  /\ n \in DOMAIN t /\ IsTerminal(t, n)
  /\ (IsTerminal(s, o) => n = o) /\ (~IsTerminal(s, o) => n \notin DOMAIN s)

NumericBaked(g, h, L, i, j) ==
  /\ Whole(h, L) /\ Later(g.op, h.op) /\ AtEdge(g, h, i, j)
  /\ h.refs[i][j].coefficient = g.refs[i][j].coefficient
  /\ Renewed(g.op, h.op, g.refs[i][j].numeric, h.refs[i][j].numeric)

LEMMA OldEdge ==
  ASSUME NEW r \in [Pivot -> Seq(Edges)], NEW i \in Pivot, NEW j \in 1 .. Len(r[i])
  PROVE  Put(r, i, j, r[i][j]) = r
<1>1. r[i] \in Seq(Edges)
  OBVIOUS
<1>2. DOMAIN r[i] = 1 .. Len(r[i]) /\ r[i] = [k \in 1 .. Len(r[i]) |-> r[i][k]]
  BY <1>1, SeqElements
<1>3. [r[i] EXCEPT ![j] = r[i][j]] = r[i]
  BY <1>2
<1>. QED BY <1>3 DEF Put

LEMMA ChangedAt ==
  ASSUME NEW g, NEW L, Whole(g, L), NEW i \in Pivot, NEW j \in 1 .. Len(g.refs[i]), NEW e \in Edges,
         e.head = g.refs[i][j].head, NEW t
  PROVE  /\ AtEdge(g, Changed(g, i, j, e, t), i, j)
         /\ Changed(g, i, j, e, t).refs = Put(g.refs, i, j, e)
         /\ Changed(g, i, j, e, t).op = t
         /\ Changed(g, i, j, e, t).refs[i][j] = e
<1>1. g.refs \in [Pivot -> Seq(Edges)] /\ L \in [Nat -> Nat]
  BY WholeIs
<1>2. Changed(g, i, j, e, t).refs = Put(g.refs, i, j, e) /\ Changed(g, i, j, e, t).op = t
  BY DEF Changed, Put
<1>3. /\ Put(g.refs, i, j, e)[i][j] = e
      /\ \A p \in Pivot : \A k \in 1 .. Len(g.refs[p]) : (p # i \/ k # j) => Put(g.refs, i, j, e)[p][k] = g.refs[p][k]
      /\ \A p \in Pivot : Len(Put(g.refs, i, j, e)[p]) = Len(g.refs[p])
  <2>1. IsPut(Put(g.refs, i, j, e), g.refs, i, j, e)
    BY <1>1, PutIs
  <2>. QED BY <2>1 DEF IsPut
<1>4. ASSUME NEW p \in Pivot, NEW k \in 1 .. Len(g.refs[p])
      PROVE  Put(g.refs, i, j, e)[p][k].head = g.refs[p][k].head
  <2>1. CASE p # i \/ k # j
    BY <1>3, <2>1
  <2>2. CASE p = i /\ k = j
    BY <1>3, <2>2
  <2>. QED BY <2>1, <2>2
<1>. QED BY <1>2, <1>3, <1>4 DEF AtEdge

\* What is referred to otherwise stays what it is.
Keeps(s, t, L) ==
  \A o \in Nat : L[o] >= 1 =>
    /\ o \in DOMAIN s /\ o \in DOMAIN t /\ t[o].kind = s[o].kind /\ t[o].val = s[o].val
    /\ s[o].done => t[o].done

LEMMA KeepsIs ==
  ASSUME NEW g, NEW h, NEW L, Whole(g, L), Whole(h, L), Later(g.op, h.op)
  PROVE  Keeps(g.op, h.op, L)
<1>1. ASSUME NEW o \in Nat, L[o] >= 1 PROVE o \in DOMAIN g.op /\ o \in DOMAIN h.op
  BY <1>1, WholeIs
<1>. QED BY <1>1 DEF Keeps, Later

LEMMA KeepsOn ==
  ASSUME NEW s, NEW t, NEW u, NEW L, Keeps(s, t, L), Keeps(t, u, L)
  PROVE  Keeps(s, u, L)
BY DEF Keeps

\* One end of an edge, o, is replaced by n.
HalfChanged(d, e, o, n) ==
  \/ e = Edge(d.head, d.coefficient, n) /\ o = d.numeric
  \/ e = Edge(d.head, n, d.numeric) /\ o = d.coefficient

HalfMade(d, e, o, n) ==
  /\ e \in Edges /\ e.head = d.head /\ Shifting(d, e, o, n)
  /\ Ends(e) \subseteq Ends(d) \cup {n} /\ o \in Ends(d)
  /\ \/ e.coefficient = d.coefficient /\ e.numeric = n /\ o = d.numeric
     \/ e.coefficient = n /\ e.numeric = d.numeric /\ o = d.coefficient

LEMMA HalfIs ==
  ASSUME NEW d \in Edges, NEW o, NEW n \in Nat, NEW e, HalfChanged(d, e, o, n)
  PROVE  HalfMade(d, e, o, n)
<1>1. d.head \in Integral /\ d.coefficient \in Nat /\ d.numeric \in Nat /\ Ends(d) = {d.coefficient, d.numeric}
      /\ \A x : Touches(d, x) = Is(d.coefficient, x) + Is(d.numeric, x)
  BY EdgeParts
<1>2. \A a, x : Is(a, x) \in Nat
  BY DEF Is
<1>3. CASE e = Edge(d.head, d.coefficient, n) /\ o = d.numeric
  <2>1. e \in Edges /\ e.head = d.head /\ Ends(e) = {d.coefficient, n}
        /\ e.coefficient = d.coefficient /\ e.numeric = n
        /\ \A x : Touches(e, x) = Is(d.coefficient, x) + Is(n, x)
    BY <1>1, <1>3, EdgeTouches
  <2>2. ASSUME NEW x PROVE Touches(e, x) = Touches(d, x) - Is(o, x) + Is(n, x)
    BY <1>1, <1>2, <1>3, <2>1
  <2>. QED BY <1>1, <1>3, <2>1, <2>2 DEF Shifting, HalfMade
<1>4. CASE e = Edge(d.head, n, d.numeric) /\ o = d.coefficient
  <2>1. e \in Edges /\ e.head = d.head /\ Ends(e) = {n, d.numeric}
        /\ e.coefficient = n /\ e.numeric = d.numeric
        /\ \A x : Touches(e, x) = Is(n, x) + Is(d.numeric, x)
    BY <1>1, <1>4, EdgeTouches
  <2>2. ASSUME NEW x PROVE Touches(e, x) = Touches(d, x) - Is(o, x) + Is(n, x)
    BY <1>1, <1>2, <1>4, <2>1
  <2>. QED BY <1>1, <1>4, <2>1, <2>2 DEF Shifting, HalfMade
<1>. QED BY <1>3, <1>4 DEF HalfChanged

\* One end of the edge of i at j was baked.
EndBaked(g, h, L, i, j, e, o, n) ==
  /\ Whole(h, L) /\ Later(g.op, h.op) /\ AtEdge(g, h, i, j) /\ h.refs[i][j] = e
  /\ Renewed(g.op, h.op, o, n) /\ h.op[n].val = g.op[o].val /\ h.refs = Put(g.refs, i, j, e)

\* One operand of an edge is terminated.
LEMMA EndIsBaked ==
  ASSUME NEW g, NEW L, Whole(g, L), NEW i \in Pivot, NEW j \in 1 .. Len(g.refs[i]),
         NEW o, NEW n, n = Terminated(g.op, o), NEW e, HalfChanged(g.refs[i][j], e, o, n)
  PROVE  EndBaked(g, Changed(g, i, j, e, Terminate(g.op, o)), L, i, j, e, o, n)
<1>. DEFINE d == g.refs[i][j]
            t == Terminate(g.op, o)
            H == Outside(g.refs, L)
            K == Outside(Put(g.refs, i, j, e), L)
            h == Changed(g, i, j, e, t)
<1>1. /\ Store(g.op) /\ g.refs \in [Pivot -> Seq(Edges)] /\ L \in [Nat -> Nat] /\ One \in DOMAIN g.op
      /\ Sound(g.op, H) /\ L[One] >= 1
  BY WholeIs DEF Whole
<1>2. /\ d \in Edges /\ d.coefficient \in DOMAIN g.op /\ d.numeric \in DOMAIN g.op
      /\ g.op[d.coefficient].val = g.op[d.numeric].val /\ (One \in Ends(d) => d.head = i)
  BY WholeEdge DEF FineEdge
<1>3. o \in DOMAIN g.op /\ o \in Nat
  <2>1. o \in {d.coefficient, d.numeric} /\ d.coefficient \in Nat /\ d.numeric \in Nat
    BY <1>2, EdgeParts DEF HalfChanged
  <2>. QED BY <2>1, <1>2
<1>4. n \in Nat
  BY <1>1, <1>3, FreshIs DEF Terminated
<1>5. /\ e \in Edges /\ e.head = d.head /\ Shifting(d, e, o, n) /\ Ends(e) \subseteq Ends(d) \cup {n}
      /\ \/ e.coefficient = d.coefficient /\ e.numeric = n /\ o = d.numeric
         \/ e.coefficient = n /\ e.numeric = d.numeric /\ o = d.coefficient
  <2>. HIDE DEF d
  <2>1. HalfChanged(d, e, o, n)
    BY DEF d
  <2>2. HalfMade(d, e, o, n)
    BY <1>2, <1>4, <2>1, HalfIs
  <2>. QED BY <2>2 DEF HalfMade
<1>6. Passed(H, o, n, K) /\ H[o] >= 1
  <2>1. Put(g.refs, i, j, d) = g.refs
    BY <1>1, OldEdge
  <2>2. /\ Passed(Outside(Put(g.refs, i, j, d), L), o, n, K)
        /\ Outside(Put(g.refs, i, j, d), L)[o] >= 1
    BY <1>1, <1>5, PutPassed
  <2>. QED BY <2>1, <2>2
<1>. HIDE DEF K
<1>7. /\ n \in DOMAIN t /\ Sound(t, K) /\ IsTerminal(t, n) /\ t[n].val = g.op[o].val
      /\ (IsTerminal(g.op, o) => n = o) /\ (~IsTerminal(g.op, o) => n \notin DOMAIN g.op)
      /\ Later(g.op, t)
  <2>1. t = Terminate(g.op, o)
    OBVIOUS
  <2>. DEFINE s == g.op
  <2>. HIDE DEF H, d, t, s
  <2>2. Sound(s, H) /\ H[o] >= 1 /\ Passed(H, o, n, K) /\ n = Terminated(s, o) /\ t = Terminate(s, o) /\ o \in Nat
    BY <1>1, <1>3, <1>6, <2>1 DEF s
  <2>. HIDE DEF s
  <2>3. /\ n \in DOMAIN t /\ Sound(t, K) /\ IsTerminal(t, n) /\ t[n].val = s[o].val
        /\ (IsTerminal(s, o) => n = o) /\ (~IsTerminal(s, o) => n \notin DOMAIN s)
        /\ Later(s, t)
    BY <2>2, TerminateSound
  <2>. QED BY <2>3 DEF s
<1>. HIDE DEF t
<1>8. /\ AtEdge(g, h, i, j) /\ h.refs = Put(g.refs, i, j, e) /\ h.op = t /\ h.refs[i][j] = e
  BY <1>5, ChangedAt
<1>9. Put(g.refs, i, j, e) \in [Pivot -> Seq(Edges)] /\ IsPut(Put(g.refs, i, j, e), g.refs, i, j, e)
  BY <1>1, <1>5, PutIs
<1>10. j \in 1 .. Len(Put(g.refs, i, j, e)[i]) /\ Put(g.refs, i, j, e)[i][j] = e
  BY <1>9 DEF IsPut
<1>11. Ends(e) \subseteq DOMAIN t
  <2>1. Counted(t, Outside(Put(g.refs, i, j, e), L))
    BY <1>7 DEF Sound, K
  <2>. QED BY <1>1, <1>9, <1>10, <2>1, EndsThere
<1>12. e.coefficient \in DOMAIN t /\ e.numeric \in DOMAIN t
  BY <1>11 DEF Ends
<1>13. t[e.coefficient].val = t[e.numeric].val
  <2>1. ASSUME e.coefficient = d.coefficient, e.numeric = n, o = d.numeric PROVE t[e.coefficient].val = t[e.numeric].val
    BY <1>2, <1>7, <1>12, <2>1 DEF Later
  <2>2. ASSUME e.coefficient = n, e.numeric = d.numeric, o = d.coefficient PROVE t[e.coefficient].val = t[e.numeric].val
    BY <1>2, <1>7, <1>12, <2>2 DEF Later
  <2>. QED BY <1>5, <2>1, <2>2
<1>14. n \in DOMAIN g.op => n \in Ends(d)
  <2>1. o \in Ends(d)
    BY <1>5 DEF Shifting
  <2>. QED BY <1>7, <2>1
<1>15. Replacing(g, i, j, e, t)
  <2>1. One \in Ends(e) => e.head = i
    BY <1>1, <1>2, <1>5, <1>14
  <2>2. \A x \in Ends(e) : x \in DOMAIN g.op /\ x # One => x \in Ends(d)
    BY <1>5, <1>14
  <2>. QED BY <1>13, <2>1, <2>2 DEF Replacing
<1>16. Sound(t, Outside(h.refs, L))
  BY <1>7, <1>8 DEF K
<1>17. Whole(h, L)
  BY <1>1, <1>5, <1>7, <1>15, <1>16, ChangeSound
<1>18. Renewed(g.op, t, o, n)
  BY <1>7 DEF Renewed
<1>. HIDE DEF h
<1>19. EndBaked(g, h, L, i, j, e, o, n)
  BY <1>7, <1>8, <1>17, <1>18 DEF EndBaked
<1>. QED BY <1>19 DEF h, t

CoefficientBaked(g, h, L, i, j) ==
  /\ Whole(h, L) /\ Later(g.op, h.op) /\ AtEdge(g, h, i, j)
  /\ h.refs[i][j].numeric = g.refs[i][j].numeric
  /\ Renewed(g.op, h.op, g.refs[i][j].coefficient, h.refs[i][j].coefficient)

LEMMA NumericIsBaked ==
  ASSUME NEW g, NEW L, Whole(g, L), NEW i \in Pivot, NEW j \in 1 .. Len(g.refs[i])
  PROVE  NumericBaked(g, TerminateNumeric(g, i, j), L, i, j)
<1>. DEFINE d == g.refs[i][j]
            o == d.numeric
            n == Terminated(g.op, o)
            e == Edge(d.head, d.coefficient, n)
            h == Changed(g, i, j, e, Terminate(g.op, o))
<1>1. d \in Edges /\ g.refs \in [Pivot -> Seq(Edges)]
  BY WholeIs, WholeEdge DEF FineEdge
<1>2. EndBaked(g, h, L, i, j, e, o, n)
  BY EndIsBaked DEF HalfChanged
<1>3. [d EXCEPT !.numeric = n] = e
  BY <1>1 DEF Edges, Edge
<1>4. TerminateNumeric(g, i, j) = h
  BY <1>3 DEF TerminateNumeric, Changed
<1>5. e.coefficient = d.coefficient /\ e.numeric = n
  BY DEF Edge
<1>. HIDE DEF h, e, n
<1>. QED BY <1>2, <1>4, <1>5 DEF EndBaked, NumericBaked

LEMMA CoefficientIsBaked ==
  ASSUME NEW g, NEW L, Whole(g, L), NEW i \in Pivot, NEW j \in 1 .. Len(g.refs[i])
  PROVE  CoefficientBaked(g, TerminateCoefficient(g, i, j), L, i, j)
<1>. DEFINE d == g.refs[i][j]
            o == d.coefficient
            n == Terminated(g.op, o)
            e == Edge(d.head, n, d.numeric)
            h == Changed(g, i, j, e, Terminate(g.op, o))
<1>1. d \in Edges /\ g.refs \in [Pivot -> Seq(Edges)]
  BY WholeIs, WholeEdge DEF FineEdge
<1>2. EndBaked(g, h, L, i, j, e, o, n)
  BY EndIsBaked DEF HalfChanged
<1>3. [d EXCEPT !.coefficient = n] = e
  BY <1>1 DEF Edges, Edge
<1>4. TerminateCoefficient(g, i, j) = h
  BY <1>3 DEF TerminateCoefficient, Changed
<1>5. e.numeric = d.numeric /\ e.coefficient = n
  BY DEF Edge
<1>. HIDE DEF h, e, n
<1>. QED BY <1>2, <1>4, <1>5 DEF EndBaked, CoefficientBaked

\* The heads of all edges are what they were.
SameHeads(r, q) ==
  \A p \in Pivot : Len(q[p]) = Len(r[p]) /\ \A k \in 1 .. Len(r[p]) : q[p][k].head = r[p][k].head

\* Both ends of the edge of i at j are terminals.
Baked(h, i, j) ==
  IsTerminal(h.op, h.refs[i][j].coefficient) /\ IsTerminal(h.op, h.refs[i][j].numeric)

EdgeBaked(g, h, L, i, j) ==
  Whole(h, L) /\ AtEdge(g, h, i, j) /\ Keeps(g.op, h.op, L) /\ Baked(h, i, j)

\* Both operands of an edge are terminated.
LEMMA EdgeIsBaked ==
  ASSUME NEW g, NEW L, Whole(g, L), NEW i \in Pivot, NEW j \in 1 .. Len(g.refs[i])
  PROVE  EdgeBaked(g, TerminateEdge(g, i, j), L, i, j)
<1>. DEFINE a == TerminateCoefficient(g, i, j)
            b == TerminateNumeric(a, i, j)
<1>1. CoefficientBaked(g, a, L, i, j)
  BY CoefficientIsBaked
<1>. HIDE DEF a
<1>2. Whole(a, L) /\ j \in 1 .. Len(a.refs[i])
  BY <1>1 DEF CoefficientBaked, AtEdge
<1>3. NumericBaked(a, b, L, i, j)
  BY <1>2, NumericIsBaked
<1>. HIDE DEF b
<1>4. Whole(b, L) /\ Later(g.op, a.op) /\ Later(a.op, b.op)
  BY <1>1, <1>3 DEF CoefficientBaked, NumericBaked
<1>5. Keeps(g.op, b.op, L)
  BY <1>2, <1>4, KeepsIs, KeepsOn
<1>6. AtEdge(g, b, i, j)
  BY <1>1, <1>3 DEF CoefficientBaked, NumericBaked, AtEdge
<1>7. j \in 1 .. Len(b.refs[i])
  BY <1>1, <1>3 DEF CoefficientBaked, NumericBaked, AtEdge
<1>8. Baked(b, i, j)
  <2>1. IsTerminal(b.op, b.refs[i][j].numeric)
    BY <1>3 DEF NumericBaked, Renewed
  <2>2. b.refs[i][j].coefficient = a.refs[i][j].coefficient
    BY <1>3 DEF NumericBaked
  <2>3. a.refs[i][j].coefficient \in DOMAIN a.op /\ IsTerminal(a.op, a.refs[i][j].coefficient)
    BY <1>1 DEF CoefficientBaked, Renewed
  <2>4. b.refs[i][j].coefficient \in DOMAIN b.op
    BY <1>4, <1>7, WholeEdge DEF FineEdge
  <2>5. IsTerminal(b.op, b.refs[i][j].coefficient)
    BY <1>4, <2>2, <2>3, <2>4 DEF Later, IsTerminal
  <2>. QED BY <2>1, <2>5 DEF Baked
<1>. QED BY <1>4, <1>5, <1>6, <1>8 DEF EdgeBaked, TerminateEdge, a, b

\* How qs_pivot_graph_terminate_all goes through the edges.
Baking(f, g, i, n) == f[0] = g /\ \A k \in 1 .. n : f[k] = TerminateEdge(f[k - 1], i, k)

\* The loop has a table of its intermediate graphs.
LEMMA BakingIs ==
  ASSUME NEW g, NEW i, Len(g.refs[i]) \in Nat
  PROVE  \E f : Baking(f, g, i, Len(g.refs[i])) /\ TerminateAll(g, i) = f[Len(g.refs[i])]
<1>. DEFINE n == Len(g.refs[i])
            IsIt(f, m) == f = [k \in 0 .. m |-> IF k = 0 THEN g ELSE TerminateEdge(f[k - 1], i, k)]
            Good == {m \in Nat : \E f : IsIt(f, m)}
<1>1. 0 \in Good
  <2>. DEFINE h == [k \in 0 .. 0 |-> g]
  <2>1. \A k \in 0 .. 0 : h[k] = IF k = 0 THEN g ELSE TerminateEdge(h[k - 1], i, k)
    OBVIOUS
  <2>2. IsIt(h, 0)
    BY <2>1
  <2>. QED BY <2>2
<1>2. ASSUME NEW m \in 0 .. (n - 1), m \in Good PROVE m + 1 \in Good
  <2>1. PICK f : IsIt(f, m)
    BY <1>2
  <2>. DEFINE h == [k \in 0 .. (m + 1) |-> IF k = m + 1 THEN TerminateEdge(f[m], i, (m + 1)) ELSE f[k]]
  <2>2. \A k \in 0 .. m : h[k] = f[k] /\ f[k] = IF k = 0 THEN g ELSE TerminateEdge(f[k - 1], i, k)
    BY <2>1
  <2>3. h[m + 1] = TerminateEdge(f[m], i, (m + 1))
    OBVIOUS
  <2>4. ASSUME NEW k \in 0 .. (m + 1) PROVE h[k] = IF k = 0 THEN g ELSE TerminateEdge(h[k - 1], i, k)
    <3>1. CASE k = 0
      <4>1. 0 \in 0 .. m
        OBVIOUS
      <4>2. h[0] = g
        BY <2>2, <4>1
      <4>. HIDE DEF h
      <4>. QED BY <3>1, <4>2
    <3>2. CASE k \in 1 .. m
      <4>1. k \in 0 .. m /\ k - 1 \in 0 .. m /\ k # 0
        BY <3>2
      <4>2. h[k] = f[k] /\ f[k] = TerminateEdge(f[k - 1], i, k) /\ h[k - 1] = f[k - 1]
        BY <2>2, <4>1
      <4>. HIDE DEF h
      <4>. QED BY <4>1, <4>2
    <3>3. CASE k = m + 1
      <4>1. k # 0 /\ k - 1 = m /\ m \in 0 .. m
        BY <3>3
      <4>2. h[k - 1] = f[m]
        BY <2>2, <4>1
      <4>. HIDE DEF h
      <4>. QED BY <2>3, <3>3, <4>1, <4>2
    <3>. QED BY <3>1, <3>2, <3>3
  <2>5. IsIt(h, m + 1)
    <3>1. h = [k \in 0 .. (m + 1) |-> h[k]]
      OBVIOUS
    <3>. HIDE DEF h
    <3>. QED BY <2>4, <3>1
  <2>6. m + 1 \in Nat
    OBVIOUS
  <2>. HIDE DEF IsIt
  <2>. QED BY <2>5, <2>6
<1>3. n \in Good
  <2>. HIDE DEF Good
  <2>. QED BY <1>1, <1>2, StepByStep
<1>. DEFINE c == CHOOSE f : IsIt(f, n)
<1>4. IsIt(c, n)
  BY <1>3
<1>5. TerminateAll(g, i) = c[n]
  BY Zenon DEF TerminateAll
<1>6. Baking(c, g, i, n)
  <2>1. n \in Nat
    OBVIOUS
  <2>2. \A k \in 0 .. n : c[k] = IF k = 0 THEN g ELSE TerminateEdge(c[k - 1], i, k)
    BY <1>4
  <2>. HIDE DEF c, n, IsIt
  <2>3. 0 \in 0 .. n /\ \A k \in 1 .. n : k \in 0 .. n /\ k # 0
    BY <2>1
  <2>4. c[0] = g
    BY <2>2, <2>3
  <2>5. \A k \in 1 .. n : c[k] = TerminateEdge(c[k - 1], i, k)
    BY <2>2, <2>3
  <2>. QED BY <2>4, <2>5 DEF Baking
<1>. QED BY <1>5, <1>6

\* A graph after some steps: what is referred to otherwise is what it was.
Onward(g, h, L) == Whole(h, L) /\ Keeps(g.op, h.op, L)

LEMMA OnwardIs ==
  ASSUME NEW g, NEW L, Whole(g, L)
  PROVE  Onward(g, g, L)
BY KeepsIs, SameStore DEF Onward

LEMMA OnwardOn ==
  ASSUME NEW a, NEW b, NEW c, NEW L, Onward(a, b, L), Onward(b, c, L)
  PROVE  Onward(a, c, L)
BY KeepsOn DEF Onward

\* Only operands change.
LEMMA Outsides ==
  ASSUME NEW r \in [Pivot -> Seq(Edges)], NEW L \in [Nat -> Nat], NEW M \in [Nat -> Nat]
  PROVE  /\ Outside(r, L) \in [Nat -> Nat] /\ Outside(r, M) \in [Nat -> Nat]
         /\ \A x \in Nat : /\ Outside(r, M)[x] = Outside(r, L)[x] - L[x] + M[x]
                           /\ Outside(r, L)[x] >= L[x]
                           /\ Outside(r, L)[x] \in Nat /\ Outside(r, M)[x] \in Nat
                           /\ L[x] \in Nat /\ M[x] \in Nat
<1>1. Outside(r, L) \in [Nat -> Nat] /\ Outside(r, M) \in [Nat -> Nat]
  BY OutsideIs
<1>2. ASSUME NEW x \in Nat PROVE Outside(r, M)[x] = Outside(r, L)[x] - L[x] + M[x]
  <2>. DEFINE S == SumOf([i \in Pivot |-> EdgeUses(r[i], x)], Pivot)
  <2>1. S \in Nat
    <3>1. \A i \in Pivot : [n \in Pivot |-> EdgeUses(r[n], x)][i] \in Nat
      BY EdgeUsesSum
    <3>. QED BY <3>1, SumNat, PivotsFinite
  <2>2. Outside(r, M)[x] = S + M[x] /\ Outside(r, L)[x] = S + L[x]
    BY DEF Outside
  <2>. HIDE DEF S
  <2>. QED BY <2>1, <2>2
<1>. QED BY <1>1, <1>2, OutsideIs

\* Waiting for an operand leaves the graph whole.
LEMMA FinishWhole ==
  ASSUME NEW g, NEW L, Whole(g, L), NEW o \in DOMAIN g.op
  PROVE  /\ Whole([g EXCEPT !.op = Finish(g.op, o)], L)
         /\ [g EXCEPT !.op = Finish(g.op, o)] = [refs |-> g.refs, op |-> Finish(g.op, o)]
         /\ Later(g.op, Finish(g.op, o))
         /\ Onward(g, [g EXCEPT !.op = Finish(g.op, o)], L)
         /\ o \in DOMAIN Finish(g.op, o) /\ IsTerminal(g.op, o) => Finish(g.op, o)[o].done
<1>. DEFINE t == Finish(g.op, o)
            h == [g EXCEPT !.op = t]
<1>1. Sound(g.op, Outside(g.refs, L)) /\ L \in [Nat -> Nat] /\ L[One] >= 1
  BY DEF Whole
<1>2. Sound(t, Outside(g.refs, L)) /\ Later(g.op, t) /\ (o \in DOMAIN t /\ IsTerminal(g.op, o) => t[o].done)
  BY <1>1, FinishSound
<1>. HIDE DEF t
<1>3. Whole(h, L) /\ h = [refs |-> g.refs, op |-> t]
  BY <1>1, <1>2, WholeStore
<1>4. Keeps(g.op, h.op, L)
  BY <1>2, <1>3, KeepsIs
<1>. QED BY <1>2, <1>3, <1>4 DEF t, Onward

\* A reference that was held besides the edges is given back, by unref or by discard.
LEMMA WholeTaken ==
  ASSUME NEW g, NEW M, Whole(g, M), NEW o \in Nat, M[o] >= 1, NEW N, Taken(M, o, N), N[One] >= 1,
         NEW t, t = Unref(g.op, o) \/ (IsTerminal(g.op, o) /\ \E arrived \in BOOLEAN : t = Discard(g.op, o, arrived))
  PROVE  Whole([refs |-> g.refs, op |-> t], N) /\ Later(g.op, t) /\ DOMAIN t \subseteq DOMAIN g.op
<1>. DEFINE H == Outside(g.refs, M)
            K == Outside(g.refs, N)
            s == g.op
<1>1. Sound(s, H) /\ M \in [Nat -> Nat] /\ g.refs \in [Pivot -> Seq(Edges)]
  BY DEF Whole
<1>2. N \in [Nat -> Nat] /\ \A x \in Nat : N[x] = M[x] - Is(o, x)
  BY DEF Taken
<1>3. Taken(H, o, K) /\ H[o] >= 1
  <2>1. /\ H \in [Nat -> Nat] /\ K \in [Nat -> Nat]
        /\ \A x \in Nat : /\ K[x] = H[x] - M[x] + N[x]
                           /\ H[x] >= M[x]
                           /\ H[x] \in Nat /\ K[x] \in Nat
                           /\ M[x] \in Nat /\ N[x] \in Nat
    BY <1>1, <1>2, Outsides, ZenonT(40)
  <2>. HIDE DEF H, K
  <2>2. \A x : Is(o, x) \in Nat
    BY DEF Is
  <2>3. ASSUME NEW x \in Nat PROVE K[x] = H[x] - Is(o, x)
    BY <1>2, <2>1, <2>2
  <2>4. H[o] >= 1
    BY <2>1
  <2>. QED BY <2>1, <2>3, <2>4 DEF Taken
<1>. HIDE DEF H, K
<1>4. Sound(t, K) /\ DOMAIN t \subseteq DOMAIN s /\ Later(s, t)
  <2>1. CASE t = Unref(s, o)
    <3>1. /\ Sound(Unref(s, o), K) /\ DOMAIN Unref(s, o) \subseteq DOMAIN s
          /\ \A n \in DOMAIN Unref(s, o) : Same(s, Unref(s, o), n)
      BY <1>1, <1>3, UnrefSound
    <3>. QED BY <2>1, <3>1 DEF Later, Same
  <2>2. CASE IsTerminal(s, o) /\ \E arrived \in BOOLEAN : t = Discard(s, o, arrived)
    BY <1>1, <1>3, <2>2, DiscardSound
  <2>. QED BY <2>1, <2>2
<1>. DEFINE h == [g EXCEPT !.op = t]
<1>5. Whole(h, N) /\ h = [refs |-> g.refs, op |-> t]
  BY <1>2, <1>4, WholeStore DEF K
<1>. QED BY <1>4, <1>5

\* What a removed edge referred to is given back.
LEMMA InheritedTaken ==
  ASSUME NEW L \in [Nat -> Nat], L[One] >= 1, NEW e \in Edges
  PROVE  \E M, N : /\ Inherited(L, e, M) /\ Taken(M, e.coefficient, N) /\ Taken(N, e.numeric, L)
                   /\ M[e.coefficient] >= 1 /\ N[e.numeric] >= 1 /\ N[One] >= 1 /\ M[One] >= 1
                   /\ M \in [Nat -> Nat] /\ N \in [Nat -> Nat] /\ \A x \in Nat : M[x] >= L[x] /\ N[x] >= L[x]
<1>1. /\ e.coefficient \in Nat /\ e.numeric \in Nat
      /\ \A x : Touches(e, x) = Is(e.coefficient, x) + Is(e.numeric, x)
  BY EdgeParts
<1>2. \A a, x : Is(a, x) \in Nat
  BY DEF Is
<1>3. \A a : Is(a, a) = 1
  BY DEF Is
<1>. DEFINE M == [x \in Nat |-> L[x] + Touches(e, x)]
            N == [x \in Nat |-> L[x] + Is(e.numeric, x)]
<1>4. \A x \in Nat : M[x] = L[x] + Is(e.coefficient, x) + Is(e.numeric, x) /\ N[x] = L[x] + Is(e.numeric, x) /\ L[x] \in Nat
  BY <1>1, <1>2
<1>5. M \in [Nat -> Nat] /\ N \in [Nat -> Nat]
  BY <1>1, <1>2
<1>6. Inherited(L, e, M)
  BY <1>5 DEF Inherited
<1>7. One \in Nat
  BY DEF One
<1>. HIDE DEF M, N
<1>8. ASSUME NEW x \in Nat
      PROVE  M[x] >= L[x] /\ N[x] >= L[x] /\ N[x] = M[x] - Is(e.coefficient, x) /\ L[x] = N[x] - Is(e.numeric, x)
  BY <1>2, <1>4
<1>9. M[e.coefficient] >= 1 /\ N[e.numeric] >= 1 /\ N[One] >= 1 /\ M[One] >= 1
  BY <1>1, <1>2, <1>3, <1>4, <1>7
<1>10. Taken(M, e.coefficient, N) /\ Taken(N, e.numeric, L)
  BY <1>5, <1>8 DEF Taken
<1>. QED BY <1>5, <1>6, <1>8, <1>9, <1>10

GivenUp(s, e, t) ==
  \/ t = Unref(Unref(s, e.coefficient), e.numeric)
  \/ /\ IsTerminal(s, e.coefficient)
     /\ \E arrived \in BOOLEAN : t = Unref(Discard(s, e.coefficient, arrived), e.numeric)

\* An edge is taken out and its references are given back.
LEMMA EdgeGone ==
  ASSUME NEW g, NEW L, Whole(g, L), NEW i \in Pivot, NEW j \in 1 .. Len(g.refs[i]), NEW t,
         GivenUp(g.op, g.refs[i][j], t)
  PROVE  /\ Whole([refs |-> Removed(g, i, j).refs, op |-> t], L)
         /\ Keeps(g.op, t, L)
         /\ DOMAIN t \subseteq DOMAIN g.op /\ Later(g.op, t)
<1>. DEFINE e == g.refs[i][j]
            h == Removed(g, i, j)
<1>1. e \in Edges /\ L \in [Nat -> Nat] /\ L[One] >= 1
  BY WholeEdge DEF Whole, FineEdge
<1>2. PICK M, N : /\ Inherited(L, e, M) /\ Taken(M, e.coefficient, N) /\ Taken(N, e.numeric, L)
                   /\ M[e.coefficient] >= 1 /\ N[e.numeric] >= 1 /\ N[One] >= 1 /\ M[One] >= 1
                   /\ M \in [Nat -> Nat] /\ N \in [Nat -> Nat] /\ \A x \in Nat : M[x] >= L[x] /\ N[x] >= L[x]
  BY <1>1, InheritedTaken
<1>3. Whole(h, M) /\ h.op = g.op
  <2>1. Whole(h, M)
    BY <1>2, RemoveSound
  <2>. QED BY <2>1 DEF Removed
<1>4. e.coefficient \in Nat /\ e.numeric \in Nat
  BY <1>1, EdgeParts
<1>. HIDE DEF h, e
<1>5. PICK a : /\ t = Unref(a, e.numeric)
               /\ a = Unref(g.op, e.coefficient) \/ (IsTerminal(g.op, e.coefficient) /\ \E arrived \in BOOLEAN : a = Discard(g.op, e.coefficient, arrived))
  <2>1. CASE t = Unref(Unref(g.op, e.coefficient), e.numeric)
    <3>. WITNESS Unref(g.op, e.coefficient)
    <3>. QED BY <2>1
  <2>2. CASE /\ IsTerminal(g.op, e.coefficient)
             /\ \E arrived \in BOOLEAN : t = Unref(Discard(g.op, e.coefficient, arrived), e.numeric)
    <3>1. PICK arrived \in BOOLEAN : t = Unref(Discard(g.op, e.coefficient, arrived), e.numeric)
      BY <2>2
    <3>. WITNESS Discard(g.op, e.coefficient, arrived)
    <3>. QED BY <2>2, <3>1
  <2>. QED BY <2>1, <2>2 DEF e, GivenUp
<1>. DEFINE b == [refs |-> h.refs, op |-> a]
<1>6. Whole(b, N) /\ Later(g.op, a) /\ DOMAIN a \subseteq DOMAIN g.op
  BY <1>2, <1>3, <1>4, <1>5, WholeTaken
<1>7. b.op = a /\ b.refs = h.refs
  OBVIOUS
<1>. HIDE DEF b
<1>. DEFINE c == [refs |-> b.refs, op |-> t]
<1>8. Whole(c, L) /\ Later(a, t) /\ DOMAIN t \subseteq DOMAIN a
  <2>1. t = Unref(b.op, e.numeric) \/ (IsTerminal(b.op, e.numeric) /\ \E arrived \in BOOLEAN : t = Discard(b.op, e.numeric, arrived))
    <3>1. t = Unref(b.op, e.numeric)
      BY <1>5, <1>7
    <3>. QED BY <3>1
  <2>2. Whole(b, N)
    BY <1>6
  <2>3. Whole(c, L) /\ Later(b.op, t) /\ DOMAIN t \subseteq DOMAIN b.op
    BY <1>1, <1>2, <1>4, <2>1, <2>2, WholeTaken
  <2>. QED BY <1>7, <2>3
<1>9. c.op = t /\ c = [refs |-> h.refs, op |-> t]
  BY <1>7
<1>. HIDE DEF c
<1>10. Later(g.op, t)
  BY <1>6, <1>8 DEF Later
<1>11. ASSUME NEW o \in Nat, L[o] >= 1 PROVE o \in DOMAIN t /\ o \in DOMAIN g.op
  <2>1. o \in DOMAIN t
    BY <1>8, <1>9, <1>11, WholeIs
  <2>. QED BY <2>1, <1>6, <1>8
<1>12. Keeps(g.op, t, L)
  BY <1>10, <1>11 DEF Later, Keeps
<1>. QED BY <1>6, <1>8, <1>9, <1>10, <1>12 DEF h

LEMMA RowIs ==
  ASSUME NEW r \in [Pivot -> Seq(Edges)], NEW i \in Pivot
  PROVE  r[i] \in Seq(Edges) /\ Len(r[i]) \in Nat /\ DOMAIN r[i] = 1 .. Len(r[i])
BY SeqElements

\* Where heads were apart they still are.
HeadsKept(r, q) ==
  \A p \in Pivot : (HeadsApart(r[p]) => HeadsApart(q[p])) /\ (r[p] = <<>> => q[p] = <<>>)

LEMMA HeadsKeptOn ==
  ASSUME NEW r, NEW q, NEW t, HeadsKept(r, q), HeadsKept(q, t)
  PROVE  HeadsKept(r, t)
BY DEF HeadsKept

LEMMA HeadsSame ==
  ASSUME NEW r \in [Pivot -> Seq(Edges)], NEW q \in [Pivot -> Seq(Edges)], SameHeads(r, q)
  PROVE  HeadsKept(r, q)
<1>1. ASSUME NEW p \in Pivot, HeadsApart(r[p]) PROVE HeadsApart(q[p])
  <2>1. r[p] \in Seq(Edges) /\ q[p] \in Seq(Edges)
    OBVIOUS
  <2>2. DOMAIN r[p] = 1 .. Len(r[p]) /\ DOMAIN q[p] = 1 .. Len(q[p])
    BY <2>1, SeqElements
  <2>3. Len(q[p]) = Len(r[p]) /\ \A k \in 1 .. Len(r[p]) : q[p][k].head = r[p][k].head
    BY DEF SameHeads
  <2>. QED BY <1>1, <2>2, <2>3 DEF HeadsApart
<1>2. ASSUME NEW p \in Pivot, r[p] = <<>> PROVE q[p] = <<>>
  <2>1. Len(q[p]) = Len(r[p]) /\ q[p] \in Seq(Edges)
    BY DEF SameHeads
  <2>. QED BY <1>2, <2>1
<1>. QED BY <1>1, <1>2 DEF HeadsKept

LEMMA AtSameHeads ==
  ASSUME NEW g, NEW h, NEW i, NEW j, AtEdge(g, h, i, j)
  PROVE  SameHeads(g.refs, h.refs)
BY DEF AtEdge, SameHeads

LEMMA MovedApart ==
  ASSUME NEW edges \in Seq(Edges), NEW j \in 1 .. Len(edges), HeadsApart(edges)
  PROVE  HeadsApart(Moved(edges, j))
<1>. DEFINE es == Moved(edges, j)
<1>1. IsMoved(es, Edges, edges, j)
  BY MovedAre
<1>. HIDE DEF es
<1>2. DOMAIN es = 1 .. Len(es) /\ DOMAIN edges = 1 .. Len(edges)
  BY <1>1, SeqElements DEF IsMoved
<1>3. ASSUME NEW k \in DOMAIN es, NEW m \in DOMAIN es, es[k].head = es[m].head PROVE k = m
  <2>1. /\ k \in 1 .. Len(edges) /\ k < Len(edges) /\ es[k] = IF k = j THEN edges[Len(edges)] ELSE edges[k]
        /\ m \in 1 .. Len(edges) /\ m < Len(edges) /\ es[m] = IF m = j THEN edges[Len(edges)] ELSE edges[m]
        /\ Len(edges) \in DOMAIN edges
    BY <1>1, <1>2 DEF IsMoved
  <2>2. \A a, b \in 1 .. Len(edges) : edges[a].head = edges[b].head => a = b
    BY <1>2 DEF HeadsApart
  <2>. QED BY <1>3, <1>2, <2>1, <2>2
<1>4. HeadsApart(es)
  BY <1>3 DEF HeadsApart
<1>. QED BY <1>4 DEF es

\* The rows of a graph after an edge was removed.
RowRemoved(r, q, i, j) ==
  /\ q \in [Pivot -> Seq(Edges)] /\ HeadsKept(r, q)
  /\ q[i] = Moved(r[i], j) /\ Len(q[i]) = Len(r[i]) - 1
  /\ \A p \in Pivot : p # i => q[p] = r[p]

LEMMA RemovedIs ==
  ASSUME NEW g, g.refs \in [Pivot -> Seq(Edges)], NEW i \in Pivot, NEW j \in 1 .. Len(g.refs[i])
  PROVE  RowRemoved(g.refs, Removed(g, i, j).refs, i, j)
<1>. DEFINE es == Moved(g.refs[i], j)
            q == Removed(g, i, j).refs
<1>1. g.refs[i] \in Seq(Edges)
  OBVIOUS
<1>2. IsMoved(es, Edges, g.refs[i], j) /\ (HeadsApart(g.refs[i]) => HeadsApart(es))
  BY <1>1, MovedAre, MovedApart
<1>3. q = [g.refs EXCEPT ![i] = es]
  BY DEF Removed
<1>. HIDE DEF es, q
<1>4. q \in [Pivot -> Seq(Edges)] /\ q[i] = es /\ \A p \in Pivot : p # i => q[p] = g.refs[p]
  BY <1>2, <1>3 DEF IsMoved
<1>5. HeadsKept(g.refs, q)
  <2>1. g.refs[i] # <<>>
    OBVIOUS
  <2>. QED BY <1>2, <1>4, <2>1 DEF HeadsKept
<1>. QED BY <1>2, <1>4, <1>5 DEF es, q, IsMoved, RowRemoved

\* qs_pivot_graph_terminate_all: the rows keep their heads.
LEMMA AllBaked ==
  ASSUME NEW g, NEW L, Whole(g, L), NEW i \in Pivot
  PROVE  Onward(g, TerminateAll(g, i), L) /\ HeadsKept(g.refs, TerminateAll(g, i).refs)
<1>. DEFINE n == Len(g.refs[i])
<1>1. n \in Nat /\ g.refs \in [Pivot -> Seq(Edges)]
  BY WholeIs, RowIs
<1>2. PICK f : Baking(f, g, i, n) /\ TerminateAll(g, i) = f[n]
  BY <1>1, BakingIs
<1>. HIDE DEF n
<1>. DEFINE Good == {k \in Nat : k <= n => Onward(g, f[k], L) /\ SameHeads(g.refs, f[k].refs)}
<1>3. 0 \in Good
  <2>1. f[0] = g
    BY <1>2 DEF Baking
  <2>2. SameHeads(g.refs, g.refs)
    BY DEF SameHeads
  <2>. QED BY <2>1, <2>2, OnwardIs
<1>4. ASSUME NEW k \in 0 .. (n - 1), k \in Good PROVE k + 1 \in Good
  <2>1. Onward(g, f[k], L) /\ SameHeads(g.refs, f[k].refs)
    BY <1>1, <1>4
  <2>2. f[k + 1] = TerminateEdge(f[k], i, k + 1)
    BY <1>1, <1>2 DEF Baking
  <2>3. Whole(f[k], L) /\ k + 1 \in 1 .. Len(f[k].refs[i])
    BY <1>1, <2>1 DEF Onward, SameHeads, n
  <2>4. EdgeBaked(f[k], f[k + 1], L, i, k + 1)
    BY <2>2, <2>3, EdgeIsBaked
  <2>5. Onward(f[k], f[k + 1], L) /\ AtEdge(f[k], f[k + 1], i, k + 1)
    BY <2>4 DEF EdgeBaked, Onward
  <2>6. SameHeads(g.refs, f[k + 1].refs)
    BY <2>1, <2>5 DEF SameHeads, AtEdge
  <2>. QED BY <2>1, <2>5, <2>6, OnwardOn
<1>5. n \in Good
  <2>. HIDE DEF Good
  <2>. QED BY <1>1, <1>3, <1>4, StepByStep
<1>6. Onward(g, f[n], L) /\ SameHeads(g.refs, f[n].refs)
  BY <1>1, <1>5
<1>7. f[n].refs \in [Pivot -> Seq(Edges)]
  BY <1>6 DEF Onward, Whole
<1>. QED BY <1>1, <1>2, <1>6, <1>7, HeadsSame

\* One step of qs_pivot_graph_acquire: the next edge is looked at, or there is one edge less.
AcquiredNth(z, y, i, L) ==
  /\ Onward(z.graph, y.graph, L) /\ HeadsKept(z.graph.refs, y.graph.refs)
  /\ y = [graph |-> y.graph, j |-> y.j] /\ y.j \in Nat /\ y.j >= 1 /\ Len(y.graph.refs[i]) \in Nat
  /\ Len(y.graph.refs[i]) - y.j = Len(z.graph.refs[i]) - z.j - 1

\* One step of qs_pivot_graph_acquire, which may remove the edge.
LEMMA AcquireNthSound ==
  ASSUME NEW z, NEW L, Whole(z.graph, L), NEW i \in Pivot, z = [graph |-> z.graph, j |-> z.j],
         z.j \in 1 .. Len(z.graph.refs[i])
  PROVE  AcquiredNth(z, AcquireNth(z, i), i, L)
<1>. DEFINE g == z.graph
            j == z.j
            e == g.refs[i][j]
            s1 == Finish(g.op, e.coefficient)
            a == [g EXCEPT !.op = s1]
            s == Finish(s1, e.numeric)
            b == [a EXCEPT !.op = s]
            y == AcquireNth(z, i)
<1>1. e.coefficient \in DOMAIN g.op
  BY WholeEdge DEF FineEdge
<1>2. Whole(a, L) /\ a.op = s1 /\ a.refs = g.refs /\ Onward(g, a, L)
  BY <1>1, FinishWhole
<1>. HIDE DEF a, s1
<1>3. j \in 1 .. Len(a.refs[i]) /\ e = a.refs[i][j]
  BY <1>2
<1>4. e.numeric \in DOMAIN a.op
  BY <1>2, <1>3, WholeEdge DEF FineEdge
<1>5. Whole(b, L) /\ b = [refs |-> g.refs, op |-> s] /\ Onward(a, b, L)
  BY <1>2, <1>4, FinishWhole
<1>6. b.op = s /\ b.refs = g.refs /\ Onward(g, b, L)
  BY <1>2, <1>5, OnwardOn
<1>7. s = Finish(Finish(z.graph.op, e.coefficient), e.numeric)
  BY DEF s1
<1>. HIDE DEF b, s
<1>8. g.refs \in [Pivot -> Seq(Edges)] /\ Len(g.refs[i]) \in Nat
  BY WholeIs, RowIs
<1>9. CASE s[e.coefficient].val # 0
  <2>1. y = [graph |-> [g EXCEPT !.op = s], j |-> z.j + 1]
    BY <1>7, <1>9 DEF AcquireNth
  <2>2. y.graph = b /\ y.j = j + 1 /\ y = [graph |-> y.graph, j |-> y.j]
    <3>1. g = [refs |-> g.refs, op |-> g.op]
      BY DEF Whole
    <3>2. y.graph = [g EXCEPT !.op = s] /\ y.j = j + 1 /\ y = [graph |-> y.graph, j |-> y.j]
      BY <2>1
    <3>. QED BY <1>5, <3>1, <3>2
  <2>3. HeadsKept(g.refs, b.refs)
    BY <1>6 DEF HeadsKept
  <2>. HIDE DEF y, g, j
  <2>4. j \in 1 .. Len(g.refs[i])
    BY DEF g, j
  <2>5. y.j \in Nat /\ y.j >= 1 /\ Len(b.refs[i]) \in Nat /\ Len(b.refs[i]) - y.j = Len(g.refs[i]) - j - 1
    BY <1>6, <1>8, <2>2, <2>4
  <2>. QED BY <1>6, <2>2, <2>3, <2>5 DEF AcquiredNth, y, g, j
<1>10. CASE s[e.coefficient].val = 0
  <2>. DEFINE t == Unref(Unref(s, e.coefficient), e.numeric)
              c == [refs |-> Removed(b, i, j).refs, op |-> t]
  <2>1. Removed(b, i, j).refs = [g.refs EXCEPT ![i] = Moved(g.refs[i], j)]
    BY <1>6 DEF Removed
  <2>2. y = [z EXCEPT !.graph = [refs |-> [g.refs EXCEPT ![i] = Moved(g.refs[i], z.j)],
                               op   |-> Unref(Unref(s, e.coefficient), e.numeric)]]
    BY <1>7, <1>10 DEF AcquireNth
  <2>3. y.graph = c /\ y.j = j /\ y = [graph |-> y.graph, j |-> y.j]
    <3>. HIDE DEF y
    <3>1. y = [z EXCEPT !.graph = c]
      BY <2>1, <2>2
    <3>. HIDE DEF c
    <3>. QED BY <3>1
  <2>4. Whole(b, L) /\ j \in 1 .. Len(b.refs[i]) /\ b.refs[i][j] = e
    BY <1>5, <1>6
  <2>5. /\ Whole(c, L)
        /\ Keeps(b.op, t, L)
    <3>1. t = Unref(Unref(b.op, b.refs[i][j].coefficient), b.refs[i][j].numeric)
      BY <1>6, <2>4
    <3>. HIDE DEF t
    <3>2. GivenUp(b.op, b.refs[i][j], t)
      BY <3>1 DEF GivenUp
    <3>. QED BY <2>4, <3>2, EdgeGone
  <2>6. Keeps(b.op, c.op, L)
    BY <2>5
  <2>7. /\ HeadsKept(b.refs, Removed(b, i, j).refs)
        /\ Len(Removed(b, i, j).refs[i]) = Len(b.refs[i]) - 1
    BY <1>6, <1>8, <2>4, RemovedIs DEF RowRemoved
  <2>8. Onward(g, c, L)
    BY <1>6, <2>5, <2>6, OnwardOn DEF Onward
  <2>9. c.refs = Removed(b, i, j).refs
    OBVIOUS
  <2>. HIDE DEF y, c, g, j
  <2>10. j \in 1 .. Len(g.refs[i])
    BY DEF g, j
  <2>11. y.j \in Nat /\ y.j >= 1 /\ Len(c.refs[i]) \in Nat /\ Len(c.refs[i]) - y.j = Len(g.refs[i]) - j - 1
    <3>1. Len(c.refs[i]) = Len(g.refs[i]) - 1
      BY <1>6, <2>7, <2>9
    <3>. DEFINE m == Len(c.refs[i])
                n == Len(g.refs[i])
    <3>2. m = n - 1 /\ n \in Nat /\ j \in 1 .. n /\ y.j = j
      BY <1>8, <2>3, <2>10, <3>1
    <3>. HIDE DEF m, n
    <3>3. y.j \in Nat /\ y.j >= 1 /\ m \in Nat /\ m - y.j = n - j - 1
      BY <3>2
    <3>. QED BY <3>3 DEF m, n
  <2>. QED BY <1>6, <2>3, <2>7, <2>8, <2>9, <2>11 DEF AcquiredNth, y, g, j
<1>. QED BY <1>9, <1>10

\* How qs_pivot_graph_acquire goes through the edges.
Acquiring(f, g, i, n) == f[0] = [graph |-> g, j |-> 1] /\ \A k \in 1 .. n : f[k] = AcquireNth(f[k - 1], i)

\* The loop has a table of its intermediate graphs.
LEMMA AcquiringIs ==
  ASSUME NEW g, NEW i, Len(g.refs[i]) \in Nat
  PROVE  \E f : Acquiring(f, g, i, Len(g.refs[i])) /\ AcquireAll(g, i) = f[Len(g.refs[i])].graph
<1>. DEFINE n == Len(g.refs[i])
            IsIt(f, m) == f = [k \in 0 .. m |-> IF k = 0 THEN [graph |-> g, j |-> 1] ELSE AcquireNth(f[k - 1], i)]
            Good == {m \in Nat : \E f : IsIt(f, m)}
<1>1. 0 \in Good
  <2>. DEFINE h == [k \in 0 .. 0 |-> [graph |-> g, j |-> 1]]
  <2>1. \A k \in 0 .. 0 : h[k] = IF k = 0 THEN [graph |-> g, j |-> 1] ELSE AcquireNth(h[k - 1], i)
    OBVIOUS
  <2>2. IsIt(h, 0)
    BY <2>1
  <2>. QED BY <2>2
<1>2. ASSUME NEW m \in 0 .. (n - 1), m \in Good PROVE m + 1 \in Good
  <2>1. PICK f : IsIt(f, m)
    BY <1>2
  <2>. DEFINE h == [k \in 0 .. (m + 1) |-> IF k = m + 1 THEN AcquireNth(f[m], i) ELSE f[k]]
  <2>2. \A k \in 0 .. m : h[k] = f[k] /\ f[k] = IF k = 0 THEN [graph |-> g, j |-> 1] ELSE AcquireNth(f[k - 1], i)
    BY <2>1
  <2>3. h[m + 1] = AcquireNth(f[m], i)
    OBVIOUS
  <2>4. ASSUME NEW k \in 0 .. (m + 1) PROVE h[k] = IF k = 0 THEN [graph |-> g, j |-> 1] ELSE AcquireNth(h[k - 1], i)
    <3>1. CASE k = 0
      <4>1. 0 \in 0 .. m
        OBVIOUS
      <4>2. h[0] = [graph |-> g, j |-> 1]
        BY <2>2, <4>1
      <4>. HIDE DEF h
      <4>. QED BY <3>1, <4>2
    <3>2. CASE k \in 1 .. m
      <4>1. k \in 0 .. m /\ k - 1 \in 0 .. m /\ k # 0
        BY <3>2
      <4>2. h[k] = f[k] /\ f[k] = AcquireNth(f[k - 1], i) /\ h[k - 1] = f[k - 1]
        BY <2>2, <4>1
      <4>. HIDE DEF h
      <4>. QED BY <4>1, <4>2
    <3>3. CASE k = m + 1
      <4>1. k # 0 /\ k - 1 = m /\ m \in 0 .. m
        BY <3>3
      <4>2. h[k - 1] = f[m]
        BY <2>2, <4>1
      <4>. HIDE DEF h
      <4>. QED BY <2>3, <3>3, <4>1, <4>2
    <3>. QED BY <3>1, <3>2, <3>3
  <2>5. IsIt(h, m + 1)
    <3>1. h = [k \in 0 .. (m + 1) |-> h[k]]
      OBVIOUS
    <3>. HIDE DEF h
    <3>. QED BY <2>4, <3>1
  <2>6. m + 1 \in Nat
    OBVIOUS
  <2>. HIDE DEF IsIt
  <2>. QED BY <2>5, <2>6
<1>3. n \in Good
  <2>. HIDE DEF Good
  <2>. QED BY <1>1, <1>2, StepByStep
<1>. DEFINE c == CHOOSE f : IsIt(f, n)
<1>4. IsIt(c, n)
  BY <1>3
<1>5. AcquireAll(g, i) = c[n].graph
  BY Zenon DEF AcquireAll
<1>6. Acquiring(c, g, i, n)
  <2>1. n \in Nat
    OBVIOUS
  <2>2. \A k \in 0 .. n : c[k] = IF k = 0 THEN [graph |-> g, j |-> 1] ELSE AcquireNth(c[k - 1], i)
    BY <1>4
  <2>. HIDE DEF c, n, IsIt
  <2>3. 0 \in 0 .. n /\ \A k \in 1 .. n : k \in 0 .. n /\ k # 0
    BY <2>1
  <2>4. c[0] = [graph |-> g, j |-> 1]
    BY <2>2, <2>3
  <2>5. \A k \in 1 .. n : c[k] = AcquireNth(c[k - 1], i)
    BY <2>2, <2>3
  <2>. QED BY <2>4, <2>5 DEF Acquiring
<1>. QED BY <1>5, <1>6

\* The whole loop of qs_pivot_graph_acquire.
LEMMA AcquiredAll ==
  ASSUME NEW g, NEW L, Whole(g, L), NEW i \in Pivot
  PROVE  Onward(g, AcquireAll(g, i), L) /\ HeadsKept(g.refs, AcquireAll(g, i).refs)
<1>. DEFINE n == Len(g.refs[i])
<1>1. n \in Nat
  BY WholeIs, RowIs
<1>2. PICK f : Acquiring(f, g, i, n) /\ AcquireAll(g, i) = f[n].graph
  BY <1>1, AcquiringIs
<1>. HIDE DEF n
<1>. DEFINE Fine(k) == /\ Onward(g, f[k].graph, L) /\ HeadsKept(g.refs, f[k].graph.refs)
                       /\ f[k] = [graph |-> f[k].graph, j |-> f[k].j] /\ f[k].j \in Nat /\ f[k].j >= 1
                       /\ Len(f[k].graph.refs[i]) - f[k].j = n - k - 1
                       /\ Len(f[k].graph.refs[i]) \in Nat
            Good == {k \in Nat : k <= n => Fine(k)}
<1>3. 0 \in Good
  <2>1. f[0] = [graph |-> g, j |-> 1]
    BY <1>2 DEF Acquiring
  <2>2. f[0].graph = g /\ f[0].j = 1 /\ f[0] = [graph |-> f[0].graph, j |-> f[0].j]
    BY <2>1
  <2>3. HeadsKept(g.refs, g.refs)
    BY DEF HeadsKept
  <2>4. n - 1 = n - 0 - 1
    BY <1>1
  <2>5. Fine(0)
    BY <1>1, <2>2, <2>3, <2>4, OnwardIs DEF n
  <2>. QED BY <2>5
<1>4. ASSUME NEW k \in 0 .. (n - 1), k \in Good PROVE k + 1 \in Good
  <2>1. Fine(k) /\ k \in Nat /\ k + 1 \in 1 .. n /\ k + 1 \in Nat
    BY <1>1, <1>4
  <2>2. f[k + 1] = AcquireNth(f[k], i)
    <3>1. \A m \in 1 .. n : f[m] = AcquireNth(f[m - 1], i)
      BY <1>2 DEF Acquiring
    <3>2. k + 1 - 1 = k
      OBVIOUS
    <3>. QED BY <2>1, <3>1, <3>2
  <2>3. Whole(f[k].graph, L)
    BY <2>1 DEF Onward
  <2>4. f[k].j \in 1 .. Len(f[k].graph.refs[i])
    <3>. DEFINE a == Len(f[k].graph.refs[i])
                b == f[k].j
    <3>1. a - b = n - k - 1 /\ a \in Nat /\ b \in Nat /\ b >= 1
      BY <2>1
    <3>. HIDE DEF a, b, Fine
    <3>2. b \in 1 .. a
      BY <1>1, <3>1
    <3>. QED BY <3>2 DEF a, b
  <2>5. AcquiredNth(f[k], f[k + 1], i, L)
    <3>1. f[k] = [graph |-> f[k].graph, j |-> f[k].j]
      BY <2>1
    <3>. HIDE DEF Fine
    <3>. QED BY <2>2, <2>3, <2>4, <3>1, AcquireNthSound
  <2>6. Onward(g, f[k + 1].graph, L) /\ HeadsKept(g.refs, f[k + 1].graph.refs)
    BY <2>1, <2>5, OnwardOn, HeadsKeptOn DEF AcquiredNth
  <2>7. f[k + 1] = [graph |-> f[k + 1].graph, j |-> f[k + 1].j] /\ f[k + 1].j \in Nat /\ f[k + 1].j >= 1
        /\ Len(f[k + 1].graph.refs[i]) \in Nat
    BY <2>5 DEF AcquiredNth
  <2>8. Len(f[k + 1].graph.refs[i]) - f[k + 1].j = n - (k + 1) - 1
    <3>1. Len(f[k + 1].graph.refs[i]) - f[k + 1].j = Len(f[k].graph.refs[i]) - f[k].j - 1
      BY <2>5 DEF AcquiredNth
    <3>2. Len(f[k].graph.refs[i]) - f[k].j = n - k - 1
      BY <2>1
    <3>3. n - k - 1 - 1 = n - (k + 1) - 1
      BY <1>1, <2>1
    <3>. QED BY <3>1, <3>2, <3>3
  <2>9. Fine(k + 1)
    BY <2>6, <2>7, <2>8
  <2>. HIDE DEF Fine
  <2>. QED BY <2>1, <2>9
<1>5. n \in Good
  <2>. HIDE DEF Good
  <2>. QED BY <1>1, <1>3, <1>4, StepByStep
<1>6. Fine(n)
  BY <1>1, <1>5
<1>. QED BY <1>1, <1>2, <1>6 DEF n

\* qs_pivot_graph_acquire: zeros are removed, and no head is met twice.
LEMMA AcquireSound ==
  ASSUME NEW g, NEW L, Whole(g, L), NEW i \in Pivot
  PROVE  Onward(g, Acquire(g, i), L) /\ HeadsKept(g.refs, Acquire(g, i).refs)
<1>. DEFINE h == TerminateAll(g, i)
<1>1. Onward(g, h, L) /\ HeadsKept(g.refs, h.refs) /\ Whole(h, L)
  BY AllBaked DEF Onward
<1>. HIDE DEF h
<1>2. Onward(h, AcquireAll(h, i), L) /\ HeadsKept(h.refs, AcquireAll(h, i).refs)
  BY <1>1, AcquiredAll
<1>3. Acquire(g, i) = AcquireAll(h, i)
  BY DEF Acquire, h
<1>. QED BY <1>1, <1>2, <1>3, OnwardOn, HeadsKeptOn

\* free_pivot gives back what the edges had.
LEMMA FreePivotSound ==
  ASSUME NEW g, NEW L, Whole(g, L), NEW i \in Pivot
  PROVE  /\ Onward(g, FreePivot(g, i), L) /\ HeadsKept(g.refs, FreePivot(g, i).refs)
         /\ FreePivot(g, i).refs[i] = <<>>
<1>. DEFINE es == g.refs[i]
            none == <<>>
            s == g.op
            q == [g.refs EXCEPT ![i] = none]
            back == [o \in DOMAIN s |-> EdgeUses(es, o)]
            t == Release(s, back)
            H == Outside(g.refs, L)
            K == Outside(q, L)
            h == FreePivot(g, i)
<1>1. /\ Store(s) /\ g.refs \in [Pivot -> Seq(Edges)] /\ L \in [Nat -> Nat] /\ Sound(s, H)
      /\ L[One] >= 1 /\ DOMAIN s \subseteq Nat /\ Counted(s, H) /\ es \in Seq(Edges)
  BY WholeIs DEF Whole, Store
<1>2. none \in Seq(Edges) /\ Len(none) = 0
  OBVIOUS
<1>3. h = [refs |-> q, op |-> t]
  BY DEF FreePivot, ReleaseEdges
<1>4. q \in [Pivot -> Seq(Edges)] /\ q[i] = none /\ \A p \in Pivot : p # i => q[p] = g.refs[p]
  BY <1>1
<1>5. \A o : EdgeUses(none, o) = 0 /\ EdgeUses(es, o) \in Nat
  <2>. HIDE DEF none
  <2>1. ASSUME NEW o PROVE EdgeUses(none, o) = 0
    <3>1. EdgeUses(none, o) = 0 <=> \A k \in 1 .. Len(none) : none[k].coefficient # o /\ none[k].numeric # o
      BY <1>2, EdgeUsesSum
    <3>2. \A k \in 1 .. Len(none) : FALSE
      BY <1>2
    <3>. QED BY <3>1, <3>2
  <2>. QED BY <1>1, <2>1, EdgeUsesSum
<1>. HIDE DEF none
<1>6. H \in [Nat -> Nat] /\ K \in [Nat -> Nat]
  BY <1>1, <1>4, OutsideIs
<1>7. ASSUME NEW o \in Nat PROVE H[o] = K[o] + EdgeUses(es, o)
  <2>1. RowChanged(g.refs, L, L, i, none, o)
    BY <1>1, <1>2, OutsideChange
  <2>. DEFINE a == H[o]
              b == K[o]
              c == EdgeUses(es, o)
              l == L[o]
  <2>2. b = a - c + 0 - l + l
    BY <1>5, <2>1 DEF RowChanged
  <2>3. a \in Nat /\ b \in Nat /\ c \in Nat /\ l \in Nat
    BY <1>1, <1>5, <1>6
  <2>. HIDE DEF a, b, c, l
  <2>4. a = b + c
    BY <2>2, <2>3
  <2>. QED BY <2>4 DEF a, b, c
<1>8. Returned(s, H, back, K)
  <2>1. back \in [DOMAIN s -> Nat]
    BY <1>5
  <2>2. \A o \in DOMAIN s : H[o] = K[o] + back[o]
    BY <1>1, <1>7
  <2>3. ASSUME NEW o \in Nat \ DOMAIN s PROVE K[o] = 0
    <3>1. H[o] = 0 /\ H[o] = K[o] + EdgeUses(es, o) /\ K[o] \in Nat /\ EdgeUses(es, o) \in Nat
      BY <1>1, <1>5, <1>6, <1>7 DEF Counted
    <3>. QED BY <3>1
  <2>. HIDE DEF back, H, K
  <2>. QED BY <1>6, <2>1, <2>2, <2>3 DEF Returned
<1>. HIDE DEF H, back
<1>9. Sound(t, K) /\ DOMAIN t \subseteq DOMAIN s /\ \A o \in DOMAIN t : Same(s, t, o)
  BY <1>1, <1>8, GivenBack
<1>10. Later(s, t)
  BY <1>9 DEF Later, Same
<1>. HIDE DEF t
<1>11. Fits(g, i, none, t)
  BY <1>2 DEF Fits
<1>12. Whole([refs |-> q, op |-> t], L)
  BY <1>1, <1>2, <1>9, <1>10, <1>11, WholeChange
<1>13. h.op = t /\ h.refs = q /\ Whole(h, L)
  BY <1>3, <1>12
<1>14. Onward(g, h, L)
  BY <1>10, <1>13, KeepsIs DEF Onward
<1>15. HeadsApart(none)
  BY DEF HeadsApart, none
<1>16. HeadsKept(g.refs, q)
  BY <1>4, <1>15 DEF HeadsKept, none
<1>. QED BY <1>4, <1>13, <1>14, <1>16 DEF none

\* The first loop of qs_pivot_graph_destroy, over the pivots, ...
BakingEvery(f, g, pivots, n) == f[0] = g /\ \A k \in 1 .. n : f[k] = TerminateAll(f[k - 1], pivots[k])

\* The first loop of qs_pivot_graph_destroy has a table of its intermediate graphs, ...
LEMMA BakingEveryIs ==
  ASSUME NEW g, NEW pivots, Len(pivots) \in Nat
  PROVE  \E f : BakingEvery(f, g, pivots, Len(pivots)) /\ TerminateEvery(g, pivots) = f[Len(pivots)]
<1>. DEFINE n == Len(pivots)
            IsIt(f, m) == f = [k \in 0 .. m |-> IF k = 0 THEN g ELSE TerminateAll(f[k - 1], pivots[k])]
            Good == {m \in Nat : \E f : IsIt(f, m)}
<1>1. 0 \in Good
  <2>. DEFINE h == [k \in 0 .. 0 |-> g]
  <2>1. \A k \in 0 .. 0 : h[k] = IF k = 0 THEN g ELSE TerminateAll(h[k - 1], pivots[k])
    OBVIOUS
  <2>2. IsIt(h, 0)
    BY <2>1
  <2>. QED BY <2>2
<1>2. ASSUME NEW m \in 0 .. (n - 1), m \in Good PROVE m + 1 \in Good
  <2>1. PICK f : IsIt(f, m)
    BY <1>2
  <2>. DEFINE h == [k \in 0 .. (m + 1) |-> IF k = m + 1 THEN TerminateAll(f[m], pivots[(m + 1)]) ELSE f[k]]
  <2>2. \A k \in 0 .. m : h[k] = f[k] /\ f[k] = IF k = 0 THEN g ELSE TerminateAll(f[k - 1], pivots[k])
    BY <2>1
  <2>3. h[m + 1] = TerminateAll(f[m], pivots[(m + 1)])
    OBVIOUS
  <2>4. ASSUME NEW k \in 0 .. (m + 1) PROVE h[k] = IF k = 0 THEN g ELSE TerminateAll(h[k - 1], pivots[k])
    <3>1. CASE k = 0
      <4>1. 0 \in 0 .. m
        OBVIOUS
      <4>2. h[0] = g
        BY <2>2, <4>1
      <4>. HIDE DEF h
      <4>. QED BY <3>1, <4>2
    <3>2. CASE k \in 1 .. m
      <4>1. k \in 0 .. m /\ k - 1 \in 0 .. m /\ k # 0
        BY <3>2
      <4>2. h[k] = f[k] /\ f[k] = TerminateAll(f[k - 1], pivots[k]) /\ h[k - 1] = f[k - 1]
        BY <2>2, <4>1
      <4>. HIDE DEF h
      <4>. QED BY <4>1, <4>2
    <3>3. CASE k = m + 1
      <4>1. k # 0 /\ k - 1 = m /\ m \in 0 .. m
        BY <3>3
      <4>2. h[k - 1] = f[m]
        BY <2>2, <4>1
      <4>. HIDE DEF h
      <4>. QED BY <2>3, <3>3, <4>1, <4>2
    <3>. QED BY <3>1, <3>2, <3>3
  <2>5. IsIt(h, m + 1)
    <3>1. h = [k \in 0 .. (m + 1) |-> h[k]]
      OBVIOUS
    <3>. HIDE DEF h
    <3>. QED BY <2>4, <3>1
  <2>6. m + 1 \in Nat
    OBVIOUS
  <2>. HIDE DEF IsIt
  <2>. QED BY <2>5, <2>6
<1>3. n \in Good
  <2>. HIDE DEF Good
  <2>. QED BY <1>1, <1>2, StepByStep
<1>. DEFINE c == CHOOSE f : IsIt(f, n)
<1>4. IsIt(c, n)
  BY <1>3
<1>5. TerminateEvery(g, pivots) = c[n]
  BY Zenon DEF TerminateEvery
<1>6. BakingEvery(c, g, pivots, n)
  <2>1. n \in Nat
    OBVIOUS
  <2>2. \A k \in 0 .. n : c[k] = IF k = 0 THEN g ELSE TerminateAll(c[k - 1], pivots[k])
    BY <1>4
  <2>. HIDE DEF c, n, IsIt
  <2>3. 0 \in 0 .. n /\ \A k \in 1 .. n : k \in 0 .. n /\ k # 0
    BY <2>1
  <2>4. c[0] = g
    BY <2>2, <2>3
  <2>5. \A k \in 1 .. n : c[k] = TerminateAll(c[k - 1], pivots[k])
    BY <2>2, <2>3
  <2>. QED BY <2>4, <2>5 DEF BakingEvery
<1>. QED BY <1>5, <1>6

\* ... and the second.
Freeing(f, g, pivots, n) == f[0] = g /\ \A k \in 1 .. n : f[k] = FreePivot(Acquire(f[k - 1], pivots[k]), pivots[k])

\* ... and so has the second.
LEMMA FreeingIs ==
  ASSUME NEW g, NEW pivots, Len(pivots) \in Nat
  PROVE  \E f : Freeing(f, g, pivots, Len(pivots)) /\ FreeEvery(g, pivots) = f[Len(pivots)]
<1>. DEFINE n == Len(pivots)
            IsIt(f, m) == f = [k \in 0 .. m |-> IF k = 0 THEN g ELSE FreePivot(Acquire(f[k - 1], pivots[k]), pivots[k])]
            Good == {m \in Nat : \E f : IsIt(f, m)}
<1>1. 0 \in Good
  <2>. DEFINE h == [k \in 0 .. 0 |-> g]
  <2>1. \A k \in 0 .. 0 : h[k] = IF k = 0 THEN g ELSE FreePivot(Acquire(h[k - 1], pivots[k]), pivots[k])
    OBVIOUS
  <2>2. IsIt(h, 0)
    BY <2>1
  <2>. QED BY <2>2
<1>2. ASSUME NEW m \in 0 .. (n - 1), m \in Good PROVE m + 1 \in Good
  <2>1. PICK f : IsIt(f, m)
    BY <1>2
  <2>. DEFINE h == [k \in 0 .. (m + 1) |-> IF k = m + 1 THEN FreePivot(Acquire(f[m], pivots[(m + 1)]), pivots[(m + 1)]) ELSE f[k]]
  <2>2. \A k \in 0 .. m : h[k] = f[k] /\ f[k] = IF k = 0 THEN g ELSE FreePivot(Acquire(f[k - 1], pivots[k]), pivots[k])
    BY <2>1
  <2>3. h[m + 1] = FreePivot(Acquire(f[m], pivots[(m + 1)]), pivots[(m + 1)])
    OBVIOUS
  <2>4. ASSUME NEW k \in 0 .. (m + 1) PROVE h[k] = IF k = 0 THEN g ELSE FreePivot(Acquire(h[k - 1], pivots[k]), pivots[k])
    <3>1. CASE k = 0
      <4>1. 0 \in 0 .. m
        OBVIOUS
      <4>2. h[0] = g
        BY <2>2, <4>1
      <4>. HIDE DEF h
      <4>. QED BY <3>1, <4>2
    <3>2. CASE k \in 1 .. m
      <4>1. k \in 0 .. m /\ k - 1 \in 0 .. m /\ k # 0
        BY <3>2
      <4>2. h[k] = f[k] /\ f[k] = FreePivot(Acquire(f[k - 1], pivots[k]), pivots[k]) /\ h[k - 1] = f[k - 1]
        BY <2>2, <4>1
      <4>. HIDE DEF h
      <4>. QED BY <4>1, <4>2
    <3>3. CASE k = m + 1
      <4>1. k # 0 /\ k - 1 = m /\ m \in 0 .. m
        BY <3>3
      <4>2. h[k - 1] = f[m]
        BY <2>2, <4>1
      <4>. HIDE DEF h
      <4>. QED BY <2>3, <3>3, <4>1, <4>2
    <3>. QED BY <3>1, <3>2, <3>3
  <2>5. IsIt(h, m + 1)
    <3>1. h = [k \in 0 .. (m + 1) |-> h[k]]
      OBVIOUS
    <3>. HIDE DEF h
    <3>. QED BY <2>4, <3>1
  <2>6. m + 1 \in Nat
    OBVIOUS
  <2>. HIDE DEF IsIt
  <2>. QED BY <2>5, <2>6
<1>3. n \in Good
  <2>. HIDE DEF Good
  <2>. QED BY <1>1, <1>2, StepByStep
<1>. DEFINE c == CHOOSE f : IsIt(f, n)
<1>4. IsIt(c, n)
  BY <1>3
<1>5. FreeEvery(g, pivots) = c[n]
  BY Zenon DEF FreeEvery
<1>6. Freeing(c, g, pivots, n)
  <2>1. n \in Nat
    OBVIOUS
  <2>2. \A k \in 0 .. n : c[k] = IF k = 0 THEN g ELSE FreePivot(Acquire(c[k - 1], pivots[k]), pivots[k])
    BY <1>4
  <2>. HIDE DEF c, n, IsIt
  <2>3. 0 \in 0 .. n /\ \A k \in 1 .. n : k \in 0 .. n /\ k # 0
    BY <2>1
  <2>4. c[0] = g
    BY <2>2, <2>3
  <2>5. \A k \in 1 .. n : c[k] = FreePivot(Acquire(c[k - 1], pivots[k]), pivots[k])
    BY <2>2, <2>3
  <2>. QED BY <2>4, <2>5 DEF Freeing
<1>. QED BY <1>5, <1>6

\* The loops over the pivots.
LEMMA EveryBaked ==
  ASSUME NEW g, NEW L, Whole(g, L), NEW pivots \in Seq(Pivot)
  PROVE  Onward(g, TerminateEvery(g, pivots), L)
<1>. DEFINE n == Len(pivots)
<1>1. n \in Nat /\ \A k \in 1 .. n : pivots[k] \in Pivot
  OBVIOUS
<1>2. PICK f : BakingEvery(f, g, pivots, n) /\ TerminateEvery(g, pivots) = f[n]
  BY <1>1, BakingEveryIs
<1>. HIDE DEF n
<1>. DEFINE Good == {k \in Nat : k <= n => Onward(g, f[k], L)}
<1>3. 0 \in Good
  BY <1>2, OnwardIs DEF BakingEvery
<1>4. ASSUME NEW k \in 0 .. (n - 1), k \in Good PROVE k + 1 \in Good
  <2>1. Onward(g, f[k], L) /\ k + 1 \in 1 .. n
    BY <1>1, <1>4
  <2>2. f[k + 1] = TerminateAll(f[k], pivots[k + 1])
    <3>1. \A m \in 1 .. n : f[m] = TerminateAll(f[m - 1], pivots[m])
      BY <1>2 DEF BakingEvery
    <3>2. k + 1 - 1 = k
      OBVIOUS
    <3>. QED BY <2>1, <3>1, <3>2
  <2>3. Onward(f[k], f[k + 1], L)
    BY <1>1, <2>1, <2>2, AllBaked DEF Onward
  <2>. QED BY <2>1, <2>3, OnwardOn
<1>5. n \in Good
  <2>. HIDE DEF Good
  <2>. QED BY <1>1, <1>3, <1>4, StepByStep
<1>. QED BY <1>1, <1>2, <1>5

\* After the second no pivot has an edge.
LEMMA EveryFreed ==
  ASSUME NEW g, NEW L, Whole(g, L), NEW pivots \in Seq(Pivot)
  PROVE  /\ Onward(g, FreeEvery(g, pivots), L)
         /\ \A k \in 1 .. Len(pivots) : FreeEvery(g, pivots).refs[pivots[k]] = <<>>
<1>. DEFINE n == Len(pivots)
<1>1. n \in Nat /\ \A k \in 1 .. n : pivots[k] \in Pivot
  OBVIOUS
<1>2. PICK f : Freeing(f, g, pivots, n) /\ FreeEvery(g, pivots) = f[n]
  BY <1>1, FreeingIs
<1>. HIDE DEF n
<1>. DEFINE Free(k) == \A m \in 1 .. k : f[k].refs[pivots[m]] = <<>>
            Good == {k \in Nat : k <= n => Onward(g, f[k], L) /\ Free(k)}
<1>3. 0 \in Good
  BY <1>2, OnwardIs DEF Freeing
<1>4. ASSUME NEW k \in 0 .. (n - 1), k \in Good PROVE k + 1 \in Good
  <2>1. Onward(g, f[k], L) /\ Free(k) /\ k + 1 \in 1 .. n
    BY <1>1, <1>4
  <2>. DEFINE p == pivots[k + 1]
              a == Acquire(f[k], p)
  <2>2. f[k + 1] = FreePivot(a, p)
    <3>1. \A m \in 1 .. n : f[m] = FreePivot(Acquire(f[m - 1], pivots[m]), pivots[m])
      BY <1>2 DEF Freeing
    <3>2. k + 1 - 1 = k
      OBVIOUS
    <3>. QED BY <2>1, <3>1, <3>2
  <2>3. p \in Pivot
    BY <1>1, <2>1
  <2>. HIDE DEF p
  <2>4. Onward(f[k], a, L) /\ HeadsKept(f[k].refs, a.refs) /\ Whole(a, L)
    BY <2>1, <2>3, AcquireSound DEF Onward
  <2>. HIDE DEF a
  <2>5. Onward(a, f[k + 1], L) /\ HeadsKept(a.refs, f[k + 1].refs) /\ f[k + 1].refs[p] = <<>>
    BY <2>2, <2>3, <2>4, FreePivotSound
  <2>6. Onward(g, f[k + 1], L)
    BY <2>1, <2>4, <2>5, OnwardOn
  <2>7. ASSUME NEW m \in 1 .. (k + 1) PROVE f[k + 1].refs[pivots[m]] = <<>>
    <3>1. CASE m = k + 1
      BY <2>5, <3>1 DEF p
    <3>2. CASE m \in 1 .. k
      <4>1. m \in 1 .. n /\ f[k].refs[pivots[m]] = <<>>
        BY <1>1, <2>1, <3>2
      <4>2. pivots[m] \in Pivot
        BY <1>1, <4>1
      <4>. QED BY <2>4, <2>5, <4>1, <4>2 DEF HeadsKept
    <3>. QED BY <3>1, <3>2
  <2>. QED BY <2>6, <2>7
<1>5. n \in Good
  <2>. HIDE DEF Good
  <2>. QED BY <1>1, <1>3, <1>4, StepByStep
<1>6. Onward(g, f[n], L) /\ Free(n)
  BY <1>1, <1>5
<1>. QED BY <1>2, <1>6 DEF n

\* qs_pivot_graph_destroy: nothing refers to an operand any more.
LEMMA DestroySound ==
  ASSUME NEW g, Whole(g, Kept), NEW freed,
         freed = FreeEvery(TerminateEvery(g, SetToSeq(Pivot)), SetToSeq(Pivot))
  PROVE  /\ freed = [refs |-> freed.refs, op |-> freed.op] /\ freed.refs = [i \in Pivot |-> <<>>]
         /\ Sound(Unref(freed.op, One), Nothing)
<1>. DEFINE pivots == SetToSeq(Pivot)
            h == TerminateEvery(g, pivots)
<1>1. pivots \in Seq(Pivot) /\ \A x \in Pivot : \E k \in 1 .. Len(pivots) : pivots[k] = x
  BY PivotsFinite, SetToSeqIs
<1>. HIDE DEF pivots
<1>2. Onward(g, h, Kept) /\ Whole(h, Kept)
  BY <1>1, EveryBaked DEF Onward
<1>3. freed = FreeEvery(h, pivots)
  BY DEF pivots
<1>. HIDE DEF h
<1>4. /\ Onward(h, freed, Kept) /\ \A k \in 1 .. Len(pivots) : freed.refs[pivots[k]] = <<>>
  BY <1>1, <1>2, <1>3, EveryFreed
<1>5. Whole(freed, Kept)
  BY <1>4 DEF Onward
<1>6. freed = [refs |-> freed.refs, op |-> freed.op]
      /\ freed.refs \in [Pivot -> Seq(Edges)] /\ Sound(freed.op, Outside(freed.refs, Kept))
  BY <1>5 DEF Whole
<1>7. \A x \in Pivot : freed.refs[x] = <<>>
  BY <1>1, <1>4
<1>8. freed.refs = [i \in Pivot |-> <<>>]
  BY <1>6, <1>7
<1>. DEFINE H == Outside(freed.refs, Kept)
<1>9. ASSUME NEW x \in Nat PROVE H[x] = Kept[x]
  <2>. DEFINE u == [i \in Pivot |-> EdgeUses(freed.refs[i], x)]
              none == <<>>
  <2>0. EdgeUses(none, x) = 0
    <3>1. none \in Seq(Edges) /\ Len(none) = 0
      OBVIOUS
    <3>. HIDE DEF none
    <3>2. EdgeUses(none, x) = 0 <=> \A k \in 1 .. Len(none) : none[k].coefficient # x /\ none[k].numeric # x
      BY <3>1, EdgeUsesSum
    <3>3. \A k \in 1 .. Len(none) : FALSE
      BY <3>1
    <3>. QED BY <3>2, <3>3
  <2>1. \A i \in Pivot : u[i] = 0
    BY <1>7, <2>0
  <2>2. H[x] = SumOf(u, Pivot) + Kept[x]
    BY DEF Outside
  <2>. HIDE DEF u
  <2>3. SumOf(u, Pivot) = 0
    BY <2>1, PivotsFinite, SumZero
  <2>4. Kept[x] \in Nat
    BY DEF Kept
  <2>. QED BY <2>2, <2>3, <2>4
<1>10. One \in Nat /\ Kept[One] = 1 /\ \A x \in Nat : Nothing[x] = Kept[x] - Is(One, x)
  BY DEF Kept, Nothing, Is, One
<1>11. Nothing \in [Nat -> Nat]
  BY DEF Nothing
<1>. HIDE DEF H
<1>12. Taken(H, One, Nothing) /\ H[One] >= 1
  BY <1>9, <1>10, <1>11 DEF Taken
<1>13. Sound(freed.op, H)
  BY <1>6 DEF H
<1>14. Sound(Unref(freed.op, One), Nothing)
  BY <1>10, <1>12, <1>13, UnrefSound
<1>. QED BY <1>6, <1>8, <1>14

\* Two edges change places.
Other(k, a, b) == IF k = b THEN a ELSE IF k = a THEN b ELSE k
Swap(es, a, b) == [[es EXCEPT ![a] = es[b]] EXCEPT ![b] = es[a]]

IsSwapped(new, es, a, b) ==
  /\ new \in Seq(Edges) /\ Len(new) = Len(es)
  /\ \A k \in 1 .. Len(es) : new[k] = es[Other(k, a, b)] /\ Other(k, a, b) \in 1 .. Len(es)
  /\ \A x : EdgeUses(new, x) = EdgeUses(es, x)

LEMMA SwapIs ==
  ASSUME NEW es \in Seq(Edges), NEW a \in 1 .. Len(es), NEW b \in 1 .. Len(es)
  PROVE  IsSwapped(Swap(es, a, b), es, a, b)
<1>. DEFINE mid == [es EXCEPT ![a] = es[b]]
            new == [mid EXCEPT ![b] = es[a]]
<1>1. es[a] \in Edges /\ es[b] \in Edges
  BY EdgeIs
<1>2. IsChanged(mid, Edges, es, a, es[b])
  BY <1>1, ChangedIs
<1>3. \A x : EdgeUses(mid, x) = EdgeUses(es, x) - Touches(es[a], x) + Touches(es[b], x)
  BY <1>1, EdgeUsesChange
<1>. HIDE DEF mid
<1>4. mid \in Seq(Edges) /\ Len(mid) = Len(es) /\ mid[a] = es[b] /\ \A k \in 1 .. Len(mid) : k # a => mid[k] = es[k]
  BY <1>2 DEF IsChanged
<1>5. IsChanged(new, Edges, mid, b, es[a])
  BY <1>1, <1>4, ChangedIs
<1>6. \A x : EdgeUses(new, x) = EdgeUses(mid, x) - Touches(mid[b], x) + Touches(es[a], x)
  BY <1>1, <1>4, EdgeUsesChange
<1>. HIDE DEF new
<1>7. new \in Seq(Edges) /\ Len(new) = Len(es) /\ new[b] = es[a] /\ \A k \in 1 .. Len(es) : k # b => new[k] = mid[k]
  BY <1>4, <1>5 DEF IsChanged
<1>8. mid[b] = es[b]
  BY <1>4
<1>9. ASSUME NEW k \in 1 .. Len(es) PROVE new[k] = es[Other(k, a, b)] /\ Other(k, a, b) \in 1 .. Len(es)
  BY <1>4, <1>7 DEF Other
<1>10. ASSUME NEW x PROVE EdgeUses(new, x) = EdgeUses(es, x)
  <2>1. EdgeUses(es, x) \in Nat /\ Touches(es[a], x) \in Nat /\ Touches(es[b], x) \in Nat
    BY EdgeUsesSum, TouchesIs
  <2>. QED BY <1>3, <1>6, <1>8, <2>1
<1>11. Swap(es, a, b) = new
  BY DEF Swap, new, mid
<1>. QED BY <1>7, <1>9, <1>10, <1>11 DEF IsSwapped

Swapped(g, i, a, b) == [refs |-> [g.refs EXCEPT ![i] = Swap(g.refs[i], a, b)], op |-> g.op]

\* Exchanging two edges of a row changes no count.
LEMMA SwapSound ==
  ASSUME NEW g, NEW L, Whole(g, L), NEW i \in Pivot, NEW a \in 1 .. Len(g.refs[i]), NEW b \in 1 .. Len(g.refs[i])
  PROVE  /\ Whole(Swapped(g, i, a, b), L) /\ HeadsKept(g.refs, Swapped(g, i, a, b).refs)
         /\ Swapped(g, i, a, b).refs[i] = Swap(g.refs[i], a, b)
         /\ \A p \in Pivot : p # i => Swapped(g, i, a, b).refs[p] = g.refs[p]
<1>. DEFINE old == g.refs[i]
            es == Swap(old, a, b)
            q == [g.refs EXCEPT ![i] = es]
<1>1. g.refs \in [Pivot -> Seq(Edges)] /\ L \in [Nat -> Nat] /\ old \in Seq(Edges) /\ Len(old) \in Nat
      /\ L[One] >= 1 /\ DOMAIN old = 1 .. Len(old)
  BY WholeIs, RowIs DEF Whole
<1>2. IsSwapped(es, old, a, b)
  BY <1>1, SwapIs
<1>. HIDE DEF es
<1>3. q \in [Pivot -> Seq(Edges)] /\ q[i] = es /\ \A p \in Pivot : p # i => q[p] = g.refs[p]
  BY <1>1, <1>2 DEF IsSwapped
<1>4. Outside(q, L) = Outside(g.refs, L)
  <2>1. Outside(q, L) \in [Nat -> Nat] /\ Outside(g.refs, L) \in [Nat -> Nat]
    BY <1>1, <1>3, OutsideIs
  <2>2. ASSUME NEW o \in Nat PROVE Outside(q, L)[o] = Outside(g.refs, L)[o]
    <3>1. RowChanged(g.refs, L, L, i, es, o)
      BY <1>1, <1>2, OutsideChange DEF IsSwapped
    <3>2. Outside(q, L)[o] = Outside(g.refs, L)[o] - EdgeUses(old, o) + EdgeUses(es, o) - L[o] + L[o]
          /\ EdgeUses(old, o) \in Nat
      BY <3>1 DEF RowChanged
    <3>3. EdgeUses(es, o) = EdgeUses(old, o) /\ Outside(g.refs, L)[o] \in Nat /\ L[o] \in Nat
      BY <1>1, <1>2, <2>1 DEF IsSwapped
    <3>. QED BY <3>2, <3>3
  <2>. HIDE DEF q
  <2>. QED BY <2>1, <2>2, SameOutside
<1>5. Sound(g.op, Outside(q, L))
  BY <1>4 DEF Whole
<1>6. Fits(g, i, es, g.op)
  <2>1. ASSUME NEW k \in 1 .. Len(es)
        PROVE  es[k] = old[Other(k, a, b)] /\ Other(k, a, b) \in 1 .. Len(old)
    BY <1>2 DEF IsSwapped
  <2>2. ASSUME NEW k \in 1 .. Len(es), NEW m \in 1 .. Len(es), m # k
        PROVE  Ends(es[k]) \cap Ends(es[m]) \subseteq {One}
    <3>1. Other(k, a, b) # Other(m, a, b)
      BY <2>2 DEF Other
    <3>. QED BY <2>1, <3>1, OwnApart, ZenonT(40)
  <2>. QED BY <2>1, <2>2 DEF Fits
<1>7. Whole([refs |-> q, op |-> g.op], L)
  BY <1>1, <1>2, <1>5, <1>6, SameStore, WholeChange DEF IsSwapped
<1>8. HeadsKept(g.refs, q)
  <2>1. ASSUME HeadsApart(old) PROVE HeadsApart(es)
    <3>1. DOMAIN es = 1 .. Len(old)
      BY <1>2, SeqElements DEF IsSwapped
    <3>2. ASSUME NEW k \in DOMAIN es, NEW m \in DOMAIN es, es[k].head = es[m].head PROVE k = m
      <4>1. /\ es[k] = old[Other(k, a, b)] /\ Other(k, a, b) \in DOMAIN old
            /\ es[m] = old[Other(m, a, b)] /\ Other(m, a, b) \in DOMAIN old
        BY <1>1, <1>2, <3>1 DEF IsSwapped
      <4>2. Other(k, a, b) = Other(m, a, b)
        BY <2>1, <3>2, <4>1 DEF HeadsApart
      <4>. QED BY <4>2 DEF Other
    <3>. QED BY <3>2 DEF HeadsApart
  <2>2. old # <<>>
    OBVIOUS
  <2>. QED BY <1>3, <2>1, <2>2 DEF HeadsKept
<1>9. Swapped(g, i, a, b) = [refs |-> q, op |-> g.op]
  BY DEF Swapped, es
<1>10. Swapped(g, i, a, b).refs = q
  BY <1>9
<1>. QED BY <1>3, <1>7, <1>8, <1>9, <1>10 DEF es

\* What is overwritten does not matter.
LEMMA MovedChanged ==
  ASSUME NEW es \in Seq(Edges), NEW j \in 1 .. Len(es), NEW e \in Edges
  PROVE  Moved([es EXCEPT ![j] = e], j) = Moved(es, j)
<1>. DEFINE new == [es EXCEPT ![j] = e]
            a == Moved(new, j)
            b == Moved(es, j)
            n == Len(es)
<1>1. IsChanged(new, Edges, es, j, e)
  BY ChangedIs
<1>2. new \in Seq(Edges) /\ Len(new) = n /\ \A k \in 1 .. n : k # j => new[k] = es[k]
  BY <1>1 DEF IsChanged
<1>. HIDE DEF new
<1>3. IsMoved(a, Edges, new, j) /\ IsMoved(b, Edges, es, j)
  BY <1>2, MovedAre
<1>. HIDE DEF a, b
<1>4. a \in Seq(Edges) /\ b \in Seq(Edges) /\ Len(a) = n - 1 /\ Len(b) = n - 1 /\ n \in Nat
  BY <1>2, <1>3 DEF IsMoved
<1>5. ASSUME NEW k \in 1 .. (n - 1) PROVE a[k] = b[k]
  <2>1. /\ k \in 1 .. n /\ k < n /\ n \in 1 .. n
        /\ a[k] = (IF k = j THEN new[n] ELSE new[k]) /\ b[k] = (IF k = j THEN es[n] ELSE es[k])
    BY <1>2, <1>3, <1>4 DEF IsMoved
  <2>. QED BY <1>2, <1>4, <2>1
<1>6. a = [k \in 1 .. (n - 1) |-> a[k]] /\ b = [k \in 1 .. (n - 1) |-> b[k]]
  BY <1>4, SeqElements
<1>7. [k \in 1 .. (n - 1) |-> a[k]] = [k \in 1 .. (n - 1) |-> b[k]]
  BY <1>5
<1>. QED BY <1>6, <1>7 DEF a, b, new

\* Where the edge at k was before the one at target was deleted.
From(k, n, target, replacement) == Other(IF k = replacement THEN n ELSE k, target, replacement)

\* The edges of i after the one at target was deleted.
Deleted(r, q, i, target, replacement) ==
  /\ Len(q[i]) = Len(r[i]) - 1
  /\ \A k \in 1 .. Len(q[i]) :
       LET m == From(k, Len(r[i]), target, replacement)
       IN m \in 1 .. Len(r[i]) /\ m # target /\ q[i][k] = r[i][m]
  /\ \A p \in Pivot : p # i => q[p] = r[p]

DeletedWell(g, h, L, i, target, replacement) ==
  /\ Whole(h, L) /\ Later(g.op, h.op) /\ HeadsKept(g.refs, h.refs)
  /\ Deleted(g.refs, h.refs, i, target, replacement)

\* qs_pivot_graph_delete_nth, whether or not the value had arrived.
LEMMA DeleteSound ==
  ASSUME NEW g, NEW L, Whole(g, L), NEW i \in Pivot, NEW target \in 1 .. Len(g.refs[i]),
         NEW replacement \in 1 .. Len(g.refs[i]), NEW arrived \in BOOLEAN
  PROVE  DeletedWell(g, Delete(g, i, target, replacement, arrived), L, i, target, replacement)
<1>. DEFINE h == TerminateCoefficient(g, i, target)
            e == h.refs[i][target]
            old == h.refs[i]
            edges == [old EXCEPT ![target] = old[replacement]]
            t == Unref(Discard(h.op, e.coefficient, arrived), e.numeric)
            w == Swapped(h, i, target, replacement)
            v == Removed(w, i, replacement)
            r == [refs |-> v.refs, op |-> t]
            n == Len(g.refs[i])
<1>1. CoefficientBaked(g, h, L, i, target)
  BY CoefficientIsBaked
<1>2. Whole(h, L) /\ Later(g.op, h.op) /\ AtEdge(g, h, i, target) /\ IsTerminal(h.op, e.coefficient)
  BY <1>1 DEF CoefficientBaked, Renewed
<1>3. Delete(g, i, target, replacement, arrived) =
        [refs |-> [h.refs EXCEPT ![i] = Moved(edges, replacement)], op |-> t]
  BY DEF Delete
<1>. HIDE DEF h
<1>4. g.refs \in [Pivot -> Seq(Edges)] /\ h.refs \in [Pivot -> Seq(Edges)] /\ n \in Nat /\ Len(old) = n /\ old \in Seq(Edges)
  <2>1. Len(old) = n
    BY <1>2 DEF AtEdge
  <2>. QED BY <1>2, <2>1, WholeIs, RowIs
<1>5. target \in 1 .. Len(old) /\ replacement \in 1 .. Len(old)
  BY <1>4
<1>6. /\ Whole(w, L) /\ HeadsKept(h.refs, w.refs) /\ w.refs[i] = Swap(old, target, replacement)
      /\ \A p \in Pivot : p # i => w.refs[p] = h.refs[p]
  BY <1>2, <1>5, SwapSound
<1>7. w.op = h.op /\ w.refs \in [Pivot -> Seq(Edges)] /\ w.refs = [h.refs EXCEPT ![i] = Swap(old, target, replacement)]
  BY <1>6, WholeIs DEF Swapped
<1>8. IsSwapped(w.refs[i], old, target, replacement)
  BY <1>4, <1>5, <1>6, SwapIs
<1>. HIDE DEF w
<1>9. replacement \in 1 .. Len(w.refs[i]) /\ w.refs[i][replacement] = e /\ Len(w.refs[i]) = n
  BY <1>4, <1>5, <1>8 DEF IsSwapped, Other
<1>10. v.refs = [h.refs EXCEPT ![i] = Moved(edges, replacement)]
  <2>1. v.refs = [w.refs EXCEPT ![i] = Moved(w.refs[i], replacement)]
    BY DEF Removed
  <2>2. Moved(w.refs[i], replacement) = Moved(edges, replacement)
    <3>1. IsChanged(edges, Edges, old, target, old[replacement]) /\ old[target] \in Edges
      BY <1>4, <1>5, ChangedIs, EdgeIs
    <3>2. edges \in Seq(Edges) /\ replacement \in 1 .. Len(edges)
      BY <1>5, <3>1 DEF IsChanged
    <3>3. w.refs[i] = [edges EXCEPT ![replacement] = old[target]]
      BY <1>6 DEF Swap
    <3>. HIDE DEF edges, old
    <3>. QED BY <3>1, <3>2, <3>3, MovedChanged
  <2>. HIDE DEF edges
  <2>. QED BY <1>7, <2>1, <2>2
<1>11. Delete(g, i, target, replacement, arrived) = r
  BY <1>3, <1>10
<1>12. /\ v.refs \in [Pivot -> Seq(Edges)] /\ HeadsKept(w.refs, v.refs)
       /\ v.refs[i] = Moved(w.refs[i], replacement) /\ Len(v.refs[i]) = n - 1
       /\ \A p \in Pivot : p # i => v.refs[p] = w.refs[p]
  <2>1. /\ v.refs \in [Pivot -> Seq(Edges)] /\ HeadsKept(w.refs, v.refs)
        /\ v.refs[i] = Moved(w.refs[i], replacement) /\ Len(v.refs[i]) = Len(w.refs[i]) - 1
        /\ \A p \in Pivot : p # i => v.refs[p] = w.refs[p]
    <3>. HIDE DEF v
    <3>1. v = Removed(w, i, replacement)
      BY DEF v
    <3>2. RowRemoved(w.refs, v.refs, i, replacement)
      BY <1>7, <1>9, <3>1, RemovedIs
    <3>. QED BY <3>2 DEF RowRemoved
  <2>. QED BY <1>9, <2>1
<1>13. GivenUp(w.op, w.refs[i][replacement], t)
  BY <1>2, <1>7, <1>9 DEF GivenUp
<1>. HIDE DEF t
<1>14. Whole(r, L) /\ DOMAIN t \subseteq DOMAIN w.op /\ Later(w.op, t)
  BY <1>6, <1>9, <1>13, EdgeGone
<1>15. r.refs = v.refs /\ r.op = t
  OBVIOUS
<1>. HIDE DEF r
<1>16. Later(g.op, t)
  BY <1>2, <1>7, <1>14 DEF Later
<1>17. HeadsKept(g.refs, v.refs)
  <2>1. HeadsKept(g.refs, h.refs)
    BY <1>2, <1>4, AtSameHeads, HeadsSame
  <2>. QED BY <1>6, <1>12, <2>1, HeadsKeptOn
<1>18. \A p \in Pivot : p # i => v.refs[p] = g.refs[p]
  <2>1. ASSUME NEW p \in Pivot, p # i PROVE h.refs[p] = g.refs[p]
    <3>1. Len(h.refs[p]) = Len(g.refs[p]) /\ \A k \in 1 .. Len(g.refs[p]) : h.refs[p][k] = g.refs[p][k]
      BY <1>2, <2>1 DEF AtEdge
    <3>2. h.refs[p] \in Seq(Edges) /\ g.refs[p] \in Seq(Edges)
      BY <1>4
    <3>3. h.refs[p] = [k \in 1 .. Len(h.refs[p]) |-> h.refs[p][k]] /\ g.refs[p] = [k \in 1 .. Len(g.refs[p]) |-> g.refs[p][k]]
      BY <3>2, SeqElements
    <3>4. [k \in 1 .. Len(h.refs[p]) |-> h.refs[p][k]] = [k \in 1 .. Len(g.refs[p]) |-> g.refs[p][k]]
      BY <3>1
    <3>. QED BY <3>3, <3>4
  <2>. QED BY <1>6, <1>12, <2>1
<1>19. ASSUME NEW k \in 1 .. Len(v.refs[i]), NEW m, m = From(k, n, target, replacement)
       PROVE  m \in 1 .. n /\ m # target /\ v.refs[i][k] = g.refs[i][m]
  <2>. DEFINE kk == IF k = replacement THEN n ELSE k
  <2>1. IsMoved(v.refs[i], Edges, w.refs[i], replacement)
    BY <1>7, <1>9, <1>12, MovedAre
  <2>2. /\ k \in 1 .. n /\ k < n /\ kk \in 1 .. n
        /\ v.refs[i][k] = w.refs[i][kk]
    <3>1. /\ k \in 1 .. Len(w.refs[i]) /\ k < Len(w.refs[i])
          /\ v.refs[i][k] = IF k = replacement THEN w.refs[i][Len(w.refs[i])] ELSE w.refs[i][k]
      BY <2>1 DEF IsMoved
    <3>. QED BY <1>4, <1>9, <3>1
  <2>3. m = Other(kk, target, replacement)
    BY <1>19 DEF From
  <2>4. w.refs[i][kk] = old[m] /\ m \in 1 .. n
    BY <1>4, <1>8, <2>2, <2>3 DEF IsSwapped
  <2>5. m # target
    <3>1. kk # replacement
      BY <1>4, <2>2
    <3>. HIDE DEF kk
    <3>. QED BY <2>3, <3>1 DEF Other
  <2>6. old[m] = g.refs[i][m]
    BY <1>2, <1>4, <2>4, <2>5 DEF AtEdge
  <2>. QED BY <2>2, <2>4, <2>5, <2>6
<1>20. Deleted(g.refs, v.refs, i, target, replacement)
  <2>. HIDE DEF v
  <2>. QED BY <1>12, <1>18, <1>19 DEF Deleted
<1>21. DeletedWell(g, r, L, i, target, replacement)
  BY <1>14, <1>15, <1>16, <1>17, <1>20 DEF DeletedWell
<1>. QED BY <1>11, <1>21

\* An operand that was linked stays when the reference it had is given back.
LEMMA NewCount ==
  ASSUME NEW s, Store(s), NEW kind, NEW args, NEW val, NEW o \in DOMAIN s
  PROVE  New(s, kind, args, val)[o].count = s[o].count + Occurrences(args, o)
<1>. DEFINE new == [kind |-> kind, args |-> args, val |-> val % P, count |-> 1,
                    done |-> FALSE, dropped |-> FALSE, uses |-> 0]
            more == [s[o] EXCEPT !.count = @ + Occurrences(args, o),
                                 !.uses  = @ + (IF IsTerminal(s, o) THEN 0 ELSE Occurrences(args, o))]
            a == [x \in {Fresh(s)} |-> new]
            b == [x \in DOMAIN s |->
                   [s[x] EXCEPT !.count = @ + Occurrences(args, x),
                                !.uses  = @ + (IF IsTerminal(s, x) THEN 0 ELSE Occurrences(args, x))]]
<1>1. New(s, kind, args, val) = Merge(a, b)
  BY DEF New
<1>2. DOMAIN a = {Fresh(s)} /\ DOMAIN b = DOMAIN s /\ b[o] = more
  OBVIOUS
<1>3. o # Fresh(s)
  BY FreshIs
<1>. HIDE DEF a, b
<1>4. Merge(a, b)[o] = b[o]
  BY <1>2, <1>3, MergeIs
<1>5. s[o] \in Operand
  BY StoreIs
<1>6. more.count = s[o].count + Occurrences(args, o)
  BY <1>5 DEF Operand
<1>. QED BY <1>1, <1>2, <1>4, <1>6

\* An operand is replaced by one that depends on it.
Supersedes(s, t, H, kind, args, val, o) ==
  /\ kind \in {"link", "terminal"} /\ args \in Seq(DOMAIN s) /\ val \in Int /\ o \in Nat /\ H[o] >= 1
  /\ Occurrences(args, o) = 1 /\ \A k \in 1 .. Len(args) : args[k] # o => IsTerminal(s, args[k])
  /\ t = Unref(New(s, kind, args, val), o)

\* When what is given back is referred to by what is new, nothing goes.
LEMMA NothingGoes ==
  ASSUME NEW s, Store(s), NEW H, Counted(s, H), NEW t, NEW kind, NEW args, NEW val, NEW o \in DOMAIN s,
         Supersedes(s, t, H, kind, args, val, o)
  PROVE  DOMAIN t = DOMAIN s \cup {Fresh(s)}
<1>. DEFINE n == New(s, kind, args, val)
            back == [x \in DOMAIN n |-> IF x = o THEN 1 ELSE 0]
            D == DOMAIN n
            grown == [F \in SUBSET D |-> F \cup Spent(n, back, F)]
<1>0. /\ kind \in {"link", "terminal"} /\ args \in Seq(DOMAIN s) /\ val \in Int /\ H[o] >= 1
      /\ Occurrences(args, o) = 1 /\ t = Unref(n, o)
  BY DEF Supersedes
<1>1. Store(n) /\ DOMAIN n = DOMAIN s \cup {Fresh(s)}
  <2>1. n = New(s, kind, args, val)
    OBVIOUS
  <2>. HIDE DEF n
  <2>2. Store(n) /\ Extended(s, n, Fresh(s), kind, args, val)
    BY <1>0, <2>1, NewSound
  <2>. QED BY <2>2 DEF Extended
<1>2. n[o].count >= 2
  <2>1. s[o].count = Uses(s, DOMAIN s, o) + Drop(s, o) + H[o] /\ H \in [Nat -> Nat]
    BY DEF Counted
  <2>2. Uses(s, DOMAIN s, o) \in Nat /\ Drop(s, o) \in Nat /\ H[o] \in Nat /\ s[o].count \in Nat
    BY <2>1, UsesIs, StoreIs
  <2>3. Occurrences(args, o) = 1 /\ H[o] >= 1
    BY <1>0
  <2>4. n[o].count = s[o].count + Occurrences(args, o)
    BY NewCount
  <2>. DEFINE c == n[o].count
              d == s[o].count
              u == Uses(s, DOMAIN s, o)
              v == Drop(s, o)
              h == H[o]
  <2>5. c = d + 1 /\ d = u + v + h /\ u \in Nat /\ v \in Nat /\ h \in Nat /\ h >= 1
    BY <2>1, <2>2, <2>3, <2>4
  <2>. HIDE DEF c, d, u, v, h
  <2>6. c >= 2
    BY <2>5
  <2>. QED BY <2>6 DEF c
<1>. HIDE DEF n
<1>3. back \in [D -> Nat]
  OBVIOUS
<1>4. IsFiniteSet(D) /\ Growing(grown, D)
  BY <1>1 DEF Store, Growing, Spent
<1>5. Spent(n, back, {}) = {}
  <2>1. ASSUME NEW x \in D, n[x].count > 0, Left(n, back, {}, x) <= 0 PROVE FALSE
    <3>1. Uses(n, {}, x) = 0
      BY SumEmpty, Zenon DEF Uses
    <3>2. n[x].count \in Nat
      BY <1>1, StoreIs
    <3>3. CASE x = o
      <4>1. back[x] = 1
        BY <3>3
      <4>. QED BY <1>2, <2>1, <3>1, <3>2, <3>3, <4>1 DEF Left
    <3>4. CASE x # o
      <4>1. back[x] = 0
        BY <3>4
      <4>. QED BY <2>1, <3>1, <3>2, <4>1 DEF Left
    <3>. QED BY <3>3, <3>4
  <2>. QED BY <2>1 DEF Spent
<1>6. grown[{}] = {}
  BY <1>5
<1>7. Limit(grown, {}) \in {{}}
  <2>. DEFINE Kind == {{}}
  <2>1. {} \in Kind /\ {} \in SUBSET D
    OBVIOUS
  <2>2. \A F \in SUBSET D : F \in Kind => grown[F] \in Kind
    BY <1>6
  <2>. HIDE DEF Kind, grown
  <2>3. Limit(grown, {}) \in Kind
    BY <1>4, <2>1, <2>2, LimitIs
  <2>. QED BY <2>3 DEF Kind
<1>8. Going(n, back) = {}
  BY <1>7 DEF Going
<1>. HIDE DEF back
<1>9. DOMAIN Release(n, back) = DOMAIN n
  <2>1. DOMAIN Release(n, back) = DOMAIN n \ Going(n, back)
    BY <1>1, <1>3, ReleaseIs
  <2>. QED BY <1>8, <2>1
<1>10. t = Release(n, back)
  BY <1>0 DEF Unref, back
<1>. QED BY <1>1, <1>9, <1>10 DEF n

Superseded(s, t, K, kind, val, f) ==
  /\ Sound(t, K) /\ DOMAIN t = DOMAIN s \cup {f} /\ f \in Nat /\ f \notin DOMAIN s
  /\ t[f].val = val % P /\ t[f].kind = kind /\ Later(s, t)

\* An operand is replaced by one that is made of it.
LEMMA SupersedeSound ==
  ASSUME NEW s, NEW H, Sound(s, H), NEW t, NEW kind, NEW args, NEW val, NEW o, NEW K,
         Supersedes(s, t, H, kind, args, val, o), Passed(H, o, Fresh(s), K)
  PROVE  Superseded(s, t, K, kind, val, Fresh(s))
<1>1. /\ kind \in {"link", "terminal"} /\ args \in Seq(DOMAIN s) /\ val \in Int /\ o \in Nat /\ H[o] >= 1
      /\ Occurrences(args, o) = 1 /\ \A k \in 1 .. Len(args) : args[k] # o => IsTerminal(s, args[k])
      /\ t = Unref(New(s, kind, args, val), o)
  BY DEF Supersedes
<1>2. Store(s) /\ Counted(s, H)
  BY DEF Sound
<1>3. Occurrences(args, o) <= 1 /\ Occurrences(args, o) >= 1
  BY <1>1
<1>4. /\ o \in DOMAIN s /\ Sound(t, K)
      /\ Fresh(s) \in Nat /\ Fresh(s) \notin DOMAIN s
      /\ t[Fresh(s)].val = val % P /\ t[Fresh(s)].kind = kind
      /\ Later(s, t)
  BY <1>1, <1>3, ReplaceSound
<1>5. DOMAIN t = DOMAIN s \cup {Fresh(s)}
  BY <1>2, <1>4, NothingGoes
<1>. QED BY <1>4, <1>5 DEF Superseded

\* Both ends of an edge are.
Renewing(g, i, k, kind, args1, val1, args2, val2, a, b) ==
  LET e == g.refs[i][k] IN
  /\ kind \in {"link", "terminal"} /\ val1 \in Int /\ val2 \in Int /\ val1 % P = val2 % P
  /\ args1 \in Seq(DOMAIN g.op) /\ args2 \in Seq(DOMAIN g.op)
  /\ Occurrences(args1, e.coefficient) = 1
  /\ \A m \in 1 .. Len(args1) : args1[m] # e.coefficient => IsTerminal(g.op, args1[m])
  /\ Occurrences(args2, e.numeric) = 1
  /\ \A m \in 1 .. Len(args2) : args2[m] # e.numeric => IsTerminal(g.op, args2[m])
  /\ a = Unref(New(g.op, kind, args1, val1), e.coefficient)
  /\ b = Unref(New(a, kind, args2, val2), e.numeric)

RenewedWell(g, h, L, i, k, kind, val, f, n) ==
  /\ Whole(h, L) /\ Later(g.op, h.op) /\ DOMAIN h.op = DOMAIN g.op \cup {f, n}
  /\ f \in Nat /\ n \in Nat /\ f # n /\ f \notin DOMAIN g.op /\ n \notin DOMAIN g.op
  /\ h.op[f].kind = kind /\ h.op[n].kind = kind /\ h.op[f].val = val % P /\ h.op[n].val = val % P
  /\ h.refs = Put(g.refs, i, k, Edge(g.refs[i][k].head, f, n)) /\ AtEdge(g, h, i, k)
  /\ h.refs[i][k] = Edge(g.refs[i][k].head, f, n)

\* Both operands of an edge are replaced by ones that are made of them.
LEMMA RenewSound ==
  ASSUME NEW g, NEW L, Whole(g, L), NEW i \in Pivot, NEW k \in 1 .. Len(g.refs[i]),
         NEW kind, NEW args1, NEW val1, NEW args2, NEW val2, NEW a, NEW b,
         Renewing(g, i, k, kind, args1, val1, args2, val2, a, b)
  PROVE  RenewedWell(g, Changed(g, i, k, Edge(g.refs[i][k].head, Fresh(g.op), Fresh(a)), b), L, i, k, kind, val1,
                     Fresh(g.op), Fresh(a))
<1>. DEFINE e == g.refs[i][k]
            s == g.op
            f == Fresh(s)
            n == Fresh(a)
            d == Edge(e.head, f, e.numeric)
            w == Edge(e.head, f, n)
            H == Outside(Put(g.refs, i, k, e), L)
            J == Outside(Put(g.refs, i, k, d), L)
            K == Outside(Put(g.refs, i, k, w), L)
            h == Changed(g, i, k, w, b)
<1>1. /\ kind \in {"link", "terminal"} /\ val1 \in Int /\ val2 \in Int /\ val1 % P = val2 % P
      /\ args1 \in Seq(DOMAIN s) /\ args2 \in Seq(DOMAIN s)
      /\ Occurrences(args1, e.coefficient) = 1 /\ Occurrences(args2, e.numeric) = 1
      /\ \A m \in 1 .. Len(args1) : args1[m] # e.coefficient => IsTerminal(s, args1[m])
      /\ \A m \in 1 .. Len(args2) : args2[m] # e.numeric => IsTerminal(s, args2[m])
      /\ a = Unref(New(s, kind, args1, val1), e.coefficient)
      /\ b = Unref(New(a, kind, args2, val2), e.numeric)
  BY DEF Renewing
<1>2. g.refs \in [Pivot -> Seq(Edges)] /\ L \in [Nat -> Nat] /\ Store(s) /\ One \in DOMAIN s /\ L[One] >= 1
      /\ e \in Edges /\ e.coefficient \in DOMAIN s /\ e.numeric \in DOMAIN s
      /\ e.head \in Integral /\ e.coefficient \in Nat /\ e.numeric \in Nat
  BY WholeIs, WholeEdge, EdgeParts DEF FineEdge, Whole
<1>3. Sound(s, H)
  BY <1>2, OldEdge DEF Whole
<1>. HIDE DEF s
<1>4. f \in Nat /\ f \notin DOMAIN s
  BY <1>2, FreshIs
<1>. HIDE DEF e, f
<1>5. Passed(H, e.coefficient, f, J) /\ H[e.coefficient] >= 1
  <2>1. HalfMade(e, d, e.coefficient, f)
    BY <1>2, <1>4, HalfIs DEF HalfChanged
  <2>2. Shifting(e, d, e.coefficient, f)
    BY <2>1 DEF HalfMade
  <2>3. k \in 1 .. Len(g.refs[i])
    OBVIOUS
  <2>. QED BY <1>2, <2>2, <2>3, PutPassed
<1>. DEFINE c == e.coefficient
            x == e.numeric
<1>6. Superseded(s, a, J, kind, val1, f)
  <2>1. Supersedes(s, a, H, kind, args1, val1, c)
    BY <1>1, <1>2, <1>5 DEF Supersedes
  <2>. HIDE DEF H, J, c
  <2>. QED BY <1>3, <1>5, <2>1, SupersedeSound DEF f, c
<1>7. /\ Sound(a, J) /\ DOMAIN a = DOMAIN s \cup {f}
      /\ a[f].val = val1 % P /\ a[f].kind = kind /\ Later(s, a)
  BY <1>6 DEF Superseded
<1>8. n \in Nat /\ n \notin DOMAIN a
  BY <1>7, FreshIs DEF Sound
<1>. HIDE DEF n
<1>9. Passed(J, x, n, K) /\ J[x] >= 1
  <2>0. d \in Edges /\ d.head = e.head /\ d.coefficient = f /\ d.numeric = e.numeric
    BY <1>2, <1>4 DEF Edge, Edges
  <2>1. HalfMade(d, w, e.numeric, n)
    <3>1. HalfChanged(d, w, e.numeric, n)
      BY <2>0 DEF HalfChanged
    <3>. HIDE DEF d, w
    <3>. QED BY <1>8, <2>0, <3>1, HalfIs
  <2>2. Shifting(d, w, e.numeric, n)
    BY <2>1 DEF HalfMade
  <2>3. k \in 1 .. Len(g.refs[i])
    OBVIOUS
  <2>. HIDE DEF d, w
  <2>. QED BY <1>2, <2>2, <2>3, PutPassed
<1>10. Superseded(a, b, K, kind, val2, n)
  <2>1. args2 \in Seq(DOMAIN a)
    <3>1. DOMAIN s \subseteq DOMAIN a
      BY <1>7
    <3>. QED BY <1>1, <3>1, SeqMonotonic
  <2>2. ASSUME NEW m \in 1 .. Len(args2), args2[m] # x PROVE IsTerminal(a, args2[m])
    <3>1. args2[m] \in DOMAIN s /\ IsTerminal(s, args2[m])
      BY <1>1, <2>2
    <3>. QED BY <1>7, <3>1 DEF Later, IsTerminal
  <2>3. Supersedes(a, b, J, kind, args2, val2, x)
    BY <1>1, <1>2, <1>9, <2>1, <2>2 DEF Supersedes
  <2>. HIDE DEF J, K, x
  <2>. QED BY <1>7, <1>9, <2>3, SupersedeSound DEF n, x
<1>11. /\ Sound(b, K) /\ DOMAIN b = DOMAIN a \cup {n}
       /\ b[n].val = val2 % P /\ b[n].kind = kind /\ Later(a, b)
  BY <1>10 DEF Superseded
<1>12. f # n /\ n \notin DOMAIN s /\ DOMAIN b = DOMAIN s \cup {f, n}
  BY <1>7, <1>8, <1>11
<1>13. b[f].val = val1 % P /\ b[f].kind = kind /\ b[n].val = val1 % P
  BY <1>1, <1>7, <1>11 DEF Later
<1>14. Later(s, b)
  BY <1>7, <1>11, <1>12 DEF Later
<1>15. w \in Edges /\ w.head = e.head /\ Ends(w) = {f, n} /\ w.coefficient = f /\ w.numeric = n
  <2>1. w \in Edges /\ w.head = e.head /\ w.coefficient = f /\ w.numeric = n
    BY <1>2, <1>4, <1>8 DEF Edge, Edges
  <2>. QED BY <2>1 DEF Ends
<1>. HIDE DEF w, K
<1>16. /\ AtEdge(g, h, i, k) /\ h.refs = Put(g.refs, i, k, w) /\ h.op = b /\ h.refs[i][k] = w
  BY <1>15, ChangedAt DEF e
<1>17. Replacing(g, i, k, w, b)
  BY <1>2, <1>4, <1>12, <1>13, <1>15 DEF Replacing, s
<1>18. Sound(b, Outside(h.refs, L))
  BY <1>11, <1>16 DEF K
<1>19. Whole(h, L)
  BY <1>2, <1>14, <1>15, <1>17, <1>18, ChangeSound DEF s
<1>. HIDE DEF h
<1>20. RenewedWell(g, h, L, i, k, kind, val1, f, n)
  BY <1>4, <1>8, <1>11, <1>12, <1>13, <1>14, <1>16, <1>19 DEF RenewedWell, s, w, e
<1>. QED BY <1>20 DEF h, w, e, f, n, s

LEMMA PutTwice ==
  ASSUME NEW r \in [Pivot -> Seq(Edges)], NEW i \in Pivot, NEW j \in 1 .. Len(r[i]), NEW d, NEW e
  PROVE  Put(Put(r, i, j, d), i, j, e) = Put(r, i, j, e)
<1>1. [[r[i] EXCEPT ![j] = d] EXCEPT ![j] = e] = [r[i] EXCEPT ![j] = e]
  BY RowIs
<1>2. Put(r, i, j, d)[i] = [r[i] EXCEPT ![j] = d]
  BY DEF Put
<1>3. Put(Put(r, i, j, d), i, j, e) = [Put(r, i, j, d) EXCEPT ![i] = [r[i] EXCEPT ![j] = e]]
  BY <1>1, <1>2, Zenon DEF Put
<1>. QED BY <1>3 DEF Put

LEMMA PutPut ==
  ASSUME NEW r \in [Pivot -> Seq(Edges)], NEW i \in Pivot, NEW j \in 1 .. Len(r[i]), NEW d,
         NEW k \in 1 .. Len(r[i]), NEW e, k # j
  PROVE  Put(Put(r, i, j, d), i, k, e) = Put(Put(r, i, k, e), i, j, d)
<1>1. [[r[i] EXCEPT ![j] = d] EXCEPT ![k] = e] = [[r[i] EXCEPT ![k] = e] EXCEPT ![j] = d]
  BY RowIs
<1>2. Put(r, i, j, d)[i] = [r[i] EXCEPT ![j] = d] /\ Put(r, i, k, e)[i] = [r[i] EXCEPT ![k] = e]
  BY DEF Put
<1>3. Put(Put(r, i, j, d), i, k, e) = [Put(r, i, j, d) EXCEPT ![i] = [[r[i] EXCEPT ![j] = d] EXCEPT ![k] = e]]
  BY <1>2, Zenon DEF Put
<1>4. Put(Put(r, i, k, e), i, j, d) = [Put(r, i, k, e) EXCEPT ![i] = [[r[i] EXCEPT ![k] = e] EXCEPT ![j] = d]]
  BY <1>2, Zenon DEF Put
<1>. DEFINE z == [[r[i] EXCEPT ![j] = d] EXCEPT ![k] = e]
<1>5. /\ Put(Put(r, i, j, d), i, k, e) = [Put(r, i, j, d) EXCEPT ![i] = z]
      /\ Put(Put(r, i, k, e), i, j, d) = [Put(r, i, k, e) EXCEPT ![i] = z]
  BY <1>1, <1>3, <1>4
<1>. HIDE DEF z
<1>. QED BY <1>5 DEF Put

\* A reference is taken on what is finished.
LEMMA RefSound ==
  ASSUME NEW s, NEW H, Sound(s, H), NEW o \in DOMAIN s, s[o].done, NEW K, Added(H, o, K)
  PROVE  /\ Sound(Ref(s, o), K) /\ DOMAIN Ref(s, o) = DOMAIN s
         /\ \A x \in DOMAIN s : Same(s, Ref(s, o), x)
<1>. DEFINE t == Ref(s, o)
            more == [s[o] EXCEPT !.count = @ + 1]
<1>1. Store(s) /\ Counted(s, H) /\ Single(s, H) /\ o \in Nat
  BY StoreIs DEF Sound
<1>2. s[o] \in Operand /\ s[o].count \in Nat
  BY <1>1, StoreIs
<1>3. more \in Operand /\ more.count = s[o].count + 1 /\ more.kind = s[o].kind /\ more.args = s[o].args
      /\ more.val = s[o].val /\ more.done = s[o].done /\ more.dropped = s[o].dropped /\ more.uses = s[o].uses
  <2>. DEFINE z == s[o]
  <2>. HIDE DEF z
  <2>1. z \in Operand /\ z.count \in Nat /\ more = [z EXCEPT !.count = z.count + 1]
    BY <1>2 DEF z
  <2>. HIDE DEF more
  <2>2. more \in Operand
    BY <2>1 DEF Operand
  <2>3. more.count = z.count + 1 /\ more.kind = z.kind /\ more.args = z.args
        /\ more.val = z.val /\ more.done = z.done /\ more.dropped = z.dropped /\ more.uses = z.uses
    BY <2>1 DEF Operand
  <2>. QED BY <2>2, <2>3 DEF z
<1>4. t = [s EXCEPT ![o] = more]
  BY DEF Ref
<1>. HIDE DEF more
<1>5. DOMAIN t = DOMAIN s /\ t[o] = more /\ (\A x \in DOMAIN s : x # o => t[x] = s[x]) /\ t \in [DOMAIN s -> Operand]
  BY <1>1, <1>3, <1>4 DEF Store
<1>. HIDE DEF t
<1>6. \A x \in DOMAIN s : Same(s, t, x)
  BY <1>3, <1>5 DEF Same
<1>7. Store(t)
  <2>1. ASSUME NEW x \in DOMAIN t
        PROVE  /\ t[x].args \in Seq(DOMAIN t)
               /\ t[x].done => t[x].args = <<>>
               /\ ~IsTerminal(t, x) => ~t[x].done /\ ~t[x].dropped
               /\ IsTerminal(t, x) => t[x].uses = 0
    BY <1>1, <1>5, <1>6 DEF Same, Store, IsTerminal
  <2>. QED BY <1>1, <1>5, <2>1 DEF Store
<1>8. K \in [Nat -> Nat] /\ (\A x \in Nat : K[x] = H[x] + Is(o, x)) /\ H \in [Nat -> Nat]
  BY <1>1 DEF Added, Counted
<1>9. Counted(t, K)
  <2>1. ASSUME NEW x \in DOMAIN t PROVE t[x].count = Uses(t, DOMAIN t, x) + Drop(t, x) + K[x]
    <3>1. Uses(t, DOMAIN t, x) = Uses(s, DOMAIN s, x)
      BY <1>1, <1>5, <1>6, UsesSame DEF Same
    <3>2. Drop(t, x) = Drop(s, x)
      BY <1>5, <1>6 DEF Same, Drop
    <3>3. s[x].count = Uses(s, DOMAIN s, x) + Drop(s, x) + H[x] /\ x \in Nat
      BY <1>1, <1>5 DEF Counted, Store
    <3>4. t[x].count = s[x].count + Is(o, x) /\ s[x].count \in Nat
      BY <1>1, <1>2, <1>3, <1>5, StoreIs DEF Is
    <3>5. Uses(s, DOMAIN s, x) \in Nat /\ Drop(s, x) \in Nat /\ H[x] \in Nat /\ Is(o, x) \in Nat /\ K[x] = H[x] + Is(o, x)
      BY <1>1, <1>5, <1>8, <3>3, StoreIs, UsesIs DEF Is
    <3>. DEFINE a == t[x].count
                b == s[x].count
                u == Uses(s, DOMAIN s, x)
                d == Drop(s, x)
                h == H[x]
                k == K[x]
                y == Is(o, x)
    <3>6. a = b + y /\ b = u + d + h /\ k = h + y /\ u \in Nat /\ d \in Nat /\ h \in Nat /\ y \in Nat
      BY <3>3, <3>4, <3>5
    <3>. HIDE DEF a, b, u, d, h, k, y
    <3>7. a = u + d + k
      BY <3>6
    <3>. QED BY <3>1, <3>2, <3>7 DEF a, u, d, k
  <2>2. ASSUME NEW x \in Nat \ DOMAIN t PROVE K[x] = 0
    <3>1. H[x] = 0 /\ Is(o, x) = 0 /\ K[x] = H[x] + Is(o, x)
      BY <1>1, <1>5, <1>8 DEF Counted, Is
    <3>. QED BY <3>1
  <2>. QED BY <1>8, <2>1, <2>2 DEF Counted
<1>10. Single(t, K)
  <2>1. ASSUME NEW x \in DOMAIN t, ~t[x].done PROVE t[x].uses + K[x] + Drop(t, x) <= 1
    <3>1. Same(s, t, x) /\ x # o /\ x \in Nat
      BY <1>1, <1>5, <1>6, <2>1 DEF Same, Store
    <3>2. s[x].uses + H[x] + Drop(s, x) <= 1
      BY <1>1, <1>5, <2>1, <3>1 DEF Single, Same
    <3>3. K[x] = H[x] + 0 /\ H[x] \in Nat
      BY <1>8, <3>1 DEF Is
    <3>4. t[x].uses = s[x].uses /\ Drop(t, x) = Drop(s, x) /\ K[x] = H[x]
      BY <3>1, <3>3 DEF Same, Drop
    <3>. QED BY <3>2, <3>4
  <2>. QED BY <2>1 DEF Single
<1>. QED BY <1>5, <1>6, <1>7, <1>9, <1>10 DEF Sound, t

LEMMA SameLater ==
  ASSUME NEW s, NEW t, \A x \in DOMAIN t : Same(s, t, x)
  PROVE  Later(s, t)
BY DEF Same, Later

\* The edge of a pivot to itself becomes one, and what it had is left to others.
LEMMA SelfSound ==
  ASSUME NEW v, NEW L, Whole(v, L), NEW i \in Pivot, NEW j \in 1 .. Len(v.refs[i]), NEW c \in Nat, NEW n \in Nat,
         v.refs[i][j] = Edge(i, c, n),
         NEW M, Inherited(L, Edge(i, c, n), M),
         NEW t, t = Ref(Ref(v.op, One), One)
  PROVE  /\ Whole(Changed(v, i, j, Edge(i, One, One), t), M) /\ Later(v.op, t) /\ DOMAIN t = DOMAIN v.op
<1>. DEFINE d == Edge(i, c, n)
            w == Edge(i, One, One)
            s == v.op
            H == Outside(v.refs, L)
            K == Outside(Put(v.refs, i, j, w), M)
            J == [x \in Nat |-> H[x] + Is(One, x)]
            a == Ref(s, One)
            h == Changed(v, i, j, w, t)
<1>1. /\ v.refs \in [Pivot -> Seq(Edges)] /\ L \in [Nat -> Nat] /\ One \in DOMAIN s /\ s[One].done
      /\ Sound(s, H) /\ L[One] >= 1 /\ H \in [Nat -> Nat] /\ One \in Nat
  BY WholeIs DEF Whole, One
<1>2. M \in [Nat -> Nat] /\ \A x \in Nat : M[x] = L[x] + Touches(d, x)
  BY DEF Inherited
<1>3. i \in Integral
  BY PivotAssumption
<1>4. w \in Edges /\ w.head = i /\ w.coefficient = One /\ w.numeric = One /\ Ends(w) = {One}
      /\ \A x : Touches(w, x) = Is(One, x) + Is(One, x)
  <2>1. w \in Edges /\ w.head = i /\ w.coefficient = One /\ w.numeric = One
    BY <1>1, <1>3 DEF Edge, Edges
  <2>. QED BY <2>1 DEF Ends, Touches
<1>5. \A x : Is(One, x) \in Nat
  BY DEF Is
<1>. HIDE DEF w, H, s
<1>6. J \in [Nat -> Nat] /\ Added(H, One, J)
  <2>0. ASSUME NEW x \in Nat PROVE H[x] + Is(One, x) \in Nat
    <3>1. H[x] \in Nat /\ Is(One, x) \in Nat
      BY <1>1, <1>5
    <3>. QED BY <3>1
  <2>1. J \in [Nat -> Nat]
    BY <2>0
  <2>. QED BY <2>1 DEF Added
<1>7. K \in [Nat -> Nat] /\ \A x \in Nat : PutCount(v.refs, L, M, i, j, w, x)
  BY <1>1, <1>2, <1>4, PutIs
<1>8. Added(J, One, K)
  <2>1. ASSUME NEW x \in Nat PROVE K[x] = J[x] + Is(One, x)
    <3>1. PutCount(v.refs, L, M, i, j, w, x)
      BY <1>7
    <3>2. /\ K[x] = H[x] - Touches(d, x) + Touches(w, x) - L[x] + M[x]
          /\ H[x] \in Nat /\ Touches(d, x) \in Nat /\ L[x] \in Nat
      BY <3>1 DEF PutCount, H
    <3>3. J[x] = H[x] + Is(One, x) /\ M[x] = L[x] + Touches(d, x) /\ Touches(w, x) = Is(One, x) + Is(One, x) /\ Is(One, x) \in Nat
      BY <1>2, <1>4, <1>5
    <3>. DEFINE k == K[x]
                y == H[x]
                u == Touches(d, x)
                b == Touches(w, x)
                l == L[x]
                m == M[x]
                z == Is(One, x)
                q == J[x]
    <3>4. k = y - u + b - l + m /\ q = y + z /\ m = l + u /\ b = z + z
          /\ y \in Nat /\ u \in Nat /\ l \in Nat /\ z \in Nat
      BY <3>2, <3>3
    <3>. HIDE DEF k, y, u, b, l, m, z, q
    <3>5. k = q + z
      BY <3>4
    <3>. QED BY <3>5 DEF k, q, z
  <2>. QED BY <1>7, <2>1 DEF Added
<1>. HIDE DEF J, K
<1>9. Sound(a, J) /\ DOMAIN a = DOMAIN s /\ \A x \in DOMAIN s : Same(s, a, x)
  BY <1>1, <1>6, RefSound
<1>10. One \in DOMAIN a /\ a[One].done
  BY <1>1, <1>9 DEF Same
<1>11. t = Ref(a, One)
  BY DEF s
<1>. HIDE DEF a
<1>12. Sound(t, K) /\ DOMAIN t = DOMAIN a /\ \A x \in DOMAIN a : Same(a, t, x)
  BY <1>8, <1>9, <1>10, <1>11, RefSound
<1>13. Later(s, t) /\ DOMAIN t = DOMAIN s
  BY <1>9, <1>12 DEF Same, Later
<1>14. Replacing(v, i, j, w, t)
  BY <1>4 DEF Replacing
<1>15. Sound(t, Outside(h.refs, M))
  <2>1. h.refs = Put(v.refs, i, j, w)
    BY DEF Changed, Put
  <2>. QED BY <1>12, <2>1 DEF K
<1>16. M[One] >= 1
  <2>1. M[One] = L[One] + Touches(d, One) /\ Touches(d, One) \in Nat /\ L[One] \in Nat /\ L[One] >= 1
    BY <1>1, <1>2, TouchesIs
  <2>. QED BY <2>1
<1>17. Whole(h, M)
  BY <1>1, <1>2, <1>4, <1>13, <1>14, <1>15, <1>16, ChangeSound DEF s
<1>. QED BY <1>13, <1>17 DEF h, w, s

\* What is replaced by something that depends on it is still there.
LEMMA SupersedeLater ==
  ASSUME NEW s, NEW H, Sound(s, H), NEW t, NEW kind, NEW args, NEW val, NEW o,
         Supersedes(s, t, H, kind, args, val, o)
  PROVE  /\ Later(s, t) /\ DOMAIN t = DOMAIN s \cup {Fresh(s)}
         /\ Fresh(s) \in Nat /\ Fresh(s) \notin DOMAIN s
<1>. DEFINE K == [x \in Nat |-> H[x] - Is(o, x) + Is(Fresh(s), x)]
<1>1. o \in Nat /\ H[o] >= 1 /\ H \in [Nat -> Nat]
  BY DEF Supersedes, Sound, Counted
<1>2. ASSUME NEW x \in Nat PROVE H[x] - Is(o, x) + Is(Fresh(s), x) \in Nat
  <2>1. H[x] \in Nat /\ Is(o, x) \in Nat /\ Is(Fresh(s), x) \in Nat
    BY <1>1 DEF Is
  <2>2. H[x] >= Is(o, x)
    BY <1>1, <2>1 DEF Is
  <2>. QED BY <2>1, <2>2
<1>3. Passed(H, o, Fresh(s), K)
  BY <1>2 DEF Passed
<1>. HIDE DEF K
<1>4. Superseded(s, t, K, kind, val, Fresh(s))
  BY <1>3, SupersedeSound
<1>. QED BY <1>4 DEF Superseded

\* The negatives of the self edge, and that nothing else has them.
Divisors(s, c, n) ==
  /\ c \in DOMAIN s /\ n \in DOMAIN s /\ c # One /\ n # One
  /\ IsTerminal(s, c) /\ IsTerminal(s, n) /\ s[c].val = s[n].val /\ s[c].val # 0

Quotients(s, e, c, n) ==
  LET a == Divided(s, e.coefficient, c) IN
  [op |-> Divided(a, e.numeric, n), edge |-> Edge(e.head, Fresh(s), Fresh(a))]

\* An edge is divided by them.
DividedWell(v, k, i, N, c, n, h) ==
  /\ Whole(h, N) /\ AtEdge(v, h, i, k)
  /\ Divisors(h.op, c, n) /\ c \notin Ends(h.refs[i][k]) /\ n \notin Ends(h.refs[i][k])

\* The arguments of a quotient: o, and once, and a terminal.
Pair(s, o, c) ==
  /\ <<o, c>> \in Seq(DOMAIN s) /\ Occurrences(<<o, c>>, o) = 1
  /\ \A x \in 1 .. Len(<<o, c>>) : <<o, c>>[x] # o => IsTerminal(s, <<o, c>>[x])

LEMMA PairIs ==
  ASSUME NEW s, NEW o \in DOMAIN s, NEW c \in DOMAIN s, c # o, IsTerminal(s, c)
  PROVE  Pair(s, o, c)
<1>1. Occurrences(<<o, c>>, o) = Is(o, o) + Is(c, o)
  <2>1. \A a, b, x : /\ Occurrences(<<>>, x) = 0
                     /\ Occurrences(<<a>>, x) = Is(a, x)
                     /\ Occurrences(<<a, b>>, x) = Is(a, x) + Is(b, x)
    BY OccurrencesShort, Zenon
  <2>. QED BY <2>1, ZenonT(30)
<1>2. Is(o, o) = 1 /\ Is(c, o) = 0
  BY DEF Is
<1>3. Occurrences(<<o, c>>, o) = 1
  BY <1>1, <1>2
<1>4. ASSUME NEW x \in 1 .. Len(<<o, c>>), <<o, c>>[x] # o PROVE IsTerminal(s, <<o, c>>[x])
  <2>1. x = 1 \/ x = 2
    OBVIOUS
  <2>2. <<o, c>>[1] = o /\ <<o, c>>[2] = c
    OBVIOUS
  <2>. QED BY <1>4, <2>1, <2>2
<1>. QED BY <1>3, <1>4 DEF Pair

\* An edge to another head is divided by the negatives of the self edge.
LEMMA DivideOther ==
  ASSUME NEW v, NEW N, Whole(v, N), NEW i \in Pivot, NEW k \in 1 .. Len(v.refs[i]), NEW c, NEW n,
         Divisors(v.op, c, n), c \notin Ends(v.refs[i][k]), n \notin Ends(v.refs[i][k]), NEW u,
         u = Quotients(v.op, v.refs[i][k], c, n)
  PROVE  DividedWell(v, k, i, N, c, n, Changed(v, i, k, u.edge, u.op))
<1>. DEFINE e == v.refs[i][k]
            s == v.op
            H == Outside(v.refs, N)
            val1 == s[e.coefficient].val * Reciprocal(s[c].val)
            val2 == s[e.numeric].val * Reciprocal(s[n].val)
            args1 == <<e.coefficient, c>>
            args2 == <<e.numeric, n>>
            a == Divided(s, e.coefficient, c)
            b == Divided(a, e.numeric, n)
            f == Fresh(s)
            m == Fresh(a)
            h == Changed(v, i, k, Edge(e.head, f, m), b)
<1>1. /\ Sound(s, H) /\ Store(s) /\ v.refs \in [Pivot -> Seq(Edges)] /\ N \in [Nat -> Nat] /\ Counted(s, H)
      /\ e \in Edges /\ e.coefficient \in DOMAIN s /\ e.numeric \in DOMAIN s
      /\ s[e.coefficient].val = s[e.numeric].val
  <2>1. /\ Store(s) /\ v.refs \in [Pivot -> Seq(Edges)] /\ N \in [Nat -> Nat] /\ Counted(s, H)
    BY WholeIs
  <2>2. Sound(s, H)
    BY DEF Whole
  <2>3. FineEdge(v, i, k)
    BY WholeEdge
  <2>4. /\ e \in Edges /\ e.coefficient \in DOMAIN s /\ e.numeric \in DOMAIN s
        /\ s[e.coefficient].val = s[e.numeric].val
    BY <2>3 DEF FineEdge
  <2>. QED BY <2>1, <2>2, <2>4
<1>2. /\ c \in DOMAIN s /\ n \in DOMAIN s /\ c # One /\ n # One
      /\ IsTerminal(s, c) /\ IsTerminal(s, n) /\ s[c].val = s[n].val /\ s[c].val # 0
  BY DEF Divisors
<1>3. c # e.coefficient /\ n # e.numeric
  BY DEF Ends
<1>4. /\ s[c].val \in 1 .. (P - 1) /\ s[e.coefficient].val \in Int
  <2>1. s[c].val \in Coefficient /\ s[e.coefficient].val \in Coefficient
    BY <1>1, <1>2, StoreIs
  <2>2. s[c].val # 0
    BY <1>2
  <2>. HIDE DEF s, e
  <2>. QED BY <2>1, <2>2, PrimeAssumption DEF Coefficient
<1>5. Reciprocal(s[c].val) \in Coefficient
  BY <1>4, PrimeAssumption DEF Reciprocal
<1>6. val1 \in Int /\ val2 = val1
  <2>. DEFINE y == s[e.coefficient].val
              z == Reciprocal(s[c].val)
  <2>1. y \in Int /\ z \in Int
    BY <1>4, <1>5, PrimeAssumption DEF Coefficient
  <2>2. val1 = y * z /\ val2 = y * z
    BY <1>1, <1>2
  <2>. HIDE DEF y, z
  <2>. QED BY <2>1, <2>2
<1>7. /\ args1 \in Seq(DOMAIN s) /\ Occurrences(args1, e.coefficient) = 1
      /\ \A x \in 1 .. Len(args1) : args1[x] # e.coefficient => IsTerminal(s, args1[x])
  <2>1. Pair(s, e.coefficient, c)
    BY <1>1, <1>2, <1>3, PairIs
  <2>. QED BY <2>1 DEF Pair
<1>8. /\ args2 \in Seq(DOMAIN s) /\ Occurrences(args2, e.numeric) = 1
      /\ \A x \in 1 .. Len(args2) : args2[x] # e.numeric => IsTerminal(s, args2[x])
  <2>1. Pair(s, e.numeric, n)
    BY <1>1, <1>2, <1>3, PairIs
  <2>. QED BY <2>1 DEF Pair
<1>9. a = Unref(New(s, "link", args1, val1), e.coefficient)
  BY Zenon DEF Divided, Link
<1>10. Later(s, a) /\ DOMAIN a = DOMAIN s \cup {f} /\ f \in Nat /\ f \notin DOMAIN s
  <2>1. e.coefficient \in Ends(e)
    BY DEF Ends
  <2>2. e.coefficient \in Nat /\ H[e.coefficient] >= 1
    BY <1>1, <2>1, EndsThere
  <2>. HIDE DEF H, a, args1, val1, s, e
  <2>3. Supersedes(s, a, H, "link", args1, val1, e.coefficient)
    BY <1>6, <1>7, <1>9, <2>2 DEF Supersedes
  <2>. QED BY <1>1, <2>3, SupersedeLater DEF f
<1>11. b = Unref(New(a, "link", args2, val2), e.numeric)
  <2>1. a[e.numeric].val = s[e.numeric].val /\ a[n].val = s[n].val
    BY <1>1, <1>2, <1>10 DEF Later
  <2>. HIDE DEF a
  <2>2. b = Unref(New(a, "link", args2, a[e.numeric].val * Reciprocal(a[n].val)), e.numeric)
    BY Zenon DEF Divided, Link
  <2>. QED BY <2>1, <2>2
<1>. HIDE DEF a, b, args1, args2, val1, val2
<1>12. Renewing(v, i, k, "link", args1, val1, args2, val2, a, b)
  BY <1>6, <1>7, <1>8, <1>9, <1>11 DEF Renewing
<1>13. RenewedWell(v, h, N, i, k, "link", val1, f, m)
  BY <1>12, RenewSound
<1>14. u.edge = Edge(e.head, f, m) /\ u.op = b
  BY DEF Quotients, a, b
<1>. HIDE DEF h, f, m
<1>15. /\ Whole(h, N) /\ AtEdge(v, h, i, k) /\ Later(s, h.op) /\ DOMAIN h.op = DOMAIN s \cup {f, m}
       /\ h.refs[i][k] = Edge(e.head, f, m) /\ f \notin DOMAIN s /\ m \notin DOMAIN s
  BY <1>13 DEF RenewedWell
<1>16. Divisors(h.op, c, n)
  BY <1>2, <1>15 DEF Divisors, Later, IsTerminal
<1>17. c \notin Ends(h.refs[i][k]) /\ n \notin Ends(h.refs[i][k])
  <2>1. Ends(h.refs[i][k]) = {f, m}
    BY <1>15 DEF Ends, Edge
  <2>. QED BY <1>2, <1>15, <2>1
<1>. QED BY <1>14, <1>15, <1>16, <1>17 DEF DividedWell, h

\* The graph as if the self edge of i, at j, had the negatives that replace its operands.
Negative(u, i, j, c, n) == Changed(u, i, j, Edge(i, c, n), u.op)

\* What the loop of qs_pivot_graph_normalize keeps, ...
Dividing(g, u, i, j, c, n) ==
  /\ u = [refs |-> u.refs, op |-> u.op] /\ u.refs \in [Pivot -> Seq(Edges)]
  /\ SameHeads(g.refs, u.refs) /\ Divisors(u.op, c, n)
  /\ \A m \in 1 .. Len(u.refs[i]) : m # j => c \notin Ends(u.refs[i][m]) /\ n \notin Ends(u.refs[i][m])

\* ... before the self edge is replaced, and afterwards.
DividingBefore(g, u, L, i, j, c, n) == Dividing(g, u, i, j, c, n) /\ Whole(Negative(u, i, j, c, n), L)
DividingAfter(g, u, M, i, j, c, n) == Dividing(g, u, i, j, c, n) /\ Whole(u, M)

\* What normalizing is about: there is a self edge of i, at j.
SelfAt(g, i, j) ==
  /\ g.refs \in [Pivot -> Seq(Edges)] /\ HeadsApart(g.refs[i])
  /\ j \in 1 .. Len(g.refs[i]) /\ g.refs[i][j].head = i

\* An edge changes, the others do not.
EdgeStep(u, y, i, k, e, t) == y = Changed(u, i, k, e, t) /\ e.head = u.refs[i][k].head /\ e \in Edges

Stepped(g, u, y, i, k, e, t) ==
  /\ y = [refs |-> y.refs, op |-> y.op] /\ y.refs \in [Pivot -> Seq(Edges)] /\ y.op = t
  /\ y.refs = Put(u.refs, i, k, e) /\ SameHeads(g.refs, y.refs) /\ Len(y.refs[i]) = Len(u.refs[i])
  /\ y.refs[i][k] = e
  /\ \A m \in 1 .. Len(u.refs[i]) : m # k => y.refs[i][m] = u.refs[i][m]

LEMMA StepHeads ==
  ASSUME NEW g, NEW u, NEW y, NEW i \in Pivot, NEW k, NEW e, NEW t, EdgeStep(u, y, i, k, e, t),
         u.refs \in [Pivot -> Seq(Edges)], k \in 1 .. Len(u.refs[i]), SameHeads(g.refs, u.refs)
  PROVE  Stepped(g, u, y, i, k, e, t)
<1>1. y = [refs |-> y.refs, op |-> y.op] /\ y.op = t /\ y.refs = Put(u.refs, i, k, e) /\ e \in Edges
  BY DEF EdgeStep, Changed, Put
<1>2. Put(u.refs, i, k, e) \in [Pivot -> Seq(Edges)] /\ IsPut(Put(u.refs, i, k, e), u.refs, i, k, e)
  <2>. DEFINE L == [x \in Nat |-> 0]
  <2>1. L \in [Nat -> Nat]
    OBVIOUS
  <2>. HIDE DEF L
  <2>. QED BY <1>1, <2>1, PutIs
<1>3. SameHeads(g.refs, y.refs)
  <2>1. e.head = u.refs[i][k].head
    BY DEF EdgeStep
  <2>2. ASSUME NEW p \in Pivot
        PROVE  Len(y.refs[p]) = Len(g.refs[p]) /\ \A m \in 1 .. Len(g.refs[p]) : y.refs[p][m].head = g.refs[p][m].head
    <3>1. Len(y.refs[p]) = Len(u.refs[p]) /\ Len(u.refs[p]) = Len(g.refs[p])
      BY <1>1, <1>2 DEF IsPut, SameHeads
    <3>2. ASSUME NEW m \in 1 .. Len(u.refs[p]) PROVE y.refs[p][m].head = u.refs[p][m].head
      <4>1. CASE p = i /\ m = k
        BY <1>1, <1>2, <2>1, <4>1 DEF IsPut
      <4>2. CASE p # i \/ m # k
        BY <1>1, <1>2, <4>2 DEF IsPut
      <4>. QED BY <4>1, <4>2
    <3>. QED BY <3>1, <3>2 DEF SameHeads
  <2>. QED BY <2>2 DEF SameHeads
<1>. QED BY <1>1, <1>2, <1>3 DEF IsPut, Stepped

\* An edge is divided while the self edge is still there, ...
LEMMA DivideBefore ==
  ASSUME NEW g, NEW u, NEW L, NEW i \in Pivot, NEW j, NEW c \in Nat, NEW n \in Nat, SelfAt(g, i, j),
         DividingBefore(g, u, L, i, j, c, n), NEW k \in 1 .. Len(g.refs[i]), k # j
  PROVE  DividingBefore(g, DivideNth(u, i, k, c, n), L, i, j, c, n)
<1>. DEFINE E == Edge(i, c, n)
            v == Negative(u, i, j, c, n)
            e == u.refs[i][k]
            q == Quotients(u.op, e, c, n)
            y == DivideNth(u, i, k, c, n)
            h == Changed(v, i, k, q.edge, q.op)
<1>1. /\ u.refs \in [Pivot -> Seq(Edges)] /\ SameHeads(g.refs, u.refs) /\ Divisors(u.op, c, n)
      /\ \A m \in 1 .. Len(u.refs[i]) : m # j => c \notin Ends(u.refs[i][m]) /\ n \notin Ends(u.refs[i][m])
      /\ Whole(v, L) /\ L \in [Nat -> Nat]
  BY WholeIs DEF DividingBefore, Dividing
<1>2. /\ j \in 1 .. Len(u.refs[i]) /\ k \in 1 .. Len(u.refs[i]) /\ Len(u.refs[i]) = Len(g.refs[i])
      /\ e.head = g.refs[i][k].head /\ e.head # i
  <2>1. /\ j \in 1 .. Len(u.refs[i]) /\ k \in 1 .. Len(u.refs[i]) /\ Len(u.refs[i]) = Len(g.refs[i])
        /\ e.head = g.refs[i][k].head
    BY <1>1 DEF SelfAt, SameHeads
  <2>2. DOMAIN g.refs[i] = 1 .. Len(g.refs[i])
    BY RowIs DEF SelfAt
  <2>3. g.refs[i][k].head # i
    BY <2>2 DEF SelfAt, HeadsApart
  <2>. QED BY <2>1, <2>3
<1>3. E \in Edges /\ E.head = i
  BY PivotAssumption DEF Edge, Edges
<1>4. v.refs = Put(u.refs, i, j, E) /\ v.op = u.op /\ IsPut(v.refs, u.refs, i, j, E)
  <2>1. v.refs = Put(u.refs, i, j, E) /\ v.op = u.op
    BY DEF Negative, Changed, Put
  <2>2. IsPut(Put(u.refs, i, j, E), u.refs, i, j, E)
    BY <1>1, <1>2, <1>3, PutIs
  <2>. QED BY <2>1, <2>2
<1>5. v.refs[i][k] = e /\ Len(v.refs[i]) = Len(u.refs[i])
  BY <1>2, <1>4 DEF IsPut
<1>6. DividedWell(v, k, i, L, c, n, h)
  <2>1. q = Quotients(v.op, v.refs[i][k], c, n)
    BY <1>4, <1>5
  <2>2. Divisors(v.op, c, n) /\ c \notin Ends(v.refs[i][k]) /\ n \notin Ends(v.refs[i][k])
    BY <1>1, <1>2, <1>4, <1>5
  <2>3. k \in 1 .. Len(v.refs[i])
    BY <1>2, <1>5
  <2>. HIDE DEF v, q
  <2>. QED BY <1>1, <2>1, <2>2, <2>3, DivideOther
<1>7. y = Changed(u, i, k, q.edge, q.op)
  BY <1>2 DEF DivideNth, Quotients, Changed
<1>8. q.edge.head = e.head /\ h.refs[i][k].head = e.head /\ h.refs[i][k] = q.edge
  <2>1. q.edge.head = e.head
    BY DEF Quotients, Edge
  <2>2. h.refs[i][k] = q.edge
    <3>1. v.refs \in [Pivot -> Seq(Edges)]
      BY <1>1, WholeIs
    <3>2. h.refs = [v.refs EXCEPT ![i] = [v.refs[i] EXCEPT ![k] = q.edge]]
      BY DEF Changed
    <3>3. k \in DOMAIN v.refs[i]
      BY <1>2, <1>5, <3>1, RowIs
    <3>. HIDE DEF v, q, h
    <3>. QED BY <3>1, <3>2, <3>3
  <2>. QED BY <2>1, <2>2
<1>9. q.edge \in Edges
  <2>1. FineEdge(h, i, k)
    <3>1. Whole(h, L) /\ k \in 1 .. Len(h.refs[i])
      BY <1>2, <1>5, <1>6 DEF DividedWell, AtEdge
    <3>. HIDE DEF h
    <3>. QED BY <3>1, WholeEdge
  <2>. QED BY <1>8, <2>1 DEF FineEdge
<1>10. EdgeStep(u, y, i, k, q.edge, q.op)
  BY <1>7, <1>8, <1>9 DEF EdgeStep
<1>. HIDE DEF y, q, h, v, E
<1>11. /\ y = [refs |-> y.refs, op |-> y.op] /\ y.refs \in [Pivot -> Seq(Edges)] /\ y.op = q.op
       /\ y.refs = Put(u.refs, i, k, q.edge) /\ SameHeads(g.refs, y.refs) /\ Len(y.refs[i]) = Len(u.refs[i])
       /\ y.refs[i][k] = q.edge
       /\ \A m \in 1 .. Len(u.refs[i]) : m # k => y.refs[i][m] = u.refs[i][m]
  <2>1. Stepped(g, u, y, i, k, q.edge, q.op)
    BY <1>1, <1>2, <1>10, StepHeads
  <2>. QED BY <2>1 DEF Stepped
<1>12. Negative(y, i, j, c, n) = h
  <2>1. Put(Put(u.refs, i, j, E), i, k, q.edge) = Put(Put(u.refs, i, k, q.edge), i, j, E)
    <3>. DEFINE r == u.refs
                d == q.edge
    <3>1. r \in [Pivot -> Seq(Edges)] /\ j \in 1 .. Len(r[i]) /\ k \in 1 .. Len(r[i]) /\ k # j
      BY <1>1, <1>2
    <3>. HIDE DEF r, d
    <3>2. Put(Put(r, i, j, E), i, k, d) = Put(Put(r, i, k, d), i, j, E)
      BY <3>1, PutPut
    <3>. QED BY <3>2 DEF r, d
  <2>2. h = [refs |-> Put(Put(u.refs, i, j, E), i, k, q.edge), op |-> q.op]
    BY <1>4 DEF h, Changed, Put
  <2>3. Negative(y, i, j, c, n) = [refs |-> Put(Put(u.refs, i, k, q.edge), i, j, E), op |-> q.op]
    BY <1>11 DEF Negative, Changed, Put, E
  <2>. QED BY <2>1, <2>2, <2>3
<1>13. Whole(h, L) /\ Divisors(q.op, c, n) /\ c \notin Ends(q.edge) /\ n \notin Ends(q.edge)
  <2>1. h.op = q.op
    BY DEF h, Changed
  <2>. QED BY <1>6, <1>8, <2>1 DEF DividedWell
<1>14. ASSUME NEW m \in 1 .. Len(y.refs[i]), m # j PROVE c \notin Ends(y.refs[i][m]) /\ n \notin Ends(y.refs[i][m])
  <2>1. CASE m = k
    BY <1>11, <1>13, <2>1
  <2>2. CASE m # k
    BY <1>1, <1>11, <1>14, <2>2
  <2>. QED BY <2>1, <2>2
<1>15. Dividing(g, y, i, j, c, n)
  BY <1>11, <1>13, <1>14 DEF Dividing
<1>16. DividingBefore(g, y, L, i, j, c, n)
  BY <1>12, <1>13, <1>15 DEF DividingBefore
<1>. QED BY <1>16 DEF y

\* ... the self edge itself becomes one with the graph's one, ...
LEMMA DivideSelf ==
  ASSUME NEW g, NEW u, NEW L, NEW i \in Pivot, NEW j, NEW c \in Nat, NEW n \in Nat, SelfAt(g, i, j),
         DividingBefore(g, u, L, i, j, c, n), NEW M, Inherited(L, Edge(i, c, n), M)
  PROVE  DividingAfter(g, DivideNth(u, i, j, c, n), M, i, j, c, n)
<1>. DEFINE E == Edge(i, c, n)
            D == Edge(i, One, One)
            v == Negative(u, i, j, c, n)
            t == Ref(Ref(u.op, One), One)
            y == DivideNth(u, i, j, c, n)
            h == Changed(v, i, j, D, t)
<1>1. /\ u.refs \in [Pivot -> Seq(Edges)] /\ SameHeads(g.refs, u.refs) /\ Divisors(u.op, c, n)
      /\ \A m \in 1 .. Len(u.refs[i]) : m # j => c \notin Ends(u.refs[i][m]) /\ n \notin Ends(u.refs[i][m])
      /\ Whole(v, L) /\ L \in [Nat -> Nat]
  BY WholeIs DEF DividingBefore, Dividing
<1>2. j \in 1 .. Len(u.refs[i]) /\ Len(u.refs[i]) = Len(g.refs[i]) /\ u.refs[i][j].head = i
  BY <1>1 DEF SelfAt, SameHeads
<1>3. E \in Edges /\ E.head = i /\ D \in Edges /\ D.head = i
  BY PivotAssumption DEF Edge, Edges, One
<1>4. v.refs = Put(u.refs, i, j, E) /\ v.op = u.op /\ IsPut(v.refs, u.refs, i, j, E)
  <2>1. v.refs = Put(u.refs, i, j, E) /\ v.op = u.op
    BY DEF Negative, Changed, Put
  <2>2. IsPut(Put(u.refs, i, j, E), u.refs, i, j, E)
    BY <1>1, <1>2, <1>3, PutIs
  <2>. QED BY <2>1, <2>2
<1>5. v.refs[i][j] = E /\ Len(v.refs[i]) = Len(u.refs[i])
  BY <1>2, <1>4 DEF IsPut
<1>6. Whole(h, M) /\ Later(u.op, t) /\ DOMAIN t = DOMAIN u.op
  <2>1. t = Ref(Ref(v.op, One), One) /\ v.refs[i][j] = Edge(i, c, n) /\ j \in 1 .. Len(v.refs[i])
    BY <1>2, <1>4, <1>5
  <2>2. v.op = u.op
    BY <1>4
  <2>. HIDE DEF v, t
  <2>. QED BY <1>1, <2>1, <2>2, SelfSound
<1>7. y = Changed(u, i, j, D, t)
  BY <1>2 DEF DivideNth, Changed
<1>8. EdgeStep(u, y, i, j, D, t)
  BY <1>2, <1>3, <1>7 DEF EdgeStep
<1>. HIDE DEF y, t, h, v, E, D
<1>9. /\ y = [refs |-> y.refs, op |-> y.op] /\ y.refs \in [Pivot -> Seq(Edges)] /\ y.op = t
      /\ y.refs = Put(u.refs, i, j, D) /\ SameHeads(g.refs, y.refs) /\ Len(y.refs[i]) = Len(u.refs[i])
      /\ y.refs[i][j] = D
      /\ \A m \in 1 .. Len(u.refs[i]) : m # j => y.refs[i][m] = u.refs[i][m]
  <2>1. Stepped(g, u, y, i, j, D, t)
    BY <1>1, <1>2, <1>8, StepHeads
  <2>. QED BY <2>1 DEF Stepped
<1>10. y = h
  <2>1. Put(Put(u.refs, i, j, E), i, j, D) = Put(u.refs, i, j, D)
    <3>. DEFINE r == u.refs
    <3>1. r \in [Pivot -> Seq(Edges)] /\ j \in 1 .. Len(r[i])
      BY <1>1, <1>2
    <3>. HIDE DEF r
    <3>2. Put(Put(r, i, j, E), i, j, D) = Put(r, i, j, D)
      BY <3>1, PutTwice
    <3>. QED BY <3>2 DEF r
  <2>2. h = [refs |-> Put(Put(u.refs, i, j, E), i, j, D), op |-> t]
    BY <1>4 DEF h, Changed, Put
  <2>. QED BY <1>9, <2>1, <2>2
<1>11. Divisors(t, c, n)
  BY <1>1, <1>6 DEF Divisors, Later, IsTerminal
<1>12. Dividing(g, y, i, j, c, n)
  BY <1>1, <1>9, <1>11 DEF Dividing
<1>13. DividingAfter(g, y, M, i, j, c, n)
  BY <1>6, <1>10, <1>12 DEF DividingAfter
<1>. QED BY <1>13 DEF y

\* ... and the other edges are divided afterwards.
LEMMA DivideAfter ==
  ASSUME NEW g, NEW u, NEW M, NEW i \in Pivot, NEW j, NEW c \in Nat, NEW n \in Nat, SelfAt(g, i, j),
         DividingAfter(g, u, M, i, j, c, n), NEW k \in 1 .. Len(g.refs[i]), k # j
  PROVE  DividingAfter(g, DivideNth(u, i, k, c, n), M, i, j, c, n)
<1>. DEFINE e == u.refs[i][k]
            q == Quotients(u.op, e, c, n)
            y == DivideNth(u, i, k, c, n)
            h == Changed(u, i, k, q.edge, q.op)
<1>1. /\ u.refs \in [Pivot -> Seq(Edges)] /\ SameHeads(g.refs, u.refs) /\ Divisors(u.op, c, n)
      /\ \A m \in 1 .. Len(u.refs[i]) : m # j => c \notin Ends(u.refs[i][m]) /\ n \notin Ends(u.refs[i][m])
      /\ Whole(u, M)
  BY WholeIs DEF DividingAfter, Dividing
<1>2. /\ j \in 1 .. Len(u.refs[i]) /\ k \in 1 .. Len(u.refs[i]) /\ Len(u.refs[i]) = Len(g.refs[i])
      /\ e.head = g.refs[i][k].head /\ e.head # i
  <2>1. /\ j \in 1 .. Len(u.refs[i]) /\ k \in 1 .. Len(u.refs[i]) /\ Len(u.refs[i]) = Len(g.refs[i])
        /\ e.head = g.refs[i][k].head
    BY <1>1 DEF SelfAt, SameHeads
  <2>2. DOMAIN g.refs[i] = 1 .. Len(g.refs[i])
    BY RowIs DEF SelfAt
  <2>3. g.refs[i][k].head # i
    BY <2>2 DEF SelfAt, HeadsApart
  <2>. QED BY <2>1, <2>3
<1>6. DividedWell(u, k, i, M, c, n, h)
  <2>2. c \notin Ends(u.refs[i][k]) /\ n \notin Ends(u.refs[i][k])
    BY <1>1, <1>2
  <2>3. q = Quotients(u.op, u.refs[i][k], c, n)
    OBVIOUS
  <2>. HIDE DEF q
  <2>. QED BY <1>1, <1>2, <2>2, <2>3, DivideOther
<1>7. y = h
  BY <1>2 DEF DivideNth, Quotients, Changed
<1>8. q.edge.head = e.head
  BY DEF Quotients, Edge
<1>9. h.refs[i][k] = q.edge
  <2>2. h.refs = [u.refs EXCEPT ![i] = [u.refs[i] EXCEPT ![k] = q.edge]]
    BY DEF Changed
  <2>3. k \in DOMAIN u.refs[i]
    BY <1>1, <1>2, RowIs
  <2>. HIDE DEF q, h
  <2>. QED BY <1>1, <2>2, <2>3
<1>10. q.edge \in Edges
  <2>1. FineEdge(h, i, k)
    <3>1. Whole(h, M) /\ k \in 1 .. Len(h.refs[i])
      BY <1>2, <1>6 DEF DividedWell, AtEdge
    <3>. HIDE DEF h
    <3>. QED BY <3>1, WholeEdge
  <2>. QED BY <1>9, <2>1 DEF FineEdge
<1>11. EdgeStep(u, y, i, k, q.edge, q.op)
  BY <1>7, <1>8, <1>10 DEF EdgeStep
<1>. HIDE DEF y, q, h
<1>12. /\ y = [refs |-> y.refs, op |-> y.op] /\ y.refs \in [Pivot -> Seq(Edges)] /\ y.op = q.op
       /\ y.refs = Put(u.refs, i, k, q.edge) /\ SameHeads(g.refs, y.refs) /\ Len(y.refs[i]) = Len(u.refs[i])
       /\ y.refs[i][k] = q.edge
       /\ \A m \in 1 .. Len(u.refs[i]) : m # k => y.refs[i][m] = u.refs[i][m]
  <2>1. Stepped(g, u, y, i, k, q.edge, q.op)
    BY <1>1, <1>2, <1>11, StepHeads
  <2>. QED BY <2>1 DEF Stepped
<1>13. Whole(h, M) /\ Divisors(q.op, c, n) /\ c \notin Ends(q.edge) /\ n \notin Ends(q.edge)
  BY <1>6, <1>7, <1>9, <1>12 DEF DividedWell
<1>14. ASSUME NEW m \in 1 .. Len(y.refs[i]), m # j PROVE c \notin Ends(y.refs[i][m]) /\ n \notin Ends(y.refs[i][m])
  <2>1. CASE m = k
    BY <1>12, <1>13, <2>1
  <2>2. CASE m # k
    BY <1>1, <1>12, <1>14, <2>2
  <2>. QED BY <2>1, <2>2
<1>15. Dividing(g, y, i, j, c, n)
  BY <1>12, <1>13, <1>14 DEF Dividing
<1>16. DividingAfter(g, y, M, i, j, c, n)
  BY <1>7, <1>13, <1>15 DEF DividingAfter
<1>. QED BY <1>16 DEF y

\* How qs_pivot_graph_normalize goes through the edges.
DividingOn(f, g, i, x, y, n) == f[0] = g /\ \A k \in 1 .. n : f[k] = DivideNth(f[k - 1], i, k, x, y)

\* The loop of qs_pivot_graph_normalize has a table of its intermediate graphs.
LEMMA DividingOnIs ==
  ASSUME NEW g, NEW i, NEW x, NEW y, Len(g.refs[i]) \in Nat
  PROVE  \E f : DividingOn(f, g, i, x, y, Len(g.refs[i])) /\ DivideAll(g, i, x, y) = f[Len(g.refs[i])]
<1>. DEFINE n == Len(g.refs[i])
            IsIt(f, m) == f = [k \in 0 .. m |-> IF k = 0 THEN g ELSE DivideNth(f[k - 1], i, k, x, y)]
            Good == {m \in Nat : \E f : IsIt(f, m)}
<1>1. 0 \in Good
  <2>. DEFINE h == [k \in 0 .. 0 |-> g]
  <2>1. \A k \in 0 .. 0 : h[k] = IF k = 0 THEN g ELSE DivideNth(h[k - 1], i, k, x, y)
    OBVIOUS
  <2>2. IsIt(h, 0)
    BY <2>1
  <2>. QED BY <2>2
<1>2. ASSUME NEW m \in 0 .. (n - 1), m \in Good PROVE m + 1 \in Good
  <2>1. PICK f : IsIt(f, m)
    BY <1>2
  <2>. DEFINE h == [k \in 0 .. (m + 1) |-> IF k = m + 1 THEN DivideNth(f[m], i, (m + 1), x, y) ELSE f[k]]
  <2>2. \A k \in 0 .. m : h[k] = f[k] /\ f[k] = IF k = 0 THEN g ELSE DivideNth(f[k - 1], i, k, x, y)
    BY <2>1
  <2>3. h[m + 1] = DivideNth(f[m], i, (m + 1), x, y)
    OBVIOUS
  <2>4. ASSUME NEW k \in 0 .. (m + 1) PROVE h[k] = IF k = 0 THEN g ELSE DivideNth(h[k - 1], i, k, x, y)
    <3>1. CASE k = 0
      <4>1. 0 \in 0 .. m
        OBVIOUS
      <4>2. h[0] = g
        BY <2>2, <4>1
      <4>. HIDE DEF h
      <4>. QED BY <3>1, <4>2
    <3>2. CASE k \in 1 .. m
      <4>1. k \in 0 .. m /\ k - 1 \in 0 .. m /\ k # 0
        BY <3>2
      <4>2. h[k] = f[k] /\ f[k] = DivideNth(f[k - 1], i, k, x, y) /\ h[k - 1] = f[k - 1]
        BY <2>2, <4>1
      <4>. HIDE DEF h
      <4>. QED BY <4>1, <4>2
    <3>3. CASE k = m + 1
      <4>1. k # 0 /\ k - 1 = m /\ m \in 0 .. m
        BY <3>3
      <4>2. h[k - 1] = f[m]
        BY <2>2, <4>1
      <4>. HIDE DEF h
      <4>. QED BY <2>3, <3>3, <4>1, <4>2
    <3>. QED BY <3>1, <3>2, <3>3
  <2>5. IsIt(h, m + 1)
    <3>1. h = [k \in 0 .. (m + 1) |-> h[k]]
      OBVIOUS
    <3>. HIDE DEF h
    <3>. QED BY <2>4, <3>1
  <2>6. m + 1 \in Nat
    OBVIOUS
  <2>. HIDE DEF IsIt
  <2>. QED BY <2>5, <2>6
<1>3. n \in Good
  <2>. HIDE DEF Good
  <2>. QED BY <1>1, <1>2, StepByStep
<1>. DEFINE c == CHOOSE f : IsIt(f, n)
<1>4. IsIt(c, n)
  BY <1>3
<1>5. DivideAll(g, i, x, y) = c[n]
  BY Zenon DEF DivideAll
<1>6. DividingOn(c, g, i, x, y, n)
  <2>1. n \in Nat
    OBVIOUS
  <2>2. \A k \in 0 .. n : c[k] = IF k = 0 THEN g ELSE DivideNth(c[k - 1], i, k, x, y)
    BY <1>4
  <2>. HIDE DEF c, n, IsIt
  <2>3. 0 \in 0 .. n /\ \A k \in 1 .. n : k \in 0 .. n /\ k # 0
    BY <2>1
  <2>4. c[0] = g
    BY <2>2, <2>3
  <2>5. \A k \in 1 .. n : c[k] = DivideNth(c[k - 1], i, k, x, y)
    BY <2>2, <2>3
  <2>. QED BY <2>4, <2>5 DEF DividingOn
<1>. QED BY <1>5, <1>6

\* The loop turns a self edge with the negatives into one with the graph's one.
LEMMA DividedAll ==
  ASSUME NEW g, NEW u, NEW L, NEW i \in Pivot, NEW j, NEW c \in Nat, NEW n \in Nat, SelfAt(g, i, j),
         DividingBefore(g, u, L, i, j, c, n), NEW M, Inherited(L, Edge(i, c, n), M)
  PROVE  DividingAfter(g, DivideAll(u, i, c, n), M, i, j, c, n)
<1>. DEFINE m == Len(u.refs[i])
<1>1. m \in Nat /\ m = Len(g.refs[i]) /\ j \in 1 .. m
  BY RowIs DEF DividingBefore, Dividing, SelfAt, SameHeads
<1>2. PICK f : DividingOn(f, u, i, c, n, m) /\ DivideAll(u, i, c, n) = f[m]
  BY <1>1, DividingOnIs
<1>. HIDE DEF m
<1>. DEFINE Fine(k) == IF k < j THEN DividingBefore(g, f[k], L, i, j, c, n)
                       ELSE DividingAfter(g, f[k], M, i, j, c, n)
            Good == {k \in Nat : k <= m => Fine(k)}
<1>3. 0 \in Good
  <2>1. f[0] = u /\ 0 < j
    BY <1>1, <1>2 DEF DividingOn
  <2>. QED BY <2>1
<1>4. ASSUME NEW k \in 0 .. (m - 1), k \in Good PROVE k + 1 \in Good
  <2>1. Fine(k) /\ k \in Nat /\ k + 1 \in 1 .. m /\ k + 1 \in Nat /\ j \in Nat
    BY <1>1, <1>4
  <2>2. f[k + 1] = DivideNth(f[k], i, k + 1, c, n)
    <3>1. \A x \in 1 .. m : f[x] = DivideNth(f[x - 1], i, x, c, n)
      BY <1>2 DEF DividingOn
    <3>2. k + 1 - 1 = k
      OBVIOUS
    <3>. QED BY <2>1, <3>1, <3>2
  <2>3. k + 1 \in 1 .. Len(g.refs[i])
    BY <1>1, <2>1
  <2>4. Fine(k + 1)
    <3>1. CASE k + 1 < j
      <4>1. DividingBefore(g, f[k], L, i, j, c, n) /\ k + 1 # j
        BY <2>1, <3>1
      <4>2. DividingBefore(g, f[k + 1], L, i, j, c, n)
        BY <2>2, <2>3, <4>1, DivideBefore
      <4>. QED BY <3>1, <4>2
    <3>2. CASE k + 1 = j
      <4>1. DividingBefore(g, f[k], L, i, j, c, n) /\ ~(k + 1 < j)
        BY <2>1, <3>2
      <4>2. DividingAfter(g, f[k + 1], M, i, j, c, n)
        BY <2>2, <3>2, <4>1, DivideSelf
      <4>. QED BY <4>1, <4>2
    <3>3. CASE k + 1 > j
      <4>1. DividingAfter(g, f[k], M, i, j, c, n) /\ k + 1 # j /\ ~(k + 1 < j)
        BY <2>1, <3>3
      <4>2. DividingAfter(g, f[k + 1], M, i, j, c, n)
        BY <2>2, <2>3, <4>1, DivideAfter
      <4>. QED BY <4>1, <4>2
    <3>. QED BY <2>1, <3>1, <3>2, <3>3
  <2>. HIDE DEF Fine
  <2>. QED BY <2>1, <2>4
<1>5. m \in Good
  <2>. HIDE DEF Good
  <2>. QED BY <1>1, <1>3, <1>4, StepByStep
<1>6. DividingAfter(g, f[m], M, i, j, c, n)
  BY <1>1, <1>5
<1>. QED BY <1>2, <1>6

\* The operands of the self edge are replaced by their negatives: one of them, ...
LEMMA NegatedIs ==
  ASSUME NEW s, NEW o, NEW v, v = s[o].val
  PROVE  Negated(s, o) = Unref(New(s, "terminal", <<o>>, P - v), o)
BY DEF Negated, Bake

LEMMA Alone ==
  ASSUME NEW s, NEW o \in DOMAIN s
  PROVE  /\ <<o>> \in Seq(DOMAIN s) /\ Occurrences(<<o>>, o) = 1
         /\ \A x \in 1 .. Len(<<o>>) : <<o>>[x] # o => IsTerminal(s, <<o>>[x])
<1>1. Occurrences(<<o>>, o) = Is(o, o)
  <2>1. \A a, b, x : /\ Occurrences(<<>>, x) = 0
                     /\ Occurrences(<<a>>, x) = Is(a, x)
                     /\ Occurrences(<<a, b>>, x) = Is(a, x) + Is(b, x)
    BY OccurrencesShort, Zenon
  <2>. QED BY <2>1, Zenon
<1>2. Is(o, o) = 1
  BY DEF Is
<1>3. ASSUME NEW x \in 1 .. Len(<<o>>) PROVE <<o>>[x] = o
  OBVIOUS
<1>. QED BY <1>1, <1>2, <1>3

\* ... and the other.
LEMMA NegativesSound ==
  ASSUME NEW g, NEW L, Whole(g, L), NEW i \in Pivot, NEW j, SelfAt(g, i, j),
         g.op[g.refs[i][j].numeric].val # 0,
         NEW a, a = Negated(g.op, g.refs[i][j].coefficient), NEW b, b = Negated(a, g.refs[i][j].numeric)
  PROVE  /\ DividingBefore(g, [refs |-> g.refs, op |-> b], L, i, j, Fresh(g.op), Fresh(a))
         /\ Fresh(g.op) \in Nat /\ Fresh(a) \in Nat
<1>. DEFINE e == g.refs[i][j]
            s == g.op
            H == Outside(g.refs, L)
            y == s[e.numeric].val
            val == P - y
            args1 == <<e.coefficient>>
            args2 == <<e.numeric>>
            c == Fresh(s)
            n == Fresh(a)
            u == [refs |-> g.refs, op |-> b]
            h == Changed(g, i, j, Edge(e.head, c, n), b)
<1>1. /\ g.refs \in [Pivot -> Seq(Edges)] /\ HeadsApart(g.refs[i]) /\ j \in 1 .. Len(g.refs[i]) /\ e.head = i
  BY DEF SelfAt
<1>2. /\ Sound(s, H) /\ Store(s) /\ L \in [Nat -> Nat] /\ Counted(s, H)
  <2>1. Store(s) /\ L \in [Nat -> Nat] /\ Counted(s, H)
    BY WholeIs
  <2>. QED BY <2>1 DEF Whole
<1>3. e \in Edges /\ e.coefficient \in DOMAIN s /\ e.numeric \in DOMAIN s /\ s[e.coefficient].val = y
  <2>1. FineEdge(g, i, j)
    BY <1>1, WholeEdge
  <2>. QED BY <2>1 DEF FineEdge
<1>4. y \in 1 .. (P - 1) /\ val \in 1 .. (P - 1) /\ val % P = val /\ val \in Int
  <2>1. y \in Coefficient /\ y # 0
    BY <1>2, <1>3, StoreIs
  <2>. HIDE DEF y
  <2>2. y \in 1 .. (P - 1) /\ val \in 1 .. (P - 1)
    BY <2>1, PrimeAssumption DEF Coefficient
  <2>3. val \in Coefficient
    BY <2>2, PrimeAssumption DEF Coefficient
  <2>. HIDE DEF val
  <2>. QED BY <2>2, <2>3, ModuloIs
<1>5. a = Unref(New(s, "terminal", args1, val), e.coefficient)
  <2>. HIDE DEF y
  <2>. QED BY <1>3, NegatedIs
<1>6. Later(s, a) /\ DOMAIN a = DOMAIN s \cup {c} /\ c \in Nat /\ c \notin DOMAIN s
  <2>1. e.coefficient \in Ends(e)
    BY DEF Ends
  <2>2. e.coefficient \in Nat /\ H[e.coefficient] >= 1
    BY <1>1, <1>2, <2>1, EndsThere
  <2>3. /\ args1 \in Seq(DOMAIN s) /\ Occurrences(args1, e.coefficient) = 1
        /\ \A x \in 1 .. Len(args1) : args1[x] # e.coefficient => IsTerminal(s, args1[x])
    <3>. HIDE DEF s, e
    <3>. QED BY <1>3, Alone
  <2>. HIDE DEF H, args1, val, s, e
  <2>4. Supersedes(s, a, H, "terminal", args1, val, e.coefficient)
    BY <1>4, <1>5, <2>2, <2>3 DEF Supersedes
  <2>. QED BY <1>2, <2>4, SupersedeLater DEF c
<1>7. b = Unref(New(a, "terminal", args2, val), e.numeric)
  <2>1. a[e.numeric].val = y
    BY <1>3, <1>6 DEF Later
  <2>. HIDE DEF y
  <2>. QED BY <2>1, NegatedIs
<1>8. Renewing(g, i, j, "terminal", args1, val, args2, val, a, b)
  <2>1. /\ args1 \in Seq(DOMAIN s) /\ Occurrences(args1, e.coefficient) = 1
        /\ \A x \in 1 .. Len(args1) : args1[x] # e.coefficient => IsTerminal(s, args1[x])
    <3>. HIDE DEF s, e
    <3>. QED BY <1>3, Alone
  <2>2. /\ args2 \in Seq(DOMAIN s) /\ Occurrences(args2, e.numeric) = 1
        /\ \A x \in 1 .. Len(args2) : args2[x] # e.numeric => IsTerminal(s, args2[x])
    <3>. HIDE DEF s, e
    <3>. QED BY <1>3, Alone
  <2>. HIDE DEF args1, args2, val
  <2>. QED BY <1>4, <1>5, <1>7, <2>1, <2>2 DEF Renewing
<1>. HIDE DEF args1, args2, val, y
<1>9. RenewedWell(g, h, L, i, j, "terminal", val, c, n)
  BY <1>1, <1>8, RenewSound
<1>10. /\ Whole(h, L) /\ Later(s, b) /\ DOMAIN b = DOMAIN s \cup {c, n}
       /\ c \in Nat /\ n \in Nat /\ c # n /\ c \notin DOMAIN s /\ n \notin DOMAIN s
       /\ b[c].kind = "terminal" /\ b[n].kind = "terminal" /\ b[c].val = val /\ b[n].val = val
  <2>1. h.op = b
    BY DEF Changed
  <2>. HIDE DEF h, c, n
  <2>. QED BY <1>4, <1>9, <2>1 DEF RenewedWell
<1>11. Divisors(b, c, n)
  <2>1. One \in DOMAIN s
    BY WholeIs
  <2>. HIDE DEF c, n, s
  <2>2. c # One /\ n # One
    BY <1>10, <2>1
  <2>3. c \in DOMAIN b /\ n \in DOMAIN b /\ IsTerminal(b, c) /\ IsTerminal(b, n)
    BY <1>10 DEF IsTerminal
  <2>4. b[c].val = b[n].val /\ b[c].val # 0
    BY <1>4, <1>10, SMTT(30)
  <2>. QED BY <2>2, <2>3, <2>4 DEF Divisors
<1>12. ASSUME NEW m \in 1 .. Len(g.refs[i]) PROVE c \notin Ends(g.refs[i][m]) /\ n \notin Ends(g.refs[i][m])
  <2>1. FineEdge(g, i, m)
    BY WholeEdge
  <2>. HIDE DEF c, n
  <2>. QED BY <1>10, <2>1 DEF FineEdge
<1>13. Negative(u, i, j, c, n) = h
  BY <1>1 DEF Negative, Changed
<1>14. Dividing(g, u, i, j, c, n)
  <2>1. SameHeads(g.refs, g.refs)
    BY DEF SameHeads
  <2>2. u.refs = g.refs /\ u.op = b /\ u = [refs |-> u.refs, op |-> u.op]
    OBVIOUS
  <2>. HIDE DEF c, n, u
  <2>. QED BY <1>1, <1>11, <1>12, <2>1, <2>2 DEF Dividing
<1>. QED BY <1>10, <1>13, <1>14 DEF DividingBefore

\* qs_pivot_graph_normalize
LEMMA NormalizeSound ==
  ASSUME NEW g, NEW L, Whole(g, L), NEW i \in Pivot, NEW j, j = IndexOf(g.refs[i], i), j # 0, HeadsApart(g.refs[i]),
         g.op[g.refs[i][j].numeric].val # 0
  PROVE  Whole(Normalize(g, i), L) /\ HeadsKept(g.refs, Normalize(g, i).refs)
<1>. DEFINE e == g.refs[i][j]
            a == Negated(g.op, e.coefficient)
            b == Negated(a, e.numeric)
            c == Fresh(g.op)
            n == Fresh(a)
            u == [refs |-> g.refs, op |-> b]
            all == DivideAll(u, i, c, n)
            E == Edge(i, c, n)
            t == Unref(Unref(all.op, c), n)
<1>1. CASE Len(g.refs[i]) = 1
  <2>1. Normalize(g, i) = g
    BY <1>1, Zenon DEF Normalize
  <2>2. HeadsKept(g.refs, g.refs)
    BY DEF HeadsKept
  <2>. QED BY <2>1, <2>2
<1>2. CASE Len(g.refs[i]) # 1
  <2>1. SelfAt(g, i, j) /\ L \in [Nat -> Nat] /\ L[One] >= 1
    <3>1. g.refs \in [Pivot -> Seq(Edges)] /\ L \in [Nat -> Nat]
      BY WholeIs
    <3>2. g.refs[i] \in Seq(Edges)
      BY <3>1
    <3>3. j \in 1 .. Len(g.refs[i]) /\ g.refs[i][j].head = i
      BY <3>2, IndexIs
    <3>. QED BY <3>1, <3>3 DEF SelfAt, Whole
  <2>2. DividingBefore(g, u, L, i, j, c, n) /\ c \in Nat /\ n \in Nat
    BY <2>1, NegativesSound
  <2>. HIDE DEF u, c, n
  <2>3. E \in Edges /\ E.coefficient = c /\ E.numeric = n
    BY <2>2, PivotAssumption DEF Edge, Edges
  <2>4. PICK M, N : /\ Inherited(L, E, M) /\ Taken(M, E.coefficient, N) /\ Taken(N, E.numeric, L)
                    /\ M[E.coefficient] >= 1 /\ N[E.numeric] >= 1 /\ N[One] >= 1
    BY <2>1, <2>3, InheritedTaken
  <2>5. DividingAfter(g, all, M, i, j, c, n)
    BY <2>1, <2>2, <2>4, DividedAll
  <2>. HIDE DEF all, E
  <2>6. Whole(all, M) /\ all = [refs |-> all.refs, op |-> all.op] /\ SameHeads(g.refs, all.refs)
        /\ all.refs \in [Pivot -> Seq(Edges)]
    BY <2>5 DEF DividingAfter, Dividing
  <2>7. Whole([refs |-> all.refs, op |-> Unref(all.op, c)], N)
    BY <2>2, <2>3, <2>4, <2>6, WholeTaken
  <2>8. Whole([refs |-> all.refs, op |-> t], L)
    <3>. DEFINE w == [refs |-> all.refs, op |-> Unref(all.op, c)]
    <3>1. w.refs = all.refs /\ t = Unref(w.op, n)
      OBVIOUS
    <3>2. Whole(w, N)
      BY <2>7
    <3>. HIDE DEF w, t
    <3>. QED BY <2>1, <2>2, <2>3, <2>4, <3>1, <3>2, WholeTaken
  <2>9. Normalize(g, i) = [refs |-> all.refs, op |-> t]
    <3>1. g = [refs |-> g.refs, op |-> g.op]
      BY DEF Whole
    <3>2. [g EXCEPT !.op = b] = u
      BY <3>1 DEF u
    <3>3. Normalize(g, i) = [all EXCEPT !.op = Unref(Unref(all.op, c), n)]
      BY <1>2, <3>2, Zenon DEF Normalize, all, c, n
    <3>. QED BY <2>6, <3>3
  <2>10. HeadsKept(g.refs, all.refs)
    BY <2>1, <2>6, HeadsSame DEF SelfAt
  <2>. HIDE DEF t
  <2>. QED BY <2>8, <2>9, <2>10
<1>. QED BY <1>1, <1>2
=============================================================================
