------------------------------ MODULE ADCProof ------------------------------
(***************************************************************************)
(* Proofs about ADC, for any number of terminals, any graph of them, any   *)
(* set of workers and any width of the count: the invariant of             *)
(* ADCInvariant holds, counts are exactly what can be collected, a         *)
(* terminal that is independent counts one, and nobody is left in a count  *)
(* that is freed.                                                          *)
(*                                                                         *)
(* What pull_adc collects is a fold over a set.  Induction over finite     *)
(* sets is done here by looking at a smallest counterexample.              *)
(***************************************************************************)
EXTENDS ADCInvariant, FiniteSetTheorems, SequenceTheorems, WellFoundedInduction, TLAPS

\* The choices of the fold of Collected, and the fold over any set of entries.
Chosen(S) == CHOOSE q \in S : TRUE
Total(c, Q) ==
  MapThenFoldSet(Plus, 1, LAMBDA q : c[q[1]][q[2]], LAMBDA S : CHOOSE q \in S : TRUE, Q)

\* The recursive function it is defined with.
IsFold(g, c, Q) ==
  g = [s \in SUBSET Q |-> IF s = {} THEN 1
         ELSE Plus(c[Chosen(s)[1]][Chosen(s)[2]], g[s \ {Chosen(s)}])]

\* All of the contributions are counts.
Valued(c, Q) == \A q \in Q : c[q[1]][q[2]] \in Count

-----------------------------------------------------------------------------
(* Folds of Plus *)

\* Of finite sets there is a smallest one.
LEMMA SmallestSet ==
  ASSUME NEW B, NEW T, T \subseteq FiniteSubsetsOf(B), T # {}
  PROVE  \E Q \in T : \A R \in T : ~ (R \subseteq Q /\ R # Q)
<1>1. PICK Q \in T : \A R \in T : ~ (<<R, Q>> \in StrictSubsetOrdering(B))
  BY FS_StrictSubsetOrderingWellFounded, WFMin
<1>2. T \subseteq SUBSET B
  BY DEF FiniteSubsetsOf
<1>. QED BY <1>1, <1>2 DEF StrictSubsetOrdering

\* Counts are added as terminal_add_dependency and pull_adc do: the order does not matter.
LEMMA PlusType == \A a, b \in Count : Plus(a, b) \in Count
  BY CountAssumption DEF Plus, Count
LEMMA PlusSwap == \A a, b \in Count : Plus(a, b) = Plus(b, a)
  BY CountAssumption DEF Plus, Count
LEMMA PlusSwaps == \A a, b, d \in Count : Plus(a, Plus(b, d)) = Plus(b, Plus(a, d))
  BY CountAssumption DEF Plus, Count
LEMMA PlusZero == \A a \in Count : Plus(0, a) = a
  BY CountAssumption DEF Plus, Count

\* What a count falls by when one of its contributions does.
LEMMA PlusLess ==
  ASSUME NEW c \in Count, NEW a \in Count, NEW r \in Count,
         c # Overflown => a # Overflown /\ a <= c,
         Plus(c, r) # Overflown
  PROVE  /\ c # Overflown /\ a # Overflown /\ c - a \in Nat
         /\ c - a <= Plus(c, r) /\ Plus(c, r) - (c - a) = Plus(a, r)
  BY CountAssumption DEF Plus, Count

LEMMA ChosenIn == \A S : S # {} => Chosen(S) \in S
  BY DEF Chosen

\* What the recursive function gives for a set, and that there is such a function for
\* finite sets, which agrees with that for a larger one.
LEMMA FoldStep ==
  ASSUME NEW g, NEW c, NEW Q, IsFold(g, c, Q), NEW u, u \subseteq Q
  PROVE  /\ u = {} => g[u] = 1
         /\ u # {} => g[u] = Plus(c[Chosen(u)[1]][Chosen(u)[2]], g[u \ {Chosen(u)}])
<1>. u \in SUBSET Q
  OBVIOUS
<1>. QED BY DEF IsFold

LEMMA FoldsAgree ==
  ASSUME NEW c, NEW S, NEW T, NEW g, NEW h, IsFold(g, c, S), IsFold(h, c, T)
  PROVE  \A u : IsFiniteSet(u) /\ u \subseteq S /\ u \subseteq T => g[u] = h[u]
<1>. DEFINE Bad == {u \in FiniteSubsetsOf(S \cap T) : g[u] # h[u]}
<1>1. ASSUME Bad # {} PROVE FALSE
  <2>1. PICK u \in Bad : \A r \in Bad : ~ (r \subseteq u /\ r # u)
    <3>1. Bad \subseteq FiniteSubsetsOf(S \cap T)
      OBVIOUS
    <3>. HIDE DEF Bad
    <3>. QED BY <1>1, <3>1, SmallestSet
  <2>2. u \subseteq S /\ u \subseteq T /\ IsFiniteSet(u) /\ g[u] # h[u]
    BY DEF FiniteSubsetsOf
  <2>3. u # {}
    BY <2>2, FoldStep
  <2>. DEFINE r == u \ {Chosen(u)}
  <2>4. r \subseteq u /\ r # u /\ IsFiniteSet(r)
    BY <2>2, <2>3, ChosenIn, FS_RemoveElement
  <2>5. r \in FiniteSubsetsOf(S \cap T)
    BY <2>2, <2>4 DEF FiniteSubsetsOf
  <2>6. g[r] = h[r]
    BY <2>1, <2>4, <2>5
  <2>7. /\ g[u] = Plus(c[Chosen(u)[1]][Chosen(u)[2]], g[r])
        /\ h[u] = Plus(c[Chosen(u)[1]][Chosen(u)[2]], h[r])
    BY <2>2, <2>3, FoldStep
  <2>. QED BY <2>2, <2>6, <2>7
<1>2. ASSUME NEW u, IsFiniteSet(u), u \subseteq S, u \subseteq T PROVE g[u] = h[u]
  <2>1. u \in FiniteSubsetsOf(S \cap T)
    BY <1>2 DEF FiniteSubsetsOf
  <2>. QED BY <1>1, <2>1
<1>. QED BY <1>2

LEMMA FoldExists ==
  ASSUME NEW c, NEW S, IsFiniteSet(S)
  PROVE  \E g : IsFold(g, c, S)
<1>. DEFINE Bad == {u \in FiniteSubsetsOf(S) : ~ \E g : IsFold(g, c, u)}
<1>1. ASSUME Bad # {} PROVE FALSE
  <2>1. PICK u \in Bad : \A r \in Bad : ~ (r \subseteq u /\ r # u)
    <3>1. Bad \subseteq FiniteSubsetsOf(S)
      OBVIOUS
    <3>. HIDE DEF Bad
    <3>. QED BY <1>1, <3>1, SmallestSet
  <2>2. u \subseteq S /\ IsFiniteSet(u) /\ ~ \E g : IsFold(g, c, u)
    BY DEF FiniteSubsetsOf
  <2>. DEFINE G(r) == CHOOSE g : IsFold(g, c, r)
              Low(r) == G(r)[r]
              g == [s \in SUBSET u |-> IF s = {} THEN 1
                      ELSE Plus(c[Chosen(s)[1]][Chosen(s)[2]], Low(s \ {Chosen(s)}))]
  <2>3. ASSUME NEW r, r \subseteq u, r # u PROVE IsFold(G(r), c, r) /\ IsFiniteSet(r)
    <3>1. IsFiniteSet(r)
      BY <2>2, <2>3, FS_Subset
    <3>2. r \in FiniteSubsetsOf(S)
      BY <2>2, <2>3, <3>1 DEF FiniteSubsetsOf
    <3>3. \E f : IsFold(f, c, r)
      BY <2>1, <2>3, <3>2
    <3>. QED BY <3>1, <3>3
  <2>4. ASSUME NEW s, s \subseteq u, s # u PROVE g[s] = Low(s)
    <3>0. s \in SUBSET u
      BY <2>4
    <3>1. IsFold(G(s), c, s)
      BY <2>3, <2>4
    <3>2. CASE s = {}
      <4>. HIDE DEF G
      <4>1. G(s)[s] = 1
        BY <3>1, <3>2, FoldStep
      <4>. QED BY <3>0, <3>2, <4>1
    <3>3. CASE s # {}
      <4>. DEFINE r == s \ {Chosen(s)}
      <4>1. r \subseteq u /\ r # u /\ r \subseteq s
        BY <2>4, <3>3, ChosenIn
      <4>2. IsFold(G(r), c, r) /\ IsFiniteSet(r)
        BY <2>3, <4>1
      <4>. HIDE DEF r, G
      <4>3. G(s)[r] = G(r)[r]
        BY <3>1, <4>1, <4>2, FoldsAgree
      <4>4. G(s)[s] = Plus(c[Chosen(s)[1]][Chosen(s)[2]], G(s)[r])
        BY <3>1, <3>3, FoldStep DEF r
      <4>5. g[s] = Plus(c[Chosen(s)[1]][Chosen(s)[2]], G(r)[r])
        BY <3>0, <3>3 DEF r
      <4>. QED BY <4>3, <4>4, <4>5
    <3>. QED BY <3>2, <3>3
  <2>. HIDE DEF Low
  <2>5. ASSUME NEW s \in SUBSET u
        PROVE  g[s] = IF s = {} THEN 1
                      ELSE Plus(c[Chosen(s)[1]][Chosen(s)[2]], g[s \ {Chosen(s)}])
    <3>1. CASE s = {}
      BY <3>1
    <3>2. CASE s # {}
      <4>. DEFINE r == s \ {Chosen(s)}
      <4>1. r \subseteq u /\ r # u
        BY <3>2, ChosenIn
      <4>2. g[s] = Plus(c[Chosen(s)[1]][Chosen(s)[2]], Low(r))
        BY <3>2
      <4>. HIDE DEF r, g
      <4>3. g[r] = Low(r)
        BY <2>4, <4>1
      <4>. QED BY <3>2, <4>2, <4>3 DEF r
    <3>. QED BY <3>1, <3>2
  <2>6. IsFold(g, c, u)
    <3>1. g = [s \in SUBSET u |-> g[s]]
      OBVIOUS
    <3>. HIDE DEF g
    <3>2. g = [s \in SUBSET u |-> IF s = {} THEN 1
                      ELSE Plus(c[Chosen(s)[1]][Chosen(s)[2]], g[s \ {Chosen(s)}])]
      BY <2>5, <3>1
    <3>. QED BY <3>2 DEF IsFold
  <2>. QED BY <2>2, <2>6
<1>2. S \in FiniteSubsetsOf(S)
  BY DEF FiniteSubsetsOf
<1>. QED BY <1>1, <1>2

\* The fold, one entry after the other: any of them may be the first.
LEMMA TotalStep ==
  ASSUME NEW c, NEW Q, IsFiniteSet(Q)
  PROVE  /\ Q = {} => Total(c, Q) = 1
         /\ Q # {} => Total(c, Q) = Plus(c[Chosen(Q)[1]][Chosen(Q)[2]], Total(c, Q \ {Chosen(Q)}))
<1>. DEFINE G(r) == CHOOSE g : IsFold(g, c, r)
<1>1. \A r : Total(c, r) = G(r)[r]
  BY DEF Total, MapThenFoldSet, IsFold, Chosen
<1>2. ASSUME NEW r, IsFiniteSet(r) PROVE IsFold(G(r), c, r)
  BY <1>2, FoldExists
<1>3. CASE Q = {}
  <2>. HIDE DEF G
  <2>1. G(Q)[Q] = 1
    BY <1>2, <1>3, FoldStep
  <2>. QED BY <1>1, <1>3, <2>1
<1>4. CASE Q # {}
  <2>. DEFINE r == Q \ {Chosen(Q)}
  <2>1. r \subseteq Q /\ IsFiniteSet(r)
    BY FS_RemoveElement
  <2>2. IsFold(G(Q), c, Q) /\ IsFold(G(r), c, r)
    BY <1>2, <2>1
  <2>. HIDE DEF r, G
  <2>3. G(Q)[r] = G(r)[r]
    BY <2>1, <2>2, FoldsAgree
  <2>4. G(Q)[Q] = Plus(c[Chosen(Q)[1]][Chosen(Q)[2]], G(Q)[r])
    BY <1>4, <2>2, FoldStep DEF r
  <2>. QED BY <1>1, <1>4, <2>3, <2>4 DEF r
<1>. QED BY <1>3, <1>4

LEMMA TotalType ==
  ASSUME NEW c, NEW Q, IsFiniteSet(Q), Valued(c, Q)
  PROVE  Total(c, Q) \in Count
<1>. DEFINE Bad == {u \in FiniteSubsetsOf(Q) : Total(c, u) \notin Count}
<1>1. ASSUME Bad # {} PROVE FALSE
  <2>1. PICK u \in Bad : \A r \in Bad : ~ (r \subseteq u /\ r # u)
    <3>1. Bad \subseteq FiniteSubsetsOf(Q)
      OBVIOUS
    <3>. HIDE DEF Bad
    <3>. QED BY <1>1, <3>1, SmallestSet
  <2>2. u \subseteq Q /\ IsFiniteSet(u) /\ Total(c, u) \notin Count
    BY DEF FiniteSubsetsOf
  <2>3. 1 \in Count
    BY CountAssumption DEF Count
  <2>4. u # {}
    BY <2>2, <2>3, TotalStep
  <2>. DEFINE r == u \ {Chosen(u)}
  <2>5. Chosen(u) \in Q /\ r \subseteq u /\ r # u /\ IsFiniteSet(r)
    BY <2>2, <2>4, ChosenIn, FS_RemoveElement
  <2>6. r \in FiniteSubsetsOf(Q)
    BY <2>2, <2>5 DEF FiniteSubsetsOf
  <2>7. Total(c, r) \in Count
    BY <2>1, <2>5, <2>6
  <2>8. Total(c, u) = Plus(c[Chosen(u)[1]][Chosen(u)[2]], Total(c, r))
    BY <2>2, <2>4, TotalStep
  <2>9. c[Chosen(u)[1]][Chosen(u)[2]] \in Count
    BY <2>5 DEF Valued
  <2>. HIDE DEF r
  <2>. QED BY <2>2, <2>7, <2>8, <2>9, PlusType
<1>2. Q \in FiniteSubsetsOf(Q)
  BY DEF FiniteSubsetsOf
<1>. QED BY <1>1, <1>2

LEMMA TotalRemove ==
  ASSUME NEW c, NEW Q, IsFiniteSet(Q), Valued(c, Q), NEW q \in Q
  PROVE  Total(c, Q) = Plus(c[q[1]][q[2]], Total(c, Q \ {q}))
<1>. DEFINE Bad == {u \in FiniteSubsetsOf(Q) :
                      \E x \in u : Total(c, u) # Plus(c[x[1]][x[2]], Total(c, u \ {x}))}
<1>1. ASSUME Bad # {} PROVE FALSE
  <2>1. PICK u \in Bad : \A r \in Bad : ~ (r \subseteq u /\ r # u)
    <3>1. Bad \subseteq FiniteSubsetsOf(Q)
      OBVIOUS
    <3>. HIDE DEF Bad
    <3>. QED BY <1>1, <3>1, SmallestSet
  <2>2. PICK x \in u : Total(c, u) # Plus(c[x[1]][x[2]], Total(c, u \ {x}))
    OBVIOUS
  <2>3. u \subseteq Q /\ IsFiniteSet(u)
    BY DEF FiniteSubsetsOf
  <2>4. PICK y \in u : Total(c, u) = Plus(c[y[1]][y[2]], Total(c, u \ {y}))
    BY <2>2, <2>3, ChosenIn, TotalStep
  <2>5. x # y
    BY <2>2, <2>4
  <2>6. /\ IsFiniteSet(u \ {x}) /\ IsFiniteSet(u \ {y})
        /\ IsFiniteSet((u \ {x}) \ {y})
    BY <2>3, FS_RemoveElement
  <2>7. u \ {x} \notin Bad /\ u \ {y} \notin Bad
    BY <2>1, <2>2, <2>4
  <2>8. u \ {x} \in FiniteSubsetsOf(Q) /\ u \ {y} \in FiniteSubsetsOf(Q)
    BY <2>3, <2>6 DEF FiniteSubsetsOf
  <2>9. Total(c, u \ {x}) = Plus(c[y[1]][y[2]], Total(c, (u \ {x}) \ {y}))
    BY <2>5, <2>7, <2>8
  <2>10. Total(c, u \ {y}) = Plus(c[x[1]][x[2]], Total(c, (u \ {y}) \ {x}))
    BY <2>5, <2>7, <2>8
  <2>11. (u \ {y}) \ {x} = (u \ {x}) \ {y}
    OBVIOUS
  <2>12. c[x[1]][x[2]] \in Count /\ c[y[1]][y[2]] \in Count
    BY <2>3 DEF Valued
  <2>13. Total(c, (u \ {x}) \ {y}) \in Count
    <3>1. Valued(c, (u \ {x}) \ {y})
      BY <2>3 DEF Valued
    <3>. QED BY <2>6, <3>1, TotalType
  <2>. HIDE DEF Bad
  <2>14. Plus(c[y[1]][y[2]], Plus(c[x[1]][x[2]], Total(c, (u \ {x}) \ {y}))) =
         Plus(c[x[1]][x[2]], Plus(c[y[1]][y[2]], Total(c, (u \ {x}) \ {y})))
    BY <2>12, <2>13, PlusSwaps
  <2>. QED BY <2>2, <2>4, <2>9, <2>10, <2>11, <2>14
<1>2. Q \in FiniteSubsetsOf(Q)
  BY DEF FiniteSubsetsOf
<1>. QED BY <1>1, <1>2

\* It depends on the contributions of the entries only, ...
LEMMA TotalSame ==
  ASSUME NEW c, NEW d, NEW Q, IsFiniteSet(Q), \A q \in Q : c[q[1]][q[2]] = d[q[1]][q[2]]
  PROVE  Total(c, Q) = Total(d, Q)
<1>. DEFINE Bad == {u \in FiniteSubsetsOf(Q) : Total(c, u) # Total(d, u)}
<1>1. ASSUME Bad # {} PROVE FALSE
  <2>1. PICK u \in Bad : \A r \in Bad : ~ (r \subseteq u /\ r # u)
    <3>1. Bad \subseteq FiniteSubsetsOf(Q)
      OBVIOUS
    <3>. HIDE DEF Bad
    <3>. QED BY <1>1, <3>1, SmallestSet
  <2>2. u \subseteq Q /\ IsFiniteSet(u) /\ Total(c, u) # Total(d, u)
    BY DEF FiniteSubsetsOf
  <2>3. u # {}
    BY <2>2, TotalStep
  <2>. DEFINE r == u \ {Chosen(u)}
  <2>4. Chosen(u) \in Q /\ r \subseteq u /\ r # u /\ IsFiniteSet(r)
    BY <2>2, <2>3, ChosenIn, FS_RemoveElement
  <2>5. r \in FiniteSubsetsOf(Q)
    BY <2>2, <2>4 DEF FiniteSubsetsOf
  <2>6. Total(c, r) = Total(d, r)
    BY <2>1, <2>4, <2>5
  <2>7. /\ Total(c, u) = Plus(c[Chosen(u)[1]][Chosen(u)[2]], Total(c, r))
        /\ Total(d, u) = Plus(d[Chosen(u)[1]][Chosen(u)[2]], Total(d, r))
    BY <2>2, <2>3, TotalStep
  <2>. HIDE DEF r
  <2>. QED BY <2>2, <2>4, <2>6, <2>7
<1>2. Q \in FiniteSubsetsOf(Q)
  BY DEF FiniteSubsetsOf
<1>. QED BY <1>1, <1>2

\* ... and those that are zero do not matter.
LEMMA TotalZeros ==
  ASSUME NEW c, NEW Q, IsFiniteSet(Q), Valued(c, Q), NEW R, R \subseteq Q,
         \A q \in Q \ R : c[q[1]][q[2]] = 0
  PROVE  Total(c, Q) = Total(c, R)
<1>. DEFINE Bad == {u \in FiniteSubsetsOf(Q) : R \subseteq u /\ Total(c, u) # Total(c, R)}
<1>1. ASSUME Bad # {} PROVE FALSE
  <2>1. PICK u \in Bad : \A r \in Bad : ~ (r \subseteq u /\ r # u)
    <3>1. Bad \subseteq FiniteSubsetsOf(Q)
      OBVIOUS
    <3>. HIDE DEF Bad
    <3>. QED BY <1>1, <3>1, SmallestSet
  <2>2. u \subseteq Q /\ IsFiniteSet(u) /\ R \subseteq u /\ Total(c, u) # Total(c, R)
    BY DEF FiniteSubsetsOf
  <2>3. PICK q \in u : q \notin R
    BY <2>2
  <2>. DEFINE r == u \ {q}
  <2>4. r \subseteq u /\ r # u /\ R \subseteq r /\ IsFiniteSet(r) /\ r \subseteq Q
    BY <2>2, <2>3, FS_RemoveElement
  <2>5. Total(c, r) = Total(c, R)
    <3>1. r \in FiniteSubsetsOf(Q)
      BY <2>4 DEF FiniteSubsetsOf
    <3>. QED BY <2>1, <2>4, <3>1
  <2>6. Valued(c, u) /\ Valued(c, r)
    BY <2>2, <2>4 DEF Valued
  <2>7. Total(c, u) = Plus(c[q[1]][q[2]], Total(c, r))
    BY <2>2, <2>6, TotalRemove
  <2>8. c[q[1]][q[2]] = 0
    BY <2>2, <2>3
  <2>9. Total(c, r) \in Count
    BY <2>4, <2>6, TotalType
  <2>. HIDE DEF r
  <2>. QED BY <2>2, <2>5, <2>7, <2>8, <2>9, PlusZero
<1>2. Q \in FiniteSubsetsOf(Q)
  BY DEF FiniteSubsetsOf
<1>. QED BY <1>1, <1>2

-----------------------------------------------------------------------------
(* The stacks of calls *)

\* What the three kinds of assignments make of a stack.
LEMMA GoesOnStack ==
  ASSUME TypeOK, NEW x \in Thread, stack[x] # <<>>, NEW f \in CallType, GoesOn(x, f)
  PROVE  /\ stack' \in [Thread -> Seq(CallType)]
         /\ \A y \in Thread \ {x} : stack'[y] = stack[y]
         /\ stack'[x] # <<>> /\ Head(stack'[x]) = f
         /\ Len(stack'[x]) = Len(stack[x])
         /\ stack'[x][1] = f
         /\ \A i \in 2 .. Len(stack[x]) : stack'[x][i] = stack[x][i]
<1>1. stack[x] \in Seq(CallType) /\ stack'[x] = <<f>> \o Tail(stack[x])
  BY DEF TypeOK, GoesOn
<1>2. \A y \in Thread \ {x} : stack'[y] = stack[y]
  BY DEF TypeOK, GoesOn
<1>3. stack'[x] \in Seq(CallType)
  BY <1>1
<1>4. stack' \in [Thread -> Seq(CallType)]
  BY <1>3 DEF TypeOK, GoesOn
<1>. QED BY <1>1, <1>2, <1>4

LEMMA PushedStack ==
  ASSUME TypeOK, NEW x \in Thread, stack[x] # <<>>, NEW f \in CallType, NEW g \in CallType,
         stack' = [stack EXCEPT ![x] = <<g, f>> \o Tail(@)]
  PROVE  /\ stack' \in [Thread -> Seq(CallType)]
         /\ \A y \in Thread \ {x} : stack'[y] = stack[y]
         /\ stack'[x] # <<>> /\ Head(stack'[x]) = g
         /\ Len(stack'[x]) = Len(stack[x]) + 1
         /\ stack'[x][1] = g /\ stack'[x][2] = f
         /\ \A i \in 3 .. Len(stack[x]) + 1 : stack'[x][i] = stack[x][i - 1]
<1>1. stack[x] \in Seq(CallType) /\ stack'[x] = <<g, f>> \o Tail(stack[x])
  BY DEF TypeOK
<1>2. \A y \in Thread \ {x} : stack'[y] = stack[y]
  BY DEF TypeOK
<1>3. stack'[x] \in Seq(CallType)
  BY <1>1
<1>4. stack' \in [Thread -> Seq(CallType)]
  BY <1>3 DEF TypeOK
<1>. QED BY <1>1, <1>2, <1>4

LEMMA PoppedStack ==
  ASSUME TypeOK, NEW x \in Thread, stack[x] # <<>>, stack' = [stack EXCEPT ![x] = Tail(@)]
  PROVE  /\ stack' \in [Thread -> Seq(CallType)]
         /\ \A y \in Thread \ {x} : stack'[y] = stack[y]
         /\ Len(stack'[x]) = Len(stack[x]) - 1
         /\ \A i \in 1 .. Len(stack[x]) - 1 : stack'[x][i] = stack[x][i + 1]
<1>1. stack[x] \in Seq(CallType) /\ stack'[x] = Tail(stack[x])
  BY DEF TypeOK
<1>2. \A y \in Thread \ {x} : stack'[y] = stack[y]
  BY DEF TypeOK
<1>3. stack'[x] \in Seq(CallType)
  BY <1>1
<1>4. stack' \in [Thread -> Seq(CallType)]
  BY <1>3 DEF TypeOK
<1>. QED BY <1>1, <1>2, <1>4

\* The innermost call is one of the calls.
LEMMA CallTyped ==
  TypeOK => \A x \in Thread : stack[x] # <<>> =>
    /\ Call(x) \in CallType
    /\ Call(x) = stack[x][1] /\ 1 \in DOMAIN stack[x] /\ Len(stack[x]) \in Nat \ {0}
<1>. SUFFICES ASSUME TypeOK, NEW x \in Thread, stack[x] # <<>>
     PROVE  /\ Call(x) \in CallType
            /\ Call(x) = stack[x][1] /\ 1 \in DOMAIN stack[x] /\ Len(stack[x]) \in Nat \ {0}
  OBVIOUS
<1>1. stack[x] \in Seq(CallType)
  BY DEF TypeOK
<1>. QED BY <1>1 DEF Call

-----------------------------------------------------------------------------
(* The graph *)

\* The operands of a terminal come before it.
LEMMA GraphTyped ==
  TypeOK => /\ N \in Nat
            /\ operands \in [Terminal -> Seq(Terminal)]
            /\ \A t \in Terminal : \A k \in 1 .. Len(operands[t]) :
                 operands[t][k] \in Terminal /\ operands[t][k] < t
<1>1. TypeOK => operands \in [Terminal -> Seq(Terminal)]
  BY GraphAssumption DEF TypeOK
<1>2. TypeOK => \A t \in Terminal : \A k \in 1 .. Len(operands[t]) : operands[t][k] < t
  BY GraphAssumption DEF TypeOK
<1>. QED BY <1>1, <1>2, GraphAssumption

\* The entries that are due, and those pull_adc finds, one by one.
AwaitedEntries ==
  \A t \in Terminal : \A q : q \in Awaited(t) <=>
    \E p \in Terminal : \E j \in DOMAIN dependers[p] :
      q = <<p, j>> /\ dependers[p][j] = t /\ Due(p, j)
FoundEntries ==
  \A t \in Terminal : \A q : q \in Entries(t) <=>
    \E p \in Terminal : \E j \in DOMAIN dependers[p] :
      q = <<p, j>> /\ dependers[p][j] = t /\ p \notin result

LEMMA AwaitedIs == AwaitedEntries
  BY DEF AwaitedEntries, Awaited

LEMMA EntriesAre == TypeOK /\ Listed => FoundEntries
<1>. SUFFICES ASSUME TypeOK, Listed, NEW t \in Terminal, NEW q
     PROVE  q \in Entries(t) <=>
              \E p \in Terminal : \E j \in DOMAIN dependers[p] :
                q = <<p, j>> /\ dependers[p][j] = t /\ p \notin result
  BY DEF FoundEntries
<1>1. \A p \in Terminal : \A j \in DOMAIN dependers[p] :
        dependers[p][j] = t => p \in ToSet(operands[t])
  BY DEF Listed
<1>2. ToSet(operands[t]) \subseteq Terminal
  BY GraphTyped DEF ToSet
<1>. QED BY <1>1, <1>2 DEF Entries

LEMMA AwaitedIsNext == AwaitedEntries'
  BY AwaitedIs, PTL
LEMMA EntriesAreNext == TypeOK' /\ Listed' => FoundEntries'
  BY EntriesAre, PTL

\* A terminal with an entry that is due is not settled: it is neither scheduled nor
\* evaluated, and has no result.
LEMMA AwaitingUnsettled ==
  IInv => \A p \in Terminal : \A j \in DOMAIN dependers[p] : Due(p, j) =>
    dependers[p][j] \in Terminal /\ dc[dependers[p][j]] > 0 /\ ~Settled(dependers[p][j])
<1>. SUFFICES ASSUME IInv, NEW p \in Terminal, NEW j \in DOMAIN dependers[p], Due(p, j)
     PROVE  dependers[p][j] \in Terminal /\ dc[dependers[p][j]] > 0 /\ ~Settled(dependers[p][j])
  OBVIOUS
<1>. DEFINE t == dependers[p][j]
<1>1. t \in Terminal
  BY DEF IInv, TypeOK
<1>2. <<p, j>> \in Awaited(t)
  BY <1>1, AwaitedIs DEF AwaitedEntries
<1>3. IsFiniteSet(Awaited(t)) /\ dc[t] >= Cardinality(Awaited(t))
  <2>1. Counted /\ ft \in Int /\ t \in Int
    BY <1>1 DEF IInv, TypeOK, Terminal
  <2>2. IsFiniteSet(Awaited(t)) /\ dc[t] = Cardinality(Awaited(t)) + (IF t < ft THEN 0 ELSE 1)
    BY <1>1, <2>1 DEF Counted
  <2>3. Cardinality(Awaited(t)) \in Nat
    BY <2>2, FS_CardinalityType
  <2>. QED BY <2>2, <2>3
<1>4. Cardinality(Awaited(t)) # 0
  BY <1>2, <1>3, FS_EmptySet
<1>5. Cardinality(Awaited(t)) \in Nat /\ dc[t] \in Nat
  BY <1>1, <1>3, FS_CardinalityType DEF IInv, TypeOK
<1>. QED BY <1>1, <1>3, <1>4, <1>5 DEF Settled

LEMMA SettledAre ==
  IInv => \A t \in Terminal :
            (t \in independent \/ Evaluated(t)) => Settled(t)
  BY DEF IInv, Scheduled, Evaluated

CollectedTotal == \A t : Collected(t) = Total(contributions, Entries(t))

\* What is collected, as a fold.
LEMMA CollectedIs == CollectedTotal
  BY DEF CollectedTotal, Collected, Total

LEMMA CollectedIsNext == CollectedTotal'
  BY CollectedIs, PTL

\* What pull_adc finds is awaited, so there are finitely many entries.
LEMMA EntriesCounted ==
  IInv => \A t \in Terminal :
            /\ Entries(t) \subseteq Awaited(t)
            /\ IsFiniteSet(Entries(t)) /\ Valued(contributions, Entries(t))
            /\ Collected(t) \in Count
<1>. SUFFICES ASSUME IInv, NEW t \in Terminal
     PROVE  /\ Entries(t) \subseteq Awaited(t)
            /\ IsFiniteSet(Entries(t)) /\ Valued(contributions, Entries(t))
            /\ Collected(t) \in Count
  OBVIOUS
<1>0. FoundEntries
  BY EntriesAre DEF IInv
<1>1. Entries(t) \subseteq Awaited(t)
  BY <1>0, AwaitedIs DEF FoundEntries, AwaitedEntries, Due
<1>2. IsFiniteSet(Entries(t))
  BY <1>1, FS_Subset DEF IInv, Counted
<1>3. ASSUME NEW q \in Entries(t) PROVE contributions[q[1]][q[2]] \in Count
  <2>1. PICK p \in Terminal : \E j \in DOMAIN dependers[p] : q = <<p, j>> /\ p \notin result
    BY <1>0 DEF FoundEntries
  <2>2. PICK j \in DOMAIN dependers[p] : q = <<p, j>> /\ p \notin result
    BY <2>1
  <2>3. /\ contributions[p] \in Seq(Count) /\ dependers[p] \in Seq(Terminal)
        /\ Len(contributions[p]) = Len(dependers[p])
    BY <2>2 DEF IInv, TypeOK, Contributed
  <2>4. contributions[p][j] \in Count
    BY <2>3
  <2>. QED BY <2>2, <2>4
<1>4. Valued(contributions, Entries(t))
  BY <1>3 DEF Valued
<1>. QED BY <1>1, <1>2, <1>4, TotalType, CollectedIs DEF CollectedTotal

\* The lock of a count has one holder.
LEMMA ChangerHolds ==
  IInv => \A x \in Thread : In(x, "change") =>
    /\ Call(x).t \in Terminal /\ lock[Call(x).t] = x
    /\ \A y \in Thread : In(y, "change") /\ Call(y).t = Call(x).t => y = x
<1>. SUFFICES ASSUME IInv, NEW x \in Thread, In(x, "change")
     PROVE  /\ Call(x).t \in Terminal /\ lock[Call(x).t] = x
            /\ \A y \in Thread : In(y, "change") /\ Call(y).t = Call(x).t => y = x
  OBVIOUS
<1>1. Call(x).t \in Terminal
  BY CallTyped DEF IInv, In, CallType
<1>2. \A y \in Thread : In(y, "change") /\ Call(y).t = Call(x).t => lock[Call(x).t] = y
  BY <1>1 DEF IInv, Locked, Holds
<1>. QED BY <1>1, <1>2

LEMMA FreeUnchanging ==
  IInv => \A t \in Terminal : Free(t) => ~Changing(t)
<1>. SUFFICES ASSUME IInv, NEW t \in Terminal, Free(t), NEW x \in Thread, In(x, "change"), Call(x).t = t
     PROVE  FALSE
  BY DEF Changing
<1>. QED BY ChangerHolds, ThreadAssumption DEF Free

\* A step of terminal_decrease_adc leaves the graph and what is scheduled as they are.
LEMMA GraphStays ==
  ASSUME IInv, UNCHANGED <<operands, dependers, dc, baked, result, independent, workerVars, frontVars>>
  PROVE  /\ Baking' /\ Listed' /\ Counted' /\ Scheduled' /\ Notifying'
         /\ \A t : Awaited(t)' = Awaited(t) /\ Entries(t)' = Entries(t) /\ Evaluated(t)' = Evaluated(t)
         /\ \A t : Incomplete(t)' = Incomplete(t)
<1>. USE DEF workerVars, frontVars
<1>1. Baking'
  BY DEF IInv, Baking, Dependee
<1>2. Listed'
  BY DEF IInv, Listed
<1>3. \A t : Awaited(t)' = Awaited(t)
  BY DEF Awaited, Due
<1>4. \A t : Entries(t)' = Entries(t)
  BY DEF Entries
<1>5. Counted'
  BY <1>3 DEF IInv, Counted
<1>6. Scheduled'
  BY DEF IInv, Scheduled, Settled
<1>7. Notifying'
  BY DEF IInv, Notifying
<1>8. \A t : (Evaluated(t)' = Evaluated(t)) /\ (Incomplete(t)' = Incomplete(t))
  BY DEF Evaluated, Incomplete
<1>. QED BY <1>1, <1>2, <1>3, <1>4, <1>5, <1>6, <1>7, <1>8

\* When the entries and contributions stay as they are, so does what is collected.
LEMMA CollectedStays ==
  ASSUME contributions' = contributions, NEW t, Entries(t)' = Entries(t)
  PROVE  Collected(t)' = Collected(t)
BY CollectedIs, CollectedIsNext DEF CollectedTotal

-----------------------------------------------------------------------------
(* The steps of terminal_decrease_adc *)

\* The innermost call goes on: all calls are what they have to be.
LEMMA GoesOnCalls ==
  ASSUME IInv, NEW x \in Thread, stack[x] # <<>>, NEW g \in CallType, GoesOn(x, g),
         g.t = Call(x).t, g.rd = Call(x).rd, g.n <= Len(dependers[g.t]),
         g.at # "change",
         g.at = "compare" => g.j <= g.n,
         g.at = "next" => g.j <= g.n + 1,
         UNCHANGED <<dependers, result, workerVars, frontVars>>
  PROVE  Outermost' /\ Calls'
<1>1. stack[x] \in Seq(CallType) /\ Call(x) = stack[x][1] /\ 1 \in DOMAIN stack[x]
  BY CallTyped DEF IInv, TypeOK
<1>2. Len(stack[x]) \in Nat \ {0}
  BY CallTyped DEF IInv
<1>3. /\ \A y \in Thread \ {x} : stack'[y] = stack[y]
      /\ Len(stack'[x]) = Len(stack[x])
      /\ stack'[x][1] = g
      /\ \A i \in 2 .. Len(stack[x]) : stack'[x][i] = stack[x][i]
  BY GoesOnStack DEF IInv
<1>4. stack'[x] \in Seq(CallType)
  BY GoesOnStack DEF IInv
<1>5. Outermost'
  <2>1. ASSUME NEW y \in Thread, stack'[y] # <<>>
        PROVE  /\ Caller(y)' /\ stack'[y][Len(stack'[y])].t = Origin(y)'
               /\ stack'[y][Len(stack'[y])].rd = 0
    <3>1. Caller(y)' = Caller(y) /\ Origin(y)' = Origin(y)
      BY DEF Caller, Origin, workerVars, frontVars
    <3>2. CASE y # x
      BY <1>3, <2>1, <3>1, <3>2 DEF IInv, Outermost
    <3>3. CASE y = x
      <4>1. Caller(x) /\ stack[x][Len(stack[x])].t = Origin(x) /\ stack[x][Len(stack[x])].rd = 0
        BY DEF IInv, Outermost
      <4>2. CASE Len(stack[x]) = 1
        BY <1>1, <1>3, <3>1, <3>3, <4>1, <4>2
      <4>3. CASE Len(stack[x]) # 1
        <5>1. Len(stack[x]) \in 2 .. Len(stack[x])
          <6>. \A m \in Nat \ {0} : m # 1 => m \in 2 .. m
            OBVIOUS
          <6>. QED BY <1>2, <4>3
        <5>. QED BY <1>3, <3>1, <3>3, <4>1, <5>1
      <4>. QED BY <4>2, <4>3
    <3>. QED BY <3>2, <3>3
  <2>. QED BY <2>1 DEF Outermost
<1>6. Calls'
  <2>1. ASSUME NEW y \in Thread, NEW i \in DOMAIN stack'[y]
        PROVE  LET h == stack'[y][i] IN
                 /\ h.t \notin result' /\ h.n <= Len(dependers'[h.t])
                 /\ h.at = "change" => h.j = 1
                 /\ h.at = "compare" => h.j <= h.n
                 /\ h.at = "next" => h.j <= h.n + 1
                 /\ i > 1 => h.at = "next"
                 /\ i < Len(stack'[y]) =>
                      LET k == stack'[y][i + 1] IN k.j > 1 /\ dependers'[k.t][k.j - 1] = h.t
    <3>1. CASE y # x
      BY <1>3, <3>1 DEF IInv, Calls
    <3>2. CASE y = x /\ i # 1
      <4>1. i \in 2 .. Len(stack[x]) /\ i \in DOMAIN stack[x]
        BY <1>1, <1>3, <1>4, <2>1, <3>2
      <4>2. i < Len(stack[x]) => i + 1 \in 2 .. Len(stack[x])
        BY <1>2, <4>1
      <4>3. stack'[x][i] = stack[x][i]
        BY <1>3, <4>1
      <4>4. i < Len(stack[x]) => stack'[x][i + 1] = stack[x][i + 1]
        BY <1>3, <4>2
      <4>. QED BY <1>3, <3>2, <4>1, <4>3, <4>4 DEF IInv, Calls
    <3>3. CASE y = x /\ i = 1
      <4>1. 1 < Len(stack[x]) => stack'[x][2] = stack[x][2]
        BY <1>2, <1>3
      <4>2. 1 < Len(stack[x]) => stack[x][2].j > 1 /\ dependers[stack[x][2].t][stack[x][2].j - 1] = g.t
        BY <1>1 DEF IInv, Calls
      <4>3. g.t \notin result
        BY <1>1 DEF IInv, Calls
      <4>4. i < Len(stack'[x]) => stack'[x][i + 1].j > 1 /\ dependers'[stack'[x][i + 1].t][stack'[x][i + 1].j - 1] = g.t
        BY <1>3, <3>3, <4>1, <4>2
      <4>. QED BY <1>3, <3>3, <4>3, <4>4
    <3>. QED BY <3>1, <3>2, <3>3
  <2>. QED BY <2>1 DEF Calls
<1>. QED BY <1>5, <1>6

\* The change itself: the count becomes what can be collected.
LEMMA ChangeStep ==
  ASSUME IInv, NEW x \in Thread, Change(x)
  PROVE  IInv'
<1>. DEFINE f == Call(x)
            g == stack'[x][1]
<1>1. /\ stack[x] # <<>> /\ f.at = "change" /\ f \in CallType /\ f = stack[x][1]
      /\ Len(stack[x]) \in Nat \ {0} /\ 1 \in DOMAIN stack[x]
  BY CallTyped DEF Change, In, IInv
<1>2. f.t \in Terminal /\ f.t \notin result /\ f.j = 1
  BY <1>1 DEF IInv, Calls, CallType
<1>3. /\ lock[f.t] = x
      /\ \A y \in Thread : In(y, "change") /\ Call(y).t = f.t => y = x
  BY <1>1, ChangerHolds DEF In
<1>4. PICK n \in {0, Len(dependers[f.t])} :
        /\ GoesOn(x, [f EXCEPT !.at = "next", !.n = n])
        /\ adc'[f.t] # Overflown /\ adc[f.t] # Overflown => n = Len(dependers[f.t])
  BY DEF Change
<1>5. n \in Nat /\ n <= Len(dependers[f.t])
  BY <1>2, <1>4 DEF IInv, TypeOK
<1>6. [f EXCEPT !.at = "next", !.n = n] \in CallType
  BY <1>1, <1>5 DEF CallType
<1>7. /\ stack' \in [Thread -> Seq(CallType)]
      /\ \A y \in Thread \ {x} : stack'[y] = stack[y]
      /\ stack'[x] # <<>> /\ Head(stack'[x]) = g /\ g = stack'[x][1]
      /\ Len(stack'[x]) = Len(stack[x])
      /\ g = [f EXCEPT !.at = "next", !.n = n]
      /\ \A i \in 2 .. Len(stack[x]) : stack'[x][i] = stack[x][i]
  BY <1>1, <1>4, <1>6, GoesOnStack DEF IInv
<1>8. g.at = "next" /\ g.t = f.t /\ g.rd = f.rd /\ g.j = 1 /\ g.n = n
  BY <1>1, <1>2, <1>7 DEF CallType
<1>9. UNCHANGED <<operands, contributions, dependers, dc, baked, result, independent,
                  workerVars, frontVars>>
  BY DEF Change
<1>10. lock' = [lock EXCEPT ![f.t] = None]
  BY DEF Change
<1>11. /\ Baking' /\ Listed' /\ Counted' /\ Scheduled' /\ Notifying'
       /\ \A t : Entries(t)' = Entries(t) /\ Evaluated(t)' = Evaluated(t)
       /\ \A t : Incomplete(t)' = Incomplete(t)
  BY <1>9, GraphStays
<1>12. \A t : Collected(t)' = Collected(t)
  BY <1>9, <1>11, CollectedStays
<1>13. /\ adc' = [adc EXCEPT ![f.t] = adc'[f.t]] /\ adc'[f.t] \in Count
       /\ adc'[f.t] # Overflown => adc[f.t] = Overflown \/ adc'[f.t] <= adc[f.t]
       /\ adc[f.t] # Overflown => adc'[f.t] # Overflown
       /\ IF Evaluated(f.t) THEN adc'[f.t] = 0
          ELSE adc'[f.t] = Collected(f.t) \/ (adc'[f.t] = Overflown /\ Incomplete(f.t))
  <2>1. adc \in [Terminal -> Count] /\ Collected(f.t) \in Count /\ f.decrement \in 0 .. MaxADC
    BY <1>1, <1>2, EntriesCounted DEF IInv, TypeOK, CallType
  <2>2. IF Evaluated(f.t) THEN adc[f.t] = f.decrement
        ELSE adc[f.t] # Overflown => f.decrement <= adc[f.t] /\ adc[f.t] - f.decrement = Collected(f.t)
    BY <1>1 DEF IInv, Changes, In
  <2>3. CASE adc[f.t] # Overflown
    <3>1. adc' = [adc EXCEPT ![f.t] = @ - f.decrement]
      BY <2>3 DEF Change
    <3>2. adc'[f.t] = adc[f.t] - f.decrement
      BY <1>2, <2>1, <3>1
    <3>. HIDE DEF f
    <3>3. adc' = [adc EXCEPT ![f.t] = adc'[f.t]]
      BY <1>2, <2>1, <3>1
    <3>4. adc[f.t] \in 0 .. (MaxADC - 1) /\ f.decrement \in Nat
      BY <1>2, <2>1, <2>3 DEF Count
    <3>5. IF Evaluated(f.t) THEN adc'[f.t] = 0 ELSE adc'[f.t] = Collected(f.t)
      BY <2>2, <2>3, <3>2, <3>4
    <3>6. adc'[f.t] \in 0 .. (MaxADC - 1) /\ adc'[f.t] <= adc[f.t]
      BY <2>2, <2>3, <3>2, <3>4, CountAssumption
    <3>7. adc'[f.t] # Overflown
      BY <3>6, CountAssumption
    <3>. QED BY <3>3, <3>5, <3>6, <3>7 DEF Count
  <2>4. CASE adc[f.t] = Overflown
    <3>1. adc' = [adc EXCEPT ![f.t] = IF f.t \in baked THEN Collected(f.t) ELSE @]
      BY <2>4 DEF Change
    <3>2. ~Evaluated(f.t)
      BY <2>1, <2>2, <2>4, CountAssumption DEF Count
    <3>3. adc'[f.t] = IF f.t \in baked THEN Collected(f.t) ELSE Overflown
      BY <1>2, <2>1, <2>4, <3>1
    <3>. HIDE DEF f
    <3>4. adc' = [adc EXCEPT ![f.t] = adc'[f.t]]
      BY <1>2, <2>1, <3>1
    <3>5. adc'[f.t] \in Count
      BY <2>1, <3>3 DEF Count
    <3>. QED BY <2>4, <3>2, <3>3, <3>4, <3>5 DEF Incomplete
  <2>. QED BY <2>3, <2>4
<1>14. \A y \in Thread \ {x} : In(y, "change")' = In(y, "change") /\ In(y, "compare")' = In(y, "compare")
                              /\ Call(y)' = Call(y) /\ In(y, "next")' = In(y, "next")
  BY <1>7 DEF In, Call
<1>15. ~In(x, "change")' /\ ~In(x, "compare")' /\ ~In(x, "compare")
  BY <1>1, <1>7, <1>8 DEF In, Call
<1>16. \A t : Changing(t)' <=> Changing(t) /\ t # f.t
  BY <1>1, <1>3, <1>14, <1>15 DEF Changing, In
<1>. HIDE DEF f, g
<1>17. TypeOK'
  BY <1>2, <1>7, <1>9, <1>10, <1>13 DEF IInv, TypeOK, workerVars, frontVars
<1>18. Outermost' /\ Calls'
  <2>1. g = [f EXCEPT !.at = "next", !.n = n] /\ g \in CallType /\ GoesOn(x, g)
    BY <1>4, <1>6, <1>7
  <2>2. g.j <= g.n + 1 /\ g.n <= Len(dependers[g.t])
    BY <1>5, <1>8
  <2>. QED BY <1>1, <1>8, <1>9, <2>1, <2>2, GoesOnCalls DEF f
<1>20. Locked'
  <2>1. ASSUME NEW t \in Terminal, NEW y \in Thread PROVE lock'[t] = y <=> Holds(y, t)'
    <3>1. lock[t] = y <=> Holds(y, t)
      BY DEF IInv, Locked
    <3>2. CASE y # x
      <4>1. Holds(y, t)' = Holds(y, t)
        BY <1>9, <1>14, <3>2 DEF Holds, Depender, Dependee, frontVars
      <4>2. lock'[t] = y <=> lock[t] = y
        BY <1>2, <1>3, <1>10, <3>2, ThreadAssumption DEF IInv, TypeOK, Thread
      <4>. QED BY <3>1, <4>1, <4>2
    <3>3. CASE y = x
      <4>1. Holds(x, t) <=> t = f.t
        <5>1. x = Frontend => fpc # "count"
          BY <1>1, ThreadAssumption DEF IInv, Outermost, Caller
        <5>. QED BY <1>1, <1>15, <5>1 DEF Holds, In, f
      <4>2. ~Holds(x, t)'
        <5>1. x = Frontend => fpc' # "count"
          BY <1>1, <1>9, ThreadAssumption DEF IInv, Outermost, Caller, frontVars
        <5>. QED BY <1>15, <5>1 DEF Holds
      <4>3. lock'[t] # x
        BY <1>2, <1>10, <3>1, <3>3, <4>1, ThreadAssumption DEF IInv, TypeOK
      <4>. QED BY <3>3, <4>2, <4>3
    <3>. QED BY <3>2, <3>3
  <2>. QED BY <2>1 DEF Locked
<1>21. Contributed'
  <2>1. ASSUME NEW p \in Terminal
        PROVE  p \notin result' => Len(contributions'[p]) = Len(dependers'[p])
    BY <1>9 DEF IInv, Contributed
  <2>2. ASSUME NEW p \in Terminal, NEW j \in DOMAIN contributions'[p], contributions'[p][j] # Overflown
        PROVE  adc'[p] # Overflown /\ adc'[p] <= contributions'[p][j]
    <3>1. /\ j \in DOMAIN contributions[p] /\ contributions'[p][j] = contributions[p][j]
          /\ adc[p] # Overflown /\ adc[p] <= contributions[p][j]
      BY <1>9, <2>2 DEF IInv, Contributed
    <3>2. contributions[p][j] \in 0 .. (MaxADC - 1) /\ adc[p] \in 0 .. (MaxADC - 1)
      BY <2>2, <3>1 DEF IInv, TypeOK, Count
    <3>3. CASE p # f.t
      BY <1>2, <1>13, <3>1, <3>3 DEF IInv, TypeOK
    <3>4. CASE p = f.t
      <4>1. adc'[p] # Overflown /\ adc'[p] <= adc[p]
        BY <1>13, <3>1, <3>4
      <4>2. adc'[p] \in 0 .. (MaxADC - 1)
        BY <1>13, <3>4, <4>1 DEF Count
      <4>. QED BY <3>1, <3>2, <4>1, <4>2
    <3>. QED BY <3>3, <3>4
  <2>. QED BY <2>1, <2>2 DEF Contributed
<1>22. Exact'
  <2>1. ASSUME NEW t \in Terminal, ~Changing(t)'
        PROVE  IF Evaluated(t)' THEN adc'[t] = 0
               ELSE adc'[t] = Collected(t)' \/ (adc'[t] = Overflown /\ Incomplete(t)')
    <3>1. CASE t = f.t
      BY <1>11, <1>12, <1>13, <3>1
    <3>2. CASE t # f.t
      <4>1. ~Changing(t) /\ adc'[t] = adc[t]
        BY <1>2, <1>13, <1>16, <2>1, <3>2 DEF IInv, TypeOK
      <4>. QED BY <1>11, <1>12, <4>1 DEF IInv, Exact
    <3>. QED BY <3>1, <3>2
  <2>. QED BY <2>1 DEF Exact
<1>23. Changes'
  <2>1. ASSUME NEW y \in Thread, In(y, "change")', NEW h, h = Call(y)'
        PROVE  IF Evaluated(h.t)' THEN adc'[h.t] = h.decrement
               ELSE adc'[h.t] # Overflown =>
                      h.decrement <= adc'[h.t] /\ adc'[h.t] - h.decrement = Collected(h.t)'
    <3>1. y # x /\ In(y, "change") /\ h = Call(y)
      BY <1>14, <1>15, <2>1
    <3>2. h.t # f.t /\ h.t \in Terminal
      BY <1>3, <3>1, ChangerHolds
    <3>3. adc'[h.t] = adc[h.t]
      BY <1>2, <1>13, <3>2 DEF IInv, TypeOK
    <3>4. Evaluated(h.t)' = Evaluated(h.t) /\ Collected(h.t)' = Collected(h.t)
      BY <1>11, <1>12
    <3>5. IF Evaluated(h.t) THEN adc[h.t] = h.decrement
          ELSE adc[h.t] # Overflown => h.decrement <= adc[h.t] /\ adc[h.t] - h.decrement = Collected(h.t)
      BY <3>1 DEF IInv, Changes
    <3>. QED BY <3>3, <3>4, <3>5
  <2>. QED BY <2>1 DEF Changes
<1>24. Told'
  <2>1. ASSUME NEW w \in Worker, wpc'[w] = "publish", NEW j \in DOMAIN contributions'[wt'[w]],
               contributions'[wt'[w]][j] # 0
        PROVE  /\ stack'[w] # <<>>
               /\ LET h == stack'[w][Len(stack'[w])] IN h.at = "change" \/ (h.j <= j /\ j <= h.n)
    <3>0. wpc[w] = "publish" /\ wt'[w] = wt[w] /\ w \in Thread
      BY <1>9, <2>1 DEF workerVars, Thread
    <3>1. /\ stack[w] # <<>>
          /\ LET h == stack[w][Len(stack[w])] IN h.at = "change" \/ (h.j <= j /\ j <= h.n)
      BY <1>9, <2>1, <3>0 DEF IInv, Told
    <3>2. CASE w # x
      BY <1>7, <3>0, <3>1, <3>2
    <3>3. CASE w = x /\ Len(stack[x]) # 1
      <4>1. \A m \in Nat \ {0} : m # 1 => m \in 2 .. m
        OBVIOUS
      <4>2. Len(stack[x]) \in 2 .. Len(stack[x])
        BY <1>1, <3>3, <4>1
      <4>. QED BY <1>7, <3>1, <3>3, <4>2
    <3>4. CASE w = x /\ Len(stack[x]) = 1
      <4>1. f.t = wt[w]
        <5>1. f.t = Origin(x) /\ x # Frontend
          BY <1>1, <3>0, <3>4, ThreadAssumption DEF IInv, Outermost
        <5>. QED BY <3>4, <5>1 DEF Origin
      <4>2. Evaluated(f.t)
        BY <3>0, <4>1 DEF Evaluated
      <4>3. adc'[f.t] # Overflown /\ adc[f.t] # Overflown
        <5>1. adc[f.t] = f.decrement
          BY <1>1, <4>2 DEF IInv, Changes, In, f
        <5>. QED BY <1>1, <1>13, <5>1, CountAssumption DEF CallType
      <4>4. g.n = Len(dependers[f.t])
        BY <1>4, <1>8, <4>3
      <4>5. Len(contributions[f.t]) = Len(dependers[f.t]) /\ contributions[f.t] \in Seq(Count)
        BY <1>2 DEF IInv, Contributed, TypeOK
      <4>6. 1 <= j /\ j <= g.n
        BY <1>9, <2>1, <3>0, <4>1, <4>4, <4>5
      <4>7. stack'[w][Len(stack'[w])] = g
        BY <1>7, <3>4
      <4>. QED BY <1>7, <1>8, <3>4, <4>6, <4>7
    <3>. QED BY <3>2, <3>3, <3>4
  <2>. QED BY <2>1 DEF Told
<1>. QED BY <1>11, <1>17, <1>18, <1>20, <1>21, <1>22, <1>23, <1>24 DEF IInv

\* Nobody's count changes while a thread takes a lock or finds nothing to propagate.
LEMMA CallGoesOn ==
  ASSUME IInv, NEW x \in Thread, stack[x] # <<>>, Call(x).at # "change",
         NEW g \in CallType, GoesOn(x, g),
         g.t = Call(x).t, g.rd = Call(x).rd, g.n <= Len(dependers[g.t]),
         g.at # "change",
         g.at = "compare" => g.j <= g.n,
         g.at = "next" => g.j <= g.n + 1,
         UNCHANGED <<operands, adc, contributions, dependers, dc, baked, result, independent,
                     workerVars, frontVars>>
  PROVE  /\ Baking' /\ Listed' /\ Counted' /\ Scheduled' /\ Notifying'
         /\ Outermost' /\ Calls' /\ Contributed' /\ Exact' /\ Changes'
<1>1. /\ Baking' /\ Listed' /\ Counted' /\ Scheduled' /\ Notifying'
      /\ \A t : Entries(t)' = Entries(t) /\ Evaluated(t)' = Evaluated(t)
      /\ \A t : Incomplete(t)' = Incomplete(t)
  BY GraphStays
<1>2. Outermost' /\ Calls'
  BY GoesOnCalls
<1>3. \A t : Collected(t)' = Collected(t)
  BY <1>1, CollectedStays
<1>4. Contributed'
  BY DEF IInv, Contributed
<1>5. /\ \A y \in Thread \ {x} : stack'[y] = stack[y]
      /\ Head(stack'[x]) = g
  BY GoesOnStack DEF IInv
<1>6. \A y \in Thread : In(y, "change")' = In(y, "change") /\ (In(y, "change") => Call(y)' = Call(y))
  BY <1>5 DEF In, Call
<1>7. \A t : Changing(t)' = Changing(t)
  BY <1>6 DEF Changing
<1>8. Exact'
  BY <1>1, <1>3, <1>7 DEF IInv, Exact
<1>9. Changes'
  <2>1. ASSUME NEW y \in Thread, In(y, "change")', NEW h, h = Call(y)'
        PROVE  IF Evaluated(h.t)' THEN adc'[h.t] = h.decrement
               ELSE adc'[h.t] # Overflown =>
                      h.decrement <= adc'[h.t] /\ adc'[h.t] - h.decrement = Collected(h.t)'
    <3>1. In(y, "change") /\ h = Call(y)
      BY <1>6, <2>1
    <3>2. Evaluated(h.t)' = Evaluated(h.t) /\ Collected(h.t)' = Collected(h.t)
      BY <1>1, <1>3
    <3>3. IF Evaluated(h.t) THEN adc[h.t] = h.decrement
          ELSE adc[h.t] # Overflown => h.decrement <= adc[h.t] /\ adc[h.t] - h.decrement = Collected(h.t)
      BY <3>1 DEF IInv, Changes
    <3>. QED BY <3>2, <3>3
  <2>. QED BY <2>1 DEF Changes
<1>. QED BY <1>1, <1>2, <1>4, <1>8, <1>9

\* What a call in its loop looks at.
LEMMA LoopFacts ==
  ASSUME IInv, NEW x \in Thread, stack[x] # <<>>, Call(x).at # "change", Call(x).j <= Call(x).n
  PROVE  LET f == Call(x) IN
         /\ f \in CallType /\ f.t \in Terminal /\ f.t \notin result
         /\ f.n <= Len(dependers[f.t])
         /\ f.j \in DOMAIN dependers[f.t] /\ f.j \in DOMAIN contributions[f.t]
         /\ Depender(f) \in Terminal /\ ~Settled(Depender(f)) /\ ~Evaluated(Depender(f))
         /\ x = Frontend => fpc = "independ"
<1>. DEFINE f == Call(x)
<1>1. f \in CallType /\ f = stack[x][1] /\ 1 \in DOMAIN stack[x]
  BY CallTyped DEF IInv
<1>2. f.t \in Terminal /\ f.t \notin result /\ f.n <= Len(dependers[f.t]) /\ f.j \in Nat \ {0} /\ f.n \in Nat
  BY <1>1 DEF IInv, Calls, CallType
<1>3. dependers[f.t] \in Seq(Terminal) /\ contributions[f.t] \in Seq(Count)
  BY <1>2 DEF IInv, TypeOK
<1>4. Len(contributions[f.t]) = Len(dependers[f.t])
  BY <1>2 DEF IInv, Contributed
<1>. HIDE DEF f
<1>5. f.j \in DOMAIN dependers[f.t] /\ f.j \in DOMAIN contributions[f.t]
  <2>1. Len(dependers[f.t]) \in Nat /\ f.j \in 1 .. Len(dependers[f.t])
    BY <1>2, <1>3 DEF f
  <2>. QED BY <1>3, <1>4, <2>1
<1>6. Due(f.t, f.j)
  BY <1>2 DEF Due
<1>7. Depender(f) \in Terminal /\ ~Settled(Depender(f)) /\ ~Evaluated(Depender(f))
  BY <1>2, <1>5, <1>6, AwaitingUnsettled, SettledAre DEF Depender
<1>8. x = Frontend => fpc = "independ"
  BY ThreadAssumption DEF IInv, Outermost, Caller
<1>. QED BY <1>1, <1>2, <1>5, <1>7, <1>8 DEF f

\* The lock of the next depender is taken.
LEMMA LockStep ==
  ASSUME IInv, NEW x \in Thread, Lock(x)
  PROVE  IInv'
<1>0. PICK f : f = Call(x)
  OBVIOUS
<1>01. PICK g : g = [f EXCEPT !.at = "compare"]
  OBVIOUS
<1>02. PICK D : D = Depender(f)
  OBVIOUS
<1>1. stack[x] # <<>> /\ f.at = "next" /\ f.j <= f.n
  BY <1>0 DEF Lock, In
<1>2. /\ f \in CallType /\ f.t \in Terminal /\ f.t \notin result
      /\ f.n <= Len(dependers[f.t])
      /\ D \in Terminal /\ ~Settled(D) /\ ~Evaluated(D)
      /\ x = Frontend => fpc = "independ"
  BY <1>0, <1>02, <1>1, LoopFacts
<1>3. /\ g \in CallType /\ g.at = "compare" /\ g.t = f.t /\ g.rd = f.rd /\ g.j = f.j /\ g.n = f.n
  BY <1>01, <1>2 DEF CallType
<1>4. /\ GoesOn(x, g) /\ lock[D] = None /\ lock' = [lock EXCEPT ![D] = x]
      /\ UNCHANGED <<operands, adc, contributions, dependers, dc, baked, result, independent,
                     workerVars, frontVars>>
  BY <1>0, <1>01, <1>02 DEF Lock, Free
<1>5. Depender(g)' = D
  BY <1>02, <1>3, <1>4 DEF Depender
<1>6. f = stack[x][1] /\ Len(stack[x]) \in Nat \ {0}
  BY <1>0, <1>1, CallTyped DEF IInv
<1>7. /\ Baking' /\ Listed' /\ Counted' /\ Scheduled' /\ Notifying'
      /\ Outermost' /\ Calls' /\ Contributed' /\ Exact' /\ Changes'
  BY <1>0, <1>1, <1>2, <1>3, <1>4, CallGoesOn
<1>8. /\ stack' \in [Thread -> Seq(CallType)]
      /\ \A y \in Thread \ {x} : stack'[y] = stack[y]
      /\ stack'[x] # <<>> /\ Head(stack'[x]) = g /\ stack'[x][1] = g
      /\ Len(stack'[x]) = Len(stack[x])
      /\ \A i \in 2 .. Len(stack[x]) : stack'[x][i] = stack[x][i]
  BY <1>1, <1>3, <1>4, GoesOnStack DEF IInv
<1>9. TypeOK'
  BY <1>2, <1>4, <1>8 DEF IInv, TypeOK, workerVars, frontVars
<1>10. Locked'
  <2>1. ASSUME NEW t \in Terminal, NEW y \in Thread PROVE lock'[t] = y <=> Holds(y, t)'
    <3>1. lock[t] = y <=> Holds(y, t)
      BY DEF IInv, Locked
    <3>2. CASE y # x
      <4>1. Holds(y, t)' = Holds(y, t)
        BY <1>4, <1>8, <3>2 DEF Holds, Depender, Dependee, frontVars, In, Call
      <4>2. lock'[t] = y <=> lock[t] = y
        BY <1>2, <1>4, <3>2, ThreadAssumption DEF IInv, TypeOK, Thread
      <4>. QED BY <3>1, <4>1, <4>2
    <3>3. CASE y = x
      <4>1. ~Holds(x, t)
        BY <1>0, <1>1, <1>2 DEF Holds, In
      <4>2. Holds(x, t)' <=> t = D
        <5>1. Call(x)' = g /\ (x = Frontend => fpc' # "count")
          BY <1>2, <1>4, <1>8 DEF Call, frontVars
        <5>2. Depender(Call(x))' = D
          BY <1>5, <5>1 DEF Depender
        <5>. QED BY <1>3, <1>8, <5>1, <5>2 DEF Holds, In
      <4>3. lock'[t] = x <=> t = D
        BY <1>2, <1>4, <3>1, <3>3, <4>1 DEF IInv, TypeOK
      <4>. QED BY <3>3, <4>2, <4>3
    <3>. QED BY <3>2, <3>3
  <2>. QED BY <2>1 DEF Locked
<1>11. Told'
  <2>1. ASSUME NEW w \in Worker, wpc'[w] = "publish", NEW j \in DOMAIN contributions'[wt'[w]],
               contributions'[wt'[w]][j] # 0
        PROVE  /\ stack'[w] # <<>>
               /\ LET h == stack'[w][Len(stack'[w])] IN h.at = "change" \/ (h.j <= j /\ j <= h.n)
    <3>0. wpc[w] = "publish" /\ w \in Thread
      BY <1>4, <2>1 DEF workerVars, Thread
    <3>1. /\ stack[w] # <<>>
          /\ LET h == stack[w][Len(stack[w])] IN h.at = "change" \/ (h.j <= j /\ j <= h.n)
      BY <1>4, <2>1, <3>0 DEF IInv, Told, workerVars
    <3>2. CASE w # x
      BY <1>8, <3>0, <3>1, <3>2
    <3>3. CASE w = x /\ Len(stack[x]) # 1
      <4>1. \A m \in Nat \ {0} : m # 1 => m \in 2 .. m
        OBVIOUS
      <4>2. Len(stack[x]) \in 2 .. Len(stack[x])
        BY <1>6, <3>3, <4>1
      <4>. QED BY <1>8, <3>1, <3>3, <4>2
    <3>4. CASE w = x /\ Len(stack[x]) = 1
      <4>1. stack[w][Len(stack[w])] = f /\ stack'[w][Len(stack'[w])] = g
        BY <1>6, <1>8, <3>4
      <4>2. f.j <= j /\ j <= f.n
        BY <1>1, <3>1, <4>1
      <4>. QED BY <1>3, <1>8, <3>4, <4>1, <4>2
    <3>. QED BY <3>2, <3>3, <3>4
  <2>. QED BY <2>1 DEF Told
<1>. QED BY <1>7, <1>9, <1>10, <1>11 DEF IInv

\* The terminal whose count was compared is not changed by anybody, as its lock was free.
LEMMA ComparedFacts ==
  ASSUME IInv, NEW x \in Thread, In(x, "compare"), NEW f, f = Call(x), Free(f.t)
  PROVE  /\ stack[x] # <<>> /\ f.at = "compare" /\ f.j <= f.n
         /\ f \in CallType /\ f.t \in Terminal /\ f.t \notin result
         /\ f.n <= Len(dependers[f.t])
         /\ f.j \in DOMAIN dependers[f.t] /\ f.j \in DOMAIN contributions[f.t]
         /\ Depender(f) \in Terminal /\ ~Settled(Depender(f)) /\ ~Evaluated(Depender(f))
         /\ x = Frontend => fpc = "independ"
         /\ f = stack[x][1] /\ Len(stack[x]) \in Nat \ {0}
         /\ lock[Depender(f)] = x /\ ~Changing(Depender(f)) /\ ~Changing(f.t)
         /\ Evaluated(f.t) => adc[f.t] = 0
         /\ [f EXCEPT !.at = "next", !.j = @ + 1] \in CallType
<1>1. stack[x] # <<>> /\ f.at = "compare"
  BY DEF In
<1>2. f = stack[x][1] /\ Len(stack[x]) \in Nat \ {0} /\ 1 \in DOMAIN stack[x]
  BY <1>1, CallTyped DEF IInv
<1>3. f.j <= f.n
  BY <1>1, <1>2 DEF IInv, Calls
<1>4. /\ f \in CallType /\ f.t \in Terminal /\ f.t \notin result
      /\ f.n <= Len(dependers[f.t])
      /\ f.j \in DOMAIN dependers[f.t] /\ f.j \in DOMAIN contributions[f.t]
      /\ Depender(f) \in Terminal /\ ~Settled(Depender(f)) /\ ~Evaluated(Depender(f))
      /\ x = Frontend => fpc = "independ"
  BY <1>1, <1>3, LoopFacts
<1>5. lock[Depender(f)] = x
  BY <1>4 DEF IInv, Locked, Holds
<1>6. ~Changing(Depender(f))
  <2>1. ASSUME NEW y \in Thread, In(y, "change"), Call(y).t = Depender(f) PROVE FALSE
    <3>1. y = x
      BY <1>5, <2>1, ChangerHolds
    <3>. QED BY <1>1, <2>1, <3>1 DEF In
  <2>. QED BY <2>1 DEF Changing
<1>7. ~Changing(f.t)
  BY <1>4, FreeUnchanging
<1>8. Evaluated(f.t) => adc[f.t] = 0
  BY <1>4, <1>7 DEF IInv, Exact
<1>9. [f EXCEPT !.at = "next", !.j = @ + 1] \in CallType
  <2>1. f.j + 1 \in Nat \ {0}
    BY <1>4 DEF CallType
  <2>2. \A k \in Nat \ {0} : [f EXCEPT !.at = "next", !.j = k] \in CallType
    BY <1>4 DEF CallType
  <2>. QED BY <1>4, <2>1, <2>2
<1>. QED BY <1>1, <1>2, <1>3, <1>4, <1>5, <1>6, <1>7, <1>8, <1>9

\* Whom a worker's outermost call is for.
LEMMA OutermostTarget ==
  ASSUME IInv, NEW w \in Worker, stack[w] # <<>>
  PROVE  /\ wpc[w] = "publish"
         /\ stack[w][Len(stack[w])].t = wt[w] /\ stack[w][Len(stack[w])].rd = 0
         /\ wt[w] \in Terminal /\ wt[w] \notin result /\ Evaluated(wt[w])
<1>1. w \in Thread /\ w # Frontend
  BY ThreadAssumption DEF Thread
<1>2. /\ wpc[w] = "publish"
      /\ stack[w][Len(stack[w])].t = wt[w] /\ stack[w][Len(stack[w])].rd = 0
  BY <1>1 DEF IInv, Outermost, Caller, Origin
<1>. QED BY <1>2 DEF IInv, Scheduled, Evaluated

\* The change is too small to be propagated yet.
LEMMA KeepsStep ==
  ASSUME IInv, NEW x \in Thread, Compare(x), ~Propagates(Call(x))
  PROVE  IInv'
<1>0. PICK f : f = Call(x)
  OBVIOUS
<1>01. PICK g : g = [f EXCEPT !.at = "next", !.j = @ + 1]
  OBVIOUS
<1>02. PICK D : D = Depender(f)
  OBVIOUS
<1>1. /\ stack[x] # <<>> /\ f.at = "compare" /\ f.j <= f.n
      /\ f \in CallType /\ f.t \in Terminal /\ f.t \notin result
      /\ f.n <= Len(dependers[f.t])
      /\ f.j \in DOMAIN dependers[f.t] /\ f.j \in DOMAIN contributions[f.t]
      /\ D \in Terminal
      /\ x = Frontend => fpc = "independ"
      /\ f = stack[x][1] /\ Len(stack[x]) \in Nat \ {0}
      /\ lock[D] = x
      /\ Evaluated(f.t) => adc[f.t] = 0
      /\ g \in CallType
  BY <1>0, <1>01, <1>02, ComparedFacts DEF Compare
<1>2. g.at = "next" /\ g.t = f.t /\ g.rd = f.rd /\ g.j = f.j + 1 /\ g.n = f.n
  BY <1>01, <1>1 DEF CallType
<1>3. /\ GoesOn(x, g) /\ lock' = [lock EXCEPT ![D] = None]
      /\ UNCHANGED <<operands, adc, contributions, dependers, dc, baked, result, independent,
                     workerVars, frontVars>>
  BY <1>0, <1>01, <1>02 DEF Compare
<1>4. g.n \in Nat /\ f.j \in Nat /\ f.n \in Nat /\ g.j <= g.n + 1
  BY <1>1, <1>2 DEF CallType
<1>5. /\ Baking' /\ Listed' /\ Counted' /\ Scheduled' /\ Notifying'
      /\ Outermost' /\ Calls' /\ Contributed' /\ Exact' /\ Changes'
  BY <1>0, <1>1, <1>2, <1>3, <1>4, CallGoesOn
<1>6. /\ stack' \in [Thread -> Seq(CallType)]
      /\ \A y \in Thread \ {x} : stack'[y] = stack[y]
      /\ stack'[x] # <<>> /\ Head(stack'[x]) = g /\ stack'[x][1] = g
      /\ Len(stack'[x]) = Len(stack[x])
      /\ \A i \in 2 .. Len(stack[x]) : stack'[x][i] = stack[x][i]
  BY <1>1, <1>3, GoesOnStack DEF IInv
<1>7. TypeOK'
  BY <1>1, <1>3, <1>6 DEF IInv, TypeOK, workerVars, frontVars
<1>8. Locked'
  <2>1. ASSUME NEW t \in Terminal, NEW y \in Thread PROVE lock'[t] = y <=> Holds(y, t)'
    <3>1. lock[t] = y <=> Holds(y, t)
      BY DEF IInv, Locked
    <3>2. CASE y # x
      <4>1. Holds(y, t)' = Holds(y, t)
        BY <1>3, <1>6, <3>2 DEF Holds, Depender, Dependee, frontVars, In, Call
      <4>2. lock'[t] = y <=> lock[t] = y
        BY <1>1, <1>3, <3>2, ThreadAssumption DEF IInv, TypeOK, Thread
      <4>. QED BY <3>1, <4>1, <4>2
    <3>3. CASE y = x
      <4>1. Holds(x, t) <=> t = D
        BY <1>0, <1>02, <1>1 DEF Holds, In
      <4>2. ~Holds(x, t)'
        <5>1. Call(x)' = g /\ (x = Frontend => fpc' # "count")
          BY <1>1, <1>3, <1>6 DEF Call, frontVars
        <5>. QED BY <1>2, <1>6, <5>1 DEF Holds, In
      <4>3. lock'[t] # x
        BY <1>1, <1>3, <3>1, <3>3, <4>1, ThreadAssumption DEF IInv, TypeOK
      <4>. QED BY <3>3, <4>2, <4>3
    <3>. QED BY <3>2, <3>3
  <2>. QED BY <2>1 DEF Locked
<1>9. Told'
  <2>1. ASSUME NEW w \in Worker, wpc'[w] = "publish", NEW j \in DOMAIN contributions'[wt'[w]],
               contributions'[wt'[w]][j] # 0
        PROVE  /\ stack'[w] # <<>>
               /\ LET h == stack'[w][Len(stack'[w])] IN h.at = "change" \/ (h.j <= j /\ j <= h.n)
    <3>0. wpc[w] = "publish" /\ w \in Thread /\ wt' = wt
      BY <1>3, <2>1 DEF workerVars, Thread
    <3>1. /\ stack[w] # <<>>
          /\ LET h == stack[w][Len(stack[w])] IN h.at = "change" \/ (h.j <= j /\ j <= h.n)
      BY <1>3, <2>1, <3>0 DEF IInv, Told
    <3>2. CASE w # x
      BY <1>6, <3>0, <3>1, <3>2
    <3>3. CASE w = x /\ Len(stack[x]) # 1
      <4>1. \A m \in Nat \ {0} : m # 1 => m \in 2 .. m
        OBVIOUS
      <4>2. Len(stack[x]) \in 2 .. Len(stack[x])
        BY <1>1, <3>3, <4>1
      <4>. QED BY <1>6, <3>1, <3>3, <4>2
    <3>4. CASE w = x /\ Len(stack[x]) = 1
      <4>1. stack[w][Len(stack[w])] = f /\ stack'[w][Len(stack'[w])] = g
        BY <1>1, <1>6, <3>4
      <4>2. f.j <= j /\ j <= f.n
        BY <1>1, <3>1, <4>1
      <4>3. f.t = wt[w] /\ f.rd = 0 /\ adc[f.t] = 0
        BY <1>1, <3>1, <4>1, OutermostTarget
      <4>4. contributions[f.t][f.j] = 0
        <5>1. contributions[f.t][f.j] \in Count
          <6>1. contributions[f.t] \in Seq(Count)
            BY <1>1 DEF IInv, TypeOK
          <6>. QED BY <1>1, <6>1
        <5>2. /\ contributions[f.t][f.j] # Overflown
              /\ ~(2 * f.rd < Bits /\ contributions[f.t][f.j] - adc[f.t] >= 4 ^ f.rd)
          BY <1>0 DEF Propagates
        <5>3. 2 * f.rd < Bits /\ 4 ^ f.rd = 1
          <6>1. 4 ^ 0 = 1
            BY SMT
          <6>. QED BY <4>3, <6>1, CountAssumption
        <5>4. contributions[f.t][f.j] \in 0 .. (MaxADC - 1)
          BY <5>1, <5>2 DEF Count
        <5>. QED BY <4>3, <5>2, <5>3, <5>4
      <4>5. j # f.j
        BY <1>3, <2>1, <3>0, <4>3, <4>4
      <4>6. j \in Int
        <5>1. contributions[wt[w]] \in Seq(Count)
          BY <1>1, <4>3 DEF IInv, TypeOK
        <5>. QED BY <1>3, <2>1, <3>0, <5>1
      <4>7. g.j <= j /\ j <= g.n
        BY <1>2, <1>4, <4>2, <4>5, <4>6
      <4>. QED BY <1>6, <3>4, <4>1, <4>7
    <3>. QED BY <3>2, <3>3, <3>4
  <2>. QED BY <2>1 DEF Told
<1>. QED BY <1>5, <1>7, <1>8, <1>9 DEF IInv

\* The change is propagated: the depender's count is changed by as much.
LEMMA PropagatesStep ==
  ASSUME IInv, NEW x \in Thread, Compare(x), Propagates(Call(x))
  PROVE  IInv'
<1>0. PICK f : f = Call(x)
  OBVIOUS
<1>01. PICK g : g = [f EXCEPT !.at = "next", !.j = @ + 1]
  OBVIOUS
<1>02. PICK D : D = Depender(f)
  OBVIOUS
<1>03. PICK d : d = Discrepancy(f)
  OBVIOUS
<1>04. PICK h : h = Frame(D, d, f.rd + 1)
  OBVIOUS
<1>05. PICK c : c = contributions[f.t][f.j]
  OBVIOUS
<1>06. PICK a : a = adc[f.t]
  OBVIOUS
<1>1. /\ stack[x] # <<>> /\ f.at = "compare" /\ f.j <= f.n
      /\ f \in CallType /\ f.t \in Terminal /\ f.t \notin result
      /\ f.n <= Len(dependers[f.t])
      /\ f.j \in DOMAIN dependers[f.t] /\ f.j \in DOMAIN contributions[f.t]
      /\ D \in Terminal /\ ~Settled(D) /\ ~Evaluated(D)
      /\ x = Frontend => fpc = "independ"
      /\ f = stack[x][1] /\ Len(stack[x]) \in Nat \ {0}
      /\ lock[D] = x /\ ~Changing(D) /\ ~Changing(f.t)
      /\ Evaluated(f.t) => adc[f.t] = 0
      /\ g \in CallType
  BY <1>0, <1>01, <1>02, ComparedFacts DEF Compare
<1>2. g.at = "next" /\ g.t = f.t /\ g.rd = f.rd /\ g.j = f.j + 1 /\ g.n = f.n
  BY <1>01, <1>1 DEF CallType
<1>3. /\ contributions' = [contributions EXCEPT ![f.t][f.j] = a]
      /\ stack' = [stack EXCEPT ![x] = <<h, g>> \o Tail(@)]
      /\ UNCHANGED <<operands, adc, dependers, dc, lock, baked, result, independent,
                     workerVars, frontVars>>
  BY <1>0, <1>01, <1>02, <1>03, <1>04, <1>06 DEF Compare
<1>4. f.j \in Nat \ {0} /\ f.n \in Nat /\ f.rd \in Nat
  BY <1>1 DEF CallType
<1>5. c \in Count /\ a \in Count /\ (c # Overflown => a # Overflown /\ a <= c)
  <2>1. contributions[f.t] \in Seq(Count)
    BY <1>1 DEF IInv, TypeOK
  <2>2. c \in Count
    BY <1>05, <1>1, <2>1
  <2>3. c # Overflown => a # Overflown /\ a <= c
    BY <1>05, <1>06, <1>1 DEF IInv, Contributed
  <2>. QED BY <1>06, <1>1, <2>2, <2>3 DEF IInv, TypeOK
<1>6. d = IF c = Overflown THEN 0 ELSE c - a
  BY <1>03, <1>05, <1>06 DEF Discrepancy
<1>7. d \in 0 .. MaxADC
  BY <1>5, <1>6, CountAssumption DEF Count
<1>8. /\ h \in CallType /\ h.at = "change" /\ h.t = D /\ h.decrement = d /\ h.rd = f.rd + 1
      /\ h.j = 1 /\ h.n = 0
  BY <1>04, <1>1, <1>4, <1>7 DEF CallType, Frame
<1>9. /\ stack' \in [Thread -> Seq(CallType)]
      /\ \A y \in Thread \ {x} : stack'[y] = stack[y]
      /\ stack'[x] # <<>> /\ Head(stack'[x]) = h
      /\ Len(stack'[x]) = Len(stack[x]) + 1
      /\ stack'[x][1] = h /\ stack'[x][2] = g
      /\ \A i \in 3 .. Len(stack[x]) + 1 : stack'[x][i] = stack[x][i - 1]
  BY <1>1, <1>3, <1>8, PushedStack DEF IInv
<1>10. /\ Baking' /\ Listed' /\ Counted' /\ Scheduled' /\ Notifying'
       /\ \A t : Entries(t)' = Entries(t) /\ Evaluated(t)' = Evaluated(t)
       /\ \A t : Incomplete(t)' = Incomplete(t)
  BY <1>3, GraphStays
<1>11. /\ contributions \in [Terminal -> Seq(Count)] /\ contributions' \in [Terminal -> Seq(Count)]
       /\ contributions'[f.t][f.j] = a
       /\ \A p \in Terminal : DOMAIN contributions'[p] = DOMAIN contributions[p]
                              /\ Len(contributions'[p]) = Len(contributions[p])
       /\ \A p \in Terminal : \A j \in DOMAIN contributions[p] :
            <<p, j>> # <<f.t, f.j>> => contributions'[p][j] = contributions[p][j]
  <2>1. contributions \in [Terminal -> Seq(Count)]
    BY DEF IInv, TypeOK
  <2>2. contributions[f.t] \in Seq(Count)
    BY <1>1, <2>1
  <2>3. PICK s : s = [contributions[f.t] EXCEPT ![f.j] = a]
    OBVIOUS
  <2>4. s \in Seq(Count) /\ Len(s) = Len(contributions[f.t]) /\ s[f.j] = a
        /\ \A j \in DOMAIN contributions[f.t] : j # f.j => s[j] = contributions[f.t][j]
    BY <1>1, <1>5, <2>2, <2>3
  <2>5. contributions' = [contributions EXCEPT ![f.t] = s]
    BY <1>1, <1>3, <2>1, <2>3
  <2>6. contributions'[f.t] = s /\ \A p \in Terminal : p # f.t => contributions'[p] = contributions[p]
    BY <1>1, <2>1, <2>5
  <2>7. contributions' \in [Terminal -> Seq(Count)]
    BY <1>1, <2>1, <2>4, <2>5
  <2>8. DOMAIN s = DOMAIN contributions[f.t]
    BY <2>2, <2>4
  <2>. QED BY <1>1, <2>1, <2>4, <2>6, <2>7, <2>8
<1>12. TypeOK'
  BY <1>3, <1>9, <1>11 DEF IInv, TypeOK, workerVars, frontVars
<1>13. Outermost'
  <2>1. ASSUME NEW y \in Thread, stack'[y] # <<>>
        PROVE  /\ Caller(y)' /\ stack'[y][Len(stack'[y])].t = Origin(y)'
               /\ stack'[y][Len(stack'[y])].rd = 0
    <3>1. Caller(y)' = Caller(y) /\ Origin(y)' = Origin(y)
      BY <1>3 DEF Caller, Origin, workerVars, frontVars
    <3>2. CASE y # x
      BY <1>9, <2>1, <3>1, <3>2 DEF IInv, Outermost
    <3>3. CASE y = x
      <4>1. Caller(x) /\ stack[x][Len(stack[x])].t = Origin(x) /\ stack[x][Len(stack[x])].rd = 0
        BY <1>1 DEF IInv, Outermost
      <4>2. CASE Len(stack[x]) = 1
        <5>1. stack'[x][Len(stack'[x])] = g /\ stack[x][Len(stack[x])] = f
          BY <1>1, <1>9, <4>2
        <5>. QED BY <1>2, <3>1, <3>3, <4>1, <5>1
      <4>3. CASE Len(stack[x]) # 1
        <5>1. Len(stack[x]) + 1 \in 3 .. Len(stack[x]) + 1 /\ (Len(stack[x]) + 1) - 1 = Len(stack[x])
          <6>. \A m \in Nat \ {0} : m # 1 => m + 1 \in 3 .. m + 1 /\ (m + 1) - 1 = m
            OBVIOUS
          <6>. QED BY <1>1, <4>3
        <5>2. stack'[x][Len(stack'[x])] = stack[x][Len(stack[x])]
          BY <1>9, <5>1
        <5>. QED BY <3>1, <3>3, <4>1, <5>2
      <4>. QED BY <4>2, <4>3
    <3>. QED BY <3>2, <3>3
  <2>. QED BY <2>1 DEF Outermost
<1>14. Calls'
  <2>1. ASSUME NEW y \in Thread, NEW i \in DOMAIN stack'[y]
        PROVE  LET e == stack'[y][i] IN
                 /\ e.t \notin result' /\ e.n <= Len(dependers'[e.t])
                 /\ e.at = "change" => e.j = 1
                 /\ e.at = "compare" => e.j <= e.n
                 /\ e.at = "next" => e.j <= e.n + 1
                 /\ i > 1 => e.at = "next"
                 /\ i < Len(stack'[y]) =>
                      LET k == stack'[y][i + 1] IN k.j > 1 /\ dependers'[k.t][k.j - 1] = e.t
    <3>1. CASE y # x
      BY <1>3, <1>9, <3>1 DEF IInv, Calls
    <3>2. CASE y = x /\ i = 1
      <4>1. D \notin result /\ 0 <= Len(dependers[D])
        BY <1>1 DEF Evaluated, IInv, TypeOK
      <4>2. g.j > 1 /\ dependers[g.t][g.j - 1] = D
        <5>1. g.j - 1 = f.j /\ g.j > 1
          BY <1>2, <1>4
        <5>. QED BY <1>02, <1>2, <5>1 DEF Depender
      <4>3. stack'[y][i] = h /\ stack'[y][i + 1] = g
        BY <1>9, <3>2
      <4>. QED BY <1>3, <1>8, <3>2, <4>1, <4>2, <4>3
    <3>3. CASE y = x /\ i = 2
      <4>1. stack'[y][i] = g
        BY <1>9, <3>3
      <4>2. 2 < Len(stack'[x]) =>
              /\ stack'[x][3] = stack[x][2]
              /\ stack[x][2].j > 1 /\ dependers[stack[x][2].t][stack[x][2].j - 1] = f.t
        <5>1. 2 < Len(stack'[x]) => 3 \in 3 .. Len(stack[x]) + 1 /\ 1 < Len(stack[x]) /\ 3 - 1 = 2
          BY <1>1, <1>9
        <5>2. 1 \in DOMAIN stack[x]
          BY <1>1 DEF IInv, TypeOK
        <5>3. 1 < Len(stack[x]) =>
                stack[x][2].j > 1 /\ dependers[stack[x][2].t][stack[x][2].j - 1] = f.t
          BY <1>1, <5>2 DEF IInv, Calls
        <5>. QED BY <1>9, <5>1, <5>3
      <4>3. g.j <= g.n + 1
        BY <1>1, <1>2, <1>4
      <4>. QED BY <1>1, <1>2, <1>3, <3>3, <4>1, <4>2, <4>3
    <3>4. CASE y = x /\ i > 2
      <4>1. i \in 3 .. Len(stack[x]) + 1 /\ i \in Nat
        BY <1>1, <1>9, <2>1, <3>4
      <4>2. i - 1 \in DOMAIN stack[x] /\ i - 1 > 1
        BY <1>1, <4>1 DEF IInv, TypeOK
      <4>3. stack'[x][i] = stack[x][i - 1]
        BY <1>9, <4>1
      <4>4. i < Len(stack'[x]) => stack'[x][i + 1] = stack[x][i] /\ i - 1 < Len(stack[x]) /\ (i - 1) + 1 = i
        <5>1. i < Len(stack'[x]) => i + 1 \in 3 .. Len(stack[x]) + 1 /\ (i + 1) - 1 = i
          BY <1>1, <1>9, <4>1
        <5>. QED BY <1>1, <1>9, <4>1, <5>1
      <4>. QED BY <1>3, <3>4, <4>2, <4>3, <4>4 DEF IInv, Calls
    <3>. QED BY <2>1, <3>1, <3>2, <3>3, <3>4, <1>9
  <2>. QED BY <2>1 DEF Calls
<1>15. Locked'
  <2>1. ASSUME NEW t \in Terminal, NEW y \in Thread PROVE lock'[t] = y <=> Holds(y, t)'
    <3>1. lock'[t] = y <=> Holds(y, t)
      BY <1>3 DEF IInv, Locked
    <3>2. CASE y # x
      BY <1>3, <1>9, <3>1, <3>2 DEF Holds, Depender, Dependee, frontVars, In, Call
    <3>3. CASE y = x
      <4>1. Holds(x, t) <=> t = D
        BY <1>0, <1>02, <1>1 DEF Holds, In
      <4>2. Holds(x, t)' <=> t = D
        <5>1. Call(x)' = h /\ (x = Frontend => fpc' # "count")
          BY <1>1, <1>3, <1>9 DEF Call, frontVars
        <5>. QED BY <1>8, <1>9, <5>1 DEF Holds, In
      <4>. QED BY <3>1, <3>3, <4>1, <4>2
    <3>. QED BY <3>2, <3>3
  <2>. QED BY <2>1 DEF Locked
<1>16. Contributed'
  <2>1. ASSUME NEW p \in Terminal
        PROVE  p \notin result' => Len(contributions'[p]) = Len(dependers'[p])
    BY <1>3, <1>11 DEF IInv, Contributed
  <2>2. ASSUME NEW p \in Terminal, NEW j \in DOMAIN contributions'[p], contributions'[p][j] # Overflown
        PROVE  adc'[p] # Overflown /\ adc'[p] <= contributions'[p][j]
    <3>1. CASE p = f.t /\ j = f.j
      <4>1. a \in 0 .. (MaxADC - 1)
        BY <1>5, <1>11, <2>2, <3>1 DEF Count
      <4>2. a <= a
        BY <4>1, CountAssumption
      <4>. QED BY <1>06, <1>3, <1>11, <2>2, <3>1, <4>2
    <3>2. CASE ~(p = f.t /\ j = f.j)
      <4>1. j \in DOMAIN contributions[p] /\ contributions'[p][j] = contributions[p][j]
        BY <1>11, <2>2, <3>2
      <4>. QED BY <1>3, <2>2, <4>1 DEF IInv, Contributed
    <3>. QED BY <3>1, <3>2
  <2>. QED BY <2>1, <2>2 DEF Contributed
<1>17. FoundEntries /\ FoundEntries'
  BY <1>10, <1>12, EntriesAre, EntriesAreNext DEF IInv
<1>18. \A t \in Terminal : t # D => Collected(t)' = Collected(t)
  <2>1. ASSUME NEW t \in Terminal, t # D PROVE Collected(t)' = Collected(t)
    <3>1. ASSUME NEW q \in Entries(t) PROVE contributions[q[1]][q[2]] = contributions'[q[1]][q[2]]
      <4>1. PICK p \in Terminal : \E j \in DOMAIN dependers[p] :
              q = <<p, j>> /\ dependers[p][j] = t /\ p \notin result
        BY <1>17, <3>1 DEF FoundEntries
      <4>2. PICK j \in DOMAIN dependers[p] : q = <<p, j>> /\ dependers[p][j] = t /\ p \notin result
        BY <4>1
      <4>3. j \in DOMAIN contributions[p]
        <5>1. dependers[p] \in Seq(Terminal) /\ contributions[p] \in Seq(Count)
              /\ Len(contributions[p]) = Len(dependers[p])
          BY <4>2 DEF IInv, TypeOK, Contributed
        <5>. QED BY <5>1
      <4>4. <<p, j>> # <<f.t, f.j>>
        BY <1>02, <2>1, <4>2 DEF Depender
      <4>5. contributions'[p][j] = contributions[p][j]
        BY <1>11, <4>3, <4>4
      <4>. QED BY <4>2, <4>5
    <3>2. IsFiniteSet(Entries(t))
      BY EntriesCounted
    <3>3. Total(contributions, Entries(t)) = Total(contributions', Entries(t))
      BY <3>1, <3>2, TotalSame
    <3>. QED BY <1>10, <3>3, CollectedIs, CollectedIsNext DEF CollectedTotal
  <2>. QED BY <2>1
<1>19. \E r \in Count : Collected(D) = Plus(c, r) /\ Collected(D)' = Plus(a, r)
  <2>. DEFINE e == <<f.t, f.j>>
             Q == Entries(D)
  <2>1. e \in Q
    BY <1>02, <1>1, <1>17 DEF FoundEntries, Depender
  <2>2. IsFiniteSet(Q) /\ Valued(contributions, Q)
    BY <1>1, EntriesCounted
  <2>3. IsFiniteSet(Q \ {e}) /\ Valued(contributions, Q \ {e})
    BY <2>2, FS_RemoveElement DEF Valued
  <2>4. ASSUME NEW q \in Q, q # e PROVE contributions[q[1]][q[2]] = contributions'[q[1]][q[2]]
    <3>1. PICK p \in Terminal : \E j \in DOMAIN dependers[p] : q = <<p, j>> /\ p \notin result
      BY <1>1, <1>17, <2>4 DEF FoundEntries
    <3>2. PICK j \in DOMAIN dependers[p] : q = <<p, j>> /\ p \notin result
      BY <3>1
    <3>3. j \in DOMAIN contributions[p]
      <4>1. dependers[p] \in Seq(Terminal) /\ contributions[p] \in Seq(Count)
            /\ Len(contributions[p]) = Len(dependers[p])
        BY <3>2 DEF IInv, TypeOK, Contributed
      <4>. QED BY <4>1
    <3>4. contributions'[p][j] = contributions[p][j]
      BY <1>11, <2>4, <3>2, <3>3
    <3>. QED BY <3>2, <3>4
  <2>5. Valued(contributions', Q)
    <3>1. contributions'[e[1]][e[2]] \in Count
      BY <1>5, <1>11
    <3>. QED BY <2>2, <2>4, <3>1 DEF Valued
  <2>6. Total(contributions, Q \ {e}) = Total(contributions', Q \ {e})
    <3>1. \A q \in Q \ {e} : contributions[q[1]][q[2]] = contributions'[q[1]][q[2]]
      BY <2>4
    <3>. HIDE DEF Q, e
    <3>. QED BY <2>3, <3>1, TotalSame
  <2>7. Total(contributions, Q \ {e}) \in Count
    BY <2>3, TotalType
  <2>8. Total(contributions, Q) = Plus(contributions[e[1]][e[2]], Total(contributions, Q \ {e}))
    <3>. HIDE DEF Q, e
    <3>. QED BY <2>1, <2>2, TotalRemove
  <2>9. Total(contributions', Q) = Plus(contributions'[e[1]][e[2]], Total(contributions', Q \ {e}))
    <3>. HIDE DEF Q, e
    <3>. QED BY <2>1, <2>2, <2>5, TotalRemove
  <2>10. contributions[e[1]][e[2]] = c /\ contributions'[e[1]][e[2]] = a
    BY <1>05, <1>11
  <2>11. Collected(D) = Total(contributions, Q) /\ Collected(D)' = Total(contributions', Q)
    BY <1>10, CollectedIs, CollectedIsNext DEF CollectedTotal
  <2>. HIDE DEF Q, e
  <2>. QED BY <2>6, <2>7, <2>8, <2>9, <2>10, <2>11
<1>20. Exact'
  <2>0. Changing(D)' /\ \A t : t # D => Changing(t)' = Changing(t)
    <3>1. Call(x)' = h /\ stack'[x] # <<>>
      BY <1>9 DEF Call
    <3>2. \A y \in Thread \ {x} : In(y, "change")' = In(y, "change") /\ Call(y)' = Call(y)
      BY <1>9 DEF In, Call
    <3>3. In(x, "change")' /\ ~In(x, "change")
      BY <1>0, <1>1, <1>8, <3>1 DEF In
    <3>. QED BY <1>8, <3>1, <3>2, <3>3 DEF Changing
  <2>1. ASSUME NEW t \in Terminal, ~Changing(t)'
        PROVE  IF Evaluated(t)' THEN adc'[t] = 0
               ELSE adc'[t] = Collected(t)' \/ (adc'[t] = Overflown /\ Incomplete(t)')
    <3>1. t # D /\ ~Changing(t)
      BY <2>0, <2>1
    <3>. QED BY <1>3, <1>10, <1>18, <3>1 DEF IInv, Exact
  <2>. QED BY <2>1 DEF Exact
<1>21. Changes'
  <2>1. ASSUME NEW y \in Thread, In(y, "change")', NEW e, e = Call(y)'
        PROVE  IF Evaluated(e.t)' THEN adc'[e.t] = e.decrement
               ELSE adc'[e.t] # Overflown =>
                      e.decrement <= adc'[e.t] /\ adc'[e.t] - e.decrement = Collected(e.t)'
    <3>1. CASE y = x
      <4>1. e = h
        BY <1>9, <2>1, <3>1 DEF Call
      <4>2. ~Evaluated(D)'
        BY <1>1, <1>10
      <4>3. ASSUME adc[D] # Overflown
            PROVE  d <= adc[D] /\ adc[D] - d = Collected(D)'
        <5>1. adc[D] = Collected(D)
          BY <1>1, <4>3 DEF IInv, Exact
        <5>2. PICK r \in Count : Collected(D) = Plus(c, r) /\ Collected(D)' = Plus(a, r)
          BY <1>19
        <5>3. Plus(c, r) # Overflown
          BY <4>3, <5>1, <5>2
        <5>. HIDE DEF Collected
        <5>4. c # Overflown /\ c - a <= Plus(c, r) /\ Plus(c, r) - (c - a) = Plus(a, r)
          BY <1>5, <5>3, PlusLess
        <5>. QED BY <1>6, <5>1, <5>2, <5>4
      <4>. QED BY <1>3, <1>8, <4>1, <4>2, <4>3
    <3>2. CASE y # x
      <4>1. In(y, "change") /\ e = Call(y)
        BY <1>9, <2>1, <3>2 DEF In, Call
      <4>2. e.t # D /\ e.t \in Terminal
        BY <1>1, <3>2, <4>1, ChangerHolds
      <4>3. Evaluated(e.t)' = Evaluated(e.t) /\ Collected(e.t)' = Collected(e.t)
        BY <1>10, <1>18, <4>2
      <4>4. IF Evaluated(e.t) THEN adc[e.t] = e.decrement
            ELSE adc[e.t] # Overflown => e.decrement <= adc[e.t] /\ adc[e.t] - e.decrement = Collected(e.t)
        BY <4>1 DEF IInv, Changes
      <4>. QED BY <1>3, <4>3, <4>4
    <3>. QED BY <3>1, <3>2
  <2>. QED BY <2>1 DEF Changes
<1>22. Told'
  <2>1. ASSUME NEW w \in Worker, wpc'[w] = "publish", NEW j \in DOMAIN contributions'[wt'[w]],
               contributions'[wt'[w]][j] # 0
        PROVE  /\ stack'[w] # <<>>
               /\ LET e == stack'[w][Len(stack'[w])] IN e.at = "change" \/ (e.j <= j /\ j <= e.n)
    <3>0. wpc[w] = "publish" /\ w \in Thread /\ wt' = wt
      BY <1>3, <2>1 DEF workerVars, Thread
    <3>1. wt[w] \in Terminal /\ Evaluated(wt[w])
      BY <3>0 DEF IInv, Scheduled, Evaluated
    <3>2. j \in DOMAIN contributions[wt[w]] /\ j \in Int
      BY <1>11, <2>1, <3>0, <3>1
    <3>3. ~(wt[w] = f.t /\ j = f.j)
      BY <1>06, <1>1, <1>11, <2>1, <3>0, <3>1
    <3>4. contributions[wt[w]][j] # 0
      BY <1>11, <2>1, <3>0, <3>1, <3>2, <3>3
    <3>5. /\ stack[w] # <<>>
          /\ LET e == stack[w][Len(stack[w])] IN e.at = "change" \/ (e.j <= j /\ j <= e.n)
      BY <3>0, <3>2, <3>4 DEF IInv, Told
    <3>6. CASE w # x
      BY <1>9, <3>0, <3>5, <3>6
    <3>7. CASE w = x /\ Len(stack[x]) # 1
      <4>1. Len(stack[x]) + 1 \in 3 .. Len(stack[x]) + 1 /\ (Len(stack[x]) + 1) - 1 = Len(stack[x])
        <5>. \A m \in Nat \ {0} : m # 1 => m + 1 \in 3 .. m + 1 /\ (m + 1) - 1 = m
          OBVIOUS
        <5>. QED BY <1>1, <3>7
      <4>2. stack'[x][Len(stack'[x])] = stack[x][Len(stack[x])]
        BY <1>9, <4>1
      <4>. QED BY <1>9, <3>5, <3>7, <4>2
    <3>8. CASE w = x /\ Len(stack[x]) = 1
      <4>1. stack[w][Len(stack[w])] = f /\ stack'[w][Len(stack'[w])] = g
        <5>1. Len(stack'[x]) = 2
          BY <1>1, <1>9, <3>8
        <5>. QED BY <1>1, <1>9, <3>8, <5>1
      <4>2. f.j <= j /\ j <= f.n
        BY <1>1, <3>5, <4>1
      <4>3. f.t = wt[w]
        BY <3>5, <4>1, OutermostTarget
      <4>4. g.j <= j /\ j <= g.n
        BY <1>2, <1>4, <3>2, <3>3, <4>2, <4>3
      <4>. QED BY <1>9, <3>8, <4>1, <4>4
    <3>. QED BY <3>6, <3>7, <3>8
  <2>. QED BY <2>1 DEF Told
<1>. QED BY <1>10, <1>12, <1>13, <1>14, <1>15, <1>16, <1>20, <1>21, <1>22 DEF IInv

\* A call returns to the one before it, which has gone on already.
LEMMA ReturnStep ==
  ASSUME IInv, NEW x \in Thread, Return(x)
  PROVE  IInv'
<1>0. PICK f : f = Call(x)
  OBVIOUS
<1>1. /\ stack[x] # <<>> /\ f.at = "next" /\ f.j > f.n
      /\ stack' = [stack EXCEPT ![x] = Tail(@)]
      /\ UNCHANGED <<operands, adc, contributions, dependers, dc, lock, baked, result, independent,
                     workerVars, frontVars>>
  BY <1>0 DEF Return, In, graphVars
<1>2. f = stack[x][1] /\ f \in CallType /\ 1 \in DOMAIN stack[x] /\ Len(stack[x]) \in Nat \ {0}
  BY <1>0, <1>1, CallTyped DEF IInv
<1>3. /\ stack' \in [Thread -> Seq(CallType)]
      /\ \A y \in Thread \ {x} : stack'[y] = stack[y]
      /\ Len(stack'[x]) = Len(stack[x]) - 1
      /\ \A i \in 1 .. Len(stack[x]) - 1 : stack'[x][i] = stack[x][i + 1]
  BY <1>1, PoppedStack DEF IInv
<1>4. stack'[x] # <<>> =>
        /\ Len(stack[x]) > 1 /\ Len(stack'[x]) \in Nat \ {0}
        /\ stack'[x][Len(stack'[x])] = stack[x][Len(stack[x])]
        /\ Head(stack'[x]) = stack[x][2] /\ stack[x][2].at = "next"
  <2>. SUFFICES ASSUME stack'[x] # <<>>
       PROVE  /\ Len(stack[x]) > 1 /\ Len(stack'[x]) \in Nat \ {0}
              /\ stack'[x][Len(stack'[x])] = stack[x][Len(stack[x])]
              /\ Head(stack'[x]) = stack[x][2] /\ stack[x][2].at = "next"
    OBVIOUS
  <2>1. stack'[x] \in Seq(CallType) /\ x \in Thread
    BY <1>3
  <2>2. Len(stack'[x]) \in Nat \ {0} /\ Head(stack'[x]) = stack'[x][1]
    BY <2>1
  <2>3. /\ Len(stack[x]) > 1 /\ Len(stack'[x]) \in 1 .. Len(stack[x]) - 1 /\ 1 \in 1 .. Len(stack[x]) - 1
        /\ Len(stack'[x]) + 1 = Len(stack[x]) /\ 1 + 1 = 2
    BY <1>2, <1>3, <2>2
  <2>4. 2 \in DOMAIN stack[x]
    <3>1. stack[x] \in Seq(CallType)
      BY DEF IInv, TypeOK
    <3>. QED BY <2>3, <3>1
  <2>5. stack[x][2].at = "next"
    BY <2>4 DEF IInv, Calls
  <2>. QED BY <1>3, <2>2, <2>3, <2>5
<1>5. /\ Baking' /\ Listed' /\ Counted' /\ Scheduled' /\ Notifying'
      /\ \A t : Entries(t)' = Entries(t) /\ Evaluated(t)' = Evaluated(t)
      /\ \A t : Incomplete(t)' = Incomplete(t)
  BY <1>1, GraphStays
<1>6. \A t : Collected(t)' = Collected(t)
  BY <1>1, <1>5, CollectedStays
<1>7. TypeOK'
  BY <1>1, <1>3 DEF IInv, TypeOK, workerVars, frontVars
<1>8. Outermost'
  <2>1. ASSUME NEW y \in Thread, stack'[y] # <<>>
        PROVE  /\ Caller(y)' /\ stack'[y][Len(stack'[y])].t = Origin(y)'
               /\ stack'[y][Len(stack'[y])].rd = 0
    <3>1. Caller(y)' = Caller(y) /\ Origin(y)' = Origin(y)
      BY <1>1 DEF Caller, Origin, workerVars, frontVars
    <3>2. stack[y] # <<>> /\ stack'[y][Len(stack'[y])] = stack[y][Len(stack[y])]
      BY <1>1, <1>3, <1>4, <2>1
    <3>. QED BY <3>1, <3>2 DEF IInv, Outermost
  <2>. QED BY <2>1 DEF Outermost
<1>9. Calls'
  <2>1. ASSUME NEW y \in Thread, NEW i \in DOMAIN stack'[y]
        PROVE  LET e == stack'[y][i] IN
                 /\ e.t \notin result' /\ e.n <= Len(dependers'[e.t])
                 /\ e.at = "change" => e.j = 1
                 /\ e.at = "compare" => e.j <= e.n
                 /\ e.at = "next" => e.j <= e.n + 1
                 /\ i > 1 => e.at = "next"
                 /\ i < Len(stack'[y]) =>
                      LET k == stack'[y][i + 1] IN k.j > 1 /\ dependers'[k.t][k.j - 1] = e.t
    <3>1. CASE y # x
      BY <1>1, <1>3, <3>1 DEF IInv, Calls
    <3>2. CASE y = x
      <4>0. stack[x] \in Seq(CallType) /\ stack'[x] \in Seq(CallType)
        BY <1>3 DEF IInv, TypeOK
      <4>1. i \in 1 .. Len(stack[x]) - 1 /\ i \in Nat
        BY <1>2, <1>3, <2>1, <3>2, <4>0
      <4>2. i + 1 \in DOMAIN stack[x] /\ i + 1 > 1
        BY <1>2, <4>0, <4>1
      <4>3. stack'[x][i] = stack[x][i + 1]
        BY <1>3, <4>1
      <4>4. i < Len(stack'[x]) => i + 1 < Len(stack[x]) /\ stack'[x][i + 1] = stack[x][(i + 1) + 1]
        <5>1. i < Len(stack'[x]) => i + 1 < Len(stack[x]) /\ i + 1 \in 1 .. Len(stack[x]) - 1
          BY <1>2, <1>3, <4>1
        <5>. QED BY <1>3, <5>1
      <4>. QED BY <1>1, <3>2, <4>2, <4>3, <4>4 DEF IInv, Calls
    <3>. QED BY <3>1, <3>2
  <2>. QED BY <2>1 DEF Calls
<1>10. \A y \in Thread : /\ (In(y, "change")' <=> In(y, "change")) /\ (In(y, "compare")' <=> In(y, "compare"))
                         /\ In(y, "change") \/ In(y, "compare") => Call(y)' = Call(y)
  <2>1. ASSUME NEW y \in Thread, y # x
        PROVE  /\ (In(y, "change")' <=> In(y, "change")) /\ (In(y, "compare")' <=> In(y, "compare"))
               /\ Call(y)' = Call(y)
    BY <1>3, <2>1 DEF In, Call
  <2>2. ~In(x, "change") /\ ~In(x, "compare")
    BY <1>0, <1>1 DEF In
  <2>3. ~In(x, "change")' /\ ~In(x, "compare")'
    BY <1>4 DEF In, Call
  <2>. QED BY <2>1, <2>2, <2>3
<1>11. Locked'
  <2>1. ASSUME NEW t \in Terminal, NEW y \in Thread PROVE Holds(y, t)' <=> Holds(y, t)
    BY <1>1, <1>10 DEF Holds, Depender, Dependee, frontVars
  <2>. QED BY <1>1, <2>1 DEF IInv, Locked
<1>12. Contributed'
  BY <1>1 DEF IInv, Contributed
<1>13. Exact'
  <2>1. \A t : Changing(t)' <=> Changing(t)
    BY <1>10 DEF Changing
  <2>. QED BY <1>1, <1>5, <1>6, <2>1 DEF IInv, Exact
<1>14. Changes'
  <2>1. ASSUME NEW y \in Thread, In(y, "change")', NEW e, e = Call(y)'
        PROVE  IF Evaluated(e.t)' THEN adc'[e.t] = e.decrement
               ELSE adc'[e.t] # Overflown =>
                      e.decrement <= adc'[e.t] /\ adc'[e.t] - e.decrement = Collected(e.t)'
    <3>1. In(y, "change") /\ e = Call(y)
      BY <1>10, <2>1
    <3>2. Evaluated(e.t)' = Evaluated(e.t) /\ Collected(e.t)' = Collected(e.t)
      BY <1>5, <1>6
    <3>3. IF Evaluated(e.t) THEN adc[e.t] = e.decrement
          ELSE adc[e.t] # Overflown => e.decrement <= adc[e.t] /\ adc[e.t] - e.decrement = Collected(e.t)
      BY <3>1 DEF IInv, Changes
    <3>. QED BY <1>1, <3>2, <3>3
  <2>. QED BY <2>1 DEF Changes
<1>15. Told'
  <2>1. ASSUME NEW w \in Worker, wpc'[w] = "publish", NEW j \in DOMAIN contributions'[wt'[w]],
               contributions'[wt'[w]][j] # 0
        PROVE  /\ stack'[w] # <<>>
               /\ LET e == stack'[w][Len(stack'[w])] IN e.at = "change" \/ (e.j <= j /\ j <= e.n)
    <3>0. wpc[w] = "publish" /\ w \in Thread /\ wt' = wt
      BY <1>1, <2>1 DEF workerVars, Thread
    <3>1. wt[w] \in Terminal
      BY <3>0 DEF IInv, Scheduled
    <3>2. j \in DOMAIN contributions[wt[w]] /\ j \in Int
      BY <1>1, <2>1, <3>0, <3>1 DEF IInv, TypeOK
    <3>3. /\ stack[w] # <<>>
          /\ LET e == stack[w][Len(stack[w])] IN e.at = "change" \/ (e.j <= j /\ j <= e.n)
      BY <1>1, <2>1, <3>0 DEF IInv, Told
    <3>4. CASE w # x
      BY <1>3, <3>0, <3>3, <3>4
    <3>5. CASE w = x /\ stack'[x] # <<>>
      BY <1>4, <3>3, <3>5
    <3>6. CASE w = x /\ stack'[x] = <<>>
      <4>1. stack[w][Len(stack[w])] = f
        <5>1. Len(stack[x]) = 1
          BY <1>2, <1>3, <3>6
        <5>. QED BY <1>2, <3>6, <5>1
      <4>2. f.j <= j /\ j <= f.n /\ f.j \in Int /\ f.n \in Int
        BY <1>1, <1>2, <3>3, <4>1 DEF CallType
      <4>. QED BY <1>1, <3>2, <4>2
    <3>. QED BY <3>4, <3>5, <3>6
  <2>. QED BY <2>1 DEF Told
<1>. QED BY <1>5, <1>7, <1>8, <1>9, <1>11, <1>12, <1>13, <1>14, <1>15 DEF IInv

LEMMA DecreaseStep ==
  ASSUME IInv, NEW x \in Thread, Decrease(x)
  PROVE  IInv'
<1>1. CASE Change(x)
  BY <1>1, ChangeStep
<1>2. CASE Lock(x)
  BY <1>2, LockStep
<1>3. CASE Compare(x)
  BY <1>3, KeepsStep, PropagatesStep
<1>4. CASE Return(x)
  BY <1>4, ReturnStep
<1>. QED BY <1>1, <1>2, <1>3, <1>4 DEF Decrease

-----------------------------------------------------------------------------
(* The steps of the frontend *)

\* The frontend is in no call of terminal_decrease_adc while it adds operands.
LEMMA FrontendCalls ==
  IInv /\ fpc # "independ" => stack[Frontend] = <<>>
<1>. SUFFICES ASSUME IInv, fpc # "independ", stack[Frontend] # <<>> PROVE FALSE
  OBVIOUS
<1>1. Frontend \in Thread /\ Frontend \notin Worker
  BY ThreadAssumption DEF Thread
<1>. QED BY <1>1 DEF IInv, Outermost, Caller

\* Nobody's calls change.
LEMMA CallsStay ==
  ASSUME IInv, UNCHANGED <<dependers, result, stack>>
  PROVE  /\ Calls'
         /\ \A x \in Thread : \A at : (In(x, at)' <=> In(x, at)) /\ Call(x)' = Call(x)
         /\ \A x \in Thread : In(x, "change")' <=> In(x, "change")
         /\ \A x \in Thread : In(x, "compare")' <=> In(x, "compare")
         /\ \A f : Depender(f)' = Depender(f)
         /\ \A t : Changing(t)' <=> Changing(t)
<1>1. Calls'
  BY DEF IInv, Calls
<1>2. \A x \in Thread : \A at : (In(x, at)' <=> In(x, at)) /\ Call(x)' = Call(x)
  BY DEF In, Call
<1>3. \A f : Depender(f)' = Depender(f)
  BY DEF Depender
<1>4. \A t : Changing(t)' <=> Changing(t)
  BY <1>2 DEF Changing
<1>. QED BY <1>1, <1>2, <1>3, <1>4

\* Nobody's notifications change.
LEMMA EntriesStay ==
  ASSUME IInv, UNCHANGED <<operands, dependers, result, workerVars>>
  PROVE  /\ Notifying'
         /\ \A t : Awaited(t)' = Awaited(t) /\ Entries(t)' = Entries(t)
         /\ \A t : Evaluated(t)' <=> Evaluated(t)
<1>. USE DEF workerVars
<1>1. Notifying'
  BY DEF IInv, Notifying
<1>2. \A t : Awaited(t)' = Awaited(t)
  BY DEF Awaited, Due
<1>3. \A t : Entries(t)' = Entries(t)
  BY DEF Entries
<1>4. \A t : Evaluated(t)' <=> Evaluated(t)
  BY DEF Evaluated
<1>. QED BY <1>1, <1>2, <1>3, <1>4

\* The changes under way stay right when counts and what is collected do.
LEMMA ChangesStay ==
  ASSUME IInv, UNCHANGED <<adc, stack>>,
         \A t \in Terminal : Collected(t)' = Collected(t) /\ (Evaluated(t)' <=> Evaluated(t))
  PROVE  Changes'
<1>1. ASSUME NEW y \in Thread, In(y, "change")', NEW e, e = Call(y)'
      PROVE  IF Evaluated(e.t)' THEN adc'[e.t] = e.decrement
             ELSE adc'[e.t] # Overflown =>
                    e.decrement <= adc'[e.t] /\ adc'[e.t] - e.decrement = Collected(e.t)'
  <2>1. In(y, "change") /\ e = Call(y)
    BY <1>1 DEF In, Call
  <2>2. e.t \in Terminal
    BY <2>1, ChangerHolds
  <2>3. IF Evaluated(e.t) THEN adc[e.t] = e.decrement
        ELSE adc[e.t] # Overflown => e.decrement <= adc[e.t] /\ adc[e.t] - e.decrement = Collected(e.t)
    BY <2>1 DEF IInv, Changes
  <2>. QED BY <2>2, <2>3
<1>. QED BY <1>1 DEF Changes

\* The operand is locked for reading.
LEMMA AddReadStep ==
  ASSUME IInv, AddRead
  PROVE  IInv'
<1>1. /\ fpc = "add" /\ fpc' = "read" /\ ft \in Terminal /\ fk <= Len(operands[ft]) /\ Dependee \notin result
      /\ UNCHANGED <<operands, adc, contributions, dependers, dc, lock, baked, result, independent,
                     workerVars, ft, fk, stack>>
  BY DEF AddRead, Adding, graphVars, IInv, TypeOK, Terminal
<1>2. TypeOK'
  BY <1>1 DEF IInv, TypeOK, workerVars
<1>3. /\ Notifying' /\ Calls'
      /\ \A x \in Thread : In(x, "change")' <=> In(x, "change")
      /\ \A x \in Thread : In(x, "compare")' <=> In(x, "compare")
      /\ \A x \in Thread : Call(x)' = Call(x)
      /\ \A f : Depender(f)' = Depender(f)
      /\ \A t : Changing(t)' <=> Changing(t)
      /\ \A t : Awaited(t)' = Awaited(t) /\ Entries(t)' = Entries(t)
      /\ \A t : Evaluated(t)' <=> Evaluated(t)
  BY <1>1, CallsStay, EntriesStay
<1>4. \A t : Collected(t)' = Collected(t)
  BY <1>1, <1>3, CollectedStays
<1>5. Baking'
  BY <1>1 DEF IInv, Baking, Dependee
<1>6. Listed'
  BY <1>1 DEF IInv, Listed
<1>7. Counted' /\ Scheduled'
  BY <1>1, <1>3 DEF IInv, Counted, Scheduled, Settled, workerVars
<1>8. Outermost'
  BY <1>1, FrontendCalls DEF IInv, Outermost, Caller, Origin, workerVars
<1>9. Locked'
  BY <1>1, <1>3 DEF IInv, Locked, Holds
<1>10. Contributed'
  BY <1>1 DEF IInv, Contributed
<1>11. Exact'
  BY <1>1, <1>3, <1>4 DEF IInv, Exact, Incomplete
<1>12. Changes'
  BY <1>1, <1>3, <1>4, ChangesStay
<1>13. Told'
  BY <1>1 DEF IInv, Told, workerVars
<1>. QED BY <1>2, <1>3, <1>5, <1>6, <1>7, <1>8, <1>9, <1>10, <1>11, <1>12, <1>13 DEF IInv

\* Its count is locked.
LEMMA AddLockStep ==
  ASSUME IInv, AddLock
  PROVE  IInv'
<1>0. PICK p : p = Dependee
  OBVIOUS
<1>1. /\ fpc = "read" /\ fpc' = "count" /\ ft \in Terminal /\ fk \in 1 .. Len(operands[ft])
      /\ lock[p] = None /\ lock' = [lock EXCEPT ![p] = Frontend]
      /\ UNCHANGED <<operands, adc, contributions, dependers, dc, baked, result, independent,
                     workerVars, ft, fk, stack>>
  <2>1. ft \in Terminal /\ fk <= Len(operands[ft]) /\ fk \in Nat \ {0}
    BY DEF AddLock, IInv, Baking, TypeOK
  <2>2. Len(operands[ft]) \in Nat
    BY <2>1, GraphTyped DEF IInv
  <2>. QED BY <1>0, <2>1, <2>2 DEF AddLock, Free
<1>2. p \in Terminal /\ Dependee' = p
  BY <1>0, <1>1, GraphTyped DEF Dependee, IInv
<1>3. TypeOK'
  BY <1>1, <1>2 DEF IInv, TypeOK, workerVars, Thread
<1>4. /\ Notifying' /\ Calls'
      /\ \A x \in Thread : In(x, "change")' <=> In(x, "change")
      /\ \A x \in Thread : In(x, "compare")' <=> In(x, "compare")
      /\ \A x \in Thread : Call(x)' = Call(x)
      /\ \A f : Depender(f)' = Depender(f)
      /\ \A t : Changing(t)' <=> Changing(t)
      /\ \A t : Awaited(t)' = Awaited(t) /\ Entries(t)' = Entries(t)
      /\ \A t : Evaluated(t)' <=> Evaluated(t)
  BY <1>1, CallsStay, EntriesStay
<1>5. \A t : Collected(t)' = Collected(t)
  BY <1>1, <1>4, CollectedStays
<1>6. Baking'
  BY <1>1 DEF IInv, Baking, Dependee
<1>7. Listed'
  BY <1>1 DEF IInv, Listed
<1>8. Counted' /\ Scheduled'
  BY <1>1, <1>4 DEF IInv, Counted, Scheduled, Settled, workerVars
<1>9. Outermost'
  BY <1>1, FrontendCalls DEF IInv, Outermost, Caller, Origin, workerVars
<1>10. Locked'
  <2>1. ASSUME NEW t \in Terminal, NEW y \in Thread PROVE lock'[t] = y <=> Holds(y, t)'
    <3>1. lock[t] = y <=> Holds(y, t)
      BY DEF IInv, Locked
    <3>2. Holds(y, t)' <=> Holds(y, t) \/ (y = Frontend /\ t = p)
      BY <1>1, <1>2, <1>4 DEF Holds
    <3>3. lock'[t] = IF t = p THEN Frontend ELSE lock[t]
      BY <1>1, <1>2 DEF IInv, TypeOK
    <3>4. lock[p] # y
      BY <1>1, ThreadAssumption
    <3>. QED BY <3>1, <3>2, <3>3, <3>4
  <2>. QED BY <2>1 DEF Locked
<1>11. Contributed'
  BY <1>1 DEF IInv, Contributed
<1>12. Exact'
  BY <1>1, <1>4, <1>5 DEF IInv, Exact, Incomplete
<1>13. Changes'
  BY <1>1, <1>4, <1>5, ChangesStay
<1>14. Told'
  BY <1>1 DEF IInv, Told, workerVars
<1>. QED BY <1>3, <1>4, <1>6, <1>7, <1>8, <1>9, <1>10, <1>11, <1>12, <1>13, <1>14 DEF IInv

\* The terminal is complete.
LEMMA BuiltStep ==
  ASSUME IInv, Built
  PROVE  IInv'
<1>1. /\ fpc = "add" /\ fpc' = "built" /\ ft \in Terminal /\ baked' = baked \cup {ft}
      /\ UNCHANGED <<operands, adc, contributions, dependers, dc, lock, result, independent,
                     workerVars, ft, fk, stack>>
  BY DEF Built, IInv, TypeOK, Terminal
<1>2. TypeOK'
  BY <1>1 DEF IInv, TypeOK, workerVars
<1>3. /\ Notifying' /\ Calls'
      /\ \A x \in Thread : In(x, "change")' <=> In(x, "change")
      /\ \A x \in Thread : In(x, "compare")' <=> In(x, "compare")
      /\ \A x \in Thread : Call(x)' = Call(x)
      /\ \A f : Depender(f)' = Depender(f)
      /\ \A t : Changing(t)' <=> Changing(t)
      /\ \A t : Awaited(t)' = Awaited(t) /\ Entries(t)' = Entries(t)
      /\ \A t : Evaluated(t)' <=> Evaluated(t)
  BY <1>1, CallsStay, EntriesStay
<1>4. \A t : Collected(t)' = Collected(t)
  BY <1>1, <1>3, CollectedStays
<1>5. Baking'
  BY <1>1 DEF IInv, Baking, Terminal
<1>6. Listed'
  BY <1>1 DEF IInv, Listed
<1>7. Counted' /\ Scheduled'
  BY <1>1, <1>3 DEF IInv, Counted, Scheduled, Settled, workerVars
<1>8. Outermost'
  BY <1>1, FrontendCalls DEF IInv, Outermost, Caller, Origin, workerVars
<1>9. Locked'
  BY <1>1, <1>3 DEF IInv, Locked, Holds
<1>10. Contributed'
  BY <1>1 DEF IInv, Contributed
<1>11. Exact'
  <2>1. \A t : Incomplete(t) => Incomplete(t)'
    BY <1>1 DEF Incomplete
  <2>. QED BY <1>1, <1>3, <1>4, <2>1 DEF IInv, Exact
<1>12. Changes'
  BY <1>1, <1>3, <1>4, ChangesStay
<1>13. Told'
  BY <1>1 DEF IInv, Told, workerVars
<1>. QED BY <1>2, <1>3, <1>5, <1>6, <1>7, <1>8, <1>9, <1>10, <1>11, <1>12, <1>13 DEF IInv

\* The frontend propagates nothing, but collects a count that overflowed.
LEMMA BakeDecreaseStep ==
  ASSUME IInv, BakeDecrease
  PROVE  IInv'
<1>0. PICK f : f = Frame(ft, 0, 0)
  OBVIOUS
<1>1. /\ fpc = "built" /\ fpc' = "independ" /\ ft \in Terminal /\ ft \in baked
      /\ lock[ft] = None /\ lock' = [lock EXCEPT ![ft] = Frontend]
      /\ stack' = [stack EXCEPT ![Frontend] = <<f>>]
      /\ UNCHANGED <<operands, adc, contributions, dependers, dc, baked, result, independent,
                     workerVars, ft, fk>>
  BY <1>0 DEF BakeDecrease, Free, IInv, Baking
<1>2. /\ f \in CallType /\ f.at = "change" /\ f.t = ft /\ f.decrement = 0 /\ f.rd = 0 /\ f.j = 1 /\ f.n = 0
  BY <1>0, <1>1, CountAssumption DEF CallType, Frame
<1>3. /\ stack' \in [Thread -> Seq(CallType)] /\ stack'[Frontend] = <<f>>
      /\ \A y \in Thread \ {Frontend} : stack'[y] = stack[y]
      /\ Frontend \in Thread /\ Frontend \notin Worker /\ stack[Frontend] = <<>>
  BY <1>1, <1>2, FrontendCalls, ThreadAssumption DEF IInv, TypeOK, Thread
<1>4. TypeOK'
  BY <1>1, <1>3 DEF IInv, TypeOK, workerVars
<1>5. /\ Notifying'
      /\ \A t : Awaited(t)' = Awaited(t) /\ Entries(t)' = Entries(t)
      /\ \A t : Evaluated(t)' <=> Evaluated(t)
  BY <1>1, EntriesStay
<1>6. \A t : Collected(t)' = Collected(t)
  BY <1>1, <1>5, CollectedStays
<1>7. ~Settled(ft) /\ ~Evaluated(ft) /\ ~Changing(ft)
  <2>1. ~(ft < ft)
    BY DEF IInv, TypeOK
  <2>. QED BY <1>1, <2>1, SettledAre, FreeUnchanging DEF Settled, Free
<1>8. Baking'
  BY <1>1 DEF IInv, Baking
<1>9. Listed'
  BY <1>1 DEF IInv, Listed
<1>10. Counted' /\ Scheduled'
  BY <1>1, <1>5 DEF IInv, Counted, Scheduled, Settled, workerVars
<1>11. Outermost'
  <2>1. ASSUME NEW y \in Thread, stack'[y] # <<>>
        PROVE  /\ Caller(y)' /\ stack'[y][Len(stack'[y])].t = Origin(y)'
               /\ stack'[y][Len(stack'[y])].rd = 0
    <3>1. CASE y = Frontend
      BY <1>1, <1>2, <1>3, <3>1 DEF Caller, Origin
    <3>2. CASE y # Frontend
      <4>1. Caller(y)' = Caller(y) /\ Origin(y)' = Origin(y)
        BY <1>1, <3>2 DEF Caller, Origin, workerVars
      <4>. QED BY <1>3, <2>1, <3>2, <4>1 DEF IInv, Outermost
    <3>. QED BY <3>1, <3>2
  <2>. QED BY <2>1 DEF Outermost
<1>12. Calls'
  <2>1. ASSUME NEW y \in Thread, NEW i \in DOMAIN stack'[y]
        PROVE  LET e == stack'[y][i] IN
                 /\ e.t \notin result' /\ e.n <= Len(dependers'[e.t])
                 /\ e.at = "change" => e.j = 1
                 /\ e.at = "compare" => e.j <= e.n
                 /\ e.at = "next" => e.j <= e.n + 1
                 /\ i > 1 => e.at = "next"
                 /\ i < Len(stack'[y]) =>
                      LET k == stack'[y][i + 1] IN k.j > 1 /\ dependers'[k.t][k.j - 1] = e.t
    <3>1. CASE y # Frontend
      BY <1>1, <1>3, <3>1 DEF IInv, Calls
    <3>2. CASE y = Frontend
      <4>0. stack'[y] = <<f>> /\ Len(stack'[y]) = 1 /\ DOMAIN stack'[y] = {1} /\ stack'[y][1] = f
        <5>1. Len(<<f>>) = 1 /\ DOMAIN <<f>> = {1} /\ <<f>>[1] = f
          OBVIOUS
        <5>. QED BY <1>3, <3>2, <5>1
      <4>1. i = 1 /\ stack'[y][i] = f /\ Len(stack'[y]) = 1
        BY <2>1, <4>0
      <4>2. 0 <= Len(dependers[ft]) /\ ft \notin result
        BY <1>1, <1>7 DEF IInv, TypeOK, Evaluated
      <4>. QED BY <1>1, <1>2, <4>1, <4>2
    <3>. QED BY <3>1, <3>2
  <2>. QED BY <2>1 DEF Calls
<1>13. /\ \A y \in Thread \ {Frontend} : /\ In(y, "change")' <=> In(y, "change")
                                         /\ In(y, "compare")' <=> In(y, "compare")
                                         /\ Call(y)' = Call(y)
       /\ In(Frontend, "change")' /\ ~In(Frontend, "compare")' /\ Call(Frontend)' = f
       /\ ~In(Frontend, "change") /\ ~In(Frontend, "compare")
  BY <1>2, <1>3 DEF In, Call
<1>14. Locked'
  <2>1. ASSUME NEW t \in Terminal, NEW y \in Thread PROVE lock'[t] = y <=> Holds(y, t)'
    <3>1. lock[t] = y <=> Holds(y, t)
      BY DEF IInv, Locked
    <3>2. Holds(y, t)' <=> Holds(y, t) \/ (y = Frontend /\ t = ft)
      BY <1>1, <1>2, <1>13 DEF Holds, Depender
    <3>3. lock'[t] = IF t = ft THEN Frontend ELSE lock[t]
      BY <1>1 DEF IInv, TypeOK
    <3>4. lock[ft] # y
      BY <1>1, ThreadAssumption
    <3>. QED BY <3>1, <3>2, <3>3, <3>4
  <2>. QED BY <2>1 DEF Locked
<1>15. Contributed'
  BY <1>1 DEF IInv, Contributed
<1>16. Exact'
  <2>1. \A t : Changing(t)' <=> Changing(t) \/ t = ft
    BY <1>2, <1>3, <1>13 DEF Changing
  <2>2. \A t : t # ft /\ Incomplete(t) => Incomplete(t)'
    BY <1>1 DEF Incomplete
  <2>. QED BY <1>1, <1>5, <1>6, <2>1, <2>2 DEF IInv, Exact
<1>17. Changes'
  <2>1. ASSUME NEW y \in Thread, In(y, "change")', NEW e, e = Call(y)'
        PROVE  IF Evaluated(e.t)' THEN adc'[e.t] = e.decrement
               ELSE adc'[e.t] # Overflown =>
                      e.decrement <= adc'[e.t] /\ adc'[e.t] - e.decrement = Collected(e.t)'
    <3>1. CASE y = Frontend
      <4>1. e = f
        BY <1>13, <2>1, <3>1
      <4>2. adc[ft] # Overflown => adc[ft] = Collected(ft) /\ adc[ft] \in 0 .. (MaxADC - 1)
        BY <1>1, <1>7 DEF IInv, Exact, TypeOK, Count
      <4>3. adc[ft] # Overflown => 0 <= adc[ft] /\ adc[ft] - 0 = Collected(ft)
        BY <4>2
      <4>. QED BY <1>1, <1>2, <1>5, <1>6, <1>7, <4>1, <4>3
    <3>2. CASE y # Frontend
      <4>1. In(y, "change") /\ e = Call(y)
        BY <1>13, <2>1, <3>2
      <4>2. IF Evaluated(e.t) THEN adc[e.t] = e.decrement
            ELSE adc[e.t] # Overflown => e.decrement <= adc[e.t] /\ adc[e.t] - e.decrement = Collected(e.t)
        BY <4>1 DEF IInv, Changes
      <4>. QED BY <1>1, <1>5, <1>6, <4>2
    <3>. QED BY <3>1, <3>2
  <2>. QED BY <2>1 DEF Changes
<1>18. Told'
  <2>1. \A w \in Worker : w \in Thread /\ stack'[w] = stack[w]
    BY <1>3 DEF Thread
  <2>. QED BY <1>1, <2>1 DEF IInv, Told, workerVars
<1>. QED BY <1>4, <1>5, <1>8, <1>9, <1>10, <1>11, <1>12, <1>14, <1>15, <1>16, <1>17, <1>18 DEF IInv

\* An operand that has its result gets an entry nobody is notified by.
LEMMA AddResultStep ==
  ASSUME IInv, AddResult
  PROVE  IInv'
<1>0. PICK p : p = Dependee
  OBVIOUS
<1>1. /\ fpc = "add" /\ ft \in Terminal /\ fk \in 1 .. Len(operands[ft]) /\ p \in result
      /\ dependers' = [dependers EXCEPT ![p] = Append(@, ft)] /\ fk' = fk + 1
      /\ UNCHANGED <<operands, adc, contributions, dc, lock, baked, result, independent,
                     workerVars, fpc, ft, stack>>
  <2>1. ft \in Terminal /\ fk <= Len(operands[ft]) /\ fk \in Nat \ {0}
    BY DEF AddResult, Adding, IInv, TypeOK, Terminal
  <2>2. Len(operands[ft]) \in Nat
    BY <2>1, GraphTyped DEF IInv
  <2>. QED BY <1>0, <2>1, <2>2 DEF AddResult, Adding
<1>2. p \in Terminal /\ p < ft /\ p \in ToSet(operands[ft])
  <2>1. operands[ft][fk] \in Terminal /\ operands[ft][fk] < ft
    BY <1>1, GraphTyped DEF IInv
  <2>2. operands[ft] \in Seq(Terminal)
    BY <1>1, GraphTyped DEF IInv
  <2>. QED BY <1>0, <1>1, <2>1, <2>2 DEF Dependee, ToSet
<1>3. /\ dependers' \in [Terminal -> Seq(Terminal)]
      /\ \A q \in Terminal \ {p} : dependers'[q] = dependers[q]
      /\ Len(dependers'[p]) = Len(dependers[p]) + 1 /\ Len(dependers[p]) \in Nat
      /\ DOMAIN dependers'[p] = 1 .. Len(dependers[p]) + 1 /\ DOMAIN dependers[p] = 1 .. Len(dependers[p])
      /\ \A j \in DOMAIN dependers[p] : dependers'[p][j] = dependers[p][j]
      /\ dependers'[p][Len(dependers[p]) + 1] = ft
  <2>1. dependers[p] \in Seq(Terminal) /\ dependers'[p] = Append(dependers[p], ft)
    BY <1>1, <1>2 DEF IInv, TypeOK
  <2>2. dependers'[p] \in Seq(Terminal)
    BY <1>1, <2>1
  <2>3. dependers' \in [Terminal -> Seq(Terminal)] /\ \A q \in Terminal \ {p} : dependers'[q] = dependers[q]
    BY <1>1, <1>2, <2>2 DEF IInv, TypeOK
  <2>. QED BY <2>1, <2>3
<1>4. TypeOK'
  <2>1. fk' \in Nat \ {0}
    BY <1>1 DEF IInv, TypeOK
  <2>. QED BY <1>1, <1>3, <2>1 DEF IInv, TypeOK, workerVars
<1>5. Baking'
  BY <1>1 DEF IInv, Baking
<1>6. Listed'
  <2>1. ASSUME NEW q \in Terminal, NEW j \in DOMAIN dependers'[q]
        PROVE  /\ q \in ToSet(operands[dependers'[q][j]])
               /\ q < dependers'[q][j] /\ dependers'[q][j] <= ft
    <3>1. CASE q # p \/ j \in DOMAIN dependers[q]
      BY <1>3, <2>1, <3>1 DEF IInv, Listed
    <3>2. CASE q = p /\ j \notin DOMAIN dependers[q]
      <4>1. j = Len(dependers[p]) + 1
        BY <1>3, <2>1, <3>2
      <4>2. ft <= ft
        BY <1>1 DEF Terminal
      <4>. QED BY <1>2, <1>3, <3>2, <4>1, <4>2
    <3>. QED BY <3>1, <3>2
  <2>. QED BY <1>1, <2>1 DEF Listed
<1>7. Notifying'
  <2>1. ASSUME NEW w \in Worker, wpc[w] = "notify"
        PROVE  wj[w] <= wn[w] + 1 /\ wn[w] <= Len(dependers'[wt[w]])
    <3>1. wj[w] <= wn[w] + 1 /\ wn[w] <= Len(dependers[wt[w]]) /\ wt[w] \in Terminal /\ wn[w] \in Nat
      BY <2>1 DEF IInv, Notifying, Scheduled, TypeOK
    <3>2. wn[w] <= Len(dependers[p]) => wn[w] <= Len(dependers[p]) + 1
      BY <1>3, <3>1
    <3>. QED BY <1>3, <3>1, <3>2
  <2>. QED BY <1>1, <2>1 DEF Notifying, workerVars
<1>8. ~Due(p, Len(dependers[p]) + 1)
  <2>1. \A w \in Worker : wpc[w] = "notify" /\ wt[w] = p => wn[w] <= Len(dependers[p]) /\ wn[w] \in Nat
    BY DEF IInv, Notifying, TypeOK
  <2>2. \A n \in Nat : n <= Len(dependers[p]) => ~(Len(dependers[p]) + 1 <= n)
    BY <1>3
  <2>. QED BY <1>1, <2>1, <2>2 DEF Due
<1>9. \A q, j : Due(q, j)' <=> Due(q, j)
  BY <1>1 DEF Due, workerVars
<1>10. \A t \in Terminal : Awaited(t)' = Awaited(t)
  <2>1. ASSUME NEW t \in Terminal, NEW q PROVE q \in Awaited(t)' <=> q \in Awaited(t)
    <3>1. q \in Awaited(t) <=> \E r \in Terminal : \E j \in DOMAIN dependers[r] :
            q = <<r, j>> /\ dependers[r][j] = t /\ Due(r, j)
      BY AwaitedIs DEF AwaitedEntries
    <3>2. q \in Awaited(t)' <=> \E r \in Terminal : \E j \in DOMAIN dependers'[r] :
            q = <<r, j>> /\ dependers'[r][j] = t /\ Due(r, j)
      BY <1>9, AwaitedIsNext DEF AwaitedEntries
    <3>3. \A r \in Terminal : \A j : j \in DOMAIN dependers[r] =>
            j \in DOMAIN dependers'[r] /\ dependers'[r][j] = dependers[r][j]
      <4>1. \A j : j \in DOMAIN dependers[p] => j \in DOMAIN dependers'[p] /\ dependers'[p][j] = dependers[p][j]
        BY <1>3
      <4>2. \A r \in Terminal \ {p} : dependers'[r] = dependers[r]
        BY <1>3
      <4>. QED BY <4>1, <4>2
    <3>4. \A r \in Terminal : \A j : j \in DOMAIN dependers'[r] =>
            j \in DOMAIN dependers[r] \/ (r = p /\ j = Len(dependers[p]) + 1)
      BY <1>3
    <3>. QED BY <1>8, <3>1, <3>2, <3>3, <3>4
  <2>. QED BY <2>1
<1>11. \A t \in Terminal : Entries(t)' = Entries(t)
  <2>1. FoundEntries /\ FoundEntries'
    BY <1>4, <1>6, EntriesAre, EntriesAreNext DEF IInv
  <2>2. ASSUME NEW t \in Terminal, NEW q PROVE q \in Entries(t)' <=> q \in Entries(t)
    <3>1. q \in Entries(t) <=> \E r \in Terminal : \E j \in DOMAIN dependers[r] :
            q = <<r, j>> /\ dependers[r][j] = t /\ r \notin result
      BY <2>1 DEF FoundEntries
    <3>2. q \in Entries(t)' <=> \E r \in Terminal : \E j \in DOMAIN dependers'[r] :
            q = <<r, j>> /\ dependers'[r][j] = t /\ r \notin result
      BY <1>1, <2>1 DEF FoundEntries
    <3>. QED BY <1>1, <1>3, <3>1, <3>2
  <2>. QED BY <2>2
<1>12. \A t \in Terminal : Collected(t)' = Collected(t)
  BY <1>1, <1>11, CollectedStays
<1>13. /\ \A t : Evaluated(t)' <=> Evaluated(t)
       /\ \A t : Incomplete(t)' <=> Incomplete(t)
       /\ \A y \in Thread : \A at : In(y, at)' <=> In(y, at)
       /\ \A y \in Thread : Call(y)' = Call(y)
       /\ \A t : Changing(t)' <=> Changing(t)
  BY <1>1 DEF Evaluated, Incomplete, In, Call, Changing, workerVars
<1>14. Counted' /\ Scheduled'
  BY <1>1, <1>10 DEF IInv, Counted, Scheduled, Settled, workerVars
<1>15. Outermost'
  BY <1>1 DEF IInv, Outermost, Caller, Origin, workerVars
<1>16. \A y \in Thread : \A i \in DOMAIN stack[y] :
         stack[y][i].t # p /\ dependers'[stack[y][i].t] = dependers[stack[y][i].t]
  <2>1. ASSUME NEW y \in Thread, NEW i \in DOMAIN stack[y]
        PROVE  stack[y][i].t # p /\ stack[y][i].t \in Terminal
    <3>1. stack[y] \in Seq(CallType)
      BY DEF IInv, TypeOK
    <3>2. stack[y][i] \in CallType
      BY <3>1
    <3>3. stack[y][i].t \in Terminal
      BY <3>2 DEF CallType
    <3>. QED BY <1>1, <3>3 DEF IInv, Calls
  <2>. QED BY <1>3, <2>1
<1>17. Calls'
  <2>1. ASSUME NEW y \in Thread, NEW i \in DOMAIN stack[y]
        PROVE  LET e == stack[y][i] IN
                 /\ e.t \notin result /\ e.n <= Len(dependers'[e.t])
                 /\ e.at = "change" => e.j = 1
                 /\ e.at = "compare" => e.j <= e.n
                 /\ e.at = "next" => e.j <= e.n + 1
                 /\ i > 1 => e.at = "next"
                 /\ i < Len(stack[y]) =>
                      LET k == stack[y][i + 1] IN k.j > 1 /\ dependers'[k.t][k.j - 1] = e.t
    <3>1. i < Len(stack[y]) => i + 1 \in DOMAIN stack[y]
      BY DEF IInv, TypeOK
    <3>. QED BY <1>16, <3>1 DEF IInv, Calls
  <2>. QED BY <1>1, <2>1 DEF Calls
<1>18. Locked'
  <2>1. ASSUME NEW y \in Thread, In(y, "compare") PROVE Depender(Call(y))' = Depender(Call(y))
    <3>1. Call(y) = stack[y][1] /\ 1 \in DOMAIN stack[y]
      BY <2>1, CallTyped DEF IInv, In
    <3>. QED BY <1>1, <1>13, <1>16, <3>1 DEF Depender
  <2>2. \A y \in Thread : \A t \in Terminal : Holds(y, t)' <=> Holds(y, t)
    BY <1>1, <1>13, <2>1 DEF Holds
  <2>. QED BY <1>1, <2>2 DEF IInv, Locked
<1>19. Contributed'
  BY <1>1, <1>3 DEF IInv, Contributed
<1>20. Exact'
  BY <1>1, <1>12, <1>13 DEF IInv, Exact
<1>21. Changes'
  BY <1>1, <1>12, <1>13, ChangesStay
<1>22. Told'
  BY <1>1 DEF IInv, Told, workerVars
<1>. QED BY <1>4, <1>5, <1>6, <1>7, <1>14, <1>15, <1>17, <1>18, <1>19, <1>20, <1>21, <1>22 DEF IInv

\* The calls and the notifications go on with the entries they know.
LEMMA CallsGrow ==
  ASSUME IInv, UNCHANGED <<result, stack>>,
         \A q \in Terminal : /\ Len(dependers[q]) <= Len(dependers'[q])
                             /\ \A j \in DOMAIN dependers[q] : dependers'[q][j] = dependers[q][j],
         \A q \in Terminal : Len(dependers'[q]) \in Nat
  PROVE  /\ Calls'
         /\ \A y \in Thread : In(y, "compare") => Depender(Call(y))' = Depender(Call(y))
<1>1. ASSUME NEW y \in Thread, NEW i \in DOMAIN stack[y]
      PROVE  LET e == stack[y][i] IN
                 /\ e.t \notin result /\ e.n <= Len(dependers'[e.t])
                 /\ e.at = "change" => e.j = 1
                 /\ e.at = "compare" => e.j <= e.n
                 /\ e.at = "next" => e.j <= e.n + 1
                 /\ i > 1 => e.at = "next"
                 /\ i < Len(stack[y]) =>
                      LET k == stack[y][i + 1] IN k.j > 1 /\ dependers'[k.t][k.j - 1] = e.t
  <2>1. stack[y] \in Seq(CallType) /\ i \in 1 .. Len(stack[y]) /\ i \in Nat
    BY DEF IInv, TypeOK
  <2>2. stack[y][i] \in CallType
    BY <2>1
  <2>3. PICK e \in CallType : e = stack[y][i]
    BY <2>2
  <2>4. e.t \in Terminal /\ e.n \in Nat /\ e.n <= Len(dependers[e.t]) /\ Len(dependers[e.t]) \in Nat
    BY <2>3 DEF IInv, Calls, CallType, TypeOK
  <2>5. e.n <= Len(dependers'[e.t])
    BY <2>4
  <2>6. ASSUME i < Len(stack[y])
        PROVE  stack[y][i + 1].j > 1 /\ dependers'[stack[y][i + 1].t][stack[y][i + 1].j - 1] = e.t
    <3>1. i + 1 \in 1 .. Len(stack[y]) /\ i + 1 > 1 /\ i + 1 \in DOMAIN stack[y]
      BY <2>1, <2>6
    <3>2. stack[y][i + 1] \in CallType
      BY <2>1, <3>1
    <3>3. PICK k \in CallType : k = stack[y][i + 1]
      BY <3>2
    <3>4. /\ k.at = "next" /\ k.j > 1 /\ k.j <= k.n + 1 /\ k.n <= Len(dependers[k.t])
          /\ dependers[k.t][k.j - 1] = e.t
      BY <2>3, <2>6, <3>1, <3>3 DEF IInv, Calls
    <3>5. k.t \in Terminal /\ k.j \in Nat /\ k.n \in Nat /\ dependers[k.t] \in Seq(Terminal)
      BY DEF CallType, IInv, TypeOK
    <3>6. k.j - 1 \in DOMAIN dependers[k.t]
      BY <3>4, <3>5
    <3>. QED BY <3>3, <3>4, <3>5, <3>6
  <2>. QED BY <2>3, <2>5, <2>6 DEF IInv, Calls
<1>2. Calls'
  BY <1>1 DEF Calls
<1>3. ASSUME NEW y \in Thread, In(y, "compare") PROVE Depender(Call(y))' = Depender(Call(y))
  <2>1. Call(y) \in CallType /\ Call(y) = stack[y][1] /\ 1 \in DOMAIN stack[y]
    BY <1>3, CallTyped DEF IInv, In
  <2>2. PICK f \in CallType : f = Call(y)
    BY <2>1
  <2>3. f.j <= f.n /\ f.n <= Len(dependers[f.t])
    BY <1>3, <2>1, <2>2 DEF IInv, Calls, In
  <2>4. f.t \in Terminal /\ f.j \in Nat \ {0} /\ f.n \in Nat /\ dependers[f.t] \in Seq(Terminal)
    BY DEF CallType, IInv, TypeOK
  <2>5. f.j \in DOMAIN dependers[f.t]
    BY <2>3, <2>4
  <2>6. Call(y)' = f
    BY <2>2 DEF Call
  <2>. QED BY <2>2, <2>4, <2>5, <2>6 DEF Depender
<1>. QED BY <1>2, <1>3

\* Another operand gets an entry, and contributes its count.
LEMMA AddCountStep ==
  ASSUME IInv, AddCount
  PROVE  IInv'
<1>0. PICK p : p = Dependee
  OBVIOUS
<1>1. /\ fpc = "count" /\ fpc' = "add" /\ ft \in Terminal /\ fk \in 1 .. Len(operands[ft])
      /\ fk \in Nat \ {0} /\ p \notin result /\ lock[ft] = None
      /\ adc' = [adc EXCEPT ![ft] = Plus(@, adc[p])]
      /\ dc' = [dc EXCEPT ![ft] = @ + 1]
      /\ dependers' = [dependers EXCEPT ![p] = Append(@, ft)]
      /\ contributions' = [contributions EXCEPT ![p] = Append(@, adc[p])]
      /\ lock' = [lock EXCEPT ![p] = None]
      /\ fk' = fk + 1
      /\ UNCHANGED <<operands, baked, result, independent, workerVars, ft, stack>>
  <2>1. ft \in Terminal /\ fk <= Len(operands[ft]) /\ fk \in Nat \ {0} /\ Dependee \notin result
    BY DEF AddCount, IInv, TypeOK, Baking
  <2>2. Len(operands[ft]) \in Nat
    BY <2>1, GraphTyped DEF IInv
  <2>. QED BY <1>0, <2>1, <2>2 DEF AddCount, Free
<1>2. p \in Terminal /\ p < ft /\ p # ft /\ p \in ToSet(operands[ft])
  <2>1. operands[ft][fk] \in Terminal /\ operands[ft][fk] < ft
    BY <1>1, GraphTyped DEF IInv
  <2>2. operands[ft] \in Seq(Terminal)
    BY <1>1, GraphTyped DEF IInv
  <2>3. ~(ft < ft)
    BY <1>1 DEF Terminal
  <2>. QED BY <1>0, <1>1, <2>1, <2>2, <2>3 DEF Dependee, ToSet
<1>. DEFINE L == Len(dependers[p])
            new == <<p, L + 1>>
<1>3. /\ dependers' \in [Terminal -> Seq(Terminal)]
      /\ \A q \in Terminal \ {p} : dependers'[q] = dependers[q]
      /\ L \in Nat /\ Len(dependers'[p]) = L + 1
      /\ DOMAIN dependers'[p] = 1 .. L + 1 /\ DOMAIN dependers[p] = 1 .. L
      /\ \A j \in DOMAIN dependers[p] : dependers'[p][j] = dependers[p][j]
      /\ dependers'[p][L + 1] = ft
  <2>1. dependers[p] \in Seq(Terminal) /\ dependers'[p] = Append(dependers[p], ft)
    BY <1>1, <1>2 DEF IInv, TypeOK
  <2>2. dependers'[p] \in Seq(Terminal)
    BY <1>1, <2>1
  <2>3. dependers' \in [Terminal -> Seq(Terminal)] /\ \A q \in Terminal \ {p} : dependers'[q] = dependers[q]
    BY <1>1, <1>2, <2>2 DEF IInv, TypeOK
  <2>. QED BY <2>1, <2>3
<1>4. /\ contributions' \in [Terminal -> Seq(Count)]
      /\ \A q \in Terminal \ {p} : contributions'[q] = contributions[q]
      /\ Len(contributions[p]) = L /\ Len(contributions'[p]) = L + 1
      /\ DOMAIN contributions'[p] = 1 .. L + 1 /\ DOMAIN contributions[p] = 1 .. L
      /\ \A j \in DOMAIN contributions[p] : contributions'[p][j] = contributions[p][j]
      /\ contributions'[p][L + 1] = adc[p]
  <2>0. Len(contributions[p]) = L /\ adc[p] \in Count
    BY <1>1, <1>2 DEF IInv, Contributed, TypeOK
  <2>1. contributions[p] \in Seq(Count) /\ contributions'[p] = Append(contributions[p], adc[p])
    BY <1>1, <1>2 DEF IInv, TypeOK
  <2>2. contributions'[p] \in Seq(Count)
    BY <2>0, <2>1
  <2>3. /\ contributions' \in [Terminal -> Seq(Count)]
        /\ \A q \in Terminal \ {p} : contributions'[q] = contributions[q]
    BY <1>1, <1>2, <2>2 DEF IInv, TypeOK
  <2>. QED BY <1>3, <2>0, <2>1, <2>3
<1>5. /\ adc[p] \in Count /\ adc[ft] \in Count /\ adc'[ft] = Plus(adc[ft], adc[p])
      /\ \A t \in Terminal \ {ft} : adc'[t] = adc[t]
      /\ adc' \in [Terminal -> Count]
  <2>1. adc[p] \in Count /\ adc[ft] \in Count
    BY <1>1, <1>2 DEF IInv, TypeOK
  <2>2. Plus(adc[ft], adc[p]) \in Count
    BY <2>1, PlusType
  <2>. QED BY <1>1, <2>1, <2>2 DEF IInv, TypeOK
<1>6. /\ dc' \in [Terminal -> Nat] /\ dc'[ft] = dc[ft] + 1 /\ dc[ft] \in Nat
      /\ \A t \in Terminal \ {ft} : dc'[t] = dc[t]
  BY <1>1 DEF IInv, TypeOK
<1>. HIDE DEF L
<1>7. TypeOK'
  <2>1. fk' \in Nat \ {0}
    BY <1>1
  <2>2. lock' \in [Terminal -> Thread \cup {None}]
    BY <1>1 DEF IInv, TypeOK
  <2>. QED BY <1>1, <1>3, <1>4, <1>5, <1>6, <2>1, <2>2 DEF IInv, TypeOK, workerVars
<1>8. Baking'
  BY <1>1 DEF IInv, Baking
<1>9. Listed'
  <2>1. ASSUME NEW q \in Terminal, NEW j \in DOMAIN dependers'[q]
        PROVE  /\ q \in ToSet(operands[dependers'[q][j]])
               /\ q < dependers'[q][j] /\ dependers'[q][j] <= ft
    <3>1. CASE q # p \/ j \in DOMAIN dependers[q]
      BY <1>3, <2>1, <3>1 DEF IInv, Listed
    <3>2. CASE q = p /\ j \notin DOMAIN dependers[q]
      <4>1. j = L + 1
        BY <1>3, <2>1, <3>2
      <4>2. ft <= ft
        BY <1>1 DEF Terminal
      <4>. QED BY <1>2, <1>3, <3>2, <4>1, <4>2
    <3>. QED BY <3>1, <3>2
  <2>. QED BY <1>1, <2>1 DEF Listed
<1>10. \A q \in Terminal : /\ Len(dependers[q]) <= Len(dependers'[q]) /\ Len(dependers'[q]) \in Nat
                           /\ \A j \in DOMAIN dependers[q] : dependers'[q][j] = dependers[q][j]
  <2>1. \A q \in Terminal : Len(dependers[q]) \in Nat
    BY DEF IInv, TypeOK
  <2>2. Len(dependers[p]) <= Len(dependers'[p]) /\ Len(dependers'[p]) \in Nat
    BY <1>3 DEF L
  <2>3. \A q \in Terminal \ {p} : Len(dependers[q]) <= Len(dependers'[q]) /\ Len(dependers'[q]) \in Nat
    BY <1>3, <2>1
  <2>. QED BY <1>3, <2>2, <2>3
<1>11. Notifying'
  <2>1. ASSUME NEW w \in Worker, wpc[w] = "notify"
        PROVE  wj[w] <= wn[w] + 1 /\ wn[w] <= Len(dependers'[wt[w]])
    <3>1. wj[w] <= wn[w] + 1 /\ wn[w] <= Len(dependers[wt[w]]) /\ wt[w] \in Terminal /\ wt[w] \in result
      BY <2>1 DEF IInv, Notifying, Scheduled
    <3>. QED BY <1>1, <1>3, <3>1
  <2>. QED BY <1>1, <2>1 DEF Notifying, workerVars
<1>12. /\ Calls'
       /\ \A y \in Thread : In(y, "compare") => Depender(Call(y))' = Depender(Call(y))
  BY <1>1, <1>10, CallsGrow
<1>13. /\ \A t : Evaluated(t)' <=> Evaluated(t)
       /\ \A t : Incomplete(t) => Incomplete(t)'
       /\ \A y \in Thread : \A at : In(y, at)' <=> In(y, at)
       /\ \A y \in Thread : Call(y)' = Call(y)
       /\ \A t : Changing(t)' <=> Changing(t)
  BY <1>1 DEF Evaluated, Incomplete, In, Call, Changing, workerVars
<1>14. /\ stack[Frontend] = <<>> /\ lock[p] = Frontend
       /\ ~Changing(ft) /\ ~Changing(p) /\ ~Settled(ft) /\ ~Evaluated(ft)
       /\ Frontend \in Thread /\ Frontend \notin Worker
  <2>1. stack[Frontend] = <<>> /\ Frontend \in Thread /\ Frontend \notin Worker
    BY <1>1, FrontendCalls, ThreadAssumption DEF Thread
  <2>2. lock[p] = Frontend
    BY <1>0, <1>1, <1>2, <2>1 DEF IInv, Locked, Holds
  <2>3. ~Changing(p)
    <3>1. SUFFICES ASSUME NEW x \in Thread, In(x, "change"), Call(x).t = p PROVE FALSE
      BY DEF Changing
    <3>2. x = Frontend
      BY <2>2, <3>1, ChangerHolds
    <3>. QED BY <2>1, <3>1, <3>2 DEF In
  <2>4. ~(ft < ft)
    BY <1>1 DEF Terminal
  <2>5. ~Settled(ft) /\ ~Evaluated(ft)
    BY <1>1, <2>4, SettledAre DEF Settled
  <2>. QED BY <1>1, <2>1, <2>2, <2>3, <2>5, FreeUnchanging DEF Free
<1>15. \A q, j : Due(q, j)' <=> Due(q, j)
  BY <1>1 DEF Due, workerVars
<1>16. \A r \in Terminal : \A j :
         j \in DOMAIN dependers'[r] <=> j \in DOMAIN dependers[r] \/ (r = p /\ j = L + 1)
  <2>1. \A j : j \in DOMAIN dependers'[p] <=> j \in DOMAIN dependers[p] \/ j = L + 1
    BY <1>3
  <2>. QED BY <1>3, <2>1
<1>17. /\ \A t \in Terminal \ {ft} : Awaited(t)' = Awaited(t)
       /\ Awaited(ft)' = Awaited(ft) \cup {new} /\ new \notin Awaited(ft)
  <2>1. ASSUME NEW t \in Terminal, NEW q
        PROVE  q \in Awaited(t)' <=> q \in Awaited(t) \/ (t = ft /\ q = new)
    <3>1. q \in Awaited(t) <=> \E r \in Terminal : \E j \in DOMAIN dependers[r] :
            q = <<r, j>> /\ dependers[r][j] = t /\ Due(r, j)
      BY AwaitedIs DEF AwaitedEntries
    <3>2. q \in Awaited(t)' <=> \E r \in Terminal : \E j \in DOMAIN dependers'[r] :
            q = <<r, j>> /\ dependers'[r][j] = t /\ Due(r, j)
      BY <1>15, AwaitedIsNext DEF AwaitedEntries
    <3>3. Due(p, L + 1)
      BY <1>1 DEF Due
    <3>. QED BY <1>2, <1>3, <1>10, <1>16, <3>1, <3>2, <3>3
  <2>2. new \notin Awaited(ft)
    <3>1. new \in Awaited(ft) => L + 1 \in DOMAIN dependers[p]
      BY <1>1, AwaitedIs DEF AwaitedEntries
    <3>2. L + 1 \notin DOMAIN dependers[p]
      BY <1>3
    <3>. QED BY <3>1, <3>2
  <2>. HIDE DEF new
  <2>3. Awaited(ft)' = Awaited(ft) \cup {new}
    BY <1>1, <2>1
  <2>4. \A t \in Terminal \ {ft} : Awaited(t)' = Awaited(t)
    BY <2>1
  <2>. QED BY <2>2, <2>3, <2>4
<1>18. /\ \A t \in Terminal \ {ft} : Entries(t)' = Entries(t)
       /\ Entries(ft)' = Entries(ft) \cup {new} /\ new \notin Entries(ft)
  <2>0. FoundEntries /\ FoundEntries'
    BY <1>7, <1>9, EntriesAre, EntriesAreNext DEF IInv
  <2>1. ASSUME NEW t \in Terminal, NEW q
        PROVE  q \in Entries(t)' <=> q \in Entries(t) \/ (t = ft /\ q = new)
    <3>1. q \in Entries(t) <=> \E r \in Terminal : \E j \in DOMAIN dependers[r] :
            q = <<r, j>> /\ dependers[r][j] = t /\ r \notin result
      BY <2>0 DEF FoundEntries
    <3>2. q \in Entries(t)' <=> \E r \in Terminal : \E j \in DOMAIN dependers'[r] :
            q = <<r, j>> /\ dependers'[r][j] = t /\ r \notin result
      BY <1>1, <2>0 DEF FoundEntries
    <3>. QED BY <1>1, <1>2, <1>3, <1>10, <1>16, <3>1, <3>2
  <2>2. new \notin Entries(ft)
    <3>1. Entries(ft) \subseteq Awaited(ft)
      BY <1>1, EntriesCounted
    <3>. QED BY <1>17, <3>1
  <2>. HIDE DEF new
  <2>3. Entries(ft)' = Entries(ft) \cup {new}
    BY <1>1, <2>1
  <2>4. \A t \in Terminal \ {ft} : Entries(t)' = Entries(t)
    BY <2>1
  <2>. QED BY <2>2, <2>3, <2>4
<1>29. \A t \in Terminal : \A q \in Entries(t) : contributions'[q[1]][q[2]] = contributions[q[1]][q[2]]
  <2>0. FoundEntries
    BY EntriesAre DEF IInv
  <2>1. ASSUME NEW t \in Terminal, NEW q \in Entries(t)
        PROVE  contributions'[q[1]][q[2]] = contributions[q[1]][q[2]]
    <3>1. PICK r \in Terminal : \E j \in DOMAIN dependers[r] : q = <<r, j>>
      BY <2>0 DEF FoundEntries
    <3>2. PICK j \in DOMAIN dependers[r] : q = <<r, j>>
      BY <3>1
    <3>3. r = p => j \in DOMAIN contributions[p]
      BY <1>3, <1>4, <3>2
    <3>4. contributions'[r][j] = contributions[r][j]
      BY <1>4, <3>3
    <3>. QED BY <3>2, <3>4
  <2>. QED BY <2>1
<1>19. \A t \in Terminal \ {ft} : Collected(t)' = Collected(t)
  <2>1. ASSUME NEW t \in Terminal \ {ft} PROVE Collected(t)' = Collected(t)
    <3>1. IsFiniteSet(Entries(t)) /\ Entries(t)' = Entries(t)
      BY <1>18, EntriesCounted
    <3>2. Total(contributions', Entries(t)) = Total(contributions, Entries(t))
      BY <1>29, <3>1, TotalSame
    <3>. QED BY <3>1, <3>2, CollectedIs, CollectedIsNext DEF CollectedTotal
  <2>. QED BY <2>1
<1>20. Collected(ft)' = Plus(adc[p], Collected(ft))
  <2>1. IsFiniteSet(Entries(ft)) /\ Valued(contributions, Entries(ft))
    BY <1>1, EntriesCounted
  <2>2. PICK Q : Q = Entries(ft) \cup {new}
    OBVIOUS
  <2>3. IsFiniteSet(Q) /\ new \in Q /\ Q \ {new} = Entries(ft)
    BY <1>18, <2>1, <2>2, FS_AddElement
  <2>4. contributions'[new[1]][new[2]] = adc[p]
    BY <1>4
  <2>5. Valued(contributions', Q)
    BY <1>1, <1>5, <1>29, <2>1, <2>2, <2>4 DEF Valued
  <2>6. Total(contributions', Q) = Plus(adc[p], Total(contributions', Entries(ft)))
    BY <2>3, <2>4, <2>5, TotalRemove
  <2>7. Total(contributions', Entries(ft)) = Total(contributions, Entries(ft))
    BY <1>1, <1>29, <2>1, TotalSame
  <2>8. Collected(ft)' = Total(contributions', Q)
    BY <1>18, <2>2, CollectedIsNext, <1>1 DEF CollectedTotal
  <2>. QED BY <2>6, <2>7, <2>8, CollectedIs DEF CollectedTotal
<1>21. Counted'
  <2>1. ASSUME NEW t \in Terminal
        PROVE  /\ IsFiniteSet(Awaited(t)')
               /\ dc'[t] = Cardinality(Awaited(t)') + (IF t < ft THEN 0 ELSE 1)
    <3>1. /\ IsFiniteSet(Awaited(t))
          /\ dc[t] = Cardinality(Awaited(t)) + (IF t < ft THEN 0 ELSE 1)
      BY DEF IInv, Counted
    <3>2. CASE t # ft
      BY <1>6, <1>17, <3>1, <3>2
    <3>3. CASE t = ft
      <4>1. Cardinality(Awaited(ft)) \in Nat
        BY <3>1, <3>3, FS_CardinalityType
      <4>. HIDE DEF new
      <4>2. IsFiniteSet(Awaited(ft)') /\ Cardinality(Awaited(ft)') = Cardinality(Awaited(ft)) + 1
        BY <1>17, <3>1, <3>3, FS_AddElement
      <4>3. PICK a \in Nat : a = Cardinality(Awaited(ft))
        BY <4>1
      <4>4. ~(ft < ft)
        BY <1>1 DEF Terminal
      <4>5. dc[ft] = a + 1
        BY <3>1, <3>3, <4>3, <4>4
      <4>6. dc'[ft] = (a + 1) + 1
        BY <1>6, <4>5
      <4>. QED BY <1>1, <3>3, <4>2, <4>3, <4>4, <4>6
    <3>. QED BY <3>2, <3>3
  <2>. QED BY <1>1, <2>1 DEF Counted
<1>22. Scheduled'
  <2>1. \A t \in Terminal : Settled(t)' <=> Settled(t)
    BY <1>1, <1>6, <1>14 DEF Settled
  <2>. QED BY <1>1, <2>1 DEF IInv, Scheduled, TypeOK, workerVars
<1>23. Outermost'
  BY <1>1, <1>14 DEF IInv, Outermost, Caller, Origin, workerVars
<1>24. Locked'
  <2>1. ASSUME NEW t \in Terminal, NEW y \in Thread PROVE lock'[t] = y <=> Holds(y, t)'
    <3>1. (lock[t] = y <=> Holds(y, t)) /\ (lock[p] = y <=> Holds(y, p))
      BY <1>2 DEF IInv, Locked
    <3>2. lock'[t] = IF t = p THEN None ELSE lock[t]
      BY <1>1, <1>2 DEF IInv, TypeOK
    <3>3. y # None
      BY ThreadAssumption
    <3>4. CASE y = Frontend
      <4>1. ~Holds(y, t)'
        BY <1>1, <1>14, <3>4 DEF Holds, In
      <4>2. Holds(y, t) => t = p
        BY <1>0, <1>14, <3>4 DEF Holds, In
      <4>. QED BY <3>1, <3>2, <3>3, <4>1, <4>2
    <3>5. CASE y # Frontend
      <4>1. Holds(y, t)' <=> Holds(y, t)
        BY <1>12, <1>13, <3>5 DEF Holds
      <4>. QED BY <1>14, <3>1, <3>2, <3>3, <3>5, <4>1
    <3>. QED BY <3>4, <3>5
  <2>. QED BY <2>1 DEF Locked
<1>25. Contributed'
  <2>1. ASSUME NEW q \in Terminal
        PROVE  /\ q \notin result => Len(contributions'[q]) = Len(dependers'[q])
               /\ \A j \in DOMAIN contributions'[q] :
                    contributions'[q][j] # Overflown =>
                      adc'[q] # Overflown /\ adc'[q] <= contributions'[q][j]
    <3>1. CASE q = p
      <4>1. \A j \in DOMAIN contributions[p] : contributions[p][j] # Overflown =>
              adc[p] # Overflown /\ adc[p] <= contributions[p][j]
        BY <1>2 DEF IInv, Contributed
      <4>2. adc[p] # Overflown => adc[p] <= adc[p]
        BY <1>5, CountAssumption DEF Count
      <4>3. \A j \in DOMAIN contributions'[p] : j \in DOMAIN contributions[p] \/ j = L + 1
        BY <1>4
      <4>4. adc'[p] = adc[p]
        BY <1>2, <1>5
      <4>. QED BY <1>3, <1>4, <3>1, <4>1, <4>2, <4>3, <4>4
    <3>2. CASE q # p /\ q # ft
      BY <1>3, <1>4, <1>5, <3>2 DEF IInv, Contributed
    <3>3. CASE q = ft
      <4>1. ft \notin result
        BY <1>14 DEF Evaluated
      <4>2. DOMAIN dependers[ft] = {}
        <5>1. \A j \in DOMAIN dependers[ft] : ft < dependers[ft][j] /\ dependers[ft][j] <= ft
                                              /\ dependers[ft][j] \in Terminal
          BY <1>1 DEF IInv, Listed, TypeOK
        <5>2. \A d \in Terminal : ~(ft < d /\ d <= ft)
          BY <1>1 DEF Terminal
        <5>. QED BY <5>1, <5>2
      <4>3. Len(contributions[ft]) = Len(dependers[ft]) /\ dependers[ft] \in Seq(Terminal) /\ contributions[ft] \in Seq(Count)
        BY <1>1, <4>1 DEF IInv, Contributed, TypeOK
      <4>4. DOMAIN contributions[ft] = {}
        BY <4>2, <4>3
      <4>. QED BY <1>1, <1>2, <1>3, <1>4, <3>3, <4>3, <4>4
    <3>. QED BY <3>1, <3>2, <3>3
  <2>. QED BY <1>1, <2>1 DEF Contributed
<1>26. Exact'
  <2>1. ASSUME NEW t \in Terminal, ~Changing(t)
        PROVE  IF Evaluated(t) THEN adc'[t] = 0
               ELSE adc'[t] = Collected(t)' \/ (adc'[t] = Overflown /\ Incomplete(t)')
    <3>0. IF Evaluated(t) THEN adc[t] = 0
          ELSE adc[t] = Collected(t) \/ (adc[t] = Overflown /\ Incomplete(t))
      BY <2>1 DEF IInv, Exact
    <3>1. CASE t # ft
      BY <1>5, <1>13, <1>19, <3>0, <3>1
    <3>2. CASE t = ft
      <4>1. Collected(ft) \in Count
        BY <1>1, EntriesCounted
      <4>2. CASE adc[ft] = Collected(ft)
        <5>1. adc'[ft] = Collected(ft)'
          BY <1>5, <1>20, <4>1, <4>2, PlusSwap
        <5>. QED BY <1>1, <1>14, <3>2, <5>1
      <4>3. CASE adc[ft] = Overflown /\ Incomplete(ft)
        <5>1. adc'[ft] = Overflown
          BY <1>5, <4>3 DEF Plus
        <5>. QED BY <1>13, <1>14, <3>2, <4>3, <5>1
      <4>. QED BY <1>14, <3>0, <3>2, <4>2, <4>3
    <3>. QED BY <3>1, <3>2
  <2>. QED BY <1>13, <2>1 DEF Exact
<1>27. Changes'
  <2>1. ASSUME NEW y \in Thread, In(y, "change")', NEW e, e = Call(y)'
        PROVE  IF Evaluated(e.t)' THEN adc'[e.t] = e.decrement
               ELSE adc'[e.t] # Overflown =>
                      e.decrement <= adc'[e.t] /\ adc'[e.t] - e.decrement = Collected(e.t)'
    <3>1. In(y, "change") /\ e = Call(y)
      BY <1>13, <2>1
    <3>2. e.t \in Terminal /\ e.t # ft
      BY <1>14, <3>1, ChangerHolds DEF Changing
    <3>3. IF Evaluated(e.t) THEN adc[e.t] = e.decrement
          ELSE adc[e.t] # Overflown => e.decrement <= adc[e.t] /\ adc[e.t] - e.decrement = Collected(e.t)
      BY <3>1 DEF IInv, Changes
    <3>. QED BY <1>5, <1>13, <1>19, <3>2, <3>3
  <2>. QED BY <2>1 DEF Changes
<1>28. Told'
  <2>1. ASSUME NEW w \in Worker, wpc[w] = "publish", NEW j \in DOMAIN contributions'[wt[w]]
        PROVE  \/ contributions'[wt[w]][j] = 0
               \/ /\ stack[w] # <<>>
                  /\ LET f == stack[w][Len(stack[w])] IN f.at = "change" \/ (f.j <= j /\ j <= f.n)
    <3>0. wt[w] \in Terminal
      BY <2>1 DEF IInv, Scheduled
    <3>1. CASE j \in DOMAIN contributions[wt[w]]
      <4>1. contributions'[wt[w]][j] = contributions[wt[w]][j]
        BY <1>4, <3>0, <3>1
      <4>. QED BY <2>1, <3>1, <4>1 DEF IInv, Told
    <3>2. CASE j \notin DOMAIN contributions[wt[w]]
      <4>1. wt[w] = p /\ j = L + 1
        BY <1>4, <2>1, <3>0, <3>2
      <4>2. Evaluated(p)
        BY <2>1, <4>1 DEF Evaluated
      <4>3. adc[p] = 0
        BY <1>2, <1>14, <4>2 DEF IInv, Exact
      <4>. QED BY <1>4, <4>1, <4>3
    <3>. QED BY <3>1, <3>2
  <2>. QED BY <1>1, <2>1 DEF Told, workerVars
<1>. QED BY <1>7, <1>8, <1>9, <1>11, <1>12, <1>21, <1>22, <1>23, <1>24, <1>25, <1>26, <1>27, <1>28 DEF IInv

\* The construction no longer counts as a dependency.
LEMMA BakeIndependStep ==
  ASSUME IInv, BakeIndepend
  PROVE  IInv'
<1>0. PICK p : p = ft
  OBVIOUS
<1>1. /\ fpc = "independ" /\ fpc' = "add" /\ ft = p /\ p \in Terminal /\ ft' = p + 1 /\ fk' = 1
      /\ stack[Frontend] = <<>>
      /\ dc' = [dc EXCEPT ![p] = @ - 1]
      /\ independent' = IF dc[p] = 1 THEN independent \cup {p} ELSE independent
      /\ UNCHANGED <<operands, adc, contributions, dependers, lock, baked, result, workerVars, stack>>
  BY <1>0 DEF BakeIndepend, Independ, IInv, Baking
<1>2. PICK a \in Nat : a = Cardinality(Awaited(p)) /\ dc[p] = a + 1
  <2>1. IsFiniteSet(Awaited(p)) /\ dc[p] = Cardinality(Awaited(p)) + (IF p < ft THEN 0 ELSE 1)
    BY <1>1 DEF IInv, Counted
  <2>2. ~(p < ft)
    BY <1>1 DEF Terminal
  <2>. QED BY <2>1, <2>2, FS_CardinalityType
<1>3. /\ dc' \in [Terminal -> Nat] /\ dc'[p] = a /\ \A t \in Terminal \ {p} : dc'[t] = dc[t]
  <2>1. dc'[p] = a
    BY <1>1, <1>2 DEF IInv, TypeOK
  <2>. QED BY <1>1, <2>1 DEF IInv, TypeOK
<1>4. \A t \in Terminal : (t < p + 1 <=> t < p \/ t = p) /\ ~(p < p) /\ p < p + 1
  BY <1>1, GraphTyped DEF Terminal, IInv
<1>5. TypeOK'
  <2>1. ft' \in 1 .. N + 1
    BY <1>1, GraphTyped DEF Terminal, IInv
  <2>. QED BY <1>1, <1>3, <2>1 DEF IInv, TypeOK, workerVars
<1>6. /\ Notifying' /\ Calls'
      /\ \A x \in Thread : In(x, "change")' <=> In(x, "change")
      /\ \A x \in Thread : In(x, "compare")' <=> In(x, "compare")
      /\ \A x \in Thread : Call(x)' = Call(x)
      /\ \A f : Depender(f)' = Depender(f)
      /\ \A t : Changing(t)' <=> Changing(t)
      /\ \A t : Awaited(t)' = Awaited(t) /\ Entries(t)' = Entries(t)
      /\ \A t : Evaluated(t)' <=> Evaluated(t)
  BY <1>1, CallsStay, EntriesStay
<1>7. \A t : Collected(t)' = Collected(t)
  BY <1>1, <1>6, CollectedStays
<1>8. Baking'
  BY <1>1, <1>4 DEF IInv, Baking
<1>9. Listed'
  <2>1. \A t \in Terminal : t <= p => t <= p + 1
    BY <1>1 DEF Terminal
  <2>2. \A q \in Terminal : \A j \in DOMAIN dependers[q] : dependers[q][j] \in Terminal
    BY DEF IInv, TypeOK
  <2>. QED BY <1>1, <2>1, <2>2 DEF IInv, Listed
<1>10. Counted'
  <2>1. ASSUME NEW t \in Terminal
        PROVE  /\ IsFiniteSet(Awaited(t))
               /\ dc'[t] = Cardinality(Awaited(t)) + (IF t < p + 1 THEN 0 ELSE 1)
    <3>1. IsFiniteSet(Awaited(t)) /\ dc[t] = Cardinality(Awaited(t)) + (IF t < p THEN 0 ELSE 1)
      BY <1>1 DEF IInv, Counted
    <3>2. CASE t = p
      <4>1. a = a + 0
        OBVIOUS
      <4>. QED BY <1>2, <1>3, <1>4, <3>1, <3>2, <4>1
    <3>3. CASE t # p
      BY <1>3, <1>4, <3>1, <3>3
    <3>. QED BY <3>2, <3>3
  <2>. QED BY <1>1, <1>6, <2>1 DEF Counted
<1>11. ~Settled(p) /\ ~Evaluated(p) /\ p \notin independent
  <2>1. ~Settled(p)
    BY <1>1, <1>4 DEF Settled
  <2>. QED BY <1>1, <2>1, SettledAre
<1>12. Scheduled'
  <2>1. \A t \in Terminal \ {p} : Settled(t)' <=> Settled(t)
    BY <1>1, <1>3, <1>4 DEF Settled
  <2>2. dc[p] = 1 => Settled(p)'
    BY <1>1, <1>2, <1>3, <1>4 DEF Settled
  <2>3. independent' \cap result' = {} /\ p \notin result
    BY <1>1, <1>11 DEF IInv, Scheduled, Evaluated
  <2>4. \A t \in independent' \cup result' : Settled(t)'
    <3>1. \A t \in independent \cup result : t \in Terminal \ {p} /\ Settled(t)
      BY <1>11, <2>3 DEF IInv, Scheduled, TypeOK
    <3>. QED BY <1>1, <2>1, <2>2, <3>1
  <2>5. ASSUME NEW w \in Worker, wpc[w] # "idle"
        PROVE  /\ wt[w] \in Terminal \ {p} /\ Settled(wt[w]) /\ wt[w] \notin independent
               /\ wt[w] \in result <=> wpc[w] = "notify"
               /\ \A v \in Worker : wpc[v] # "idle" /\ wt[v] = wt[w] => v = w
    BY <1>11, <2>5 DEF IInv, Scheduled
  <2>6. \A w \in Worker : wpc[w] # "idle" => Settled(wt[w])'
    <3>1. ASSUME NEW w \in Worker, wpc[w] # "idle", NEW t, t = wt[w]
          PROVE  Settled(t)'
      BY <2>1, <2>5, <3>1
    <3>2. \A w \in Worker : wt'[w] = wt[w] /\ wpc'[w] = wpc[w]
      BY <1>1 DEF workerVars
    <3>. QED BY <3>1, <3>2 DEF Settled
  <2>7. \A w \in Worker : wpc[w] # "idle" => wt[w] \notin independent'
    BY <1>1, <2>5
  <2>8. wpc' = wpc /\ wt' = wt /\ result' = result
    BY <1>1 DEF workerVars
  <2>. QED BY <2>3, <2>4, <2>5, <2>6, <2>7, <2>8 DEF Scheduled
<1>13. Outermost'
  <2>1. ASSUME NEW y \in Thread, stack'[y] # <<>>
        PROVE  /\ Caller(y)' /\ stack'[y][Len(stack'[y])].t = Origin(y)'
               /\ stack'[y][Len(stack'[y])].rd = 0
    <3>1. y # Frontend /\ stack[y] # <<>>
      BY <1>1, <2>1
    <3>2. Caller(y)' = Caller(y) /\ Origin(y)' = Origin(y)
      BY <1>1, <3>1 DEF Caller, Origin, workerVars
    <3>. QED BY <1>1, <3>1, <3>2 DEF IInv, Outermost
  <2>. QED BY <2>1 DEF Outermost
<1>14. Locked'
  BY <1>1, <1>6 DEF IInv, Locked, Holds
<1>15. Contributed'
  BY <1>1 DEF IInv, Contributed
<1>16. Exact'
  <2>1. \A t : Incomplete(t) => Incomplete(t)'
    BY <1>1 DEF Incomplete
  <2>. QED BY <1>1, <1>6, <1>7, <2>1 DEF IInv, Exact
<1>17. Changes'
  BY <1>1, <1>6, <1>7, ChangesStay
<1>18. Told'
  BY <1>1 DEF IInv, Told, workerVars
<1>. QED BY <1>5, <1>6, <1>8, <1>9, <1>10, <1>12, <1>13, <1>14, <1>15, <1>16, <1>17, <1>18 DEF IInv

-----------------------------------------------------------------------------
(* The steps of the workers *)

\* A worker that is not in its first pass is in no call of terminal_decrease_adc.
LEMMA WorkerCalls ==
  IInv => \A w \in Worker : wpc[w] # "publish" => stack[w] = <<>>
<1>. SUFFICES ASSUME IInv, NEW w \in Worker, wpc[w] # "publish", stack[w] # <<>> PROVE FALSE
  OBVIOUS
<1>1. w \in Thread /\ w # Frontend
  BY ThreadAssumption DEF Thread
<1>. QED BY <1>1 DEF IInv, Outermost, Caller

\* A worker takes a terminal that is independent.
LEMMA PopStep ==
  ASSUME IInv, NEW w \in Worker, Pop(w)
  PROVE  IInv'
<1>1. PICK t \in independent :
        /\ wpc[w] = "idle" /\ wpc' = [wpc EXCEPT ![w] = "evaluate"]
        /\ wt' = [wt EXCEPT ![w] = t]
        /\ independent' = independent \ {t}
        /\ UNCHANGED <<operands, adc, contributions, dependers, dc, lock, baked, result,
                       frontVars, wj, wn, stack>>
  BY DEF Pop
<1>2. /\ t \in Terminal /\ w \in Thread /\ w # Frontend /\ stack[w] = <<>>
      /\ wpc'[w] = "evaluate" /\ wt'[w] = t
      /\ \A v \in Worker \ {w} : wpc'[v] = wpc[v] /\ wt'[v] = wt[v]
  BY <1>1, WorkerCalls, ThreadAssumption DEF IInv, TypeOK, Thread
<1>3. TypeOK'
  BY <1>1, <1>2 DEF IInv, TypeOK, frontVars
<1>4. /\ Calls'
      /\ \A x \in Thread : In(x, "change")' <=> In(x, "change")
      /\ \A x \in Thread : In(x, "compare")' <=> In(x, "compare")
      /\ \A x \in Thread : Call(x)' = Call(x)
      /\ \A f : Depender(f)' = Depender(f)
      /\ \A u : Changing(u)' <=> Changing(u)
  BY <1>1, CallsStay
<1>5. \A q, j : Due(q, j)' <=> Due(q, j)
  BY <1>1, <1>2 DEF Due
<1>6. \A u : Awaited(u)' = Awaited(u) /\ Entries(u)' = Entries(u)
  <2>1. \A u : Awaited(u)' = Awaited(u)
    BY <1>1, <1>5 DEF Awaited
  <2>2. \A u : Entries(u)' = Entries(u)
    BY <1>1 DEF Entries
  <2>. QED BY <2>1, <2>2
<1>7. \A u : Evaluated(u)' <=> Evaluated(u)
  BY <1>1, <1>2 DEF Evaluated
<1>8. \A u : Collected(u)' = Collected(u)
  BY <1>1, <1>6, CollectedStays
<1>9. Baking' /\ Listed' /\ Contributed'
  BY <1>1 DEF IInv, Baking, Listed, Contributed, Dependee, frontVars
<1>10. Counted'
  BY <1>1, <1>6 DEF IInv, Counted, frontVars
<1>11. Scheduled'
  <2>1. \A u : Settled(u)' <=> Settled(u)
    BY <1>1 DEF Settled, frontVars
  <2>2. \A u \in independent' \cup result' : Settled(u)'
    BY <1>1, <2>1 DEF IInv, Scheduled
  <2>3. independent' \cap result' = {} /\ t \notin result /\ Settled(t)
    BY <1>1 DEF IInv, Scheduled
  <2>4. ASSUME NEW v \in Worker, wpc'[v] # "idle"
        PROVE  /\ wt'[v] \in Terminal /\ dc'[wt'[v]] = 0 /\ wt'[v] < ft'
               /\ wt'[v] \notin independent'
               /\ wt'[v] \in result' <=> wpc'[v] = "notify"
               /\ \A u \in Worker : wpc'[u] # "idle" /\ wt'[u] = wt'[v] => u = v
    <3>1. \A u \in Worker \ {w} : wpc[u] # "idle" => wt[u] # t
      BY <1>1 DEF IInv, Scheduled
    <3>2. CASE v = w
      BY <1>1, <1>2, <2>3, <3>1, <3>2 DEF Settled, frontVars
    <3>3. CASE v # w
      BY <1>1, <1>2, <2>4, <3>1, <3>3 DEF IInv, Scheduled, Settled, frontVars
    <3>. QED BY <3>2, <3>3
  <2>. QED BY <2>2, <2>3, <2>4 DEF Scheduled, Settled
<1>12. Notifying'
  BY <1>1, <1>2 DEF IInv, Notifying
<1>13. Outermost'
  <2>1. ASSUME NEW y \in Thread, stack'[y] # <<>>
        PROVE  /\ Caller(y)' /\ stack'[y][Len(stack'[y])].t = Origin(y)'
               /\ stack'[y][Len(stack'[y])].rd = 0
    <3>1. y # w /\ stack[y] # <<>>
      BY <1>1, <1>2, <2>1
    <3>2. Caller(y)' = Caller(y) /\ Origin(y)' = Origin(y)
      BY <1>1, <1>2, <3>1 DEF Caller, Origin, frontVars, Thread
    <3>. QED BY <1>1, <3>1, <3>2 DEF IInv, Outermost
  <2>. QED BY <2>1 DEF Outermost
<1>14. Locked'
  BY <1>1, <1>4 DEF IInv, Locked, Holds, frontVars, Dependee
<1>15. Exact'
  <2>1. \A u : Incomplete(u)' <=> Incomplete(u)
    BY <1>1 DEF Incomplete, frontVars
  <2>. QED BY <1>1, <1>4, <1>7, <1>8, <2>1 DEF IInv, Exact
<1>16. Changes'
  BY <1>1, <1>7, <1>8, ChangesStay
<1>17. Told'
  BY <1>1, <1>2 DEF IInv, Told
<1>. QED BY <1>3, <1>4, <1>9, <1>10, <1>11, <1>12, <1>13, <1>14, <1>15, <1>16, <1>17 DEF IInv

\* A worker has notified all of the dependers.
LEMMA DoneStep ==
  ASSUME IInv, NEW w \in Worker, Done(w)
  PROVE  IInv'
<1>1. /\ wpc[w] = "notify" /\ wj[w] > wn[w]
      /\ wpc' = [wpc EXCEPT ![w] = "idle"] /\ wt' = [wt EXCEPT ![w] = None]
      /\ UNCHANGED <<operands, adc, contributions, dependers, dc, lock, baked, result, independent,
                     frontVars, wj, wn, stack>>
  BY DEF Done, graphVars
<1>2. /\ w \in Thread /\ w # Frontend /\ stack[w] = <<>>
      /\ wpc'[w] = "idle"
      /\ \A v \in Worker \ {w} : wpc'[v] = wpc[v] /\ wt'[v] = wt[v]
  BY <1>1, WorkerCalls, ThreadAssumption DEF IInv, TypeOK, Thread
<1>3. TypeOK'
  BY <1>1 DEF IInv, TypeOK, frontVars
<1>4. /\ Calls'
      /\ \A x \in Thread : In(x, "change")' <=> In(x, "change")
      /\ \A x \in Thread : In(x, "compare")' <=> In(x, "compare")
      /\ \A x \in Thread : Call(x)' = Call(x)
      /\ \A f : Depender(f)' = Depender(f)
      /\ \A u : Changing(u)' <=> Changing(u)
  BY <1>1, CallsStay
<1>5. \A q \in Terminal : \A j \in DOMAIN dependers[q] : Due(q, j)' <=> Due(q, j)
  <2>1. ASSUME NEW q \in Terminal, NEW j \in DOMAIN dependers[q] PROVE ~(wj[w] <= j /\ j <= wn[w])
    <3>1. dependers[q] \in Seq(Terminal) /\ wj[w] \in Nat /\ wn[w] \in Nat
      BY DEF IInv, TypeOK
    <3>2. j \in Nat
      BY <3>1
    <3>. QED BY <1>1, <3>1, <3>2
  <2>. QED BY <1>1, <1>2, <2>1 DEF Due
<1>6. /\ \A u \in Terminal : Awaited(u)' = Awaited(u)
      /\ \A u : Entries(u)' = Entries(u)
  <2>1. \A u \in Terminal : Awaited(u)' = Awaited(u)
    BY <1>1, <1>5 DEF Awaited
  <2>2. \A u : Entries(u)' = Entries(u)
    BY <1>1 DEF Entries
  <2>. QED BY <2>1, <2>2
<1>7. \A u : Evaluated(u)' <=> Evaluated(u)
  BY <1>1, <1>2 DEF Evaluated
<1>8. \A u : Collected(u)' = Collected(u)
  BY <1>1, <1>6, CollectedStays
<1>9. Baking' /\ Listed' /\ Contributed'
  BY <1>1 DEF IInv, Baking, Listed, Contributed, Dependee, frontVars
<1>10. Counted'
  BY <1>1, <1>6 DEF IInv, Counted, frontVars
<1>11. Scheduled'
  <2>1. \A u : Settled(u)' <=> Settled(u)
    BY <1>1 DEF Settled, frontVars
  <2>2. (\A u \in independent' \cup result' : Settled(u)') /\ independent' \cap result' = {}
    BY <1>1, <2>1 DEF IInv, Scheduled
  <2>3. ASSUME NEW v \in Worker, wpc'[v] # "idle"
        PROVE  /\ wt'[v] \in Terminal /\ dc'[wt'[v]] = 0 /\ wt'[v] < ft'
               /\ wt'[v] \notin independent'
               /\ wt'[v] \in result' <=> wpc'[v] = "notify"
               /\ \A u \in Worker : wpc'[u] # "idle" /\ wt'[u] = wt'[v] => u = v
    BY <1>1, <1>2, <2>3 DEF IInv, Scheduled, Settled, frontVars
  <2>. QED BY <2>2, <2>3 DEF Scheduled, Settled
<1>12. Notifying'
  BY <1>1, <1>2 DEF IInv, Notifying
<1>13. Outermost'
  <2>1. ASSUME NEW y \in Thread, stack'[y] # <<>>
        PROVE  /\ Caller(y)' /\ stack'[y][Len(stack'[y])].t = Origin(y)'
               /\ stack'[y][Len(stack'[y])].rd = 0
    <3>1. y # w /\ stack[y] # <<>>
      BY <1>1, <1>2, <2>1
    <3>2. Caller(y)' = Caller(y) /\ Origin(y)' = Origin(y)
      BY <1>1, <1>2, <3>1 DEF Caller, Origin, frontVars, Thread
    <3>. QED BY <1>1, <3>1, <3>2 DEF IInv, Outermost
  <2>. QED BY <2>1 DEF Outermost
<1>14. Locked'
  BY <1>1, <1>4 DEF IInv, Locked, Holds, frontVars, Dependee
<1>15. Exact'
  <2>1. \A u : Incomplete(u)' <=> Incomplete(u)
    BY <1>1 DEF Incomplete, frontVars
  <2>. QED BY <1>1, <1>4, <1>7, <1>8, <2>1 DEF IInv, Exact
<1>16. Changes'
  BY <1>1, <1>7, <1>8, ChangesStay
<1>17. Told'
  BY <1>1, <1>2 DEF IInv, Told
<1>. QED BY <1>3, <1>4, <1>9, <1>10, <1>11, <1>12, <1>13, <1>14, <1>15, <1>16, <1>17 DEF IInv

\* What awaits nothing collects nothing but itself.
LEMMA SettledCollected ==
  IInv => \A t \in Terminal : Settled(t) => Awaited(t) = {} /\ Collected(t) = 1
<1>. SUFFICES ASSUME IInv, NEW t \in Terminal, Settled(t)
     PROVE  Awaited(t) = {} /\ Collected(t) = 1
  OBVIOUS
<1>1. IsFiniteSet(Awaited(t)) /\ Cardinality(Awaited(t)) = 0
  <2>1. IsFiniteSet(Awaited(t)) /\ dc[t] = Cardinality(Awaited(t)) + (IF t < ft THEN 0 ELSE 1)
    BY DEF IInv, Counted
  <2>2. Cardinality(Awaited(t)) \in Nat
    BY <2>1, FS_CardinalityType
  <2>. QED BY <2>1, <2>2 DEF Settled
<1>2. Awaited(t) = {}
  BY <1>1, FS_EmptySet
<1>3. Entries(t) = {} /\ IsFiniteSet(Entries(t))
  BY <1>2, EntriesCounted
<1>4. Total(contributions, Entries(t)) = 1
  BY <1>3, TotalStep
<1>. QED BY <1>2, <1>4, CollectedIs DEF CollectedTotal

\* The worker takes one off, which is all that is left.
LEMMA EvaluateStep ==
  ASSUME IInv, NEW w \in Worker, Evaluate(w)
  PROVE  IInv'
<1>0. PICK p, f : p = wt[w] /\ f = Frame(p, 1, 0)
  OBVIOUS
<1>1. /\ wpc[w] = "evaluate" /\ lock[p] = None /\ wt[w] = p
      /\ wpc' = [wpc EXCEPT ![w] = "publish"]
      /\ lock' = [lock EXCEPT ![p] = w]
      /\ stack' = [stack EXCEPT ![w] = <<f>>]
      /\ UNCHANGED <<operands, adc, contributions, dependers, dc, baked, result, independent,
                     frontVars, wt, wj, wn>>
  BY <1>0 DEF Evaluate, Free
<1>2. /\ p \in Terminal /\ Settled(p) /\ p \notin independent /\ p \notin result
      /\ \A v \in Worker : wpc[v] # "idle" /\ wt[v] = p => v = w
  BY <1>1 DEF IInv, Scheduled
<1>3. /\ f \in CallType /\ f.at = "change" /\ f.t = p /\ f.decrement = 1 /\ f.rd = 0 /\ f.j = 1 /\ f.n = 0
  BY <1>0, <1>2, CountAssumption DEF CallType, Frame
<1>4. /\ w \in Thread /\ w # Frontend /\ stack[w] = <<>>
      /\ wpc'[w] = "publish"
      /\ \A v \in Worker \ {w} : wpc'[v] = wpc[v]
      /\ stack' \in [Thread -> Seq(CallType)] /\ stack'[w] = <<f>>
      /\ \A y \in Thread \ {w} : stack'[y] = stack[y]
  BY <1>1, <1>3, WorkerCalls, ThreadAssumption DEF IInv, TypeOK, Thread
<1>5. TypeOK'
  BY <1>1, <1>4 DEF IInv, TypeOK, frontVars
<1>6. ~Changing(p) /\ ~Evaluated(p) /\ ~Incomplete(p) /\ adc[p] = 1
  <2>1. ~Changing(p)
    BY <1>1, <1>2, FreeUnchanging DEF Free
  <2>2. ~Evaluated(p)
    BY <1>1, <1>2 DEF Evaluated
  <2>3. p < ft /\ p # ft
    BY <1>2 DEF Settled, Terminal, IInv, TypeOK
  <2>4. ~Incomplete(p)
    BY <1>2, <2>3 DEF Incomplete, IInv, Baking
  <2>5. Collected(p) = 1
    BY <1>2, SettledCollected
  <2>. QED BY <1>2, <2>1, <2>2, <2>4, <2>5 DEF IInv, Exact
<1>7. \A q, j : Due(q, j)' <=> Due(q, j)
  BY <1>1, <1>4 DEF Due
<1>8. \A u : Awaited(u)' = Awaited(u) /\ Entries(u)' = Entries(u)
  <2>1. \A u : Awaited(u)' = Awaited(u)
    BY <1>1, <1>7 DEF Awaited
  <2>2. \A u : Entries(u)' = Entries(u)
    BY <1>1 DEF Entries
  <2>. QED BY <2>1, <2>2
<1>9. \A u : Collected(u)' = Collected(u)
  BY <1>1, <1>8, CollectedStays
<1>10. \A u : Evaluated(u)' <=> Evaluated(u) \/ u = p
  BY <1>1, <1>4 DEF Evaluated
<1>11. Baking' /\ Listed' /\ Contributed'
  BY <1>1 DEF IInv, Baking, Listed, Contributed, Dependee, frontVars
<1>12. Counted'
  BY <1>1, <1>8 DEF IInv, Counted, frontVars
<1>13. Scheduled'
  <2>1. \A u : Settled(u)' <=> Settled(u)
    BY <1>1 DEF Settled, frontVars
  <2>2. (\A u \in independent' \cup result' : Settled(u)') /\ independent' \cap result' = {}
    BY <1>1, <2>1 DEF IInv, Scheduled
  <2>3. ASSUME NEW v \in Worker, wpc'[v] # "idle"
        PROVE  /\ wt'[v] \in Terminal /\ dc'[wt'[v]] = 0 /\ wt'[v] < ft'
               /\ wt'[v] \notin independent'
               /\ wt'[v] \in result' <=> wpc'[v] = "notify"
               /\ \A u \in Worker : wpc'[u] # "idle" /\ wt'[u] = wt'[v] => u = v
    <3>1. \A u \in Worker : wpc'[u] # "idle" <=> wpc[u] # "idle"
      BY <1>1, <1>4
    <3>2. \A u \in Worker : wpc'[u] = "notify" <=> wpc[u] = "notify"
      BY <1>1, <1>4
    <3>. QED BY <1>1, <2>3, <3>1, <3>2 DEF IInv, Scheduled, Settled, frontVars
  <2>. QED BY <2>2, <2>3 DEF Scheduled, Settled
<1>14. Notifying'
  BY <1>1, <1>4 DEF IInv, Notifying
<1>15. Outermost'
  <2>1. ASSUME NEW y \in Thread, stack'[y] # <<>>
        PROVE  /\ Caller(y)' /\ stack'[y][Len(stack'[y])].t = Origin(y)'
               /\ stack'[y][Len(stack'[y])].rd = 0
    <3>1. CASE y = w
      <4>1. Len(<<f>>) = 1 /\ <<f>>[1] = f
        OBVIOUS
      <4>. QED BY <1>1, <1>3, <1>4, <3>1, <4>1 DEF Caller, Origin
    <3>2. CASE y # w
      <4>1. Caller(y)' = Caller(y) /\ Origin(y)' = Origin(y)
        BY <1>1, <1>4, <3>2 DEF Caller, Origin, frontVars, Thread
      <4>. QED BY <1>4, <2>1, <3>2, <4>1 DEF IInv, Outermost
    <3>. QED BY <3>1, <3>2
  <2>. QED BY <2>1 DEF Outermost
<1>16. Calls'
  <2>1. ASSUME NEW y \in Thread, NEW i \in DOMAIN stack'[y]
        PROVE  LET e == stack'[y][i] IN
                 /\ e.t \notin result' /\ e.n <= Len(dependers'[e.t])
                 /\ e.at = "change" => e.j = 1
                 /\ e.at = "compare" => e.j <= e.n
                 /\ e.at = "next" => e.j <= e.n + 1
                 /\ i > 1 => e.at = "next"
                 /\ i < Len(stack'[y]) =>
                      LET k == stack'[y][i + 1] IN k.j > 1 /\ dependers'[k.t][k.j - 1] = e.t
    <3>1. CASE y # w
      BY <1>1, <1>4, <3>1 DEF IInv, Calls
    <3>2. CASE y = w
      <4>0. stack'[y] = <<f>> /\ Len(stack'[y]) = 1 /\ DOMAIN stack'[y] = {1} /\ stack'[y][1] = f
        <5>1. Len(<<f>>) = 1 /\ DOMAIN <<f>> = {1} /\ <<f>>[1] = f
          OBVIOUS
        <5>. QED BY <1>4, <3>2, <5>1
      <4>1. i = 1 /\ stack'[y][i] = f /\ Len(stack'[y]) = 1
        BY <2>1, <4>0
      <4>2. 0 <= Len(dependers[p])
        BY <1>2 DEF IInv, TypeOK
      <4>. QED BY <1>1, <1>2, <1>3, <4>1, <4>2
    <3>. QED BY <3>1, <3>2
  <2>. QED BY <2>1 DEF Calls
<1>17. /\ \A y \in Thread \ {w} : /\ In(y, "change")' <=> In(y, "change")
                                  /\ In(y, "compare")' <=> In(y, "compare")
                                  /\ Call(y)' = Call(y)
       /\ In(w, "change")' /\ ~In(w, "compare")' /\ Call(w)' = f
       /\ ~In(w, "change") /\ ~In(w, "compare")
  BY <1>3, <1>4 DEF In, Call
<1>18. Locked'
  <2>1. ASSUME NEW t \in Terminal, NEW y \in Thread PROVE lock'[t] = y <=> Holds(y, t)'
    <3>1. lock[t] = y <=> Holds(y, t)
      BY DEF IInv, Locked
    <3>2. Holds(y, t)' <=> Holds(y, t) \/ (y = w /\ t = p)
      BY <1>1, <1>3, <1>4, <1>17 DEF Holds, Depender, frontVars, Dependee
    <3>3. lock'[t] = IF t = p THEN w ELSE lock[t]
      BY <1>1 DEF IInv, TypeOK
    <3>4. lock[p] # y
      BY <1>1, ThreadAssumption
    <3>. QED BY <3>1, <3>2, <3>3, <3>4
  <2>. QED BY <2>1 DEF Locked
<1>19. Exact'
  <2>1. \A t : Changing(t)' <=> Changing(t) \/ t = p
    BY <1>3, <1>4, <1>17 DEF Changing
  <2>2. \A t : Incomplete(t) => Incomplete(t)'
    BY <1>1 DEF Incomplete, frontVars
  <2>. QED BY <1>1, <1>9, <1>10, <2>1, <2>2 DEF IInv, Exact
<1>20. Changes'
  <2>1. ASSUME NEW y \in Thread, In(y, "change")', NEW e, e = Call(y)'
        PROVE  IF Evaluated(e.t)' THEN adc'[e.t] = e.decrement
               ELSE adc'[e.t] # Overflown =>
                      e.decrement <= adc'[e.t] /\ adc'[e.t] - e.decrement = Collected(e.t)'
    <3>1. CASE y = w
      BY <1>1, <1>3, <1>6, <1>10, <1>17, <2>1, <3>1
    <3>2. CASE y # w
      <4>1. In(y, "change") /\ e = Call(y)
        BY <1>17, <2>1, <3>2
      <4>2. IF Evaluated(e.t) THEN adc[e.t] = e.decrement
            ELSE adc[e.t] # Overflown => e.decrement <= adc[e.t] /\ adc[e.t] - e.decrement = Collected(e.t)
        BY <4>1 DEF IInv, Changes
      <4>3. e.t # p
        BY <1>6, <4>1 DEF Changing
      <4>. QED BY <1>1, <1>9, <1>10, <4>2, <4>3
    <3>. QED BY <3>1, <3>2
  <2>. QED BY <2>1 DEF Changes
<1>21. Told'
  <2>1. ASSUME NEW v \in Worker, wpc'[v] = "publish", NEW j \in DOMAIN contributions[wt[v]]
        PROVE  \/ contributions[wt[v]][j] = 0
               \/ /\ stack'[v] # <<>>
                  /\ LET g == stack'[v][Len(stack'[v])] IN g.at = "change" \/ (g.j <= j /\ j <= g.n)
    <3>1. CASE v = w
      <4>1. Len(<<f>>) = 1 /\ <<f>>[1] = f /\ <<f>> # <<>>
        OBVIOUS
      <4>. QED BY <1>3, <1>4, <3>1, <4>1
    <3>2. CASE v # w
      <4>1. v \in Thread /\ stack'[v] = stack[v] /\ wpc[v] = "publish"
        BY <1>4, <2>1, <3>2 DEF Thread
      <4>. QED BY <2>1, <4>1 DEF IInv, Told
    <3>. QED BY <3>1, <3>2
  <2>. QED BY <1>1, <2>1 DEF Told
<1>. QED BY <1>5, <1>11, <1>12, <1>13, <1>14, <1>15, <1>16, <1>18, <1>19, <1>20, <1>21 DEF IInv

\* A depender is notified: one entry less is awaited.
LEMMA NotifyStep ==
  ASSUME IInv, NEW w \in Worker, Notify(w)
  PROVE  IInv'
<1>0. PICK p, j, d : p = wt[w] /\ j = wj[w] /\ d = dependers[p][j]
  OBVIOUS
<1>1. /\ wpc[w] = "notify" /\ wt[w] = p /\ wj[w] = j /\ j <= wn[w] /\ d = dependers[p][j]
      /\ dc' = [dc EXCEPT ![d] = @ - 1]
      /\ independent' = IF dc[d] = 1 THEN independent \cup {d} ELSE independent
      /\ wj' = [wj EXCEPT ![w] = j + 1]
      /\ UNCHANGED <<operands, adc, contributions, dependers, lock, baked, result, frontVars,
                     wpc, wt, wn, stack>>
  BY <1>0 DEF Notify, Independ, IInv, TypeOK
<1>2. /\ p \in Terminal /\ p \in result
      /\ \A v \in Worker : wpc[v] # "idle" /\ wt[v] = p => v = w
  BY <1>1 DEF IInv, Scheduled
<1>3. j \in DOMAIN dependers[p] /\ j \in Nat \ {0} /\ wn[w] \in Nat
  <2>1. wn[w] \in Nat /\ wn[w] <= Len(dependers[p]) /\ j \in Nat \ {0} /\ dependers[p] \in Seq(Terminal)
    BY <1>1, <1>2 DEF IInv, TypeOK, Notifying
  <2>. QED BY <1>1, <2>1
<1>4. Due(p, j) /\ d \in Terminal /\ ~Settled(d) /\ dc[d] \in Nat /\ dc[d] > 0
  <2>1. j <= j
    BY <1>3
  <2>2. Due(p, j)
    BY <1>1, <2>1 DEF Due
  <2>. QED BY <1>1, <1>2, <1>3, <2>2, AwaitingUnsettled DEF IInv, TypeOK
<1>5. ~Evaluated(d) /\ d \notin independent /\ d \notin result
  BY <1>4, SettledAre DEF Evaluated
<1>6. /\ dc' \in [Terminal -> Nat] /\ dc'[d] = dc[d] - 1 /\ \A t \in Terminal \ {d} : dc'[t] = dc[t]
  <2>1. dc[d] - 1 \in Nat
    BY <1>4
  <2>. QED BY <1>1, <1>4, <2>1 DEF IInv, TypeOK
<1>7. wj' \in [Worker -> Nat \ {0}] /\ wj'[w] = j + 1 /\ \A v \in Worker \ {w} : wj'[v] = wj[v]
  <2>1. j + 1 \in Nat \ {0}
    BY <1>3
  <2>. QED BY <1>1, <2>1 DEF IInv, TypeOK
<1>8. TypeOK'
  BY <1>1, <1>4, <1>6, <1>7 DEF IInv, TypeOK, frontVars
<1>9. /\ Calls'
      /\ \A x \in Thread : In(x, "change")' <=> In(x, "change")
      /\ \A x \in Thread : In(x, "compare")' <=> In(x, "compare")
      /\ \A x \in Thread : Call(x)' = Call(x)
      /\ \A f : Depender(f)' = Depender(f)
      /\ \A u : Changing(u)' <=> Changing(u)
  BY <1>1, CallsStay
<1>10. \A q \in Terminal : \A i \in DOMAIN dependers[q] : Due(q, i)' <=> Due(q, i) /\ <<q, i>> # <<p, j>>
  <2>1. ASSUME NEW q \in Terminal, NEW i \in DOMAIN dependers[q]
        PROVE  Due(q, i)' <=> Due(q, i) /\ <<q, i>> # <<p, j>>
    <3>1. i \in Nat
      <4>1. dependers[q] \in Seq(Terminal)
        BY DEF IInv, TypeOK
      <4>. QED BY <4>1
    <3>2. CASE q # p
      <4>1. \A v \in Worker : wt[v] = q => v # w
        BY <1>1, <3>2
      <4>. QED BY <1>1, <1>7, <3>2, <4>1 DEF Due
    <3>3. CASE q = p
      <4>1. Due(q, i) <=> j <= i /\ i <= wn[w]
        BY <1>1, <1>2, <3>3 DEF Due
      <4>2. Due(q, i)' <=> j + 1 <= i /\ i <= wn[w]
        BY <1>1, <1>2, <1>7, <3>3 DEF Due
      <4>3. j + 1 <= i <=> j <= i /\ i # j
        BY <1>3, <3>1
      <4>. QED BY <3>3, <4>1, <4>2, <4>3
    <3>. QED BY <3>2, <3>3
  <2>. QED BY <2>1
<1>11. /\ \A t \in Terminal \ {d} : Awaited(t)' = Awaited(t)
       /\ \A u \in Terminal : u = d => Awaited(u)' = Awaited(u) \ {<<p, j>>} /\ <<p, j>> \in Awaited(u)
  <2>1. ASSUME NEW t \in Terminal, NEW q
        PROVE  q \in Awaited(t)' <=> q \in Awaited(t) /\ q # <<p, j>>
    <3>1. q \in Awaited(t) <=> \E r \in Terminal : \E i \in DOMAIN dependers[r] :
            q = <<r, i>> /\ dependers[r][i] = t /\ Due(r, i)
      BY AwaitedIs DEF AwaitedEntries
    <3>2. q \in Awaited(t)' <=> \E r \in Terminal : \E i \in DOMAIN dependers[r] :
            q = <<r, i>> /\ dependers[r][i] = t /\ Due(r, i)'
      BY <1>1, AwaitedIsNext DEF AwaitedEntries
    <3>. QED BY <1>10, <3>1, <3>2
  <2>2. \A t \in Terminal : <<p, j>> \in Awaited(t) <=> t = d
    <3>1. ASSUME NEW t \in Terminal PROVE <<p, j>> \in Awaited(t) <=> t = d
      <4>1. <<p, j>> \in Awaited(t) <=> \E r \in Terminal : \E i \in DOMAIN dependers[r] :
              <<p, j>> = <<r, i>> /\ dependers[r][i] = t /\ Due(r, i)
        BY AwaitedIs DEF AwaitedEntries
      <4>. QED BY <1>1, <1>2, <1>3, <1>4, <4>1
    <3>. QED BY <3>1
  <2>3. \A t \in Terminal : Awaited(t)' = Awaited(t) \ {<<p, j>>}
    BY <2>1
  <2>. QED BY <2>2, <2>3
<1>12. \A u : Entries(u)' = Entries(u) /\ (Evaluated(u)' <=> Evaluated(u))
  <2>1. \A u : Entries(u)' = Entries(u)
    BY <1>1 DEF Entries
  <2>2. \A u : Evaluated(u)' <=> Evaluated(u)
    BY <1>1 DEF Evaluated
  <2>. QED BY <2>1, <2>2
<1>13. \A u : Collected(u)' = Collected(u)
  BY <1>1, <1>12, CollectedStays
<1>14. Baking' /\ Listed' /\ Contributed'
  BY <1>1 DEF IInv, Baking, Listed, Contributed, Dependee, frontVars
<1>15. PICK a \in Nat : a = Cardinality(Awaited(d)) /\ a # 0 /\ IsFiniteSet(Awaited(d))
                        /\ dc[d] = a + (IF d < ft THEN 0 ELSE 1)
  <2>1. IsFiniteSet(Awaited(d)) /\ dc[d] = Cardinality(Awaited(d)) + (IF d < ft THEN 0 ELSE 1)
    BY <1>4 DEF IInv, Counted
  <2>2. Awaited(d) # {}
    BY <1>4, <1>11
  <2>. QED BY <2>1, <2>2, FS_CardinalityType, FS_EmptySet
<1>16. Counted'
  <2>1. ASSUME NEW t \in Terminal
        PROVE  /\ IsFiniteSet(Awaited(t)')
               /\ dc'[t] = Cardinality(Awaited(t)') + (IF t < ft THEN 0 ELSE 1)
    <3>1. CASE t # d
      BY <1>6, <1>11, <3>1 DEF IInv, Counted
    <3>2. CASE t = d
      <4>1. IsFiniteSet(Awaited(t)') /\ Cardinality(Awaited(t)') = a - 1
        <5>1. IsFiniteSet(Awaited(d) \ {<<p, j>>}) /\ Cardinality(Awaited(d) \ {<<p, j>>}) = a - 1
          BY <1>4, <1>11, <1>15, FS_RemoveElement
        <5>. QED BY <1>4, <1>11, <3>2, <5>1
      <4>2. PICK o \in {0, 1} : o = IF d < ft THEN 0 ELSE 1
        OBVIOUS
      <4>3. dc'[d] = (a + o) - 1
        BY <1>6, <1>15, <4>2
      <4>4. (a + o) - 1 = (a - 1) + o
        OBVIOUS
      <4>. QED BY <3>2, <4>1, <4>2, <4>3, <4>4
    <3>. QED BY <3>1, <3>2
  <2>. QED BY <1>1, <2>1 DEF Counted, frontVars
<1>17. Scheduled'
  <2>0. \A u \in Terminal : Settled(u)' <=> dc'[u] = 0 /\ u < ft
    BY <1>1 DEF Settled, frontVars
  <2>1. \A u \in Terminal \ {d} : Settled(u)' <=> Settled(u)
    BY <1>6, <2>0 DEF Settled
  <2>2. dc[d] = 1 => Settled(d)'
    <3>1. dc[d] = 1 => d < ft
      BY <1>15
    <3>2. dc[d] = 1 => dc'[d] = 0
      BY <1>6
    <3>3. dc[d] = 1 => dc'[d] = 0 /\ d < ft'
      BY <1>1, <3>1, <3>2 DEF frontVars
    <3>4. PICK u : u = d
      OBVIOUS
    <3>. QED BY <1>1, <1>4, <2>0, <3>1, <3>2
  <2>3. independent' \cap result' = {}
    BY <1>1, <1>5 DEF IInv, Scheduled
  <2>4. \A u \in independent' \cup result' : Settled(u)'
    <3>1. \A u \in independent \cup result : u \in Terminal \ {d} /\ Settled(u)
      BY <1>5 DEF IInv, Scheduled, TypeOK
    <3>. QED BY <1>1, <2>1, <2>2, <3>1
  <2>5. ASSUME NEW v \in Worker, wpc[v] # "idle", NEW u, u = wt[v]
        PROVE  /\ u \in Terminal \ {d} /\ Settled(u) /\ u \notin independent
               /\ u \in result <=> wpc[v] = "notify"
               /\ \A x \in Worker : wpc[x] # "idle" /\ wt[x] = u => x = v
    BY <1>4, <2>5 DEF IInv, Scheduled
  <2>6. ASSUME NEW v \in Worker, wpc[v] # "idle", NEW u, u = wt[v]
        PROVE  u \in Terminal /\ dc'[u] = 0 /\ u < ft /\ u \notin independent'
    BY <1>1, <1>6, <2>5, <2>6 DEF Settled
  <2>7. \A v \in Worker : wpc'[v] # "idle" =>
               /\ wt'[v] \in Terminal /\ dc'[wt'[v]] = 0 /\ wt'[v] < ft'
               /\ wt'[v] \notin independent'
               /\ wt'[v] \in result' <=> wpc'[v] = "notify"
               /\ \A x \in Worker : wpc'[x] # "idle" /\ wt'[x] = wt'[v] => x = v
    BY <1>1, <2>5, <2>6 DEF frontVars
  <2>. QED BY <2>3, <2>4, <2>7 DEF Scheduled, Settled
<1>18. Notifying'
  <2>1. j + 1 <= wn[w] + 1
    BY <1>1, <1>3
  <2>. QED BY <1>1, <1>7, <2>1 DEF IInv, Notifying
<1>19. Outermost'
  BY <1>1 DEF IInv, Outermost, Caller, Origin, frontVars
<1>20. Locked'
  BY <1>1, <1>9 DEF IInv, Locked, Holds, frontVars, Dependee
<1>21. Exact'
  <2>1. \A u : Incomplete(u)' <=> Incomplete(u)
    BY <1>1 DEF Incomplete, frontVars
  <2>. QED BY <1>1, <1>9, <1>12, <1>13, <2>1 DEF IInv, Exact
<1>22. Changes'
  BY <1>1, <1>12, <1>13, ChangesStay
<1>23. Told'
  BY <1>1 DEF IInv, Told
<1>. QED BY <1>8, <1>9, <1>14, <1>16, <1>17, <1>18, <1>19, <1>20, <1>21, <1>22, <1>23 DEF IInv

\* The calls are for what awaits something, or what a worker evaluates.
LEMMA CalledFor ==
  IInv => \A y \in Thread : \A i \in DOMAIN stack[y] : Settled(stack[y][i].t) =>
    y \in Worker /\ wpc[y] = "publish" /\ stack[y][i].t = wt[y]
<1>. SUFFICES ASSUME IInv, NEW y \in Thread, NEW i \in DOMAIN stack[y], Settled(stack[y][i].t)
     PROVE  y \in Worker /\ wpc[y] = "publish" /\ stack[y][i].t = wt[y]
  OBVIOUS
<1>1. stack[y] \in Seq(CallType) /\ i \in 1 .. Len(stack[y]) /\ stack[y] # <<>> /\ i \in Nat
      /\ Len(stack[y]) \in Nat
  BY DEF IInv, TypeOK
<1>2. CASE i < Len(stack[y])
  <2>1. i + 1 \in DOMAIN stack[y] /\ i + 1 > 1
    BY <1>1, <1>2
  <2>2. stack[y][i + 1] \in CallType
    BY <1>1, <2>1
  <2>3. PICK k \in CallType : k = stack[y][i + 1]
    BY <2>2
  <2>4. /\ k.t \notin result /\ k.at = "next" /\ k.j > 1 /\ k.j <= k.n + 1 /\ k.n <= Len(dependers[k.t])
        /\ dependers[k.t][k.j - 1] = stack[y][i].t
    BY <1>2, <2>1, <2>3 DEF IInv, Calls
  <2>5. k.t \in Terminal /\ k.j \in Nat /\ k.n \in Nat /\ dependers[k.t] \in Seq(Terminal)
    BY DEF CallType, IInv, TypeOK
  <2>6. k.j - 1 \in DOMAIN dependers[k.t]
    BY <2>4, <2>5
  <2>7. Due(k.t, k.j - 1)
    BY <2>4 DEF Due
  <2>8. ~Settled(dependers[k.t][k.j - 1])
    BY <2>5, <2>6, <2>7, AwaitingUnsettled
  <2>. QED BY <2>4, <2>8
<1>3. CASE i = Len(stack[y])
  <2>1. Caller(y) /\ stack[y][i].t = Origin(y)
    BY <1>1, <1>3 DEF IInv, Outermost
  <2>2. y # Frontend
    <3>1. y = Frontend => ft \in Terminal
      BY <2>1, ThreadAssumption DEF Caller, IInv, Baking
    <3>2. y = Frontend => ~Settled(ft)
      BY <3>1 DEF Settled, Terminal
    <3>. QED BY <2>1, <3>2 DEF Origin
  <2>. QED BY <2>1, <2>2 DEF Caller, Origin
<1>. QED BY <1>1, <1>2, <1>3

\* Once a worker has told everybody, no call is for what it evaluates.
LEMMA NoneForPublished ==
  ASSUME IInv, NEW w \in Worker, wpc[w] = "publish", stack[w] = <<>>
  PROVE  \A y \in Thread : \A i \in DOMAIN stack[y] : stack[y][i].t # wt[w]
<1>. SUFFICES ASSUME NEW y \in Thread, NEW i \in DOMAIN stack[y], stack[y][i].t = wt[w] PROVE FALSE
  OBVIOUS
<1>1. Settled(wt[w])
  BY DEF IInv, Scheduled
<1>2. y \in Worker /\ wpc[y] = "publish" /\ wt[y] = wt[w]
  BY <1>1, CalledFor
<1>3. y = w
  BY <1>2 DEF IInv, Scheduled
<1>. QED BY <1>3

\* The result is published: the contributions that disappear are zero.
LEMMA PublishStep ==
  ASSUME IInv, NEW w \in Worker, Publish(w)
  PROVE  IInv'
<1>0. PICK p : p = wt[w]
  OBVIOUS
<1>1. /\ wpc[w] = "publish" /\ stack[w] = <<>> /\ wt[w] = p
      /\ ~(fpc \in {"read", "count"} /\ Dependee = p)
      /\ result' = result \cup {p}
      /\ wn' = [wn EXCEPT ![w] = Len(dependers[p])]
      /\ wj' = [wj EXCEPT ![w] = 1]
      /\ wpc' = [wpc EXCEPT ![w] = "notify"]
      /\ UNCHANGED <<operands, adc, contributions, dependers, dc, lock, baked, independent,
                     frontVars, wt, stack>>
  BY <1>0 DEF Publish
<1>2. /\ p \in Terminal /\ Settled(p) /\ p \notin independent /\ p \notin result /\ Evaluated(p)
      /\ \A v \in Worker : wpc[v] # "idle" /\ wt[v] = p => v = w
  BY <1>1 DEF IInv, Scheduled, Evaluated
<1>3. /\ w \in Thread /\ w # Frontend
      /\ wpc'[w] = "notify" /\ wn'[w] = Len(dependers[p]) /\ wj'[w] = 1
      /\ \A v \in Worker \ {w} : wpc'[v] = wpc[v] /\ wn'[v] = wn[v] /\ wj'[v] = wj[v]
      /\ Len(dependers[p]) \in Nat /\ dependers[p] \in Seq(Terminal)
  BY <1>1, <1>2, ThreadAssumption DEF IInv, TypeOK, Thread
<1>4. TypeOK'
  BY <1>1, <1>2, <1>3 DEF IInv, TypeOK, frontVars
<1>5. Baking' /\ Listed' /\ Contributed'
  <2>1. Baking'
    BY <1>1 DEF IInv, Baking, Dependee, frontVars
  <2>2. Listed' /\ Contributed'
    BY <1>1 DEF IInv, Listed, Contributed, frontVars
  <2>. QED BY <2>1, <2>2
<1>6. \A q \in Terminal : \A j \in DOMAIN dependers[q] : Due(q, j)' <=> Due(q, j)
  <2>1. ASSUME NEW q \in Terminal, NEW j \in DOMAIN dependers[q] PROVE Due(q, j)' <=> Due(q, j)
    <3>1. CASE q # p
      <4>1. \A v \in Worker : wt[v] = q => v # w
        BY <1>1, <3>1
      <4>2. q \notin result' <=> q \notin result
        BY <1>1, <3>1
      <4>3. wt' = wt
        BY <1>1
      <4>. QED BY <1>3, <4>1, <4>2, <4>3 DEF Due
    <3>2. CASE q = p
      <4>1. 1 <= j /\ j <= Len(dependers[p])
        BY <1>3, <3>2
      <4>2. Due(q, j)'
        BY <1>1, <1>3, <3>2, <4>1 DEF Due
      <4>3. Due(q, j)
        BY <1>2, <3>2 DEF Due
      <4>. QED BY <4>2, <4>3
    <3>. QED BY <3>1, <3>2
  <2>. QED BY <2>1
<1>7. \A u \in Terminal : Awaited(u)' = Awaited(u)
  BY <1>1, <1>6 DEF Awaited
<1>8. \A u : Evaluated(u)' <=> Evaluated(u)
  <2>1. ASSUME NEW u PROVE Evaluated(u)' <=> Evaluated(u)
    <3>1. CASE u = p
      BY <1>1, <1>2, <3>1 DEF Evaluated
    <3>2. CASE u # p
      <4>1. \A v \in Worker : wt[v] = u => v # w
        BY <1>1, <3>2
      <4>. QED BY <1>1, <1>3, <3>2, <4>1 DEF Evaluated
    <3>. QED BY <3>1, <3>2
  <2>. QED BY <2>1
<1>9. \A j \in DOMAIN contributions[p] : contributions[p][j] = 0
  BY <1>1 DEF IInv, Told
<1>10. \A u \in Terminal : Collected(u)' = Collected(u)
  <2>1. ASSUME NEW u \in Terminal PROVE Collected(u)' = Collected(u)
    <3>1. FoundEntries /\ FoundEntries'
      BY <1>4, <1>5, EntriesAre, EntriesAreNext DEF IInv
    <3>2. \A q : q \in Entries(u) <=> \E r \in Terminal : \E j \in DOMAIN dependers[r] :
            q = <<r, j>> /\ dependers[r][j] = u /\ r \notin result
      BY <3>1 DEF FoundEntries
    <3>3. \A q : q \in Entries(u)' <=> \E r \in Terminal : \E j \in DOMAIN dependers[r] :
            q = <<r, j>> /\ dependers[r][j] = u /\ r \notin result /\ r # p
      BY <1>1, <3>1 DEF FoundEntries
    <3>4. PICK Q, R : Q = Entries(u) /\ R = Entries(u)'
      OBVIOUS
    <3>5. R \subseteq Q
      BY <3>2, <3>3, <3>4
    <3>6. \A q \in Q \ R : contributions[q[1]][q[2]] = 0
      <4>1. ASSUME NEW q \in Q \ R PROVE \E j \in DOMAIN dependers[p] : q = <<p, j>>
        BY <3>2, <3>3, <3>4
      <4>2. DOMAIN dependers[p] = DOMAIN contributions[p]
        BY <1>2 DEF IInv, Contributed, TypeOK
      <4>3. ASSUME NEW q \in Q \ R PROVE contributions[q[1]][q[2]] = 0
        <5>1. PICK j \in DOMAIN dependers[p] : q = <<p, j>>
          BY <4>1
        <5>. QED BY <1>9, <4>2, <5>1
      <4>. QED BY <4>3
    <3>7. IsFiniteSet(Q) /\ Valued(contributions, Q)
      BY <3>4, EntriesCounted
    <3>8. Total(contributions, Q) = Total(contributions, R)
      BY <3>5, <3>6, <3>7, TotalZeros
    <3>9. Collected(u) = Total(contributions, Q) /\ Collected(u)' = Total(contributions, R)
      BY <1>1, <3>4, CollectedIs, CollectedIsNext DEF CollectedTotal
    <3>. QED BY <3>8, <3>9
  <2>. QED BY <2>1
<1>11. Counted'
  BY <1>1, <1>7 DEF IInv, Counted, frontVars
<1>12. Scheduled'
  <2>1. \A u : Settled(u)' <=> Settled(u)
    BY <1>1 DEF Settled, frontVars
  <2>2. (\A u \in independent' \cup result' : Settled(u)') /\ independent' \cap result' = {}
    BY <1>1, <1>2, <2>1 DEF IInv, Scheduled
  <2>3. ASSUME NEW v \in Worker, wpc'[v] # "idle"
        PROVE  /\ wt'[v] \in Terminal /\ dc'[wt'[v]] = 0 /\ wt'[v] < ft'
               /\ wt'[v] \notin independent'
               /\ wt'[v] \in result' <=> wpc'[v] = "notify"
               /\ \A u \in Worker : wpc'[u] # "idle" /\ wt'[u] = wt'[v] => u = v
    <3>1. \A u \in Worker : wpc'[u] # "idle" <=> wpc[u] # "idle"
      BY <1>1, <1>3
    <3>2. wt' = wt /\ independent' = independent /\ dc' = dc /\ ft' = ft
      BY <1>1 DEF frontVars
    <3>3. /\ wt[v] \in Terminal /\ Settled(wt[v]) /\ wt[v] \notin independent
          /\ wt[v] \in result <=> wpc[v] = "notify"
          /\ \A u \in Worker : wpc[u] # "idle" /\ wt[u] = wt[v] => u = v
      BY <2>3, <3>1 DEF IInv, Scheduled
    <3>4. wt[v] \in result' <=> wpc'[v] = "notify"
      BY <1>1, <1>2, <1>3, <2>3, <3>1, <3>3
    <3>. QED BY <3>1, <3>2, <3>3, <3>4 DEF Settled
  <2>. QED BY <2>2, <2>3 DEF Scheduled, Settled
<1>13. Notifying'
  <2>1. ASSUME NEW v \in Worker, wpc'[v] = "notify"
        PROVE  wj'[v] <= wn'[v] + 1 /\ wn'[v] <= Len(dependers[wt[v]])
    <3>1. CASE v = w
      BY <1>1, <1>3, <3>1
    <3>2. CASE v # w
      BY <1>3, <2>1, <3>2 DEF IInv, Notifying
    <3>. QED BY <3>1, <3>2
  <2>. QED BY <1>1, <2>1 DEF Notifying
<1>14. Outermost'
  <2>1. ASSUME NEW y \in Thread, stack'[y] # <<>>
        PROVE  /\ Caller(y)' /\ stack'[y][Len(stack'[y])].t = Origin(y)'
               /\ stack'[y][Len(stack'[y])].rd = 0
    <3>1. y # w /\ stack[y] # <<>>
      BY <1>1, <2>1
    <3>2. Caller(y)' = Caller(y) /\ Origin(y)' = Origin(y)
      BY <1>1, <1>3, <3>1 DEF Caller, Origin, frontVars, Thread
    <3>. QED BY <1>1, <3>1, <3>2 DEF IInv, Outermost
  <2>. QED BY <2>1 DEF Outermost
<1>15. Calls'
  <2>1. \A y \in Thread : \A i \in DOMAIN stack[y] : stack[y][i].t \notin result'
    BY <1>1, NoneForPublished DEF IInv, Calls
  <2>. QED BY <1>1, <2>1 DEF IInv, Calls
<1>16. /\ \A y \in Thread : In(y, "change")' <=> In(y, "change")
       /\ \A y \in Thread : In(y, "compare")' <=> In(y, "compare")
       /\ \A y \in Thread : Call(y)' = Call(y)
       /\ \A f : Depender(f)' = Depender(f)
       /\ \A u : Changing(u)' <=> Changing(u)
  BY <1>1 DEF In, Call, Depender, Changing
<1>17. Locked'
  BY <1>1, <1>16 DEF IInv, Locked, Holds, frontVars, Dependee
<1>18. Exact'
  <2>1. \A u : Incomplete(u)' <=> Incomplete(u)
    BY <1>1 DEF Incomplete, frontVars
  <2>. QED BY <1>1, <1>8, <1>10, <1>16, <2>1 DEF IInv, Exact
<1>19. Changes'
  BY <1>1, <1>8, <1>10, ChangesStay
<1>20. Told'
  BY <1>1, <1>3 DEF IInv, Told
<1>. QED BY <1>4, <1>5, <1>11, <1>12, <1>13, <1>14, <1>15, <1>17, <1>18, <1>19, <1>20 DEF IInv

-----------------------------------------------------------------------------
(* The invariant *)

\* The invariant holds at first, and whatever happens.
LEMMA InitIInv == Init => IInv
<1>. SUFFICES ASSUME Init PROVE IInv
  OBVIOUS
<1>. USE DEF Init
<1>1. 1 \in Count /\ <<>> \in Seq(Count) /\ <<>> \in Seq(Terminal) /\ <<>> \in Seq(CallType)
  BY CountAssumption DEF Count
<1>2. N \in Nat
  BY GraphAssumption
<1>3. TypeOK
  BY <1>1, <1>2 DEF TypeOK
<1>4. \A t \in Terminal : DOMAIN dependers[t] = {} /\ DOMAIN contributions[t] = {}
  OBVIOUS
<1>5. /\ \A x \in Thread : DOMAIN stack[x] = {} /\ stack[x] = <<>>
      /\ \A x \in Thread : \A at : ~In(x, at)
  BY DEF In
<1>6. \A t \in Terminal : Awaited(t) = {} /\ Entries(t) = {}
  <2>1. \A t \in Terminal : Awaited(t) = {}
    BY <1>4, AwaitedIs DEF AwaitedEntries
  <2>2. Listed
    BY <1>4 DEF Listed
  <2>3. \A t \in Terminal : Entries(t) = {}
    BY <1>3, <1>4, <2>2, EntriesAre DEF FoundEntries
  <2>. QED BY <2>1, <2>3
<1>7. \A t \in Terminal : Collected(t) = 1
  <2>1. IsFiniteSet({})
    BY FS_EmptySet
  <2>2. Total(contributions, {}) = 1
    BY <2>1, TotalStep
  <2>. QED BY <1>6, <2>2, CollectedIs DEF CollectedTotal
<1>8. Baking /\ Listed /\ Notifying /\ Contributed /\ Told
  <2>1. \A t \in Terminal : ~(t < 1)
    BY DEF Terminal
  <2>2. Baking
    BY <2>1 DEF Baking
  <2>3. Listed
    BY <1>4 DEF Listed
  <2>4. Contributed
    BY <1>4 DEF Contributed
  <2>5. Notifying /\ Told
    BY DEF Notifying, Told
  <2>. QED BY <2>2, <2>3, <2>4, <2>5
<1>9. Counted /\ Scheduled
  <2>1. IsFiniteSet({}) /\ Cardinality({}) = 0
    BY FS_EmptySet
  <2>2. \A t \in Terminal : ~(t < 1)
    BY DEF Terminal
  <2>3. Counted
    <3>1. ASSUME NEW t \in Terminal
          PROVE  /\ IsFiniteSet(Awaited(t))
                 /\ dc[t] = Cardinality(Awaited(t)) + (IF t < ft THEN 0 ELSE 1)
      <4>1. IsFiniteSet(Awaited(t)) /\ Cardinality(Awaited(t)) = 0
        BY <1>6, <2>1
      <4>2. dc[t] = 1 /\ ~(t < ft)
        BY <2>2
      <4>. QED BY <4>1, <4>2
    <3>. QED BY <3>1 DEF Counted
  <2>4. Scheduled
    BY DEF Scheduled
  <2>. QED BY <2>3, <2>4
<1>10. Outermost /\ Calls
  BY <1>5 DEF Outermost, Calls
<1>11. Locked
  BY <1>5, ThreadAssumption DEF Locked, Holds
<1>12. Exact /\ Changes
  <2>1. \A t : ~Evaluated(t)
    BY DEF Evaluated
  <2>2. Changes
    BY <1>5 DEF Changes
  <2>3. Exact
    BY <1>7, <2>1 DEF Exact
  <2>. QED BY <2>2, <2>3
<1>. QED BY <1>3, <1>8, <1>9, <1>10, <1>11, <1>12 DEF IInv

LEMMA StutterIInv ==
  ASSUME IInv, UNCHANGED vars
  PROVE  IInv'
<1>. USE DEF vars, graphVars, workerVars, frontVars
<1>1. TypeOK'
  BY DEF IInv, TypeOK
<1>2. /\ Notifying' /\ Calls'
      /\ \A x \in Thread : In(x, "change")' <=> In(x, "change")
      /\ \A x \in Thread : In(x, "compare")' <=> In(x, "compare")
      /\ \A x \in Thread : Call(x)' = Call(x)
      /\ \A f : Depender(f)' = Depender(f)
      /\ \A t : Changing(t)' <=> Changing(t)
      /\ \A t : Awaited(t)' = Awaited(t) /\ Entries(t)' = Entries(t)
      /\ \A t : Evaluated(t)' <=> Evaluated(t)
  BY CallsStay, EntriesStay
<1>3. \A t : Collected(t)' = Collected(t)
  BY <1>2, CollectedStays
<1>4. Baking' /\ Listed' /\ Counted' /\ Scheduled'
  BY GraphStays
<1>5. Outermost'
  BY DEF IInv, Outermost, Caller, Origin
<1>6. Locked'
  BY <1>2 DEF IInv, Locked, Holds, Dependee
<1>7. Contributed'
  BY DEF IInv, Contributed
<1>8. Exact'
  BY <1>2, <1>3 DEF IInv, Exact, Incomplete
<1>9. Changes'
  BY <1>2, <1>3, ChangesStay
<1>10. Told'
  BY DEF IInv, Told
<1>. QED BY <1>1, <1>2, <1>4, <1>5, <1>6, <1>7, <1>8, <1>9, <1>10 DEF IInv

LEMMA NextIInv ==
  ASSUME IInv, [Next]_vars
  PROVE  IInv'
<1>1. CASE Bake
  BY <1>1, AddResultStep, AddReadStep, AddLockStep, AddCountStep, BuiltStep, BakeDecreaseStep,
     BakeIndependStep DEF Bake
<1>2. CASE \E w \in Worker : Work(w)
  BY <1>2, PopStep, EvaluateStep, PublishStep, NotifyStep, DoneStep DEF Work
<1>3. CASE \E x \in Thread : Decrease(x)
  BY <1>3, DecreaseStep
<1>4. CASE UNCHANGED vars
  BY <1>4, StutterIInv
<1>. QED BY <1>1, <1>2, <1>3, <1>4 DEF Next

\* The invariant of ADCInvariant holds: whatever the frontend bakes while workers evaluate,
\* terminal_decrease_adc leaves the counts and the contributions in order.
THEOREM Invariance == SafeSpec => []IInv
<1>1. Init => IInv
  BY InitIInv
<1>2. IInv /\ [Next]_vars => IInv'
  BY NextIInv
<1>. QED BY <1>1, <1>2, PTL DEF SafeSpec

\* The counts stay within their byte: no decrement of terminal_decrease_adc wraps around,
\* and every call knows no more dependers than there are.
THEOREM TypeCorrect == SafeSpec => []TypeOK
<1>1. IInv => TypeOK
  BY DEF IInv
<1>. QED BY <1>1, Invariance, PTL

\* A worker that waits for work has no target.
Idle == \A w \in Worker : wpc[w] = "idle" => wt[w] = None

LEMMA IdleHaveNone == SafeSpec => []Idle
<1>1. Init => Idle
  BY DEF Init, Idle
<1>2. IInv /\ Idle /\ [Next]_vars => Idle'
  <2>. SUFFICES ASSUME IInv, Idle, [Next]_vars PROVE Idle'
    OBVIOUS
  <2>. USE DEF IInv, TypeOK, Idle, graphVars, workerVars, frontVars
  <2>1. CASE Bake
    BY <2>1 DEF Bake, AddResult, AddRead, AddLock, AddCount, Built, BakeDecrease, BakeIndepend
  <2>2. CASE \E w \in Worker : Work(w)
    BY <2>2 DEF Work, Pop, Evaluate, Publish, Notify, Done
  <2>3. CASE \E x \in Thread : Decrease(x)
    BY <2>3 DEF Decrease, Change, Lock, Compare, Return
  <2>4. CASE UNCHANGED vars
    BY <2>4 DEF vars
  <2>. QED BY <2>1, <2>2, <2>3, <2>4 DEF Next
<1>. QED BY <1>1, <1>2, Invariance, PTL DEF SafeSpec

\* The count of a terminal, whenever its lock is free after the bake, is what pull_adc would
\* collect, although no call for it collected it unless it had been Overflown.
THEOREM CountsCollected == SafeSpec => []CountIsCollected
<1>1. IInv /\ Idle => CountIsCollected
  <2>. SUFFICES ASSUME IInv, Idle, NEW t \in baked, Free(t), t = ft => fpc # "built"
       PROVE  adc[t] = IF \E w \in Worker : wt[w] = t /\ wpc[w] # "evaluate" THEN 0
                       ELSE IF t \in result THEN 0 ELSE Collected(t)
    BY DEF CountIsCollected
  <2>1. t \in Terminal /\ ~Changing(t)
    BY FreeUnchanging DEF IInv, TypeOK
  <2>2. ~Incomplete(t)
    BY DEF Incomplete
  <2>3. IF Evaluated(t) THEN adc[t] = 0 ELSE adc[t] = Collected(t)
    BY <2>1, <2>2 DEF IInv, Exact
  <2>4. (\E w \in Worker : wt[w] = t /\ wpc[w] # "evaluate") \/ t \in result <=> Evaluated(t)
    <3>1. ASSUME NEW w \in Worker, wt[w] = t, wpc[w] # "evaluate" PROVE Evaluated(t)
      <4>1. wpc[w] # "idle"
        BY <2>1, <3>1, ThreadAssumption DEF Idle
      <4>2. wpc[w] \in {"publish", "notify"}
        BY <3>1, <4>1 DEF IInv, TypeOK
      <4>. QED BY <3>1, <4>2 DEF IInv, Scheduled, Evaluated
    <3>. QED BY <3>1 DEF Evaluated
  <2>. QED BY <2>3, <2>4
<1>. QED BY <1>1, Invariance, IdleHaveNone, PTL

\* terminal_independ finds a count of one: every change upstream has arrived by then.
THEOREM IndependentOne == SafeSpec => []IndependentCountsOne
<1>1. IInv => IndependentCountsOne
  <2>. SUFFICES ASSUME IInv, NEW t \in independent PROVE adc[t] = 1
    BY DEF IndependentCountsOne
  <2>1. t \in Terminal /\ Settled(t) /\ t \notin result
    BY DEF IInv, TypeOK, Scheduled
  <2>2. ~Evaluated(t)
    BY <2>1 DEF IInv, Scheduled, Evaluated
  <2>3. t < ft /\ t # ft
    BY <2>1 DEF Settled, Terminal, IInv, TypeOK
  <2>4. ~Incomplete(t)
    BY <2>1, <2>3 DEF Incomplete, IInv, Baking
  <2>5. ~Changing(t)
    <3>1. SUFFICES ASSUME NEW x \in Thread, In(x, "change"), Call(x).t = t PROVE FALSE
      BY DEF Changing
    <3>2. Call(x) = stack[x][1] /\ 1 \in DOMAIN stack[x]
      BY <3>1, CallTyped DEF IInv, In
    <3>3. x \in Worker /\ wpc[x] = "publish" /\ t = wt[x]
      BY <2>1, <3>1, <3>2, CalledFor
    <3>. QED BY <3>3 DEF IInv, Scheduled
  <2>6. Collected(t) = 1
    BY <2>1, SettledCollected
  <2>. QED BY <2>1, <2>2, <2>4, <2>5, <2>6 DEF IInv, Exact
<1>. QED BY <1>1, Invariance, PTL

\* No call of terminal_decrease_adc is for a terminal that has its result, or looks at one.
THEOREM FreedUntouched == SafeSpec => []NoneInFreed
<1>1. IInv => NoneInFreed
  <2>. SUFFICES ASSUME IInv, NEW x \in Thread, NEW i \in DOMAIN stack[x], NEW f, f = stack[x][i]
       PROVE  /\ f.t \notin result
              /\ f.at \in {"next", "compare"} /\ f.j <= f.n => Depender(f) \notin result
    BY DEF NoneInFreed
  <2>1. f \in CallType
    <3>1. stack[x] \in Seq(CallType)
      BY DEF IInv, TypeOK
    <3>. QED BY <3>1
  <2>2. f.t \in Terminal /\ f.j \in Nat \ {0} /\ f.n \in Nat /\ dependers[f.t] \in Seq(Terminal)
    BY <2>1 DEF CallType, IInv, TypeOK
  <2>3. f.t \notin result /\ f.n <= Len(dependers[f.t])
    BY DEF IInv, Calls
  <2>4. ASSUME f.j <= f.n PROVE Depender(f) \notin result
    <3>1. f.j \in DOMAIN dependers[f.t]
      BY <2>2, <2>3, <2>4
    <3>2. Due(f.t, f.j)
      BY <2>3 DEF Due
    <3>3. Depender(f) \in Terminal /\ ~Settled(Depender(f))
      BY <2>2, <3>1, <3>2, AwaitingUnsettled DEF Depender
    <3>. QED BY <3>3 DEF IInv, Scheduled
  <2>. QED BY <2>3, <2>4
<1>. QED BY <1>1, Invariance, PTL
=============================================================================
