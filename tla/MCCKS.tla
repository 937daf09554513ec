-------------------------------- MODULE MCCKS --------------------------------
\* Small systems of identities for TLC.
EXTENDS CKSInvariant, TLC

\* The pivots are numbers here, and their orders the same.
Identity == [i \in Pivot |-> i]

\* Identities for i with coefficients of one.
Rows(i) == {[c \in heads |-> 1] : heads \in {h \in SUBSET Integral : i \in h}}

AllSystems ==
  {f \in [Pivot -> UNION {Rows(i) : i \in Pivot}] : \A i \in Pivot : f[i] \in Rows(i)}

\* The left hand side of the sum of the identities with factors k.
Combined(f, k, c) == MapThenSumSet(LAMBDA i : k[i] * Entry(f[i], c), Pivot) % P

\* Those in which no identity follows from the others.
IndependentSystems ==
  {f \in AllSystems :
     \A k \in [Pivot -> Coefficient] :
       (\A c \in Integral : Combined(f, k, c) = 0) => \A i \in Pivot : k[i] = 0}

\* These are the systems whose left hand sides can have any values.
ASSUME IndependenceAssumption == \A f \in AllSystems : Independent(f) <=> f \in IndependentSystems

\* Those of them in which the first identity, and no other, contains a master integral,
\* each relates its pivot to another one, and the last only to the first.
CoupledSystems ==
  {f \in IndependentSystems :
     /\ \A i \in Pivot : DOMAIN f[i] \subseteq Pivot <=> i # 1
     /\ \A i \in Pivot : Cardinality(DOMAIN f[i] \cap Pivot) > 1
     /\ DOMAIN f[3] = {1, 3}}
=============================================================================
