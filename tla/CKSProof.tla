------------------------------ MODULE CKSProof ------------------------------
(***************************************************************************)
(* The invariant of the solver, proved.  The induction is on the steps of  *)
(* the recursion: what a call leaves behind (Concluded) is what the call   *)
(* below it relies on when it inserts the result (ReturnedFree), and that  *)
(* keeps normalized what was solved meanwhile (SolvedNormalized).          *)
(*                                                                         *)
(* That nothing is lost or invented (Equivalent) is linear algebra: each   *)
(* step that changes pivots multiplies them with what has a reciprocal, or *)
(* adds to one a multiple of another (Combined), and neither changes what  *)
(* satisfies all identities, that they are independent, nor that they      *)
(* determine the pivots (Determined).  So when the solver gives up on a    *)
(* pivot whose identity is free of all pivots (Abandoned), the identities  *)
(* it was given did not determine them.                                    *)
(***************************************************************************)
EXTENDS CKSInvariant, FiniteSetTheorems, SequenceTheorems, WellFoundedInduction, TLAPS

-----------------------------------------------------------------------------
(* Arithmetic *)

\* A remainder is a coefficient.
LEMMA Remainder ==
  ASSUME NEW a \in Int
  PROVE  a % P \in Coefficient
BY PrimeAssumption DEF Coefficient

\* A coefficient is its own remainder.
LEMMA OwnRemainder ==
  ASSUME NEW a \in Coefficient
  PROVE  a % P = a
BY PrimeAssumption DEF Coefficient

\* What is not zero can be divided by.
LEMMA ReciprocalType ==
  ASSUME NEW a \in Coefficient, a # 0
  PROVE  Reciprocal(a) \in Coefficient /\ (a * Reciprocal(a)) % P = 1
<1>1. a \in 1 .. (P - 1)
  BY PrimeAssumption DEF Coefficient
<1>2. \E b \in Coefficient : (a * b) % P = 1
  BY <1>1, PrimeAssumption DEF Coefficient
<1>. QED
  BY <1>2 DEF Reciprocal

\* The only multiple of a number that is less than it both ways is zero.
LEMMA MultipleInside ==
  ASSUME NEW p \in Nat, NEW d \in Int, d * p < p, d * p > -p
  PROVE  d = 0
<1>1. CASE d >= 1
  <2>1. (d - 1) * p >= 0
    BY <1>1
  <2>2. (d - 1) * p = d * p - p
    OBVIOUS
  <2>3. d * p \in Int /\ (d - 1) * p \in Int
    OBVIOUS
  <2>. QED BY <2>1, <2>2, <2>3
<1>2. CASE d <= -1
  <2>1. (-1 - d) * p >= 0
    BY <1>2
  <2>2. (-1 - d) * p = -p - d * p
    OBVIOUS
  <2>3. d * p \in Int /\ (-1 - d) * p \in Int
    OBVIOUS
  <2>. QED BY <2>1, <2>2, <2>3
<1>. QED BY <1>1, <1>2

\* A number is a multiple of the prime and its remainder, ...
LEMMA Division ==
  ASSUME NEW a \in Int
  PROVE  \E q \in Int : a = q * P + (a % P)
<1>1. a \div P \in Int /\ a = (a \div P) * P + (a % P)
  BY PrimeAssumption
<1>. QED BY <1>1

\* ... which is the only one that is a coefficient.
LEMMA RemainderIs ==
  ASSUME NEW a \in Int, NEW q \in Int, NEW r \in Coefficient, a = q * P + r
  PROVE  a % P = r
<1>1. PICK s \in Int : a = s * P + (a % P)
  BY Division
<1>2. a % P \in Int /\ 0 <= a % P /\ a % P < P /\ P \in Nat
  BY PrimeAssumption
<1>3. r \in Int /\ 0 <= r /\ r < P
  BY PrimeAssumption DEF Coefficient
<1>. DEFINE u == a % P
            d == q - s
<1>. HIDE DEF u
<1>4. d \in Int /\ d * P = u - r
  <2>1. d \in Int /\ d * P = q * P - s * P
    BY <1>2
  <2>2. q * P \in Int /\ s * P \in Int /\ u \in Int
    BY <1>2 DEF u
  <2>. HIDE DEF d
  <2>. QED BY <1>1, <1>3, <2>1, <2>2 DEF u
<1>5. d * P < P /\ d * P > -P
  BY <1>2, <1>3, <1>4 DEF u
<1>. HIDE DEF d
<1>6. d = 0
  BY <1>2, <1>4, <1>5, MultipleInside
<1>7. d * P = 0
  BY <1>2, <1>6
<1>. QED BY <1>2, <1>3, <1>4, <1>7 DEF u

\* Numbers have the same remainder when they differ by a multiple of the prime.
LEMMA Congruence ==
  ASSUME NEW a \in Int, NEW b \in Int
  PROVE  a % P = b % P <=> \E q \in Int : a = b + q * P
<1>1. PICK s \in Int : a = s * P + (a % P)
  BY Division
<1>2. PICK t \in Int : b = t * P + (b % P)
  BY Division
<1>3. a % P \in Coefficient /\ b % P \in Coefficient /\ Coefficient \subseteq Int /\ P \in Nat
  BY PrimeAssumption DEF Coefficient
<1>4. ASSUME a % P = b % P PROVE \E q \in Int : a = b + q * P
  <2>. DEFINE u == b % P
              d == s - t
  <2>1. d \in Int /\ d * P = s * P - t * P /\ s * P \in Int /\ t * P \in Int
    BY <1>3
  <2>2. u \in Int /\ a = s * P + u /\ b = t * P + u
    BY <1>1, <1>2, <1>3, <1>4
  <2>. HIDE DEF u, d
  <2>3. a = b + d * P
    BY <2>1, <2>2
  <2>. QED BY <2>1, <2>3
<1>5. ASSUME NEW q \in Int, a = b + q * P PROVE a % P = b % P
  <2>. DEFINE u == b % P
              d == t + q
  <2>1. d \in Int /\ d * P = t * P + q * P /\ t * P \in Int /\ q * P \in Int
    BY <1>3
  <2>2. u \in Int /\ u \in Coefficient /\ b = t * P + u
    BY <1>2, <1>3
  <2>. HIDE DEF u, d
  <2>3. a = d * P + u
    BY <1>5, <2>1, <2>2
  <2>. QED BY <2>1, <2>2, <2>3, RemainderIs DEF u
<1>. QED BY <1>4, <1>5

\* Remainders may be taken early.
LEMMA EarlyRemainder ==
  ASSUME NEW a \in Int, NEW b \in Int, NEW m \in Int
  PROVE  (a + m * (b % P)) % P = (a + m * b) % P
<1>0. P \in Int /\ b % P \in Int
  BY PrimeAssumption
<1>1. PICK q \in Int : b = q * P + (b % P)
  BY Division
<1>. DEFINE u == b % P
            d == -(m * q)
<1>2. u \in Int /\ d \in Int /\ b = q * P + u
  BY <1>0, <1>1
<1>. HIDE DEF u
<1>3. a + m * u = (a + m * b) + d * P
  BY <1>0, <1>2
<1>4. a + m * u \in Int /\ a + m * b \in Int
  BY <1>2
<1>. HIDE DEF d
<1>5. (a + m * u) % P = (a + m * b) % P
  BY <1>2, <1>3, <1>4, Congruence
<1>. QED BY <1>5 DEF u

LEMMA ScaledRemainder ==
  ASSUME NEW b \in Int, NEW m \in Int
  PROVE  (m * (b % P)) % P = (m * b) % P
<1>1. (0 + m * (b % P)) % P = (0 + m * b) % P
  BY EarlyRemainder
<1>2. b % P \in Int
  BY PrimeAssumption
<1>3. m * (b % P) \in Int /\ m * b \in Int
  BY <1>2
<1>4. 0 + m * (b % P) = m * (b % P) /\ 0 + m * b = m * b
  BY <1>3
<1>. QED BY <1>1, <1>4

\* What has a reciprocal can be divided by again.
LEMMA UnitCancels ==
  ASSUME NEW m \in Int, NEW w \in Int, (m * w) % P = 1, NEW v \in Coefficient
  PROVE  (w * ((m * v) % P)) % P = v /\ (m * ((w * v) % P)) % P = v
<1>0. v \in Int /\ v % P = v
  BY OwnRemainder DEF Coefficient
<1>1. m * v \in Int /\ w * v \in Int /\ m * w \in Int
  BY <1>0
<1>2. (w * ((m * v) % P)) % P = (w * (m * v)) % P /\ (m * ((w * v) % P)) % P = (m * (w * v)) % P
  BY <1>1, ScaledRemainder
<1>3. w * (m * v) = v * (m * w) /\ m * (w * v) = v * (m * w)
  BY <1>0
<1>4. (v * ((m * w) % P)) % P = (v * (m * w)) % P
  BY <1>0, <1>1, ScaledRemainder
<1>5. v * 1 = v
  BY <1>0
<1>. QED BY <1>0, <1>2, <1>3, <1>4, <1>5

-----------------------------------------------------------------------------
(* Rows *)

\* What makes a function a row.
LEMMA RowMember ==
  ASSUME NEW r
  PROVE  r \in Row <=> /\ r = [c \in DOMAIN r |-> r[c]] /\ DOMAIN r \subseteq Integral
                       /\ \A c \in DOMAIN r : r[c] \in Coefficient
BY DEF Row

\* What a row amounts to anywhere is a coefficient.
LEMMA EntryType ==
  ASSUME NEW r \in Row, NEW c
  PROVE  Entry(r, c) \in Coefficient
<1>1. 0 \in Coefficient
  BY PrimeAssumption DEF Coefficient
<1>. QED
  BY <1>1, RowMember DEF Entry

\* Deleting edges leaves the others alone.
LEMMA WithoutRow ==
  ASSUME NEW r \in Row, NEW Z
  PROVE  /\ Without(r, Z) \in Row
         /\ DOMAIN Without(r, Z) = DOMAIN r \ Z
         /\ \A c \in DOMAIN r \ Z : Without(r, Z)[c] = r[c]
<1>1. Without(r, Z) = [c \in DOMAIN r \ Z |-> r[c]]
  BY DEF Without, Restrict
<1>2. DOMAIN r \subseteq Integral /\ \A c \in DOMAIN r : r[c] \in Coefficient
  BY RowMember
<1>. QED
  BY <1>1, <1>2, RowMember

\* Deleting zeros changes nothing.
LEMMA WithoutZeros ==
  ASSUME NEW r \in Row, NEW Z, \A c \in Z : Entry(r, c) = 0, NEW c
  PROVE  Entry(Without(r, Z), c) = Entry(r, c)
<1>. DEFINE w == Without(r, Z)
<1>0. DOMAIN w = DOMAIN r \ Z /\ \A d \in DOMAIN r \ Z : w[d] = r[d]
  BY WithoutRow
<1>. HIDE DEF w
<1>1. CASE c \in Z
  <2>1. Entry(r, c) = 0 /\ Entry(w, c) = 0
    BY <1>0, <1>1 DEF Entry
  <2>. QED
    BY <2>1 DEF w
<1>2. CASE c \notin Z
  <2>1. Entry(w, c) = Entry(r, c)
    BY <1>0, <1>2 DEF Entry
  <2>. QED
    BY <2>1 DEF w
<1>. QED
  BY <1>1, <1>2

\* Inserting a row into another one makes a row.
LEMMA RelayRow ==
  ASSUME NEW r \in Row, NEW s \in Row, NEW n
  PROVE  Relay(r, s, n) \in Row
<1>1. CASE n \notin DOMAIN r
  BY <1>1 DEF Relay
<1>2. CASE n \in DOMAIN r
  <2>. DEFINE D == (DOMAIN r \cup DOMAIN s) \ {n}
              e(c) == (Entry(r, c) + r[n] * Entry(s, c)) % P
  <2>1. Relay(r, s, n) = [c \in D |-> e(c)]
    BY <1>2 DEF Relay
  <2>2. D \subseteq Integral
    BY RowMember
  <2>3. ASSUME NEW c PROVE e(c) \in Coefficient
    <3>1. Entry(r, c) \in Int /\ Entry(s, c) \in Int /\ r[n] \in Int
      BY <1>2, EntryType, RowMember DEF Coefficient
    <3>2. Entry(r, c) + r[n] * Entry(s, c) \in Int
      BY <3>1
    <3>. QED
      BY <3>2, Remainder
  <2>. HIDE DEF e, D
  <2>. QED
    BY <2>1, <2>2, <2>3, RowMember
<1>. QED
  BY <1>1, <1>2

\* Inserting a row that does not contain i keeps a normalized pivot for i normalized.
LEMMA RelayNormalized ==
  ASSUME NEW r \in Row, NEW s \in Row, NEW n, NEW i, i # n, Entry(s, i) = 0,
         Entry(r, i) # 0, DOMAIN r # {i} => r[i] = MinusOne
  PROVE  /\ Entry(Relay(r, s, n), i) # 0
         /\ DOMAIN Relay(r, s, n) # {i} => Relay(r, s, n)[i] = MinusOne
<1>1. CASE n \notin DOMAIN r
  BY <1>1 DEF Relay
<1>2. CASE n \in DOMAIN r
  <2>1. Relay(r, s, n) = [c \in (DOMAIN r \cup DOMAIN s) \ {n} |->
                            (Entry(r, c) + r[n] * Entry(s, c)) % P]
    BY <1>2 DEF Relay
  <2>2. i \in DOMAIN r /\ r[i] = MinusOne
    BY <1>2 DEF Entry
  <2>3. i \in (DOMAIN r \cup DOMAIN s) \ {n}
    BY <2>2
  <2>4. Relay(r, s, n)[i] = (r[i] + r[n] * 0) % P
    BY <2>1, <2>2, <2>3 DEF Entry
  <2>5. r[n] \in Int /\ MinusOne \in Coefficient
    BY <1>2, RowMember, PrimeAssumption DEF Coefficient, MinusOne
  <2>6. r[i] + r[n] * 0 = MinusOne
    BY <2>2, <2>5 DEF Coefficient
  <2>7. Relay(r, s, n)[i] = MinusOne
    BY <2>4, <2>5, <2>6, OwnRemainder
  <2>8. MinusOne # 0
    BY PrimeAssumption DEF MinusOne
  <2>. QED
    BY <2>1, <2>3, <2>7, <2>8 DEF Entry
<1>. QED
  BY <1>1, <1>2

\* Normalizing makes the normal form, without new edges.
LEMMA NormalizeRow ==
  ASSUME NEW r \in Row, NEW i, Entry(r, i) # 0
  PROVE  /\ Normalize(r, i) \in Row
         /\ Entry(Normalize(r, i), i) # 0
         /\ DOMAIN Normalize(r, i) # {i} => Normalize(r, i)[i] = MinusOne
         /\ \A c : c # i /\ Entry(r, c) = 0 => Entry(Normalize(r, i), c) = 0
<1>1. i \in DOMAIN r /\ IsFiniteSet(DOMAIN r)
  BY RowMember, PivotAssumption, FS_Subset DEF Entry
<1>2. CASE Cardinality(DOMAIN r) = 1
  <2>1. PICK x : DOMAIN r = {x}
    BY <1>1, <1>2, FS_Singleton
  <2>2. DOMAIN r = {i}
    BY <1>1, <2>1
  <2>. QED
    BY <1>2, <2>2 DEF Normalize
<1>3. CASE Cardinality(DOMAIN r) # 1
  <2>. DEFINE b == Reciprocal((P - r[i]) % P)
              e(c) == IF c = i THEN MinusOne ELSE (r[c] * b) % P
  <2>1. Normalize(r, i) = [c \in DOMAIN r |-> e(c)]
    BY <1>3 DEF Normalize
  <2>2. r[i] \in 1 .. (P - 1)
    BY <1>1, RowMember DEF Entry, Coefficient
  <2>3. b \in Coefficient
    <3>1. P - r[i] \in Coefficient /\ P - r[i] # 0
      BY <2>2, PrimeAssumption DEF Coefficient
    <3>. QED
      BY <3>1, OwnRemainder, ReciprocalType
  <2>4. MinusOne \in Coefficient /\ MinusOne # 0 /\ 0 \in Coefficient
    BY PrimeAssumption DEF MinusOne, Coefficient
  <2>5. ASSUME NEW c \in DOMAIN r PROVE (r[c] * b) % P \in Coefficient
    <3>1. r[c] \in Int /\ b \in Int
      BY <2>3, RowMember DEF Coefficient
    <3>. HIDE DEF b
    <3>2. r[c] * b \in Int
      BY <3>1
    <3>. QED
      BY <3>2, Remainder
  <2>6. ASSUME NEW c \in DOMAIN r, c # i, r[c] = 0 PROVE e(c) = 0
    <3>1. b \in Int
      BY <2>3 DEF Coefficient
    <3>. HIDE DEF b
    <3>2. r[c] * b = 0
      BY <2>6, <3>1
    <3>. QED
      BY <2>4, <2>6, <3>2, OwnRemainder
  <2>7. Normalize(r, i) \in Row
    <3>1. \A c \in DOMAIN r : e(c) \in Coefficient
      BY <2>4, <2>5
    <3>. HIDE DEF e
    <3>. QED
      BY <2>1, <3>1, RowMember
  <2>8. Normalize(r, i)[i] = MinusOne /\ i \in DOMAIN Normalize(r, i)
    BY <1>1, <2>1
  <2>9. ASSUME NEW c, c # i, Entry(r, c) = 0 PROVE Entry(Normalize(r, i), c) = 0
    <3>1. CASE c \notin DOMAIN r
      BY <2>1, <3>1 DEF Entry
    <3>2. CASE c \in DOMAIN r
      <4>1. r[c] = 0 /\ e(c) = 0
        BY <2>6, <2>9, <3>2 DEF Entry
      <4>. HIDE DEF e
      <4>. QED
        BY <2>1, <3>2, <4>1 DEF Entry
    <3>. QED
      BY <3>1, <3>2
  <2>. QED
    BY <2>4, <2>7, <2>8, <2>9 DEF Entry
<1>. QED
  BY <1>2, <1>3

-----------------------------------------------------------------------------
(* The stack *)

\* The innermost call.
LEMMA TopCall ==
  ASSUME TypeOK, stack # <<>>
  PROVE  /\ Len(stack) \in Nat \ {0} /\ Top = stack[Len(stack)]
         /\ Top \in Calls /\ Top.pivot \in Pivot /\ Top.despair \in Nat
         /\ Top.next \in Pivot \cup {None}
<1>1. stack \in Seq(Calls) /\ Len(stack) \in Nat \ {0}
  BY EmptySeq DEF TypeOK
<1>2. stack[Len(stack)] \in Calls
  BY <1>1, ElementOfSeq
<1>. QED
  BY <1>1, <1>2 DEF Top, Calls

\* What is left when a call returns.
LEMMA Popped ==
  ASSUME NEW s \in Seq(Calls), s # <<>>
  PROVE  LET t == SubSeq(s, 1, Len(s) - 1) IN
           /\ t \in Seq(Calls) /\ Len(t) = Len(s) - 1
           /\ \A k \in 1 .. (Len(s) - 1) : t[k] = s[k]
           /\ t # <<>> <=> Len(s) > 1
<1>1. Len(s) \in Nat \ {0}
  BY EmptySeq
<1>2. \A k \in 1 .. (Len(s) - 1) : s[k] \in Calls
  BY <1>1, ElementOfSeq
<1>. DEFINE t == SubSeq(s, 1, Len(s) - 1)
<1>6. Len(t) = IF 1 <= Len(s) - 1 THEN Len(s) - 1 - 1 + 1 ELSE 0
  BY <1>1, <1>2, SubSeqProperties
<1>7. \A k \in 1 .. Len(s) - 1 - 1 + 1 : t[k] = s[1 + k - 1]
  BY <1>1, <1>2, SubSeqProperties
<1>3. t \in Seq(Calls)
  BY <1>1, <1>2, SubSeqProperties
<1>4. Len(t) = Len(s) - 1 /\ \A k \in 1 .. (Len(s) - 1) : t[k] = s[k]
  <2>. HIDE DEF t
  <2>. DEFINE n == Len(s)
  <2>0. n \in Nat /\ n # 0
    BY <1>1
  <2>1. Len(t) = n - 1
    <3>1. Len(t) = IF 1 <= n - 1 THEN n - 1 - 1 + 1 ELSE 0
      BY <1>6
    <3>. HIDE DEF n
    <3>. QED
      BY <2>0, <3>1
  <2>2. Len(s) - 1 - 1 + 1 = Len(s) - 1 /\ \A k \in 1 .. (Len(s) - 1) : 1 + k - 1 = k
    BY <1>1
  <2>. QED
    BY <1>7, <2>1, <2>2
<1>. HIDE DEF t
<1>5. t # <<>> <=> Len(s) > 1
  BY <1>1, <1>3, <1>4, EmptySeq
<1>. QED
  BY <1>3, <1>4, <1>5 DEF t

\* What a call for c adds to the stack.
Pushed(s, c) == Append([s EXCEPT ![Len(s)].next = c], Call(c, 0))

LEMMA PushedStack ==
  ASSUME NEW s \in Seq(Calls), s # <<>>, NEW c \in Pivot
  PROVE  /\ Pushed(s, c) \in Seq(Calls) /\ Pushed(s, c) # <<>>
         /\ Len(Pushed(s, c)) = Len(s) + 1
         /\ \A k \in 1 .. (Len(s) - 1) : Pushed(s, c)[k] = s[k]
         /\ Pushed(s, c)[Len(s)] = [s[Len(s)] EXCEPT !.next = c]
         /\ Pushed(s, c)[Len(s) + 1] = Call(c, 0)
<1>1. Len(s) \in Nat \ {0}
  BY EmptySeq
<1>2. s[Len(s)] \in Calls
  BY <1>1, ElementOfSeq
<1>3. [s[Len(s)] EXCEPT !.next = c] \in Calls
  BY <1>2 DEF Calls
<1>. DEFINE u == [s EXCEPT ![Len(s)] = [s[Len(s)] EXCEPT !.next = c]]
<1>4. /\ u \in Seq(Calls) /\ Len(u) = Len(s) /\ u[Len(s)] = [s[Len(s)] EXCEPT !.next = c]
      /\ \A k \in 1 .. (Len(s) - 1) : u[k] = s[k]
  BY <1>1, <1>3, ExceptSeq
<1>5. Call(c, 0) \in Calls
  BY DEF Call, Calls
<1>6. Pushed(s, c) = Append(u, Call(c, 0))
  BY DEF Pushed
<1>. HIDE DEF u
<1>. QED
  BY <1>1, <1>4, <1>5, <1>6, AppendProperties

\* The call on top goes on, or is changed.
LEMMA ChangedStack ==
  ASSUME NEW s \in Seq(Calls), s # <<>>, NEW f \in Calls, NEW t, t = [s EXCEPT ![Len(s)] = f]
  PROVE  /\ t \in Seq(Calls) /\ t # <<>> /\ Len(t) = Len(s) /\ t[Len(s)] = f
         /\ \A k \in 1 .. (Len(s) - 1) : t[k] = s[k]
<1>1. Len(s) \in Nat \ {0}
  BY EmptySeq
<1>2. t \in Seq(Calls) /\ Len(t) = Len(s) /\ t[Len(s)] = f
        /\ \A k \in 1 .. (Len(s) - 1) : t[k] = s[k]
  BY <1>1, ExceptSeq
<1>3. t # <<>>
  BY <1>1, <1>2, EmptySeq
<1>. QED
  BY <1>2, <1>3

-----------------------------------------------------------------------------
(* Counting calls *)

\* The calls that are solving for c.
CallsFor(s, c) == {k \in 1 .. Len(s) : s[k].next = c}

LEMMA CallsForFinite ==
  ASSUME NEW s \in Seq(Calls), NEW c
  PROVE  IsFiniteSet(CallsFor(s, c)) /\ Cardinality(CallsFor(s, c)) \in Nat
<1>1. Len(s) \in Nat
  BY EmptySeq
<1>2. IsFiniteSet(CallsFor(s, c))
  <2>1. IsFiniteSet(1 .. Len(s))
    BY <1>1, FS_Interval
  <2>2. CallsFor(s, c) \subseteq 1 .. Len(s)
    BY DEF CallsFor
  <2>. QED
    BY <2>1, <2>2, FS_Subset
<1>. QED
  BY <1>2, FS_CardinalityType

\* A call that begins is one more for c.
LEMMA CallsAfterPush ==
  ASSUME NEW s \in Seq(Calls), s # <<>>, s[Len(s)].next = None, NEW c \in Pivot,
         NEW d \in Pivot
  PROVE  Cardinality(CallsFor(Pushed(s, c), d)) =
           Cardinality(CallsFor(s, d)) + (IF d = c THEN 1 ELSE 0)
<1>1. Len(s) \in Nat \ {0} /\ d # None
  BY EmptySeq, PivotAssumption
<1>2. Call(c, 0).next # d
  BY <1>1 DEF Call
<1>. DEFINE t == Pushed(s, c)
<1>0. /\ Len(t) = Len(s) + 1 /\ \A k \in 1 .. (Len(s) - 1) : t[k] = s[k]
      /\ t[Len(s)] = [s[Len(s)] EXCEPT !.next = c] /\ t[Len(s) + 1] = Call(c, 0)
  BY PushedStack
<1>. HIDE DEF t
<1>3. t[Len(s)].next = c
  <2>1. s[Len(s)] \in Calls
    BY <1>1, ElementOfSeq
  <2>. QED
    BY <1>0, <2>1 DEF Calls
<1>7. \A k \in 1 .. Len(t) : k \in 1 .. (Len(s) - 1) \/ k = Len(s) \/ k = Len(s) + 1
  BY <1>0, <1>1
<1>8. /\ Len(s) \in 1 .. Len(t) /\ Len(s) \in 1 .. Len(s)
      /\ \A k \in 1 .. (Len(s) - 1) : k \in 1 .. Len(t) /\ k \in 1 .. Len(s)
      /\ \A k \in 1 .. Len(s) : k \in 1 .. Len(t) /\ (k \in 1 .. (Len(s) - 1) \/ k = Len(s))
  BY <1>0, <1>1
<1>9. t[Len(s) + 1].next # d
  BY <1>0, <1>2
<1>4. CASE d = c
  <2>1. CallsFor(t, d) = CallsFor(s, d) \cup {Len(s)} /\ Len(s) \notin CallsFor(s, d)
    BY <1>0, <1>1, <1>3, <1>4, <1>7, <1>8, <1>9 DEF CallsFor
  <2>. QED
    BY <1>4, <2>1, CallsForFinite, FS_AddElement DEF t
<1>5. CASE d # c
  <2>1. CallsFor(t, d) = CallsFor(s, d)
    BY <1>0, <1>1, <1>3, <1>5, <1>7, <1>8, <1>9 DEF CallsFor
  <2>. QED
    BY <1>5, <2>1, CallsForFinite DEF t
<1>. QED
  BY <1>4, <1>5

\* One that returns, or whose elimination is done, is one less.
LEMMA CallsAfterReturn ==
  ASSUME NEW s \in Seq(Calls), s # <<>>, NEW t \in Seq(Calls), NEW d \in Pivot,
         \A k \in 1 .. (Len(s) - 1) : t[k] = s[k],
         \/ Len(t) = Len(s) - 1
         \/ Len(t) = Len(s) /\ t[Len(s)].next = None
  PROVE  Cardinality(CallsFor(t, d)) =
           Cardinality(CallsFor(s, d)) - (IF d = s[Len(s)].next THEN 1 ELSE 0)
<1>1. Len(s) \in Nat \ {0} /\ d # None
  BY EmptySeq, PivotAssumption
<1>2. CallsFor(t, d) = CallsFor(s, d) \ {Len(s)}
  BY <1>1 DEF CallsFor
<1>3. Len(s) \in CallsFor(s, d) <=> d = s[Len(s)].next
  BY <1>1 DEF CallsFor
<1>4. IsFiniteSet(CallsFor(s, d)) /\ Cardinality(CallsFor(s, d)) \in Nat
  BY CallsForFinite
<1>5. Cardinality(CallsFor(s, d) \ {Len(s)}) =
        IF Len(s) \in CallsFor(s, d) THEN Cardinality(CallsFor(s, d)) - 1
        ELSE Cardinality(CallsFor(s, d))
  BY <1>4, FS_RemoveElement
<1>. QED
  BY <1>2, <1>3, <1>4, <1>5

\* One that goes on to look is none for anybody.
LEMMA CallsUnchanged ==
  ASSUME NEW s \in Seq(Calls), s # <<>>, NEW t \in Seq(Calls), NEW d \in Pivot,
         Len(t) = Len(s), \A k \in 1 .. (Len(s) - 1) : t[k] = s[k],
         t[Len(s)].next = s[Len(s)].next
  PROVE  CallsFor(t, d) = CallsFor(s, d)
<1>1. Len(s) \in Nat \ {0}
  BY EmptySeq
<1>. QED
  BY <1>1 DEF CallsFor

-----------------------------------------------------------------------------
(* Types *)

\* The stack without the innermost call.
LEMMA LowerStack ==
  ASSUME TypeOK, stack # <<>>
  PROVE  /\ Lower \in Seq(Calls) /\ Len(Lower) = Len(stack) - 1
         /\ \A k \in 1 .. (Len(stack) - 1) : Lower[k] = stack[k]
         /\ Lower # <<>> <=> Len(stack) > 1
BY Popped DEF TypeOK, Lower

\* The stack when an elimination is done.
LEMMA ResetStack ==
  ASSUME TypeOK, stack # <<>>, NEW t, t = [stack EXCEPT ![Len(stack)].next = None]
  PROVE  /\ t \in Seq(Calls) /\ t # <<>> /\ Len(t) = Len(stack)
         /\ t[Len(stack)] = [Top EXCEPT !.next = None]
         /\ \A k \in 1 .. (Len(stack) - 1) : t[k] = stack[k]
<1>1. Top = stack[Len(stack)] /\ [Top EXCEPT !.next = None] \in Calls
  BY TopCall DEF Calls
<1>2. t = [stack EXCEPT ![Len(stack)] = [Top EXCEPT !.next = None]]
  BY <1>1
<1>3. stack \in Seq(Calls)
  BY DEF TypeOK
<1>. QED
  BY <1>1, <1>2, <1>3, ChangedStack

\* The stack when a search is widened.
LEMMA WidenedStack ==
  ASSUME TypeOK, stack # <<>>, NEW t, t = [stack EXCEPT ![Len(stack)].despair = @ + 1]
  PROVE  /\ t \in Seq(Calls) /\ t # <<>> /\ Len(t) = Len(stack)
         /\ t[Len(stack)] = [Top EXCEPT !.despair = @ + 1]
         /\ \A k \in 1 .. (Len(stack) - 1) : t[k] = stack[k]
<1>. DEFINE f == [Top EXCEPT !.despair = @ + 1]
<1>1. Top = stack[Len(stack)] /\ f \in Calls
  BY TopCall DEF Calls
<1>2. t = [stack EXCEPT ![Len(stack)] = f]
  BY <1>1
<1>3. stack \in Seq(Calls)
  BY DEF TypeOK
<1>. HIDE DEF f
<1>4. /\ t \in Seq(Calls) /\ t # <<>> /\ Len(t) = Len(stack) /\ t[Len(stack)] = f
      /\ \A k \in 1 .. (Len(stack) - 1) : t[k] = stack[k]
  BY <1>1, <1>2, <1>3, ChangedStack
<1>. QED
  BY <1>4 DEF f

\* Only zeros are deleted, and never the pivot's own edge.
LEMMA DeletedZeros ==
  ASSUME NEW i \in Pivot, NEW d, NEW found, NEW Z \in Deletions(Zeros(i, d), found)
  PROVE  \A c \in Z : c # i /\ Entry(row[i], c) = 0
<1>1. Z \subseteq Zeros(i, d)
  BY DEF Deletions
<1>. QED
  BY <1>1 DEF Zeros, Suitable, Entry

\* What is read in the next run is a row; of a solved pivot it is the normal form.
LEMMA ReloadedRow ==
  ASSUME TypeOK, NEW i \in Pivot
  PROVE  /\ Reloaded(i) \in Row
         /\ solved[i] => i \in DOMAIN Reloaded(i) /\ Reloaded(i)[i] = MinusOne
<1>. DEFINE H == Heads(row[i]) \ (IF solved[i] THEN {i} ELSE {})
            saved == Restrict(row[i], H)
<1>1. row[i] \in Row /\ H \subseteq DOMAIN row[i]
  BY DEF TypeOK, Heads
<1>2. saved = [c \in H |-> row[i][c]]
  BY DEF Restrict
<1>3. DOMAIN saved \subseteq Integral /\ \A c \in DOMAIN saved : saved[c] \in Coefficient
  BY <1>1, <1>2, RowMember
<1>4. saved \in Row
  BY <1>2, <1>3, RowMember
<1>. HIDE DEF saved
<1>5. MinusOne \in Coefficient /\ i \in Integral
  BY PrimeAssumption, PivotAssumption DEF MinusOne, Coefficient
<1>6. CASE solved[i] \/ DOMAIN saved = {}
  <2>. DEFINE s == [c \in DOMAIN saved \cup {i} |-> IF c = i THEN MinusOne ELSE saved[c]]
  <2>1. Reloaded(i) = s
    BY <1>6 DEF Reloaded, saved
  <2>2. DOMAIN s \subseteq Integral /\ (\A c \in DOMAIN s : s[c] \in Coefficient)
          /\ s = [c \in DOMAIN s |-> s[c]] /\ s[i] = MinusOne
    BY <1>3, <1>5
  <2>3. s \in Row
    BY <2>2, RowMember
  <2>. QED
    BY <2>1, <2>2, <2>3
<1>7. CASE ~solved[i] /\ DOMAIN saved # {}
  BY <1>4, <1>7 DEF Reloaded, saved
<1>. QED
  BY <1>6, <1>7

\* A call in progress is counted.
LEMMA NextConsidered ==
  ASSUME IInv, stack # <<>>, Top.next # None
  PROVE  Top.next \in Pivot /\ consideration[Top.next] \in Nat \ {0}
<1>1. TypeOK /\ ConsiderationExact
  BY DEF IInv
<1>2. Top.next \in Pivot /\ Len(stack) \in Nat \ {0} /\ Top = stack[Len(stack)]
  BY <1>1, TopCall
<1>3. Len(stack) \in CallsFor(stack, Top.next)
  BY <1>2 DEF CallsFor
<1>4. IsFiniteSet(CallsFor(stack, Top.next)) /\ Cardinality(CallsFor(stack, Top.next)) \in Nat
  BY <1>1, CallsForFinite DEF TypeOK
<1>5. Cardinality(CallsFor(stack, Top.next)) # 0
  BY <1>3, <1>4, FS_EmptySet
<1>6. consideration[Top.next] = Cardinality(CallsFor(stack, Top.next))
                                  + (IF request = Top.next THEN 1 ELSE 0)
  BY <1>1, <1>2 DEF ConsiderationExact, CallsFor
<1>. QED
  BY <1>2, <1>4, <1>5, <1>6

\* Every step keeps the types.
LEMMA TypeStep ==
  ASSUME IInv, Next
  PROVE  TypeOK'
<1>0. TypeOK
  BY DEF IInv
<1>1. CASE Eliminate
  <2>1. PICK c \in Candidates(Top.pivot, Top.despair) :
          /\ \E Z \in Deletions(Zeros(Top.pivot, Top.despair), TRUE) :
               row' = [row EXCEPT ![Top.pivot] = Without(@, Z)]
          /\ solved'  = [solved EXCEPT ![Top.pivot] = FALSE]
          /\ touched' = [touched EXCEPT ![Top.pivot] = FALSE]
          /\ consideration' = [consideration EXCEPT ![c] = @ + 1]
          /\ stack' = Pushed(stack, c)
    BY <1>1 DEF Eliminate, Pushed
  <2>2. c \in Pivot /\ stack # <<>> /\ Top.pivot \in Pivot
    BY <1>0, <1>1, TopCall DEF Eliminate, Searching, Candidates, Suitable
  <2>3. row' \in [Pivot -> Row]
    <3>1. PICK Z : row' = [row EXCEPT ![Top.pivot] = Without(@, Z)]
      BY <2>1
    <3>. QED
      BY <1>0, <2>2, <3>1, WithoutRow DEF TypeOK
  <2>4. stack' \in Seq(Calls)
    BY <1>0, <2>1, <2>2, PushedStack DEF TypeOK
  <2>5. /\ solved' \in [Pivot -> BOOLEAN] /\ touched' \in [Pivot -> BOOLEAN]
        /\ consideration' \in [Pivot -> Nat]
    BY <1>0, <2>1, <2>2 DEF TypeOK
  <2>. QED
    BY <1>0, <1>1, <2>3, <2>4, <2>5 DEF TypeOK, Eliminate
<1>2. CASE Eliminated
  <2>1. /\ stack # <<>> /\ Top.pivot \in Pivot /\ Top.next \in Pivot
        /\ consideration[Top.next] \in Nat \ {0}
    BY <1>0, <1>2, TopCall, NextConsidered DEF Eliminated
  <2>2. consideration' \in [Pivot -> Nat]
    BY <1>0, <1>2, <2>1 DEF Eliminated, TypeOK
  <2>3. row' \in [Pivot -> Row]
    <3>1. Relay(row[Top.pivot], row[Top.next], Top.next) \in Row
      BY <1>0, <2>1, RelayRow DEF TypeOK
    <3>. QED
      BY <1>0, <1>2, <2>1, <3>1 DEF Eliminated, TypeOK
  <2>4. stack' \in Seq(Calls)
    BY <1>0, <1>2, <2>1, LowerStack, ResetStack DEF Eliminated
  <2>5. touched' \in [Pivot -> BOOLEAN]
    BY <1>0, <1>2 DEF Eliminated, TypeOK
  <2>. QED
    BY <1>0, <1>2, <2>2, <2>3, <2>4, <2>5 DEF TypeOK, Eliminated
<1>3. CASE Conclude
  <2>1. stack # <<>> /\ Top.pivot \in Pivot
    BY <1>0, <1>3, TopCall DEF Conclude, Searching
  <2>2. PICK Z : LET r == Without(row[Top.pivot], Z) IN
                   Unmodified(Top.pivot, r) \/ Solvable(Top.pivot, r)
                     \/ Widen(Top.pivot, r) \/ GiveUp(Top.pivot, r)
    BY <1>3 DEF Conclude
  <2>. DEFINE i == Top.pivot
              r == Without(row[i], Z)
  <2>3. r \in Row
    BY <1>0, <2>1, WithoutRow DEF TypeOK
  <2>. HIDE DEF r
  <2>4. row' \in [Pivot -> Row]
    <3>1. CASE Unmodified(i, r) \/ Widen(i, r) \/ GiveUp(i, r)
      BY <1>0, <2>1, <2>3, <3>1 DEF Unmodified, Widen, GiveUp, TypeOK
    <3>2. CASE Solvable(i, r)
      <4>1. Normalize(r, i) \in Row
        BY <2>3, <3>2, NormalizeRow DEF Solvable
      <4>. QED
        BY <1>0, <2>1, <3>2, <4>1 DEF Solvable, TypeOK
    <3>. QED
      BY <2>2, <3>1, <3>2 DEF r
  <2>5. stack' \in Seq(Calls)
    <3>1. CASE Unmodified(i, r) \/ Solvable(i, r) \/ GiveUp(i, r)
      BY <1>0, <2>1, <3>1, LowerStack DEF Unmodified, Solvable, GiveUp, TypeOK
    <3>2. CASE Widen(i, r)
      BY <1>0, <2>1, <3>2, WidenedStack DEF Widen
    <3>. QED
      BY <2>2, <3>1, <3>2 DEF r
  <2>6. solved' \in [Pivot -> BOOLEAN] /\ aborted' \in BOOLEAN
    BY <1>0, <2>2 DEF Unmodified, Solvable, Widen, GiveUp, TypeOK
  <2>. QED
    BY <1>0, <1>3, <2>4, <2>5, <2>6 DEF TypeOK, Conclude
<1>4. CASE Interrupted
  <2>1. stack # <<>> /\ Top.pivot \in Pivot
    BY <1>0, <1>4, TopCall DEF Interrupted, Searching
  <2>2. PICK Z : row' = [row EXCEPT ![Top.pivot] = Without(@, Z)]
    BY <1>4 DEF Interrupted
  <2>3. row' \in [Pivot -> Row]
    BY <1>0, <2>1, <2>2, WithoutRow DEF TypeOK
  <2>4. stack' \in Seq(Calls)
    BY <1>0, <1>4, <2>1, LowerStack DEF Interrupted
  <2>. QED
    BY <1>0, <1>4, <2>3, <2>4 DEF TypeOK, Interrupted, metaVars
<1>5. ASSUME NEW i \in Pivot, Solve(i) PROVE TypeOK'
  <2>1. Call(i, 1) \in Calls
    BY DEF Call, Calls
  <2>2. stack' \in Seq(Calls)
    BY <1>5, <2>1 DEF Solve
  <2>3. consideration' \in [Pivot -> Nat] /\ request' \in Pivot
    BY <1>0, <1>5 DEF Solve, TypeOK
  <2>. QED
    BY <1>0, <1>5, <2>2, <2>3 DEF TypeOK, Solve
<1>6. CASE Solved
  <2>1. request \in Pivot
    BY <1>0, <1>6 DEF Solved, TypeOK
  <2>2. consideration' \in [Pivot -> Nat]
    BY <1>0, <1>6 DEF Solved, TypeOK
  <2>3. Restrict(row[request], Heads(row[request])) \in Row
    <3>1. row[request] \in Row
      BY <1>0, <2>1 DEF TypeOK
    <3>2. Restrict(row[request], Heads(row[request])) =
            [c \in Heads(row[request]) |-> row[request][c]]
      BY DEF Restrict
    <3>. QED
      BY <3>1, <3>2, RowMember DEF Heads
  <2>4. row' \in [Pivot -> Row]
    BY <1>0, <1>6, <2>1, <2>3 DEF Solved, TypeOK
  <2>. QED
    BY <1>0, <1>6, <2>2, <2>4 DEF TypeOK, Solved
<1>7. CASE Restart
  <2>1. row' \in [Pivot -> Row]
    BY <1>0, <1>7, ReloadedRow DEF Restart
  <2>2. /\ order' \in [Pivot -> Nat] /\ touched' \in [Pivot -> BOOLEAN]
        /\ consideration' \in [Pivot -> Nat]
    BY <1>0, <1>7 DEF Restart, TypeOK
  <2>. QED
    BY <1>0, <1>7, <2>1, <2>2 DEF TypeOK, Restart
<1>8. CASE Signal
  BY <1>0, <1>8 DEF Signal, TypeOK, metaVars
<1>9. CASE Ended
  BY <1>0, <1>9 DEF Ended, TypeOK, vars, metaVars
<1>. QED
  BY <1>1, <1>2, <1>3, <1>4, <1>5, <1>6, <1>7, <1>8, <1>9 DEF Next, Step

-----------------------------------------------------------------------------
(* The recursion *)

\* How a step of cks() changes the stack: a call begins, ends, has its elimination done, is
\* widened, or the program ends.
Begins == \E c \in Pivot : /\ stack' = Pushed(stack, c) /\ Top.next = None /\ c # Top.pivot
                           /\ consideration' = [consideration EXCEPT ![c] = @ + 1]
Ends == /\ stack' = Lower
        /\ consideration' = IF Top.next = None THEN consideration
                            ELSE [consideration EXCEPT ![Top.next] = @ - 1]
Resets == /\ stack' = [stack EXCEPT ![Len(stack)].next = None]
          /\ consideration' = [consideration EXCEPT ![Top.next] = @ - 1] /\ Top.next # None
Widens == /\ stack' = [stack EXCEPT ![Len(stack)].despair = @ + 1]
          /\ consideration' = consideration
Stays  == stack' = stack /\ consideration' = consideration

LEMMA StackStep ==
  ASSUME TypeOK, Step
  PROVE  /\ stack # <<>> /\ request' = request
         /\ Begins \/ Ends \/ Resets \/ Widens \/ Stays
<1>1. CASE Eliminate
  <2>1. PICK c \in Candidates(Top.pivot, Top.despair) :
          /\ consideration' = [consideration EXCEPT ![c] = @ + 1]
          /\ stack' = Pushed(stack, c)
    BY <1>1 DEF Eliminate, Pushed
  <2>2. c \in Pivot /\ c # Top.pivot
    BY <2>1 DEF Candidates, Suitable
  <2>. QED
    BY <1>1, <2>1, <2>2 DEF Eliminate, Searching, Begins
<1>2. CASE Eliminated
  BY <1>2 DEF Eliminated, Ends, Resets
<1>3. CASE Conclude
  <2>1. PICK r : Unmodified(Top.pivot, r) \/ Solvable(Top.pivot, r) \/ Widen(Top.pivot, r)
                   \/ GiveUp(Top.pivot, r)
    BY <1>3 DEF Conclude
  <2>. QED
    BY <1>3, <2>1 DEF Conclude, Searching, Unmodified, Solvable, Widen, GiveUp, Ends, Widens,
                      Stays
<1>4. CASE Interrupted
  BY <1>4 DEF Interrupted, Searching, Ends, metaVars
<1>. QED
  BY <1>1, <1>2, <1>3, <1>4 DEF Step

\* The considerations keep counting the calls.
LEMMA ConsiderationStep ==
  ASSUME IInv, Next, TypeOK'
  PROVE  ConsiderationExact'
<1>0. TypeOK /\ stack \in Seq(Calls) /\ stack' \in Seq(Calls) /\ consideration \in [Pivot -> Nat]
  BY DEF IInv, TypeOK
<1>. SUFFICES ASSUME NEW d \in Pivot
              PROVE  consideration'[d] = Cardinality(CallsFor(stack', d))
                                           + (IF request' = d THEN 1 ELSE 0)
  BY DEF ConsiderationExact, CallsFor
<1>1. consideration[d] = Cardinality(CallsFor(stack, d)) + (IF request = d THEN 1 ELSE 0)
  BY DEF IInv, ConsiderationExact, CallsFor
<1>2. Cardinality(CallsFor(stack, d)) \in Nat /\ Cardinality(CallsFor(stack', d)) \in Nat
  BY <1>0, CallsForFinite
<1>3. d # None /\ Cardinality(CallsFor(<<>>, d)) = 0
  <2>1. CallsFor(<<>>, d) = {}
    BY DEF CallsFor
  <2>. QED
    BY <2>1, PivotAssumption, FS_EmptySet
<1>4. CASE Step
  <2>0. /\ stack # <<>> /\ request' = request /\ Top = stack[Len(stack)]
        /\ Len(stack) \in Nat \ {0} /\ Top \in Calls
    BY <1>0, <1>4, StackStep, TopCall
  <2>1. CASE Begins
    <3>1. PICK c \in Pivot : /\ stack' = Pushed(stack, c) /\ Top.next = None
                             /\ consideration' = [consideration EXCEPT ![c] = @ + 1]
      BY <2>1 DEF Begins
    <3>2. Cardinality(CallsFor(stack', d)) =
            Cardinality(CallsFor(stack, d)) + (IF d = c THEN 1 ELSE 0)
      BY <1>0, <2>0, <3>1, CallsAfterPush
    <3>3. consideration'[d] = consideration[d] + (IF d = c THEN 1 ELSE 0)
      BY <1>0, <3>1
    <3>. QED
      BY <1>1, <1>2, <2>0, <3>2, <3>3
  <2>2. CASE Ends \/ Resets
    <3>1. /\ \A k \in 1 .. (Len(stack) - 1) : stack'[k] = stack[k]
          /\ \/ Len(stack') = Len(stack) - 1
             \/ Len(stack') = Len(stack) /\ stack'[Len(stack)].next = None
      <4>1. CASE Ends
        BY <1>0, <2>0, <4>1, LowerStack DEF Ends
      <4>2. CASE Resets
        <5>1. /\ Len(stack') = Len(stack) /\ stack'[Len(stack)] = [Top EXCEPT !.next = None]
              /\ \A k \in 1 .. (Len(stack) - 1) : stack'[k] = stack[k]
          BY <1>0, <2>0, <4>2, ResetStack DEF Resets
        <5>. QED
          BY <2>0, <5>1 DEF Calls
      <4>. QED
        BY <2>2, <4>1, <4>2
    <3>2. Cardinality(CallsFor(stack', d)) =
            Cardinality(CallsFor(stack, d)) - (IF d = Top.next THEN 1 ELSE 0)
      BY <1>0, <2>0, <3>1, CallsAfterReturn
    <3>3. consideration'[d] = consideration[d] - (IF d = Top.next THEN 1 ELSE 0)
      BY <1>0, <1>3, <2>2 DEF Ends, Resets
    <3>. QED
      BY <1>1, <1>2, <2>0, <3>2, <3>3
  <2>3. CASE Widens
    <3>1. /\ Len(stack') = Len(stack) /\ stack'[Len(stack)] = [Top EXCEPT !.despair = @ + 1]
          /\ \A k \in 1 .. (Len(stack) - 1) : stack'[k] = stack[k]
      BY <1>0, <2>0, <2>3, WidenedStack DEF Widens
    <3>2. stack'[Len(stack)].next = stack[Len(stack)].next
      BY <2>0, <3>1 DEF Calls
    <3>3. CallsFor(stack', d) = CallsFor(stack, d)
      BY <1>0, <2>0, <3>1, <3>2, CallsUnchanged
    <3>. QED
      BY <1>1, <2>0, <2>3, <3>3 DEF Widens
  <2>4. CASE Stays
    BY <1>1, <2>0, <2>4 DEF Stays
  <2>. QED
    BY <1>0, <1>4, <2>1, <2>2, <2>3, <2>4, StackStep
<1>5. ASSUME NEW i \in Pivot, Solve(i)
      PROVE  consideration'[d] = Cardinality(CallsFor(stack', d))
                                   + (IF request' = d THEN 1 ELSE 0)
  <2>1. /\ stack = <<>> /\ request = None /\ request' = i /\ stack' = <<Call(i, 1)>>
        /\ consideration' = [consideration EXCEPT ![i] = 1]
    BY <1>5 DEF Solve
  <2>2. CallsFor(stack', d) = {}
    BY <1>3, <2>1 DEF CallsFor, Call
  <2>3. Cardinality(CallsFor(stack', d)) = 0
    BY <2>2, FS_EmptySet
  <2>4. consideration[d] = 0
    BY <1>1, <1>3, <2>1
  <2>. QED
    BY <1>0, <2>1, <2>3, <2>4
<1>6. CASE Solved
  BY <1>0, <1>1, <1>3, <1>6 DEF Solved, TypeOK
<1>7. CASE Restart
  BY <1>3, <1>7 DEF Restart
<1>8. CASE Signal \/ Ended
  BY <1>1, <1>8 DEF Signal, Ended, vars, metaVars
<1>. QED
  BY <1>4, <1>5, <1>6, <1>7, <1>8 DEF Next

\* The calls stay nested, and the outermost one the one that was asked for.
LEMMA NestingStep ==
  ASSUME IInv, Next, TypeOK'
  PROVE  CallsNested' /\ CallRequested'
<1>0. /\ TypeOK /\ stack \in Seq(Calls) /\ stack' \in Seq(Calls)
      /\ CallsNested /\ CallRequested
  BY DEF IInv, TypeOK
<1>1. CASE Step
  <2>0. /\ stack # <<>> /\ request' = request /\ Top = stack[Len(stack)]
        /\ Len(stack) \in Nat \ {0} /\ Top \in Calls
    BY <1>0, <1>1, StackStep, TopCall
  <2>. DEFINE n == Len(stack)
  <2>1. /\ \A k \in 1 .. (n - 1) : stack'[k] = stack[k]
        /\ \/ Len(stack') = n - 1
           \/ /\ Len(stack') = n /\ stack'[n].pivot = Top.pivot
              /\ stack'[n].despair >= Top.despair
           \/ /\ Len(stack') = n + 1 /\ stack'[n].pivot = Top.pivot
              /\ stack'[n].despair = Top.despair /\ stack'[n].next = stack'[n + 1].pivot
    <3>1. CASE Begins
      <4>1. PICK c \in Pivot : stack' = Pushed(stack, c)
        BY <3>1 DEF Begins
      <4>2. /\ Len(stack') = n + 1 /\ stack'[n] = [stack[n] EXCEPT !.next = c]
            /\ stack'[n + 1] = Call(c, 0) /\ \A k \in 1 .. (n - 1) : stack'[k] = stack[k]
        BY <1>0, <2>0, <4>1, PushedStack
      <4>3. stack'[n + 1].pivot = c
        BY <4>2 DEF Call
      <4>4. stack'[n].pivot = Top.pivot /\ stack'[n].despair = Top.despair
              /\ stack'[n].next = c
        BY <2>0, <4>2 DEF Calls
      <4>. QED
        BY <4>2, <4>3, <4>4
    <3>2. CASE Ends
      BY <1>0, <2>0, <3>2, LowerStack DEF Ends
    <3>3. CASE Resets
      <4>1. /\ Len(stack') = n /\ stack'[n] = [Top EXCEPT !.next = None]
            /\ \A k \in 1 .. (n - 1) : stack'[k] = stack[k]
        BY <1>0, <2>0, <3>3, ResetStack DEF Resets
      <4>2. stack'[n].pivot = Top.pivot /\ stack'[n].despair = Top.despair
              /\ Top.despair \in Nat
        BY <2>0, <4>1 DEF Calls
      <4>. QED
        BY <4>1, <4>2
    <3>4. CASE Widens
      <4>1. /\ Len(stack') = n /\ stack'[n] = [Top EXCEPT !.despair = @ + 1]
            /\ \A k \in 1 .. (n - 1) : stack'[k] = stack[k]
        BY <1>0, <2>0, <3>4, WidenedStack DEF Widens
      <4>2. stack'[n].pivot = Top.pivot /\ stack'[n].despair = Top.despair + 1
              /\ Top.despair \in Nat
        BY <2>0, <4>1 DEF Calls
      <4>. QED
        BY <4>1, <4>2
    <3>5. CASE Stays
      <4>1. Top.despair \in Nat
        BY <2>0 DEF Calls
      <4>. QED
        BY <2>0, <3>5, <4>1 DEF Stays
    <3>. QED
      BY <1>0, <1>1, <3>1, <3>2, <3>3, <3>4, <3>5, StackStep
  <2>2. CallsNested'
    <3>. SUFFICES ASSUME NEW k \in 1 .. (Len(stack') - 1)
                  PROVE  stack'[k].next = stack'[k + 1].pivot
      BY DEF CallsNested
    <3>1. k \in 1 .. n
      BY <2>0, <2>1
    <3>2. CASE k < n - 1
      <4>1. k \in 1 .. (n - 1) /\ k + 1 \in 1 .. (n - 1)
        BY <2>0, <3>1, <3>2
      <4>. QED
        BY <1>0, <2>1, <4>1 DEF CallsNested
    <3>3. CASE k = n - 1
      <4>1. k \in 1 .. (n - 1) /\ k + 1 = n /\ Len(stack') # n - 1
        BY <2>0, <3>1, <3>3
      <4>2. stack[k].next = stack[n].pivot
        BY <1>0, <4>1 DEF CallsNested
      <4>. QED
        BY <2>0, <2>1, <4>1, <4>2
    <3>4. CASE k = n
      <4>1. Len(stack') # n /\ Len(stack') # n - 1
        BY <2>0, <3>4
      <4>. QED
        BY <2>1, <3>4, <4>1
    <3>. QED
      BY <2>0, <3>1, <3>2, <3>3, <3>4
  <2>3. CallRequested'
    <3>. SUFFICES ASSUME stack' # <<>>
                  PROVE  request' # None /\ stack'[1].pivot = request' /\ stack'[1].despair > 0
      BY DEF CallRequested
    <3>1. request # None /\ stack[1].pivot = request /\ stack[1].despair > 0
      BY <1>0, <2>0 DEF CallRequested
    <3>2. Len(stack') # 0
      BY <1>0, EmptySeq
    <3>3. CASE n = 1
      <4>1. Top.despair \in Nat
        BY <2>0 DEF Calls
      <4>2. stack'[1].pivot = Top.pivot /\ stack'[1].despair >= Top.despair
        BY <2>0, <2>1, <3>2, <3>3, <4>1
      <4>3. stack'[1].despair \in Int
        <5>1. Len(stack') \in Nat /\ 1 \in 1 .. Len(stack')
          BY <1>0, <3>2, EmptySeq
        <5>2. stack'[1] \in Calls
          BY <1>0, <5>1, ElementOfSeq
        <5>. QED
          BY <5>2 DEF Calls
      <4>4. stack[1] = Top
        BY <2>0, <3>3
      <4>. DEFINE d == Top.despair
                  e == stack'[1].despair
      <4>5. d \in Nat /\ e \in Int /\ e >= d /\ d > 0
        BY <3>1, <4>1, <4>2, <4>3, <4>4
      <4>. HIDE DEF d, e
      <4>6. e > 0
        BY <4>5
      <4>. QED
        BY <2>0, <3>1, <4>2, <4>4, <4>6 DEF e
    <3>4. CASE n # 1
      <4>1. 1 \in 1 .. (n - 1)
        <5>1. n \in Nat /\ n # 0
          BY <2>0
        <5>. HIDE DEF n
        <5>. QED
          BY <3>4, <5>1
      <4>. QED
        BY <2>0, <2>1, <3>1, <4>1
    <3>. QED
      BY <3>3, <3>4
  <2>. QED
    BY <2>2, <2>3
<1>2. ASSUME NEW i \in Pivot, Solve(i) PROVE CallsNested' /\ CallRequested'
  <2>1. stack' = <<Call(i, 1)>> /\ request' = i /\ i # None
    BY <1>2, PivotAssumption DEF Solve
  <2>. QED
    BY <2>1 DEF CallsNested, CallRequested, Call
<1>3. CASE Solved \/ Restart \/ Signal \/ Ended
  BY <1>0, <1>3 DEF Solved, Restart, Signal, Ended, vars, CallsNested, CallRequested
<1>. QED
  BY <1>1, <1>2, <1>3 DEF Next

\* And no call is for its own pivot.
LEMMA NoneFromItselfStep ==
  ASSUME IInv, Next, TypeOK'
  PROVE  NoneFromItself'
<1>0. /\ TypeOK /\ stack \in Seq(Calls) /\ stack' \in Seq(Calls) /\ NoneFromItself
  BY DEF IInv, TypeOK
<1>1. CASE Step
  <2>0. /\ stack # <<>> /\ Top = stack[Len(stack)] /\ Top \in Calls /\ Top.pivot # None
        /\ Len(stack) \in Nat /\ Len(stack) # 0
    BY <1>0, <1>1, StackStep, TopCall, PivotAssumption
  <2>. DEFINE n == Len(stack)
  <2>1. /\ \A k \in 1 .. (n - 1) : stack[k].next # stack[k].pivot
        /\ Top.next # Top.pivot
    BY <1>0, <2>0 DEF NoneFromItself
  <2>2. CASE Begins
    <3>1. PICK c \in Pivot : stack' = Pushed(stack, c) /\ c # Top.pivot
      BY <2>2 DEF Begins
    <3>2. /\ Len(stack') = n + 1 /\ stack'[n] = [stack[n] EXCEPT !.next = c]
          /\ stack'[n + 1] = Call(c, 0) /\ \A k \in 1 .. (n - 1) : stack'[k] = stack[k]
      BY <1>0, <2>0, <3>1, PushedStack
    <3>3. stack'[n + 1].pivot = c /\ stack'[n + 1].next = None /\ c # None
      BY <3>2, PivotAssumption DEF Call
    <3>4. stack'[n].pivot = Top.pivot /\ stack'[n].next = c
      BY <2>0, <3>2 DEF Calls
    <3>5. \A k \in 1 .. Len(stack') : k \in 1 .. (n - 1) \/ k = n \/ k = n + 1
      BY <2>0, <3>2
    <3>. QED
      BY <2>1, <3>1, <3>2, <3>3, <3>4, <3>5 DEF NoneFromItself
  <2>3. CASE Ends
    <3>1. Len(stack') = n - 1 /\ \A k \in 1 .. (n - 1) : stack'[k] = stack[k]
      BY <1>0, <2>0, <2>3, LowerStack DEF Ends
    <3>. QED
      BY <2>1, <3>1 DEF NoneFromItself
  <2>4. CASE Resets \/ Widens
    <3>1. /\ Len(stack') = n /\ \A k \in 1 .. (n - 1) : stack'[k] = stack[k]
          /\ \/ stack'[n] = [Top EXCEPT !.next = None]
             \/ stack'[n] = [Top EXCEPT !.despair = @ + 1]
      BY <1>0, <2>0, <2>4, ResetStack, WidenedStack DEF Resets, Widens
    <3>2. stack'[n].pivot = Top.pivot /\ stack'[n].next \in {None, Top.next}
      BY <2>0, <3>1 DEF Calls
    <3>3. \A k \in 1 .. n : k \in 1 .. (n - 1) \/ k = n
      BY <2>0
    <3>. QED
      BY <2>0, <2>1, <3>1, <3>2, <3>3 DEF NoneFromItself
  <2>5. CASE Stays
    BY <1>0, <2>5 DEF Stays, NoneFromItself
  <2>. QED
    BY <1>0, <1>1, <2>2, <2>3, <2>4, <2>5, StackStep
<1>2. ASSUME NEW i \in Pivot, Solve(i) PROVE NoneFromItself'
  BY <1>2, PivotAssumption DEF Solve, NoneFromItself, Call
<1>3. CASE Solved \/ Restart \/ Signal \/ Ended
  BY <1>0, <1>3 DEF Solved, Restart, Signal, Ended, vars, NoneFromItself
<1>. QED
  BY <1>1, <1>2, <1>3 DEF Next

-----------------------------------------------------------------------------
(* What is solved *)

\* The form of a solved pivot, for any row.
NormalForm(r, i) == Entry(r, i) # 0 /\ (DOMAIN r # {i} => r[i] = MinusOne)

\* Deleting zeros keeps it.
LEMMA NormalAfterDeletion ==
  ASSUME NEW r \in Row, NEW i, NormalForm(r, i), NEW Z, \A c \in Z : c # i /\ Entry(r, c) = 0
  PROVE  NormalForm(Without(r, Z), i)
<1>. DEFINE w == Without(r, Z)
<1>1. DOMAIN w = DOMAIN r \ Z /\ \A c \in DOMAIN r \ Z : w[c] = r[c]
  BY WithoutRow
<1>. HIDE DEF w
<1>2. i \in DOMAIN r /\ r[i] # 0 /\ i \notin Z
  BY DEF NormalForm, Entry
<1>3. i \in DOMAIN w /\ w[i] = r[i]
  BY <1>1, <1>2
<1>4. ASSUME DOMAIN w # {i} PROVE w[i] = MinusOne
  <2>1. DOMAIN r # {i}
    BY <1>1, <1>2, <1>4
  <2>. QED
    BY <1>3, <2>1 DEF NormalForm
<1>5. NormalForm(w, i)
  BY <1>2, <1>3, <1>4 DEF NormalForm, Entry
<1>. QED
  BY <1>5 DEF w

\* What a call leaves behind that found nothing to eliminate: of what it could have
\* eliminated nothing is left in its pivot, and if it returns then the pivot is solved.
LEMMA Concluded ==
  ASSUME TypeOK, SolvedNormalized, Conclude, NEW i, i = Top.pivot
  PROVE  /\ stack # <<>> /\ Top.next = None /\ i \in Pivot
         /\ \A j \in Pivot \ {i} : row'[j] = row[j] /\ solved'[j] = solved[j]
         /\ \A c \in Pivot \ {i} :
              solved[c] \/ (Top.despair # 0 /\ Top.despair >= consideration[c])
                => Entry(row'[i], c) = 0
         /\ solved'[i] => NormalForm(row'[i], i)
         /\ \/ stack' = Lower /\ solved'[i]
            \/ stack' = [stack EXCEPT ![Len(stack)].despair = @ + 1]
            \/ stack' = stack
<1>1. stack # <<>> /\ Top.next = None /\ i \in Pivot
  BY TopCall DEF Conclude, Searching
<1>2. PICK Z \in Deletions(Zeros(i, Top.despair), FALSE) :
        LET r == Without(row[i], Z) IN
          Unmodified(i, r) \/ Solvable(i, r) \/ Widen(i, r) \/ GiveUp(i, r)
  BY DEF Conclude
<1>3. PICK r : r = Without(row[i], Z)
  OBVIOUS
<1>4. Unmodified(i, r) \/ Solvable(i, r) \/ Widen(i, r) \/ GiveUp(i, r)
  BY <1>2, <1>3
<1>5. row[i] \in Row /\ r \in Row
  BY <1>1, <1>3, WithoutRow DEF TypeOK
<1>6. \A c \in Z : c # i /\ Entry(row[i], c) = 0
  BY <1>1, <1>2, DeletedZeros
<1>7. ASSUME NEW c \in Pivot \ {i},
             solved[c] \/ (Top.despair # 0 /\ Top.despair >= consideration[c])
      PROVE  Entry(r, c) = 0
  <2>1. Candidates(i, Top.despair) = {}
    BY DEF Conclude
  <2>2. Entry(row[i], c) = 0
    BY <1>7, <2>1 DEF Candidates, Zeros, Suitable, Entry
  <2>. QED
    BY <1>3, <1>5, <1>6, <2>2, WithoutZeros
<1>8. /\ \A j \in Pivot \ {i} : row'[j] = row[j] /\ solved'[j] = solved[j]
      /\ \/ stack' = Lower /\ solved'[i]
         \/ stack' = [stack EXCEPT ![Len(stack)].despair = @ + 1]
         \/ stack' = stack
  BY <1>1, <1>4 DEF Unmodified, Solvable, Widen, GiveUp, TypeOK
<1>9. CASE Solvable(i, r)
  <2>1. row'[i] = Normalize(r, i)
    BY <1>1, <1>9 DEF Solvable, TypeOK
  <2>2. /\ Entry(Normalize(r, i), i) # 0
        /\ DOMAIN Normalize(r, i) # {i} => Normalize(r, i)[i] = MinusOne
        /\ \A c : c # i /\ Entry(r, c) = 0 => Entry(Normalize(r, i), c) = 0
    BY <1>5, <1>9, NormalizeRow DEF Solvable
  <2>3. NormalForm(row'[i], i)
    BY <2>1, <2>2 DEF NormalForm
  <2>4. \A c \in Pivot \ {i} : Entry(r, c) = 0 => Entry(row'[i], c) = 0
    BY <2>1, <2>2
  <2>. QED
    BY <1>1, <1>7, <1>8, <2>3, <2>4
<1>10. CASE Unmodified(i, r) \/ Widen(i, r) \/ GiveUp(i, r)
  <2>1. row'[i] = r
    BY <1>1, <1>10 DEF Unmodified, Widen, GiveUp, TypeOK
  <2>2. ASSUME solved'[i] PROVE NormalForm(r, i)
    <3>1. solved[i]
      BY <1>10, <2>2 DEF Unmodified, Widen, GiveUp
    <3>2. NormalForm(row[i], i)
      BY <1>1, <3>1 DEF SolvedNormalized, Normalized, NormalForm
    <3>. QED
      BY <1>3, <1>5, <1>6, <3>2, NormalAfterDeletion
  <2>. QED
    BY <1>1, <1>7, <1>8, <2>1, <2>2
<1>. QED
  BY <1>4, <1>9, <1>10

\* What is solved stays normalized, whatever is inserted into it or deleted from it.
LEMMA SolvedNormalizedStep ==
  ASSUME IInv, Next
  PROVE  SolvedNormalized'
<1>0. TypeOK /\ SolvedNormalized /\ ReturnedFree /\ NoneFromItself
  BY DEF IInv
<1>. SUFFICES ASSUME NEW j \in Pivot, solved'[j]
              PROVE  NormalForm(row'[j], j)
  BY DEF SolvedNormalized, Normalized, NormalForm
<1>1. solved[j] => NormalForm(row[j], j)
  BY <1>0 DEF SolvedNormalized, Normalized, NormalForm
<1>2. CASE Eliminate
  <2>1. j # Top.pivot
    BY <1>0, <1>2, TopCall DEF Eliminate, Searching, TypeOK
  <2>2. solved'[j] = solved[j] /\ row'[j] = row[j]
    BY <1>0, <1>2, <2>1 DEF Eliminate, TypeOK
  <2>. QED
    BY <1>1, <2>2
<1>3. CASE Eliminated
  <2>1. CASE row' = row
    BY <1>1, <1>3, <2>1 DEF Eliminated
  <2>2. CASE row' # row
    <3>. DEFINE i == Top.pivot
                n == Top.next
    <3>1. /\ stack # <<>> /\ ~terminate /\ n # None /\ solved' = solved
          /\ row' = [row EXCEPT ![i] = Relay(@, row[n], n)]
      BY <1>3, <2>2 DEF Eliminated
    <3>2. i \in Pivot /\ n \in Pivot /\ n # i
      BY <1>0, <3>1, TopCall DEF NoneFromItself
    <3>3. Entry(row[n], j) = 0 \/ j = n
      BY <1>0, <3>1 DEF ReturnedFree
    <3>4. CASE j = i
      <4>1. row'[j] = Relay(row[j], row[n], n)
        BY <1>0, <3>1, <3>2, <3>4 DEF TypeOK
      <4>2. row[j] \in Row /\ row[n] \in Row
        BY <1>0, <3>2 DEF TypeOK
      <4>3. NormalForm(row[j], j) /\ j # n /\ Entry(row[n], j) = 0
        BY <1>1, <3>1, <3>2, <3>3, <3>4
      <4>. HIDE DEF n, i
      <4>. QED
        BY <4>1, <4>2, <4>3, RelayNormalized DEF NormalForm
    <3>5. CASE j # i
      BY <1>0, <1>1, <3>1, <3>5 DEF TypeOK
    <3>. QED
      BY <3>4, <3>5
  <2>. QED
    BY <2>1, <2>2
<1>4. CASE Conclude
  <2>1. PICK i : i = Top.pivot
    OBVIOUS
  <2>2. /\ \A k \in Pivot \ {i} : row'[k] = row[k] /\ solved'[k] = solved[k]
        /\ solved'[i] => NormalForm(row'[i], i)
    BY <1>0, <1>4, <2>1, Concluded
  <2>. QED
    BY <1>1, <2>2
<1>5. CASE Interrupted
  <2>1. PICK found \in BOOLEAN : \E Z \in Deletions(Zeros(Top.pivot, Top.despair), found) :
          row' = [row EXCEPT ![Top.pivot] = Without(@, Z)]
    BY <1>5 DEF Interrupted
  <2>2. PICK Z \in Deletions(Zeros(Top.pivot, Top.despair), found) :
          row' = [row EXCEPT ![Top.pivot] = Without(@, Z)]
    BY <2>1
  <2>3. Top.pivot \in Pivot /\ solved' = solved
    BY <1>0, <1>5, TopCall DEF Interrupted, Searching, metaVars
  <2>4. CASE j = Top.pivot
    <3>1. \A c \in Z : c # j /\ Entry(row[j], c) = 0
      BY <2>2, <2>4, DeletedZeros
    <3>2. row'[j] = Without(row[j], Z) /\ row[j] \in Row /\ NormalForm(row[j], j)
      BY <1>0, <1>1, <2>2, <2>3, <2>4 DEF TypeOK
    <3>. QED
      BY <3>1, <3>2, NormalAfterDeletion
  <2>5. CASE j # Top.pivot
    BY <1>0, <1>1, <2>2, <2>3, <2>5 DEF TypeOK
  <2>. QED
    BY <2>4, <2>5
<1>6. CASE Solved
  <2>1. solved' = solved
    BY <1>6 DEF Solved
  <2>2. CASE row'[j] = row[j]
    BY <1>1, <2>1, <2>2
  <2>3. CASE row'[j] # row[j]
    <3>. DEFINE r == row[j]
                Z == DOMAIN r \ Heads(r)
    <3>1. row'[j] = Restrict(r, Heads(r)) /\ r \in Row /\ NormalForm(r, j)
      BY <1>0, <1>1, <1>6, <2>1, <2>3 DEF Solved, TypeOK
    <3>2. DOMAIN r \ Z = Heads(r)
      BY DEF Heads
    <3>3. row'[j] = Without(r, Z)
      BY <3>1, <3>2 DEF Without
    <3>4. \A c \in Z : c # j /\ Entry(r, c) = 0
      BY <3>1 DEF NormalForm, Entry, Heads
    <3>. HIDE DEF Z, r
    <3>. QED
      BY <3>1, <3>3, <3>4, NormalAfterDeletion
  <2>. QED
    BY <2>2, <2>3
<1>7. CASE Restart
  <2>1. solved[j] /\ row'[j] = Reloaded(j)
    BY <1>7 DEF Restart
  <2>2. j \in DOMAIN Reloaded(j) /\ Reloaded(j)[j] = MinusOne
    BY <1>0, <2>1, ReloadedRow
  <2>3. MinusOne # 0
    BY PrimeAssumption DEF MinusOne
  <2>. QED
    BY <2>1, <2>2, <2>3 DEF NormalForm, Entry
<1>8. CASE Signal \/ Ended \/ \E i \in Pivot : Solve(i)
  BY <1>1, <1>8 DEF Signal, Ended, Solve, vars, metaVars
<1>. QED
  BY <1>2, <1>3, <1>4, <1>5, <1>6, <1>7, <1>8 DEF Next, Step

\* What the call that returned had to solve is free of what is solved.
LEMMA ReturnedFreeStep ==
  ASSUME IInv, Next, TypeOK'
  PROVE  ReturnedFree'
<1>0. /\ TypeOK /\ SolvedNormalized /\ CallsNested /\ ReturnedFree
      /\ stack \in Seq(Calls) /\ stack' \in Seq(Calls)
  BY DEF IInv, TypeOK
<1>. SUFFICES ASSUME stack' # <<>>, stack'[Len(stack')].next # None, ~terminate'
              PROVE  /\ solved'[stack'[Len(stack')].next]
                     /\ \A c \in Pivot \ {stack'[Len(stack')].next} :
                          solved'[c] => Entry(row'[stack'[Len(stack')].next], c) = 0
  BY DEF ReturnedFree, Top
<1>1. CASE Eliminate
  <2>1. PICK c \in Candidates(Top.pivot, Top.despair) : stack' = Pushed(stack, c)
    BY <1>1 DEF Eliminate, Pushed
  <2>2. c \in Pivot /\ stack # <<>>
    BY <1>1, <2>1 DEF Eliminate, Searching, Candidates, Suitable
  <2>3. /\ Len(Pushed(stack, c)) = Len(stack) + 1
        /\ Pushed(stack, c)[Len(stack) + 1] = Call(c, 0)
    BY <1>0, <2>2, PushedStack
  <2>4. stack'[Len(stack')] = Call(c, 0)
    BY <2>1, <2>3
  <2>. QED
    BY <2>4 DEF Call
<1>2. CASE Eliminated
  <2>1. stack # <<>> /\ stack' = [stack EXCEPT ![Len(stack)].next = None]
    BY <1>2 DEF Eliminated
  <2>2. stack'[Len(stack')] = [Top EXCEPT !.next = None] /\ Top \in Calls
    BY <1>0, <2>1, ResetStack, TopCall
  <2>. QED
    BY <2>2 DEF Calls
<1>3. CASE Conclude
  <2>1. PICK i : i = Top.pivot
    OBVIOUS
  <2>2. /\ stack # <<>> /\ Top.next = None /\ i \in Pivot
        /\ \A j \in Pivot \ {i} : row'[j] = row[j] /\ solved'[j] = solved[j]
        /\ \A c \in Pivot \ {i} : solved[c] => Entry(row'[i], c) = 0
        /\ \/ stack' = Lower /\ solved'[i]
           \/ stack' = [stack EXCEPT ![Len(stack)].despair = @ + 1]
           \/ stack' = stack
    BY <1>0, <1>3, <2>1, Concluded
  <2>3. CASE stack' = Lower /\ solved'[i]
    <3>1. /\ Len(stack') = Len(stack) - 1 /\ Len(stack) > 1
          /\ \A k \in 1 .. (Len(stack) - 1) : stack'[k] = stack[k]
      BY <1>0, <2>2, <2>3, LowerStack
    <3>2. PICK n : n = Len(stack) - 1
      OBVIOUS
    <3>3. n \in 1 .. (Len(stack) - 1) /\ n + 1 = Len(stack) /\ Len(stack') = n
      BY <1>0, <3>1, <3>2, EmptySeq
    <3>4. stack'[Len(stack')].next = i
      <4>1. stack[n].next = stack[n + 1].pivot
        BY <1>0, <3>3 DEF CallsNested
      <4>. QED
        BY <2>1, <3>1, <3>3, <4>1 DEF Top
    <3>. QED
      BY <2>2, <2>3, <3>4
  <2>4. CASE stack' = [stack EXCEPT ![Len(stack)].despair = @ + 1]
    <3>1. stack'[Len(stack')] = [Top EXCEPT !.despair = @ + 1] /\ Top \in Calls
      BY <1>0, <2>2, <2>4, WidenedStack, TopCall
    <3>. QED
      BY <2>2, <3>1 DEF Calls
  <2>5. CASE stack' = stack
    BY <2>2, <2>5 DEF Top
  <2>. QED
    BY <2>2, <2>3, <2>4, <2>5
<1>4. CASE Interrupted \/ Signal
  BY <1>4 DEF Interrupted, Signal
<1>5. CASE Solved \/ Restart
  BY <1>5 DEF Solved, Restart
<1>6. ASSUME NEW i \in Pivot, Solve(i) PROVE FALSE
  BY <1>6 DEF Solve, Call
<1>7. CASE Ended
  BY <1>0, <1>7 DEF Ended, vars, metaVars, ReturnedFree, Top
<1>. QED
  BY <1>1, <1>2, <1>3, <1>4, <1>5, <1>6, <1>7 DEF Next, Step

\* When the outermost call returns nothing was left to eliminate: it is the only one, so
\* that its despair is enough for every other pivot.
LEMMA SolveCompleteStep ==
  ASSUME IInv, Next, TypeOK'
  PROVE  SolveComplete'
<1>0. /\ TypeOK /\ SolvedNormalized /\ SolveComplete /\ CallRequested /\ ConsiderationExact
      /\ stack \in Seq(Calls) /\ stack' \in Seq(Calls)
  BY DEF IInv, TypeOK
<1>. SUFFICES ASSUME stack' = <<>>, request' # None, ~terminate'
              PROVE  /\ Heads(row'[request']) \cap Pivot \subseteq {request'}
                     /\ NormalForm(row'[request'], request')
  BY DEF SolveComplete, Heads, Normalized, NormalForm
<1>1. CASE Eliminate
  <2>1. PICK c \in Candidates(Top.pivot, Top.despair) : stack' = Pushed(stack, c)
    BY <1>1 DEF Eliminate, Pushed
  <2>2. c \in Pivot /\ stack # <<>>
    BY <1>1, <2>1 DEF Eliminate, Searching, Candidates, Suitable
  <2>3. Pushed(stack, c) # <<>>
    BY <1>0, <2>2, PushedStack
  <2>. QED
    BY <2>1, <2>3
<1>2. CASE Eliminated
  <2>1. stack # <<>> /\ stack' = [stack EXCEPT ![Len(stack)].next = None]
    BY <1>2 DEF Eliminated
  <2>. QED
    BY <1>0, <2>1, ResetStack
<1>3. CASE Conclude
  <2>1. PICK i : i = Top.pivot
    OBVIOUS
  <2>2. /\ stack # <<>> /\ Top.next = None /\ i \in Pivot
        /\ \A c \in Pivot \ {i} : Top.despair # 0 /\ Top.despair >= consideration[c]
                                    => Entry(row'[i], c) = 0
        /\ solved'[i] => NormalForm(row'[i], i)
        /\ \/ stack' = Lower /\ solved'[i]
           \/ stack' = [stack EXCEPT ![Len(stack)].despair = @ + 1]
           \/ stack' = stack
    BY <1>0, <1>3, <2>1, Concluded
  <2>3. stack' = Lower /\ solved'[i]
    BY <1>0, <2>2, WidenedStack
  <2>4. Len(stack) = 1
    BY <1>0, <2>2, <2>3, LowerStack, EmptySeq
  <2>5. Top = stack[1] /\ request = i /\ Top.despair \in Nat \ {0} /\ request' = request
    <3>1. Top = stack[1] /\ Top.despair \in Nat
      BY <1>0, <2>2, <2>4, TopCall
    <3>2. stack[1].pivot = request /\ stack[1].despair > 0
      BY <1>0, <2>2 DEF CallRequested
    <3>. DEFINE d == Top.despair
    <3>3. d \in Nat /\ d > 0
      BY <3>1, <3>2
    <3>. HIDE DEF d
    <3>4. d \in Nat \ {0}
      BY <3>3
    <3>. QED
      BY <1>3, <2>1, <3>1, <3>2, <3>4 DEF Conclude, d
  <2>6. ASSUME NEW c \in Pivot \ {i} PROVE Entry(row'[i], c) = 0
    <3>1. CallsFor(stack, c) = {}
      BY <2>2, <2>4, <2>5, PivotAssumption DEF CallsFor
    <3>2. Cardinality(CallsFor(stack, c)) = 0
      BY <3>1, FS_EmptySet
    <3>3. consideration[c] = 0
      BY <1>0, <2>5, <3>2 DEF ConsiderationExact, CallsFor
    <3>4. Top.despair # 0 /\ Top.despair >= consideration[c]
      <4>. DEFINE d == Top.despair
      <4>1. d \in Nat \ {0}
        BY <2>5
      <4>. HIDE DEF d
      <4>2. d # 0 /\ d >= 0
        BY <4>1
      <4>. QED
        BY <3>3, <4>2 DEF d
    <3>. QED
      BY <2>2, <3>4
  <2>7. Heads(row'[i]) \cap Pivot \subseteq {i}
    BY <2>6 DEF Heads, Entry
  <2>. QED
    BY <2>2, <2>3, <2>5, <2>7
<1>4. CASE Interrupted \/ Signal
  BY <1>4 DEF Interrupted, Signal
<1>5. CASE Solved \/ Restart
  BY <1>5 DEF Solved, Restart
<1>6. ASSUME NEW i \in Pivot, Solve(i) PROVE FALSE
  BY <1>6 DEF Solve, Call
<1>7. CASE Ended
  BY <1>0, <1>7 DEF Ended, vars, metaVars, SolveComplete, Heads, Normalized, NormalForm
<1>. QED
  BY <1>1, <1>2, <1>3, <1>4, <1>5, <1>6, <1>7 DEF Next, Step

-----------------------------------------------------------------------------
(* Sums: the left hand side of an identity is a fold over a set.  Induction over      *)
(* finite sets is done by looking at a smallest counterexample.                        *)

Least(S) == CHOOSE c \in S : TRUE
Weighted(r, x, S) == MapThenSumSet(LAMBDA c : r[c] * x[c], S)

\* The recursive function it is defined with.
IsFold(g, r, x, Q) ==
  g = [s \in SUBSET Q |-> IF s = {} THEN 0
         ELSE r[Least(s)] * x[Least(s)] + g[s \ {Least(s)}]]

\* All terms are numbers.
Valued(r, x, S) == \A c \in S : r[c] \in Int /\ x[c] \in Int

\* Of finite sets there is a smallest one.
LEMMA SmallestSet ==
  ASSUME NEW B, NEW T, T \subseteq FiniteSubsetsOf(B), T # {}
  PROVE  \E Q \in T : \A R \in T : ~ (R \subseteq Q /\ R # Q)
<1>1. PICK Q \in T : \A R \in T : ~ (<<R, Q>> \in StrictSubsetOrdering(B))
  BY FS_StrictSubsetOrderingWellFounded, WFMin
<1>2. T \subseteq SUBSET B
  BY DEF FiniteSubsetsOf
<1>. QED BY <1>1, <1>2 DEF StrictSubsetOrdering

\* The term that is added next is one of them.
LEMMA LeastIn == \A S : S # {} => Least(S) \in S
  BY DEF Least

\* What the recursive function gives for a set, and that there is such a function for
\* finite sets, which agrees with that for a larger one.
LEMMA FoldStep ==
  ASSUME NEW g, NEW r, NEW x, NEW Q, IsFold(g, r, x, Q), NEW u, u \subseteq Q
  PROVE  /\ u = {} => g[u] = 0
         /\ u # {} => g[u] = r[Least(u)] * x[Least(u)] + g[u \ {Least(u)}]
<1>. u \in SUBSET Q
  OBVIOUS
<1>. QED BY DEF IsFold

LEMMA FoldsAgree ==
  ASSUME NEW r, NEW x, NEW S, NEW T, NEW g, NEW h, IsFold(g, r, x, S), IsFold(h, r, x, T)
  PROVE  \A u : IsFiniteSet(u) /\ u \subseteq S /\ u \subseteq T => g[u] = h[u]
<1>. DEFINE Bad == {u \in FiniteSubsetsOf(S \cap T) : g[u] # h[u]}
<1>1. ASSUME Bad # {} PROVE FALSE
  <2>1. PICK u \in Bad : \A v \in Bad : ~ (v \subseteq u /\ v # u)
    <3>1. Bad \subseteq FiniteSubsetsOf(S \cap T)
      OBVIOUS
    <3>. HIDE DEF Bad
    <3>. QED BY <1>1, <3>1, SmallestSet
  <2>2. u \subseteq S /\ u \subseteq T /\ IsFiniteSet(u) /\ g[u] # h[u]
    BY DEF FiniteSubsetsOf
  <2>3. u # {}
    BY <2>2, FoldStep
  <2>. DEFINE v == u \ {Least(u)}
  <2>4. v \subseteq u /\ v # u /\ IsFiniteSet(v)
    BY <2>2, <2>3, LeastIn, FS_RemoveElement
  <2>5. v \in FiniteSubsetsOf(S \cap T)
    BY <2>2, <2>4 DEF FiniteSubsetsOf
  <2>6. g[v] = h[v]
    BY <2>1, <2>4, <2>5
  <2>7. /\ g[u] = r[Least(u)] * x[Least(u)] + g[v]
        /\ h[u] = r[Least(u)] * x[Least(u)] + h[v]
    BY <2>2, <2>3, FoldStep
  <2>. QED BY <2>2, <2>6, <2>7
<1>2. ASSUME NEW u, IsFiniteSet(u), u \subseteq S, u \subseteq T PROVE g[u] = h[u]
  <2>1. u \in FiniteSubsetsOf(S \cap T)
    BY <1>2 DEF FiniteSubsetsOf
  <2>. QED BY <1>1, <2>1
<1>. QED BY <1>2

LEMMA FoldExists ==
  ASSUME NEW r, NEW x, NEW S, IsFiniteSet(S)
  PROVE  \E g : IsFold(g, r, x, S)
<1>. DEFINE Bad == {u \in FiniteSubsetsOf(S) : ~ \E g : IsFold(g, r, x, u)}
<1>1. ASSUME Bad # {} PROVE FALSE
  <2>1. PICK u \in Bad : \A v \in Bad : ~ (v \subseteq u /\ v # u)
    <3>1. Bad \subseteq FiniteSubsetsOf(S)
      OBVIOUS
    <3>. HIDE DEF Bad
    <3>. QED BY <1>1, <3>1, SmallestSet
  <2>2. u \subseteq S /\ IsFiniteSet(u) /\ ~ \E g : IsFold(g, r, x, u)
    BY DEF FiniteSubsetsOf
  <2>. DEFINE G(v) == CHOOSE g : IsFold(g, r, x, v)
              Low(v) == G(v)[v]
              g == [s \in SUBSET u |-> IF s = {} THEN 0
                      ELSE r[Least(s)] * x[Least(s)] + Low(s \ {Least(s)})]
  <2>3. ASSUME NEW v, v \subseteq u, v # u PROVE IsFold(G(v), r, x, v) /\ IsFiniteSet(v)
    <3>1. IsFiniteSet(v)
      BY <2>2, <2>3, FS_Subset
    <3>2. v \in FiniteSubsetsOf(S)
      BY <2>2, <2>3, <3>1 DEF FiniteSubsetsOf
    <3>3. \E f : IsFold(f, r, x, v)
      BY <2>1, <2>3, <3>2
    <3>. QED BY <3>1, <3>3
  <2>4. ASSUME NEW s, s \subseteq u, s # u PROVE g[s] = Low(s)
    <3>0. s \in SUBSET u
      BY <2>4
    <3>1. IsFold(G(s), r, x, s)
      BY <2>3, <2>4
    <3>2. CASE s = {}
      <4>. HIDE DEF G
      <4>1. G(s)[s] = 0
        BY <3>1, <3>2, FoldStep
      <4>. QED BY <3>0, <3>2, <4>1
    <3>3. CASE s # {}
      <4>. DEFINE v == s \ {Least(s)}
      <4>1. v \subseteq u /\ v # u /\ v \subseteq s
        BY <2>4, <3>3, LeastIn
      <4>2. IsFold(G(v), r, x, v) /\ IsFiniteSet(v)
        BY <2>3, <4>1
      <4>. HIDE DEF v, G
      <4>3. G(s)[v] = G(v)[v]
        BY <3>1, <4>1, <4>2, FoldsAgree
      <4>4. G(s)[s] = r[Least(s)] * x[Least(s)] + G(s)[v]
        BY <3>1, <3>3, FoldStep DEF v
      <4>5. g[s] = r[Least(s)] * x[Least(s)] + G(v)[v]
        BY <3>0, <3>3 DEF v
      <4>. QED BY <4>3, <4>4, <4>5
    <3>. QED BY <3>2, <3>3
  <2>. HIDE DEF Low
  <2>5. ASSUME NEW s \in SUBSET u
        PROVE  g[s] = IF s = {} THEN 0
                      ELSE r[Least(s)] * x[Least(s)] + g[s \ {Least(s)}]
    <3>1. CASE s = {}
      BY <3>1
    <3>2. CASE s # {}
      <4>. DEFINE v == s \ {Least(s)}
      <4>1. v \subseteq u /\ v # u
        BY <3>2, LeastIn
      <4>2. g[s] = r[Least(s)] * x[Least(s)] + Low(v)
        BY <3>2
      <4>. HIDE DEF v, g
      <4>3. g[v] = Low(v)
        BY <2>4, <4>1
      <4>. QED BY <3>2, <4>2, <4>3 DEF v
    <3>. QED BY <3>1, <3>2
  <2>6. IsFold(g, r, x, u)
    <3>1. g = [s \in SUBSET u |-> g[s]]
      OBVIOUS
    <3>. HIDE DEF g
    <3>2. g = [s \in SUBSET u |-> IF s = {} THEN 0
                      ELSE r[Least(s)] * x[Least(s)] + g[s \ {Least(s)}]]
      BY <2>5, <3>1
    <3>. QED BY <3>2 DEF IsFold
  <2>. QED BY <2>2, <2>6
<1>2. S \in FiniteSubsetsOf(S)
  BY DEF FiniteSubsetsOf
<1>. QED BY <1>1, <1>2

\* The sum, one term after the other.
LEMMA WeightedStep ==
  ASSUME NEW r, NEW x, NEW Q, IsFiniteSet(Q)
  PROVE  /\ Q = {} => Weighted(r, x, Q) = 0
         /\ Q # {} => Weighted(r, x, Q) =
                        r[Least(Q)] * x[Least(Q)] + Weighted(r, x, Q \ {Least(Q)})
<1>. DEFINE G(v) == CHOOSE g : IsFold(g, r, x, v)
<1>1. \A v : Weighted(r, x, v) = G(v)[v]
  BY DEF Weighted, MapThenSumSet, MapThenFoldSet, IsFold, Least
<1>2. ASSUME NEW v, IsFiniteSet(v) PROVE IsFold(G(v), r, x, v)
  BY <1>2, FoldExists
<1>3. CASE Q = {}
  <2>. HIDE DEF G
  <2>1. G(Q)[Q] = 0
    BY <1>2, <1>3, FoldStep
  <2>. QED BY <1>1, <1>3, <2>1
<1>4. CASE Q # {}
  <2>. DEFINE v == Q \ {Least(Q)}
  <2>1. v \subseteq Q /\ IsFiniteSet(v)
    BY FS_RemoveElement
  <2>2. IsFold(G(Q), r, x, Q) /\ IsFold(G(v), r, x, v)
    BY <1>2, <2>1
  <2>. HIDE DEF v, G
  <2>3. G(Q)[v] = G(v)[v]
    BY <2>1, <2>2, FoldsAgree
  <2>4. G(Q)[Q] = r[Least(Q)] * x[Least(Q)] + G(Q)[v]
    BY <1>4, <2>2, FoldStep DEF v
  <2>. QED BY <1>1, <1>4, <2>3, <2>4 DEF v
<1>. QED BY <1>3, <1>4

\* The sum of numbers is a number.
LEMMA WeightedType ==
  ASSUME NEW r, NEW x, NEW Q, IsFiniteSet(Q), Valued(r, x, Q)
  PROVE  Weighted(r, x, Q) \in Int
<1>. DEFINE Bad == {u \in FiniteSubsetsOf(Q) : Weighted(r, x, u) \notin Int}
<1>1. ASSUME Bad # {} PROVE FALSE
  <2>1. PICK u \in Bad : \A v \in Bad : ~ (v \subseteq u /\ v # u)
    <3>1. Bad \subseteq FiniteSubsetsOf(Q)
      OBVIOUS
    <3>. HIDE DEF Bad
    <3>. QED BY <1>1, <3>1, SmallestSet
  <2>2. u \subseteq Q /\ IsFiniteSet(u) /\ Weighted(r, x, u) \notin Int
    BY DEF FiniteSubsetsOf
  <2>3. u # {}
    BY <2>2, WeightedStep
  <2>. DEFINE v == u \ {Least(u)}
  <2>4. Least(u) \in Q /\ v \subseteq u /\ v # u /\ IsFiniteSet(v)
    BY <2>2, <2>3, LeastIn, FS_RemoveElement
  <2>5. v \in FiniteSubsetsOf(Q)
    BY <2>2, <2>4 DEF FiniteSubsetsOf
  <2>6. Weighted(r, x, v) \in Int
    BY <2>1, <2>4, <2>5
  <2>7. Weighted(r, x, u) = r[Least(u)] * x[Least(u)] + Weighted(r, x, v)
    BY <2>2, <2>3, WeightedStep
  <2>8. r[Least(u)] \in Int /\ x[Least(u)] \in Int
    BY <2>4 DEF Valued
  <2>. HIDE DEF v
  <2>. QED BY <2>2, <2>6, <2>7, <2>8
<1>2. Q \in FiniteSubsetsOf(Q)
  BY DEF FiniteSubsetsOf
<1>. QED BY <1>1, <1>2

\* Any term may be the first.
LEMMA WeightedRemove ==
  ASSUME NEW r, NEW x, NEW Q, IsFiniteSet(Q), Valued(r, x, Q), NEW c \in Q
  PROVE  Weighted(r, x, Q) = r[c] * x[c] + Weighted(r, x, Q \ {c})
<1>. DEFINE Bad == {u \in FiniteSubsetsOf(Q) :
                      \E d \in u : Weighted(r, x, u) # r[d] * x[d] + Weighted(r, x, u \ {d})}
<1>1. ASSUME Bad # {} PROVE FALSE
  <2>1. PICK u \in Bad : \A v \in Bad : ~ (v \subseteq u /\ v # u)
    <3>1. Bad \subseteq FiniteSubsetsOf(Q)
      OBVIOUS
    <3>. HIDE DEF Bad
    <3>. QED BY <1>1, <3>1, SmallestSet
  <2>2. PICK d \in u : Weighted(r, x, u) # r[d] * x[d] + Weighted(r, x, u \ {d})
    OBVIOUS
  <2>3. u \subseteq Q /\ IsFiniteSet(u)
    BY DEF FiniteSubsetsOf
  <2>4. PICK e \in u : Weighted(r, x, u) = r[e] * x[e] + Weighted(r, x, u \ {e})
    BY <2>2, <2>3, LeastIn, WeightedStep
  <2>5. d # e
    BY <2>2, <2>4
  <2>6. /\ IsFiniteSet(u \ {d}) /\ IsFiniteSet(u \ {e})
        /\ IsFiniteSet((u \ {d}) \ {e})
    BY <2>3, FS_RemoveElement
  <2>7. u \ {d} \notin Bad /\ u \ {e} \notin Bad
    BY <2>1, <2>2, <2>4
  <2>8. u \ {d} \in FiniteSubsetsOf(Q) /\ u \ {e} \in FiniteSubsetsOf(Q)
    BY <2>3, <2>6 DEF FiniteSubsetsOf
  <2>9. Weighted(r, x, u \ {d}) = r[e] * x[e] + Weighted(r, x, (u \ {d}) \ {e})
    BY <2>5, <2>7, <2>8
  <2>10. Weighted(r, x, u \ {e}) = r[d] * x[d] + Weighted(r, x, (u \ {e}) \ {d})
    BY <2>5, <2>7, <2>8
  <2>11. (u \ {e}) \ {d} = (u \ {d}) \ {e}
    OBVIOUS
  <2>12. r[d] * x[d] \in Int /\ r[e] * x[e] \in Int
    <3>1. r[d] \in Int /\ x[d] \in Int /\ r[e] \in Int /\ x[e] \in Int
      BY <2>3 DEF Valued
    <3>. QED BY <3>1
  <2>13. Weighted(r, x, (u \ {d}) \ {e}) \in Int
    <3>1. Valued(r, x, (u \ {d}) \ {e})
      BY <2>3 DEF Valued
    <3>. QED BY <2>6, <3>1, WeightedType
  <2>. HIDE DEF Bad
  <2>14. r[e] * x[e] + (r[d] * x[d] + Weighted(r, x, (u \ {d}) \ {e})) =
         r[d] * x[d] + (r[e] * x[e] + Weighted(r, x, (u \ {d}) \ {e}))
    <3>1. \A a, b, w \in Int : a + (b + w) = b + (a + w)
      OBVIOUS
    <3>. QED BY ONLY <2>12, <2>13, <3>1, Zenon
  <2>. QED BY <2>2, <2>4, <2>9, <2>10, <2>11, <2>14, Zenon
<1>2. Q \in FiniteSubsetsOf(Q)
  BY DEF FiniteSubsetsOf
<1>. QED BY <1>1, <1>2

\* The coefficient at every integral, those without an edge included.
Full(r) == [c \in Integral |-> Entry(r, c)]

\* Without the integrals that have no edge the sum is the same.
LEMMA WeightedFull ==
  ASSUME NEW r \in Row, NEW x \in [Integral -> Coefficient]
  PROVE  Weighted(Full(r), x, Integral) = Weighted(r, x, DOMAIN r)
<1>. DEFINE f == Full(r)
            D == DOMAIN r
            Bad == {u \in FiniteSubsetsOf(Integral) : Weighted(f, x, u) # Weighted(r, x, u \cap D)}
<1>0. /\ \A c \in Integral : f[c] \in Int /\ x[c] \in Int /\ f[c] = Entry(r, c)
      /\ D \subseteq Integral /\ \A c \in D : r[c] \in Int
      /\ \A c \in Integral : f[c] = IF c \in D THEN r[c] ELSE 0
  <2>1. Coefficient \subseteq Int
    BY DEF Coefficient
  <2>2. D \subseteq Integral /\ \A c \in D : r[c] \in Coefficient
    BY RowMember
  <2>3. \A c \in Integral : Entry(r, c) \in Coefficient
    BY EntryType
  <2>. QED BY <2>1, <2>2, <2>3 DEF Full, Entry
<1>. HIDE DEF f, D
<1>1. ASSUME Bad # {} PROVE FALSE
  <2>1. PICK u \in Bad : \A v \in Bad : ~ (v \subseteq u /\ v # u)
    <3>1. Bad \subseteq FiniteSubsetsOf(Integral)
      OBVIOUS
    <3>. HIDE DEF Bad
    <3>. QED BY <1>1, <3>1, SmallestSet
  <2>2. /\ u \subseteq Integral /\ IsFiniteSet(u)
        /\ Weighted(f, x, u) # Weighted(r, x, u \cap D)
    BY DEF FiniteSubsetsOf
  <2>3. u # {}
    <3>1. u = {} => u \cap D = {}
      OBVIOUS
    <3>2. IsFiniteSet({})
      BY FS_EmptySet
    <3>. QED BY <2>2, <3>1, <3>2, WeightedStep
  <2>4. PICK c \in u : Weighted(f, x, u) = f[c] * x[c] + Weighted(f, x, u \ {c})
    BY <2>2, <2>3, LeastIn, WeightedStep
  <2>. DEFINE v == u \ {c}
  <2>5. c \in Integral /\ v \subseteq u /\ v # u /\ IsFiniteSet(v) /\ IsFiniteSet(u \cap D)
    BY <2>2, FS_RemoveElement, FS_Subset
  <2>6. v \in FiniteSubsetsOf(Integral)
    BY <2>2, <2>5 DEF FiniteSubsetsOf
  <2>7. Weighted(f, x, v) = Weighted(r, x, v \cap D)
    BY <2>1, <2>5, <2>6
  <2>8. CASE c \in D
    <3>1. Valued(r, x, u \cap D)
      BY <1>0, <2>2 DEF Valued
    <3>2. Weighted(r, x, u \cap D) = r[c] * x[c] + Weighted(r, x, (u \cap D) \ {c})
      BY <2>5, <2>8, <3>1, WeightedRemove
    <3>3. (u \cap D) \ {c} = v \cap D /\ f[c] = r[c]
      BY <1>0, <2>5, <2>8
    <3>. QED BY <2>2, <2>4, <2>7, <3>2, <3>3
  <2>9. CASE c \notin D
    <3>1. u \cap D = v \cap D /\ f[c] = 0 /\ x[c] \in Int
      BY <1>0, <2>5, <2>9
    <3>2. Weighted(f, x, v) \in Int
      <4>1. Valued(f, x, v)
        BY <1>0, <2>2, <2>5 DEF Valued
      <4>. QED BY <2>5, <4>1, WeightedType
    <3>3. 0 * x[c] = 0
      BY <3>1
    <3>4. f[c] * x[c] + Weighted(f, x, v) = Weighted(f, x, v)
      BY <3>1, <3>2, <3>3
    <3>. QED BY <2>2, <2>4, <2>7, <3>1, <3>4
  <2>. QED BY <2>8, <2>9
<1>2. Integral \in FiniteSubsetsOf(Integral) /\ Integral \cap D = D
  BY <1>0, PivotAssumption DEF FiniteSubsetsOf
<1>3. Weighted(f, x, Integral) = Weighted(r, x, D)
  BY <1>1, <1>2
<1>. QED BY <1>3 DEF f, D

\* Rows can be combined before or after their terms are added.
LEMMA WeightedCombined ==
  ASSUME NEW f, NEW g, NEW h, NEW x, NEW m \in Int, NEW k \in Int,
         Valued(f, x, Integral), Valued(g, x, Integral), Valued(h, x, Integral),
         \A c \in Integral : h[c] % P = (m * f[c] + k * g[c]) % P
  PROVE  Weighted(h, x, Integral) % P =
           (m * Weighted(f, x, Integral) + k * Weighted(g, x, Integral)) % P
<1>0. P \in Int
  BY PrimeAssumption
<1>. DEFINE Sums(u) == Weighted(h, x, u) % P =
                         (m * Weighted(f, x, u) + k * Weighted(g, x, u)) % P
            Bad == {u \in FiniteSubsetsOf(Integral) : ~Sums(u)}
<1>1. ASSUME Bad # {} PROVE FALSE
  <2>1. PICK u \in Bad : \A v \in Bad : ~ (v \subseteq u /\ v # u)
    <3>1. Bad \subseteq FiniteSubsetsOf(Integral)
      OBVIOUS
    <3>. HIDE DEF Bad
    <3>. QED BY <1>1, <3>1, SmallestSet
  <2>2. u \subseteq Integral /\ IsFiniteSet(u) /\ ~Sums(u)
    BY DEF FiniteSubsetsOf
  <2>3. u # {}
    <3>1. u = {} => Weighted(h, x, u) = 0 /\ Weighted(f, x, u) = 0 /\ Weighted(g, x, u) = 0
      BY <2>2, WeightedStep
    <3>2. m * 0 + k * 0 = 0
      OBVIOUS
    <3>. QED BY <2>2, <3>1, <3>2
  <2>. DEFINE c == Least(u)
              v == u \ {c}
  <2>4. c \in Integral /\ v \subseteq u /\ v # u /\ IsFiniteSet(v)
    BY <2>2, <2>3, LeastIn, FS_RemoveElement
  <2>5. v \in FiniteSubsetsOf(Integral)
    BY <2>2, <2>4 DEF FiniteSubsetsOf
  <2>6. Sums(v)
    BY <2>1, <2>4, <2>5
  <2>7. /\ Weighted(h, x, u) = h[c] * x[c] + Weighted(h, x, v)
        /\ Weighted(f, x, u) = f[c] * x[c] + Weighted(f, x, v)
        /\ Weighted(g, x, u) = g[c] * x[c] + Weighted(g, x, v)
    BY <2>2, <2>3, WeightedStep
  <2>8. f[c] \in Int /\ g[c] \in Int /\ h[c] \in Int /\ x[c] \in Int
    BY <2>4 DEF Valued
  <2>9. Weighted(h, x, v) \in Int /\ Weighted(f, x, v) \in Int /\ Weighted(g, x, v) \in Int
    <3>1. Valued(f, x, v) /\ Valued(g, x, v) /\ Valued(h, x, v)
      BY <2>2, <2>4 DEF Valued
    <3>. QED BY <2>4, <3>1, WeightedType
  <2>. HIDE DEF c, v
  <2>10. PICK q \in Int : h[c] = (m * f[c] + k * g[c]) + q * P
    <3>1. h[c] % P = (m * f[c] + k * g[c]) % P
      BY <2>4
    <3>2. m * f[c] + k * g[c] \in Int
      BY <2>8
    <3>. QED BY <2>8, <3>1, <3>2, Congruence
  <2>11. PICK p \in Int : Weighted(h, x, v) =
                            (m * Weighted(f, x, v) + k * Weighted(g, x, v)) + p * P
    <3>1. m * Weighted(f, x, v) + k * Weighted(g, x, v) \in Int
      BY <2>9
    <3>. QED BY <2>6, <2>9, <3>1, Congruence
  <2>12. /\ h[c] * x[c] + Weighted(h, x, v) =
              (m * (f[c] * x[c] + Weighted(f, x, v)) + k * (g[c] * x[c] + Weighted(g, x, v)))
                + (q * x[c] + p) * P
         /\ h[c] * x[c] + Weighted(h, x, v) \in Int
         /\ m * (f[c] * x[c] + Weighted(f, x, v)) + k * (g[c] * x[c] + Weighted(g, x, v)) \in Int
         /\ q * x[c] + p \in Int
    <3>. DEFINE fc == f[c]  gc == g[c]  hc == h[c]  xc == x[c]
                F == Weighted(f, x, v)  G == Weighted(g, x, v)  H == Weighted(h, x, v)
    <3>1. /\ fc \in Int /\ gc \in Int /\ hc \in Int /\ xc \in Int
          /\ F \in Int /\ G \in Int /\ H \in Int
          /\ hc = (m * fc + k * gc) + q * P /\ H = (m * F + k * G) + p * P
      BY <2>8, <2>9, <2>10, <2>11
    <3>. HIDE DEF fc, gc, hc, xc, F, G, H
    <3>2. hc * xc + H = (m * (fc * xc + F) + k * (gc * xc + G)) + (q * xc + p) * P
      BY <1>0, <3>1
    <3>3. /\ hc * xc + H \in Int /\ m * (fc * xc + F) + k * (gc * xc + G) \in Int
          /\ q * xc + p \in Int
      BY <3>1
    <3>. QED BY <3>2, <3>3 DEF fc, gc, hc, xc, F, G, H
  <2>13. Sums(u)
    <3>. DEFINE a == h[c] * x[c] + Weighted(h, x, v)
                b == m * (f[c] * x[c] + Weighted(f, x, v)) + k * (g[c] * x[c] + Weighted(g, x, v))
                s == q * x[c] + p
    <3>1. a = b + s * P /\ a \in Int /\ b \in Int /\ s \in Int
      BY <2>12
    <3>. HIDE DEF a, b, s
    <3>2. a % P = b % P
      BY <3>1, Congruence
    <3>. QED BY <2>7, <3>2 DEF a, b
  <2>. HIDE DEF Sums
  <2>. QED BY <2>2, <2>13
<1>2. Integral \in FiniteSubsetsOf(Integral)
  BY PivotAssumption DEF FiniteSubsetsOf
<1>. HIDE DEF Sums
<1>3. Sums(Integral)
  BY <1>1, <1>2
<1>. QED BY <1>3 DEF Sums

-----------------------------------------------------------------------------
(* Identities combined *)

\* t is m times r and k times s.
Combined(t, r, s, m, k) ==
  \A c \in Integral : Entry(t, c) % P = (m * Entry(r, c) + k * Entry(s, c)) % P

\* The left hand side of an identity is the remainder of the sum over all integrals.
LEMMA ValueType ==
  ASSUME NEW r \in Row, NEW x \in [Integral -> Coefficient]
  PROVE  /\ Valued(Full(r), x, Integral)
         /\ Weighted(Full(r), x, Integral) \in Int
         /\ Value(r, x) = Weighted(Full(r), x, Integral) % P
         /\ Value(r, x) \in Coefficient
<1>1. Valued(Full(r), x, Integral)
  <2>1. Coefficient \subseteq Int
    BY DEF Coefficient
  <2>. QED BY <2>1, EntryType DEF Full, Valued
<1>2. Weighted(Full(r), x, Integral) \in Int
  BY <1>1, WeightedType, PivotAssumption
<1>3. Value(r, x) = Weighted(Full(r), x, Integral) % P
  BY WeightedFull DEF Value, Weighted
<1>. QED BY <1>1, <1>2, <1>3, Remainder

\* It can be had from those of the identities it is combined from.
LEMMA ValueCombined ==
  ASSUME NEW t \in Row, NEW r \in Row, NEW s \in Row, NEW m \in Int, NEW k \in Int,
         Combined(t, r, s, m, k), NEW x \in [Integral -> Coefficient]
  PROVE  Value(t, x) = (m * Value(r, x) + k * Value(s, x)) % P
<1>. DEFINE R == Weighted(Full(r), x, Integral)
            S == Weighted(Full(s), x, Integral)
            T == Weighted(Full(t), x, Integral)
<1>1. /\ R \in Int /\ S \in Int /\ T \in Int
      /\ Value(r, x) = R % P /\ Value(s, x) = S % P /\ Value(t, x) = T % P
  BY ValueType
<1>2. T % P = (m * R + k * S) % P
  <2>1. \A c \in Integral : Full(t)[c] % P = (m * Full(r)[c] + k * Full(s)[c]) % P
    BY DEF Combined, Full
  <2>2. Valued(Full(r), x, Integral) /\ Valued(Full(s), x, Integral) /\ Valued(Full(t), x, Integral)
    BY ValueType
  <2>. QED BY <2>1, <2>2, WeightedCombined
<1>. HIDE DEF R, S, T
<1>3. R % P \in Int /\ S % P \in Int
  BY <1>1, PrimeAssumption
<1>4. m * (R % P) \in Int /\ k * S \in Int /\ m * R \in Int
  BY <1>1, <1>3
<1>5. (m * (R % P) + k * (S % P)) % P = (m * (R % P) + k * S) % P
  <2>1. \A a \in Int : (a + k * (S % P)) % P = (a + k * S) % P
    BY <1>1, EarlyRemainder
  <2>. QED BY <1>4, <2>1, Zenon
<1>6. (k * S + m * (R % P)) % P = (k * S + m * R) % P
  BY <1>1, <1>4, EarlyRemainder
<1>7. m * (R % P) + k * S = k * S + m * (R % P) /\ k * S + m * R = m * R + k * S
  <2>1. \A a, b \in Int : a + b = b + a
    OBVIOUS
  <2>. QED BY <1>4, <2>1
<1>. QED BY <1>1, <1>2, <1>5, <1>6, <1>7

\* Each identity is multiplied with something that has a reciprocal.
Scaled(S, R) == \A i \in Pivot : \E m, w \in Int : (m * w) % P = 1 /\ Combined(S[i], R[i], R[i], m, 0)

\* Its left hand side is multiplied likewise.
LEMMA ScaledValue ==
  ASSUME NEW s \in Row, NEW r \in Row, NEW m \in Int, Combined(s, r, r, m, 0),
         NEW x \in [Integral -> Coefficient]
  PROVE  Value(s, x) = (m * Value(r, x)) % P
<1>1. Value(s, x) = (m * Value(r, x) + 0 * Value(r, x)) % P
  BY ValueCombined
<1>2. Value(r, x) \in Int
  BY ValueType DEF Coefficient
<1>3. m * Value(r, x) + 0 * Value(r, x) = m * Value(r, x)
  BY <1>2
<1>. QED BY <1>1, <1>3

\* That changes neither what satisfies all of them nor that they are independent.
LEMMA ScaledEquivalent ==
  ASSUME NEW R \in [Pivot -> Row], NEW S \in [Pivot -> Row], Scaled(S, R), Independent(R)
  PROVE  Solutions(S) = Solutions(R) /\ Independent(S)
<1>1. \A x \in [Integral -> Coefficient], i \in Pivot :
         Value(S[i], x) = 0 <=> Value(R[i], x) = 0
  <2>. SUFFICES ASSUME NEW x \in [Integral -> Coefficient], NEW i \in Pivot
                PROVE  Value(S[i], x) = 0 <=> Value(R[i], x) = 0
    OBVIOUS
  <2>1. PICK m \in Int, w \in Int : (m * w) % P = 1 /\ Combined(S[i], R[i], R[i], m, 0)
    BY DEF Scaled
  <2>2. R[i] \in Row /\ S[i] \in Row
    OBVIOUS
  <2>3. PICK v : v = Value(R[i], x)
    OBVIOUS
  <2>4. v \in Coefficient /\ Value(S[i], x) = (m * v) % P
    BY <2>1, <2>2, <2>3, ScaledValue, ValueType
  <2>5. (w * ((m * v) % P)) % P = v
    BY <2>1, <2>4, UnitCancels
  <2>6. 0 % P = 0
    BY PrimeAssumption
  <2>7. w * 0 = 0 /\ m * 0 = 0
    OBVIOUS
  <2>. QED BY <2>3, <2>4, <2>5, <2>6, <2>7
<1>2. Solutions(S) = Solutions(R)
  BY <1>1 DEF Solutions
<1>3. Independent(S)
  <2>. SUFFICES ASSUME NEW b \in [Pivot -> Coefficient]
                PROVE  \E x \in [Integral -> Coefficient] : \A i \in Pivot : Value(S[i], x) = b[i]
    BY DEF Independent
  <2>. DEFINE Factors(i, m, w) == m \in Int /\ w \in Int /\ (m * w) % P = 1 /\ Combined(S[i], R[i], R[i], m, 0)
              w(i) == CHOOSE w \in Int : \E m \in Int : Factors(i, m, w)
              d == [i \in Pivot |-> (w(i) * b[i]) % P]
  <2>1. ASSUME NEW i \in Pivot PROVE w(i) \in Int /\ \E m \in Int : Factors(i, m, w(i))
    <3>1. \E u \in Int : \E m \in Int : Factors(i, m, u)
      BY DEF Scaled
    <3>. HIDE DEF Factors
    <3>. QED BY <3>1
  <2>. HIDE DEF w
  <2>2. d \in [Pivot -> Coefficient]
    <3>1. ASSUME NEW i \in Pivot PROVE (w(i) * b[i]) % P \in Coefficient
      <4>1. w(i) \in Int /\ b[i] \in Int
        BY <2>1 DEF Coefficient
      <4>. HIDE DEF Factors
      <4>2. w(i) * b[i] \in Int
        BY <4>1
      <4>. QED BY <4>2, Remainder
    <3>. QED BY <3>1
  <2>3. PICK x \in [Integral -> Coefficient] : \A i \in Pivot : Value(R[i], x) = d[i]
    <3>. HIDE DEF d
    <3>. QED BY <2>2 DEF Independent
  <2>4. ASSUME NEW i \in Pivot PROVE Value(S[i], x) = b[i]
    <3>1. PICK m \in Int : Factors(i, m, w(i))
      BY <2>1
    <3>2. PICK u : u = w(i)
      OBVIOUS
    <3>3. u \in Int /\ (m * u) % P = 1 /\ Combined(S[i], R[i], R[i], m, 0)
      BY <3>1, <3>2
    <3>4. Value(R[i], x) = (u * b[i]) % P
      BY <2>3, <3>2
    <3>5. R[i] \in Row /\ S[i] \in Row /\ b[i] \in Coefficient
      OBVIOUS
    <3>. HIDE DEF Factors
    <3>6. Value(S[i], x) = (m * ((u * b[i]) % P)) % P
      BY <3>3, <3>4, <3>5, ScaledValue
    <3>. QED BY <3>3, <3>5, <3>6, UnitCancels
  <2>. QED BY <2>4
<1>. QED BY <1>2, <1>3

\* To one identity a multiple of another is added, ...
AddedTo(S, R, i, n, k) ==
  /\ i \in Pivot /\ n \in Pivot /\ n # i /\ k \in Int
  /\ Combined(S[i], R[i], R[n], 1, k)
  /\ \A j \in Pivot \ {i} : S[j] = R[j]
Added(S, R) == \E i, n, k : AddedTo(S, R, i, n, k)

\* ... which changes neither of them.
LEMMA AddedEquivalent ==
  ASSUME NEW R \in [Pivot -> Row], NEW S \in [Pivot -> Row], Added(S, R), Independent(R)
  PROVE  Solutions(S) = Solutions(R) /\ Independent(S)
<1>0. PICK i, n, k : AddedTo(S, R, i, n, k)
  BY DEF Added
<1>. /\ i \in Pivot /\ n \in Pivot /\ n # i /\ k \in Int
     /\ Combined(S[i], R[i], R[n], 1, k) /\ \A j \in Pivot \ {i} : S[j] = R[j]
  BY <1>0 DEF AddedTo
<1>1. ASSUME NEW x \in [Integral -> Coefficient]
      PROVE  /\ Value(S[i], x) = (Value(R[i], x) + k * Value(R[n], x)) % P
             /\ Value(R[i], x) \in Coefficient /\ Value(R[n], x) \in Coefficient
  <2>1. R[i] \in Row /\ S[i] \in Row /\ R[n] \in Row
    OBVIOUS
  <2>2. Value(S[i], x) = (1 * Value(R[i], x) + k * Value(R[n], x)) % P
    BY <2>1, ValueCombined
  <2>3. Value(R[i], x) \in Coefficient /\ Value(R[n], x) \in Coefficient
    BY <2>1, ValueType
  <2>4. 1 * Value(R[i], x) = Value(R[i], x)
    BY <2>3 DEF Coefficient
  <2>. QED BY <2>2, <2>3, <2>4
<1>2. \A x \in [Integral -> Coefficient] :
        (\A j \in Pivot : Value(S[j], x) = 0) <=> \A j \in Pivot : Value(R[j], x) = 0
  <2>. SUFFICES ASSUME NEW x \in [Integral -> Coefficient], Value(R[n], x) = 0
                PROVE  Value(S[i], x) = 0 <=> Value(R[i], x) = 0
    OBVIOUS
  <2>1. k * 0 = 0
    OBVIOUS
  <2>2. PICK v : v = Value(R[i], x)
    OBVIOUS
  <2>3. v \in Coefficient /\ v + 0 = v
    BY <1>1, <2>2 DEF Coefficient
  <2>4. Value(S[i], x) = (v + 0) % P
    BY <1>1, <2>1, <2>2
  <2>. QED BY <2>2, <2>3, <2>4, OwnRemainder
<1>3. Solutions(S) = Solutions(R)
  BY <1>2 DEF Solutions
<1>4. Independent(S)
  <2>. SUFFICES ASSUME NEW b \in [Pivot -> Coefficient]
                PROVE  \E x \in [Integral -> Coefficient] : \A j \in Pivot : Value(S[j], x) = b[j]
    BY DEF Independent
  <2>. DEFINE e == (b[i] - k * b[n]) % P
              d == [b EXCEPT ![i] = e]
  <2>0. b[i] \in Int /\ b[n] \in Int /\ b[i] \in Coefficient
    BY DEF Coefficient
  <2>1. b[i] - k * b[n] \in Int
    BY <2>0
  <2>2. e \in Coefficient /\ e \in Int
    BY <2>1, Remainder DEF Coefficient
  <2>3. PICK x \in [Integral -> Coefficient] : \A j \in Pivot : Value(R[j], x) = d[j]
    <3>1. d \in [Pivot -> Coefficient]
      BY <2>2
    <3>. HIDE DEF d
    <3>. QED BY <3>1 DEF Independent
  <2>4. Value(S[i], x) = (e + k * b[n]) % P
    BY <1>1, <2>3
  <2>5. (k * b[n] + 1 * ((b[i] - k * b[n]) % P)) % P = (k * b[n] + 1 * (b[i] - k * b[n])) % P
    <3>1. k * b[n] \in Int
      BY <2>0
    <3>2. \A u, v \in Int : (u + 1 * (v % P)) % P = (u + 1 * v) % P
      BY EarlyRemainder
    <3>. QED BY <2>1, <3>1, <3>2, Zenon
  <2>6. k * b[n] + 1 * (b[i] - k * b[n]) = b[i]
    BY <2>0
  <2>7. k * b[n] + 1 * e = e + k * b[n]
    <3>. HIDE DEF e
    <3>. QED BY <2>0, <2>2
  <2>8. Value(S[i], x) = b[i]
    BY <2>0, <2>4, <2>5, <2>6, <2>7, OwnRemainder
  <2>9. ASSUME NEW j \in Pivot \ {i} PROVE Value(S[j], x) = b[j]
    BY <2>3
  <2>. QED BY <2>8, <2>9
<1>. QED BY <1>3, <1>4

-----------------------------------------------------------------------------
(* What satisfies all identities *)

\* Edges that are zero do not matter.
LEMMA SameCombined ==
  ASSUME NEW t \in Row, NEW r \in Row, \A c \in Integral : Entry(t, c) = Entry(r, c)
  PROVE  Combined(t, r, r, 1, 0) /\ (1 * 1) % P = 1
<1>1. ASSUME NEW c \in Integral PROVE 1 * Entry(r, c) + 0 * Entry(r, c) = Entry(t, c)
  <2>1. Entry(r, c) \in Int
    BY EntryType DEF Coefficient
  <2>. QED BY <2>1
<1>2. 1 \in Coefficient /\ 1 * 1 = 1
  BY PrimeAssumption DEF Coefficient
<1>. QED BY <1>1, <1>2, OwnRemainder DEF Combined

\* Eliminating n adds a multiple of its identity, one that removes n.
LEMMA RelayCombined ==
  ASSUME NEW r \in Row, NEW s \in Row, NEW n \in Integral, NormalForm(s, n)
  PROVE  \E k \in Int : Combined(Relay(r, s, n), r, s, 1, k)
<1>. DEFINE t == Relay(r, s, n)
<1>0. P \in Nat /\ P > 1 /\ 0 % P = 0
  BY PrimeAssumption
<1>1. \A c \in Integral : Entry(r, c) \in Int /\ Entry(s, c) \in Int
  BY EntryType DEF Coefficient
<1>2. CASE n \notin DOMAIN r
  <2>1. t = r
    BY <1>2 DEF Relay
  <2>2. ASSUME NEW c \in Integral PROVE 1 * Entry(r, c) + 0 * Entry(s, c) = Entry(r, c)
    BY <1>1
  <2>. HIDE DEF t
  <2>3. Combined(t, r, s, 1, 0)
    BY <2>1, <2>2 DEF Combined
  <2>. QED BY <2>3 DEF t
<1>3. CASE n \in DOMAIN r
  <2>1. /\ Entry(t, n) = 0
        /\ \A c \in Integral \ {n} :
             Entry(t, c) = IF c \in DOMAIN r \cup DOMAIN s
                           THEN (Entry(r, c) + r[n] * Entry(s, c)) % P ELSE 0
    <3>1. t = [c \in (DOMAIN r \cup DOMAIN s) \ {n} |-> (Entry(r, c) + r[n] * Entry(s, c)) % P]
      BY <1>3 DEF Relay
    <3>. HIDE DEF t
    <3>. QED BY <3>1 DEF Entry
  <2>2. r[n] \in Coefficient /\ r[n] \in Int /\ Entry(r, n) = r[n]
    BY <1>3, RowMember DEF Coefficient, Entry
  <2>. HIDE DEF t
  <2>3. PICK a : a = r[n]
    OBVIOUS
  <2>4. CASE s[n] = MinusOne /\ n \in DOMAIN s
    <3>1. ASSUME NEW c \in Integral \ {n}
          PROVE  Entry(t, c) % P = (1 * Entry(r, c) + a * Entry(s, c)) % P
      <4>. DEFINE u == Entry(r, c)
                  v == Entry(s, c)
      <4>1. u \in Int /\ v \in Int /\ a \in Int
        BY <1>1, <2>2, <2>3
      <4>2. 1 * u + a * v = u + a * v /\ u + a * v \in Int
        <5>. HIDE DEF u, v
        <5>. QED BY <4>1
      <4>3. ((u + a * v) % P) % P = (u + a * v) % P
        BY <4>2, Remainder, OwnRemainder
      <4>4. CASE c \in DOMAIN r \cup DOMAIN s
        <5>1. Entry(t, c) = (u + a * v) % P
          BY <2>1, <2>3, <4>4
        <5>. HIDE DEF u, v
        <5>. QED BY <4>2, <4>3, <5>1 DEF u, v
      <4>5. CASE c \notin DOMAIN r \cup DOMAIN s
        <5>1. Entry(t, c) = 0 /\ u = 0 /\ v = 0
          BY <2>1, <4>5 DEF Entry
        <5>2. 1 * 0 + a * 0 = 0
          BY <4>1
        <5>. QED BY <5>1, <5>2
      <4>. QED BY <4>4, <4>5
    <3>2. Entry(t, n) % P = (1 * Entry(r, n) + a * Entry(s, n)) % P
      <4>1. Entry(s, n) = P - 1 /\ Entry(r, n) = a /\ Entry(t, n) = 0 /\ a \in Int
        BY <2>1, <2>2, <2>3, <2>4 DEF Entry, MinusOne
      <4>2. 1 * a + a * (P - 1) = 0 + a * P
        BY <1>0, <4>1
      <4>3. 1 * a + a * (P - 1) \in Int
        BY <1>0, <4>1
      <4>4. (1 * a + a * (P - 1)) % P = 0 % P
        BY <4>1, <4>2, <4>3, Congruence
      <4>. QED BY <4>1, <4>4
    <3>3. Combined(t, r, s, 1, a)
      BY <3>1, <3>2 DEF Combined
    <3>. QED BY <2>2, <2>3, <3>3 DEF t
  <2>5. CASE DOMAIN s = {n}
    <3>. DEFINE e == s[n]
                w == Reciprocal(e)
                k == (P - a) * w
    <3>1. e \in Coefficient /\ e # 0 /\ Entry(s, n) = e
      BY <2>5, RowMember DEF NormalForm, Entry
    <3>2. w \in Coefficient /\ (e * w) % P = 1
      BY <3>1, ReciprocalType
    <3>3. a \in Int /\ e \in Int /\ w \in Int /\ k \in Int
      <4>1. a \in Int /\ e \in Int /\ w \in Int
        BY <2>2, <2>3, <3>1, <3>2 DEF Coefficient
      <4>. HIDE DEF w, e
      <4>. QED BY <1>0, <4>1
    <3>4. ASSUME NEW c \in Integral \ {n}
          PROVE  Entry(t, c) % P = (1 * Entry(r, c) + k * Entry(s, c)) % P
      <4>1. Entry(s, c) = 0 /\ Entry(r, c) \in Int /\ Entry(r, c) \in Coefficient
        BY <1>1, <2>5, EntryType DEF Entry
      <4>2. PICK u : u = Entry(r, c)
        OBVIOUS
      <4>. HIDE DEF k
      <4>3. 1 * u + k * 0 = u /\ u + a * 0 = u
        BY <3>3, <4>1, <4>2
      <4>4. Entry(t, c) = u
        <5>1. CASE c \in DOMAIN r
          BY <2>1, <2>3, <4>1, <4>2, <4>3, <5>1, OwnRemainder
        <5>2. CASE c \notin DOMAIN r
          BY <2>1, <2>5, <4>2, <5>2 DEF Entry
        <5>. QED BY <5>1, <5>2
      <4>. QED BY <4>1, <4>2, <4>3, <4>4
    <3>5. Entry(t, n) % P = (1 * Entry(r, n) + k * Entry(s, n)) % P
      <4>1. Entry(s, n) = e /\ Entry(r, n) = a /\ Entry(t, n) = 0
        BY <2>1, <2>2, <2>3, <3>1
      <4>2. PICK q \in Int : e * w = 1 + q * P
        <5>1. 1 \in Coefficient /\ 1 \in Int
          BY <1>0 DEF Coefficient
        <5>2. e * w \in Int
          <6>. HIDE DEF e, w
          <6>. QED BY <3>3
        <5>3. (e * w) % P = 1 % P
          BY <3>2, <5>1, OwnRemainder
        <5>. HIDE DEF e, w
        <5>. QED BY <5>1, <5>2, <5>3, Congruence
      <4>. DEFINE z == 1 + (P - a) * q
      <4>3. 1 * a + k * e = 0 + z * P /\ z \in Int /\ 1 * a + k * e \in Int
        <5>. HIDE DEF e, w
        <5>1. k * e = (P - a) * (e * w)
          BY <1>0, <3>3
        <5>2. (P - a) * (1 + q * P) = (P - a) + ((P - a) * q) * P
          BY <1>0, <3>3
        <5>3. z * P = P + ((P - a) * q) * P
          BY <1>0, <3>3
        <5>4. ((P - a) * q) * P \in Int /\ z \in Int
          BY <1>0, <3>3
        <5>. HIDE DEF z, k
        <5>5. k * e = (P - a) + ((P - a) * q) * P
          BY <4>2, <5>1, <5>2
        <5>6. PICK y \in Int : y = ((P - a) * q) * P
          BY <5>4
        <5>7. k * e = (P - a) + y /\ z * P = P + y
          BY <5>3, <5>5, <5>6
        <5>. QED BY <1>0, <3>3, <5>4, <5>7
      <4>. HIDE DEF z, k, e
      <4>4. (1 * a + k * e) % P = 0 % P
        BY <4>3, Congruence
      <4>. QED BY <4>1, <4>4
    <3>. HIDE DEF k
    <3>6. Combined(t, r, s, 1, k)
      BY <3>4, <3>5 DEF Combined
    <3>. QED BY <3>3, <3>6 DEF t
  <2>6. DOMAIN s = {n} \/ (s[n] = MinusOne /\ n \in DOMAIN s)
    BY DEF NormalForm, Entry
  <2>. QED BY <2>4, <2>5, <2>6
<1>. QED BY <1>2, <1>3

\* Normalizing divides by minus the own edge.
LEMMA NormalizeCombined ==
  ASSUME NEW r \in Row, NEW i \in Integral, Entry(r, i) # 0
  PROVE  \E m, w \in Int : (m * w) % P = 1 /\ Combined(Normalize(r, i), r, r, m, 0)
<1>. DEFINE t == Normalize(r, i)
<1>0. P \in Nat /\ P > 1
  BY PrimeAssumption
<1>1. CASE Cardinality(DOMAIN r) = 1
  <2>1. t = r
    BY <1>1 DEF Normalize
  <2>2. Combined(t, r, r, 1, 0) /\ (1 * 1) % P = 1
    BY <2>1, SameCombined
  <2>. QED BY <2>2
<1>2. CASE Cardinality(DOMAIN r) # 1
  <2>. DEFINE a == (P - r[i]) % P
              m == Reciprocal(a)
  <2>1. i \in DOMAIN r /\ r[i] \in Coefficient /\ r[i] \in 1 .. (P - 1)
    BY RowMember DEF Entry, Coefficient
  <2>2. a = P - r[i] /\ a \in Coefficient /\ a # 0
    <3>1. P - r[i] \in Coefficient /\ P - r[i] # 0
      BY <1>0, <2>1 DEF Coefficient
    <3>. QED BY <3>1, OwnRemainder
  <2>3. m \in Coefficient /\ (a * m) % P = 1
    BY <2>2, ReciprocalType
  <2>4. a \in Int /\ m \in Int
    BY <2>2, <2>3 DEF Coefficient
  <2>5. t = [c \in DOMAIN r |-> IF c = i THEN MinusOne ELSE (r[c] * m) % P]
    BY <1>2 DEF Normalize
  <2>. HIDE DEF t, m, a
  <2>6. ASSUME NEW c \in Integral \ {i}
        PROVE  Entry(t, c) % P = (m * Entry(r, c) + 0 * Entry(r, c)) % P
    <3>1. CASE c \in DOMAIN r
      <4>1. Entry(t, c) = (r[c] * m) % P /\ Entry(r, c) = r[c] /\ r[c] \in Int
        BY <2>5, <3>1, RowMember DEF Entry, Coefficient
      <4>2. r[c] * m \in Int /\ m * r[c] + 0 * r[c] = r[c] * m
        BY <2>4, <4>1
      <4>3. ((r[c] * m) % P) % P = (r[c] * m) % P
        BY <4>2, Remainder, OwnRemainder
      <4>. QED BY <4>1, <4>2, <4>3
    <3>2. CASE c \notin DOMAIN r
      <4>1. Entry(t, c) = 0 /\ Entry(r, c) = 0
        BY <2>5, <3>2 DEF Entry
      <4>2. m * 0 + 0 * 0 = 0
        BY <2>4
      <4>. QED BY <4>1, <4>2
    <3>. QED BY <3>1, <3>2
  <2>7. Entry(t, i) % P = (m * Entry(r, i) + 0 * Entry(r, i)) % P
    <3>1. Entry(t, i) = P - 1 /\ Entry(r, i) = r[i] /\ r[i] \in Int
      BY <2>1, <2>5 DEF Entry, MinusOne
    <3>2. PICK q \in Int : a * m = 1 + q * P
      <4>1. 1 \in Coefficient /\ 1 \in Int
        BY <1>0 DEF Coefficient
      <4>2. a * m \in Int
        BY <2>4
      <4>3. (a * m) % P = 1 % P
        BY <2>3, <4>1, OwnRemainder
      <4>. QED BY <4>1, <4>2, <4>3, Congruence
    <3>3. PICK b \in Int : b = r[i]
      BY <3>1
    <3>4. m * b = m * P - a * m
      BY <1>0, <2>2, <2>4, <3>3
    <3>. DEFINE z == m - 1 - q
    <3>5. m * b + 0 * b = (P - 1) + z * P /\ m * b + 0 * b \in Int /\ z \in Int /\ P - 1 \in Int
      <4>1. z * P = m * P - P - q * P /\ z \in Int
        BY <1>0, <2>4
      <4>2. m * P \in Int /\ q * P \in Int /\ a * m \in Int /\ m * b \in Int /\ 0 * b = 0
        BY <1>0, <2>4
      <4>. HIDE DEF z
      <4>. QED BY <1>0, <3>2, <3>4, <4>1, <4>2
    <3>. HIDE DEF z
    <3>6. (m * b + 0 * b) % P = (P - 1) % P
      BY <3>5, Congruence
    <3>. QED BY <3>1, <3>3, <3>6
  <2>8. Combined(t, r, r, m, 0)
    BY <2>6, <2>7 DEF Combined
  <2>9. (m * a) % P = 1
    BY <2>3, <2>4
  <2>. QED BY <2>4, <2>8, <2>9 DEF t
<1>. QED BY <1>1, <1>2

\* An identity that does not follow from others has an edge that is not zero.
LEMMA IndependentNonzero ==
  ASSUME NEW R \in [Pivot -> Row], Independent(R), NEW i \in Pivot
  PROVE  \E c \in Integral : Entry(R[i], c) # 0
<1>. SUFFICES ASSUME \A c \in Integral : Entry(R[i], c) = 0 PROVE FALSE
  OBVIOUS
<1>0. 0 % P = 0 /\ 1 \in Coefficient
  BY PrimeAssumption DEF Coefficient
<1>1. PICK x \in [Integral -> Coefficient] : \A j \in Pivot : Value(R[j], x) = [k \in Pivot |-> 1][j]
  <2>1. [k \in Pivot |-> 1] \in [Pivot -> Coefficient]
    BY <1>0
  <2>. QED BY <2>1 DEF Independent
<1>2. Combined(R[i], R[i], R[i], 0, 0)
  <2>1. 0 * 0 + 0 * 0 = 0
    OBVIOUS
  <2>. QED BY <2>1 DEF Combined
<1>3. Value(R[i], x) = (0 * Value(R[i], x) + 0 * Value(R[i], x)) % P
  <2>1. R[i] \in Row
    OBVIOUS
  <2>. QED BY <1>2, <2>1, ValueCombined
<1>4. Value(R[i], x) = 1
  BY <1>1
<1>5. 0 * 1 + 0 * 1 = 0
  OBVIOUS
<1>. QED BY <1>0, <1>3, <1>4, <1>5

\* Saving and loading leaves it as it is, or scales what is left of i = 0.
LEMMA ReloadedCombined ==
  ASSUME TypeOK, SolvedNormalized, NEW i \in Pivot, \E c \in Integral : Entry(row[i], c) # 0
  PROVE  \E m, w \in Int : (m * w) % P = 1 /\ Combined(Reloaded(i), row[i], row[i], m, 0)
<1>. DEFINE r == row[i]
            H == Heads(r) \ (IF solved[i] THEN {i} ELSE {})
            saved == Restrict(r, H)
            t == Reloaded(i)
<1>0. P \in Nat /\ P > 1 /\ r \in Row /\ t \in Row /\ i \in Integral /\ DOMAIN r \subseteq Integral
  <2>1. r \in Row /\ t \in Row
    BY ReloadedRow DEF TypeOK
  <2>. QED BY <2>1, PrimeAssumption, PivotAssumption, RowMember
<1>1. /\ DOMAIN saved = H /\ \A c \in H : saved[c] = r[c]
      /\ t = IF solved[i] \/ DOMAIN saved = {}
             THEN [c \in DOMAIN saved \cup {i} |-> IF c = i THEN MinusOne ELSE saved[c]]
             ELSE saved
  BY DEF Reloaded, Restrict
<1>2. /\ \A c \in Integral : Entry(r, c) # 0 <=> c \in Heads(r)
      /\ \A c \in Heads(r) : Entry(r, c) = r[c]
  BY <1>0 DEF Entry, Heads
<1>. HIDE DEF r, saved, t
<1>3. CASE solved[i]
  <2>1. NormalForm(r, i)
    BY <1>3 DEF SolvedNormalized, Normalized, NormalForm, r
  <2>2. /\ Entry(t, i) = MinusOne
        /\ \A c \in Integral \ {i} : Entry(t, c) = Entry(r, c)
    <3>1. /\ DOMAIN t = H \cup {i} /\ t[i] = MinusOne /\ \A c \in H : t[c] = r[c]
      BY <1>1, <1>3
    <3>. QED BY <1>2, <1>3, <3>1 DEF Entry
  <2>3. CASE r[i] = MinusOne /\ i \in DOMAIN r
    <3>1. \A c \in Integral : Entry(t, c) = Entry(r, c)
      BY <2>2, <2>3 DEF Entry
    <3>2. Combined(t, r, r, 1, 0) /\ (1 * 1) % P = 1
      BY <1>0, <3>1, SameCombined
    <3>. QED BY <3>2 DEF r, t
  <2>4. CASE DOMAIN r = {i}
    <3>. DEFINE e == r[i]
                b == Reciprocal(e)
                m == MinusOne * b
                w == MinusOne * e
    <3>1. e \in Coefficient /\ e # 0 /\ Entry(r, i) = e
      BY <1>0, <2>1, <2>4, RowMember DEF NormalForm, Entry
    <3>2. b \in Coefficient /\ (e * b) % P = 1
      BY <3>1, ReciprocalType
    <3>3. e \in Int /\ b \in Int
      BY <3>1, <3>2 DEF Coefficient
    <3>. HIDE DEF e, b
    <3>4. PICK q \in Int : e * b = 1 + q * P
      <4>1. 1 \in Coefficient /\ 1 \in Int
        BY <1>0 DEF Coefficient
      <4>2. e * b \in Int
        BY <3>3
      <4>3. (e * b) % P = 1 % P
        BY <3>2, <4>1, OwnRemainder
      <4>. QED BY <4>1, <4>2, <4>3, Congruence
    <3>5. m \in Int /\ w \in Int
      BY <1>0, <3>3 DEF MinusOne
    <3>6. (m * w) % P = 1
      <4>. DEFINE z == (P - 2) * (1 + q * P) + q
      <4>1. m * w = ((P - 1) * (P - 1)) * (e * b)
        BY <1>0, <3>3 DEF MinusOne
      <4>2. ((P - 1) * (P - 1)) * (1 + q * P) = z * P + 1
        BY <1>0
      <4>3. m * w \in Int /\ z \in Int /\ 1 \in Coefficient
        BY <1>0, <3>5 DEF Coefficient
      <4>. HIDE DEF m, w, z
      <4>4. m * w = z * P + 1
        BY <3>4, <4>1, <4>2
      <4>. QED BY <4>3, <4>4, RemainderIs
    <3>7. Entry(t, i) % P = (m * Entry(r, i) + 0 * Entry(r, i)) % P
      <4>. DEFINE z == (P - 1) * q
      <4>1. m * e = (P - 1) * (e * b)
        BY <1>0, <3>3 DEF MinusOne
      <4>2. (P - 1) * (1 + q * P) = (P - 1) + z * P
        BY <1>0
      <4>3. m * e \in Int /\ 0 * e = 0 /\ z \in Int /\ P - 1 \in Int
        BY <1>0, <3>3, <3>5
      <4>. HIDE DEF m, z
      <4>4. m * e = (P - 1) + z * P /\ m * e + 0 * e = m * e
        BY <3>4, <4>1, <4>2, <4>3
      <4>5. (m * e) % P = (P - 1) % P
        BY <4>3, <4>4, Congruence
      <4>. QED BY <2>2, <3>1, <4>4, <4>5 DEF MinusOne
    <3>8. ASSUME NEW c \in Integral \ {i}
          PROVE  Entry(t, c) % P = (m * Entry(r, c) + 0 * Entry(r, c)) % P
      <4>1. Entry(r, c) = 0 /\ Entry(t, c) = 0
        BY <2>2, <2>4 DEF Entry
      <4>. HIDE DEF m
      <4>2. m * 0 + 0 * 0 = 0
        BY <3>5
      <4>. QED BY <4>1, <4>2
    <3>. HIDE DEF m, w
    <3>9. Combined(t, r, r, m, 0)
      BY <3>7, <3>8 DEF Combined
    <3>. QED BY <3>5, <3>6, <3>9 DEF r, t
  <2>. QED BY <2>1, <2>3, <2>4 DEF NormalForm, Entry
<1>4. CASE ~solved[i]
  <2>1. H = Heads(r) /\ H # {}
    BY <1>2, <1>4 DEF r
  <2>2. \A c \in Integral : Entry(t, c) = Entry(r, c)
    BY <1>1, <1>2, <1>4, <2>1 DEF Entry
  <2>3. Combined(t, r, r, 1, 0) /\ (1 * 1) % P = 1
    BY <1>0, <2>2, SameCombined
  <2>. QED BY <2>3 DEF r, t
<1>. QED BY <1>3, <1>4

\* One pivot is scaled.
LEMMA ScaledOne ==
  ASSUME NEW R \in [Pivot -> Row], NEW S \in [Pivot -> Row], NEW i \in Pivot,
         \A j \in Pivot \ {i} : S[j] = R[j],
         \E m, w \in Int : (m * w) % P = 1 /\ Combined(S[i], R[i], R[i], m, 0)
  PROVE  Scaled(S, R)
<1>1. ASSUME NEW j \in Pivot \ {i}
      PROVE  (1 * 1) % P = 1 /\ Combined(S[j], R[j], R[j], 1, 0)
  <2>1. S[j] = R[j] /\ R[j] \in Row
    OBVIOUS
  <2>. QED BY <2>1, SameCombined
<1>2. ASSUME NEW j \in Pivot
      PROVE  \E m, w \in Int : (m * w) % P = 1 /\ Combined(S[j], R[j], R[j], m, 0)
  <2>1. CASE j = i
    BY <2>1
  <2>2. CASE j # i
    <3>1. 1 \in Int /\ (1 * 1) % P = 1 /\ Combined(S[j], R[j], R[j], 1, 0)
      BY <1>1, <2>2
    <3>. QED BY <3>1, Zenon
  <2>. QED BY <2>1, <2>2
<1>. QED BY <1>2 DEF Scaled

\* One pivot loses edges that are zero.
LEMMA ZerosScaled ==
  ASSUME NEW R \in [Pivot -> Row], NEW S \in [Pivot -> Row], NEW i \in Pivot,
         \A j \in Pivot \ {i} : S[j] = R[j],
         \A c \in Integral : Entry(S[i], c) = Entry(R[i], c)
  PROVE  Scaled(S, R)
<1>1. S[i] \in Row /\ R[i] \in Row
  OBVIOUS
<1>2. (1 * 1) % P = 1 /\ Combined(S[i], R[i], R[i], 1, 0)
  BY <1>1, SameCombined
<1>3. \E m, w \in Int : (m * w) % P = 1 /\ Combined(S[i], R[i], R[i], m, 0)
  <2>1. 1 \in Int
    OBVIOUS
  <2>. QED BY <1>2, <2>1, Zenon
<1>. QED BY <1>3, ScaledOne

\* Zeros that are deleted during a search are such edges.
LEMMA DeletionScaled ==
  ASSUME TypeOK, TypeOK', NEW i \in Pivot, NEW d, NEW found,
         NEW Z \in Deletions(Zeros(i, d), found),
         row' = [row EXCEPT ![i] = Without(@, Z)]
  PROVE  Scaled(row', row)
<1>1. row \in [Pivot -> Row] /\ row' \in [Pivot -> Row]
  BY DEF TypeOK
<1>2. \A j \in Pivot \ {i} : row'[j] = row[j]
  BY <1>1
<1>3. row'[i] = Without(row[i], Z) /\ row[i] \in Row
  BY <1>1
<1>4. \A c \in Z : Entry(row[i], c) = 0
  BY DeletedZeros
<1>5. \A c \in Integral : Entry(row'[i], c) = Entry(row[i], c)
  BY <1>3, <1>4, WithoutZeros
<1>. QED BY <1>1, <1>2, <1>5, ZerosScaled

\* A call that found nothing to eliminate deletes zeros and may normalize.
LEMMA ConcludeScaled ==
  ASSUME TypeOK, TypeOK', Conclude
  PROVE  Scaled(row', row)
<1>1. PICK i : i = Top.pivot
  OBVIOUS
<1>2. i \in Pivot /\ i \in Integral
  BY <1>1, TopCall, PivotAssumption DEF Conclude, Searching
<1>3. PICK Z \in Deletions(Zeros(i, Top.despair), FALSE) :
        LET r == Without(row[i], Z) IN
          Unmodified(i, r) \/ Solvable(i, r) \/ Widen(i, r) \/ GiveUp(i, r)
  BY <1>1 DEF Conclude
<1>4. PICK r : r = Without(row[i], Z)
  OBVIOUS
<1>5. /\ row \in [Pivot -> Row] /\ row' \in [Pivot -> Row] /\ row[i] \in Row
      /\ Unmodified(i, r) \/ Solvable(i, r) \/ Widen(i, r) \/ GiveUp(i, r)
  BY <1>2, <1>3, <1>4 DEF TypeOK
<1>6. r \in Row /\ \A c \in Integral : Entry(r, c) = Entry(row[i], c)
  <2>1. \A c \in Z : Entry(row[i], c) = 0
    BY <1>2, <1>3, DeletedZeros
  <2>. QED BY <1>4, <1>5, <2>1, WithoutRow, WithoutZeros
<1>7. \A j \in Pivot \ {i} : row'[j] = row[j]
  BY <1>2, <1>5 DEF Unmodified, Solvable, Widen, GiveUp
<1>8. CASE Solvable(i, r)
  <2>1. row'[i] = Normalize(r, i) /\ Entry(r, i) # 0
    BY <1>2, <1>5, <1>8 DEF Solvable
  <2>2. \E m, w \in Int : (m * w) % P = 1 /\ Combined(row'[i], r, r, m, 0)
    BY <1>2, <1>6, <2>1, NormalizeCombined
  <2>3. \E m, w \in Int : (m * w) % P = 1 /\ Combined(row'[i], row[i], row[i], m, 0)
    BY <1>6, <2>2 DEF Combined
  <2>. QED BY <1>2, <1>5, <1>7, <2>3, ScaledOne
<1>9. CASE Unmodified(i, r) \/ Widen(i, r) \/ GiveUp(i, r)
  <2>1. row'[i] = r
    BY <1>2, <1>5, <1>9 DEF Unmodified, Widen, GiveUp
  <2>. QED BY <1>2, <1>5, <1>6, <1>7, <2>1, ZerosScaled
<1>. QED BY <1>5, <1>8, <1>9

\* What a step does to the identities, as long as none of them is empty.
LEMMA RowsStep ==
  ASSUME IInv, IInv', Next, \A i \in Pivot : \E c \in Integral : Entry(row[i], c) # 0
  PROVE  row' = row \/ Scaled(row', row) \/ Added(row', row)
<1>0. TypeOK /\ TypeOK' /\ row \in [Pivot -> Row] /\ row' \in [Pivot -> Row]
  BY DEF IInv, TypeOK
<1>1. CASE row' = row
  BY <1>1
<1>2. CASE Eliminate
  <2>1. PICK Z \in Deletions(Zeros(Top.pivot, Top.despair), TRUE) :
          row' = [row EXCEPT ![Top.pivot] = Without(@, Z)]
    BY <1>2 DEF Eliminate
  <2>2. Top.pivot \in Pivot
    BY <1>0, <1>2, TopCall DEF Eliminate, Searching
  <2>. QED BY <1>0, <2>1, <2>2, DeletionScaled
<1>3. CASE Eliminated /\ row' # row
  <2>1. PICK i : i = Top.pivot
    OBVIOUS
  <2>2. PICK n : n = Top.next
    OBVIOUS
  <2>3. /\ stack # <<>> /\ ~terminate /\ n # None
        /\ row' = [row EXCEPT ![i] = Relay(@, row[n], n)]
    BY <1>3, <2>1, <2>2 DEF Eliminated
  <2>4. i \in Pivot /\ n \in Pivot /\ n \in Integral /\ n # i
    BY <1>0, <2>1, <2>2, <2>3, TopCall, PivotAssumption DEF NoneFromItself, IInv
  <2>5. NormalForm(row[n], n)
    <3>1. solved[n]
      BY <2>2, <2>3 DEF IInv, ReturnedFree
    <3>. QED BY <2>4, <3>1 DEF IInv, SolvedNormalized, Normalized, NormalForm
  <2>6. row[i] \in Row /\ row[n] \in Row /\ row'[i] = Relay(row[i], row[n], n)
    BY <1>0, <2>3, <2>4
  <2>7. PICK k \in Int : Combined(row'[i], row[i], row[n], 1, k)
    BY <2>4, <2>5, <2>6, RelayCombined
  <2>8. \A j \in Pivot \ {i} : row'[j] = row[j]
    BY <1>0, <2>3
  <2>9. AddedTo(row', row, i, n, k)
    BY <2>4, <2>7, <2>8 DEF AddedTo
  <2>. QED BY <2>9 DEF Added
<1>4. CASE Conclude
  BY <1>0, <1>4, ConcludeScaled
<1>5. CASE Interrupted
  <2>1. PICK found \in BOOLEAN : \E Z \in Deletions(Zeros(Top.pivot, Top.despair), found) :
          row' = [row EXCEPT ![Top.pivot] = Without(@, Z)]
    BY <1>5 DEF Interrupted
  <2>2. PICK Z \in Deletions(Zeros(Top.pivot, Top.despair), found) :
          row' = [row EXCEPT ![Top.pivot] = Without(@, Z)]
    BY <2>1
  <2>3. Top.pivot \in Pivot
    BY <1>0, <1>5, TopCall DEF Interrupted, Searching
  <2>. QED BY <1>0, <2>2, <2>3, DeletionScaled
<1>6. CASE Solved /\ row' # row
  <2>1. PICK i : i = request
    OBVIOUS
  <2>2. i \in Pivot /\ row' = [row EXCEPT ![i] = Restrict(@, Heads(@))]
    BY <1>0, <1>6, <2>1 DEF Solved, TypeOK
  <2>3. row'[i] = Restrict(row[i], Heads(row[i])) /\ \A j \in Pivot \ {i} : row'[j] = row[j]
    BY <1>0, <2>2
  <2>4. \A c \in Integral : Entry(row'[i], c) = Entry(row[i], c)
    <3>1. row'[i] = [c \in Heads(row[i]) |-> row[i][c]]
      BY <2>3 DEF Restrict
    <3>. QED BY <3>1 DEF Entry, Heads
  <2>. QED BY <1>0, <2>2, <2>3, <2>4, ZerosScaled
<1>7. CASE Restart
  <2>1. ASSUME NEW i \in Pivot
        PROVE  \E m, w \in Int : (m * w) % P = 1 /\ Combined(row'[i], row[i], row[i], m, 0)
    <3>1. \E c \in Integral : Entry(row[i], c) # 0
      OBVIOUS
    <3>2. row'[i] = Reloaded(i)
      BY <1>7 DEF Restart
    <3>. QED BY <1>0, <3>1, <3>2, ReloadedCombined DEF IInv
  <2>. QED BY <2>1 DEF Scaled
<1>8. CASE Signal \/ Ended \/ \E i \in Pivot : Solve(i)
  BY <1>1, <1>8 DEF Signal, Ended, Solve, vars
<1>. QED
  BY <1>1, <1>2, <1>3, <1>4, <1>5, <1>6, <1>7, <1>8 DEF Next, Step

\* Every step keeps what satisfies all identities.
LEMMA EquivalentStep ==
  ASSUME IInv, IInv', Next, Independent(row)
  PROVE  Solutions(row') = Solutions(row) /\ Independent(row')
<1>1. row \in [Pivot -> Row] /\ row' \in [Pivot -> Row]
  BY DEF IInv, TypeOK
<1>2. \A i \in Pivot : \E c \in Integral : Entry(row[i], c) # 0
  BY <1>1, IndependentNonzero
<1>3. CASE row' = row
  BY <1>3
<1>4. CASE Scaled(row', row)
  BY <1>1, <1>4, ScaledEquivalent
<1>5. CASE Added(row', row)
  BY <1>1, <1>5, AddedEquivalent
<1>. QED BY <1>2, <1>3, <1>4, <1>5, RowsStep

-----------------------------------------------------------------------------
(* When the identities determine the pivots *)

\* No combination of the identities is free of all pivots.
Determined(rows) ==
  \A k \in [Pivot -> Coefficient] :
    (\A c \in Pivot : MapThenSumSet(LAMBDA i : k[i] * Entry(rows[i], c), Pivot) % P = 0) =>
      \A i \in Pivot : k[i] = 0

\* The coefficients at an integral, as what the sum is weighted with.
Column(rows, c) == [i \in Pivot |-> Entry(rows[i], c)]

LEMMA ColumnType ==
  ASSUME NEW R \in [Pivot -> Row], NEW k \in [Pivot -> Coefficient], NEW c \in Pivot
  PROVE  /\ Valued(k, Column(R, c), Pivot) /\ IsFiniteSet(Pivot)
         /\ Weighted(k, Column(R, c), Pivot) \in Int
<1>1. \A i \in Pivot : Entry(R[i], c) \in Coefficient
  BY EntryType
<1>2. Valued(k, Column(R, c), Pivot)
  BY <1>1 DEF Valued, Column, Coefficient
<1>3. IsFiniteSet(Pivot)
  BY PivotAssumption, FS_Subset
<1>. QED BY <1>2, <1>3, WeightedType

\* The sum in Determined.
LEMMA ColumnSum ==
  ASSUME NEW R, NEW k, NEW c
  PROVE  MapThenSumSet(LAMBDA i : k[i] * Entry(R[i], c), Pivot) = Weighted(k, Column(R, c), Pivot)
<1>. DEFINE x == Column(R, c)
            Folds(g) == g = [s \in SUBSET Pivot |-> IF s = {} THEN 0
                               ELSE k[Least(s)] * Entry(R[Least(s)], c) + g[s \ {Least(s)}]]
            G == CHOOSE g : Folds(g)
            H == CHOOSE g : IsFold(g, k, x, Pivot)
<1>1. MapThenSumSet(LAMBDA i : k[i] * Entry(R[i], c), Pivot) = G[Pivot]
  BY DEF MapThenSumSet, MapThenFoldSet, Least
<1>2. Weighted(k, x, Pivot) = H[Pivot]
  BY DEF Weighted, MapThenSumSet, MapThenFoldSet, IsFold, Least
<1>3. ASSUME NEW g PROVE Folds(g) <=> IsFold(g, k, x, Pivot)
  <2>1. ASSUME NEW s \in SUBSET Pivot, s # {} PROVE x[Least(s)] = Entry(R[Least(s)], c)
    <3>1. Least(s) \in Pivot
      BY <2>1, LeastIn
    <3>. QED BY <3>1 DEF Column
  <2>. HIDE DEF x
  <2>2. [s \in SUBSET Pivot |-> IF s = {} THEN 0
           ELSE k[Least(s)] * Entry(R[Least(s)], c) + g[s \ {Least(s)}]] =
        [s \in SUBSET Pivot |-> IF s = {} THEN 0
           ELSE k[Least(s)] * x[Least(s)] + g[s \ {Least(s)}]]
    BY <2>1
  <2>. QED BY <2>2 DEF IsFold
<1>4. IsFiniteSet(Pivot)
  BY PivotAssumption, FS_Subset
<1>5. \E g : IsFold(g, k, x, Pivot)
  BY <1>4, FoldExists
<1>6. IsFold(H, k, x, Pivot)
  BY <1>5
<1>7. Folds(G)
  <2>1. \E g : Folds(g)
    BY <1>3, <1>5
  <2>. HIDE DEF Folds
  <2>. QED BY <2>1
<1>8. IsFold(G, k, x, Pivot)
  BY <1>3, <1>7
<1>. HIDE DEF G, H, x
<1>9. G[Pivot] = H[Pivot]
  BY <1>4, <1>6, <1>8, FoldsAgree
<1>. QED BY <1>1, <1>2, <1>9 DEF x

LEMMA DeterminedBy ==
  ASSUME NEW R
  PROVE  Determined(R) <=>
           \A k \in [Pivot -> Coefficient] :
             (\A c \in Pivot : Weighted(k, Column(R, c), Pivot) % P = 0) =>
               \A i \in Pivot : k[i] = 0
BY ColumnSum DEF Determined

\* Sums of terms with the same remainders have the same remainder.
LEMMA WeightedCongruent ==
  ASSUME NEW f, NEW x, NEW g, NEW y, NEW Q, IsFiniteSet(Q), Valued(f, x, Q), Valued(g, y, Q),
         \A c \in Q : (f[c] * x[c]) % P = (g[c] * y[c]) % P
  PROVE  Weighted(f, x, Q) % P = Weighted(g, y, Q) % P
<1>0. P \in Int
  BY PrimeAssumption
<1>. DEFINE Same(u) == Weighted(f, x, u) % P = Weighted(g, y, u) % P
            Bad == {u \in FiniteSubsetsOf(Q) : ~Same(u)}
<1>1. ASSUME Bad # {} PROVE FALSE
  <2>1. PICK u \in Bad : \A v \in Bad : ~ (v \subseteq u /\ v # u)
    <3>1. Bad \subseteq FiniteSubsetsOf(Q)
      OBVIOUS
    <3>. HIDE DEF Bad
    <3>. QED BY <1>1, <3>1, SmallestSet
  <2>2. u \subseteq Q /\ IsFiniteSet(u) /\ ~Same(u)
    BY DEF FiniteSubsetsOf
  <2>3. u # {}
    BY <2>2, WeightedStep
  <2>. DEFINE c == Least(u)
              v == u \ {c}
  <2>4. c \in Q /\ v \subseteq u /\ v # u /\ IsFiniteSet(v)
    BY <2>2, <2>3, LeastIn, FS_RemoveElement
  <2>5. v \in FiniteSubsetsOf(Q)
    BY <2>2, <2>4 DEF FiniteSubsetsOf
  <2>6. Same(v)
    BY <2>1, <2>4, <2>5
  <2>7. /\ Weighted(f, x, u) = f[c] * x[c] + Weighted(f, x, v)
        /\ Weighted(g, y, u) = g[c] * y[c] + Weighted(g, y, v)
    BY <2>2, <2>3, WeightedStep
  <2>8. f[c] * x[c] \in Int /\ g[c] * y[c] \in Int
    <3>1. f[c] \in Int /\ g[c] \in Int /\ x[c] \in Int /\ y[c] \in Int
      BY <2>4 DEF Valued
    <3>. QED BY <3>1
  <2>9. Weighted(f, x, v) \in Int /\ Weighted(g, y, v) \in Int
    <3>1. Valued(f, x, v) /\ Valued(g, y, v)
      BY <2>2, <2>4 DEF Valued
    <3>. QED BY <2>4, <3>1, WeightedType
  <2>10. (f[c] * x[c]) % P = (g[c] * y[c]) % P
    BY <2>4
  <2>. HIDE DEF c, v
  <2>11. ASSUME NEW a \in Int, NEW b \in Int, NEW d \in Int, NEW e \in Int,
                a % P = b % P, d % P = e % P
         PROVE  (a + d) % P = (b + e) % P
    <3>1. PICK q \in Int : a = b + q * P
      BY <2>11, Congruence
    <3>2. PICK p \in Int : d = e + p * P
      BY <2>11, Congruence
    <3>3. a + d = (b + e) + (q + p) * P
      <4>1. (q + p) * P = q * P + p * P /\ q * P \in Int /\ p * P \in Int
        BY <1>0
      <4>. QED BY <3>1, <3>2, <4>1
    <3>4. a + d \in Int /\ b + e \in Int /\ q + p \in Int
      OBVIOUS
    <3>. QED BY <3>3, <3>4, Congruence
  <2>12. Same(u)
    BY <2>6, <2>7, <2>8, <2>9, <2>10, <2>11
  <2>. HIDE DEF Same
  <2>. QED BY <2>2, <2>12
<1>2. Q \in FiniteSubsetsOf(Q)
  BY DEF FiniteSubsetsOf
<1>. HIDE DEF Same
<1>3. Same(Q)
  BY <1>1, <1>2
<1>. QED BY <1>3 DEF Same

\* Multiplying identities does not change whether they determine the pivots, ...
LEMMA ScaledDetermined ==
  ASSUME NEW R \in [Pivot -> Row], NEW S \in [Pivot -> Row], Scaled(S, R), Determined(R)
  PROVE  Determined(S)
<1>. SUFFICES ASSUME NEW h \in [Pivot -> Coefficient],
                     \A c \in Pivot : Weighted(h, Column(S, c), Pivot) % P = 0
              PROVE  \A i \in Pivot : h[i] = 0
  BY DeterminedBy
<1>. DEFINE Factors(i, m, w) == m \in Int /\ w \in Int /\ (m * w) % P = 1
                                  /\ Combined(S[i], R[i], R[i], m, 0)
            m(i) == CHOOSE m \in Int : \E w \in Int : Factors(i, m, w)
            k == [i \in Pivot |-> (m(i) * h[i]) % P]
<1>1. ASSUME NEW i \in Pivot PROVE m(i) \in Int /\ \E w \in Int : Factors(i, m(i), w)
  <2>1. \E u \in Int : \E w \in Int : Factors(i, u, w)
    BY DEF Scaled
  <2>. HIDE DEF Factors
  <2>. QED BY <2>1
<1>. HIDE DEF m
<1>2. \A i \in Pivot : h[i] \in Coefficient /\ h[i] \in Int
  BY DEF Coefficient
<1>3. k \in [Pivot -> Coefficient]
  <2>1. ASSUME NEW i \in Pivot PROVE (m(i) * h[i]) % P \in Coefficient
    <3>1. m(i) \in Int /\ h[i] \in Int
      BY <1>1, <1>2
    <3>. HIDE DEF Factors
    <3>2. m(i) * h[i] \in Int
      BY <3>1
    <3>. QED BY <3>2, Remainder
  <2>. QED BY <2>1
<1>4. ASSUME NEW c \in Pivot PROVE Weighted(k, Column(R, c), Pivot) % P = 0
  <2>1. ASSUME NEW i \in Pivot
        PROVE  (k[i] * Column(R, c)[i]) % P = (h[i] * Column(S, c)[i]) % P
    <3>1. PICK u : u = m(i)
      OBVIOUS
    <3>2. PICK e : e = Entry(R[i], c)
      OBVIOUS
    <3>3. PICK w \in Int : Factors(i, u, w)
      BY <1>1, <3>1
    <3>4. u \in Int /\ c \in Integral /\ Combined(S[i], R[i], R[i], u, 0)
      BY <3>3, PivotAssumption
    <3>5. R[i] \in Row /\ S[i] \in Row
      OBVIOUS
    <3>6. e \in Coefficient /\ e \in Int /\ Entry(S[i], c) \in Coefficient
      BY <3>2, <3>5, EntryType DEF Coefficient
    <3>7. Entry(S[i], c) = (u * e) % P
      <4>1. Entry(S[i], c) % P = (u * e + 0 * e) % P
        BY <3>2, <3>4 DEF Combined
      <4>2. u * e + 0 * e = u * e
        BY <3>4, <3>6
      <4>. QED BY <3>6, <4>1, <4>2, OwnRemainder
    <3>8. PICK v : v = h[i]
      OBVIOUS
    <3>9. v \in Int /\ k[i] = (u * v) % P
      BY <1>2, <3>1, <3>8
    <3>. HIDE DEF k, Factors
    <3>10. (v * ((u * e) % P)) % P = (v * (u * e)) % P /\ (e * ((u * v) % P)) % P = (e * (u * v)) % P
      <4>1. u * e \in Int /\ u * v \in Int
        BY <3>4, <3>6, <3>9
      <4>. QED BY <3>6, <3>9, <4>1, ScaledRemainder
    <3>11. v * (u * e) = e * (u * v)
      BY <3>4, <3>6, <3>9
    <3>12. (u * v) % P \in Int
      <4>1. u * v \in Int
        BY <3>4, <3>9
      <4>. QED BY <4>1, PrimeAssumption
    <3>13. k[i] * e = e * k[i]
      BY <3>6, <3>9, <3>12
    <3>14. (k[i] * e) % P = (v * Entry(S[i], c)) % P
      BY <3>7, <3>9, <3>10, <3>11, <3>13
    <3>. QED BY <3>2, <3>8, <3>14 DEF Column
  <2>2. /\ IsFiniteSet(Pivot) /\ Valued(k, Column(R, c), Pivot)
        /\ Valued(h, Column(S, c), Pivot)
    <3>. HIDE DEF k
    <3>. QED BY <1>3, ColumnType
  <2>. HIDE DEF k
  <2>3. Weighted(k, Column(R, c), Pivot) % P = Weighted(h, Column(S, c), Pivot) % P
    BY <2>1, <2>2, WeightedCongruent
  <2>. QED BY <2>3
<1>5. \A i \in Pivot : k[i] = 0
  <2>. HIDE DEF k
  <2>. QED BY <1>3, <1>4, DeterminedBy
<1>6. ASSUME NEW i \in Pivot PROVE h[i] = 0
  <2>1. PICK u : u = m(i)
    OBVIOUS
  <2>2. PICK w \in Int : Factors(i, u, w)
    BY <1>1, <2>1
  <2>3. u \in Int /\ (u * w) % P = 1 /\ (u * h[i]) % P = 0
    BY <1>5, <2>1, <2>2
  <2>4. (w * ((u * h[i]) % P)) % P = h[i]
    BY <1>2, <2>3, UnitCancels
  <2>5. w * 0 = 0 /\ 0 % P = 0
    BY PrimeAssumption
  <2>. QED BY <2>3, <2>4, <2>5
<1>. QED BY <1>6

\* The sums of the next lemma leave the same remainder: the weights hi and hn on the
\* entries of two rows, the first of which has a times the second added to it.
TermsAgree(hi, hn, ei, en, a, A, B) ==
  (hi * ((1 * ei + a * en) % P) + (hn * en + A)) % P =
  (hi * ei + (((hn + a * hi) % P) * en + B)) % P

\* The arithmetic of the next lemma.
LEMMA AddedTerms ==
  ASSUME NEW hi \in Int, NEW hn \in Int, NEW ei \in Int, NEW en \in Int, NEW a \in Int,
         NEW A \in Int, NEW B \in Int, A % P = B % P
  PROVE  TermsAgree(hi, hn, ei, en, a, A, B)
<1>0. P \in Int
  BY PrimeAssumption
<1>1. PICK s \in Int : s = (1 * ei + a * en) % P
  BY PrimeAssumption
<1>2. PICK t \in Int : t = (hn + a * hi) % P
  BY PrimeAssumption
<1>3. PICK q \in Int : 1 * ei + a * en = q * P + s
  <2>1. 1 * ei + a * en \in Int
    OBVIOUS
  <2>. QED BY <1>1, <2>1, Division
<1>4. PICK p \in Int : hn + a * hi = p * P + t
  <2>1. hn + a * hi \in Int
    OBVIOUS
  <2>. QED BY <1>2, <2>1, Division
<1>5. PICK r \in Int : A = B + r * P
  BY Congruence
<1>. DEFINE d == (p * en - hi * q) + r
            x == hi * s + (hn * en + A)
            y == hi * ei + (t * en + B)
<1>6. s = (1 * ei + a * en) - q * P /\ t = (hn + a * hi) - p * P
  <2>1. q * P \in Int /\ p * P \in Int /\ 1 * ei + a * en \in Int /\ hn + a * hi \in Int
    BY <1>0
  <2>. QED BY <1>3, <1>4, <2>1
<1>7. x \in Int /\ y \in Int /\ d \in Int
  OBVIOUS
<1>8. x = y + d * P
  BY <1>0, <1>5, <1>6
<1>. HIDE DEF x, y, d
<1>9. x % P = y % P
  BY <1>7, <1>8, Congruence
<1>. QED BY <1>1, <1>2, <1>9 DEF x, y, TermsAgree

\* ... nor does adding a multiple of another.
LEMMA AddedDetermined ==
  ASSUME NEW R \in [Pivot -> Row], NEW S \in [Pivot -> Row], Added(S, R), Determined(R)
  PROVE  Determined(S)
<1>0. PICK i, n, a : AddedTo(S, R, i, n, a)
  BY DEF Added
<1>1. /\ i \in Pivot /\ n \in Pivot /\ n # i /\ a \in Int
      /\ Combined(S[i], R[i], R[n], 1, a) /\ \A j \in Pivot \ {i} : S[j] = R[j]
  BY <1>0 DEF AddedTo
<1>. SUFFICES ASSUME NEW h \in [Pivot -> Coefficient],
                     \A c \in Pivot : Weighted(h, Column(S, c), Pivot) % P = 0
              PROVE  \A j \in Pivot : h[j] = 0
  BY DeterminedBy
<1>. DEFINE t == (h[n] + a * h[i]) % P
            k == [h EXCEPT ![n] = t]
            Q == (Pivot \ {i}) \ {n}
<1>2. h[i] \in Int /\ h[n] \in Int /\ t \in Coefficient
  <2>1. h[i] \in Int /\ h[n] \in Int
    BY <1>1 DEF Coefficient
  <2>2. h[n] + a * h[i] \in Int
    BY <1>1, <2>1
  <2>. QED BY <2>1, <2>2, Remainder
<1>3. /\ k \in [Pivot -> Coefficient] /\ k[i] = h[i] /\ k[n] = t
      /\ \A j \in Q : k[j] = h[j]
  <2>. HIDE DEF t
  <2>. QED BY <1>1, <1>2
<1>. HIDE DEF k
<1>4. ASSUME NEW c \in Pivot PROVE Weighted(k, Column(R, c), Pivot) % P = 0
  <2>. DEFINE x == Column(R, c)
              y == Column(S, c)
  <2>1. /\ IsFiniteSet(Pivot) /\ IsFiniteSet(Pivot \ {i}) /\ IsFiniteSet(Q)
        /\ Valued(k, x, Pivot) /\ Valued(h, y, Pivot)
    BY <1>3, ColumnType, FS_RemoveElement
  <2>2. /\ Valued(k, x, Pivot \ {i}) /\ Valued(h, y, Pivot \ {i})
        /\ Valued(k, x, Q) /\ Valued(h, y, Q)
    BY <2>1 DEF Valued
  <2>3. /\ x[i] = Entry(R[i], c) /\ x[n] = Entry(R[n], c) /\ y[i] = Entry(S[i], c)
        /\ y[n] = x[n] /\ \A j \in Q : y[j] = x[j]
    BY <1>1 DEF Column
  <2>4. x[i] \in Int /\ x[n] \in Int /\ y[i] = (1 * x[i] + a * x[n]) % P
    <3>1. R[i] \in Row /\ R[n] \in Row /\ S[i] \in Row /\ c \in Integral
      BY <1>1, PivotAssumption
    <3>2. Entry(S[i], c) \in Coefficient
      BY <3>1, EntryType
    <3>3. Entry(S[i], c) % P = (1 * Entry(R[i], c) + a * Entry(R[n], c)) % P
      BY <1>1, <3>1 DEF Combined
    <3>4. Entry(R[i], c) \in Int /\ Entry(R[n], c) \in Int
      BY <3>1, EntryType DEF Coefficient
    <3>. QED BY <2>3, <3>2, <3>3, <3>4, OwnRemainder
  <2>. HIDE DEF x, y
  <2>5. /\ Weighted(h, y, Pivot) = h[i] * y[i] + Weighted(h, y, Pivot \ {i})
        /\ Weighted(k, x, Pivot) = k[i] * x[i] + Weighted(k, x, Pivot \ {i})
    BY <1>1, <2>1, WeightedRemove
  <2>6. /\ Weighted(h, y, Pivot \ {i}) = h[n] * y[n] + Weighted(h, y, Q)
        /\ Weighted(k, x, Pivot \ {i}) = k[n] * x[n] + Weighted(k, x, Q)
    <3>1. n \in Pivot \ {i}
      BY <1>1
    <3>. QED BY <2>1, <2>2, <3>1, WeightedRemove
  <2>7. Weighted(h, y, Q) % P = Weighted(k, x, Q) % P
    <3>1. \A j \in Q : (h[j] * y[j]) % P = (k[j] * x[j]) % P
      BY <1>3, <2>3
    <3>. HIDE DEF Q
    <3>. QED BY <2>1, <2>2, <3>1, WeightedCongruent
  <2>8. Weighted(h, y, Q) \in Int /\ Weighted(k, x, Q) \in Int
    BY <2>1, <2>2, WeightedType
  <2>. HIDE DEF Q
  <2>9. (h[i] * ((1 * x[i] + a * x[n]) % P) + (h[n] * x[n] + Weighted(h, y, Q))) % P =
        (h[i] * x[i] + (((h[n] + a * h[i]) % P) * x[n] + Weighted(k, x, Q))) % P
    <3>1. TermsAgree(h[i], h[n], x[i], x[n], a, Weighted(h, y, Q), Weighted(k, x, Q))
      BY <1>1, <1>2, <2>4, <2>7, <2>8, AddedTerms
    <3>. QED BY <3>1, Zenon DEF TermsAgree
  <2>10. Weighted(h, y, Pivot) % P = Weighted(k, x, Pivot) % P
    BY <1>3, <2>3, <2>4, <2>5, <2>6, <2>9, Zenon
  <2>11. Weighted(h, y, Pivot) % P = 0
    BY DEF y
  <2>. QED BY <2>10, <2>11 DEF x
<1>5. \A j \in Pivot : k[j] = 0
  BY <1>3, <1>4, DeterminedBy
<1>6. h[i] = 0 /\ \A j \in Q : h[j] = 0
  BY <1>1, <1>3, <1>5
<1>7. h[n] = 0
  <2>1. t = 0
    BY <1>1, <1>3, <1>5
  <2>2. h[n] + a * 0 = h[n]
    BY <1>1, <1>2
  <2>3. h[n] % P = 0
    BY <1>6, <2>1, <2>2
  <2>. QED BY <1>1, <2>3, OwnRemainder
<1>. QED BY <1>6, <1>7

\* A sum of nothing but zeros is zero.
LEMMA WeightedZero ==
  ASSUME NEW r, NEW x, NEW Q, IsFiniteSet(Q), \A c \in Q : r[c] * x[c] = 0
  PROVE  Weighted(r, x, Q) = 0
<1>. DEFINE Bad == {u \in FiniteSubsetsOf(Q) : Weighted(r, x, u) # 0}
<1>1. ASSUME Bad # {} PROVE FALSE
  <2>1. PICK u \in Bad : \A v \in Bad : ~ (v \subseteq u /\ v # u)
    <3>1. Bad \subseteq FiniteSubsetsOf(Q)
      OBVIOUS
    <3>. HIDE DEF Bad
    <3>. QED BY <1>1, <3>1, SmallestSet
  <2>2. u \subseteq Q /\ IsFiniteSet(u) /\ Weighted(r, x, u) # 0
    BY DEF FiniteSubsetsOf
  <2>3. u # {}
    BY <2>2, WeightedStep
  <2>. DEFINE c == Least(u)
              v == u \ {c}
  <2>4. c \in Q /\ v \subseteq u /\ v # u /\ IsFiniteSet(v)
    BY <2>2, <2>3, LeastIn, FS_RemoveElement
  <2>5. v \in FiniteSubsetsOf(Q)
    BY <2>2, <2>4 DEF FiniteSubsetsOf
  <2>6. Weighted(r, x, v) = 0
    BY <2>1, <2>4, <2>5
  <2>7. Weighted(r, x, u) = r[c] * x[c] + Weighted(r, x, v)
    BY <2>2, <2>3, WeightedStep
  <2>8. r[c] * x[c] = 0
    BY <2>4
  <2>. HIDE DEF c, v
  <2>. QED BY <2>2, <2>6, <2>7, <2>8
<1>2. Q \in FiniteSubsetsOf(Q)
  BY DEF FiniteSubsetsOf
<1>. QED BY <1>1, <1>2

\* Identities that determine the pivots all contain one.
LEMMA DeterminedNonzero ==
  ASSUME NEW R \in [Pivot -> Row], Determined(R), NEW i \in Pivot
  PROVE  \E c \in Pivot : Entry(R[i], c) # 0
<1>. SUFFICES ASSUME \A c \in Pivot : Entry(R[i], c) = 0 PROVE FALSE
  OBVIOUS
<1>. DEFINE k == [j \in Pivot |-> IF j = i THEN 1 ELSE 0]
<1>1. 1 \in Coefficient /\ 0 \in Coefficient /\ 0 % P = 0
  BY PrimeAssumption DEF Coefficient
<1>2. k \in [Pivot -> Coefficient] /\ k[i] = 1
  BY <1>1
<1>3. ASSUME NEW c \in Pivot PROVE Weighted(k, Column(R, c), Pivot) % P = 0
  <2>. DEFINE x == Column(R, c)
  <2>1. IsFiniteSet(Pivot) /\ Valued(k, x, Pivot)
    <3>. HIDE DEF k
    <3>. QED BY <1>2, ColumnType
  <2>2. ASSUME NEW j \in Pivot PROVE k[j] * x[j] = 0
    <3>1. x[j] \in Int /\ x[i] = 0
      BY <2>1 DEF Valued, Column
    <3>2. 0 * x[j] = 0 /\ 1 * x[j] = x[j]
      BY <3>1
    <3>. HIDE DEF x
    <3>. QED BY <3>1, <3>2
  <2>. HIDE DEF k, x
  <2>3. Weighted(k, x, Pivot) = 0
    BY <2>1, <2>2, WeightedZero
  <2>. QED BY <1>1, <2>3 DEF x
<1>4. k[i] = 0
  <2>. HIDE DEF k
  <2>. QED BY <1>2, <1>3, DeterminedBy
<1>. HIDE DEF k
<1>. QED BY <1>2, <1>4

\* Every step keeps identities that determine the pivots.
LEMMA DeterminedStep ==
  ASSUME IInv, IInv', Next, Determined(row)
  PROVE  Determined(row')
<1>1. row \in [Pivot -> Row] /\ row' \in [Pivot -> Row]
  BY DEF IInv, TypeOK
<1>2. \A i \in Pivot : \E c \in Integral : Entry(row[i], c) # 0
  BY <1>1, DeterminedNonzero, PivotAssumption
<1>3. CASE row' = row
  BY <1>3
<1>4. CASE Scaled(row', row)
  BY <1>1, <1>4, ScaledDetermined
<1>5. CASE Added(row', row)
  BY <1>1, <1>5, AddedDetermined
<1>. QED BY <1>2, <1>3, <1>4, <1>5, RowsStep

\* What the solver gives up on: a pivot is in a call, and some identity is free of pivots
\* unless one of them is too deep in consideration to be looked at.
Abandoned ==
  aborted =>
    /\ stack # <<>>
    /\ \/ \E i \in Pivot : \A c \in Pivot : Entry(row[i], c) = 0
       \/ \E c \in Pivot : consideration[c] > MaxDespair

LEMMA AbandonedStep ==
  ASSUME IInv, Abandoned, Next
  PROVE  Abandoned'
<1>1. CASE aborted
  <2>1. UNCHANGED vars
    BY <1>1 DEF Abandoned, Next, Step, Eliminate, Eliminated, Conclude, Interrupted, Searching,
                Solve, Solved, Signal, Restart, Ended
  <2>. QED BY <2>1 DEF vars, metaVars, Abandoned
<1>2. CASE ~aborted
  <2>. SUFFICES ASSUME aborted' PROVE Abandoned'
    BY DEF Abandoned
  <2>1. Conclude
    BY <1>2 DEF Next, Step, Eliminate, Eliminated, Interrupted, Solve, Solved, Signal, Restart,
                Ended, vars
  <2>2. PICK i : i = Top.pivot
    OBVIOUS
  <2>3. TypeOK /\ SolvedNormalized
    BY DEF IInv
  <2>4. i \in Pivot /\ stack # <<>>
    BY <2>1, <2>2, <2>3, TopCall DEF Conclude, Searching
  <2>5. PICK Z \in Deletions(Zeros(i, Top.despair), FALSE) :
          LET r == Without(row[i], Z) IN
            Unmodified(i, r) \/ Solvable(i, r) \/ Widen(i, r) \/ GiveUp(i, r)
    BY <2>1, <2>2 DEF Conclude
  <2>6. PICK r : r = Without(row[i], Z) /\ GiveUp(i, r)
    BY <1>2, <2>5 DEF Unmodified, Solvable, Widen
  <2>7. row'[i] = r /\ Entry(r, i) = 0 /\ Top.despair = MaxDespair /\ stack' = stack
    BY <2>3, <2>4, <2>6 DEF GiveUp, TypeOK
  <2>8. \A c \in Pivot \ {i} :
          solved[c] \/ (Top.despair # 0 /\ Top.despair >= consideration[c])
            => Entry(row'[i], c) = 0
    BY <2>1, <2>2, <2>3, Concluded
  <2>9. consideration' = consideration
    BY <2>1 DEF Conclude
  <2>10. CASE \A c \in Pivot : consideration[c] <= MaxDespair
    <3>1. ASSUME NEW c \in Pivot \ {i} PROVE Top.despair # 0 /\ Top.despair >= consideration[c]
      <4>1. consideration[c] \in Nat /\ consideration[c] <= MaxDespair /\ MaxDespair \in Nat \ {0}
        BY <2>3, <2>10, DespairAssumption DEF TypeOK
      <4>2. MaxDespair # 0 /\ MaxDespair >= consideration[c]
        BY <4>1
      <4>. QED BY <2>7, <4>2
    <3>2. \A c \in Pivot : Entry(row'[i], c) = 0
      BY <2>7, <2>8, <3>1
    <3>. QED BY <2>4, <2>7, <3>2 DEF Abandoned
  <2>11. CASE \E c \in Pivot : ~ (consideration[c] <= MaxDespair)
    <3>1. PICK c \in Pivot : ~ (consideration[c] <= MaxDespair)
      BY <2>11
    <3>2. consideration[c] \in Nat /\ MaxDespair \in Nat
      BY <2>3, DespairAssumption DEF TypeOK
    <3>3. consideration'[c] > MaxDespair
      BY <2>9, <3>1, <3>2
    <3>. QED BY <2>4, <2>7, <3>3 DEF Abandoned
  <2>. QED BY <2>10, <2>11
<1>. QED BY <1>1, <1>2

-----------------------------------------------------------------------------
(* The theorems *)

\* It holds at first.
LEMMA IInvInit ==
  ASSUME Init
  PROVE  IInv
<1>1. TypeOK
  <2>1. system \in [Pivot -> Row] /\ row = system /\ order \in [Pivot -> Nat]
    BY OrderAssumption, SystemAssumption DEF Init
  <2>2. /\ solved \in [Pivot -> BOOLEAN] /\ touched \in [Pivot -> BOOLEAN]
        /\ consideration \in [Pivot -> Nat]
    BY DEF Init
  <2>3. stack \in Seq(Calls) /\ request = None /\ terminate = FALSE /\ aborted = FALSE
    BY DEF Init
  <2>. QED
    BY <2>1, <2>2, <2>3 DEF TypeOK
<1>2. ConsiderationExact
  <2>. SUFFICES ASSUME NEW c \in Pivot
                PROVE  consideration[c] = Cardinality(CallsFor(stack, c))
                                            + (IF request = c THEN 1 ELSE 0)
    BY DEF ConsiderationExact, CallsFor
  <2>1. CallsFor(stack, c) = {} /\ consideration[c] = 0 /\ request # c
    BY PivotAssumption DEF Init, CallsFor
  <2>. QED
    BY <2>1, FS_EmptySet
<1>3. CallsNested /\ NoneFromItself /\ CallRequested /\ SolvedNormalized /\ ReturnedFree
        /\ SolveComplete
  BY DEF Init, CallsNested, NoneFromItself, CallRequested, SolvedNormalized, ReturnedFree,
         SolveComplete
<1>. QED
  BY <1>1, <1>2, <1>3 DEF IInv

\* Every step keeps it.
LEMMA IInvStep ==
  ASSUME IInv, [Next]_vars
  PROVE  IInv'
<1>1. CASE Next
  <2>1. TypeOK'
    BY <1>1, TypeStep
  <2>. QED
    BY <1>1, <2>1, ConsiderationStep, NestingStep, NoneFromItselfStep, SolvedNormalizedStep,
       ReturnedFreeStep, SolveCompleteStep DEF IInv
<1>2. CASE UNCHANGED vars
  BY <1>2 DEF vars, metaVars, IInv, TypeOK, CallsNested, NoneFromItself, CallRequested,
              ConsiderationExact, SolvedNormalized, Normalized, ReturnedFree, SolveComplete,
              Heads, Top
<1>. QED
  BY <1>1, <1>2

\* The invariant holds in every state of the solver, whatever the identities, the order in
\* which values arrive, the mode of elimination and the signals.
THEOREM Invariance == SafeSpec => []IInv
<1>1. Init => IInv
  BY IInvInit
<1>2. IInv /\ [Next]_vars => IInv'
  BY IInvStep
<1>. QED
  BY <1>1, <1>2, PTL DEF SafeSpec

\* Every variable keeps its type: in particular no consideration gets below zero, and
\* dividing is only by what has a reciprocal, so that all coefficients are residues.
THEOREM TypeCorrect == SafeSpec => []TypeOK
<1>1. IInv => TypeOK
  BY DEF IInv
<1>. QED
  BY <1>1, Invariance, PTL

\* The consideration of a pivot is exactly the number of calls of cks() that are solving
\* for it, after interruptions and in the next run too.
THEOREM ConsiderationsCount == SafeSpec => []ConsiderationExact
<1>1. IInv => ConsiderationExact
  BY DEF IInv
<1>. QED
  BY <1>1, Invariance, PTL

\* When cks_solve returns without an interruption what it was asked for is normalized and
\* expressed by master integrals alone.
THEOREM SolutionsAreComplete == SafeSpec => []SolveComplete
<1>1. IInv => SolveComplete
  BY DEF IInv
<1>. QED
  BY <1>1, Invariance, PTL

\* qs_pivot_graph_relay is called for solved and normalized pivots only, as its
\* documentation demands, though the recursion may meanwhile have solved, modified and
\* solved again any of them.
THEOREM RelaysAreNormalized == SafeSpec => RelaysNormalized
<1>1. ASSUME IInv, [Next]_vars, stack # <<>>, Top.next # None, row' # row
      PROVE  Normalized(Top.next) /\ solved[Top.next]
  <2>1. Eliminated
    BY <1>1 DEF Next, Step, Eliminate, Conclude, Interrupted, Searching, Solve, Solved,
                Signal, Restart, Ended, vars, metaVars
  <2>2. ~terminate
    BY <1>1, <2>1 DEF Eliminated
  <2>3. solved[Top.next] /\ Top.next \in Pivot
    BY <1>1, <2>2, TopCall DEF IInv, ReturnedFree
  <2>. QED
    BY <1>1, <2>3 DEF IInv, SolvedNormalized
<1>2. IInv /\ [Next]_vars =>
        [stack # <<>> /\ Top.next # None /\ row' # row =>
           Normalized(Top.next) /\ solved[Top.next]]_vars
  BY <1>1
<1>. QED
  BY <1>2, Invariance, PTL DEF SafeSpec, RelaysNormalized

\* Eliminating, deleting zeros, normalizing, saving and loading lose and invent nothing: what
\* satisfies all identities is what satisfied them at first, provided that none of them
\* followed from the others.  (One that does is reduced to nothing, and saving and loading
\* an empty pivot makes it say that its integral is zero.)
THEOREM SolutionsArePreserved ==
  ASSUME \A s \in Systems : Independent(s)
  PROVE  SafeSpec => []Equivalent
<1>. DEFINE Kept == Equivalent /\ Independent(row)
<1>1. Init => Kept
  BY DEF Init, Equivalent
<1>2. IInv /\ IInv' /\ Kept /\ [Next]_vars => Kept'
  <2>. SUFFICES ASSUME IInv, IInv', Kept, [Next]_vars PROVE Kept'
    OBVIOUS
  <2>1. CASE Next
    <3>1. Solutions(row') = Solutions(row) /\ Independent(row')
      BY <2>1, EquivalentStep
    <3>2. system' = system
      BY <2>1 DEF Next, Step, Eliminate, Eliminated, Conclude, Interrupted, Solve, Solved,
                  Signal, Restart, Ended, vars
    <3>. QED BY <3>1, <3>2 DEF Equivalent
  <2>2. CASE UNCHANGED vars
    BY <2>2 DEF vars, Equivalent
  <2>. QED BY <2>1, <2>2
<1>3. Kept => Equivalent
  OBVIOUS
<1>. HIDE DEF Kept
<1>. QED
  BY <1>1, <1>2, <1>3, Invariance, PTL DEF SafeSpec

\* The solver gives up only if the identities do not determine the pivots: some of them
\* combine to one that is free of all pivots.  Nothing else makes it abort, be it the order of the
\* eliminations, an interruption or what earlier runs saved, unless the solver is solving for one
\* and the same pivot more than QS_MAX_DESPAIR times at once, which it then does not look at.
THEOREM GivesUpWithReason == SafeSpec => []AbortsWithReason
<1>. DEFINE Kept == Determined(system) => Determined(row)
<1>1. Init => Kept /\ Abandoned
  BY DEF Init, Abandoned
<1>2. IInv /\ IInv' /\ Kept /\ Abandoned /\ [Next]_vars => Kept' /\ Abandoned'
  <2>. SUFFICES ASSUME IInv, IInv', Kept, Abandoned, [Next]_vars PROVE Kept' /\ Abandoned'
    OBVIOUS
  <2>1. CASE Next
    <3>1. Determined(row) => Determined(row')
      BY <2>1, DeterminedStep
    <3>2. system' = system
      BY <2>1 DEF Next, Step, Eliminate, Eliminated, Conclude, Interrupted, Solve, Solved,
                  Signal, Restart, Ended, vars
    <3>. QED BY <2>1, <3>1, <3>2, AbandonedStep
  <2>2. CASE UNCHANGED vars
    BY <2>2 DEF vars, metaVars, Abandoned
  <2>. QED BY <2>1, <2>2
<1>3. IInv /\ Kept /\ Abandoned => AbortsWithReason
  <2>. SUFFICES ASSUME IInv, Kept, Abandoned, aborted, ~Exhausted
                PROVE  ~Regular
    BY DEF AbortsWithReason
  <2>1. PICK j \in Pivot : \A c \in Pivot : Entry(row[j], c) = 0
    BY DEF Abandoned, Exhausted
  <2>2. ~Determined(row)
    BY <2>1, DeterminedNonzero DEF IInv, TypeOK
  <2>3. ~Determined(system)
    BY <2>2
  <2>4. Regular => Determined(system)
    BY Zenon DEF Regular, Determined
  <2>. QED BY <2>3, <2>4
<1>. HIDE DEF Kept
<1>. QED
  BY <1>1, <1>2, <1>3, Invariance, PTL DEF SafeSpec
=============================================================================
