---------------------------- MODULE CoefficientId ----------------------------
(***************************************************************************)
(* Under which number a coefficient is kept in the storage database:       *)
(* generate_id and drop_id of src/pivotgraph.c, and what the storage holds *)
(* under these numbers.  Numbers are given in turn and begin anew at zero  *)
(* when the word is used up.  Two counters say how many numbers of the     *)
(* lower and of the upper half are in use; instead of looking for a free   *)
(* number, generate_id asserts that the whole half it enters is unused.    *)
(* generate_id is called by the frontend alone, the rest by any thread; a  *)
(* drop between its check and its step cannot make the check fail.         *)
(***************************************************************************)
EXTENDS Integers, FiniteSets

CONSTANTS Coefficient,  \* the coefficients there are at some time
          MaxLow,       \* COEFFICIENT_UID_MAX_LOW, half of the word
          Nothing       \* no number, no coefficient

ASSUME WordAssumption == MaxLow \in Nat
ASSUME CoefficientAssumption == IsFiniteSet(Coefficient) /\ Nothing \notin Coefficient
ASSUME NothingAssumption == Nothing \notin Nat

MaxHigh == 2 * MaxLow + 1        \* COEFFICIENT_UID_MAX_HIGH
UID     == 0 .. MaxHigh          \* CoefficientUID

VARIABLES
  currentId, nLow, nHigh,   \* current_id, n_low_ids, n_high_ids
  uid,                      \* the number of each coefficient in use
  inStorage,                \* the coefficients that are not in memory but in the storage
  storage,                  \* whose value is found under a number
  failed                    \* an assertion failed, which ends the program

counters == <<currentId, nLow, nHigh>>
idVars == <<counters, uid, inStorage, storage, failed>>

IdInit ==
  /\ currentId = 0 /\ nLow = 0 /\ nHigh = 0
  /\ uid = [c \in Coefficient |-> Nothing]
  /\ inStorage = {}
  /\ storage = [u \in UID |-> Nothing]
  /\ failed = FALSE

Live    == {c \in Coefficient : uid[c] # Nothing}
Low(c)  == uid[c] <= MaxLow
Lows    == {c \in Live : Low(c)}
Highs   == {c \in Live : ~Low(c)}

\* The number that is given next.
NextId == IF currentId = MaxHigh THEN 0 ELSE currentId

-----------------------------------------------------------------------------
(* Mutants: what a plausible mistake would make of the definitions below; nothing uses *)
(* them.                                                                               *)

\* Asserted: the upper half is not checked.
AssertedLowOnly == currentId = MaxHigh => nLow = 0

-----------------------------------------------------------------------------
\* What generate_id asserts of the counters.
Asserted ==
  /\ currentId = MaxHigh => nLow = 0
  /\ NextId = MaxLow => nHigh = 0

\* generate_id, for a coefficient that is baked.
Generate(c) ==
  /\ uid[c] = Nothing /\ ~failed
  /\ Asserted
  /\ uid' = [uid EXCEPT ![c] = NextId]
  /\ currentId' = NextId + 1
  /\ nLow'  = IF NextId <= MaxLow THEN nLow + 1 ELSE nLow
  /\ nHigh' = IF NextId <= MaxLow THEN nHigh ELSE nHigh + 1
  /\ UNCHANGED <<inStorage, storage, failed>>

\* An assertion of generate_id fails.
GenerateFails ==
  /\ ~failed /\ ~Asserted
  /\ failed' = TRUE
  /\ UNCHANGED <<counters, uid, inStorage, storage>>

\* terminal_discarder and drop_id.  The entry in the storage is left there: saved is
\* never set, so qs_db_del is not called.  The coefficient need not be in memory.
Drop(c) ==
  /\ c \in Live /\ ~failed
  /\ nLow'  = IF Low(c) THEN nLow - 1 ELSE nLow
  /\ nHigh' = IF Low(c) THEN nHigh ELSE nHigh - 1
  /\ uid' = [uid EXCEPT ![c] = Nothing]
  /\ inStorage' = inStorage \ {c}
  /\ UNCHANGED <<currentId, storage, failed>>

\* terminal_saver: the coefficient leaves memory.
SaveValue(c) ==
  /\ c \in Live /\ c \notin inStorage /\ ~failed
  /\ storage' = [storage EXCEPT ![uid[c]] = c]
  /\ inStorage' = inStorage \cup {c}
  /\ UNCHANGED <<counters, uid, failed>>

\* terminal_loader reads what is under its number.
Found(c) == storage[uid[c]]

LoadValue(c) ==
  /\ c \in inStorage /\ ~failed
  /\ inStorage' = inStorage \ {c}
  /\ UNCHANGED <<counters, uid, storage, failed>>

IdEnded == failed /\ UNCHANGED idVars

IdNext == GenerateFails \/ IdEnded
     \/ \E c \in Coefficient : Generate(c) \/ Drop(c) \/ SaveValue(c) \/ LoadValue(c)

IdSpec == IdInit /\ [][IdNext]_idVars

-----------------------------------------------------------------------------
(* What has to hold *)

IdTypeOK ==
  /\ currentId \in UID
  /\ nLow \in Nat /\ nHigh \in Nat
  /\ uid \in [Coefficient -> UID \cup {Nothing}]
  /\ inStorage \subseteq Live
  /\ storage \in [UID -> Coefficient \cup {Nothing}]
  /\ failed \in BOOLEAN

\* The counters are the numbers in use.
CountsExact == nLow = Cardinality(Lows) /\ nHigh = Cardinality(Highs)

\* The half that numbers are given from is in use up to the current number only.
HalfUnused == \A c \in Live : (Low(c) <=> currentId <= MaxLow) => uid[c] < currentId

\* No two coefficients in use share a number, also after the word has been used up and
\* whichever of them are dropped late.
UniqueIds == \A c, d \in Live : uid[c] = uid[d] => c = d

\* What terminal_loader is going to find for a coefficient is what terminal_saver wrote
\* for it, though entries of dropped coefficients stay and numbers are given again.
LoadsOwn == \A c \in inStorage : Found(c) = c
=============================================================================
