---------------------------- MODULE CKSInvariant ----------------------------
(***************************************************************************)
(* The inductive invariant of the solver: what the recursion of cks() may  *)
(* rely on when one of its calls returns, and what it has to leave behind. *)
(***************************************************************************)
EXTENDS CKS

Calls == [pivot : Pivot, despair : Nat, next : Pivot \cup {None}]

\* The type of every variable.
TypeOK ==
  /\ system \in [Pivot -> Row] /\ row \in [Pivot -> Row]
  /\ order \in [Pivot -> Nat]
  /\ solved \in [Pivot -> BOOLEAN] /\ touched \in [Pivot -> BOOLEAN]
  /\ consideration \in [Pivot -> Nat]
  /\ stack \in Seq(Calls) /\ request \in Pivot \cup {None}
  /\ terminate \in BOOLEAN /\ aborted \in BOOLEAN

\* Each call is for the pivot the call below it is going to eliminate.
CallsNested ==
  \A k \in 1 .. (Len(stack) - 1) : stack[k].next = stack[k + 1].pivot

\* No pivot is eliminated from itself.
NoneFromItself == \A k \in 1 .. Len(stack) : stack[k].next # stack[k].pivot

\* The outermost call is the one of cks_solve, which never looks without despair.
CallRequested ==
  stack # <<>> =>
    request # None /\ stack[1].pivot = request /\ stack[1].despair > 0

\* A solved pivot is normalized, whatever was relayed or deleted since.
SolvedNormalized == \A i \in Pivot : solved[i] => Normalized(i)

\* What a call returns to insert is solved and free of all solved pivots, so that inserting
\* it does not disturb the normalization of a pivot that was solved further up meanwhile.
ReturnedFree ==
  stack # <<>> /\ Top.next # None /\ ~terminate =>
    /\ solved[Top.next]
    /\ \A c \in Pivot \ {Top.next} : solved[c] => Entry(row[Top.next], c) = 0

\* The left hand sides of identities can have any values: no identity follows from others.
Independent(rows) ==
  \A b \in [Pivot -> Coefficient] :
    \E x \in [Integral -> Coefficient] : \A i \in Pivot : Value(rows[i], x) = b[i]

\* All of this is kept by every step.
IInv == /\ TypeOK /\ CallsNested /\ NoneFromItself /\ CallRequested
        /\ ConsiderationExact
        /\ SolvedNormalized /\ ReturnedFree /\ SolveComplete
=============================================================================
