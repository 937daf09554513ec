--------------------------------- MODULE CKS ---------------------------------
(***************************************************************************)
(* The solver: src/policies/cks.c over the pivots of src/pivotgraph.c.  A  *)
(* pivot is the identity sum of row[i][c] * c = 0 between integrals, one   *)
(* for each integral that is not a master integral.  To solve for i, other *)
(* pivots are solved in recursion, normalized, and inserted ("relayed").   *)
(* The recursion is the variable stack; its calls of itself at the very    *)
(* end of cks() are loops here.                                            *)
(*                                                                         *)
(* Coefficients are residues modulo the prime P: the rational functions of *)
(* the program are a field too.  The numeric coefficient a decision looks  *)
(* at is taken to vanish just when the symbolic one does.  The values are  *)
(* computed by workers (module AEF), so in what order they arrive is open. *)
(* Pivots are there from the start, the program loads them when needed.    *)
(***************************************************************************)
EXTENDS Integers, Sequences, FiniteSets, FiniteSetsExt, Functions

CONSTANTS Integral,     \* the integrals, QsComponent
          Pivot,        \* those with an identity, the others are master integrals
          Order,        \* the order of each identity in the database
          P,            \* the prime
          MaxDespair,   \* QS_MAX_DESPAIR
          Elimination,  \* info->elimination: "wait", "optimistic" or "keep"
          Systems,      \* the systems of identities to begin with
          None          \* no integral

ASSUME PivotAssumption == IsFiniteSet(Integral) /\ Pivot \subseteq Integral /\ None \notin Integral
ASSUME OrderAssumption == Order \in [Pivot -> Nat]
ASSUME PrimeAssumption ==   \* which P is just when all but zero can be divided by
  P \in Nat /\ P > 1 /\ \A a \in 1 .. (P - 1) : \E b \in 0 .. (P - 1) : (a * b) % P = 1
ASSUME DespairAssumption == MaxDespair \in Nat \ {0}
ASSUME EliminationAssumption == Elimination \in {"wait", "optimistic", "keep"}

VARIABLES
  row,            \* the edges of each pivot with their coefficients
  order,          \* QsMetadata
  solved,
  touched,
  consideration

VARIABLES
  stack,          \* the calls of cks(): pivot, despair and next_i while that is solved
  request,        \* the integral cks_solve was called for
  terminate,      \* info->terminate
  aborted,        \* the program ended in abort()
  system          \* the identities it began with

metaVars == <<order, solved, touched, consideration>>
vars     == <<row, metaVars, stack, request, terminate, aborted, system>>

Coefficient == 0 .. (P - 1)
Row == UNION {[heads -> Coefficient] : heads \in SUBSET Integral}
ASSUME SystemAssumption == Systems \subseteq [Pivot -> Row]

MinusOne    == P - 1
Reciprocal(a)  == CHOOSE b \in Coefficient : (a * b) % P = 1

-----------------------------------------------------------------------------
(* Operations on a pivot *)

\* What edges to the same head amount to, none being nothing.
Entry(r, c) == IF c \in DOMAIN r THEN r[c] ELSE 0

Heads(r) == {c \in DOMAIN r : r[c] # 0}

Without(r, heads) == Restrict(r, DOMAIN r \ heads)

\* qs_pivot_graph_relay and the collects that follow: n is replaced by what its row makes
\* it equal to.  Without an edge to n there is nothing to replace.
Relay(r, s, n) ==
  IF n \notin DOMAIN r THEN r
  ELSE [c \in (DOMAIN r \cup DOMAIN s) \ {n} |-> (Entry(r, c) + r[n] * Entry(s, c)) % P]

\* Normalize with a mistake: it divides by the edge of the pivot, not by minus that.
NormalizePlus(r, i) ==
  IF Cardinality(DOMAIN r) = 1 THEN r
  ELSE [c \in DOMAIN r |-> IF c = i THEN MinusOne ELSE (r[c] * Reciprocal(r[i])) % P]

\* qs_pivot_graph_normalize: -i + ... = 0.  A single edge is left as it is.
Normalize(r, i) ==
  IF Cardinality(DOMAIN r) = 1 THEN r
  ELSE [c \in DOMAIN r |-> IF c = i THEN MinusOne
                           ELSE (r[c] * Reciprocal((P - r[i]) % P)) % P]

-----------------------------------------------------------------------------
Init ==
  /\ system \in Systems
  /\ row = system
  /\ order = Order
  /\ solved        = [i \in Pivot |-> FALSE]
  /\ touched       = [i \in Pivot |-> FALSE]
  /\ consideration = [i \in Pivot |-> 0]
  /\ stack = <<>>
  /\ request = None
  /\ terminate = FALSE /\ aborted = FALSE

Top   == stack[Len(stack)]
Lower == SubSeq(stack, 1, Len(stack) - 1)
Call(i, d) == [pivot |-> i, despair |-> d, next |-> None]

\* The call on top looks for its next elimination.
Searching == stack # <<>> /\ Top.next = None /\ ~aborted

\* The edges that may be eliminated from i.
Suitable(i, despair) ==
  {c \in (DOMAIN row[i] \cap Pivot) \ {i} :
     \/ solved[c]
     \/ order[c] < order[i] /\ consideration[c] = 0
     \/ despair # 0 /\ despair >= consideration[c]}

\* Those found to be zero, and not zero.
Zeros(i, despair)      == {c \in Suitable(i, despair) : row[i][c] = 0}
Candidates(i, despair) == Suitable(i, despair) \ Zeros(i, despair)

\* The zeros that are deleted during the search, whether or not an elimination was found.
\* "optimistic" deletes what it comes across, "wait" all and "keep" what happens to be
\* evaluated, both of these only if no elimination was found.
Deletions(zeros, found) ==
  IF found THEN IF Elimination = "optimistic" THEN SUBSET zeros ELSE {{}}
  ELSE IF Elimination = "keep" THEN SUBSET zeros ELSE {zeros}

-----------------------------------------------------------------------------
(* Mutants: what a plausible mistake would make of the actions below; no action uses   *)
(* them.                                                                               *)

\* Eliminated: goes on though termination was requested.
EliminatedAnyway ==
  /\ stack # <<>> /\ Top.next # None /\ ~aborted
  /\ consideration' = [consideration EXCEPT ![Top.next] = @ - 1]
  /\ LET i == Top.pivot IN
       /\ row' = IF touched[i] THEN row
                 ELSE [row EXCEPT ![i] = Relay(@, row[Top.next], Top.next)]
       /\ touched' = [touched EXCEPT ![i] = TRUE]
       /\ stack' = [stack EXCEPT ![Len(stack)].next = None]
  /\ UNCHANGED <<order, solved, request, terminate, aborted, system>>

\* Eliminated: the consideration is not taken back when termination was requested.
EliminatedConsidered ==
  /\ stack # <<>> /\ Top.next # None /\ ~aborted
  /\ IF terminate
     THEN stack' = Lower /\ UNCHANGED <<row, touched, consideration>>
     ELSE LET i == Top.pivot IN
            /\ consideration' = [consideration EXCEPT ![Top.next] = @ - 1]
            /\ row' = IF touched[i] THEN row
                      ELSE [row EXCEPT ![i] = Relay(@, row[Top.next], Top.next)]
            /\ touched' = [touched EXCEPT ![i] = TRUE]
            /\ stack' = [stack EXCEPT ![Len(stack)].next = None]
  /\ UNCHANGED <<order, solved, request, terminate, aborted, system>>

\* Eliminated: the test of touched is the wrong way round.
EliminatedInverted ==
  /\ stack # <<>> /\ Top.next # None /\ ~aborted
  /\ consideration' = [consideration EXCEPT ![Top.next] = @ - 1]
  /\ IF terminate
     THEN stack' = Lower /\ UNCHANGED <<row, touched>>
     ELSE LET i == Top.pivot IN
            /\ row' = IF ~touched[i] THEN row
                      ELSE [row EXCEPT ![i] = Relay(@, row[Top.next], Top.next)]
            /\ touched' = [touched EXCEPT ![i] = TRUE]
            /\ stack' = [stack EXCEPT ![Len(stack)].next = None]
  /\ UNCHANGED <<order, solved, request, terminate, aborted, system>>

\* Solve: begins without despair.
SolveTimidly(i) ==
  /\ stack = <<>> /\ request = None /\ ~terminate
  /\ consideration' = [consideration EXCEPT ![i] = 1]
  /\ request' = i
  /\ stack' = <<Call(i, 0)>>
  /\ UNCHANGED <<row, order, solved, touched, terminate, aborted, system>>

\* Reloaded: the edge of minus one is only added to what is empty.
ReloadedBare(i) ==
  LET saved == Restrict(row[i], Heads(row[i]) \ (IF solved[i] THEN {i} ELSE {}))
  IN IF DOMAIN saved = {} THEN [c \in {i} |-> MinusOne] ELSE saved

-----------------------------------------------------------------------------
(* cks() *)

\* Some candidate whose value arrived is going to be eliminated: solve for it first.
Eliminate ==
  /\ Searching /\ ~terminate
  /\ LET i == Top.pivot IN
       \E c \in Candidates(i, Top.despair) :
         /\ \E Z \in Deletions(Zeros(i, Top.despair), TRUE) :
              row' = [row EXCEPT ![i] = Without(@, Z)]
         /\ solved'  = [solved EXCEPT ![i] = FALSE]
         /\ touched' = [touched EXCEPT ![i] = FALSE]
         /\ consideration' = [consideration EXCEPT ![c] = @ + 1]
         /\ stack' = Append([stack EXCEPT ![Len(stack)].next = c], Call(c, 0))
  /\ UNCHANGED <<order, request, terminate, aborted, system>>

\* Back from there.  If this pivot was modified meanwhile its search begins anew, else
\* next is eliminated from it first.
Eliminated ==
  /\ stack # <<>> /\ Top.next # None /\ ~aborted
  /\ consideration' = [consideration EXCEPT ![Top.next] = @ - 1]
  /\ IF terminate
     THEN stack' = Lower /\ UNCHANGED <<row, touched>>
     ELSE LET i == Top.pivot IN
            /\ row' = IF touched[i] THEN row
                      ELSE [row EXCEPT ![i] = Relay(@, row[Top.next], Top.next)]
            /\ touched' = [touched EXCEPT ![i] = TRUE]
            /\ stack' = [stack EXCEPT ![Len(stack)].next = None]
  /\ UNCHANGED <<order, solved, request, terminate, aborted, system>>

\* How a call ends whose search found nothing to eliminate and left the edges r.
\* It was not modified since it was solved.
Unmodified(i, r) ==
  /\ solved[i]
  /\ row' = [row EXCEPT ![i] = r]
  /\ stack' = Lower
  /\ UNCHANGED <<solved, aborted>>

\* It is normalized.
Solvable(i, r) ==
  /\ ~solved[i] /\ Entry(r, i) # 0
  /\ row' = [row EXCEPT ![i] = Normalize(r, i)]
  /\ solved' = [solved EXCEPT ![i] = TRUE]
  /\ stack' = Lower
  /\ UNCHANGED aborted

\* Its own edge vanished: the search is widened.
Widen(i, r) ==
  /\ ~solved[i] /\ Entry(r, i) = 0 /\ Top.despair < MaxDespair
  /\ row' = [row EXCEPT ![i] = r]
  /\ stack' = [stack EXCEPT ![Len(stack)].despair = @ + 1]
  /\ UNCHANGED <<solved, aborted>>

\* It cannot be widened any more.
GiveUp(i, r) ==
  /\ ~solved[i] /\ Entry(r, i) = 0 /\ Top.despair = MaxDespair
  /\ row' = [row EXCEPT ![i] = r]
  /\ aborted' = TRUE
  /\ UNCHANGED <<stack, solved>>

Conclude ==
  /\ Searching /\ ~terminate
  /\ Candidates(Top.pivot, Top.despair) = {}
  /\ LET i == Top.pivot IN
       \E Z \in Deletions(Zeros(i, Top.despair), FALSE) :
         LET r == Without(row[i], Z) IN
           Unmodified(i, r) \/ Solvable(i, r) \/ Widen(i, r) \/ GiveUp(i, r)
  /\ UNCHANGED <<order, touched, consideration, request, terminate, system>>

\* Termination was requested: the call returns after its search, whatever that found.
Interrupted ==
  /\ Searching /\ terminate
  /\ LET i == Top.pivot
         found == Candidates(i, Top.despair) # {}
     IN \E Z \in Deletions(Zeros(i, Top.despair), found) :
          row' = [row EXCEPT ![i] = Without(@, Z)]
  /\ stack' = Lower
  /\ UNCHANGED <<metaVars, request, terminate, aborted, system>>

-----------------------------------------------------------------------------
(* cks_solve and the main loop of quicksolve.c *)

\* A signal that arrives while the next line is read is as good as one right after this.
Solve(i) ==
  /\ stack = <<>> /\ request = None /\ ~terminate
  /\ consideration' = [consideration EXCEPT ![i] = 1]
  /\ request' = i
  /\ stack' = <<Call(i, 1)>>
  /\ UNCHANGED <<row, order, solved, touched, terminate, aborted, system>>

\* With -q the result is not printed; if it is, qs_pivot_graph_acquire removes zeros.
Solved ==
  /\ stack = <<>> /\ request # None
  /\ consideration' = [consideration EXCEPT ![request] = 0]
  /\ \/ UNCHANGED row
     \/ ~terminate /\ row' = [row EXCEPT ![request] = Restrict(@, Heads(@))]
  /\ request' = None
  /\ UNCHANGED <<order, solved, touched, stack, terminate, aborted, system>>

\* SIGINT
Signal ==
  /\ ~terminate /\ ~aborted
  /\ terminate' = TRUE
  /\ UNCHANGED <<row, metaVars, stack, request, aborted, system>>

\* What qs_integral_mgr_save_expression writes of a pivot at the end, its zeros removed,
\* and qs_integral_mgr_load_raw reads in the next run.  A solved pivot is written
\* without its own edge and without metadata, and gets an edge of minus one when read; so
\* does anything empty.
Reloaded(i) ==
  LET saved == Restrict(row[i], Heads(row[i]) \ (IF solved[i] THEN {i} ELSE {}))
  IN IF solved[i] \/ DOMAIN saved = {}
     THEN [c \in DOMAIN saved \cup {i} |-> IF c = i THEN MinusOne ELSE saved[c]]
     ELSE saved

Restart ==
  /\ stack = <<>> /\ request = None
  /\ row' = [i \in Pivot |-> Reloaded(i)]
  /\ order'   = [i \in Pivot |-> IF solved[i] THEN 0 ELSE order[i]]
  /\ touched' = [i \in Pivot |-> touched[i] /\ ~solved[i]]
  /\ consideration' = [i \in Pivot |-> 0]
  /\ terminate' = FALSE
  /\ UNCHANGED <<solved, stack, request, aborted, system>>

\* The steps of a call of cks().
Step == Eliminate \/ Eliminated \/ Conclude \/ Interrupted

\* abort() ends the program.
Ended == aborted /\ UNCHANGED vars

Next == Step \/ Solved \/ Signal \/ Restart \/ Ended \/ \E i \in Pivot : Solve(i)

SafeSpec == Init /\ [][Next]_vars
Spec == SafeSpec /\ WF_vars(Step) /\ WF_vars(Solved)

-----------------------------------------------------------------------------
(* What has to hold *)

\* The value of the left hand side of an identity, and what satisfies all identities.
Value(r, x) == MapThenSumSet(LAMBDA c : r[c] * x[c], DOMAIN r) % P
Solutions(rows) ==
  {x \in [Integral -> Coefficient] : \A i \in Pivot : Value(rows[i], x) = 0}

\* Eliminating, deleting, normalizing, saving and loading lose and invent nothing: the
\* values that satisfy all identities are those that satisfied them at first.
Equivalent == Solutions(row) = Solutions(system)

\* The form -i + ... = 0, or i = 0 with any factor.
Normalized(i) == Entry(row[i], i) # 0 /\ (DOMAIN row[i] # {i} => row[i][i] = MinusOne)

\* The documentation of qs_pivot_graph_relay: the head is a normalized pivot whenever it
\* is inserted somewhere.  The comment in cks(): it may not be after an interruption.
RelaysNormalized ==
  [][stack # <<>> /\ Top.next # None /\ row' # row =>
       Normalized(Top.next) /\ solved[Top.next]]_vars

\* What was asked for is expressed by master integrals alone.
SolveComplete ==
  stack = <<>> /\ request # None /\ ~terminate =>
    Heads(row[request]) \cap Pivot \subseteq {request} /\ Normalized(request)

\* The consideration of a pivot counts the calls that are solving for it, so that the
\* recursion keeps away from them, and nothing of it remains after an interruption.
ConsiderationExact ==
  \A c \in Pivot :
    consideration[c] = Cardinality({k \in 1 .. Len(stack) : stack[k].next = c})
                     + (IF request = c THEN 1 ELSE 0)

\* The identities determine the pivots once the master integrals are known: no combination
\* of them is free of all pivots.
Regular ==
  \A k \in [Pivot -> Coefficient] :
    (\A c \in Pivot : MapThenSumSet(LAMBDA i : k[i] * Entry(system[i], c), Pivot) % P = 0) =>
      \A i \in Pivot : k[i] = 0

\* Some pivot is being solved for by more calls than its counter can tell.
Exhausted == \E c \in Pivot : consideration[c] > MaxDespair

\* The solver gives up only on a system that cannot be solved, or because recursions went round
\* in circles until QS_MAX_DESPAIR was too little; which pivot is asked for first, what is
\* eliminated first and what earlier runs have left in the database makes no difference.
AbortsWithReason == aborted => ~Regular \/ Exhausted

\* The recursion ends.
Returns == stack # <<>> ~> stack = <<>> \/ aborted

=============================================================================
