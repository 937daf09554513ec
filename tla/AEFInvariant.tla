---------------------------- MODULE AEFInvariant ----------------------------
(***************************************************************************)
(* The inductive invariant of the evaluation facility: what has to be said *)
(* of its lists, counters and program counters so that every step keeps it *)
(* and dc, the queue and the operands are right in consequence.  IInv      *)
(* leaves the references out, on which none of this depends; RInv adds     *)
(* them, what is in the lists, and that nothing independent is forgotten.  *)
(***************************************************************************)
EXTENDS AEF

-----------------------------------------------------------------------------
(* The inductive invariant *)

\* The worker has a target.
Busy(w) == wpc[w] \in {"evaluate", "remove", "receive", "publish", "discard", "read",
                       "decrement", "push", "clean", "count"}

\* The worker has published its target and is not done with its dependers.
Signalling(w) == wpc[w] \in {"discard", "read", "decrement", "push"}

\* The workers' indices stay inside the lists they index.
IndicesOf(w) ==
  /\ Busy(w) => wtarget[w] \in Terminal
  /\ Signalling(w) => wn[w] <= Len(dependers[wtarget[w]]) /\ windex[w] >= 1
  /\ wpc[w] = "discard" => windex[w] = 1
  /\ wpc[w] \in {"read", "decrement", "push"} => windex[w] <= wn[w]
  /\ wpc[w] = "push" => wdepender[w] \in Terminal
  /\ wpc[w] \in {"remove", "clean"} => windex[w] \in 1..Len(operands[wtarget[w]])

\* The indices of all workers.
WorkerIndices == \A w \in Worker : IndicesOf(w)

\* What a worker read from a list is still there when it uses it.
DependerRead ==
  \A w \in Worker : wpc[w] = "decrement" => wdepender[w] = dependers[wtarget[w]][windex[w]]

\* The frontend bakes a new terminal from terminals that exist.
FrontShape ==
  /\ fpc \in {"count", "blocked", "link", "push"} => ftarget \in Terminal
  /\ fpc \in {"count", "blocked"} => life[ftarget] = "unborn"
  /\ fpc = "link" => life[ftarget] # "unborn" /\ ~is_result[ftarget]
  /\ fpc \in {"count", "blocked", "link"} =>
       fargs # <<>> /\ \A k \in 1..Len(fargs) : life[fargs[k]] # "unborn"
  /\ \A t \in Terminal : held[t] > 0 => life[t] # "unborn"

\* Nothing refers to a terminal that does not exist.
UnbornBlank ==
  \A t \in Terminal : life[t] = "unborn" =>
    /\ ~is_result[t] /\ dc[t] = 0 /\ operands[t] = <<>> /\ dependers[t] = <<>>
    /\ \A o \in Terminal : /\ \A j \in 1..Len(dependers[o]) : dependers[o][j] # t
                         /\ \A k \in 1..Len(operands[o]) : operands[o][k] # t

\* An expression has operands.
OperandsGiven ==
  /\ \A t \in Terminal : life[t] # "unborn" /\ ~is_result[t] /\ Guard(t) = 0 =>
                            operands[t] # <<>>
  /\ \A w \in Worker : Busy(w) => operands[wtarget[w]] # <<>>

\* Entry j in the list of t is still going to be signalled.
Due(t, j) == is_result[t] => \E w \in Worker : wtarget[w] = t /\ Signals(w, j)

\* Such an entry has not been cleared and names an expression.
DueEntriesPending ==
  \A t \in Terminal : \A j \in 1..Len(dependers[t]) :
    Due(t, j) => dependers[t][j] \in Terminal /\ ~is_result[dependers[t][j]]

\* An expression is entered with each of its operands that is no result.
OperandsEntered ==
  \A d \in Terminal : ~is_result[d] =>
    \A k \in 1..Len(operands[d]) :
      \/ is_result[operands[d][k]]
      \/ \E j \in 1..Len(dependers[operands[d][k]]) : dependers[operands[d][k]][j] = d

\* dc counts the entries that are going to be signalled.
CountsDue ==
  \A d \in Terminal : ~is_result[d] =>
    IsFiniteSet(Awaits(d)) /\ dc[d] = Cardinality(Awaits(d)) + Guard(d)

\* What has been scheduled is an expression that awaits nothing.
Independent(t) == life[t] # "unborn" /\ ~is_result[t] /\ dc[t] = 0

\* Everything that is queued, evaluated or about to be queued is of that kind.
ScheduledIndependent ==
  /\ \A i \in 1..Len(independent) : Independent(independent[i])
  /\ \A w \in Worker : Evaluating(w) => Independent(wtarget[w])
  /\ \A w \in Worker : wpc[w] = "push" => Independent(wdepender[w])
  /\ fpc = "push" => Independent(ftarget)

\* And it is scheduled at one place only.
ScheduledApart ==
  /\ \A i, j \in 1..Len(independent) : i # j => independent[i] # independent[j]
  /\ \A i \in 1..Len(independent), w \in Worker :
       /\ Evaluating(w) => independent[i] # wtarget[w]
       /\ wpc[w] = "push" => independent[i] # wdepender[w]
  /\ \A v, w \in Worker : wpc[w] = "push" =>
       /\ Evaluating(v) => wtarget[v] # wdepender[w]
       /\ v # w /\ wpc[v] = "push" => wdepender[v] # wdepender[w]
  /\ fpc = "push" =>
       /\ \A i \in 1..Len(independent) : independent[i] # ftarget
       /\ \A w \in Worker : /\ Evaluating(w) => wtarget[w] # ftarget
                            /\ wpc[w] = "push" => wdepender[w] # ftarget

\* Two workers never have the same target, and a worker that signals has published.
TargetsApart ==
  /\ \A w \in Worker : Busy(w) /\ ~Evaluating(w) => is_result[wtarget[w]]
  /\ \A v, w \in Worker : Busy(v) /\ Busy(w) /\ v # w => wtarget[v] # wtarget[w]

\* All of this is kept by every step; DcCounts and OperandsReady follow from it.
IInv ==
  /\ TypeOK /\ WorkerIndices /\ FrontShape /\ UnbornBlank
  /\ OperandsGiven
  /\ DependerRead /\ DueEntriesPending /\ OperandsEntered /\ CountsDue
  /\ ScheduledIndependent /\ ScheduledApart /\ TargetsApart

-----------------------------------------------------------------------------
(* References and lists *)

\* A terminal is not freed before it has its result.
PendingLive == \A t \in Terminal : life[t] = "freed" => is_result[t]

\* Who keeps a pending terminal: the frontend, the worker that is to drop the reference
\* of a discarded one, or a pending expression over it.
Wanted ==
  \A t \in Terminal : Pending(t) =>
    \/ held[t] > 0
    \/ discarded[t]
    \/ \E d \in Terminal : Pending(d) /\ \E k \in 1..Len(operands[d]) : operands[d][k] = t

\* A worker drops the frontend's reference only if the terminal was discarded.
DiscardsMarked ==
  /\ \A w \in Worker : wpc[w] = "discard" => discarded[wtarget[w]]
  /\ \A t \in Terminal : life[t] = "unborn" => ~discarded[t]

\* What a worker has popped can be evaluated, and all its operands remain results.
OperandsResolved ==
  \A w \in Worker : Busy(w) =>
    \A k \in 1..Len(operands[wtarget[w]]) : is_result[operands[wtarget[w]][k]]

\* No expression is an operand of its own.
BuiltFromOthers ==
  fpc \in {"count", "blocked", "link"} =>
    /\ \A k \in 1..Len(fargs) : fargs[k] # ftarget
    /\ \A k \in 1..Len(operands[ftarget]) : operands[ftarget][k] # ftarget

\* While it bakes the frontend keeps its references on the operands.
ArgsHeld ==
  fpc \in {"count", "blocked", "link"} => \A k \in 1..Len(fargs) : held[fargs[k]] > 0

\* Whoever is in the list of a terminal has that terminal for an operand.
EntriesNamed ==
  \A t \in Terminal : \A j \in 1..Len(dependers[t]) : dependers[t][j] \in Terminal =>
    \E k \in 1..Len(operands[dependers[t][j]]) : operands[dependers[t][j]][k] = t

\* terminal_remove_dependencies has not come to operand k of d.
Unremoved(d, k) ==
  /\ ~is_result[d]
  /\ \A w \in Worker : Evaluating(w) /\ wtarget[w] = d =>
       \/ wpc[w] = "evaluate" /\ first_pass[w]
       \/ wpc[w] = "remove" /\ k >= windex[w]

\* The entries of d in the list of o, and the operands of d they are for.
EntriesOf(o, d) == {j \in 1..Len(dependers[o]) : dependers[o][j] = d}
UsesLeft(o, d) == {k \in 1..Len(operands[d]) : operands[d][k] = o /\ Unremoved(d, k)}

\* There are as many of the one as of the other, however often d has o for an operand.
EntriesMatch ==
  \A o, d \in Terminal : Cardinality(EntriesOf(o, d)) = Cardinality(UsesLeft(o, d))

\* What could be evaluated is queued, with a worker, or on its way into the queue.
ScheduledSomewhere ==
  \A t \in Terminal : Independent(t) =>
    \/ \E i \in 1..Len(independent) : independent[i] = t
    \/ \E w \in Worker : Evaluating(w) /\ wtarget[w] = t
    \/ \E w \in Worker : wpc[w] = "push" /\ wdepender[w] = t
    \/ fpc = "push" /\ ftarget = t

\* Together with IInv this is kept by every step too; the references, the memory they
\* keep, the removal of dependers and the schedule follow from it.
RInv ==
  /\ PendingLive /\ Wanted /\ DiscardsMarked /\ OperandsResolved /\ BuiltFromOthers
  /\ ArgsHeld
  /\ RefcountExact /\ \A t \in Terminal : IsFiniteSet(Uses(t))
  /\ EntriesNamed /\ EntriesMatch /\ ScheduledSomewhere
=============================================================================
