--------------------------------- MODULE AEF ---------------------------------
(***************************************************************************)
(* The asynchronous evaluation facility of src/operand.c: one frontend     *)
(* thread builds expressions ("bakes" terminals), worker threads evaluate  *)
(* them as soon as every operand has a result.                             *)
(*                                                                         *)
(* A terminal is a QsTerminal.  While is_result is FALSE its union field   *)
(* holds the baked expression (dc, operands); afterwards it holds the      *)
(* coefficient.  The value of a coefficient, the ADC and the D-Value only  *)
(* serve the choice of what to evict and are left out, as is the waiter    *)
(* group a worker notifies after publishing (module TerminalGroup).        *)
(* Intermediates are flattened: operands[t] is the sequence of terminal    *)
(* tails of t's expression in the order terminal_remove_dependencies,      *)
(* manage_tails and expression_clean walk them.                            *)
(*                                                                         *)
(* One action is what the code does under one lock: a step of a worker     *)
(* between two lock operations touches only memory of its own.             *)
(***************************************************************************)
EXTENDS Integers, Sequences, FiniteSets

CONSTANTS Terminal,     \* the terminals that may be created, each at most once
          Worker,       \* the threads qs_aef_spawn may start
          None,         \* the NULL pointer, also NO_DEPENDER
          Limits,       \* what limit_terminals may be, 0 for no limit
          MaxOperands,  \* bound on the operands of one expression
          MaxRefs       \* bound on the references the frontend holds on a terminal

ASSUME TerminalAssumption == IsFiniteSet(Terminal) /\ None \notin Terminal
ASSUME BoundAssumption == Limits \subseteq Nat /\ MaxOperands \in Nat /\ MaxRefs \in Nat

VARIABLES
  life,        \* of the memory of a terminal: "unborn", "live" or "freed"
  is_result,   \* QsTerminal.is_result
  refcount,    \* QsOperand.refcount
  dc,          \* BakedExpression.dc: operands still awaited, +1 during construction
  operands,    \* the tails of the baked expression
  dependers,   \* QsTerminal.dependers, an entry is None after remove_depender
  discarded    \* QsTerminal.discarded: the worker drops the frontend's reference

VARIABLES
  independent, \* QsAEF.independent, first in first out
  n_terminals, \* QsAEF.n_terminals
  limit_terminals, \* QsAEF.limit_terminals
  notice       \* QsAEF.termination_notice

VARIABLES
  fpc,         \* where the frontend thread is
  ftarget,     \* the terminal it bakes
  fargs,       \* the operands it bakes it from
  held         \* how many references on each terminal it owns

VARIABLES
  wpc,         \* where each worker is
  wtarget,     \* worker's target
  windex,      \* its loop index j
  wn,          \* its n_dependers
  wdepender,   \* the depender it read from the list
  first_pass   \* its first_pass

terminalVars == <<life, is_result, refcount, dc, operands, dependers, discarded>>
queueVars    == <<independent, n_terminals, limit_terminals, notice>>
frontVars    == <<fpc, ftarget, fargs, held>>
workerVars   == <<wpc, wtarget, windex, wn, wdepender, first_pass>>
vars         == <<terminalVars, queueVars, frontVars, workerVars>>

FrontPC  == {"spawn", "idle", "count", "blocked", "link", "push", "join", "done",
             "aborted"}
WorkerPC == {"unborn", "idle", "waiting", "woken", "evaluate", "remove", "receive",
             "publish", "discard", "read", "decrement", "push", "clean", "count",
             "exited"}

Init ==
  /\ life      = [t \in Terminal |-> "unborn"]
  /\ is_result = [t \in Terminal |-> FALSE]
  /\ refcount  = [t \in Terminal |-> 0]
  /\ dc        = [t \in Terminal |-> 0]
  /\ operands  = [t \in Terminal |-> <<>>]
  /\ dependers = [t \in Terminal |-> <<>>]
  /\ discarded = [t \in Terminal |-> FALSE]
  /\ independent = <<>> /\ n_terminals = 0 /\ notice = FALSE
  /\ limit_terminals \in Limits
  /\ fpc = "spawn" /\ ftarget = None /\ fargs = <<>>
  /\ held       = [t \in Terminal |-> 0]
  /\ wpc        = [w \in Worker |-> "unborn"]
  /\ wtarget    = [w \in Worker |-> None]
  /\ windex     = [w \in Worker |-> 1]
  /\ wn         = [w \in Worker |-> 0]
  /\ wdepender  = [w \in Worker |-> None]
  /\ first_pass = [w \in Worker |-> TRUE]

-----------------------------------------------------------------------------
\* A baked expression that has not been published.
Pending(t) == life[t] = "live" /\ ~is_result[t]

\* pthread_cond_signal on operation_change: one waiting worker, if there is one,
\* is woken.  wp is the workers' pc after the signalling thread's own step.
Signal(wp) ==
  IF \E v \in Worker : wp[v] = "waiting"
  THEN \E v \in Worker : wp[v] = "waiting" /\ wpc' = [wp EXCEPT ![v] = "woken"]
  ELSE wpc' = wp

\* aef_push_independent
PushIndependent(t, wp) == independent' = Append(independent, t) /\ Signal(wp)

\* qs_operand_unref on a terminal: the last reference frees it.
Unref(t) ==
  /\ refcount' = [refcount EXCEPT ![t] = @ - 1]
  /\ life' = IF refcount[t] = 1 THEN [life EXCEPT ![t] = "freed"] ELSE life

-----------------------------------------------------------------------------
(* Mutants: what a plausible mistake would make of the actions below.  No action uses  *)
(* them; each stands in for the action it is named after to show that a property can   *)
(* fail.                                                                               *)

\* Link: the expression takes no reference on the operand.
LinkWithoutRef ==
  /\ fpc = "link" /\ Len(operands[ftarget]) < Len(fargs)
  /\ LET o == fargs[Len(operands[ftarget]) + 1] IN
       /\ dc' = IF is_result[o] THEN dc ELSE [dc EXCEPT ![ftarget] = @ + 1]
       /\ dependers' = [dependers EXCEPT ![o] = Append(@, ftarget)]
       /\ operands' = [operands EXCEPT ![ftarget] = Append(@, o)]
  /\ UNCHANGED <<life, is_result, refcount, discarded, queueVars, frontVars, workerVars>>

\* Link: an operand is entered in the list, but not counted.
LinkUncounted ==
  /\ fpc = "link" /\ Len(operands[ftarget]) < Len(fargs)
  /\ LET o == fargs[Len(operands[ftarget]) + 1] IN
       /\ dependers' = [dependers EXCEPT ![o] = Append(@, ftarget)]
       /\ refcount' = [refcount EXCEPT ![o] = @ + 1]
       /\ operands' = [operands EXCEPT ![ftarget] = Append(@, o)]
  /\ UNCHANGED <<life, is_result, dc, discarded, queueVars, frontVars, workerVars>>

\* FrontDecrement: a terminal with no pending operand is not scheduled.
FrontDecrementNoPush ==
  /\ fpc = "link" /\ Len(operands[ftarget]) = Len(fargs)
  /\ dc' = [dc EXCEPT ![ftarget] = @ - 1]
  /\ fpc' = "idle"
  /\ UNCHANGED <<life, is_result, refcount, operands, dependers, discarded, queueVars,
                 ftarget, fargs, held, workerVars>>

\* FrontUnref of a reference the frontend has given away before.
FrontUnrefTwice(t) ==
  /\ fpc = "idle" /\ life[t] = "live" /\ is_result[t]
  /\ Unref(t)
  /\ held' = [held EXCEPT ![t] = @ - 1]
  /\ UNCHANGED <<is_result, dc, operands, dependers, discarded, queueVars, fpc, ftarget,
                 fargs, workerVars>>

\* Destroy: the waiting workers are not woken.
DestroyWithoutBroadcast ==
  /\ fpc = "idle" /\ \A t \in Terminal : held[t] = 0
  /\ notice' = TRUE
  /\ fpc' = "join"
  /\ UNCHANGED <<terminalVars, independent, n_terminals, limit_terminals, ftarget, fargs,
                 held, workerVars>>

\* Lost: first_pass is left set, so that the dependencies are removed once more.
LostAtFirstPass(w) ==
  /\ wpc[w] = "receive"
  /\ wpc' = [wpc EXCEPT ![w] = "evaluate"]
  /\ UNCHANGED <<terminalVars, queueVars, frontVars, wtarget, windex, wn, wdepender,
                 first_pass>>

\* Publish: the discard mark is not looked at.
PublishIgnoringDiscard(w) ==
  /\ wpc[w] = "publish"
  /\ LET t == wtarget[w] IN
       /\ is_result' = [is_result EXCEPT ![t] = TRUE]
       /\ wn' = [wn EXCEPT ![w] = Len(dependers[t])]
       /\ wpc' = [wpc EXCEPT ![w] = IF dependers[t] # <<>> THEN "read" ELSE "clean"]
       /\ windex' = [windex EXCEPT ![w] = 1]
  /\ UNCHANGED <<life, refcount, dc, operands, dependers, discarded, queueVars, frontVars,
                 wtarget, wdepender, first_pass>>

\* Publish: the number of dependers was read before the lock was taken.
PublishStale(w) ==
  /\ wpc[w] = "publish"
  /\ LET t == wtarget[w] IN
       /\ is_result' = [is_result EXCEPT ![t] = TRUE]
       /\ \E n \in 0 .. Len(dependers[t]) :
            /\ wn' = [wn EXCEPT ![w] = n]
            /\ wpc' = [wpc EXCEPT ![w] = IF discarded[t] THEN "discard"
                                        ELSE IF n > 0 THEN "read" ELSE "clean"]
       /\ windex' = [windex EXCEPT ![w] = 1]
  /\ UNCHANGED <<life, refcount, dc, operands, dependers, discarded, queueVars, frontVars,
                 wtarget, wdepender, first_pass>>

\* Uncount: n_terminals_change is not signalled.
UncountWithoutSignal(w) ==
  /\ wpc[w] = "count"
  /\ n_terminals' = IF limit_terminals # 0 THEN n_terminals - 1 ELSE n_terminals
  /\ wpc' = [wpc EXCEPT ![w] = "idle"]
  /\ wtarget' = [wtarget EXCEPT ![w] = None]
  /\ wdepender' = [wdepender EXCEPT ![w] = None]
  /\ windex' = [windex EXCEPT ![w] = 1]
  /\ wn' = [wn EXCEPT ![w] = 0]
  /\ UNCHANGED <<terminalVars, independent, limit_terminals, notice, frontVars, first_pass>>

-----------------------------------------------------------------------------
(* The frontend thread *)

\* qs_aef_spawn; a pthread_create that fails leaves the worker unborn.
Spawn(w) ==
  /\ fpc = "spawn" /\ wpc[w] = "unborn"
  /\ wpc' = [wpc EXCEPT ![w] = "idle"]
  /\ UNCHANGED <<terminalVars, queueVars, frontVars, wtarget, windex, wn, wdepender,
                 first_pass>>

\* quicksolve.c goes on to the elimination with the workers it could start, be it none.
Start ==
  /\ fpc = "spawn"
  /\ fpc' = "idle"
  /\ UNCHANGED <<terminalVars, queueVars, workerVars, ftarget, fargs, held>>

\* qs_operand_new
New(t) ==
  /\ fpc = "idle" /\ life[t] = "unborn"
  /\ life' = [life EXCEPT ![t] = "live"]
  /\ is_result' = [is_result EXCEPT ![t] = TRUE]
  /\ refcount' = [refcount EXCEPT ![t] = 1]
  /\ held' = [held EXCEPT ![t] = 1]
  /\ UNCHANGED <<dc, operands, dependers, discarded, queueVars, fpc, ftarget, fargs,
                 workerVars>>

\* The call of qs_operand_bake, with operands the frontend holds references on.
Bake(t, os) ==
  /\ fpc = "idle" /\ life[t] = "unborn"
  /\ os # <<>> /\ \A k \in 1..Len(os) : held[os[k]] > 0
  /\ fpc' = "count" /\ ftarget' = t /\ fargs' = os
  /\ UNCHANGED <<terminalVars, queueVars, held, workerVars>>

\* The loop of aef_count_terminal: at the limit wait for n_terminals_change.
CountBlock ==
  /\ fpc = "count" /\ limit_terminals # 0 /\ n_terminals >= limit_terminals
  /\ fpc' = "blocked"
  /\ UNCHANGED <<terminalVars, queueVars, ftarget, fargs, held, workerVars>>

\* A return of pthread_cond_wait that nobody signalled.
SpuriousUnblock ==
  /\ fpc = "blocked"
  /\ fpc' = "count"
  /\ UNCHANGED <<terminalVars, queueVars, ftarget, fargs, held, workerVars>>

\* Below the limit: count the terminal and initialise it, with the construction
\* guard of one in dc.
CountPass ==
  /\ fpc = "count" /\ ~(limit_terminals # 0 /\ n_terminals >= limit_terminals)
  /\ n_terminals' = IF limit_terminals # 0 THEN n_terminals + 1 ELSE n_terminals
  /\ life' = [life EXCEPT ![ftarget] = "live"]
  /\ dc' = [dc EXCEPT ![ftarget] = 1]
  /\ refcount' = [refcount EXCEPT ![ftarget] = 1]
  /\ held' = [held EXCEPT ![ftarget] = 1]
  /\ fpc' = "link"
  /\ UNCHANGED <<is_result, operands, dependers, discarded, independent, limit_terminals, notice,
                 ftarget, fargs, workerVars>>

\* terminal_add_dependency and qs_operand_ref for the next operand: whether the
\* operand is still pending is decided under its read lock, together with the
\* growth of dc and of its list of dependers.
Link ==
  /\ fpc = "link" /\ Len(operands[ftarget]) < Len(fargs)
  /\ LET o == fargs[Len(operands[ftarget]) + 1] IN
       /\ dc' = IF is_result[o] THEN dc ELSE [dc EXCEPT ![ftarget] = @ + 1]
       /\ dependers' = [dependers EXCEPT ![o] = Append(@, ftarget)]
       /\ refcount' = [refcount EXCEPT ![o] = @ + 1]
       /\ operands' = [operands EXCEPT ![ftarget] = Append(@, o)]
  /\ UNCHANGED <<life, is_result, discarded, queueVars, frontVars, workerVars>>

\* The end of qs_operand_bake: terminal_independ gives the construction guard back.
FrontDecrement ==
  /\ fpc = "link" /\ Len(operands[ftarget]) = Len(fargs)
  /\ dc' = [dc EXCEPT ![ftarget] = @ - 1]
  /\ fpc' = IF dc[ftarget] = 1 THEN "push" ELSE "idle"
  /\ UNCHANGED <<life, is_result, refcount, operands, dependers, discarded, queueVars,
                 ftarget, fargs, held, workerVars>>

FrontPush ==
  /\ fpc = "push"
  /\ PushIndependent(ftarget, wpc)
  /\ fpc' = "idle"
  /\ UNCHANGED <<terminalVars, n_terminals, limit_terminals, notice, ftarget, fargs, held, wtarget,
                 windex, wn, wdepender, first_pass>>

\* qs_operand_ref by the frontend
Ref(t) ==
  /\ fpc = "idle" /\ held[t] \in 1..(MaxRefs - 1)
  /\ refcount' = [refcount EXCEPT ![t] = @ + 1]
  /\ held' = [held EXCEPT ![t] = @ + 1]
  /\ UNCHANGED <<life, is_result, dc, operands, dependers, discarded, queueVars, fpc,
                 ftarget, fargs, workerVars>>

\* qs_operand_unref by the frontend, which never gives up the last way to a terminal
\* it did not wait for: it keeps a reference or an expression that needs the terminal
\* is still pending.
FrontUnref(t) ==
  /\ fpc = "idle" /\ held[t] > 0
  /\ \/ is_result[t]
     \/ held[t] > 1
     \/ \E d \in Terminal : Pending(d) /\ \E k \in 1..Len(operands[d]) : operands[d][k] = t
  /\ Unref(t)
  /\ held' = [held EXCEPT ![t] = @ - 1]
  /\ UNCHANGED <<is_result, dc, operands, dependers, discarded, queueVars, fpc, ftarget,
                 fargs, workerVars>>

\* qs_operand_discard of a result drops the reference, of a pending terminal it leaves
\* that to the worker.  The caller discards a terminal once.
FrontDiscard(t) ==
  /\ fpc = "idle" /\ held[t] > 0
  /\ held' = [held EXCEPT ![t] = @ - 1]
  /\ \/ is_result[t] /\ Unref(t) /\ UNCHANGED discarded
     \/ /\ ~is_result[t] /\ ~discarded[t]
        /\ discarded' = [discarded EXCEPT ![t] = TRUE]
        /\ UNCHANGED <<life, refcount>>
  /\ UNCHANGED <<is_result, dc, operands, dependers, queueVars, fpc, ftarget, fargs,
                 workerVars>>

\* qs_aef_destroy up to the joins, after the frontend gave up all its references
\* (qs_pivot_graph_destroy comes first in quicksolve.c).
Destroy ==
  /\ fpc = "idle" /\ \A t \in Terminal : held[t] = 0
  /\ notice' = TRUE
  /\ wpc' = [w \in Worker |-> IF wpc[w] = "waiting" THEN "woken" ELSE wpc[w]]
  /\ fpc' = "join"
  /\ UNCHANGED <<terminalVars, independent, n_terminals, limit_terminals, ftarget, fargs,
                 held, wtarget,
                 windex, wn, wdepender, first_pass>>

\* The rest of qs_aef_destroy, after the last pthread_join: it asserts that no terminal
\* is left in the queue.
Join ==
  /\ fpc = "join" /\ \A w \in Worker : wpc[w] \in {"unborn", "exited"}
  /\ fpc' = IF independent = <<>> THEN "done" ELSE "aborted"
  /\ UNCHANGED <<terminalVars, queueVars, ftarget, fargs, held, workerVars>>

-----------------------------------------------------------------------------
(* A worker thread *)

\* aef_pop_independent, then the worker is at the top of its evaluation loop.
Pop(w) ==
  /\ independent # <<>>
  /\ independent' = Tail(independent)
  /\ wtarget' = [wtarget EXCEPT ![w] = Head(independent)]
  /\ first_pass' = [first_pass EXCEPT ![w] = TRUE]
  /\ wpc' = [wpc EXCEPT ![w] = "evaluate"]

\* The head of the worker's loop, under operation_lock: leave, take the first
\* independent terminal, or wait.
Take(w) ==
  /\ wpc[w] = "idle"
  /\ \/ /\ notice
        /\ wpc' = [wpc EXCEPT ![w] = "exited"]
        /\ UNCHANGED <<independent, wtarget, first_pass>>
     \/ ~notice /\ Pop(w)
     \/ /\ ~notice /\ independent = <<>>
        /\ wpc' = [wpc EXCEPT ![w] = "waiting"]
        /\ UNCHANGED <<independent, wtarget, first_pass>>
  /\ UNCHANGED <<terminalVars, n_terminals, limit_terminals, notice, frontVars, windex, wn,
                 wdepender>>

\* A return of pthread_cond_wait that nobody signalled.
SpuriousWake(w) ==
  /\ wpc[w] = "waiting"
  /\ wpc' = [wpc EXCEPT ![w] = "woken"]
  /\ UNCHANGED <<terminalVars, queueVars, frontVars, wtarget, windex, wn, wdepender,
                 first_pass>>

\* Back from the wait with operation_lock: pop once, there may be nothing to pop.
Woken(w) ==
  /\ wpc[w] = "woken"
  /\ \/ ~notice /\ Pop(w)
     \/ /\ notice \/ independent = <<>>
        /\ wpc' = [wpc EXCEPT ![w] = "idle"]
        /\ UNCHANGED <<independent, wtarget, first_pass>>
  /\ UNCHANGED <<terminalVars, n_terminals, limit_terminals, notice, frontVars, windex, wn,
                 wdepender>>

\* manage_tails, qs_evaluator_evaluate, manage_tails: the expression is written to
\* the evaluator, with the value of every operand.
Evaluate(w) ==
  /\ wpc[w] = "evaluate"
  /\ wpc' = [wpc EXCEPT ![w] = IF first_pass[w] THEN "remove" ELSE "receive"]
  /\ windex' = [windex EXCEPT ![w] = 1]
  /\ UNCHANGED <<terminalVars, queueVars, frontVars, wtarget, wn, wdepender, first_pass>>

\* terminal_remove_dependencies, one operand: remove_depender clears the first entry
\* for the target in the list of the operand.
RemoveDepender(w) ==
  /\ wpc[w] = "remove"
  /\ LET t == wtarget[w]
         o == operands[t][windex[w]]
     IN /\ \E j \in 1..Len(dependers[o]) :
             /\ dependers[o][j] = t
             /\ \A i \in 1..(j - 1) : dependers[o][i] # t
             /\ dependers' = [dependers EXCEPT ![o][j] = None]
        /\ IF windex[w] < Len(operands[t])
           THEN windex' = [windex EXCEPT ![w] = @ + 1] /\ UNCHANGED wpc
           ELSE wpc' = [wpc EXCEPT ![w] = "receive"] /\ UNCHANGED windex
  /\ UNCHANGED <<life, is_result, refcount, dc, operands, discarded, queueVars, frontVars,
                 wtarget, wn, wdepender, first_pass>>

\* qs_evaluator_receive returns the coefficient ...
Receive(w) ==
  /\ wpc[w] = "receive"
  /\ wpc' = [wpc EXCEPT ![w] = "publish"]
  /\ UNCHANGED <<terminalVars, queueVars, frontVars, wtarget, windex, wn, wdepender,
                 first_pass>>

\* ... or nothing, because the evaluator process died: submit again.
Lost(w) ==
  /\ wpc[w] = "receive"
  /\ wpc' = [wpc EXCEPT ![w] = "evaluate"]
  /\ first_pass' = [first_pass EXCEPT ![w] = FALSE]
  /\ UNCHANGED <<terminalVars, queueVars, frontVars, wtarget, windex, wn, wdepender>>

\* Where the worker goes after the last, or for lack of any, depender.
NextDepender(w, j, n) ==
  /\ wpc' = [wpc EXCEPT ![w] = IF j <= n THEN "read" ELSE "clean"]
  /\ windex' = [windex EXCEPT ![w] = IF j <= n THEN j ELSE 1]

\* Under the write lock: the terminal becomes a result, and the number of dependers
\* that wait for it and whether it was discarded are read.
Publish(w) ==
  /\ wpc[w] = "publish"
  /\ LET t == wtarget[w] IN
       /\ is_result' = [is_result EXCEPT ![t] = TRUE]
       /\ wn' = [wn EXCEPT ![w] = Len(dependers[t])]
       /\ IF discarded[t]
          THEN wpc' = [wpc EXCEPT ![w] = "discard"] /\ windex' = [windex EXCEPT ![w] = 1]
          ELSE NextDepender(w, 1, Len(dependers[t]))
  /\ UNCHANGED <<life, refcount, dc, operands, dependers, discarded, queueVars, frontVars,
                 wtarget, wdepender, first_pass>>

\* discard_unref by the worker
DiscardUnref(w) ==
  /\ wpc[w] = "discard"
  /\ Unref(wtarget[w])
  /\ NextDepender(w, 1, wn[w])
  /\ UNCHANGED <<is_result, dc, operands, dependers, discarded, queueVars, frontVars,
                 wtarget, wn, wdepender, first_pass>>

\* The next depender is read under dependers_lock ...
ReadDepender(w) ==
  /\ wpc[w] = "read"
  /\ wdepender' = [wdepender EXCEPT ![w] = dependers[wtarget[w]][windex[w]]]
  /\ wpc' = [wpc EXCEPT ![w] = "decrement"]
  /\ UNCHANGED <<terminalVars, queueVars, frontVars, wtarget, windex, wn, first_pass>>

\* ... and terminal_independ decreases its dc ...
Decrement(w) ==
  /\ wpc[w] = "decrement" /\ wdepender[w] # None
  /\ LET d == wdepender[w] IN
       /\ dc' = [dc EXCEPT ![d] = @ - 1]
       /\ IF dc[d] = 1
          THEN wpc' = [wpc EXCEPT ![w] = "push"] /\ UNCHANGED windex
          ELSE NextDepender(w, windex[w] + 1, wn[w])
  /\ UNCHANGED <<life, is_result, refcount, operands, dependers, discarded, queueVars,
                 frontVars, wtarget, wn, wdepender, first_pass>>

\* ... and appends it to the independent terminals if that was the last.
Push(w) ==
  /\ wpc[w] = "push"
  /\ LET more == windex[w] < wn[w]
     IN /\ PushIndependent(wdepender[w],
                           [wpc EXCEPT ![w] = IF more THEN "read" ELSE "clean"])
        /\ windex' = [windex EXCEPT ![w] = IF more THEN @ + 1 ELSE 1]
  /\ UNCHANGED <<terminalVars, n_terminals, limit_terminals, notice, frontVars, wtarget, wn,
                 wdepender,
                 first_pass>>

\* expression_clean, one operand
Clean(w) ==
  /\ wpc[w] = "clean"
  /\ LET t == wtarget[w] IN
       /\ Unref(operands[t][windex[w]])
       /\ IF windex[w] < Len(operands[t])
          THEN windex' = [windex EXCEPT ![w] = @ + 1] /\ UNCHANGED wpc
          ELSE wpc' = [wpc EXCEPT ![w] = "count"] /\ UNCHANGED windex
  /\ UNCHANGED <<is_result, dc, operands, dependers, discarded, queueVars, frontVars,
                 wtarget, wn, wdepender, first_pass>>

\* The expression is freed, n_terminals given back and n_terminals_change signalled.
Uncount(w) ==
  /\ wpc[w] = "count"
  /\ n_terminals' = IF limit_terminals # 0 THEN n_terminals - 1 ELSE n_terminals
  /\ fpc' = IF limit_terminals # 0 /\ fpc = "blocked" THEN "count" ELSE fpc
  /\ wpc' = [wpc EXCEPT ![w] = "idle"]
  /\ wtarget' = [wtarget EXCEPT ![w] = None]
  /\ wdepender' = [wdepender EXCEPT ![w] = None]
  /\ windex' = [windex EXCEPT ![w] = 1]
  /\ wn' = [wn EXCEPT ![w] = 0]
  /\ UNCHANGED <<terminalVars, independent, limit_terminals, notice, ftarget, fargs, held,
                 first_pass>>

-----------------------------------------------------------------------------
OperandSeq == UNION {[1..n -> Terminal] : n \in 1..MaxOperands}

FrontBake == CountPass \/ Link \/ FrontDecrement \/ FrontPush

FrontIdle ==
  \/ \E t \in Terminal : New(t) \/ Ref(t) \/ FrontUnref(t) \/ FrontDiscard(t)
  \/ \E t \in Terminal, os \in OperandSeq : Bake(t, os)
  \/ Destroy

\* The steps a worker takes by itself.
Work(w) == \/ Take(w) \/ Woken(w) \/ Evaluate(w) \/ RemoveDepender(w) \/ Receive(w)
           \/ Publish(w) \/ DiscardUnref(w) \/ ReadDepender(w) \/ Decrement(w)
           \/ Push(w) \/ Clean(w) \/ Uncount(w)

\* The program may stop after qs_aef_destroy, and does at a failed assertion.
Finished == fpc \in {"done", "aborted"} /\ UNCHANGED vars

Next ==
  \/ Start \/ CountBlock \/ SpuriousUnblock \/ FrontBake \/ FrontIdle \/ Join
  \/ \E w \in Worker : Spawn(w) \/ Work(w) \/ SpuriousWake(w) \/ Lost(w)
  \/ Finished

\* Threads that can run do run.  An evaluation is not lost for ever: a worker that
\* comes to receive again and again gets its answer in the end.
Fairness ==
  /\ WF_vars(CountBlock \/ FrontBake \/ Join)
  /\ \A w \in Worker : WF_vars(Work(w)) /\ SF_vars(Receive(w))

SafeSpec == Init /\ [][Next]_vars
Spec == SafeSpec /\ Fairness
-----------------------------------------------------------------------------
(* What has to hold *)

\* The types of what belongs to the terminals; counts may be any integer.
TerminalTypes ==
  /\ life      \in [Terminal -> {"unborn", "live", "freed"}]
  /\ is_result \in [Terminal -> BOOLEAN]
  /\ refcount  \in [Terminal -> Int]
  /\ dc        \in [Terminal -> Int]
  /\ operands  \in [Terminal -> Seq(Terminal)]
  /\ dependers \in [Terminal -> Seq(Terminal \cup {None})]
  /\ discarded \in [Terminal -> BOOLEAN]

\* The types of what belongs to the facility.
QueueTypes == independent \in Seq(Terminal) /\ n_terminals \in Int
              /\ limit_terminals \in Limits /\ notice \in BOOLEAN

\* The types of what belongs to the frontend, which drops no more than it holds.
FrontTypes == /\ fpc \in FrontPC
              /\ ftarget \in Terminal \cup {None}
              /\ fargs \in Seq(Terminal)
              /\ held \in [Terminal -> Nat]

\* The types of what belongs to the workers.
WorkerTypes ==
  /\ wpc        \in [Worker -> WorkerPC]
  /\ wtarget    \in [Worker -> Terminal \cup {None}]
  /\ windex     \in [Worker -> Nat]
  /\ wn         \in [Worker -> Nat]
  /\ wdepender  \in [Worker -> Terminal \cup {None}]
  /\ first_pass \in [Worker -> BOOLEAN]

\* The type of every variable; the frontend never drops a reference it does not own
\* and no worker runs out of the range of its indices.
TypeOK == TerminalTypes /\ QueueTypes /\ FrontTypes /\ WorkerTypes

\* The worker has popped its target and not yet published it.
Evaluating(w) == wpc[w] \in {"evaluate", "remove", "receive", "publish"}

\* Entry j of the dependers of the worker's target has still to be signalled.
Signals(w, j) == \/ wpc[w] \in {"discard", "read", "decrement"} /\ j \in windex[w]..wn[w]
                 \/ wpc[w] = "push" /\ j \in (windex[w] + 1)..wn[w]

\* All entries of all lists of dependers.
Entries == UNION {{t} \X (1..Len(dependers[t])) : t \in Terminal}

\* The entries in the lists of others through which d is going to be signalled.
Awaits(d) ==
  {e \in Entries :
     /\ dependers[e[1]][e[2]] = d
     /\ is_result[e[1]] => \E w \in Worker : wtarget[w] = e[1] /\ Signals(w, e[2])}

\* The dc that qs_operand_bake sets before it links the operands, until it is done.
Guard(d) == IF fpc = "link" /\ ftarget = d THEN 1 ELSE 0

\* The comment on n_dependers in worker(): the entries below n_dependers are exactly
\* those that still have to reduce a dc.  An unpublished expression's dc is their
\* number, over all lists, plus the guard of qs_operand_bake.
DcCounts == \A d \in Terminal : Pending(d) => dc[d] = Cardinality(Awaits(d)) + Guard(d)

\* qs_operand_discoverer and manage_tails assert it: while an expression is evaluated,
\* each of its operands is a result.
OperandsReady ==
  \A w \in Worker : Evaluating(w) =>
    \A k \in 1..Len(operands[wtarget[w]]) : is_result[operands[wtarget[w]][k]]

\* The places a terminal can be scheduled at: queued, with a worker, on its way into
\* the queue.
Places(t) == Cardinality({i \in 1..Len(independent) : independent[i] = t})
           + Cardinality({w \in Worker : Evaluating(w) /\ wtarget[w] = t})
           + Cardinality({w \in Worker : wpc[w] = "push" /\ wdepender[w] = t})
           + (IF fpc = "push" /\ ftarget = t THEN 1 ELSE 0)

\* A pending terminal whose dc dropped to zero is in exactly one of these places, any
\* other terminal in none: aef_push_independent neither loses nor repeats one.
ScheduledExactlyOnce ==
  \A t \in Terminal : Places(t) = (IF Pending(t) /\ dc[t] = 0 THEN 1 ELSE 0)

\* Workers hold no reference on their target or on its dependers.  What they reach for
\* without one is nevertheless there, as are the operands they evaluate with, and a
\* depender is no cleared entry and still has its expression (terminal_independ reads
\* target->expression->dc).
NoDanglingAccess ==
  \A w \in Worker :
    /\ Evaluating(w) =>
         /\ Pending(wtarget[w])
         /\ \A k \in 1..Len(operands[wtarget[w]]) : life[operands[wtarget[w]][k]] = "live"
    /\ wpc[w] \in {"discard", "read"} => life[wtarget[w]] = "live"
    /\ wpc[w] = "read" => dependers[wtarget[w]][windex[w]] # None
    /\ wpc[w] \in {"decrement", "push"} => wdepender[w] # None /\ Pending(wdepender[w])

\* remove_depender writes to the entry its search loop ends at, so there has to be one.
RemovalFindsEntry ==
  \A w \in Worker : wpc[w] = "remove" =>
    LET t == wtarget[w]
        o == operands[t][windex[w]]
    IN life[o] = "live" /\ \E j \in 1..Len(dependers[o]) : dependers[o][j] = t

\* Operand k of d is referenced from the baked expression of d until expression_clean
\* reaches it.
Referenced(d, k) ==
  \/ Pending(d)
  \/ \E w \in Worker : /\ wtarget[w] = d
                       /\ \/ wpc[w] \in {"discard", "read", "decrement", "push"}
                          \/ wpc[w] = "clean" /\ k >= windex[w]

\* The references that expressions own on t.
Uses(t) == {e \in UNION {{d} \X (1..Len(operands[d])) : d \in Terminal} :
              operands[e[1]][e[2]] = t /\ Referenced(e[1], e[2])}

\* The reference a discard handed to the worker.
HandedOver(t) ==
  discarded[t] /\ (~is_result[t] \/ \E w \in Worker : wtarget[w] = t /\ wpc[w] = "discard")

\* The reference count of a terminal is what the frontend, the expressions and the
\* pending discards own, and the memory is freed when that is nothing.
RefcountExact ==
  \A t \in Terminal :
    /\ refcount[t] = held[t] + Cardinality(Uses(t)) + (IF HandedOver(t) THEN 1 ELSE 0)
    /\ life[t] # "unborn" => (life[t] = "live" <=> refcount[t] > 0)

\* Some worker could be started.
Staffed == \E w \in Worker : wpc[w] # "unborn"

\* qs_operand_bake returns: the limit does not stop the frontend for ever.
BakeReturns == Staffed /\ fpc \in {"count", "blocked", "link", "push"} ~> fpc = "idle"

\* qs_aef_destroy returns: every worker comes to see the termination notice.  It runs into
\* its assertion only if a terminal is pending that was discarded before.
DestroyReturns ==
  notice ~> \/ fpc = "done"
            \/ fpc = "aborted" /\ \E t \in Terminal : Pending(t) /\ discarded[t]

\* The promise: a terminal is pending from the end of its construction, its operands
\* are what it needs.
Abstract == INSTANCE Evaluation WITH
  status  <- [t \in Terminal |-> IF is_result[t] THEN "result"
                                 ELSE IF life[t] = "live" /\ Guard(t) = 0 THEN "pending"
                                 ELSE "absent"],
  needs   <- [t \in Terminal |-> IF Guard(t) = 1 THEN {}
                                 ELSE {operands[t][k] : k \in 1..Len(operands[t])}],
  stopped <- notice

\* The facility does all that Evaluation promises, except that nothing is resolved if no
\* worker at all could be started.
ImplementsEvaluation == Abstract!SafeSpec /\ (Abstract!Progress \/ []~Staffed)
=============================================================================
