---------------------------- MODULE TerminalGroup ----------------------------
(***************************************************************************)
(* QsTerminalGroup of src/operand.c: the frontend pushes terminals into a  *)
(* group, sleeps until one of them is published and pops it.               *)
(*                                                                         *)
(* The reference count of a group is abused, as a comment in worker() has  *)
(* it, to tell whether a target finished: it is one for the frontend plus  *)
(* one for each target that was pending when it was pushed and whose       *)
(* worker has not yet notified the group, so that n_targets + 1 means that *)
(* none did.  A worker gives its reference away after it published the     *)
(* target, thus a pop may take a target that is still counted, and the     *)
(* last of frontend and workers frees the group.                           *)
(*                                                                         *)
(* A worker stands for its target here.  The array of targets is a set:    *)
(* its order only decides which finished target a pop comes upon first.    *)
(* qs_terminal_wait is a group of one target, see the functions it calls.  *)
(***************************************************************************)
EXTENDS Integers, FiniteSets

CONSTANTS Terminal,  \* the terminals a group may wait for
          Group,     \* the groups the frontend may create, each once
          None,      \* NULL, and the holder of a mutex nobody holds
          Front      \* the frontend thread, as a holder of a mutex

ASSUME TerminalAssumption == IsFiniteSet(Terminal) /\ None \notin Terminal
ASSUME GroupAssumption == None \notin Group
ASSUME FrontAssumption == Front \notin Terminal /\ Front # None

VARIABLES
  is_result,  \* QsTerminal.is_result
  waiter,     \* BakedExpression.waiter
  wpc,        \* where the worker of the terminal is
  wwaiter,    \* its waiter
  wlast       \* whether its refcount is zero

VARIABLES
  glife,      \* of a group: "unborn", "live", "left" by the frontend, "freed"
  refcount,   \* QsTerminalGroup.refcount
  targets,    \* QsTerminalGroup.targets
  glock       \* the holder of QsTerminalGroup.lock

VARIABLES
  fpc,        \* where the frontend is
  fgroup,     \* the group it works on
  fseen,      \* the targets its loop over the array has passed
  flast,      \* whether new is zero in qs_terminal_group_destroy
  popped      \* what its last qs_terminal_group_pop returned

targetVars == <<is_result, waiter>>
workerVars == <<wpc, wwaiter, wlast>>
groupVars  == <<glife, refcount, targets, glock>>
frontVars  == <<fpc, fgroup, fseen, flast, popped>>
vars       == <<targetVars, workerVars, groupVars, frontVars>>

Init ==
  /\ is_result \in [Terminal -> BOOLEAN]
  /\ waiter   = [t \in Terminal |-> None]
  /\ wpc      = [t \in Terminal |-> IF is_result[t] THEN "done" ELSE "evaluating"]
  /\ wwaiter  = [t \in Terminal |-> None]
  /\ wlast    = [t \in Terminal |-> FALSE]
  /\ glife    = [g \in Group |-> "unborn"]
  /\ refcount = [g \in Group |-> 0]
  /\ targets  = [g \in Group |-> {}]
  /\ glock    = [g \in Group |-> None]
  /\ fpc = "idle" /\ fgroup = None /\ fseen = {} /\ flast = FALSE /\ popped = None

n_targets(g) == Cardinality(targets[g])

\* What tells wait and pop that no target has finished.
NoneFinished(g) == refcount[g] = n_targets(g) + 1

-----------------------------------------------------------------------------
(* Mutants: what a plausible mistake would make of the actions below; no action uses   *)
(* them.                                                                               *)

\* PopStart: the array is searched whatever the reference count is.
PopAlways(g) ==
  /\ fpc = "idle" /\ glife[g] = "live"
  /\ fgroup' = g /\ fseen' = {} /\ fpc' = IF targets[g] = {} THEN "idle" ELSE "scan"
  /\ UNCHANGED <<targetVars, workerVars, groupVars, flast, popped>>

\* DestroyLock: the reference is given back without the mutex.
DestroyWithoutLock ==
  /\ fpc = "destroy"
  /\ glock' = [glock EXCEPT ![fgroup] = IF @ = None THEN Front ELSE @]
  /\ fpc' = "sub"
  /\ UNCHANGED <<targetVars, workerVars, glife, refcount, targets, fgroup, fseen, flast,
                 popped>>

\* NotifySub: the sleeping frontend is not signalled.
NotifyWithoutSignal(t) ==
  /\ wpc[t] = "locked"
  /\ refcount' = [refcount EXCEPT ![wwaiter[t]] = @ - 1]
  /\ wlast' = [wlast EXCEPT ![t] = refcount[wwaiter[t]] = 1]
  /\ wpc' = [wpc EXCEPT ![t] = "signalled"]
  /\ UNCHANGED <<targetVars, wwaiter, glife, targets, glock, frontVars>>

\* NotifyUnlock: only the frontend frees a group.
NotifyNeverFrees(t) ==
  /\ wpc[t] = "signalled"
  /\ glock' = [glock EXCEPT ![wwaiter[t]] = None]
  /\ wpc' = [wpc EXCEPT ![t] = "done"]
  /\ UNCHANGED <<targetVars, wwaiter, wlast, glife, refcount, targets, frontVars>>

-----------------------------------------------------------------------------
(* The frontend *)

\* qs_terminal_group_new
New(g) ==
  /\ fpc = "idle" /\ glife[g] = "unborn"
  /\ glife' = [glife EXCEPT ![g] = "live"]
  /\ refcount' = [refcount EXCEPT ![g] = 1]
  /\ UNCHANGED <<targetVars, workerVars, targets, glock, frontVars>>

\* qs_terminal_group_push, under the read lock of the terminal.  A terminal is in one
\* group at a time (it asserts that the expression has no waiter).
PushTarget(g, t) ==
  /\ fpc = "idle" /\ glife[g] = "live" /\ \A h \in Group : t \notin targets[h]
  /\ targets' = [targets EXCEPT ![g] = @ \cup {t}]
  /\ IF is_result[t]
     THEN UNCHANGED <<refcount, waiter>>
     ELSE /\ refcount' = [refcount EXCEPT ![g] = @ + 1]
          /\ waiter' = [waiter EXCEPT ![t] = g]
  /\ UNCHANGED <<is_result, workerVars, glife, glock, frontVars>>

\* The call of qs_terminal_group_wait.
WaitCall(g) ==
  /\ fpc = "idle" /\ glife[g] = "live"
  /\ fpc' = "wait" /\ fgroup' = g
  /\ UNCHANGED <<targetVars, workerVars, groupVars, fseen, flast, popped>>

\* With the mutex: return, or sleep in pthread_cond_wait, which gives the mutex back.
Wait ==
  /\ fpc = "wait" /\ glock[fgroup] = None
  /\ fpc' = IF targets[fgroup] # {} /\ NoneFinished(fgroup) THEN "sleep" ELSE "idle"
  /\ UNCHANGED <<targetVars, workerVars, groupVars, fgroup, fseen, flast, popped>>

\* A return of pthread_cond_wait that nobody signalled.
SpuriousWake ==
  /\ fpc = "sleep"
  /\ fpc' = "wait"
  /\ UNCHANGED <<targetVars, workerVars, groupVars, fgroup, fseen, flast, popped>>

\* qs_terminal_group_pop looks at the reference count, without the mutex ...
PopStart(g) ==
  /\ fpc = "idle" /\ glife[g] = "live"
  /\ IF NoneFinished(g) \/ targets[g] = {}
     THEN popped' = None /\ UNCHANGED <<fpc, fgroup, fseen>>
     ELSE fpc' = "scan" /\ fgroup' = g /\ fseen' = {} /\ UNCHANGED popped
  /\ UNCHANGED <<targetVars, workerVars, groupVars, flast>>

\* ... and tries the targets one after the other, each under its read lock.  Behind the
\* last one there is nothing to return.
PopScan(t) ==
  /\ fpc = "scan" /\ t \in targets[fgroup] \ fseen
  /\ IF is_result[t]
     THEN /\ targets' = [targets EXCEPT ![fgroup] = @ \ {t}]
          /\ popped' = t /\ fpc' = "idle"
          /\ UNCHANGED fseen
     ELSE /\ fseen' = fseen \cup {t}
          /\ IF targets[fgroup] \subseteq fseen'
             THEN popped' = None /\ fpc' = "idle"
             ELSE UNCHANGED <<popped, fpc>>
          /\ UNCHANGED targets
  /\ UNCHANGED <<targetVars, workerVars, glife, refcount, glock, fgroup, flast>>

\* qs_terminal_group_destroy calls qs_terminal_group_clear ...
DestroyCall(g) ==
  /\ fpc = "idle" /\ glife[g] = "live"
  /\ fpc' = "clear" /\ fgroup' = g /\ fseen' = {}
  /\ UNCHANGED <<targetVars, workerVars, groupVars, flast, popped>>

\* ... which withdraws the group from each target that is still pending ...
ClearTarget(t) ==
  /\ fpc = "clear" /\ t \in targets[fgroup] \ fseen
  /\ IF is_result[t]
     THEN UNCHANGED <<refcount, waiter>>
     ELSE /\ refcount' = [refcount EXCEPT ![fgroup] = @ - 1]
          /\ waiter' = [waiter EXCEPT ![t] = None]
  /\ fseen' = fseen \cup {t}
  /\ UNCHANGED <<is_result, workerVars, glife, targets, glock, fpc, fgroup, flast, popped>>

ClearEnd ==
  /\ fpc = "clear" /\ targets[fgroup] \subseteq fseen
  /\ targets' = [targets EXCEPT ![fgroup] = {}]
  /\ fpc' = "destroy"
  /\ UNCHANGED <<targetVars, workerVars, glife, refcount, glock, fgroup, fseen, flast,
                 popped>>

\* ... gives its own reference back with the mutex locked ...
DestroyLock ==
  /\ fpc = "destroy" /\ glock[fgroup] = None
  /\ glock' = [glock EXCEPT ![fgroup] = Front]
  /\ fpc' = "sub"
  /\ UNCHANGED <<targetVars, workerVars, glife, refcount, targets, fgroup, fseen, flast,
                 popped>>

DestroySub ==
  /\ fpc = "sub"
  /\ refcount' = [refcount EXCEPT ![fgroup] = @ - 1]
  /\ glife' = [glife EXCEPT ![fgroup] = "left"]
  /\ flast' = (refcount[fgroup] = 1)
  /\ fpc' = "unlock"
  /\ UNCHANGED <<targetVars, workerVars, targets, glock, fgroup, fseen, popped>>

DestroyUnlock ==
  /\ fpc = "unlock"
  /\ glock' = [glock EXCEPT ![fgroup] = None]
  /\ fpc' = IF flast THEN "free" ELSE "idle"
  /\ UNCHANGED <<targetVars, workerVars, glife, refcount, targets, fgroup, fseen, flast,
                 popped>>

\* ... and frees the group if that was the last.
DestroyFree ==
  /\ fpc = "free"
  /\ glife' = [glife EXCEPT ![fgroup] = "freed"]
  /\ fpc' = "idle"
  /\ UNCHANGED <<targetVars, workerVars, refcount, targets, glock, fgroup, fseen, flast,
                 popped>>

-----------------------------------------------------------------------------
(* The worker that evaluates the terminal *)

\* The target becomes a result under its write lock.  The waiter is read later, but
\* nobody writes to the expression of a terminal that is published.
Publish(t) ==
  /\ wpc[t] = "evaluating"
  /\ is_result' = [is_result EXCEPT ![t] = TRUE]
  /\ wwaiter' = [wwaiter EXCEPT ![t] = waiter[t]]
  /\ wpc' = [wpc EXCEPT ![t] = IF waiter[t] # None THEN "notify" ELSE "done"]
  /\ UNCHANGED <<waiter, wlast, groupVars, frontVars>>

NotifyLock(t) ==
  /\ wpc[t] = "notify" /\ glock[wwaiter[t]] = None
  /\ glock' = [glock EXCEPT ![wwaiter[t]] = t]
  /\ wpc' = [wpc EXCEPT ![t] = "locked"]
  /\ UNCHANGED <<targetVars, wwaiter, wlast, glife, refcount, targets, frontVars>>

\* The reference is given away, then the sleeping frontend is signalled; with the mutex
\* locked nobody can tell these apart.
NotifySub(t) ==
  /\ wpc[t] = "locked"
  /\ refcount' = [refcount EXCEPT ![wwaiter[t]] = @ - 1]
  /\ wlast' = [wlast EXCEPT ![t] = refcount[wwaiter[t]] = 1]
  /\ fpc' = IF fpc = "sleep" /\ fgroup = wwaiter[t] THEN "wait" ELSE fpc
  /\ wpc' = [wpc EXCEPT ![t] = "signalled"]
  /\ UNCHANGED <<targetVars, wwaiter, glife, targets, glock, fgroup, fseen, flast, popped>>

NotifyUnlock(t) ==
  /\ wpc[t] = "signalled"
  /\ glock' = [glock EXCEPT ![wwaiter[t]] = None]
  /\ wpc' = [wpc EXCEPT ![t] = IF wlast[t] THEN "free" ELSE "done"]
  /\ UNCHANGED <<targetVars, wwaiter, wlast, glife, refcount, targets, frontVars>>

NotifyFree(t) ==
  /\ wpc[t] = "free"
  /\ glife' = [glife EXCEPT ![wwaiter[t]] = "freed"]
  /\ wpc' = [wpc EXCEPT ![t] = "done"]
  /\ UNCHANGED <<targetVars, wwaiter, wlast, refcount, targets, glock, frontVars>>

-----------------------------------------------------------------------------
FrontCall == \E g \in Group : \/ New(g) \/ WaitCall(g) \/ PopStart(g) \/ DestroyCall(g)
                              \/ \E t \in Terminal : PushTarget(g, t)

\* The steps that bring a call of the frontend to its end.
FrontStep == \/ Wait \/ ClearEnd
             \/ DestroyLock \/ DestroySub \/ DestroyUnlock \/ DestroyFree
             \/ \E t \in Terminal : PopScan(t) \/ ClearTarget(t)

Work(t) == \/ Publish(t) \/ NotifyLock(t) \/ NotifySub(t) \/ NotifyUnlock(t)
           \/ NotifyFree(t)

\* The frontend is not bound to make another call.
Finished == fpc = "idle" /\ (\A t \in Terminal : wpc[t] = "done") /\ UNCHANGED vars

Next == \/ FrontCall \/ FrontStep \/ SpuriousWake
        \/ \E t \in Terminal : Work(t)
        \/ Finished

\* The facility resolves what it was given (Evaluation) and its workers are threads of
\* their own; a call once begun goes on.
Fairness == WF_vars(FrontStep) /\ \A t \in Terminal : WF_vars(Work(t))

SafeSpec == Init /\ [][Next]_vars
Spec == SafeSpec /\ Fairness

-----------------------------------------------------------------------------
(* What has to hold *)

\* The type of every variable; no unsigned reference count falls below zero.
TypeOK ==
  /\ is_result \in [Terminal -> BOOLEAN]
  /\ waiter    \in [Terminal -> Group \cup {None}]
  /\ wpc       \in [Terminal -> {"evaluating", "notify", "locked", "signalled", "free",
                                 "done"}]
  /\ wwaiter   \in [Terminal -> Group \cup {None}]
  /\ wlast     \in [Terminal -> BOOLEAN]
  /\ glife     \in [Group -> {"unborn", "live", "left", "freed"}]
  /\ refcount  \in [Group -> Nat]
  /\ targets   \in [Group -> SUBSET Terminal]
  /\ glock     \in [Group -> Terminal \cup {Front, None}]
  /\ fpc \in {"idle", "wait", "sleep", "scan", "clear", "destroy", "sub", "unlock", "free"}
  /\ fgroup \in Group \cup {None}
  /\ fseen \subseteq Terminal
  /\ flast \in BOOLEAN
  /\ popped \in Terminal \cup {None}

\* The terminals that hold a reference on the group: registered with it and pending, or
\* published by a worker that has not notified it yet.
Holders(g) == {t \in Terminal : \/ ~is_result[t] /\ waiter[t] = g
                                \/ wpc[t] \in {"notify", "locked"} /\ wwaiter[t] = g}

\* The reference count of a group is the number of these, plus one for the frontend
\* until qs_terminal_group_destroy gave that back.
RefcountExact ==
  \A g \in Group : glife[g] # "unborn" =>
    refcount[g] = Cardinality(Holders(g)) + (IF glife[g] = "live" THEN 1 ELSE 0)

\* The comments in worker and qs_terminal_group_destroy on who may free: neither a
\* worker nor the frontend touches a group that the other has freed, the unlock of the
\* mutex and the free itself included.
NoUseAfterFree ==
  /\ \A t \in Terminal :
       /\ wpc[t] \in {"notify", "locked", "signalled", "free"} =>
            glife[wwaiter[t]] \in {"live", "left"}
       /\ ~is_result[t] /\ waiter[t] # None => glife[waiter[t]] = "live"
  /\ fpc \in {"wait", "sleep", "scan", "clear", "destroy", "sub"} => glife[fgroup] = "live"
  /\ fpc \in {"unlock", "free"} => glife[fgroup] = "left"

\* A group the frontend is done with is freed by the last that held it.
NoLeak ==
  \A g \in Group : glife[g] = "left" =>
    \/ Holders(g) # {}
    \/ fgroup = g /\ fpc \in {"unlock", "free"} /\ flast
    \/ \E t \in Terminal : wpc[t] \in {"signalled", "free"} /\ wwaiter[t] = g /\ wlast[t]

\* After qs_terminal_group_wait a pop finds a target: once the reference count tells that
\* some target finished, there is one in the array (quickcheck.c and cks.c use what is
\* popped without looking).
PopFinds == [][fpc = "scan" /\ fpc' = "idle" => popped' # None]_vars

\* A pop may take a target whose worker has not given its reference back.  It takes none
\* more than that: until the group is cleared the reference count never exceeds what
\* stands for no target finished, or a wait would return without a finished target, and
\* is below it while a pop looks for one.
CountBounded ==
  \A g \in Group : glife[g] = "live" /\ ~(fgroup = g /\ fpc \in {"destroy", "sub"}) =>
    refcount[g] <= n_targets(g) + (IF fpc = "scan" /\ fgroup = g THEN 0 ELSE 1)

\* The frontend sleeps only while a worker is still going to signal it.
SleepsForASignal ==
  fpc = "sleep" => NoneFinished(fgroup) /\ Holders(fgroup) # {}

\* qs_terminal_group_wait, and with it qs_terminal_wait, returns.
WaitReturns == fpc = "wait" ~> fpc = "idle"

-----------------------------------------------------------------------------
(* The inductive invariant: who holds what, and who is the last *)

\* The worker has a group to notify, or has notified it and is not done.
Notifying(t) == wpc[t] \in {"notify", "locked", "signalled", "free"}

\* A worker that publishes has found its target unpublished, and knows the group.
Workers == \A t \in Terminal : /\ is_result[t] <=> wpc[t] # "evaluating"
                               /\ Notifying(t) => wwaiter[t] \in Group
                               /\ wpc[t] = "free" => wlast[t]

\* The mutex is held by those between its lock and its unlock.
Locks == /\ \A t \in Terminal : wpc[t] \in {"locked", "signalled"} => glock[wwaiter[t]] = t
         /\ fpc \in {"sub", "unlock"} => glock[fgroup] = Front
         /\ fpc # "idle" => fgroup \in Group
         /\ fpc = "free" => flast

\* A pending target is registered with the group whose target it is, and with no other,
\* unless the clear has passed it.
Registered ==
  /\ \A t \in Terminal, g \in Group : ~is_result[t] =>
       /\ waiter[t] = g => t \in targets[g]
       /\ t \in targets[g] => waiter[t] = IF fpc = "clear" /\ fgroup = g /\ t \in fseen
                                         THEN None ELSE g
  /\ \A g \in Group : glife[g] # "live" => targets[g] = {}
  /\ fpc \in {"destroy", "sub", "unlock", "free"} => targets[fgroup] = {}

LastWorker(t) == wpc[t] \in {"signalled", "free"} /\ wlast[t]
LastFront == fpc \in {"unlock", "free"} /\ flast

\* Whoever took the last reference away is alone with the group.
LastAlone ==
  /\ \A t \in Terminal : LastWorker(t) =>
       /\ glife[wwaiter[t]] = "left"
       /\ \A u \in Terminal : Notifying(u) /\ u # t => wwaiter[u] # wwaiter[t]
       /\ ~(fpc \in {"unlock", "free"} /\ fgroup = wwaiter[t])
  /\ LastFront => \A u \in Terminal : Notifying(u) => wwaiter[u] # fgroup

\* The target a pop is going to find has not been passed.
ScanAhead == fpc = "scan" => \E t \in targets[fgroup] \ fseen : is_result[t]

\* All of this together is kept by every step and implies the safety properties above.
IInv == /\ TypeOK /\ Workers /\ Locks /\ Registered /\ RefcountExact
        /\ NoUseAfterFree /\ LastAlone /\ NoLeak /\ CountBounded /\ ScanAhead
        /\ SleepsForASignal
=============================================================================
