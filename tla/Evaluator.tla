------------------------------ MODULE Evaluator ------------------------------
(***************************************************************************)
(* The conversation of the workers with their Fermat processes:            *)
(* src/coefficient.c as the loop in worker() of src/operand.c uses it.     *)
(* Every worker has an evaluator, which starts a process when it needs     *)
(* one, writes expressions into a pipe and reads the values from another   *)
(* one.  A process is renewed after max_evaluations.  It may die; its      *)
(* worker is to notice that by the end of the answers, and resubmits.      *)
(*                                                                         *)
(* A pipe ends when nobody has its writing end open any more.  A new       *)
(* process inherits every end its parent has open at that moment, so it    *)
(* matters in which order two workers call pipe, fork and close.           *)
(***************************************************************************)
EXTENDS Integers, Sequences, FiniteSets, SequencesExt

CONSTANTS Worker,
          Process,         \* processes there are at a time
          Expression,      \* what is evaluated; stands for its value as well
          MaxEvaluations,  \* max_evaluations, zero for never renewing a process
          MaxDeaths,       \* bounds the processes that die
          Parent,          \* quicksolve itself
          None

ASSUME CycleAssumption == MaxEvaluations \in Nat /\ MaxDeaths \in Nat
ASSUME ProcessAssumption == None \notin Process /\ Parent \notin Process
ASSUME ExpressionAssumption ==   \* the value of an expression may well be the second delimiter
  Expression \cap {"symbols", "sync", "quit", "#", None} = {}

VARIABLES
  wpc, target,      \* what a worker is doing, and for which expression
  evaluations,      \* e->evaluations
  cas,              \* e->cas, as long as its pipes are open
  text              \* what fermat_sync read last

VARIABLES
  running,          \* the processes that live
  inbox,            \* what was written to a process and not read yet
  printing,         \* what a process is about to print
  answers,          \* what it printed
  holders,          \* who has the writing end of its answers open
  served,           \* how many expressions it was given
  deaths,
  undefined         \* a stream was used after fclose

workerVars  == <<wpc, target, evaluations, cas, text>>
processVars == <<running, inbox, printing, answers, holders, served>>
vars == <<workerVars, processVars, deaths, undefined>>

Init ==
  /\ wpc = [w \in Worker |-> "idle"]
  /\ target = [w \in Worker |-> None]
  /\ evaluations = [w \in Worker |-> 0]
  /\ cas = [w \in Worker |-> None]
  /\ text = [w \in Worker |-> <<>>]
  /\ running = {}
  /\ inbox    = [p \in Process |-> <<>>]
  /\ printing = [p \in Process |-> <<>>]
  /\ answers  = [p \in Process |-> <<>>]
  /\ holders  = [p \in Process |-> {}]
  /\ served   = [p \in Process |-> 0]
  /\ deaths = 0
  /\ undefined = FALSE

Unused == Process \ (running \cup {cas[w] : w \in Worker})

\* The worker goes from one place of its program to another.
Goes(w, from, to) == wpc[w] = from /\ wpc' = [wpc EXCEPT ![w] = to] /\ ~undefined

\* Within init_fermat evaluations is still zero.
Initializing(w) == evaluations[w] = 0

\* getdelim: the text up to the delimiter, or the end of the pipe before it.
Ready(p, delimiter)  == delimiter \in ToSet(answers[p])
AtEnd(p, delimiter)  == ~Ready(p, delimiter) /\ holders[p] = {}
Place(p, delimiter)  == SelectInSeq(answers[p], LAMBDA a : a = delimiter)
Before(p, delimiter) == SubSeq(answers[p], 1, Place(p, delimiter) - 1)
After(p, delimiter)  == SubSeq(answers[p], Place(p, delimiter) + 1, Len(answers[p]))

\* fermat_submit.  Writing to a dead process has no effect, as SIGPIPE is ignored.
Submitted(p, words) ==
  [inbox EXCEPT ![p] = IF p \in running THEN @ \o words ELSE @]

-----------------------------------------------------------------------------
(* Changed definitions, which the properties below tell apart *)

\* What was read for an earlier expression is not replaced.
SyncReadKept(w) ==
  LET p == cas[w] IN
  /\ Goes(w, "sync", "waste")
  /\ Ready(p, "#")
  /\ text' = [text EXCEPT ![w] = IF @ = <<>> THEN Before(p, "#") ELSE @]
  /\ answers' = [answers EXCEPT ![p] = After(p, "#")]
  /\ UNCHANGED <<target, evaluations, cas, running, inbox, printing, holders, served,
                 deaths, undefined>>

\* Nothing is read, so it is tried again.
SyncEndsAgain(w) ==
  /\ wpc[w] = "sync" /\ AtEnd(cas[w], "#")
  /\ UNCHANGED vars

\* The process is renewed one evaluation too late.
ReceiveLate(w) ==
  LET p == cas[w] IN
  /\ Goes(w, "waste", "idle") /\ ~Initializing(w)
  /\ Ready(p, "0") \/ AtEnd(p, "0")
  /\ answers' = [answers EXCEPT ![p] = After(p, "0")]
  /\ IF MaxEvaluations # 0 /\ evaluations[w] > MaxEvaluations
     THEN /\ cas' = [cas EXCEPT ![w] = None]
          /\ evaluations' = [evaluations EXCEPT ![w] = 0]
          /\ inbox' = Submitted(p, <<"quit">>)
     ELSE /\ evaluations' = [evaluations EXCEPT ![w] = IF MaxEvaluations = 0 THEN @ ELSE @ + 1]
          /\ UNCHANGED <<inbox, cas>>
  /\ UNCHANGED <<target, text, running, printing, holders, served, deaths, undefined>>

-----------------------------------------------------------------------------
\* finish_fermat
Finish(w) ==
  /\ inbox' = Submitted(cas[w], <<"quit">>)
  /\ cas' = [cas EXCEPT ![w] = None]
  /\ evaluations' = [evaluations EXCEPT ![w] = 0]

-----------------------------------------------------------------------------
(* The worker *)

\* An expression is taken, qs_evaluator_evaluate tells whether there is a process for it.
Take(w, x) ==
  /\ Goes(w, "idle", IF evaluations[w] = 0 THEN "pipe" ELSE "submit")
  /\ target' = [target EXCEPT ![w] = x]
  /\ UNCHANGED <<evaluations, cas, text, processVars, deaths, undefined>>

\* init_fermat: the pipes, ...
Pipe(w) ==
  /\ Goes(w, "pipe", "fork")
  /\ \E p \in Unused :
       /\ cas' = [cas EXCEPT ![w] = p]
       /\ answers' = [answers EXCEPT ![p] = <<>>]
       /\ holders' = [holders EXCEPT ![p] = {Parent}]
       /\ served'  = [served EXCEPT ![p] = 0]
  /\ UNCHANGED <<target, evaluations, text, running, inbox, printing, deaths, undefined>>

\* ... the process, which has open what its parent has and keeps it through execlp, ...
Fork(w) ==
  /\ Goes(w, "fork", "close")
  /\ running' = running \cup {cas[w]}
  /\ holders' = [p \in Process |-> IF Parent \in holders[p] THEN holders[p] \cup {cas[w]}
                                   ELSE holders[p]]
  /\ UNCHANGED <<target, evaluations, cas, text, inbox, printing, answers, served,
                 deaths, undefined>>

\* ... and what it needs to know of the symbols, up to fermat_sync.
Close(w) ==
  /\ Goes(w, "close", "sync")
  /\ holders' = [holders EXCEPT ![cas[w]] = @ \ {Parent}]
  /\ inbox' = Submitted(cas[w], <<"symbols", "sync">>)
  /\ UNCHANGED <<target, evaluations, cas, text, running, printing, answers, served,
                 deaths, undefined>>

\* submit_compound, and fermat_sync on behalf of qs_evaluator_receive.
Submit(w) ==
  /\ Goes(w, "submit", "sync")
  /\ inbox' = Submitted(cas[w], <<target[w], "sync">>)
  /\ served' = [served EXCEPT ![cas[w]] = @ + 1]
  /\ UNCHANGED <<target, evaluations, cas, text, running, printing, answers, holders,
                 deaths, undefined>>

\* fermat_sync reads up to the first delimiter.
SyncRead(w) ==
  LET p == cas[w] IN
  /\ Goes(w, "sync", "waste")
  /\ Ready(p, "#")
  /\ text' = [text EXCEPT ![w] = Before(p, "#")]
  /\ answers' = [answers EXCEPT ![p] = After(p, "#")]
  /\ UNCHANGED <<target, evaluations, cas, running, inbox, printing, holders, served,
                 deaths, undefined>>

\* It meets the end.  The worker resubmits.  But after an initialization evaluations is
\* set to one, and the expression is submitted to a stream that was closed.
SyncEnds(w) ==
  /\ Goes(w, "sync", "pipe")
  /\ AtEnd(cas[w], "#")
  /\ Finish(w)
  /\ undefined' = Initializing(w)
  /\ UNCHANGED <<target, text, running, printing, answers, holders, served, deaths>>

\* fermat_sync reads up to the second delimiter, or what there is.
Rest(p) == IF Ready(p, "0") THEN After(p, "0") ELSE <<>>

\* That concludes the initialization.
Initialized(w) ==
  LET p == cas[w] IN
  /\ Goes(w, "waste", "submit")
  /\ Initializing(w)
  /\ Ready(p, "0") \/ AtEnd(p, "0")
  /\ answers' = [answers EXCEPT ![p] = Rest(p)]
  /\ evaluations' = [evaluations EXCEPT ![w] = 1]
  /\ UNCHANGED <<target, cas, text, running, inbox, printing, holders, served,
                 deaths, undefined>>

\* Or qs_evaluator_receive, which renews the process from time to time.
Receive(w) ==
  LET p == cas[w] IN
  /\ Goes(w, "waste", "idle")
  /\ ~Initializing(w)
  /\ Ready(p, "0") \/ AtEnd(p, "0")
  /\ answers' = [answers EXCEPT ![p] = Rest(p)]
  /\ IF MaxEvaluations # 0 /\ evaluations[w] + 1 > MaxEvaluations THEN Finish(w)
     ELSE /\ evaluations' = [evaluations EXCEPT ![w] = IF MaxEvaluations = 0 THEN @ ELSE @ + 1]
          /\ UNCHANGED <<inbox, cas>>
  /\ UNCHANGED <<target, text, running, printing, holders, served, deaths, undefined>>

\* The facility is stopped: qs_evaluator_destroy.
Destroy(w) ==
  /\ Goes(w, "idle", "gone")
  /\ IF evaluations[w] # 0 THEN Finish(w) ELSE UNCHANGED <<inbox, cas, evaluations>>
  /\ UNCHANGED <<target, text, running, printing, answers, holders, served, deaths, undefined>>

-----------------------------------------------------------------------------
(* Fermat, as the code uses it *)

\* A process is gone, and with it what it had open.
Ends(p) ==
  /\ running' = running \ {p}
  /\ holders' = [q \in Process |-> holders[q] \ {p}]
  /\ inbox' = [inbox EXCEPT ![p] = <<>>]
  /\ printing' = [printing EXCEPT ![p] = <<>>]

\* It reads a word: a value, or the delimiter and what that evaluates to, are printed.
Read(p) ==
  /\ p \in running /\ printing[p] = <<>> /\ inbox[p] # <<>>
  /\ LET word == Head(inbox[p]) IN
       IF word = "quit" THEN Ends(p)
       ELSE /\ inbox' = [inbox EXCEPT ![p] = Tail(@)]
            /\ printing' = [printing EXCEPT ![p] =
                 IF word = "sync" THEN <<"#", "0">>
                 ELSE IF word = "symbols" THEN <<>> ELSE <<word>>]
            /\ UNCHANGED <<running, holders>>
  /\ UNCHANGED <<workerVars, answers, served, deaths, undefined>>

Answer(p) ==
  /\ p \in running /\ printing[p] # <<>>
  /\ answers' = [answers EXCEPT ![p] = Append(@, Head(printing[p]))]
  /\ printing' = [printing EXCEPT ![p] = Tail(@)]
  /\ UNCHANGED <<workerVars, running, inbox, holders, served, deaths, undefined>>

Die(p) ==
  /\ p \in running /\ deaths < MaxDeaths
  /\ Ends(p)
  /\ deaths' = deaths + 1
  /\ UNCHANGED <<workerVars, answers, served, undefined>>

-----------------------------------------------------------------------------
WorkerStep(w) == Pipe(w) \/ Fork(w) \/ Close(w) \/ Submit(w) \/ SyncRead(w) \/ SyncEnds(w)
              \/ Initialized(w) \/ Receive(w)
ProcessStep(p) == Read(p) \/ Answer(p)

\* Nothing is said of the program any more, or all workers have ended.
Ended ==
  /\ undefined \/ \A w \in Worker : wpc[w] = "gone"
  /\ UNCHANGED vars

Next ==
  \/ \E w \in Worker : WorkerStep(w) \/ Destroy(w) \/ \E x \in Expression : Take(w, x)
  \/ \E p \in Process : ProcessStep(p) \/ Die(p)
  \/ Ended

SafeSpec == Init /\ [][Next]_vars
Spec == /\ SafeSpec
        /\ \A w \in Worker : WF_vars(WorkerStep(w))
        /\ \A p \in Process : WF_vars(ProcessStep(p))

-----------------------------------------------------------------------------
(* What has to hold *)

\* The coefficient that qs_evaluator_receive returns is the value of the expression the
\* worker works on, nothing left from an earlier one or from a process that died.
ReceivesOwn == \A w \in Worker : wpc[w] = "waste" /\ ~Initializing(w) => text[w] = <<target[w]>>

\* evaluations counts what the present process was given, from one on, so that it is
\* renewed after max_evaluations of them and not earlier, however many were lost.
RenewalExact ==
  \A w \in Worker : wpc[w] = "idle" /\ evaluations[w] # 0 /\ MaxEvaluations # 0 =>
    served[cas[w]] = evaluations[w] - 1 /\ served[cas[w]] < MaxEvaluations

\* A process other than p, which nobody closes it in, has the end of p's answers open.
Inherited(p) == (holders[p] \ {p, Parent}) # {}

\* quicksolve.c: "Ignore broken pipe to Fermat, we detect this by premature EOF".  A worker
\* comes back from fermat_sync even if its process died.
DeathDetected == \A w \in Worker : wpc[w] = "sync" ~> wpc[w] # "sync" \/ undefined

\* It does unless another process inherited the end of the pipe between pipe and close.
AnsweredUnlessInherited ==
  \A w \in Worker : wpc[w] \in {"sync", "waste"} ~>
    wpc[w] \notin {"sync", "waste"} \/ undefined \/ Inherited(cas[w])
=============================================================================
