-------------------------- MODULE EvaluatorInvariant --------------------------
(***************************************************************************)
(* The inductive invariant of the conversation with Fermat: how far it is  *)
(* at each place of the worker's program, if the process lives and if not. *)
(***************************************************************************)
EXTENDS Evaluator

Places == {"idle", "pipe", "fork", "close", "sync", "waste", "submit", "gone"}
Word   == Expression \cup {"symbols", "sync", "quit"}
Text   == Expression \cup {"#", "0"}

\* The type of every variable.
TypeOK ==
  /\ wpc \in [Worker -> Places]
  /\ target \in [Worker -> Expression \cup {None}]
  /\ evaluations \in [Worker -> Nat]
  /\ cas \in [Worker -> Process \cup {None}]
  /\ text \in [Worker -> {<<>>} \cup {<<x>> : x \in Expression}]
  /\ running \subseteq Process
  /\ inbox    \in [Process -> Seq(Word)]
  /\ printing \in [Process -> Seq(Text)]
  /\ answers  \in [Process -> Seq(Text)]
  /\ holders  \in [Process -> SUBSET (Process \cup {Parent})]
  /\ served   \in [Process -> Nat]
  /\ deaths \in Nat /\ undefined \in BOOLEAN

\* Where the worker has a process, an expression, and an initialization behind it.
Equipped ==
  \A w \in Worker :
    /\ cas[w] = None <=> wpc[w] \in {"pipe", "gone"} \/ (wpc[w] = "idle" /\ evaluations[w] = 0)
    /\ wpc[w] \in {"pipe", "fork", "close", "gone"} => evaluations[w] = 0
    /\ wpc[w] = "submit" => evaluations[w] # 0
    /\ wpc[w] \notin {"idle", "gone"} => target[w] \in Expression

\* No two workers talk to the same process.
Distinct == \A v, w \in Worker : cas[v] = cas[w] /\ cas[w] # None => v = w

\* A process has the writing end of its own answers open from the fork to its end: the
\* answers of a process do not end before it does.
HoldsOwn ==
  /\ \A p \in running : p \in holders[p]
  /\ \A w \in Worker : wpc[w] = "fork" => cas[w] \notin running /\ Parent \in holders[cas[w]]

\* A process that does not live reads and prints nothing.
Silent == \A p \in Process \ running : inbox[p] = <<>> /\ printing[p] = <<>>

\* What was printed, is about to be, and has to be read before there is more.
State(p) == <<answers[p], printing[p], inbox[p]>>

\* The first word of the conversation, and what is answered to it.
Asked(w)    == IF Initializing(w) THEN "symbols" ELSE target[w]
Answered(w) == IF Initializing(w) THEN <<>> ELSE <<target[w]>>

\* The stages of a conversation that began with the word f, to which v is answered.
Stages(f, v) ==
  {<< <<>>, <<>>, <<f, "sync">> >>, << <<>>, v, <<"sync">> >>, << v, <<>>, <<"sync">> >>,
   << v, <<"#", "0">>, <<>> >>, << v \o <<"#">>, <<"0">>, <<>> >>,
   << v \o <<"#", "0">>, <<>>, <<>> >>}

\* What a process that died during that leaves behind.
Remains(v) == {<<>>, v, v \o <<"#">>, v \o <<"#", "0">>}

\* Before an expression is submitted nothing is left of an earlier one.
Quiet ==
  \A w \in Worker :
    wpc[w] \in {"fork", "close", "submit"} \/ (wpc[w] = "idle" /\ evaluations[w] # 0) =>
      State(cas[w]) = << <<>>, <<>>, <<>> >>

\* While the worker reads up to the first delimiter.
Syncing ==
  \A w \in Worker : wpc[w] = "sync" =>
    \/ State(cas[w]) \in Stages(Asked(w), Answered(w))
    \/ cas[w] \notin running /\ answers[cas[w]] \in Remains(Answered(w))

\* And then up to the second one.
Wasting ==
  \A w \in Worker : wpc[w] = "waste" =>
    /\ text[w] = Answered(w)
    /\ \/ State(cas[w]) \in {<< <<>>, <<"0">>, <<>> >>, << <<"0">>, <<>>, <<>> >>}
       \/ cas[w] \notin running /\ answers[cas[w]] = <<>>

\* evaluations is one ahead of what the process was given, except after a submission.
Counted ==
  MaxEvaluations # 0 =>
    \A w \in Worker :
      /\ evaluations[w] <= MaxEvaluations
      /\ cas[w] # None =>
           served[cas[w]] =
             IF evaluations[w] = 0 \/ wpc[w] \in {"sync", "waste"} THEN evaluations[w]
             ELSE evaluations[w] - 1

\* All of this is kept by every step.
IInv == TypeOK /\ Equipped /\ Distinct /\ HoldsOwn /\ Silent /\ Quiet /\ Syncing /\ Wasting
          /\ Counted
=============================================================================
