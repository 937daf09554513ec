----------------------------- MODULE Evaluation -----------------------------
(***************************************************************************)
(* What the asynchronous evaluation facility promises its user, with       *)
(* nothing of how it does it: an expression is handed over together with   *)
(* the operands it needs, it is resolved once, not before each of those    *)
(* operands has a result, and, unless the facility is shut down, it is     *)
(* resolved eventually.  operand.h says of qs_operand_bake no more.        *)
(***************************************************************************)
EXTENDS FiniteSets

CONSTANT Terminal

VARIABLES status,   \* of each terminal: not there, waiting for its value, or valued
          needs,    \* the terminals an expression was built from
          stopped   \* the facility was told to terminate

vars == <<status, needs, stopped>>

Status == {"absent", "pending", "result"}

\* The type of every variable of the promise.
TypeOK == /\ status \in [Terminal -> Status]
          /\ needs \in [Terminal -> SUBSET Terminal]
          /\ stopped \in BOOLEAN

Init == /\ status = [t \in Terminal |-> "absent"]
        /\ needs = [t \in Terminal |-> {}]
        /\ stopped = FALSE

\* A terminal that has its value from the start.
Supply(t) == /\ status[t] = "absent"
             /\ status' = [status EXCEPT ![t] = "result"]
             /\ UNCHANGED <<needs, stopped>>

\* An expression over terminals that are already there.
Submit(t, D) == /\ status[t] = "absent"
                /\ \A d \in D : status[d] # "absent"
                /\ status' = [status EXCEPT ![t] = "pending"]
                /\ needs' = [needs EXCEPT ![t] = D]
                /\ UNCHANGED stopped

Ready(t) == status[t] = "pending" /\ \A d \in needs[t] : status[d] = "result"

Resolve(t) == /\ Ready(t)
              /\ status' = [status EXCEPT ![t] = "result"]
              /\ UNCHANGED <<needs, stopped>>

Stop == /\ ~stopped
        /\ stopped' = TRUE
        /\ UNCHANGED <<status, needs>>

Next == \/ \E t \in Terminal : Supply(t) \/ Resolve(t)
        \/ \E t \in Terminal, D \in SUBSET Terminal : Submit(t, D)
        \/ Stop

SafeSpec == Init /\ [][Next]_vars

\* What was handed over is worked on for as long as the facility runs.
Progress == \A t \in Terminal : WF_vars(~stopped /\ Resolve(t))

Spec == SafeSpec /\ Progress
=============================================================================
