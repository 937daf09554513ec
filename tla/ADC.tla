--------------------------------- MODULE ADC ---------------------------------
(***************************************************************************)
(* The accumulated dependency count of the terminals, ADC: how many        *)
(* evaluations, counted once per path, an expression has still before it,  *)
(* its own included.  Every terminal keeps what it contributed to each of  *)
(* its dependers.  A worker that evaluates a terminal takes one off and    *)
(* propagates the change downstream; further down, small changes wait      *)
(* until they add up.  The count is a byte, and one that is too large for  *)
(* it is Overflown until it can be collected again.  Meanwhile the         *)
(* frontend bakes further terminals on top of those being evaluated.       *)
(*                                                                         *)
(* Modelled are terminal_add_dependency, qs_operand_bake,                  *)
(* terminal_decrease_adc, pull_adc and the parts of worker() around them   *)
(* in src/operand.c, lock by lock.  What the count is used for, the D-Values *)
(* which order the evictions, is not modelled.                             *)
(***************************************************************************)
EXTENDS Integers, Sequences, FiniteSets, SequencesExt, FiniteSetsExt

CONSTANTS N,          \* terminals are baked in the order of 1 .. N
          Graphs,     \* the graphs to be checked: of each terminal the terminals
                      \* its expression refers to, in their order
          Worker, Frontend,
          Bits,       \* ADC_BITS
          Overflown,  \* ADC_OVERFLOWN
          None

Terminal == 1 .. N
Thread   == Worker \cup {Frontend}
MaxADC   == 2 ^ (Bits - 1) - 1      \* MAX_ADC
Count    == 0 .. (MaxADC - 1) \cup {Overflown}

\* An expression refers to what was there before it.
ASSUME GraphAssumption ==
  /\ N \in Nat
  /\ \A g \in Graphs : /\ g \in [Terminal -> Seq(Terminal)]
                       /\ \A t \in Terminal : \A k \in 1 .. Len(g[t]) : g[t][k] < t
ASSUME ThreadAssumption == Frontend \notin Worker /\ None \notin Thread \cup Terminal
ASSUME CountAssumption ==
  /\ Bits \in Nat \ {0} /\ MaxADC \in Nat /\ MaxADC > 1
  /\ Overflown \notin 0 .. MaxADC

VARIABLES
  operands,       \* which graph it is
  adc,            \* t->expression->adc.adc
  contributions,  \* t->expression->adc.contributions
  dependers,      \* t->dependers
  dc,             \* t->expression->dc
  lock,           \* who has adc_contribution_lock
  baked,          \* the terminals whose lock is not held for their construction
  result,         \* is_result
  independent     \* a->independent

VARIABLES
  fpc, ft, fk,    \* the frontend, the terminal it bakes, and the operand it adds
  wpc, wt, wj, wn,\* a worker, its target, and j and n_dependers of its notifications
  stack           \* the calls of terminal_decrease_adc a thread is in, the innermost first

graphVars == <<operands, adc, contributions, dependers, dc, lock, baked, result, independent>>
workerVars == <<wpc, wt, wj, wn>>
frontVars == <<fpc, ft, fk>>
vars == <<graphVars, workerVars, frontVars, stack>>

Init ==
  /\ operands \in Graphs
  /\ adc = [t \in Terminal |-> 1]
  /\ contributions = [t \in Terminal |-> <<>>]
  /\ dependers = [t \in Terminal |-> <<>>]
  /\ dc = [t \in Terminal |-> 1]
  /\ lock = [t \in Terminal |-> None]
  /\ baked = {} /\ result = {} /\ independent = {}
  /\ fpc = "add" /\ ft = 1 /\ fk = 1
  /\ wpc = [w \in Worker |-> "idle"]
  /\ wt = [w \in Worker |-> None]
  /\ wj = [w \in Worker |-> 1]
  /\ wn = [w \in Worker |-> 0]
  /\ stack = [x \in Thread |-> <<>>]

\* What becomes of a count when another one is added.
Plus(a, b) == IF a = Overflown \/ b = Overflown THEN Overflown
              ELSE IF a + b >= MaxADC THEN Overflown ELSE a + b

Free(t) == lock[t] = None

-----------------------------------------------------------------------------
(* terminal_decrease_adc *)

Frame(t, decrement, rd) ==
  [at |-> "change", t |-> t, decrement |-> decrement, rd |-> rd, j |-> 1, n |-> 0]

\* The innermost call of a thread.
Call(x)   == Head(stack[x])
In(x, at) == stack[x] # <<>> /\ Call(x).at = at
GoesOn(x, f) == stack' = [stack EXCEPT ![x] = <<f>> \o Tail(@)]

\* The contributions pull_adc finds: the entries of t in the lists of its operands.
Entries(t) ==
  UNION {{<<p, j>> : j \in {i \in DOMAIN dependers[p] : dependers[p][i] = t}} :
         p \in ToSet(operands[t]) \ result}

\* What they amount to.
Collected(t) ==
  MapThenFoldSet(Plus, 1, LAMBDA q : contributions[q[1]][q[2]], LAMBDA S : CHOOSE q \in S : TRUE,
                 Entries(t))

\* The call is made with the lock of t, which is given back after the change.  While it is
\* held nobody changes a contribution to t.
Change(x) ==
  LET f == Call(x) IN
  /\ In(x, "change")
  /\ IF adc[f.t] # Overflown
     THEN /\ adc' = [adc EXCEPT ![f.t] = @ - f.decrement]
          /\ GoesOn(x, [f EXCEPT !.at = "next", !.n = Len(dependers[f.t])])
     ELSE /\ f.t \in baked => \A p \in ToSet(operands[f.t]) \ result : Free(p)
          /\ adc' = [adc EXCEPT ![f.t] = IF f.t \in baked THEN Collected(f.t) ELSE @]
          /\ GoesOn(x, [f EXCEPT !.at = "next",
                                 !.n = IF adc'[f.t] = Overflown THEN 0 ELSE Len(dependers[f.t])])
  /\ lock' = [lock EXCEPT ![f.t] = None]
  /\ UNCHANGED <<operands, contributions, dependers, dc, baked, result, independent,
                 workerVars, frontVars>>

Depender(f) == dependers[f.t][f.j]

\* The loop over the dependers: the lock of the depender, ...
Lock(x) ==
  LET f == Call(x) IN
  /\ In(x, "next") /\ f.j <= f.n
  /\ Free(Depender(f))
  /\ lock' = [lock EXCEPT ![Depender(f)] = x]
  /\ GoesOn(x, [f EXCEPT !.at = "compare"])
  /\ UNCHANGED <<operands, adc, contributions, dependers, dc, baked, result, independent,
                 workerVars, frontVars>>

-----------------------------------------------------------------------------
(* Mutants: what a plausible mistake would make of definitions below; no action uses   *)
(* them.                                                                               *)

\* Propagates: the limit holds for what a worker takes back itself, too.
PropagatesLarge(f) ==
  LET c == contributions[f.t][f.j] IN
  c = Overflown \/ (2 * f.rd + 2 < Bits /\ c - adc[f.t] >= 4 ^ (f.rd + 1))

\* Compare: what was contributed is not written down.
CompareForgetful(x) ==
  LET f == Call(x) IN
  /\ In(x, "compare")
  /\ Free(f.t)
  /\ stack' = [stack EXCEPT ![x] =
       <<Frame(Depender(f), IF contributions[f.t][f.j] = Overflown THEN 0
                            ELSE contributions[f.t][f.j] - adc[f.t], f.rd + 1),
         [f EXCEPT !.at = "next", !.j = @ + 1]>> \o Tail(@)]
  /\ UNCHANGED <<graphVars, workerVars, frontVars>>

\* Independ: the count after the subtraction is taken for the one before it.
IndependAtZero(t) ==
  /\ dc' = [dc EXCEPT ![t] = @ - 1]
  /\ independent' = IF dc[t] = 0 THEN independent \cup {t} ELSE independent

\* Publish: the result is published before the count was propagated.
PublishEarly(w) ==
  /\ wpc[w] = "publish"
  /\ result' = result \cup {wt[w]}
  /\ wn' = [wn EXCEPT ![w] = Len(dependers[wt[w]])]
  /\ wj' = [wj EXCEPT ![w] = 1]
  /\ wpc' = [wpc EXCEPT ![w] = "notify"]
  /\ UNCHANGED <<operands, adc, contributions, dependers, dc, lock, baked, independent,
                 frontVars, wt, stack>>

-----------------------------------------------------------------------------
\* A change that is large enough for this depth, or one from Overflown.
Propagates(f) ==
  LET c == contributions[f.t][f.j] IN
  c = Overflown \/ (2 * f.rd < Bits /\ c - adc[f.t] >= 4 ^ f.rd)

Discrepancy(f) ==
  LET c == contributions[f.t][f.j] IN IF c = Overflown THEN 0 ELSE c - adc[f.t]

\* ... and, with the lock of t on top of it, the comparison.  The lock of the depender is
\* left to the call for it, or given back.
Compare(x) ==
  LET f == Call(x) IN
  /\ In(x, "compare")
  /\ Free(f.t)
  /\ IF Propagates(f)
     THEN /\ contributions' = [contributions EXCEPT ![f.t][f.j] = adc[f.t]]
          /\ stack' = [stack EXCEPT ![x] =
               <<Frame(Depender(f), Discrepancy(f), f.rd + 1),
                 [f EXCEPT !.at = "next", !.j = @ + 1]>> \o Tail(@)]
          /\ UNCHANGED lock
     ELSE /\ GoesOn(x, [f EXCEPT !.at = "next", !.j = @ + 1])
          /\ lock' = [lock EXCEPT ![Depender(f)] = None]
          /\ UNCHANGED contributions
  /\ UNCHANGED <<operands, adc, dependers, dc, baked, result, independent, workerVars, frontVars>>

Return(x) ==
  /\ In(x, "next") /\ Call(x).j > Call(x).n
  /\ stack' = [stack EXCEPT ![x] = Tail(@)]
  /\ UNCHANGED <<graphVars, workerVars, frontVars>>

Decrease(x) == Change(x) \/ Lock(x) \/ Compare(x) \/ Return(x)

\* terminal_independ
Independ(t) ==
  /\ dc' = [dc EXCEPT ![t] = @ - 1]
  /\ independent' = IF dc[t] = 1 THEN independent \cup {t} ELSE independent

-----------------------------------------------------------------------------
(* The frontend: qs_operand_bake *)

Dependee == operands[ft][fk]
Adding   == fpc = "add" /\ ft <= N /\ fk <= Len(operands[ft])

\* terminal_add_dependency of an operand that has its result.
AddResult ==
  /\ Adding /\ Dependee \in result
  /\ dependers' = [dependers EXCEPT ![Dependee] = Append(@, ft)]
  /\ fk' = fk + 1
  /\ UNCHANGED <<operands, adc, contributions, dc, lock, baked, result, independent,
                 workerVars, fpc, ft, stack>>

\* terminal_add_dependency of one that has not: with its lock for reading, ...
AddRead ==
  /\ Adding /\ Dependee \notin result
  /\ fpc' = "read"
  /\ UNCHANGED <<graphVars, workerVars, ft, fk, stack>>

\* ... the lock of its count, ...
AddLock ==
  /\ fpc = "read" /\ Free(Dependee)
  /\ lock' = [lock EXCEPT ![Dependee] = Frontend]
  /\ fpc' = "count"
  /\ UNCHANGED <<operands, adc, contributions, dependers, dc, baked, result, independent,
                 workerVars, ft, fk, stack>>

\* ... and the one of the depender as well.
AddCount ==
  /\ fpc = "count" /\ Free(ft)
  /\ adc' = [adc EXCEPT ![ft] = Plus(@, adc[Dependee])]
  /\ dc' = [dc EXCEPT ![ft] = @ + 1]
  /\ dependers' = [dependers EXCEPT ![Dependee] = Append(@, ft)]
  /\ contributions' = [contributions EXCEPT ![Dependee] = Append(@, adc[Dependee])]
  /\ lock' = [lock EXCEPT ![Dependee] = None]
  /\ fpc' = "add" /\ fk' = fk + 1
  /\ UNCHANGED <<operands, baked, result, independent, workerVars, ft, stack>>

\* The construction is finished.
Built ==
  /\ fpc = "add" /\ ft <= N /\ fk > Len(operands[ft])
  /\ baked' = baked \cup {ft}
  /\ fpc' = "built"
  /\ UNCHANGED <<operands, adc, contributions, dependers, dc, lock, result, independent,
                 workerVars, ft, fk, stack>>

BakeDecrease ==
  /\ fpc = "built" /\ Free(ft)
  /\ lock' = [lock EXCEPT ![ft] = Frontend]
  /\ stack' = [stack EXCEPT ![Frontend] = <<Frame(ft, 0, 0)>>]
  /\ fpc' = "independ"
  /\ UNCHANGED <<operands, adc, contributions, dependers, dc, baked, result, independent,
                 workerVars, ft, fk>>

BakeIndepend ==
  /\ fpc = "independ" /\ stack[Frontend] = <<>>
  /\ Independ(ft)
  /\ fpc' = "add" /\ ft' = ft + 1 /\ fk' = 1
  /\ UNCHANGED <<operands, adc, contributions, dependers, lock, baked, result, workerVars, stack>>

Bake == AddResult \/ AddRead \/ AddLock \/ AddCount \/ Built \/ BakeDecrease \/ BakeIndepend

-----------------------------------------------------------------------------
(* The worker *)

Pop(w) ==
  /\ wpc[w] = "idle"
  /\ \E t \in independent :
       /\ wt' = [wt EXCEPT ![w] = t]
       /\ independent' = independent \ {t}
  /\ wpc' = [wpc EXCEPT ![w] = "evaluate"]
  /\ UNCHANGED <<operands, adc, contributions, dependers, dc, lock, baked, result,
                 frontVars, wj, wn, stack>>

\* The first pass, after the expression was submitted.
Evaluate(w) ==
  /\ wpc[w] = "evaluate" /\ Free(wt[w])
  /\ lock' = [lock EXCEPT ![wt[w]] = w]
  /\ stack' = [stack EXCEPT ![w] = <<Frame(wt[w], 1, 0)>>]
  /\ wpc' = [wpc EXCEPT ![w] = "publish"]
  /\ UNCHANGED <<operands, adc, contributions, dependers, dc, baked, result, independent,
                 frontVars, wt, wj, wn>>

\* The result is there, once no one reads the terminal.
Publish(w) ==
  /\ wpc[w] = "publish" /\ stack[w] = <<>>
  /\ ~(fpc \in {"read", "count"} /\ Dependee = wt[w])
  /\ result' = result \cup {wt[w]}
  /\ wn' = [wn EXCEPT ![w] = Len(dependers[wt[w]])]
  /\ wj' = [wj EXCEPT ![w] = 1]
  /\ wpc' = [wpc EXCEPT ![w] = "notify"]
  /\ UNCHANGED <<operands, adc, contributions, dependers, dc, lock, baked, independent,
                 frontVars, wt, stack>>

Notify(w) ==
  /\ wpc[w] = "notify" /\ wj[w] <= wn[w]
  /\ Independ(dependers[wt[w]][wj[w]])
  /\ wj' = [wj EXCEPT ![w] = @ + 1]
  /\ UNCHANGED <<operands, adc, contributions, dependers, lock, baked, result, frontVars,
                 wpc, wt, wn, stack>>

Done(w) ==
  /\ wpc[w] = "notify" /\ wj[w] > wn[w]
  /\ wpc' = [wpc EXCEPT ![w] = "idle"]
  /\ wt' = [wt EXCEPT ![w] = None]
  /\ UNCHANGED <<graphVars, frontVars, wj, wn, stack>>

Work(w) == Pop(w) \/ Evaluate(w) \/ Publish(w) \/ Notify(w) \/ Done(w)

-----------------------------------------------------------------------------
Finished == fpc = "add" /\ ft > N /\ \A w \in Worker : wpc[w] = "idle" /\ independent = {}

Next ==
  \/ Bake
  \/ \E w \in Worker : Work(w)
  \/ \E x \in Thread : Decrease(x)
  \/ Finished /\ UNCHANGED vars

SafeSpec == Init /\ [][Next]_vars

\* Every thread goes on when it can.
Spec == /\ SafeSpec
        /\ WF_vars(Bake)
        /\ \A w \in Worker : WF_vars(Work(w))
        /\ \A x \in Thread : WF_vars(Decrease(x))

-----------------------------------------------------------------------------
(* What has to hold *)

\* The count of a terminal is exactly what can be collected from its operands and one for
\* itself, or Overflown when that is too large, whenever its lock is free after the bake.
CountIsCollected ==
  \A t \in baked : Free(t) /\ (t = ft => fpc # "built") =>
    adc[t] = IF \E w \in Worker : wt[w] = t /\ wpc[w] # "evaluate" THEN 0
             ELSE IF t \in result THEN 0 ELSE Collected(t)

\* The assertion of terminal_independ: with the last operand finished only the evaluation
\* of the terminal itself is left, even if its count had been Overflown, or if changes of
\* it were too small to be propagated.
IndependentCountsOne == \A t \in independent : adc[t] = 1

\* No thread is left in the count of a terminal that is a result, the expression of which
\* is freed, and none looks at such a depender.
NoneInFreed ==
  \A x \in Thread : \A i \in DOMAIN stack[x] :
    LET f == stack[x][i] IN
      /\ f.t \notin result
      /\ f.at \in {"next", "compare"} /\ f.j <= f.n => Depender(f) \notin result

\* tests/aef.c waits for every terminal it baked, and ends.
AllEvaluated == <>(result = Terminal)

\* operand.c: "Finished calculations from further upstream in the dependency chain will
\* propagate downstream and should be applied on all operands whose ADC included the
\* respective calculation."
AppliedDownstream ==
  \A t \in Terminal : adc[t] = 0 ~> \A j \in DOMAIN contributions[t] : contributions[t][j] = 0
=============================================================================
