------------------------------ MODULE AEFProof ------------------------------
(***************************************************************************)
(* Proofs about the evaluation facility, for any finite set of terminals   *)
(* and any set of workers.  The lemmas follow the parts of the invariant   *)
(* in AEFInvariant: first the types, then what a step leaves alone, then   *)
(* one lemma for each part that it is kept, and the theorems.  The second  *)
(* half does the same for the references.                                  *)
(***************************************************************************)
EXTENDS AEFInvariant, FiniteSetTheorems, TLAPS

-----------------------------------------------------------------------------
(* Types *)

\* An assignment to one element keeps an integer array one.
LEMMA UpdatedType ==
  ASSUME NEW f \in [Terminal -> Int], NEW t, NEW x \in Int
  PROVE  [f EXCEPT ![t] = x] \in [Terminal -> Int]
OBVIOUS

\* So does the decrement of one element, a terminal or not.
LEMMA DecreasedType ==
  ASSUME NEW f \in [Terminal -> Int], NEW t
  PROVE  [f EXCEPT ![t] = @ - 1] \in [Terminal -> Int]
<1>1. CASE t \in Terminal
  <2>1. f[t] - 1 \in Int
    BY <1>1
  <2>. QED
    BY <2>1, UpdatedType
<1>2. CASE t \notin Terminal
  <2>1. [f EXCEPT ![t] = @ - 1] = f
    BY <1>2
  <2>. QED
    BY <2>1
<1>. QED
  BY <1>1, <1>2

\* qs_operand_unref leaves life and refcount of their types.
LEMMA UnrefTypes ==
  ASSUME TerminalTypes, NEW t, Unref(t)
  PROVE  /\ life' \in [Terminal -> {"unborn", "live", "freed"}]
         /\ refcount' \in [Terminal -> Int]
<1>1. life' \in [Terminal -> {"unborn", "live", "freed"}]
  <2>1. life' = life \/ life' = [life EXCEPT ![t] = "freed"]
    BY DEF Unref
  <2>2. life \in [Terminal -> {"unborn", "live", "freed"}]
    BY DEF TerminalTypes
  <2>. QED
    BY <2>1, <2>2
<1>2. refcount' \in [Terminal -> Int]
  BY DecreasedType DEF TerminalTypes, Unref
<1>. QED
  BY <1>1, <1>2

\* Every step keeps the types of what belongs to the terminals.
LEMMA TerminalTypesStep ==
  ASSUME TypeOK, WorkerIndices, FrontShape, Next
  PROVE  TerminalTypes'
<1>. USE DEF TypeOK
<1>1. ASSUME NEW t \in Terminal, New(t) PROVE TerminalTypes'
  BY <1>1 DEF TerminalTypes, New
<1>2. CASE CountPass
  <2>1. life' \in [Terminal -> {"unborn", "live", "freed"}]
    BY <1>2 DEF CountPass, TerminalTypes
  <2>2. dc' \in [Terminal -> Int]
    <3>1. dc' = [dc EXCEPT ![ftarget] = 1]
      BY <1>2 DEF CountPass
    <3>2. dc \in [Terminal -> Int] /\ 1 \in Int
      BY DEF TerminalTypes
    <3>. QED
      BY <3>1, <3>2, UpdatedType
  <2>3. refcount' \in [Terminal -> Int]
    <3>1. refcount' = [refcount EXCEPT ![ftarget] = 1]
      BY <1>2 DEF CountPass
    <3>2. refcount \in [Terminal -> Int] /\ 1 \in Int
      BY DEF TerminalTypes
    <3>. QED
      BY <3>1, <3>2, UpdatedType
  <2>. QED
    BY <1>2, <2>1, <2>2, <2>3 DEF TerminalTypes, CountPass
<1>3. CASE Link
  <2>. DEFINE o == fargs[Len(operands[ftarget]) + 1]
  <2>1. ftarget \in Terminal
    BY <1>3 DEF Link, FrontShape
  <2>2. operands[ftarget] \in Seq(Terminal) /\ fargs \in Seq(Terminal)
    BY <2>1 DEF TerminalTypes, FrontTypes
  <2>3. o \in Terminal
    BY <1>3, <2>2 DEF Link
  <2>4. dc' \in [Terminal -> Int] /\ refcount' \in [Terminal -> Int]
    BY <1>3, <2>1, <2>3 DEF Link, TerminalTypes
  <2>5. dependers' \in [Terminal -> Seq(Terminal \cup {None})]
    <3>1. dependers' = [dependers EXCEPT ![o] = Append(dependers[o], ftarget)]
      BY <1>3 DEF Link
    <3>2. dependers \in [Terminal -> Seq(Terminal \cup {None})]
      BY DEF TerminalTypes
    <3>3. Append(dependers[o], ftarget) \in Seq(Terminal \cup {None})
      BY <2>1, <2>3, <3>2
    <3>. QED
      BY <3>1, <3>2, <3>3
  <2>6. operands' \in [Terminal -> Seq(Terminal)]
    <3>1. operands' = [operands EXCEPT ![ftarget] = Append(operands[ftarget], o)]
      BY <1>3 DEF Link
    <3>2. operands \in [Terminal -> Seq(Terminal)]
      BY DEF TerminalTypes
    <3>3. Append(operands[ftarget], o) \in Seq(Terminal)
      BY <2>2, <2>3
    <3>. QED
      BY <3>1, <3>2, <3>3
  <2>. QED
    BY <1>3, <2>4, <2>5, <2>6 DEF Link, TerminalTypes
<1>4. CASE FrontDecrement
  <2>1. dc' \in [Terminal -> Int]
    BY <1>4, DecreasedType DEF FrontDecrement, TerminalTypes
  <2>. QED
    BY <1>4, <2>1 DEF TerminalTypes, FrontDecrement
<1>5. ASSUME NEW t \in Terminal, Ref(t) PROVE TerminalTypes'
  BY <1>5 DEF TerminalTypes, Ref
<1>6. ASSUME NEW t \in Terminal, Unref(t),
             UNCHANGED <<is_result, dc, operands, dependers>>,
             discarded' = discarded \/ discarded' = [discarded EXCEPT ![t] = TRUE]
      PROVE  TerminalTypes'
  <2>1. discarded' \in [Terminal -> BOOLEAN]
    BY <1>6 DEF TerminalTypes
  <2>. QED
    BY <1>6, <2>1, UnrefTypes DEF TerminalTypes
<1>7. ASSUME NEW t \in Terminal, FrontUnref(t) PROVE TerminalTypes'
  BY <1>6, <1>7 DEF FrontUnref
<1>8. ASSUME NEW t \in Terminal, FrontDiscard(t) PROVE TerminalTypes'
  <2>1. CASE Unref(t)
    BY <1>6, <1>8, <2>1 DEF FrontDiscard
  <2>2. CASE UNCHANGED <<life, refcount>>
    BY <1>8, <2>2 DEF FrontDiscard, TerminalTypes
  <2>. QED
    BY <1>8, <2>1, <2>2 DEF FrontDiscard
<1>9. ASSUME NEW w \in Worker, RemoveDepender(w) PROVE TerminalTypes'
  <2>. DEFINE o == operands[wtarget[w]][windex[w]]
  <2>1. PICK j \in 1..Len(dependers[o]) : dependers' = [dependers EXCEPT ![o][j] = None]
    BY <1>9 DEF RemoveDepender
  <2>2. dependers \in [Terminal -> Seq(Terminal \cup {None})]
    BY DEF TerminalTypes
  <2>3. dependers' \in [Terminal -> Seq(Terminal \cup {None})]
    <3>1. CASE o \in Terminal
      <4>1. dependers[o] \in Seq(Terminal \cup {None})
        BY <2>2, <3>1
      <4>2. [dependers[o] EXCEPT ![j] = None] \in Seq(Terminal \cup {None})
        BY <4>1
      <4>. QED
        BY <2>1, <2>2, <4>2
    <3>2. CASE o \notin Terminal
      BY <2>1, <2>2, <3>2
    <3>. QED
      BY <3>1, <3>2
  <2>. QED
    BY <1>9, <2>3 DEF RemoveDepender, TerminalTypes
<1>10. ASSUME NEW w \in Worker, Publish(w) PROVE TerminalTypes'
  BY <1>10 DEF TerminalTypes, Publish
<1>11. ASSUME NEW w \in Worker, DiscardUnref(w) PROVE TerminalTypes'
  BY <1>11, UnrefTypes DEF TerminalTypes, DiscardUnref
<1>12. ASSUME NEW w \in Worker, Decrement(w) PROVE TerminalTypes'
  <2>1. dc' \in [Terminal -> Int]
    BY <1>12, DecreasedType DEF Decrement, TerminalTypes
  <2>. QED
    BY <1>12, <2>1 DEF TerminalTypes, Decrement
<1>13. ASSUME NEW w \in Worker, Clean(w) PROVE TerminalTypes'
  BY <1>13, UnrefTypes DEF TerminalTypes, Clean
<1>14. ASSUME UNCHANGED terminalVars PROVE TerminalTypes'
  BY <1>14 DEF TerminalTypes, terminalVars
<1>15. ASSUME NEW t \in Terminal, NEW os \in OperandSeq, Bake(t, os) PROVE TerminalTypes'
  BY <1>14, <1>15 DEF Bake
<1>16. ASSUME Start \/ CountBlock \/ SpuriousUnblock \/ FrontPush \/ Destroy \/ Join \/ Finished
       PROVE  TerminalTypes'
  <2>1. UNCHANGED terminalVars
    BY <1>16 DEF Start, CountBlock, SpuriousUnblock, FrontPush, Destroy, Join, Finished, vars
  <2>. QED
    BY <1>14, <2>1
<1>17. ASSUME NEW w \in Worker,
              Spawn(w) \/ SpuriousWake(w) \/ Lost(w) \/ Take(w) \/ Woken(w) \/ Evaluate(w)
                \/ Receive(w) \/ ReadDepender(w) \/ Push(w) \/ Uncount(w)
       PROVE  TerminalTypes'
  <2>1. UNCHANGED terminalVars
    BY <1>17 DEF Spawn, SpuriousWake, Lost, Take, Woken, Evaluate, Receive, ReadDepender, Push,
                 Uncount
  <2>. QED
    BY <1>14, <2>1
<1>. HIDE DEF TypeOK
<1>. QED
  BY <1>1, <1>2, <1>3, <1>4, <1>5, <1>7, <1>8, <1>9, <1>10, <1>11, <1>12, <1>13, <1>15, <1>16,
     <1>17 DEF Next, FrontBake, FrontIdle, Work

\* Every step keeps the queue a sequence of terminals.
LEMMA QueueTypesStep ==
  ASSUME TypeOK, WorkerIndices, FrontShape, Next
  PROVE  QueueTypes'
<1>1. CASE CountPass
  BY <1>1 DEF TypeOK, QueueTypes, CountPass
<1>2. CASE FrontPush
  <2>1. ftarget \in Terminal
    BY <1>2 DEF FrontPush, FrontShape
  <2>. QED
    BY <1>2, <2>1 DEF TypeOK, QueueTypes, FrontPush, PushIndependent
<1>3. CASE Destroy
  BY <1>3 DEF TypeOK, QueueTypes, Destroy
<1>4. ASSUME NEW w \in Worker, Take(w) \/ Woken(w) PROVE QueueTypes'
  <2>1. /\ independent' = independent \/ (independent # <<>> /\ independent' = Tail(independent))
        /\ UNCHANGED <<n_terminals, limit_terminals, notice>>
    BY <1>4 DEF Take, Woken, Pop
  <2>. QED
    BY <2>1 DEF TypeOK, QueueTypes
<1>5. ASSUME NEW w \in Worker, Push(w) PROVE QueueTypes'
  <2>1. wdepender[w] \in Terminal
    BY <1>5 DEF Push, WorkerIndices, IndicesOf
  <2>. QED
    BY <1>5, <2>1 DEF TypeOK, QueueTypes, Push, PushIndependent
<1>6. ASSUME NEW w \in Worker, Uncount(w) PROVE QueueTypes'
  BY <1>6 DEF TypeOK, QueueTypes, Uncount
<1>7. ASSUME UNCHANGED queueVars PROVE QueueTypes'
  BY <1>7 DEF TypeOK, QueueTypes, queueVars
<1>8. ASSUME NEW t \in Terminal,
             New(t) \/ Ref(t) \/ FrontUnref(t) \/ FrontDiscard(t)
               \/ \E os \in OperandSeq : Bake(t, os)
      PROVE  QueueTypes'
  <2>1. UNCHANGED queueVars
    BY <1>8 DEF New, Ref, FrontUnref, FrontDiscard, Bake
  <2>. QED
    BY <1>7, <2>1
<1>9. ASSUME \/ Start \/ CountBlock \/ SpuriousUnblock \/ Link \/ FrontDecrement \/ Join
             \/ Finished
      PROVE  QueueTypes'
  <2>1. UNCHANGED queueVars
    BY <1>9 DEF Start, CountBlock, SpuriousUnblock, Link, FrontDecrement, Join, Finished, vars
  <2>. QED
    BY <1>7, <2>1
<1>10. ASSUME NEW w \in Worker,
              Spawn(w) \/ SpuriousWake(w) \/ Lost(w) \/ Evaluate(w) \/ RemoveDepender(w)
                \/ Receive(w) \/ Publish(w) \/ DiscardUnref(w) \/ ReadDepender(w)
                \/ Decrement(w) \/ Clean(w)
       PROVE  QueueTypes'
  <2>1. UNCHANGED queueVars
    BY <1>10 DEF Spawn, SpuriousWake, Lost, Evaluate, RemoveDepender, Receive, Publish,
                 DiscardUnref, ReadDepender, Decrement, Clean
  <2>. QED
    BY <1>7, <2>1
<1>. QED
  BY <1>1, <1>2, <1>3, <1>4, <1>5, <1>6, <1>8, <1>9, <1>10
  DEF Next, FrontBake, FrontIdle, Work

\* Every step keeps the types of what belongs to the frontend.
LEMMA FrontTypesStep ==
  ASSUME TypeOK, Next
  PROVE  FrontTypes'
<1>1. ASSUME NEW t \in Terminal, NEW x \in Nat, held' = [held EXCEPT ![t] = x],
             UNCHANGED <<fpc, ftarget, fargs>>
      PROVE  FrontTypes'
  BY <1>1 DEF TypeOK, FrontTypes
<1>2. ASSUME NEW t \in Terminal, New(t) \/ Ref(t) \/ FrontUnref(t) \/ FrontDiscard(t)
      PROVE  FrontTypes'
  <2>1. held[t] \in Nat
    BY DEF TypeOK, FrontTypes
  <2>2. CASE New(t)
    BY <1>1, <2>2 DEF New
  <2>3. CASE Ref(t)
    <3>1. held' = [held EXCEPT ![t] = held[t] + 1] /\ UNCHANGED <<fpc, ftarget, fargs>>
      BY <2>3 DEF Ref
    <3>2. held[t] + 1 \in Nat
      BY <2>1
    <3>. QED
      BY <1>1, <3>1, <3>2
  <2>4. CASE FrontUnref(t) \/ FrontDiscard(t)
    <3>1. /\ held[t] > 0 /\ held' = [held EXCEPT ![t] = held[t] - 1]
          /\ UNCHANGED <<fpc, ftarget, fargs>>
      BY <2>4 DEF FrontUnref, FrontDiscard
    <3>2. held[t] - 1 \in Nat
      BY <2>1, <3>1
    <3>. QED
      BY <1>1, <3>1, <3>2
  <2>. QED
    BY <1>2, <2>2, <2>3, <2>4
<1>3. ASSUME NEW t \in Terminal, NEW os \in OperandSeq, Bake(t, os) PROVE FrontTypes'
  <2>1. os \in Seq(Terminal)
    BY BoundAssumption DEF OperandSeq
  <2>. QED
    BY <1>3, <2>1 DEF TypeOK, FrontTypes, FrontPC, Bake
<1>4. CASE CountPass
  <2>1. held' \in [Terminal -> Nat]
    <3>1. held' = [held EXCEPT ![ftarget] = 1] /\ 1 \in Nat
      BY <1>4 DEF CountPass
    <3>. QED
      BY <3>1 DEF TypeOK, FrontTypes
  <2>. QED
    BY <1>4, <2>1 DEF TypeOK, FrontTypes, FrontPC, CountPass
<1>5. ASSUME fpc' \in FrontPC, UNCHANGED <<ftarget, fargs, held>> PROVE FrontTypes'
  BY <1>5 DEF TypeOK, FrontTypes
<1>6. ASSUME \/ Start \/ CountBlock \/ SpuriousUnblock \/ FrontDecrement \/ FrontPush
             \/ Destroy \/ Join
      PROVE  FrontTypes'
  <2>1. fpc' \in FrontPC /\ UNCHANGED <<ftarget, fargs, held>>
    BY <1>6 DEF Start, CountBlock, SpuriousUnblock, FrontDecrement, FrontPush, Destroy, Join,
                FrontPC
  <2>. QED
    BY <1>5, <2>1
<1>7. fpc \in FrontPC
  BY DEF TypeOK, FrontTypes
<1>8. CASE Link \/ Finished
  <2>1. UNCHANGED frontVars
    BY <1>8 DEF Link, Finished, vars
  <2>. QED
    BY <1>5, <1>7, <2>1 DEF frontVars
<1>9. ASSUME NEW w \in Worker, Spawn(w) \/ SpuriousWake(w) \/ Lost(w) \/ Work(w)
      PROVE  FrontTypes'
  <2>1. fpc' \in {fpc, "count"} /\ UNCHANGED <<ftarget, fargs, held>>
    BY <1>9 DEF Spawn, SpuriousWake, Lost, Work, Take, Woken, Evaluate, RemoveDepender, Receive,
                Publish, DiscardUnref, ReadDepender, Decrement, Push, Clean, Uncount, frontVars
  <2>. QED
    BY <1>5, <1>7, <2>1 DEF FrontPC
<1>. QED
  BY <1>2, <1>3, <1>4, <1>6, <1>8, <1>9 DEF Next, FrontBake, FrontIdle

-----------------------------------------------------------------------------
(* What a step leaves alone *)

\* The worker keeps its target and stays where it is, or stays without a target.
NoTarget == {"unborn", "idle", "waiting", "woken", "exited"}

Unmoved(v) ==
  /\ wtarget'[v] = wtarget[v] /\ windex'[v] = windex[v] /\ wn'[v] = wn[v]
  /\ wdepender'[v] = wdepender[v] /\ first_pass'[v] = first_pass[v]
  /\ wpc'[v] = wpc[v] \/ (wpc[v] \in NoTarget /\ wpc'[v] \in NoTarget)

\* pthread_cond_signal at most wakes a waiting worker.
LEMMA SignalMoves ==
  ASSUME NEW wp \in [Worker -> WorkerPC], Signal(wp)
  PROVE  /\ wpc' \in [Worker -> WorkerPC]
         /\ \A v \in Worker : wpc'[v] = wp[v] \/ (wp[v] = "waiting" /\ wpc'[v] = "woken")
<1>1. CASE wpc' = wp
  BY <1>1
<1>2. ASSUME NEW v \in Worker, wp[v] = "waiting", wpc' = [wp EXCEPT ![v] = "woken"]
      PROVE  /\ wpc' \in [Worker -> WorkerPC]
             /\ \A u \in Worker : wpc'[u] = wp[u] \/ (wp[u] = "waiting" /\ wpc'[u] = "woken")
  <2>1. "woken" \in WorkerPC
    BY DEF WorkerPC
  <2>. QED
    BY <1>2, <2>1
<1>. QED
  BY <1>1, <1>2 DEF Signal

\* No step of the frontend moves a worker.
LEMMA FrontMovesNoWorker ==
  ASSUME TypeOK,
         \/ Start \/ CountBlock \/ SpuriousUnblock \/ FrontBake \/ FrontIdle \/ Join \/ Finished
  PROVE  WorkerTypes' /\ \A v \in Worker : Unmoved(v)
<1>. DEFINE Goal == WorkerTypes' /\ \A v \in Worker : Unmoved(v)
<1>1. ASSUME UNCHANGED workerVars PROVE Goal
  BY <1>1 DEF workerVars, Unmoved, TypeOK, WorkerTypes
<1>2. CASE FrontPush
  <2>1. wpc \in [Worker -> WorkerPC]
    BY DEF TypeOK, WorkerTypes
  <2>2. Signal(wpc) /\ UNCHANGED <<wtarget, windex, wn, wdepender, first_pass>>
    BY <1>2 DEF FrontPush, PushIndependent
  <2>3. /\ wpc' \in [Worker -> WorkerPC]
        /\ \A v \in Worker : wpc'[v] = wpc[v] \/ (wpc[v] = "waiting" /\ wpc'[v] = "woken")
    BY <2>1, <2>2, SignalMoves
  <2>4. WorkerTypes'
    BY <2>2, <2>3 DEF TypeOK, WorkerTypes
  <2>. QED
    BY <2>2, <2>3, <2>4 DEF Unmoved, NoTarget
<1>3. CASE Destroy
  <2>1. /\ wpc' = [w \in Worker |-> IF wpc[w] = "waiting" THEN "woken" ELSE wpc[w]]
        /\ UNCHANGED <<wtarget, windex, wn, wdepender, first_pass>>
    BY <1>3 DEF Destroy
  <2>2. wpc' \in [Worker -> WorkerPC]
    BY <2>1 DEF TypeOK, WorkerTypes, WorkerPC
  <2>3. WorkerTypes'
    BY <2>1, <2>2 DEF TypeOK, WorkerTypes
  <2>4. \A v \in Worker : wpc'[v] = wpc[v] \/ (wpc[v] = "waiting" /\ wpc'[v] = "woken")
    BY <2>1
  <2>. QED
    BY <2>1, <2>3, <2>4 DEF Unmoved, NoTarget
<1>4. ASSUME NEW t \in Terminal,
             New(t) \/ Ref(t) \/ FrontUnref(t) \/ FrontDiscard(t)
               \/ \E os \in OperandSeq : Bake(t, os)
      PROVE  Goal
  <2>1. UNCHANGED workerVars
    BY <1>4 DEF New, Ref, FrontUnref, FrontDiscard, Bake
  <2>. QED
    BY <1>1, <2>1
<1>5. ASSUME \/ Start \/ CountBlock \/ SpuriousUnblock \/ CountPass \/ Link \/ FrontDecrement
             \/ Join \/ Finished
      PROVE  Goal
  <2>1. UNCHANGED workerVars
    BY <1>5 DEF Start, CountBlock, SpuriousUnblock, CountPass, Link, FrontDecrement, Join,
                Finished, vars
  <2>. QED
    BY <1>1, <2>1
<1>. QED
  BY <1>2, <1>3, <1>4, <1>5 DEF FrontBake, FrontIdle

\* A step of a worker moves no other.
LEMMA WorkerMovesNoOther ==
  ASSUME TypeOK, NEW w \in Worker, Spawn(w) \/ SpuriousWake(w) \/ Lost(w) \/ Work(w),
         NEW v \in Worker, v # w
  PROVE  Unmoved(v)
<1>1. CASE Push(w)
  <2>. DEFINE wp == [wpc EXCEPT ![w] = IF windex[w] < wn[w] THEN "read" ELSE "clean"]
  <2>1. Signal(wp) /\ wp \in [Worker -> WorkerPC]
    BY <1>1 DEF Push, PushIndependent, TypeOK, WorkerTypes, WorkerPC
  <2>2. wpc'[v] = wp[v] \/ (wp[v] = "waiting" /\ wpc'[v] = "woken")
    BY <2>1, SignalMoves
  <2>3. wp[v] = wpc[v]
    BY DEF TypeOK, WorkerTypes
  <2>4. wtarget'[v] = wtarget[v] /\ wn'[v] = wn[v] /\ wdepender'[v] = wdepender[v]
          /\ first_pass'[v] = first_pass[v] /\ windex'[v] = windex[v]
    BY <1>1 DEF Push, TypeOK, WorkerTypes
  <2>. QED
    BY <2>2, <2>3, <2>4 DEF Unmoved, NoTarget
<1>2. CASE Spawn(w) \/ SpuriousWake(w) \/ Lost(w) \/ Take(w) \/ Woken(w)
  BY <1>2 DEF Spawn, SpuriousWake, Lost, Take, Woken, Pop, Unmoved, TypeOK, WorkerTypes
<1>3. CASE Evaluate(w) \/ RemoveDepender(w) \/ Receive(w) \/ Publish(w) \/ DiscardUnref(w)
  BY <1>3 DEF Evaluate, RemoveDepender, Receive, Publish, DiscardUnref, NextDepender, Unmoved,
              TypeOK, WorkerTypes
<1>4. CASE ReadDepender(w) \/ Decrement(w) \/ Clean(w) \/ Uncount(w)
  BY <1>4 DEF ReadDepender, Decrement, NextDepender, Clean, Uncount, Unmoved, TypeOK,
              WorkerTypes
<1>. QED
  BY <1>1, <1>2, <1>3, <1>4 DEF Work

\* Every step keeps the types of what belongs to the workers.
LEMMA WorkerTypesStep ==
  ASSUME TypeOK, WorkerIndices, Next
  PROVE  WorkerTypes'
<1>1. ASSUME \/ Start \/ CountBlock \/ SpuriousUnblock \/ FrontBake \/ FrontIdle \/ Join
             \/ Finished
      PROVE  WorkerTypes'
  BY <1>1, FrontMovesNoWorker
<1>2. ASSUME NEW w \in Worker, Spawn(w) \/ SpuriousWake(w) \/ Lost(w) PROVE WorkerTypes'
  BY <1>2 DEF TypeOK, WorkerTypes, WorkerPC, Spawn, SpuriousWake, Lost
<1>3. ASSUME NEW w \in Worker, Take(w) \/ Woken(w) PROVE WorkerTypes'
  <2>1. wpc' \in [Worker -> WorkerPC] /\ first_pass' \in [Worker -> BOOLEAN]
    BY <1>3 DEF TypeOK, WorkerTypes, WorkerPC, Take, Woken, Pop
  <2>2. wtarget' \in [Worker -> Terminal \cup {None}]
    <3>1. \/ wtarget' = wtarget
          \/ independent # <<>> /\ wtarget' = [wtarget EXCEPT ![w] = Head(independent)]
      BY <1>3 DEF Take, Woken, Pop
    <3>2. independent # <<>> => Head(independent) \in Terminal
      BY DEF TypeOK, QueueTypes
    <3>. QED
      BY <3>1, <3>2 DEF TypeOK, WorkerTypes
  <2>3. UNCHANGED <<windex, wn, wdepender>>
    BY <1>3 DEF Take, Woken
  <2>. QED
    BY <2>1, <2>2, <2>3 DEF TypeOK, WorkerTypes
<1>4. ASSUME NEW w \in Worker, Evaluate(w) \/ RemoveDepender(w) \/ Receive(w) PROVE WorkerTypes'
  <2>1. wpc' \in [Worker -> WorkerPC]
    BY <1>4 DEF TypeOK, WorkerTypes, WorkerPC, Evaluate, RemoveDepender, Receive
  <2>2. windex' \in [Worker -> Nat]
    BY <1>4 DEF TypeOK, WorkerTypes, Evaluate, RemoveDepender, Receive
  <2>3. UNCHANGED <<wtarget, wn, wdepender, first_pass>>
    BY <1>4 DEF Evaluate, RemoveDepender, Receive
  <2>. QED
    BY <2>1, <2>2, <2>3 DEF TypeOK, WorkerTypes
<1>5. ASSUME NEW w \in Worker, Publish(w) PROVE WorkerTypes'
  <2>1. Len(dependers[wtarget[w]]) \in Nat
    BY <1>5 DEF Publish, WorkerIndices, IndicesOf, Busy, TypeOK, TerminalTypes
  <2>2. wpc' \in [Worker -> WorkerPC]
    BY <1>5 DEF TypeOK, WorkerTypes, WorkerPC, Publish, NextDepender
  <2>4. windex' \in [Worker -> Nat]
    BY <1>5 DEF TypeOK, WorkerTypes, Publish, NextDepender
  <2>3. wn' \in [Worker -> Nat]
    BY <1>5, <2>1 DEF TypeOK, WorkerTypes, Publish
  <2>. QED
    BY <1>5, <2>2, <2>3, <2>4 DEF TypeOK, WorkerTypes, Publish
<1>6. ASSUME NEW w \in Worker, DiscardUnref(w) \/ Decrement(w) \/ Clean(w) PROVE WorkerTypes'
  <2>1. wpc' \in [Worker -> WorkerPC]
    BY <1>6 DEF TypeOK, WorkerTypes, WorkerPC, DiscardUnref, Decrement, Clean, NextDepender
  <2>2. windex' \in [Worker -> Nat]
    BY <1>6 DEF TypeOK, WorkerTypes, DiscardUnref, Decrement, Clean, NextDepender
  <2>3. UNCHANGED <<wtarget, wn, wdepender, first_pass>>
    BY <1>6 DEF DiscardUnref, Decrement, Clean
  <2>. QED
    BY <2>1, <2>2, <2>3 DEF TypeOK, WorkerTypes
<1>7. ASSUME NEW w \in Worker, ReadDepender(w) PROVE WorkerTypes'
  <2>1. dependers[wtarget[w]][windex[w]] \in Terminal \cup {None}
    <3>1. wtarget[w] \in Terminal /\ windex[w] \in 1..Len(dependers[wtarget[w]])
      BY <1>7 DEF ReadDepender, WorkerIndices, IndicesOf, Busy, Signalling, TypeOK, TerminalTypes,
                  WorkerTypes
    <3>. QED
      BY <3>1 DEF TypeOK, TerminalTypes
  <2>2. wpc' \in [Worker -> WorkerPC]
    BY <1>7 DEF TypeOK, WorkerTypes, WorkerPC, ReadDepender
  <2>. QED
    BY <1>7, <2>1, <2>2 DEF TypeOK, WorkerTypes, ReadDepender
<1>8. ASSUME NEW w \in Worker, Push(w) PROVE WorkerTypes'
  <2>. DEFINE wp == [wpc EXCEPT ![w] = IF windex[w] < wn[w] THEN "read" ELSE "clean"]
  <2>1. Signal(wp) /\ wp \in [Worker -> WorkerPC]
    BY <1>8 DEF Push, PushIndependent, TypeOK, WorkerTypes, WorkerPC
  <2>2. wpc' \in [Worker -> WorkerPC]
    BY <2>1, SignalMoves
  <2>3. windex' \in [Worker -> Nat]
    BY <1>8 DEF TypeOK, WorkerTypes, Push
  <2>. QED
    BY <1>8, <2>2, <2>3 DEF TypeOK, WorkerTypes, Push
<1>9. ASSUME NEW w \in Worker, Uncount(w) PROVE WorkerTypes'
  BY <1>9 DEF TypeOK, WorkerTypes, WorkerPC, Uncount
<1>. QED
  BY <1>1, <1>2, <1>3, <1>4, <1>5, <1>6, <1>7, <1>8, <1>9 DEF Next, Work

\* The lists of dependers only grow, and what is in them stays, but for the entries a
\* worker clears.
LEMMA ListsGrow ==
  ASSUME TypeOK, FrontShape, Next, NEW t \in Terminal
  PROVE  /\ Len(dependers'[t]) >= Len(dependers[t])
         /\ Len(dependers'[t]) # Len(dependers[t]) => Link
         /\ \A j \in 1..Len(dependers[t]) :
              \/ dependers'[t][j] = dependers[t][j]
              \/ /\ dependers'[t][j] = None
                 /\ \E w \in Worker : RemoveDepender(w) /\ dependers[t][j] = wtarget[w]
<1>0. Len(dependers[t]) \in Nat
  BY DEF TypeOK, TerminalTypes
<1>1. ASSUME dependers' = dependers
      PROVE  /\ Len(dependers'[t]) = Len(dependers[t])
             /\ \A j \in 1..Len(dependers[t]) : dependers'[t][j] = dependers[t][j]
  BY <1>1 DEF TypeOK, TerminalTypes
<1>2. CASE Link
  <2>. DEFINE o == fargs[Len(operands[ftarget]) + 1]
  <2>1. dependers' = [dependers EXCEPT ![o] = Append(dependers[o], ftarget)]
    BY <1>2 DEF Link
  <2>2. ftarget \in Terminal
    BY <1>2 DEF Link, FrontShape
  <2>3. dependers[t] \in Seq(Terminal \cup {None})
    BY DEF TypeOK, TerminalTypes
  <2>4. CASE o = t
    <3>1. dependers'[t] = Append(dependers[t], ftarget)
      BY <2>1, <2>4 DEF TypeOK, TerminalTypes
    <3>. QED
      BY <1>2, <2>2, <2>3, <3>1
  <2>5. CASE o # t
    <3>1. dependers'[t] = dependers[t]
      BY <2>1, <2>5 DEF TypeOK, TerminalTypes
    <3>. QED
      BY <2>3, <3>1
  <2>. QED
    BY <2>4, <2>5
<1>3. ASSUME NEW w \in Worker, RemoveDepender(w)
      PROVE  /\ Len(dependers'[t]) = Len(dependers[t])
             /\ \A j \in 1..Len(dependers[t]) :
                  \/ dependers'[t][j] = dependers[t][j]
                  \/ dependers'[t][j] = None /\ dependers[t][j] = wtarget[w]
  <2>. DEFINE o == operands[wtarget[w]][windex[w]]
  <2>1. PICK j \in 1..Len(dependers[o]) : /\ dependers' = [dependers EXCEPT ![o][j] = None]
                                          /\ dependers[o][j] = wtarget[w]
    BY <1>3 DEF RemoveDepender
  <2>2. dependers[t] \in Seq(Terminal \cup {None})
    BY DEF TypeOK, TerminalTypes
  <2>3. CASE o = t
    <3>1. dependers'[t] = [dependers[t] EXCEPT ![j] = None]
      BY <2>1, <2>3 DEF TypeOK, TerminalTypes
    <3>. QED
      BY <2>1, <2>2, <2>3, <3>1
  <2>4. CASE o # t
    <3>1. dependers'[t] = dependers[t]
      BY <2>1, <2>4 DEF TypeOK, TerminalTypes
    <3>. QED
      BY <2>2, <3>1
  <2>. QED
    BY <2>3, <2>4
<1>4. ASSUME NEW u \in Terminal,
             New(u) \/ Ref(u) \/ FrontUnref(u) \/ FrontDiscard(u)
               \/ \E os \in OperandSeq : Bake(u, os)
      PROVE  dependers' = dependers
  BY <1>4 DEF New, Ref, FrontUnref, FrontDiscard, Bake, terminalVars
<1>5. ASSUME \/ Start \/ CountBlock \/ SpuriousUnblock \/ CountPass \/ FrontDecrement
             \/ FrontPush \/ Destroy \/ Join \/ Finished
      PROVE  dependers' = dependers
  BY <1>5 DEF Start, CountBlock, SpuriousUnblock, CountPass, FrontDecrement, FrontPush, Destroy,
              Join, Finished, vars, terminalVars
<1>6. ASSUME NEW w \in Worker,
             Spawn(w) \/ SpuriousWake(w) \/ Lost(w) \/ Take(w) \/ Woken(w) \/ Evaluate(w)
               \/ Receive(w) \/ Publish(w) \/ DiscardUnref(w) \/ ReadDepender(w)
               \/ Decrement(w) \/ Push(w) \/ Clean(w) \/ Uncount(w)
      PROVE  dependers' = dependers
  BY <1>6 DEF Spawn, SpuriousWake, Lost, Take, Woken, Evaluate, Receive, Publish, DiscardUnref,
              ReadDepender, Decrement, Push, Clean, Uncount, terminalVars
<1>. QED
  BY <1>0, <1>1, <1>2, <1>3, <1>4, <1>5, <1>6 DEF Next, FrontBake, FrontIdle, Work

\* The operands of a terminal only grow, and what is in them stays.
LEMMA OperandsGrow ==
  ASSUME TypeOK, FrontShape, Next, NEW t \in Terminal
  PROVE  /\ Len(operands'[t]) >= Len(operands[t])
         /\ \A k \in 1..Len(operands[t]) : operands'[t][k] = operands[t][k]
<1>0. operands[t] \in Seq(Terminal)
  BY DEF TypeOK, TerminalTypes
<1>1. ASSUME operands' = operands
      PROVE  /\ Len(operands'[t]) >= Len(operands[t])
             /\ \A k \in 1..Len(operands[t]) : operands'[t][k] = operands[t][k]
  BY <1>0, <1>1
<1>2. CASE Link
  <2>. DEFINE o == fargs[Len(operands[ftarget]) + 1]
  <2>1. operands' = [operands EXCEPT ![ftarget] = Append(operands[ftarget], o)]
    BY <1>2 DEF Link
  <2>2. ftarget \in Terminal
    BY <1>2 DEF Link, FrontShape
  <2>3. Len(operands[ftarget]) \in Nat /\ fargs \in Seq(Terminal)
    BY <2>2 DEF TypeOK, TerminalTypes, FrontTypes
  <2>4. o \in Terminal
    BY <1>2, <2>3 DEF Link
  <2>5. CASE t = ftarget
    <3>1. operands'[t] = Append(operands[t], o)
      BY <2>1, <2>5 DEF TypeOK, TerminalTypes
    <3>. QED
      BY <1>0, <2>4, <3>1
  <2>6. CASE t # ftarget
    <3>1. operands'[t] = operands[t]
      BY <2>1, <2>6 DEF TypeOK, TerminalTypes
    <3>. QED
      BY <1>0, <3>1
  <2>. QED
    BY <2>5, <2>6
<1>3. ASSUME NEW u \in Terminal,
             New(u) \/ Ref(u) \/ FrontUnref(u) \/ FrontDiscard(u)
               \/ \E os \in OperandSeq : Bake(u, os)
      PROVE  operands' = operands
  BY <1>3 DEF New, Ref, FrontUnref, FrontDiscard, Bake, terminalVars
<1>4. ASSUME \/ Start \/ CountBlock \/ SpuriousUnblock \/ CountPass \/ FrontDecrement
             \/ FrontPush \/ Destroy \/ Join \/ Finished
      PROVE  operands' = operands
  BY <1>4 DEF Start, CountBlock, SpuriousUnblock, CountPass, FrontDecrement, FrontPush, Destroy,
              Join, Finished, vars, terminalVars
<1>5. ASSUME NEW w \in Worker,
             Spawn(w) \/ SpuriousWake(w) \/ Lost(w) \/ Take(w) \/ Woken(w) \/ Evaluate(w)
               \/ RemoveDepender(w) \/ Receive(w) \/ Publish(w) \/ DiscardUnref(w)
               \/ ReadDepender(w) \/ Decrement(w) \/ Push(w) \/ Clean(w) \/ Uncount(w)
      PROVE  operands' = operands
  BY <1>5 DEF Spawn, SpuriousWake, Lost, Take, Woken, Evaluate, RemoveDepender, Receive, Publish,
              DiscardUnref, ReadDepender, Decrement, Push, Clean, Uncount, terminalVars
<1>. QED
  BY <1>1, <1>2, <1>3, <1>4, <1>5 DEF Next, FrontBake, FrontIdle, Work

-----------------------------------------------------------------------------
(* The workers' indices *)

\* A worker that does not move keeps its indices within the lists.
LEMMA UnmovedIndices ==
  ASSUME TypeOK, WorkerIndices, FrontShape, Next, TypeOK', NEW v \in Worker, Unmoved(v)
  PROVE  IndicesOf(v)'
<1>1. CASE wpc'[v] \in NoTarget
  BY <1>1 DEF NoTarget, IndicesOf, Busy, Signalling
<1>2. CASE wpc'[v] = wpc[v] /\ ~Busy(v)
  BY <1>2 DEF IndicesOf, Busy, Signalling
<1>3. CASE wpc'[v] = wpc[v] /\ Busy(v)
  <2>. DEFINE t == wtarget[v]
  <2>1. IndicesOf(v) /\ t \in Terminal
    BY <1>3 DEF WorkerIndices, IndicesOf
  <2>2. Len(dependers'[t]) >= Len(dependers[t]) /\ Len(operands'[t]) >= Len(operands[t])
    BY <2>1, ListsGrow, OperandsGrow
  <2>3. /\ Len(dependers'[t]) \in Nat /\ Len(operands'[t]) \in Nat
        /\ Len(dependers[t]) \in Nat /\ Len(operands[t]) \in Nat
    BY <2>1 DEF TypeOK, TerminalTypes
  <2>4. windex[v] \in Nat /\ wn[v] \in Nat
    BY DEF TypeOK, WorkerTypes
  <2>. QED
    BY <1>3, <2>1, <2>2, <2>3, <2>4 DEF Unmoved, IndicesOf, Busy, Signalling
<1>. QED
  BY <1>1, <1>2, <1>3 DEF Unmoved

\* Every step keeps the indices of the workers within the lists they index.
LEMMA WorkerIndicesStep ==
  ASSUME TypeOK, WorkerIndices, FrontShape, OperandsGiven, Next, TypeOK'
  PROVE  WorkerIndices'
<1>1. ASSUME NEW w \in Worker, Spawn(w) \/ SpuriousWake(w) \/ Lost(w) \/ Work(w)
      PROVE  IndicesOf(w)'
  <2>1. IndicesOf(w) /\ (Busy(w) => operands[wtarget[w]] # <<>>)
    BY DEF WorkerIndices, OperandsGiven
  <2>2. /\ wpc \in [Worker -> WorkerPC] /\ wtarget \in [Worker -> Terminal \cup {None}]
        /\ windex \in [Worker -> Nat] /\ wn \in [Worker -> Nat]
        /\ wdepender \in [Worker -> Terminal \cup {None}]
    BY DEF TypeOK, WorkerTypes
  <2>3. CASE Spawn(w) \/ SpuriousWake(w) \/ Uncount(w)
    BY <2>2, <2>3 DEF Spawn, SpuriousWake, Uncount, IndicesOf, Busy, Signalling
  <2>4. CASE Take(w) \/ Woken(w)
    <3>1. CASE Pop(w)
      <4>1. Head(independent) \in Terminal
        BY <3>1 DEF Pop, TypeOK, QueueTypes
      <4>2. wpc'[w] = "evaluate" /\ wtarget'[w] = Head(independent)
        BY <2>2, <3>1 DEF Pop
      <4>. QED
        BY <4>1, <4>2 DEF IndicesOf, Busy, Signalling
    <3>2. CASE wpc'[w] \in {"exited", "waiting", "idle"}
      BY <3>2 DEF IndicesOf, Busy, Signalling
    <3>. QED
      BY <2>2, <2>4, <3>1, <3>2 DEF Take, Woken
  <2>5. CASE Lost(w) \/ Receive(w)
    BY <2>1, <2>2, <2>5 DEF Lost, Receive, IndicesOf, Busy, Signalling
  <2>6. ASSUME Busy(w) PROVE Len(operands[wtarget[w]]) \in Nat \ {0}
    BY <2>1, <2>6 DEF IndicesOf, TypeOK, TerminalTypes
  <2>7. CASE Evaluate(w)
    <3>1. Busy(w) /\ operands' = operands
      BY <2>7 DEF Evaluate, Busy, terminalVars
    <3>2. wpc'[w] \in {"remove", "receive"} /\ windex'[w] = 1 /\ wtarget'[w] = wtarget[w]
      BY <2>2, <2>7 DEF Evaluate
    <3>. QED
      BY <2>1, <2>6, <3>1, <3>2 DEF IndicesOf, Busy, Signalling
  <2>8. CASE RemoveDepender(w) \/ Clean(w)
    <3>1. Busy(w) /\ operands' = operands /\ wtarget' = wtarget
      BY <2>8 DEF RemoveDepender, Clean, Busy
    <3>2. \/ windex[w] < Len(operands[wtarget[w]]) /\ windex'[w] = windex[w] + 1
          \/ wpc'[w] \in {"receive", "count"}
      BY <2>2, <2>8 DEF RemoveDepender, Clean
    <3>3. wpc'[w] \in {"remove", "clean", "receive", "count"}
      BY <2>2, <2>8 DEF RemoveDepender, Clean
    <3>4. windex[w] \in 1..Len(operands[wtarget[w]])
      BY <2>1, <2>8 DEF RemoveDepender, Clean, IndicesOf
    <3>. QED
      BY <2>1, <2>6, <3>1, <3>2, <3>3, <3>4 DEF IndicesOf, Busy, Signalling
  <2>9. CASE Publish(w)
    <3>. DEFINE t == wtarget[w]
    <3>1. Busy(w) /\ operands' = operands /\ wtarget' = wtarget /\ dependers' = dependers
      BY <2>9 DEF Publish, Busy
    <3>2. t \in Terminal /\ Len(dependers[t]) \in Nat
      BY <2>1, <3>1 DEF IndicesOf, TypeOK, TerminalTypes
    <3>3. wn'[w] = Len(dependers[t]) /\ windex'[w] = 1
      BY <2>2, <2>9 DEF Publish, NextDepender
    <3>4. \/ wpc'[w] \in {"discard", "clean"}
          \/ wpc'[w] = "read" /\ 1 <= Len(dependers[t])
      BY <2>2, <2>9 DEF Publish, NextDepender
    <3>. QED
      BY <2>6, <3>1, <3>2, <3>3, <3>4 DEF IndicesOf, Busy, Signalling
  <2>10. CASE DiscardUnref(w)
    <3>1. /\ Busy(w) /\ operands' = operands /\ wtarget' = wtarget /\ dependers' = dependers
          /\ wn' = wn /\ windex'[w] = 1
      BY <2>2, <2>10 DEF DiscardUnref, NextDepender, Busy
    <3>2. wpc'[w] = "clean" \/ (wpc'[w] = "read" /\ 1 <= wn[w])
      BY <2>2, <2>10 DEF DiscardUnref, NextDepender
    <3>3. wn[w] <= Len(dependers[wtarget[w]])
      BY <2>1, <2>10 DEF DiscardUnref, IndicesOf, Signalling
    <3>. QED
      BY <2>1, <2>6, <3>1, <3>2, <3>3 DEF IndicesOf, Busy, Signalling
  <2>11. CASE ReadDepender(w)
    <3>1. /\ wpc[w] = "read" /\ wpc'[w] = "decrement" /\ dependers' = dependers
          /\ UNCHANGED <<wtarget, windex, wn, operands>>
      BY <2>2, <2>11 DEF ReadDepender, terminalVars
    <3>. QED
      BY <2>1, <3>1 DEF IndicesOf, Busy, Signalling
  <2>12. CASE Decrement(w)
    <3>1. /\ wpc[w] = "decrement" /\ wdepender[w] \in Terminal
          /\ UNCHANGED <<wtarget, wn, wdepender, operands, dependers>>
      BY <2>2, <2>12 DEF Decrement
    <3>2. \/ wpc'[w] = "push" /\ windex'[w] = windex[w]
          \/ wpc'[w] = "read" /\ windex'[w] = windex[w] + 1 /\ windex[w] + 1 <= wn[w]
          \/ wpc'[w] = "clean" /\ windex'[w] = 1
      BY <2>2, <2>12 DEF Decrement, NextDepender
    <3>3. Busy(w) /\ windex[w] \in Nat /\ wn[w] \in Nat
      BY <2>2, <3>1 DEF Busy
    <3>. QED
      BY <2>1, <2>6, <3>1, <3>2, <3>3 DEF IndicesOf, Busy, Signalling
  <2>13. CASE Push(w)
    <3>. DEFINE wp == [wpc EXCEPT ![w] = IF windex[w] < wn[w] THEN "read" ELSE "clean"]
    <3>1. /\ wpc[w] = "push" /\ UNCHANGED <<wtarget, wn, operands, dependers>>
      BY <2>13 DEF Push, terminalVars
    <3>2. Signal(wp) /\ wp \in [Worker -> WorkerPC]
      BY <2>2, <2>13 DEF Push, PushIndependent, WorkerPC
    <3>3. wpc'[w] = wp[w]
      BY <2>2, <3>2, SignalMoves
    <3>4. \/ wpc'[w] = "read" /\ windex'[w] = windex[w] + 1 /\ windex[w] < wn[w]
          \/ wpc'[w] = "clean" /\ windex'[w] = 1
      BY <2>2, <2>13, <3>3 DEF Push
    <3>5. Busy(w) /\ windex[w] \in Nat /\ wn[w] \in Nat
      BY <2>2, <3>1 DEF Busy
    <3>. QED
      BY <2>1, <2>6, <3>1, <3>4, <3>5 DEF IndicesOf, Busy, Signalling
  <2>. QED
    BY <1>1, <2>3, <2>4, <2>5, <2>7, <2>8, <2>9, <2>10, <2>11, <2>12, <2>13 DEF Work
<1>2. ASSUME NEW w \in Worker, Spawn(w) \/ SpuriousWake(w) \/ Lost(w) \/ Work(w),
             NEW v \in Worker
      PROVE  IndicesOf(v)'
  BY <1>1, <1>2, WorkerMovesNoOther, UnmovedIndices
<1>3. ASSUME \/ Start \/ CountBlock \/ SpuriousUnblock \/ FrontBake \/ FrontIdle \/ Join
             \/ Finished,
             NEW v \in Worker
      PROVE  IndicesOf(v)'
  BY <1>3, FrontMovesNoWorker, UnmovedIndices
<1>. QED
  BY <1>2, <1>3 DEF WorkerIndices, Next

-----------------------------------------------------------------------------
(* Which entries are due *)

Signalled(v, t, j) == wtarget[v] = t /\ Signals(v, j)

\* A worker that does not move signals what it was going to signal.
LEMMA UnmovedSignalled ==
  ASSUME NEW v \in Worker, Unmoved(v), NEW t \in Terminal, NEW j \in Nat
  PROVE  Signalled(v, t, j)' <=> Signalled(v, t, j)
BY DEF Unmoved, Signalled, Signals, NoTarget

\* Only publishing and decreasing change what a worker is going to signal.
LEMMA SignalledKept ==
  ASSUME TypeOK, WorkerIndices, Next, NEW v \in Worker, ~Publish(v), ~Decrement(v),
         NEW t \in Terminal, NEW j \in Nat
  PROVE  Signalled(v, t, j)' <=> Signalled(v, t, j)
<1>0. /\ wpc \in [Worker -> WorkerPC] /\ wtarget \in [Worker -> Terminal \cup {None}]
      /\ windex \in [Worker -> Nat] /\ wn \in [Worker -> Nat]
  BY DEF TypeOK, WorkerTypes
<1>1. ASSUME \/ Start \/ CountBlock \/ SpuriousUnblock \/ FrontBake \/ FrontIdle \/ Join
             \/ Finished
      PROVE  Signalled(v, t, j)' <=> Signalled(v, t, j)
  BY <1>1, FrontMovesNoWorker, UnmovedSignalled
<1>2. ASSUME NEW w \in Worker, Spawn(w) \/ SpuriousWake(w) \/ Lost(w) \/ Work(w), w # v
      PROVE  Signalled(v, t, j)' <=> Signalled(v, t, j)
  BY <1>2, WorkerMovesNoOther, UnmovedSignalled
<1>3. CASE Spawn(v) \/ SpuriousWake(v) \/ Lost(v) \/ Evaluate(v) \/ Receive(v)
  BY <1>0, <1>3 DEF Spawn, SpuriousWake, Lost, Evaluate, Receive, Signalled, Signals
<1>4. CASE Take(v) \/ Woken(v)
  <2>1. wpc[v] \in {"idle", "woken"} /\ wpc'[v] \in {"idle", "exited", "waiting", "evaluate"}
    BY <1>0, <1>4 DEF Take, Woken, Pop
  <2>. QED
    BY <2>1 DEF Signalled, Signals
<1>5. CASE RemoveDepender(v) \/ Clean(v) \/ Uncount(v)
  <2>1. /\ wpc[v] \in {"remove", "clean", "count"}
        /\ wpc'[v] \in {"remove", "clean", "receive", "count", "idle"}
    BY <1>0, <1>5 DEF RemoveDepender, Clean, Uncount
  <2>. QED
    BY <2>1 DEF Signalled, Signals
<1>6. CASE DiscardUnref(v)
  <2>1. /\ wpc[v] = "discard" /\ wtarget' = wtarget /\ wn' = wn /\ windex'[v] = 1
        /\ wpc'[v] = IF 1 <= wn[v] THEN "read" ELSE "clean"
    BY <1>0, <1>6 DEF DiscardUnref, NextDepender
  <2>2. windex[v] = 1 /\ wn[v] \in Nat
    BY <1>0, <2>1 DEF WorkerIndices, IndicesOf, Signalling
  <2>. QED
    BY <2>1, <2>2 DEF Signalled, Signals
<1>7. CASE ReadDepender(v)
  BY <1>0, <1>7 DEF ReadDepender, Signalled, Signals
<1>8. CASE Push(v)
  <2>. DEFINE wp == [wpc EXCEPT ![v] = IF windex[v] < wn[v] THEN "read" ELSE "clean"]
  <2>1. Signal(wp) /\ wp \in [Worker -> WorkerPC]
    BY <1>0, <1>8 DEF Push, PushIndependent, WorkerPC
  <2>2. wpc'[v] = wp[v]
    BY <1>0, <2>1, SignalMoves
  <2>3. /\ wpc[v] = "push" /\ UNCHANGED <<wtarget, wn>>
        /\ wpc'[v] = (IF windex[v] < wn[v] THEN "read" ELSE "clean")
        /\ windex'[v] = IF windex[v] < wn[v] THEN windex[v] + 1 ELSE 1
    BY <1>0, <1>8, <2>2 DEF Push
  <2>4. windex[v] \in Nat /\ wn[v] \in Nat
    BY <1>0
  <2>. QED
    BY <2>3, <2>4 DEF Signalled, Signals
<1>. QED
  BY <1>1, <1>2, <1>3, <1>4, <1>5, <1>6, <1>7, <1>8 DEF Next, Work

\* A terminal that is a result remains one.
LEMMA ResultsKept ==
  ASSUME Next, \A t \in Terminal : ~New(t), \A w \in Worker : ~Publish(w)
  PROVE  is_result' = is_result
<1>1. ASSUME NEW t \in Terminal,
             Ref(t) \/ FrontUnref(t) \/ FrontDiscard(t) \/ \E os \in OperandSeq : Bake(t, os)
      PROVE  is_result' = is_result
  BY <1>1 DEF Ref, FrontUnref, FrontDiscard, Bake, terminalVars
<1>2. ASSUME \/ Start \/ CountBlock \/ SpuriousUnblock \/ FrontBake \/ Destroy \/ Join
             \/ Finished
      PROVE  is_result' = is_result
  BY <1>2 DEF Start, CountBlock, SpuriousUnblock, FrontBake, CountPass, Link, FrontDecrement,
              FrontPush, Destroy, Join, Finished, vars, terminalVars
<1>3. ASSUME NEW w \in Worker,
             Spawn(w) \/ SpuriousWake(w) \/ Lost(w) \/ Take(w) \/ Woken(w) \/ Evaluate(w)
               \/ RemoveDepender(w) \/ Receive(w) \/ DiscardUnref(w) \/ ReadDepender(w)
               \/ Decrement(w) \/ Push(w) \/ Clean(w) \/ Uncount(w)
      PROVE  is_result' = is_result
  BY <1>3 DEF Spawn, SpuriousWake, Lost, Take, Woken, Evaluate, RemoveDepender, Receive,
              DiscardUnref, ReadDepender, Decrement, Push, Clean, Uncount, terminalVars
<1>. QED
  BY <1>1, <1>2, <1>3 DEF Next, FrontIdle, Work

\* The actions exclude one another where the proofs need it.
LEMMA PublishExcludes ==
  ASSUME TypeOK, NEW w \in Worker, Publish(w)
  PROVE  /\ \A t \in Terminal : ~New(t)
         /\ \A v \in Worker : ~Decrement(v) /\ (Publish(v) => v = w)
<1>1. is_result' # is_result \/ wpc' # wpc
  BY DEF Publish, NextDepender, TypeOK, WorkerTypes
<1>2. wpc[w] = "publish" /\ wpc'[w] # "publish" /\ dc' = dc /\ UNCHANGED held
  BY DEF Publish, NextDepender, TypeOK, WorkerTypes, frontVars
<1>3. \A t \in Terminal : ~New(t)
  BY <1>2 DEF New, workerVars
<1>4. ASSUME NEW v \in Worker, Decrement(v) PROVE FALSE
  BY <1>2, <1>4 DEF Decrement, NextDepender, TypeOK, WorkerTypes
<1>5. ASSUME NEW v \in Worker, Publish(v), v # w PROVE FALSE
  BY <1>2, <1>5 DEF Publish, NextDepender, TypeOK, WorkerTypes
<1>. QED
  BY <1>3, <1>4, <1>5

\* A decrease of dc by a worker is no other change of a list or a counter.
LEMMA DecrementExcludes ==
  ASSUME TypeOK, NEW w \in Worker, Decrement(w)
  PROVE  /\ \A t \in Terminal : ~New(t)
         /\ \A v \in Worker : ~Publish(v) /\ (Decrement(v) => v = w)
<1>1. wpc[w] = "decrement" /\ wpc'[w] # "decrement"
  BY DEF Decrement, NextDepender, TypeOK, WorkerTypes
<1>2. \A t \in Terminal : ~New(t)
  BY <1>1 DEF New, workerVars
<1>3. ASSUME NEW v \in Worker, Decrement(v), v # w PROVE FALSE
  BY <1>1, <1>3 DEF Decrement, NextDepender, TypeOK, WorkerTypes
<1>4. ASSUME NEW v \in Worker, Publish(v) PROVE FALSE
  BY <1>4, PublishExcludes
<1>. QED
  BY <1>2, <1>3, <1>4


\* An entry that is due stays so until the worker of its list decreases the dc.
LEMMA DueStep ==
  ASSUME IInv, Next, NEW t \in Terminal, NEW j \in 1..Len(dependers[t])
  PROVE  Due(t, j)' <=> Due(t, j) /\ ~\E w \in Worker : /\ Decrement(w)
                                                      /\ wtarget[w] = t /\ windex[w] = j
<1>. USE DEF IInv
<1>0. /\ wpc \in [Worker -> WorkerPC] /\ wtarget \in [Worker -> Terminal \cup {None}]
      /\ windex \in [Worker -> Nat] /\ wn \in [Worker -> Nat]
      /\ is_result \in [Terminal -> BOOLEAN] /\ j \in Nat /\ Len(dependers[t]) \in Nat
  BY DEF TypeOK, WorkerTypes, TerminalTypes
<1>1. CASE \E w \in Worker : Publish(w)
  <2>1. PICK w \in Worker : Publish(w)
    BY <1>1
  <2>2. \A v \in Worker : ~Decrement(v) /\ (v # w => ~Publish(v))
    BY <2>1, PublishExcludes
  <2>3. \A v \in Worker : v # w => (Signalled(v, t, j)' <=> Signalled(v, t, j))
    BY <1>0, <2>2, SignalledKept
  <2>4. ~Signalled(w, t, j)
    BY <2>1 DEF Publish, Signalled, Signals
  <2>5. CASE t = wtarget[w]
    <3>1. ~is_result[t]
      BY <2>1, <2>5 DEF Publish, ScheduledIndependent, Independent, Evaluating
    <3>2. windex'[w] = 1 /\ wn'[w] = Len(dependers[t]) /\ wtarget'[w] = t
      BY <1>0, <2>1, <2>5 DEF Publish, NextDepender
    <3>3. wpc'[w] = "discard" \/ wpc'[w] = "read"
      BY <1>0, <2>1, <2>5 DEF Publish, NextDepender
    <3>4. Signalled(w, t, j)'
      BY <1>0, <3>2, <3>3 DEF Signalled, Signals
    <3>. QED
      BY <2>2, <3>1, <3>4 DEF Due, Signalled
  <2>6. CASE t # wtarget[w]
    <3>1. is_result'[t] = is_result[t]
      BY <1>0, <2>1, <2>6 DEF Publish
    <3>2. ~Signalled(w, t, j)'
      BY <2>1, <2>6 DEF Publish, Signalled
    <3>. QED
      BY <2>2, <2>3, <2>4, <3>1, <3>2 DEF Due, Signalled
  <2>. QED
    BY <2>5, <2>6
<1>2. CASE \E w \in Worker : Decrement(w)
  <2>1. PICK w \in Worker : Decrement(w)
    BY <1>2
  <2>2. \A v \in Worker : ~Publish(v) /\ (v # w => ~Decrement(v))
    BY <2>1, DecrementExcludes
  <2>3. \A v \in Worker : v # w => (Signalled(v, t, j)' <=> Signalled(v, t, j))
    BY <1>0, <2>2, SignalledKept
  <2>4. is_result' = is_result /\ wtarget' = wtarget
    BY <2>1 DEF Decrement
  <2>5. CASE t = wtarget[w]
    <3>1. wpc[w] = "decrement" /\ windex[w] <= wn[w] /\ wn' = wn
      BY <2>1 DEF Decrement, WorkerIndices, IndicesOf
    <3>2. \/ wpc'[w] = "push" /\ windex'[w] = windex[w]
          \/ wpc'[w] = "read" /\ windex'[w] = windex[w] + 1
          \/ wpc'[w] = "clean" /\ wn[w] < windex[w] + 1
      BY <1>0, <2>1 DEF Decrement, NextDepender
    <3>3. Signalled(w, t, j)' <=> Signalled(w, t, j) /\ windex[w] # j
      BY <1>0, <2>4, <2>5, <3>1, <3>2 DEF Signalled, Signals
    <3>4. is_result[t]
      BY <2>5, <3>1 DEF TargetsApart, Busy, Evaluating
    <3>5. \A v \in Worker : v # w => ~Signalled(v, t, j)
      BY <2>5, <3>1 DEF TargetsApart, Busy, Signalled, Signals
    <3>6. Due(t, j) <=> Signalled(w, t, j)
      BY <3>4, <3>5 DEF Due, Signalled
    <3>7. Due(t, j)' <=> Signalled(w, t, j)'
      BY <2>3, <2>4, <3>4, <3>5 DEF Due, Signalled
    <3>. QED
      BY <2>1, <2>2, <2>5, <3>3, <3>6, <3>7
  <2>6. CASE t # wtarget[w]
    <3>1. ~Signalled(w, t, j) /\ ~Signalled(w, t, j)'
      BY <2>4, <2>6 DEF Signalled
    <3>. QED
      BY <2>2, <2>3, <2>4, <2>6, <3>1 DEF Due, Signalled
  <2>. QED
    BY <2>5, <2>6
<1>3. CASE /\ \A w \in Worker : ~Publish(w) /\ ~Decrement(w)
  <2>1. \A v \in Worker : Signalled(v, t, j)' <=> Signalled(v, t, j)
    BY <1>0, <1>3, SignalledKept
  <2>2. is_result'[t] = is_result[t]
    <3>1. CASE \E u \in Terminal : New(u)
      <4>1. PICK u \in Terminal : New(u)
        BY <3>1
      <4>2. dependers[u] = <<>>
        BY <4>1 DEF New, UnbornBlank
      <4>3. t # u
        BY <4>2
      <4>. QED
        BY <1>0, <4>1, <4>3 DEF New
    <3>2. CASE \A u \in Terminal : ~New(u)
      BY <1>3, <3>2, ResultsKept
    <3>. QED
      BY <3>1, <3>2
  <2>. QED
    BY <1>3, <2>1, <2>2 DEF Due, Signalled
<1>. QED
  BY <1>1, <1>2, <1>3

\* An independent terminal is in no list from which it could still be signalled.
LEMMA AwaitsMember ==
  ASSUME NEW d, NEW t, NEW j
  PROVE  <<t, j>> \in Awaits(d) <=> /\ t \in Terminal /\ j \in 1..Len(dependers[t])
                                    /\ dependers[t][j] = d /\ Due(t, j)
BY DEF Awaits, Entries, Due

\* Nothing that is scheduled is in a list from which it would be signalled.
LEMMA IndependentNotDue ==
  ASSUME TypeOK, CountsDue, NEW d \in Terminal, ~is_result[d], dc[d] = 0
  PROVE  /\ Guard(d) = 0 /\ Awaits(d) = {}
         /\ \A t \in Terminal : \A j \in 1..Len(dependers[t]) :
              dependers[t][j] = d => ~Due(t, j)
<1>1. IsFiniteSet(Awaits(d)) /\ Cardinality(Awaits(d)) + Guard(d) = 0
  BY DEF CountsDue
<1>2. Cardinality(Awaits(d)) \in Nat
  BY <1>1, FS_CardinalityType
<1>3. Guard(d) \in {0, 1}
  BY DEF Guard
<1>4. Guard(d) = 0 /\ Cardinality(Awaits(d)) = 0
  BY <1>1, <1>2, <1>3
<1>5. Awaits(d) = {}
  BY <1>1, <1>4, FS_EmptySet
<1>. QED
  BY <1>4, <1>5, AwaitsMember

\* A terminal gets its result as a new one or by being evaluated, and keeps it.
LEMMA ResultStep ==
  ASSUME IInv, Next, NEW d \in Terminal
  PROVE  /\ is_result[d] => is_result'[d]
         /\ ~is_result[d] /\ is_result'[d] =>
              \/ New(d)
              \/ Independent(d) /\ \E w \in Worker : Publish(w) /\ wtarget[w] = d
<1>0. is_result \in [Terminal -> BOOLEAN]
  BY DEF IInv, TypeOK, TerminalTypes
<1>1. ASSUME NEW t \in Terminal, New(t)
      PROVE  is_result' = [is_result EXCEPT ![t] = TRUE]
  BY <1>1 DEF New
<1>2. ASSUME NEW w \in Worker, Publish(w)
      PROVE  /\ is_result' = [is_result EXCEPT ![wtarget[w]] = TRUE]
             /\ Independent(wtarget[w])
  BY <1>2 DEF Publish, IInv, ScheduledIndependent, Evaluating
<1>. QED
  BY <1>0, <1>1, <1>2, ResultsKept

\* An entry that is due stays in its list.
LEMMA DueEntryKept ==
  ASSUME IInv, Next, NEW t \in Terminal, NEW j \in 1..Len(dependers[t]), Due(t, j)
  PROVE  dependers'[t][j] = dependers[t][j]
<1>1. ASSUME NEW w \in Worker, RemoveDepender(w), dependers[t][j] = wtarget[w]
      PROVE  FALSE
  <2>1. Independent(wtarget[w]) /\ wtarget[w] \in Terminal
    BY <1>1 DEF RemoveDepender, IInv, ScheduledIndependent, Evaluating, WorkerIndices,
                IndicesOf, Busy
  <2>. QED
    BY <1>1, <2>1, IndependentNotDue DEF IInv, Independent
<1>. QED
  BY <1>1, ListsGrow DEF IInv

\* Every step keeps the entries that are due those of pending expressions.
LEMMA DueEntriesPendingStep ==
  ASSUME IInv, Next, TypeOK'
  PROVE  DueEntriesPending'
<1>. SUFFICES ASSUME NEW t \in Terminal, NEW j \in 1..Len(dependers'[t]), Due(t, j)'
              PROVE  dependers'[t][j] \in Terminal /\ ~is_result'[dependers'[t][j]]
  BY DEF DueEntriesPending
<1>0. Len(dependers[t]) \in Nat /\ Len(dependers'[t]) \in Nat
  BY DEF IInv, TypeOK, TerminalTypes
<1>1. CASE j \in 1..Len(dependers[t])
  <2>. DEFINE d == dependers[t][j]
  <2>1. Due(t, j)
    BY <1>1, DueStep
  <2>2. d \in Terminal /\ ~is_result[d]
    BY <1>1, <2>1 DEF IInv, DueEntriesPending
  <2>3. dependers'[t][j] = d
    BY <1>1, <2>1, DueEntryKept
  <2>4. ~New(d)
    BY <1>1, <2>2 DEF New, IInv, UnbornBlank
  <2>5. ~Independent(d)
    BY <1>1, <2>1, <2>2, IndependentNotDue DEF IInv, Independent
  <2>. QED
    BY <2>2, <2>3, <2>4, <2>5, ResultStep DEF IInv, TypeOK, TerminalTypes
<1>2. CASE j \notin 1..Len(dependers[t])
  <2>1. Link
    BY <1>0, <1>2, ListsGrow DEF IInv
  <2>. DEFINE o == fargs[Len(operands[ftarget]) + 1]
  <2>2. dependers' = [dependers EXCEPT ![o] = Append(dependers[o], ftarget)]
    BY <2>1 DEF Link
  <2>3. t = o
    BY <1>2, <2>2 DEF IInv, TypeOK, TerminalTypes
  <2>4. ftarget \in Terminal /\ ~is_result[ftarget]
    BY <2>1 DEF Link, IInv, FrontShape
  <2>5. dependers'[t] = Append(dependers[t], ftarget)
    BY <2>2, <2>3 DEF IInv, TypeOK, TerminalTypes
  <2>6. dependers[t] \in Seq(Terminal \cup {None})
    BY DEF IInv, TypeOK, TerminalTypes
  <2>7. dependers'[t][j] = ftarget
    BY <1>0, <1>2, <2>5, <2>6
  <2>. QED
    BY <2>1, <2>4, <2>7 DEF Link
<1>. QED
  BY <1>1, <1>2

\* Every step keeps the depender a worker has read the one in the list.
LEMMA DependerReadStep ==
  ASSUME IInv, Next, TypeOK'
  PROVE  DependerRead'
<1>. SUFFICES ASSUME NEW v \in Worker, wpc'[v] = "decrement"
              PROVE  wdepender'[v] = dependers'[wtarget'[v]][windex'[v]]
  BY DEF DependerRead
<1>0. /\ wpc \in [Worker -> WorkerPC] /\ wtarget \in [Worker -> Terminal \cup {None}]
      /\ windex \in [Worker -> Nat] /\ wn \in [Worker -> Nat]
      /\ wdepender \in [Worker -> Terminal \cup {None}]
  BY DEF IInv, TypeOK, WorkerTypes
<1>1. CASE Unmoved(v)
  <2>. DEFINE t == wtarget[v]
  <2>1. /\ wpc[v] = "decrement" /\ wtarget'[v] = t /\ windex'[v] = windex[v]
        /\ wdepender'[v] = wdepender[v]
    BY <1>1 DEF Unmoved, NoTarget
  <2>2. /\ t \in Terminal /\ windex[v] \in 1..Len(dependers[t])
        /\ windex[v] \in windex[v]..wn[v]
    BY <1>0, <2>1 DEF IInv, WorkerIndices, IndicesOf, Busy, Signalling, TypeOK, TerminalTypes
  <2>3. Due(t, windex[v])
    BY <2>1, <2>2 DEF Due, Signals
  <2>. QED
    BY <2>1, <2>2, <2>3, DueEntryKept DEF IInv, DependerRead
<1>2. CASE ReadDepender(v)
  BY <1>0, <1>2 DEF ReadDepender, terminalVars
<1>3. ASSUME Spawn(v) \/ SpuriousWake(v) \/ Lost(v) \/ Work(v), ~ReadDepender(v) PROVE FALSE
  <2>1. ASSUME Push(v) PROVE FALSE
    <3>. DEFINE wp == [wpc EXCEPT ![v] = IF windex[v] < wn[v] THEN "read" ELSE "clean"]
    <3>1. Signal(wp) /\ wp \in [Worker -> WorkerPC]
      BY <1>0, <2>1 DEF Push, PushIndependent, WorkerPC
    <3>2. wpc'[v] = wp[v] \/ wpc'[v] = "woken"
      BY <1>0, <3>1, SignalMoves
    <3>. QED
      BY <1>0, <3>2
  <2>2. CASE Spawn(v) \/ SpuriousWake(v) \/ Lost(v) \/ Take(v) \/ Woken(v) \/ Evaluate(v)
    BY <1>0, <2>2 DEF Spawn, SpuriousWake, Lost, Take, Woken, Pop, Evaluate
  <2>3. CASE RemoveDepender(v) \/ Receive(v) \/ Publish(v) \/ DiscardUnref(v)
    BY <1>0, <2>3 DEF RemoveDepender, Receive, Publish, DiscardUnref, NextDepender
  <2>4. CASE Decrement(v) \/ Clean(v) \/ Uncount(v)
    BY <1>0, <2>4 DEF Decrement, NextDepender, Clean, Uncount
  <2>. QED
    BY <1>3, <2>1, <2>2, <2>3, <2>4 DEF Work
<1>. QED
  BY <1>1, <1>2, <1>3, FrontMovesNoWorker, WorkerMovesNoOther DEF Next, IInv

-----------------------------------------------------------------------------
(* The count of what is due *)

\* Without a new entry and without a decrease what a terminal awaits stays.
LEMMA AwaitsKept ==
  ASSUME IInv, Next, TypeOK', ~Link, \A w \in Worker : ~Decrement(w), NEW d \in Terminal
  PROVE  Awaits(d)' = Awaits(d)
<1>1. ASSUME NEW t \in Terminal
      PROVE  /\ Len(dependers'[t]) = Len(dependers[t])
             /\ \A j \in 1..Len(dependers[t]) :
                  (dependers'[t][j] = d /\ Due(t, j)') <=> (dependers[t][j] = d /\ Due(t, j))
  <2>1. Len(dependers'[t]) = Len(dependers[t])
    BY ListsGrow DEF IInv
  <2>2. ASSUME NEW j \in 1..Len(dependers[t])
        PROVE  (dependers'[t][j] = d /\ Due(t, j)') <=> (dependers[t][j] = d /\ Due(t, j))
    <3>1. Due(t, j)' <=> Due(t, j)
      BY DueStep
    <3>2. Due(t, j) => dependers'[t][j] = dependers[t][j]
      BY DueEntryKept
    <3>. QED
      BY <3>1, <3>2
  <2>. QED
    BY <2>1, <2>2
<1>2. Awaits(d)' = {e \in Entries' : dependers'[e[1]][e[2]] = d /\ Due(e[1], e[2])'}
  BY DEF Awaits, Due
<1>3. Awaits(d) = {e \in Entries : dependers[e[1]][e[2]] = d /\ Due(e[1], e[2])}
  BY DEF Awaits, Due
<1>4. Entries' = Entries
  BY <1>1 DEF Entries
<1>5. ASSUME NEW e \in Entries
      PROVE  (dependers'[e[1]][e[2]] = d /\ Due(e[1], e[2])')
               <=> (dependers[e[1]][e[2]] = d /\ Due(e[1], e[2]))
  <2>1. PICK t \in Terminal : e \in {t} \X (1..Len(dependers[t]))
    BY DEF Entries
  <2>2. e[1] = t /\ e[2] \in 1..Len(dependers[t])
    BY <2>1
  <2>. QED
    BY <1>1, <2>2
<1>. QED
  BY <1>2, <1>3, <1>4, <1>5

\* A decrease takes one entry away from what the depender awaits.
LEMMA AwaitsAfterDecrement ==
  ASSUME IInv, Next, TypeOK', NEW w \in Worker, Decrement(w), NEW d \in Terminal
  PROVE  /\ wtarget[w] \in Terminal /\ <<wtarget[w], windex[w]>> \in Awaits(wdepender[w])
         /\ Awaits(d)' = Awaits(d) \ {<<wtarget[w], windex[w]>>}
<1>. DEFINE s == wtarget[w]
            i == windex[w]
<1>0. /\ wpc[w] = "decrement" /\ dependers' = dependers
  BY DEF Decrement
<1>1. s \in Terminal /\ i \in 1..Len(dependers[s]) /\ i \in i..wn[w]
  BY <1>0 DEF IInv, WorkerIndices, IndicesOf, Busy, Signalling, TypeOK, TerminalTypes,
              WorkerTypes
<1>2. dependers[s][i] = wdepender[w] /\ Due(s, i)
  BY <1>0, <1>1 DEF IInv, DependerRead, Due, Signals
<1>3. <<s, i>> \in Awaits(wdepender[w])
  BY <1>1, <1>2, AwaitsMember
<1>4. ASSUME NEW t \in Terminal, NEW j \in 1..Len(dependers[t])
      PROVE  Due(t, j)' <=> Due(t, j) /\ <<t, j>> # <<s, i>>
  <2>1. \A v \in Worker : Decrement(v) => v = w
    BY DecrementExcludes DEF IInv
  <2>. QED
    BY <2>1, DueStep
<1>5. Awaits(d)' = {e \in Entries : dependers[e[1]][e[2]] = d /\ Due(e[1], e[2])'}
  BY <1>0 DEF Awaits, Due, Entries
<1>6. Awaits(d) = {e \in Entries : dependers[e[1]][e[2]] = d /\ Due(e[1], e[2])}
  BY DEF Awaits, Due
<1>7. ASSUME NEW e \in Entries
      PROVE  Due(e[1], e[2])' <=> Due(e[1], e[2]) /\ e # <<s, i>>
  <2>1. PICK t \in Terminal : e \in {t} \X (1..Len(dependers[t]))
    BY DEF Entries
  <2>2. e[1] = t /\ e[2] \in 1..Len(dependers[t]) /\ e = <<e[1], e[2]>>
    BY <2>1
  <2>. QED
    BY <1>4, <2>2
<1>. QED
  BY <1>1, <1>3, <1>5, <1>6, <1>7

\* A new entry is awaited if its list belongs to a pending terminal.
LEMMA AwaitsAfterLink ==
  ASSUME IInv, Next, TypeOK', Link, NEW d \in Terminal,
         NEW o, o = fargs[Len(operands[ftarget]) + 1],
         NEW n, n = Len(dependers[o]) + 1
  PROVE  /\ o \in Terminal /\ <<o, n>> \notin Awaits(d)
         /\ d = ftarget /\ ~is_result[o] => Awaits(d)' = Awaits(d) \cup {<<o, n>>}
         /\ ~(d = ftarget /\ ~is_result[o]) => Awaits(d)' = Awaits(d)
<1>1. ftarget \in Terminal
  BY DEF Link, IInv, FrontShape
<1>2. Len(operands[ftarget]) \in Nat /\ fargs \in Seq(Terminal)
  BY <1>1 DEF IInv, TypeOK, TerminalTypes, FrontTypes
<1>3. o \in Terminal
  BY <1>2 DEF Link
<1>4. dependers' = [dependers EXCEPT ![o] = Append(dependers[o], ftarget)]
  BY DEF Link
<1>5. dependers[o] \in Seq(Terminal \cup {None}) /\ Len(dependers[o]) \in Nat
  <2>1. dependers \in [Terminal -> Seq(Terminal \cup {None})]
    BY DEF IInv, TypeOK, TerminalTypes
  <2>. QED
    BY <1>3, <2>1
<1>6. dependers'[o] = Append(dependers[o], ftarget)
  BY <1>3, <1>4 DEF IInv, TypeOK, TerminalTypes
<1>7. /\ Len(dependers'[o]) = n /\ dependers'[o][n] = ftarget
      /\ \A j \in 1..Len(dependers[o]) : dependers'[o][j] = dependers[o][j]
  BY <1>1, <1>5, <1>6
<1>8. \A t \in Terminal : t # o => dependers'[t] = dependers[t]
  BY <1>4 DEF IInv, TypeOK, TerminalTypes
<1>9. is_result' = is_result /\ UNCHANGED <<wpc, wtarget, windex, wn>>
  BY DEF Link, workerVars
<1>10. ASSUME NEW t, NEW j
       PROVE  Due(t, j)' <=> Due(t, j)
  BY <1>9 DEF Due, Signals
<1>11. Due(o, n) <=> ~is_result[o]
  <2>1. ASSUME NEW w \in Worker, wtarget[w] = o PROVE ~Signals(w, n)
    <3>1. CASE Signalling(w)
      <4>1. wn[w] <= Len(dependers[o]) /\ wn[w] \in Nat /\ windex[w] \in Nat
        BY <2>1, <3>1 DEF IInv, WorkerIndices, IndicesOf, TypeOK, WorkerTypes
      <4>. QED
        BY <1>5, <4>1 DEF Signals
    <3>2. CASE ~Signalling(w)
      BY <3>2 DEF Signalling, Signals
    <3>. QED
      BY <3>1, <3>2
  <2>. QED
    BY <2>1 DEF Due
<1>12. <<o, n>> \notin Awaits(d)
  BY <1>5, AwaitsMember
<1>13. Entries' = Entries \cup {<<o, n>>}
  <2>1. Entries' = UNION {{t} \X (1..Len(dependers'[t])) : t \in Terminal}
    BY DEF Entries
  <2>2. ASSUME NEW t \in Terminal, t # o
        PROVE  {t} \X (1..Len(dependers'[t])) = {t} \X (1..Len(dependers[t]))
    BY <1>8, <2>2
  <2>3. {o} \X (1..Len(dependers'[o])) = ({o} \X (1..Len(dependers[o]))) \cup {<<o, n>>}
    <3>1. 1..n = (1..Len(dependers[o])) \cup {n}
      BY <1>5
    <3>. QED
      BY <1>7, <3>1
  <2>. QED
    BY <1>3, <2>1, <2>2, <2>3 DEF Entries
<1>14. Awaits(d)' = {e \in Entries' : dependers'[e[1]][e[2]] = d /\ Due(e[1], e[2])'}
  BY DEF Awaits, Due
<1>15. Awaits(d) = {e \in Entries : dependers[e[1]][e[2]] = d /\ Due(e[1], e[2])}
  BY DEF Awaits, Due
<1>16. ASSUME NEW e \in Entries
       PROVE  (dependers'[e[1]][e[2]] = d /\ Due(e[1], e[2])')
                <=> (dependers[e[1]][e[2]] = d /\ Due(e[1], e[2]))
  <2>1. PICK t \in Terminal : e \in {t} \X (1..Len(dependers[t]))
    BY DEF Entries
  <2>2. e[1] = t /\ e[2] \in 1..Len(dependers[t])
    BY <2>1
  <2>3. dependers'[t][e[2]] = dependers[t][e[2]]
    BY <1>7, <1>8, <2>2
  <2>. QED
    BY <1>10, <2>2, <2>3
<1>17. Due(o, n)' <=> ~is_result[o]
  BY <1>10, <1>11
<1>18. (dependers'[o][n] = d /\ Due(o, n)') <=> (d = ftarget /\ ~is_result[o])
  BY <1>7, <1>17
<1>19. <<o, n>>[1] = o /\ <<o, n>>[2] = n
  OBVIOUS
<1>20. CASE d = ftarget /\ ~is_result[o]
  <2>1. Awaits(d)' = Awaits(d) \cup {<<o, n>>}
    BY <1>13, <1>14, <1>15, <1>16, <1>18, <1>19, <1>20
  <2>. QED
    BY <1>3, <1>12, <1>20, <2>1
<1>21. CASE ~(d = ftarget /\ ~is_result[o])
  <2>1. Awaits(d)' = Awaits(d)
    BY <1>13, <1>14, <1>15, <1>16, <1>18, <1>19, <1>21
  <2>. QED
    BY <1>3, <1>12, <1>21, <2>1
<1>. QED
  BY <1>20, <1>21

\* What exists keeps existing, even as freed memory; only New and CountPass create.
LEMMA LifeStep ==
  ASSUME IInv, Next, NEW t \in Terminal
  PROVE  /\ life[t] # "unborn" => life'[t] # "unborn"
         /\ life[t] = "unborn" /\ life'[t] # "unborn" => New(t) \/ (CountPass /\ t = ftarget)
<1>0. life \in [Terminal -> {"unborn", "live", "freed"}]
  BY DEF IInv, TypeOK, TerminalTypes
<1>. DEFINE Goal == /\ life[t] # "unborn" => life'[t] # "unborn"
                    /\ life[t] = "unborn" /\ life'[t] # "unborn" =>
                         New(t) \/ (CountPass /\ t = ftarget)
<1>1. ASSUME NEW u, Unref(u), u \in Terminal => life[u] # "unborn" PROVE Goal
  BY <1>0, <1>1 DEF Unref
<1>2. ASSUME life' = life PROVE Goal
  BY <1>2
<1>3. ASSUME NEW u \in Terminal, New(u) PROVE Goal
  BY <1>0, <1>3 DEF New
<1>4. CASE CountPass
  BY <1>0, <1>4 DEF CountPass
<1>5. ASSUME NEW u \in Terminal, FrontUnref(u) \/ FrontDiscard(u) PROVE Goal
  <2>1. held[u] > 0
    BY <1>5 DEF FrontUnref, FrontDiscard
  <2>2. life[u] # "unborn"
    BY <2>1 DEF IInv, FrontShape
  <2>3. Unref(u) \/ life' = life
    BY <1>5 DEF FrontUnref, FrontDiscard
  <2>. QED
    BY <1>1, <1>2, <2>2, <2>3
<1>6. ASSUME NEW w \in Worker, DiscardUnref(w) PROVE Goal
  <2>1. is_result[wtarget[w]] /\ Unref(wtarget[w])
    BY <1>6 DEF DiscardUnref, IInv, TargetsApart, Busy, Evaluating
  <2>2. wtarget[w] \in Terminal => life[wtarget[w]] # "unborn"
    BY <2>1 DEF IInv, UnbornBlank
  <2>. QED
    BY <1>1, <2>1, <2>2
<1>7. ASSUME NEW w \in Worker, Clean(w) PROVE Goal
  <2>. DEFINE s == wtarget[w]
              o == operands[s][windex[w]]
  <2>1. Unref(o)
    BY <1>7 DEF Clean
  <2>2. s \in Terminal /\ windex[w] \in 1..Len(operands[s])
    BY <1>7 DEF Clean, IInv, WorkerIndices, IndicesOf, Busy
  <2>3. o \in Terminal => life[o] # "unborn"
    BY <2>2 DEF IInv, UnbornBlank
  <2>. QED
    BY <1>1, <2>1, <2>3
<1>8. ASSUME NEW u \in Terminal, Ref(u) \/ \E os \in OperandSeq : Bake(u, os)
      PROVE  life' = life
  BY <1>8 DEF Ref, Bake, terminalVars
<1>9. ASSUME \/ Start \/ CountBlock \/ SpuriousUnblock \/ Link \/ FrontDecrement
             \/ FrontPush \/ Destroy \/ Join \/ Finished
      PROVE  life' = life
  BY <1>9 DEF Start, CountBlock, SpuriousUnblock, Link, FrontDecrement, FrontPush, Destroy,
              Join, Finished, vars, terminalVars
<1>10. ASSUME NEW w \in Worker,
              Spawn(w) \/ SpuriousWake(w) \/ Lost(w) \/ Take(w) \/ Woken(w) \/ Evaluate(w)
                \/ RemoveDepender(w) \/ Receive(w) \/ Publish(w) \/ ReadDepender(w)
                \/ Decrement(w) \/ Push(w) \/ Uncount(w)
       PROVE  life' = life
  BY <1>10 DEF Spawn, SpuriousWake, Lost, Take, Woken, Evaluate, RemoveDepender, Receive,
               Publish, ReadDepender, Decrement, Push, Uncount, terminalVars
<1>. QED
  BY <1>2, <1>3, <1>4, <1>5, <1>6, <1>7, <1>8, <1>9, <1>10
  DEF Next, FrontBake, FrontIdle, Work

\* Only four actions touch a dc or the guard of the expression under construction.
LEMMA CountsKept ==
  ASSUME Next, ~CountPass, ~Link, ~FrontDecrement, \A w \in Worker : ~Decrement(w),
         NEW d
  PROVE  dc' = dc /\ Guard(d)' = Guard(d)
<1>1. ASSUME UNCHANGED <<fpc, ftarget>> \/ (fpc # "link" /\ fpc' # "link")
      PROVE  Guard(d)' = Guard(d)
  BY <1>1 DEF Guard
<1>2. ASSUME NEW u \in Terminal,
             New(u) \/ Ref(u) \/ FrontUnref(u) \/ FrontDiscard(u)
               \/ \E os \in OperandSeq : Bake(u, os)
      PROVE  dc' = dc /\ Guard(d)' = Guard(d)
  <2>1. dc' = dc /\ (UNCHANGED <<fpc, ftarget>> \/ (fpc # "link" /\ fpc' # "link"))
    BY <1>2 DEF New, Ref, FrontUnref, FrontDiscard, Bake, terminalVars
  <2>. QED
    BY <1>1, <2>1
<1>3. ASSUME \/ Start \/ CountBlock \/ SpuriousUnblock \/ FrontPush \/ Destroy \/ Join
             \/ Finished
      PROVE  dc' = dc /\ Guard(d)' = Guard(d)
  <2>1. dc' = dc /\ (UNCHANGED <<fpc, ftarget>> \/ (fpc # "link" /\ fpc' # "link"))
    BY <1>3 DEF Start, CountBlock, SpuriousUnblock, FrontPush, Destroy, Join, Finished, vars,
                terminalVars, frontVars
  <2>. QED
    BY <1>1, <2>1
<1>4. ASSUME NEW w \in Worker,
             Spawn(w) \/ SpuriousWake(w) \/ Lost(w) \/ Take(w) \/ Woken(w) \/ Evaluate(w)
               \/ RemoveDepender(w) \/ Receive(w) \/ Publish(w) \/ DiscardUnref(w)
               \/ ReadDepender(w) \/ Push(w) \/ Clean(w) \/ Uncount(w)
      PROVE  dc' = dc /\ Guard(d)' = Guard(d)
  <2>1. dc' = dc /\ (UNCHANGED <<fpc, ftarget>> \/ (fpc # "link" /\ fpc' # "link"))
    BY <1>4 DEF Spawn, SpuriousWake, Lost, Take, Woken, Evaluate, RemoveDepender, Receive,
                Publish, DiscardUnref, ReadDepender, Push, Clean, Uncount, terminalVars,
                frontVars
  <2>. QED
    BY <1>1, <2>1
<1>. QED
  BY <1>2, <1>3, <1>4 DEF Next, FrontBake, FrontIdle, Work

\* Every step keeps dc the number of the entries that are due, plus the guard.
LEMMA CountsDueStep ==
  ASSUME IInv, Next, TypeOK'
  PROVE  CountsDue'
<1>. SUFFICES ASSUME NEW d \in Terminal, ~is_result'[d]
              PROVE  /\ IsFiniteSet(Awaits(d)')
                     /\ dc'[d] = Cardinality(Awaits(d)') + Guard(d)'
  BY DEF CountsDue
<1>1. ~is_result[d]
  BY ResultStep
<1>2. IsFiniteSet(Awaits(d)) /\ dc[d] = Cardinality(Awaits(d)) + Guard(d)
  BY <1>1 DEF IInv, CountsDue
<1>3. Cardinality(Awaits(d)) \in Nat
  BY <1>2, FS_CardinalityType
<1>4. Guard(d) \in {0, 1} /\ dc \in [Terminal -> Int]
  BY DEF Guard, IInv, TypeOK, TerminalTypes
<1>5. CASE CountPass
  <2>1. ~Link /\ \A w \in Worker : ~Decrement(w)
    BY <1>5 DEF CountPass, Link, Decrement, frontVars
  <2>2. Awaits(d)' = Awaits(d)
    BY <2>1, AwaitsKept
  <2>3. /\ fpc = "count" /\ fpc' = "link" /\ ftarget' = ftarget
        /\ dc' = [dc EXCEPT ![ftarget] = 1]
    BY <1>5 DEF CountPass
  <2>4. CASE d = ftarget
    <3>1. life[d] = "unborn"
      BY <2>3, <2>4 DEF IInv, FrontShape
    <3>2. Awaits(d) = {}
      BY <3>1 DEF IInv, UnbornBlank, Awaits, Entries
    <3>3. Cardinality(Awaits(d)) = 0
      BY <3>2, FS_EmptySet
    <3>4. dc'[d] = 1 /\ Guard(d)' = 1
      BY <1>4, <2>3, <2>4 DEF Guard
    <3>. QED
      BY <1>2, <2>2, <3>3, <3>4
  <2>5. CASE d # ftarget
    <3>1. dc'[d] = dc[d] /\ Guard(d)' = 0 /\ Guard(d) = 0
      BY <1>4, <2>3, <2>5 DEF Guard
    <3>. QED
      BY <1>2, <2>2, <3>1
  <2>. QED
    BY <2>4, <2>5
<1>6. CASE FrontDecrement
  <2>1. ~Link /\ \A w \in Worker : ~Decrement(w)
    BY <1>6 DEF FrontDecrement, Link, Decrement, frontVars
  <2>2. Awaits(d)' = Awaits(d)
    BY <2>1, AwaitsKept
  <2>3. /\ fpc = "link" /\ fpc' # "link" /\ ftarget' = ftarget
        /\ dc' = [dc EXCEPT ![ftarget] = dc[ftarget] - 1]
    BY <1>6 DEF FrontDecrement
  <2>4. dc'[d] = dc[d] - Guard(d) /\ Guard(d)' = 0
    <3>1. dc'[d] = IF d = ftarget THEN dc[d] - 1 ELSE dc[d]
      BY <1>4, <2>3
    <3>2. Guard(d) = (IF d = ftarget THEN 1 ELSE 0) /\ Guard(d)' = 0
      BY <2>3 DEF Guard
    <3>. QED
      BY <1>4, <3>1, <3>2
  <2>. QED
    BY <1>2, <1>3, <1>4, <2>2, <2>4
<1>7. CASE Link
  <2>. DEFINE o == fargs[Len(operands[ftarget]) + 1]
              n == Len(dependers[o]) + 1
  <2>1. /\ dc' = IF is_result[o] THEN dc ELSE [dc EXCEPT ![ftarget] = dc[ftarget] + 1]
        /\ UNCHANGED <<fpc, ftarget>>
    BY <1>7 DEF Link, frontVars
  <2>2. Guard(d)' = Guard(d)
    BY <2>1 DEF Guard
  <2>3. /\ <<o, n>> \notin Awaits(d)
        /\ d = ftarget /\ ~is_result[o] => Awaits(d)' = Awaits(d) \cup {<<o, n>>}
        /\ ~(d = ftarget /\ ~is_result[o]) => Awaits(d)' = Awaits(d)
    BY <1>7, AwaitsAfterLink
  <2>4. CASE d = ftarget /\ ~is_result[o]
    <3>1. dc'[d] = dc[d] + 1
      BY <1>4, <2>1, <2>4
    <3>2. IsFiniteSet(Awaits(d)') /\ Cardinality(Awaits(d)') = Cardinality(Awaits(d)) + 1
      BY <1>2, <2>3, <2>4, FS_AddElement
    <3>. QED
      BY <1>2, <1>3, <1>4, <2>2, <3>1, <3>2
  <2>5. CASE ~(d = ftarget /\ ~is_result[o])
    <3>1. dc'[d] = dc[d]
      BY <1>4, <2>1, <2>5
    <3>. QED
      BY <1>2, <2>2, <2>3, <2>5, <3>1
  <2>. QED
    BY <2>4, <2>5
<1>8. ASSUME NEW w \in Worker, Decrement(w)
      PROVE  /\ IsFiniteSet(Awaits(d)')
             /\ dc'[d] = Cardinality(Awaits(d)') + Guard(d)'
  <2>. DEFINE p == wdepender[w]
              e == <<wtarget[w], windex[w]>>
  <2>1. e \in Awaits(p) /\ Awaits(d)' = Awaits(d) \ {e}
    BY <1>8, AwaitsAfterDecrement
  <2>2. dc' = [dc EXCEPT ![p] = dc[p] - 1] /\ UNCHANGED <<fpc, ftarget>>
    BY <1>8 DEF Decrement, frontVars
  <2>3. Guard(d)' = Guard(d)
    BY <2>2 DEF Guard
  <2>4. CASE d = p
    <3>1. dc'[d] = dc[d] - 1
      BY <1>4, <2>2, <2>4
    <3>2. IsFiniteSet(Awaits(d)') /\ Cardinality(Awaits(d)') = Cardinality(Awaits(d)) - 1
      <4>1. e \in Awaits(d) /\ IsFiniteSet(Awaits(d))
        BY <1>2, <2>1, <2>4
      <4>2. /\ IsFiniteSet(Awaits(d) \ {e})
            /\ Cardinality(Awaits(d) \ {e}) = Cardinality(Awaits(d)) - 1
        BY <4>1, FS_RemoveElement
      <4>. QED
        BY <2>1, <4>2
    <3>. QED
      BY <1>2, <1>3, <1>4, <2>3, <3>1, <3>2
  <2>5. CASE d # p
    <3>1. dc'[d] = dc[d]
      BY <1>4, <2>2, <2>5
    <3>2. e \notin Awaits(d)
      BY <2>1, <2>5, AwaitsMember
    <3>3. Awaits(d)' = Awaits(d)
      BY <2>1, <3>2
    <3>. QED
      BY <1>2, <2>3, <3>1, <3>3
  <2>. QED
    BY <2>4, <2>5
<1>9. CASE ~CountPass /\ ~Link /\ ~FrontDecrement /\ \A w \in Worker : ~Decrement(w)
  <2>1. dc' = dc /\ Guard(d)' = Guard(d) /\ Awaits(d)' = Awaits(d)
    BY <1>9, CountsKept, AwaitsKept
  <2>. QED
    BY <1>2, <2>1
<1>. QED
  BY <1>5, <1>6, <1>7, <1>8, <1>9

-----------------------------------------------------------------------------
(* Operands, the frontend and what does not exist yet *)

\* An operand is there already, or Link appends it to the expression being built, and
\* that expression to the list of the operand.
LEMMA NewOperand ==
  ASSUME IInv, Next, NEW d \in Terminal, NEW k \in 1..Len(operands'[d]),
         k \notin 1..Len(operands[d])
  PROVE  /\ Link /\ d = ftarget
         /\ operands'[d][k] \in Terminal /\ life[operands'[d][k]] # "unborn"
         /\ \E j \in 1..Len(dependers'[operands'[d][k]]) :
              dependers'[operands'[d][k]][j] = d
<1>0. /\ operands \in [Terminal -> Seq(Terminal)]
      /\ dependers \in [Terminal -> Seq(Terminal \cup {None})]
      /\ fargs \in Seq(Terminal)
  BY DEF IInv, TypeOK, TerminalTypes, FrontTypes
<1>1. operands' # operands
  OBVIOUS
<1>2. Link
  <2>1. ASSUME NEW u \in Terminal,
               New(u) \/ Ref(u) \/ FrontUnref(u) \/ FrontDiscard(u)
                 \/ \E os \in OperandSeq : Bake(u, os)
        PROVE  FALSE
    BY <1>1, <2>1 DEF New, Ref, FrontUnref, FrontDiscard, Bake, terminalVars
  <2>2. ASSUME \/ Start \/ CountBlock \/ SpuriousUnblock \/ CountPass \/ FrontDecrement
               \/ FrontPush \/ Destroy \/ Join \/ Finished
        PROVE  FALSE
    BY <1>1, <2>2 DEF Start, CountBlock, SpuriousUnblock, CountPass, FrontDecrement, FrontPush,
                Destroy, Join, Finished, vars, terminalVars
  <2>3. ASSUME NEW w \in Worker,
               Spawn(w) \/ SpuriousWake(w) \/ Lost(w) \/ Take(w) \/ Woken(w) \/ Evaluate(w)
                 \/ RemoveDepender(w) \/ Receive(w) \/ Publish(w) \/ DiscardUnref(w)
                 \/ ReadDepender(w) \/ Decrement(w) \/ Push(w) \/ Clean(w) \/ Uncount(w)
        PROVE  FALSE
    BY <1>1, <2>3 DEF Spawn, SpuriousWake, Lost, Take, Woken, Evaluate, RemoveDepender, Receive,
                Publish, DiscardUnref, ReadDepender, Decrement, Push, Clean, Uncount,
                terminalVars
  <2>. QED
    BY <2>1, <2>2, <2>3 DEF Next, FrontBake, FrontIdle, Work
<1>. DEFINE o == fargs[Len(operands[ftarget]) + 1]
<1>3. /\ operands' = [operands EXCEPT ![ftarget] = Append(operands[ftarget], o)]
      /\ dependers' = [dependers EXCEPT ![o] = Append(dependers[o], ftarget)]
      /\ fpc = "link" /\ Len(operands[ftarget]) < Len(fargs)
  BY <1>2 DEF Link
<1>4. d = ftarget
  BY <1>0, <1>3
<1>5. Len(operands[d]) + 1 \in 1..Len(fargs)
  BY <1>0, <1>3, <1>4
<1>6. o \in Terminal /\ life[o] # "unborn"
  BY <1>0, <1>3, <1>4, <1>5 DEF IInv, FrontShape
<1>7. operands'[d] = Append(operands[d], o) /\ dependers'[o] = Append(dependers[o], d)
  BY <1>0, <1>3, <1>4, <1>6
<1>8. operands[d] \in Seq(Terminal)
  BY <1>0
<1>9. operands'[d][k] = o
  BY <1>7, <1>8
<1>10. dependers[o] \in Seq(Terminal \cup {None})
  BY <1>0, <1>6
<1>11. /\ Len(dependers[o]) + 1 \in 1..Len(dependers'[o])
       /\ dependers'[o][Len(dependers[o]) + 1] = d
  BY <1>7, <1>10
<1>. QED
  BY <1>2, <1>4, <1>6, <1>9, <1>11

\* Every step keeps a pending expression entered with each operand that is none.
LEMMA OperandsEnteredStep ==
  ASSUME IInv, Next, TypeOK'
  PROVE  OperandsEntered'
<1>. SUFFICES ASSUME NEW d \in Terminal, ~is_result'[d], NEW k \in 1..Len(operands'[d]),
                     NEW o, o = operands'[d][k], ~is_result'[o]
              PROVE  \E j \in 1..Len(dependers'[o]) : dependers'[o][j] = d
  BY DEF OperandsEntered
<1>1. CASE k \notin 1..Len(operands[d])
  BY <1>1, NewOperand
<1>2. CASE k \in 1..Len(operands[d])
  <2>0. /\ operands \in [Terminal -> Seq(Terminal)]
        /\ dependers \in [Terminal -> Seq(Terminal \cup {None})]
        /\ dependers' \in [Terminal -> Seq(Terminal \cup {None})]
    BY DEF IInv, TypeOK, TerminalTypes
  <2>1. o = operands[d][k] /\ o \in Terminal
    <3>1. operands'[d][k] = operands[d][k]
      BY <1>2, OperandsGrow DEF IInv
    <3>. QED
      BY <1>2, <2>0, <3>1
  <2>2. ~is_result[d] /\ ~is_result[o]
    BY <2>1, ResultStep
  <2>3. PICK j \in 1..Len(dependers[o]) : dependers[o][j] = d
    <3>1. OperandsEntered
      BY DEF IInv
    <3>2. \/ is_result[operands[d][k]]
          \/ \E j \in 1..Len(dependers[operands[d][k]]) : dependers[operands[d][k]][j] = d
      BY <1>2, <2>2, <3>1 DEF OperandsEntered
    <3>. QED
      BY <2>1, <2>2, <3>2
  <2>4. Due(o, j)
    BY <2>2 DEF Due
  <2>5. dependers'[o][j] = d
    BY <2>1, <2>3, <2>4, DueEntryKept
  <2>6. Len(dependers'[o]) >= Len(dependers[o])
    BY <2>1, ListsGrow DEF IInv
  <2>7. Len(dependers[o]) \in Nat /\ Len(dependers'[o]) \in Nat
    BY <2>0, <2>1
  <2>. QED
    BY <2>5, <2>6, <2>7
<1>. QED
  BY <1>1, <1>2

\* A decrease concerns an expression that is there and is not independent yet.
LEMMA DecreasedDepender ==
  ASSUME IInv, Next, TypeOK', NEW w \in Worker, Decrement(w)
  PROVE  /\ wdepender[w] \in Terminal /\ life[wdepender[w]] # "unborn"
         /\ ~is_result[wdepender[w]] /\ dc[wdepender[w]] # 0
<1>. DEFINE s == wtarget[w]
            i == windex[w]
            d == wdepender[w]
<1>1. s \in Terminal /\ i \in 1..Len(dependers[s]) /\ dependers[s][i] = d /\ Due(s, i)
  <2>1. d \in Terminal \cup {None}
    BY DEF IInv, TypeOK, WorkerTypes
  <2>2. s \in Terminal /\ i \in 1..Len(dependers[s]) /\ i \in i..wn[w] /\ wpc[w] = "decrement"
    BY DEF Decrement, IInv, WorkerIndices, IndicesOf, Busy, Signalling, TypeOK, TerminalTypes,
           WorkerTypes
  <2>3. dependers[s][i] = d
    BY <2>2 DEF IInv, DependerRead
  <2>4. Due(s, i)
    BY <2>2 DEF Due, Signals
  <2>. QED
    BY <2>2, <2>3, <2>4
<1>2. d \in Terminal /\ ~is_result[d]
  BY <1>1 DEF IInv, DueEntriesPending
<1>3. life[d] # "unborn"
  BY <1>1, <1>2 DEF IInv, UnbornBlank
<1>4. dc[d] # 0
  BY <1>1, <1>2, IndependentNotDue DEF IInv
<1>. QED
  BY <1>2, <1>3, <1>4

\* An independent expression stays one until it is published.
LEMMA IndependentKept ==
  ASSUME IInv, Next, TypeOK', NEW d \in Terminal, Independent(d),
         \A w \in Worker : Publish(w) => wtarget[w] # d
  PROVE  Independent(d)'
<1>0. life[d] # "unborn" /\ ~is_result[d] /\ dc[d] = 0 /\ dc \in [Terminal -> Int]
  BY DEF Independent, IInv, TypeOK, TerminalTypes
<1>1. life'[d] # "unborn"
  BY <1>0, LifeStep
<1>2. ~is_result'[d]
  BY <1>0, ResultStep DEF New
<1>3. Guard(d) = 0
  BY <1>0, IndependentNotDue DEF IInv
<1>4. dc'[d] = 0
  <2>1. CASE CountPass
    <3>1. ftarget # d /\ dc' = [dc EXCEPT ![ftarget] = 1]
      BY <1>0, <2>1 DEF CountPass, IInv, FrontShape
    <3>. QED
      BY <1>0, <3>1
  <2>2. CASE Link \/ FrontDecrement
    <3>1. fpc = "link"
      BY <2>2 DEF Link, FrontDecrement
    <3>2. ftarget # d
      BY <1>3, <3>1 DEF Guard
    <3>3. \/ dc' = dc
          \/ dc' = [dc EXCEPT ![ftarget] = dc[ftarget] + 1]
          \/ dc' = [dc EXCEPT ![ftarget] = dc[ftarget] - 1]
      BY <2>2 DEF Link, FrontDecrement
    <3>. QED
      BY <1>0, <3>2, <3>3
  <2>3. ASSUME NEW w \in Worker, Decrement(w) PROVE dc'[d] = 0
    <3>1. wdepender[w] # d
      BY <1>0, <2>3, DecreasedDepender
    <3>2. dc' = [dc EXCEPT ![wdepender[w]] = dc[wdepender[w]] - 1]
      BY <2>3 DEF Decrement
    <3>. QED
      BY <1>0, <3>1, <3>2
  <2>4. CASE ~CountPass /\ ~Link /\ ~FrontDecrement /\ \A w \in Worker : ~Decrement(w)
    BY <1>0, <2>4, CountsKept
  <2>. QED
    BY <2>1, <2>2, <2>3, <2>4
<1>. QED
  BY <1>1, <1>2, <1>4 DEF Independent

\* Every step keeps terminals that do not exist out of all lists.
LEMMA UnbornBlankStep ==
  ASSUME IInv, Next, TypeOK'
  PROVE  UnbornBlank'
<1>. SUFFICES ASSUME NEW t \in Terminal, life'[t] = "unborn"
              PROVE  /\ ~is_result'[t] /\ dc'[t] = 0
                     /\ operands'[t] = <<>> /\ dependers'[t] = <<>>
                     /\ \A o \in Terminal :
                          /\ \A j \in 1..Len(dependers'[o]) : dependers'[o][j] # t
                          /\ \A k \in 1..Len(operands'[o]) : operands'[o][k] # t
  BY DEF UnbornBlank
<1>0. life[t] = "unborn"
  BY LifeStep
<1>1. /\ ~is_result[t] /\ dc[t] = 0 /\ operands[t] = <<>> /\ dependers[t] = <<>>
      /\ \A o \in Terminal : /\ \A j \in 1..Len(dependers[o]) : dependers[o][j] # t
                           /\ \A k \in 1..Len(operands[o]) : operands[o][k] # t
  BY <1>0 DEF IInv, UnbornBlank
<1>2. ~New(t)
  BY DEF New, IInv, TypeOK, TerminalTypes
<1>3. ~is_result'[t]
  BY <1>0, <1>1, <1>2, ResultStep DEF Independent
<1>4. CountPass => ftarget # t
  BY DEF CountPass, IInv, TypeOK, TerminalTypes
<1>5. Link => ftarget # t
  BY <1>0 DEF Link, IInv, FrontShape
<1>6. dc'[t] = 0
  <2>0. dc \in [Terminal -> Int]
    BY DEF IInv, TypeOK, TerminalTypes
  <2>1. CASE CountPass
    BY <1>1, <1>4, <2>0, <2>1 DEF CountPass
  <2>2. CASE Link
    BY <1>1, <1>5, <2>0, <2>2 DEF Link
  <2>3. CASE FrontDecrement
    <3>1. ftarget # t
      BY <1>0, <2>3 DEF FrontDecrement, IInv, FrontShape
    <3>. QED
      BY <1>1, <2>0, <2>3, <3>1 DEF FrontDecrement
  <2>4. ASSUME NEW w \in Worker, Decrement(w) PROVE dc'[t] = 0
    <3>1. wdepender[w] # t
      BY <1>0, <2>4, DecreasedDepender
    <3>. QED
      BY <1>1, <2>0, <2>4, <3>1 DEF Decrement
  <2>5. CASE ~CountPass /\ ~Link /\ ~FrontDecrement /\ \A w \in Worker : ~Decrement(w)
    BY <1>1, <2>5, CountsKept
  <2>. QED
    BY <2>1, <2>2, <2>3, <2>4, <2>5
<1>7. operands'[t] = <<>>
  <2>1. \A k \in 1..Len(operands'[t]) : k \in 1..Len(operands[t])
    BY <1>5, NewOperand
  <2>2. operands'[t] \in Seq(Terminal) /\ Len(operands[t]) = 0
    BY <1>1 DEF TypeOK, TerminalTypes
  <2>3. Len(operands'[t]) \in Nat
    BY <2>2
  <2>4. Len(operands'[t]) = 0
    BY <2>1, <2>2, <2>3
  <2>. QED
    BY <2>2, <2>4
<1>8. dependers'[t] = <<>>
  <2>1. Len(dependers'[t]) = Len(dependers[t])
    <3>1. CASE Link
      <4>. DEFINE o == fargs[Len(operands[ftarget]) + 1]
      <4>1. dependers' = [dependers EXCEPT ![o] = Append(dependers[o], ftarget)]
        BY <3>1 DEF Link
      <4>2. o # t
        <5>1. Len(operands[ftarget]) \in Nat /\ fargs \in Seq(Terminal) /\ fpc = "link"
          BY <3>1 DEF Link, IInv, FrontShape, TypeOK, TerminalTypes, FrontTypes
        <5>2. Len(operands[ftarget]) + 1 \in 1..Len(fargs)
          BY <3>1, <5>1 DEF Link
        <5>3. \A k \in 1..Len(fargs) : life[fargs[k]] # "unborn"
          BY <5>1 DEF IInv, FrontShape
        <5>. QED
          BY <1>0, <5>2, <5>3
      <4>3. dependers'[t] = dependers[t]
        BY <4>1, <4>2 DEF IInv, TypeOK, TerminalTypes
      <4>. QED
        BY <4>3
    <3>2. CASE ~Link
      BY <3>2, ListsGrow DEF IInv
    <3>. QED
      BY <3>1, <3>2
  <2>2. dependers'[t] \in Seq(Terminal \cup {None}) /\ Len(dependers[t]) = 0
    BY <1>1 DEF TypeOK, TerminalTypes
  <2>. QED
    BY <2>1, <2>2
<1>9. ASSUME NEW o \in Terminal, NEW k \in 1..Len(operands'[o]) PROVE operands'[o][k] # t
  <2>1. CASE k \in 1..Len(operands[o])
    BY <1>1, <2>1, OperandsGrow DEF IInv
  <2>2. CASE k \notin 1..Len(operands[o])
    BY <1>0, <2>2, NewOperand
  <2>. QED
    BY <2>1, <2>2
<1>10. ASSUME NEW o \in Terminal, NEW j \in 1..Len(dependers'[o]) PROVE dependers'[o][j] # t
  <2>0. t # None
    BY TerminalAssumption
  <2>1. CASE j \in 1..Len(dependers[o])
    <3>1. dependers'[o][j] = dependers[o][j] \/ dependers'[o][j] = None
      BY <2>1, ListsGrow DEF IInv
    <3>. QED
      BY <1>1, <2>0, <2>1, <3>1
  <2>2. CASE j \notin 1..Len(dependers[o])
    <3>1. Len(dependers[o]) \in Nat /\ Len(dependers'[o]) \in Nat
      BY DEF IInv, TypeOK, TerminalTypes
    <3>2. Link
      BY <2>2, <3>1, ListsGrow DEF IInv
    <3>. DEFINE p == fargs[Len(operands[ftarget]) + 1]
    <3>3. dependers' = [dependers EXCEPT ![p] = Append(dependers[p], ftarget)]
      BY <3>2 DEF Link
    <3>4. o = p
      BY <2>2, <3>3 DEF IInv, TypeOK, TerminalTypes
    <3>5. dependers'[o] = Append(dependers[o], ftarget)
      BY <3>3, <3>4 DEF IInv, TypeOK, TerminalTypes
    <3>6. dependers[o] \in Seq(Terminal \cup {None}) /\ ftarget \in Terminal
      BY <3>2 DEF IInv, TypeOK, TerminalTypes, Link, FrontShape
    <3>7. dependers'[o][j] = ftarget
      BY <2>2, <3>1, <3>5, <3>6
    <3>. QED
      BY <1>5, <3>2, <3>7
  <2>. QED
    BY <2>1, <2>2
<1>. QED
  BY <1>3, <1>6, <1>7, <1>8, <1>9, <1>10

\* Every step keeps expressions with at least one operand.
LEMMA OperandsGivenStep ==
  ASSUME IInv, Next, TypeOK'
  PROVE  OperandsGiven'
<1>0. ASSUME NEW t \in Terminal, operands[t] # <<>> PROVE operands'[t] # <<>>
  <2>1. Len(operands'[t]) >= Len(operands[t])
    BY OperandsGrow DEF IInv
  <2>2. operands[t] \in Seq(Terminal) /\ operands'[t] \in Seq(Terminal)
    BY DEF IInv, TypeOK, TerminalTypes
  <2>3. Len(operands[t]) # 0 /\ Len(operands[t]) \in Nat
    BY <1>0, <2>2
  <2>. QED
    BY <2>1, <2>2, <2>3
<1>1. ASSUME NEW t \in Terminal, life'[t] # "unborn", ~is_result'[t], Guard(t)' = 0
      PROVE  operands'[t] # <<>>
  <2>1. ~is_result[t]
    BY <1>1, ResultStep
  <2>2. CASE life[t] = "unborn"
    <3>1. New(t) \/ (CountPass /\ t = ftarget)
      BY <1>1, <2>2, LifeStep
    <3>2. CASE New(t)
      BY <1>1, <3>2 DEF New, IInv, TypeOK, TerminalTypes
    <3>3. CASE CountPass /\ t = ftarget
      BY <1>1, <3>3 DEF CountPass, Guard
    <3>. QED
      BY <3>1, <3>2, <3>3
  <2>3. CASE life[t] # "unborn" /\ Guard(t) = 0
    <3>1. operands[t] # <<>>
      BY <2>1, <2>3 DEF IInv, OperandsGiven
    <3>. QED
      BY <1>0, <3>1
  <2>4. CASE Guard(t) # 0
    <3>1. fpc = "link" /\ ftarget = t
      BY <2>4 DEF Guard
    <3>2. FrontDecrement
      <4>1. ~CountPass
        BY <3>1 DEF CountPass
      <4>2. ASSUME Link PROVE FALSE
        BY <1>1, <3>1, <4>2 DEF Link, frontVars, Guard
      <4>3. ASSUME NEW w \in Worker, Decrement(w) PROVE FALSE
        BY <1>1, <3>1, <4>3 DEF Decrement, frontVars, Guard
      <4>. QED
        BY <1>1, <2>4, <4>1, <4>2, <4>3, CountsKept
    <3>3. Len(operands[t]) = Len(fargs) /\ fargs # <<>> /\ fargs \in Seq(Terminal)
      BY <3>1, <3>2 DEF FrontDecrement, IInv, FrontShape, TypeOK, FrontTypes
    <3>4. operands[t] # <<>>
      BY <3>3 DEF IInv, TypeOK, TerminalTypes
    <3>. QED
      BY <1>0, <3>4
  <2>. QED
    BY <2>2, <2>3, <2>4
<1>2. ASSUME NEW v \in Worker, Busy(v)', ~(Busy(v) /\ wtarget'[v] = wtarget[v])
      PROVE  independent # <<>> /\ wtarget'[v] = Head(independent)
  <2>0. /\ wpc \in [Worker -> WorkerPC] /\ wtarget \in [Worker -> Terminal \cup {None}]
    BY DEF IInv, TypeOK, WorkerTypes
  <2>1. ~Unmoved(v)
    BY <1>2 DEF Unmoved, Busy, NoTarget
  <2>2. Spawn(v) \/ SpuriousWake(v) \/ Lost(v) \/ Work(v)
    BY <2>1, FrontMovesNoWorker, WorkerMovesNoOther DEF Next, IInv
  <2>3. CASE Spawn(v) \/ SpuriousWake(v) \/ Uncount(v)
    BY <1>2, <2>0, <2>3 DEF Spawn, SpuriousWake, Uncount, Busy
  <2>4. CASE Take(v) \/ Woken(v)
    BY <1>2, <2>0, <2>4 DEF Take, Woken, Pop, Busy
  <2>5. CASE Lost(v) \/ Evaluate(v) \/ RemoveDepender(v) \/ Receive(v) \/ Publish(v)
               \/ DiscardUnref(v) \/ ReadDepender(v) \/ Decrement(v) \/ Push(v) \/ Clean(v)
    <3>1. Busy(v) /\ wtarget' = wtarget
      BY <2>5 DEF Lost, Evaluate, RemoveDepender, Receive, Publish, DiscardUnref,
                  ReadDepender, Decrement, Push, Clean, Busy
    <3>. QED
      BY <1>2, <3>1
  <2>. QED
    BY <2>2, <2>3, <2>4, <2>5 DEF Work
<1>3. ASSUME NEW v \in Worker, Busy(v)' PROVE operands'[wtarget'[v]] # <<>>
  <2>1. CASE Busy(v) /\ wtarget'[v] = wtarget[v]
    <3>1. wtarget[v] \in Terminal /\ operands[wtarget[v]] # <<>>
      BY <2>1 DEF IInv, WorkerIndices, IndicesOf, OperandsGiven
    <3>. QED
      BY <1>0, <2>1, <3>1
  <2>2. CASE ~(Busy(v) /\ wtarget'[v] = wtarget[v])
    <3>. DEFINE t == independent[1]
    <3>1. independent # <<>> /\ wtarget'[v] = Head(independent)
      BY <1>2, <1>3, <2>2
    <3>2. independent \in Seq(Terminal)
      BY DEF IInv, TypeOK, QueueTypes
    <3>3. wtarget'[v] = t /\ t \in Terminal /\ 1 \in 1..Len(independent)
      BY <3>1, <3>2
    <3>4. life[t] # "unborn" /\ ~is_result[t] /\ dc[t] = 0
      BY <3>3 DEF IInv, ScheduledIndependent, Independent
    <3>5. Guard(t) = 0
      BY <3>3, <3>4, IndependentNotDue DEF IInv
    <3>6. operands[t] # <<>>
      BY <3>3, <3>4, <3>5 DEF IInv, OperandsGiven
    <3>. QED
      BY <1>0, <3>3, <3>6
  <2>. QED
    BY <2>1, <2>2
<1>. QED
  BY <1>1, <1>3 DEF OperandsGiven

\* Every step keeps the frontend baking a new terminal from terminals that exist.
LEMMA FrontShapeStep ==
  ASSUME IInv, Next, TypeOK'
  PROVE  FrontShape'
<1>. DEFINE Same == UNCHANGED <<ftarget, fargs>>
            Building ==
             /\ fpc' \in {"count", "blocked", "link", "push"} => ftarget' \in Terminal
             /\ fpc' \in {"count", "blocked"} => life'[ftarget'] = "unborn"
             /\ fpc' = "link" => life'[ftarget'] # "unborn" /\ ~is_result'[ftarget']
             /\ fpc' \in {"count", "blocked", "link"} =>
                  fargs' # <<>> /\ \A k \in 1..Len(fargs') : life'[fargs'[k]] # "unborn"
<1>1. ASSUME Same, fpc' = fpc \/ (fpc \in {"count", "blocked"} /\ fpc' \in {"count", "blocked"})
                     \/ fpc' \in {"spawn", "idle", "join", "done", "aborted"},
             ~CountPass
      PROVE  Building
  <2>1. ASSUME fpc' \in {"count", "blocked", "link", "push"} PROVE ftarget \in Terminal
    BY <1>1, <2>1 DEF IInv, FrontShape
  <2>2. ASSUME fpc' \in {"count", "blocked"} PROVE life'[ftarget] = "unborn"
    <3>1. ftarget \in Terminal /\ life[ftarget] = "unborn"
      BY <1>1, <2>2 DEF IInv, FrontShape
    <3>2. ~New(ftarget)
      BY <1>1, <2>2 DEF New
    <3>. QED
      BY <1>1, <3>1, <3>2, LifeStep
  <2>3. ASSUME fpc' = "link" PROVE life'[ftarget] # "unborn" /\ ~is_result'[ftarget]
    <3>1. fpc = "link" /\ ftarget \in Terminal /\ life[ftarget] # "unborn" /\ ~is_result[ftarget]
      BY <1>1, <2>3 DEF IInv, FrontShape
    <3>2. Guard(ftarget) = 1
      BY <3>1 DEF Guard
    <3>3. ~Independent(ftarget)
      BY <3>1, <3>2, IndependentNotDue DEF IInv, Independent
    <3>. QED
      BY <3>1, <3>3, LifeStep, ResultStep DEF New
  <2>4. ASSUME fpc' \in {"count", "blocked", "link"}
        PROVE  fargs # <<>> /\ \A k \in 1..Len(fargs) : life'[fargs[k]] # "unborn"
    <3>1. fargs # <<>> /\ \A k \in 1..Len(fargs) : life[fargs[k]] # "unborn"
      BY <1>1, <2>4 DEF IInv, FrontShape
    <3>2. fargs \in Seq(Terminal)
      BY DEF IInv, TypeOK, FrontTypes
    <3>. QED
      BY <3>1, <3>2, LifeStep
  <2>. QED
    BY <1>1, <2>1, <2>2, <2>3, <2>4
<1>2. ASSUME NEW t \in Terminal, New(t) \/ Ref(t) \/ FrontUnref(t) \/ FrontDiscard(t)
      PROVE  Same /\ fpc' = fpc /\ ~CountPass
  BY <1>2 DEF New, Ref, FrontUnref, FrontDiscard, CountPass
<1>3. ASSUME Start \/ CountBlock \/ SpuriousUnblock \/ Link \/ FrontPush \/ Destroy \/ Join
               \/ Finished
      PROVE  /\ Same /\ ~CountPass
             /\ \/ fpc' = fpc \/ (fpc \in {"count", "blocked"} /\ fpc' \in {"count", "blocked"})
                \/ fpc' \in {"spawn", "idle", "join", "done", "aborted"}
  BY <1>3 DEF Start, CountBlock, SpuriousUnblock, Link, FrontPush, Destroy, Join, Finished,
              CountPass, vars, frontVars
<1>4. ASSUME NEW w \in Worker, Spawn(w) \/ SpuriousWake(w) \/ Lost(w) \/ Work(w)
      PROVE  /\ Same /\ ~CountPass
             /\ fpc' = fpc \/ (fpc \in {"count", "blocked"} /\ fpc' \in {"count", "blocked"})
  <2>1. UNCHANGED frontVars \/ Uncount(w)
    BY <1>4 DEF Spawn, SpuriousWake, Lost, Work, Take, Woken, Evaluate, RemoveDepender, Receive,
                Publish, DiscardUnref, ReadDepender, Decrement, Push, Clean, frontVars
  <2>2. CASE UNCHANGED frontVars
    BY <2>2 DEF frontVars, CountPass
  <2>3. CASE Uncount(w)
    BY <2>3 DEF Uncount, CountPass
  <2>. QED
    BY <2>1, <2>2, <2>3
<1>5. ASSUME CountPass PROVE Building
  <2>1. /\ fpc = "count" /\ fpc' = "link" /\ Same
        /\ life' = [life EXCEPT ![ftarget] = "live"] /\ is_result' = is_result
    BY <1>5 DEF CountPass
  <2>2. /\ ftarget \in Terminal /\ life[ftarget] = "unborn" /\ fargs # <<>>
        /\ \A k \in 1..Len(fargs) : life[fargs[k]] # "unborn"
    BY <2>1 DEF IInv, FrontShape
  <2>3. ~is_result[ftarget]
    BY <2>2 DEF IInv, UnbornBlank
  <2>4. fargs \in Seq(Terminal) /\ life \in [Terminal -> {"unborn", "live", "freed"}]
    BY DEF IInv, TypeOK, FrontTypes, TerminalTypes
  <2>5. \A k \in 1..Len(fargs) : life'[fargs[k]] # "unborn"
    BY <2>2, <2>4, LifeStep
  <2>6. life'[ftarget] # "unborn"
    BY <2>1, <2>2, <2>4
  <2>. QED
    BY <2>1, <2>2, <2>3, <2>5, <2>6
<1>6. ASSUME FrontDecrement PROVE Building
  <2>1. fpc = "link" /\ fpc' \in {"push", "idle"} /\ Same
    BY <1>6 DEF FrontDecrement
  <2>2. ftarget \in Terminal
    BY <2>1 DEF IInv, FrontShape
  <2>. QED
    BY <2>1, <2>2
<1>7. ASSUME NEW t \in Terminal, NEW os \in OperandSeq, Bake(t, os)
      PROVE  /\ fpc' = "count" /\ ftarget' \in Terminal /\ life'[ftarget'] = "unborn"
             /\ fargs' # <<>> /\ \A k \in 1..Len(fargs') : life'[fargs'[k]] # "unborn"
  <2>1. os \in Seq(Terminal)
    BY BoundAssumption DEF OperandSeq
  <2>2. /\ fpc' = "count" /\ ftarget' = t /\ fargs' = os /\ life' = life /\ os # <<>>
        /\ life[t] = "unborn" /\ \A k \in 1..Len(os) : held[os[k]] > 0
    BY <1>7 DEF Bake, terminalVars
  <2>3. \A k \in 1..Len(os) : life[os[k]] # "unborn"
    BY <2>1, <2>2 DEF IInv, FrontShape
  <2>. QED
    BY <2>2, <2>3
<1>8. ASSUME NEW t \in Terminal, held'[t] > 0 PROVE life'[t] # "unborn"
  <2>0. held \in [Terminal -> Nat] /\ life \in [Terminal -> {"unborn", "live", "freed"}]
    BY DEF IInv, TypeOK, FrontTypes, TerminalTypes
  <2>1. CASE held[t] > 0
    <3>1. life[t] # "unborn"
      BY <2>1 DEF IInv, FrontShape
    <3>. QED
      BY <3>1, LifeStep
  <2>2. CASE ~(held[t] > 0)
    <3>1. ASSUME NEW u \in Terminal, New(u) PROVE life'[t] # "unborn"
      BY <1>8, <2>0, <2>2, <3>1 DEF New
    <3>2. CASE CountPass
      BY <1>8, <2>0, <2>2, <3>2 DEF CountPass
    <3>3. ASSUME NEW u \in Terminal, Ref(u) \/ FrontUnref(u) \/ FrontDiscard(u) PROVE FALSE
      <4>1. /\ held[u] > 0
            /\ held' = [held EXCEPT ![u] = held[u] + 1] \/ held' = [held EXCEPT ![u] = held[u] - 1]
        BY <2>0, <3>3 DEF Ref, FrontUnref, FrontDiscard
      <4>. QED
        BY <1>8, <2>0, <2>2, <4>1
    <3>4. ASSUME held' = held PROVE FALSE
      BY <1>8, <2>2, <3>4
    <3>5. ASSUME \/ \E u \in Terminal, os \in OperandSeq : Bake(u, os)
                 \/ Start \/ CountBlock \/ SpuriousUnblock \/ Link \/ FrontDecrement \/ FrontPush
                 \/ Destroy \/ Join \/ Finished
          PROVE  FALSE
      BY <3>4, <3>5 DEF Bake, Start, CountBlock, SpuriousUnblock, Link, FrontDecrement,
                        FrontPush, Destroy, Join, Finished, vars, frontVars
    <3>6. ASSUME NEW w \in Worker, Spawn(w) \/ SpuriousWake(w) \/ Lost(w) \/ Work(w) PROVE FALSE
      BY <3>4, <3>6 DEF Spawn, SpuriousWake, Lost, Work, Take, Woken, Evaluate, RemoveDepender,
                        Receive, Publish, DiscardUnref, ReadDepender, Decrement, Push, Clean,
                        Uncount, frontVars
    <3>. QED
      BY <3>1, <3>2, <3>3, <3>5, <3>6 DEF Next, FrontBake, FrontIdle
  <2>. QED
    BY <2>1, <2>2
<1>9. Building
  BY <1>1, <1>2, <1>3, <1>4, <1>5, <1>6, <1>7 DEF Next, FrontBake, FrontIdle
<1>. QED
  BY <1>8, <1>9 DEF FrontShape

-----------------------------------------------------------------------------
(* Where a terminal is scheduled *)

\* A worker that evaluates, or is about to append to the queue, did so before and with
\* the same terminal; likewise the frontend.
EvaluationKept(w) == Evaluating(w)' => Evaluating(w) /\ wtarget'[w] = wtarget[w]

PushKept(w) == wpc'[w] = "push" => wpc[w] = "push" /\ wdepender'[w] = wdepender[w]

FrontKept == fpc' = "push" => fpc = "push" /\ ftarget' = ftarget

\* How a step moves what is scheduled from place to place.
NothingScheduled ==
  /\ independent' = independent /\ FrontKept
  /\ \A v \in Worker : EvaluationKept(v) /\ PushKept(v)

PoppedBy(w) ==
  /\ independent # <<>> /\ independent' = Tail(independent) /\ FrontKept
  /\ wtarget'[w] = Head(independent) /\ ~Publish(w)
  /\ \A v \in Worker : (v # w => EvaluationKept(v)) /\ PushKept(v)

PushedBy(w) ==
  /\ wpc[w] = "push" /\ wpc'[w] # "push" /\ FrontKept
  /\ independent' = Append(independent, wdepender[w])
  /\ \A v \in Worker : EvaluationKept(v) /\ PushKept(v)

PushedByFront ==
  /\ fpc = "push" /\ fpc' # "push"
  /\ independent' = Append(independent, ftarget)
  /\ \A v \in Worker : EvaluationKept(v) /\ PushKept(v)

FoundBy(w) ==
  /\ Decrement(w) /\ dc[wdepender[w]] = 1 /\ wdepender'[w] = wdepender[w]
  /\ independent' = independent /\ FrontKept
  /\ \A v \in Worker : EvaluationKept(v) /\ (v # w => PushKept(v))

FoundByFront ==
  /\ FrontDecrement /\ dc[ftarget] = 1 /\ ftarget' = ftarget
  /\ independent' = independent
  /\ \A v \in Worker : EvaluationKept(v) /\ PushKept(v)

\* A worker that does not move schedules nothing.
LEMMA UnmovedKept ==
  ASSUME NEW v \in Worker, Unmoved(v)
  PROVE  EvaluationKept(v) /\ PushKept(v)
BY DEF Unmoved, NoTarget, EvaluationKept, PushKept, Evaluating

\* A step of a worker leaves the frontend's scheduling alone.
LEMMA WorkerFrontKept ==
  ASSUME NEW w \in Worker, Spawn(w) \/ SpuriousWake(w) \/ Lost(w) \/ Work(w)
  PROVE  FrontKept
BY DEF FrontKept, Spawn, SpuriousWake, Lost, Work, Take, Woken, Evaluate, RemoveDepender,
       Receive, Publish, DiscardUnref, ReadDepender, Decrement, Push, Clean, Uncount, frontVars

\* Each step pops one terminal, pushes one, finds one independent, or moves nothing.
LEMMA ScheduleStep ==
  ASSUME IInv, Next
  PROVE  \/ NothingScheduled \/ PushedByFront \/ FoundByFront
         \/ \E w \in Worker : PoppedBy(w) \/ PushedBy(w) \/ FoundBy(w)
<1>0. /\ wpc \in [Worker -> WorkerPC] /\ wtarget \in [Worker -> Terminal \cup {None}]
      /\ wdepender \in [Worker -> Terminal \cup {None}] /\ TypeOK
  BY DEF IInv, TypeOK, WorkerTypes
<1>1. ASSUME \/ Start \/ CountBlock \/ SpuriousUnblock \/ FrontBake \/ FrontIdle \/ Join
             \/ Finished
      PROVE  NothingScheduled \/ PushedByFront \/ FoundByFront
  <2>1. \A v \in Worker : EvaluationKept(v) /\ PushKept(v)
    BY <1>0, <1>1, FrontMovesNoWorker, UnmovedKept
  <2>2. CASE FrontPush
    BY <2>1, <2>2 DEF FrontPush, PushIndependent, PushedByFront
  <2>3. CASE FrontDecrement
    BY <2>1, <2>3 DEF FrontDecrement, queueVars, FoundByFront, NothingScheduled, FrontKept
  <2>4. ASSUME NEW t \in Terminal,
               New(t) \/ Ref(t) \/ FrontUnref(t) \/ FrontDiscard(t)
                 \/ \E os \in OperandSeq : Bake(t, os)
        PROVE  independent' = independent /\ FrontKept
    BY <2>4 DEF New, Ref, FrontUnref, FrontDiscard, Bake, queueVars, FrontKept
  <2>5. ASSUME \/ Start \/ CountBlock \/ SpuriousUnblock \/ CountPass \/ Link \/ Destroy
               \/ Join \/ Finished
        PROVE  independent' = independent /\ FrontKept
    BY <2>5 DEF Start, CountBlock, SpuriousUnblock, CountPass, Link, Destroy, Join, Finished,
                vars, queueVars, frontVars, FrontKept
  <2>. QED
    BY <1>1, <2>1, <2>2, <2>3, <2>4, <2>5 DEF FrontBake, FrontIdle, NothingScheduled
<1>2. ASSUME NEW w \in Worker, Spawn(w) \/ SpuriousWake(w) \/ Lost(w) \/ Work(w)
      PROVE  NothingScheduled \/ PoppedBy(w) \/ PushedBy(w) \/ FoundBy(w)
  <2>1. \A v \in Worker : v # w => EvaluationKept(v) /\ PushKept(v)
    BY <1>0, <1>2, WorkerMovesNoOther, UnmovedKept
  <2>2. FrontKept
    BY <1>2, WorkerFrontKept
  <2>3. CASE Spawn(w) \/ SpuriousWake(w) \/ Lost(w) \/ Evaluate(w) \/ RemoveDepender(w)
               \/ Receive(w)
    <3>1. independent' = independent /\ EvaluationKept(w) /\ PushKept(w)
      BY <1>0, <2>3 DEF Spawn, SpuriousWake, Lost, Evaluate, RemoveDepender, Receive, queueVars,
                        EvaluationKept, PushKept, Evaluating
    <3>. QED
      BY <2>1, <2>2, <3>1 DEF NothingScheduled
  <2>4. CASE Publish(w) \/ DiscardUnref(w) \/ ReadDepender(w) \/ Clean(w) \/ Uncount(w)
    <3>1. independent' = independent
      BY <2>4 DEF Publish, DiscardUnref, ReadDepender, Clean, Uncount, queueVars
    <3>2. EvaluationKept(w) /\ PushKept(w)
      BY <1>0, <2>4 DEF Publish, DiscardUnref, ReadDepender, Clean, Uncount, NextDepender,
                        EvaluationKept, PushKept, Evaluating
    <3>. QED
      BY <2>1, <2>2, <3>1, <3>2 DEF NothingScheduled
  <2>5. CASE Take(w) \/ Woken(w)
    <3>1. CASE Pop(w)
      <4>1. /\ independent # <<>> /\ independent' = Tail(independent)
            /\ wtarget'[w] = Head(independent) /\ wpc'[w] = "evaluate"
        BY <1>0, <3>1 DEF Pop
      <4>2. ~Publish(w)
        BY <2>5 DEF Take, Woken, Publish
      <4>3. PushKept(w)
        BY <4>1 DEF PushKept
      <4>. QED
        BY <2>1, <2>2, <4>1, <4>2, <4>3 DEF PoppedBy
    <3>2. CASE ~Pop(w)
      <4>1. wpc'[w] \in {"exited", "waiting", "idle"} /\ independent' = independent
        BY <1>0, <2>5, <3>2 DEF Take, Woken
      <4>2. EvaluationKept(w) /\ PushKept(w)
        BY <4>1 DEF EvaluationKept, PushKept, Evaluating
      <4>. QED
        BY <2>1, <2>2, <4>1, <4>2 DEF NothingScheduled
    <3>. QED
      BY <3>1, <3>2
  <2>6. CASE Decrement(w)
    <3>1. /\ independent' = independent /\ wdepender' = wdepender
          /\ wpc'[w] \in {"push", "read", "clean"} /\ (wpc'[w] = "push" => dc[wdepender[w]] = 1)
      BY <1>0, <2>6 DEF Decrement, NextDepender, queueVars
    <3>2. EvaluationKept(w)
      BY <3>1 DEF EvaluationKept, Evaluating
    <3>3. CASE wpc'[w] = "push"
      BY <2>1, <2>2, <2>6, <3>1, <3>2, <3>3 DEF FoundBy
    <3>4. CASE wpc'[w] # "push"
      BY <2>1, <2>2, <3>1, <3>2, <3>4 DEF NothingScheduled, PushKept
    <3>. QED
      BY <3>3, <3>4
  <2>7. CASE Push(w)
    <3>. DEFINE wp == [wpc EXCEPT ![w] = IF windex[w] < wn[w] THEN "read" ELSE "clean"]
    <3>1. /\ wpc[w] = "push" /\ independent' = Append(independent, wdepender[w]) /\ Signal(wp)
      BY <2>7 DEF Push, PushIndependent
    <3>2. wp \in [Worker -> WorkerPC]
      BY <1>0 DEF WorkerPC
    <3>3. wpc'[w] \in {"read", "clean", "woken"}
      BY <1>0, <3>1, <3>2, SignalMoves
    <3>4. EvaluationKept(w) /\ PushKept(w) /\ wpc'[w] # "push"
      BY <3>3 DEF EvaluationKept, PushKept, Evaluating
    <3>. QED
      BY <2>1, <2>2, <3>1, <3>4 DEF PushedBy
  <2>. QED
    BY <1>2, <2>3, <2>4, <2>5, <2>6, <2>7 DEF Work
<1>. QED
  BY <1>1, <1>2 DEF Next

\* The worker that publishes was the only one to have the target.
LEMMA PublishEnds ==
  ASSUME TypeOK, NEW w \in Worker, Publish(w)
  PROVE  Evaluating(w) /\ ~Evaluating(w)'
<1>1. wpc[w] = "publish" /\ wpc'[w] \in {"discard", "read", "clean"}
  BY DEF Publish, NextDepender, TypeOK, WorkerTypes
<1>. QED
  BY <1>1 DEF Evaluating

\* t, a terminal of this state, is an independent expression in the next.
IndependentAfter(t) == life'[t] # "unborn" /\ ~is_result'[t] /\ dc'[t] = 0

\* An expression found independent in a step has not been scheduled before.
LEMMA FoundIndependent ==
  ASSUME IInv, Next, TypeOK', NEW t \in Terminal,
         \/ FoundByFront /\ t = ftarget
         \/ \E w \in Worker : FoundBy(w) /\ t = wdepender[w]
  PROVE  ~Independent(t) /\ IndependentAfter(t)
<1>0. dc \in [Terminal -> Int]
  BY DEF IInv, TypeOK, TerminalTypes
<1>1. CASE FoundByFront /\ t = ftarget
  <2>1. FrontDecrement /\ dc[t] = 1
    BY <1>1 DEF FoundByFront
  <2>2. fpc = "link" /\ dc' = [dc EXCEPT ![t] = dc[t] - 1]
        /\ life' = life /\ is_result' = is_result
    BY <1>1, <2>1 DEF FrontDecrement
  <2>3. life[t] # "unborn" /\ ~is_result[t]
    BY <1>1, <2>2 DEF IInv, FrontShape
  <2>. QED
    BY <1>0, <2>1, <2>2, <2>3 DEF Independent, IndependentAfter
<1>2. ASSUME NEW w \in Worker, FoundBy(w), t = wdepender[w]
      PROVE  ~Independent(t) /\ IndependentAfter(t)
  <2>1. Decrement(w) /\ dc[t] = 1
    BY <1>2 DEF FoundBy
  <2>2. /\ dc' = [dc EXCEPT ![t] = dc[t] - 1]
        /\ life' = life /\ is_result' = is_result
    BY <1>2, <2>1 DEF Decrement
  <2>3. life[t] # "unborn" /\ ~is_result[t]
    BY <1>2, <2>1, DecreasedDepender
  <2>. QED
    BY <1>0, <2>1, <2>2, <2>3 DEF Independent, IndependentAfter
<1>. QED
  BY <1>1, <1>2

\* Every step keeps what is scheduled independent.
LEMMA ScheduledIndependentStep ==
  ASSUME IInv, Next, TypeOK', WorkerIndices'
  PROVE  ScheduledIndependent'
<1>0. independent \in Seq(Terminal) /\ TypeOK
  BY DEF IInv, TypeOK, QueueTypes
<1>1. ASSUME NEW i \in 1..Len(independent) PROVE IndependentAfter(independent[i])
  <2>1. independent[i] \in Terminal /\ Independent(independent[i])
    BY <1>0 DEF IInv, ScheduledIndependent
  <2>2. \A w \in Worker : Publish(w) => wtarget[w] # independent[i]
    BY <1>0, PublishEnds DEF IInv, ScheduledApart
  <2>. QED
    BY <2>1, <2>2, IndependentKept DEF Independent, IndependentAfter
<1>2. ASSUME NEW v \in Worker, wpc[v] = "push" PROVE IndependentAfter(wdepender[v])
  <2>1. wdepender[v] \in Terminal /\ Independent(wdepender[v])
    BY <1>2 DEF IInv, ScheduledIndependent, WorkerIndices, IndicesOf
  <2>2. \A w \in Worker : Publish(w) => wtarget[w] # wdepender[v]
    BY <1>0, <1>2, PublishEnds DEF IInv, ScheduledApart
  <2>. QED
    BY <2>1, <2>2, IndependentKept DEF Independent, IndependentAfter
<1>3. ASSUME fpc = "push" PROVE IndependentAfter(ftarget)
  <2>1. ftarget \in Terminal /\ Independent(ftarget)
    BY <1>3 DEF IInv, ScheduledIndependent, FrontShape
  <2>2. \A w \in Worker : Publish(w) => wtarget[w] # ftarget
    BY <1>0, <1>3, PublishEnds DEF IInv, ScheduledApart
  <2>. QED
    BY <2>1, <2>2, IndependentKept DEF Independent, IndependentAfter
<1>4. ASSUME NEW v \in Worker, Evaluating(v), ~Publish(v) PROVE IndependentAfter(wtarget[v])
  <2>1. Busy(v) /\ wtarget[v] \in Terminal /\ Independent(wtarget[v])
    BY <1>4 DEF IInv, ScheduledIndependent, WorkerIndices, IndicesOf, Busy, Evaluating
  <2>2. \A w \in Worker : Publish(w) => Busy(w) /\ w # v
    BY <1>4 DEF Publish, Busy
  <2>3. \A w \in Worker : Publish(w) => wtarget[w] # wtarget[v]
    BY <2>1, <2>2 DEF IInv, TargetsApart
  <2>. QED
    BY <2>1, <2>3, IndependentKept DEF Independent, IndependentAfter
<1>5. ASSUME NEW v \in Worker, EvaluationKept(v), Evaluating(v)'
      PROVE  IndependentAfter(wtarget'[v])
  BY <1>0, <1>4, <1>5, PublishEnds DEF EvaluationKept
<1>6. ASSUME NEW v \in Worker, PushKept(v), wpc'[v] = "push"
      PROVE  IndependentAfter(wdepender'[v])
  BY <1>2, <1>6 DEF PushKept
<1>7. ASSUME FrontKept, fpc' = "push" PROVE IndependentAfter(ftarget')
  BY <1>3, <1>7 DEF FrontKept
<1>. DEFINE Goal == /\ \A i \in 1..Len(independent') : IndependentAfter(independent'[i])
                    /\ \A v \in Worker : Evaluating(v)' => IndependentAfter(wtarget'[v])
                    /\ \A v \in Worker : wpc'[v] = "push" => IndependentAfter(wdepender'[v])
                    /\ fpc' = "push" => IndependentAfter(ftarget')
<1>8. ASSUME NEW t \in Terminal, IndependentAfter(t), independent' = Append(independent, t)
      PROVE  \A i \in 1..Len(independent') : IndependentAfter(independent'[i])
  <2>1. ASSUME NEW i \in 1..Len(independent')
        PROVE  independent'[i] = t \/ (i \in 1..Len(independent) /\ independent'[i] = independent[i])
    BY <1>0, <1>8
  <2>. QED
    BY <1>1, <1>8, <2>1
<1>9. ASSUME NothingScheduled PROVE Goal
  BY <1>1, <1>5, <1>6, <1>7, <1>9 DEF NothingScheduled
<1>10. ASSUME PushedByFront PROVE Goal
  <2>1. ftarget \in Terminal /\ IndependentAfter(ftarget)
    BY <1>3, <1>10 DEF PushedByFront, IInv, FrontShape
  <2>. QED
    BY <1>5, <1>6, <1>8, <1>10, <2>1 DEF PushedByFront
<1>11. ASSUME FoundByFront PROVE Goal
  <2>1. ftarget \in Terminal
    BY <1>11 DEF FoundByFront, FrontDecrement, IInv, FrontShape
  <2>2. IndependentAfter(ftarget)
    BY <1>11, <2>1, FoundIndependent
  <2>. QED
    BY <1>1, <1>5, <1>6, <1>11, <2>2 DEF FoundByFront
<1>12. ASSUME NEW w \in Worker, PoppedBy(w) PROVE Goal
  <2>1. /\ independent # <<>> /\ independent' = Tail(independent)
        /\ wtarget'[w] = Head(independent)
    BY <1>12 DEF PoppedBy
  <2>2. wtarget'[w] = independent[1] /\ 1 \in 1..Len(independent)
    BY <1>0, <2>1
  <2>3. IndependentAfter(wtarget'[w])
    BY <1>1, <2>2
  <2>4. ASSUME NEW i \in 1..Len(independent')
        PROVE  i + 1 \in 1..Len(independent) /\ independent'[i] = independent[i + 1]
    BY <1>0, <2>1
  <2>. QED
    BY <1>1, <1>5, <1>6, <1>7, <1>12, <2>3, <2>4 DEF PoppedBy
<1>13. ASSUME NEW w \in Worker, PushedBy(w) PROVE Goal
  <2>1. wdepender[w] \in Terminal /\ IndependentAfter(wdepender[w])
    BY <1>2, <1>13 DEF PushedBy, IInv, WorkerIndices, IndicesOf
  <2>. QED
    BY <1>5, <1>6, <1>7, <1>8, <1>13, <2>1 DEF PushedBy
<1>14. ASSUME NEW w \in Worker, FoundBy(w) PROVE Goal
  <2>1. wdepender[w] \in Terminal
    BY <1>14, DecreasedDepender DEF FoundBy
  <2>2. IndependentAfter(wdepender'[w])
    BY <1>14, <2>1, FoundIndependent DEF FoundBy
  <2>. QED
    BY <1>1, <1>5, <1>6, <1>7, <1>14, <2>2 DEF FoundBy
<1>15. Goal
  BY <1>9, <1>10, <1>11, <1>12, <1>13, <1>14, ScheduleStep
<1>. QED
  BY <1>15 DEF ScheduledIndependent, Independent, IndependentAfter

\* Every step keeps the targets of different workers apart.
LEMMA TargetsApartStep ==
  ASSUME IInv, Next, TypeOK', WorkerIndices'
  PROVE  TargetsApart'
<1>0. /\ wpc \in [Worker -> WorkerPC] /\ wtarget \in [Worker -> Terminal \cup {None}]
      /\ is_result \in [Terminal -> BOOLEAN] /\ TypeOK /\ independent \in Seq(Terminal)
  BY DEF IInv, TypeOK, WorkerTypes, TerminalTypes, QueueTypes
<1>. DEFINE Stays(v) == Busy(v) /\ wtarget'[v] = wtarget[v]
<1>1. ASSUME NEW v \in Worker, Busy(v)', ~Stays(v)
      PROVE  /\ Evaluating(v)' /\ PoppedBy(v)
             /\ wtarget'[v] = independent[1] /\ 1 \in 1..Len(independent)
  <2>1. ~Unmoved(v)
    BY <1>1 DEF Unmoved, Busy, NoTarget
  <2>2. Spawn(v) \/ SpuriousWake(v) \/ Lost(v) \/ Work(v)
    BY <2>1, FrontMovesNoWorker, WorkerMovesNoOther DEF Next, IInv
  <2>3. CASE Spawn(v) \/ SpuriousWake(v) \/ Uncount(v)
    BY <1>0, <1>1, <2>3 DEF Spawn, SpuriousWake, Uncount, Busy
  <2>4. CASE Lost(v) \/ Evaluate(v) \/ RemoveDepender(v) \/ Receive(v) \/ Publish(v)
               \/ DiscardUnref(v) \/ ReadDepender(v) \/ Decrement(v) \/ Push(v) \/ Clean(v)
    <3>1. Busy(v) /\ wtarget' = wtarget
      BY <2>4 DEF Lost, Evaluate, RemoveDepender, Receive, Publish, DiscardUnref,
                  ReadDepender, Decrement, Push, Clean, Busy
    <3>. QED
      BY <1>1, <3>1
  <2>5. CASE Take(v) \/ Woken(v)
    <3>1. Pop(v)
      BY <1>0, <1>1, <2>5 DEF Take, Woken, Busy
    <3>2. /\ independent # <<>> /\ independent' = Tail(independent)
          /\ wtarget'[v] = Head(independent) /\ wpc'[v] = "evaluate"
      BY <1>0, <3>1 DEF Pop
    <3>3. wtarget'[v] = independent[1] /\ 1 \in 1..Len(independent)
      BY <1>0, <3>2
    <3>4. FrontKept
      BY <2>2, WorkerFrontKept
    <3>5. \A u \in Worker : u # v => EvaluationKept(u) /\ PushKept(u)
      BY <1>0, <2>2, WorkerMovesNoOther, UnmovedKept
    <3>6. PushKept(v) /\ Evaluating(v)'
      BY <3>2 DEF PushKept, Evaluating
    <3>7. ~Publish(v)
      BY <2>5 DEF Take, Woken, Publish
    <3>. QED
      BY <3>2, <3>3, <3>4, <3>5, <3>6, <3>7 DEF PoppedBy
  <2>. QED
    BY <2>2, <2>3, <2>4, <2>5 DEF Work
<1>2. ASSUME NEW v \in Worker, Busy(v)', ~Evaluating(v)' PROVE is_result'[wtarget'[v]]
  <2>1. Stays(v)
    BY <1>1, <1>2
  <2>2. wtarget[v] \in Terminal
    BY <2>1 DEF IInv, WorkerIndices, IndicesOf
  <2>3. CASE ~Evaluating(v)
    BY <2>1, <2>2, <2>3, ResultStep DEF IInv, TargetsApart
  <2>4. CASE Evaluating(v)
    <3>1. ~Unmoved(v)
      BY <1>2, <2>4 DEF Unmoved, Evaluating, NoTarget
    <3>2. Spawn(v) \/ SpuriousWake(v) \/ Lost(v) \/ Work(v)
      BY <3>1, FrontMovesNoWorker, WorkerMovesNoOther DEF Next, IInv
    <3>3. Publish(v)
      BY <1>0, <1>2, <2>4, <3>2 DEF Evaluating, Work, Spawn, SpuriousWake, Lost, Take, Woken,
            Evaluate, RemoveDepender, Receive, DiscardUnref, ReadDepender, Decrement, Push,
            Clean, Uncount
    <3>. QED
      BY <1>0, <2>1, <2>2, <3>3 DEF Publish
  <2>. QED
    BY <2>3, <2>4
<1>3. ASSUME NEW v \in Worker, NEW u \in Worker, Busy(v)', ~Stays(v), Busy(u)', v # u
      PROVE  wtarget'[v] # wtarget'[u]
  <2>1. /\ PoppedBy(v) /\ wtarget'[v] = independent[1] /\ 1 \in 1..Len(independent)
        /\ independent[1] \in Terminal
    BY <1>0, <1>1, <1>3
  <2>2. Stays(u)
    <3>1. ASSUME ~Stays(u) PROVE FALSE
      <4>1. Evaluating(u)' /\ EvaluationKept(u)
        BY <1>1, <1>3, <2>1, <3>1 DEF PoppedBy
      <4>. QED
        BY <3>1, <4>1 DEF EvaluationKept, Evaluating, Busy
    <3>. QED
      BY <3>1
  <2>3. CASE Evaluating(u)
    BY <2>1, <2>2, <2>3 DEF IInv, ScheduledApart
  <2>4. CASE ~Evaluating(u)
    <3>1. is_result[wtarget[u]]
      BY <2>2, <2>4 DEF IInv, TargetsApart
    <3>2. ~is_result[independent[1]]
      BY <2>1 DEF IInv, ScheduledIndependent, Independent
    <3>. QED
      BY <2>1, <2>2, <3>1, <3>2
  <2>. QED
    BY <2>3, <2>4
<1>4. ASSUME NEW v \in Worker, NEW u \in Worker, Busy(v)', Busy(u)', v # u
      PROVE  wtarget'[v] # wtarget'[u]
  <2>1. CASE Stays(v) /\ Stays(u)
    BY <1>4, <2>1 DEF IInv, TargetsApart
  <2>2. CASE ~Stays(v) \/ ~Stays(u)
    BY <1>3, <1>4, <2>2
  <2>. QED
    BY <2>1, <2>2
<1>. QED
  BY <1>2, <1>4 DEF TargetsApart

\* Every step keeps each terminal scheduled at one place at most.
LEMMA ScheduledApartStep ==
  ASSUME IInv, Next, TypeOK'
  PROVE  ScheduledApart'
<1>0. independent \in Seq(Terminal) /\ independent' \in Seq(Terminal) /\ TypeOK
  BY DEF IInv, TypeOK, QueueTypes
<1>1. ScheduledApart
  BY DEF IInv
<1>2. ASSUME NEW t, ~Independent(t)
      PROVE  /\ \A i \in 1..Len(independent) : independent[i] # t
             /\ \A v \in Worker : /\ Evaluating(v) => wtarget[v] # t
                                  /\ wpc[v] = "push" => wdepender[v] # t
             /\ fpc = "push" => ftarget # t
  BY <1>2 DEF IInv, ScheduledIndependent
<1>3. CASE NothingScheduled
  <2>1. /\ independent' = independent
        /\ fpc' = "push" => fpc = "push" /\ ftarget' = ftarget
        /\ \A v \in Worker : /\ Evaluating(v)' => Evaluating(v) /\ wtarget'[v] = wtarget[v]
                             /\ wpc'[v] = "push" => wpc[v] = "push" /\ wdepender'[v] = wdepender[v]
    BY <1>3 DEF NothingScheduled, EvaluationKept, PushKept, FrontKept
  <2>. QED
    BY <1>1, <2>1 DEF ScheduledApart
<1>4. ASSUME NEW t, independent' = Append(independent, t), t \in Terminal
      PROVE  \A i \in 1..Len(independent') :
                \/ i \in 1..Len(independent) /\ independent'[i] = independent[i]
                \/ i = Len(independent) + 1 /\ independent'[i] = t
  BY <1>0, <1>4
<1>5. CASE PushedByFront
  <2>1. /\ fpc = "push" /\ fpc' # "push" /\ independent' = Append(independent, ftarget)
        /\ \A v \in Worker : /\ Evaluating(v)' => Evaluating(v) /\ wtarget'[v] = wtarget[v]
                             /\ wpc'[v] = "push" => wpc[v] = "push" /\ wdepender'[v] = wdepender[v]
    BY <1>5 DEF PushedByFront, EvaluationKept, PushKept
  <2>2. ftarget \in Terminal
    BY <2>1 DEF IInv, FrontShape
  <2>3. \A i \in 1..Len(independent') :
           \/ i \in 1..Len(independent) /\ independent'[i] = independent[i]
           \/ i = Len(independent) + 1 /\ independent'[i] = ftarget
    BY <1>4, <2>1, <2>2
  <2>4. /\ \A i \in 1..Len(independent) : independent[i] # ftarget
        /\ \A w \in Worker : /\ Evaluating(w) => wtarget[w] # ftarget
                             /\ wpc[w] = "push" => wdepender[w] # ftarget
    BY <1>1, <2>1 DEF ScheduledApart
  <2>. QED
    BY <1>1, <2>1, <2>3, <2>4 DEF ScheduledApart
<1>6. CASE FoundByFront
  <2>1. /\ independent' = independent /\ ftarget' = ftarget
        /\ \A v \in Worker : /\ Evaluating(v)' => Evaluating(v) /\ wtarget'[v] = wtarget[v]
                             /\ wpc'[v] = "push" => wpc[v] = "push" /\ wdepender'[v] = wdepender[v]
    BY <1>6 DEF FoundByFront, EvaluationKept, PushKept
  <2>2. ftarget \in Terminal
    BY <1>6 DEF FoundByFront, FrontDecrement, IInv, FrontShape
  <2>3. ~Independent(ftarget)
    BY <1>6, <2>2, FoundIndependent
  <2>. QED
    BY <1>1, <1>2, <2>1, <2>3 DEF ScheduledApart
<1>7. ASSUME NEW w \in Worker, PoppedBy(w) PROVE ScheduledApart'
  <2>1. /\ independent # <<>> /\ independent' = Tail(independent)
        /\ wtarget'[w] = Head(independent)
        /\ fpc' = "push" => fpc = "push" /\ ftarget' = ftarget
        /\ \A v \in Worker : v # w /\ Evaluating(v)' => Evaluating(v) /\ wtarget'[v] = wtarget[v]
        /\ \A v \in Worker : wpc'[v] = "push" => wpc[v] = "push" /\ wdepender'[v] = wdepender[v]
    BY <1>7 DEF PoppedBy, EvaluationKept, PushKept, FrontKept
  <2>2. wtarget'[w] = independent[1] /\ 1 \in 1..Len(independent)
    BY <1>0, <2>1
  <2>3. ASSUME NEW i \in 1..Len(independent')
        PROVE  /\ i + 1 \in 1..Len(independent) /\ independent'[i] = independent[i + 1]
               /\ i + 1 # 1
    BY <1>0, <2>1
  <2>4. \A i, j \in 1..Len(independent') : i # j => i + 1 # j + 1
    OBVIOUS
  <2>5. \A v \in Worker : Evaluating(v)' =>
           \/ v = w /\ wtarget'[v] = independent[1]
           \/ Evaluating(v) /\ wtarget'[v] = wtarget[v]
    BY <2>1, <2>2
  <2>6. \A i, j \in 1..Len(independent') : i # j => independent'[i] # independent'[j]
    BY <1>1, <2>3, <2>4 DEF ScheduledApart
  <2>7. \A i \in 1..Len(independent'), v \in Worker :
           /\ Evaluating(v)' => independent'[i] # wtarget'[v]
           /\ wpc'[v] = "push" => independent'[i] # wdepender'[v]
    BY <1>1, <2>1, <2>2, <2>3, <2>5 DEF ScheduledApart
  <2>8. \A u, v \in Worker : wpc'[v] = "push" =>
           /\ Evaluating(u)' => wtarget'[u] # wdepender'[v]
           /\ u # v /\ wpc'[u] = "push" => wdepender'[u] # wdepender'[v]
    BY <1>1, <2>1, <2>2, <2>5 DEF ScheduledApart
  <2>9. fpc' = "push" =>
           /\ \A i \in 1..Len(independent') : independent'[i] # ftarget'
           /\ \A v \in Worker : /\ Evaluating(v)' => wtarget'[v] # ftarget'
                                /\ wpc'[v] = "push" => wdepender'[v] # ftarget'
    BY <1>1, <2>1, <2>2, <2>3, <2>5 DEF ScheduledApart
  <2>. QED
    BY <2>6, <2>7, <2>8, <2>9 DEF ScheduledApart
<1>8. ASSUME NEW w \in Worker, PushedBy(w) PROVE ScheduledApart'
  <2>1. /\ wpc[w] = "push" /\ wpc'[w] # "push"
        /\ independent' = Append(independent, wdepender[w])
        /\ fpc' = "push" => fpc = "push" /\ ftarget' = ftarget
        /\ \A v \in Worker : /\ Evaluating(v)' => Evaluating(v) /\ wtarget'[v] = wtarget[v]
                             /\ wpc'[v] = "push" => wpc[v] = "push" /\ wdepender'[v] = wdepender[v]
    BY <1>8 DEF PushedBy, EvaluationKept, PushKept, FrontKept
  <2>2. wdepender[w] \in Terminal
    BY <2>1 DEF IInv, WorkerIndices, IndicesOf
  <2>3. \A i \in 1..Len(independent') :
           \/ i \in 1..Len(independent) /\ independent'[i] = independent[i]
           \/ i = Len(independent) + 1 /\ independent'[i] = wdepender[w]
    BY <1>4, <2>1, <2>2
  <2>4. /\ \A i \in 1..Len(independent) : independent[i] # wdepender[w]
        /\ \A v \in Worker : /\ Evaluating(v) => wtarget[v] # wdepender[w]
                             /\ v # w /\ wpc[v] = "push" => wdepender[v] # wdepender[w]
        /\ fpc = "push" => wdepender[w] # ftarget
    BY <1>1, <2>1 DEF ScheduledApart
  <2>5. \A v \in Worker : wpc'[v] = "push" => v # w
    BY <2>1
  <2>. QED
    BY <1>1, <2>1, <2>3, <2>4, <2>5 DEF ScheduledApart
<1>9. ASSUME NEW w \in Worker, FoundBy(w) PROVE ScheduledApart'
  <2>1. /\ independent' = independent /\ wdepender'[w] = wdepender[w]
        /\ fpc' = "push" => fpc = "push" /\ ftarget' = ftarget
        /\ \A v \in Worker : Evaluating(v)' => Evaluating(v) /\ wtarget'[v] = wtarget[v]
        /\ \A v \in Worker : v # w /\ wpc'[v] = "push" =>
                               wpc[v] = "push" /\ wdepender'[v] = wdepender[v]
    BY <1>9 DEF FoundBy, EvaluationKept, PushKept, FrontKept
  <2>2. wdepender[w] \in Terminal
    BY <1>9, DecreasedDepender DEF FoundBy
  <2>3. ~Independent(wdepender[w])
    BY <1>9, <2>2, FoundIndependent
  <2>4. /\ \A i \in 1..Len(independent) : independent[i] # wdepender[w]
        /\ \A v \in Worker : /\ Evaluating(v) => wtarget[v] # wdepender[w]
                             /\ wpc[v] = "push" => wdepender[v] # wdepender[w]
        /\ fpc = "push" => ftarget # wdepender[w]
    BY <1>2, <2>3
  <2>5. \A v \in Worker : wpc'[v] = "push" =>
           \/ v = w /\ wdepender'[v] = wdepender[w]
           \/ wpc[v] = "push" /\ wdepender'[v] = wdepender[v]
    BY <2>1
  <2>. QED
    BY <1>1, <2>1, <2>4, <2>5 DEF ScheduledApart
<1>. QED
  BY <1>3, <1>5, <1>6, <1>7, <1>8, <1>9, ScheduleStep

-----------------------------------------------------------------------------
(* The theorems *)

\* The invariant holds at the start.
LEMMA IInvInit ==
  ASSUME Init
  PROVE  IInv
<1>1. TypeOK
  <2>1. TerminalTypes
    BY DEF Init, TerminalTypes
  <2>2. QueueTypes
    <3>1. independent = <<>> /\ n_terminals = 0 /\ notice = FALSE
      BY DEF Init
    <3>2. independent \in Seq(Terminal)
      BY <3>1
    <3>3. n_terminals \in Int
      BY <3>1
    <3>4. notice \in BOOLEAN /\ limit_terminals \in Limits
      BY <3>1 DEF Init
    <3>. QED
      BY <3>2, <3>3, <3>4 DEF QueueTypes
  <2>4. FrontTypes
    <3>1. fargs \in Seq(Terminal) /\ fpc \in FrontPC
      BY DEF Init, FrontPC
    <3>. QED
      BY <3>1 DEF Init, FrontTypes
  <2>3. WorkerTypes
    BY DEF Init, WorkerTypes, WorkerPC
  <2>. QED
    BY <2>1, <2>2, <2>3, <2>4 DEF TypeOK
<1>2. WorkerIndices /\ DependerRead /\ TargetsApart
  BY DEF Init, WorkerIndices, IndicesOf, Busy, Signalling, DependerRead, TargetsApart
<1>3. FrontShape /\ UnbornBlank /\ OperandsGiven
  BY DEF Init, FrontShape, UnbornBlank, OperandsGiven, Busy
<1>4. DueEntriesPending /\ OperandsEntered
  BY DEF Init, DueEntriesPending, OperandsEntered
<1>5. CountsDue
  <2>1. ASSUME NEW d \in Terminal PROVE Awaits(d) = {}
    BY DEF Init, Awaits, Entries
  <2>2. IsFiniteSet({}) /\ Cardinality({}) = 0
    BY FS_EmptySet
  <2>3. \A d \in Terminal : dc[d] = 0 /\ Guard(d) = 0
    BY DEF Init, Guard
  <2>. QED
    BY <2>1, <2>2, <2>3 DEF CountsDue
<1>6. ScheduledIndependent /\ ScheduledApart
  BY DEF Init, ScheduledIndependent, ScheduledApart, Evaluating
<1>. QED
  BY <1>1, <1>2, <1>3, <1>4, <1>5, <1>6 DEF IInv

\* Every step keeps the invariant.
LEMMA IInvNext ==
  ASSUME IInv, Next
  PROVE  IInv'
<1>1. TypeOK'
  BY TerminalTypesStep, QueueTypesStep, FrontTypesStep, WorkerTypesStep DEF TypeOK, IInv
<1>2. WorkerIndices'
  BY <1>1, WorkerIndicesStep DEF IInv
<1>3. FrontShape' /\ UnbornBlank' /\ OperandsGiven'
  BY <1>1, FrontShapeStep, UnbornBlankStep, OperandsGivenStep
<1>4. DependerRead' /\ DueEntriesPending' /\ OperandsEntered' /\ CountsDue'
  BY <1>1, DependerReadStep, DueEntriesPendingStep, OperandsEnteredStep, CountsDueStep
<1>5. ScheduledIndependent' /\ ScheduledApart' /\ TargetsApart'
  BY <1>1, <1>2, ScheduledIndependentStep, ScheduledApartStep, TargetsApartStep
<1>. QED
  BY <1>1, <1>2, <1>3, <1>4, <1>5 DEF IInv

\* So does a stuttering step.
LEMMA IInvStutter ==
  ASSUME IInv, UNCHANGED vars
  PROVE  IInv'
<1>. USE DEF vars, terminalVars, queueVars, frontVars, workerVars
<1>1. TypeOK'
  BY DEF IInv, TypeOK, TerminalTypes, QueueTypes, FrontTypes, WorkerTypes
<1>2. WorkerIndices' /\ DependerRead' /\ TargetsApart'
  BY DEF IInv, WorkerIndices, IndicesOf, Busy, Signalling, DependerRead, TargetsApart,
         Evaluating
<1>3. FrontShape' /\ UnbornBlank' /\ OperandsGiven'
  BY DEF IInv, FrontShape, UnbornBlank, OperandsGiven, Busy, Guard
<1>4. DueEntriesPending' /\ OperandsEntered'
  BY DEF IInv, DueEntriesPending, OperandsEntered, Due, Signals
<1>5. CountsDue'
  <2>1. ASSUME NEW d \in Terminal
        PROVE  Awaits(d)' = Awaits(d) /\ Guard(d)' = Guard(d)
    BY DEF Awaits, Entries, Signals, Guard
  <2>2. UNCHANGED <<is_result, dc>>
    OBVIOUS
  <2>. QED
    BY <2>1, <2>2 DEF IInv, CountsDue
<1>6. ScheduledIndependent' /\ ScheduledApart'
  BY DEF IInv, ScheduledIndependent, ScheduledApart, Independent, Evaluating
<1>. QED
  BY <1>1, <1>2, <1>3, <1>4, <1>5, <1>6 DEF IInv

\* The inductive invariant holds in every state of every behaviour.
THEOREM Invariance == SafeSpec => []IInv
<1>1. Init => IInv
  BY IInvInit
<1>2. IInv /\ [Next]_vars => IInv'
  BY IInvNext, IInvStutter
<1>. QED
  BY <1>1, <1>2, PTL DEF SafeSpec

\* Every variable keeps its type: in particular no worker ever takes a cleared entry of
\* a list of dependers, or something outside of its list, for a terminal.
THEOREM TypeCorrect == SafeSpec => []TypeOK
<1>1. IInv => TypeOK
  BY DEF IInv
<1>. QED
  BY <1>1, Invariance, PTL

\* The dc of an expression counts exactly what is going to decrease it, however the
\* frontend's entering of dependencies and the workers' publishing interleave.
THEOREM CountsCorrect == SafeSpec => []DcCounts
<1>1. IInv => DcCounts
  BY DEF IInv, CountsDue, DcCounts, Pending
<1>. QED
  BY <1>1, Invariance, PTL

\* While a worker evaluates an expression each of its operands has a result, as
\* qs_operand_discoverer asserts.
THEOREM OperandsAlwaysReady == SafeSpec => []OperandsReady
<1>1. IInv => OperandsReady
  <2>. SUFFICES ASSUME IInv, NEW w \in Worker, Evaluating(w),
                       NEW k \in 1..Len(operands[wtarget[w]])
                PROVE  is_result[operands[wtarget[w]][k]]
    BY DEF OperandsReady
  <2>. DEFINE t == wtarget[w]
              o == operands[t][k]
  <2>1. t \in Terminal /\ ~is_result[t] /\ dc[t] = 0
    BY DEF IInv, ScheduledIndependent, Independent, WorkerIndices, IndicesOf, Busy, Evaluating
  <2>2. o \in Terminal
    BY <2>1 DEF IInv, TypeOK, TerminalTypes
  <2>3. is_result[o] \/ \E j \in 1..Len(dependers[o]) : dependers[o][j] = t
    BY <2>1 DEF IInv, OperandsEntered
  <2>4. ASSUME NEW j \in 1..Len(dependers[o]), dependers[o][j] = t PROVE is_result[o]
    <3>1. ~Due(o, j)
      BY <2>1, <2>2, <2>4, IndependentNotDue DEF IInv
    <3>. QED
      BY <3>1 DEF Due
  <2>. QED
    BY <2>3, <2>4
<1>. QED
  BY <1>1, Invariance, PTL

-----------------------------------------------------------------------------
(* The references.  So far dc, the queue and the operands were shown to be right, for     *)
(* which nobody has to know who refers to whom; here RInv is added to the invariant and   *)
(* shown to be kept.  From both together follow that reference counts are exact, that no  *)
(* worker reaches for freed memory, that remove_depender finds the entry it clears, that  *)
(* no expression is forgotten or scheduled twice, and that the facility does only what    *)
(* Evaluation promises.                                                                   *)
(*                                                                                        *)
(* The argument: a pending terminal is kept by the frontend, by the discard its worker is *)
(* to carry out, or by a pending expression over it, which gives its reference up only    *)
(* after its own result is published; so the last reference on a terminal is never        *)
(* dropped before it has its result.  A step that adds an operand adds the reference, the *)
(* entry and the count at once, and the entries of an expression are cleared one for one  *)
(* with its operands.                                                                     *)

-----------------------------------------------------------------------------
(* What a step changes *)

\* Memory is created by New and CountPass, and freed with the last reference by one of the
\* four places that drop one.
LEMMA LifeChange ==
  ASSUME IInv, Next, NEW t \in Terminal, life'[t] # life[t]
  PROVE  \/ New(t) \/ (CountPass /\ t = ftarget)
         \/ /\ life[t] # "unborn" /\ refcount[t] = 1 /\ life'[t] = "freed"
            /\ \/ FrontUnref(t) \/ (FrontDiscard(t) /\ is_result[t])
               \/ \E w \in Worker : /\ t = wtarget[w] /\ DiscardUnref(w)
               \/ \E w \in Worker : /\ t = operands[wtarget[w]][windex[w]] /\ Clean(w)
<1>. DEFINE Freed == life[t] # "unborn" /\ refcount[t] = 1 /\ life'[t] = "freed"
<1>0. life \in [Terminal -> {"unborn", "live", "freed"}]
  BY DEF IInv, TypeOK, TerminalTypes
<1>1. ASSUME NEW u \in Terminal, Unref(u), life[u] # "unborn" PROVE Freed /\ t = u
  BY <1>0, <1>1 DEF Unref
<1>2. ASSUME \/ Start \/ CountBlock \/ SpuriousUnblock \/ Link \/ FrontDecrement \/ FrontPush
             \/ Destroy \/ Join \/ Finished
      PROVE  FALSE
  BY <1>2 DEF Start, CountBlock, SpuriousUnblock, Link, FrontDecrement, FrontPush, Destroy,
              Join, Finished, vars, terminalVars
<1>3. CASE CountPass
  BY <1>0, <1>3 DEF CountPass
<1>4. ASSUME NEW u \in Terminal, New(u) PROVE New(t)
  BY <1>0, <1>4 DEF New
<1>5. ASSUME NEW u \in Terminal, Ref(u) \/ \E os \in OperandSeq : Bake(u, os) PROVE FALSE
  BY <1>5 DEF Ref, Bake, terminalVars
<1>6. ASSUME NEW u \in Terminal, FrontUnref(u) PROVE Freed /\ FrontUnref(t)
  <2>1. Unref(u) /\ life[u] # "unborn"
    BY <1>6 DEF FrontUnref, IInv, FrontShape
  <2>. QED
    BY <1>1, <1>6, <2>1
<1>7. ASSUME NEW u \in Terminal, FrontDiscard(u) PROVE Freed /\ FrontDiscard(t) /\ is_result[t]
  <2>1. Unref(u) /\ is_result[u]
    BY <1>7 DEF FrontDiscard
  <2>2. life[u] # "unborn"
    BY <1>7 DEF FrontDiscard, IInv, FrontShape
  <2>. QED
    BY <1>1, <1>7, <2>1, <2>2
<1>8. ASSUME NEW w \in Worker,
             Spawn(w) \/ SpuriousWake(w) \/ Lost(w) \/ Take(w) \/ Woken(w) \/ Evaluate(w)
               \/ RemoveDepender(w) \/ Receive(w) \/ Publish(w) \/ ReadDepender(w)
               \/ Decrement(w) \/ Push(w) \/ Uncount(w)
      PROVE  FALSE
  BY <1>8 DEF Spawn, SpuriousWake, Lost, Take, Woken, Evaluate, RemoveDepender, Receive,
              Publish, ReadDepender, Decrement, Push, Uncount, terminalVars
<1>9. ASSUME NEW w \in Worker, DiscardUnref(w) PROVE Freed /\ t = wtarget[w]
  <2>1. Unref(wtarget[w]) /\ wtarget[w] \in Terminal /\ operands[wtarget[w]] # <<>>
    BY <1>9 DEF DiscardUnref, IInv, WorkerIndices, IndicesOf, Busy, OperandsGiven
  <2>2. life[wtarget[w]] # "unborn"
    BY <2>1 DEF IInv, UnbornBlank
  <2>. QED
    BY <1>1, <2>1, <2>2
<1>10. ASSUME NEW w \in Worker, Clean(w)
       PROVE  Freed /\ t = operands[wtarget[w]][windex[w]]
  <2>. DEFINE d == wtarget[w]
  <2>1. Unref(operands[d][windex[w]]) /\ d \in Terminal /\ windex[w] \in 1..Len(operands[d])
    BY <1>10 DEF Clean, IInv, WorkerIndices, IndicesOf, Busy
  <2>2. operands[d][windex[w]] \in Terminal
    BY <2>1 DEF IInv, TypeOK, TerminalTypes
  <2>3. life[operands[d][windex[w]]] # "unborn"
    BY <2>1, <2>2 DEF IInv, UnbornBlank
  <2>. QED
    BY <1>1, <2>1, <2>2, <2>3
<1>. QED
  BY <1>2, <1>3, <1>4, <1>5, <1>6, <1>7, <1>8, <1>9, <1>10 DEF Next, FrontBake, FrontIdle, Work

\* The frontend gives a reference up by dropping it or in a discard.
LEMMA HeldChange ==
  ASSUME IInv, Next, NEW t \in Terminal
  PROVE  \/ held'[t] = held[t]
         \/ held'[t] = 1 /\ (New(t) \/ (CountPass /\ t = ftarget))
         \/ held'[t] = held[t] + 1 /\ Ref(t)
         \/ held'[t] = held[t] - 1 /\ (FrontUnref(t) \/ FrontDiscard(t))
<1>. USE DEF IInv, TypeOK, FrontTypes
<1>1. ASSUME \/ Start \/ CountBlock \/ SpuriousUnblock \/ Link \/ FrontDecrement \/ FrontPush
             \/ Destroy \/ Join \/ Finished
      PROVE  held' = held
  BY <1>1 DEF Start, CountBlock, SpuriousUnblock, Link, FrontDecrement, FrontPush, Destroy,
              Join, Finished, vars, frontVars
<1>2. CASE CountPass
  BY <1>2 DEF CountPass
<1>3. ASSUME NEW u \in Terminal, New(u) PROVE held'[t] = held[t] \/ (held'[t] = 1 /\ New(t))
  BY <1>3 DEF New
<1>4. ASSUME NEW u \in Terminal, Ref(u)
      PROVE  held'[t] = held[t] \/ (held'[t] = held[t] + 1 /\ Ref(t))
  BY <1>4 DEF Ref
<1>5. ASSUME NEW u \in Terminal, FrontUnref(u)
      PROVE  held'[t] = held[t] \/ (held'[t] = held[t] - 1 /\ FrontUnref(t))
  BY <1>5 DEF FrontUnref
<1>6. ASSUME NEW u \in Terminal, FrontDiscard(u)
      PROVE  held'[t] = held[t] \/ (held'[t] = held[t] - 1 /\ FrontDiscard(t))
  BY <1>6 DEF FrontDiscard
<1>7. ASSUME NEW u \in Terminal, NEW os \in OperandSeq, Bake(u, os) PROVE held' = held
  BY <1>7 DEF Bake
<1>8. ASSUME NEW w \in Worker, Spawn(w) \/ SpuriousWake(w) \/ Lost(w) \/ Work(w)
      PROVE  held' = held
  BY <1>8 DEF Spawn, SpuriousWake, Lost, Work, Take, Woken, Evaluate, RemoveDepender, Receive,
              Publish, DiscardUnref, ReadDepender, Decrement, Push, Clean, Uncount, frontVars
<1>. QED
  BY <1>1, <1>2, <1>3, <1>4, <1>5, <1>6, <1>7, <1>8 DEF Next, FrontBake, FrontIdle

\* A discard is remembered for good.
LEMMA DiscardedChange ==
  ASSUME IInv, Next, NEW t \in Terminal
  PROVE  \/ discarded'[t] = discarded[t]
         \/ discarded'[t] /\ ~discarded[t] /\ FrontDiscard(t) /\ ~is_result[t]
<1>1. discarded \in [Terminal -> BOOLEAN]
  BY DEF IInv, TypeOK, TerminalTypes
<1>2. ASSUME NEW u \in Terminal, FrontDiscard(u)
      PROVE  \/ discarded'[t] = discarded[t]
             \/ discarded'[t] /\ ~discarded[t] /\ FrontDiscard(t) /\ ~is_result[t]
  BY <1>1, <1>2 DEF FrontDiscard
<1>3. ASSUME \/ Start \/ CountBlock \/ SpuriousUnblock \/ FrontBake \/ Destroy \/ Join
             \/ Finished
      PROVE  discarded' = discarded
  BY <1>3 DEF Start, CountBlock, SpuriousUnblock, FrontBake, CountPass, Link, FrontDecrement,
              FrontPush, Destroy, Join, Finished, vars, terminalVars
<1>4. ASSUME NEW u \in Terminal,
             New(u) \/ Ref(u) \/ FrontUnref(u) \/ \E os \in OperandSeq : Bake(u, os)
      PROVE  discarded' = discarded
  BY <1>4 DEF New, Ref, FrontUnref, Bake, terminalVars
<1>5. ASSUME NEW w \in Worker, Spawn(w) \/ SpuriousWake(w) \/ Lost(w) \/ Work(w)
      PROVE  discarded' = discarded
  BY <1>5 DEF Spawn, SpuriousWake, Lost, Work, Take, Woken, Evaluate, RemoveDepender, Receive,
              Publish, DiscardUnref, ReadDepender, Decrement, Push, Clean, Uncount, terminalVars
<1>. QED
  BY <1>2, <1>3, <1>4, <1>5 DEF Next, FrontIdle

-----------------------------------------------------------------------------
(* What an expression owns *)

\* The worker has not cleaned operand k of the expression d that it published.
Holds(w, d, k) ==
  /\ wtarget[w] = d
  /\ \/ wpc[w] \in {"discard", "read", "decrement", "push"}
     \/ wpc[w] = "clean" /\ k >= windex[w]

\* A worker that does not move holds what it held.
LEMMA UnmovedHolds ==
  ASSUME NEW v \in Worker, Unmoved(v), NEW d, NEW k
  PROVE  Holds(v, d, k)' <=> Holds(v, d, k)
BY DEF Unmoved, NoTarget, Holds

\* Only publishing and cleaning change what a worker holds.
LEMMA HoldsKept ==
  ASSUME IInv, Next, NEW v \in Worker, ~Publish(v), ~Clean(v), NEW d, NEW k \in Nat \ {0}
  PROVE  Holds(v, d, k)' <=> Holds(v, d, k)
<1>0. /\ wpc \in [Worker -> WorkerPC] /\ wtarget \in [Worker -> Terminal \cup {None}]
      /\ windex \in [Worker -> Nat] /\ TypeOK
  BY DEF IInv, TypeOK, WorkerTypes
<1>1. ASSUME \/ Start \/ CountBlock \/ SpuriousUnblock \/ FrontBake \/ FrontIdle \/ Join
             \/ Finished
      PROVE  Holds(v, d, k)' <=> Holds(v, d, k)
  BY <1>0, <1>1, FrontMovesNoWorker, UnmovedHolds
<1>2. ASSUME NEW w \in Worker, Spawn(w) \/ SpuriousWake(w) \/ Lost(w) \/ Work(w), w # v
      PROVE  Holds(v, d, k)' <=> Holds(v, d, k)
  BY <1>0, <1>2, WorkerMovesNoOther, UnmovedHolds
<1>3. CASE Spawn(v) \/ SpuriousWake(v) \/ Lost(v) \/ Evaluate(v) \/ Receive(v) \/ Take(v)
             \/ Woken(v) \/ RemoveDepender(v) \/ Uncount(v)
  <2>1. /\ wpc[v] \notin {"discard", "read", "decrement", "push", "clean"}
        /\ wpc'[v] \notin {"discard", "read", "decrement", "push", "clean"}
    BY <1>0, <1>3 DEF Spawn, SpuriousWake, Lost, Evaluate, Receive, Take, Woken, Pop,
                      RemoveDepender, Uncount
  <2>. QED
    BY <2>1 DEF Holds
<1>4. CASE DiscardUnref(v) \/ ReadDepender(v) \/ Decrement(v) \/ Push(v)
  <2>1. wpc[v] \in {"discard", "read", "decrement", "push"} /\ wtarget' = wtarget
    BY <1>4 DEF DiscardUnref, ReadDepender, Decrement, Push
  <2>2. \/ wpc'[v] \in {"read", "decrement", "push"}
        \/ wpc'[v] = "clean" /\ windex'[v] = 1
    <3>1. CASE DiscardUnref(v) \/ ReadDepender(v) \/ Decrement(v)
      BY <1>0, <3>1 DEF DiscardUnref, ReadDepender, Decrement, NextDepender
    <3>2. CASE Push(v)
      <4>. DEFINE wp == [wpc EXCEPT ![v] = IF windex[v] < wn[v] THEN "read" ELSE "clean"]
      <4>1. Signal(wp) /\ wp \in [Worker -> WorkerPC]
        BY <1>0, <3>2 DEF Push, PushIndependent, WorkerPC
      <4>2. wpc'[v] = wp[v]
        BY <1>0, <4>1, SignalMoves
      <4>. QED
        BY <1>0, <3>2, <4>2 DEF Push
    <3>. QED
      BY <1>4, <3>1, <3>2
  <2>. QED
    BY <2>1, <2>2 DEF Holds
<1>. QED
  BY <1>1, <1>2, <1>3, <1>4 DEF Next, Work

\* The worker that publishes holds all operands from then on.
LEMMA PublishHolds ==
  ASSUME IInv, NEW w \in Worker, Publish(w), NEW d, NEW k \in Nat \ {0}
  PROVE  ~Holds(w, d, k) /\ (Holds(w, d, k)' <=> d = wtarget[w])
<1>1. /\ wpc[w] = "publish" /\ wtarget' = wtarget
      /\ wpc'[w] \in {"discard", "read", "clean"} /\ windex'[w] = 1
  BY DEF Publish, NextDepender, IInv, TypeOK, WorkerTypes
<1>. QED
  BY <1>1 DEF Holds

\* The worker that cleans gives up one operand.
LEMMA CleanHolds ==
  ASSUME IInv, NEW w \in Worker, Clean(w), NEW d, NEW k \in 1..Len(operands[wtarget[w]])
  PROVE  Holds(w, d, k)' <=> Holds(w, d, k) /\ k # windex[w]
<1>1. /\ wpc[w] = "clean" /\ wtarget' = wtarget
      /\ \/ /\ windex[w] < Len(operands[wtarget[w]])
            /\ wpc'[w] = "clean" /\ windex'[w] = windex[w] + 1
         \/ wpc'[w] = "count" /\ windex[w] >= Len(operands[wtarget[w]])
  <2>1. wpc \in [Worker -> WorkerPC] /\ windex \in [Worker -> Nat]
    BY DEF IInv, TypeOK, WorkerTypes
  <2>2. /\ wtarget[w] \in Terminal /\ Len(operands[wtarget[w]]) \in Nat
    BY DEF Clean, IInv, WorkerIndices, IndicesOf, Busy, TypeOK, TerminalTypes
  <2>. QED
    BY <2>1, <2>2 DEF Clean
<1>2. wtarget[w] \in Terminal /\ windex[w] \in 1..Len(operands[wtarget[w]])
        /\ Len(operands[wtarget[w]]) \in Nat
  BY DEF Clean, IInv, WorkerIndices, IndicesOf, Busy, TypeOK, TerminalTypes
<1>. QED
  BY <1>1, <1>2 DEF Holds

\* A pending terminal is not freed: somebody has another reference on it.
LEMMA PendingNotFreed ==
  ASSUME IInv, RInv, Next, NEW t \in Terminal, Pending(t)
  PROVE  life'[t] = "live"
<1>. SUFFICES ASSUME life'[t] # life[t] PROVE FALSE
  BY DEF Pending
<1>1. life[t] = "live" /\ ~is_result[t]
  BY DEF Pending
<1>2. ~New(t) /\ ~(CountPass /\ t = ftarget)
  BY <1>1 DEF New, CountPass, IInv, FrontShape
<1>3. CASE refcount[t] = 1 /\ FrontUnref(t)
  <2>1. /\ refcount[t] = held[t] + Cardinality(Uses(t)) + (IF HandedOver(t) THEN 1 ELSE 0)
        /\ IsFiniteSet(Uses(t)) /\ held[t] \in Nat /\ held[t] > 0
    BY <1>3 DEF RInv, RefcountExact, IInv, TypeOK, FrontTypes, FrontUnref
  <2>2. Cardinality(Uses(t)) \in Nat
    BY <2>1, FS_CardinalityType
  <2>3. held[t] = 1 /\ Cardinality(Uses(t)) = 0
    BY <1>3, <2>1, <2>2
  <2>4. Uses(t) = {}
    BY <2>1, <2>3, FS_EmptySet
  <2>5. PICK d \in Terminal : Pending(d) /\ \E k \in 1..Len(operands[d]) : operands[d][k] = t
    BY <1>1, <1>3, <2>3 DEF FrontUnref
  <2>6. \E k \in 1..Len(operands[d]) : <<d, k>> \in Uses(t)
    BY <2>5 DEF Uses, Referenced
  <2>. QED
    BY <2>4, <2>6
<1>4. ASSUME NEW w \in Worker, t = wtarget[w], DiscardUnref(w) PROVE FALSE
  BY <1>1, <1>4 DEF DiscardUnref, IInv, TargetsApart, Busy, Evaluating
<1>5. ASSUME NEW w \in Worker, t = operands[wtarget[w]][windex[w]], Clean(w) PROVE FALSE
  <2>1. windex[w] \in 1..Len(operands[wtarget[w]]) /\ Busy(w)
    BY <1>5 DEF Clean, IInv, WorkerIndices, IndicesOf, Busy
  <2>. QED
    BY <1>1, <1>5, <2>1 DEF RInv, OperandsResolved
<1>. QED
  BY <1>1, <1>2, <1>3, <1>4, <1>5, LifeChange

\* An expression becomes pending when it is counted, and stays so until it is published.
LEMMA PendingStep ==
  ASSUME IInv, RInv, Next, NEW t \in Terminal
  PROVE  /\ Pending(t) => Pending(t)' \/ \E w \in Worker : Publish(w) /\ wtarget[w] = t
         /\ Pending(t)' => Pending(t) \/ (CountPass /\ t = ftarget)
<1>1. ASSUME Pending(t)
      PROVE  Pending(t)' \/ \E w \in Worker : Publish(w) /\ wtarget[w] = t
  <2>1. life'[t] = "live" /\ life[t] = "live" /\ ~is_result[t]
    BY <1>1, PendingNotFreed DEF Pending
  <2>2. ~New(t)
    BY <2>1 DEF New
  <2>3. ~is_result'[t] \/ \E w \in Worker : Publish(w) /\ wtarget[w] = t
    BY <2>1, <2>2, ResultStep
  <2>. QED
    BY <2>1, <2>3 DEF Pending
<1>2. ASSUME Pending(t)' PROVE Pending(t) \/ (CountPass /\ t = ftarget)
  <2>1. life'[t] = "live" /\ ~is_result'[t]
    BY <1>2 DEF Pending
  <2>2. ~is_result[t]
    BY <2>1, ResultStep
  <2>3. ~New(t)
    BY <2>1 DEF New, IInv, TypeOK, TerminalTypes
  <2>4. life[t] = "live" \/ (CountPass /\ t = ftarget)
    BY <2>1, <2>3, LifeChange
  <2>. QED
    BY <2>2, <2>4 DEF Pending
<1>. QED
  BY <1>1, <1>2

\* What a worker evaluates is pending.
LEMMA TargetPending ==
  ASSUME IInv, RInv, NEW w \in Worker, Evaluating(w)
  PROVE  wtarget[w] \in Terminal /\ Pending(wtarget[w])
<1>1. wtarget[w] \in Terminal /\ Independent(wtarget[w])
  BY DEF IInv, WorkerIndices, IndicesOf, Busy, Evaluating, ScheduledIndependent
<1>2. life[wtarget[w]] \in {"unborn", "live", "freed"}
  BY <1>1 DEF IInv, TypeOK, TerminalTypes
<1>. QED
  BY <1>1, <1>2 DEF Independent, Pending, RInv, PendingLive

\* The references of an expression on its operands stay until they are cleaned.
LEMMA ReferencedKept ==
  ASSUME IInv, RInv, Next, NEW d \in Terminal, NEW k \in 1..Len(operands[d]),
         \A w \in Worker : ~(Clean(w) /\ wtarget[w] = d /\ windex[w] = k)
  PROVE  Referenced(d, k)' <=> Referenced(d, k)
<1>0. k \in Nat \ {0} /\ operands[d] # <<>>
  BY DEF IInv, TypeOK, TerminalTypes
<1>1. life[d] # "unborn"
  BY <1>0 DEF IInv, UnbornBlank
<1>2. ~(CountPass /\ d = ftarget)
  BY <1>1 DEF CountPass, IInv, FrontShape
<1>3. (Referenced(d, k) <=> Pending(d) \/ \E w \in Worker : Holds(w, d, k))
      /\ (Referenced(d, k)' <=> Pending(d)' \/ \E w \in Worker : Holds(w, d, k)')
  BY DEF Referenced, Holds
<1>4. CASE \E w \in Worker : Publish(w) /\ wtarget[w] = d
  <2>1. PICK w \in Worker : Publish(w) /\ wtarget[w] = d
    BY <1>4
  <2>2. Pending(d)
    BY <2>1, TargetPending DEF Publish, Evaluating
  <2>3. Holds(w, d, k)'
    BY <1>0, <2>1, PublishHolds
  <2>. QED
    BY <1>3, <2>2, <2>3
<1>5. CASE ~\E w \in Worker : Publish(w) /\ wtarget[w] = d
  <2>1. Pending(d)' <=> Pending(d)
    BY <1>2, <1>5, PendingStep
  <2>2. ASSUME NEW w \in Worker PROVE Holds(w, d, k)' <=> Holds(w, d, k)
    <3>1. CASE Publish(w)
      BY <1>0, <1>5, <3>1, PublishHolds
    <3>2. CASE Clean(w)
      <4>1. CASE wtarget[w] = d
        BY <3>2, <4>1, CleanHolds
      <4>2. CASE wtarget[w] # d
        <5>1. wtarget' = wtarget
          BY <3>2 DEF Clean
        <5>. QED
          BY <4>2, <5>1 DEF Holds
      <4>. QED
        BY <4>1, <4>2
    <3>3. CASE ~Publish(w) /\ ~Clean(w)
      BY <1>0, <3>3, HoldsKept
    <3>. QED
      BY <3>1, <3>2, <3>3
  <2>. QED
    BY <1>3, <2>1, <2>2
<1>. QED
  BY <1>4, <1>5

-----------------------------------------------------------------------------
(* What the references are counted for *)

\* A use is an operand of an expression that still refers to it.
LEMMA UsesMember ==
  ASSUME NEW t, NEW d, NEW k
  PROVE  <<d, k>> \in Uses(t) <=> /\ d \in Terminal /\ k \in 1..Len(operands[d])
                                  /\ operands[d][k] = t /\ Referenced(d, k)
BY DEF Uses

\* The same of the next state.
LEMMA UsesMemberNext ==
  ASSUME NEW t, NEW d, NEW k
  PROVE  <<d, k>> \in Uses(t)' <=> /\ d \in Terminal /\ k \in 1..Len(operands'[d])
                                   /\ operands'[d][k] = t /\ Referenced(d, k)'
BY DEF Uses

\* Uses are pairs of a terminal and a number.
LEMMA UsesArePairs ==
  ASSUME NEW t, NEW e
  PROVE  /\ e \in Uses(t) => e = <<e[1], e[2]>>
         /\ e \in Uses(t)' => e = <<e[1], e[2]>>
<1>1. ASSUME NEW d, NEW n, e \in {d} \X (1..n) PROVE e = <<e[1], e[2]>>
  BY <1>1
<1>. QED
  BY <1>1 DEF Uses

\* Only Link gives an expression another operand.
LEMMA OperandsKept ==
  ASSUME Next, ~Link
  PROVE  operands' = operands
<1>1. ASSUME \/ Start \/ CountBlock \/ SpuriousUnblock \/ FrontBake \/ Destroy \/ Join
             \/ Finished
      PROVE  operands' = operands
  BY <1>1 DEF Start, CountBlock, SpuriousUnblock, FrontBake, CountPass, FrontDecrement,
              FrontPush, Destroy, Join, Finished, vars, terminalVars
<1>2. ASSUME NEW u \in Terminal,
             New(u) \/ Ref(u) \/ FrontUnref(u) \/ FrontDiscard(u)
               \/ \E os \in OperandSeq : Bake(u, os)
      PROVE  operands' = operands
  BY <1>2 DEF New, Ref, FrontUnref, FrontDiscard, Bake, terminalVars
<1>3. ASSUME NEW w \in Worker, Spawn(w) \/ SpuriousWake(w) \/ Lost(w) \/ Work(w)
      PROVE  operands' = operands
  BY <1>3 DEF Spawn, SpuriousWake, Lost, Work, Take, Woken, Evaluate, RemoveDepender, Receive,
              Publish, DiscardUnref, ReadDepender, Decrement, Push, Clean, Uncount, terminalVars
<1>. QED
  BY <1>1, <1>2, <1>3 DEF Next, FrontIdle

\* Other steps than linking and cleaning leave the uses of a terminal alone.
LEMMA UsesKept ==
  ASSUME IInv, RInv, Next, ~Link, \A w \in Worker : ~Clean(w), NEW t
  PROVE  Uses(t)' = Uses(t)
<1>1. operands' = operands
  BY OperandsKept
<1>2. ASSUME NEW d, NEW k PROVE <<d, k>> \in Uses(t)' <=> <<d, k>> \in Uses(t)
  BY <1>1, UsesMember, UsesMemberNext, ReferencedKept
<1>. QED
  BY <1>2, UsesArePairs

\* Operand n of the expression f that is built is going to be o.
Links(f, n, o) == f = ftarget /\ n = Len(operands[f]) + 1 /\ o = fargs[n]

\* Link appends that operand.
LEMMA OperandsAfterLink ==
  ASSUME IInv, Link, NEW f, NEW n, NEW o, Links(f, n, o)
  PROVE  /\ f \in Terminal /\ f = ftarget /\ o \in Terminal /\ o = fargs[n]
         /\ n \in Nat \ {0} /\ n \in 1..Len(fargs) /\ Len(operands[f]) = n - 1
         /\ Len(operands'[f]) = n /\ operands'[f][n] = o
         /\ \A k \in 1..(n - 1) : operands'[f][k] = operands[f][k]
         /\ \A d \in Terminal : d # f => operands'[d] = operands[d]
<1>0. f = ftarget /\ n = Len(operands[f]) + 1 /\ o = fargs[n]
  BY DEF Links
<1>1. f \in Terminal /\ Len(operands[f]) < Len(fargs)
  BY <1>0 DEF Link, IInv, FrontShape
<1>2. operands[f] \in Seq(Terminal) /\ fargs \in Seq(Terminal)
  BY <1>1 DEF IInv, TypeOK, TerminalTypes, FrontTypes
<1>3. Len(operands[f]) \in Nat /\ Len(fargs) \in Nat
  BY <1>2
<1>4. n - 1 = Len(operands[f]) /\ n \in Nat \ {0} /\ n \in 1..Len(fargs)
  BY <1>0, <1>1, <1>3
<1>5. o \in Terminal
  BY <1>0, <1>2, <1>4
<1>6. operands' = [operands EXCEPT ![f] = Append(operands[f], o)]
  BY <1>0 DEF Link
<1>7. operands'[f] = Append(operands[f], o)
        /\ \A d \in Terminal : d # f => operands'[d] = operands[d]
  BY <1>1, <1>6 DEF IInv, TypeOK, TerminalTypes
<1>8. /\ Len(operands'[f]) = n /\ operands'[f][n] = o
      /\ \A k \in 1..(n - 1) : operands'[f][k] = operands[f][k]
  BY <1>2, <1>4, <1>5, <1>7
<1>. QED
  BY <1>0, <1>1, <1>4, <1>5, <1>7, <1>8

\* Link makes the expression that is built use one operand more.
LEMMA UsesAfterLink ==
  ASSUME IInv, RInv, Next, Link, NEW t, NEW f, NEW n, NEW o, Links(f, n, o)
  PROVE  /\ <<f, n>> \notin Uses(t)
         /\ Uses(t)' = IF t = o THEN Uses(t) \cup {<<f, n>>} ELSE Uses(t)
<1>0. /\ f \in Terminal /\ f = ftarget
      /\ n \in Nat \ {0} /\ Len(operands[f]) = n - 1
      /\ Len(operands'[f]) = n /\ operands'[f][n] = o
      /\ \A k \in 1..(n - 1) : operands'[f][k] = operands[f][k]
      /\ \A d \in Terminal : d # f => operands'[d] = operands[d]
  BY OperandsAfterLink
<1>1. fpc = "link" /\ life[f] # "unborn" /\ ~is_result[f]
  BY <1>0 DEF Link, IInv, FrontShape
<1>7. Pending(f)'
  <2>1. life[f] = "live" /\ life' = life /\ is_result' = is_result
    BY <1>0, <1>1 DEF Link, RInv, PendingLive, IInv, TypeOK, TerminalTypes
  <2>. QED
    BY <1>1, <2>1 DEF Pending
<1>8. Referenced(f, n)'
  BY <1>7 DEF Referenced
<1>9. \A w \in Worker : ~Clean(w)
  <2>1. Len(operands'[f]) # Len(operands[f])
    BY <1>0
  <2>. QED
    BY <2>1 DEF Clean
<1>10. ASSUME NEW d \in Terminal, NEW k \in 1..Len(operands[d])
       PROVE  Referenced(d, k)' <=> Referenced(d, k)
  BY <1>9, ReferencedKept
<1>11. <<f, n>> \notin Uses(t)
  BY <1>0, UsesMember
<1>12. ASSUME NEW d, NEW k
       PROVE  <<d, k>> \in Uses(t)' <=> <<d, k>> \in Uses(t) \/ (t = o /\ d = f /\ k = n)
  <2>1. CASE d \in Terminal /\ d # f
    BY <1>0, <1>10, <2>1, UsesMember, UsesMemberNext
  <2>2. CASE d = f
    <3>1. 1..n = (1..(n - 1)) \cup {n} /\ n \notin 1..(n - 1) /\ n \in 1..n
      BY <1>0
    <3>2. CASE k = n
      <4>1. <<f, n>> \in Uses(t)' <=> t = o
        BY <1>0, <1>8, <3>1, UsesMemberNext
      <4>. QED
        BY <1>11, <2>2, <3>2, <4>1
    <3>3. CASE k # n
      <4>1. k \in 1..Len(operands'[f]) <=> k \in 1..Len(operands[f])
        BY <1>0, <3>1, <3>3
      <4>2. k \in 1..Len(operands[f]) => operands'[f][k] = operands[f][k]
        BY <1>0
      <4>3. k \in 1..Len(operands[f]) => (Referenced(f, k)' <=> Referenced(f, k))
        BY <1>0, <1>10
      <4>4. <<f, k>> \in Uses(t)' <=> <<f, k>> \in Uses(t)
        BY <1>0, <4>1, <4>2, <4>3, UsesMember, UsesMemberNext
      <4>. QED
        BY <2>2, <3>3, <4>4
    <3>. QED
      BY <3>2, <3>3
  <2>3. CASE d \notin Terminal
    BY <1>0, <2>3, UsesMember, UsesMemberNext
  <2>. QED
    BY <2>1, <2>2, <2>3
<1>13. Uses(t)' = IF t = o THEN Uses(t) \cup {<<f, n>>} ELSE Uses(t)
  <2>1. CASE t = o
    BY <1>12, <2>1, UsesArePairs
  <2>2. CASE t # o
    <3>1. ASSUME NEW e PROVE e \in Uses(t)' <=> e \in Uses(t)
      <4>1. <<e[1], e[2]>> \in Uses(t)' <=> <<e[1], e[2]>> \in Uses(t)
        BY <1>12, <2>2
      <4>. QED
        BY <4>1, UsesArePairs
    <3>. QED
      BY <2>2, <3>1
  <2>. QED
    BY <2>1, <2>2
<1>. QED
  BY <1>11, <1>13

\* Cleaning takes one use away from the operand it has come to.
LEMMA UsesAfterClean ==
  ASSUME IInv, RInv, Next, NEW w \in Worker, Clean(w), NEW t,
         NEW s, s = wtarget[w], NEW i, i = windex[w]
  PROVE  /\ s \in Terminal /\ i \in 1..Len(operands[s]) /\ operands[s][i] \in Terminal
         /\ <<s, i>> \in Uses(operands[s][i])
         /\ Uses(t)' = Uses(t) \ {<<s, i>>}
<1>1. s \in Terminal /\ i \in 1..Len(operands[s]) /\ Busy(w) /\ ~Evaluating(w)
  BY DEF Clean, IInv, WorkerIndices, IndicesOf, Busy, Evaluating
<1>21. operands[s] \in Seq(Terminal)
  BY <1>1 DEF IInv, TypeOK, TerminalTypes
<1>22. Len(operands[s]) \in Nat
  BY <1>21
<1>23. i \in Nat \ {0}
  BY <1>1, <1>22
<1>2. operands[s][i] \in Terminal
  BY <1>1, <1>21
<1>3. Referenced(s, i)
  BY <1>23 DEF Clean, Referenced
<1>4. <<s, i>> \in Uses(operands[s][i])
  BY <1>1, <1>3, UsesMember
<1>5. operands' = operands /\ is_result' = is_result /\ wtarget' = wtarget
  BY DEF Clean
<1>6. ~Referenced(s, i)'
  <2>1. ~Pending(s)'
    BY <1>1, <1>5 DEF Pending, IInv, TargetsApart
  <2>2. Holds(w, s, i)' <=> Holds(w, s, i) /\ i # windex[w]
    BY <1>1, CleanHolds
  <2>3. ASSUME NEW v \in Worker, v # w PROVE ~Holds(v, s, i)'
    <3>1. Unmoved(v)
      BY <2>3, WorkerMovesNoOther DEF IInv, Work
    <3>2. ~Holds(v, s, i)
      BY <1>1, <2>3 DEF Holds, IInv, TargetsApart, Busy
    <3>. QED
      BY <3>1, <3>2, UnmovedHolds
  <2>4. Referenced(s, i)' => Pending(s)' \/ \E v \in Worker : Holds(v, s, i)'
    BY DEF Referenced, Holds
  <2>. QED
    BY <2>1, <2>2, <2>3, <2>4
<1>7. ASSUME NEW d \in Terminal, NEW k \in 1..Len(operands[d]), <<d, k>> # <<s, i>>
      PROVE  Referenced(d, k)' <=> Referenced(d, k)
  <2>1. ASSUME NEW v \in Worker, Clean(v) PROVE v = w
    <3>1. wpc[v] = "clean" /\ wpc[w] = "clean" /\ wpc \in [Worker -> WorkerPC]
            /\ windex \in [Worker -> Nat]
      BY <2>1 DEF Clean, IInv, TypeOK, WorkerTypes
    <3>2. SUFFICES ASSUME v # w PROVE FALSE
      OBVIOUS
    <3>3. wpc'[v] = wpc[v] /\ windex'[v] = windex[v]
      BY <3>1, <3>2 DEF Clean
    <3>4. Len(operands[wtarget[v]]) \in Nat
      BY <2>1 DEF Clean, IInv, WorkerIndices, IndicesOf, Busy, TypeOK, TerminalTypes
    <3>. QED
      BY <2>1, <3>1, <3>3, <3>4 DEF Clean
  <2>. QED
    BY <1>7, <2>1, ReferencedKept
<1>8. ASSUME NEW d, NEW k
      PROVE  <<d, k>> \in Uses(t)' <=> <<d, k>> \in Uses(t) /\ <<d, k>> # <<s, i>>
  <2>1. CASE <<d, k>> = <<s, i>>
    <3>1. d = s /\ k = i
      BY <2>1
    <3>. QED
      BY <1>6, <3>1, UsesMemberNext
  <2>2. CASE <<d, k>> # <<s, i>>
    BY <1>5, <1>7, <2>2, UsesMember, UsesMemberNext
  <2>. QED
    BY <2>1, <2>2
<1>9. Uses(t)' = Uses(t) \ {<<s, i>>}
  BY <1>8, UsesArePairs
<1>. QED
  BY <1>1, <1>2, <1>4, <1>9

\* The reference that a discard handed over is the worker's from the discard until the
\* worker drops it after publishing.
LEMMA HandedOverStep ==
  ASSUME IInv, RInv, Next, NEW t \in Terminal
  PROVE  \/ HandedOver(t)' <=> HandedOver(t)
         \/ /\ ~HandedOver(t) /\ HandedOver(t)'
            /\ FrontDiscard(t) /\ ~is_result[t]
         \/ /\ HandedOver(t) /\ ~HandedOver(t)'
            /\ \E w \in Worker : DiscardUnref(w) /\ wtarget[w] = t
<1>. DEFINE Drops(w) == wtarget[w] = t /\ wpc[w] = "discard"
<1>0. /\ wpc \in [Worker -> WorkerPC] /\ wtarget \in [Worker -> Terminal \cup {None}] /\ TypeOK
      /\ HandedOver(t) <=> discarded[t] /\ (~is_result[t] \/ \E w \in Worker : Drops(w))
      /\ HandedOver(t)' <=> discarded'[t] /\ (~is_result'[t] \/ \E w \in Worker : Drops(w)')
  BY DEF IInv, TypeOK, WorkerTypes, HandedOver
<1>1. ASSUME NEW v \in Worker, ~Publish(v), ~DiscardUnref(v) PROVE Drops(v)' <=> Drops(v)
  <2>1. ASSUME \/ Start \/ CountBlock \/ SpuriousUnblock \/ FrontBake \/ FrontIdle \/ Join
               \/ Finished
        PROVE  Unmoved(v)
    BY <1>0, <2>1, FrontMovesNoWorker
  <2>2. ASSUME NEW w \in Worker, Spawn(w) \/ SpuriousWake(w) \/ Lost(w) \/ Work(w), w # v
        PROVE  Unmoved(v)
    BY <1>0, <2>2, WorkerMovesNoOther
  <2>3. CASE Push(v)
    <3>. DEFINE wp == [wpc EXCEPT ![v] = IF windex[v] < wn[v] THEN "read" ELSE "clean"]
    <3>1. Signal(wp) /\ wp \in [Worker -> WorkerPC] /\ wpc[v] = "push"
      BY <1>0, <2>3 DEF Push, PushIndependent, WorkerPC
    <3>2. wpc'[v] = wp[v]
      BY <1>0, <3>1, SignalMoves
    <3>. QED
      BY <1>0, <3>1, <3>2
  <2>4. ASSUME \/ Spawn(v) \/ SpuriousWake(v) \/ Lost(v) \/ Take(v) \/ Woken(v) \/ Evaluate(v)
               \/ RemoveDepender(v) \/ Receive(v) \/ ReadDepender(v) \/ Decrement(v)
               \/ Clean(v) \/ Uncount(v)
        PROVE  wpc[v] # "discard" /\ wpc'[v] # "discard"
    BY <1>0, <2>4 DEF Spawn, SpuriousWake, Lost, Take, Woken, Pop, Evaluate, RemoveDepender,
                      Receive, ReadDepender, Decrement, NextDepender, Clean, Uncount
  <2>5. Unmoved(v) => (Drops(v)' <=> Drops(v))
    BY DEF Unmoved, NoTarget
  <2>. QED
    BY <1>1, <2>1, <2>2, <2>3, <2>4, <2>5 DEF Next, Work
<1>2. CASE \E w \in Worker : DiscardUnref(w) /\ wtarget[w] = t
  <2>1. PICK w \in Worker : DiscardUnref(w) /\ wtarget[w] = t
    BY <1>2
  <2>2. /\ wpc[w] = "discard" /\ discarded' = discarded /\ is_result' = is_result
        /\ wpc'[w] # "discard" /\ wtarget' = wtarget
    BY <1>0, <2>1 DEF DiscardUnref, NextDepender
  <2>3. discarded[t] /\ is_result[t]
    BY <2>1, <2>2 DEF RInv, DiscardsMarked, IInv, TargetsApart, Busy, Evaluating
  <2>4. \A v \in Worker : v # w => ~Drops(v)'
    <3>1. \A v \in Worker : v # w => wtarget[v] # t \/ wpc[v] # "discard"
      BY <2>1, <2>2 DEF IInv, TargetsApart, Busy
    <3>2. \A v \in Worker : v # w => wpc'[v] = wpc[v]
      BY <1>0, <2>1 DEF DiscardUnref, NextDepender
    <3>. QED
      BY <2>2, <3>1, <3>2
  <2>. QED
    BY <1>0, <1>2, <2>1, <2>2, <2>3, <2>4
<1>3. CASE \E w \in Worker : Publish(w)
  <2>1. PICK w \in Worker : Publish(w)
    BY <1>3
  <2>2. /\ discarded' = discarded /\ is_result' = [is_result EXCEPT ![wtarget[w]] = TRUE]
        /\ wtarget' = wtarget /\ (wpc'[w] = "discard" <=> discarded[wtarget[w]])
        /\ wpc[w] = "publish"
        /\ \A v \in Worker : v # w => wpc'[v] = wpc[v]
    BY <1>0, <2>1 DEF Publish, NextDepender
  <2>3. ~is_result[wtarget[w]] /\ wtarget[w] \in Terminal /\ is_result \in [Terminal -> BOOLEAN]
    BY <2>2, TargetPending DEF Evaluating, Pending, IInv, TypeOK, TerminalTypes
  <2>4. CASE t = wtarget[w]
    BY <1>0, <2>2, <2>3, <2>4
  <2>5. CASE t # wtarget[w]
    <3>1. is_result'[t] = is_result[t] /\ \A v \in Worker : Drops(v)' <=> Drops(v)
      BY <2>2, <2>3, <2>5
    <3>. QED
      BY <1>0, <2>2, <3>1
  <2>. QED
    BY <2>4, <2>5
<1>4. CASE /\ \A w \in Worker : ~Publish(w)
           /\ ~\E w \in Worker : DiscardUnref(w) /\ wtarget[w] = t
  <2>1. ASSUME NEW w \in Worker PROVE Drops(w)' <=> Drops(w)
    <3>1. CASE DiscardUnref(w)
      <4>1. wtarget[w] # t /\ wtarget' = wtarget
        BY <1>4, <3>1 DEF DiscardUnref
      <4>. QED
        BY <4>1
    <3>. QED
      BY <1>1, <1>4, <3>1
  <2>2. is_result'[t] = is_result[t] \/ New(t)
    <3>1. CASE \E u \in Terminal : New(u)
      BY <3>1 DEF New, IInv, TypeOK, TerminalTypes
    <3>. QED
      BY <1>4, <3>1, ResultsKept
  <2>3. CASE New(t)
    <3>1. life[t] = "unborn" /\ discarded' = discarded
      BY <2>3 DEF New
    <3>2. ~discarded[t]
      BY <3>1 DEF RInv, DiscardsMarked
    <3>. QED
      BY <1>0, <3>1, <3>2
  <2>4. CASE is_result'[t] = is_result[t]
    BY <1>0, <2>1, <2>4, DiscardedChange
  <2>. QED
    BY <2>2, <2>3, <2>4
<1>. QED
  BY <1>2, <1>3, <1>4

-----------------------------------------------------------------------------
(* Reference counts *)

\* The frontend neither cleans an expression nor drops a reference handed over.
LEMMA FrontLeavesExpressions ==
  ASSUME IInv,
         \/ Start \/ CountBlock \/ SpuriousUnblock \/ FrontBake \/ FrontIdle \/ Join \/ Finished,
         NEW w \in Worker
  PROVE  ~Clean(w) /\ ~DiscardUnref(w)
<1>1. Unmoved(w)
  BY FrontMovesNoWorker DEF IInv
<1>2. /\ wpc \in [Worker -> WorkerPC] /\ windex \in [Worker -> Nat]
  BY DEF IInv, TypeOK, WorkerTypes
<1>3. ASSUME Clean(w) PROVE FALSE
  <2>1. wpc[w] = "clean" /\ (wpc'[w] = "count" \/ windex'[w] = windex[w] + 1)
    BY <1>2, <1>3 DEF Clean
  <2>. QED
    BY <1>1, <1>2, <2>1 DEF Unmoved, NoTarget
<1>4. ASSUME DiscardUnref(w) PROVE FALSE
  <2>1. wpc[w] = "discard" /\ wpc'[w] \in {"read", "clean"}
    BY <1>2, <1>4 DEF DiscardUnref, NextDepender
  <2>. QED
    BY <1>1, <2>1 DEF Unmoved, NoTarget
<1>. QED
  BY <1>3, <1>4

\* Link gives the expression another operand.
LEMMA LinkGrows ==
  ASSUME IInv, Link
  PROVE  operands' # operands
<1>. DEFINE s == operands[ftarget]
<1>1. ftarget \in Terminal
  BY DEF Link, IInv, FrontShape
<1>2. s \in Seq(Terminal) /\ Len(s) \in Nat
  BY <1>1 DEF IInv, TypeOK, TerminalTypes
<1>3. operands'[ftarget] = Append(s, fargs[Len(s) + 1])
  BY <1>1 DEF Link, IInv, TypeOK, TerminalTypes
<1>4. Len(Append(s, fargs[Len(s) + 1])) = Len(s) + 1
  BY <1>2
<1>. QED
  BY <1>2, <1>3, <1>4

\* A worker neither builds an expression nor gives up a reference of the frontend.
LEMMA WorkerLeavesFront ==
  ASSUME IInv, NEW w \in Worker, Spawn(w) \/ SpuriousWake(w) \/ Lost(w) \/ Work(w)
  PROVE  /\ ~Link /\ ~CountPass /\ held' = held
         /\ \A t \in Terminal : ~FrontDiscard(t) /\ ~FrontUnref(t) /\ ~New(t) /\ ~Ref(t)
<1>1. held' = held /\ operands' = operands /\ fargs' = fargs
        /\ (fpc' = fpc \/ (fpc = "blocked" /\ fpc' = "count"))
  BY DEF Spawn, SpuriousWake, Lost, Work, Take, Woken, Evaluate, RemoveDepender, Receive,
         Publish, DiscardUnref, ReadDepender, Decrement, Push, Clean, Uncount, frontVars,
         terminalVars
<1>2. held \in [Terminal -> Nat] /\ operands \in [Terminal -> Seq(Terminal)]
        /\ fargs \in Seq(Terminal)
  BY DEF IInv, TypeOK, FrontTypes, TerminalTypes
<1>3. ~CountPass
  BY <1>1 DEF CountPass
<1>4. ~Link
  BY <1>1, LinkGrows
<1>5. ASSUME NEW t \in Terminal PROVE ~FrontDiscard(t) /\ ~FrontUnref(t) /\ ~Ref(t)
  BY <1>1, <1>2 DEF FrontDiscard, FrontUnref, Ref
<1>6. ASSUME NEW t \in Terminal PROVE ~New(t)
  <2>1. New(t) => held[t] = 0 /\ held'[t] = 1
    BY <1>2 DEF New, IInv, FrontShape
  <2>. QED
    BY <1>1, <2>1
<1>. QED
  BY <1>1, <1>3, <1>4, <1>5, <1>6

\* The number of references a terminal has owners for.
Owned(t) == held[t] + Cardinality(Uses(t)) + (IF HandedOver(t) THEN 1 ELSE 0)

LEMMA Account ==
  ASSUME IInv, RInv, NEW t \in Terminal
  PROVE  /\ held[t] \in Nat /\ IsFiniteSet(Uses(t)) /\ Cardinality(Uses(t)) \in Nat
         /\ refcount[t] = Owned(t) /\ refcount[t] \in Nat
         /\ life[t] # "unborn" => (life[t] = "live" <=> refcount[t] > 0)
         /\ held[t] > 0 \/ Uses(t) # {} \/ HandedOver(t) => refcount[t] > 0
<1>1. /\ held[t] \in Nat /\ IsFiniteSet(Uses(t)) /\ refcount[t] = Owned(t)
      /\ life[t] # "unborn" => (life[t] = "live" <=> refcount[t] > 0)
  BY DEF RInv, RefcountExact, IInv, TypeOK, FrontTypes, Owned
<1>2. Cardinality(Uses(t)) \in Nat
  BY <1>1, FS_CardinalityType
<1>3. Uses(t) # {} => Cardinality(Uses(t)) # 0
  BY <1>1, FS_EmptySet
<1>4. CASE HandedOver(t)
  <2>1. Owned(t) = held[t] + Cardinality(Uses(t)) + 1
    BY <1>4 DEF Owned
  <2>. QED
    BY <1>1, <1>2, <2>1
<1>5. CASE ~HandedOver(t)
  <2>1. Owned(t) = held[t] + Cardinality(Uses(t)) + 0
    BY <1>5 DEF Owned
  <2>. QED
    BY <1>1, <1>2, <1>3, <1>5, <2>1
<1>. QED
  BY <1>4, <1>5

\* Nobody owns a reference on what does not exist.
LEMMA UnbornUnowned ==
  ASSUME IInv, RInv, NEW t \in Terminal, life[t] = "unborn"
  PROVE  held[t] = 0 /\ Uses(t) = {} /\ ~HandedOver(t)
<1>1. held[t] = 0
  BY Account DEF IInv, FrontShape
<1>2. ASSUME NEW e \in Uses(t) PROVE FALSE
  <2>1. e = <<e[1], e[2]>>
    BY UsesArePairs
  <2>2. e[1] \in Terminal /\ e[2] \in 1..Len(operands[e[1]]) /\ operands[e[1]][e[2]] = t
    BY <2>1, UsesMember
  <2>. QED
    BY <2>2 DEF IInv, UnbornBlank
<1>. QED
  BY <1>1, <1>2 DEF RInv, DiscardsMarked, HandedOver

\* Dropping a reference that is there frees the terminal when it was the last.
LEMMA UnrefCounts ==
  ASSUME IInv, RInv, NEW u \in Terminal, Unref(u), refcount[u] > 0, life[u] # "unborn",
         NEW t \in Terminal
  PROVE  /\ refcount'[t] = IF t = u THEN refcount[t] - 1 ELSE refcount[t]
         /\ life'[t] # "unborn" => (life'[t] = "live" <=> refcount'[t] > 0)
<1>1. refcount \in [Terminal -> Int] /\ life \in [Terminal -> {"unborn", "live", "freed"}]
  BY DEF IInv, TypeOK, TerminalTypes
<1>2. refcount'[t] = IF t = u THEN refcount[t] - 1 ELSE refcount[t]
  BY <1>1 DEF Unref
<1>3. life'[t] = IF t = u /\ refcount[u] = 1 THEN "freed" ELSE life[t]
  BY <1>1 DEF Unref
<1>4. refcount[t] \in Nat /\ (life[t] # "unborn" => (life[t] = "live" <=> refcount[t] > 0))
  BY Account
<1>5. CASE t = u
  BY <1>2, <1>3, <1>4, <1>5
<1>6. CASE t # u
  BY <1>2, <1>3, <1>4, <1>6
<1>. QED
  BY <1>2, <1>5, <1>6

\* Every step keeps the account.
LEMMA RefcountStep ==
  ASSUME IInv, RInv, Next, TypeOK', NEW t \in Terminal
  PROVE  /\ IsFiniteSet(Uses(t)') /\ refcount'[t] = Owned(t)'
         /\ life'[t] # "unborn" => (life'[t] = "live" <=> refcount'[t] > 0)
<1>. DEFINE Finite == IsFiniteSet(Uses(t)')
            Counted == refcount'[t] = Owned(t)'
            Lives == life'[t] # "unborn" => (life'[t] = "live" <=> refcount'[t] > 0)
            Front == \/ Start \/ CountBlock \/ SpuriousUnblock \/ FrontBake \/ FrontIdle
                     \/ Join \/ Finished
            Acts(w) == Spawn(w) \/ SpuriousWake(w) \/ Lost(w) \/ Work(w)
<1>0. /\ held \in [Terminal -> Nat] /\ refcount \in [Terminal -> Int]
      /\ life \in [Terminal -> {"unborn", "live", "freed"}]
  BY DEF IInv, TypeOK, FrontTypes, TerminalTypes
<1>1. /\ held[t] \in Nat /\ IsFiniteSet(Uses(t)) /\ Cardinality(Uses(t)) \in Nat
      /\ refcount[t] = Owned(t) /\ refcount[t] \in Nat
      /\ life[t] # "unborn" => (life[t] = "live" <=> refcount[t] > 0)
      /\ held[t] > 0 \/ Uses(t) # {} \/ HandedOver(t) => refcount[t] > 0
  BY Account
<1>2. ASSUME Uses(t)' = Uses(t), HandedOver(t)' <=> HandedOver(t),
             refcount'[t] - refcount[t] = held'[t] - held[t], held'[t] \in Nat
      PROVE  Finite /\ Counted
  <2>1. Owned(t)' - Owned(t) = held'[t] - held[t]
    <3>1. CASE HandedOver(t)
      BY <1>1, <1>2, <3>1 DEF Owned
    <3>2. CASE ~HandedOver(t)
      BY <1>1, <1>2, <3>2 DEF Owned
    <3>. QED
      BY <3>1, <3>2
  <2>2. Owned(t) \in Nat /\ Owned(t)' \in Int /\ refcount'[t] \in Int
    <3>1. refcount'[t] \in Int
      BY DEF TypeOK, TerminalTypes
    <3>2. Owned(t)' \in Int
      <4>1. CASE HandedOver(t)
        BY <1>1, <1>2, <4>1 DEF Owned
      <4>2. CASE ~HandedOver(t)
        BY <1>1, <1>2, <4>2 DEF Owned
      <4>. QED
        BY <4>1, <4>2
    <3>. QED
      BY <1>1, <3>1, <3>2
  <2>. QED
    BY <1>1, <1>2, <2>1, <2>2
<1>3. ASSUME refcount'[t] = refcount[t], life'[t] = life[t] PROVE Lives
  BY <1>1, <1>3
<1>4. ASSUME Front, ~Link PROVE Uses(t)' = Uses(t)
  BY <1>4, FrontLeavesExpressions, UsesKept
<1>5. ASSUME Front, ~(FrontDiscard(t) /\ ~is_result[t]) PROVE HandedOver(t)' <=> HandedOver(t)
  BY <1>5, FrontLeavesExpressions, HandedOverStep
<1>6. ASSUME NEW u \in Terminal, New(u) \/ (CountPass /\ u = ftarget)
      PROVE  Finite /\ Counted /\ Lives
  <2>1. /\ life[u] = "unborn" /\ life' = [life EXCEPT ![u] = "live"]
        /\ refcount' = [refcount EXCEPT ![u] = 1] /\ held' = [held EXCEPT ![u] = 1]
        /\ fpc \in {"idle", "count"}
    BY <1>6 DEF New, CountPass, IInv, FrontShape
  <2>2. Front
    BY <1>6 DEF FrontBake, FrontIdle
  <2>3. ~Link /\ ~FrontDiscard(t)
    <3>1. life'[u] = "live" /\ life # life'
      BY <1>0, <2>1
    <3>2. ~Link
      BY <2>1 DEF Link
    <3>3. ~FrontDiscard(t)
      <4>1. ASSUME FrontDiscard(t) PROVE life' = life \/ life' = [life EXCEPT ![t] = "freed"]
        BY <4>1 DEF FrontDiscard, Unref
      <4>2. life' # [life EXCEPT ![t] = "freed"]
        BY <1>0, <2>1, <3>1
      <4>. QED
        BY <3>1, <4>1, <4>2
    <3>. QED
      BY <3>2, <3>3
  <2>4. Uses(t)' = Uses(t) /\ (HandedOver(t)' <=> HandedOver(t))
    BY <1>4, <1>5, <2>2, <2>3
  <2>5. CASE t = u
    <3>1. held[t] = 0 /\ refcount[t] = 0
      BY <1>1, <2>1, <2>5, UnbornUnowned, FS_EmptySet DEF Owned
    <3>. QED
      BY <1>0, <1>2, <2>1, <2>4, <2>5, <3>1
  <2>6. CASE t # u
    <3>1. refcount'[t] = refcount[t] /\ life'[t] = life[t] /\ held'[t] = held[t]
      BY <1>0, <2>1, <2>6
    <3>. QED
      BY <1>1, <1>2, <1>3, <2>4, <3>1
  <2>. QED
    BY <2>5, <2>6
<1>7. ASSUME Link PROVE Finite /\ Counted /\ Lives
  <2>. SUFFICES ASSUME NEW f, NEW n, NEW o, Links(f, n, o) PROVE Finite /\ Counted /\ Lives
    BY DEF Links
  <2>0. f = ftarget /\ n = Len(operands[f]) + 1 /\ o = fargs[n]
    BY DEF Links
  <2>1. /\ refcount' = [refcount EXCEPT ![o] = @ + 1] /\ life' = life /\ held' = held
        /\ fpc = "link"
    BY <1>7, <2>0 DEF Link, frontVars
  <2>2. /\ o \in Terminal /\ <<f, n>> \notin Uses(t) /\ n \in 1..Len(fargs)
        /\ Uses(t)' = IF t = o THEN Uses(t) \cup {<<f, n>>} ELSE Uses(t)
    BY <1>7, OperandsAfterLink, UsesAfterLink
  <2>3. HandedOver(t)' <=> HandedOver(t)
    <3>1. ~FrontDiscard(t)
      BY <2>1 DEF FrontDiscard
    <3>. QED
      BY <1>5, <1>7, <3>1 DEF FrontBake
  <2>4. CASE t = o
    <3>1. Finite /\ Cardinality(Uses(t)') = Cardinality(Uses(t)) + 1
      <4>1. ASSUME NEW e, e \notin Uses(t)
            PROVE  /\ IsFiniteSet(Uses(t) \cup {e})
                   /\ Cardinality(Uses(t) \cup {e}) = Cardinality(Uses(t)) + 1
        BY <1>1, <4>1, FS_AddElement
      <4>. QED
        BY <2>2, <2>4, <4>1
    <3>2. refcount'[t] = refcount[t] + 1
      BY <1>0, <2>1, <2>4
    <3>3. Owned(t)' = Owned(t) + 1
      <4>1. CASE HandedOver(t)
        BY <1>1, <2>1, <2>3, <3>1, <4>1 DEF Owned
      <4>2. CASE ~HandedOver(t)
        BY <1>1, <2>1, <2>3, <3>1, <4>2 DEF Owned
      <4>. QED
        BY <4>1, <4>2
    <3>4. life[t] = "live"
      <4>1. held[t] > 0 /\ life[t] # "unborn"
        BY <2>0, <2>1, <2>2, <2>4 DEF RInv, ArgsHeld, IInv, FrontShape
      <4>. QED
        BY <1>1, <4>1
    <3>. QED
      BY <1>1, <2>1, <3>1, <3>2, <3>3, <3>4
  <2>5. CASE t # o
    <3>1. Uses(t)' = Uses(t)
      BY <2>2, <2>5
    <3>2. refcount'[t] = refcount[t] /\ life'[t] = life[t] /\ held'[t] = held[t]
      BY <1>0, <2>1, <2>5
    <3>. QED
      BY <1>1, <1>2, <1>3, <2>3, <3>1, <3>2
  <2>. QED
    BY <2>4, <2>5
<1>8. ASSUME NEW u \in Terminal, Ref(u) PROVE Finite /\ Counted /\ Lives
  <2>1. /\ held[u] > 0 /\ life' = life /\ fpc = "idle" /\ discarded' = discarded
        /\ refcount' = [refcount EXCEPT ![u] = @ + 1] /\ held' = [held EXCEPT ![u] = @ + 1]
    BY <1>8 DEF Ref
  <2>2. Front /\ ~Link
    BY <1>8, <2>1 DEF FrontIdle, Link
  <2>3. ~FrontDiscard(t)
    BY <1>0, <2>1 DEF FrontDiscard
  <2>4. Uses(t)' = Uses(t) /\ (HandedOver(t)' <=> HandedOver(t))
    BY <1>4, <1>5, <2>2, <2>3
  <2>5. CASE t = u
    <3>1. refcount'[t] = refcount[t] + 1 /\ held'[t] = held[t] + 1
      BY <1>0, <2>1, <2>5
    <3>2. refcount[t] > 0 /\ life[t] = "live"
      BY <1>1, <2>1, <2>5 DEF IInv, FrontShape
    <3>. QED
      BY <1>1, <1>2, <2>1, <2>4, <3>1, <3>2
  <2>6. CASE t # u
    <3>1. refcount'[t] = refcount[t] /\ life'[t] = life[t] /\ held'[t] = held[t]
      BY <1>0, <2>1, <2>6
    <3>. QED
      BY <1>1, <1>2, <1>3, <2>4, <3>1
  <2>. QED
    BY <2>5, <2>6
<1>9. ASSUME NEW u \in Terminal, FrontUnref(u) \/ (FrontDiscard(u) /\ is_result[u])
      PROVE  Finite /\ Counted /\ Lives
  <2>1. /\ held[u] > 0 /\ fpc = "idle" /\ discarded' = discarded
        /\ Unref(u) /\ held' = [held EXCEPT ![u] = @ - 1]
    BY <1>9 DEF FrontUnref, FrontDiscard
  <2>2. Front /\ ~Link
    BY <1>9, <2>1 DEF FrontIdle, Link
  <2>3. ~(FrontDiscard(t) /\ ~is_result[t])
    <3>1. discarded \in [Terminal -> BOOLEAN]
      BY DEF IInv, TypeOK, TerminalTypes
    <3>. QED
      BY <2>1, <3>1 DEF FrontDiscard
  <2>4. Uses(t)' = Uses(t) /\ (HandedOver(t)' <=> HandedOver(t))
    BY <1>4, <1>5, <2>2, <2>3
  <2>5. refcount[u] > 0 /\ life[u] # "unborn" /\ held[u] \in Nat
    BY <2>1, Account DEF IInv, FrontShape
  <2>6. Lives /\ refcount'[t] = IF t = u THEN refcount[t] - 1 ELSE refcount[t]
    BY <2>1, <2>5, UnrefCounts
  <2>7. held'[t] = IF t = u THEN held[t] - 1 ELSE held[t]
    BY <1>0, <2>1
  <2>8. held'[t] \in Nat /\ refcount'[t] - refcount[t] = held'[t] - held[t]
    BY <1>1, <2>1, <2>5, <2>6, <2>7
  <2>. QED
    BY <1>2, <2>4, <2>6, <2>8
<1>10. ASSUME NEW u \in Terminal, FrontDiscard(u), ~is_result[u]
       PROVE  Finite /\ Counted /\ Lives
  <2>1. /\ held[u] > 0 /\ fpc = "idle" /\ UNCHANGED <<life, refcount, is_result>>
        /\ held' = [held EXCEPT ![u] = @ - 1] /\ ~discarded[u]
        /\ discarded' = [discarded EXCEPT ![u] = TRUE]
    BY <1>10 DEF FrontDiscard
  <2>2. Front /\ ~Link
    BY <1>10, <2>1 DEF FrontIdle, Link
  <2>3. Uses(t)' = Uses(t)
    BY <1>4, <2>2
  <2>4. CASE t = u
    <3>1. ~HandedOver(t) /\ HandedOver(t)'
      <4>1. discarded'[t] /\ ~is_result'[t]
        BY <1>10, <2>1, <2>4 DEF IInv, TypeOK, TerminalTypes
      <4>. QED
        BY <2>1, <2>4, <4>1 DEF HandedOver
    <3>2. held'[t] = held[t] - 1 /\ held[t] > 0
      BY <1>0, <2>1, <2>4
    <3>3. Owned(t)' = Owned(t)
      BY <1>1, <2>3, <3>1, <3>2 DEF Owned
    <3>. QED
      BY <1>1, <1>3, <2>1, <2>3, <3>3
  <2>5. CASE t # u
    <3>1. held'[t] = held[t]
      BY <1>0, <2>1, <2>5
    <3>2. ~FrontDiscard(t)
      BY <1>0, <2>1, <2>5, <3>1 DEF FrontDiscard
    <3>3. HandedOver(t)' <=> HandedOver(t)
      BY <1>5, <2>2, <3>2
    <3>. QED
      BY <1>1, <1>2, <1>3, <2>1, <2>3, <3>1, <3>3
  <2>. QED
    BY <2>4, <2>5
<1>11. ASSUME NEW w \in Worker, DiscardUnref(w) PROVE Finite /\ Counted /\ Lives
  <2>. DEFINE u == wtarget[w]
  <2>1. Unref(u) /\ wpc[w] = "discard" /\ u \in Terminal
    BY <1>11 DEF DiscardUnref, IInv, WorkerIndices, IndicesOf, Busy
  <2>2. life[u] # "unborn" /\ HandedOver(u)
    <3>1. operands[u] # <<>> /\ discarded[u]
      BY <2>1 DEF IInv, OperandsGiven, Busy, RInv, DiscardsMarked
    <3>. QED
      BY <2>1, <3>1 DEF IInv, UnbornBlank, HandedOver
  <2>3. refcount[u] > 0
    BY <2>1, <2>2, Account
  <2>4. Lives /\ refcount'[t] = IF t = u THEN refcount[t] - 1 ELSE refcount[t]
    BY <2>1, <2>2, <2>3, UnrefCounts
  <2>5. held' = held /\ ~Link /\ ~FrontDiscard(t)
    BY <1>11, WorkerLeavesFront DEF Work
  <2>6. Uses(t)' = Uses(t)
    <3>1. \A v \in Worker : ~Clean(v)
      <4>1. ASSUME NEW v \in Worker, Clean(v) PROVE FALSE
        <5>1. v # w
          BY <2>1, <4>1 DEF Clean
        <5>2. Unmoved(v)
          BY <1>11, <5>1, WorkerMovesNoOther DEF IInv, Work
        <5>3. wpc[v] = "clean" /\ (wpc'[v] = "count" \/ windex'[v] = windex[v] + 1)
          BY <4>1 DEF Clean, IInv, TypeOK, WorkerTypes
        <5>4. windex[v] \in Nat
          BY DEF IInv, TypeOK, WorkerTypes
        <5>. QED
          BY <5>2, <5>3, <5>4 DEF Unmoved, NoTarget
      <4>. QED
        BY <4>1
    <3>. QED
      BY <2>5, <3>1, UsesKept
  <2>7. CASE t = u
    <3>1. ~HandedOver(t)'
      <4>1. wpc'[w] # "discard" /\ is_result' = is_result /\ wtarget' = wtarget
        BY <1>11 DEF DiscardUnref, NextDepender, IInv, TypeOK, WorkerTypes
      <4>2. ASSUME NEW v \in Worker, v # w PROVE ~(wtarget'[v] = t /\ wpc'[v] = "discard")
        <5>1. Unmoved(v)
          BY <1>11, <4>2, WorkerMovesNoOther DEF IInv, Work
        <5>2. ~(wtarget[v] = t /\ wpc[v] = "discard")
          BY <2>1, <2>7, <4>2 DEF IInv, TargetsApart, Busy
        <5>. QED
          BY <5>1, <5>2 DEF Unmoved, NoTarget
      <4>3. is_result[t]
        BY <2>1, <2>7 DEF IInv, TargetsApart, Busy, Evaluating
      <4>. QED
        BY <4>1, <4>2, <4>3 DEF HandedOver
    <3>2. Owned(t)' = Owned(t) - 1
      BY <1>1, <2>2, <2>5, <2>6, <2>7, <3>1 DEF Owned
    <3>. QED
      BY <1>1, <2>4, <2>6, <2>7, <3>2
  <2>8. CASE t # u
    <3>1. ~\E v \in Worker : DiscardUnref(v) /\ wtarget[v] = t
      <4>1. ASSUME NEW v \in Worker, DiscardUnref(v), v # w PROVE FALSE
        <5>1. wpc[v] = "discard" /\ wpc'[v] \in {"read", "clean"}
          BY <4>1 DEF DiscardUnref, NextDepender, IInv, TypeOK, WorkerTypes
        <5>2. Unmoved(v)
          BY <1>11, <4>1, WorkerMovesNoOther DEF IInv, Work
        <5>. QED
          BY <5>1, <5>2 DEF Unmoved, NoTarget
      <4>. QED
        BY <2>8, <4>1
    <3>2. HandedOver(t)' <=> HandedOver(t)
      BY <2>5, <3>1, HandedOverStep
    <3>. QED
      BY <1>1, <1>2, <2>4, <2>5, <2>6, <2>8, <3>2
  <2>. QED
    BY <2>7, <2>8
<1>12. ASSUME NEW w \in Worker, Clean(w) PROVE Finite /\ Counted /\ Lives
  <2>. DEFINE s == wtarget[w]
              i == windex[w]
              u == operands[s][i]
  <2>1. /\ s \in Terminal /\ i \in 1..Len(operands[s]) /\ u \in Terminal
        /\ <<s, i>> \in Uses(u)
        /\ Uses(t)' = Uses(t) \ {<<s, i>>}
    BY <1>12, UsesAfterClean
  <2>2. Unref(u)
    BY <1>12 DEF Clean
  <2>3. life[u] # "unborn" /\ refcount[u] > 0
    <3>1. life[u] # "unborn"
      BY <2>1 DEF IInv, UnbornBlank
    <3>. QED
      BY <2>1, <3>1, Account
  <2>4. Lives /\ refcount'[t] = IF t = u THEN refcount[t] - 1 ELSE refcount[t]
    BY <2>1, <2>2, <2>3, UnrefCounts
  <2>5. held' = held /\ ~Link /\ ~FrontDiscard(t)
    BY <1>12, WorkerLeavesFront DEF Work
  <2>6. HandedOver(t)' <=> HandedOver(t)
    <3>1. \A v \in Worker : ~DiscardUnref(v)
      <4>1. ASSUME NEW v \in Worker, DiscardUnref(v) PROVE FALSE
        <5>1. wpc[v] = "discard" /\ wpc'[v] \in {"read", "clean"}
          BY <4>1 DEF DiscardUnref, NextDepender, IInv, TypeOK, WorkerTypes
        <5>2. v # w
          BY <1>12, <5>1 DEF Clean
        <5>3. Unmoved(v)
          BY <1>12, <5>2, WorkerMovesNoOther DEF IInv, Work
        <5>. QED
          BY <5>1, <5>3 DEF Unmoved, NoTarget
      <4>. QED
        BY <4>1
    <3>. QED
      BY <2>5, <3>1, HandedOverStep
  <2>7. CASE t = u
    <3>1. Finite /\ Cardinality(Uses(t)') = Cardinality(Uses(t)) - 1
      <4>1. ASSUME NEW e, e \in Uses(t)
            PROVE  /\ IsFiniteSet(Uses(t) \ {e})
                   /\ Cardinality(Uses(t) \ {e}) = Cardinality(Uses(t)) - 1
        BY <1>1, <4>1, FS_RemoveElement
      <4>. QED
        BY <2>1, <2>7, <4>1
    <3>2. Owned(t)' = Owned(t) - 1
      <4>1. CASE HandedOver(t)
        BY <1>1, <2>5, <2>6, <3>1, <4>1 DEF Owned
      <4>2. CASE ~HandedOver(t)
        BY <1>1, <2>5, <2>6, <3>1, <4>2 DEF Owned
      <4>. QED
        BY <4>1, <4>2
    <3>. QED
      BY <1>1, <2>4, <2>7, <3>1, <3>2
  <2>8. CASE t # u
    <3>1. Uses(t)' = Uses(t)
      <4>1. <<s, i>> \notin Uses(t)
        BY <2>1, <2>8, UsesMember
      <4>. QED
        BY <2>1, <4>1
    <3>. QED
      BY <1>1, <1>2, <2>4, <2>5, <2>6, <2>8, <3>1
  <2>. QED
    BY <2>7, <2>8
<1>13. ASSUME NEW w \in Worker, Acts(w), ~DiscardUnref(w), ~Clean(w)
       PROVE  Finite /\ Counted /\ Lives
  <2>1. refcount' = refcount /\ life' = life
    BY <1>13 DEF Spawn, SpuriousWake, Lost, Work, Take, Woken, Evaluate, RemoveDepender,
                 Receive, Publish, ReadDepender, Decrement, Push, Uncount, terminalVars
  <2>2. held' = held /\ ~Link /\ ~FrontDiscard(t)
    BY <1>13, WorkerLeavesFront
  <2>3. ASSUME NEW v \in Worker PROVE ~Clean(v) /\ ~DiscardUnref(v)
    <3>1. SUFFICES ASSUME v # w, Clean(v) \/ DiscardUnref(v) PROVE FALSE
      BY <1>13
    <3>2. Unmoved(v)
      BY <1>13, <3>1, WorkerMovesNoOther DEF IInv
    <3>3. \/ wpc[v] = "clean" /\ (wpc'[v] = "count" \/ windex'[v] = windex[v] + 1)
          \/ wpc[v] = "discard" /\ wpc'[v] \in {"read", "clean"}
      BY <3>1 DEF Clean, DiscardUnref, NextDepender, IInv, TypeOK, WorkerTypes
    <3>4. windex[v] \in Nat
      BY DEF IInv, TypeOK, WorkerTypes
    <3>. QED
      BY <3>2, <3>3, <3>4 DEF Unmoved, NoTarget
  <2>. QED
    BY <1>1, <1>2, <1>3, <2>1, <2>2, <2>3, UsesKept, HandedOverStep
<1>14. ASSUME \/ Start \/ CountBlock \/ SpuriousUnblock \/ FrontDecrement \/ FrontPush
              \/ Destroy \/ Join \/ Finished
              \/ \E u \in Terminal, os \in OperandSeq : Bake(u, os)
       PROVE  Finite /\ Counted /\ Lives
  <2>1. /\ refcount' = refcount /\ life' = life /\ held' = held /\ operands' = operands
    BY <1>14 DEF Start, CountBlock, SpuriousUnblock, FrontDecrement, FrontPush, Destroy, Join,
                 Finished, Bake, vars, terminalVars, frontVars
  <2>2. Front
    BY <1>14 DEF FrontBake, FrontIdle
  <2>3. ~FrontDiscard(t)
    BY <1>0, <2>1 DEF FrontDiscard
  <2>4. ~Link
    BY <2>1, LinkGrows
  <2>. QED
    BY <1>1, <1>2, <1>3, <1>4, <1>5, <2>1, <2>2, <2>3, <2>4
<1>15. ASSUME NEW u \in Terminal, FrontDiscard(u) PROVE Finite /\ Counted /\ Lives
  BY <1>9, <1>10, <1>15
<1>16. ASSUME NEW w \in Worker, Acts(w) PROVE Finite /\ Counted /\ Lives
  BY <1>11, <1>12, <1>13, <1>16
<1>. HIDE DEF Finite, Counted, Lives
<1>17. ASSUME Front PROVE Finite /\ Counted /\ Lives
  <2>1. CountPass => ftarget \in Terminal
    BY DEF CountPass, IInv, FrontShape
  <2>2. CASE FrontBake
    BY <1>6, <1>7, <1>14, <2>1, <2>2 DEF FrontBake
  <2>3. CASE FrontIdle
    BY <1>6, <1>8, <1>9, <1>14, <1>15, <2>3 DEF FrontIdle
  <2>. QED
    BY <1>14, <1>17, <2>2, <2>3
<1>18. Finite /\ Counted /\ Lives
  BY <1>16, <1>17 DEF Next
<1>. QED
  BY <1>18 DEF Finite, Counted, Lives

-----------------------------------------------------------------------------
(* Who keeps a pending terminal *)

\* A terminal that is freed has its result.
LEMMA PendingLiveStep ==
  ASSUME IInv, RInv, Next
  PROVE  PendingLive'
<1>. SUFFICES ASSUME NEW t \in Terminal, life'[t] = "freed" PROVE is_result'[t]
  BY DEF PendingLive
<1>1. CASE life[t] = "freed"
  BY <1>1, ResultStep DEF RInv, PendingLive
<1>2. CASE life[t] # "freed"
  <2>1. life[t] # "unborn"
    <3>1. life'[t] # life[t] /\ ~(life'[t] = "live")
      BY <1>2
    <3>2. ~New(t) /\ ~(CountPass /\ t = ftarget)
      BY <3>1 DEF New, CountPass, IInv, TypeOK, TerminalTypes
    <3>. QED
      BY <3>1, <3>2, LifeChange
  <2>2. life[t] = "live"
    BY <1>2, <2>1 DEF IInv, TypeOK, TerminalTypes
  <2>3. is_result[t]
    BY <2>2, PendingNotFreed DEF Pending
  <2>. QED
    BY <2>3, ResultStep
<1>. QED
  BY <1>1, <1>2

\* Whoever kept a pending terminal still does, or has passed it on.
LEMMA WantedStep ==
  ASSUME IInv, RInv, Next
  PROVE  Wanted'
<1>. SUFFICES ASSUME NEW t \in Terminal, Pending(t)'
              PROVE  \/ held'[t] > 0
                     \/ discarded'[t]
                     \/ \E d \in Terminal : /\ Pending(d)'
                                            /\ \E k \in 1..Len(operands'[d]) :
                                                 operands'[d][k] = t
  BY DEF Wanted
<1>0. held \in [Terminal -> Nat] /\ discarded \in [Terminal -> BOOLEAN]
  BY DEF IInv, TypeOK, FrontTypes, TerminalTypes
<1>1. CASE CountPass /\ t = ftarget
  <2>1. held'[t] = 1
    BY <1>0, <1>1 DEF CountPass
  <2>. QED
    BY <2>1
<1>2. CASE Pending(t)
  <2>1. ASSUME NEW d \in Terminal, Pending(d), NEW k \in 1..Len(operands[d]),
               operands[d][k] = t
        PROVE  Pending(d)' /\ \E i \in 1..Len(operands'[d]) : operands'[d][i] = t
    <3>1. ASSUME NEW w \in Worker, Publish(w), wtarget[w] = d PROVE FALSE
      BY <1>2, <2>1, <3>1 DEF Publish, RInv, OperandsResolved, Busy, Pending
    <3>2. Pending(d)'
      BY <2>1, <3>1, PendingStep
    <3>3. Len(operands'[d]) >= Len(operands[d]) /\ operands'[d][k] = operands[d][k]
      BY OperandsGrow DEF IInv
    <3>4. operands[d] \in Seq(Terminal) /\ operands'[d] \in Seq(Terminal)
      BY TerminalTypesStep DEF IInv, TypeOK, TerminalTypes
    <3>5. k \in 1..Len(operands'[d])
      BY <3>3, <3>4
    <3>. QED
      BY <2>1, <3>2, <3>3, <3>5
  <2>2. CASE held[t] > 0
    <3>1. CASE held'[t] = held[t] \/ held'[t] = 1 \/ held'[t] = held[t] + 1
      BY <1>0, <2>2, <3>1
    <3>2. CASE held'[t] = held[t] - 1 /\ FrontUnref(t)
      <4>1. \/ held[t] > 1
            \/ \E d \in Terminal : Pending(d) /\ \E k \in 1..Len(operands[d]) : operands[d][k] = t
        BY <1>2, <3>2 DEF FrontUnref, Pending
      <4>2. CASE held[t] > 1
        BY <1>0, <3>2, <4>2
      <4>. QED
        BY <2>1, <4>1, <4>2
    <3>3. CASE FrontDiscard(t)
      <4>1. discarded'[t]
        BY <1>0, <1>2, <3>3 DEF FrontDiscard, Pending
      <4>. QED
        BY <4>1
    <3>. QED
      BY <3>1, <3>2, <3>3, HeldChange
  <2>3. CASE discarded[t]
    BY <2>3, DiscardedChange
  <2>. QED
    BY <1>2, <2>1, <2>2, <2>3 DEF RInv, Wanted
<1>. QED
  BY <1>1, <1>2, PendingStep

\* A worker comes to drop a reference by publishing what was discarded.
LEMMA DiscardReached ==
  ASSUME IInv, Next, NEW v \in Worker, wpc'[v] = "discard"
  PROVE  /\ wtarget'[v] = wtarget[v]
         /\ wpc[v] = "discard" \/ (Publish(v) /\ discarded[wtarget[v]])
<1>0. /\ wpc \in [Worker -> WorkerPC] /\ wtarget \in [Worker -> Terminal \cup {None}] /\ TypeOK
  BY DEF IInv, TypeOK, WorkerTypes
<1>1. Unmoved(v) => wtarget'[v] = wtarget[v] /\ wpc[v] = "discard"
  BY DEF Unmoved, NoTarget
<1>2. ASSUME \/ Start \/ CountBlock \/ SpuriousUnblock \/ FrontBake \/ FrontIdle \/ Join
             \/ Finished
      PROVE  Unmoved(v)
  BY <1>0, <1>2, FrontMovesNoWorker
<1>3. ASSUME NEW w \in Worker, Spawn(w) \/ SpuriousWake(w) \/ Lost(w) \/ Work(w), w # v
      PROVE  Unmoved(v)
  BY <1>0, <1>3, WorkerMovesNoOther
<1>4. CASE Push(v)
  <2>. DEFINE wp == [wpc EXCEPT ![v] = IF windex[v] < wn[v] THEN "read" ELSE "clean"]
  <2>1. Signal(wp) /\ wp \in [Worker -> WorkerPC]
    BY <1>0, <1>4 DEF Push, PushIndependent, WorkerPC
  <2>2. wpc'[v] = wp[v] \/ wpc'[v] = "woken"
    BY <1>0, <2>1, SignalMoves
  <2>. QED
    BY <1>0, <2>2
<1>5. CASE Publish(v)
  BY <1>0, <1>5 DEF Publish, NextDepender
<1>6. ASSUME \/ Spawn(v) \/ SpuriousWake(v) \/ Lost(v) \/ Take(v) \/ Woken(v) \/ Evaluate(v)
             \/ RemoveDepender(v) \/ Receive(v) \/ ReadDepender(v) \/ Decrement(v)
             \/ Clean(v) \/ Uncount(v) \/ DiscardUnref(v)
      PROVE  FALSE
  BY <1>0, <1>6 DEF Spawn, SpuriousWake, Lost, Take, Woken, Pop, Evaluate, RemoveDepender,
                    Receive, ReadDepender, Decrement, NextDepender, Clean, Uncount, DiscardUnref
<1>. QED
  BY <1>1, <1>2, <1>3, <1>4, <1>5, <1>6 DEF Next, Work

\* The reference a worker drops was given to it.
LEMMA DiscardsMarkedStep ==
  ASSUME IInv, RInv, Next, TypeOK', WorkerIndices'
  PROVE  DiscardsMarked'
<1>1. ASSUME NEW w \in Worker, wpc'[w] = "discard" PROVE discarded'[wtarget'[w]]
  <2>1. wtarget'[w] = wtarget[w] /\ discarded[wtarget[w]]
    BY <1>1, DiscardReached DEF RInv, DiscardsMarked
  <2>2. wtarget'[w] \in Terminal
    BY <1>1 DEF WorkerIndices, IndicesOf, Busy
  <2>. QED
    BY <2>1, <2>2, DiscardedChange
<1>2. ASSUME NEW t \in Terminal, life'[t] = "unborn" PROVE ~discarded'[t]
  <2>1. life[t] = "unborn"
    BY <1>2, LifeStep
  <2>2. ~FrontDiscard(t)
    BY <2>1 DEF FrontDiscard, IInv, FrontShape
  <2>. QED
    BY <2>1, <2>2, DiscardedChange DEF RInv, DiscardsMarked
<1>. QED
  BY <1>1, <1>2 DEF DiscardsMarked

-----------------------------------------------------------------------------
(* Operands *)

\* What is evaluated has results for operands.
LEMMA ReadyOperands == IInv => OperandsReady
<1>. SUFFICES ASSUME IInv, NEW w \in Worker, Evaluating(w),
                     NEW k \in 1..Len(operands[wtarget[w]])
              PROVE  is_result[operands[wtarget[w]][k]]
  BY DEF OperandsReady
<1>. DEFINE t == wtarget[w]
            o == operands[t][k]
<1>1. t \in Terminal /\ ~is_result[t] /\ dc[t] = 0
  BY DEF IInv, ScheduledIndependent, Independent, WorkerIndices, IndicesOf, Busy, Evaluating
<1>2. o \in Terminal
  BY <1>1 DEF IInv, TypeOK, TerminalTypes
<1>3. is_result[o] \/ \E j \in 1..Len(dependers[o]) : dependers[o][j] = t
  BY <1>1 DEF IInv, OperandsEntered
<1>4. ASSUME NEW j \in 1..Len(dependers[o]), dependers[o][j] = t PROVE is_result[o]
  <2>1. ~Due(o, j)
    BY <1>1, <1>2, <1>4, IndependentNotDue DEF IInv
  <2>. QED
    BY <2>1 DEF Due
<1>. QED
  BY <1>3, <1>4

\* The same of the next state.
LEMMA ReadyOperandsNext == IInv' => OperandsReady'
BY ReadyOperands, PTL

\* A busy worker was busy with the same target or starts to evaluate.
LEMMA BusyStep ==
  ASSUME IInv, Next, NEW v \in Worker, Busy(v)'
  PROVE  (Busy(v) /\ wtarget'[v] = wtarget[v]) \/ Evaluating(v)'
<1>0. /\ wpc \in [Worker -> WorkerPC] /\ wtarget \in [Worker -> Terminal \cup {None}] /\ TypeOK
  BY DEF IInv, TypeOK, WorkerTypes
<1>1. Unmoved(v) => Busy(v) /\ wtarget'[v] = wtarget[v]
  BY DEF Unmoved, NoTarget, Busy
<1>2. ASSUME \/ Start \/ CountBlock \/ SpuriousUnblock \/ FrontBake \/ FrontIdle \/ Join
             \/ Finished
      PROVE  Unmoved(v)
  BY <1>0, <1>2, FrontMovesNoWorker
<1>3. ASSUME NEW w \in Worker, Spawn(w) \/ SpuriousWake(w) \/ Lost(w) \/ Work(w), w # v
      PROVE  Unmoved(v)
  BY <1>0, <1>3, WorkerMovesNoOther
<1>4. ASSUME \/ Lost(v) \/ Evaluate(v) \/ RemoveDepender(v) \/ Receive(v) \/ Publish(v)
             \/ DiscardUnref(v) \/ ReadDepender(v) \/ Decrement(v) \/ Push(v) \/ Clean(v)
      PROVE  Busy(v) /\ wtarget' = wtarget
  BY <1>4 DEF Lost, Evaluate, RemoveDepender, Receive, Publish, DiscardUnref, ReadDepender,
              Decrement, Push, Clean, Busy
<1>5. ASSUME Spawn(v) \/ SpuriousWake(v) \/ Take(v) \/ Woken(v) \/ Uncount(v)
      PROVE  wpc'[v] \in NoTarget \/ Evaluating(v)'
  BY <1>0, <1>5 DEF Spawn, SpuriousWake, Take, Woken, Pop, Uncount, NoTarget, Evaluating
<1>6. wpc'[v] \notin NoTarget
  BY DEF Busy, NoTarget
<1>. QED
  BY <1>1, <1>2, <1>3, <1>4, <1>5, <1>6 DEF Next, Work

\* A result stays one, and an expression that has been popped gets no further operand.
LEMMA OperandsResolvedStep ==
  ASSUME IInv, RInv, Next, IInv'
  PROVE  OperandsResolved'
<1>. SUFFICES ASSUME NEW w \in Worker, Busy(w)', NEW t, t = wtarget'[w],
                     NEW k \in 1..Len(operands'[t])
              PROVE  is_result'[operands'[t][k]]
  BY DEF OperandsResolved
<1>1. CASE Evaluating(w)'
  BY <1>1, ReadyOperandsNext DEF OperandsReady
<1>2. CASE Busy(w) /\ t = wtarget[w]
  <2>1. t \in Terminal
    BY <1>2 DEF IInv, WorkerIndices, IndicesOf
  <2>2. CASE k \in 1..Len(operands[t])
    <3>1. operands'[t][k] = operands[t][k] /\ is_result[operands[t][k]]
      BY <1>2, <2>1, <2>2, OperandsGrow DEF IInv, RInv, OperandsResolved
    <3>2. operands[t][k] \in Terminal
      BY <2>1, <2>2 DEF IInv, TypeOK, TerminalTypes
    <3>. QED
      BY <3>1, <3>2, ResultStep
  <2>3. CASE k \notin 1..Len(operands[t])
    <3>1. Link /\ t = ftarget
      BY <2>1, <2>3, NewOperand
    <3>2. ~is_result[t] /\ Guard(t) = 1
      BY <3>1 DEF Link, IInv, FrontShape, Guard
    <3>3. Evaluating(w) /\ Independent(t)
      BY <1>2, <3>2 DEF IInv, TargetsApart, ScheduledIndependent
    <3>4. Guard(t) = 0
      BY <2>1, <3>3, IndependentNotDue DEF IInv, Independent
    <3>. QED
      BY <3>2, <3>4
  <2>. QED
    BY <2>2, <2>3
<1>. QED
  BY <1>1, <1>2, BusyStep

\* While the frontend bakes it keeps to one terminal and its operands.
LEMMA BakingStep ==
  ASSUME IInv, Next, fpc' \in {"count", "blocked", "link"}
  PROVE  \/ \E t \in Terminal, os \in OperandSeq : Bake(t, os)
         \/ /\ fpc \in {"count", "blocked", "link"} /\ ftarget' = ftarget /\ fargs' = fargs
            /\ \A t \in Terminal : held[t] > 0 => held'[t] > 0
<1>0. held \in [Terminal -> Nat]
  BY DEF IInv, TypeOK, FrontTypes
<1>1. ASSUME Start \/ FrontPush \/ Destroy \/ Join PROVE FALSE
  BY <1>1 DEF Start, FrontPush, Destroy, Join
<1>2. ASSUME FrontDecrement PROVE FALSE
  BY <1>2 DEF FrontDecrement
<1>3. ASSUME CountBlock \/ SpuriousUnblock \/ Link \/ Finished
      PROVE  /\ fpc \in {"count", "blocked", "link"} /\ ftarget' = ftarget /\ fargs' = fargs
             /\ held' = held
  BY <1>3 DEF CountBlock, SpuriousUnblock, Link, Finished, vars, frontVars
<1>4. ASSUME CountPass
      PROVE  /\ fpc \in {"count", "blocked", "link"} /\ ftarget' = ftarget /\ fargs' = fargs
             /\ \A t \in Terminal : held[t] > 0 => held'[t] > 0
  BY <1>0, <1>4 DEF CountPass
<1>5. ASSUME NEW t \in Terminal, New(t) \/ Ref(t) \/ FrontUnref(t) \/ FrontDiscard(t) PROVE FALSE
  BY <1>5 DEF New, Ref, FrontUnref, FrontDiscard
<1>6. ASSUME NEW w \in Worker, Spawn(w) \/ SpuriousWake(w) \/ Lost(w) \/ Work(w)
      PROVE  /\ fpc \in {"count", "blocked", "link"} /\ ftarget' = ftarget /\ fargs' = fargs
             /\ held' = held
  BY <1>6 DEF Spawn, SpuriousWake, Lost, Work, Take, Woken, Evaluate, RemoveDepender, Receive,
              Publish, DiscardUnref, ReadDepender, Decrement, Push, Clean, Uncount, frontVars
<1>. QED
  BY <1>1, <1>2, <1>3, <1>4, <1>5, <1>6 DEF Next, FrontBake, FrontIdle

\* The frontend bakes from terminals it keeps references on.
LEMMA ArgsHeldStep ==
  ASSUME IInv, RInv, Next, FrontShape', TypeOK'
  PROVE  ArgsHeld'
<1>. SUFFICES ASSUME fpc' \in {"count", "blocked", "link"}, NEW k \in 1..Len(fargs')
              PROVE  held'[fargs'[k]] > 0
  BY DEF ArgsHeld
<1>1. ASSUME NEW t \in Terminal, NEW os \in OperandSeq, Bake(t, os) PROVE held'[fargs'[k]] > 0
  BY <1>1 DEF Bake
<1>2. CASE /\ fpc \in {"count", "blocked", "link"} /\ ftarget' = ftarget /\ fargs' = fargs
           /\ \A t \in Terminal : held[t] > 0 => held'[t] > 0
  <2>1. fargs[k] \in Terminal
    BY <1>2 DEF IInv, TypeOK, FrontTypes
  <2>. QED
    BY <1>2, <2>1 DEF RInv, ArgsHeld
<1>. QED
  BY <1>1, <1>2, BakingStep

\* What is built is not among its operands: they existed before.
LEMMA BuiltFromOthersStep ==
  ASSUME IInv, RInv, Next, TypeOK'
  PROVE  BuiltFromOthers'
<1>. SUFFICES ASSUME fpc' \in {"count", "blocked", "link"}
              PROVE  /\ \A k \in 1..Len(fargs') : fargs'[k] # ftarget'
                     /\ \A k \in 1..Len(operands'[ftarget']) :
                          operands'[ftarget'][k] # ftarget'
  BY DEF BuiltFromOthers
<1>1. ASSUME NEW t \in Terminal, NEW os \in OperandSeq, Bake(t, os)
      PROVE  /\ \A k \in 1..Len(fargs') : fargs'[k] # ftarget'
             /\ \A k \in 1..Len(operands'[ftarget']) : operands'[ftarget'][k] # ftarget'
  <2>1. /\ ftarget' = t /\ fargs' = os /\ operands' = operands /\ life[t] = "unborn"
        /\ \A k \in 1..Len(os) : held[os[k]] > 0
    BY <1>1 DEF Bake, terminalVars
  <2>2. operands[t] = <<>> /\ ~(held[t] > 0)
    BY <2>1 DEF IInv, UnbornBlank, FrontShape
  <2>. QED
    BY <2>1, <2>2
<1>2. CASE fpc \in {"count", "blocked", "link"} /\ ftarget' = ftarget /\ fargs' = fargs
  <2>1. /\ ftarget \in Terminal /\ \A k \in 1..Len(fargs) : fargs[k] # ftarget
        /\ \A k \in 1..Len(operands[ftarget]) : operands[ftarget][k] # ftarget
    BY <1>2 DEF IInv, FrontShape, RInv, BuiltFromOthers
  <2>2. CASE ~Link
    BY <1>2, <2>1, <2>2, OperandsKept
  <2>3. CASE Link
    <3>. SUFFICES ASSUME NEW f, NEW n, NEW o, Links(f, n, o),
                         NEW k \in 1..Len(operands'[f])
                  PROVE  operands'[f][k] # f
      BY <1>2, <2>1 DEF Links
    <3>1. /\ n \in Nat /\ Len(operands'[f]) = n /\ operands'[f][n] = o
          /\ \A i \in 1..(n - 1) : operands'[f][i] = operands[f][i]
      BY <2>3, OperandsAfterLink
    <3>2. f = ftarget /\ o = fargs[n] /\ n \in 1..Len(fargs) /\ n - 1 = Len(operands[f])
      BY <2>3, OperandsAfterLink
    <3>4. CASE k = n
      BY <2>1, <3>1, <3>2, <3>4
    <3>5. CASE k # n
      <4>1. k \in 1..(n - 1)
        BY <3>1, <3>5
      <4>. QED
        BY <2>1, <3>1, <3>2, <4>1
    <3>. QED
      BY <3>4, <3>5
  <2>. QED
    BY <2>2, <2>3
<1>. QED
  BY <1>1, <1>2, BakingStep

-----------------------------------------------------------------------------
(* The lists of dependers *)

\* Link enters the expression in the list of its new operand.
LEMMA ListsAfterLink ==
  ASSUME IInv, Link, NEW f, NEW n, NEW o, Links(f, n, o)
  PROVE  /\ Len(dependers[o]) \in Nat /\ Len(dependers'[o]) = Len(dependers[o]) + 1
         /\ dependers'[o][Len(dependers[o]) + 1] = f
         /\ \A j \in 1..Len(dependers[o]) : dependers'[o][j] = dependers[o][j]
         /\ \A t \in Terminal : t # o => dependers'[t] = dependers[t]
<1>1. o \in Terminal /\ f \in Terminal /\ f = ftarget /\ o = fargs[n]
        /\ n = Len(operands[f]) + 1
  BY OperandsAfterLink DEF Links
<1>2. dependers' = [dependers EXCEPT ![o] = Append(dependers[o], f)]
  BY <1>1 DEF Link
<1>3. dependers[o] \in Seq(Terminal \cup {None}) /\ f \in Terminal \cup {None}
  BY <1>1 DEF IInv, TypeOK, TerminalTypes
<1>4. dependers'[o] = Append(dependers[o], f)
        /\ \A t \in Terminal : t # o => dependers'[t] = dependers[t]
  BY <1>1, <1>2 DEF IInv, TypeOK, TerminalTypes
<1>. QED
  BY <1>3, <1>4

\* The worker clears one entry of its target in the list of the operand it has come to.
LEMMA ListsAfterRemove ==
  ASSUME IInv, NEW w \in Worker, RemoveDepender(w)
  PROVE  \E s, o \in Terminal, i \in Nat \ {0} :
           /\ s = wtarget[w] /\ i = windex[w] /\ i \in 1..Len(operands[s])
           /\ o = operands[s][i]
           /\ \E j \in 1..Len(dependers[o]) :
                /\ dependers[o][j] = s /\ dependers'[o][j] = None
                /\ \A k \in 1..Len(dependers[o]) : k # j => dependers'[o][k] = dependers[o][k]
           /\ Len(dependers'[o]) = Len(dependers[o])
           /\ \A t \in Terminal : t # o => dependers'[t] = dependers[t]
<1>. DEFINE s == wtarget[w]
            i == windex[w]
            o == operands[s][i]
<1>1. wpc[w] = "remove" /\ s \in Terminal /\ i \in 1..Len(operands[s])
  BY DEF RemoveDepender, IInv, WorkerIndices, IndicesOf, Busy
<1>2. operands[s] \in Seq(Terminal)
  BY <1>1 DEF IInv, TypeOK, TerminalTypes
<1>3. o \in Terminal /\ i \in Nat \ {0}
  BY <1>1, <1>2
<1>4. PICK j \in 1..Len(dependers[o]) :
        /\ dependers[o][j] = s /\ dependers' = [dependers EXCEPT ![o][j] = None]
  BY DEF RemoveDepender
<1>5. dependers[o] \in Seq(Terminal \cup {None}) /\ dependers \in [Terminal -> Seq(Terminal \cup {None})]
  BY <1>3 DEF IInv, TypeOK, TerminalTypes
<1>6. /\ dependers'[o] = [dependers[o] EXCEPT ![j] = None]
      /\ \A t \in Terminal : t # o => dependers'[t] = dependers[t]
  BY <1>3, <1>4, <1>5
<1>7. /\ Len(dependers'[o]) = Len(dependers[o]) /\ dependers'[o][j] = None
      /\ \A k \in 1..Len(dependers[o]) : k # j => dependers'[o][k] = dependers[o][k]
  BY <1>4, <1>5, <1>6
<1>8. \E jj \in 1..Len(dependers[o]) :
        /\ dependers[o][jj] = s /\ dependers'[o][jj] = None
        /\ \A k \in 1..Len(dependers[o]) : k # jj => dependers'[o][k] = dependers[o][k]
  BY <1>4, <1>7
<1>. QED
  BY <1>1, <1>3, <1>6, <1>7, <1>8

\* Nothing else touches a list.
LEMMA ListsKept ==
  ASSUME Next, ~Link, \A w \in Worker : ~RemoveDepender(w)
  PROVE  dependers' = dependers
<1>1. ASSUME \/ Start \/ CountBlock \/ SpuriousUnblock \/ FrontBake \/ Destroy \/ Join
             \/ Finished
      PROVE  dependers' = dependers
  BY <1>1 DEF Start, CountBlock, SpuriousUnblock, FrontBake, CountPass, FrontDecrement,
              FrontPush, Destroy, Join, Finished, vars, terminalVars
<1>2. ASSUME NEW u \in Terminal,
             New(u) \/ Ref(u) \/ FrontUnref(u) \/ FrontDiscard(u)
               \/ \E os \in OperandSeq : Bake(u, os)
      PROVE  dependers' = dependers
  BY <1>2 DEF New, Ref, FrontUnref, FrontDiscard, Bake, terminalVars
<1>3. ASSUME NEW w \in Worker, Spawn(w) \/ SpuriousWake(w) \/ Lost(w) \/ Work(w)
      PROVE  dependers' = dependers
  BY <1>3 DEF Spawn, SpuriousWake, Lost, Work, Take, Woken, Evaluate, Receive,
              Publish, DiscardUnref, ReadDepender, Decrement, Push, Clean, Uncount, terminalVars
<1>. QED
  BY <1>1, <1>2, <1>3 DEF Next, FrontIdle

\* Only an expression over a terminal gets into its list.
LEMMA EntriesNamedStep ==
  ASSUME IInv, RInv, Next, TypeOK'
  PROVE  EntriesNamed'
<1>. SUFFICES ASSUME NEW t \in Terminal, NEW j \in 1..Len(dependers'[t]),
                     NEW d \in Terminal, d = dependers'[t][j]
              PROVE  \E k \in 1..Len(operands'[d]) : operands'[d][k] = t
  BY DEF EntriesNamed
<1>1. ASSUME j \in 1..Len(dependers[t]), dependers[t][j] = d
      PROVE  \E k \in 1..Len(operands'[d]) : operands'[d][k] = t
  <2>1. PICK k \in 1..Len(operands[d]) : operands[d][k] = t
    BY <1>1 DEF RInv, EntriesNamed
  <2>2. Len(operands'[d]) >= Len(operands[d]) /\ operands'[d][k] = operands[d][k]
    BY OperandsGrow DEF IInv
  <2>3. operands[d] \in Seq(Terminal) /\ operands'[d] \in Seq(Terminal)
    BY DEF IInv, TypeOK, TerminalTypes
  <2>4. Len(operands[d]) \in Nat /\ Len(operands'[d]) \in Nat
    BY <2>3
  <2>5. k \in 1..Len(operands'[d])
    BY <2>2, <2>4
  <2>. QED
    BY <2>1, <2>2, <2>5
<1>2. CASE j \in 1..Len(dependers[t])
  <2>1. None \notin Terminal
    BY TerminalAssumption
  <2>2. dependers[t][j] = d
    BY <1>2, <2>1, ListsGrow DEF IInv
  <2>. QED
    BY <1>1, <1>2, <2>2
<1>3. CASE j \notin 1..Len(dependers[t])
  <2>1. Link
    <3>1. dependers[t] \in Seq(Terminal \cup {None}) /\ dependers'[t] \in Seq(Terminal \cup {None})
      BY DEF IInv, TypeOK, TerminalTypes
    <3>2. Len(dependers'[t]) # Len(dependers[t])
      BY <1>3, <3>1
    <3>. QED
      BY <3>2, ListsGrow DEF IInv
  <2>. SUFFICES ASSUME NEW f, NEW n, NEW o, Links(f, n, o)
                PROVE  \E k \in 1..Len(operands'[d]) : operands'[d][k] = t
    BY DEF Links
  <2>2. /\ Len(dependers[o]) \in Nat /\ Len(dependers'[o]) = Len(dependers[o]) + 1
        /\ dependers'[o][Len(dependers[o]) + 1] = f
        /\ \A u \in Terminal : u # o => dependers'[u] = dependers[u]
    BY <2>1, ListsAfterLink
  <2>3. t = o
    BY <1>3, <2>2
  <2>4. d = f
    BY <1>3, <2>2, <2>3
  <2>5. n \in Nat \ {0} /\ Len(operands'[f]) = n /\ operands'[f][n] = o
    BY <2>1, OperandsAfterLink
  <2>. QED
    BY <2>3, <2>4, <2>5
<1>. QED
  BY <1>2, <1>3

-----------------------------------------------------------------------------
(* Entries and the operands they are for *)

\* The worker that evaluates d has come past its operand k.
Passed(w, d, k) ==
  /\ Evaluating(w) /\ wtarget[w] = d
  /\ ~(wpc[w] = "evaluate" /\ first_pass[w])
  /\ ~(wpc[w] = "remove" /\ k >= windex[w])

\* Unremoved in terms of the above.
LEMMA UnremovedPassed ==
  ASSUME NEW d, NEW k
  PROVE  /\ Unremoved(d, k) <=> ~is_result[d] /\ \A w \in Worker : ~Passed(w, d, k)
         /\ Unremoved(d, k)' <=> ~is_result'[d] /\ \A w \in Worker : ~Passed(w, d, k)'
BY DEF Unremoved, Passed

\* Only removing, popping and publishing change what a worker has come past.
LEMMA PassedKept ==
  ASSUME IInv, Next, NEW v \in Worker, ~RemoveDepender(v), ~Publish(v), NEW d,
         NEW k \in Nat \ {0}
  PROVE  Passed(v, d, k)' <=> Passed(v, d, k)
<1>0. /\ wpc \in [Worker -> WorkerPC] /\ wtarget \in [Worker -> Terminal \cup {None}]
      /\ windex \in [Worker -> Nat] /\ first_pass \in [Worker -> BOOLEAN] /\ TypeOK
  BY DEF IInv, TypeOK, WorkerTypes
<1>1. Unmoved(v) => (Passed(v, d, k)' <=> Passed(v, d, k))
  BY DEF Unmoved, NoTarget, Passed, Evaluating
<1>2. ASSUME \/ Start \/ CountBlock \/ SpuriousUnblock \/ FrontBake \/ FrontIdle \/ Join
             \/ Finished
      PROVE  Unmoved(v)
  BY <1>0, <1>2, FrontMovesNoWorker
<1>3. ASSUME NEW w \in Worker, Spawn(w) \/ SpuriousWake(w) \/ Lost(w) \/ Work(w), w # v
      PROVE  Unmoved(v)
  BY <1>0, <1>3, WorkerMovesNoOther
<1>4. CASE Evaluate(v)
  <2>1. /\ wpc[v] = "evaluate" /\ wtarget' = wtarget /\ windex'[v] = 1
        /\ wpc'[v] = IF first_pass[v] THEN "remove" ELSE "receive"
    BY <1>0, <1>4 DEF Evaluate
  <2>2. CASE first_pass[v]
    BY <2>1, <2>2 DEF Passed
  <2>3. CASE ~first_pass[v]
    BY <2>1, <2>3 DEF Passed, Evaluating
  <2>. QED
    BY <2>2, <2>3
<1>5. CASE Lost(v)
  <2>1. /\ wpc[v] = "receive" /\ wtarget' = wtarget /\ ~first_pass'[v]
        /\ wpc'[v] = "evaluate"
    BY <1>0, <1>5 DEF Lost
  <2>. QED
    BY <2>1 DEF Passed, Evaluating
<1>6. CASE Receive(v)
  <2>1. wpc[v] = "receive" /\ wtarget' = wtarget /\ wpc'[v] = "publish"
    BY <1>0, <1>6 DEF Receive
  <2>. QED
    BY <2>1 DEF Passed, Evaluating
<1>7. CASE Take(v) \/ Woken(v)
  <2>1. ~Evaluating(v)
    BY <1>7 DEF Take, Woken, Evaluating
  <2>2. \/ wpc'[v] \in {"exited", "waiting", "idle"}
        \/ wpc'[v] = "evaluate" /\ first_pass'[v]
    BY <1>0, <1>7 DEF Take, Woken, Pop
  <2>. QED
    BY <2>1, <2>2 DEF Passed, Evaluating
<1>8. CASE Push(v)
  <2>. DEFINE wp == [wpc EXCEPT ![v] = IF windex[v] < wn[v] THEN "read" ELSE "clean"]
  <2>1. Signal(wp) /\ wp \in [Worker -> WorkerPC] /\ wpc[v] = "push"
    BY <1>0, <1>8 DEF Push, PushIndependent, WorkerPC
  <2>2. wpc'[v] = wp[v] \/ wpc'[v] = "woken"
    BY <1>0, <2>1, SignalMoves
  <2>3. ~Evaluating(v) /\ ~Evaluating(v)'
    BY <1>0, <2>1, <2>2 DEF Evaluating
  <2>. QED
    BY <2>3 DEF Passed
<1>9. CASE \/ Spawn(v) \/ SpuriousWake(v) \/ DiscardUnref(v) \/ ReadDepender(v)
           \/ Decrement(v) \/ Clean(v) \/ Uncount(v)
  <2>1. ~Evaluating(v) /\ ~Evaluating(v)'
    BY <1>0, <1>9 DEF Spawn, SpuriousWake, DiscardUnref, ReadDepender, Decrement, NextDepender,
                      Clean, Uncount, Evaluating
  <2>. QED
    BY <2>1 DEF Passed
<1>. QED
  BY <1>1, <1>2, <1>3, <1>4, <1>5, <1>6, <1>7, <1>8, <1>9 DEF Next, Work

\* The worker that removes comes past one operand.
LEMMA PassedByRemoving ==
  ASSUME IInv, NEW w \in Worker, RemoveDepender(w), NEW d, NEW k \in 1..Len(operands[wtarget[w]])
  PROVE  Passed(w, d, k)' <=> Passed(w, d, k) \/ (d = wtarget[w] /\ k = windex[w])
<1>1. /\ wpc[w] = "remove" /\ wtarget' = wtarget
      /\ \/ /\ windex[w] < Len(operands[wtarget[w]])
            /\ wpc'[w] = "remove" /\ windex'[w] = windex[w] + 1
         \/ wpc'[w] = "receive" /\ windex[w] >= Len(operands[wtarget[w]])
  <2>1. wpc \in [Worker -> WorkerPC] /\ windex \in [Worker -> Nat]
    BY DEF IInv, TypeOK, WorkerTypes
  <2>2. /\ wtarget[w] \in Terminal /\ Len(operands[wtarget[w]]) \in Nat
    BY DEF RemoveDepender, IInv, WorkerIndices, IndicesOf, Busy, TypeOK, TerminalTypes
  <2>. QED
    BY <2>1, <2>2 DEF RemoveDepender
<1>2. wtarget[w] \in Terminal /\ windex[w] \in 1..Len(operands[wtarget[w]])
        /\ Len(operands[wtarget[w]]) \in Nat
  BY DEF RemoveDepender, IInv, WorkerIndices, IndicesOf, Busy, TypeOK, TerminalTypes
<1>3. windex[w] \in Nat /\ k \in Nat
  BY <1>2
<1>4. CASE wtarget[w] = d
  <2>1. Passed(w, d, k) <=> k < windex[w]
    BY <1>1, <1>3, <1>4 DEF Passed, Evaluating
  <2>2. CASE wpc'[w] = "remove" /\ windex'[w] = windex[w] + 1
    <3>1. Passed(w, d, k)' <=> k < windex[w] + 1
      BY <1>1, <1>3, <1>4, <2>2 DEF Passed, Evaluating
    <3>. QED
      BY <1>3, <1>4, <2>1, <3>1
  <2>3. CASE wpc'[w] = "receive" /\ windex[w] >= Len(operands[wtarget[w]])
    <3>1. Passed(w, d, k)'
      BY <1>1, <1>4, <2>3 DEF Passed, Evaluating
    <3>2. k <= windex[w]
      BY <1>2, <1>3, <2>3
    <3>. QED
      BY <1>3, <1>4, <2>1, <3>1, <3>2
  <2>. QED
    BY <1>1, <2>2, <2>3
<1>5. CASE wtarget[w] # d
  BY <1>1, <1>5 DEF Passed
<1>. QED
  BY <1>4, <1>5

\* An operand is unremoved until the worker that evaluates the expression removes it.
LEMMA UnremovedKept ==
  ASSUME IInv, Next, NEW d \in Terminal, NEW k \in 1..Len(operands[d])
  PROVE  Unremoved(d, k)' <=>
           Unremoved(d, k) /\ ~\E w \in Worker : /\ RemoveDepender(w)
                                                 /\ wtarget[w] = d /\ windex[w] = k
<1>0. k \in Nat \ {0} /\ operands[d] # <<>>
  BY DEF IInv, TypeOK, TerminalTypes
<1>1. ~New(d)
  BY <1>0 DEF New, IInv, UnbornBlank
<1>2. ASSUME NEW w \in Worker, Publish(w), wtarget[w] = d
      PROVE  Passed(w, d, k) /\ is_result'[d]
  <2>1. is_result'[d]
    BY <1>2 DEF Publish, IInv, TypeOK, TerminalTypes
  <2>. QED
    BY <1>2, <2>1 DEF Publish, Passed, Evaluating
<1>3. ASSUME NEW w \in Worker, RemoveDepender(w), wtarget[w] = d, windex[w] = k
      PROVE  Passed(w, d, k)'
  BY <1>3, PassedByRemoving
<1>4. CASE \A w \in Worker : ~(Publish(w) /\ wtarget[w] = d)
  <2>1. is_result'[d] <=> is_result[d]
    BY <1>1, <1>4, ResultStep
  <2>2. ASSUME NEW v \in Worker, ~(RemoveDepender(v) /\ wtarget[v] = d /\ windex[v] = k)
        PROVE  Passed(v, d, k)' <=> Passed(v, d, k)
    <3>1. CASE Publish(v)
      <4>1. wtarget[v] # d /\ wtarget' = wtarget
        BY <1>4, <3>1 DEF Publish
      <4>. QED
        BY <4>1 DEF Passed
    <3>2. CASE RemoveDepender(v)
      <4>1. CASE wtarget[v] = d
        BY <2>2, <3>2, <4>1, PassedByRemoving
      <4>2. CASE wtarget[v] # d
        <5>1. wtarget' = wtarget
          BY <3>2 DEF RemoveDepender
        <5>. QED
          BY <4>2, <5>1 DEF Passed
      <4>. QED
        BY <4>1, <4>2
    <3>3. CASE ~Publish(v) /\ ~RemoveDepender(v)
      BY <1>0, <3>3, PassedKept
    <3>. QED
      BY <3>1, <3>2, <3>3
  <2>. QED
    BY <1>3, <2>1, <2>2, UnremovedPassed
<1>. QED
  BY <1>2, <1>4, UnremovedPassed

\* The entries and the operands they are for are finitely many.
LEMMA ListsFinite ==
  ASSUME IInv, NEW o \in Terminal, NEW d \in Terminal
  PROVE  /\ IsFiniteSet(EntriesOf(o, d)) /\ IsFiniteSet(UsesLeft(o, d))
         /\ Cardinality(EntriesOf(o, d)) \in Nat /\ Cardinality(UsesLeft(o, d)) \in Nat
<1>1. Len(dependers[o]) \in Nat /\ Len(operands[d]) \in Nat
  BY DEF IInv, TypeOK, TerminalTypes
<1>2. IsFiniteSet(1..Len(dependers[o])) /\ IsFiniteSet(1..Len(operands[d]))
  <2>1. ASSUME NEW n \in Nat PROVE IsFiniteSet(1..n)
    BY <2>1, FS_Interval
  <2>. QED
    BY <1>1, <2>1
<1>3. EntriesOf(o, d) \subseteq 1..Len(dependers[o]) /\ UsesLeft(o, d) \subseteq 1..Len(operands[d])
  BY DEF EntriesOf, UsesLeft
<1>4. IsFiniteSet(EntriesOf(o, d)) /\ IsFiniteSet(UsesLeft(o, d))
  BY <1>2, <1>3, FS_Subset
<1>. QED
  BY <1>4, FS_CardinalityType

\* Entries come and go with the operands they are for.
LEMMA EntriesMatchStep ==
  ASSUME IInv, RInv, Next
  PROVE  EntriesMatch'
<1>. SUFFICES ASSUME NEW o \in Terminal, NEW d \in Terminal
              PROVE  Cardinality(EntriesOf(o, d)') = Cardinality(UsesLeft(o, d)')
  BY DEF EntriesMatch
<1>0. /\ IsFiniteSet(EntriesOf(o, d)) /\ IsFiniteSet(UsesLeft(o, d))
      /\ Cardinality(EntriesOf(o, d)) = Cardinality(UsesLeft(o, d))
  BY ListsFinite DEF RInv, EntriesMatch
<1>1. CASE Link
  <2>. SUFFICES ASSUME NEW f, NEW n, NEW p, Links(f, n, p)
                PROVE  Cardinality(EntriesOf(o, d)') = Cardinality(UsesLeft(o, d)')
    BY DEF Links
  <2>1. /\ f \in Terminal /\ f = ftarget /\ p \in Terminal
        /\ n \in Nat \ {0} /\ Len(operands[f]) = n - 1
        /\ Len(operands'[f]) = n /\ operands'[f][n] = p
        /\ \A k \in 1..(n - 1) : operands'[f][k] = operands[f][k]
        /\ \A u \in Terminal : u # f => operands'[u] = operands[u]
    BY <1>1, OperandsAfterLink
  <2>2. /\ Len(dependers[p]) \in Nat /\ Len(dependers'[p]) = Len(dependers[p]) + 1
        /\ dependers'[p][Len(dependers[p]) + 1] = f
        /\ \A j \in 1..Len(dependers[p]) : dependers'[p][j] = dependers[p][j]
        /\ \A u \in Terminal : u # p => dependers'[u] = dependers[u]
    BY <1>1, ListsAfterLink
  <2>3. ASSUME NEW k PROVE Unremoved(d, k)' <=> Unremoved(d, k)
    BY <1>1 DEF Link, workerVars, Unremoved, Evaluating
  <2>4. Unremoved(f, n)
    <3>1. ~is_result[f] /\ Guard(f) = 1
      BY <1>1, <2>1 DEF Link, IInv, FrontShape, Guard
    <3>2. ASSUME NEW w \in Worker, Evaluating(w), wtarget[w] = f PROVE FALSE
      <4>1. Independent(f)
        BY <3>2 DEF IInv, ScheduledIndependent
      <4>2. Guard(f) = 0
        BY <2>1, <4>1, IndependentNotDue DEF IInv, Independent
      <4>. QED
        BY <3>1, <4>2
    <3>. QED
      BY <3>1, <3>2 DEF Unremoved
  <2>5. CASE o = p /\ d = f
    <3>. DEFINE m == Len(dependers[p]) + 1
    <3>1. EntriesOf(o, d)' = EntriesOf(o, d) \cup {m} /\ m \notin EntriesOf(o, d)
      <4>1. 1..m = (1..(m - 1)) \cup {m} /\ m \notin 1..(m - 1) /\ m - 1 = Len(dependers[p])
        BY <2>2
      <4>. QED
        BY <2>2, <2>5, <4>1 DEF EntriesOf
    <3>2. UsesLeft(o, d)' = UsesLeft(o, d) \cup {n} /\ n \notin UsesLeft(o, d)
      <4>1. 1..n = (1..(n - 1)) \cup {n} /\ n \notin 1..(n - 1)
        BY <2>1
      <4>2. n \notin UsesLeft(o, d)
        BY <2>1, <2>5, <4>1 DEF UsesLeft
      <4>3. ASSUME NEW k PROVE k \in UsesLeft(o, d)' <=> k \in UsesLeft(o, d) \/ k = n
        <5>1. k \in UsesLeft(o, d)' <=> k \in 1..n /\ operands'[f][k] = p /\ Unremoved(d, k)
          BY <2>1, <2>3, <2>5 DEF UsesLeft
        <5>2. k \in UsesLeft(o, d) <=> k \in 1..(n - 1) /\ operands[f][k] = p /\ Unremoved(d, k)
          BY <2>1, <2>5 DEF UsesLeft
        <5>. QED
          BY <2>1, <2>4, <2>5, <4>1, <5>1, <5>2
      <4>. QED
        BY <4>2, <4>3
    <3>3. Cardinality(EntriesOf(o, d)') = Cardinality(EntriesOf(o, d)) + 1
      BY <1>0, <3>1, FS_AddElement
    <3>4. Cardinality(UsesLeft(o, d)') = Cardinality(UsesLeft(o, d)) + 1
      BY <1>0, <3>2, FS_AddElement
    <3>. QED
      BY <1>0, <3>3, <3>4
  <2>6. CASE ~(o = p /\ d = f)
    <3>1. EntriesOf(o, d)' = EntriesOf(o, d)
      <4>1. CASE o # p
        BY <2>2, <4>1 DEF EntriesOf
      <4>2. CASE o = p /\ d # f
        <5>. DEFINE m == Len(dependers[p]) + 1
        <5>1. 1..m = (1..(m - 1)) \cup {m} /\ m \notin 1..(m - 1) /\ m - 1 = Len(dependers[p])
          BY <2>2
        <5>. QED
          BY <2>2, <4>2, <5>1 DEF EntriesOf
      <4>. QED
        BY <2>6, <4>1, <4>2
    <3>2. UsesLeft(o, d)' = UsesLeft(o, d)
      <4>1. CASE d # f
        <5>1. operands'[d] = operands[d]
          BY <2>1, <4>1
        <5>. QED
          BY <2>3, <5>1 DEF UsesLeft
      <4>2. CASE d = f /\ o # p
        <5>1. 1..n = (1..(n - 1)) \cup {n} /\ n \notin 1..(n - 1)
          BY <2>1
        <5>2. ASSUME NEW k PROVE k \in UsesLeft(o, d)' <=> k \in UsesLeft(o, d)
          <6>1. k \in UsesLeft(o, d)' <=> k \in 1..n /\ operands'[f][k] = o /\ Unremoved(d, k)
            BY <2>1, <2>3, <4>2 DEF UsesLeft
          <6>2. k \in UsesLeft(o, d) <=> k \in 1..(n - 1) /\ operands[f][k] = o /\ Unremoved(d, k)
            BY <2>1, <4>2 DEF UsesLeft
          <6>. QED
            BY <2>1, <4>2, <5>1, <6>1, <6>2
        <5>. QED
          BY <5>2
      <4>. QED
        BY <2>6, <4>1, <4>2
    <3>. QED
      BY <1>0, <3>1, <3>2
  <2>. QED
    BY <2>5, <2>6
<1>2. ASSUME NEW w \in Worker, RemoveDepender(w)
      PROVE  Cardinality(EntriesOf(o, d)') = Cardinality(UsesLeft(o, d)')
  <2>1. PICK s \in Terminal, p \in Terminal, i \in Nat \ {0} :
           /\ s = wtarget[w] /\ i = windex[w] /\ i \in 1..Len(operands[s])
           /\ p = operands[s][i]
           /\ \E j \in 1..Len(dependers[p]) :
                /\ dependers[p][j] = s /\ dependers'[p][j] = None
                /\ \A k \in 1..Len(dependers[p]) : k # j => dependers'[p][k] = dependers[p][k]
           /\ Len(dependers'[p]) = Len(dependers[p])
           /\ \A t \in Terminal : t # p => dependers'[t] = dependers[t]
    BY <1>2, ListsAfterRemove
  <2>2. PICK j \in 1..Len(dependers[p]) :
           /\ dependers[p][j] = s /\ dependers'[p][j] = None
           /\ \A k \in 1..Len(dependers[p]) : k # j => dependers'[p][k] = dependers[p][k]
    BY <2>1
  <2>3. None # d /\ wpc[w] = "remove" /\ operands' = operands
    BY <1>2, TerminalAssumption DEF RemoveDepender
  <2>4. ASSUME NEW v \in Worker, RemoveDepender(v), wtarget[v] = s PROVE v = w
    <3>1. wpc[v] = "remove"
      BY <2>4 DEF RemoveDepender
    <3>. QED
      BY <2>1, <2>3, <2>4, <3>1 DEF IInv, TargetsApart, Busy
  <2>5. Unremoved(s, i)
    <3>1. ~is_result[s]
      BY <2>1, <2>3 DEF IInv, ScheduledIndependent, Independent, Evaluating
    <3>2. ASSUME NEW v \in Worker, Passed(v, s, i) PROVE FALSE
      <4>1. v = w
        BY <2>1, <2>3, <3>2 DEF Passed, Evaluating, IInv, TargetsApart, Busy
      <4>. QED
        BY <2>1, <2>3, <3>2, <4>1 DEF Passed
    <3>. QED
      BY <3>1, <3>2, UnremovedPassed
  <2>6. ASSUME NEW k \in 1..Len(operands[d])
        PROVE  Unremoved(d, k)' <=> Unremoved(d, k) /\ ~(d = s /\ k = i)
    <3>1. (\E v \in Worker : RemoveDepender(v) /\ wtarget[v] = d /\ windex[v] = k)
             <=> (d = s /\ k = i)
      <4>1. CASE d = s /\ k = i
        BY <1>2, <2>1, <4>1
      <4>2. ASSUME NEW v \in Worker, RemoveDepender(v), wtarget[v] = d, windex[v] = k, d = s
            PROVE  k = i
        BY <2>1, <2>4, <4>2
      <4>3. ASSUME NEW v \in Worker, RemoveDepender(v), wtarget[v] = d PROVE d = s
        <5>1. CASE v = w
          BY <2>1, <4>3, <5>1
        <5>2. CASE v # w
          <6>1. wpc[v] = "remove" /\ wpc \in [Worker -> WorkerPC] /\ windex \in [Worker -> Nat]
            BY <4>3 DEF RemoveDepender, IInv, TypeOK, WorkerTypes
          <6>2. wpc'[v] = wpc[v] /\ windex'[v] = windex[v]
            BY <1>2, <5>2, WorkerMovesNoOther, <6>1 DEF IInv, Work, Unmoved, NoTarget
          <6>3. Len(operands[wtarget[v]]) \in Nat
            BY <4>3 DEF IInv, TypeOK, TerminalTypes
          <6>. QED
            BY <4>3, <6>1, <6>2, <6>3 DEF RemoveDepender
        <5>. QED
          BY <5>1, <5>2
      <4>. QED
        BY <4>1, <4>2, <4>3
    <3>. QED
      BY <3>1, UnremovedKept
  <2>7. CASE o = p /\ d = s
    <3>1. EntriesOf(o, d)' = EntriesOf(o, d) \ {j} /\ j \in EntriesOf(o, d)
      <4>1. j \in EntriesOf(o, d)
        BY <2>2, <2>7 DEF EntriesOf
      <4>2. ASSUME NEW k PROVE k \in EntriesOf(o, d)' <=> k \in EntriesOf(o, d) /\ k # j
        <5>1. k \in EntriesOf(o, d)' <=> k \in 1..Len(dependers[o]) /\ dependers'[o][k] = d
          BY <2>1, <2>7 DEF EntriesOf
        <5>2. k \in EntriesOf(o, d) <=> k \in 1..Len(dependers[o]) /\ dependers[o][k] = d
          BY DEF EntriesOf
        <5>. QED
          BY <2>2, <2>3, <2>7, <5>1, <5>2
      <4>. QED
        BY <4>1, <4>2
    <3>2. UsesLeft(o, d)' = UsesLeft(o, d) \ {i} /\ i \in UsesLeft(o, d)
      BY <2>1, <2>3, <2>5, <2>6, <2>7 DEF UsesLeft
    <3>3. Cardinality(EntriesOf(o, d)') = Cardinality(EntriesOf(o, d)) - 1
      BY <1>0, <3>1, FS_RemoveElement
    <3>4. Cardinality(UsesLeft(o, d)') = Cardinality(UsesLeft(o, d)) - 1
      BY <1>0, <3>2, FS_RemoveElement
    <3>. QED
      BY <1>0, <3>3, <3>4
  <2>8. CASE ~(o = p /\ d = s)
    <3>1. EntriesOf(o, d)' = EntriesOf(o, d)
      <4>1. CASE o # p
        BY <2>1, <4>1 DEF EntriesOf
      <4>2. CASE o = p /\ d # s
        <5>1. ASSUME NEW k PROVE k \in EntriesOf(o, d)' <=> k \in EntriesOf(o, d)
          <6>1. k \in EntriesOf(o, d)' <=> k \in 1..Len(dependers[o]) /\ dependers'[o][k] = d
            BY <2>1, <4>2 DEF EntriesOf
          <6>2. k \in EntriesOf(o, d) <=> k \in 1..Len(dependers[o]) /\ dependers[o][k] = d
            BY DEF EntriesOf
          <6>. QED
            BY <2>2, <2>3, <4>2, <6>1, <6>2
        <5>. QED
          BY <5>1
      <4>. QED
        BY <2>8, <4>1, <4>2
    <3>2. UsesLeft(o, d)' = UsesLeft(o, d)
      <4>1. ASSUME NEW k PROVE k \in UsesLeft(o, d)' <=> k \in UsesLeft(o, d)
        BY <2>1, <2>3, <2>6, <2>8 DEF UsesLeft
      <4>. QED
        BY <4>1
    <3>. QED
      BY <1>0, <3>1, <3>2
  <2>. QED
    BY <2>7, <2>8
<1>3. CASE ~Link /\ \A w \in Worker : ~RemoveDepender(w)
  <2>1. dependers' = dependers /\ operands' = operands
    BY <1>3, ListsKept, OperandsKept
  <2>2. EntriesOf(o, d)' = EntriesOf(o, d)
    BY <2>1 DEF EntriesOf
  <2>3. UsesLeft(o, d)' = UsesLeft(o, d)
    BY <1>3, <2>1, UnremovedKept DEF UsesLeft
  <2>. QED
    BY <1>0, <2>2, <2>3
<1>. QED
  BY <1>1, <1>2, <1>3

-----------------------------------------------------------------------------
(* Nothing independent is forgotten *)

\* A worker keeps what it evaluates until it publishes it.
LEMMA EvaluatingStays ==
  ASSUME IInv, Next, NEW v \in Worker, Evaluating(v), ~Publish(v)
  PROVE  Evaluating(v)' /\ wtarget'[v] = wtarget[v]
<1>0. /\ wpc \in [Worker -> WorkerPC] /\ wtarget \in [Worker -> Terminal \cup {None}] /\ TypeOK
  BY DEF IInv, TypeOK, WorkerTypes
<1>1. Unmoved(v) => Evaluating(v)' /\ wtarget'[v] = wtarget[v]
  BY DEF Unmoved, NoTarget, Evaluating
<1>2. ASSUME \/ Start \/ CountBlock \/ SpuriousUnblock \/ FrontBake \/ FrontIdle \/ Join
             \/ Finished
      PROVE  Unmoved(v)
  BY <1>0, <1>2, FrontMovesNoWorker
<1>3. ASSUME NEW w \in Worker, Spawn(w) \/ SpuriousWake(w) \/ Lost(w) \/ Work(w), w # v
      PROVE  Unmoved(v)
  BY <1>0, <1>3, WorkerMovesNoOther
<1>4. CASE Evaluate(v) \/ RemoveDepender(v) \/ Receive(v) \/ Lost(v)
  <2>1. wtarget' = wtarget
    BY <1>4 DEF Evaluate, RemoveDepender, Receive, Lost
  <2>2. Evaluating(v)'
    BY <1>0, <1>4 DEF Evaluate, RemoveDepender, Receive, Lost, Evaluating
  <2>. QED
    BY <2>1, <2>2
<1>5. ~(\/ Spawn(v) \/ SpuriousWake(v) \/ Take(v) \/ Woken(v) \/ DiscardUnref(v)
        \/ ReadDepender(v) \/ Decrement(v) \/ Push(v) \/ Clean(v) \/ Uncount(v))
  BY DEF Spawn, SpuriousWake, Take, Woken, DiscardUnref, ReadDepender, Decrement, Push, Clean,
         Uncount, Evaluating
<1>. QED
  BY <1>1, <1>2, <1>3, <1>4, <1>5 DEF Next, Work

\* A worker keeps what it is to append until it does.
LEMMA PushStays ==
  ASSUME IInv, Next, NEW v \in Worker, wpc[v] = "push", ~Push(v)
  PROVE  wpc'[v] = "push" /\ wdepender'[v] = wdepender[v]
<1>0. TypeOK
  BY DEF IInv
<1>1. Unmoved(v) => wpc'[v] = "push" /\ wdepender'[v] = wdepender[v]
  BY DEF Unmoved, NoTarget
<1>2. ASSUME \/ Start \/ CountBlock \/ SpuriousUnblock \/ FrontBake \/ FrontIdle \/ Join
             \/ Finished
      PROVE  Unmoved(v)
  BY <1>0, <1>2, FrontMovesNoWorker
<1>3. ASSUME NEW w \in Worker, Spawn(w) \/ SpuriousWake(w) \/ Lost(w) \/ Work(w), w # v
      PROVE  Unmoved(v)
  BY <1>0, <1>3, WorkerMovesNoOther
<1>4. ~(\/ Spawn(v) \/ SpuriousWake(v) \/ Lost(v) \/ Take(v) \/ Woken(v) \/ Evaluate(v)
        \/ RemoveDepender(v) \/ Receive(v) \/ Publish(v) \/ DiscardUnref(v)
        \/ ReadDepender(v) \/ Decrement(v) \/ Clean(v) \/ Uncount(v))
  BY DEF Spawn, SpuriousWake, Lost, Take, Woken, Evaluate, RemoveDepender, Receive, Publish,
         DiscardUnref, ReadDepender, Decrement, Clean, Uncount
<1>. QED
  BY <1>1, <1>2, <1>3, <1>4 DEF Next, Work

\* The queue grows at its end and loses its head to the worker that pops it.
LEMMA QueueStep ==
  ASSUME Next
  PROVE  \/ independent' = independent
         \/ FrontPush /\ independent' = Append(independent, ftarget)
         \/ \E w \in Worker : Push(w) /\ independent' = Append(independent, wdepender[w])
         \/ \E w \in Worker : Pop(w)
<1>1. CASE FrontPush
  BY <1>1 DEF FrontPush, PushIndependent
<1>2. ASSUME NEW w \in Worker, Push(w)
      PROVE  independent' = Append(independent, wdepender[w])
  BY <1>2 DEF Push, PushIndependent
<1>3. ASSUME NEW w \in Worker, Take(w) \/ Woken(w) PROVE Pop(w) \/ independent' = independent
  BY <1>3 DEF Take, Woken
<1>4. ASSUME \/ Start \/ CountBlock \/ SpuriousUnblock \/ CountPass \/ Link \/ FrontDecrement
             \/ Destroy \/ Join \/ Finished
      PROVE  independent' = independent
  BY <1>4 DEF Start, CountBlock, SpuriousUnblock, CountPass, Link, FrontDecrement, Destroy,
              Join, Finished, vars, queueVars
<1>5. ASSUME NEW t \in Terminal,
             New(t) \/ Ref(t) \/ FrontUnref(t) \/ FrontDiscard(t)
               \/ \E os \in OperandSeq : Bake(t, os)
      PROVE  independent' = independent
  BY <1>5 DEF New, Ref, FrontUnref, FrontDiscard, Bake, queueVars
<1>6. ASSUME NEW w \in Worker,
             \/ Spawn(w) \/ SpuriousWake(w) \/ Lost(w) \/ Evaluate(w) \/ RemoveDepender(w)
             \/ Receive(w) \/ Publish(w) \/ DiscardUnref(w) \/ ReadDepender(w)
             \/ Decrement(w) \/ Clean(w) \/ Uncount(w)
      PROVE  independent' = independent
  BY <1>6 DEF Spawn, SpuriousWake, Lost, Evaluate, RemoveDepender, Receive, Publish,
              DiscardUnref, ReadDepender, Decrement, Clean, Uncount, queueVars
<1>. QED
  BY <1>1, <1>2, <1>3, <1>4, <1>5, <1>6 DEF Next, FrontBake, FrontIdle, Work

\* The terminal is at one of the places of ScheduledSomewhere.
Somewhere(t) ==
  \/ \E i \in 1..Len(independent) : independent[i] = t
  \/ \E w \in Worker : Evaluating(w) /\ wtarget[w] = t
  \/ \E w \in Worker : wpc[w] = "push" /\ wdepender[w] = t
  \/ fpc = "push" /\ ftarget = t

\* What is in the queue stays in the queue or is popped for evaluation.
LEMMA QueuedStays ==
  ASSUME IInv, Next, NEW i \in 1..Len(independent)
  PROVE  \/ \E j \in 1..Len(independent') : independent'[j] = independent[i]
         \/ \E w \in Worker : Evaluating(w)' /\ wtarget'[w] = independent[i]
<1>0. independent \in Seq(Terminal)
  BY DEF IInv, TypeOK, QueueTypes
<1>1. CASE independent' = independent
  BY <1>1
<1>2. ASSUME NEW x, independent' = Append(independent, x)
      PROVE  \E j \in 1..Len(independent') : independent'[j] = independent[i]
  <2>1. /\ Len(independent') = Len(independent) + 1 /\ Len(independent) \in Nat
        /\ independent'[i] = independent[i]
    BY <1>0, <1>2
  <2>. QED
    BY <2>1
<1>3. ASSUME NEW w \in Worker, Pop(w)
      PROVE  \/ \E j \in 1..Len(independent') : independent'[j] = independent[i]
             \/ Evaluating(w)' /\ wtarget'[w] = independent[i]
  <2>1. /\ independent # <<>> /\ independent' = Tail(independent)
        /\ wtarget'[w] = Head(independent) /\ wpc'[w] = "evaluate"
    BY <1>3 DEF Pop, IInv, TypeOK, WorkerTypes
  <2>2. CASE i = 1
    BY <1>0, <2>1, <2>2 DEF Evaluating
  <2>3. CASE i # 1
    <3>1. /\ Len(independent) \in Nat /\ Len(independent') = Len(independent) - 1
          /\ i - 1 \in 1..Len(independent')
      BY <1>0, <2>1, <2>3
    <3>2. independent'[i - 1] = independent[i]
      BY <1>0, <2>1, <3>1
    <3>. QED
      BY <3>1, <3>2
  <2>. QED
    BY <2>2, <2>3
<1>. QED
  BY <1>1, <1>2, <1>3, QueueStep

\* What is appended is in the queue.
LEMMA AppendedQueued ==
  ASSUME IInv, NEW x \in Terminal, independent' = Append(independent, x)
  PROVE  \E j \in 1..Len(independent') : independent'[j] = x
<1>1. independent \in Seq(Terminal)
  BY DEF IInv, TypeOK, QueueTypes
<1>2. /\ Len(independent') = Len(independent) + 1 /\ Len(independent) \in Nat
      /\ independent'[Len(independent) + 1] = x
  BY <1>1
<1>. QED
  BY <1>2

\* What was scheduled and is not published is scheduled still.
LEMMA SomewhereStays ==
  ASSUME IInv, Next, NEW t \in Terminal, Somewhere(t), ~is_result'[t]
  PROVE  Somewhere(t)'
<1>1. CASE \E i \in 1..Len(independent) : independent[i] = t
  BY <1>1, QueuedStays DEF Somewhere
<1>2. ASSUME NEW w \in Worker, Evaluating(w), wtarget[w] = t PROVE Somewhere(t)'
  <2>1. ~Publish(w)
    BY <1>2 DEF Publish, IInv, TypeOK, TerminalTypes
  <2>2. Evaluating(w)' /\ wtarget'[w] = t
    BY <1>2, <2>1, EvaluatingStays
  <2>. QED
    BY <2>2 DEF Somewhere
<1>3. ASSUME NEW w \in Worker, wpc[w] = "push", wdepender[w] = t PROVE Somewhere(t)'
  <2>1. CASE Push(w)
    <3>1. independent' = Append(independent, t)
      BY <1>3, <2>1 DEF Push, PushIndependent
    <3>. QED
      BY <3>1, AppendedQueued DEF Somewhere
  <2>2. CASE ~Push(w)
    <3>1. wpc'[w] = "push" /\ wdepender'[w] = t
      BY <1>3, <2>2, PushStays
    <3>. QED
      BY <3>1 DEF Somewhere
  <2>. QED
    BY <2>1, <2>2
<1>4. CASE fpc = "push" /\ ftarget = t
  <2>1. CASE FrontPush
    <3>1. independent' = Append(independent, t)
      BY <1>4, <2>1 DEF FrontPush, PushIndependent
    <3>. QED
      BY <3>1, AppendedQueued DEF Somewhere
  <2>2. CASE ~FrontPush
    <3>1. fpc' = "push" /\ ftarget' = t
      <4>1. ASSUME \/ Start \/ CountBlock \/ SpuriousUnblock \/ CountPass \/ Link
                   \/ FrontDecrement \/ Destroy \/ Join
                   \/ \E u \in Terminal : \/ New(u) \/ Ref(u) \/ FrontUnref(u)
                                          \/ FrontDiscard(u)
                                          \/ \E os \in OperandSeq : Bake(u, os)
            PROVE  FALSE
        BY <1>4, <4>1 DEF Start, CountBlock, SpuriousUnblock, CountPass, Link, FrontDecrement,
                          Destroy, Join, New, Ref, FrontUnref, FrontDiscard, Bake
      <4>2. ASSUME NEW w \in Worker, Spawn(w) \/ SpuriousWake(w) \/ Lost(w) \/ Work(w)
            PROVE  fpc' = fpc /\ ftarget' = ftarget
        BY <1>4, <4>2 DEF Spawn, SpuriousWake, Lost, Work, Take, Woken, Evaluate,
                          RemoveDepender, Receive, Publish, DiscardUnref, ReadDepender,
                          Decrement, Push, Clean, Uncount, frontVars
      <4>3. Finished => fpc' = fpc /\ ftarget' = ftarget
        BY DEF Finished, vars, frontVars
      <4>. QED
        BY <1>4, <2>2, <4>1, <4>2, <4>3 DEF Next, FrontBake, FrontIdle
    <3>. QED
      BY <3>1 DEF Somewhere
  <2>. QED
    BY <2>1, <2>2
<1>. QED
  BY <1>1, <1>2, <1>3, <1>4 DEF Somewhere

\* Whoever brings dc down to zero is about to append the expression to the queue.
LEMMA ScheduledSomewhereStep ==
  ASSUME IInv, RInv, Next, TypeOK'
  PROVE  ScheduledSomewhere'
<1>. SUFFICES ASSUME NEW t \in Terminal, life'[t] # "unborn", ~is_result'[t], dc'[t] = 0
              PROVE  Somewhere(t)'
  BY DEF ScheduledSomewhere, Independent, Somewhere
<1>0. /\ dc \in [Terminal -> Int] /\ is_result \in [Terminal -> BOOLEAN]
      /\ wpc \in [Worker -> WorkerPC] /\ ~is_result[t]
  BY ResultStep DEF IInv, TypeOK, TerminalTypes, WorkerTypes
<1>1. CASE dc[t] = 0 /\ life[t] # "unborn"
  <2>1. Somewhere(t)
    BY <1>0, <1>1 DEF RInv, ScheduledSomewhere, Independent, Somewhere
  <2>. QED
    BY <2>1, SomewhereStays
<1>2. CASE life[t] = "unborn"
  <2>1. CASE New(t)
    BY <1>0, <2>1 DEF New
  <2>2. CASE CountPass /\ t = ftarget
    BY <1>0, <2>2 DEF CountPass
  <2>. QED
    BY <1>2, <2>1, <2>2, LifeStep
<1>3. CASE dc[t] # 0 /\ life[t] # "unborn"
  <2>1. CASE CountPass
    <3>1. t # ftarget
      BY <1>3, <2>1 DEF CountPass, IInv, FrontShape
    <3>. QED
      BY <1>0, <1>3, <2>1, <3>1 DEF CountPass
  <2>2. CASE Link
    <3>1. dc' = dc \/ dc' = [dc EXCEPT ![ftarget] = @ + 1]
      BY <2>2 DEF Link
    <3>2. t = ftarget /\ dc'[t] = dc[t] + 1
      BY <1>0, <1>3, <3>1
    <3>3. Guard(t) = 1
      BY <2>2, <3>2 DEF Link, Guard
    <3>4. /\ IsFiniteSet(Awaits(t)) /\ dc[t] = Cardinality(Awaits(t)) + Guard(t)
      BY <1>0 DEF IInv, CountsDue
    <3>5. Cardinality(Awaits(t)) \in Nat
      BY <3>4, FS_CardinalityType
    <3>. QED
      BY <3>2, <3>3, <3>4, <3>5
  <2>3. CASE FrontDecrement
    <3>1. t = ftarget /\ dc[t] = 1
      BY <1>0, <1>3, <2>3 DEF FrontDecrement
    <3>2. fpc' = "push" /\ ftarget' = t
      BY <2>3, <3>1 DEF FrontDecrement
    <3>. QED
      BY <3>2 DEF Somewhere
  <2>4. ASSUME NEW w \in Worker, Decrement(w) PROVE Somewhere(t)'
    <3>1. t = wdepender[w] /\ dc[t] = 1
      BY <1>0, <1>3, <2>4 DEF Decrement
    <3>2. wpc'[w] = "push" /\ wdepender' = wdepender
      BY <1>0, <2>4, <3>1 DEF Decrement
    <3>. QED
      BY <3>1, <3>2 DEF Somewhere
  <2>5. CASE ~CountPass /\ ~Link /\ ~FrontDecrement /\ \A w \in Worker : ~Decrement(w)
    BY <1>3, <2>5, CountsKept
  <2>. QED
    BY <2>1, <2>2, <2>3, <2>4, <2>5
<1>. QED
  BY <1>1, <1>2, <1>3

-----------------------------------------------------------------------------
(* The invariant *)

\* Nothing is referenced, listed or scheduled at the start.
LEMMA RInvInit ==
  ASSUME Init
  PROVE  RInv
<1>1. PendingLive /\ Wanted /\ DiscardsMarked /\ OperandsResolved /\ BuiltFromOthers /\ ArgsHeld
  BY DEF Init, PendingLive, Wanted, Pending, DiscardsMarked, OperandsResolved, Busy,
         BuiltFromOthers, ArgsHeld
<1>2. EntriesNamed /\ ScheduledSomewhere
  BY DEF Init, EntriesNamed, ScheduledSomewhere, Independent
<1>3. EntriesMatch
  <2>1. ASSUME NEW o \in Terminal, NEW d \in Terminal
        PROVE  EntriesOf(o, d) = {} /\ UsesLeft(o, d) = {}
    BY DEF Init, EntriesOf, UsesLeft
  <2>. QED
    BY <2>1 DEF EntriesMatch
<1>4. ASSUME NEW t \in Terminal PROVE Uses(t) = {}
  BY DEF Init, Uses
<1>5. IsFiniteSet({}) /\ Cardinality({}) = 0
  BY FS_EmptySet
<1>6. ASSUME NEW t \in Terminal
      PROVE  refcount[t] = 0 /\ held[t] = 0 /\ ~HandedOver(t) /\ life[t] = "unborn"
  BY DEF Init, HandedOver
<1>7. RefcountExact
  BY <1>4, <1>5, <1>6 DEF RefcountExact
<1>. QED
  BY <1>1, <1>2, <1>3, <1>4, <1>5, <1>7 DEF RInv

\* Every step keeps it.
LEMMA RInvNext ==
  ASSUME IInv, RInv, Next, IInv'
  PROVE  RInv'
<1>1. TypeOK' /\ WorkerIndices' /\ FrontShape'
  BY DEF IInv
<1>2. PendingLive' /\ Wanted' /\ DiscardsMarked' /\ OperandsResolved' /\ BuiltFromOthers'
        /\ ArgsHeld'
  BY <1>1, PendingLiveStep, WantedStep, DiscardsMarkedStep, OperandsResolvedStep,
     BuiltFromOthersStep, ArgsHeldStep
<1>3. EntriesNamed' /\ EntriesMatch' /\ ScheduledSomewhere'
  BY <1>1, EntriesNamedStep, EntriesMatchStep, ScheduledSomewhereStep
<1>4. RefcountExact' /\ \A t \in Terminal : IsFiniteSet(Uses(t))'
  BY <1>1, RefcountStep DEF RefcountExact, Owned
<1>. QED
  BY <1>2, <1>3, <1>4 DEF RInv

\* So does a stuttering step.
LEMMA RInvStutter ==
  ASSUME RInv, UNCHANGED vars
  PROVE  RInv'
<1>. USE DEF vars, terminalVars, queueVars, frontVars, workerVars
<1>1. PendingLive' /\ Wanted' /\ DiscardsMarked' /\ OperandsResolved' /\ BuiltFromOthers'
        /\ ArgsHeld'
  BY DEF RInv, PendingLive, Wanted, Pending, DiscardsMarked, OperandsResolved, Busy,
         BuiltFromOthers, ArgsHeld
<1>2. EntriesNamed' /\ ScheduledSomewhere'
  BY DEF RInv, EntriesNamed, ScheduledSomewhere, Independent, Evaluating
<1>3. EntriesMatch'
  <2>1. ASSUME NEW o \in Terminal, NEW d \in Terminal
        PROVE  EntriesOf(o, d)' = EntriesOf(o, d) /\ UsesLeft(o, d)' = UsesLeft(o, d)
    BY DEF EntriesOf, UsesLeft, Unremoved, Evaluating
  <2>. QED
    BY <2>1 DEF RInv, EntriesMatch
<1>4. ASSUME NEW t \in Terminal
      PROVE  /\ Uses(t)' = Uses(t) /\ (HandedOver(t)' <=> HandedOver(t))
             /\ refcount' = refcount /\ held' = held /\ life' = life
  <2>1. ASSUME NEW d, NEW k PROVE Referenced(d, k)' <=> Referenced(d, k)
    BY DEF Referenced, Pending
  <2>2. Uses(t)' = Uses(t)
    BY <2>1 DEF Uses
  <2>. QED
    BY <2>2 DEF HandedOver
<1>5. RefcountExact'
  BY <1>4 DEF RInv, RefcountExact
<1>6. \A t \in Terminal : IsFiniteSet(Uses(t))'
  BY <1>4 DEF RInv
<1>. QED
  BY <1>1, <1>2, <1>3, <1>5, <1>6 DEF RInv

\* Both invariants together are inductive: the references rest on the counters, the queue
\* and the lists being right, but not the other way round.
THEOREM ReferenceInvariance == SafeSpec => [](IInv /\ RInv)
<1>1. Init => IInv /\ RInv
  BY IInvInit, RInvInit
<1>2. IInv /\ RInv /\ [Next]_vars => (IInv /\ RInv)'
  BY IInvNext, IInvStutter, RInvNext, RInvStutter
<1>. QED
  BY <1>1, <1>2, PTL DEF SafeSpec

-----------------------------------------------------------------------------
(* What follows for the code *)

\* An operand of an expression that refers to it is there.
LEMMA ReferencedLive ==
  ASSUME IInv, RInv, NEW d \in Terminal, NEW k \in 1..Len(operands[d]), Referenced(d, k)
  PROVE  operands[d][k] \in Terminal /\ life[operands[d][k]] = "live"
<1>1. operands[d][k] \in Terminal
  BY DEF IInv, TypeOK, TerminalTypes
<1>2. life[operands[d][k]] # "unborn"
  BY <1>1 DEF IInv, UnbornBlank
<1>3. <<d, k>> \in Uses(operands[d][k])
  BY UsesMember
<1>. QED
  BY <1>1, <1>2, <1>3, Account

\* An entry that is going to be signalled names a pending expression, and the terminal in
\* whose list it is is one of its operands.
LEMMA DueEntryLive ==
  ASSUME IInv, RInv, NEW t \in Terminal, NEW j \in 1..Len(dependers[t]), Due(t, j)
  PROVE  dependers[t][j] \in Terminal /\ Pending(dependers[t][j]) /\ life[t] = "live"
<1>. DEFINE d == dependers[t][j]
<1>1. d \in Terminal /\ ~is_result[d]
  BY DEF IInv, DueEntriesPending
<1>2. PICK k \in 1..Len(operands[d]) : operands[d][k] = t
  BY <1>1 DEF RInv, EntriesNamed
<1>3. life[d] # "unborn"
  BY <1>1 DEF IInv, UnbornBlank
<1>4. Pending(d)
  BY <1>1, <1>3 DEF RInv, PendingLive, Pending, IInv, TypeOK, TerminalTypes
<1>5. Referenced(d, k)
  BY <1>4 DEF Referenced
<1>. QED
  BY <1>1, <1>2, <1>4, <1>5, ReferencedLive

\* Reference counts are exact: the memory of a terminal is freed exactly when the frontend,
\* the expressions and the pending discards have all given their references up, in whatever
\* order the threads do so.
THEOREM ReferencesCounted == SafeSpec => []RefcountExact
<1>1. IInv /\ RInv => RefcountExact
  BY DEF RInv
<1>. QED
  BY <1>1, ReferenceInvariance, PTL

\* No worker reaches for memory that was freed, or for the expression of a terminal whose
\* expression was replaced by its result.
THEOREM AccessesAreValid == SafeSpec => []NoDanglingAccess
<1>1. IInv /\ RInv => NoDanglingAccess
  <2>. SUFFICES ASSUME IInv, RInv, NEW w \in Worker
                PROVE  /\ Evaluating(w) =>
                            /\ Pending(wtarget[w])
                            /\ \A k \in 1..Len(operands[wtarget[w]]) :
                                 life[operands[wtarget[w]][k]] = "live"
                       /\ wpc[w] \in {"discard", "read"} => life[wtarget[w]] = "live"
                       /\ wpc[w] = "read" => dependers[wtarget[w]][windex[w]] # None
                       /\ wpc[w] \in {"decrement", "push"} =>
                            wdepender[w] # None /\ Pending(wdepender[w])
    BY DEF NoDanglingAccess
  <2>1. ASSUME Evaluating(w)
        PROVE  /\ Pending(wtarget[w])
               /\ \A k \in 1..Len(operands[wtarget[w]]) :
                    life[operands[wtarget[w]][k]] = "live"
    <3>1. wtarget[w] \in Terminal /\ Pending(wtarget[w])
      BY <2>1, TargetPending
    <3>2. ASSUME NEW k \in 1..Len(operands[wtarget[w]]) PROVE Referenced(wtarget[w], k)
      BY <3>1 DEF Referenced
    <3>. QED
      BY <3>1, <3>2, ReferencedLive
  <2>2. ASSUME wpc[w] = "discard" PROVE life[wtarget[w]] = "live"
    <3>1. wtarget[w] \in Terminal /\ operands[wtarget[w]] # <<>>
      BY <2>2 DEF IInv, WorkerIndices, IndicesOf, Busy, OperandsGiven
    <3>2. life[wtarget[w]] # "unborn"
      BY <3>1 DEF IInv, UnbornBlank
    <3>3. HandedOver(wtarget[w])
      BY <2>2 DEF RInv, DiscardsMarked, HandedOver
    <3>. QED
      BY <3>1, <3>2, <3>3, Account
  <2>3. ASSUME wpc[w] \in {"read", "decrement"}
        PROVE  /\ life[wtarget[w]] = "live"
               /\ dependers[wtarget[w]][windex[w]] \in Terminal
               /\ Pending(dependers[wtarget[w]][windex[w]])
    <3>1. /\ wtarget[w] \in Terminal /\ wn[w] <= Len(dependers[wtarget[w]])
          /\ windex[w] >= 1 /\ windex[w] <= wn[w]
      BY <2>3 DEF IInv, WorkerIndices, IndicesOf, Busy, Signalling
    <3>2. windex[w] \in Nat /\ wn[w] \in Nat /\ Len(dependers[wtarget[w]]) \in Nat
      BY <3>1 DEF IInv, TypeOK, TerminalTypes, WorkerTypes
    <3>3. windex[w] \in 1..Len(dependers[wtarget[w]]) /\ windex[w] \in windex[w]..wn[w]
      BY <3>1, <3>2
    <3>4. Due(wtarget[w], windex[w])
      BY <2>3, <3>3 DEF Due, Signals
    <3>. QED
      BY <3>1, <3>3, <3>4, DueEntryLive
  <2>4. None \notin Terminal
    BY TerminalAssumption
  <2>5. ASSUME wpc[w] = "decrement" PROVE wdepender[w] \in Terminal /\ Pending(wdepender[w])
    BY <2>3, <2>5 DEF IInv, DependerRead
  <2>6. ASSUME wpc[w] = "push" PROVE wdepender[w] \in Terminal /\ Pending(wdepender[w])
    <3>1. wdepender[w] \in Terminal /\ Independent(wdepender[w])
      BY <2>6 DEF IInv, WorkerIndices, IndicesOf, ScheduledIndependent
    <3>. QED
      BY <3>1 DEF Independent, RInv, PendingLive, Pending, IInv, TypeOK, TerminalTypes
  <2>. QED
    BY <2>1, <2>2, <2>3, <2>4, <2>5, <2>6
<1>. QED
  BY <1>1, ReferenceInvariance, PTL

\* The search of remove_depender, which has no end of its own, ends at an entry of the
\* target in a list that is still there.
THEOREM RemovalsFindEntries == SafeSpec => []RemovalFindsEntry
<1>1. IInv /\ RInv => RemovalFindsEntry
  <2>. SUFFICES ASSUME IInv, RInv, NEW w \in Worker, wpc[w] = "remove",
                       NEW t, t = wtarget[w], NEW i, i = windex[w], NEW o, o = operands[t][i]
                PROVE  life[o] = "live" /\ \E j \in 1..Len(dependers[o]) : dependers[o][j] = t
    BY DEF RemovalFindsEntry
  <2>1. t \in Terminal /\ Pending(t) /\ i \in 1..Len(operands[t])
    BY TargetPending DEF Evaluating, IInv, WorkerIndices, IndicesOf
  <2>2. o \in Terminal /\ life[o] = "live"
    BY <2>1, ReferencedLive DEF Referenced
  <2>3. Unremoved(t, i)
    <3>1. ~is_result[t]
      BY <2>1 DEF Pending
    <3>2. ASSUME NEW v \in Worker, Passed(v, t, i) PROVE FALSE
      <4>1. v = w
        BY <3>2 DEF Passed, Evaluating, IInv, TargetsApart, Busy
      <4>2. i \in Nat
        BY <2>1 DEF IInv, TypeOK, TerminalTypes
      <4>. QED
        BY <3>2, <4>1, <4>2 DEF Passed
    <3>. QED
      BY <3>1, <3>2, UnremovedPassed
  <2>4. i \in UsesLeft(o, t)
    BY <2>1, <2>3 DEF UsesLeft
  <2>5. Cardinality(EntriesOf(o, t)) # 0
    <3>1. /\ Cardinality(EntriesOf(o, t)) = Cardinality(UsesLeft(o, t))
          /\ IsFiniteSet(UsesLeft(o, t))
      BY <2>1, <2>2, ListsFinite DEF RInv, EntriesMatch
    <3>. QED
      BY <2>4, <3>1, FS_EmptySet
  <2>6. EntriesOf(o, t) # {}
    BY <2>5, FS_EmptySet
  <2>. QED
    BY <2>2, <2>6 DEF EntriesOf
<1>. QED
  BY <1>1, ReferenceInvariance, PTL

\* The number of elements of a set that has at most one.
LEMMA AtMostOne ==
  ASSUME NEW S, \A x, y \in S : x = y
  PROVE  Cardinality(S) = IF S = {} THEN 0 ELSE 1
<1>1. CASE S = {}
  BY <1>1, FS_EmptySet
<1>2. CASE S # {}
  <2>1. PICK x : x \in S
    BY <1>2
  <2>2. S = {x}
    BY <2>1
  <2>. QED
    BY <1>2, <2>2, FS_Singleton
<1>. QED
  BY <1>1, <1>2

\* A pending terminal whose dc is zero is at exactly one place between the step that found
\* it independent and its publication, and nothing else is ever scheduled.
THEOREM ScheduledOnce == SafeSpec => []ScheduledExactlyOnce
<1>1. IInv /\ RInv => ScheduledExactlyOnce
  <2>. SUFFICES ASSUME IInv, RInv, NEW t \in Terminal
                PROVE  Places(t) = (IF Pending(t) /\ dc[t] = 0 THEN 1 ELSE 0)
    BY DEF ScheduledExactlyOnce
  <2>. DEFINE Queued == {i \in 1..Len(independent) : independent[i] = t}
              Evaluated == {w \in Worker : Evaluating(w) /\ wtarget[w] = t}
              Pushed == {w \in Worker : wpc[w] = "push" /\ wdepender[w] = t}
              Found == fpc = "push" /\ ftarget = t
              One(b) == IF b THEN 1 ELSE 0
  <2>1. (\A x, y \in Queued : x = y) /\ (\A x, y \in Pushed : x = y)
    BY DEF IInv, ScheduledApart
  <2>2. \A x, y \in Evaluated : x = y
    BY DEF IInv, TargetsApart, Evaluating, Busy
  <2>3. /\ Cardinality(Queued) = (IF Queued = {} THEN 0 ELSE 1)
        /\ Cardinality(Evaluated) = (IF Evaluated = {} THEN 0 ELSE 1)
        /\ Cardinality(Pushed) = (IF Pushed = {} THEN 0 ELSE 1)
    <3>1. Cardinality(Queued) = (IF Queued = {} THEN 0 ELSE 1)
      BY <2>1, AtMostOne
    <3>2. Cardinality(Evaluated) = (IF Evaluated = {} THEN 0 ELSE 1)
      BY <2>2, AtMostOne
    <3>3. Cardinality(Pushed) = (IF Pushed = {} THEN 0 ELSE 1)
      BY <2>1, AtMostOne
    <3>. QED
      BY <3>1, <3>2, <3>3
  <2>4. Places(t) = Cardinality(Queued) + Cardinality(Evaluated) + Cardinality(Pushed)
                      + (IF Found THEN 1 ELSE 0)
    BY DEF Places
  <2>5. /\ Queued # {} => Evaluated = {} /\ Pushed = {} /\ ~Found
        /\ Evaluated # {} => Pushed = {} /\ ~Found
        /\ Pushed # {} => ~Found
    <3>1. /\ Queued # {} => Evaluated = {} /\ Pushed = {}
      BY DEF IInv, ScheduledApart
    <3>2. Evaluated # {} => Pushed = {}
      BY DEF IInv, ScheduledApart
    <3>3. Found => Queued = {} /\ Evaluated = {} /\ Pushed = {}
      BY DEF IInv, ScheduledApart
    <3>. QED
      BY <3>1, <3>2, <3>3
  <2>6. Pending(t) /\ dc[t] = 0 <=> Queued # {} \/ Evaluated # {} \/ Pushed # {} \/ Found
    <3>1. Independent(t) <=> Pending(t) /\ dc[t] = 0
      BY DEF Independent, RInv, PendingLive, Pending, IInv, TypeOK, TerminalTypes
    <3>2. Queued # {} \/ Evaluated # {} \/ Pushed # {} \/ Found => Independent(t)
      BY DEF IInv, ScheduledIndependent
    <3>3. Independent(t) => Queued # {} \/ Evaluated # {} \/ Pushed # {} \/ Found
      BY DEF RInv, ScheduledSomewhere
    <3>. QED
      BY <3>1, <3>2, <3>3
  <2>. HIDE DEF Queued, Evaluated, Pushed, Found
  <2>. QED
    BY <2>3, <2>4, <2>5, <2>6
<1>. QED
  BY <1>1, ReferenceInvariance, PTL

-----------------------------------------------------------------------------
(* The promise *)

\* Evaluation sees of a terminal whether it has a value, whether it waits for one and what
\* it was built from.
Submitted(t) == life[t] = "live" /\ Guard(t) = 0
BuiltFrom(t) == IF Guard(t) = 1 THEN {} ELSE {operands[t][k] : k \in 1..Len(operands[t])}

\* The termination notice is given when the frontend is done with its terminals.
NoticeLast == notice => fpc \in {"join", "done", "aborted"}

\* Every step keeps the frontend from going on after the notice.
LEMMA NoticeLastStep ==
  ASSUME NoticeLast, Next
  PROVE  NoticeLast'
<1>. USE DEF NoticeLast, queueVars, frontVars
<1>1. CASE Start \/ CountBlock \/ SpuriousUnblock \/ FrontBake \/ Destroy \/ Join \/ Finished
  BY <1>1 DEF Start, CountBlock, SpuriousUnblock, FrontBake, CountPass, Link, FrontDecrement,
              FrontPush, Destroy, Join, Finished, vars
<1>2. ASSUME NEW t \in Terminal,
             \/ New(t) \/ Ref(t) \/ FrontUnref(t) \/ FrontDiscard(t)
             \/ \E os \in OperandSeq : Bake(t, os)
      PROVE  NoticeLast'
  BY <1>2 DEF New, Ref, FrontUnref, FrontDiscard, Bake
<1>3. ASSUME NEW w \in Worker, Spawn(w) \/ SpuriousWake(w) \/ Lost(w) \/ Work(w)
      PROVE  NoticeLast'
  BY <1>3 DEF Spawn, SpuriousWake, Lost, Work, Take, Woken, Evaluate, RemoveDepender, Receive,
              Publish, DiscardUnref, ReadDepender, Decrement, Push, Clean, Uncount
<1>. QED
  BY <1>1, <1>2, <1>3 DEF Next, FrontIdle

\* A step that changes none of this is a stuttering step of Evaluation.
LEMMA Unseen ==
  ASSUME is_result' = is_result, notice' = notice,
         \A t \in Terminal : ~is_result[t] => (Submitted(t)' <=> Submitted(t)),
         \A t \in Terminal : BuiltFrom(t)' = BuiltFrom(t)
  PROVE  UNCHANGED Abstract!vars
BY DEF Abstract!vars, Submitted, BuiltFrom

\* Nothing but the construction of an expression moves the guard.
LEMMA GuardKept ==
  ASSUME IInv, Next, ~CountPass, ~FrontDecrement, NEW t \in Terminal
  PROVE  Guard(t)' = Guard(t)
<1>. USE DEF Guard, frontVars
<1>1. CASE Start \/ CountBlock \/ SpuriousUnblock \/ Link \/ FrontPush \/ Destroy \/ Join
             \/ Finished
  BY <1>1 DEF Start, CountBlock, SpuriousUnblock, Link, FrontPush, Destroy, Join, Finished, vars
<1>2. ASSUME NEW u \in Terminal,
             \/ New(u) \/ Ref(u) \/ FrontUnref(u) \/ FrontDiscard(u)
             \/ \E os \in OperandSeq : Bake(u, os)
      PROVE  Guard(t)' = Guard(t)
  BY <1>2 DEF New, Ref, FrontUnref, FrontDiscard, Bake
<1>3. ASSUME NEW w \in Worker, Spawn(w) \/ SpuriousWake(w) \/ Lost(w) \/ Work(w)
      PROVE  Guard(t)' = Guard(t)
  BY <1>3 DEF Spawn, SpuriousWake, Lost, Work, Take, Woken, Evaluate, RemoveDepender, Receive,
              Publish, DiscardUnref, ReadDepender, Decrement, Push, Clean, Uncount
<1>. QED
  BY <1>1, <1>2, <1>3 DEF Next, FrontIdle, FrontBake

\* Only Destroy gives the notice.
LEMMA NoticeKept ==
  ASSUME Next, ~Destroy
  PROVE  notice' = notice
<1>. USE DEF queueVars
<1>1. CASE Start \/ CountBlock \/ SpuriousUnblock \/ FrontBake \/ Join \/ Finished
  BY <1>1 DEF Start, CountBlock, SpuriousUnblock, FrontBake, CountPass, Link, FrontDecrement,
              FrontPush, Join, Finished, vars
<1>2. ASSUME NEW u \in Terminal,
             \/ New(u) \/ Ref(u) \/ FrontUnref(u) \/ FrontDiscard(u)
             \/ \E os \in OperandSeq : Bake(u, os)
      PROVE  notice' = notice
  BY <1>2 DEF New, Ref, FrontUnref, FrontDiscard, Bake
<1>3. ASSUME NEW w \in Worker, Spawn(w) \/ SpuriousWake(w) \/ Lost(w) \/ Work(w)
      PROVE  notice' = notice
  BY <1>3 DEF Spawn, SpuriousWake, Lost, Work, Take, Woken, Evaluate, RemoveDepender, Receive,
              Publish, DiscardUnref, ReadDepender, Decrement, Push, Clean, Uncount
<1>. QED
  BY <1>1, <1>2, <1>3, ~Destroy DEF Next, FrontIdle

\* Supplying, submitting, resolving and stopping are one step of the facility each; all
\* other steps are invisible.
LEMMA InvisibleStep ==
  ASSUME IInv, RInv, Next, PendingLive',
         \A t \in Terminal : ~New(t), ~CountPass, ~FrontDecrement, ~Destroy,
         \A w \in Worker : ~Publish(w)
  PROVE  UNCHANGED Abstract!vars
<1>1. is_result' = is_result /\ notice' = notice
  BY ResultsKept, NoticeKept
<1>2. ASSUME NEW t \in Terminal PROVE Guard(t)' = Guard(t)
  BY GuardKept
<1>3. ASSUME NEW t \in Terminal, ~is_result[t] PROVE life'[t] = life[t]
  BY <1>1, <1>3, LifeChange DEF PendingLive
<1>4. ASSUME NEW t \in Terminal PROVE BuiltFrom(t)' = BuiltFrom(t)
  <2>1. CASE ~Link
    BY <1>2, <2>1, OperandsKept DEF BuiltFrom
  <2>2. CASE Link
    <3>1. t # ftarget => operands'[t] = operands[t]
      BY <2>2 DEF Link, IInv, TypeOK, TerminalTypes
    <3>2. t = ftarget => Guard(t) = 1
      BY <2>2 DEF Link, Guard
    <3>. QED
      BY <1>2, <3>1, <3>2 DEF BuiltFrom
  <2>. QED
    BY <2>1, <2>2
<1>5. ASSUME NEW t \in Terminal, ~is_result[t] PROVE Submitted(t)' <=> Submitted(t)
  BY <1>2, <1>3, <1>5 DEF Submitted
<1>. QED
  BY <1>1, <1>4, <1>5, Unseen

\* A terminal that is counted is not there before its expression is whole.
LEMMA CountPassInvisible ==
  ASSUME IInv, RInv, CountPass
  PROVE  UNCHANGED Abstract!vars
<1>1. fpc = "count" /\ fpc' = "link" /\ ftarget' = ftarget
  BY DEF CountPass
<1>2. is_result' = is_result /\ notice' = notice /\ operands' = operands
  BY DEF CountPass
<1>3. life[ftarget] = "unborn" /\ operands[ftarget] = <<>>
  BY <1>1 DEF IInv, FrontShape, UnbornBlank
<1>4. ASSUME NEW t \in Terminal PROVE BuiltFrom(t)' = BuiltFrom(t)
  BY <1>1, <1>2, <1>3 DEF BuiltFrom, Guard
<1>5. ASSUME NEW t \in Terminal PROVE Submitted(t)' <=> Submitted(t)
  <2>1. t # ftarget => life'[t] = life[t]
    BY DEF CountPass, IInv, TypeOK, TerminalTypes
  <2>2. t = ftarget => ~Submitted(t) /\ ~Submitted(t)'
    BY <1>1, <1>3 DEF Submitted, Guard
  <2>3. t # ftarget => Guard(t)' = Guard(t)
    BY <1>1 DEF Guard
  <2>. QED
    BY <2>1, <2>2, <2>3 DEF Submitted
<1>. QED
  BY <1>2, <1>4, <1>5, Unseen

\* A new coefficient is a terminal that has its value.
LEMMA NewSupplies ==
  ASSUME IInv, NEW t \in Terminal, New(t)
  PROVE  Abstract!Supply(t)
<1>1. ~is_result[t] /\ life[t] = "unborn"
  BY DEF New, IInv, UnbornBlank
<1>2. /\ is_result' = [is_result EXCEPT ![t] = TRUE] /\ life' = [life EXCEPT ![t] = "live"]
      /\ operands' = operands /\ notice' = notice
      /\ \A u \in Terminal : Guard(u)' = Guard(u)
  BY DEF New, queueVars, Guard
<1>. DEFINE status == [u \in Terminal |-> IF is_result[u] THEN "result"
                                          ELSE IF life[u] = "live" /\ Guard(u) = 0
                                               THEN "pending" ELSE "absent"]
<1>3. status[t] = "absent"
  BY <1>1
<1>4. status' = [status EXCEPT ![t] = "result"]
  <2>1. ASSUME NEW u \in Terminal
        PROVE  /\ u # t => is_result'[u] = is_result[u] /\ life'[u] = life[u]
               /\ is_result'[t]
    BY <1>2 DEF IInv, TypeOK, TerminalTypes
  <2>. QED
    BY <1>2, <2>1
<1>5. UNCHANGED [u \in Terminal |-> IF Guard(u) = 1 THEN {}
                                    ELSE {operands[u][k] : k \in 1..Len(operands[u])}]
  BY <1>2
<1>. QED
  BY <1>2, <1>3, <1>4, <1>5 DEF Abstract!Supply

\* The end of the construction hands the expression over with all its operands, each of
\* which is there.
LEMMA FrontDecrementSubmits ==
  ASSUME IInv, RInv, FrontDecrement, NEW f, NEW Os, f = ftarget,
         Os = {operands[f][k] : k \in 1..Len(operands[f])}
  PROVE  f \in Terminal /\ Os \in SUBSET Terminal /\ Abstract!Submit(f, Os)
<1>. DEFINE status == [u \in Terminal |-> IF is_result[u] THEN "result"
                                          ELSE IF life[u] = "live" /\ Guard(u) = 0
                                               THEN "pending" ELSE "absent"]
            needs == [u \in Terminal |-> IF Guard(u) = 1 THEN {}
                                         ELSE {operands[u][k] : k \in 1..Len(operands[u])}]
<1>1. fpc = "link" /\ f \in Terminal /\ ~is_result[f] /\ life[f] = "live"
  <2>1. fpc = "link" /\ f \in Terminal /\ ~is_result[f] /\ life[f] # "unborn"
    BY DEF FrontDecrement, IInv, FrontShape
  <2>. QED
    BY <2>1 DEF RInv, PendingLive, IInv, TypeOK, TerminalTypes
<1>2. /\ is_result' = is_result /\ life' = life /\ operands' = operands /\ notice' = notice
      /\ fpc' # "link" /\ ftarget' = ftarget
  BY DEF FrontDecrement, queueVars
<1>3. Guard(f) = 1 /\ \A u \in Terminal : Guard(u)' = 0 /\ (u # f => Guard(u) = 0)
  BY <1>1, <1>2 DEF Guard
<1>4. Os \in SUBSET Terminal
  BY <1>1 DEF IInv, TypeOK, TerminalTypes
<1>5. ASSUME NEW d \in Os PROVE status[d] # "absent"
  <2>1. PICK k \in 1..Len(operands[f]) : operands[f][k] = d
    OBVIOUS
  <2>2. d \in Terminal /\ d # f
    BY <1>1, <1>4, <2>1 DEF RInv, BuiltFromOthers
  <2>3. life[d] # "unborn"
    BY <1>1, <2>1, <2>2 DEF IInv, UnbornBlank
  <2>4. is_result[d] \/ life[d] = "live"
    BY <2>2, <2>3 DEF RInv, PendingLive, IInv, TypeOK, TerminalTypes
  <2>. QED
    BY <1>3, <2>2, <2>4
<1>6. status[f] = "absent" /\ status' = [status EXCEPT ![f] = "pending"]
  <2>1. ASSUME NEW u \in Terminal, u # f
        PROVE  (Guard(u) = 0 <=> Guard(u)' = 0)
    BY <1>3, <2>1
  <2>2. status[f] = "absent" /\ status'[f] = "pending"
    BY <1>1, <1>2, <1>3
  <2>3. \A u \in Terminal : u # f => status'[u] = status[u]
    BY <1>2, <2>1
  <2>. QED
    BY <2>2, <2>3
<1>7. needs' = [needs EXCEPT ![f] = Os]
  <2>1. needs'[f] = Os
    BY <1>1, <1>2, <1>3
  <2>2. \A u \in Terminal : u # f => needs'[u] = needs[u]
    BY <1>2, <1>3
  <2>. QED
    BY <2>1, <2>2
<1>8. Abstract!Submit(f, Os)
  BY <1>2, <1>5, <1>6, <1>7 DEF Abstract!Submit
<1>. QED
  BY <1>1, <1>4, <1>8

\* The publication resolves a terminal all of whose operands are results.
LEMMA PublishResolves ==
  ASSUME IInv, RInv, NEW w \in Worker, Publish(w), NEW t, t = wtarget[w]
  PROVE  t \in Terminal /\ Abstract!Resolve(t)
<1>. DEFINE status == [u \in Terminal |-> IF is_result[u] THEN "result"
                                          ELSE IF life[u] = "live" /\ Guard(u) = 0
                                               THEN "pending" ELSE "absent"]
            needs == [u \in Terminal |-> IF Guard(u) = 1 THEN {}
                                         ELSE {operands[u][k] : k \in 1..Len(operands[u])}]
<1>1. t \in Terminal /\ Pending(t)
  BY TargetPending DEF Publish, Evaluating
<1>2. Guard(t) = 0
  <2>1. dc[t] = 0
    BY DEF Publish, Evaluating, IInv, ScheduledIndependent, Independent
  <2>2. /\ IsFiniteSet(Awaits(t)) /\ dc[t] = Cardinality(Awaits(t)) + Guard(t)
    BY <1>1 DEF IInv, CountsDue, Pending
  <2>3. Cardinality(Awaits(t)) \in Nat
    BY <2>2, FS_CardinalityType
  <2>. QED
    BY <2>1, <2>2, <2>3 DEF Guard
<1>3. /\ is_result' = [is_result EXCEPT ![t] = TRUE] /\ life' = life /\ operands' = operands
      /\ notice' = notice /\ \A u \in Terminal : Guard(u)' = Guard(u)
  BY DEF Publish, queueVars, frontVars, Guard
<1>4. \A k \in 1..Len(operands[t]) : operands[t][k] \in Terminal /\ is_result[operands[t][k]]
  <2>1. \A k \in 1..Len(operands[t]) : is_result[operands[t][k]]
    BY DEF Publish, RInv, OperandsResolved, Busy
  <2>2. \A k \in 1..Len(operands[t]) : operands[t][k] \in Terminal
    BY <1>1 DEF IInv, TypeOK, TerminalTypes
  <2>. QED
    BY <2>1, <2>2
<1>5. status[t] = "pending" /\ \A d \in needs[t] : status[d] = "result"
  BY <1>1, <1>2, <1>4 DEF Pending
<1>6. status' = [status EXCEPT ![t] = "result"]
  <2>1. ASSUME NEW u \in Terminal
        PROVE  (u # t => is_result'[u] = is_result[u]) /\ is_result'[t]
    BY <1>1, <1>3 DEF IInv, TypeOK, TerminalTypes
  <2>. QED
    BY <1>1, <1>3, <2>1
<1>7. needs' = needs
  BY <1>3
<1>8. Abstract!Resolve(t)
  BY <1>1, <1>3, <1>5, <1>6, <1>7 DEF Abstract!Resolve, Abstract!Ready
<1>. QED
  BY <1>1, <1>8

\* Destroy stops the facility, once.
LEMMA DestroyStops ==
  ASSUME NoticeLast, Destroy
  PROVE  Abstract!Stop
<1>1. ~notice /\ notice' = TRUE
  BY DEF NoticeLast, Destroy
<1>2. UNCHANGED <<is_result, life, operands>> /\ \A u \in Terminal : Guard(u)' = Guard(u)
  BY DEF Destroy, terminalVars, Guard
<1>. QED
  BY <1>1, <1>2 DEF Abstract!Stop

\* Every step of the facility is one of Evaluation or invisible to it.
LEMMA StepPromised ==
  ASSUME IInv, RInv, NoticeLast, Next, PendingLive'
  PROVE  [Abstract!Next]_Abstract!vars
<1>1. ASSUME NEW t \in Terminal, New(t) PROVE Abstract!Next
  BY <1>1, NewSupplies DEF Abstract!Next
<1>2. CASE FrontDecrement
  BY <1>2, FrontDecrementSubmits DEF Abstract!Next
<1>3. ASSUME NEW w \in Worker, Publish(w) PROVE Abstract!Next
  BY <1>3, PublishResolves DEF Abstract!Next
<1>4. CASE Destroy
  BY <1>4, DestroyStops DEF Abstract!Next
<1>5. CASE CountPass
  BY <1>5, CountPassInvisible
<1>6. CASE /\ \A t \in Terminal : ~New(t)
           /\ ~CountPass /\ ~FrontDecrement /\ ~Destroy
           /\ \A w \in Worker : ~Publish(w)
  BY <1>6, InvisibleStep
<1>. QED
  BY <1>1, <1>2, <1>3, <1>4, <1>5, <1>6

\* The facility does nothing but what Evaluation promises: in every run each expression is
\* handed over whole, with operands that are there, and resolved once, when all of them
\* have their results.
THEOREM KeepsPromise == SafeSpec => Abstract!SafeSpec
<1>1. Init => Abstract!Init
  BY DEF Init, Abstract!Init, Guard
<1>2. Init => NoticeLast
  BY DEF Init, NoticeLast
<1>3. NoticeLast /\ [Next]_vars => NoticeLast'
  BY NoticeLastStep DEF NoticeLast, vars, queueVars, frontVars
<1>4. SafeSpec => []NoticeLast
  BY <1>2, <1>3, PTL DEF SafeSpec
<1>5. UNCHANGED vars => UNCHANGED Abstract!vars
  BY DEF vars, terminalVars, queueVars, frontVars, Abstract!vars, Guard
<1>6. IInv /\ RInv /\ NoticeLast /\ (IInv /\ RInv)' /\ [Next]_vars
        => [Abstract!Next]_Abstract!vars
  BY <1>5, StepPromised DEF RInv
<1>. QED
  BY <1>1, <1>4, <1>6, ReferenceInvariance, PTL DEF SafeSpec, Abstract!SafeSpec
=============================================================================
