# Verification of quicksolve

quicksolve reduces Feynman integrals: it solves a large sparse system of linear identities
between integrals, whose coefficients are rational functions.  The arithmetic is done by
Fermat processes, one to each worker thread; one frontend thread decides what is computed.
This directory holds TLA+ models of the program, the TLC runs that check them on small
instances, and TLAPS proofs for instances of any size.

    tlasany M.tla                        parse
    tlc -config MCxxx_yyy.cfg MCxxx      check one run
    tlapm M.tla                          check proofs (AEFProof, TerminalGroupProof, TerminalCacheProof,
                                         ADCProof, CKSProof, EvaluatorProof, PivotGraphOperands,
                                         PivotGraphProof)

Paths below are relative to the root of the repository.

## The system

| part | source | state | operations | interacts with |
|---|---|---|---|---|
| Asynchronous evaluation facility (AEF) | `src/operand.c` | terminals with reference count, dc, operands, dependers; queue of independent terminals; count of unfinished ones; workers | new, link, bake, terminate, ref, unref, discard, spawn, destroy; the workers' loop | called by the pivot graph; calls the evaluator; notifies terminal groups |
| Terminal groups | `src/operand.c` | array of targets, reference count, mutex and condition | push, wait, pop, clear, destroy, `qs_terminal_wait` | frontend waits, workers signal |
| Coefficient cache | `src/operand.c`, callbacks in `src/pivotgraph.c` | count of users, queue of evictable terminals, memory usage, storage database, locks of all of these | publish, acquire, release, pop, load, save, discard | workers and frontend; storage in `src/db.c` |
| ADC and D-Values | `src/operand.c` | for each terminal an estimate of how soon it is needed | add_dependency, decrease_adc, update and recollect D-Value | order of the cache's queue |
| Pivot graph | `src/pivotgraph.c` | edges of each pivot, symbolic and numeric, and its metadata; ids of coefficients | meta (load), relay, collect, delete, normalize, acquire, save, destroy | AEF, integral manager |
| Solver (CKS) | `src/policies/cks.c` | the recursion; solved, touched, consideration of each pivot | cks_solve, cks | pivot graph, terminal groups |
| Integral manager | `src/integralmgr.c` | table of integrals, databases by prototype | manage, load, save | databases, expressions |
| Databases | `src/db.c` | a bounded number of open files, cursors | get, set, del, cursors | Kyoto Cabinet |
| Evaluator, coefficients | `src/coefficient.c` | a Fermat process, count of evaluations | evaluate, receive, substitute | Fermat over pipes |
| Expressions, integrals, print | `src/expression.c`, `src/integral.c`, `src/print.c` | none | parse, print, compare | |
| Programs | `quicksolve.c`, `quickcheck.c`, `ssrenderer.c`, `mpanalyzer.c` | options; termination flag | main loop, SIGINT | all of these |

What is hard about it, and what makes each part correct:

* **AEF.**  The frontend extends lists of dependers while workers walk them, and workers hold
  no reference on what they work on.  An expression has to be scheduled exactly once, after
  all of its operands have a result; memory has to live until its last user is done; neither
  the limit of unfinished terminals nor the shutdown may block for ever; an evaluation that
  is lost is repeated without repeating its side effects.
* **Terminal groups.**  The reference count of a group also tells whether a target finished,
  though a pop may take a target that is still counted.  A wait has to return when, and only
  when, a pop will find something; the last of frontend and workers frees the group.
* **Coefficient cache.**  Every thread may evict what any other is about to use, with up to
  three locks in different orders.  What is in use has to stay, what was evicted has to be
  loadable, the memory usage has to be exact and nobody may wait in a circle.
* **Solver.**  The recursion modifies pivots that calls further up are working on, in an order
  that depends on which worker finishes first, and can be interrupted at any point, saved and
  resumed.  The system must stay equivalent, solved pivots normalized, the bookkeeping of the
  recursion exact, and the recursion must end.
* **Pivot graph.**  Edges are kept in an array that is deleted from while it is searched, and
  refer to operands that are counted, baked and discarded by hand.  No reference may be lost,
  no expression be used twice, nothing unfinished be destroyed, and whatever order results arrive in, the
  rows have to be those of the algorithm.
* **ADC.**  A count for each terminal, kept as a byte and propagated along the graph while it
  grows, under two locks that are taken in two orders.  The counts have to fit the graph,
  and nobody may wait in a circle.
* **Numbers of coefficients.**  They begin anew when the word is used up; two coefficients
  must never share one.
* **Evaluator.**  A process that may die or be renewed in the middle of a conversation, and
  that other workers' processes share file descriptors with.  Nobody may receive another
  one's value, and a death has to be noticed.

`PROJECT.json` lists all hazards at the lines where they bite, with the properties aimed
at them, and maps each definition to the lines it models.

## Modules

    Evaluation           what the AEF promises
      ^ implemented by
    AEF -> AEFInvariant -> AEFProof                                 MCAEF
    TerminalGroup -> TerminalGroupProof                             MCTerminalGroup
    ADC -> ADCInvariant -> ADCProof                                 MCADC
    Evaluator -> EvaluatorInvariant -> EvaluatorProof               MCEvaluator
    TerminalCache -> TerminalCacheInvariant -> TerminalCacheProof   MCTerminalCache
    CoefficientId ------------------------------^                   MCCoefficientId
    CKS -> CKSInvariant -> CKSProof      the algorithm on rows      MCCKS
      ^ implemented by
    PivotGraph -> PivotGraphInvariant -> PivotGraphOperands -> PivotGraphProof
                                                                    MCPivotGraph

(`->`: is extended by.)  Operators in a section "Mutants" are deliberate mistakes that no
action uses; `PROJECT.json` says which property each of them violates.

### Evaluation, AEF

`Evaluation` is the promise of `src/operand.h`: a terminal is handed over with what it needs,
is resolved once and not before these, and is resolved eventually unless the facility is
stopped.  `AEF` is the code: the frontend (variables `fpc`, `ftarget`, `fargs`, `held`) calls
`New`, `Bake`, `Ref`, `FrontUnref`, `FrontDiscard`, `Destroy` in any order a client may;
`CountPass`/`CountBlock` are `aef_count_terminal`, `Link` is `terminal_add_dependency` for one
operand, `FrontDecrement` and `FrontPush` the end of `qs_operand_bake`.  A worker (`wpc`,
`wtarget`, `windex`, `wn`, `wdepender`) runs `Take`, `Evaluate`, `RemoveDepender`, `Receive` or
`Lost`, `Publish`, `DiscardUnref`, `ReadDepender`, `Decrement`, `Push`, `Clean`, `Uncount`: one
action for what the code does under one lock.  Condition variables lose signals nobody waits
for and wake spuriously.  `Join` ends in "done", or where terminals are still queued in
"aborted", as the assertion at `src/operand.c:516` does; and as `quicksolve.c` ignores what
`qs_aef_spawn` returns, `Start` lets the frontend begin with any number of workers, none
included.  Whatever waits for a worker is then promised only if there is one (`Staffed`).  Left out: values, ADC, D-Values (they do not
influence any of this) and the notification of groups, which is `TerminalGroup`.

### TerminalGroup

Every call on a group, statement by statement where threads meet.  A worker stands for its
target.  The array of targets is a set, as its order only decides which finished target is
found first.  That the worker unlocks, and possibly frees, after it gave its reference away
is three separate actions (`NotifySub`, `NotifyUnlock`, `NotifyFree`), and so it is with the
frontend (`DestroySub`, `DestroyUnlock`, `DestroyFree`).

### TerminalCache

Several threads publish, acquire, use, release and drop terminals; a step is what happens
between two lock operations of `qs_terminal_queue_pop`, the loaders, `memory_change` and
`terminal_saver`.  `Unlock` is the statement at `src/operand.c:379`, which unlocks the queue a
second time: `qs_terminal_queue_pop` gave that lock away already, at line 357, once it held the
target's own lock and had taken the target out of the queue.  So everybody's lock may be
released by somebody else, and two threads may work on the linked list at the same time.

The list is therefore represented with care.  Each of its operations is a span of time: from
`Publish`, `Pop`, `Take`, `Requeue` and `Unref`, where a thread starts on it, to `Add`, `Search`,
`Delete`, `Readd` and `Dequeue`, where it is through (`Inside` is in between).  As long as no two
spans overlap the list is "whole", and the set `queue` is what it holds; which of them is evicted
depends on D-Values, here it may be any.  When two overlap (`Access`) the links are "torn" for
good: entries are lost or kept, a lost one may still look as if it was queued, a search finds any
terminal or none, and an assertion may fail or a link lead nowhere (`Fail`).  `Fail` is also
where the code calls `qs_coefficient_size` for a coefficient that another pop of the same terminal
has evicted, or locks the data of a target that was freed; these happen with a whole list as well.

What depends on the mutex does not hold (`NoneElseReferences`, even while the list is whole, and
with it that the memory usage is exact).  `InUseLoaded`, `LoadsStored` and `LoadFindsEmpty` hold
with a torn list too: they rest on the count of users and the lock of the data.  `Evictable` and
`NoLockCycle` are about the list, and hold until it is torn; after that coefficients may be lost
to eviction, and a release and a pop may wait for each other.  Discarded terminals are not part
of this module.

### CoefficientId

`generate_id`, `drop_id` and what the loader, saver and discarder do with the number of a
coefficient.  A number is given when `Generate` finds the whole half of the word it enters
unused; otherwise the assertion ends the program (`GenerateFails`).  A dropped coefficient
leaves its entry in the storage, where a later one finds it under the same number: that it is
never taken for its own is `LoadsOwn`.  It is the storage of the cache, so its proofs are in
`TerminalCacheProof`, and its definitions have names that differ from those of the cache
(`IdInit`, `SaveValue`, `LoadValue`).

### ADC

The frontend bakes the terminals of a graph one after the other (`AddResult`, `AddRead`,
`AddLock`, `AddCount`, `Built`, `BakeDecrease`, `BakeIndepend`) while workers evaluate them
(`Pop`, `Evaluate`, `Publish`, `Notify`, `Done`).  `terminal_decrease_adc` is recursive; every
thread has a `stack` of the calls it is in, and each call consists of `Change` (with
`pull_adc` when the count is Overflown), and for each depender `Lock` and `Compare`.  The spin
locks are explicit.  Left out are the D-Values at the end of `terminal_decrease_adc`, which
only order the evictions, and the removal from the lists of dependers of finished terminals,
which nobody reads counts from any more.

### Evaluator

Each worker's evaluator with `init_fermat` (`Pipe`, `Fork`, `Close`), `qs_evaluator_evaluate`
(`Submit`), `fermat_sync` (`SyncRead`, `SyncEnds`) and `qs_evaluator_receive`; a process reads,
answers, dies or ends (external).  `holders` is who has the writing end of a process's answers
open: a fork copies what its parent has open, which is the heart of the finding below.  An
answer is a sequence of the text before and the text behind the delimiter, so that a process
can die between any two.  After a use of a closed stream the model ends (`undefined`).

### PivotGraph

The same solver as `CKS`, with everything `CKS` leaves out: each pivot is a sequence of edges
in the order of the array, each edge has a coefficient and a numeric operand, and operands
(`op`) have a count of references, operands of their own, and are terminals or expressions.
The operations of `pivotgraph.c` are operators on a graph: `Relay`, `Collect`, `Normalize`,
`Delete`, `Terminate...`, `Acquire`, `FreePivot`.  The search of `cks` is edge by edge (`Look`,
`Wait`, `Confirm`): a result is there when it is looked for, or it is not, so a terminal
finishes in the step that sees it (`Finish`).  A row is the sum of the edges to each head, and
edges a search deleted count as zeros until it ends; with that, each step is a step of `CKS`
or none (`ImplementsCKS`).  Both ways of elimination that the options offer are modelled.
The loops of the code are functions of the number of rounds they made (`limbs`, `gather`,
`divided`, ...).  `qs_operand_unref` destroys operands recursively; `Release` is the set of
what goes, grown until nothing is added to it (`Limit`).

### CKS

A pivot is a row of residues modulo a small prime P, computed exactly, so that a run sees true
cancellations and vanishing pivots, and not an oracle's.  The
recursion of `cks` is the variable `stack`, with one action for the search that finds an
elimination (`Eliminate`), one for the return from the recursion (`Eliminated`: relay and
collect), one for a search that finds nothing (`Conclude`) and one for an interrupted call.
The two calls of `cks` by itself in tail position are loops.  `Signal` is SIGINT at any
point; `Restart` is the end of one run, with what is saved, and the beginning of the next
one, with what `qs_integral_mgr_load_raw` makes of it.  Which of several candidates is
eliminated is open, since values arrive in any order.  Abstractions: numeric values vanish
just when the symbolic ones do (the code warns otherwise), pivots are loaded from the start,
and saving at the end is one step.

## Runs

| run | what it asks | instance |
|---|---|---|
| `aef_safety` | the inductive invariant, ready operands, single scheduling, the memory, arbitrary clients | 3 terminals, 2 workers, 2 operands (also the same twice), 2 references |
| `aef_live` | AEF implements Evaluation, progress included; bake and destroy return | 3 terminals, 2 workers, limits 1 and 2 |
| `group` | references, frees, waits and pops; waits return | 2 terminals, 2 groups |
| `adc` | counts are those of the graph, one when scheduled, no access to freed expressions, all evaluated | 2 graphs of 5 terminals, 2 workers, 4 bits |
| `adc_deadlock` | violated: finished calculations are applied downstream | 4 terminals, 2 workers |
| `evaluator` | own answers, renewal; an answer or an end comes unless another process inherited the pipe | 2 workers, 2 expressions, 2 processes, renewal after 2 evaluations, 1 death |
| `evaluator_death` | violated: the death of a process is noticed | 2 workers, 2 processes, 1 death |
| `cache_code` | what is in use stays, what was evicted is found and loaded once; until the list is torn, nothing is stuck in memory and no circle of locks arises | 2 threads; an initial, a baked and a large baked terminal; limit 1 |
| `cache_unlocked` | violated: nobody else refers to a terminal that is destroyed | 2 threads, 3 terminals |
| `ids` | numbers are unique, and values are found under their own | 4 coefficients, 6 numbers |
| `cks` | equivalence of the rows to the system, completeness of a solution, normalized relays, exact considerations, abortion only for a reason, and that the recursion ends | 9 systems of 3 independent identities modulo 3 with one master, optimistic deletion |
| `pivot` | references, use of expressions, shape of the arrays, the search, implementation of CKS | 24 systems of 4 identities with one master modulo 3, both kinds of elimination |

Why the bounds are enough: the races of `AEF` are between the frontend and a worker, or two
workers with a common depender, on one list; three terminals have an operand that is shared,
one that is repeated and a chain. An expression that awaits two different operands needs
four terminals; that, as all sizes beyond, is the business of the proofs (`OperandsReady`,
`IInv`), and the graphs of `ADC` have it too. With a limit of one terminal nothing pending is ever
an operand, and the frontend has to wait in every bake after the first; with a limit of two
an expression is built over a pending one and is pushed by the worker that resolves
it.  `aef_live` has both (`Limits`). In `TerminalGroup` two terminals give the
critical case, one popped while it is still counted and one finished in the array, and the
second group is one that a terminal is pushed to after the first was cleared. In
`TerminalCache` a race needs one terminal to evict and one that makes the usage exceed the
limit (`Large`, which exceeds it alone). `Modulus` only has to exceed the sum of all sizes. In
`ADC` four bits let a count of seven overflow, which the top of a diamond reaches,
and thresholds of one and four are passed by recursions of depth two. In `Evaluator` two
expressions tell a value from the other worker's and from an earlier one, two
workers suffice to inherit each other's pipes.  Two processes at a time are as many as the workers have
open; a number becomes free when its process ended and its worker closed the pipes, so that
one that was told to quit still runs next to its successor while the other worker has
none (tried with three of them as well, without the fairness). In `CoefficientId` six numbers are two halves of three, and four coefficients are
more than one half. In `CKS` desperate elimination needs a pivot whose own edge vanished (two
pivots) and one that is modified while it waits (three pivots). `MaxDespair` is 2 instead of
65535: a pivot's consideration never exceeds the recursions that pass it, and 2 reaches all
of those here; the limit itself is reached as well. `PivotGraph` has systems with rows that are
nearly full, so that several edges cancel in one search, edges are collected at several heads
and the self edge may vanish; two of the four pivots are asked for.

Violated runs state what the repository says of itself, and show what the code does instead:

* `adc_deadlock`: `qs_operand_bake` takes the locks of two counts in the order dependee,
  depender, the propagation in the other one; with operands given in an unlucky order three
  threads wait for each other, and what was finished is never applied.
* `cache_unlocked`: two threads pop the same terminal, one of them while it is destroyed.
* `evaluator_death`: a process that is forked between the pipe and the close of another
  worker keeps that worker's pipe open, and the end by which a death is noticed does not come.

The systems of `cks` and `pivot` are independent.  With a redundant identity the code behaves
differently from what it says: an interruption between relay and deletion saves a trivial row
without edges, and `qs_integral_mgr_load_raw` (`Reloaded`) reads anything empty as "this
integral is zero".  More observations no run is spent on:

* A pivot graph discards the coefficient of an edge that vanishes, nobody waits for it any
  more, and it may still be queued when the workers are told to leave; then the assertion of
  `qs_aef_destroy` that nothing is (`operand.c:516`) ends the program (`Join`).
  `DestroyReturns` says that this is the only way in which it does not return.
* Two pivots that lost their own edges, each with an edge to the other, are solved for by turns,
  deeper and deeper and without any change to either, until the program gives up, though the
  system may determine both.  That is why `AbortsWithReason` has `Exhausted`.
* `terminal_saver` never sets `saved`, so a coefficient is saved at every eviction.

## Fairness

* `AEF`: threads that can run do run (weak fairness of each worker and of the frontend's
  steps inside a call: the code waits nowhere but in the modelled condition variables and
  locks).  An evaluation may be lost and is repeated (`Lost`); strong fairness of `Receive`
  says it is not lost for ever, without which the loop in `worker` would not end.  The
  frontend owes nothing outside of a call.  No fairness of spurious wakeups is assumed.
* `TerminalGroup`: the same for the frontend inside a call and for each worker; that a worker
  comes to publish its target is what `Evaluation` promises.
* `ADC`: every thread goes on when it can; nobody holds a spin lock for long.
* `Evaluator`: workers go on, and a process that was written to answers or dies; that it dies
  is not fair.
* `CKS`: a call of `cks` goes on; its waits end by the same promise.  SIGINT is not fair.

## Proofs

`AEFProof` proves `SafeSpec => []IInv` for any set of terminals and workers, any limit and any
number of operands, and from it `TypeOK`, `DcCounts` and `OperandsReady`.  `IInv`
(`AEFInvariant`) is needed because `dc` is not related to anything a single step can see: it
says that `dc` is the number of entries, in all lists of dependers, that are still *due* (their
list belongs to a terminal without a result, or lies ahead of its worker's index), plus the
guard of a construction in progress.  Around that it says that due entries name expressions
(so that they are decreased), that each operand without a result has an entry (so that dc of
zero means ready), that what is scheduled has dc zero and is scheduled at one place, and that
no two workers share a target.  Each step of `Next` has a lemma of its own; the counting steps
rest on lemmas about adding and removing one element of a finite set.
The only assumptions are the ASSUMEs of `AEF`: the set of terminals is finite, None is no
terminal, the bounds are natural numbers.  The set of workers may be infinite.

Its second part is about the references.  `RInv` says who wants a pending terminal (the
frontend, the worker that drops the reference of a discarded one, an expression over it), that
nothing independent is forgotten (it is queued, with a worker, or about to be pushed), that the
count of references is the number of all its holders, each on its own, and that an entry of a
list that a worker or the frontend is going to remove is still in it.  With it `RefcountExact`,
`NoDanglingAccess`, `RemovalFindsEntry` and `ScheduledExactlyOnce` are invariants, and the
safety part of the refinement is a theorem (`KeepsPromise`): initial states of `AEF` are initial
states of `Evaluation`, and every step is one of its steps or none.

`TerminalGroupProof` proves, for any set of groups and any finite set of terminals, that neither
side touches a group the other freed (`NoUseAfterFree`), that somebody is left to free it
(`NoLeak`), that the frontend sleeps only while somebody is going to signal it
(`SleepsForASignal`) and that a pop which begins finds a target (`PopFinds`).  The invariant
adds who holds the mutex, who is registered where, and that whoever took the last reference
away is alone with the group (`LastAlone`).

`TerminalCacheProof` proves all invariants the run `cache_code` checks, for any sets of
terminals, managers and threads, any sizes and any limit, with the second `Unlock` of the queue as it is
and the list torn where threads meet in it.
The invariant (`TerminalCacheInvariant`) describes each call by its place: whom the refcount
counts (`UsersCounted`), who holds which lock (`DataLocked`, `LoadersLocked`, `QueueLocked`) and where a
coefficient is (`HeldLoaded`, `MissingStored`, `UnusedQueued`).  It does not say that the queue's
mutex is held by those who are in the list, because it is not; that a circle of locks is
impossible all the same while the list is whole (`NoLockCycle`) has another reason: the locks are
taken in an order, from the lock of a loader to the lock of the data, from there to the queue's, and
whoever holds the queue's and waits waits for a thread that has locked its target, which waits for
nobody.  `QueueLocked` has what this needs: the target of the holder is in the queue, since whatever
takes a terminal out of the queue leaves the mutex with nobody, be it the holder or not.

For `CoefficientId` the same module proves, for a word of any size and any finite set of
coefficients, that two coefficients in use never share a number (`UniqueIds`) and that what is
loaded is what was saved for the same coefficient (`LoadsOwn`), also after the numbers began
anew.  The invariant says that the counters are the numbers of coefficients in each half
(`CountsExact` there) and that the part of the present half which lies ahead is unused
(`HalfUnused`); it rests on the cardinality of sets with one element more or less.

`ADCProof` proves, for any acyclic graph of any number of expressions (repeated operands
included), any set of workers and any width of the count, that counts are what could be
collected (`CountIsCollected`), that an expression is scheduled with a count of one
(`IndependentCountsOne`) and that no call is in an expression that is freed (`NoneInFreed`).
`CountIsCollected` speaks of moments when a lock is free; the invariant (`ADCInvariant`) has to
say what is true in between.  `Counted`: `dc` is the number of entries still due and the guard
of the construction, so what has no due entry collects nothing.  `Outermost` and `Calls`: the
calls of a thread are a path in the graph, each for the depender its caller has just left, so
that a call is for an expression that awaits something, or for the one its worker evaluates.
`Locked` and `Contributed`: who holds a lock, and that a contribution is never less than the
count it was made from, so the subtraction does not wrap around.  `Changes`: while a change is under way,
count minus decrement is what can be collected.  `Told`: an expression that was evaluated has
contributions of zero everywhere but where it is still to go, so its publication, which takes
these contributions away, changes no sum.  The sums are folds over a set; what the proof needs of them (any
element may come first, only the values of the elements matter, zeros do not count) is proved by
looking at a smallest set for which it fails.  The graph of the deadlock is among those it is
proved for: threads that wait for ever do no harm to the counts.

`CKSProof` proves, for any number of integrals and pivots, any orders, limit of despair and way
of elimination, that solutions are complete, relays normalized, and considerations exact.  The
heart of `CKSInvariant` is `ReturnedFree`: what a call returns to be inserted is solved and has
no edge to any other solved pivot.  Therefore inserting it undoes no normalization
(`SolvedNormalized`), although the recursion may have modified, and solved, pivots that calls
further up are working on.  Coefficients are residues of a P for which all but zero have a
reciprocal, as the rational functions do.

That what satisfies all identities never changes (`Equivalent`, proved as
`SolutionsArePreserved`) holds for systems in which no identity follows from the others
(`Independent`: the left hand sides can have any values), and only for those, as said above.  The
argument: normalizing, deleting and reloading multiply an identity with something that has a
reciprocal (`NormalizeCombined`, `ReloadedCombined`), eliminating adds a multiple of another identity
(`RelayCombined`, which needs the relayed pivot normalized), a sum of combined rows is the combined
sum (`WeightedCombined`), so that both the common zeros and the independence are kept; and an
independent identity is never empty (`IndependentNonzero`), so that the reading of empty pivots
does no harm.  `MCCKS` assumes, and TLC confirms, that for all of its systems this is the
independence in terms of linear combinations it selects them by.

The same steps keep whether the identities determine the pivots (`Determined`: no combination of them
is free of all pivots), for any system, independent or not (`DeterminedStep`).  When the solver
gives up, an identity of its own is free of all pivots (`AbandonedStep`), which is a combination of
those it was given; so it is they who do not determine the pivots, not the order in which
they were eliminated, an interruption, or what was loaded (`GivesUpWithReason`).  The other reason
is `Exhausted`: the search skips a pivot whose `consideration` exceeds the despair, and at
the limit of despair it gives up on what it skipped, so a pivot that is being solved for more than
`QS_MAX_DESPAIR` times at once can make it give up on a system that does determine it.

`EvaluatorProof` proves, for any sets of workers, processes and expressions, any renewal cycle
and number of deaths, that a worker receives the value of its own expression (`ReceivesOwn`) and
that processes are renewed in time (`RenewalExact`).  The invariant (`EvaluatorInvariant`) lists the stages
of a conversation: what was answered, is about to be printed and has yet to be read, at
each place of the worker, and what a process that died leaves of it (`Stages`, `Remains`).  It needs that a
process holds its own answers open while it lives (`HoldsOwn`), that no two workers talk to one
process (`Distinct`), and that one which ended prints nothing any more (`Silent`).

`PivotGraphOperands` and `PivotGraphProof` prove, for any number of integrals and pivots, any
orders, systems and limit of despair and both ways of elimination, that references are counted
exactly (`CountsExact`), that an expression which was not baked has one user (`UsedOnce`), that
each head has one edge, with a numeric that stands for its coefficient (`EdgesWhole`), and that
the search misses no edge of the array it deletes from (`SearchComplete`).  The first of the two
modules has what single operations do to the operands, the second what the solver does with them.

None of the four is inductive.  The invariant (`PivotGraphInvariant`) is one statement on a
graph, `Whole`, which every operation of `pivotgraph.c` keeps, and one on the search:

* `Counted`: the count of an operand is the number of expressions, edges and others that refer
  to it.  It is stated relative to what the caller holds besides (the parameter `H`, or `L` where
  the edges are part of the graph): in the middle of an operation the references of the frontend
  are in local variables, and a lemma about one call has to say how it changes what its caller
  holds.  `NewSound`, `UnrefSound`, `TerminateSound`, `FinishSound` and `DiscardSound` do that for
  the five things one can do with an operand; `ReleaseSound` is about the recursive destruction
  behind them, and shows that what goes was referred to only by what goes with it.
* `Single`: what is not finished is referred to once, or has been used, or was discarded.  With
  `Apart`, no two edges have an operand in common but the one of the graph, an expression that is
  used was therefore not used before.  Loaded edges have one operand for coefficient and numeric,
  which is why `Apart` speaks of edges and not of operands.
* `Agree`: the value of the numeric is that of the coefficient.  It makes that a normalization
  divides by the same value on both sides.
* `HeadsApart`: of each head there is one edge.  It does not hold between a relay and the loop of
  collects behind it, although that loop walks an array which shrinks under it: the proof shows
  that after k rounds the first k heads, as far as there are as many left, occur once
  (`EliminateSound`).
* `SearchSound`: what the call on top waits for belongs to an edge of its pivot, so does what it
  knows to be zero, and the edges it has seen are the suitable ones up to `j`.  The deletion puts
  the last edge that was seen in the place of the deleted one, and the last of all in the place of
  that one; the lemma for it (`PoppedSound`) follows each edge to its new place.  It holds for the
  call on top only (`SearchOnTop`): the others have decided, and may have had their pivot modified.

The loops of the operations are functions of the number of rounds, for each of which a lemma shows
that the function exists and that a property of a graph which every round keeps is kept by the
loop.  The invariant covers the end as well: when the graph was destroyed, no reference is left
but those of expressions, and of workers on discarded terminals (`DestroySound`).

Each inductive invariant was checked with TLC before it was proved.  What the proofs assume are
the named ASSUMEs of the modules: None is no member of the other sets, and no rows of a system;
integrals and terminals are finite where they are counted, an operand comes before its expression,
ADC_OVERFLOWN is no count below MAX_ADC, and an expression is not taken for one of the words the
evaluator sends itself.  TLC evaluates them in every run.

Only model-checked:

* `NoneDangling` of `PivotGraph`, that nothing unfinished is given up but by a discard.  A relayed
  edge lets go of the numeric it was multiplied with; that this was waited for, or is used by the
  product, depends on what the recursion did to the pivot between the search that found it and
  the relay, which the invariant above does not remember;
* that `PivotGraph` implements `CKS`, which is about the values of whole rows through relay and
  collect; the invariant has the structure that such a proof would start from (`Agree`,
  `HeadsApart`), and `CKSProof` has what follows from it.

Out of the prover's reach and left to TLC: liveness and ENABLED (`BakeReturns`, `DestroyReturns`,
`WaitReturns`, `Returns`, `AllEvaluated`, `AnsweredUnlessInherited`, the progress part of
`ImplementsEvaluation`).

## Not modelled

* The comment in `metadata.h:22` on `solved` (all pivots of smaller order eliminated) is not
  what the code keeps: a pivot under consideration is not eliminated from one that becomes
  solved.  What it does keep is `SolveComplete` and `RelaysNormalized`.
* Parsing, printing, substitution of symbols, options: sequential and without state.  (In
  `quicksolve.c:149` the value of a full replacement is read before it is set.)
* `ssrenderer`, `mpanalyzer`, the scripts under `misc`: no part of the solver.
* Kyoto Cabinet and Fermat, other than what they return.
* D-Values (`update_dvalue`, `recollect_dvalue`) and the order of the list of the queue: they decide
  which coefficient is evicted first, which `TerminalCache` leaves open.  The single assignments
  to its links: `TerminalCache` has when they interleave, and allows any outcome then.
* Discards in the cache, and the shutdown of `quicksolve.c` across facility and pivot graph:
  they would need the product of `AEF`, `TerminalCache` and `PivotGraph`, each of which fills
  TLC's time by itself.
* `db.c` and the table of integrals in `integralmgr.c`: called by the frontend, or under one
  mutex; what they do is mostly done by Kyoto Cabinet.
* A crash while the pivots are saved: the program has no means against it, so there is
  nothing it promises.  An interruption by SIGINT at any point, with what is saved and what
  the next run makes of it, is part of `CKS`.
* Allocation failure, which the code does not handle.

## Plan

Done: all modules above and their proofs.  Next, in this order:

1. Proofs for `PivotGraph`: `NoneDangling`, with what is known of the numeric of an elimination
   while the recursion is below it; then the steps of `ImplementsCKS`, operation by operation.
2. `TerminalQueue`: the linked list and its order as a refinement of the queue of
   `TerminalCache`, with the D-Values.
3. Discards in `TerminalCache`, and its composition with `AEF` under the shutdown.
4. `IntegralMgr` and `Db`: opening on demand, the bound on open files, cursors restored.
