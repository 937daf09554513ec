---------------------------- MODULE TerminalCache ----------------------------
(***************************************************************************)
(* The coefficients of results in memory: src/operand.c with the callbacks *)
(* that src/pivotgraph.c gives to its terminal managers.  While nobody     *)
(* uses a coefficient its terminal is in the queue of the manager; whoever *)
(* makes the memory usage exceed the limit takes terminals out of that     *)
(* queue and evicts their coefficients, to storage if they were baked.     *)
(* Acquiring a coefficient loads it if it was evicted.                     *)
(*                                                                         *)
(* Which terminal of the queue is evicted depends on the D-Values, which   *)
(* this leaves out: it may be any.  The queue is a linked list, and the    *)
(* set of its terminals stands for it as long as no two threads were in it *)
(* at the same time.  Its mutex does not always keep them apart (Unlock),  *)
(* and after that the list may have lost or kept anything: it is "torn",   *)
(* a search finds any terminal or none, and any may look as if it was in   *)
(* the list.  Where the program would go on with a null pointer, with      *)
(* memory that is freed or beyond a failed assertion it has ended.         *)
(*                                                                         *)
(* The storage has a mutex of its own (memory.lock) that is held for one   *)
(* call of the database only and is left out with it.  Whoever acquires,   *)
(* releases or destroys a terminal holds a reference on it, as in AEF.     *)
(***************************************************************************)
EXTENDS Integers, FiniteSets, FiniteSetsExt

CONSTANTS Terminal,     \* the terminals with an id; each is created at most once
          Initial,      \* those of initial_mgr; the others are baked
          Thread,       \* the frontend and the workers
          None,         \* nobody, no terminal
          SizeOf,       \* the size of the coefficient of each terminal
          Limit,        \* g->memory.limit, 0 for none
          Modulus       \* g->memory.usage is an unsigned number below this

ASSUME TerminalAssumption == Initial \subseteq Terminal /\ None \notin Terminal
ASSUME ThreadAssumption == None \notin Thread
ASSUME SizeAssumption == SizeOf \in [Terminal -> Nat \ {0}]
ASSUME LimitAssumption == Limit \in Nat /\ Modulus \in Nat /\ Limit < Modulus

VARIABLES
  life,         \* "unborn", "new" until published, "live", "dying" after the last
                \* reference was dropped, "freed"
  coefficient,  \* whether TerminalData.coefficient is not NULL
  users,        \* TerminalData.refcount
  queue,        \* the terminals in the QsTerminalQueue, nothing if it is torn
  list,         \* its links: "whole", "torn", or "fatal" when the program has ended
  stored,       \* the terminals whose coefficient is in storage
  usage         \* g->memory.usage

VARIABLES
  dlock,        \* of each terminal: the holder of TerminalData.lock
  qlock,        \* the holder of QsTerminalQueue.lock
  loadlock      \* of each manager: the holder of memory.initial_terminal_lock or
                \* memory.terminal_lock

VARIABLES
  pc,           \* where each thread is
  own,          \* the terminal it publishes, acquires, releases or destroys
  target,       \* the target of qs_terminal_queue_pop
  uses          \* the terminals it has acquired

listVars   == <<queue, list>>
dataVars   == <<life, coefficient, users, listVars, stored, usage>>
lockVars   == <<dlock, qlock, loadlock>>
threadVars == <<pc, own, target, uses>>
vars       == <<dataVars, lockVars, threadVars>>

Manager == {"initial", "baked"}
ManagerOf(t) == IF t \in Initial THEN "initial" ELSE "baked"

Init ==
  /\ life        = [t \in Terminal |-> "unborn"]
  /\ coefficient = [t \in Terminal |-> FALSE]
  /\ users       = [t \in Terminal |-> 0]
  /\ queue = {} /\ list = "whole" /\ stored = {} /\ usage = 0
  /\ dlock    = [t \in Terminal |-> None]
  /\ qlock    = None
  /\ loadlock = [m \in Manager |-> None]
  /\ pc     = [w \in Thread |-> "idle"]
  /\ own    = [w \in Thread |-> None]
  /\ target = [w \in Thread |-> None]
  /\ uses   = [w \in Thread |-> {}]

Goto(w, l) == pc' = [pc EXCEPT ![w] = l]

\* The thread returns from its call.
Return(w) == Goto(w, "idle") /\ own' = [own EXCEPT ![w] = None]

-----------------------------------------------------------------------------
(* The list of the queue: qs_terminal_queue_add and qs_terminal_queue_del, and the      *)
(* search of qs_terminal_queue_pop with its rotation                                    *)

\* In the middle of reading or changing the links of the list.
Inside(w) == pc[w] \in {"add", "search", "delete", "readd", "dequeue"}

\* A thread starts on the list.  If another is there already the links are torn.
Access(w) ==
  IF \E v \in Thread \ {w} : Inside(v)
  THEN list' = "torn" /\ queue' = {}
  ELSE UNCHANGED listVars

\* It does so with the mutex that everybody takes.
Enter(w, l) == qlock = None /\ qlock' = w /\ Access(w) /\ Goto(w, l)

\* What qs_terminal_queued may answer.
Queued(t) == IF list = "whole" THEN {t \in queue} ELSE BOOLEAN

\* What the search may choose.  Where the links lead in a torn list is among the
\* terminals that were in it.
Candidates ==
  IF list = "whole" THEN queue
  ELSE {t \in Terminal : /\ life[t] \notin {"unborn", "freed"}
                         /\ \A w \in Thread : ~(pc[w] = "publish" /\ own[w] = t)}

Added(t) == queue' = IF list = "whole" THEN queue \cup {t} ELSE {}

-----------------------------------------------------------------------------
(* Mutants: what a plausible mistake would make of the actions below; no action uses   *)
(* them.                                                                               *)

\* Delete: the terminal is evicted though somebody has acquired it.
DeleteInUse(w) ==
  /\ pc[w] = "delete"
  /\ queue' = queue \ {target[w]}
  /\ qlock' = None
  /\ Goto(w, "evict")
  /\ UNCHANGED <<life, coefficient, users, list, stored, usage, dlock, loadlock, own, target,
                 uses>>

\* Evict: the data is unlocked before the coefficient is in storage.
EvictUnlocked(w) ==
  /\ pc[w] = "evict"
  /\ coefficient' = [coefficient EXCEPT ![target[w]] = FALSE]
  /\ dlock' = [dlock EXCEPT ![target[w]] = None]
  /\ Goto(w, "save")
  /\ UNCHANGED <<life, users, listVars, stored, usage, qlock, loadlock, own, target, uses>>

\* Loader: its lock is not taken.
LoaderUnlocked(w) ==
  /\ pc[w] = "loader"
  /\ Goto(w, "load")
  /\ UNCHANGED <<dataVars, lockVars, own, target, uses>>

\* Release: the queue is locked without a look at whether the terminal is in it.
ReleaseQueued(w) ==
  /\ pc[w] = "release" /\ dlock[own[w]] = None
  /\ users' = [users EXCEPT ![own[w]] = @ - 1]
  /\ IF users[own[w]] = 1
     THEN dlock' = [dlock EXCEPT ![own[w]] = w] /\ Goto(w, "requeue") /\ UNCHANGED own
     ELSE Return(w) /\ UNCHANGED dlock
  /\ UNCHANGED <<life, coefficient, listVars, stored, usage, qlock, loadlock, target, uses>>

\* Release: the terminal is not put back into the queue.
ReleaseForgotten(w) ==
  /\ pc[w] = "release" /\ dlock[own[w]] = None
  /\ users' = [users EXCEPT ![own[w]] = @ - 1]
  /\ Return(w)
  /\ UNCHANGED <<life, coefficient, listVars, stored, usage, lockVars, target, uses>>

-----------------------------------------------------------------------------
(* Publication: of what a worker has evaluated, or of an identity that was read *)

\* The coefficient belongs to the terminal before anybody else can have a reference.
Create(w, t) ==
  /\ pc[w] = "idle" /\ life[t] = "unborn"
  /\ life' = [life EXCEPT ![t] = "new"]
  /\ coefficient' = [coefficient EXCEPT ![t] = TRUE]
  /\ own' = [own EXCEPT ![w] = t]
  /\ Goto(w, "publish")
  /\ UNCHANGED <<users, listVars, stored, usage, lockVars, target, uses>>

\* From here on the terminal can be evicted, though its size is still to be counted.
Publish(w) ==
  /\ pc[w] = "publish"
  /\ Enter(w, "add")
  /\ UNCHANGED <<life, coefficient, users, stored, usage, dlock, loadlock, own, target, uses>>

Add(w) ==
  /\ pc[w] = "add"
  /\ Added(own[w])
  /\ qlock' = None
  /\ Goto(w, "count")
  /\ UNCHANGED <<life, coefficient, users, list, stored, usage, dlock, loadlock, own, target,
                 uses>>

-----------------------------------------------------------------------------
(* memory_change *)

Count(w) ==
  /\ pc[w] = "count"
  /\ usage' = (usage + SizeOf[own[w]]) % Modulus
  /\ Goto(w, "memory")
  /\ UNCHANGED <<life, coefficient, users, listVars, stored, lockVars, own, target, uses>>

\* Where memory_change was called from: a publication, which is over, or the loader.
MemoryReturn(w) ==
  IF life[own[w]] = "new"
  THEN life' = [life EXCEPT ![own[w]] = "live"] /\ Return(w)
  ELSE Goto(w, "loaded") /\ UNCHANGED <<life, own>>

Memory(w) ==
  /\ pc[w] = "memory"
  /\ IF Limit # 0 /\ usage > Limit
     THEN Goto(w, "pop") /\ UNCHANGED <<life, own>>
     ELSE MemoryReturn(w)
  /\ UNCHANGED <<coefficient, users, listVars, stored, usage, lockVars, target, uses>>

-----------------------------------------------------------------------------
(* qs_terminal_queue_pop *)

\* The queue is locked.
Pop(w) ==
  /\ pc[w] = "pop"
  /\ Enter(w, "search")
  /\ UNCHANGED <<life, coefficient, users, stored, usage, dlock, loadlock, own, target, uses>>

\* It is searched, and what lies before the target may move to its end.
Search(w) ==
  /\ pc[w] = "search"
  /\ \E t \in Candidates : target' = [target EXCEPT ![w] = t]
  /\ Goto(w, "take")
  /\ UNCHANGED <<dataVars, lockVars, own, uses>>

\* "Could not reduce memory usage"
PopNothing(w) ==
  /\ pc[w] = "search" /\ queue = {}
  /\ qlock' = None
  /\ MemoryReturn(w)
  /\ UNCHANGED <<coefficient, users, listVars, stored, usage, dlock, loadlock, target, uses>>

\* The data of the target is locked, which may take its time.
Take(w) ==
  /\ pc[w] = "take" /\ dlock[target[w]] = None /\ life[target[w]] # "freed"
  /\ dlock' = [dlock EXCEPT ![target[w]] = w]
  /\ Access(w)
  /\ Goto(w, "delete")
  /\ UNCHANGED <<life, coefficient, users, stored, usage, qlock, loadlock, own, target, uses>>

\* The queue is unlocked once the terminal is out of it; one that was acquired meanwhile
\* is not evicted.
Delete(w) ==
  /\ pc[w] = "delete"
  /\ queue' = queue \ {target[w]}
  /\ qlock' = None
  /\ IF users[target[w]] = 0
     THEN UNCHANGED dlock /\ Goto(w, "evict")
     ELSE dlock' = [dlock EXCEPT ![target[w]] = None] /\ Goto(w, "unlock")
  /\ UNCHANGED <<life, coefficient, users, list, stored, usage, loadlock, own, target, uses>>

\* By now the mutex may be somebody else's: it is unlocked all the same.
Unlock(w) ==
  /\ pc[w] = "unlock"
  /\ qlock' = None
  /\ Goto(w, "pop")
  /\ UNCHANGED <<dataVars, dlock, loadlock, own, target, uses>>

\* Of two pops that chose the same terminal the second would find no coefficient.
Evict(w) ==
  /\ pc[w] = "evict" /\ coefficient[target[w]]
  /\ coefficient' = [coefficient EXCEPT ![target[w]] = FALSE]
  /\ Goto(w, "save")
  /\ UNCHANGED <<life, users, listVars, stored, usage, lockVars, own, target, uses>>

\* The saver of a baked terminal writes it, as the flag id->saved is never set; that of
\* initial_mgr is NULL.  The data is unlocked afterwards.
Save(w) ==
  /\ pc[w] = "save"
  /\ stored' = stored \cup ({target[w]} \ Initial)
  /\ dlock' = [dlock EXCEPT ![target[w]] = None]
  /\ Goto(w, "less")
  /\ UNCHANGED <<life, coefficient, users, listVars, usage, qlock, loadlock, own, target, uses>>

Less(w) ==
  /\ pc[w] = "less"
  /\ usage' = (usage - SizeOf[target[w]]) % Modulus
  /\ Goto(w, "memory")
  /\ UNCHANGED <<life, coefficient, users, listVars, stored, lockVars, own, target, uses>>

-----------------------------------------------------------------------------
(* qs_terminal_acquire and qs_terminal_release *)

\* From here on nobody evicts the coefficient.
Acquire(w, t) ==
  /\ pc[w] = "idle" /\ life[t] = "live" /\ t \notin uses[w] /\ dlock[t] = None
  /\ users' = [users EXCEPT ![t] = @ + 1]
  /\ own' = [own EXCEPT ![w] = t]
  /\ Goto(w, "loader")
  /\ UNCHANGED <<life, coefficient, listVars, stored, usage, lockVars, target, uses>>

Loader(w) ==
  /\ pc[w] = "loader" /\ loadlock[ManagerOf(own[w])] = None
  /\ loadlock' = [loadlock EXCEPT ![ManagerOf(own[w])] = w]
  /\ Goto(w, "load")
  /\ UNCHANGED <<dataVars, dlock, qlock, own, target, uses>>

\* qs_terminal_acquired: it is loaded only if it is missing.
Load(w) ==
  /\ pc[w] = "load" /\ dlock[own[w]] = None
  /\ Goto(w, IF coefficient[own[w]] THEN "loaded" ELSE "read")
  /\ UNCHANGED <<dataVars, lockVars, own, target, uses>>

\* qs_terminal_load: as it is acquired the terminal is not put into the queue.
Read(w) ==
  /\ pc[w] = "read" /\ dlock[own[w]] = None
  /\ coefficient' = [coefficient EXCEPT ![own[w]] = TRUE]
  /\ Goto(w, "count")
  /\ UNCHANGED <<life, users, listVars, stored, usage, lockVars, own, target, uses>>

Loaded(w) ==
  /\ pc[w] = "loaded"
  /\ loadlock' = [loadlock EXCEPT ![ManagerOf(own[w])] = None]
  /\ uses' = [uses EXCEPT ![w] = @ \cup {own[w]}]
  /\ Return(w)
  /\ UNCHANGED <<dataVars, dlock, qlock, target>>

ReleaseCall(w, t) ==
  /\ pc[w] = "idle" /\ t \in uses[w]
  /\ own' = [own EXCEPT ![w] = t]
  /\ uses' = [uses EXCEPT ![w] = @ \ {t}]
  /\ Goto(w, "release")
  /\ UNCHANGED <<dataVars, lockVars, target>>

\* The last user locks the queue while it holds the data lock, in the order opposite to
\* that of Take.
Release(w) ==
  /\ pc[w] = "release" /\ dlock[own[w]] = None
  /\ users' = [users EXCEPT ![own[w]] = @ - 1]
  /\ \E queued \in Queued(own[w]) :
       IF users[own[w]] = 1 /\ ~queued
       THEN dlock' = [dlock EXCEPT ![own[w]] = w] /\ Goto(w, "requeue") /\ UNCHANGED own
       ELSE Return(w) /\ UNCHANGED dlock
  /\ UNCHANGED <<life, coefficient, listVars, stored, usage, qlock, loadlock, target, uses>>

Requeue(w) ==
  /\ pc[w] = "requeue"
  /\ Enter(w, "readd")
  /\ UNCHANGED <<life, coefficient, users, stored, usage, dlock, loadlock, own, target, uses>>

Readd(w) ==
  /\ pc[w] = "readd"
  /\ Added(own[w])
  /\ qlock' = None
  /\ dlock' = [dlock EXCEPT ![own[w]] = None]
  /\ Return(w)
  /\ UNCHANGED <<life, coefficient, users, list, stored, usage, loadlock, target, uses>>

-----------------------------------------------------------------------------
(* qs_operand_unref of the last reference *)

\* Nobody is in a call for the terminal or has acquired it.
UnrefCall(w, t) ==
  /\ pc[w] = "idle" /\ life[t] = "live"
  /\ \A v \in Thread : own[v] # t /\ t \notin uses[v]
  /\ life' = [life EXCEPT ![t] = "dying"]
  /\ own' = [own EXCEPT ![w] = t]
  /\ Goto(w, "unref")
  /\ UNCHANGED <<coefficient, users, listVars, stored, usage, lockVars, target, uses>>

Unref(w) ==
  /\ pc[w] = "unref"
  /\ Enter(w, "dequeue")
  /\ UNCHANGED <<life, coefficient, users, stored, usage, dlock, loadlock, own, target, uses>>

Dequeue(w) ==
  /\ pc[w] = "dequeue"
  /\ queue' = queue \ {own[w]}
  /\ qlock' = None
  /\ Goto(w, "destroy")
  /\ UNCHANGED <<life, coefficient, users, list, stored, usage, dlock, loadlock, own, target,
                 uses>>

\* Waits for a thread that is evicting the coefficient.
Destroy(w) ==
  /\ pc[w] = "destroy" /\ dlock[own[w]] = None
  /\ usage' = IF coefficient[own[w]] THEN (usage - SizeOf[own[w]]) % Modulus ELSE usage
  /\ coefficient' = [coefficient EXCEPT ![own[w]] = FALSE]
  /\ life' = [life EXCEPT ![own[w]] = "freed"]
  /\ Return(w)
  /\ UNCHANGED <<users, listVars, stored, lockVars, target, uses>>

-----------------------------------------------------------------------------
(* What the program does not survive *)

\* An assertion of qs_terminal_queue_add or qs_terminal_queue_del fails, or a link leads
\* nowhere; a target is freed before its data is locked; qs_coefficient_size is called
\* for a coefficient that was evicted already.
Fail(w) ==
  /\ \/ Inside(w) /\ list = "torn"
     \/ pc[w] = "take" /\ life[target[w]] = "freed"
     \/ pc[w] = "evict" /\ ~coefficient[target[w]]
  /\ list' = "fatal" /\ queue' = {}
  /\ UNCHANGED <<life, coefficient, users, stored, usage, lockVars, threadVars>>

-----------------------------------------------------------------------------
Call(w) == \E t \in Terminal : \/ Create(w, t) \/ Acquire(w, t)
                              \/ ReleaseCall(w, t) \/ UnrefCall(w, t)

\* The steps that bring a call to its end.
Step(w) ==
  \/ Publish(w) \/ Add(w) \/ Count(w) \/ Memory(w)
  \/ Pop(w) \/ Search(w) \/ PopNothing(w) \/ Take(w) \/ Delete(w) \/ Unlock(w)
  \/ Evict(w) \/ Save(w) \/ Less(w)
  \/ Loader(w) \/ Load(w) \/ Read(w) \/ Loaded(w)
  \/ Release(w) \/ Requeue(w) \/ Readd(w) \/ Unref(w) \/ Dequeue(w) \/ Destroy(w)
  \/ Fail(w)

\* No thread is bound to make another call, and with a torn list they may wait for each
\* other.
Finished == ((\A w \in Thread : pc[w] = "idle") \/ list # "whole") /\ UNCHANGED vars

Next == (list # "fatal" /\ \E w \in Thread : Call(w) \/ Step(w)) \/ Finished

SafeSpec == Init /\ [][Next]_vars

-----------------------------------------------------------------------------
(* What has to hold *)

\* What qs_terminal_acquire returned stays in memory until it is released, however many
\* others acquire, release and evict meanwhile.
InUseLoaded == \A w \in Thread : \A t \in uses[w] : coefficient[t]

\* The comment in qs_terminal_queue_pop on its unlock: whoever finds a coefficient
\* missing finds it in storage when it can read it.  The database would return NULL.
LoadsStored ==
  \A w \in Thread : pc[w] = "read" /\ dlock[own[w]] = None =>
    own[w] \in stored \cup Initial

\* The assertion of qs_terminal_load: of several threads that acquire the same evicted
\* terminal one loads it.
LoadFindsEmpty == \A w \in Thread : pc[w] = "read" => ~coefficient[own[w]]

\* Nothing is stuck in memory: a coefficient without a user is in the queue, whatever
\* order acquisitions, releases and pops came in, and though the mutex is unlocked by
\* threads that do not hold it, for as long as no two of them meet in the list.  After
\* that an entry may be lost and still look as if it was queued.
Evictable ==
  list = "whole" =>
    \A t \in Terminal :
      life[t] = "live" /\ coefficient[t] /\ users[t] = 0 /\ dlock[t] = None => t \in queue

\* The holder of the lock a thread waits for.
WaitsFor(w) ==
  CASE pc[w] \in {"publish", "pop", "requeue", "unref"} -> qlock
    [] pc[w] = "take" -> dlock[target[w]]
    [] pc[w] \in {"load", "read", "release", "destroy"} -> dlock[own[w]]
    [] pc[w] = "loader" -> loadlock[ManagerOf(own[w])]
    [] OTHER -> None

\* No threads wait for each other in a circle.  Take locks the queue and then the data,
\* Release the data and then the queue: this rests on Take's target being queued and
\* Release's terminal not, which the list tells them for as long as it is whole.
NoLockCycle ==
  list = "whole" => \A S \in (SUBSET Thread) \ {{}} : \E w \in S : WaitsFor(w) \notin S

\* The comment in qs_operand_unref: once the terminal is out of the queue nobody else
\* references it, so no thread is about to take it and none touches its data when it is
\* freed.  Not even while the list is whole.
NoneElseReferences ==
  list = "whole" =>
    \A w \in Thread :
      /\ pc[w] = "take" => \A v \in Thread : ~(pc[v] = "destroy" /\ own[v] = target[w])
      /\ pc[w] \in {"take", "delete", "evict", "save"} => life[target[w]] # "freed"

=============================================================================
