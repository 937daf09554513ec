----------------------- MODULE TerminalCacheInvariant -----------------------
(***************************************************************************)
(* The inductive invariant of the coefficient cache: which call each       *)
(* thread is in, which locks it holds there, whom the refcount counts, and *)
(* where a coefficient is.  What acquirers, evictors and loaders rely on,  *)
(* and that no threads wait for each other in a circle, follows from it.   *)
(* Of the threads in the list it says nothing but for the one the mutex    *)
(* belongs to, as "unlock" takes it from whoever has it; and of what the   *)
(* list holds only while it is whole.                                      *)
(***************************************************************************)
EXTENDS TerminalCache

TypeOK ==
  /\ life \in [Terminal -> {"unborn", "new", "live", "dying", "freed"}]
  /\ coefficient \in [Terminal -> BOOLEAN]
  /\ users \in [Terminal -> Nat]
  /\ queue \subseteq Terminal /\ list \in {"whole", "torn", "fatal"} /\ stored \subseteq Terminal
  /\ usage \in 0..(Modulus - 1)
  /\ dlock \in [Terminal -> Thread \cup {None}]
  /\ qlock \in Thread \cup {None}
  /\ loadlock \in [Manager -> Thread \cup {None}]
  /\ pc \in [Thread -> {"idle", "publish", "add", "loader", "load", "read", "count", "memory",
                        "pop", "search", "take", "delete", "unlock", "evict", "save", "less",
                        "loaded", "release", "requeue", "readd", "unref", "dequeue",
                        "destroy"}]
  /\ own \in [Thread -> Terminal \cup {None}]
  /\ target \in [Thread -> Terminal \cup {None}]
  /\ uses \in [Thread -> SUBSET Terminal]

-----------------------------------------------------------------------------
(* The calls *)

\* In memory_change, called by a publication or by the loader.
Changing(w) == pc[w] \in {"count", "memory", "pop", "search", "take", "delete", "unlock",
                          "evict", "save", "less"}

\* With a terminal that was popped from the queue.
Popped(w) == pc[w] \in {"take", "delete", "unlock", "evict", "save", "less"}

\* Behind the lock of the loaders of its manager.
Loading(w) == \/ pc[w] \in {"load", "read", "loaded"}
              \/ Changing(w) /\ life[own[w]] # "new"

\* From the loader's coefficient on to where the caller gets it.
Filled(w) == Loading(w) /\ pc[w] \notin {"load", "read"}

Evicting(w) == pc[w] \in {"evict", "save"}

\* A thread that is in a call has a terminal of the phase of life the call is about.
CallsApply ==
  \A w \in Thread :
    /\ pc[w] = "idle" => own[w] = None
    /\ pc[w] # "idle" => own[w] \in Terminal
    /\ pc[w] \in {"publish", "add"} => life[own[w]] = "new"
    /\ Changing(w) => life[own[w]] \in {"new", "live"}
    /\ pc[w] \in {"loader", "load", "read", "loaded", "release", "requeue", "readd"} =>
         life[own[w]] = "live"
    /\ pc[w] \in {"unref", "dequeue", "destroy"} => life[own[w]] = "dying"

\* Two threads are in calls for the same terminal only while it is live.
CallsApart ==
  \A v, w \in Thread : v # w /\ own[v] = own[w] /\ own[w] \in Terminal => life[own[w]] = "live"

\* What is in the queue, or was taken out of it, exists.
PoppedExist ==
  /\ \A t \in queue : life[t] # "unborn"
  /\ \A w \in Thread : Popped(w) => target[w] \in Terminal /\ life[target[w]] # "unborn"

-----------------------------------------------------------------------------
(* The users *)

\* In a call that the refcount covers already or still.
Counted(w, t) == own[w] = t /\ (pc[w] \in {"loader", "release"} \/ Loading(w))

Users(t) == {w \in Thread : t \in uses[w] \/ Counted(w, t)}

\* TerminalData.refcount is their number, and none is counted twice.
UsersCounted ==
  /\ \A t \in Terminal : IsFiniteSet(Users(t)) /\ users[t] = Cardinality(Users(t))
  /\ \A w \in Thread : \A t \in uses[w] : life[t] = "live" /\ ~Counted(w, t)

-----------------------------------------------------------------------------
(* The locks *)

\* Putting a terminal back into the queue.
Requeueing(w) == pc[w] \in {"requeue", "readd"}

\* From where a pop has locked the data of its target to where it unlocks it.
Taking(w) == pc[w] = "delete" \/ Evicting(w)

\* In the part of qs_terminal_queue_pop or qs_terminal_release that locks the data.
LocksData(w, t) == \/ Taking(w) /\ target[w] = t
                   \/ Requeueing(w) /\ own[w] = t

\* The data of a terminal is locked by who evicts it or puts it back into the queue.
DataLocked == \A t \in Terminal, w \in Thread : dlock[t] = w <=> LocksData(w, t)

\* The lock of the loaders is held from "load" to "loaded".
LoadersLocked ==
  \A m \in Manager, w \in Thread : loadlock[m] = w <=> (Loading(w) /\ ManagerOf(own[w]) = m)

\* Whom the queue's mutex belongs to is in the list or about to take a terminal that is in
\* the queue.
QueueLocked ==
  qlock # None =>
    Inside(qlock) \/ (pc[qlock] = "take" /\ (list = "whole" => target[qlock] \in queue))

\* What is tracked of a torn list.
TornEmpty == list # "whole" => queue = {}

-----------------------------------------------------------------------------
(* The coefficients *)

\* What is being evicted has no user, and its coefficient is gone before it is written.
EvictedUnused ==
  \A w \in Thread : /\ Evicting(w) => users[target[w]] = 0
                    /\ pc[w] = "save" => ~coefficient[target[w]]

\* Who has acquired a terminal, is releasing it or puts it back finds the coefficient.
HeldLoaded ==
  \A w \in Thread :
    /\ \A t \in uses[w] : coefficient[t]
    /\ pc[w] = "release" \/ Requeueing(w) \/ Filled(w) => coefficient[own[w]]

\* Who puts a terminal back does not find it in the queue.
RequeuedAbsent == \A w \in Thread : Requeueing(w) => own[w] \notin queue

\* A coefficient that is missing can be loaded unless it is being written.
MissingStored ==
  \A t \in Terminal :
    /\ life[t] \in {"new", "live"} /\ ~coefficient[t]
    /\ \A w \in Thread : ~(pc[w] = "save" /\ target[w] = t)
    => t \in stored \cup Initial

\* A coefficient nobody uses can be evicted, from its publication on.
UnusedQueued ==
  list = "whole" =>
    \A t \in Terminal :
      /\ life[t] \in {"new", "live"} /\ coefficient[t] /\ users[t] = 0 /\ dlock[t] = None
      /\ \A w \in Thread : ~(pc[w] \in {"publish", "add"} /\ own[w] = t)
      => t \in queue

IInv ==
  /\ TypeOK /\ CallsApply /\ CallsApart /\ PoppedExist /\ UsersCounted
  /\ DataLocked /\ LoadersLocked /\ QueueLocked /\ TornEmpty
  /\ EvictedUnused /\ HeldLoaded /\ RequeuedAbsent /\ LoadFindsEmpty /\ MissingStored
  /\ UnusedQueued
=============================================================================
