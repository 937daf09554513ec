------------------------- MODULE TerminalCacheProof -------------------------
(***************************************************************************)
(* Proofs about the coefficient cache, for any terminals, sizes and limit  *)
(* and any number of threads: what is acquired stays in memory, what was   *)
(* evicted can be loaded and is loaded once, though threads may meet in    *)
(* the list of the queue and tear it; and while they do not, what is       *)
(* unused can be evicted, and none wait for each other in a circle.  There *)
(* is one lemma for each part of the invariant (TerminalCacheInvariant), with *)
(* the steps in groups: the calls, publishing and memory_change, the pop,  *)
(* the eviction, the loader, the release and the destruction.  The last    *)
(* part proves what CoefficientId says of the numbers that the evicted     *)
(* coefficients are stored under.                                          *)
(***************************************************************************)
EXTENDS TerminalCacheInvariant, CoefficientId, FiniteSetTheorems, TLAPS

-----------------------------------------------------------------------------
(* Types *)

\* Who is counted is a reason for the refcount not to be zero.
LEMMA InUse ==
  ASSUME UsersCounted, NEW t \in Terminal, NEW w \in Thread, t \in uses[w] \/ Counted(w, t)
  PROVE  users[t] # 0
<1>1. w \in Users(t)
  BY DEF Users
<1>2. IsFiniteSet(Users(t)) /\ users[t] = Cardinality(Users(t))
  BY DEF UsersCounted
<1>. QED
  BY <1>1, <1>2, FS_EmptySet

\* Each step keeps the types, in particular users from falling below zero and usage in
\* its word.
LEMMA TypeOKStep ==
  ASSUME TypeOK, CallsApply, PoppedExist, UsersCounted, NEW w \in Thread, Call(w) \/ Step(w)
  PROVE  TypeOK'
<1>. USE TerminalAssumption, SizeAssumption, LimitAssumption DEF TypeOK, CallsApply,
           PoppedExist, Changing, Popped, Manager, ManagerOf, Enter, Access, Added,
           Candidates, Queued, Goto, Return, listVars, dataVars, lockVars, threadVars
<1>1. ASSUME NEW t \in Terminal, Create(w, t) PROVE TypeOK'
  BY <1>1 DEF Create
<1>2. ASSUME NEW t \in Terminal, Acquire(w, t) PROVE TypeOK'
  BY <1>2 DEF Acquire
<1>3. ASSUME NEW t \in Terminal, ReleaseCall(w, t) \/ UnrefCall(w, t) PROVE TypeOK'
  BY <1>3 DEF ReleaseCall, UnrefCall
<1>4. CASE Publish(w) \/ Add(w) \/ Count(w) \/ Memory(w)
  <2>1. CASE Publish(w) \/ Add(w)
    BY <2>1 DEF Publish, Add
  <2>2. CASE Count(w)
    BY <2>2 DEF Count
  <2>3. CASE Memory(w)
    BY <2>3 DEF Memory, MemoryReturn
  <2>. QED
    BY <1>4, <2>1, <2>2, <2>3
<1>5. CASE \/ Pop(w) \/ Search(w) \/ PopNothing(w) \/ Take(w) \/ Delete(w) \/ Unlock(w)
           \/ Fail(w)
  BY <1>5 DEF Pop, Search, PopNothing, Take, Delete, Unlock, Fail, MemoryReturn
<1>6. CASE Evict(w)
  BY <1>6 DEF Evict
<1>7. CASE Save(w) \/ Less(w)
  <2>1. CASE Save(w)
    BY <2>1 DEF Save
  <2>2. CASE Less(w)
    BY <2>2 DEF Less
  <2>. QED
    BY <1>7, <2>1, <2>2
<1>8. CASE Loader(w) \/ Load(w) \/ Loaded(w)
  BY <1>8 DEF Loader, Load, Loaded
<1>9. CASE Read(w)
  BY <1>9 DEF Read
<1>10. CASE Release(w)
  <2>1. own[w] \in Terminal /\ Counted(w, own[w])
    BY <1>10 DEF Release, Counted
  <2>2. users[own[w]] - 1 \in Nat
    BY <2>1, InUse
  <2>3. users' \in [Terminal -> Nat]
    BY <1>10, <2>1, <2>2 DEF Release
  <2>. QED
    BY <1>10, <2>1, <2>3 DEF Release
<1>11. CASE Requeue(w) \/ Readd(w) \/ Unref(w) \/ Dequeue(w)
  BY <1>11 DEF Requeue, Readd, Unref, Dequeue
<1>12. CASE Destroy(w)
  <2>1. own[w] \in Terminal
    BY <1>12 DEF Destroy
  <2>2. usage' \in 0..(Modulus - 1)
    <3>1. (usage - SizeOf[own[w]]) % Modulus \in 0..(Modulus - 1)
      BY <2>1
    <3>. QED
      BY <1>12, <3>1 DEF Destroy
  <2>. QED
    BY <1>12, <2>1, <2>2 DEF Destroy
<1>. QED
  BY <1>1, <1>2, <1>3, <1>4, <1>5, <1>6, <1>7, <1>8, <1>9, <1>10, <1>11, <1>12
     DEF Call, Step

-----------------------------------------------------------------------------
(* The calls *)

\* A call has its terminal for as long as it goes on, and the terminal stays in the phase
\* of life it is about.
LEMMA CallsApplyStep ==
  ASSUME CallsApply, TypeOK, CallsApart, UsersCounted, NEW w \in Thread, Call(w) \/ Step(w)
  PROVE  CallsApply'
<1>. USE ThreadAssumption, TerminalAssumption DEF CallsApply, TypeOK, CallsApart,
           UsersCounted, Changing, Enter, Access, Added, Candidates, Queued, Goto,
           Return, listVars, dataVars, lockVars, threadVars
<1>1. CASE Call(w)
  BY <1>1 DEF Call, Create, Acquire, ReleaseCall, UnrefCall
<1>2. CASE Publish(w) \/ Add(w) \/ Count(w) \/ Memory(w)
  BY <1>2 DEF Publish, Add, Count, Memory, MemoryReturn
<1>3. CASE \/ Pop(w) \/ Search(w) \/ PopNothing(w) \/ Take(w) \/ Delete(w) \/ Unlock(w)
           \/ Fail(w)
  BY <1>3 DEF Pop, Search, PopNothing, Take, Delete, Unlock, Fail, MemoryReturn
<1>4. CASE Evict(w) \/ Save(w) \/ Less(w)
  BY <1>4 DEF Evict, Save, Less
<1>5. CASE Loader(w) \/ Load(w) \/ Read(w) \/ Loaded(w)
  BY <1>5 DEF Loader, Load, Read, Loaded
<1>6. CASE Release(w) \/ Requeue(w) \/ Readd(w)
  BY <1>6 DEF Release, Requeue, Readd
<1>7. CASE Unref(w) \/ Dequeue(w) \/ Destroy(w)
  BY <1>7 DEF Unref, Dequeue, Destroy
<1>. QED
  BY <1>1, <1>2, <1>3, <1>4, <1>5, <1>6, <1>7 DEF Step

\* Who creates or destroys a terminal is alone with it.
LEMMA CallsApartStep ==
  ASSUME CallsApart, TypeOK, CallsApply, UsersCounted, NEW w \in Thread, Call(w) \/ Step(w)
  PROVE  CallsApart'
<1>. USE TerminalAssumption DEF CallsApart, TypeOK, CallsApply, UsersCounted, Changing,
           Enter, Access, Added, Candidates, Queued, Goto, Return, listVars, dataVars,
           lockVars, threadVars
<1>1. CASE Call(w)
  BY <1>1 DEF Call, Create, Acquire, ReleaseCall, UnrefCall
<1>2. CASE Publish(w) \/ Add(w) \/ Count(w) \/ Memory(w)
  BY <1>2 DEF Publish, Add, Count, Memory, MemoryReturn
<1>3. CASE \/ Pop(w) \/ Search(w) \/ PopNothing(w) \/ Take(w) \/ Delete(w) \/ Unlock(w)
           \/ Fail(w)
  BY <1>3 DEF Pop, Search, PopNothing, Take, Delete, Unlock, Fail, MemoryReturn
<1>4. CASE Evict(w) \/ Save(w) \/ Less(w)
  BY <1>4 DEF Evict, Save, Less
<1>5. CASE Loader(w) \/ Load(w) \/ Read(w) \/ Loaded(w)
  BY <1>5 DEF Loader, Load, Read, Loaded
<1>6. CASE Release(w) \/ Requeue(w) \/ Readd(w)
  BY <1>6 DEF Release, Requeue, Readd
<1>7. CASE Unref(w) \/ Dequeue(w) \/ Destroy(w)
  BY <1>7 DEF Unref, Dequeue, Destroy
<1>. QED
  BY <1>1, <1>2, <1>3, <1>4, <1>5, <1>6, <1>7 DEF Step

\* A terminal that was put into the queue or popped existed and goes on to.
LEMMA PoppedExistStep ==
  ASSUME PoppedExist, TypeOK, CallsApply, NEW w \in Thread, Call(w) \/ Step(w)
  PROVE  PoppedExist'
<1>. USE TerminalAssumption DEF PoppedExist, TypeOK, CallsApply, Popped, Changing,
           Enter, Access, Added, Candidates, Queued, Goto, Return, listVars, dataVars,
           lockVars, threadVars
<1>1. CASE Call(w)
  BY <1>1 DEF Call, Create, Acquire, ReleaseCall, UnrefCall
<1>2. CASE Publish(w) \/ Add(w) \/ Count(w) \/ Memory(w)
  BY <1>2 DEF Publish, Add, Count, Memory, MemoryReturn
<1>3. CASE \/ Pop(w) \/ Search(w) \/ PopNothing(w) \/ Take(w) \/ Delete(w) \/ Unlock(w)
           \/ Fail(w)
  BY <1>3 DEF Pop, Search, PopNothing, Take, Delete, Unlock, Fail, MemoryReturn
<1>4. CASE Evict(w) \/ Save(w) \/ Less(w)
  BY <1>4 DEF Evict, Save, Less
<1>5. CASE Loader(w) \/ Load(w) \/ Read(w) \/ Loaded(w)
  BY <1>5 DEF Loader, Load, Read, Loaded
<1>6. CASE Release(w) \/ Requeue(w) \/ Readd(w)
  BY <1>6 DEF Release, Requeue, Readd
<1>7. CASE Unref(w) \/ Dequeue(w) \/ Destroy(w)
  BY <1>7 DEF Unref, Dequeue, Destroy
<1>. QED
  BY <1>1, <1>2, <1>3, <1>4, <1>5, <1>6, <1>7 DEF Step

-----------------------------------------------------------------------------
(* The users *)

\* A step of one thread does not change what is counted of another.
LEMMA OthersCounted ==
  ASSUME TypeOK, CallsApply, CallsApart, UsersCounted,
         NEW w \in Thread, Call(w) \/ Step(w),
         NEW v \in Thread, v # w, NEW t \in Terminal
  PROVE  uses'[v] = uses[v] /\ (Counted(v, t)' <=> Counted(v, t))
<1>. USE TerminalAssumption DEF TypeOK, CallsApply, CallsApart, UsersCounted, Counted,
           Loading, Changing, Enter, Access, Added, Candidates, Queued, Goto, Return,
           listVars, dataVars, lockVars, threadVars
<1>1. CASE Call(w)
  BY <1>1 DEF Call, Create, Acquire, ReleaseCall, UnrefCall
<1>2. CASE Publish(w) \/ Add(w) \/ Count(w) \/ Memory(w)
  BY <1>2 DEF Publish, Add, Count, Memory, MemoryReturn
<1>3. CASE \/ Pop(w) \/ Search(w) \/ PopNothing(w) \/ Take(w) \/ Delete(w) \/ Unlock(w)
           \/ Fail(w)
  BY <1>3 DEF Pop, Search, PopNothing, Take, Delete, Unlock, Fail, MemoryReturn
<1>4. CASE Evict(w) \/ Save(w) \/ Less(w)
  BY <1>4 DEF Evict, Save, Less
<1>5. CASE Loader(w) \/ Load(w) \/ Read(w) \/ Loaded(w)
  BY <1>5 DEF Loader, Load, Read, Loaded
<1>6. CASE Release(w) \/ Requeue(w) \/ Readd(w)
  BY <1>6 DEF Release, Requeue, Readd
<1>7. CASE Unref(w) \/ Dequeue(w) \/ Destroy(w)
  BY <1>7 DEF Unref, Dequeue, Destroy
<1>. QED
  BY <1>1, <1>2, <1>3, <1>4, <1>5, <1>6, <1>7 DEF Step

\* A terminal whose users stay the same is counted as before.
LEMMA SameUsers ==
  ASSUME UsersCounted, NEW t \in Terminal, users'[t] = users[t],
         \A v \in Thread : (t \in uses[v] \/ Counted(v, t))' <=> (t \in uses[v] \/ Counted(v, t))
  PROVE  (IsFiniteSet(Users(t)) /\ users[t] = Cardinality(Users(t)))'
<1>1. Users(t)' = Users(t)
  BY DEF Users
<1>. QED
  BY <1>1 DEF UsersCounted

\* A call to qs_terminal_acquire adds one to the count of users of its terminal.
LEMMA AcquireCounts ==
  ASSUME TypeOK, CallsApply, CallsApart, UsersCounted,
         NEW w \in Thread, NEW t \in Terminal, Acquire(w, t), NEW u \in Terminal
  PROVE  (IsFiniteSet(Users(u)) /\ users[u] = Cardinality(Users(u)))'
<1>1. Call(w)
  BY DEF Call
<1>2. \A v \in Thread \ {w} :
        (u \in uses[v] \/ Counted(v, u))' <=> (u \in uses[v] \/ Counted(v, u))
  BY <1>1, OthersCounted
<1>3. ~Counted(w, u) /\ uses'[w] = uses[w] /\ (Counted(w, u)' <=> u = t) /\ w \notin Users(t)
  BY TerminalAssumption DEF Acquire, TypeOK, CallsApply, Counted, Loading, Changing, Goto, Users
<1>4. CASE u # t
  <2>1. users'[u] = users[u]
    BY <1>4 DEF Acquire, TypeOK
  <2>. QED
    BY <1>2, <1>3, <1>4, <2>1, SameUsers
<1>5. CASE u = t
  <2>1. Users(t)' = Users(t) \cup {w}
    BY <1>2, <1>3, <1>5 DEF Users
  <2>2. users'[t] = users[t] + 1
    BY DEF Acquire, TypeOK
  <2>3. IsFiniteSet(Users(t)) /\ users[t] = Cardinality(Users(t))
    BY DEF UsersCounted
  <2>. QED
    BY <1>3, <1>5, <2>1, <2>2, <2>3, FS_AddElement
<1>. QED
  BY <1>4, <1>5

\* One to qs_terminal_release takes one off.
LEMMA ReleaseCounts ==
  ASSUME TypeOK, CallsApply, CallsApart, UsersCounted,
         NEW w \in Thread, Release(w), NEW u \in Terminal
  PROVE  (IsFiniteSet(Users(u)) /\ users[u] = Cardinality(Users(u)))'
<1>1. Step(w)
  BY DEF Step
<1>2. \A v \in Thread \ {w} :
        (u \in uses[v] \/ Counted(v, u))' <=> (u \in uses[v] \/ Counted(v, u))
  BY <1>1, OthersCounted
<1>3. own[w] \in Terminal /\ Counted(w, own[w]) /\ uses'[w] = uses[w] /\ ~Counted(w, u)'
  BY TerminalAssumption
     DEF Release, TypeOK, CallsApply, Counted, Loading, Changing, Goto, Return
<1>4. CASE u # own[w]
  <2>1. users'[u] = users[u] /\ ~Counted(w, u)
    BY <1>4 DEF Release, TypeOK, Counted
  <2>. QED
    BY <1>2, <1>3, <2>1, SameUsers
<1>5. CASE u = own[w]
  <2>1. u \notin uses[w]
    BY <1>3, <1>5 DEF UsersCounted
  <2>2. Users(u)' = Users(u) \ {w} /\ w \in Users(u)
    BY <1>2, <1>3, <1>5, <2>1 DEF Users
  <2>3. users'[u] = users[u] - 1
    BY <1>3, <1>5 DEF Release, TypeOK
  <2>4. IsFiniteSet(Users(u)) /\ users[u] = Cardinality(Users(u))
    BY DEF UsersCounted
  <2>. QED
    BY <2>2, <2>3, <2>4, FS_RemoveElement
<1>. QED
  BY <1>4, <1>5

\* Every other step leaves users and their count alone.
LEMMA OthersKeepUsers ==
  ASSUME TypeOK, CallsApply, CallsApart, UsersCounted, NEW w \in Thread, Call(w) \/ Step(w),
         ~Release(w), \A t \in Terminal : ~Acquire(w, t), NEW u \in Terminal
  PROVE  /\ users'[u] = users[u]
         /\ (u \in uses[w] \/ Counted(w, u))' <=> (u \in uses[w] \/ Counted(w, u))
<1>. USE TerminalAssumption DEF TypeOK, CallsApply, CallsApart, UsersCounted, Counted,
           Loading, Changing, Enter, Access, Added, Candidates, Queued, Goto, Return,
           listVars, dataVars, lockVars, threadVars
<1>1. CASE Call(w)
  BY <1>1 DEF Call, Create, ReleaseCall, UnrefCall
<1>2. CASE Publish(w) \/ Add(w) \/ Count(w) \/ Memory(w)
  BY <1>2 DEF Publish, Add, Count, Memory, MemoryReturn
<1>3. CASE \/ Pop(w) \/ Search(w) \/ PopNothing(w) \/ Take(w) \/ Delete(w) \/ Unlock(w)
           \/ Fail(w)
  BY <1>3 DEF Pop, Search, PopNothing, Take, Delete, Unlock, Fail, MemoryReturn
<1>4. CASE Evict(w) \/ Save(w) \/ Less(w)
  BY <1>4 DEF Evict, Save, Less
<1>5. CASE Loader(w) \/ Load(w) \/ Read(w) \/ Loaded(w)
  BY <1>5 DEF Loader, Load, Read, Loaded
<1>6. CASE Requeue(w) \/ Readd(w)
  BY <1>6 DEF Requeue, Readd
<1>7. CASE Unref(w) \/ Dequeue(w) \/ Destroy(w)
  BY <1>7 DEF Unref, Dequeue, Destroy
<1>. QED
  BY <1>1, <1>2, <1>3, <1>4, <1>5, <1>6, <1>7 DEF Step

\* What is acquired is live, and nobody is counted for it twice.
LEMMA UsedOnceStep ==
  ASSUME TypeOK, CallsApply, CallsApart, UsersCounted, NEW w \in Thread, Call(w) \/ Step(w),
         NEW v \in Thread, NEW t \in uses'[v]
  PROVE  life'[t] = "live" /\ ~Counted(v, t)'
<1>. USE TerminalAssumption DEF TypeOK, CallsApply, CallsApart, UsersCounted, Counted,
           Loading, Changing, Enter, Access, Added, Candidates, Queued, Goto, Return,
           listVars, dataVars, lockVars, threadVars
<1>1. CASE Call(w)
  BY <1>1 DEF Call, Create, Acquire, ReleaseCall, UnrefCall
<1>2. CASE Publish(w) \/ Add(w) \/ Count(w) \/ Memory(w)
  BY <1>2 DEF Publish, Add, Count, Memory, MemoryReturn
<1>3. CASE \/ Pop(w) \/ Search(w) \/ PopNothing(w) \/ Take(w) \/ Delete(w) \/ Unlock(w)
           \/ Fail(w)
  BY <1>3 DEF Pop, Search, PopNothing, Take, Delete, Unlock, Fail, MemoryReturn
<1>4. CASE Evict(w) \/ Save(w) \/ Less(w)
  BY <1>4 DEF Evict, Save, Less
<1>5. CASE Loader(w) \/ Load(w) \/ Read(w) \/ Loaded(w)
  BY <1>5 DEF Loader, Load, Read, Loaded
<1>6. CASE Release(w) \/ Requeue(w) \/ Readd(w)
  BY <1>6 DEF Release, Requeue, Readd
<1>7. CASE Unref(w) \/ Dequeue(w) \/ Destroy(w)
  BY <1>7 DEF Unref, Dequeue, Destroy
<1>. QED
  BY <1>1, <1>2, <1>3, <1>4, <1>5, <1>6, <1>7 DEF Step

\* The refcount is the number of users.
LEMMA UsersCountedStep ==
  ASSUME TypeOK, CallsApply, CallsApart, UsersCounted, NEW w \in Thread, Call(w) \/ Step(w)
  PROVE  UsersCounted'
<1>1. ASSUME NEW u \in Terminal
      PROVE  (IsFiniteSet(Users(u)) /\ users[u] = Cardinality(Users(u)))'
  <2>1. CASE Release(w) \/ \E t \in Terminal : Acquire(w, t)
    BY <2>1, ReleaseCounts, AcquireCounts
  <2>2. CASE ~Release(w) /\ \A t \in Terminal : ~Acquire(w, t)
    <3>1. \A v \in Thread :
            (u \in uses[v] \/ Counted(v, u))' <=> (u \in uses[v] \/ Counted(v, u))
      BY <2>2, OthersCounted, OthersKeepUsers
    <3>. QED
      BY <2>2, <3>1, OthersKeepUsers, SameUsers
  <2>. QED
    BY <2>1, <2>2
<1>2. \A v \in Thread : \A t \in uses'[v] : life'[t] = "live" /\ ~Counted(v, t)'
  BY UsedOnceStep
<1>. QED
  BY <1>1, <1>2 DEF UsersCounted
-----------------------------------------------------------------------------
(* The locks *)

\* The data lock is taken and given back where a thread enters and leaves the parts that
\* need it.
LEMMA DataLockedStep ==
  ASSUME DataLocked, TypeOK, CallsApply, CallsApart, PoppedExist, NEW w \in Thread,
         Call(w) \/ Step(w)
  PROVE  DataLocked'
<1>. USE ThreadAssumption, TerminalAssumption DEF DataLocked, TypeOK, CallsApply,
           CallsApart, PoppedExist, LocksData, Evicting, Popped, Changing, Requeueing, Taking,
           Enter, Access, Added, Candidates, Queued, Goto, Return, listVars, dataVars,
           lockVars, threadVars
<1>1. CASE Call(w)
  BY <1>1 DEF Call, Create, Acquire, ReleaseCall, UnrefCall
<1>2. CASE Publish(w) \/ Add(w) \/ Count(w) \/ Memory(w)
  BY <1>2 DEF Publish, Add, Count, Memory, MemoryReturn
<1>3. CASE \/ Pop(w) \/ Search(w) \/ PopNothing(w) \/ Take(w) \/ Delete(w) \/ Unlock(w)
           \/ Fail(w)
  BY <1>3 DEF Pop, Search, PopNothing, Take, Delete, Unlock, Fail, MemoryReturn
<1>4. CASE Evict(w) \/ Save(w) \/ Less(w)
  BY <1>4 DEF Evict, Save, Less
<1>5. CASE Loader(w) \/ Load(w) \/ Read(w) \/ Loaded(w)
  BY <1>5 DEF Loader, Load, Read, Loaded
<1>6. CASE Release(w) \/ Requeue(w) \/ Readd(w)
  BY <1>6 DEF Release, Requeue, Readd
<1>7. CASE Unref(w) \/ Dequeue(w) \/ Destroy(w)
  BY <1>7 DEF Unref, Dequeue, Destroy
<1>. QED
  BY <1>1, <1>2, <1>3, <1>4, <1>5, <1>6, <1>7 DEF Step

\* The lock of the loaders is held all through the memory_change of a loader, and a
\* publication does not have it.
LEMMA LoadersLockedStep ==
  ASSUME LoadersLocked, TypeOK, CallsApply, CallsApart, NEW w \in Thread, Call(w) \/ Step(w)
  PROVE  LoadersLocked'
<1>. USE ThreadAssumption, TerminalAssumption DEF LoadersLocked, TypeOK, CallsApply,
           CallsApart, Loading, Changing, Manager, ManagerOf, Enter, Access, Added,
           Candidates, Queued, Goto, Return, listVars, dataVars, lockVars, threadVars
<1>1. CASE Call(w)
  BY <1>1 DEF Call, Create, Acquire, ReleaseCall, UnrefCall
<1>2. CASE Publish(w) \/ Add(w) \/ Count(w) \/ Memory(w)
  BY <1>2 DEF Publish, Add, Count, Memory, MemoryReturn
<1>3. CASE \/ Pop(w) \/ Search(w) \/ PopNothing(w) \/ Take(w) \/ Delete(w) \/ Unlock(w)
           \/ Fail(w)
  BY <1>3 DEF Pop, Search, PopNothing, Take, Delete, Unlock, Fail, MemoryReturn
<1>4. CASE Evict(w) \/ Save(w) \/ Less(w)
  BY <1>4 DEF Evict, Save, Less
<1>5. CASE Loader(w) \/ Load(w) \/ Read(w) \/ Loaded(w)
  BY <1>5 DEF Loader, Load, Read, Loaded
<1>6. CASE Release(w) \/ Requeue(w) \/ Readd(w)
  BY <1>6 DEF Release, Requeue, Readd
<1>7. CASE Unref(w) \/ Dequeue(w) \/ Destroy(w)
  BY <1>7 DEF Unref, Dequeue, Destroy
<1>. QED
  BY <1>1, <1>2, <1>3, <1>4, <1>5, <1>6, <1>7 DEF Step

\* Whatever removes a terminal from the queue leaves the mutex with nobody, though it may
\* have been locked by someone else.
LEMMA QueueLockedStep ==
  ASSUME QueueLocked, TypeOK, CallsApply, NEW w \in Thread, Call(w) \/ Step(w)
  PROVE  QueueLocked'
<1>. USE ThreadAssumption DEF QueueLocked, Inside, TypeOK, CallsApply, Changing, Enter, Access,
           Added, Candidates, Queued, Goto, Return, listVars, dataVars, lockVars,
           threadVars
<1>1. CASE Call(w)
  BY <1>1 DEF Call, Create, Acquire, ReleaseCall, UnrefCall
<1>2. CASE Publish(w) \/ Add(w) \/ Count(w) \/ Memory(w)
  BY <1>2 DEF Publish, Add, Count, Memory, MemoryReturn
<1>3. CASE \/ Pop(w) \/ Search(w) \/ PopNothing(w) \/ Take(w) \/ Delete(w) \/ Unlock(w)
           \/ Fail(w)
  BY <1>3 DEF Pop, Search, PopNothing, Take, Delete, Unlock, Fail, MemoryReturn
<1>4. CASE Evict(w) \/ Save(w) \/ Less(w)
  BY <1>4 DEF Evict, Save, Less
<1>5. CASE Loader(w) \/ Load(w) \/ Read(w) \/ Loaded(w)
  BY <1>5 DEF Loader, Load, Read, Loaded
<1>6. CASE Release(w) \/ Requeue(w) \/ Readd(w)
  BY <1>6 DEF Release, Requeue, Readd
<1>7. CASE Unref(w) \/ Dequeue(w) \/ Destroy(w)
  BY <1>7 DEF Unref, Dequeue, Destroy
<1>. QED
  BY <1>1, <1>2, <1>3, <1>4, <1>5, <1>6, <1>7 DEF Step

\* Nothing is tracked of a list from the step on that tears it.
LEMMA TornEmptyStep ==
  ASSUME TornEmpty, TypeOK, CallsApply, NEW w \in Thread, Call(w) \/ Step(w)
  PROVE  TornEmpty'
<1>. USE ThreadAssumption DEF TornEmpty, TypeOK, CallsApply, Changing, Enter, Access,
           Added, Candidates, Queued, Goto, Return, listVars, dataVars, lockVars,
           threadVars
<1>1. CASE Call(w)
  BY <1>1 DEF Call, Create, Acquire, ReleaseCall, UnrefCall
<1>2. CASE Publish(w) \/ Add(w) \/ Count(w) \/ Memory(w)
  BY <1>2 DEF Publish, Add, Count, Memory, MemoryReturn
<1>3. CASE \/ Pop(w) \/ Search(w) \/ PopNothing(w) \/ Take(w) \/ Delete(w) \/ Unlock(w)
           \/ Fail(w)
  BY <1>3 DEF Pop, Search, PopNothing, Take, Delete, Unlock, Fail, MemoryReturn
<1>4. CASE Evict(w) \/ Save(w) \/ Less(w)
  BY <1>4 DEF Evict, Save, Less
<1>5. CASE Loader(w) \/ Load(w) \/ Read(w) \/ Loaded(w)
  BY <1>5 DEF Loader, Load, Read, Loaded
<1>6. CASE Release(w) \/ Requeue(w) \/ Readd(w)
  BY <1>6 DEF Release, Requeue, Readd
<1>7. CASE Unref(w) \/ Dequeue(w) \/ Destroy(w)
  BY <1>7 DEF Unref, Dequeue, Destroy
<1>. QED
  BY <1>1, <1>2, <1>3, <1>4, <1>5, <1>6, <1>7 DEF Step

-----------------------------------------------------------------------------
(* The coefficients *)

\* While a coefficient is evicted its terminal cannot be acquired and not be loaded.
LEMMA EvictedUnusedStep ==
  ASSUME EvictedUnused, TypeOK, CallsApply, PoppedExist, DataLocked, NEW w \in Thread,
         Call(w) \/ Step(w)
  PROVE  EvictedUnused'
<1>. USE ThreadAssumption, TerminalAssumption DEF EvictedUnused, TypeOK, CallsApply,
           PoppedExist, DataLocked, LocksData, Evicting, Popped, Changing, Requeueing, Taking,
           Enter, Access, Added, Candidates, Queued, Goto, Return, listVars, dataVars,
           lockVars, threadVars
<1>1. CASE Call(w)
  BY <1>1 DEF Call, Create, Acquire, ReleaseCall, UnrefCall
<1>2. CASE Publish(w) \/ Add(w) \/ Count(w) \/ Memory(w)
  BY <1>2 DEF Publish, Add, Count, Memory, MemoryReturn
<1>3. CASE \/ Pop(w) \/ Search(w) \/ PopNothing(w) \/ Take(w) \/ Delete(w) \/ Unlock(w)
           \/ Fail(w)
  BY <1>3 DEF Pop, Search, PopNothing, Take, Delete, Unlock, Fail, MemoryReturn
<1>4. CASE Evict(w) \/ Save(w) \/ Less(w)
  BY <1>4 DEF Evict, Save, Less
<1>5. CASE Loader(w) \/ Load(w) \/ Read(w) \/ Loaded(w)
  BY <1>5 DEF Loader, Load, Read, Loaded
<1>6. CASE Release(w) \/ Requeue(w) \/ Readd(w)
  BY <1>6 DEF Release, Requeue, Readd
<1>7. CASE Unref(w) \/ Dequeue(w) \/ Destroy(w)
  BY <1>7 DEF Unref, Dequeue, Destroy
<1>. QED
  BY <1>1, <1>2, <1>3, <1>4, <1>5, <1>6, <1>7 DEF Step

\* A coefficient is evicted only if nobody counts as a user, and only a destruction that is
\* alone frees one.
LEMMA HeldLoadedStep ==
  ASSUME HeldLoaded, TypeOK, CallsApply, CallsApart, PoppedExist, DataLocked, UsersCounted,
         EvictedUnused, NEW w \in Thread, Call(w) \/ Step(w)
  PROVE  HeldLoaded'
<1>. USE ThreadAssumption, TerminalAssumption DEF HeldLoaded, TypeOK, CallsApply,
           CallsApart, PoppedExist, DataLocked, UsersCounted, EvictedUnused, LocksData,
           Evicting, Popped, Filled, Loading, Changing, Counted, Requeueing, Taking, Enter,
           Access, Added, Candidates, Queued, Goto, Return, listVars, dataVars,
           lockVars, threadVars
<1>1. CASE Call(w)
  BY <1>1 DEF Call, Create, Acquire, ReleaseCall, UnrefCall
<1>2. CASE Publish(w) \/ Add(w) \/ Count(w) \/ Memory(w)
  BY <1>2 DEF Publish, Add, Count, Memory, MemoryReturn
<1>3. CASE \/ Pop(w) \/ Search(w) \/ PopNothing(w) \/ Take(w) \/ Delete(w) \/ Unlock(w)
           \/ Fail(w)
  BY <1>3 DEF Pop, Search, PopNothing, Take, Delete, Unlock, Fail, MemoryReturn
<1>4. CASE Evict(w) \/ Save(w) \/ Less(w)
  <2>1. CASE Evict(w)
    <3>1. target[w] \in Terminal /\ users[target[w]] = 0 /\ dlock[target[w]] = w
      BY <2>1 DEF Evict
    <3>2. \A v \in Thread : target[w] \notin uses[v] /\ ~Counted(v, target[w])
      BY <3>1, InUse
    <3>3. \A v \in Thread : ~(Requeueing(v) /\ own[v] = target[w])
      BY <2>1, <3>1 DEF Evict
    <3>. QED
      BY <2>1, <3>1, <3>2, <3>3 DEF Evict
  <2>2. CASE Save(w) \/ Less(w)
    BY <2>2 DEF Save, Less
  <2>. QED
    BY <1>4, <2>1, <2>2
<1>5. CASE Loader(w) \/ Load(w) \/ Read(w) \/ Loaded(w)
  BY <1>5 DEF Loader, Load, Read, Loaded
<1>6. CASE Release(w) \/ Requeue(w) \/ Readd(w)
  BY <1>6 DEF Release, Requeue, Readd
<1>7. CASE Unref(w) \/ Dequeue(w) \/ Destroy(w)
  BY <1>7 DEF Unref, Dequeue, Destroy
<1>. QED
  BY <1>1, <1>2, <1>3, <1>4, <1>5, <1>6, <1>7 DEF Step

\* The data lock keeps the terminal from being put into the queue by another.
LEMMA RequeuedAbsentStep ==
  ASSUME RequeuedAbsent, TypeOK, CallsApply, DataLocked, TornEmpty, NEW w \in Thread,
         Call(w) \/ Step(w)
  PROVE  RequeuedAbsent'
<1>. USE ThreadAssumption, TerminalAssumption DEF RequeuedAbsent, TypeOK, CallsApply,
           DataLocked, TornEmpty, LocksData, Changing, Evicting, Requeueing, Taking, Enter,
           Access, Added,
           Candidates, Queued, Goto, Return, listVars, dataVars, lockVars, threadVars
<1>1. CASE Call(w)
  BY <1>1 DEF Call, Create, Acquire, ReleaseCall, UnrefCall
<1>2. CASE Publish(w) \/ Add(w) \/ Count(w) \/ Memory(w)
  BY <1>2 DEF Publish, Add, Count, Memory, MemoryReturn
<1>3. CASE \/ Pop(w) \/ Search(w) \/ PopNothing(w) \/ Take(w) \/ Delete(w) \/ Unlock(w)
           \/ Fail(w)
  BY <1>3 DEF Pop, Search, PopNothing, Take, Delete, Unlock, Fail, MemoryReturn
<1>4. CASE Evict(w) \/ Save(w) \/ Less(w)
  BY <1>4 DEF Evict, Save, Less
<1>5. CASE Loader(w) \/ Load(w) \/ Read(w) \/ Loaded(w)
  BY <1>5 DEF Loader, Load, Read, Loaded
<1>6. CASE Release(w) \/ Requeue(w) \/ Readd(w)
  BY <1>6 DEF Release, Requeue, Readd
<1>7. CASE Unref(w) \/ Dequeue(w) \/ Destroy(w)
  BY <1>7 DEF Unref, Dequeue, Destroy
<1>. QED
  BY <1>1, <1>2, <1>3, <1>4, <1>5, <1>6, <1>7 DEF Step

\* The lock of the loaders keeps a second one away from a coefficient that is missing.
LEMMA LoadFindsEmptyStep ==
  ASSUME LoadFindsEmpty, TypeOK, CallsApply, CallsApart, PoppedExist, LoadersLocked,
         NEW w \in Thread, Call(w) \/ Step(w)
  PROVE  LoadFindsEmpty'
<1>. USE ThreadAssumption, TerminalAssumption DEF LoadFindsEmpty, TypeOK, CallsApply,
           CallsApart, PoppedExist, LoadersLocked, Loading, Popped, Changing, Manager,
           ManagerOf, Enter, Access, Added, Candidates, Queued, Goto, Return, listVars,
           dataVars, lockVars, threadVars
<1>1. CASE Call(w)
  BY <1>1 DEF Call, Create, Acquire, ReleaseCall, UnrefCall
<1>2. CASE Publish(w) \/ Add(w) \/ Count(w) \/ Memory(w)
  BY <1>2 DEF Publish, Add, Count, Memory, MemoryReturn
<1>3. CASE \/ Pop(w) \/ Search(w) \/ PopNothing(w) \/ Take(w) \/ Delete(w) \/ Unlock(w)
           \/ Fail(w)
  BY <1>3 DEF Pop, Search, PopNothing, Take, Delete, Unlock, Fail, MemoryReturn
<1>4. CASE Evict(w) \/ Save(w) \/ Less(w)
  BY <1>4 DEF Evict, Save, Less
<1>5. CASE Loader(w) \/ Load(w) \/ Read(w) \/ Loaded(w)
  BY <1>5 DEF Loader, Load, Read, Loaded
<1>6. CASE Release(w) \/ Requeue(w) \/ Readd(w)
  BY <1>6 DEF Release, Requeue, Readd
<1>7. CASE Unref(w) \/ Dequeue(w) \/ Destroy(w)
  BY <1>7 DEF Unref, Dequeue, Destroy
<1>. QED
  BY <1>1, <1>2, <1>3, <1>4, <1>5, <1>6, <1>7 DEF Step

\* What is evicted is written before its data is unlocked.
LEMMA MissingStoredStep ==
  ASSUME MissingStored, TypeOK, CallsApply, CallsApart, PoppedExist, DataLocked, HeldLoaded,
         EvictedUnused, NEW w \in Thread, Call(w) \/ Step(w)
  PROVE  MissingStored'
<1>. USE ThreadAssumption, TerminalAssumption DEF MissingStored, TypeOK, CallsApply,
           CallsApart, PoppedExist, DataLocked, HeldLoaded, EvictedUnused, LocksData,
           Evicting, Popped, Changing, Requeueing, Taking, Enter, Access, Added, Candidates,
           Queued, Goto, Return, listVars, dataVars, lockVars, threadVars
<1>1. CASE Call(w)
  BY <1>1 DEF Call, Create, Acquire, ReleaseCall, UnrefCall
<1>2. CASE Publish(w) \/ Add(w) \/ Count(w) \/ Memory(w)
  BY <1>2 DEF Publish, Add, Count, Memory, MemoryReturn
<1>3. CASE \/ Pop(w) \/ Search(w) \/ PopNothing(w) \/ Take(w) \/ Delete(w) \/ Unlock(w)
           \/ Fail(w)
  BY <1>3 DEF Pop, Search, PopNothing, Take, Delete, Unlock, Fail, MemoryReturn
<1>4. CASE Evict(w) \/ Save(w) \/ Less(w)
  BY <1>4 DEF Evict, Save, Less
<1>5. CASE Loader(w) \/ Load(w) \/ Read(w) \/ Loaded(w)
  BY <1>5 DEF Loader, Load, Read, Loaded
<1>6. CASE Release(w) \/ Requeue(w) \/ Readd(w)
  BY <1>6 DEF Release, Requeue, Readd
<1>7. CASE Unref(w) \/ Dequeue(w) \/ Destroy(w)
  BY <1>7 DEF Unref, Dequeue, Destroy
<1>. QED
  BY <1>1, <1>2, <1>3, <1>4, <1>5, <1>6, <1>7 DEF Step

\* What leaves the queue is evicted, used or destroyed, and the last user puts it back.
LEMMA UnusedQueuedStep ==
  ASSUME UnusedQueued, TypeOK, CallsApply, CallsApart, PoppedExist, DataLocked,
         EvictedUnused, UsersCounted, NEW w \in Thread, Call(w) \/ Step(w)
  PROVE  UnusedQueued'
<1>. USE ThreadAssumption, TerminalAssumption DEF UnusedQueued, TypeOK, CallsApply,
           CallsApart, PoppedExist, DataLocked, EvictedUnused, UsersCounted, LocksData,
           Evicting, Popped, Changing, Requeueing, Taking, Enter, Access, Added, Candidates,
           Queued, Goto, Return, listVars, dataVars, lockVars, threadVars
<1>1. CASE Call(w)
  BY <1>1 DEF Call, Create, Acquire, ReleaseCall, UnrefCall
<1>2. CASE Publish(w) \/ Add(w) \/ Count(w) \/ Memory(w)
  BY <1>2 DEF Publish, Add, Count, Memory, MemoryReturn
<1>3. CASE \/ Pop(w) \/ Search(w) \/ PopNothing(w) \/ Take(w) \/ Delete(w) \/ Unlock(w)
           \/ Fail(w)
  BY <1>3 DEF Pop, Search, PopNothing, Take, Delete, Unlock, Fail, MemoryReturn
<1>4. CASE Evict(w) \/ Save(w) \/ Less(w)
  BY <1>4 DEF Evict, Save, Less
<1>5. CASE Loader(w) \/ Load(w) \/ Read(w) \/ Loaded(w)
  <2>1. CASE Loader(w) \/ Load(w) \/ Loaded(w)
    BY <2>1 DEF Loader, Load, Loaded
  <2>2. CASE Read(w)
    <3>1. own[w] \in Terminal /\ Counted(w, own[w])
      BY <2>2 DEF Read, Counted, Loading
    <3>2. users[own[w]] # 0
      BY <3>1, InUse
    <3>. QED
      BY <2>2, <3>1, <3>2 DEF Read
  <2>. QED
    BY <1>5, <2>1, <2>2
<1>6. CASE Release(w) \/ Requeue(w) \/ Readd(w)
  BY <1>6 DEF Release, Requeue, Readd
<1>7. CASE Unref(w) \/ Dequeue(w) \/ Destroy(w)
  BY <1>7 DEF Unref, Dequeue, Destroy
<1>. QED
  BY <1>1, <1>2, <1>3, <1>4, <1>5, <1>6, <1>7 DEF Step

-----------------------------------------------------------------------------
(* The theorems *)

\* The invariant holds before anything is created.
LEMMA IInvInit ==
  ASSUME Init
  PROVE  IInv
<1>. USE TerminalAssumption, ThreadAssumption, LimitAssumption DEF Init, Manager
<1>1. TypeOK
  BY DEF TypeOK
<1>2. CallsApply /\ CallsApart /\ PoppedExist
  BY DEF CallsApply, CallsApart, PoppedExist, Changing, Popped
<1>3. UsersCounted
  <2>1. \A t \in Terminal : Users(t) = {}
    BY DEF Users, Counted, Loading, Changing
  <2>. QED
    BY <2>1, FS_EmptySet DEF UsersCounted
<1>4. DataLocked /\ LoadersLocked /\ QueueLocked /\ TornEmpty
  BY DEF DataLocked, LoadersLocked, QueueLocked, TornEmpty, LocksData, Evicting, Requeueing,
         Taking, Loading, Changing
<1>5. EvictedUnused /\ HeldLoaded /\ RequeuedAbsent /\ LoadFindsEmpty
  BY DEF EvictedUnused, HeldLoaded, RequeuedAbsent, LoadFindsEmpty, Evicting, Requeueing,
         Filled, Loading, Changing
<1>6. MissingStored /\ UnusedQueued
  BY DEF MissingStored, UnusedQueued
<1>. QED
  BY <1>1, <1>2, <1>3, <1>4, <1>5, <1>6 DEF IInv

\* Every step of every thread keeps it.
LEMMA IInvStep ==
  ASSUME IInv, NEW w \in Thread, Call(w) \/ Step(w)
  PROVE  IInv'
<1>. USE DEF IInv
<1>1. TypeOK' /\ CallsApply' /\ CallsApart' /\ PoppedExist' /\ UsersCounted'
  BY TypeOKStep, CallsApplyStep, CallsApartStep, PoppedExistStep, UsersCountedStep
<1>2. DataLocked' /\ LoadersLocked' /\ QueueLocked' /\ TornEmpty'
  BY DataLockedStep, LoadersLockedStep, QueueLockedStep, TornEmptyStep
<1>3. EvictedUnused' /\ HeldLoaded' /\ RequeuedAbsent'
  BY EvictedUnusedStep, HeldLoadedStep, RequeuedAbsentStep
<1>4. LoadFindsEmpty' /\ MissingStored' /\ UnusedQueued'
  BY LoadFindsEmptyStep, MissingStoredStep, UnusedQueuedStep
<1>. QED
  BY <1>1, <1>2, <1>3, <1>4

\* As do steps that change nothing.
LEMMA IInvStutter ==
  ASSUME IInv, UNCHANGED vars
  PROVE  IInv'
<1>. USE DEF vars, listVars, dataVars, lockVars, threadVars, IInv
<1>1. TypeOK' /\ CallsApply' /\ CallsApart' /\ PoppedExist'
  BY DEF TypeOK, CallsApply, CallsApart, PoppedExist, Changing, Popped
<1>2. UsersCounted'
  <2>1. \A t \in Terminal : Users(t)' = Users(t)
    BY DEF Users, Counted, Loading, Changing
  <2>2. \A v \in Thread, t \in Terminal : Counted(v, t)' <=> Counted(v, t)
    BY DEF Counted, Loading, Changing
  <2>. QED
    BY <2>1, <2>2 DEF UsersCounted, TypeOK
<1>3. DataLocked' /\ LoadersLocked' /\ QueueLocked' /\ TornEmpty'
  BY DEF DataLocked, LoadersLocked, QueueLocked, TornEmpty, Inside, LocksData, Evicting,
         Requeueing, Taking, Loading, Changing, ManagerOf
<1>4. EvictedUnused' /\ HeldLoaded' /\ RequeuedAbsent' /\ LoadFindsEmpty'
  BY DEF EvictedUnused, HeldLoaded, RequeuedAbsent, LoadFindsEmpty, Evicting, Requeueing,
         Filled, Loading, Changing
<1>5. MissingStored' /\ UnusedQueued'
  BY DEF MissingStored, UnusedQueued
<1>. QED
  BY <1>1, <1>2, <1>3, <1>4, <1>5

\* The inductive invariant holds in every state of every behaviour.
THEOREM Invariance == SafeSpec => []IInv
<1>1. Init => IInv
  BY IInvInit
<1>2. IInv /\ [Next]_vars => IInv'
  BY IInvStep, IInvStutter DEF Next, Finished
<1>. QED
  BY <1>1, <1>2, PTL DEF SafeSpec

\* Every variable keeps its type: TerminalData.refcount is never decreased below zero,
\* and the usage stays in its word.
THEOREM TypeCorrect == SafeSpec => []TypeOK
<1>1. IInv => TypeOK
  BY DEF IInv
<1>. QED
  BY <1>1, Invariance, PTL

\* What qs_terminal_acquire returned stays in memory until it is released, though the
\* mutex of the queue may be unlocked by a thread that does not hold it and the list be
\* torn.
THEOREM AcquiredStaysLoaded == SafeSpec => []InUseLoaded
<1>1. IInv => InUseLoaded
  BY DEF IInv, HeldLoaded, InUseLoaded
<1>. QED
  BY <1>1, Invariance, PTL

\* Whoever finds a coefficient missing can load it from storage.
THEOREM MissingCanBeLoaded == SafeSpec => []LoadsStored
<1>1. IInv => LoadsStored
  BY ThreadAssumption
     DEF IInv, CallsApply, DataLocked, LocksData, Taking, Evicting, MissingStored,
         LoadFindsEmpty, LoadsStored
<1>. QED
  BY <1>1, Invariance, PTL

\* The assertion of qs_terminal_load: a coefficient is loaded by one thread only.
THEOREM LoadedOnce == SafeSpec => []LoadFindsEmpty
<1>1. IInv => LoadFindsEmpty
  BY DEF IInv
<1>. QED
  BY <1>1, Invariance, PTL

\* A coefficient nobody uses is in the queue of the manager, as long as no two threads have
\* met in the list.
THEOREM UnusedCanBeEvicted == SafeSpec => []Evictable
<1>1. IInv => Evictable
  BY DEF IInv, CallsApply, CallsApart, UnusedQueued, Evictable
<1>. QED
  BY <1>1, Invariance, PTL

-----------------------------------------------------------------------------
(* Waiting *)

\* Who has locked its target waits for nobody.
LEMMA TakingWaitsNot ==
  ASSUME NEW w \in Thread, Taking(w)
  PROVE  WaitsFor(w) = None
BY DEF Taking, Evicting, WaitsFor

\* The holder of the queue's mutex waits for nobody but a thread that has locked the same
\* target: the target is in the queue and so no thread is putting it back.
LEMMA QueueHolderWaits ==
  ASSUME IInv, list = "whole", qlock # None, WaitsFor(qlock) # None
  PROVE  WaitsFor(qlock) \in Thread /\ Taking(WaitsFor(qlock))
<1>. DEFINE t == target[qlock]
<1>0. ~Inside(qlock)
  BY DEF Inside, WaitsFor
<1>1. qlock \in Thread /\ pc[qlock] = "take" /\ t \in queue /\ t \in Terminal
  BY <1>0 DEF IInv, TypeOK, QueueLocked
<1>2. WaitsFor(qlock) = dlock[t] /\ dlock[t] \in Thread
  BY <1>1 DEF WaitsFor, IInv, TypeOK
<1>3. LocksData(dlock[t], t)
  BY <1>1, <1>2 DEF IInv, DataLocked
<1>. QED
  BY <1>1, <1>2, <1>3 DEF LocksData, Requeueing, IInv, RequeuedAbsent

\* The holder of a data lock waits for nobody or for the mutex of the queue.
LEMMA DataHolderWaits ==
  ASSUME IInv, NEW t \in Terminal, dlock[t] # None, WaitsFor(dlock[t]) # None
  PROVE  WaitsFor(dlock[t]) = qlock
<1>1. dlock[t] \in Thread
  BY DEF IInv, TypeOK
<1>2. LocksData(dlock[t], t)
  BY <1>1 DEF IInv, DataLocked
<1>. QED
  BY <1>1, <1>2, TakingWaitsNot DEF LocksData, Requeueing, WaitsFor

\* The holder of a loaders' lock waits for the queue or for the data of a terminal.
LEMMA LoadHolderWaits ==
  ASSUME IInv, NEW m \in Manager, loadlock[m] # None, WaitsFor(loadlock[m]) # None
  PROVE  \/ WaitsFor(loadlock[m]) = qlock
         \/ \E t \in Terminal : WaitsFor(loadlock[m]) = dlock[t]
<1>. DEFINE w == loadlock[m]
<1>1. w \in Thread /\ Loading(w)
  BY DEF IInv, TypeOK, LoadersLocked
<1>2. pc[w] = "take" => target[w] \in Terminal
  BY <1>1 DEF IInv, PoppedExist, Popped
<1>3. own[w] \in Terminal
  BY <1>1 DEF IInv, CallsApply, Loading, Changing
<1>. QED
  BY <1>1, <1>2, <1>3 DEF WaitsFor, Loading, Changing

\* Any other thread waits for one of these.
LEMMA Waits ==
  ASSUME IInv, NEW w \in Thread, WaitsFor(w) # None
  PROVE  \/ WaitsFor(w) = qlock
         \/ \E t \in Terminal : WaitsFor(w) = dlock[t]
         \/ \E m \in Manager : WaitsFor(w) = loadlock[m]
<1>1. pc[w] = "take" => target[w] \in Terminal
  BY DEF IInv, PoppedExist, Popped
<1>2. pc[w] # "idle" => own[w] \in Terminal
  BY DEF IInv, CallsApply
<1>3. ManagerOf(own[w]) \in Manager
  BY DEF Manager, ManagerOf
<1>. QED
  BY <1>1, <1>2, <1>3 DEF WaitsFor

\* While the list is whole the locks are taken in an order: a set of threads each of which
\* waits for one of them would lead from the lock of a loader to that of some data, from
\* there to the queue's and on to a thread that evicts, which waits for nobody.
THEOREM LocksInOrder == SafeSpec => []NoLockCycle
<1>1. ASSUME IInv, list = "whole", NEW S \in SUBSET Thread, S # {},
             \A w \in S : WaitsFor(w) \in S
      PROVE  FALSE
  <2>1. \A w \in S : WaitsFor(w) # None
    BY <1>1, ThreadAssumption
  <2>2. qlock \notin S
    <3>1. SUFFICES ASSUME qlock \in S PROVE FALSE
      OBVIOUS
    <3>2. WaitsFor(qlock) \in S /\ qlock # None /\ WaitsFor(qlock) # None
      BY <1>1, <2>1, <3>1, ThreadAssumption
    <3>3. WaitsFor(qlock) \in Thread /\ Taking(WaitsFor(qlock))
      BY <1>1, <3>2, QueueHolderWaits
    <3>. QED
      BY <2>1, <3>2, <3>3, TakingWaitsNot
  <2>3. \A t \in Terminal : dlock[t] \notin S
    <3>1. SUFFICES ASSUME NEW t \in Terminal, dlock[t] \in S PROVE FALSE
      OBVIOUS
    <3>2. WaitsFor(dlock[t]) \in S /\ dlock[t] # None /\ WaitsFor(dlock[t]) # None
      BY <1>1, <2>1, <3>1, ThreadAssumption
    <3>. QED
      BY <1>1, <2>2, <3>2, DataHolderWaits
  <2>4. \A m \in Manager : loadlock[m] \notin S
    <3>1. SUFFICES ASSUME NEW m \in Manager, loadlock[m] \in S PROVE FALSE
      OBVIOUS
    <3>2. WaitsFor(loadlock[m]) \in S /\ loadlock[m] # None /\ WaitsFor(loadlock[m]) # None
      BY <1>1, <2>1, <3>1, ThreadAssumption
    <3>. QED
      BY <1>1, <2>2, <2>3, <3>2, LoadHolderWaits
  <2>. QED
    BY <1>1, <2>1, <2>2, <2>3, <2>4, Waits
<1>2. IInv => NoLockCycle
  <2>1. SUFFICES ASSUME IInv, list = "whole", NEW S \in (SUBSET Thread) \ {{}},
                        ~\E w \in S : WaitsFor(w) \notin S
                 PROVE  FALSE
    BY DEF NoLockCycle
  <2>2. S \in SUBSET Thread /\ S # {} /\ \A w \in S : WaitsFor(w) \in S
    BY <2>1
  <2>. QED
    BY <1>1, <2>1, <2>2
<1>. QED
  BY <1>2, Invariance, PTL

-----------------------------------------------------------------------------
(* The numbers of coefficients (CoefficientId): no number is given twice, and what is   *)
(* loaded is what was saved, for every word and every number of coefficients.           *)

\* What makes UniqueIds inductive: the counters are exact, so that what generate_id
\* asserts of them is that a half is unused.
IdInv == IdTypeOK /\ CountsExact /\ HalfUnused /\ UniqueIds /\ LoadsOwn

\* Sets of coefficients are finite.
LEMMA CoefficientsFinite ==
  ASSUME NEW S, S \subseteq Coefficient
  PROVE  IsFiniteSet(S) /\ Cardinality(S) \in Nat
BY FS_Subset, FS_CardinalityType, CoefficientAssumption

\* A counter at zero means that no number of its half is in use.
LEMMA ZeroMeansUnused ==
  ASSUME IdTypeOK, CountsExact
  PROVE  (nLow = 0 => Lows = {}) /\ (nHigh = 0 => Highs = {})
<1>1. Lows \subseteq Coefficient /\ Highs \subseteq Coefficient
  BY DEF Lows, Highs, Live
<1> QED
  BY <1>1, CoefficientsFinite, FS_EmptySet DEF CountsExact

\* The number that is given is in the word and not the last of it.
LEMMA NextIdType ==
  ASSUME IdTypeOK
  PROVE  NextId \in Nat /\ NextId < MaxHigh /\ NextId + 1 \in UID /\ NextId \in UID
BY WordAssumption, SMT DEF IdTypeOK, NextId, UID, MaxHigh

\* Who generates a number is added to one half and leaves the other alone.
LEMMA GenerateHalves ==
  ASSUME IdTypeOK, NEW c \in Coefficient, Generate(c)
  PROVE  /\ NextId <= MaxLow => Lows' = Lows \cup {c} /\ Highs' = Highs
         /\ NextId > MaxLow  => Highs' = Highs \cup {c} /\ Lows' = Lows
         /\ c \notin Lows /\ c \notin Highs
<1>1. uid'[c] = NextId /\ \A d \in Coefficient : d # c => uid'[d] = uid[d]
  BY DEF IdTypeOK, Generate
<1>2. NextId # Nothing
  BY NextIdType, NothingAssumption
<1>3. uid[c] = Nothing
  BY DEF Generate
<1> QED
  BY <1>1, <1>2, <1>3, NextIdType, WordAssumption DEF Lows, Highs, Live, Low

\* Who drops its number is removed from its half.
LEMMA DropHalves ==
  ASSUME IdTypeOK, NEW c \in Coefficient, Drop(c)
  PROVE  Lows' = Lows \ {c} /\ Highs' = Highs \ {c} /\ c \in Live
<1>1. uid'[c] = Nothing /\ \A d \in Coefficient : d # c => uid'[d] = uid[d]
  BY DEF IdTypeOK, Drop
<1>2. c \in Live
  BY DEF Drop
<1> QED
  BY <1>1, <1>2 DEF Lows, Highs, Live, Low

LEMMA GenerateKeeps ==
  ASSUME IdInv, NEW c \in Coefficient, Generate(c)
  PROVE  IdInv'
<1> USE DEF IdInv
<1>0. NextId \in Nat /\ NextId < MaxHigh /\ NextId + 1 \in UID /\ NextId \in UID
  BY NextIdType
<1>1. IdTypeOK'
  <2>1. uid' \in [Coefficient -> UID \cup {Nothing}]
    BY <1>0 DEF IdTypeOK, Generate
  <2>2. inStorage' \subseteq Live'
    BY <1>0, NothingAssumption DEF IdTypeOK, Generate, Live
  <2> QED
    BY <1>0, <2>1, <2>2 DEF IdTypeOK, Generate
<1>2. CountsExact'
  <2>0. /\ IsFiniteSet(Lows) /\ Cardinality(Lows) \in Nat
        /\ IsFiniteSet(Highs) /\ Cardinality(Highs) \in Nat
    BY CoefficientsFinite DEF Lows, Highs, Live
  <2>1. CASE NextId <= MaxLow
    <3>1. Cardinality(Lows') = Cardinality(Lows) + 1
      BY <2>0, <2>1, GenerateHalves, FS_AddElement
    <3> QED
      BY <2>1, <3>1, GenerateHalves DEF CountsExact, Generate
  <2>2. CASE NextId > MaxLow
    <3>1. Cardinality(Highs') = Cardinality(Highs) + 1
      BY <2>0, <2>2, GenerateHalves, FS_AddElement
    <3> QED
      BY <1>0, <2>2, <3>1, GenerateHalves, WordAssumption DEF CountsExact, Generate
  <2> QED
    BY <1>0, <2>1, <2>2, WordAssumption
<1>3. /\ uid'[c] = NextId /\ currentId' = NextId + 1
      /\ \A d \in Coefficient : d # c => uid'[d] = uid[d]
      /\ Live' = Live \cup {c} /\ c \notin Live
  BY <1>0, NothingAssumption DEF IdTypeOK, Generate, Live
<1>4. \A d \in Live : uid[d] \in Nat
  BY NothingAssumption, WordAssumption DEF IdTypeOK, Live, UID, MaxHigh
<1>5. \A d \in Live : (Low(d) <=> NextId <= MaxLow) => uid[d] < NextId
  \* The half of the next number is used only below it, or not at all where it begins.
  <2>1. CASE currentId = MaxHigh
    BY <2>1, <1>4, ZeroMeansUnused, WordAssumption DEF Generate, Asserted, NextId, MaxHigh, Lows
  <2>2. CASE currentId # MaxHigh
    BY <2>2, <1>4 DEF HalfUnused, NextId
  <2> QED
    BY <2>1, <2>2
<1>6. HalfUnused'
  <2> SUFFICES ASSUME NEW d \in Live', (Low(d)' <=> currentId' <= MaxLow)
               PROVE  uid'[d] < currentId'
    BY DEF HalfUnused
  <2>1. CASE d = c
    BY <1>0, <1>3, <2>1
  <2>2. CASE d # c
    <3>1. d \in Live /\ uid'[d] = uid[d] /\ Low(d)' = Low(d) /\ uid[d] \in Nat
      BY <1>3, <1>4, <2>2 DEF Low, Live
    <3>2. CASE NextId = MaxLow
      \* The upper half is entered with the next number, and nothing of it is in use.
      <4>1. Low(d)
        BY <3>1, <3>2, ZeroMeansUnused DEF Generate, Asserted, Highs
      <4> QED
        BY <1>3, <3>1, <3>2, <4>1, WordAssumption
    <3>3. CASE NextId # MaxLow
      <4>1. NextId <= MaxLow <=> currentId' <= MaxLow
        BY <1>0, <1>3, <3>3, WordAssumption
      <4> QED
        BY <1>0, <1>3, <1>5, <3>1, <4>1
    <3> QED
      BY <3>2, <3>3
  <2> QED
    BY <2>1, <2>2
<1>7. UniqueIds'
  <2>1. \A d \in Live : uid[d] # NextId
    BY <1>0, <1>4, <1>5, WordAssumption DEF Low
  <2> QED
    BY <1>3, <2>1 DEF UniqueIds, Live
<1>8. LoadsOwn'
  BY <1>3 DEF LoadsOwn, Found, Generate, IdTypeOK, Live
<1> QED
  BY <1>1, <1>2, <1>6, <1>7, <1>8

LEMMA DropKeeps ==
  ASSUME IdInv, NEW c \in Coefficient, Drop(c)
  PROVE  IdInv'
<1> USE DEF IdInv
<1>0. /\ IsFiniteSet(Lows) /\ Cardinality(Lows) \in Nat
      /\ IsFiniteSet(Highs) /\ Cardinality(Highs) \in Nat
  BY CoefficientsFinite DEF Lows, Highs, Live
<1>1. /\ uid'[c] = Nothing /\ \A d \in Coefficient : d # c => uid'[d] = uid[d]
      /\ Live' = Live \ {c} /\ currentId' = currentId
  BY DEF IdTypeOK, Drop, Live
<1>2. CountsExact' /\ nLow' \in Nat /\ nHigh' \in Nat
  <2>1. CASE Low(c)
    <3>1. c \in Lows /\ c \notin Highs
      BY <2>1, DropHalves DEF Lows, Highs
    <3>2. Cardinality(Lows') = Cardinality(Lows) - 1 /\ Cardinality(Highs') = Cardinality(Highs)
      BY <1>0, <3>1, DropHalves, FS_RemoveElement
    <3>3. Cardinality(Lows) # 0
      BY <1>0, <3>1, FS_EmptySet
    <3> QED
      BY <1>0, <2>1, <3>2, <3>3 DEF CountsExact, Drop
  <2>2. CASE ~Low(c)
    <3>1. c \in Highs /\ c \notin Lows
      BY <2>2, DropHalves DEF Lows, Highs
    <3>2. Cardinality(Highs') = Cardinality(Highs) - 1 /\ Cardinality(Lows') = Cardinality(Lows)
      BY <1>0, <3>1, DropHalves, FS_RemoveElement
    <3>3. Cardinality(Highs) # 0
      BY <1>0, <3>1, FS_EmptySet
    <3> QED
      BY <1>0, <2>2, <3>2, <3>3 DEF CountsExact, Drop
  <2> QED
    BY <2>1, <2>2
<1>3. IdTypeOK'
  BY <1>1, <1>2 DEF IdTypeOK, Drop
<1>4. HalfUnused'
  BY <1>1 DEF HalfUnused, Low, Live
<1>5. UniqueIds'
  BY <1>1 DEF UniqueIds, Live
<1>6. LoadsOwn'
  BY <1>1 DEF LoadsOwn, Found, Drop, IdTypeOK, Live
<1> QED
  BY <1>2, <1>3, <1>4, <1>5, <1>6

\* Saving writes under a number nobody else uses.
LEMMA SaveKeeps ==
  ASSUME IdInv, NEW c \in Coefficient, SaveValue(c)
  PROVE  IdInv'
<1> USE DEF IdInv
<1>1. uid[c] \in UID /\ c \in Live
  BY DEF SaveValue, IdTypeOK, Live
<1>2. IdTypeOK'
  BY <1>1 DEF SaveValue, IdTypeOK, counters, Live
<1>3. Live' = Live /\ Lows' = Lows /\ Highs' = Highs
  BY DEF SaveValue, Live, Lows, Highs, Low
<1>4. LoadsOwn'
  BY <1>1 DEF LoadsOwn, Found, SaveValue, IdTypeOK, UniqueIds, Live
<1> QED
  BY <1>2, <1>3, <1>4 DEF CountsExact, HalfUnused, UniqueIds, SaveValue, counters, Low

\* The rest changes neither numbers nor the storage.
LEMMA OthersKeep ==
  ASSUME IdInv, GenerateFails \/ IdEnded \/ \E c \in Coefficient : LoadValue(c)
  PROVE  IdInv'
<1>1. /\ uid' = uid /\ storage' = storage /\ inStorage' \subseteq inStorage
      /\ currentId' = currentId /\ nLow' = nLow /\ nHigh' = nHigh /\ failed' \in BOOLEAN
  BY DEF GenerateFails, IdEnded, LoadValue, idVars, counters, IdInv, IdTypeOK
<1>2. Live' = Live /\ Lows' = Lows /\ Highs' = Highs
  BY <1>1 DEF Live, Lows, Highs, Low
<1> QED
  BY <1>1, <1>2 DEF IdInv, IdTypeOK, CountsExact, HalfUnused, UniqueIds, LoadsOwn, Found, Low

\* The invariant of generate_id, drop_id and the storage.
THEOREM InvariantHolds == IdSpec => []IdInv
<1>1. IdInit => IdInv
  <2> SUFFICES ASSUME IdInit PROVE IdInv
    OBVIOUS
  <2>1. Live = {} /\ Lows = {} /\ Highs = {}
    BY DEF IdInit, Live, Lows, Highs
  <2>2. IdTypeOK
    <3>1. 0 \in UID
      BY WordAssumption DEF UID, MaxHigh
    <3> QED
      BY <3>1 DEF IdInit, IdTypeOK
  <2>3. CountsExact
    BY <2>1, FS_EmptySet DEF IdInit, CountsExact
  <2> QED
    BY <2>1, <2>2, <2>3 DEF IdInit, IdInv, HalfUnused, UniqueIds, LoadsOwn
<1>2. IdInv /\ [IdNext]_idVars => IdInv'
  <2> SUFFICES ASSUME IdInv, [IdNext]_idVars PROVE IdInv'
    OBVIOUS
  <2>1. CASE UNCHANGED idVars
    BY <2>1 DEF idVars, counters, IdInv, IdTypeOK, CountsExact, HalfUnused, UniqueIds, LoadsOwn,
                Found, Live, Lows, Highs, Low
  <2> QED
    BY <2>1, GenerateKeeps, DropKeeps, SaveKeeps, OthersKeep DEF IdNext
<1> QED
  BY <1>1, <1>2, PTL DEF IdSpec

\* No two coefficients in use ever have the same number (generate_id, drop_id).
THEOREM NumbersUnique == IdSpec => []UniqueIds
<1>1. IdInv => UniqueIds
  BY DEF IdInv
<1> QED
  BY <1>1, InvariantHolds, PTL

\* terminal_loader finds what terminal_saver wrote for this coefficient.
THEOREM OwnValuesLoaded == IdSpec => []LoadsOwn
<1>1. IdInv => LoadsOwn
  BY DEF IdInv
<1> QED
  BY <1>1, InvariantHolds, PTL
=============================================================================
