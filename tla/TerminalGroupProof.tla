------------------------- MODULE TerminalGroupProof -------------------------
(***************************************************************************)
(* Proofs about TerminalGroup, for every number of terminals and groups:   *)
(* IInv is inductive, and a group is neither touched after it was freed    *)
(* nor left behind, and a pop after a wait finds a target.                 *)
(***************************************************************************)
EXTENDS TerminalGroup, FiniteSetTheorems, TLAPS

\* Terminals are finitely many, and so is every set of them.
LEMMA SubsetsFinite ==
  ASSUME NEW S, S \subseteq Terminal
  PROVE  IsFiniteSet(S) /\ Cardinality(S) \in Nat
BY FS_Subset, FS_CardinalityType, TerminalAssumption

\* The holders and the targets of a group can be counted.
LEMMA HoldersFinite ==
  ASSUME TypeOK, NEW g \in Group
  PROVE  /\ IsFiniteSet(Holders(g)) /\ Cardinality(Holders(g)) \in Nat
         /\ IsFiniteSet(targets[g]) /\ n_targets(g) \in Nat
BY SubsetsFinite DEF Holders, n_targets, TypeOK

\* While no target has its value, each of them holds a reference.
LEMMA NoneFinishedCounts ==
  ASSUME IInv, NEW g \in Group, glife[g] = "live",
         fpc # "clear", \A t \in targets[g] : ~is_result[t]
  PROVE  refcount[g] >= n_targets(g) + 1
<1>1. targets[g] \subseteq Holders(g)
  BY DEF IInv, Registered, Holders, TypeOK
<1>2. n_targets(g) <= Cardinality(Holders(g))
  BY <1>1, FS_Subset, HoldersFinite DEF n_targets, IInv
<1> QED
  BY <1>2, HoldersFinite DEF IInv, RefcountExact

\* A new group belongs to the frontend alone.
LEMMA NewKeeps ==
  ASSUME IInv, NEW g \in Group, New(g)
  PROVE  IInv'
<1>0. /\ \A h \in Group : Holders(h)' = Holders(h)
      /\ Holders(g) = {} /\ targets[g] = {}
  BY GroupAssumption DEF IInv, TypeOK, Holders, Workers, Notifying, NoUseAfterFree, Registered, New,
     targetVars, workerVars, groupVars, frontVars
<1>e. Cardinality(Holders(g)) = 0 /\ n_targets(g) = 0
  BY <1>0, FS_EmptySet DEF n_targets
<1>1. TypeOK'
  BY DEF IInv, TypeOK, New, targetVars, workerVars, groupVars, frontVars
<1>2. Workers'
  BY DEF IInv, TypeOK, Workers, Notifying, New, targetVars, workerVars, groupVars, frontVars
<1>3. Locks'
  BY FrontAssumption, TerminalAssumption, GroupAssumption DEF IInv, TypeOK, Workers, Locks, Notifying, New, targetVars, workerVars, groupVars, frontVars
<1>4. Registered'
  BY DEF IInv, TypeOK, Registered, Workers, Locks, NoUseAfterFree, New, targetVars, workerVars, groupVars, frontVars
<1>5. RefcountExact'
<2>1. /\ refcount'[g] = 1 /\ glife'[g] = "live"
        /\ \A h \in Group : h # g => refcount'[h] = refcount[h] /\ glife'[h] = glife[h]
    BY DEF New, IInv, TypeOK
<2>2. Cardinality(Holders(g)') = 0
    BY <1>0, <1>e
<2>3. \A h \in Group : Cardinality(Holders(h)') = Cardinality(Holders(h))
    BY <1>0
<2> QED
    BY <2>1, <2>2, <2>3 DEF IInv, RefcountExact
<1>6. NoUseAfterFree'
  BY DEF IInv, TypeOK, NoUseAfterFree, Workers, Notifying, Locks, New, targetVars, workerVars, groupVars, frontVars
<1>7. LastAlone'
  BY DEF IInv, TypeOK, LastAlone, LastWorker, LastFront, Workers, Notifying, Locks, New, targetVars, workerVars, groupVars, frontVars
<1>8. NoLeak'
  BY <1>0, HoldersFinite DEF IInv, TypeOK, NoLeak, Locks, Workers, Notifying, New, targetVars, workerVars, groupVars, frontVars
<1>9. CountBounded'
  BY <1>e DEF IInv, TypeOK, CountBounded, n_targets, New, frontVars
<1>10. ScanAhead'
  BY DEF IInv, TypeOK, ScanAhead, Locks, New, targetVars, workerVars, groupVars, frontVars
<1>11. SleepsForASignal'
  BY <1>0, HoldersFinite DEF IInv, TypeOK, SleepsForASignal, NoneFinished, n_targets, Locks, New, targetVars, workerVars, groupVars, frontVars
<1> QED
  BY <1>1, <1>2, <1>3, <1>4, <1>5, <1>6, <1>7, <1>8, <1>9, <1>10, <1>11 DEF IInv

\* A push registers and counts a pending target, and takes one with a result as it is.
LEMMA PushTargetKeeps ==
  ASSUME IInv, NEW g \in Group, NEW t \in Terminal, PushTarget(g, t)
  PROVE  IInv'
<1>0. /\ \A h \in Group : h # g => Holders(h)' = Holders(h)
      /\ t \notin targets[g]
      /\ IF is_result[t] THEN Holders(g)' = Holders(g)
                         ELSE Holders(g)' = Holders(g) \cup {t} /\ t \notin Holders(g)
  BY DEF IInv, TypeOK, Holders, Workers, Registered, PushTarget, workerVars
<1>c. Cardinality(targets[g] \cup {t}) = n_targets(g) + 1
  BY <1>0, FS_AddElement, HoldersFinite DEF IInv, n_targets
<1>d. ~is_result[t] => Cardinality(Holders(g)') = Cardinality(Holders(g)) + 1
  BY <1>0, FS_AddElement, HoldersFinite DEF IInv
<1>1. TypeOK'
  BY DEF IInv, TypeOK, PushTarget, targetVars, workerVars, groupVars, frontVars
<1>2. Workers'
  BY DEF IInv, TypeOK, Workers, Notifying, PushTarget, targetVars, workerVars, groupVars, frontVars
<1>3. Locks'
  BY FrontAssumption, TerminalAssumption, GroupAssumption DEF IInv, TypeOK, Workers, Locks, Notifying, PushTarget, targetVars, workerVars, groupVars, frontVars
<1>4. Registered'
  BY DEF IInv, TypeOK, Registered, Workers, Locks, NoUseAfterFree, PushTarget, targetVars, workerVars, groupVars, frontVars
<1>5. RefcountExact'
  BY <1>0, <1>d, HoldersFinite DEF IInv, TypeOK, RefcountExact, PushTarget, frontVars
<1>6. NoUseAfterFree'
  BY DEF IInv, TypeOK, NoUseAfterFree, Workers, Notifying, Locks, PushTarget, targetVars, workerVars, groupVars, frontVars
<1>7. LastAlone'
  BY DEF IInv, TypeOK, LastAlone, LastWorker, LastFront, Workers, Notifying, Locks, PushTarget, targetVars, workerVars, groupVars, frontVars
<1>8. NoLeak'
  BY <1>0 DEF IInv, TypeOK, NoLeak, PushTarget, workerVars, frontVars
<1>9. CountBounded'
  BY <1>c, HoldersFinite DEF IInv, TypeOK, CountBounded, n_targets, PushTarget, frontVars
<1>10. ScanAhead'
  BY DEF IInv, TypeOK, ScanAhead, Locks, PushTarget, targetVars, workerVars, groupVars, frontVars
<1>11. SleepsForASignal'
  BY <1>0, HoldersFinite DEF IInv, TypeOK, SleepsForASignal, NoneFinished, n_targets, Locks, PushTarget, targetVars, workerVars, groupVars, frontVars
<1> QED
  BY <1>1, <1>2, <1>3, <1>4, <1>5, <1>6, <1>7, <1>8, <1>9, <1>10, <1>11 DEF IInv

\* The calls that only note where the frontend is.
LEMMA WaitCallKeeps ==
  ASSUME IInv, NEW g \in Group, WaitCall(g)
  PROVE  IInv'
<1>0. \A h \in Group : Holders(h)' = Holders(h)
  BY DEF IInv, TypeOK, Holders, Workers, WaitCall, targetVars, workerVars, groupVars, frontVars
<1>1. TypeOK'
  BY DEF IInv, TypeOK, WaitCall, targetVars, workerVars, groupVars, frontVars
<1>2. Workers'
  BY DEF IInv, TypeOK, Workers, Notifying, WaitCall, targetVars, workerVars, groupVars, frontVars
<1>3. Locks'
  BY FrontAssumption, TerminalAssumption, GroupAssumption DEF IInv, TypeOK, Workers, Locks, Notifying, WaitCall, targetVars, workerVars, groupVars, frontVars
<1>4. Registered'
  BY DEF IInv, TypeOK, Registered, Workers, Locks, NoUseAfterFree, WaitCall, targetVars, workerVars, groupVars, frontVars
<1>5. RefcountExact'
  BY <1>0, HoldersFinite DEF IInv, TypeOK, RefcountExact, WaitCall, targetVars, workerVars, groupVars, frontVars
<1>6. NoUseAfterFree'
  BY DEF IInv, TypeOK, NoUseAfterFree, Workers, Notifying, Locks, WaitCall, targetVars, workerVars, groupVars, frontVars
<1>7. LastAlone'
  BY DEF IInv, TypeOK, LastAlone, LastWorker, LastFront, Workers, Notifying, Locks, WaitCall, targetVars, workerVars, groupVars, frontVars
<1>8. NoLeak'
  BY <1>0, HoldersFinite DEF IInv, TypeOK, NoLeak, Locks, Workers, Notifying, WaitCall, targetVars, workerVars, groupVars, frontVars
<1>9. CountBounded'
  BY DEF IInv, TypeOK, CountBounded, n_targets, WaitCall, targetVars, workerVars, groupVars, frontVars
<1>10. ScanAhead'
  BY DEF IInv, TypeOK, ScanAhead, Locks, WaitCall, targetVars, workerVars, groupVars, frontVars
<1>11. SleepsForASignal'
  BY <1>0, HoldersFinite DEF IInv, TypeOK, SleepsForASignal, NoneFinished, n_targets, Locks, WaitCall, targetVars, workerVars, groupVars, frontVars
<1> QED
  BY <1>1, <1>2, <1>3, <1>4, <1>5, <1>6, <1>7, <1>8, <1>9, <1>10, <1>11 DEF IInv

\* The frontend goes to sleep when no target has finished.
LEMMA WaitKeeps ==
  ASSUME IInv, Wait
  PROVE  IInv'
<1>0. \A h \in Group : Holders(h)' = Holders(h)
  BY DEF IInv, TypeOK, Holders, Workers, Wait, targetVars, workerVars, groupVars, frontVars
<1>1. TypeOK'
  BY DEF IInv, TypeOK, Wait, targetVars, workerVars, groupVars, frontVars
<1>2. Workers'
  BY DEF IInv, TypeOK, Workers, Notifying, Wait, targetVars, workerVars, groupVars, frontVars
<1>3. Locks'
  BY FrontAssumption, TerminalAssumption, GroupAssumption DEF IInv, TypeOK, Workers, Locks, Notifying, Wait, targetVars, workerVars, groupVars, frontVars
<1>4. Registered'
  BY DEF IInv, TypeOK, Registered, Workers, Locks, NoUseAfterFree, Wait, targetVars, workerVars, groupVars, frontVars
<1>5. RefcountExact'
  BY <1>0, HoldersFinite DEF IInv, TypeOK, RefcountExact, Wait, targetVars, workerVars, groupVars, frontVars
<1>6. NoUseAfterFree'
  BY DEF IInv, TypeOK, NoUseAfterFree, Workers, Notifying, Locks, Wait, targetVars, workerVars, groupVars, frontVars
<1>7. LastAlone'
  BY DEF IInv, TypeOK, LastAlone, LastWorker, LastFront, Workers, Notifying, Locks, Wait, targetVars, workerVars, groupVars, frontVars
<1>8. NoLeak'
  BY <1>0, HoldersFinite DEF IInv, TypeOK, NoLeak, Locks, Workers, Notifying, Wait, targetVars, workerVars, groupVars, frontVars
<1>9. CountBounded'
  BY DEF IInv, TypeOK, CountBounded, n_targets, Wait, targetVars, workerVars, groupVars, frontVars
<1>10. ScanAhead'
  BY DEF IInv, TypeOK, ScanAhead, Locks, Wait, targetVars, workerVars, groupVars, frontVars
<1>11. SleepsForASignal'
<2> SUFFICES ASSUME targets[fgroup] # {}, NoneFinished(fgroup)
               PROVE  NoneFinished(fgroup)' /\ Holders(fgroup)' # {}
    BY DEF Wait, SleepsForASignal
<2>1. fgroup \in Group /\ glife[fgroup] = "live"
    BY DEF IInv, Locks, NoUseAfterFree, Wait
<2>2. n_targets(fgroup) = Cardinality(Holders(fgroup))
    BY <2>1, HoldersFinite DEF IInv, RefcountExact, NoneFinished
<2>3. Holders(fgroup) # {}
    BY <2>1, <2>2, HoldersFinite, FS_EmptySet DEF IInv, n_targets
<2> QED
    BY <1>0, <2>1, <2>3 DEF Wait, NoneFinished, n_targets, groupVars
<1> QED
  BY <1>1, <1>2, <1>3, <1>4, <1>5, <1>6, <1>7, <1>8, <1>9, <1>10, <1>11 DEF IInv

\* A wake up changes nothing.
LEMMA SpuriousWakeKeeps ==
  ASSUME IInv, SpuriousWake
  PROVE  IInv'
<1>0. \A h \in Group : Holders(h)' = Holders(h)
  BY DEF IInv, TypeOK, Holders, Workers, SpuriousWake, targetVars, workerVars, groupVars, frontVars
<1>1. TypeOK'
  BY DEF IInv, TypeOK, SpuriousWake, targetVars, workerVars, groupVars, frontVars
<1>2. Workers'
  BY DEF IInv, TypeOK, Workers, Notifying, SpuriousWake, targetVars, workerVars, groupVars, frontVars
<1>3. Locks'
  BY FrontAssumption, TerminalAssumption, GroupAssumption DEF IInv, TypeOK, Workers, Locks, Notifying, SpuriousWake, targetVars, workerVars, groupVars, frontVars
<1>4. Registered'
  BY DEF IInv, TypeOK, Registered, Workers, Locks, NoUseAfterFree, SpuriousWake, targetVars, workerVars, groupVars, frontVars
<1>5. RefcountExact'
  BY <1>0, HoldersFinite DEF IInv, TypeOK, RefcountExact, SpuriousWake, targetVars, workerVars, groupVars, frontVars
<1>6. NoUseAfterFree'
  BY DEF IInv, TypeOK, NoUseAfterFree, Workers, Notifying, Locks, SpuriousWake, targetVars, workerVars, groupVars, frontVars
<1>7. LastAlone'
  BY DEF IInv, TypeOK, LastAlone, LastWorker, LastFront, Workers, Notifying, Locks, SpuriousWake, targetVars, workerVars, groupVars, frontVars
<1>8. NoLeak'
  BY <1>0, HoldersFinite DEF IInv, TypeOK, NoLeak, Locks, Workers, Notifying, SpuriousWake, targetVars, workerVars, groupVars, frontVars
<1>9. CountBounded'
  BY DEF IInv, TypeOK, CountBounded, n_targets, SpuriousWake, targetVars, workerVars, groupVars, frontVars
<1>10. ScanAhead'
  BY DEF IInv, TypeOK, ScanAhead, Locks, SpuriousWake, targetVars, workerVars, groupVars, frontVars
<1>11. SleepsForASignal'
  BY <1>0, HoldersFinite DEF IInv, TypeOK, SleepsForASignal, NoneFinished, n_targets, Locks, SpuriousWake, targetVars, workerVars, groupVars, frontVars
<1> QED
  BY <1>1, <1>2, <1>3, <1>4, <1>5, <1>6, <1>7, <1>8, <1>9, <1>10, <1>11 DEF IInv

\* A pop begins only when there is a target to be found.
LEMMA PopStartKeeps ==
  ASSUME IInv, NEW g \in Group, PopStart(g)
  PROVE  IInv'
<1>0. \A h \in Group : Holders(h)' = Holders(h)
  BY DEF IInv, TypeOK, Holders, Workers, PopStart, targetVars, workerVars, groupVars, frontVars
<1>1. TypeOK'
  BY DEF IInv, TypeOK, PopStart, targetVars, workerVars, groupVars, frontVars
<1>2. Workers'
  BY DEF IInv, TypeOK, Workers, Notifying, PopStart, targetVars, workerVars, groupVars, frontVars
<1>3. Locks'
  BY FrontAssumption, TerminalAssumption, GroupAssumption DEF IInv, TypeOK, Workers, Locks, Notifying, PopStart, targetVars, workerVars, groupVars, frontVars
<1>4. Registered'
  BY DEF IInv, TypeOK, Registered, Workers, Locks, NoUseAfterFree, PopStart, targetVars, workerVars, groupVars, frontVars
<1>5. RefcountExact'
  BY <1>0, HoldersFinite DEF IInv, TypeOK, RefcountExact, PopStart, targetVars, workerVars, groupVars, frontVars
<1>6. NoUseAfterFree'
  BY DEF IInv, TypeOK, NoUseAfterFree, Workers, Notifying, Locks, PopStart, targetVars, workerVars, groupVars, frontVars
<1>7. LastAlone'
  BY DEF IInv, TypeOK, LastAlone, LastWorker, LastFront, Workers, Notifying, Locks, PopStart, targetVars, workerVars, groupVars, frontVars
<1>8. NoLeak'
  BY <1>0, HoldersFinite DEF IInv, TypeOK, NoLeak, Locks, Workers, Notifying, PopStart, targetVars, workerVars, groupVars, frontVars
<1>9. CountBounded'
  BY HoldersFinite DEF IInv, TypeOK, CountBounded, n_targets, NoneFinished, PopStart, groupVars
<1>10. ScanAhead'
<2>1. refcount[g] # n_targets(g) + 1 => \E t \in targets[g] : is_result[t]
    BY NoneFinishedCounts, HoldersFinite DEF IInv, CountBounded, PopStart, TypeOK
<2> QED
    BY <2>1 DEF PopStart, ScanAhead, NoneFinished, targetVars, groupVars
<1>11. SleepsForASignal'
  BY <1>0, HoldersFinite DEF IInv, TypeOK, SleepsForASignal, NoneFinished, n_targets, Locks, PopStart, targetVars, workerVars, groupVars, frontVars
<1> QED
  BY <1>1, <1>2, <1>3, <1>4, <1>5, <1>6, <1>7, <1>8, <1>9, <1>10, <1>11 DEF IInv

\* A pop takes a finished target and passes the others.
LEMMA PopScanKeeps ==
  ASSUME IInv, NEW t \in Terminal, PopScan(t)
  PROVE  IInv'
<1>a. ~is_result[t] => UNCHANGED <<targets, popped, fpc>>
  BY DEF IInv, ScanAhead, PopScan
<1>0. \A h \in Group : Holders(h)' = Holders(h)
  BY DEF IInv, TypeOK, Holders, Workers, PopScan, targetVars, workerVars, groupVars, frontVars
<1>1. TypeOK'
  BY <1>a DEF IInv, TypeOK, PopScan, targetVars, workerVars, groupVars, frontVars
<1>2. Workers'
  BY <1>a DEF IInv, TypeOK, Workers, Notifying, PopScan, targetVars, workerVars, groupVars, frontVars
<1>3. Locks'
  BY <1>a, FrontAssumption, TerminalAssumption, GroupAssumption DEF IInv, TypeOK, Workers, Locks, Notifying, PopScan, targetVars, workerVars, groupVars, frontVars
<1>4. Registered'
  BY <1>a DEF IInv, TypeOK, Registered, Workers, Locks, NoUseAfterFree, PopScan, targetVars, workerVars, groupVars, frontVars
<1>5. RefcountExact'
  BY <1>a, <1>0, HoldersFinite DEF IInv, TypeOK, RefcountExact, PopScan, targetVars, workerVars, groupVars, frontVars
<1>6. NoUseAfterFree'
  BY <1>a DEF IInv, TypeOK, NoUseAfterFree, Workers, Notifying, Locks, PopScan, targetVars, workerVars, groupVars, frontVars
<1>7. LastAlone'
  BY <1>a DEF IInv, TypeOK, LastAlone, LastWorker, LastFront, Workers, Notifying, Locks, PopScan, targetVars, workerVars, groupVars, frontVars
<1>8. NoLeak'
  BY <1>a, <1>0, HoldersFinite DEF IInv, TypeOK, NoLeak, Locks, Workers, Notifying, PopScan, targetVars, workerVars, groupVars, frontVars
<1>9. CountBounded'
<2>0. fgroup \in Group /\ glife[fgroup] = "live" /\ t \in targets[fgroup]
    BY <1>a DEF IInv, Locks, NoUseAfterFree, PopScan
<2>1. is_result[t] => Cardinality(targets[fgroup] \ {t}) = n_targets(fgroup) - 1
    BY <2>0, FS_RemoveElement, HoldersFinite DEF IInv, n_targets
<2>2. refcount[fgroup] <= n_targets(fgroup)
    BY <1>a, <2>0, HoldersFinite DEF IInv, CountBounded, PopScan
<2>3. SUFFICES ASSUME NEW h \in Group, glife[h] = "live", ~(fgroup = h /\ fpc' \in {"destroy", "sub"})
        PROVE  refcount[h] <= n_targets(h)' + (IF fpc' = "scan" /\ fgroup = h THEN 0 ELSE 1)
    BY <1>a DEF CountBounded, PopScan
<2>4. CASE h # fgroup
    BY <1>a, <2>3, <2>4, <2>0 DEF IInv, TypeOK, CountBounded, n_targets, PopScan
<2>5. CASE h = fgroup /\ is_result[t]
    <3>1. targets'[h] = targets[fgroup] \ {t} /\ fpc' = "idle"
      BY <1>a, <2>0, <2>5 DEF IInv, TypeOK, PopScan
    <3>2. n_targets(h)' = n_targets(fgroup) - 1
      BY <2>1, <2>5, <3>1 DEF n_targets
    <3>3. refcount[h] \in Nat /\ n_targets(fgroup) \in Nat
      BY <2>0, HoldersFinite DEF IInv, TypeOK
    <3> QED
      BY <2>2, <2>5, <3>1, <3>2, <3>3
<2>6. CASE h = fgroup /\ ~is_result[t]
    BY <1>a, <2>0, <2>2, <2>6, HoldersFinite DEF IInv, n_targets, PopScan
<2> QED
    BY <2>4, <2>5, <2>6
<1>10. ScanAhead'
  BY <1>a DEF IInv, TypeOK, ScanAhead, Locks, PopScan, targetVars, workerVars, groupVars, frontVars
<1>11. SleepsForASignal'
  BY <1>a, <1>0, HoldersFinite DEF IInv, TypeOK, SleepsForASignal, NoneFinished, n_targets, Locks, PopScan, targetVars, workerVars, groupVars, frontVars
<1> QED
  BY <1>1, <1>2, <1>3, <1>4, <1>5, <1>6, <1>7, <1>8, <1>9, <1>10, <1>11 DEF IInv

\* The clear begins with no target passed.
LEMMA DestroyCallKeeps ==
  ASSUME IInv, NEW g \in Group, DestroyCall(g)
  PROVE  IInv'
<1>0. \A h \in Group : Holders(h)' = Holders(h)
  BY DEF IInv, TypeOK, Holders, Workers, DestroyCall, targetVars, workerVars, groupVars, frontVars
<1>1. TypeOK'
  BY DEF IInv, TypeOK, DestroyCall, targetVars, workerVars, groupVars, frontVars
<1>2. Workers'
  BY DEF IInv, TypeOK, Workers, Notifying, DestroyCall, targetVars, workerVars, groupVars, frontVars
<1>3. Locks'
  BY FrontAssumption, TerminalAssumption, GroupAssumption DEF IInv, TypeOK, Workers, Locks, Notifying, DestroyCall, targetVars, workerVars, groupVars, frontVars
<1>4. Registered'
  BY DEF IInv, TypeOK, Registered, Workers, Locks, NoUseAfterFree, DestroyCall, targetVars, workerVars, groupVars, frontVars
<1>5. RefcountExact'
  BY <1>0, HoldersFinite DEF IInv, TypeOK, RefcountExact, DestroyCall, targetVars, workerVars, groupVars, frontVars
<1>6. NoUseAfterFree'
  BY DEF IInv, TypeOK, NoUseAfterFree, Workers, Notifying, Locks, DestroyCall, targetVars, workerVars, groupVars, frontVars
<1>7. LastAlone'
  BY DEF IInv, TypeOK, LastAlone, LastWorker, LastFront, Workers, Notifying, Locks, DestroyCall, targetVars, workerVars, groupVars, frontVars
<1>8. NoLeak'
  BY <1>0, HoldersFinite DEF IInv, TypeOK, NoLeak, Locks, Workers, Notifying, DestroyCall, targetVars, workerVars, groupVars, frontVars
<1>9. CountBounded'
  BY DEF IInv, TypeOK, CountBounded, n_targets, DestroyCall, targetVars, workerVars, groupVars, frontVars
<1>10. ScanAhead'
  BY DEF IInv, TypeOK, ScanAhead, Locks, DestroyCall, targetVars, workerVars, groupVars, frontVars
<1>11. SleepsForASignal'
  BY <1>0, HoldersFinite DEF IInv, TypeOK, SleepsForASignal, NoneFinished, n_targets, Locks, DestroyCall, targetVars, workerVars, groupVars, frontVars
<1> QED
  BY <1>1, <1>2, <1>3, <1>4, <1>5, <1>6, <1>7, <1>8, <1>9, <1>10, <1>11 DEF IInv

\* The clear takes back the reference of a pending target.
LEMMA ClearTargetKeeps ==
  ASSUME IInv, NEW t \in Terminal, ClearTarget(t)
  PROVE  IInv'
<1>a. fgroup \in Group /\ glife[fgroup] = "live" /\ t \in targets[fgroup] /\ t \notin fseen
  BY DEF IInv, Locks, NoUseAfterFree, ClearTarget
<1>0. /\ \A h \in Group : h # fgroup => Holders(h)' = Holders(h)
      /\ IF is_result[t] THEN Holders(fgroup)' = Holders(fgroup)
                         ELSE Holders(fgroup)' = Holders(fgroup) \ {t} /\ t \in Holders(fgroup)
  BY <1>a, GroupAssumption DEF IInv, TypeOK, Holders, Workers, Registered, ClearTarget, workerVars
<1>d. ~is_result[t] => Cardinality(Holders(fgroup)') = Cardinality(Holders(fgroup)) - 1
  BY <1>0, <1>a, FS_RemoveElement, HoldersFinite DEF IInv
<1>e. refcount[fgroup] = Cardinality(Holders(fgroup)) + 1
  BY <1>a DEF IInv, RefcountExact
<1>f. ~is_result[t] => refcount[fgroup] - 1 \in Nat
  BY <1>a, <1>d, <1>e, <1>0, HoldersFinite DEF IInv
<1>1. TypeOK'
  BY <1>a, <1>f DEF IInv, TypeOK, ClearTarget, workerVars
<1>2. Workers'
  BY DEF IInv, TypeOK, Workers, Notifying, ClearTarget, targetVars, workerVars, groupVars, frontVars
<1>3. Locks'
  BY FrontAssumption, TerminalAssumption, GroupAssumption DEF IInv, TypeOK, Workers, Locks, Notifying, ClearTarget, targetVars, workerVars, groupVars, frontVars
<1>4. Registered'
<2>1. \A h \in Group : h # fgroup => t \notin targets[h] \/ is_result[t]
    BY <1>a, GroupAssumption DEF IInv, Registered, ClearTarget, TypeOK
<2>2. fpc' = "clear" /\ fgroup' = fgroup /\ targets' = targets /\ glife' = glife /\ is_result' = is_result
      /\ fseen' = fseen \cup {t}
    BY DEF ClearTarget
<2>3. waiter' = IF is_result[t] THEN waiter ELSE [waiter EXCEPT ![t] = None]
    BY DEF ClearTarget
<2> QED
    BY <1>a, <2>1, <2>2, <2>3, GroupAssumption DEF IInv, Registered, ClearTarget, TypeOK
<1>5. RefcountExact'
  BY <1>0, <1>a, <1>d, <1>e, HoldersFinite DEF IInv, TypeOK, RefcountExact, ClearTarget
<1>6. NoUseAfterFree'
  BY DEF IInv, TypeOK, NoUseAfterFree, Workers, Notifying, Locks, ClearTarget, targetVars, workerVars, groupVars, frontVars
<1>7. LastAlone'
  BY DEF IInv, TypeOK, LastAlone, LastWorker, LastFront, Workers, Notifying, Locks, ClearTarget, targetVars, workerVars, groupVars, frontVars
<1>8. NoLeak'
  BY <1>0, <1>a DEF IInv, TypeOK, NoLeak, ClearTarget, workerVars
<1>9. CountBounded'
  BY <1>a, HoldersFinite DEF IInv, TypeOK, CountBounded, n_targets, ClearTarget
<1>10. ScanAhead'
  BY DEF IInv, TypeOK, ScanAhead, Locks, ClearTarget, targetVars, workerVars, groupVars, frontVars
<1>11. SleepsForASignal'
  BY <1>0, HoldersFinite DEF IInv, TypeOK, SleepsForASignal, NoneFinished, n_targets, Locks, ClearTarget, targetVars, workerVars, groupVars, frontVars
<1> QED
  BY <1>1, <1>2, <1>3, <1>4, <1>5, <1>6, <1>7, <1>8, <1>9, <1>10, <1>11 DEF IInv

\* After the clear no pending target knows the group.
LEMMA ClearEndKeeps ==
  ASSUME IInv, ClearEnd
  PROVE  IInv'
<1>0. \A h \in Group : Holders(h)' = Holders(h)
  BY DEF IInv, TypeOK, Holders, Workers, ClearEnd, targetVars, workerVars, groupVars, frontVars
<1>1. TypeOK'
  BY DEF IInv, TypeOK, ClearEnd, targetVars, workerVars, groupVars, frontVars
<1>2. Workers'
  BY DEF IInv, TypeOK, Workers, Notifying, ClearEnd, targetVars, workerVars, groupVars, frontVars
<1>3. Locks'
  BY FrontAssumption, TerminalAssumption, GroupAssumption DEF IInv, TypeOK, Workers, Locks, Notifying, ClearEnd, targetVars, workerVars, groupVars, frontVars
<1>4. Registered'
<2>1. fgroup \in Group /\ glife[fgroup] = "live" /\ fpc = "clear"
    BY DEF IInv, Locks, NoUseAfterFree, ClearEnd
<2>2. \A t \in Terminal : ~is_result[t] => waiter[t] # fgroup
    BY <2>1, GroupAssumption DEF IInv, Registered, ClearEnd, TypeOK
<2> QED
    BY <2>1, <2>2 DEF IInv, Registered, ClearEnd, TypeOK, targetVars
<1>5. RefcountExact'
  BY <1>0, HoldersFinite DEF IInv, TypeOK, RefcountExact, ClearEnd, targetVars, workerVars, groupVars, frontVars
<1>6. NoUseAfterFree'
  BY DEF IInv, TypeOK, NoUseAfterFree, Workers, Notifying, Locks, ClearEnd, targetVars, workerVars, groupVars, frontVars
<1>7. LastAlone'
  BY DEF IInv, TypeOK, LastAlone, LastWorker, LastFront, Workers, Notifying, Locks, ClearEnd, targetVars, workerVars, groupVars, frontVars
<1>8. NoLeak'
  BY <1>0, HoldersFinite DEF IInv, TypeOK, NoLeak, Locks, Workers, Notifying, ClearEnd, targetVars, workerVars, groupVars, frontVars
<1>9. CountBounded'
  BY DEF IInv, TypeOK, CountBounded, n_targets, ClearEnd, targetVars, workerVars, groupVars, frontVars
<1>10. ScanAhead'
  BY DEF IInv, TypeOK, ScanAhead, Locks, ClearEnd, targetVars, workerVars, groupVars, frontVars
<1>11. SleepsForASignal'
  BY <1>0, HoldersFinite DEF IInv, TypeOK, SleepsForASignal, NoneFinished, n_targets, Locks, ClearEnd, targetVars, workerVars, groupVars, frontVars
<1> QED
  BY <1>1, <1>2, <1>3, <1>4, <1>5, <1>6, <1>7, <1>8, <1>9, <1>10, <1>11 DEF IInv

\* The frontend has the mutex.
LEMMA DestroyLockKeeps ==
  ASSUME IInv, DestroyLock
  PROVE  IInv'
<1>0. \A h \in Group : Holders(h)' = Holders(h)
  BY DEF IInv, TypeOK, Holders, Workers, DestroyLock, targetVars, workerVars, groupVars, frontVars
<1>1. TypeOK'
  BY DEF IInv, TypeOK, DestroyLock, targetVars, workerVars, groupVars, frontVars
<1>2. Workers'
  BY DEF IInv, TypeOK, Workers, Notifying, DestroyLock, targetVars, workerVars, groupVars, frontVars
<1>3. Locks'
  BY FrontAssumption, TerminalAssumption, GroupAssumption DEF IInv, TypeOK, Workers, Locks, Notifying, DestroyLock, targetVars, workerVars, groupVars, frontVars
<1>4. Registered'
  BY DEF IInv, TypeOK, Registered, Workers, Locks, NoUseAfterFree, DestroyLock, targetVars, workerVars, groupVars, frontVars
<1>5. RefcountExact'
  BY <1>0, HoldersFinite DEF IInv, TypeOK, RefcountExact, DestroyLock, targetVars, workerVars, groupVars, frontVars
<1>6. NoUseAfterFree'
  BY DEF IInv, TypeOK, NoUseAfterFree, Workers, Notifying, Locks, DestroyLock, targetVars, workerVars, groupVars, frontVars
<1>7. LastAlone'
  BY DEF IInv, TypeOK, LastAlone, LastWorker, LastFront, Workers, Notifying, Locks, DestroyLock, targetVars, workerVars, groupVars, frontVars
<1>8. NoLeak'
  BY <1>0, HoldersFinite DEF IInv, TypeOK, NoLeak, Locks, Workers, Notifying, DestroyLock, targetVars, workerVars, groupVars, frontVars
<1>9. CountBounded'
  BY DEF IInv, TypeOK, CountBounded, n_targets, DestroyLock, targetVars, workerVars, groupVars, frontVars
<1>10. ScanAhead'
  BY DEF IInv, TypeOK, ScanAhead, Locks, DestroyLock, targetVars, workerVars, groupVars, frontVars
<1>11. SleepsForASignal'
  BY <1>0, HoldersFinite DEF IInv, TypeOK, SleepsForASignal, NoneFinished, n_targets, Locks, DestroyLock, targetVars, workerVars, groupVars, frontVars
<1> QED
  BY <1>1, <1>2, <1>3, <1>4, <1>5, <1>6, <1>7, <1>8, <1>9, <1>10, <1>11 DEF IInv

\* The frontend gives its reference away.
LEMMA DestroySubKeeps ==
  ASSUME IInv, DestroySub
  PROVE  IInv'
<1>0. \A h \in Group : Holders(h)' = Holders(h)
  BY DEF IInv, TypeOK, Holders, Workers, DestroySub, targetVars, workerVars
<1>a. fgroup \in Group /\ glife[fgroup] = "live" /\ fpc = "sub" /\ glock[fgroup] = Front
  BY DEF IInv, Locks, NoUseAfterFree, DestroySub
<1>b. refcount[fgroup] = Cardinality(Holders(fgroup)) + 1
  BY <1>a DEF IInv, RefcountExact
<1>c. refcount[fgroup] = 1 <=> Holders(fgroup) = {}
  BY <1>a, <1>b, HoldersFinite, FS_EmptySet DEF IInv
<1>d. refcount[fgroup] - 1 \in Nat
  BY <1>a, <1>b, HoldersFinite DEF IInv
<1>e. Holders(fgroup) = {} => \A u \in Terminal : Notifying(u) => wwaiter[u] # fgroup
  BY <1>a, FrontAssumption DEF IInv, Holders, Notifying, Locks, LastAlone, LastWorker, Workers, TypeOK
<1>f. \A u \in Terminal : ~is_result[u] => waiter[u] # fgroup
  BY <1>a DEF IInv, Registered
<1>1. TypeOK'
  BY <1>a, <1>d DEF IInv, TypeOK, DestroySub, targetVars, workerVars
<1>2. Workers'
  BY DEF IInv, TypeOK, Workers, Notifying, DestroySub, targetVars, workerVars, groupVars, frontVars
<1>3. Locks'
  BY FrontAssumption, TerminalAssumption, GroupAssumption DEF IInv, TypeOK, Workers, Locks, Notifying, DestroySub, targetVars, workerVars, groupVars, frontVars
<1>4. Registered'
  BY <1>a DEF IInv, TypeOK, Registered, DestroySub, targetVars
<1>5. RefcountExact'
  BY <1>0, <1>a, <1>b, HoldersFinite DEF IInv, TypeOK, RefcountExact, DestroySub
<1>6. NoUseAfterFree'
  BY <1>a, <1>f DEF IInv, TypeOK, NoUseAfterFree, Workers, Notifying, DestroySub, targetVars, workerVars
<1>7. LastAlone'
  BY <1>a, <1>c, <1>e DEF IInv, TypeOK, LastAlone, LastWorker, LastFront, Workers, Notifying, DestroySub, workerVars
<1>8. NoLeak'
<2>1. Holders(fgroup) = {} => flast' /\ fpc' = "unlock" /\ fgroup' = fgroup
    BY <1>a, <1>c DEF DestroySub
<2>2. \A h \in Group : h # fgroup => glife'[h] = glife[h]
    BY DEF DestroySub, IInv, TypeOK
<2>3. wpc' = wpc /\ wwaiter' = wwaiter /\ wlast' = wlast
    BY DEF DestroySub, workerVars
<2>4. \A h \in Group : glife[h] = "left" /\ h # fgroup =>
        \/ Holders(h) # {}
        \/ \E t \in Terminal : wpc[t] \in {"signalled", "free"} /\ wwaiter[t] = h /\ wlast[t]
    BY DEF IInv, NoLeak
<2> QED
    BY <1>0, <2>1, <2>2, <2>3, <2>4 DEF NoLeak
<1>9. CountBounded'
  BY DEF IInv, TypeOK, CountBounded, n_targets, DestroySub, targetVars, workerVars, groupVars, frontVars
<1>10. ScanAhead'
  BY DEF IInv, TypeOK, ScanAhead, Locks, DestroySub, targetVars, workerVars, groupVars, frontVars
<1>11. SleepsForASignal'
  BY <1>0, HoldersFinite DEF IInv, TypeOK, SleepsForASignal, NoneFinished, n_targets, Locks, DestroySub, targetVars, workerVars, groupVars, frontVars
<1> QED
  BY <1>1, <1>2, <1>3, <1>4, <1>5, <1>6, <1>7, <1>8, <1>9, <1>10, <1>11 DEF IInv

\* It frees the group only if it was the last.
LEMMA DestroyUnlockKeeps ==
  ASSUME IInv, DestroyUnlock
  PROVE  IInv'
<1>0. \A h \in Group : Holders(h)' = Holders(h)
  BY DEF IInv, TypeOK, Holders, Workers, DestroyUnlock, targetVars, workerVars, groupVars, frontVars
<1>1. TypeOK'
  BY DEF IInv, TypeOK, DestroyUnlock, targetVars, workerVars, groupVars, frontVars
<1>2. Workers'
  BY DEF IInv, TypeOK, Workers, Notifying, DestroyUnlock, targetVars, workerVars, groupVars, frontVars
<1>3. Locks'
  BY FrontAssumption, TerminalAssumption, GroupAssumption DEF IInv, TypeOK, Workers, Locks, Notifying, DestroyUnlock, targetVars, workerVars, groupVars, frontVars
<1>4. Registered'
  BY DEF IInv, TypeOK, Registered, Workers, Locks, NoUseAfterFree, DestroyUnlock, targetVars, workerVars, groupVars, frontVars
<1>5. RefcountExact'
  BY <1>0, HoldersFinite DEF IInv, TypeOK, RefcountExact, DestroyUnlock, targetVars, workerVars, groupVars, frontVars
<1>6. NoUseAfterFree'
  BY DEF IInv, TypeOK, NoUseAfterFree, Workers, Notifying, Locks, DestroyUnlock, targetVars, workerVars, groupVars, frontVars
<1>7. LastAlone'
  BY DEF IInv, TypeOK, LastAlone, LastWorker, LastFront, Workers, Notifying, Locks, DestroyUnlock, targetVars, workerVars, groupVars, frontVars
<1>8. NoLeak'
  BY <1>0, HoldersFinite DEF IInv, TypeOK, NoLeak, Locks, Workers, Notifying, DestroyUnlock, targetVars, workerVars, groupVars, frontVars
<1>9. CountBounded'
  BY DEF IInv, TypeOK, CountBounded, n_targets, DestroyUnlock, targetVars, workerVars, groupVars, frontVars
<1>10. ScanAhead'
  BY DEF IInv, TypeOK, ScanAhead, Locks, DestroyUnlock, targetVars, workerVars, groupVars, frontVars
<1>11. SleepsForASignal'
  BY <1>0, HoldersFinite DEF IInv, TypeOK, SleepsForASignal, NoneFinished, n_targets, Locks, DestroyUnlock, targetVars, workerVars, groupVars, frontVars
<1> QED
  BY <1>1, <1>2, <1>3, <1>4, <1>5, <1>6, <1>7, <1>8, <1>9, <1>10, <1>11 DEF IInv

\* Nobody else is at the group when the frontend frees it.
LEMMA DestroyFreeKeeps ==
  ASSUME IInv, DestroyFree
  PROVE  IInv'
<1>0. \A h \in Group : Holders(h)' = Holders(h)
  BY DEF IInv, TypeOK, Holders, Workers, DestroyFree, targetVars, workerVars
<1>a. fgroup \in Group /\ glife[fgroup] = "left" /\ fpc = "free" /\ flast
  BY DEF IInv, Locks, NoUseAfterFree, DestroyFree
<1>b. \A u \in Terminal : Notifying(u) => wwaiter[u] # fgroup
  BY <1>a DEF IInv, LastAlone, LastFront
<1>1. TypeOK'
  BY DEF IInv, TypeOK, DestroyFree, targetVars, workerVars, groupVars, frontVars
<1>2. Workers'
  BY DEF IInv, TypeOK, Workers, Notifying, DestroyFree, targetVars, workerVars, groupVars, frontVars
<1>3. Locks'
  BY FrontAssumption, TerminalAssumption, GroupAssumption DEF IInv, TypeOK, Workers, Locks, Notifying, DestroyFree, targetVars, workerVars, groupVars, frontVars
<1>4. Registered'
  BY DEF IInv, TypeOK, Registered, Workers, Locks, NoUseAfterFree, DestroyFree, targetVars, workerVars, groupVars, frontVars
<1>5. RefcountExact'
  BY <1>0, <1>a DEF IInv, TypeOK, RefcountExact, DestroyFree
<1>6. NoUseAfterFree'
  BY <1>a, <1>b DEF IInv, TypeOK, NoUseAfterFree, Workers, Notifying, DestroyFree, targetVars, workerVars
<1>7. LastAlone'
  BY DEF IInv, TypeOK, LastAlone, LastWorker, LastFront, Workers, Notifying, Locks, DestroyFree, targetVars, workerVars, groupVars, frontVars
<1>8. NoLeak'
  BY <1>0, HoldersFinite DEF IInv, TypeOK, NoLeak, Locks, Workers, Notifying, DestroyFree, targetVars, workerVars, groupVars, frontVars
<1>9. CountBounded'
  BY DEF IInv, TypeOK, CountBounded, n_targets, DestroyFree, targetVars, workerVars, groupVars, frontVars
<1>10. ScanAhead'
  BY DEF IInv, TypeOK, ScanAhead, Locks, DestroyFree, targetVars, workerVars, groupVars, frontVars
<1>11. SleepsForASignal'
  BY <1>0, HoldersFinite DEF IInv, TypeOK, SleepsForASignal, NoneFinished, n_targets, Locks, DestroyFree, targetVars, workerVars, groupVars, frontVars
<1> QED
  BY <1>1, <1>2, <1>3, <1>4, <1>5, <1>6, <1>7, <1>8, <1>9, <1>10, <1>11 DEF IInv

\* A worker takes over the reference of its target.
LEMMA PublishKeeps ==
  ASSUME IInv, NEW t \in Terminal, Publish(t)
  PROVE  IInv'
<1>0. \A h \in Group : Holders(h)' = Holders(h)
  BY GroupAssumption DEF IInv, TypeOK, Holders, Workers, Publish
<1>a. waiter[t] # None => glife[waiter[t]] = "live" /\ waiter[t] \in Group
  BY DEF IInv, TypeOK, NoUseAfterFree, Workers, Publish
<1>b. fpc \in {"unlock", "free"} => fgroup \in Group /\ glife[fgroup] = "left"
  BY DEF IInv, NoUseAfterFree, Locks
<1>1. TypeOK'
  BY DEF IInv, TypeOK, Publish, targetVars, workerVars, groupVars, frontVars
<1>2. Workers'
  BY DEF IInv, TypeOK, Workers, Notifying, Publish, targetVars, workerVars, groupVars, frontVars
<1>3. Locks'
  BY FrontAssumption, TerminalAssumption, GroupAssumption DEF IInv, TypeOK, Workers, Locks, Notifying, Publish, targetVars, workerVars, groupVars, frontVars
<1>4. Registered'
  BY DEF IInv, TypeOK, Registered, Workers, Locks, NoUseAfterFree, Publish, targetVars, workerVars, groupVars, frontVars
<1>5. RefcountExact'
  BY <1>0, HoldersFinite DEF IInv, TypeOK, RefcountExact, Publish, targetVars, workerVars, groupVars, frontVars
<1>6. NoUseAfterFree'
  BY <1>a DEF IInv, TypeOK, NoUseAfterFree, Workers, Publish, groupVars, frontVars
<1>7. LastAlone'
  BY <1>a, <1>b DEF IInv, TypeOK, LastAlone, LastWorker, LastFront, Workers, Notifying, Publish, groupVars, frontVars
<1>8. NoLeak'
  BY <1>0, HoldersFinite DEF IInv, TypeOK, NoLeak, Locks, Workers, Notifying, Publish, targetVars, workerVars, groupVars, frontVars
<1>9. CountBounded'
  BY DEF IInv, TypeOK, CountBounded, n_targets, Publish, targetVars, workerVars, groupVars, frontVars
<1>10. ScanAhead'
  BY DEF IInv, TypeOK, ScanAhead, Locks, Publish, targetVars, workerVars, groupVars, frontVars
<1>11. SleepsForASignal'
  BY <1>0, HoldersFinite DEF IInv, TypeOK, SleepsForASignal, NoneFinished, n_targets, Locks, Publish, targetVars, workerVars, groupVars, frontVars
<1> QED
  BY <1>1, <1>2, <1>3, <1>4, <1>5, <1>6, <1>7, <1>8, <1>9, <1>10, <1>11 DEF IInv

\* The worker has the mutex.
LEMMA NotifyLockKeeps ==
  ASSUME IInv, NEW t \in Terminal, NotifyLock(t)
  PROVE  IInv'
<1>0. \A h \in Group : Holders(h)' = Holders(h)
  BY DEF IInv, TypeOK, Holders, Workers, NotifyLock, targetVars, workerVars, groupVars, frontVars
<1>1. TypeOK'
  BY DEF IInv, TypeOK, NotifyLock, targetVars, workerVars, groupVars, frontVars
<1>2. Workers'
  BY DEF IInv, TypeOK, Workers, Notifying, NotifyLock, targetVars, workerVars, groupVars, frontVars
<1>3. Locks'
  BY FrontAssumption, TerminalAssumption, GroupAssumption DEF IInv, TypeOK, Workers, Locks, Notifying, NotifyLock, targetVars, workerVars, groupVars, frontVars
<1>4. Registered'
  BY DEF IInv, TypeOK, Registered, Workers, Locks, NoUseAfterFree, NotifyLock, targetVars, workerVars, groupVars, frontVars
<1>5. RefcountExact'
  BY <1>0, HoldersFinite DEF IInv, TypeOK, RefcountExact, NotifyLock, targetVars, workerVars, groupVars, frontVars
<1>6. NoUseAfterFree'
  BY DEF IInv, TypeOK, NoUseAfterFree, Workers, Notifying, Locks, NotifyLock, targetVars, workerVars, groupVars, frontVars
<1>7. LastAlone'
  BY DEF IInv, TypeOK, LastAlone, LastWorker, LastFront, Workers, Notifying, Locks, NotifyLock, targetVars, workerVars, groupVars, frontVars
<1>8. NoLeak'
  BY <1>0, HoldersFinite DEF IInv, TypeOK, NoLeak, Locks, Workers, Notifying, NotifyLock, targetVars, workerVars, groupVars, frontVars
<1>9. CountBounded'
  BY DEF IInv, TypeOK, CountBounded, n_targets, NotifyLock, targetVars, workerVars, groupVars, frontVars
<1>10. ScanAhead'
  BY DEF IInv, TypeOK, ScanAhead, Locks, NotifyLock, targetVars, workerVars, groupVars, frontVars
<1>11. SleepsForASignal'
  BY <1>0, HoldersFinite DEF IInv, TypeOK, SleepsForASignal, NoneFinished, n_targets, Locks, NotifyLock, targetVars, workerVars, groupVars, frontVars
<1> QED
  BY <1>1, <1>2, <1>3, <1>4, <1>5, <1>6, <1>7, <1>8, <1>9, <1>10, <1>11 DEF IInv

\* The worker gives its reference away and wakes the frontend.
LEMMA NotifySubKeeps ==
  ASSUME IInv, NEW t \in Terminal, NotifySub(t)
  PROVE  IInv'
<1> DEFINE g == wwaiter[t]
<1>a. g \in Group /\ glife[g] \in {"live", "left"} /\ glock[g] = t /\ t \in Holders(g)
  BY DEF IInv, Locks, NoUseAfterFree, Workers, Notifying, NotifySub, Holders
<1>0. /\ \A h \in Group : h # g => Holders(h)' = Holders(h)
      /\ Holders(g)' = Holders(g) \ {t}
  BY <1>a DEF IInv, TypeOK, Holders, Workers, NotifySub, targetVars
<1>b. Cardinality(Holders(g)') = Cardinality(Holders(g)) - 1 /\ Cardinality(Holders(g)) # 0
  BY <1>0, <1>a, FS_RemoveElement, FS_EmptySet, HoldersFinite DEF IInv
<1>c. /\ refcount[g] = Cardinality(Holders(g)) + (IF glife[g] = "live" THEN 1 ELSE 0)
      /\ refcount[g] - 1 \in Nat
  BY <1>a, <1>b, HoldersFinite DEF IInv, RefcountExact
<1>k. IsFiniteSet(Holders(g)')
  BY <1>0, SubsetsFinite DEF Holders
<1>l. Cardinality(Holders(g)') = 0 <=> Holders(g)' = {}
  BY <1>k, FS_EmptySet
<1>d. refcount[g] = 1 => glife[g] = "left" /\ Cardinality(Holders(g)') = 0
  <2> SUFFICES ASSUME refcount[g] = 1
               PROVE  glife[g] = "left" /\ Cardinality(Holders(g)') = 0
    OBVIOUS
  <2>1. Cardinality(Holders(g)) \in Nat /\ Cardinality(Holders(g)) # 0
    BY <1>a, <1>b, HoldersFinite DEF IInv
  <2>2. glife[g] # "live"
    BY <2>1, <1>c
  <2> QED
    BY <2>1, <2>2, <1>a, <1>b, <1>c
<1>e. glife[g] = "left" => (refcount[g] = 1 <=> Cardinality(Holders(g)') = 0)
  <2>1. Cardinality(Holders(g)) \in Nat
    BY <1>a, HoldersFinite DEF IInv
  <2> QED
    BY <2>1, <1>b, <1>c
<1>f. Holders(g)' = {} => \A u \in Terminal : Notifying(u) /\ u # t => wwaiter[u] # g
  BY <1>a, <1>0 DEF IInv, Holders, Notifying, Locks, LastAlone, LastWorker, Workers, TypeOK, NotifySub
<1>g. fpc \in {"unlock", "free"} /\ fgroup = g => fpc = "free" /\ flast
  BY <1>a, FrontAssumption DEF IInv, Locks
<1>h. ~(fpc \in {"unlock", "free"} /\ fgroup = g)
  BY <1>a, <1>g DEF IInv, LastAlone, LastFront, Notifying, NotifySub
<1>i. fpc' \in {"unlock", "free"} <=> fpc \in {"unlock", "free"}
  BY DEF NotifySub
<1>j. fgroup' = fgroup /\ flast' = flast /\ glife' = glife /\ wwaiter' = wwaiter
  BY DEF NotifySub
<1>1. TypeOK'
  BY <1>a, <1>c DEF IInv, TypeOK, NotifySub, targetVars
<1>2. Workers'
  BY DEF IInv, TypeOK, Workers, Notifying, NotifySub, targetVars, workerVars, groupVars, frontVars
<1>3. Locks'
  BY FrontAssumption, TerminalAssumption, GroupAssumption DEF IInv, TypeOK, Workers, Locks, Notifying, NotifySub, targetVars, workerVars, groupVars, frontVars
<1>4. Registered'
  BY DEF IInv, TypeOK, Registered, Workers, Locks, NoUseAfterFree, NotifySub, targetVars, workerVars, groupVars, frontVars
<1>5. RefcountExact'
<2>1. /\ refcount'[g] = refcount[g] - 1 /\ glife' = glife
        /\ \A h \in Group : h # g => refcount'[h] = refcount[h]
    BY <1>a DEF NotifySub, IInv, TypeOK
<2>2. \A h \in Group : h # g => Cardinality(Holders(h)') = Cardinality(Holders(h))
    BY <1>0
<2>3. Cardinality(Holders(g)) \in Nat
    BY <1>a, HoldersFinite DEF IInv
<2>4. refcount'[g] = Cardinality(Holders(g)') + (IF glife[g] = "live" THEN 1 ELSE 0)
    BY <2>1, <2>3, <1>b, <1>c
<2>5. SUFFICES ASSUME NEW h \in Group, glife'[h] # "unborn"
        PROVE  refcount'[h] = Cardinality(Holders(h)') + (IF glife'[h] = "live" THEN 1 ELSE 0)
    BY DEF RefcountExact
<2>6. CASE h = g
    BY <1>j, <2>1, <2>4, <2>6
<2>7. CASE h # g
    BY <2>1, <2>2, <2>5, <2>7 DEF IInv, RefcountExact
<2> QED
    BY <2>6, <2>7
<1>6. NoUseAfterFree'
  BY DEF IInv, TypeOK, NoUseAfterFree, Workers, Notifying, Locks, NotifySub, targetVars, workerVars, groupVars, frontVars
<1>7. LastAlone'
<2>1. ASSUME NEW v \in Terminal, LastWorker(v)'
      PROVE  /\ glife[wwaiter[v]] = "left"
             /\ \A u \in Terminal : Notifying(u)' /\ u # v => wwaiter[u] # wwaiter[v]
             /\ ~(fpc \in {"unlock", "free"} /\ fgroup = wwaiter[v])
    <3>1. CASE v = t
      BY <2>1, <3>1, <1>a, <1>d, <1>l, <1>f, <1>h DEF LastWorker, NotifySub, Notifying, IInv, TypeOK
    <3>2. CASE v # t
      BY <2>1, <3>2, <1>a DEF LastWorker, NotifySub, Notifying, IInv, TypeOK, LastAlone
    <3> QED
      BY <3>1, <3>2
<2>2. LastFront' => \A u \in Terminal : Notifying(u)' => wwaiter[u] # fgroup
    BY <1>i, <1>j DEF IInv, LastAlone, LastFront, Notifying, NotifySub, TypeOK
<2> QED
    BY <2>1, <2>2, <1>i, <1>j DEF LastAlone
<1>8. NoLeak'
<2>1. glife[g] = "left" /\ Holders(g)' = {} =>
        wpc'[t] = "signalled" /\ wwaiter'[t] = g /\ wlast'[t]
    BY <1>e, <1>l DEF NotifySub, IInv, TypeOK
<2>2. \A u \in Terminal : u # t => wpc'[u] = wpc[u] /\ wwaiter'[u] = wwaiter[u] /\ wlast'[u] = wlast[u]
    BY DEF NotifySub, IInv, TypeOK
<2>3. \A h \in Group : glife[h] = "left" /\ h # g =>
        \/ Holders(h) # {}
        \/ fgroup = h /\ fpc \in {"unlock", "free"} /\ flast
        \/ \E u \in Terminal : u # t /\ wpc[u] \in {"signalled", "free"} /\ wwaiter[u] = h /\ wlast[u]
    BY DEF IInv, NoLeak
<2>4. fpc \in {"unlock", "free"} => fpc' = fpc
    BY DEF NotifySub
<2> QED
    BY <1>0, <1>j, <2>1, <2>2, <2>3, <2>4 DEF NoLeak
<1>9. CountBounded'
  BY <1>a, <1>c, HoldersFinite DEF IInv, TypeOK, CountBounded, n_targets, NotifySub
<1>10. ScanAhead'
  BY DEF IInv, TypeOK, ScanAhead, Locks, NotifySub, targetVars, workerVars, groupVars, frontVars
<1>11. SleepsForASignal'
  BY <1>0, HoldersFinite DEF IInv, TypeOK, SleepsForASignal, NoneFinished, n_targets, Locks, NotifySub, targetVars, workerVars, groupVars, frontVars
<1> QED
  BY <1>1, <1>2, <1>3, <1>4, <1>5, <1>6, <1>7, <1>8, <1>9, <1>10, <1>11 DEF IInv

\* It frees the group only if it was the last.
LEMMA NotifyUnlockKeeps ==
  ASSUME IInv, NEW t \in Terminal, NotifyUnlock(t)
  PROVE  IInv'
<1>0. \A h \in Group : Holders(h)' = Holders(h)
  BY DEF IInv, TypeOK, Holders, Workers, NotifyUnlock, targetVars, workerVars, groupVars, frontVars
<1>1. TypeOK'
  BY DEF IInv, TypeOK, NotifyUnlock, targetVars, workerVars, groupVars, frontVars
<1>2. Workers'
  BY DEF IInv, TypeOK, Workers, Notifying, NotifyUnlock, targetVars, workerVars, groupVars, frontVars
<1>3. Locks'
  BY FrontAssumption, TerminalAssumption, GroupAssumption DEF IInv, TypeOK, Workers, Locks, Notifying, NotifyUnlock, targetVars, workerVars, groupVars, frontVars
<1>4. Registered'
  BY DEF IInv, TypeOK, Registered, Workers, Locks, NoUseAfterFree, NotifyUnlock, targetVars, workerVars, groupVars, frontVars
<1>5. RefcountExact'
  BY <1>0, HoldersFinite DEF IInv, TypeOK, RefcountExact, NotifyUnlock, targetVars, workerVars, groupVars, frontVars
<1>6. NoUseAfterFree'
  BY DEF IInv, TypeOK, NoUseAfterFree, Workers, Notifying, Locks, NotifyUnlock, targetVars, workerVars, groupVars, frontVars
<1>7. LastAlone'
  BY DEF IInv, TypeOK, LastAlone, LastWorker, LastFront, Workers, Notifying, Locks, NotifyUnlock, targetVars, workerVars, groupVars, frontVars
<1>8. NoLeak'
  BY <1>0, HoldersFinite DEF IInv, TypeOK, NoLeak, Locks, Workers, Notifying, NotifyUnlock, targetVars, workerVars, groupVars, frontVars
<1>9. CountBounded'
  BY DEF IInv, TypeOK, CountBounded, n_targets, NotifyUnlock, targetVars, workerVars, groupVars, frontVars
<1>10. ScanAhead'
  BY DEF IInv, TypeOK, ScanAhead, Locks, NotifyUnlock, targetVars, workerVars, groupVars, frontVars
<1>11. SleepsForASignal'
  BY <1>0, HoldersFinite DEF IInv, TypeOK, SleepsForASignal, NoneFinished, n_targets, Locks, NotifyUnlock, targetVars, workerVars, groupVars, frontVars
<1> QED
  BY <1>1, <1>2, <1>3, <1>4, <1>5, <1>6, <1>7, <1>8, <1>9, <1>10, <1>11 DEF IInv

\* Nobody else is at the group when a worker frees it.
LEMMA NotifyFreeKeeps ==
  ASSUME IInv, NEW t \in Terminal, NotifyFree(t)
  PROVE  IInv'
<1> DEFINE g == wwaiter[t]
<1>0. \A h \in Group : Holders(h)' = Holders(h)
  BY DEF IInv, TypeOK, Holders, Workers, NotifyFree, targetVars
<1>a. g \in Group /\ glife[g] = "left"
  BY DEF IInv, Workers, Notifying, LastAlone, LastWorker, NotifyFree
<1>b. /\ \A u \in Terminal : Notifying(u) /\ u # t => wwaiter[u] # g
      /\ ~(fpc \in {"unlock", "free"} /\ fgroup = g)
  BY <1>a DEF IInv, Workers, Notifying, LastAlone, LastWorker, NotifyFree
<1>1. TypeOK'
  BY DEF IInv, TypeOK, NotifyFree, targetVars, workerVars, groupVars, frontVars
<1>2. Workers'
  BY DEF IInv, TypeOK, Workers, Notifying, NotifyFree, targetVars, workerVars, groupVars, frontVars
<1>3. Locks'
  BY FrontAssumption, TerminalAssumption, GroupAssumption DEF IInv, TypeOK, Workers, Locks, Notifying, NotifyFree, targetVars, workerVars, groupVars, frontVars
<1>4. Registered'
  BY <1>a DEF IInv, TypeOK, Registered, NotifyFree, targetVars, frontVars
<1>5. RefcountExact'
  BY <1>0, <1>a DEF IInv, TypeOK, RefcountExact, NotifyFree
<1>6. NoUseAfterFree'
  BY <1>a, <1>b DEF IInv, TypeOK, NoUseAfterFree, Workers, Notifying, NotifyFree, targetVars, frontVars
<1>7. LastAlone'
  BY DEF IInv, TypeOK, LastAlone, LastWorker, LastFront, Workers, Notifying, Locks, NotifyFree, targetVars, workerVars, groupVars, frontVars
<1>8. NoLeak'
  BY <1>0, HoldersFinite DEF IInv, TypeOK, NoLeak, Locks, Workers, Notifying, NotifyFree, targetVars, workerVars, groupVars, frontVars
<1>9. CountBounded'
  BY DEF IInv, TypeOK, CountBounded, n_targets, NotifyFree, targetVars, workerVars, groupVars, frontVars
<1>10. ScanAhead'
  BY DEF IInv, TypeOK, ScanAhead, Locks, NotifyFree, targetVars, workerVars, groupVars, frontVars
<1>11. SleepsForASignal'
  BY <1>0, HoldersFinite DEF IInv, TypeOK, SleepsForASignal, NoneFinished, n_targets, Locks, NotifyFree, targetVars, workerVars, groupVars, frontVars
<1> QED
  BY <1>1, <1>2, <1>3, <1>4, <1>5, <1>6, <1>7, <1>8, <1>9, <1>10, <1>11 DEF IInv

\* The initial states satisfy the invariant.
LEMMA InitIInv == Init => IInv
<1> SUFFICES ASSUME Init PROVE IInv
  OBVIOUS
<1>1. TypeOK
  BY DEF Init, TypeOK
<1>2. Workers /\ Locks
  BY TerminalAssumption DEF Init, Workers, Locks, Notifying
<1>3. Registered /\ RefcountExact /\ NoUseAfterFree
  BY GroupAssumption DEF Init, Registered, RefcountExact, NoUseAfterFree
<1>4. LastAlone /\ NoLeak
  BY DEF Init, LastAlone, LastWorker, LastFront, NoLeak
<1>5. CountBounded /\ ScanAhead /\ SleepsForASignal
  BY DEF Init, CountBounded, ScanAhead, SleepsForASignal
<1> QED
  BY <1>1, <1>2, <1>3, <1>4, <1>5 DEF IInv

\* A step that changes nothing keeps it.
LEMMA StutterKeeps == IInv /\ UNCHANGED vars => IInv'
<1> SUFFICES ASSUME IInv, UNCHANGED vars PROVE IInv'
  OBVIOUS
<1>0. \A h \in Group : Holders(h)' = Holders(h)
  BY DEF Holders, vars, targetVars, workerVars
<1> QED
  BY <1>0 DEF IInv, TypeOK, Workers, Notifying, Locks, Registered, RefcountExact, NoUseAfterFree,
   LastAlone, LastWorker, LastFront, NoLeak, CountBounded, ScanAhead, SleepsForASignal, n_targets,
   NoneFinished, vars, targetVars, workerVars, groupVars, frontVars

\* Every step keeps the invariant.
LEMMA NextKeeps == IInv /\ [Next]_vars => IInv'
<1> SUFFICES ASSUME IInv, [Next]_vars PROVE IInv'
  OBVIOUS
<1>1. CASE FrontCall
  BY <1>1, NewKeeps, PushTargetKeeps, WaitCallKeeps, PopStartKeeps, DestroyCallKeeps
  DEF FrontCall
<1>2. CASE FrontStep
  BY <1>2, WaitKeeps, PopScanKeeps, ClearTargetKeeps, ClearEndKeeps,
     DestroyLockKeeps, DestroySubKeeps, DestroyUnlockKeeps, DestroyFreeKeeps
  DEF FrontStep
<1>3. CASE SpuriousWake
  BY <1>3, SpuriousWakeKeeps
<1>4. CASE \E t \in Terminal : Work(t)
  BY <1>4, PublishKeeps, NotifyLockKeeps, NotifySubKeeps, NotifyUnlockKeeps, NotifyFreeKeeps
  DEF Work
<1>5. CASE Finished \/ UNCHANGED vars
  BY <1>5, StutterKeeps DEF Finished
<1> QED
  BY <1>1, <1>2, <1>3, <1>4, <1>5 DEF Next

\* The inductive invariant holds in every state.
THEOREM Invariance == SafeSpec => []IInv
<1> QED
  BY InitIInv, NextKeeps, PTL DEF SafeSpec

\* The type invariant, for every number of terminals and groups.
THEOREM TypeCorrect == SafeSpec => []TypeOK
<1>1. IInv => TypeOK
  BY DEF IInv
<1> QED
  BY <1>1, Invariance, PTL

\* A group is never touched after it was freed, for every number of terminals and groups.
THEOREM GroupAlive == SafeSpec => []NoUseAfterFree
<1>1. IInv => NoUseAfterFree
  BY DEF IInv
<1> QED
  BY <1>1, Invariance, PTL

\* A group the frontend is done with always has somebody who is going to free it.
THEOREM GroupNotLeaked == SafeSpec => []NoLeak
<1>1. IInv => NoLeak
  BY DEF IInv
<1> QED
  BY <1>1, Invariance, PTL

\* The frontend never sleeps without a worker that is going to signal it.
THEOREM SleepIsSignalled == SafeSpec => []SleepsForASignal
<1>1. IInv => SleepsForASignal
  BY DEF IInv
<1> QED
  BY <1>1, Invariance, PTL

\* A pop that the reference count let begin finds a target, for every number of them:
\* what a wait promised is there.
THEOREM PopFindsTarget == SafeSpec => PopFinds
<1>1. IInv /\ [Next]_vars => [fpc = "scan" /\ fpc' = "idle" => popped' # None]_vars
  <2> SUFFICES ASSUME IInv, Next, fpc = "scan", fpc' = "idle"
               PROVE  popped' # None
    OBVIOUS
  <2>1. PICK t \in Terminal : PopScan(t)
    BY DEF Next, FrontCall, FrontStep, SpuriousWake, Work, Finished, vars, frontVars, New,
       PushTarget, WaitCall, PopStart, DestroyCall, Wait, ClearEnd, DestroyLock, DestroySub,
       DestroyUnlock, DestroyFree, ClearTarget, Publish, NotifyLock, NotifySub, NotifyUnlock,
       NotifyFree
  <2>2. is_result[t]
    BY <2>1 DEF IInv, ScanAhead, PopScan
  <2> QED
    BY <2>1, <2>2, TerminalAssumption DEF PopScan
<1> QED
  BY <1>1, Invariance, PTL DEF SafeSpec, PopFinds
=============================================================================
