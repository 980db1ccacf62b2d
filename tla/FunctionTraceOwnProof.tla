------------------------ MODULE FunctionTraceOwnProof ------------------------
(***************************************************************************)
(* Proofs about FunctionTrace in a build with IOS_FREEZES whose table has  *)
(* room for every thread and a vacant slot more: a thread's slot is its    *)
(* own, for good, and the cleanup never runs.                              *)
(***************************************************************************)
EXTENDS FunctionTraceProof, FiniteSetTheorems

RoomForAll == Locked /\ IsFiniteSet(Threads) /\ Cardinality(Threads) < MaxSlots

\* Only the owner of the lock is between lines 84 and 109.
LockHeld == \A t \in Threads : pc[t] \in {"scan", "cleanup", "claimIndent"} => lock = t

NoCleanup == \A t \in Threads : pc[t] # "cleanup"

\* A slot without an owner is vacant: nobody counts in it.
VacantClean ==
  \A s \in Slots : threadId[s] = NoThread => indentation[s] = 0 /\ lastAccessDelta[s] = 0

\* lowestVacantIndex is the first vacant slot the scan has met; the claim
\* takes it, and the lookup forgets it.
ScanVacant ==
  \A t \in Threads :
    /\ pc[t] = "scan" =>
         /\ \A s \in Slots : s < i[t] /\ (lowestVacantIndex[t] = None \/ s < lowestVacantIndex[t])
              => threadId[s] # NoThread
         /\ lowestVacantIndex[t] # None =>
              lowestVacantIndex[t] < i[t] /\ threadId[lowestVacantIndex[t]] = NoThread
    /\ pc[t] = "claimIndent" => threadId[lowestVacantIndex[t]] = t
    /\ pc[t] \notin {"scan", "cleanup", "claimIndent"} => lowestVacantIndex[t] = None

\* The inductive invariant.
OInv ==
  /\ IInv
  /\ LockHeld
  /\ NoCleanup
  /\ VacantClean
  /\ ScanVacant
  /\ OwnSlot

-----------------------------------------------------------------------------
(***************************************************************************)
(* The initial states satisfy it: every thread is idle, every slot vacant. *)
(***************************************************************************)
LEMMA InitOInv == Init => OInv
<1> SUFFICES ASSUME Init PROVE OInv
  OBVIOUS
<1>1. IInv
  BY InitIInv
<1>2. LockHeld /\ NoCleanup
  BY DEF Init, LockHeld, NoCleanup
<1>3. VacantClean
  BY DEF Init, VacantClean
<1>4. ScanVacant
  BY DEF Init, ScanVacant
<1>5. OwnSlot
  BY DEF Init, OwnSlot, HasResult
<1> QED
  BY <1>1, <1>2, <1>3, <1>4, <1>5 DEF OInv

(***************************************************************************)
(* There is always a vacant slot before the last one for a thread that has *)
(* none: the owners of the others are distinct, and fewer than the slots.  *)
(***************************************************************************)
LEMMA VacancyBeforeLast ==
  ASSUME RoomForAll, TypeOK, UniqueSlot, NEW t \in Threads,
         \A s \in Claimable : threadId[s] # t
  PROVE  \E s \in Claimable : threadId[s] = NoThread
<1> SUFFICES ASSUME \A s \in Claimable : threadId[s] # NoThread
             PROVE  FALSE
  OBVIOUS
<1> DEFINE others == Threads \ {t}
           owner  == [s \in Claimable |-> threadId[s]]
<1>1. IsFiniteSet(others) /\ Cardinality(others) = Cardinality(Threads) - 1
  BY FS_RemoveElement DEF RoomForAll
<1>2. Claimable = 0 .. (MaxSlots - 2)
  BY SlotsAssumption DEF Claimable, Slots, LastSlot
<1>3. IsFiniteSet(Claimable) /\ Cardinality(Claimable) = MaxSlots - 1
  BY <1>2, SlotsAssumption, FS_Interval
<1>4. Cardinality(Threads) \in Nat
  BY FS_CardinalityType DEF RoomForAll
<1>5. Cardinality(others) < Cardinality(Claimable)
  BY <1>1, <1>3, <1>4, SlotsAssumption DEF RoomForAll
<1>6. owner \in [Claimable -> others]
  BY DEF TypeOK, Claimable
<1> HIDE DEF others, owner
<1>7. PICK r, s \in Claimable : r # s /\ owner[r] = owner[s]
  BY <1>1, <1>3, <1>5, <1>6, FS_PigeonHole
<1>8. threadId[r] = threadId[s] /\ threadId[r] # NoThread /\ r \in Slots /\ s \in Slots
  BY <1>7 DEF Claimable, owner
<1> QED
  BY <1>7, <1>8 DEF UniqueSlot

(***************************************************************************)
(* So no scan ever finds only the last slot vacant, and none cleans up.    *)
(***************************************************************************)
LEMMA NeverCleansUp ==
  ASSUME RoomForAll, OInv, NEW t \in Threads
  PROVE  ~ StartCleanup(t)
<1> SUFFICES ASSUME StartCleanup(t)
             PROVE  FALSE
  OBVIOUS
<1> USE DEF OInv, IInv
<1>1. /\ pc[t] = "scan" /\ i[t] = MaxSlots /\ lowestVacantIndex[t] = LastSlot
  BY DEF StartCleanup, NoRoom
<1>2. \A s \in Claimable : s \in Slots /\ s < MaxSlots /\ s < LastSlot
  BY SlotsAssumption DEF Claimable, Slots, LastSlot
<1>3. \A s \in Claimable : threadId[s] # t
  BY <1>1, <1>2 DEF ScanMissed
<1>4. \A s \in Claimable : threadId[s] # NoThread
  BY <1>1, <1>2 DEF ScanVacant
<1> QED
  BY <1>3, <1>4, VacancyBeforeLast

(***************************************************************************)
(* The lock is taken before the scan and kept until the lookup returns, so *)
(* nobody else is inside when it is freed.                                 *)
(***************************************************************************)
LEMMA LockStep ==
  ASSUME RoomForAll, OInv, [Next]_vars
  PROVE  LockHeld'
<1> USE ThreadsAssumption DEF OInv, IInv, TypeOK, table, lookup, Goto, LockHeld, RoomForAll
<1>1. ASSUME NEW t \in Threads, NEW who \in Callers, Call(t, who)
      PROVE  LockHeld'
  BY <1>1 DEF Call
<1>2. ASSUME NEW t \in Threads, AcquireLock(t)
      PROVE  LockHeld'
  BY <1>2 DEF AcquireLock
<1>3. ASSUME NEW t \in Threads, FindSlot(t)
      PROVE  LockHeld'
  BY <1>3 DEF FindSlot, Return
<1>4. ASSUME NEW t \in Threads, ScanSlot(t)
      PROVE  LockHeld'
  BY <1>4 DEF ScanSlot, NextSlot
<1>5. ASSUME NEW t \in Threads, StartCleanup(t)
      PROVE  LockHeld'
  BY <1>5, NeverCleansUp
<1>6. ASSUME NEW t \in Threads, CleanupSlot(t)
      PROVE  LockHeld'
  BY <1>6 DEF CleanupSlot, NoCleanup
<1>7. ASSUME NEW t \in Threads, GiveUp(t)
      PROVE  LockHeld'
  BY <1>7 DEF GiveUp, NoCleanup
<1>8. ASSUME NEW t \in Threads, ClaimId(t)
      PROVE  LockHeld'
  BY <1>8 DEF ClaimId
<1>9. ASSUME NEW t \in Threads, ClaimIndent(t)
      PROVE  LockHeld'
  BY <1>9 DEF ClaimIndent, Return
<1>10. ASSUME NEW t \in Threads, NoSlot(t)
       PROVE  LockHeld'
  BY <1>10 DEF NoSlot, Finish
<1>11. ASSUME NEW t \in Threads, Decrement(t)
       PROVE  LockHeld'
  BY <1>11 DEF Decrement, Indent
<1>12. ASSUME NEW t \in Threads, Format(t)
       PROVE  LockHeld'
  BY <1>12 DEF Format
<1>13. ASSUME NEW t \in Threads, LogLine(t)
       PROVE  LockHeld'
  BY <1>13 DEF LogLine, Finish
<1>14. ASSUME NEW t \in Threads, Increment(t)
       PROVE  LockHeld'
  BY <1>14 DEF Increment, Indent
<1>15. ASSUME NEW t \in Threads, UpdateLastAccessDelta(t)
       PROVE  LockHeld'
  BY <1>15 DEF UpdateLastAccessDelta, Finish
<1>16. CASE Tick
  BY <1>16 DEF Tick
<1>17. CASE UNCHANGED vars
  BY <1>17 DEF vars
<1> HIDE DEF OInv, IInv, TypeOK, LockHeld
<1> QED
  BY <1>1, <1>2, <1>3, <1>4, <1>5, <1>6, <1>7, <1>8, <1>9, <1>10, <1>11, <1>12,
     <1>13, <1>14, <1>15, <1>16, <1>17
     DEF Next, Construct, Destroy, TrackCall, Lookup, Trace, Callers

(***************************************************************************)
(* Only StartCleanup could break this.                                     *)
(***************************************************************************)
LEMMA NoCleanupStep ==
  ASSUME RoomForAll, OInv, [Next]_vars
  PROVE  NoCleanup'
<1> USE ThreadsAssumption DEF OInv, IInv, TypeOK, table, lookup, Goto, NoCleanup
<1>1. ASSUME NEW t \in Threads, NEW who \in Callers, Call(t, who)
      PROVE  NoCleanup'
  BY <1>1 DEF Call
<1>2. ASSUME NEW t \in Threads, AcquireLock(t)
      PROVE  NoCleanup'
  BY <1>2 DEF AcquireLock
<1>3. ASSUME NEW t \in Threads, FindSlot(t)
      PROVE  NoCleanup'
  BY <1>3 DEF FindSlot, Return
<1>4. ASSUME NEW t \in Threads, ScanSlot(t)
      PROVE  NoCleanup'
  BY <1>4 DEF ScanSlot, NextSlot
<1>5. ASSUME NEW t \in Threads, StartCleanup(t)
      PROVE  NoCleanup'
  BY <1>5, NeverCleansUp
<1>6. ASSUME NEW t \in Threads, CleanupSlot(t)
      PROVE  NoCleanup'
  BY <1>6 DEF CleanupSlot, NoCleanup
<1>7. ASSUME NEW t \in Threads, GiveUp(t)
      PROVE  NoCleanup'
  BY <1>7 DEF GiveUp, NoCleanup
<1>8. ASSUME NEW t \in Threads, ClaimId(t)
      PROVE  NoCleanup'
  BY <1>8 DEF ClaimId
<1>9. ASSUME NEW t \in Threads, ClaimIndent(t)
      PROVE  NoCleanup'
  BY <1>9 DEF ClaimIndent, Return
<1>10. ASSUME NEW t \in Threads, NoSlot(t)
       PROVE  NoCleanup'
  BY <1>10 DEF NoSlot, Finish
<1>11. ASSUME NEW t \in Threads, Decrement(t)
       PROVE  NoCleanup'
  BY <1>11 DEF Decrement, Indent
<1>12. ASSUME NEW t \in Threads, Format(t)
       PROVE  NoCleanup'
  BY <1>12 DEF Format
<1>13. ASSUME NEW t \in Threads, LogLine(t)
       PROVE  NoCleanup'
  BY <1>13 DEF LogLine, Finish
<1>14. ASSUME NEW t \in Threads, Increment(t)
       PROVE  NoCleanup'
  BY <1>14 DEF Increment, Indent
<1>15. ASSUME NEW t \in Threads, UpdateLastAccessDelta(t)
       PROVE  NoCleanup'
  BY <1>15 DEF UpdateLastAccessDelta, Finish
<1>16. CASE Tick
  BY <1>16 DEF Tick
<1>17. CASE UNCHANGED vars
  BY <1>17 DEF vars
<1> HIDE DEF OInv, IInv, TypeOK, NoCleanup
<1> QED
  BY <1>1, <1>2, <1>3, <1>4, <1>5, <1>6, <1>7, <1>8, <1>9, <1>10, <1>11, <1>12,
     <1>13, <1>14, <1>15, <1>16, <1>17
     DEF Next, Construct, Destroy, TrackCall, Lookup, Trace, Callers

(***************************************************************************)
(* The counters are written in the slot a thread owns, and the claim       *)
(* writes the slot's owner first.                                          *)
(***************************************************************************)
LEMMA CleanStep ==
  ASSUME RoomForAll, OInv, [Next]_vars
  PROVE  VacantClean'
<1> USE ThreadsAssumption DEF OInv, IInv, TypeOK, table, lookup, Goto, VacantClean, OwnSlot, HasResult, HoldsSlot, ScanVacant, Claimable, IndexInBounds, None, Slots
<1>1. ASSUME NEW t \in Threads, NEW who \in Callers, Call(t, who)
      PROVE  VacantClean'
  BY <1>1 DEF Call
<1>2. ASSUME NEW t \in Threads, AcquireLock(t)
      PROVE  VacantClean'
  BY <1>2 DEF AcquireLock
<1>3. ASSUME NEW t \in Threads, FindSlot(t)
      PROVE  VacantClean'
  BY <1>3 DEF FindSlot, Return
<1>4. ASSUME NEW t \in Threads, ScanSlot(t)
      PROVE  VacantClean'
  BY <1>4 DEF ScanSlot, NextSlot
<1>5. ASSUME NEW t \in Threads, StartCleanup(t)
      PROVE  VacantClean'
  BY <1>5, NeverCleansUp
<1>6. ASSUME NEW t \in Threads, CleanupSlot(t)
      PROVE  VacantClean'
  BY <1>6 DEF CleanupSlot, NoCleanup
<1>7. ASSUME NEW t \in Threads, GiveUp(t)
      PROVE  VacantClean'
  BY <1>7 DEF GiveUp, NoCleanup
<1>8. ASSUME NEW t \in Threads, ClaimId(t)
      PROVE  VacantClean'
  BY <1>8 DEF ClaimId
<1>9. ASSUME NEW t \in Threads, ClaimIndent(t)
      PROVE  VacantClean'
  BY <1>9 DEF ClaimIndent, Return
<1>10. ASSUME NEW t \in Threads, NoSlot(t)
       PROVE  VacantClean'
  BY <1>10 DEF NoSlot, Finish
<1>11. ASSUME NEW t \in Threads, Decrement(t)
       PROVE  VacantClean'
  BY <1>11 DEF Decrement, Indent
<1>12. ASSUME NEW t \in Threads, Format(t)
       PROVE  VacantClean'
  BY <1>12 DEF Format
<1>13. ASSUME NEW t \in Threads, LogLine(t)
       PROVE  VacantClean'
  BY <1>13 DEF LogLine, Finish
<1>14. ASSUME NEW t \in Threads, Increment(t)
       PROVE  VacantClean'
  BY <1>14 DEF Increment, Indent
<1>15. ASSUME NEW t \in Threads, UpdateLastAccessDelta(t)
       PROVE  VacantClean'
  BY <1>15 DEF UpdateLastAccessDelta, Finish
<1>16. CASE Tick
  BY <1>16 DEF Tick
<1>17. CASE UNCHANGED vars
  BY <1>17 DEF vars
<1> HIDE DEF OInv, IInv, TypeOK, VacantClean, OwnSlot, HasResult, HoldsSlot, ScanVacant, Claimable, IndexInBounds, Slots
<1> QED
  BY <1>1, <1>2, <1>3, <1>4, <1>5, <1>6, <1>7, <1>8, <1>9, <1>10, <1>11, <1>12,
     <1>13, <1>14, <1>15, <1>16, <1>17
     DEF Next, Construct, Destroy, TrackCall, Lookup, Trace, Callers

(***************************************************************************)
(* While a thread scans, nobody else writes an id, because that takes the  *)
(* lock.                                                                   *)
(***************************************************************************)
LEMMA ScanStep ==
  ASSUME RoomForAll, OInv, [Next]_vars
  PROVE  ScanVacant'
<1> USE ThreadsAssumption DEF OInv, IInv, TypeOK, table, lookup, Goto, ScanVacant, LockHeld, LoopStartsAtZero, VacantClean, None, Slots
<1>1. ASSUME NEW t \in Threads, NEW who \in Callers, Call(t, who)
      PROVE  ScanVacant'
  BY <1>1 DEF Call
<1>2. ASSUME NEW t \in Threads, AcquireLock(t)
      PROVE  ScanVacant'
  BY <1>2 DEF AcquireLock
<1>3. ASSUME NEW t \in Threads, FindSlot(t)
      PROVE  ScanVacant'
  BY <1>3 DEF FindSlot, Return
<1>4. ASSUME NEW t \in Threads, ScanSlot(t)
      PROVE  ScanVacant'
  <2>1. i[t] \in Slots
    BY <1>4, AtSlot DEF ScanSlot
  <2>2. isAvailable(i[t]) <=> threadId[i[t]] = NoThread
    BY <2>1 DEF isAvailable
  <2>3. /\ i'[t] = i[t] + 1 /\ lowestVacantIndex'[t] = Vacant(t)
        /\ UNCHANGED <<pc, threadId>> /\ pc[t] = "scan"
    BY <1>4 DEF ScanSlot, NextSlot
  <2>4. \A u \in Threads \ {t} :
          i'[u] = i[u] /\ lowestVacantIndex'[u] = lowestVacantIndex[u]
    BY <1>4 DEF ScanSlot, NextSlot
  <2>5. i[t] \in Nat /\ lowestVacantIndex[t] \in Int /\ i[t] # None
    BY <2>1, SlotsAssumption
  <2>6. ASSUME NEW s \in Slots, s < i'[t],
               lowestVacantIndex'[t] = None \/ s < lowestVacantIndex'[t]
        PROVE  threadId[s] # NoThread
    <3>1. s \in Int /\ s <= i[t]
      BY <2>3, <2>5, <2>6, SlotsAssumption
    <3>2. CASE lowestVacantIndex[t] # None
      BY <2>3, <2>5, <2>6, <3>1, <3>2 DEF Vacant
    <3>3. CASE lowestVacantIndex[t] = None /\ isAvailable(i[t])
      BY <2>3, <2>5, <2>6, <3>1, <3>3 DEF Vacant
    <3>4. CASE lowestVacantIndex[t] = None /\ ~ isAvailable(i[t])
      BY <2>2, <2>3, <2>5, <2>6, <3>1, <3>4 DEF Vacant
    <3> QED
      BY <3>2, <3>3, <3>4
  <2>7. lowestVacantIndex'[t] # None =>
          lowestVacantIndex'[t] < i'[t] /\ threadId[lowestVacantIndex'[t]] = NoThread
    BY <2>1, <2>2, <2>3, <2>5 DEF Vacant
  <2> QED
    BY <2>3, <2>4, <2>6, <2>7
<1>5. ASSUME NEW t \in Threads, StartCleanup(t)
      PROVE  ScanVacant'
  BY <1>5, NeverCleansUp
<1>6. ASSUME NEW t \in Threads, CleanupSlot(t)
      PROVE  ScanVacant'
  BY <1>6 DEF CleanupSlot, NoCleanup
<1>7. ASSUME NEW t \in Threads, GiveUp(t)
      PROVE  ScanVacant'
  BY <1>7 DEF GiveUp, NoCleanup
<1>8. ASSUME NEW t \in Threads, ClaimId(t)
      PROVE  ScanVacant'
  <2>1. \A u \in Threads \ {t} : pc[u] \notin {"scan", "claimIndent"}
    BY <1>8 DEF ClaimId, NoCleanup
  <2>2. pc[t] = "scan" /\ lowestVacantIndex[t] \in Slots
    BY <1>8 DEF ClaimId, NoCleanup, IndexInBounds
  <2> QED
    BY <1>8, <2>1, <2>2 DEF ClaimId
<1>9. ASSUME NEW t \in Threads, ClaimIndent(t)
      PROVE  ScanVacant'
  BY <1>9 DEF ClaimIndent, Return
<1>10. ASSUME NEW t \in Threads, NoSlot(t)
       PROVE  ScanVacant'
  BY <1>10 DEF NoSlot, Finish
<1>11. ASSUME NEW t \in Threads, Decrement(t)
       PROVE  ScanVacant'
  BY <1>11 DEF Decrement, Indent
<1>12. ASSUME NEW t \in Threads, Format(t)
       PROVE  ScanVacant'
  BY <1>12 DEF Format
<1>13. ASSUME NEW t \in Threads, LogLine(t)
       PROVE  ScanVacant'
  BY <1>13 DEF LogLine, Finish
<1>14. ASSUME NEW t \in Threads, Increment(t)
       PROVE  ScanVacant'
  BY <1>14 DEF Increment, Indent
<1>15. ASSUME NEW t \in Threads, UpdateLastAccessDelta(t)
       PROVE  ScanVacant'
  BY <1>15 DEF UpdateLastAccessDelta, Finish
<1>16. CASE Tick
  BY <1>16 DEF Tick
<1>17. CASE UNCHANGED vars
  BY <1>17 DEF vars
<1> HIDE DEF OInv, IInv, TypeOK, ScanVacant, LockHeld, LoopStartsAtZero, VacantClean, Slots
<1> QED
  BY <1>1, <1>2, <1>3, <1>4, <1>5, <1>6, <1>7, <1>8, <1>9, <1>10, <1>11, <1>12,
     <1>13, <1>14, <1>15, <1>16, <1>17
     DEF Next, Construct, Destroy, TrackCall, Lookup, Trace, Callers

(***************************************************************************)
(* A lookup returns the slot that holds the thread's id, and no claim      *)
(* lands on a slot that has an owner.                                      *)
(***************************************************************************)
LEMMA OwnStep ==
  ASSUME RoomForAll, OInv, [Next]_vars
  PROVE  OwnSlot'
<1> USE ThreadsAssumption DEF OInv, IInv, TypeOK, table, lookup, Goto, OwnSlot, HasResult, None, Slots, ScanVacant
<1>1. ASSUME NEW t \in Threads, NEW who \in Callers, Call(t, who)
      PROVE  OwnSlot'
  BY <1>1 DEF Call
<1>2. ASSUME NEW t \in Threads, AcquireLock(t)
      PROVE  OwnSlot'
  BY <1>2 DEF AcquireLock
<1>3. ASSUME NEW t \in Threads, FindSlot(t)
      PROVE  OwnSlot'
  BY <1>3 DEF FindSlot, Return
<1>4. ASSUME NEW t \in Threads, ScanSlot(t)
      PROVE  OwnSlot'
  BY <1>4 DEF ScanSlot, NextSlot
<1>5. ASSUME NEW t \in Threads, StartCleanup(t)
      PROVE  OwnSlot'
  BY <1>5, NeverCleansUp
<1>6. ASSUME NEW t \in Threads, CleanupSlot(t)
      PROVE  OwnSlot'
  BY <1>6 DEF CleanupSlot, NoCleanup
<1>7. ASSUME NEW t \in Threads, GiveUp(t)
      PROVE  OwnSlot'
  BY <1>7 DEF GiveUp, NoCleanup
<1>8. ASSUME NEW t \in Threads, ClaimId(t)
      PROVE  OwnSlot'
  <2>1. threadId[lowestVacantIndex[t]] = NoThread /\ lowestVacantIndex[t] \in Slots
    BY <1>8 DEF ClaimId, NoCleanup, IndexInBounds
  <2> QED
    BY <1>8, <2>1 DEF ClaimId
<1>9. ASSUME NEW t \in Threads, ClaimIndent(t)
      PROVE  OwnSlot'
  BY <1>9 DEF ClaimIndent, Return
<1>10. ASSUME NEW t \in Threads, NoSlot(t)
       PROVE  OwnSlot'
  BY <1>10 DEF NoSlot, Finish
<1>11. ASSUME NEW t \in Threads, Decrement(t)
       PROVE  OwnSlot'
  BY <1>11 DEF Decrement, Indent
<1>12. ASSUME NEW t \in Threads, Format(t)
       PROVE  OwnSlot'
  BY <1>12 DEF Format
<1>13. ASSUME NEW t \in Threads, LogLine(t)
       PROVE  OwnSlot'
  BY <1>13 DEF LogLine, Finish
<1>14. ASSUME NEW t \in Threads, Increment(t)
       PROVE  OwnSlot'
  BY <1>14 DEF Increment, Indent
<1>15. ASSUME NEW t \in Threads, UpdateLastAccessDelta(t)
       PROVE  OwnSlot'
  BY <1>15 DEF UpdateLastAccessDelta, Finish
<1>16. CASE Tick
  BY <1>16 DEF Tick
<1>17. CASE UNCHANGED vars
  BY <1>17 DEF vars
<1> HIDE DEF OInv, IInv, TypeOK, OwnSlot, HasResult, ScanVacant, Slots
<1> QED
  BY <1>1, <1>2, <1>3, <1>4, <1>5, <1>6, <1>7, <1>8, <1>9, <1>10, <1>11, <1>12,
     <1>13, <1>14, <1>15, <1>16, <1>17
     DEF Next, Construct, Destroy, TrackCall, Lookup, Trace, Callers

(***************************************************************************)
(* Every step of a tracer with the lock and room for every thread keeps    *)
(* OInv.                                                                   *)
(***************************************************************************)
LEMMA OwnStepAll ==
  ASSUME RoomForAll, OInv, [Next]_vars
  PROVE  OInv'
<1>1. IInv'
  BY TypeStep, HoldsStep, VacantStep, ZeroStep, BoundsStep, MissedStep, UniqueStep
     DEF OInv, IInv
<1> QED
  BY <1>1, LockStep, NoCleanupStep, CleanStep, ScanStep, OwnStep DEF OInv

-----------------------------------------------------------------------------
(***************************************************************************)
(* OInv is an invariant of the tracer if it is built with the lock and has *)
(* room for every thread.                                                  *)
(***************************************************************************)
THEOREM OwnInvariance == ASSUME RoomForAll PROVE Spec => []OInv
<1>1. Init => OInv
  BY InitOInv
<1>2. OInv /\ [Next]_vars => OInv'
  BY OwnStepAll
<1> QED
  BY <1>1, <1>2, PTL DEF Spec

(***************************************************************************)
(* With the lock and enough slots, for any number of threads, the slot a   *)
(* traced call uses is its thread's own (FunctionTrace.cpp:48-69).         *)
(***************************************************************************)
THEOREM OwnCorrect == ASSUME RoomForAll PROVE Spec => []OwnSlot
<1>1. OInv => OwnSlot
  BY DEF OInv
<1> QED
  BY <1>1, OwnInvariance, PTL

(***************************************************************************)
(* An id that is in the table stays where it is: no claim overwrites it    *)
(* and no cleanup collects it.                                             *)
(***************************************************************************)
LEMMA KeptStep ==
  ASSUME RoomForAll, OInv, [Next]_vars
  PROVE  \A s \in Slots : threadId[s] # NoThread => threadId'[s] = threadId[s]
<1> DEFINE Kept == \A s \in Slots : threadId[s] # NoThread => threadId'[s] = threadId[s]
<1>1. ASSUME NEW t \in Threads, ClaimId(t)
      PROVE  Kept
  <2>1. threadId[lowestVacantIndex[t]] = NoThread
    BY <1>1 DEF ClaimId, OInv, NoCleanup, IInv, IndexInBounds, ScanVacant
  <2> QED
    BY <1>1, <2>1 DEF ClaimId, OInv, IInv, TypeOK
<1>2. ASSUME NEW t \in Threads, CleanupSlot(t)
      PROVE  Kept
  BY <1>2 DEF CleanupSlot, OInv, NoCleanup
<1>3. ASSUME ~ \E t \in Threads : ClaimId(t) \/ CleanupSlot(t)
      PROVE  threadId' = threadId
  BY <1>3 DEF Next, Construct, Destroy, TrackCall, Call, AcquireLock, Lookup, Trace,
     FindSlot, ScanSlot, StartCleanup, GiveUp, ClaimIndent, NoSlot, Decrement, Format,
     LogLine, Increment, UpdateLastAccessDelta, Tick, vars, table
<1> QED
  BY <1>1, <1>2, <1>3

(***************************************************************************)
(* With the lock and enough slots no slot ever changes hands.              *)
(***************************************************************************)
THEOREM KeptCorrect == ASSUME RoomForAll PROVE Spec => OwnerKept
<1>1. OInv /\ [Next]_vars
       => [\A s \in Slots : threadId[s] # NoThread => threadId'[s] = threadId[s]]_vars
  BY KeptStep
<1> QED
  BY <1>1, OwnInvariance, PTL DEF Spec, OwnerKept

=============================================================================
