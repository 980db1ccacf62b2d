------------------------- MODULE FunctionTraceProof -------------------------
(***************************************************************************)
(* Proofs about FunctionTrace, for any number of threads and slots, with   *)
(* and without the lock: its type invariant, that the table is never       *)
(* indexed out of bounds, and that no thread owns two slots.               *)
(***************************************************************************)
EXTENDS FunctionTrace, TLAPS

\* A thread that is about to use the slot it looked up has one.
HoldsSlot ==
  \A t \in Threads :
    (\/ pc[t] \in {"format", "increment", "touch"}
     \/ pc[t] = "log" /\ caller[t] = "ctor")
      => threadListIndex[t] # None

\* The last slot stays as the program's start left it.
LastSlotVacant == isAvailable(LastSlot)

\* Every loop over the table starts at its first slot.
LoopStartsAtZero ==
  \A t \in Threads : pc[t] \notin {"scan", "cleanup", "claimIndent"} => i[t] = 0

\* What a thread has visited of the table does not hold its id.
ScanMissed ==
  \A t \in Threads, s \in Slots :
    (\/ pc[t] = "scan" /\ s < i[t]
     \/ pc[t] = "cleanup")
      => threadId[s] # t

\* The inductive invariant.
IInv ==
  /\ TypeOK
  /\ HoldsSlot
  /\ LastSlotVacant
  /\ LoopStartsAtZero
  /\ IndexInBounds
  /\ ScanMissed
  /\ UniqueSlot

-----------------------------------------------------------------------------
(***************************************************************************)
(* The initial states satisfy the inductive invariant.                     *)
(***************************************************************************)
LEMMA InitIInv == Init => IInv
<1> SUFFICES ASSUME Init PROVE IInv
  OBVIOUS
<1> USE SlotsAssumption DEF Init, Slots, LastSlot, None
<1>1. TypeOK
  BY DEF TypeOK, Callers
<1>2. HoldsSlot
  BY DEF HoldsSlot
<1>3. LastSlotVacant
  BY DEF LastSlotVacant, isAvailable
<1>4. LoopStartsAtZero
  BY DEF LoopStartsAtZero
<1>5. IndexInBounds
  BY DEF IndexInBounds, HasResult
<1>6. ScanMissed
  BY DEF ScanMissed
<1>7. UniqueSlot
  BY DEF UniqueSlot
<1> QED
  BY <1>1, <1>2, <1>3, <1>4, <1>5, <1>6, <1>7 DEF IInv

(***************************************************************************)
(* A loop that has not passed the last slot is at a slot.                  *)
(***************************************************************************)
LEMMA AtSlot ==
  ASSUME TypeOK, NEW t \in Threads, i[t] < MaxSlots
  PROVE  i[t] \in Slots /\ i[t] + 1 \in 0 .. MaxSlots
BY SlotsAssumption DEF TypeOK, Slots

(***************************************************************************)
(* Assigning a counter keeps the others, and the table's type.             *)
(***************************************************************************)
LEMMA CounterUpdate ==
  ASSUME NEW f \in [Slots -> Int], NEW s, NEW n \in Int
  PROVE  [f EXCEPT ![s] = n] \in [Slots -> Int]
OBVIOUS

(***************************************************************************)
(* What a lookup leaves in the thread's locals when it returns.            *)
(***************************************************************************)
LEMMA ReturnTypes ==
  ASSUME TypeOK, NEW t \in Threads, NEW n \in Slots \cup {None}, Return(t, n)
  PROVE  /\ threadListIndex' \in [Threads -> Slots \cup {None}]
         /\ lock' \in Threads \cup {NoThread}
         /\ i' \in [Threads -> 0 .. MaxSlots]
         /\ lowestVacantIndex' \in [Threads -> Slots \cup {None}]
         /\ magicNumber' \in [Threads -> Int]
         /\ UNCHANGED <<now, live, caller, buffer>>
         /\ pc' = [pc EXCEPT ![t] = "found"]
<1>1. 0 \in 0 .. MaxSlots
  BY SlotsAssumption
<1> QED
  BY <1>1 DEF TypeOK, Return, Goto

(***************************************************************************)
(* Every step keeps the types: the counters stay integers because no       *)
(* thread formats a line from a slot it does not have.                     *)
(***************************************************************************)
LEMMA TypeStep ==
  ASSUME TypeOK, HoldsSlot, [Next]_vars
  PROVE  TypeOK'
<1> USE TimeAssumption
    DEF TypeOK, Callers, table, lookup, Goto
<1>1. ASSUME NEW t \in Threads, NEW who \in Callers, Call(t, who)
      PROVE  TypeOK'
  BY <1>1 DEF Call
<1>2. ASSUME NEW t \in Threads, AcquireLock(t)
      PROVE  TypeOK'
  BY <1>2 DEF AcquireLock
<1>3. ASSUME NEW t \in Threads, FindSlot(t)
      PROVE  TypeOK'
  <2>1. i[t] \in Slots
    BY <1>3, AtSlot DEF FindSlot
  <2> QED
    BY <1>3, <2>1, ReturnTypes DEF FindSlot
<1>4. ASSUME NEW t \in Threads, ScanSlot(t)
      PROVE  TypeOK'
  <2>1. i[t] \in Slots /\ i[t] + 1 \in 0 .. MaxSlots
    BY <1>4, AtSlot DEF ScanSlot
  <2>2. Vacant(t) \in Slots \cup {None}
    BY <2>1 DEF Vacant
  <2> QED
    BY <1>4, <2>1, <2>2 DEF ScanSlot, NextSlot
<1>5. ASSUME NEW t \in Threads, StartCleanup(t)
      PROVE  TypeOK'
  BY <1>5 DEF StartCleanup, Elapsed
<1>6. ASSUME NEW t \in Threads, CleanupSlot(t)
      PROVE  TypeOK'
  <2>1. i[t] \in Slots /\ i[t] + 1 \in 0 .. MaxSlots
    BY <1>6, AtSlot DEF CleanupSlot
  <2>2. Vacant(t) \in Slots \cup {None}
    BY <2>1 DEF Vacant
  <2>3. i' \in [Threads -> 0 .. MaxSlots] /\ lowestVacantIndex' \in [Threads -> Slots \cup {None}]
    BY <1>6, <2>1, <2>2 DEF CleanupSlot, NextSlot
  <2>4. /\ threadId' \in [Slots -> Threads \cup {NoThread}]
        /\ indentation' \in [Slots -> Int]
        /\ lastAccessDelta' \in [Slots -> Int]
        /\ baseTime' \in Int
    BY <1>6 DEF CleanupSlot, Collect
  <2> QED
    BY <1>6, <2>3, <2>4 DEF CleanupSlot
<1>7. ASSUME NEW t \in Threads, GiveUp(t)
      PROVE  TypeOK'
  BY <1>7, ReturnTypes DEF GiveUp
<1>8. ASSUME NEW t \in Threads, ClaimId(t)
      PROVE  TypeOK'
  BY <1>8 DEF ClaimId
<1>9. ASSUME NEW t \in Threads, ClaimIndent(t)
      PROVE  TypeOK'
  <2>1. Return(t, lowestVacantIndex[t]) /\ lowestVacantIndex[t] \in Slots \cup {None}
    BY <1>9 DEF ClaimIndent
  <2>2. indentation' \in [Slots -> Int]
    BY <1>9, CounterUpdate DEF ClaimIndent
  <2>3. UNCHANGED <<threadId, lastAccessDelta, baseTime>>
    BY <1>9 DEF ClaimIndent
  <2>4. /\ threadListIndex' \in [Threads -> Slots \cup {None}]
        /\ lock' \in Threads \cup {NoThread}
        /\ i' \in [Threads -> 0 .. MaxSlots]
        /\ lowestVacantIndex' \in [Threads -> Slots \cup {None}]
        /\ magicNumber' \in [Threads -> Int]
        /\ UNCHANGED <<now, live, caller, buffer>>
        /\ pc' = [pc EXCEPT ![t] = "found"]
    BY <2>1, ReturnTypes
  <2> QED
    BY <2>2, <2>3, <2>4
<1>10. ASSUME NEW t \in Threads, NoSlot(t)
       PROVE  TypeOK'
  BY <1>10 DEF NoSlot, NewLive, Finish
<1>11. ASSUME NEW t \in Threads, Decrement(t)
       PROVE  TypeOK'
  BY <1>11 DEF Decrement, Indent
<1>12. ASSUME NEW t \in Threads, Format(t)
       PROVE  TypeOK'
  BY <1>12 DEF Format, Clamp, HoldsSlot
<1>13. ASSUME NEW t \in Threads, LogLine(t)
       PROVE  TypeOK'
  BY <1>13 DEF LogLine, NewLive, Finish
<1>14. ASSUME NEW t \in Threads, Increment(t)
       PROVE  TypeOK'
  <2>1. threadListIndex[t] \in Slots
    BY <1>14 DEF Increment, HoldsSlot
  <2> QED
    BY <1>14, <2>1 DEF Increment, Indent
<1>15. ASSUME NEW t \in Threads, UpdateLastAccessDelta(t)
       PROVE  TypeOK'
  <2>1. Elapsed \in Int
    BY DEF Elapsed
  <2> QED
    BY <1>15, <2>1 DEF UpdateLastAccessDelta, Finish
<1>16. CASE Tick
  BY <1>16 DEF Tick
<1>17. CASE UNCHANGED vars
  BY <1>17 DEF vars
<1> QED
  BY <1>1, <1>2, <1>3, <1>4, <1>5, <1>6, <1>7, <1>8, <1>9, <1>10, <1>11, <1>12,
     <1>13, <1>14, <1>15, <1>16, <1>17
     DEF Next, Construct, Destroy, TrackCall, Lookup, Trace, Callers

(***************************************************************************)
(* A thread goes on to use its slot only from states in which it has one.  *)
(***************************************************************************)
LEMMA HoldsStep ==
  ASSUME TypeOK, HoldsSlot, [Next]_vars
  PROVE  HoldsSlot'
<1> USE DEF TypeOK, HoldsSlot, Callers, table, lookup, Goto
<1>1. ASSUME NEW t \in Threads, NEW who \in Callers, Call(t, who)
      PROVE  HoldsSlot'
  BY <1>1 DEF Call
<1>2. ASSUME NEW t \in Threads, AcquireLock(t)
      PROVE  HoldsSlot'
  BY <1>2 DEF AcquireLock
<1>3. ASSUME NEW t \in Threads, FindSlot(t)
      PROVE  HoldsSlot'
  BY <1>3 DEF FindSlot, Return
<1>4. ASSUME NEW t \in Threads, ScanSlot(t)
      PROVE  HoldsSlot'
  BY <1>4 DEF ScanSlot, NextSlot
<1>5. ASSUME NEW t \in Threads, StartCleanup(t)
      PROVE  HoldsSlot'
  BY <1>5 DEF StartCleanup
<1>6. ASSUME NEW t \in Threads, CleanupSlot(t)
      PROVE  HoldsSlot'
  BY <1>6 DEF CleanupSlot, NextSlot
<1>7. ASSUME NEW t \in Threads, GiveUp(t)
      PROVE  HoldsSlot'
  BY <1>7 DEF GiveUp, Return
<1>8. ASSUME NEW t \in Threads, ClaimId(t)
      PROVE  HoldsSlot'
  BY <1>8 DEF ClaimId
<1>9. ASSUME NEW t \in Threads, ClaimIndent(t)
      PROVE  HoldsSlot'
  BY <1>9 DEF ClaimIndent, Return
<1>10. ASSUME NEW t \in Threads, NoSlot(t)
       PROVE  HoldsSlot'
  BY <1>10 DEF NoSlot, Finish
<1>11. ASSUME NEW t \in Threads, Decrement(t)
       PROVE  HoldsSlot'
  BY <1>11 DEF Decrement
<1>12. ASSUME NEW t \in Threads, Format(t)
       PROVE  HoldsSlot'
  BY <1>12 DEF Format
<1>13. ASSUME NEW t \in Threads, LogLine(t)
       PROVE  HoldsSlot'
  BY <1>13 DEF LogLine, Finish
<1>14. ASSUME NEW t \in Threads, Increment(t)
       PROVE  HoldsSlot'
  BY <1>14 DEF Increment
<1>15. ASSUME NEW t \in Threads, UpdateLastAccessDelta(t)
       PROVE  HoldsSlot'
  BY <1>15 DEF UpdateLastAccessDelta, Finish
<1>16. CASE Tick
  BY <1>16 DEF Tick
<1>17. CASE UNCHANGED vars
  BY <1>17 DEF vars
<1> HIDE DEF TypeOK, HoldsSlot
<1> QED
  BY <1>1, <1>2, <1>3, <1>4, <1>5, <1>6, <1>7, <1>8, <1>9, <1>10, <1>11, <1>12,
     <1>13, <1>14, <1>15, <1>16, <1>17
     DEF Next, Construct, Destroy, TrackCall, Lookup, Trace, Callers

(***************************************************************************)
(* Nobody writes the last slot: claims, counters and timestamps go to the  *)
(* slots IndexInBounds allows, and collecting a vacant slot changes nothing. *)
(***************************************************************************)
LEMMA VacantStep ==
  ASSUME TypeOK, LastSlotVacant, IndexInBounds, [Next]_vars
  PROVE  LastSlotVacant'
<1> USE SlotsAssumption
    DEF TypeOK, LastSlotVacant, IndexInBounds, HasResult, isAvailable, Claimable, Slots,
        LastSlot, None, table, lookup, Goto
<1>1. ASSUME NEW t \in Threads, NEW who \in Callers, Call(t, who)
      PROVE  LastSlotVacant'
  BY <1>1 DEF Call
<1>2. ASSUME NEW t \in Threads, AcquireLock(t)
      PROVE  LastSlotVacant'
  BY <1>2 DEF AcquireLock
<1>3. ASSUME NEW t \in Threads, FindSlot(t)
      PROVE  LastSlotVacant'
  BY <1>3 DEF FindSlot, Return
<1>4. ASSUME NEW t \in Threads, ScanSlot(t)
      PROVE  LastSlotVacant'
  BY <1>4 DEF ScanSlot, NextSlot
<1>5. ASSUME NEW t \in Threads, StartCleanup(t)
      PROVE  LastSlotVacant'
  BY <1>5 DEF StartCleanup
<1>6. ASSUME NEW t \in Threads, CleanupSlot(t)
      PROVE  LastSlotVacant'
  <2>1. i[t] \in Slots /\ LastSlot \in Slots
    BY <1>6, AtSlot DEF CleanupSlot
  <2>2. CASE i[t] = LastSlot
    BY <1>6, <2>2 DEF CleanupSlot
  <2>3. CASE i[t] # LastSlot
    BY <1>6, <2>1, <2>3 DEF CleanupSlot, Collect
  <2> QED
    BY <2>2, <2>3
<1>7. ASSUME NEW t \in Threads, GiveUp(t)
      PROVE  LastSlotVacant'
  BY <1>7 DEF GiveUp, Return
<1>8. ASSUME NEW t \in Threads, ClaimId(t)
      PROVE  LastSlotVacant'
  BY <1>8 DEF ClaimId, NoRoom
<1>9. ASSUME NEW t \in Threads, ClaimIndent(t)
      PROVE  LastSlotVacant'
  BY <1>9 DEF ClaimIndent, Return
<1>10. ASSUME NEW t \in Threads, NoSlot(t)
       PROVE  LastSlotVacant'
  BY <1>10 DEF NoSlot, Finish
<1>11. ASSUME NEW t \in Threads, Decrement(t)
       PROVE  LastSlotVacant'
  BY <1>11 DEF Decrement, Indent
<1>12. ASSUME NEW t \in Threads, Format(t)
       PROVE  LastSlotVacant'
  BY <1>12 DEF Format
<1>13. ASSUME NEW t \in Threads, LogLine(t)
       PROVE  LastSlotVacant'
  BY <1>13 DEF LogLine, Finish
<1>14. ASSUME NEW t \in Threads, Increment(t)
       PROVE  LastSlotVacant'
  BY <1>14 DEF Increment, Indent
<1>15. ASSUME NEW t \in Threads, UpdateLastAccessDelta(t)
       PROVE  LastSlotVacant'
  BY <1>15 DEF UpdateLastAccessDelta, Finish
<1>16. CASE Tick
  BY <1>16 DEF Tick
<1>17. CASE UNCHANGED vars
  BY <1>17 DEF vars
<1> HIDE DEF TypeOK, LastSlotVacant, IndexInBounds, isAvailable, Slots
<1> QED
  BY <1>1, <1>2, <1>3, <1>4, <1>5, <1>6, <1>7, <1>8, <1>9, <1>10, <1>11, <1>12,
     <1>13, <1>14, <1>15, <1>16, <1>17
     DEF Next, Construct, Destroy, TrackCall, Lookup, Trace, Callers

(***************************************************************************)
(* Whatever ends a loop leaves i at 0 for the next one.                    *)
(***************************************************************************)
LEMMA ZeroStep ==
  ASSUME TypeOK, LoopStartsAtZero, [Next]_vars
  PROVE  LoopStartsAtZero'
<1> USE DEF TypeOK, LoopStartsAtZero, table, lookup, Goto
<1>1. ASSUME NEW t \in Threads, NEW who \in Callers, Call(t, who)
      PROVE  LoopStartsAtZero'
  BY <1>1 DEF Call
<1>2. ASSUME NEW t \in Threads, AcquireLock(t)
      PROVE  LoopStartsAtZero'
  BY <1>2 DEF AcquireLock
<1>3. ASSUME NEW t \in Threads, FindSlot(t)
      PROVE  LoopStartsAtZero'
  BY <1>3 DEF FindSlot, Return
<1>4. ASSUME NEW t \in Threads, ScanSlot(t)
      PROVE  LoopStartsAtZero'
  BY <1>4 DEF ScanSlot, NextSlot
<1>5. ASSUME NEW t \in Threads, StartCleanup(t)
      PROVE  LoopStartsAtZero'
  BY <1>5 DEF StartCleanup
<1>6. ASSUME NEW t \in Threads, CleanupSlot(t)
      PROVE  LoopStartsAtZero'
  BY <1>6 DEF CleanupSlot, NextSlot
<1>7. ASSUME NEW t \in Threads, GiveUp(t)
      PROVE  LoopStartsAtZero'
  BY <1>7 DEF GiveUp, Return
<1>8. ASSUME NEW t \in Threads, ClaimId(t)
      PROVE  LoopStartsAtZero'
  BY <1>8 DEF ClaimId
<1>9. ASSUME NEW t \in Threads, ClaimIndent(t)
      PROVE  LoopStartsAtZero'
  BY <1>9 DEF ClaimIndent, Return
<1>10. ASSUME NEW t \in Threads, NoSlot(t)
       PROVE  LoopStartsAtZero'
  BY <1>10 DEF NoSlot, Finish
<1>11. ASSUME NEW t \in Threads, Decrement(t)
       PROVE  LoopStartsAtZero'
  BY <1>11 DEF Decrement
<1>12. ASSUME NEW t \in Threads, Format(t)
       PROVE  LoopStartsAtZero'
  BY <1>12 DEF Format
<1>13. ASSUME NEW t \in Threads, LogLine(t)
       PROVE  LoopStartsAtZero'
  BY <1>13 DEF LogLine, Finish
<1>14. ASSUME NEW t \in Threads, Increment(t)
       PROVE  LoopStartsAtZero'
  BY <1>14 DEF Increment
<1>15. ASSUME NEW t \in Threads, UpdateLastAccessDelta(t)
       PROVE  LoopStartsAtZero'
  BY <1>15 DEF UpdateLastAccessDelta, Finish
<1>16. CASE Tick
  BY <1>16 DEF Tick
<1>17. CASE UNCHANGED vars
  BY <1>17 DEF vars
<1> HIDE DEF TypeOK, LoopStartsAtZero
<1> QED
  BY <1>1, <1>2, <1>3, <1>4, <1>5, <1>6, <1>7, <1>8, <1>9, <1>10, <1>11, <1>12,
     <1>13, <1>14, <1>15, <1>16, <1>17
     DEF Next, Construct, Destroy, TrackCall, Lookup, Trace, Callers

(***************************************************************************)
(* A loop that reaches the end of the table has met the last slot, vacant. *)
(***************************************************************************)
LEMMA BoundsStep ==
  ASSUME TypeOK, HoldsSlot, LastSlotVacant, IndexInBounds, [Next]_vars
  PROVE  IndexInBounds'
<1> USE ThreadsAssumption, SlotsAssumption
    DEF TypeOK, LastSlotVacant, IndexInBounds, HasResult, isAvailable, Claimable, Slots,
        LastSlot, None, table, lookup, Goto
<1>1. ASSUME NEW t \in Threads, NEW who \in Callers, Call(t, who)
      PROVE  IndexInBounds'
  BY <1>1 DEF Call
<1>2. ASSUME NEW t \in Threads, AcquireLock(t)
      PROVE  IndexInBounds'
  BY <1>2 DEF AcquireLock
<1>3. ASSUME NEW t \in Threads, FindSlot(t)
      PROVE  IndexInBounds'
  BY <1>3 DEF FindSlot, Return
<1>4. ASSUME NEW t \in Threads, ScanSlot(t)
      PROVE  IndexInBounds'
  <2>1. i[t] \in Slots
    BY <1>4, AtSlot DEF ScanSlot
  <2>2. i[t] = LastSlot => Vacant(t) # None
    BY <2>1 DEF Vacant
  <2>3. i'[t] = i[t] + 1 /\ lowestVacantIndex'[t] = Vacant(t)
    BY <1>4 DEF ScanSlot, NextSlot
  <2>4. i'[t] = MaxSlots => lowestVacantIndex'[t] # None
    BY <2>1, <2>2, <2>3
  <2>5. \A u \in Threads \ {t} :
          i'[u] = i[u] /\ lowestVacantIndex'[u] = lowestVacantIndex[u]
    BY <1>4 DEF ScanSlot, NextSlot
  <2> QED
    BY <1>4, <2>4, <2>5 DEF ScanSlot
<1>5. ASSUME NEW t \in Threads, StartCleanup(t)
      PROVE  IndexInBounds'
  BY <1>5 DEF StartCleanup
<1>6. ASSUME NEW t \in Threads, CleanupSlot(t)
      PROVE  IndexInBounds'
  <2>1. i[t] \in Slots
    BY <1>6, AtSlot DEF CleanupSlot
  <2>2. i[t] = LastSlot => Vacant(t) # None
    BY <2>1 DEF Vacant
  <2>3. i'[t] = i[t] + 1 /\ lowestVacantIndex'[t] = Vacant(t)
    BY <1>6 DEF CleanupSlot, NextSlot
  <2>4. i'[t] = MaxSlots => lowestVacantIndex'[t] # None
    BY <2>1, <2>2, <2>3
  <2>5. \A u \in Threads \ {t} :
          i'[u] = i[u] /\ lowestVacantIndex'[u] = lowestVacantIndex[u]
    BY <1>6 DEF CleanupSlot, NextSlot
  <2> QED
    BY <1>6, <2>4, <2>5 DEF CleanupSlot
<1>7. ASSUME NEW t \in Threads, GiveUp(t)
      PROVE  IndexInBounds'
  BY <1>7 DEF GiveUp, Return
<1>8. ASSUME NEW t \in Threads, ClaimId(t)
      PROVE  IndexInBounds'
  BY <1>8 DEF ClaimId, NoRoom
<1>9. ASSUME NEW t \in Threads, ClaimIndent(t)
      PROVE  IndexInBounds'
  BY <1>9 DEF ClaimIndent, Return
<1>10. ASSUME NEW t \in Threads, NoSlot(t)
       PROVE  IndexInBounds'
  BY <1>10 DEF NoSlot, Finish
<1>11. ASSUME NEW t \in Threads, Decrement(t)
       PROVE  IndexInBounds'
  BY <1>11 DEF Decrement
<1>12. ASSUME NEW t \in Threads, Format(t)
       PROVE  IndexInBounds'
  BY <1>12 DEF Format
<1>13. ASSUME NEW t \in Threads, LogLine(t)
       PROVE  IndexInBounds'
  BY <1>13 DEF LogLine, Finish
<1>14. ASSUME NEW t \in Threads, Increment(t)
       PROVE  IndexInBounds'
  BY <1>14 DEF Increment
<1>15. ASSUME NEW t \in Threads, UpdateLastAccessDelta(t)
       PROVE  IndexInBounds'
  BY <1>15 DEF UpdateLastAccessDelta, Finish
<1>16. CASE Tick
  BY <1>16 DEF Tick
<1>17. CASE UNCHANGED vars
  BY <1>17 DEF vars
<1> HIDE DEF TypeOK, HoldsSlot, LastSlotVacant, IndexInBounds, Slots
<1> QED
  BY <1>1, <1>2, <1>3, <1>4, <1>5, <1>6, <1>7, <1>8, <1>9, <1>10, <1>11, <1>12,
     <1>13, <1>14, <1>15, <1>16, <1>17
     DEF Next, Construct, Destroy, TrackCall, Lookup, Trace, Callers

(***************************************************************************)
(* Only its owner writes a thread's id, so what a scan has passed stays    *)
(* free of it.                                                             *)
(***************************************************************************)
LEMMA MissedStep ==
  ASSUME TypeOK, LoopStartsAtZero, ScanMissed, [Next]_vars
  PROVE  ScanMissed'
<1> USE ThreadsAssumption, SlotsAssumption
    DEF TypeOK, LoopStartsAtZero, ScanMissed, Slots, table, lookup, Goto
<1>1. ASSUME NEW t \in Threads, NEW who \in Callers, Call(t, who)
      PROVE  ScanMissed'
  <2>1. i[t] = 0 /\ i' = i /\ threadId' = threadId
    BY <1>1 DEF Call
  <2>2. \A u \in Threads \ {t} : pc'[u] = pc[u]
    BY <1>1 DEF Call
  <2>3. pc'[t] \in {"lock", "scan"}
    BY <1>1 DEF Call
  <2> QED
    BY <2>1, <2>2, <2>3
<1>2. ASSUME NEW t \in Threads, AcquireLock(t)
      PROVE  ScanMissed'
  <2>1. i[t] = 0 /\ i' = i /\ threadId' = threadId
    BY <1>2 DEF AcquireLock
  <2>2. \A u \in Threads \ {t} : pc'[u] = pc[u]
    BY <1>2 DEF AcquireLock
  <2>3. pc'[t] \in {"lock", "scan"}
    BY <1>2 DEF AcquireLock
  <2> QED
    BY <2>1, <2>2, <2>3
<1>3. ASSUME NEW t \in Threads, FindSlot(t)
      PROVE  ScanMissed'
  BY <1>3 DEF FindSlot, Return
<1>4. ASSUME NEW t \in Threads, ScanSlot(t)
      PROVE  ScanMissed'
  BY <1>4 DEF ScanSlot, NextSlot
<1>5. ASSUME NEW t \in Threads, StartCleanup(t)
      PROVE  ScanMissed'
  BY <1>5 DEF StartCleanup
<1>6. ASSUME NEW t \in Threads, CleanupSlot(t)
      PROVE  ScanMissed'
  BY <1>6 DEF CleanupSlot, NextSlot, Collect
<1>7. ASSUME NEW t \in Threads, GiveUp(t)
      PROVE  ScanMissed'
  BY <1>7 DEF GiveUp, Return
<1>8. ASSUME NEW t \in Threads, ClaimId(t)
      PROVE  ScanMissed'
  BY <1>8 DEF ClaimId
<1>9. ASSUME NEW t \in Threads, ClaimIndent(t)
      PROVE  ScanMissed'
  BY <1>9 DEF ClaimIndent, Return
<1>10. ASSUME NEW t \in Threads, NoSlot(t)
       PROVE  ScanMissed'
  BY <1>10 DEF NoSlot, Finish
<1>11. ASSUME NEW t \in Threads, Decrement(t)
       PROVE  ScanMissed'
  BY <1>11 DEF Decrement
<1>12. ASSUME NEW t \in Threads, Format(t)
       PROVE  ScanMissed'
  BY <1>12 DEF Format
<1>13. ASSUME NEW t \in Threads, LogLine(t)
       PROVE  ScanMissed'
  BY <1>13 DEF LogLine, Finish
<1>14. ASSUME NEW t \in Threads, Increment(t)
       PROVE  ScanMissed'
  BY <1>14 DEF Increment
<1>15. ASSUME NEW t \in Threads, UpdateLastAccessDelta(t)
       PROVE  ScanMissed'
  BY <1>15 DEF UpdateLastAccessDelta, Finish
<1>16. CASE Tick
  BY <1>16 DEF Tick
<1>17. CASE UNCHANGED vars
  BY <1>17 DEF vars
<1> HIDE DEF TypeOK, LoopStartsAtZero, ScanMissed, Slots
<1> QED
  BY <1>1, <1>2, <1>3, <1>4, <1>5, <1>6, <1>7, <1>8, <1>9, <1>10, <1>11, <1>12,
     <1>13, <1>14, <1>15, <1>16, <1>17
     DEF Next, Construct, Destroy, TrackCall, Lookup, Trace, Callers

(***************************************************************************)
(* The only step that adds an id to the table is a claim, by a thread whose *)
(* scan missed its id everywhere.                                          *)
(***************************************************************************)
LEMMA UniqueStep ==
  ASSUME TypeOK, LoopStartsAtZero, ScanMissed, UniqueSlot, [Next]_vars
  PROVE  UniqueSlot'
<1> USE ThreadsAssumption
    DEF TypeOK, UniqueSlot, table, lookup, Goto
<1>1. ASSUME NEW t \in Threads, NEW who \in Callers, Call(t, who)
      PROVE  UniqueSlot'
  BY <1>1 DEF Call
<1>2. ASSUME NEW t \in Threads, AcquireLock(t)
      PROVE  UniqueSlot'
  BY <1>2 DEF AcquireLock
<1>3. ASSUME NEW t \in Threads, FindSlot(t)
      PROVE  UniqueSlot'
  BY <1>3 DEF FindSlot, Return
<1>4. ASSUME NEW t \in Threads, ScanSlot(t)
      PROVE  UniqueSlot'
  BY <1>4 DEF ScanSlot, NextSlot
<1>5. ASSUME NEW t \in Threads, StartCleanup(t)
      PROVE  UniqueSlot'
  BY <1>5 DEF StartCleanup
<1>6. ASSUME NEW t \in Threads, CleanupSlot(t)
      PROVE  UniqueSlot'
  BY <1>6 DEF CleanupSlot, NextSlot, Collect
<1>7. ASSUME NEW t \in Threads, GiveUp(t)
      PROVE  UniqueSlot'
  BY <1>7 DEF GiveUp, Return
<1>8. ASSUME NEW t \in Threads, ClaimId(t)
      PROVE  UniqueSlot'
  <2>1. \A s \in Slots : threadId[s] # t
    BY <1>8 DEF ClaimId, ScanMissed, Slots
  <2>2. \A s \in Slots : threadId'[s] = IF s = lowestVacantIndex[t] THEN t ELSE threadId[s]
    BY <1>8 DEF ClaimId
  <2> QED
    BY <2>1, <2>2
<1>9. ASSUME NEW t \in Threads, ClaimIndent(t)
      PROVE  UniqueSlot'
  BY <1>9 DEF ClaimIndent, Return
<1>10. ASSUME NEW t \in Threads, NoSlot(t)
       PROVE  UniqueSlot'
  BY <1>10 DEF NoSlot, Finish
<1>11. ASSUME NEW t \in Threads, Decrement(t)
       PROVE  UniqueSlot'
  BY <1>11 DEF Decrement
<1>12. ASSUME NEW t \in Threads, Format(t)
       PROVE  UniqueSlot'
  BY <1>12 DEF Format
<1>13. ASSUME NEW t \in Threads, LogLine(t)
       PROVE  UniqueSlot'
  BY <1>13 DEF LogLine, Finish
<1>14. ASSUME NEW t \in Threads, Increment(t)
       PROVE  UniqueSlot'
  BY <1>14 DEF Increment
<1>15. ASSUME NEW t \in Threads, UpdateLastAccessDelta(t)
       PROVE  UniqueSlot'
  BY <1>15 DEF UpdateLastAccessDelta, Finish
<1>16. CASE Tick
  BY <1>16 DEF Tick
<1>17. CASE UNCHANGED vars
  BY <1>17 DEF vars
<1> HIDE DEF TypeOK, UniqueSlot
<1> QED
  BY <1>1, <1>2, <1>3, <1>4, <1>5, <1>6, <1>7, <1>8, <1>9, <1>10, <1>11, <1>12,
     <1>13, <1>14, <1>15, <1>16, <1>17
     DEF Next, Construct, Destroy, TrackCall, Lookup, Trace, Callers

-----------------------------------------------------------------------------
(***************************************************************************)
(* IInv is an invariant of the function tracer.                            *)
(***************************************************************************)
THEOREM Invariance == Spec => []IInv
<1>1. Init => IInv
  BY InitIInv
<1>2. IInv /\ [Next]_vars => IInv'
  BY TypeStep, HoldsStep, VacantStep, ZeroStep, BoundsStep, MissedStep, UniqueStep DEF IInv
<1> QED
  BY <1>1, <1>2, PTL DEF Spec

(***************************************************************************)
(* Type correctness: in particular the indentation handed to gapString     *)
(* (FunctionTrace.cpp:165-168) is never negative.                          *)
(***************************************************************************)
THEOREM TypeCorrect == Spec => []TypeOK
<1>1. IInv => TypeOK
  BY DEF IInv
<1> QED
  BY <1>1, Invariance, PTL

(***************************************************************************)
(* GetThreadListIndex never indexes _IndentationList out of bounds, for    *)
(* any number of threads and slots, with and without IOS_FREEZES: the test *)
(* for -1 that FunctionTrace.cpp:99-109 lacks is not needed.               *)
(***************************************************************************)
THEOREM BoundsCorrect == Spec => []IndexInBounds
<1>1. IInv => IndexInBounds
  BY DEF IInv
<1> QED
  BY <1>1, Invariance, PTL

(***************************************************************************)
(* No thread ever owns two slots of the table, however the lookups, claims *)
(* and cleanups of any number of threads interleave.                       *)
(***************************************************************************)
THEOREM UniqueCorrect == Spec => []UniqueSlot
<1>1. IInv => UniqueSlot
  BY DEF IInv
<1> QED
  BY <1>1, Invariance, PTL

=============================================================================
