--------------------------- MODULE CallTraceProof ---------------------------
(***************************************************************************)
(* Every step of FunctionTrace is a step of CallTrace or leaves what       *)
(* CallTrace sees alone, if it is built with IOS_FREEZES and its table has *)
(* room for every thread and a vacant slot more: each line is indented by  *)
(* the depth of its thread's calls.                                        *)
(***************************************************************************)
EXTENDS FunctionTraceOwnProof

\* No lookup fails.
AlwaysFound == \A t \in Threads : HasResult(t) => threadListIndex[t] # None

\* What a call under way may count on: its guard when it began, until its
\* line is printed, and for a constructor its own object afterwards.
Pending == {"lock", "scan", "cleanup", "claimIndent", "found", "format", "log"}

CallsFit ==
  \A t \in Threads :
    /\ live[t] >= 0
    /\ pc[t] \in Pending => IF caller[t] = "ctor" THEN live[t] < MaxDepth ELSE live[t] > 0
    /\ pc[t] \in {"increment", "touch"} => live[t] > 0
    /\ pc[t] = "format" => caller[t] = "dtor"

\* What the counter of the thread's slot is at each point of a call.
Expected(t) ==
  IF \/ pc[t] \in {"increment", "format"}
     \/ pc[t] = "log" /\ caller[t] = "dtor"
  THEN live[t] - 1 ELSE live[t]

CountsDepth ==
  \A t \in Threads, s \in Slots : threadId[s] = t => indentation[s] = Expected(t)

\* A thread without a slot is in no traced function.
NoSlotNoCalls ==
  \A t \in Threads :
    (\A s \in Slots : threadId[s] # t) \/ pc[t] = "claimIndent" => live[t] = 0

Prepared == \A t \in Threads : pc[t] = "log" => buffer[t] = Expected(t)

\* The inductive invariant.
DInv ==
  /\ OInv
  /\ AlwaysFound
  /\ CallsFit
  /\ CountsDepth
  /\ NoSlotNoCalls
  /\ Prepared

-----------------------------------------------------------------------------
(***************************************************************************)
(* The initial states satisfy it: no thread has a slot or a call.          *)
(***************************************************************************)
LEMMA InitDInv == Init => DInv
<1> SUFFICES ASSUME Init PROVE DInv
  OBVIOUS
<1>1. OInv
  BY InitOInv
<1>2. AlwaysFound /\ CallsFit /\ NoSlotNoCalls /\ Prepared
  BY DEF Init, AlwaysFound, HasResult, CallsFit, Pending, NoSlotNoCalls, Prepared
<1>3. CountsDepth
  BY ThreadsAssumption DEF Init, CountsDepth
<1> QED
  BY <1>1, <1>2, <1>3 DEF DInv

(***************************************************************************)
(* GiveUp alone returns -1, and it needs a cleanup.                        *)
(***************************************************************************)
LEMMA FoundStep ==
  ASSUME RoomForAll, DInv, [Next]_vars
  PROVE  AlwaysFound'
<1> USE ThreadsAssumption DEF DInv, OInv, IInv, TypeOK, Callers, table, lookup, Goto, AlwaysFound, HasResult, IndexInBounds, HoldsSlot, None, Slots
<1>1. ASSUME NEW t \in Threads, NEW who \in Callers, Call(t, who)
      PROVE  AlwaysFound'
  BY <1>1 DEF Call
<1>2. ASSUME NEW t \in Threads, AcquireLock(t)
      PROVE  AlwaysFound'
  BY <1>2 DEF AcquireLock
<1>3. ASSUME NEW t \in Threads, FindSlot(t)
      PROVE  AlwaysFound'
  BY <1>3 DEF FindSlot, Return
<1>4. ASSUME NEW t \in Threads, ScanSlot(t)
      PROVE  AlwaysFound'
  BY <1>4 DEF ScanSlot, NextSlot
<1>5. ASSUME NEW t \in Threads, StartCleanup(t)
      PROVE  AlwaysFound'
  BY <1>5, NeverCleansUp DEF DInv
<1>6. ASSUME NEW t \in Threads, CleanupSlot(t)
      PROVE  AlwaysFound'
  BY <1>6 DEF CleanupSlot, OInv, NoCleanup
<1>7. ASSUME NEW t \in Threads, GiveUp(t)
      PROVE  AlwaysFound'
  BY <1>7 DEF GiveUp, OInv, NoCleanup
<1>8. ASSUME NEW t \in Threads, ClaimId(t)
      PROVE  AlwaysFound'
  BY <1>8 DEF ClaimId
<1>9. ASSUME NEW t \in Threads, ClaimIndent(t)
      PROVE  AlwaysFound'
  BY <1>9, SlotsAssumption DEF ClaimIndent, Return, Claimable
<1>10. ASSUME NEW t \in Threads, NoSlot(t)
       PROVE  AlwaysFound'
  <2>1. HasResult(t) /\ threadListIndex[t] = None
    BY <1>10 DEF NoSlot, HasResult
  <2> QED
    BY <2>1 DEF AlwaysFound
<1>11. ASSUME NEW t \in Threads, Decrement(t)
       PROVE  AlwaysFound'
  BY <1>11 DEF Decrement, Indent
<1>12. ASSUME NEW t \in Threads, Format(t)
       PROVE  AlwaysFound'
  BY <1>12 DEF Format
<1>13. ASSUME NEW t \in Threads, LogLine(t)
       PROVE  AlwaysFound'
  BY <1>13 DEF LogLine, Finish, NewLive
<1>14. ASSUME NEW t \in Threads, Increment(t)
       PROVE  AlwaysFound'
  BY <1>14 DEF Increment, Indent
<1>15. ASSUME NEW t \in Threads, UpdateLastAccessDelta(t)
       PROVE  AlwaysFound'
  BY <1>15 DEF UpdateLastAccessDelta, Finish
<1>16. CASE Tick
  BY <1>16 DEF Tick
<1>17. CASE UNCHANGED vars
  BY <1>17 DEF vars
<1> HIDE DEF DInv, OInv, IInv, TypeOK, AlwaysFound, HasResult, IndexInBounds, HoldsSlot, Slots
<1> QED
  BY <1>1, <1>2, <1>3, <1>4, <1>5, <1>6, <1>7, <1>8, <1>9, <1>10, <1>11, <1>12,
     <1>13, <1>14, <1>15, <1>16, <1>17
     DEF Next, Construct, Destroy, TrackCall, Lookup, Trace, Callers

(***************************************************************************)
(* A call keeps what its guard tested: only its own thread changes live.   *)
(***************************************************************************)
LEMMA FitStep ==
  ASSUME RoomForAll, DInv, [Next]_vars
  PROVE  CallsFit'
<1> USE ThreadsAssumption DEF DInv, OInv, IInv, TypeOK, Callers, table, lookup, Goto, CallsFit, Pending
<1>1. ASSUME NEW t \in Threads, NEW who \in Callers, Call(t, who),
             IF who = "ctor" THEN live[t] < MaxDepth ELSE live[t] > 0
      PROVE  CallsFit'
  BY <1>1 DEF Call
<1>2. ASSUME NEW t \in Threads, AcquireLock(t)
      PROVE  CallsFit'
  BY <1>2 DEF AcquireLock
<1>3. ASSUME NEW t \in Threads, FindSlot(t)
      PROVE  CallsFit'
  BY <1>3 DEF FindSlot, Return
<1>4. ASSUME NEW t \in Threads, ScanSlot(t)
      PROVE  CallsFit'
  BY <1>4 DEF ScanSlot, NextSlot
<1>5. ASSUME NEW t \in Threads, StartCleanup(t)
      PROVE  CallsFit'
  BY <1>5, NeverCleansUp DEF DInv
<1>6. ASSUME NEW t \in Threads, CleanupSlot(t)
      PROVE  CallsFit'
  BY <1>6 DEF CleanupSlot, OInv, NoCleanup
<1>7. ASSUME NEW t \in Threads, GiveUp(t)
      PROVE  CallsFit'
  BY <1>7 DEF GiveUp, OInv, NoCleanup
<1>8. ASSUME NEW t \in Threads, ClaimId(t)
      PROVE  CallsFit'
  BY <1>8 DEF ClaimId
<1>9. ASSUME NEW t \in Threads, ClaimIndent(t)
      PROVE  CallsFit'
  BY <1>9 DEF ClaimIndent, Return
<1>10. ASSUME NEW t \in Threads, NoSlot(t)
       PROVE  CallsFit'
  <2>1. HasResult(t) /\ threadListIndex[t] = None
    BY <1>10 DEF NoSlot, HasResult
  <2> QED
    BY <2>1 DEF AlwaysFound
<1>11. ASSUME NEW t \in Threads, Decrement(t)
       PROVE  CallsFit'
  BY <1>11 DEF Decrement, Indent
<1>12. ASSUME NEW t \in Threads, Format(t)
       PROVE  CallsFit'
  BY <1>12 DEF Format
<1>13. ASSUME NEW t \in Threads, LogLine(t)
       PROVE  CallsFit'
  BY <1>13 DEF LogLine, Finish, NewLive
<1>14. ASSUME NEW t \in Threads, Increment(t)
       PROVE  CallsFit'
  BY <1>14 DEF Increment, Indent
<1>15. ASSUME NEW t \in Threads, UpdateLastAccessDelta(t)
       PROVE  CallsFit'
  BY <1>15 DEF UpdateLastAccessDelta, Finish
<1>16. CASE Tick
  BY <1>16 DEF Tick
<1>17. CASE UNCHANGED vars
  BY <1>17 DEF vars
<1> HIDE DEF DInv, OInv, IInv, TypeOK, CallsFit, Pending
<1> QED
  BY <1>1, <1>2, <1>3, <1>4, <1>5, <1>6, <1>7, <1>8, <1>9, <1>10, <1>11, <1>12,
     <1>13, <1>14, <1>15, <1>16, <1>17
     DEF Next, Construct, Destroy, TrackCall, Lookup, Trace, Callers

(***************************************************************************)
(* A thread counts in its own slot only, and each of its counts goes with  *)
(* a change of its stack; a slot is claimed while the stack is empty.      *)
(***************************************************************************)
LEMMA DepthStep ==
  ASSUME RoomForAll, DInv, [Next]_vars
  PROVE  CountsDepth'
<1> USE ThreadsAssumption DEF DInv, OInv, IInv, TypeOK, Callers, table, lookup, Goto, CountsDepth, Expected, CallsFit, Pending, None
<1>1. ASSUME NEW t \in Threads, NEW who \in Callers, Call(t, who)
      PROVE  CountsDepth'
  BY <1>1 DEF Call
<1>2. ASSUME NEW t \in Threads, AcquireLock(t)
      PROVE  CountsDepth'
  BY <1>2 DEF AcquireLock
<1>3. ASSUME NEW t \in Threads, FindSlot(t)
      PROVE  CountsDepth'
  BY <1>3 DEF FindSlot, Return
<1>4. ASSUME NEW t \in Threads, ScanSlot(t)
      PROVE  CountsDepth'
  BY <1>4 DEF ScanSlot, NextSlot
<1>5. ASSUME NEW t \in Threads, StartCleanup(t)
      PROVE  CountsDepth'
  BY <1>5, NeverCleansUp DEF DInv
<1>6. ASSUME NEW t \in Threads, CleanupSlot(t)
      PROVE  CountsDepth'
  BY <1>6 DEF CleanupSlot, OInv, NoCleanup
<1>7. ASSUME NEW t \in Threads, GiveUp(t)
      PROVE  CountsDepth'
  BY <1>7 DEF GiveUp, OInv, NoCleanup
<1>8. ASSUME NEW t \in Threads, ClaimId(t)
      PROVE  CountsDepth'
  <2>1. /\ pc[t] = "scan" /\ i[t] = MaxSlots
        /\ lowestVacantIndex[t] \in Slots /\ threadId[lowestVacantIndex[t]] = NoThread
    BY <1>8 DEF ClaimId, NoCleanup, IndexInBounds, ScanVacant, Claimable
  <2>2. live[t] = 0
    BY <2>1 DEF ScanMissed, NoSlotNoCalls, Slots
  <2>3. indentation[lowestVacantIndex[t]] = 0
    BY <2>1 DEF VacantClean
  <2> QED
    BY <1>8, <2>1, <2>2, <2>3 DEF ClaimId
<1>9. ASSUME NEW t \in Threads, ClaimIndent(t)
      PROVE  CountsDepth'
  <2>1. /\ lowestVacantIndex[t] \in Slots /\ threadId[lowestVacantIndex[t]] = t
        /\ live[t] = 0 /\ pc[t] = "claimIndent"
    BY <1>9 DEF ClaimIndent, IndexInBounds, Claimable, ScanVacant, NoSlotNoCalls
  <2>2. /\ \A s \in Slots : indentation'[s] = IF s = lowestVacantIndex[t] THEN 0 ELSE indentation[s]
        /\ UNCHANGED <<threadId, live, caller>> /\ pc' = [pc EXCEPT ![t] = "found"]
    BY <1>9 DEF ClaimIndent, Return
  <2> QED
    BY <2>1, <2>2
<1>10. ASSUME NEW t \in Threads, NoSlot(t)
       PROVE  CountsDepth'
  <2>1. HasResult(t) /\ threadListIndex[t] = None
    BY <1>10 DEF NoSlot, HasResult
  <2> QED
    BY <2>1 DEF AlwaysFound
<1>11. ASSUME NEW t \in Threads, Decrement(t)
       PROVE  CountsDepth'
  <2>1. /\ threadListIndex[t] \in Slots /\ threadId[threadListIndex[t]] = t
    BY <1>11 DEF Decrement, AlwaysFound, OwnSlot, HasResult
  <2>2. \A s \in Slots : threadId[s] = t => s = threadListIndex[t]
    BY <2>1 DEF UniqueSlot
  <2>3. indentation[threadListIndex[t]] = Expected(t)
    BY <2>1 DEF CountsDepth
  <2> QED
    BY <1>11, <2>1, <2>2, <2>3 DEF Decrement, Indent, CountsDepth, Expected
<1>12. ASSUME NEW t \in Threads, Format(t)
       PROVE  CountsDepth'
  BY <1>12 DEF Format
<1>13. ASSUME NEW t \in Threads, LogLine(t)
       PROVE  CountsDepth'
  BY <1>13 DEF LogLine, Finish, NewLive
<1>14. ASSUME NEW t \in Threads, Increment(t)
       PROVE  CountsDepth'
  <2>1. /\ threadListIndex[t] \in Slots /\ threadId[threadListIndex[t]] = t
    BY <1>14 DEF Increment, AlwaysFound, OwnSlot, HasResult
  <2>2. \A s \in Slots : threadId[s] = t => s = threadListIndex[t]
    BY <2>1 DEF UniqueSlot
  <2>3. indentation[threadListIndex[t]] = Expected(t)
    BY <2>1 DEF CountsDepth
  <2> QED
    BY <1>14, <2>1, <2>2, <2>3 DEF Increment, Indent, CountsDepth, Expected
<1>15. ASSUME NEW t \in Threads, UpdateLastAccessDelta(t)
       PROVE  CountsDepth'
  BY <1>15 DEF UpdateLastAccessDelta, Finish
<1>16. CASE Tick
  BY <1>16 DEF Tick
<1>17. CASE UNCHANGED vars
  BY <1>17 DEF vars
<1> HIDE DEF DInv, OInv, IInv, TypeOK, CountsDepth, Expected, CallsFit, Pending
<1> QED
  BY <1>1, <1>2, <1>3, <1>4, <1>5, <1>6, <1>7, <1>8, <1>9, <1>10, <1>11, <1>12,
     <1>13, <1>14, <1>15, <1>16, <1>17
     DEF Next, Construct, Destroy, TrackCall, Lookup, Trace, Callers

(***************************************************************************)
(* A line of a constructor is printed by a thread that has a slot, and an  *)
(* id never leaves the table.                                              *)
(***************************************************************************)
LEMMA NoCallsStep ==
  ASSUME RoomForAll, DInv, [Next]_vars
  PROVE  NoSlotNoCalls'
<1> USE ThreadsAssumption DEF DInv, OInv, IInv, TypeOK, Callers, table, lookup, Goto, NoSlotNoCalls, None
<1>1. ASSUME NEW t \in Threads, NEW who \in Callers, Call(t, who)
      PROVE  NoSlotNoCalls'
  BY <1>1 DEF Call
<1>2. ASSUME NEW t \in Threads, AcquireLock(t)
      PROVE  NoSlotNoCalls'
  BY <1>2 DEF AcquireLock
<1>3. ASSUME NEW t \in Threads, FindSlot(t)
      PROVE  NoSlotNoCalls'
  BY <1>3 DEF FindSlot, Return
<1>4. ASSUME NEW t \in Threads, ScanSlot(t)
      PROVE  NoSlotNoCalls'
  BY <1>4 DEF ScanSlot, NextSlot
<1>5. ASSUME NEW t \in Threads, StartCleanup(t)
      PROVE  NoSlotNoCalls'
  BY <1>5, NeverCleansUp DEF DInv
<1>6. ASSUME NEW t \in Threads, CleanupSlot(t)
      PROVE  NoSlotNoCalls'
  BY <1>6 DEF CleanupSlot, OInv, NoCleanup
<1>7. ASSUME NEW t \in Threads, GiveUp(t)
      PROVE  NoSlotNoCalls'
  BY <1>7 DEF GiveUp, OInv, NoCleanup
<1>8. ASSUME NEW t \in Threads, ClaimId(t)
      PROVE  NoSlotNoCalls'
  <2>1. /\ pc[t] = "scan" /\ i[t] = MaxSlots
        /\ lowestVacantIndex[t] \in Slots /\ threadId[lowestVacantIndex[t]] = NoThread
    BY <1>8 DEF ClaimId, NoCleanup, IndexInBounds, ScanVacant, Claimable
  <2>2. live[t] = 0
    BY <2>1 DEF ScanMissed, NoSlotNoCalls, Slots
  <2> QED
    BY <1>8, <2>1, <2>2 DEF ClaimId
<1>9. ASSUME NEW t \in Threads, ClaimIndent(t)
      PROVE  NoSlotNoCalls'
  BY <1>9 DEF ClaimIndent, Return
<1>10. ASSUME NEW t \in Threads, NoSlot(t)
       PROVE  NoSlotNoCalls'
  <2>1. HasResult(t) /\ threadListIndex[t] = None
    BY <1>10 DEF NoSlot, HasResult
  <2> QED
    BY <2>1 DEF AlwaysFound
<1>11. ASSUME NEW t \in Threads, Decrement(t)
       PROVE  NoSlotNoCalls'
  BY <1>11 DEF Decrement, Indent
<1>12. ASSUME NEW t \in Threads, Format(t)
       PROVE  NoSlotNoCalls'
  BY <1>12 DEF Format
<1>13. ASSUME NEW t \in Threads, LogLine(t)
       PROVE  NoSlotNoCalls'
  <2>1. threadListIndex[t] \in Slots /\ threadId[threadListIndex[t]] = t
    BY <1>13 DEF LogLine, AlwaysFound, OwnSlot, HasResult
  <2> QED
    BY <1>13, <2>1 DEF LogLine, Finish, NewLive
<1>14. ASSUME NEW t \in Threads, Increment(t)
       PROVE  NoSlotNoCalls'
  BY <1>14 DEF Increment, Indent
<1>15. ASSUME NEW t \in Threads, UpdateLastAccessDelta(t)
       PROVE  NoSlotNoCalls'
  BY <1>15 DEF UpdateLastAccessDelta, Finish
<1>16. CASE Tick
  BY <1>16 DEF Tick
<1>17. CASE UNCHANGED vars
  BY <1>17 DEF vars
<1> HIDE DEF DInv, OInv, IInv, TypeOK, NoSlotNoCalls
<1> QED
  BY <1>1, <1>2, <1>3, <1>4, <1>5, <1>6, <1>7, <1>8, <1>9, <1>10, <1>11, <1>12,
     <1>13, <1>14, <1>15, <1>16, <1>17
     DEF Next, Construct, Destroy, TrackCall, Lookup, Trace, Callers

(***************************************************************************)
(* A line is formatted from the thread's own counter, which is not         *)
(* negative then; the stack does not change until it is printed.           *)
(***************************************************************************)
LEMMA PreparedStep ==
  ASSUME RoomForAll, DInv, [Next]_vars
  PROVE  Prepared'
<1> USE ThreadsAssumption DEF DInv, OInv, IInv, TypeOK, Callers, table, lookup, Goto, Prepared, Expected, CallsFit, Pending, None
<1>1. ASSUME NEW t \in Threads, NEW who \in Callers, Call(t, who)
      PROVE  Prepared'
  BY <1>1 DEF Call
<1>2. ASSUME NEW t \in Threads, AcquireLock(t)
      PROVE  Prepared'
  BY <1>2 DEF AcquireLock
<1>3. ASSUME NEW t \in Threads, FindSlot(t)
      PROVE  Prepared'
  BY <1>3 DEF FindSlot, Return
<1>4. ASSUME NEW t \in Threads, ScanSlot(t)
      PROVE  Prepared'
  BY <1>4 DEF ScanSlot, NextSlot
<1>5. ASSUME NEW t \in Threads, StartCleanup(t)
      PROVE  Prepared'
  BY <1>5, NeverCleansUp DEF DInv
<1>6. ASSUME NEW t \in Threads, CleanupSlot(t)
      PROVE  Prepared'
  BY <1>6 DEF CleanupSlot, OInv, NoCleanup
<1>7. ASSUME NEW t \in Threads, GiveUp(t)
      PROVE  Prepared'
  BY <1>7 DEF GiveUp, OInv, NoCleanup
<1>8. ASSUME NEW t \in Threads, ClaimId(t)
      PROVE  Prepared'
  BY <1>8 DEF ClaimId
<1>9. ASSUME NEW t \in Threads, ClaimIndent(t)
      PROVE  Prepared'
  BY <1>9 DEF ClaimIndent, Return
<1>10. ASSUME NEW t \in Threads, NoSlot(t)
       PROVE  Prepared'
  <2>1. HasResult(t) /\ threadListIndex[t] = None
    BY <1>10 DEF NoSlot, HasResult
  <2> QED
    BY <2>1 DEF AlwaysFound
<1>11. ASSUME NEW t \in Threads, Decrement(t)
       PROVE  Prepared'
  BY <1>11 DEF Decrement, Indent
<1>12. ASSUME NEW t \in Threads, Format(t)
       PROVE  Prepared'
  <2>1. threadListIndex[t] \in Slots /\ threadId[threadListIndex[t]] = t
    BY <1>12 DEF Format, AlwaysFound, OwnSlot, HasResult
  <2>2. indentation[threadListIndex[t]] = Expected(t)
    BY <2>1 DEF CountsDepth
  <2>3. Expected(t) >= 0 /\ Expected(t) \in Int
    BY <1>12 DEF Format
  <2>4. buffer'[t] = Expected(t)
    BY <1>12, <2>2, <2>3 DEF Format, Clamp
  <2>5. (caller[t] = "dtor" <=> pc[t] = "format") /\ pc' = [pc EXCEPT ![t] = "log"]
        /\ UNCHANGED <<live, caller>>
    BY <1>12 DEF Format
  <2>6. \A u \in Threads \ {t} : buffer'[u] = buffer[u]
    BY <1>12 DEF Format
  <2>7. Expected(t)' = Expected(t)
    BY <2>5, <1>12 DEF Format
  <2> QED
    BY <2>4, <2>5, <2>6, <2>7
<1>13. ASSUME NEW t \in Threads, LogLine(t)
       PROVE  Prepared'
  BY <1>13 DEF LogLine, Finish, NewLive
<1>14. ASSUME NEW t \in Threads, Increment(t)
       PROVE  Prepared'
  BY <1>14 DEF Increment, Indent
<1>15. ASSUME NEW t \in Threads, UpdateLastAccessDelta(t)
       PROVE  Prepared'
  BY <1>15 DEF UpdateLastAccessDelta, Finish
<1>16. CASE Tick
  BY <1>16 DEF Tick
<1>17. CASE UNCHANGED vars
  BY <1>17 DEF vars
<1> HIDE DEF DInv, OInv, IInv, TypeOK, Prepared, Expected, CallsFit, Pending
<1> QED
  BY <1>1, <1>2, <1>3, <1>4, <1>5, <1>6, <1>7, <1>8, <1>9, <1>10, <1>11, <1>12,
     <1>13, <1>14, <1>15, <1>16, <1>17
     DEF Next, Construct, Destroy, TrackCall, Lookup, Trace, Callers

-----------------------------------------------------------------------------
(***************************************************************************)
(* DInv is an invariant.                                                   *)
(***************************************************************************)
THEOREM DepthInvariance == ASSUME RoomForAll PROVE Spec => []DInv
<1>1. Init => DInv
  BY InitDInv
<1>2. DInv /\ [Next]_vars => DInv'
  <2>1. OInv /\ [Next]_vars => OInv'
    BY OwnStepAll
  <2> QED
    BY <2>1, FoundStep, FitStep, DepthStep, NoCallsStep, PreparedStep DEF DInv
<1> QED
  BY <1>1, <1>2, PTL DEF Spec

(***************************************************************************)
(* A step that neither begins nor ends the printing of a line.             *)
(***************************************************************************)
LEMMA SameLines ==
  ASSUME live' = live,
         \A u \in Threads :
           /\ pc'[u] = "log" <=> pc[u] = "log"
           /\ pc[u] = "log" => caller'[u] = caller[u] /\ buffer'[u] = buffer[u]
  PROVE  UNCHANGED Calls!vars
BY DEF Calls!vars, LineToPrint

(***************************************************************************)
(* Formatting a line is CallTrace's Prepare: the indentation is the depth, *)
(* less one when a function is left.                                       *)
(***************************************************************************)
LEMMA FormatPrepares ==
  ASSUME DInv, DInv', NEW t \in Threads, Format(t)
  PROVE  Calls!Next
<1> USE DEF DInv, OInv, IInv
<1>1. /\ pc[t] \in {"found", "format"} /\ pc' = [pc EXCEPT ![t] = "log"]
      /\ caller[t] = "dtor" <=> pc[t] = "format"
      /\ UNCHANGED <<live, caller>>
      /\ \A u \in Threads \ {t} : buffer'[u] = buffer[u]
  BY DEF Format, Goto, TypeOK, CallsFit
<1>2. pc'[t] = "log" /\ caller[t] \in Callers
  BY <1>1 DEF TypeOK
<1>3. buffer'[t] = IF caller[t] = "dtor" THEN live[t] - 1 ELSE live[t]
  BY <1>1, <1>2 DEF Prepared, Expected
<1>4. LineToPrint' = [LineToPrint EXCEPT ![t] = [kind |-> caller[t], indent |-> buffer'[t]]]
  BY <1>1, <1>2 DEF LineToPrint, TypeOK
<1>5. LineToPrint[t] = [kind |-> "none"]
  BY <1>1 DEF LineToPrint
<1>6. IF caller[t] = "ctor" THEN live[t] < MaxDepth ELSE live[t] > 0
  BY <1>1 DEF CallsFit, Pending
<1>7. CASE caller[t] = "ctor"
  BY <1>1, <1>3, <1>4, <1>5, <1>6, <1>7
     DEF Calls!Next, Calls!Enter, Calls!Prepare, Calls!NoLine
<1>8. CASE caller[t] = "dtor"
  BY <1>1, <1>3, <1>4, <1>5, <1>6, <1>8
     DEF Calls!Next, Calls!Leave, Calls!Prepare, Calls!NoLine
<1>9. CASE caller[t] = "note"
  BY <1>1, <1>3, <1>4, <1>5, <1>6, <1>9
     DEF Calls!Next, Calls!Annotate, Calls!Prepare, Calls!NoLine
<1> QED
  BY <1>2, <1>7, <1>8, <1>9 DEF Callers

(***************************************************************************)
(* Logging it is CallTrace's PrintLine.                                    *)
(***************************************************************************)
LEMMA LogLinePrints ==
  ASSUME DInv, NEW t \in Threads, LogLine(t)
  PROVE  Calls!Next
<1> USE DEF DInv, OInv, IInv, TypeOK
<1>1. /\ pc[t] = "log" /\ live' = NewLive(t) /\ pc'[t] # "log"
      /\ \A u \in Threads \ {t} :
           pc'[u] = pc[u] /\ caller'[u] = caller[u] /\ buffer'[u] = buffer[u]
  BY DEF LogLine, Finish, Goto
<1>2. LineToPrint[t] = [kind |-> caller[t], indent |-> buffer[t]]
  BY <1>1 DEF LineToPrint
<1>3. LineToPrint[t].kind = caller[t] /\ LineToPrint[t] # [kind |-> "none"]
  <2>1. LineToPrint[t].kind = caller[t] /\ caller[t] # "none"
    BY <1>2 DEF Callers
  <2> QED
    BY <2>1
<1>4. LineToPrint' = [LineToPrint EXCEPT ![t] = [kind |-> "none"]]
  BY <1>1 DEF LineToPrint
<1> QED
  BY <1>1, <1>3, <1>4 DEF NewLive, Calls!Next, Calls!PrintLine, Calls!NoLine

(***************************************************************************)
(* Every other step is a stutter.                                          *)
(***************************************************************************)
LEMMA StepSimulates ==
  ASSUME RoomForAll, DInv, DInv', [Next]_vars
  PROVE  [Calls!Next]_(Calls!vars)
<1> USE DEF TypeOK, Callers, table, lookup, Goto
<1>0. TypeOK
  BY DEF DInv, OInv, IInv
<1>1. ASSUME NEW t \in Threads, NEW who \in Callers, Call(t, who)
      PROVE  [Calls!Next]_(Calls!vars)
  BY <1>1, <1>0, SameLines DEF Call
<1>2. ASSUME NEW t \in Threads, AcquireLock(t)
      PROVE  [Calls!Next]_(Calls!vars)
  BY <1>2, <1>0, SameLines DEF AcquireLock
<1>3. ASSUME NEW t \in Threads, FindSlot(t)
      PROVE  [Calls!Next]_(Calls!vars)
  BY <1>3, <1>0, SameLines DEF FindSlot, Return
<1>4. ASSUME NEW t \in Threads, ScanSlot(t)
      PROVE  [Calls!Next]_(Calls!vars)
  BY <1>4, <1>0, SameLines DEF ScanSlot, NextSlot
<1>5. ASSUME NEW t \in Threads, StartCleanup(t)
      PROVE  [Calls!Next]_(Calls!vars)
  BY <1>5, NeverCleansUp DEF DInv
<1>6. ASSUME NEW t \in Threads, CleanupSlot(t)
      PROVE  [Calls!Next]_(Calls!vars)
  BY <1>6 DEF CleanupSlot, DInv, OInv, NoCleanup
<1>7. ASSUME NEW t \in Threads, GiveUp(t)
      PROVE  [Calls!Next]_(Calls!vars)
  BY <1>7 DEF GiveUp, DInv, OInv, NoCleanup
<1>8. ASSUME NEW t \in Threads, ClaimId(t)
      PROVE  [Calls!Next]_(Calls!vars)
  BY <1>8, <1>0, SameLines DEF ClaimId
<1>9. ASSUME NEW t \in Threads, ClaimIndent(t)
      PROVE  [Calls!Next]_(Calls!vars)
  BY <1>9, <1>0, SameLines DEF ClaimIndent, Return
<1>10. ASSUME NEW t \in Threads, NoSlot(t)
       PROVE  [Calls!Next]_(Calls!vars)
  BY <1>10 DEF NoSlot, DInv, AlwaysFound, HasResult
<1>11. ASSUME NEW t \in Threads, Decrement(t)
       PROVE  [Calls!Next]_(Calls!vars)
  BY <1>11, <1>0, SameLines DEF Decrement
<1>12. ASSUME NEW t \in Threads, Format(t)
       PROVE  [Calls!Next]_(Calls!vars)
  BY <1>12, FormatPrepares
<1>13. ASSUME NEW t \in Threads, LogLine(t)
       PROVE  [Calls!Next]_(Calls!vars)
  BY <1>13, LogLinePrints
<1>14. ASSUME NEW t \in Threads, Increment(t)
       PROVE  [Calls!Next]_(Calls!vars)
  BY <1>14, <1>0, SameLines DEF Increment
<1>15. ASSUME NEW t \in Threads, UpdateLastAccessDelta(t)
       PROVE  [Calls!Next]_(Calls!vars)
  BY <1>15, <1>0, SameLines DEF UpdateLastAccessDelta, Finish
<1>16. CASE Tick
  BY <1>16, <1>0, SameLines DEF Tick
<1>17. CASE UNCHANGED vars
  BY <1>17, <1>0, SameLines DEF vars
<1> HIDE DEF TypeOK
<1> QED
  BY <1>1, <1>2, <1>3, <1>4, <1>5, <1>6, <1>7, <1>8, <1>9, <1>10, <1>11,
     <1>12, <1>13, <1>14, <1>15, <1>16, <1>17
     DEF Next, Construct, Destroy, TrackCall, Lookup, Trace, Callers

(***************************************************************************)
(* The tracer implements CallTrace for any number of threads and any       *)
(* depth: the lines a thread prints are those of CallTrace, each indented  *)
(* by the thread's own call depth.                                         *)
(***************************************************************************)
THEOREM PrintsDepthCorrect ==
  ASSUME RoomForAll
  PROVE  Spec => PrintsCallDepth
<1>1. Init => Calls!Init
  BY DEF Init, Calls!Init, Calls!NoLine, LineToPrint
<1>2. DInv /\ DInv' /\ [Next]_vars => [Calls!Next]_(Calls!vars)
  BY StepSimulates
<1> QED
  BY <1>1, <1>2, DepthInvariance, PTL DEF Spec, PrintsCallDepth, Calls!Spec

=============================================================================
