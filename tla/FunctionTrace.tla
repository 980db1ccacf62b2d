--------------------------- MODULE FunctionTrace ---------------------------
(***************************************************************************)
(* The function tracer: the static table _IndentationList and the objects  *)
(* FUNCTIONTRACE puts on every traced function's stack frame.              *)
(*                                                                         *)
(* Each thread that enters, leaves or annotates a traced function looks    *)
(* its slot up in the table (GetThreadListIndex), claims a vacant one if   *)
(* it has none, and prints one line indented by the slot's counter.  No    *)
(* lock is taken unless the library is built with IOS_FREEZES (Locked),    *)
(* and then only around the lookup: the counters are always updated        *)
(* outside it.  One step of a thread is one statement, or the visit of one *)
(* slot in a loop over the table.                                          *)
(***************************************************************************)
EXTENDS Integers, FiniteSets

CONSTANTS
  Threads,       \* what OurGetCurrentThreadId returns, as stored in an int
  NoThread,      \* the 0 that marks a slot no thread owns
  MaxSlots,      \* MAX_TRACE_THREADS
  CleanupDelta,  \* TRACE_THREAD_CLEANUP_TIME_DELTA_SECONDS
  Locked,        \* IOS_FREEZES: a WriteLock spans GetThreadListIndex
  MaxDepth,      \* bound on nested traced functions of one thread
  MaxTime        \* bound on the clock

ASSUME ThreadsAssumption == NoThread \notin Threads
ASSUME SlotsAssumption == MaxSlots \in Nat \ {0}
ASSUME TimeAssumption == CleanupDelta \in Nat /\ MaxTime \in Nat
ASSUME LockedAssumption == Locked \in BOOLEAN

VARIABLES
  threadId, indentation, lastAccessDelta,  \* the fields of _IndentationList[s]
  baseTime,            \* IndentationData::_indentation_base_time
  now,                 \* time (NULL)
  lock,                \* owner of functiontraceMutex
  live,                \* number of FunctionTrace objects on the thread's stack
  pc, caller,          \* where the thread is, and on whose behalf it looks up
  i, lowestVacantIndex, magicNumber,  \* locals of the lookup and the cleanup
  threadListIndex,     \* what the lookup returned
  buffer               \* the indentation sprintf put into the caller's line

table     == <<threadId, indentation, lastAccessDelta, baseTime>>
lookup    == <<i, lowestVacantIndex, magicNumber>>
vars      == <<table, now, lock, live, pc, caller, lookup, threadListIndex, buffer>>

Slots    == 0 .. MaxSlots - 1
LastSlot == MaxSlots - 1
None     == -1
Callers  == {"ctor", "dtor", "note"}

(***************************************************************************)
(* A slot with all three fields zero is vacant.                            *)
(***************************************************************************)
isAvailable(s) ==
  /\ threadId[s] = NoThread
  /\ indentation[s] = 0
  /\ lastAccessDelta[s] = 0

\* (long) difftime (time (NULL), _indentation_base_time)
Elapsed == now - baseTime

\* The loops keep the first vacant slot they meet.
Vacant_Any(t) == IF lowestVacantIndex[t] = None THEN i[t] ELSE lowestVacantIndex[t]
Vacant(t) == IF lowestVacantIndex[t] = None /\ isAvailable(i[t])
             THEN i[t] ELSE lowestVacantIndex[t]

\* "No more room for threads": the table counts as full when only its last
\* slot is vacant.
NoRoom_AnyVacant(v) == v = None
NoRoom(v) == v = LastSlot

\* What the cleanup collects; _last_access_delta is relative to baseTime.
IsStale(s, magic) == lastAccessDelta[s] < magic

Init ==
  /\ threadId = [s \in Slots |-> NoThread]
  /\ indentation = [s \in Slots |-> 0]
  /\ lastAccessDelta = [s \in Slots |-> 0]
  /\ baseTime = 0
  /\ now = 0
  /\ lock = NoThread
  /\ live = [t \in Threads |-> 0]
  /\ pc = [t \in Threads |-> "idle"]
  /\ caller = [t \in Threads |-> "ctor"]
  /\ i = [t \in Threads |-> 0]
  /\ lowestVacantIndex = [t \in Threads |-> None]
  /\ magicNumber = [t \in Threads |-> 0]
  /\ threadListIndex = [t \in Threads |-> None]
  /\ buffer = [t \in Threads |-> 0]

Goto(t, label) == pc' = [pc EXCEPT ![t] = label]

-----------------------------------------------------------------------------
(***************************************************************************)
(* The three callers of the lookup: FUNCTIONTRACE's constructor, its       *)
(* destructor, and the arguments of a TRACK_FUNCTION_CALL line.            *)
(***************************************************************************)
Call(t, who) ==
  /\ pc[t] = "idle"
  /\ caller' = [caller EXCEPT ![t] = who]
  /\ Goto(t, IF Locked THEN "lock" ELSE "scan")
  /\ UNCHANGED <<table, now, lock, live, lookup, threadListIndex, buffer>>

Construct(t) == live[t] < MaxDepth /\ Call(t, "ctor")
Destroy(t)   == live[t] > 0 /\ Call(t, "dtor")
TrackCall(t) == live[t] > 0 /\ Call(t, "note")

(***************************************************************************)
(* GetThreadListIndex                                                      *)
(***************************************************************************)
\* A ReadLock, which other readers may hold as well.
AcquireLock_Shared(t) ==
  /\ pc[t] = "lock"
  /\ lock' = t
  /\ Goto(t, "scan")
  /\ UNCHANGED <<table, now, live, caller, lookup, threadListIndex, buffer>>

AcquireLock(t) ==
  /\ pc[t] = "lock"
  /\ lock = NoThread
  /\ lock' = t
  /\ Goto(t, "scan")
  /\ UNCHANGED <<table, now, live, caller, lookup, threadListIndex, buffer>>

\* The locals of the lookup die and w_lock is released as it returns n.
Return(t, n) ==
  /\ threadListIndex' = [threadListIndex EXCEPT ![t] = n]
  /\ lock' = IF Locked THEN NoThread ELSE lock
  /\ i' = [i EXCEPT ![t] = 0]
  /\ lowestVacantIndex' = [lowestVacantIndex EXCEPT ![t] = None]
  /\ magicNumber' = [magicNumber EXCEPT ![t] = 0]
  /\ Goto(t, "found")
  /\ UNCHANGED <<now, live, caller, buffer>>

FindSlot(t) ==
  /\ pc[t] = "scan"
  /\ i[t] < MaxSlots
  /\ threadId[i[t]] = t
  /\ Return(t, i[t])
  /\ UNCHANGED table

\* A scan that stopped at the first vacant slot instead of going on to look
\* for the thread's own.
NextSlot_FirstVacant(t) ==
  /\ i' = [i EXCEPT ![t] = IF isAvailable(@) THEN MaxSlots ELSE @ + 1]
  /\ lowestVacantIndex' = [lowestVacantIndex EXCEPT ![t] = Vacant(t)]

NextSlot(t) ==
  /\ i' = [i EXCEPT ![t] = @ + 1]
  /\ lowestVacantIndex' = [lowestVacantIndex EXCEPT ![t] = Vacant(t)]

ScanSlot(t) ==
  /\ pc[t] = "scan"
  /\ i[t] < MaxSlots
  /\ threadId[i[t]] # t
  /\ NextSlot(t)
  /\ UNCHANGED <<table, now, lock, live, pc, caller, magicNumber, threadListIndex, buffer>>

StartCleanup(t) ==
  /\ pc[t] = "scan"
  /\ i[t] = MaxSlots
  /\ NoRoom(lowestVacantIndex[t])
  /\ magicNumber' = [magicNumber EXCEPT ![t] = Elapsed - CleanupDelta]
  /\ i' = [i EXCEPT ![t] = 0]
  /\ lowestVacantIndex' = [lowestVacantIndex EXCEPT ![t] = None]
  /\ Goto(t, "cleanup")
  /\ UNCHANGED <<table, now, lock, live, caller, threadListIndex, buffer>>

(***************************************************************************)
(* PerformCleanup: IndentationData::Init also moves the base time that     *)
(* every slot's _last_access_delta is relative to.                         *)
(***************************************************************************)
Collect(s) ==
  /\ threadId' = [threadId EXCEPT ![s] = NoThread]
  /\ indentation' = [indentation EXCEPT ![s] = 0]
  /\ lastAccessDelta' = [lastAccessDelta EXCEPT ![s] = 0]
  /\ baseTime' = now

CleanupSlot(t) ==
  /\ pc[t] = "cleanup"
  /\ i[t] < MaxSlots
  /\ NextSlot(t)
  /\ IF ~ isAvailable(i[t]) /\ IsStale(i[t], magicNumber[t])
     THEN Collect(i[t])
     ELSE UNCHANGED table
  /\ UNCHANGED <<now, lock, live, pc, caller, magicNumber, threadListIndex, buffer>>

GiveUp(t) ==
  /\ pc[t] = "cleanup"
  /\ i[t] = MaxSlots
  /\ NoRoom(lowestVacantIndex[t])
  /\ Return(t, None)
  /\ UNCHANGED table

\* The thread's own id was not in the table, and a vacant slot was.
ClaimId(t) ==
  /\ pc[t] \in {"scan", "cleanup"}
  /\ i[t] = MaxSlots
  /\ ~ NoRoom(lowestVacantIndex[t])
  /\ threadId' = [threadId EXCEPT ![lowestVacantIndex[t]] = t]
  /\ Goto(t, "claimIndent")
  /\ UNCHANGED <<indentation, lastAccessDelta, baseTime, now, lock, live, caller,
                 lookup, threadListIndex, buffer>>

ClaimIndent(t) ==
  /\ pc[t] = "claimIndent"
  /\ indentation' = [indentation EXCEPT ![lowestVacantIndex[t]] = 0]
  /\ Return(t, lowestVacantIndex[t])
  /\ UNCHANGED <<threadId, lastAccessDelta, baseTime>>

-----------------------------------------------------------------------------
(***************************************************************************)
(* The callers, after the lookup.  A call that got no slot prints nothing. *)
(***************************************************************************)
NewLive(t) == [live EXCEPT ![t] = IF caller[t] = "ctor" THEN @ + 1
                                  ELSE IF caller[t] = "dtor" THEN @ - 1 ELSE @]

\* The caller's frame goes away with its locals.
Finish(t) ==
  /\ Goto(t, "idle")
  /\ caller' = [caller EXCEPT ![t] = "ctor"]
  /\ threadListIndex' = [threadListIndex EXCEPT ![t] = None]
  /\ buffer' = [buffer EXCEPT ![t] = 0]

NoSlot(t) ==
  /\ pc[t] = "found"
  /\ threadListIndex[t] = None
  /\ IF caller[t] = "note"
     THEN Goto(t, "log") /\ UNCHANGED <<live, caller, threadListIndex, buffer>>
     ELSE live' = NewLive(t) /\ Finish(t)
  /\ UNCHANGED <<table, now, lock, lookup>>

Indent_NeverOut(t, n) ==
  indentation' = [indentation EXCEPT ![threadListIndex[t]] = IF n < 0 THEN @ ELSE @ + n]

Indent(t, n) ==
  indentation' = [indentation EXCEPT ![threadListIndex[t]] = @ + n]

\* The destructor decrements before it prints, the constructor increments after.
Decrement(t) ==
  /\ pc[t] = "found"
  /\ threadListIndex[t] # None
  /\ caller[t] = "dtor"
  /\ Indent(t, -1)
  /\ Goto(t, "format")
  /\ UNCHANGED <<threadId, lastAccessDelta, baseTime, now, lock, live, caller,
                 lookup, threadListIndex, buffer>>

\* GetIndentationString (n) clamps a negative counter to no indentation.
Clamp_Missing(n) == n
Clamp(n) == IF n < 0 THEN 0 ELSE n

Format(t) ==
  /\ \/ pc[t] = "found" /\ threadListIndex[t] # None /\ caller[t] # "dtor"
     \/ pc[t] = "format"
  /\ buffer' = [buffer EXCEPT ![t] = Clamp(indentation[threadListIndex[t]])]
  /\ Goto(t, "log")
  /\ UNCHANGED <<table, now, lock, live, caller, lookup, threadListIndex>>

\* LOGGER_LOGLINE (("functiontrace", buffer)): may wait for the logger's mutex.
LogLine(t) ==
  /\ pc[t] = "log"
  /\ live' = NewLive(t)
  /\ IF caller[t] = "ctor"
     THEN /\ Goto(t, "increment")
          /\ buffer' = [buffer EXCEPT ![t] = 0]
          /\ UNCHANGED <<caller, threadListIndex>>
     ELSE Finish(t)
  /\ UNCHANGED <<table, now, lock, lookup>>

Increment(t) ==
  /\ pc[t] = "increment"
  /\ Indent(t, 1)
  /\ Goto(t, "touch")
  /\ UNCHANGED <<threadId, lastAccessDelta, baseTime, now, lock, live, caller,
                 lookup, threadListIndex, buffer>>

UpdateLastAccessDelta(t) ==
  /\ pc[t] = "touch"
  /\ lastAccessDelta' = [lastAccessDelta EXCEPT ![threadListIndex[t]] = Elapsed]
  /\ Finish(t)
  /\ UNCHANGED <<threadId, indentation, baseTime, now, lock, live, lookup>>

Tick ==
  /\ now < MaxTime
  /\ now' = now + 1
  /\ UNCHANGED <<table, lock, live, pc, caller, lookup, threadListIndex, buffer>>

-----------------------------------------------------------------------------
Lookup(t) ==
  \/ FindSlot(t) \/ ScanSlot(t) \/ StartCleanup(t) \/ CleanupSlot(t)
  \/ GiveUp(t) \/ ClaimId(t) \/ ClaimIndent(t)

Trace(t) ==
  \/ NoSlot(t) \/ Decrement(t) \/ Format(t) \/ LogLine(t)
  \/ Increment(t) \/ UpdateLastAccessDelta(t)

Next ==
  \/ \E t \in Threads : \/ Construct(t) \/ Destroy(t) \/ TrackCall(t)
                        \/ AcquireLock(t) \/ Lookup(t) \/ Trace(t)
  \/ Tick

\* Without fairness: nothing says who gets a lock, or that the program calls.
Spec == Init /\ [][Next]_vars

-----------------------------------------------------------------------------
TypeOK ==
  /\ threadId \in [Slots -> Threads \cup {NoThread}]
  /\ indentation \in [Slots -> Int]
  /\ lastAccessDelta \in [Slots -> Int]
  /\ baseTime \in Int
  /\ now \in Int
  /\ lock \in Threads \cup {NoThread}
  /\ live \in [Threads -> Int]
  /\ pc \in [Threads -> {"idle", "lock", "scan", "cleanup", "claimIndent",
                         "found", "format", "log", "increment", "touch"}]
  /\ caller \in [Threads -> Callers]
  /\ i \in [Threads -> 0 .. MaxSlots]
  /\ lowestVacantIndex \in [Threads -> Slots \cup {None}]
  /\ magicNumber \in [Threads -> Int]
  /\ threadListIndex \in [Threads -> Slots \cup {None}]
  /\ buffer \in [Threads -> Nat]

Claimable == Slots \ {LastSlot}

\* The thread is past the lookup and holds the slot it returned, if any.
HasResult(t) == pc[t] \in {"found", "format", "log", "increment", "touch"}

(***************************************************************************)
(* No lookup ever takes the last slot of the table, so one is always       *)
(* vacant, every finished scan has found a vacant slot, and the claim      *)
(* (FunctionTrace.cpp:108-109) never indexes the table with -1 although    *)
(* only MAX_TRACE_THREADS - 1 is tested for.  This holds with and without  *)
(* the lock, and whatever the cleanup collects.                            *)
(***************************************************************************)
IndexInBounds ==
  \A t \in Threads :
    /\ i[t] = MaxSlots => lowestVacantIndex[t] # None
    /\ pc[t] = "claimIndent" => lowestVacantIndex[t] \in Claimable
    /\ HasResult(t) => threadListIndex[t] \in Claimable \cup {None}

(***************************************************************************)
(* No thread ever owns two slots: it claims one only after a scan of the   *)
(* whole table that did not meet its id, and nobody else writes that id.   *)
(* Threads that overwrite one another's claims cannot break this.          *)
(***************************************************************************)
UniqueSlot ==
  \A r, s \in Slots : threadId[r] = threadId[s] /\ threadId[r] # NoThread => r = s

(***************************************************************************)
(* README.md:2 and 6: the tracer is thread-safe.  The slot a lookup        *)
(* returned belongs to the thread that uses it, until it has updated it.   *)
(***************************************************************************)
OwnSlot ==
  \A t \in Threads :
    HasResult(t) /\ threadListIndex[t] # None => threadId[threadListIndex[t]] = t

(***************************************************************************)
(* The comment at FunctionTrace.cpp:101-102: the lookup fails only if the  *)
(* cleanup left no more room than it found.                                *)
(***************************************************************************)
FailsOnlyWhenFull ==
  [][\A t \in Threads :
       GiveUp(t) => \A s \in Claimable : ~ isAvailable(s)]_vars

(***************************************************************************)
(* With the lock and room for every thread a claimed slot keeps its owner: *)
(* no claim lands on a slot another thread has, and nothing is collected.  *)
(***************************************************************************)
OwnerKept ==
  [][\A s \in Slots : threadId[s] # NoThread => threadId'[s] = threadId[s]]_vars

(***************************************************************************)
(* With the lock and room for every thread the tracer implements           *)
(* CallTrace: the counter in the table is the depth of the thread's stack  *)
(* of FunctionTrace objects whenever a line is formatted from it, however  *)
(* long the thread then waits to print the line.                           *)
(***************************************************************************)
LineToPrint ==
  [t \in Threads |-> IF pc[t] = "log" THEN [kind |-> caller[t], indent |-> buffer[t]]
                     ELSE [kind |-> "none"]]

Calls == INSTANCE CallTrace WITH depth <- live, line <- LineToPrint

PrintsCallDepth == Calls!Spec

=============================================================================
