------------------------------ MODULE Timberman ------------------------------
(***************************************************************************)
(* The library as a program uses it: FunctionTrace and Logger together.    *)
(* Threads enter and leave traced functions and log messages of their own. *)
(* Where FunctionTrace prints a line in one step, this module runs the     *)
(* macro LOGGER_LOGLINE: the thread still holds its index into the table   *)
(* while it waits for the logger's mutex and writes.  What LOGGER_LOGLINE  *)
(* does to errno is left out: the calls of the C library that the tracer   *)
(* makes outside it, and the other two macros, do not save errno.          *)
(*                                                                         *)
(* The program has been set up (README.md:12: "at the application start-up *)
(* time"): a file is open, every mask is on, and tracing is enabled.       *)
(***************************************************************************)
EXTENDS Integers, Sequences, FiniteSets

CONSTANTS
  Threads, NoThread,
  MaxSlots, CleanupDelta, Locked, MaxDepth, MaxTime,      \* of FunctionTrace
  Paths, NoFile, Masks, EmptyMask, All, Lengths, InitialSize, BufferIncrement,
  SizeLimit, WArgs, MaxCalls, MaxChanges,                 \* of Logger
  Path, Mask, Length   \* the open file, the mask and the length of a message

\* The tracer is the one of FunctionTraceOwnProof: every lookup finds a slot.
ASSUME RoomAssumption ==
  /\ Locked = TRUE /\ IsFiniteSet(Threads)
  /\ MaxSlots \in Nat /\ Cardinality(Threads) < MaxSlots
ASSUME ProgramAssumption ==
  /\ NoThread \notin Threads /\ NoFile \notin Paths /\ Path \in Paths
  /\ MaxCalls \in Nat /\ CleanupDelta \in Nat /\ MaxTime \in Nat
\* A message fits the buffer as it is first allocated, and so do the tracer's
\* lines, from arrays of 1024: run logger_long_message has the others.
ASSUME LengthAssumption == InitialSize \in Nat /\ Length \in 0 .. InitialSize - 1

VARIABLES
  threadId, indentation, lastAccessDelta, baseTime, now, lock, live, pc, caller,
  i, lowestVacantIndex, magicNumber, threadListIndex, buffer,   \* of FunctionTrace
  logfile, utf8Path, traceMaskList, ignoreMaskList, mutex, tracingEnabled,
  outputBuffer, outputBufferSize, allocated, files, flushed, lpc, call,
  argptrUsed, calls, changes,                                   \* of Logger
  macro,       \* the call of the logger whose macro of Logger.h a thread is in
  said         \* what each call was asked to log, and its timestamp

F == INSTANCE FunctionTrace
L == INSTANCE Logger WITH pc <- lpc, Increment <- BufferIncrement

tracer == <<threadId, indentation, lastAccessDelta, baseTime, now, lock, live, pc, caller,
            i, lowestVacantIndex, magicNumber, threadListIndex, buffer>>
logger == <<logfile, utf8Path, traceMaskList, ignoreMaskList, mutex, tracingEnabled,
            outputBuffer, outputBufferSize, allocated, files, flushed, lpc, call,
            argptrUsed, calls, changes>>
vars   == <<tracer, logger, macro, said>>

NoMacro == "none"
NoTime  == -1
Ids     == 1 .. MaxCalls

Init ==
  /\ F!Init
  /\ logfile = Path /\ utf8Path = Path
  /\ traceMaskList = {All} /\ ignoreMaskList = {} /\ tracingEnabled = TRUE
  /\ mutex = NoThread
  /\ outputBuffer = L!NoText /\ outputBufferSize = 0 /\ allocated = FALSE
  /\ files = [p \in Paths |-> IF p = Path THEN <<L!Piece("header", 0, L!NoText)>> ELSE <<>>]
  /\ flushed = [p \in Paths |-> Len(files[p])]
  /\ lpc = [t \in Threads |-> "idle"]
  /\ call = [t \in Threads |-> L!Idle]
  /\ argptrUsed = [t \in Threads |-> FALSE]
  /\ calls = 0 /\ changes = 0
  /\ macro = [t \in Threads |-> NoMacro]
  /\ said = [id \in Ids |-> [by |-> NoThread, kind |-> "none", indent |-> 0, at |-> NoTime]]

InMacro(t) == macro[t] # NoMacro

\* Bound: a traced call starts only if its line is within MaxCalls.
Unlogged == {t \in Threads : ~ InMacro(t) /\ pc[t] \notin {"idle", "increment", "touch"}}
Room == calls + Cardinality(Unlogged) < MaxCalls

-----------------------------------------------------------------------------
(***************************************************************************)
(* The steps of the tracer, except the line it prints.                     *)
(***************************************************************************)
StartCall(t) ==
  /\ Room /\ ~ InMacro(t)
  /\ F!Construct(t) \/ F!Destroy(t) \/ F!TrackCall(t)
  /\ UNCHANGED <<logger, macro, said>>

AcquireLock(t) == F!AcquireLock(t) /\ UNCHANGED <<logger, macro, said>>

Trace(t) ==
  /\ \/ F!Lookup(t) \/ F!Decrement(t) \/ F!Format(t) \/ F!Increment(t)
     \/ F!UpdateLastAccessDelta(t)
  /\ UNCHANGED <<logger, macro, said>>

Tick == F!Tick /\ UNCHANGED <<logger, macro, said>>

-----------------------------------------------------------------------------
(***************************************************************************)
(* LOGGER_LOGLINE, LOGGER_ASSERT and HEXDUMPTRACE: each looks at           *)
(* _tracingEnabled, then calls LogLine or HexDumpTrace.                    *)
(***************************************************************************)
Macro(t, op, kind, indent) ==
  /\ ~ InMacro(t)
  /\ macro' = [macro EXCEPT ![t] = op]
  /\ IF tracingEnabled
     THEN /\ L!Log(t, op, Mask, IF op = "LogLine" THEN Length ELSE 0)
          /\ said' = [said EXCEPT ![calls'] =
                        [by |-> t, kind |-> kind, indent |-> indent, at |-> NoTime]]
     ELSE UNCHANGED <<logger, said>>
  /\ UNCHANGED tracer

\* The tracer's line.  Of the line of TRACK_FUNCTION_CALL the indentation is
\* looked up inside the macro; the lookup does not use the logger, so here it
\* comes before.
TraceLine(t) == pc[t] = "log" /\ Macro(t, "LogLine", caller[t], buffer[t])

\* What the program logs from where it is: a message, or an assertion that does
\* not hold (one that holds logs nothing), and a dump.
Message(t) == pc[t] = "idle" /\ Room /\ Macro(t, "LogLine", "message", live[t])
HexDump(t) == pc[t] = "idle" /\ Room /\ Macro(t, "HexDumpTrace", "message", live[t])

EndMacro(t) ==
  /\ InMacro(t) /\ lpc[t] = "idle"
  /\ macro' = [macro EXCEPT ![t] = NoMacro]
  /\ IF pc[t] = "log" THEN F!LogLine(t) ELSE UNCHANGED tracer
  /\ UNCHANGED <<logger, said>>

(***************************************************************************)
(* Inside the call.  HexDumpTrace asks for the mask first; OutputTimestamp *)
(* first asks ReturnTimestamp for the time.                                *)
(***************************************************************************)
HexDumpTrace(t) == L!HexDumpTrace(t) /\ UNCHANGED <<tracer, macro, said>>

Stamped(t) == said[call[t].id].at # NoTime

\* With a FUNCTIONTRACE in it: its line waits for the mutex of this one.
ReturnTimestamp_Traced(t) ==
  /\ lpc[t] = "timestamp" /\ ~ Stamped(t)
  /\ lpc' = [lpc EXCEPT ![t] = "lock"]
  /\ UNCHANGED <<tracer, logfile, utf8Path, traceMaskList, ignoreMaskList, mutex,
                 tracingEnabled, outputBuffer, outputBufferSize, allocated, files, flushed,
                 call, argptrUsed, calls, changes, macro, said>>

ReturnTimestamp(t) ==
  /\ lpc[t] = "timestamp" /\ ~ Stamped(t)
  /\ said' = [said EXCEPT ![call[t].id].at = now]
  /\ UNCHANGED <<tracer, logger, macro>>

LogLine(t) ==
  /\ \/ L!StartLogLine(t) \/ L!AllocateBuffer(t)
     \/ L!OutputTimestamp(t) /\ Stamped(t)
     \/ L!Vsnprintf(t) \/ L!WriteMask(t) \/ L!WriteText(t) \/ L!EndLine(t)
  /\ UNCHANGED <<tracer, macro, said>>

AcquireMutex(t) == L!AcquireMutex(t) /\ UNCHANGED <<tracer, macro, said>>

-----------------------------------------------------------------------------
\* The steps of a thread that waits for nobody.
Proceed(t) ==
  \/ Trace(t) \/ TraceLine(t) \/ EndMacro(t)
  \/ HexDumpTrace(t) \/ ReturnTimestamp(t) \/ LogLine(t)

Next ==
  \/ \E t \in Threads : \/ StartCall(t) \/ Message(t) \/ HexDump(t)
                        \/ AcquireLock(t) \/ AcquireMutex(t) \/ Proceed(t)
  \/ Tick

\* The operating system keeps running every thread that is not waiting.
FairSpec == Init /\ [][Next]_vars /\ \A t \in Threads : WF_vars(Proceed(t))

-----------------------------------------------------------------------------
\* What a reader of the log finds under t's thread id, and how it changes the
\* call depth he infers from the first k pieces of the file.
SaidBy(t, piece) == piece.kind = "text" /\ said[piece.id].by = t

Change(kind) == CASE kind = "ctor" -> 1 [] kind = "dtor" -> -1 [] OTHER -> 0

DepthAfter(t) ==
  LET f == files[Path]
      depth[k \in 0 .. Len(f)] ==
        IF k = 0 THEN 0
        ELSE depth[k - 1] + IF SaidBy(t, f[k]) THEN Change(said[f[k].of].kind) ELSE 0
  IN  depth

(***************************************************************************)
(* README.md:10: the log tells "precisely which functions were             *)
(* entered/existed and in what order they were called".  The lines under a *)
(* thread's id are its own, whole, nested, each indented by the depth that *)
(* the lines before it show; a message stands between the lines of the     *)
(* functions it was logged in; and outside the macro the lines account for *)
(* every function the thread is in: none is missing.                       *)
(***************************************************************************)
LogTellsCalls ==
  \A t \in Threads :
    LET f == files[Path]
        depth == DepthAfter(t)
    IN  /\ \A k \in 1 .. Len(f) :
             SaidBy(t, f[k]) =>
               LET line == said[f[k].of] IN
                 /\ f[k].whole
                 /\ line.by = t
                 /\ line.indent = IF line.kind = "dtor" THEN depth[k] ELSE depth[k - 1]
                 /\ depth[k] >= 0
        /\ ~ InMacro(t) => depth[Len(f)] = live[t]

(***************************************************************************)
(* The timestamps of a log never go back: the time of a line is taken      *)
(* under the mutex that also decides its place in the file.  (The text     *)
(* shows the time of day, which starts again at midnight; and the clock is *)
(* one that nobody sets back.)                                             *)
(***************************************************************************)
StampsInOrder ==
  LET f == files[Path]
  IN  \A j, k \in 1 .. Len(f) :
        j < k /\ f[j].kind = "timestamp" /\ f[k].kind = "timestamp"
          => said[f[j].id].at <= said[f[k].id].at

(***************************************************************************)
(* Neither lock is kept: the tracer's is free again before its thread asks *)
(* for the logger's, and no function that runs under the logger's logs or  *)
(* is traced (the note at Utilities.cpp:68-77), so no thread waits for     *)
(* itself and no two wait for one another.                                 *)
(***************************************************************************)
LocksFreed ==
  /\ lock # NoThread ~> lock = NoThread
  /\ mutex # NoThread ~> mutex = NoThread

=============================================================================
