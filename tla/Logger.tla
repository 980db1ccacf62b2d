------------------------------- MODULE Logger -------------------------------
(***************************************************************************)
(* The logger: one log file, one output buffer and one mutex, all static,  *)
(* shared by every thread that logs a line.                                *)
(*                                                                         *)
(* A line is written in pieces: timestamp, mask, text, end of line.  Every *)
(* write to the stream, every attempt of vsnprintf and every access made   *)
(* outside the mutex is a step.  The configuration calls that take no lock *)
(* (SetTracingEnabled, AddTraceMask) may come at any moment.               *)
(***************************************************************************)
EXTENDS Integers, Sequences, FiniteSets

CONSTANTS
  Threads, NoThread,   \* the threads, and the owner of a free mutex
  Paths, NoFile,       \* the log files, and the null FILE pointer
  Masks,               \* the trace masks in use, up to case
  EmptyMask, All,      \* "" and "all"
  Lengths,             \* the lengths vsnprintf may return
  InitialSize,         \* the 16K outputBuffer is first allocated with
  Increment,           \* outputBufferSizeIncrement
  SizeLimit,           \* the 200K at which an error is reported
  WArgs,               \* the program also calls LogLineWArgs, which takes no lock
  MaxCalls,            \* bound on the lines a behaviour tries to log
  MaxChanges           \* bound on its calls of SetOutputFile and Cleanup

ASSUME ThreadsAssumption == NoThread \notin Threads
ASSUME PathsAssumption == NoFile \notin Paths
ASSUME SizesAssumption ==
  /\ Lengths \subseteq Nat
  /\ InitialSize \in Nat \ {0} /\ Increment \in Nat \ {0} /\ SizeLimit \in Nat
ASSUME CallsAssumption ==
  MaxCalls \in Nat /\ MaxChanges \in Nat /\ WArgs \in BOOLEAN

VARIABLES
  logfile,                        \* Logger::_logfile, the path it writes to
  utf8Path,                       \* Logger::_utf8Path
  traceMaskList, ignoreMaskList,  \* as sets: no property tells their order
  mutex,                          \* owner of Logger::_mutex
  tracingEnabled,
  outputBuffer,                   \* what it holds: whose text, and if whole
  outputBufferSize,
  allocated,                      \* outputBuffer # 0
  files,                          \* the pieces written to each file
  flushed,                        \* how many of them fflush or fclose wrote out
  pc, call,                       \* where each thread is, in which call
  argptrUsed,                     \* the call has handed its va_list to vsnprintf
  calls, changes                  \* calls made so far, of either kind

counts  == <<calls, changes>>
config  == <<traceMaskList, ignoreMaskList, tracingEnabled>>
buffer  == <<outputBuffer, outputBufferSize, allocated>>
stream  == <<logfile, utf8Path, files, flushed>>
threads == <<pc, call, argptrUsed, counts>>
vars    == <<config, buffer, stream, threads, mutex>>

Failed == -1     \* vsnprintf's error return
FormatOps == {"LogLine"} \cup (IF WArgs THEN {"LogLineWArgs"} ELSE {})
TextOps == {"HexDumpTrace"}   \* its LogLineNoArgs needs no vsnprintf
FileOps == {"SetOutputFile", "Cleanup"}
Idle == [op |-> "none", id |-> 0, mask |-> EmptyMask, len |-> 0]

Text(id, whole) == [of |-> id, whole |-> whole]
NoText == Text(0, FALSE)
Piece(kind, id, text) == [kind |-> kind, id |-> id, of |-> text.of, whole |-> text.whole]

Init ==
  /\ logfile = NoFile
  /\ utf8Path = NoFile
  /\ traceMaskList = {}
  /\ ignoreMaskList = {}
  /\ mutex = NoThread
  /\ tracingEnabled = FALSE
  /\ outputBuffer = NoText
  /\ outputBufferSize = 0
  /\ allocated = FALSE
  /\ files = [p \in Paths |-> <<>>]
  /\ flushed = [p \in Paths |-> 0]
  /\ pc = [t \in Threads |-> "idle"]
  /\ call = [t \in Threads |-> Idle]
  /\ argptrUsed = [t \in Threads |-> FALSE]
  /\ calls = 0
  /\ changes = 0

Goto(t, label) == pc' = [pc EXCEPT ![t] = label]

(***************************************************************************)
(* IsTraceMask, as StartLogLine and HexDumpTrace call it                   *)
(***************************************************************************)
IsTraceMask(mask) ==
  \/ mask = EmptyMask
  \/ /\ tracingEnabled
     /\ mask \notin ignoreMaskList
     /\ {mask, All} \cap traceMaskList # {}

-----------------------------------------------------------------------------
(***************************************************************************)
(* Configuration, without the mutex.                                       *)
(***************************************************************************)
SetTracingEnabled(b) ==
  /\ tracingEnabled' = b
  /\ UNCHANGED <<traceMaskList, ignoreMaskList, buffer, stream, threads, mutex>>

AddTraceMask(mask) ==
  /\ traceMaskList' = traceMaskList \cup {mask}
  /\ UNCHANGED <<ignoreMaskList, tracingEnabled, buffer, stream, threads, mutex>>

\* AddTraceMask ("-mask")
AddIgnoreMask(mask) ==
  /\ ignoreMaskList' = ignoreMaskList \cup {mask}
  /\ UNCHANGED <<traceMaskList, tracingEnabled, buffer, stream, threads, mutex>>

-----------------------------------------------------------------------------
(***************************************************************************)
(* Calls.  The macros LOGGER_LOGLINE, LOGGER_ASSERT and HEXDUMPTRACE look  *)
(* at _tracingEnabled first, without the mutex.                            *)
(***************************************************************************)
Begin(t, c, label) ==
  /\ pc[t] = "idle"
  /\ call' = [call EXCEPT ![t] = c]
  /\ Goto(t, label)
  /\ UNCHANGED <<config, buffer, stream, argptrUsed, mutex>>

FirstStep(op) == CASE op = "HexDumpTrace" -> "hexdump"
                   [] op = "LogLineWArgs" -> "start"
                   [] OTHER -> "lock"

Log(t, op, mask, len) ==
  /\ tracingEnabled \/ op = "LogLineWArgs"
  /\ calls < MaxCalls
  /\ calls' = calls + 1
  /\ Begin(t, [op |-> op, id |-> calls', mask |-> mask, len |-> len], FirstStep(op))
  /\ UNCHANGED changes

ChangeFile(t, op) ==
  /\ changes < MaxChanges
  /\ changes' = changes + 1
  /\ Begin(t, [Idle EXCEPT !.op = op], "lock")
  /\ UNCHANGED calls

\* The call returns; ~lock_guard frees the mutex if the call had taken it.
Return(t) ==
  /\ Goto(t, "idle")
  /\ call' = [call EXCEPT ![t] = Idle]
  /\ argptrUsed' = [argptrUsed EXCEPT ![t] = FALSE]
  /\ mutex' = IF mutex = t THEN NoThread ELSE mutex
  /\ UNCHANGED counts

\* HexDumpTrace asks for the mask before it dumps and calls LogLineNoArgs.
HexDumpTrace(t) ==
  /\ pc[t] = "hexdump"
  /\ IF IsTraceMask(call[t].mask)
     THEN Goto(t, "lock") /\ UNCHANGED <<call, argptrUsed, counts, mutex>>
     ELSE Return(t)
  /\ UNCHANGED <<config, buffer, stream>>

\* Without the lock_guard.
AcquireMutex_Free(t) ==
  /\ pc[t] = "lock"
  /\ mutex' = t
  /\ Goto(t, IF call[t].op \in FileOps THEN "close" ELSE "start")
  /\ UNCHANGED <<config, buffer, stream, call, argptrUsed, counts>>

AcquireMutex(t) ==
  /\ pc[t] = "lock"
  /\ mutex = NoThread
  /\ mutex' = t
  /\ Goto(t, IF call[t].op \in FileOps THEN "close" ELSE "start")
  /\ UNCHANGED <<config, buffer, stream, call, argptrUsed, counts>>

-----------------------------------------------------------------------------
(***************************************************************************)
(* StartLogLine, DoLogLine and DoLogLineWithArgs                           *)
(***************************************************************************)
\* An early return that leaves the mutex locked, without the lock_guard.
StartLogLine_KeepsMutex(t) ==
  /\ pc[t] = "start"
  /\ Goto(t, IF logfile # NoFile /\ IsTraceMask(call[t].mask) THEN "line" ELSE "idle")
  /\ UNCHANGED <<config, buffer, stream, call, argptrUsed, counts, mutex>>

StartLogLine(t) ==
  /\ pc[t] = "start"
  /\ IF logfile # NoFile /\ IsTraceMask(call[t].mask)
     THEN Goto(t, "line") /\ UNCHANGED <<call, argptrUsed, counts, mutex>>
     ELSE Return(t)
  /\ UNCHANGED <<config, buffer, stream>>

\* DoLogLine: allocate the buffer, and look at _logfile again.
AllocateBuffer_KeepsSize(t) ==
  /\ pc[t] = "line"
  /\ allocated' = TRUE
  /\ Goto(t, "timestamp")
  /\ UNCHANGED <<config, stream, outputBuffer, outputBufferSize, call, argptrUsed, counts,
                 mutex>>

AllocateBuffer(t) ==
  /\ pc[t] = "line"
  /\ allocated' = TRUE
  /\ outputBufferSize' = IF allocated THEN outputBufferSize ELSE InitialSize
  /\ outputBuffer' = IF allocated THEN outputBuffer ELSE NoText
  /\ IF logfile # NoFile
     THEN Goto(t, "timestamp") /\ UNCHANGED <<call, argptrUsed, counts, mutex>>
     ELSE Return(t)
  /\ UNCHANGED <<config, stream>>

\* fprintf to the stream; to a null stream it is undefined.
Put(piece) ==
  /\ logfile # NoFile
  /\ files' = [files EXCEPT ![logfile] = Append(@, piece)]
  /\ UNCHANGED <<logfile, utf8Path, flushed>>

OutputTimestamp(t) ==
  /\ pc[t] = "timestamp"
  /\ Put(Piece("timestamp", call[t].id, NoText))
  /\ Goto(t, IF call[t].op \in FormatOps THEN "vsnprintf" ELSE "mask")
  /\ UNCHANGED <<config, buffer, call, argptrUsed, counts, mutex>>

\* What vsnprintf may return: the length of the message, or Failed if it cannot
\* be converted (len = Failed).  Once the va_list has been used its arguments
\* are indeterminate, and so is the result.
Results(t) == IF argptrUsed[t] THEN Lengths \cup {Failed} ELSE {call[t].len}

\* delete[] and new: the contents are gone.
Regrow(t, n) ==
  /\ outputBufferSize' = n
  /\ outputBuffer' = NoText
  /\ argptrUsed' = [argptrUsed EXCEPT ![t] = TRUE]
  /\ UNCHANGED <<allocated, pc, call, counts, mutex, stream>>

Rendered(t, n) ==
  /\ n \in 0 .. outputBufferSize - 1
  /\ \E whole \in BOOLEAN :
       /\ whole => n = call[t].len
       /\ whole \/ argptrUsed[t]
       /\ outputBuffer' = Text(call[t].id, whole)
  /\ Goto(t, "mask")
  /\ UNCHANGED <<outputBufferSize, allocated, call, argptrUsed, counts, mutex, stream>>

TooLong(t, n) ==
  /\ n >= outputBufferSize
  /\ Regrow(t, n + 1)

Retry(t, n) ==
  /\ n = Failed
  /\ outputBufferSize < SizeLimit
  /\ Regrow(t, outputBufferSize + Increment)

\* Giving up on the line once the error has been reported.
Fail_Returns(t, n) ==
  /\ n = Failed
  /\ outputBufferSize >= SizeLimit
  /\ Put(Piece("error", call[t].id, NoText))
  /\ Return(t)
  /\ UNCHANGED buffer

\* The error line is written into the middle of the log line, which then goes
\* on with whatever vsnprintf left in the buffer.  C does not say what that is;
\* the libraries in use end the string before they start and write in order, so
\* it is what this call could convert.
Fail(t, n) ==
  /\ n = Failed
  /\ outputBufferSize >= SizeLimit
  /\ Put(Piece("error", call[t].id, NoText))
  /\ outputBuffer' = Text(call[t].id, FALSE)
  /\ Goto(t, "mask")
  /\ UNCHANGED <<outputBufferSize, allocated, call, argptrUsed, counts, mutex>>

Vsnprintf(t) ==
  /\ pc[t] = "vsnprintf"
  /\ \E n \in Results(t) : Rendered(t, n) \/ TooLong(t, n) \/ Retry(t, n) \/ Fail(t, n)
  /\ UNCHANGED config

WriteMask(t) ==
  /\ pc[t] = "mask"
  /\ IF logfile # NoFile
     THEN /\ Put(Piece("mask", call[t].id, NoText))
          /\ Goto(t, "text")
          /\ UNCHANGED <<call, argptrUsed, counts, mutex>>
     ELSE Return(t) /\ UNCHANGED stream
  /\ UNCHANGED <<config, buffer>>

\* Without useArgPtr.
WriteText_Buffer(t) ==
  /\ pc[t] = "text"
  /\ Put(Piece("text", call[t].id, outputBuffer))
  /\ Goto(t, "newline")
  /\ UNCHANGED <<config, buffer, call, argptrUsed, counts, mutex>>

\* buffer is the caller's text, or outputBuffer as it is by now.
WriteText(t) ==
  /\ pc[t] = "text"
  /\ Put(Piece("text", call[t].id,
               IF call[t].op \in FormatOps THEN outputBuffer
               ELSE Text(call[t].id, TRUE)))
  /\ Goto(t, "newline")
  /\ UNCHANGED <<config, buffer, call, argptrUsed, counts, mutex>>

EndLine_NoFlush(t) ==
  /\ pc[t] = "newline"
  /\ Put(Piece("newline", call[t].id, NoText))
  /\ Return(t)
  /\ UNCHANGED <<config, buffer>>

EndLine(t) ==
  /\ pc[t] = "newline"
  /\ logfile # NoFile
  /\ files' = [files EXCEPT ![logfile] = Append(@, Piece("newline", call[t].id, NoText))]
  /\ flushed' = [flushed EXCEPT ![logfile] = Len(files'[logfile])]
  /\ Return(t)
  /\ UNCHANGED <<config, buffer, logfile, utf8Path>>

-----------------------------------------------------------------------------
(***************************************************************************)
(* SetOutputFile and Cleanup                                               *)
(***************************************************************************)
CloseFile(t) ==
  /\ pc[t] = "close"
  /\ logfile' = NoFile
  /\ flushed' = [p \in Paths |-> IF p = logfile THEN Len(files[p]) ELSE flushed[p]]
  /\ IF call[t].op = "Cleanup"
     THEN /\ Return(t)
          /\ allocated' = FALSE
          /\ outputBuffer' = NoText
     ELSE /\ Goto(t, "open")
          /\ UNCHANGED <<call, argptrUsed, counts, mutex, allocated, outputBuffer>>
  /\ UNCHANGED <<config, outputBufferSize, utf8Path, files>>

\* fopen with "w" truncates the file, with "a" it does not.
Opened(p, old) ==
  /\ logfile' = p
  /\ files' = [files EXCEPT ![p] = Append(old, Piece("header", 0, NoText))]
  /\ flushed' = [flushed EXCEPT ![p] = Len(files'[p])]

OpenFails == UNCHANGED <<logfile, files, flushed>>

OpenFile(t, p) ==
  /\ pc[t] = "open"
  /\ utf8Path' = p
  /\ Opened(p, <<>>) \/ Opened(p, files[p]) \/ OpenFails
  /\ Return(t)
  /\ UNCHANGED <<config, buffer>>

-----------------------------------------------------------------------------
Configure ==
  \/ \E b \in BOOLEAN : SetTracingEnabled(b)
  \/ \E mask \in Masks \cup {All} : AddTraceMask(mask)
  \/ \E mask \in Masks : AddIgnoreMask(mask)

\* The steps of a call that has got the mutex, if it takes it.
Proceed(t) ==
  \/ HexDumpTrace(t) \/ StartLogLine(t) \/ AllocateBuffer(t) \/ OutputTimestamp(t)
  \/ Vsnprintf(t) \/ WriteMask(t) \/ WriteText(t) \/ EndLine(t)
  \/ CloseFile(t) \/ \E p \in Paths : OpenFile(t, p)

Next ==
  \/ Configure
  \/ \E t \in Threads :
       \/ \E mask \in Masks \cup {EmptyMask} :
            \/ \E op \in FormatOps, len \in Lengths \cup {Failed} : Log(t, op, mask, len)
            \/ \E op \in TextOps : Log(t, op, mask, 0)
       \/ \E op \in FileOps : ChangeFile(t, op)
       \/ AcquireMutex(t)
       \/ Proceed(t)

Spec == Init /\ [][Next]_vars

\* The operating system keeps running every thread that is not waiting.
FairSpec == Spec /\ \A t \in Threads : WF_vars(Proceed(t))

-----------------------------------------------------------------------------
Writing == {"timestamp", "vsnprintf", "mask", "text", "newline"}
Outside == {"idle", "lock", "hexdump"}
Inside  == Writing \cup {"start", "line", "close", "open"}

Ops    == FormatOps \cup TextOps \cup FileOps \cup {"none"}
Kinds  == {"header", "timestamp", "error", "mask", "text", "newline"}
Texts  == [of : 0 .. MaxCalls, whole : BOOLEAN]
Pieces == [kind : Kinds, id : 0 .. MaxCalls, of : 0 .. MaxCalls, whole : BOOLEAN]
Calls  == [op : Ops, id : 0 .. MaxCalls, mask : Masks \cup {EmptyMask},
           len : Lengths \cup {Failed, 0}]

ConfigTypeOK ==
  /\ traceMaskList \subseteq Masks \cup {All}
  /\ ignoreMaskList \subseteq Masks
  /\ tracingEnabled \in BOOLEAN

BufferTypeOK ==
  /\ outputBuffer \in Texts
  /\ outputBufferSize \in Nat
  /\ allocated \in BOOLEAN
  /\ allocated => outputBufferSize >= InitialSize

StreamTypeOK ==
  /\ logfile \in Paths \cup {NoFile}
  /\ utf8Path \in Paths \cup {NoFile}
  /\ files \in [Paths -> Seq(Pieces)]
  /\ flushed \in [Paths -> Nat]
  /\ \A p \in Paths : flushed[p] <= Len(files[p])

ThreadTypeOK ==
  /\ mutex \in Threads \cup {NoThread}
  /\ pc \in [Threads -> Outside \cup Inside]
  /\ call \in [Threads -> Calls]
  /\ argptrUsed \in [Threads -> BOOLEAN]
  /\ calls \in 0 .. MaxCalls
  /\ changes \in 0 .. MaxChanges

TypeOK == ConfigTypeOK /\ BufferTypeOK /\ StreamTypeOK /\ ThreadTypeOK

\* What may follow what in a log file: a line is the work of one call.
Follows(a, b) ==
  \/ /\ a.kind \in {"header", "newline"}
     /\ b.kind \in {"header", "timestamp"}
  \/ /\ a.id = b.id
     /\ <<a.kind, b.kind>> \in {<<"timestamp", "mask">>, <<"timestamp", "error">>,
                                <<"error", "mask">>, <<"mask", "text">>,
                                <<"text", "newline">>}

(***************************************************************************)
(* README.md:2 and 8: logging is thread-safe.  A file is a sequence of     *)
(* lines, each from its timestamp to its newline written by one call.      *)
(***************************************************************************)
LinesNotMixed ==
  \A p \in Paths : \A k \in 1 .. Len(files[p]) - 1 : Follows(files[p][k], files[p][k + 1])

(***************************************************************************)
(* No line is mixed with another's, every file starts with a header, and   *)
(* only the thread that holds the mutex leaves a line unfinished, whatever *)
(* calls of SetOutputFile and Cleanup come between.                        *)
(***************************************************************************)
WholeLines ==
  /\ LinesNotMixed
  /\ \A p \in Paths :
       LET f == files[p] IN
         f # <<>> =>
           /\ f[1].kind = "header"
           /\ mutex = NoThread => f[Len(f)].kind \in {"header", "newline"}

(***************************************************************************)
(* README.md:8: a message is "guaranteed to be logged to the output log    *)
(* file in a reliable ... way".  What LogLine writes out is the message it *)
(* was called with, if vsnprintf can render it at all.                     *)
(***************************************************************************)
TextIntact ==
  \A t \in Threads :
    pc[t] = "text" /\ call[t].op \in FormatOps /\ call[t].len # Failed
      => outputBuffer = Text(call[t].id, TRUE)

(***************************************************************************)
(* "When the application finishes running, the developer has access to the *)
(* complete logging file" (README.md:8), also when it does not finish in   *)
(* an orderly way: while no call is inside the logger, nothing that was    *)
(* logged is still in the stream's buffer, so if the program crashes, no   *)
(* line is lost.  (fflush hands a line to the operating system; that it    *)
(* survives a crash of the system as well is not promised.)                *)
(***************************************************************************)
OnDiskWhenFree ==
  mutex = NoThread => \A p \in Paths : flushed[p] = Len(files[p])

(***************************************************************************)
(* The stream a line is written to is open from the check in StartLogLine  *)
(* to the newline: what the comment at Logger.cpp:177-178 fears, that the  *)
(* log is closed in between, needs a call that has not taken the mutex.    *)
(***************************************************************************)
OpenWhileWriting ==
  \A t \in Threads : pc[t] \in Writing => logfile # NoFile

(***************************************************************************)
(* A call that got the mutex frees it, on every path through the logger:   *)
(* with no file, a mask that is off, an error of vsnprintf, a file that    *)
(* does not open.  The loop of DoLogLineWithArgs (Logger.cpp:195-231) ends *)
(* whatever vsnprintf returns, because every retry has a larger buffer.    *)
(***************************************************************************)
MutexFreed == mutex # NoThread ~> mutex = NoThread

(***************************************************************************)
(* The logger implements AtomicLog.  A line counts as logged once its text *)
(* is written, at its place among the pieces of the file; a call is        *)
(* accepted from StartLogLine's answer until then.                         *)
(***************************************************************************)
Accepted == {"line", "timestamp", "vsnprintf", "mask", "text"}

Short(c) == c.len \in 0 .. InitialSize - 1

LineAt(f, k) == f[k].kind \in {"header", "text"}

Lines(f) ==
  [k \in {n \in 1 .. Len(f) : LineAt(f, n)} |->
     [id |-> f[k].id, of |-> f[k].of, whole |-> f[k].whole]]

AcceptedCall ==
  IF mutex # NoThread /\ pc[mutex] \in Accepted
  THEN [id |-> call[mutex].id, short |-> Short(call[mutex])]
  ELSE [id |-> 0, short |-> TRUE]

Logged == [p \in Paths |-> Lines(files[p])]

Atomic == INSTANCE AtomicLog WITH
  Ids <- 1 .. MaxCalls, open <- logfile, accepted <- AcceptedCall, log <- Logged

LogsAtomically == Atomic!Spec

=============================================================================
