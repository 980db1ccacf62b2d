---------------------------- MODULE LoggerProof ----------------------------
(***************************************************************************)
(* Proofs about Logger, for any number of threads, files and masks and any *)
(* buffer sizes.  The type invariant holds of every program; the rest is   *)
(* about programs that log through the functions that take the mutex       *)
(* (~ WArgs).                                                              *)
(***************************************************************************)
EXTENDS Logger, TLAPS

USE DEF counts, config, buffer, stream, threads

(***************************************************************************)
(* The pieces of a line are pieces.                                        *)
(***************************************************************************)
LEMMA NoTextType == NoText \in Texts
BY CallsAssumption DEF NoText, Text, Texts

LEMMA TextType ==
  ASSUME ThreadTypeOK, NEW t \in Threads, NEW whole \in BOOLEAN
  PROVE  Text(call[t].id, whole) \in Texts
BY DEF ThreadTypeOK, Calls, Text, Texts

LEMMA PieceType ==
  ASSUME ThreadTypeOK, NEW t \in Threads, NEW kind \in Kinds, NEW text \in Texts
  PROVE  Piece(kind, call[t].id, text) \in Pieces
BY DEF ThreadTypeOK, Calls, Texts, Piece, Pieces

(***************************************************************************)
(* A write to the stream keeps its type.                                   *)
(***************************************************************************)
LEMMA PutType ==
  ASSUME StreamTypeOK, NEW piece \in Pieces, Put(piece)
  PROVE  StreamTypeOK'
<1>1. logfile \in Paths
  BY DEF Put, StreamTypeOK
<1>2. /\ Append(files[logfile], piece) \in Seq(Pieces)
      /\ Len(Append(files[logfile], piece)) = Len(files[logfile]) + 1
      /\ Len(files[logfile]) \in Nat
  BY <1>1 DEF StreamTypeOK
<1>3. files' = [files EXCEPT ![logfile] = Append(files[logfile], piece)]
  BY DEF Put
<1>4. \A p \in Paths : Len(files[p]) \in Nat
  BY DEF StreamTypeOK
<1>5. \A p \in Paths : flushed[p] <= Len(files'[p])
  BY <1>1, <1>2, <1>3, <1>4 DEF StreamTypeOK
<1> QED
  BY <1>1, <1>2, <1>3, <1>5 DEF Put, StreamTypeOK

(***************************************************************************)
(* The step of a call that returns keeps the threads' types.               *)
(***************************************************************************)
LEMMA ReturnType ==
  ASSUME ThreadTypeOK, NEW t \in Threads, Return(t)
  PROVE  ThreadTypeOK'
<1>1. Idle \in Calls
  BY CallsAssumption DEF Idle, Calls, Ops
<1> QED
  BY <1>1 DEF ThreadTypeOK, Return, Goto, Outside

\* ... and so does one that goes on.
LEMMA GotoType ==
  ASSUME ThreadTypeOK, NEW t \in Threads, NEW label \in Outside \cup Inside,
         Goto(t, label), UNCHANGED <<call, argptrUsed, counts, mutex>>
  PROVE  ThreadTypeOK'
BY DEF ThreadTypeOK, Goto

(***************************************************************************)
(* Configuration is typed whatever the threads do.                         *)
(***************************************************************************)
LEMMA ConfigStep ==
  ASSUME ConfigTypeOK, [Next]_vars
  PROVE  ConfigTypeOK'
<1>1. CASE Configure
  BY <1>1 DEF Configure, SetTracingEnabled, AddTraceMask, AddIgnoreMask, ConfigTypeOK
<1>2. CASE UNCHANGED config
  BY <1>2 DEF ConfigTypeOK
<1>3. ASSUME NEW t \in Threads, Proceed(t)
      PROVE  UNCHANGED config
  BY <1>3 DEF Proceed, HexDumpTrace, StartLogLine, AllocateBuffer, OutputTimestamp,
              Vsnprintf, WriteMask, WriteText, EndLine, CloseFile, OpenFile
<1> QED
  BY <1>1, <1>2, <1>3 DEF Next, Log, ChangeFile, Begin, AcquireMutex, vars

(***************************************************************************)
(* The buffer never shrinks while it is allocated, and it is allocated     *)
(* with its initial size.                                                  *)
(***************************************************************************)
LEMMA BufferStep ==
  ASSUME BufferTypeOK, ThreadTypeOK, [Next]_vars
  PROVE  BufferTypeOK'
<1> USE SizesAssumption, NoTextType
<1>1. CASE UNCHANGED buffer
  BY <1>1 DEF BufferTypeOK
<1>2. ASSUME NEW t \in Threads, AllocateBuffer(t)
      PROVE  BufferTypeOK'
  BY <1>2 DEF AllocateBuffer, BufferTypeOK
<1>3. ASSUME NEW t \in Threads, Vsnprintf(t)
      PROVE  BufferTypeOK'
  <2>1. PICK n \in Results(t) : Rendered(t, n) \/ TooLong(t, n) \/ Retry(t, n) \/ Fail(t, n)
    BY <1>3 DEF Vsnprintf
  <2>2. n \in Int
    BY DEF Results, ThreadTypeOK, Calls, Failed
  <2>3. CASE Rendered(t, n)
    <3>1. PICK whole \in BOOLEAN : outputBuffer' = Text(call[t].id, whole)
      BY <2>3 DEF Rendered
    <3> QED
      BY <2>3, <3>1, TextType DEF Rendered, BufferTypeOK
  <2>4. CASE TooLong(t, n)
    BY <2>2, <2>4 DEF TooLong, Regrow, BufferTypeOK
  <2>5. CASE Retry(t, n)
    BY <2>5 DEF Retry, Regrow, BufferTypeOK
  <2>6. CASE Fail(t, n)
    BY <2>6, TextType DEF Fail, BufferTypeOK
  <2> QED
    BY <2>1, <2>3, <2>4, <2>5, <2>6
<1>4. ASSUME NEW t \in Threads, CloseFile(t)
      PROVE  BufferTypeOK'
  BY <1>4 DEF CloseFile, BufferTypeOK
<1>5. ASSUME NEW t \in Threads,
             \/ HexDumpTrace(t) \/ StartLogLine(t) \/ OutputTimestamp(t)
             \/ WriteMask(t) \/ WriteText(t) \/ EndLine(t) \/ \E p \in Paths : OpenFile(t, p)
      PROVE  UNCHANGED buffer
  BY <1>5 DEF HexDumpTrace, StartLogLine, OutputTimestamp, WriteMask, WriteText, EndLine,
              OpenFile
<1>6. CASE Configure
  BY <1>6 DEF Configure, SetTracingEnabled, AddTraceMask, AddIgnoreMask, BufferTypeOK
<1> QED
  BY <1>1, <1>2, <1>3, <1>4, <1>5, <1>6
     DEF Next, Proceed, Log, ChangeFile, Begin, AcquireMutex, vars

(***************************************************************************)
(* The steps that write to the stream, and those that close and open it.   *)
(***************************************************************************)
LEMMA StreamStep ==
  ASSUME TypeOK, [Next]_vars
  PROVE  StreamTypeOK'
<1> USE NoTextType DEF TypeOK, Kinds
<1>1. CASE UNCHANGED stream
  BY <1>1 DEF StreamTypeOK
<1>2. ASSUME NEW t \in Threads, OutputTimestamp(t)
      PROVE  StreamTypeOK'
  BY <1>2, PieceType, PutType DEF OutputTimestamp
<1>3. ASSUME NEW t \in Threads, Vsnprintf(t)
      PROVE  StreamTypeOK'
  <2>1. Put(Piece("error", call[t].id, NoText)) \/ UNCHANGED stream
    BY <1>3 DEF Vsnprintf, Rendered, TooLong, Retry, Regrow, Fail
  <2> QED
    BY <1>1, <2>1, PieceType, PutType
<1>4. ASSUME NEW t \in Threads, WriteMask(t)
      PROVE  StreamTypeOK'
  BY <1>1, <1>4, PieceType, PutType DEF WriteMask
<1>5. ASSUME NEW t \in Threads, WriteText(t)
      PROVE  StreamTypeOK'
  <2>1. PICK text \in Texts : Put(Piece("text", call[t].id, text))
    BY <1>5, TextType DEF WriteText, BufferTypeOK
  <2> QED
    BY <2>1, PieceType, PutType
<1>6. ASSUME NEW t \in Threads, EndLine(t)
      PROVE  StreamTypeOK'
  <2>1. PICK piece \in Pieces : files' = [files EXCEPT ![logfile] = Append(files[logfile], piece)]
    BY <1>6, PieceType DEF EndLine
  <2>2. logfile \in Paths /\ Append(files[logfile], piece) \in Seq(Pieces)
    BY <1>6 DEF EndLine, StreamTypeOK
  <2>3. files' \in [Paths -> Seq(Pieces)] /\ files'[logfile] \in Seq(Pieces)
    BY <2>1, <2>2 DEF StreamTypeOK
  <2>4. Len(files'[logfile]) \in Nat
    BY <2>3
  <2> QED
    BY <1>6, <2>1, <2>2, <2>3, <2>4 DEF EndLine, StreamTypeOK
<1>7. ASSUME NEW t \in Threads, CloseFile(t)
      PROVE  StreamTypeOK'
  <2>1. \A p \in Paths : Len(files[p]) \in Nat
    BY DEF StreamTypeOK
  <2> QED
    BY <1>7, <2>1 DEF CloseFile, StreamTypeOK
<1>8. ASSUME NEW t \in Threads, NEW p \in Paths, OpenFile(t, p)
      PROVE  StreamTypeOK'
  <2>1. CASE OpenFails
    BY <1>8, <2>1 DEF OpenFile, OpenFails, StreamTypeOK
  <2>2. ASSUME NEW old \in Seq(Pieces), Opened(p, old)
        PROVE  StreamTypeOK'
    <3>1. Piece("header", 0, NoText) \in Pieces
      BY CallsAssumption DEF Piece, Pieces, Texts
    <3>2. Append(old, Piece("header", 0, NoText)) \in Seq(Pieces)
      BY <3>1
    <3>3. files' \in [Paths -> Seq(Pieces)] /\ files'[p] \in Seq(Pieces)
      BY <2>2, <3>2 DEF Opened, StreamTypeOK
    <3>4. Len(files'[p]) \in Nat
      BY <3>3
    <3> QED
      BY <1>8, <2>2, <3>3, <3>4 DEF OpenFile, Opened, StreamTypeOK
  <2>3. <<>> \in Seq(Pieces) /\ files[p] \in Seq(Pieces)
    BY DEF StreamTypeOK
  <2> QED
    BY <1>8, <2>1, <2>2, <2>3 DEF OpenFile
<1>9. ASSUME NEW t \in Threads, HexDumpTrace(t) \/ StartLogLine(t) \/ AllocateBuffer(t)
      PROVE  UNCHANGED stream
  BY <1>9 DEF HexDumpTrace, StartLogLine, AllocateBuffer
<1>10. CASE Configure
  BY <1>1, <1>10 DEF Configure, SetTracingEnabled, AddTraceMask, AddIgnoreMask
<1> QED
  BY <1>1, <1>2, <1>3, <1>4, <1>5, <1>6, <1>7, <1>8, <1>9, <1>10
     DEF Next, Proceed, Log, ChangeFile, Begin, AcquireMutex, vars

(***************************************************************************)
(* Where the threads are, in which call, and who has the mutex.            *)
(***************************************************************************)
LEMMA ThreadStep ==
  ASSUME TypeOK, [Next]_vars
  PROVE  ThreadTypeOK'
<1> USE DEF TypeOK, Inside, Outside, Writing
<1>1. CASE UNCHANGED <<pc, call, argptrUsed, counts, mutex>>
  BY <1>1 DEF ThreadTypeOK
<1>2. ASSUME NEW t \in Threads, NEW op \in FormatOps \cup TextOps,
             NEW mask \in Masks \cup {EmptyMask}, NEW len \in Lengths \cup {Failed, 0},
             Log(t, op, mask, len)
      PROVE  ThreadTypeOK'
  <2>1. calls' \in 0 .. MaxCalls
    BY <1>2, CallsAssumption DEF Log, ThreadTypeOK
  <2>2. [op |-> op, id |-> calls', mask |-> mask, len |-> len] \in Calls
    BY <2>1 DEF Calls, Ops
  <2>3. FirstStep(op) \in Outside \cup Inside
    BY DEF FirstStep
  <2> QED
    BY <1>2, <2>1, <2>2, <2>3 DEF Log, Begin, Goto, ThreadTypeOK
<1>3. ASSUME NEW t \in Threads, NEW op \in FileOps, ChangeFile(t, op)
      PROVE  ThreadTypeOK'
  <2>1. changes' \in 0 .. MaxChanges
    BY <1>3, CallsAssumption DEF ChangeFile, ThreadTypeOK
  <2>2. [Idle EXCEPT !.op = op] \in Calls
    BY CallsAssumption DEF Idle, Calls, Ops
  <2> QED
    BY <1>3, <2>1, <2>2 DEF ChangeFile, Begin, Goto, ThreadTypeOK
<1>4. ASSUME NEW t \in Threads, AcquireMutex(t)
      PROVE  ThreadTypeOK'
  BY <1>4 DEF AcquireMutex, Goto, ThreadTypeOK
<1>5. ASSUME NEW t \in Threads, Vsnprintf(t)
      PROVE  ThreadTypeOK'
  <2>1. CASE \E n \in Results(t) : TooLong(t, n) \/ Retry(t, n)
    BY <2>1 DEF TooLong, Retry, Regrow, ThreadTypeOK
  <2>2. CASE \E n \in Results(t) : Rendered(t, n) \/ Fail(t, n)
    BY <2>2, GotoType DEF Rendered, Fail
  <2> QED
    BY <1>5, <2>1, <2>2 DEF Vsnprintf
<1>6. ASSUME NEW t \in Threads,
             \/ HexDumpTrace(t) \/ StartLogLine(t) \/ AllocateBuffer(t) \/ OutputTimestamp(t)
             \/ WriteMask(t) \/ WriteText(t) \/ EndLine(t) \/ CloseFile(t)
             \/ \E p \in Paths : OpenFile(t, p)
      PROVE  ThreadTypeOK'
  <2>1. \/ Return(t)
        \/ /\ \E label \in Outside \cup Inside : Goto(t, label)
           /\ UNCHANGED <<call, argptrUsed, counts, mutex>>
    BY <1>6 DEF HexDumpTrace, StartLogLine, AllocateBuffer, OutputTimestamp, WriteMask,
                WriteText, EndLine, CloseFile, OpenFile
  <2> QED
    BY <2>1, ReturnType, GotoType
<1>7. CASE Configure
  BY <1>1, <1>7 DEF Configure, SetTracingEnabled, AddTraceMask, AddIgnoreMask
<1> HIDE DEF TypeOK, Inside, Outside, Writing
<1> QED
  BY <1>1, <1>2, <1>3, <1>4, <1>5, <1>6, <1>7 DEF Next, Proceed, vars

-----------------------------------------------------------------------------
LEMMA InitTypes == Init => TypeOK
<1> SUFFICES ASSUME Init PROVE TypeOK
  OBVIOUS
<1>1. ConfigTypeOK /\ BufferTypeOK
  BY SizesAssumption, NoTextType DEF Init, ConfigTypeOK, BufferTypeOK
<1>2. StreamTypeOK
  <2>1. <<>> \in Seq(Pieces) /\ Len(<<>>) = 0
    OBVIOUS
  <2> QED
    BY <2>1 DEF Init, StreamTypeOK
<1>3. ThreadTypeOK
  <2>1. Idle \in Calls
    BY CallsAssumption DEF Idle, Calls, Ops
  <2> QED
    BY <2>1, CallsAssumption DEF Init, ThreadTypeOK, Outside
<1> QED
  BY <1>1, <1>2, <1>3 DEF TypeOK

(***************************************************************************)
(* Type correctness, for every program: in particular the output buffer,   *)
(* once allocated, never gets smaller than its initial size, and no file   *)
(* is reported as written out beyond what was logged to it.                *)
(***************************************************************************)
THEOREM TypeCorrect == Spec => []TypeOK
<1>1. TypeOK /\ [Next]_vars => TypeOK'
  BY ConfigStep, BufferStep, StreamStep, ThreadStep DEF TypeOK
<1> QED
  BY <1>1, InitTypes, PTL DEF Spec

-----------------------------------------------------------------------------
(***************************************************************************)
(* What the mutex buys: programs that do not call LogLineWArgs.            *)
(***************************************************************************)
\* The mutex belongs to the thread that is inside the logger.
Exclusive == \A t \in Threads : pc[t] \in Inside <=> mutex = t

\* Only the line that is being written is not on the disk.
Unflushed ==
  \A p \in Paths :
    \/ flushed[p] = Len(files[p])
    \/ /\ p = logfile
       /\ \E t \in Threads : mutex = t /\ pc[t] \in Writing

\* What a log file looks like between two writes: it starts with a header, and
\* what follows what is as it should be, ...
WellFormed(f) ==
  /\ f # <<>> => f[1].kind = "header"
  /\ \A k \in 1 .. Len(f) - 1 : Follows(f[k], f[k + 1])

\* ... its last line is finished, ...
Complete(f) == f # <<>> => f[Len(f)].kind \in {"header", "newline"}

\* ... or it is t's line, which has come as far as t has.
Begun == {"vsnprintf", "mask", "text", "newline"}

Latest(t) == CASE pc[t] = "vsnprintf" -> {"timestamp"}
               [] pc[t] = "mask"      -> {"timestamp", "error"}
               [] pc[t] = "text"      -> {"mask"}
               [] pc[t] = "newline"   -> {"text"}

EndsWith(t, f) ==
  f # <<>> /\ f[Len(f)].id = call[t].id /\ f[Len(f)].kind \in Latest(t)

LineByLine ==
  /\ \A p \in Paths : WellFormed(files[p])
  /\ \A p \in Paths : Complete(files[p])
                      \/ (p = logfile /\ \E t \in Threads : pc[t] \in Begun)
  /\ \A t \in Threads : pc[t] \in Begun => EndsWith(t, files[logfile])
  /\ logfile # NoFile => files[logfile] # <<>>

(***************************************************************************)
(* Every step of a call returns, or goes on with the mutex it has.         *)
(***************************************************************************)
Stays(t) ==
  /\ pc[t] \in Inside
  /\ UNCHANGED mutex
  /\ UNCHANGED pc \/ \E label \in Inside : Goto(t, label)

LEMMA ReturnExclusive ==
  ASSUME TypeOK, Exclusive, NEW t \in Threads, Return(t)
  PROVE  Exclusive'
BY ThreadsAssumption DEF TypeOK, ThreadTypeOK, Exclusive, Return, Goto, Inside, Writing

LEMMA StaysExclusive ==
  ASSUME TypeOK, Exclusive, NEW t \in Threads, Stays(t)
  PROVE  Exclusive'
BY DEF TypeOK, ThreadTypeOK, Exclusive, Stays, Goto

LEMMA Steps ==
  ASSUME NEW t \in Threads, Proceed(t)
  PROVE  \/ HexDumpTrace(t) /\ Goto(t, "lock") /\ UNCHANGED mutex
         \/ Return(t)
         \/ Stays(t)
<1> USE DEF Stays, Inside, Writing
<1>1. CASE Vsnprintf(t)
  <2>1. PICK n : Rendered(t, n) \/ TooLong(t, n) \/ Retry(t, n) \/ Fail(t, n)
    BY <1>1 DEF Vsnprintf
  <2>2. CASE Rendered(t, n) \/ Fail(t, n)
    BY <1>1, <2>2 DEF Vsnprintf, Rendered, Fail
  <2>3. CASE TooLong(t, n) \/ Retry(t, n)
    BY <1>1, <2>3 DEF Vsnprintf, TooLong, Retry, Regrow
  <2> QED
    BY <2>1, <2>2, <2>3
<1>2. CASE HexDumpTrace(t)
  BY <1>2 DEF HexDumpTrace
<1>3. CASE StartLogLine(t) \/ AllocateBuffer(t) \/ OutputTimestamp(t)
  BY <1>3 DEF StartLogLine, AllocateBuffer, OutputTimestamp
<1>4. CASE WriteMask(t) \/ WriteText(t) \/ EndLine(t)
  BY <1>4 DEF WriteMask, WriteText, EndLine
<1>5. CASE CloseFile(t) \/ \E p \in Paths : OpenFile(t, p)
  BY <1>5 DEF CloseFile, OpenFile
<1> QED
  BY <1>1, <1>2, <1>3, <1>4, <1>5 DEF Proceed

(***************************************************************************)
(* Mutual exclusion.                                                       *)
(***************************************************************************)
LEMMA ExclusiveStep ==
  ASSUME ~ WArgs, TypeOK, Exclusive, [Next]_vars
  PROVE  Exclusive'
<1> USE DEF TypeOK, ThreadTypeOK
<1>1. CASE UNCHANGED <<pc, mutex>>
  BY <1>1 DEF Exclusive
<1>2. ASSUME NEW t \in Threads, NEW label \in Outside, pc[t] \in Outside,
             Goto(t, label), UNCHANGED mutex
      PROVE  Exclusive'
  BY <1>2 DEF Exclusive, Goto, Outside, Inside, Writing
<1>3. ASSUME NEW t \in Threads,
             NEW op \in FormatOps \cup TextOps, NEW mask, NEW len, Log(t, op, mask, len)
      PROVE  Exclusive'
  <2>1. FirstStep(op) \in Outside
    BY DEF FirstStep, FormatOps, TextOps, Outside
  <2> QED
    BY <1>2, <1>3, <2>1 DEF Log, Begin, Outside
<1>4. ASSUME NEW t \in Threads, NEW op, ChangeFile(t, op)
      PROVE  Exclusive'
  BY <1>2, <1>4 DEF ChangeFile, Begin, Outside
<1>5. ASSUME NEW t \in Threads, AcquireMutex(t)
      PROVE  Exclusive'
  BY <1>5, ThreadsAssumption DEF AcquireMutex, Exclusive, Goto, Inside, Writing
<1>6. ASSUME NEW t \in Threads, Proceed(t)
      PROVE  Exclusive'
  <2>1. CASE HexDumpTrace(t) /\ Goto(t, "lock") /\ UNCHANGED mutex
    BY <1>2, <2>1 DEF HexDumpTrace, Outside
  <2> QED
    BY <1>6, <2>1, Steps, ReturnExclusive, StaysExclusive
<1>7. CASE Configure
  BY <1>1, <1>7 DEF Configure, SetTracingEnabled, AddTraceMask, AddIgnoreMask
<1> HIDE DEF TypeOK, ThreadTypeOK
<1> QED
  BY <1>1, <1>3, <1>4, <1>5, <1>6, <1>7 DEF Next, vars

(***************************************************************************)
(* Only the thread that has the mutex opens, closes or writes the stream.  *)
(***************************************************************************)
LEMMA OpenStep ==
  ASSUME ~ WArgs, TypeOK, Exclusive, Exclusive', OpenWhileWriting, [Next]_vars
  PROVE  OpenWhileWriting'
<1> USE DEF TypeOK, ThreadTypeOK, Writing
<1>1. CASE UNCHANGED <<pc, logfile>>
  BY <1>1 DEF OpenWhileWriting
<1>2. ASSUME NEW t \in Threads, NEW label, UNCHANGED logfile, Goto(t, label),
             label \in Writing => pc[t] \in Writing \/ logfile # NoFile
      PROVE  OpenWhileWriting'
  BY <1>2 DEF OpenWhileWriting, Goto
<1>3. ASSUME NEW t \in Threads, pc[t] \in {"close", "open"},
             \E label \in {"idle", "open"} : Goto(t, label)
      PROVE  OpenWhileWriting'
  <2>1. \A u \in Threads : u # t => pc[u] \notin Inside
    BY <1>3 DEF Exclusive, Inside
  <2> QED
    BY <1>3, <2>1 DEF OpenWhileWriting, Goto, Inside
<1>4. ASSUME NEW t \in Threads, CloseFile(t) \/ \E p \in Paths : OpenFile(t, p)
      PROVE  OpenWhileWriting'
  BY <1>3, <1>4 DEF CloseFile, OpenFile, Return
<1>5. ASSUME NEW t \in Threads, Vsnprintf(t)
      PROVE  OpenWhileWriting'
  <2>1. PICK n : Rendered(t, n) \/ TooLong(t, n) \/ Retry(t, n) \/ Fail(t, n)
    BY <1>5 DEF Vsnprintf
  <2>2. CASE Rendered(t, n) \/ Fail(t, n)
    BY <1>2, <1>5, <2>2 DEF Vsnprintf, Rendered, Fail, Put
  <2>3. CASE TooLong(t, n) \/ Retry(t, n)
    BY <1>1, <2>3 DEF TooLong, Retry, Regrow
  <2> QED
    BY <2>1, <2>2, <2>3
<1>6. ASSUME NEW t \in Threads, HexDumpTrace(t) \/ StartLogLine(t) \/ AllocateBuffer(t)
      PROVE  OpenWhileWriting'
  BY <1>2, <1>6 DEF HexDumpTrace, StartLogLine, AllocateBuffer, Return
<1>7. ASSUME NEW t \in Threads,
             OutputTimestamp(t) \/ WriteMask(t) \/ WriteText(t) \/ EndLine(t)
      PROVE  OpenWhileWriting'
  BY <1>2, <1>7 DEF OutputTimestamp, WriteMask, WriteText, EndLine, Return, Put
<1>8. ASSUME NEW t \in Threads, NEW c, NEW label \in Outside \cup {"start"}, Begin(t, c, label)
      PROVE  OpenWhileWriting'
  BY <1>2, <1>8 DEF Begin, Outside
<1>9. ASSUME NEW t \in Threads, AcquireMutex(t)
      PROVE  OpenWhileWriting'
  BY <1>2, <1>9 DEF AcquireMutex
<1>10. ASSUME NEW t \in Threads, NEW op, NEW mask, NEW len, Log(t, op, mask, len)
       PROVE  OpenWhileWriting'
  BY <1>8, <1>10 DEF Log, FirstStep, Outside
<1>11. ASSUME NEW t \in Threads, NEW op, ChangeFile(t, op)
       PROVE  OpenWhileWriting'
  BY <1>8, <1>11 DEF ChangeFile, Outside
<1>12. CASE Configure
  BY <1>1, <1>12 DEF Configure, SetTracingEnabled, AddTraceMask, AddIgnoreMask
<1> HIDE DEF TypeOK, ThreadTypeOK, Writing
<1> QED
  BY <1>1, <1>4, <1>5, <1>6, <1>7, <1>9, <1>10, <1>11, <1>12 DEF Next, Proceed, vars

(***************************************************************************)
(* A line is flushed before the mutex is freed.                            *)
(***************************************************************************)
LEMMA FlushedStep ==
  ASSUME ~ WArgs, TypeOK, Exclusive, OpenWhileWriting, Unflushed, [Next]_vars
  PROVE  Unflushed'
<1> USE DEF TypeOK, ThreadTypeOK
<1>1. CASE UNCHANGED <<files, flushed, logfile, mutex>> /\ UNCHANGED pc
  BY <1>1 DEF Unflushed
<1>2. ASSUME NEW t \in Threads, pc[t] \notin Writing, NEW label, Goto(t, label),
             UNCHANGED <<files, flushed, logfile>>,
             UNCHANGED mutex \/ mutex \in {t, NoThread}
      PROVE  Unflushed'
  BY <1>2, ThreadsAssumption DEF Unflushed, Goto
<1>3. ASSUME NEW t \in Threads, pc[t] \in Writing, NEW label \in Writing, Goto(t, label),
             UNCHANGED <<flushed, logfile, mutex>>,
             UNCHANGED files \/ \E piece : Put(piece)
      PROVE  Unflushed'
  <2>1. mutex = t
    BY <1>3 DEF Exclusive, Inside
  <2>2. \A p \in Paths : p # logfile => files'[p] = files[p]
    BY <1>3 DEF Put, StreamTypeOK
  <2> QED
    BY <1>3, <2>1, <2>2 DEF Unflushed, Goto
<1>4. ASSUME NEW t \in Threads, pc[t] \in Inside, NEW q \in Paths,
             \A p \in Paths \ {q} : files'[p] = files[p] /\ flushed'[p] = flushed[p],
             flushed'[q] = Len(files'[q]),
             q = logfile \/ pc[t] \notin Writing
      PROVE  Unflushed'
  <2>1. \A p \in Paths \ {q} : flushed[p] = Len(files[p])
    BY <1>4 DEF Unflushed, Exclusive
  <2> QED
    BY <1>4, <2>1 DEF Unflushed
<1>5. ASSUME NEW t \in Threads, OutputTimestamp(t) \/ WriteMask(t) \/ WriteText(t)
      PROVE  Unflushed'
  BY <1>3, <1>5 DEF OutputTimestamp, WriteMask, WriteText, Put, OpenWhileWriting, Writing
<1>6. ASSUME NEW t \in Threads, Vsnprintf(t)
      PROVE  Unflushed'
  <2>1. PICK n : Rendered(t, n) \/ TooLong(t, n) \/ Retry(t, n) \/ Fail(t, n)
    BY <1>6 DEF Vsnprintf
  <2>2. CASE Rendered(t, n) \/ Fail(t, n)
    BY <1>3, <1>6, <2>2 DEF Vsnprintf, Rendered, Fail, Put, Writing
  <2>3. CASE TooLong(t, n) \/ Retry(t, n)
    BY <1>1, <2>3 DEF TooLong, Retry, Regrow
  <2> QED
    BY <2>1, <2>2, <2>3
<1>7. ASSUME NEW t \in Threads, EndLine(t)
      PROVE  Unflushed'
  BY <1>4, <1>7 DEF EndLine, StreamTypeOK, Inside, Writing
<1>8. ASSUME NEW t \in Threads, CloseFile(t)
      PROVE  Unflushed'
  <2>1. \A p \in Paths : flushed'[p] = Len(files'[p])
    BY <1>8 DEF CloseFile, Unflushed, Exclusive, Inside, Writing
  <2> QED
    BY <2>1 DEF Unflushed
<1>9. ASSUME NEW t \in Threads, NEW p \in Paths, OpenFile(t, p)
      PROVE  Unflushed'
  <2>1. pc[t] = "open" /\ Return(t)
    BY <1>9 DEF OpenFile
  <2>2. CASE OpenFails
    BY <1>2, <2>1, <2>2 DEF OpenFails, Return, Exclusive, Inside, Writing
  <2>3. CASE \E old : Opened(p, old)
    BY <1>4, <2>1, <2>3 DEF Opened, StreamTypeOK, Inside, Writing
  <2> QED
    BY <1>9, <2>2, <2>3 DEF OpenFile
<1>10. ASSUME NEW t \in Threads, HexDumpTrace(t) \/ StartLogLine(t) \/ AllocateBuffer(t)
       PROVE  Unflushed'
  BY <1>2, <1>10 DEF HexDumpTrace, StartLogLine, AllocateBuffer, Return, Writing
<1>11. ASSUME NEW t \in Threads, NEW c, NEW label, Begin(t, c, label)
       PROVE  Unflushed'
  BY <1>2, <1>11 DEF Begin, Writing
<1>12. ASSUME NEW t \in Threads, AcquireMutex(t)
       PROVE  Unflushed'
  BY <1>2, <1>12 DEF AcquireMutex, Writing
<1>13. ASSUME NEW t \in Threads,
              \/ \E op, mask, len : Log(t, op, mask, len)
              \/ \E op : ChangeFile(t, op)
       PROVE  Unflushed'
  BY <1>11, <1>13 DEF Log, ChangeFile
<1>14. CASE Configure
  BY <1>1, <1>14 DEF Configure, SetTracingEnabled, AddTraceMask, AddIgnoreMask
<1> HIDE DEF TypeOK, ThreadTypeOK
<1> QED
  BY <1>1, <1>5, <1>6, <1>7, <1>8, <1>9, <1>10, <1>12, <1>13, <1>14 DEF Next, Proceed, vars

(***************************************************************************)
(* A piece that may follow the last one keeps a file well-formed.          *)
(***************************************************************************)
LEMMA AppendPiece ==
  ASSUME NEW f \in Seq(Pieces), NEW x \in Pieces, WellFormed(f),
         f = <<>> => x.kind = "header",
         f # <<>> => Follows(f[Len(f)], x)
  PROVE  LET g == Append(f, x)
         IN  /\ WellFormed(g) /\ g # <<>> /\ g[Len(g)] = x
<1> DEFINE g == Append(f, x)
<1>1. Len(f) \in Nat /\ Len(g) = Len(f) + 1 /\ g[Len(g)] = x /\ g # <<>>
  <2>1. Len(f) \in Nat /\ g \in Seq(Pieces) /\ Len(g) = Len(f) + 1
    OBVIOUS
  <2>2. g[Len(g)] = x
    OBVIOUS
  <2>3. g # <<>>
    BY <2>1
  <2> QED
    BY <2>1, <2>2, <2>3
<1>2. \A k \in 1 .. Len(f) : g[k] = f[k]
  OBVIOUS
<1>3. g[1].kind = "header"
  <2>1. CASE f = <<>>
    BY <1>1, <2>1
  <2>2. CASE f # <<>>
    <3>1. 1 \in 1 .. Len(f)
      BY <2>2
    <3> QED
      BY <1>2, <2>2, <3>1 DEF WellFormed
  <2> QED
    BY <2>1, <2>2
<1>4. ASSUME NEW k \in 1 .. Len(g) - 1
      PROVE  Follows(g[k], g[k + 1])
  <2>1. CASE k = Len(f)
    <3>1. f # <<>> /\ g[k] = f[Len(f)] /\ g[k + 1] = x
      BY <1>1, <1>2, <2>1
    <3> QED
      BY <3>1
  <2>2. CASE k # Len(f)
    <3>1. k \in 1 .. Len(f) - 1 /\ g[k] = f[k] /\ g[k + 1] = f[k + 1]
      BY <1>1, <1>2, <2>2
    <3> QED
      BY <3>1 DEF WellFormed
  <2> QED
    BY <2>1, <2>2
<1> HIDE DEF g
<1> QED
  BY <1>1, <1>3, <1>4 DEF WellFormed, g

(***************************************************************************)
(* A step of t's line.                                                     *)
(***************************************************************************)
LEMMA WritePiece ==
  ASSUME TypeOK, Exclusive, OpenWhileWriting, LineByLine,
         NEW t \in Threads, pc[t] \in Writing, NEW kind \in Kinds, NEW text \in Texts,
         Put(Piece(kind, call[t].id, text)),
         NEW label \in Begun, Goto(t, label), UNCHANGED call,
         kind \in Latest(t)',
         \A a \in Pieces :
           (IF pc[t] = "timestamp"
            THEN a.kind \in {"header", "newline"}
            ELSE a.id = call[t].id /\ a.kind \in Latest(t))
             => Follows(a, Piece(kind, call[t].id, text))
  PROVE  LineByLine'
<1> DEFINE x == Piece(kind, call[t].id, text)
           f == files[logfile]
<1>1. x \in Pieces /\ x.kind = kind /\ x.id = call[t].id
  BY PieceType DEF TypeOK, Piece
<1>2. /\ logfile \in Paths /\ f \in Seq(Pieces) /\ f # <<>> /\ f[Len(f)] \in Pieces
      /\ files' = [files EXCEPT ![logfile] = Append(f, x)] /\ UNCHANGED logfile
  BY DEF Put, LineByLine, TypeOK, StreamTypeOK
<1>3. \A u \in Threads : u # t => pc[u] \notin Inside /\ pc'[u] \notin Inside
  BY DEF Exclusive, Inside, Goto, TypeOK, ThreadTypeOK
<1>4. pc'[t] = label
  BY DEF Goto, TypeOK, ThreadTypeOK
<1>5. Follows(f[Len(f)], x)
  <2>1. CASE pc[t] = "timestamp"
    <3>1. \A u \in Threads : pc[u] \notin Begun
      BY <1>3, <2>1 DEF Begun, Inside, Writing
    <3>2. Complete(f)
      BY <1>2, <3>1 DEF LineByLine
    <3>3. f[Len(f)] \in Pieces /\ f[Len(f)].kind \in {"header", "newline"}
      BY <1>2, <3>2 DEF Complete
    <3> QED
      BY <2>1, <3>3
  <2>2. CASE pc[t] # "timestamp"
    BY <1>2, <2>2 DEF LineByLine, EndsWith, Begun, Writing
  <2> QED
    BY <2>1, <2>2
<1>6. WellFormed(Append(f, x)) /\ Append(f, x) # <<>> /\ Append(f, x)[Len(Append(f, x))] = x
  BY <1>1, <1>2, <1>5, AppendPiece DEF LineByLine
<1>7. files'[logfile] = Append(f, x) /\ \A p \in Paths : p # logfile => files'[p] = files[p]
  BY <1>2 DEF TypeOK, StreamTypeOK
<1> HIDE DEF x, f
<1>8. \A p \in Paths : WellFormed(files'[p])
  BY <1>6, <1>7 DEF LineByLine
<1>9. \A p \in Paths :
          Complete(files'[p]) \/ (p = logfile' /\ \E u \in Threads : pc'[u] \in Begun)
  BY <1>2, <1>4, <1>7 DEF LineByLine
<1>10. \A u \in Threads : pc'[u] \in Begun => EndsWith(u, files[logfile])'
  <2>1. EndsWith(t, files[logfile])'
    BY <1>1, <1>2, <1>6, <1>7 DEF EndsWith
  <2> QED
    BY <1>3, <2>1 DEF Begun, Inside, Writing
<1> QED
  BY <1>2, <1>6, <1>7, <1>8, <1>9, <1>10 DEF LineByLine

(***************************************************************************)
(* Lines are written one after another.                                    *)
(***************************************************************************)
LEMMA LineStep ==
  ASSUME ~ WArgs, TypeOK, Exclusive, Exclusive', OpenWhileWriting, LineByLine, [Next]_vars
  PROVE  LineByLine'
<1> USE NoTextType DEF TypeOK, ThreadTypeOK, Kinds
<1>1. CASE UNCHANGED <<files, logfile, call, pc>>
  BY <1>1 DEF LineByLine, EndsWith, Latest
<1>2. ASSUME NEW t \in Threads, pc[t] \notin Begun, NEW label, label \notin Begun, Goto(t, label),
             UNCHANGED <<files, logfile>>,
             NEW c, call' = [call EXCEPT ![t] = c] \/ UNCHANGED call
      PROVE  LineByLine'
  <2>1. \A u \in Threads : pc'[u] \in Begun <=> pc[u] \in Begun
    BY <1>2 DEF Goto
  <2>2. \A u \in Threads : pc[u] \in Begun => pc'[u] = pc[u] /\ call'[u] = call[u]
    BY <1>2 DEF Goto
  <2>3. \A u \in Threads : pc[u] \in Begun => Latest(u)' = Latest(u)
    BY <2>2 DEF Latest
  <2>4. \A u \in Threads : pc[u] \in Begun /\ EndsWith(u, files[logfile])
                         => EndsWith(u, files[logfile])'
    BY <1>2, <2>2, <2>3 DEF EndsWith
  <2> QED
    BY <1>2, <2>1, <2>4 DEF LineByLine
<1>3. ASSUME NEW t \in Threads, OutputTimestamp(t)
      PROVE  LineByLine'
  <2> DEFINE label == IF call[t].op \in FormatOps THEN "vsnprintf" ELSE "mask"
  <2>1. \A a \in Pieces : a.kind \in {"header", "newline"}
                        => Follows(a, Piece("timestamp", call[t].id, NoText))
    BY DEF Follows, Piece
  <2>2. "timestamp" \in Latest(t)' /\ label \in Begun
    BY <1>3 DEF OutputTimestamp, Goto, Latest, Begun
  <2> QED
    BY <1>3, <2>1, <2>2, WritePiece DEF OutputTimestamp, Writing
<1>4. ASSUME NEW t \in Threads, Vsnprintf(t)
      PROVE  LineByLine'
  <2>1. PICK n : Rendered(t, n) \/ TooLong(t, n) \/ Retry(t, n) \/ Fail(t, n)
    BY <1>4 DEF Vsnprintf
  <2>2. CASE TooLong(t, n) \/ Retry(t, n)
    BY <1>1, <2>2 DEF TooLong, Retry, Regrow
  <2>3. CASE Rendered(t, n)
    <3>1. UNCHANGED <<files, logfile, call>> /\ pc[t] = "vsnprintf" /\ Goto(t, "mask")
      BY <1>4, <2>3 DEF Vsnprintf, Rendered
    <3>2. \A u \in Threads : pc[u] \in Begun <=> pc'[u] \in Begun
      BY <3>1 DEF Goto, Begun
    <3>3. \A u \in Threads : pc[u] \in Begun => Latest(u) \subseteq Latest(u)'
      BY <3>1 DEF Goto, Begun, Latest
    <3> QED
      BY <3>1, <3>2, <3>3 DEF LineByLine, EndsWith
  <2>4. CASE Fail(t, n)
    <3>1. pc[t] = "vsnprintf" /\ Goto(t, "mask") /\ UNCHANGED call
          /\ Put(Piece("error", call[t].id, NoText))
      BY <1>4, <2>4 DEF Vsnprintf, Fail
    <3>2. \A a \in Pieces : a.id = call[t].id /\ a.kind \in Latest(t)
                          => Follows(a, Piece("error", call[t].id, NoText))
      BY <3>1 DEF Follows, Piece, Latest
    <3>3. "error" \in Latest(t)'
      BY <3>1 DEF Latest, Goto
    <3> QED
      BY <3>1, <3>2, <3>3, WritePiece DEF Writing, Begun
  <2> QED
    BY <2>1, <2>2, <2>3, <2>4
<1>5. ASSUME NEW t \in Threads, WriteMask(t)
      PROVE  LineByLine'
  <2>1. pc[t] = "mask" /\ Goto(t, "text") /\ UNCHANGED call
        /\ Put(Piece("mask", call[t].id, NoText))
    BY <1>5 DEF WriteMask, OpenWhileWriting, Writing
  <2>2. \A a \in Pieces : a.id = call[t].id /\ a.kind \in Latest(t)
                        => Follows(a, Piece("mask", call[t].id, NoText))
    BY <2>1 DEF Follows, Piece, Latest
  <2>3. "mask" \in Latest(t)'
    BY <2>1 DEF Latest, Goto
  <2> QED
    BY <2>1, <2>2, <2>3, WritePiece DEF Writing, Begun
<1>6. ASSUME NEW t \in Threads, WriteText(t)
      PROVE  LineByLine'
  <2>1. PICK text \in Texts : Put(Piece("text", call[t].id, text))
    BY <1>6, TextType DEF WriteText, BufferTypeOK
  <2>2. pc[t] = "text" /\ Goto(t, "newline") /\ UNCHANGED call
    BY <1>6 DEF WriteText
  <2>3. \A a \in Pieces : a.id = call[t].id /\ a.kind \in Latest(t)
                        => Follows(a, Piece("text", call[t].id, text))
    BY <2>2 DEF Follows, Piece, Latest
  <2>4. "text" \in Latest(t)'
    BY <2>2 DEF Latest, Goto
  <2> QED
    BY <2>1, <2>2, <2>3, <2>4, WritePiece DEF Writing, Begun
<1>7. ASSUME NEW t \in Threads, EndLine(t)
      PROVE  LineByLine'
  <2> DEFINE x == Piece("newline", call[t].id, NoText)
             f == files[logfile]
  <2>1. x \in Pieces /\ x.kind = "newline" /\ x.id = call[t].id
    BY PieceType DEF Piece
  <2>2. pc[t] = "newline" /\ logfile \in Paths /\ f \in Seq(Pieces) /\ f # <<>>
        /\ EndsWith(t, f)
    BY <1>7 DEF EndLine, LineByLine, StreamTypeOK, Begun
  <2>3. \A u \in Threads : pc'[u] \notin Begun
    BY <1>7, <2>2 DEF EndLine, Return, Goto, Exclusive, Inside, Writing, Begun
  <2>4. Follows(f[Len(f)], x)
    BY <2>1, <2>2 DEF EndsWith, Latest, Follows
  <2>5. WellFormed(Append(f, x)) /\ Append(f, x) # <<>> /\ Append(f, x)[Len(Append(f, x))] = x
    BY <2>1, <2>2, <2>4, AppendPiece DEF LineByLine
  <2>6. /\ files'[logfile] = Append(f, x)
        /\ \A p \in Paths : p # logfile => files'[p] = files[p]
        /\ UNCHANGED logfile
    BY <1>7, <2>2 DEF EndLine, StreamTypeOK
  <2> HIDE DEF x, f
  <2> QED
    BY <2>1, <2>3, <2>5, <2>6 DEF LineByLine, Complete
<1>8. ASSUME NEW t \in Threads, pc[t] \in {"close", "open"}, pc'[t] \notin Begun,
             \E label : Goto(t, label)
      PROVE  /\ \A p \in Paths : Complete(files[p])
             /\ \A u \in Threads : pc'[u] \notin Begun
  BY <1>8 DEF LineByLine, Exclusive, Inside, Writing, Begun, Goto
<1>9. ASSUME NEW t \in Threads, CloseFile(t)
      PROVE  LineByLine'
  <2>1. pc'[t] \notin Begun
    BY <1>9 DEF CloseFile, Return, Goto, Begun
  <2> QED
    BY <1>8, <1>9, <2>1 DEF CloseFile, Return, LineByLine
<1>10. ASSUME NEW t \in Threads, NEW p \in Paths, OpenFile(t, p)
       PROVE  LineByLine'
  <2> DEFINE header == Piece("header", 0, NoText)
  <2>1. header \in Pieces /\ header.kind = "header"
    BY CallsAssumption DEF Piece, Pieces, Texts
  <2>2. /\ \A q \in Paths : Complete(files[q])
        /\ \A u \in Threads : pc'[u] \notin Begun
    BY <1>8, <1>10 DEF OpenFile, Return, Goto, Begun
  <2>3. CASE OpenFails
    BY <2>2, <2>3 DEF OpenFails, LineByLine
  <2>4. ASSUME NEW old \in Seq(Pieces), WellFormed(old), Complete(old), Opened(p, old)
        PROVE  LineByLine'
    <3>1. old # <<>> => Follows(old[Len(old)], header)
      BY <2>1, <2>4 DEF Complete, Follows
    <3>2. /\ WellFormed(Append(old, header)) /\ Append(old, header) # <<>>
          /\ Append(old, header)[Len(Append(old, header))] = header
      BY <2>1, <2>4, <3>1, AppendPiece
    <3>3. /\ files'[p] = Append(old, header) /\ logfile' = p
          /\ \A q \in Paths : q # p => files'[q] = files[q]
      BY <2>4 DEF Opened, StreamTypeOK
    <3> HIDE DEF header
    <3> QED
      BY <2>1, <2>2, <3>2, <3>3 DEF LineByLine, Complete
  <2>5. <<>> \in Seq(Pieces) /\ WellFormed(<<>>) /\ Complete(<<>>)
    BY DEF WellFormed, Complete
  <2>6. files[p] \in Seq(Pieces) /\ WellFormed(files[p]) /\ Complete(files[p])
    BY <2>2 DEF StreamTypeOK, LineByLine
  <2> QED
    BY <1>10, <2>3, <2>4, <2>5, <2>6 DEF OpenFile
<1>11. ASSUME NEW t \in Threads, HexDumpTrace(t) \/ StartLogLine(t) \/ AllocateBuffer(t)
       PROVE  LineByLine'
  BY <1>2, <1>11 DEF HexDumpTrace, StartLogLine, AllocateBuffer, Return, Begun
<1>12. ASSUME NEW t \in Threads, NEW c, NEW label, label \notin Begun, Begin(t, c, label)
       PROVE  LineByLine'
  BY <1>2, <1>12 DEF Begin, Begun
<1>13. ASSUME NEW t \in Threads, NEW op, NEW mask, NEW len, Log(t, op, mask, len)
       PROVE  LineByLine'
  BY <1>12, <1>13 DEF Log, FirstStep, Begun
<1>14. ASSUME NEW t \in Threads, NEW op, ChangeFile(t, op)
       PROVE  LineByLine'
  BY <1>12, <1>14 DEF ChangeFile, Begun
<1>15. ASSUME NEW t \in Threads, AcquireMutex(t)
       PROVE  LineByLine'
  BY <1>2, <1>15 DEF AcquireMutex, Begun
<1>16. CASE Configure
  BY <1>1, <1>16 DEF Configure, SetTracingEnabled, AddTraceMask, AddIgnoreMask
<1> HIDE DEF TypeOK, ThreadTypeOK
<1> QED
  BY <1>1, <1>3, <1>4, <1>5, <1>6, <1>7, <1>9, <1>10, <1>11, <1>13, <1>14, <1>15, <1>16
     DEF Next, Proceed, vars

-----------------------------------------------------------------------------
(***************************************************************************)
(* The inductive invariant.                                                *)
(***************************************************************************)
IInv == TypeOK /\ Exclusive /\ OpenWhileWriting /\ Unflushed /\ LineByLine

LEMMA InitIInv == Init => IInv
<1> SUFFICES ASSUME Init PROVE IInv
  OBVIOUS
<1> USE DEF Init
<1>1. Exclusive
  BY ThreadsAssumption DEF Exclusive, Inside, Writing
<1>2. OpenWhileWriting
  BY DEF OpenWhileWriting, Writing
<1>3. Unflushed
  <2>1. Len(<<>>) = 0
    OBVIOUS
  <2> QED
    BY <2>1 DEF Unflushed
<1>4. LineByLine
  BY DEF LineByLine, WellFormed, Complete, Begun
<1> QED
  BY InitTypes, <1>1, <1>2, <1>3, <1>4 DEF IInv

THEOREM Invariance ==
  ASSUME ~ WArgs
  PROVE  Spec => []IInv
<1>1. IInv /\ [Next]_vars => IInv'
  <2> SUFFICES ASSUME IInv, [Next]_vars PROVE IInv'
    OBVIOUS
  <2>1. TypeOK'
    BY ConfigStep, BufferStep, StreamStep, ThreadStep DEF IInv, TypeOK
  <2>2. Exclusive'
    BY ExclusiveStep DEF IInv
  <2>3. OpenWhileWriting' /\ Unflushed' /\ LineByLine'
    BY <2>2, OpenStep, FlushedStep, LineStep DEF IInv
  <2> QED
    BY <2>1, <2>2, <2>3 DEF IInv
<1> QED
  BY <1>1, InitIInv, PTL DEF Spec

(***************************************************************************)
(* The stream a line is written to is open until its end.                  *)
(***************************************************************************)
THEOREM OpenCorrect ==
  ASSUME ~ WArgs
  PROVE  Spec => []OpenWhileWriting
<1>1. IInv => OpenWhileWriting
  BY DEF IInv
<1> QED
  BY <1>1, Invariance, PTL

(***************************************************************************)
(* While no call is inside the logger, everything it logged is written     *)
(* out: a crash of the program loses no line that was logged.              *)
(***************************************************************************)
THEOREM OnDiskCorrect ==
  ASSUME ~ WArgs
  PROVE  Spec => []OnDiskWhenFree
<1>1. IInv => OnDiskWhenFree
  BY ThreadsAssumption DEF IInv, Unflushed, OnDiskWhenFree
<1> QED
  BY <1>1, Invariance, PTL

(***************************************************************************)
(* No line is ever mixed with another's, for any number of threads, files  *)
(* and messages, whatever vsnprintf returns and whenever the log file is   *)
(* changed.                                                                *)
(***************************************************************************)
THEOREM LinesCorrect ==
  ASSUME ~ WArgs
  PROVE  Spec => []WholeLines
<1>1. IInv => WholeLines
  <2> SUFFICES ASSUME IInv PROVE WholeLines
    OBVIOUS
  <2>1. mutex = NoThread => \A p \in Paths : Complete(files[p])
    BY ThreadsAssumption DEF IInv, Exclusive, LineByLine, Begun, Inside, Writing
  <2> QED
    BY <2>1 DEF IInv, LineByLine, WellFormed, Complete, WholeLines, LinesNotMixed
<1> QED
  BY <1>1, Invariance, PTL

=============================================================================
