-------------------------- MODULE LoggerAtomicProof --------------------------
(***************************************************************************)
(* The logger implements AtomicLog, for any number of threads, files and   *)
(* messages, in programs that log through the functions that take the      *)
(* mutex (~ WArgs).                                                        *)
(***************************************************************************)
EXTENDS LoggerProof

USE DEF counts, config, buffer, stream, threads

(***************************************************************************)
(* What a call needs to have got right by the time its text is written.    *)
(***************************************************************************)
\* Its number, and that it is there to log a line.
Numbered(t) ==
  /\ pc[t] # "idle" /\ call[t].op \notin FileOps => call[t].id \in 1 .. MaxCalls
  /\ pc[t] \in Accepted \cup {"start"} => call[t].op \notin FileOps

\* The stream where it is not tested again, and that none is opened over another.
StreamReady(t) ==
  /\ pc[t] = "line" => logfile # NoFile
  /\ pc[t] = "open" => logfile = NoFile

\* A va_list that is still unused wherever a short message is rendered from it.
FreshArgs(t) ==
  \/ ~ argptrUsed[t]
  \/ pc[t] \in Begun /\ ~ (pc[t] = "vsnprintf" /\ Short(call[t]))

\* A buffer, and in it, once it is rendered, its own text.
TextReady(t) ==
  /\ pc[t] \in Writing => allocated
  /\ pc[t] \in {"mask", "text"} /\ call[t].op \in FormatOps =>
       /\ outputBuffer.of = call[t].id
       /\ Short(call[t]) => outputBuffer.whole

Ready(t) == Numbered(t) /\ StreamReady(t) /\ FreshArgs(t) /\ TextReady(t)

RInv == IInv /\ \A t \in Threads : Ready(t)

(***************************************************************************)
(* A step of one call leaves the others where they are, and the logger's   *)
(* state too if one of them is inside.                                     *)
(***************************************************************************)
Same(u) == pc'[u] = pc[u] /\ call'[u] = call[u] /\ argptrUsed'[u] = argptrUsed[u]

LEMMA OthersSame ==
  ASSUME TypeOK, NEW t \in Threads, Proceed(t)
  PROVE  \A u \in Threads : u # t => Same(u)
<1> USE DEF Same, Goto, Return, TypeOK, ThreadTypeOK
<1>1. CASE Vsnprintf(t)
  <2>1. PICK n : Rendered(t, n) \/ TooLong(t, n) \/ Retry(t, n) \/ Fail(t, n)
    BY <1>1 DEF Vsnprintf
  <2>2. CASE Rendered(t, n) \/ Fail(t, n)
    BY <2>2 DEF Rendered, Fail
  <2>3. CASE TooLong(t, n) \/ Retry(t, n)
    BY <2>3 DEF TooLong, Retry, Regrow
  <2> QED
    BY <2>1, <2>2, <2>3
<1>2. CASE HexDumpTrace(t) \/ StartLogLine(t) \/ AllocateBuffer(t) \/ OutputTimestamp(t)
  BY <1>2 DEF HexDumpTrace, StartLogLine, AllocateBuffer, OutputTimestamp
<1>3. CASE WriteMask(t) \/ WriteText(t) \/ EndLine(t)
  BY <1>3 DEF WriteMask, WriteText, EndLine
<1>4. CASE CloseFile(t) \/ \E p \in Paths : OpenFile(t, p)
  BY <1>4 DEF CloseFile, OpenFile
<1> QED
  BY <1>1, <1>2, <1>3, <1>4 DEF Proceed

(***************************************************************************)
(* What a call needs stays as it is while it does nothing itself.          *)
(***************************************************************************)
LEMMA StaysReady ==
  ASSUME NEW u \in Threads, Ready(u), Same(u),
         pc[u] \notin Inside \/ UNCHANGED <<logfile, allocated, outputBuffer>>
  PROVE  Ready(u)'
<1> USE DEF Same, Inside, Writing
<1>1. Numbered(u)'
  BY DEF Ready, Numbered
<1>2. StreamReady(u)'
  BY DEF Ready, StreamReady
<1>3. FreshArgs(u)'
  BY DEF Ready, FreshArgs, Short
<1>4. TextReady(u)'
  BY DEF Ready, TextReady, Short
<1> QED
  BY <1>1, <1>2, <1>3, <1>4 DEF Ready

(***************************************************************************)
(* Nor does a step of one call take from the others what they need.        *)
(***************************************************************************)
LEMMA OthersReady ==
  ASSUME RInv, NEW t \in Threads, Proceed(t)
  PROVE  \A u \in Threads : u # t => Ready(u)'
<1> SUFFICES ASSUME NEW u \in Threads, u # t PROVE Ready(u)'
  OBVIOUS
<1>1. Same(u)
  BY OthersSame DEF RInv, IInv
<1>2. CASE HexDumpTrace(t)
  BY <1>1, <1>2, StaysReady DEF RInv, HexDumpTrace
<1>3. CASE ~ HexDumpTrace(t)
  <2>1. pc[t] \in Inside
    BY <1>3 DEF Proceed, StartLogLine, AllocateBuffer, OutputTimestamp, Vsnprintf, WriteMask,
                WriteText, EndLine, CloseFile, OpenFile, Inside, Writing
  <2>2. pc[u] \notin Inside
    BY <2>1 DEF RInv, IInv, Exclusive
  <2> QED
    BY <1>1, <2>2, StaysReady DEF RInv
<1> QED
  BY <1>2, <1>3

(***************************************************************************)
(* Every step of the logging call itself leaves it ready for the next.     *)
(***************************************************************************)
LEMMA VsnprintfReady ==
  ASSUME RInv, NEW t \in Threads, Vsnprintf(t)
  PROVE  Ready(t)'
<1> USE DEF TypeOK, ThreadTypeOK, Goto
<1>1. PICK n \in Results(t) : Rendered(t, n) \/ TooLong(t, n) \/ Retry(t, n) \/ Fail(t, n)
  BY DEF Vsnprintf
<1>2. pc[t] = "vsnprintf" /\ call'[t] = call[t]
  BY DEF Vsnprintf, Rendered, TooLong, Retry, Regrow, Fail
<1>3. Numbered(t) /\ FreshArgs(t) /\ allocated
  BY <1>2 DEF RInv, Ready, TextReady, Writing
<1>4. Short(call[t]) => n = call[t].len /\ n # Failed /\ n < outputBufferSize /\ ~ argptrUsed[t]
  BY <1>2, <1>3, SizesAssumption
     DEF FreshArgs, Short, Results, Failed, RInv, IInv, BufferTypeOK
<1>5. pc'[t] \in {"vsnprintf", "mask"} /\ allocated'
  BY <1>1, <1>2, <1>3 DEF RInv, IInv, Rendered, TooLong, Retry, Regrow, Fail
<1>6. Numbered(t)'
  BY <1>2, <1>3, <1>5 DEF Numbered, Accepted
<1>7. StreamReady(t)'
  BY <1>5 DEF StreamReady
<1>8. FreshArgs(t)' /\ TextReady(t)'
  <2> USE DEF RInv, IInv, FreshArgs, TextReady, Short, Begun
  <2>1. CASE Rendered(t, n)
    <3>1. PICK whole \in BOOLEAN : /\ whole \/ argptrUsed[t]
                                   /\ outputBuffer' = Text(call[t].id, whole)
      BY <2>1 DEF Rendered
    <3>2. outputBuffer'.of = call[t].id /\ (Short(call[t]) => outputBuffer'.whole)
      BY <1>4, <3>1 DEF Text
    <3>3. pc'[t] = "mask"
      BY <2>1 DEF Rendered
    <3> QED
      BY <1>2, <1>5, <3>2, <3>3
  <2>2. CASE Fail(t, n)
    <3>1. ~ Short(call[t]) /\ outputBuffer'.of = call[t].id
      BY <1>4, <2>2 DEF Fail, Text
    <3>2. pc'[t] = "mask"
      BY <2>2 DEF Fail
    <3> QED
      BY <1>2, <1>5, <3>1, <3>2
  <2>3. CASE TooLong(t, n) \/ Retry(t, n)
    <3>1. ~ Short(call[t])
      BY <1>4, <2>3, SizesAssumption DEF TooLong, Retry, Results, Failed, BufferTypeOK
    <3>2. pc'[t] = "vsnprintf"
      BY <1>2, <2>3 DEF TooLong, Retry, Regrow
    <3> QED
      BY <1>2, <1>5, <3>1, <3>2
  <2> QED
    BY <1>1, <2>1, <2>2, <2>3
<1> QED
  BY <1>6, <1>7, <1>8 DEF Ready

(***************************************************************************)
(* A call that has returned needs nothing.                                 *)
(***************************************************************************)
LEMMA ReturnReady ==
  ASSUME TypeOK, NEW t \in Threads, Return(t)
  PROVE  Ready(t)'
BY DEF Return, Goto, TypeOK, ThreadTypeOK, Ready, Numbered, StreamReady, FreshArgs, TextReady,
       Accepted, Writing

(***************************************************************************)
(* Every step of a call leaves it ready for its next one.                  *)
(***************************************************************************)
LEMMA ProceedReady ==
  ASSUME RInv, NEW t \in Threads, Proceed(t)
  PROVE  Ready(t)'
<1> USE ReturnReady DEF RInv, IInv, TypeOK, ThreadTypeOK, Goto, Ready, Numbered, StreamReady, FreshArgs,
                        TextReady, Accepted, Writing, Begun, Short
<1>1. CASE HexDumpTrace(t)
  BY <1>1 DEF HexDumpTrace
<1>2. CASE StartLogLine(t)
  BY <1>2 DEF StartLogLine
<1>3. CASE AllocateBuffer(t)
  BY <1>3 DEF AllocateBuffer
<1>4. CASE OutputTimestamp(t)
  BY <1>4 DEF OutputTimestamp, Put
<1>5. CASE Vsnprintf(t)
  BY <1>5, VsnprintfReady
<1>6. CASE WriteMask(t)
  BY <1>6 DEF WriteMask, Put
<1>7. CASE WriteText(t)
  BY <1>7 DEF WriteText, Put
<1>8. CASE EndLine(t)
  BY <1>8 DEF EndLine
<1>9. CASE CloseFile(t)
  BY <1>9 DEF CloseFile
<1>10. CASE \E p \in Paths : OpenFile(t, p)
  BY <1>10 DEF OpenFile
<1> QED
  BY <1>1, <1>2, <1>3, <1>4, <1>5, <1>6, <1>7, <1>8, <1>9, <1>10 DEF Proceed

(***************************************************************************)
(* A step that is not the logger's own: a call that begins, one that gets  *)
(* the mutex, a change of the masks.                                       *)
(***************************************************************************)
LEMMA BeginReady ==
  ASSUME RInv, NEW t \in Threads, NEW c, NEW label \in Outside \ {"idle"}, Begin(t, c, label),
         c.op \notin FileOps => c.id \in 1 .. MaxCalls
  PROVE  \A u \in Threads : Ready(u)'
<1> USE DEF RInv, IInv, TypeOK, ThreadTypeOK, Begin, Goto
<1>1. pc'[t] = label /\ call'[t] = c /\ UNCHANGED argptrUsed
  OBVIOUS
<1>2. Ready(t)'
  BY <1>1 DEF Outside, Ready, Numbered, StreamReady, FreshArgs, TextReady, Accepted, Writing, Begun
<1>3. ASSUME NEW u \in Threads, u # t PROVE Ready(u)'
  BY <1>3, StaysReady DEF Same
<1> QED
  BY <1>2, <1>3

(***************************************************************************)
(* Getting the mutex is the start of a line or of a change of file.        *)
(***************************************************************************)
LEMMA AcquireReady ==
  ASSUME RInv, NEW t \in Threads, AcquireMutex(t)
  PROVE  \A u \in Threads : Ready(u)'
<1> USE DEF RInv, IInv, TypeOK, ThreadTypeOK, AcquireMutex, Goto
<1>1. pc[t] = "lock" /\ UNCHANGED <<call, argptrUsed, logfile, allocated, outputBuffer>>
  OBVIOUS
<1>2. pc'[t] = IF call[t].op \in FileOps THEN "close" ELSE "start"
  OBVIOUS
<1>3. Ready(t)'
  BY <1>1, <1>2
     DEF Ready, Numbered, StreamReady, FreshArgs, TextReady, Accepted, Writing, Begun
<1>4. ASSUME NEW u \in Threads, u # t PROVE Ready(u)'
  BY <1>4, <1>1, StaysReady DEF Same
<1> QED
  BY <1>3, <1>4

(***************************************************************************)
(* Every step of the logger keeps RInv.                                    *)
(***************************************************************************)
LEMMA ReadyStep ==
  ASSUME ~ WArgs, RInv, [Next]_vars
  PROVE  \A u \in Threads : Ready(u)'
<1>1. CASE UNCHANGED <<pc, call, argptrUsed, logfile, allocated, outputBuffer>>
  BY <1>1, StaysReady DEF RInv, Same
<1>2. ASSUME NEW t \in Threads,
             NEW op \in FormatOps \cup TextOps, NEW mask, NEW len, Log(t, op, mask, len)
      PROVE  \A u \in Threads : Ready(u)'
  <2> DEFINE c == [op |-> op, id |-> calls', mask |-> mask, len |-> len]
  <2>1. FirstStep(op) \in Outside \ {"idle"}
    BY DEF FirstStep, FormatOps, TextOps, Outside
  <2>2. calls' \in 1 .. MaxCalls
    BY <1>2, CallsAssumption DEF Log, RInv, IInv, TypeOK, ThreadTypeOK
  <2>3. Begin(t, c, FirstStep(op)) /\ c.id \in 1 .. MaxCalls
    BY <1>2, <2>2 DEF Log
  <2> HIDE DEF c
  <2> QED
    BY <2>1, <2>3, BeginReady
<1>3. ASSUME NEW t \in Threads, NEW op \in FileOps, ChangeFile(t, op)
      PROVE  \A u \in Threads : Ready(u)'
  <2> DEFINE c == [Idle EXCEPT !.op = op]
  <2>1. Begin(t, c, "lock") /\ c.op \in FileOps
    BY <1>3 DEF ChangeFile, Idle
  <2> HIDE DEF c
  <2> QED
    BY <2>1, BeginReady DEF Outside
<1>4. ASSUME NEW t \in Threads, AcquireMutex(t)
      PROVE  \A u \in Threads : Ready(u)'
  BY <1>4, AcquireReady
<1>5. ASSUME NEW t \in Threads, Proceed(t)
      PROVE  \A u \in Threads : Ready(u)'
  BY <1>5, OthersReady, ProceedReady
<1>6. CASE Configure
  BY <1>1, <1>6 DEF Configure, SetTracingEnabled, AddTraceMask, AddIgnoreMask
<1> QED
  BY <1>1, <1>2, <1>3, <1>4, <1>5, <1>6 DEF Next, vars

(***************************************************************************)
(* In programs that do not call LogLineWArgs every logging call has, when  *)
(* it writes, an open file, an unused va_list or a message that needed a   *)
(* larger buffer, and its own text in outputBuffer (Logger.cpp:184-239).   *)
(***************************************************************************)
THEOREM AtomicInvariance ==
  ASSUME ~ WArgs
  PROVE  Spec => []RInv
<1>1. Init => \A t \in Threads : Ready(t)
  BY DEF Init, Ready, Numbered, StreamReady, FreshArgs, TextReady, Accepted, Writing
<1>2. IInv /\ (\A t \in Threads : Ready(t)) /\ [Next]_vars => (\A t \in Threads : Ready(t))'
  BY ReadyStep DEF RInv
<1>3. RInv <=> IInv /\ \A t \in Threads : Ready(t)
  BY DEF RInv
<1> QED
  BY <1>1, <1>2, <1>3, Invariance, PTL DEF Spec

-----------------------------------------------------------------------------
(***************************************************************************)
(* Timestamps, masks, errors and newlines add no line to a file.           *)
(***************************************************************************)
LEMMA OtherPiece ==
  ASSUME NEW f \in Seq(Pieces), NEW x \in Pieces, x.kind \notin {"header", "text"}
  PROVE  Lines(Append(f, x)) = Lines(f)
<1> DEFINE g == Append(f, x)
<1>1. /\ Len(g) = Len(f) + 1 /\ Len(f) \in Nat
      /\ g[Len(f) + 1] = x
      /\ \A k \in 1 .. Len(f) : g[k] = f[k]
  OBVIOUS
<1> HIDE DEF g
<1>2. {n \in 1 .. Len(g) : LineAt(g, n)} = {n \in 1 .. Len(f) : LineAt(f, n)}
  BY <1>1 DEF LineAt
<1>3. Lines(g) = Lines(f)
  BY <1>1, <1>2 DEF Lines
<1> QED
  BY <1>3 DEF g

(***************************************************************************)
(* A header or a text adds one line below all the others.                  *)
(***************************************************************************)
LEMMA LinePiece ==
  ASSUME NEW f \in Seq(Pieces), NEW x \in Pieces, x.kind \in {"header", "text"}
  PROVE  /\ Len(f) + 1 \in DOMAIN Lines(Append(f, x))
         /\ \A above \in DOMAIN Lines(f) : above < Len(f) + 1
         /\ Lines(Append(f, x)) =
              [place \in DOMAIN Lines(f) \cup {Len(f) + 1} |->
                 IF place = Len(f) + 1 THEN [id |-> x.id, of |-> x.of, whole |-> x.whole]
                 ELSE Lines(f)[place]]
<1> DEFINE g == Append(f, x)
<1>1. /\ Len(g) = Len(f) + 1 /\ Len(f) \in Nat
      /\ g[Len(f) + 1] = x
      /\ \A k \in 1 .. Len(f) : g[k] = f[k]
  OBVIOUS
<1> HIDE DEF g
<1>2. {n \in 1 .. Len(g) : LineAt(g, n)} = {n \in 1 .. Len(f) : LineAt(f, n)} \cup {Len(f) + 1}
  BY <1>1 DEF LineAt
<1>3. DOMAIN Lines(f) = {n \in 1 .. Len(f) : LineAt(f, n)}
  BY DEF Lines
<1>4. DOMAIN Lines(g) = DOMAIN Lines(f) \cup {Len(f) + 1}
  BY <1>2, <1>3 DEF Lines
<1>5. \A place \in DOMAIN Lines(f) : Lines(g)[place] = Lines(f)[place]
  BY <1>1, <1>2, <1>3 DEF Lines
<1>6. Lines(g)[Len(f) + 1] = [id |-> x.id, of |-> x.of, whole |-> x.whole]
  BY <1>1, <1>2 DEF Lines
<1>7. Lines(g) = [place \in DOMAIN Lines(g) |-> Lines(g)[place]]
  BY DEF Lines
<1>8. Lines(g) = [place \in DOMAIN Lines(f) \cup {Len(f) + 1} |->
                    IF place = Len(f) + 1 THEN [id |-> x.id, of |-> x.of, whole |-> x.whole]
                    ELSE Lines(f)[place]]
  BY <1>1, <1>3, <1>4, <1>5, <1>6, <1>7
<1> QED
  BY <1>1, <1>3, <1>4, <1>8 DEF g

(***************************************************************************)
(* An empty file has no lines.                                             *)
(***************************************************************************)
LEMMA EmptyLines == Lines(<<>>) = Atomic!Blank
<1>1. DOMAIN Lines(<<>>) = {}
  BY DEF Lines
<1>2. DOMAIN Atomic!Blank = {}
  BY DEF Atomic!Blank
<1>3. /\ Lines(<<>>) = [place \in DOMAIN Lines(<<>>) |-> Lines(<<>>)[place]]
      /\ Atomic!Blank = [place \in DOMAIN Atomic!Blank |-> Atomic!Blank[place]]
  BY DEF Lines, Atomic!Blank
<1> QED
  BY <1>1, <1>2, <1>3

(***************************************************************************)
(* A step that changes neither the lines nor the accepted call stutters.   *)
(***************************************************************************)
LEMMA SameLog ==
  ASSUME UNCHANGED <<logfile, AcceptedCall, files>>
  PROVE  [Atomic!Next]_(Atomic!vars)
BY DEF Atomic!vars, Logged

(***************************************************************************)
(* A piece that is no line, written while a call is accepted or over.      *)
(***************************************************************************)
LEMMA OtherPieceStep ==
  ASSUME TypeOK, NEW x \in Pieces, x.kind \notin {"header", "text"}, UNCHANGED AcceptedCall,
         UNCHANGED logfile, logfile # NoFile,
         files' = [files EXCEPT ![logfile] = Append(files[logfile], x)]
  PROVE  [Atomic!Next]_(Atomic!vars)
<1>1. logfile \in Paths /\ files \in [Paths -> Seq(Pieces)]
  BY DEF TypeOK, StreamTypeOK
<1>2. files[logfile] \in Seq(Pieces) /\ files'[logfile] = Append(files[logfile], x)
  BY <1>1
<1>3. Lines(files'[logfile]) = Lines(files[logfile])
  BY <1>2, OtherPiece
<1>4. \A p \in Paths : Lines(files'[p]) = Lines(files[p])
  BY <1>1, <1>3
<1>5. Logged' = Logged
  BY <1>4 DEF Logged
<1> QED
  BY <1>5 DEF Atomic!vars

(***************************************************************************)
(* A text or a header is a line more.                                      *)
(***************************************************************************)
LEMMA LineAdded ==
  ASSUME TypeOK, NEW p \in Paths, NEW f \in Seq(Pieces), NEW x \in Pieces,
         x.kind \in {"header", "text"}, files' = [files EXCEPT ![p] = Append(f, x)]
  PROVE  Atomic!AddLine(p, Lines(f), [id |-> x.id, of |-> x.of, whole |-> x.whole])
<1> DEFINE line == [id |-> x.id, of |-> x.of, whole |-> x.whole]
           old == Lines(f)
           at == Len(f) + 1
<1>1. files \in [Paths -> Seq(Pieces)]
  BY DEF TypeOK, StreamTypeOK
<1>2. files'[p] = Append(f, x) /\ \A q \in Paths : q # p => files'[q] = files[q]
  BY <1>1
<1>3. \A q \in Paths : Logged[q] = Lines(files[q]) /\ Logged'[q] = Lines(files'[q])
  BY DEF Logged
<1>4. Logged' = [Logged EXCEPT ![p] = Logged'[p]]
  <2>1. /\ Logged = [q \in Paths |-> Logged[q]]
        /\ Logged' = [q \in Paths |-> Logged'[q]]
    BY DEF Logged
  <2>2. \A q \in Paths : q # p => Logged'[q] = Logged[q]
    BY <1>2, <1>3
  <2> QED
    BY <2>1, <2>2
<1>5. Logged'[p] = Lines(Append(f, x))
  BY <1>2, <1>3
<1>6. /\ at \in DOMAIN Logged'[p]
      /\ \A above \in DOMAIN old : above < at
      /\ Logged'[p] = [place \in DOMAIN old \cup {at} |->
                         IF place = at THEN line ELSE old[place]]
  BY <1>5, LinePiece
<1> HIDE DEF line, old, at
<1>7. Atomic!AddLine(p, old, line)
  BY <1>4, <1>6 DEF Atomic!AddLine
<1> QED
  BY <1>7 DEF old, line

-----------------------------------------------------------------------------
(***************************************************************************)
(* The call that is accepted is that of the thread inside the logger, ...  *)
(***************************************************************************)
CallOf(t) == [id |-> call[t].id, short |-> Short(call[t])]

LEMMA InsideAccepted ==
  ASSUME RInv, NEW t \in Threads, pc[t] \in Inside
  PROVE  /\ mutex = t
         /\ AcceptedCall = IF pc[t] \in Accepted THEN CallOf(t) ELSE Atomic!NoCall
<1>1. mutex = t /\ t # NoThread
  BY ThreadsAssumption DEF RInv, IInv, Exclusive
<1> QED
  BY <1>1 DEF AcceptedCall, CallOf, Atomic!NoCall

(***************************************************************************)
(* ... also where it goes on, ...                                          *)
(***************************************************************************)
LEMMA StaysAccepted ==
  ASSUME RInv, NEW t \in Threads, pc[t] \in Inside,
         NEW label, Goto(t, label), UNCHANGED <<call, mutex>>
  PROVE  AcceptedCall' = IF label \in Accepted THEN CallOf(t) ELSE Atomic!NoCall
<1>1. mutex' = t /\ t # NoThread
  BY InsideAccepted, ThreadsAssumption
<1>2. pc'[t] = label /\ call'[t] = call[t]
  BY DEF Goto, RInv, IInv, TypeOK, ThreadTypeOK
<1> QED
  BY <1>1, <1>2 DEF AcceptedCall, CallOf, Atomic!NoCall, Short

(***************************************************************************)
(* ... and none is once it has returned, ...                               *)
(***************************************************************************)
LEMMA ReturnAccepted ==
  ASSUME RInv, NEW t \in Threads, pc[t] \in Inside, Return(t)
  PROVE  AcceptedCall' = Atomic!NoCall
<1>1. mutex' = NoThread
  BY InsideAccepted DEF Return
<1> QED
  BY <1>1 DEF AcceptedCall, Atomic!NoCall

(***************************************************************************)
(* ... and what happens outside does not touch it.                         *)
(***************************************************************************)
LEMMA OutsideAccepted ==
  ASSUME RInv, NEW t \in Threads, pc[t] \notin Inside,
         UNCHANGED mutex, \A u \in Threads : u # t => Same(u)
  PROVE  UNCHANGED AcceptedCall
<1>1. CASE mutex = NoThread
  BY <1>1 DEF AcceptedCall
<1>2. CASE mutex # NoThread
  <2>1. mutex \in Threads /\ mutex # t
    BY <1>2 DEF RInv, IInv, Exclusive, TypeOK, ThreadTypeOK
  <2>2. pc'[mutex] = pc[mutex] /\ call'[mutex] = call[mutex]
    BY <2>1 DEF Same
  <2> QED
    BY <1>2, <2>2 DEF AcceptedCall, Short
<1> QED
  BY <1>1, <1>2

-----------------------------------------------------------------------------
(***************************************************************************)
(* StartLogLine accepts the call, or stutters.                             *)
(***************************************************************************)
LEMMA StartSimulates ==
  ASSUME RInv, NEW t \in Threads, StartLogLine(t)
  PROVE  [Atomic!Next]_(Atomic!vars)
<1>1. pc[t] = "start" /\ pc[t] \in Inside /\ pc[t] \notin Accepted
  BY DEF StartLogLine, Inside, Accepted
<1>2. AcceptedCall = Atomic!NoCall
  BY <1>1, InsideAccepted
<1>3. UNCHANGED <<logfile, files>>
  BY DEF StartLogLine
<1>4. CASE Return(t)
  BY <1>1, <1>2, <1>3, <1>4, ReturnAccepted, SameLog
<1>5. CASE ~ Return(t)
  <2>1. logfile # NoFile /\ Goto(t, "line") /\ UNCHANGED <<call, mutex>>
    BY <1>5 DEF StartLogLine
  <2>2. AcceptedCall' = CallOf(t)
    BY <1>1, <2>1, StaysAccepted DEF Accepted
  <2>3. call[t].id \in 1 .. MaxCalls /\ Short(call[t]) \in BOOLEAN
    BY <1>1 DEF RInv, Ready, Numbered, Short
  <2>4. Atomic!Accept(call[t].id, Short(call[t]))
    BY <1>2, <1>3, <2>1, <2>2 DEF Atomic!Accept, CallOf, Logged
  <2> QED
    BY <2>3, <2>4 DEF Atomic!Next
<1> QED
  BY <1>4, <1>5

(***************************************************************************)
(* What comes before the text and after it leaves the lines as they are.   *)
(***************************************************************************)
LEMMA PiecesSimulate ==
  ASSUME RInv, NEW t \in Threads, OutputTimestamp(t) \/ WriteMask(t) \/ EndLine(t)
  PROVE  [Atomic!Next]_(Atomic!vars)
<1> USE DEF Inside, Writing, Accepted
<1>1. pc[t] \in Writing /\ logfile # NoFile /\ call[t].id \in 0 .. MaxCalls
  BY DEF RInv, IInv, OpenWhileWriting, TypeOK, ThreadTypeOK, Calls,
         OutputTimestamp, WriteMask, EndLine
<1>2. /\ AcceptedCall = IF pc[t] \in Accepted THEN CallOf(t) ELSE Atomic!NoCall
      /\ TypeOK
  BY <1>1, InsideAccepted DEF RInv, IInv
<1>3. ASSUME NEW kind \in {"timestamp", "mask", "newline"}
      PROVE  /\ Piece(kind, call[t].id, NoText) \in Pieces
             /\ Piece(kind, call[t].id, NoText).kind \notin {"header", "text"}
  BY <1>1, <1>3, CallsAssumption DEF Piece, Pieces, Kinds, NoText, Text
<1>4. CASE OutputTimestamp(t)
  <2>1. UNCHANGED AcceptedCall
    BY <1>1, <1>2, <1>4, StaysAccepted DEF OutputTimestamp
  <2> QED
    BY <1>1, <1>2, <1>3, <1>4, <2>1, OtherPieceStep DEF OutputTimestamp, Put
<1>5. CASE WriteMask(t)
  <2>1. UNCHANGED AcceptedCall
    BY <1>1, <1>2, <1>5, StaysAccepted DEF WriteMask
  <2> QED
    BY <1>1, <1>2, <1>3, <1>5, <2>1, OtherPieceStep DEF WriteMask, Put
<1>6. CASE EndLine(t)
  <2>1. UNCHANGED AcceptedCall
    BY <1>1, <1>2, <1>6, ReturnAccepted DEF EndLine
  <2> QED
    BY <1>1, <1>2, <1>3, <1>6, <2>1, OtherPieceStep DEF EndLine
<1> QED
  BY <1>4, <1>5, <1>6

(***************************************************************************)
(* So does every attempt of vsnprintf, with its error line or without.     *)
(***************************************************************************)
LEMMA BufferSimulates ==
  ASSUME RInv, NEW t \in Threads, AllocateBuffer(t) \/ Vsnprintf(t)
  PROVE  [Atomic!Next]_(Atomic!vars)
<1> USE DEF Inside, Writing, Accepted
<1>1. /\ pc[t] \in {"line", "vsnprintf"} /\ logfile # NoFile /\ TypeOK
      /\ call[t].id \in 0 .. MaxCalls
  BY DEF RInv, IInv, OpenWhileWriting, TypeOK, ThreadTypeOK, Calls, Ready, StreamReady,
         AllocateBuffer, Vsnprintf
<1>2. AcceptedCall = CallOf(t)
  BY <1>1, InsideAccepted
<1>3. CASE AllocateBuffer(t)
  <2>1. UNCHANGED AcceptedCall
    BY <1>1, <1>2, <1>3, StaysAccepted DEF AllocateBuffer
  <2> QED
    BY <1>3, <2>1, SameLog DEF AllocateBuffer
<1>4. CASE Vsnprintf(t)
  <2>1. PICK n : Rendered(t, n) \/ TooLong(t, n) \/ Retry(t, n) \/ Fail(t, n)
    BY <1>4 DEF Vsnprintf
  <2>2. CASE Rendered(t, n)
    <3>1. UNCHANGED AcceptedCall
      BY <1>1, <1>2, <2>2, StaysAccepted DEF Rendered
    <3> QED
      BY <2>2, <3>1, SameLog DEF Rendered
  <2>3. CASE TooLong(t, n) \/ Retry(t, n)
    <3>1. UNCHANGED AcceptedCall
      BY <2>3 DEF TooLong, Retry, Regrow, AcceptedCall, Short
    <3> QED
      BY <2>3, <3>1, SameLog DEF TooLong, Retry, Regrow
  <2>4. CASE Fail(t, n)
    <3>1. UNCHANGED AcceptedCall
      BY <1>1, <1>2, <2>4, StaysAccepted DEF Fail
    <3>2. /\ Piece("error", call[t].id, NoText) \in Pieces
          /\ Piece("error", call[t].id, NoText).kind \notin {"header", "text"}
      BY <1>1, CallsAssumption DEF Piece, Pieces, Kinds, NoText, Text
    <3> QED
      BY <1>1, <2>4, <3>1, <3>2, OtherPieceStep DEF Fail, Put
  <2> QED
    BY <2>1, <2>2, <2>3, <2>4
<1> QED
  BY <1>3, <1>4
(***************************************************************************)
(* The text is the accepted call's own, and all of it if it is short.      *)
(***************************************************************************)
LEMMA TextSimulates ==
  ASSUME RInv, NEW t \in Threads, WriteText(t)
  PROVE  [Atomic!Next]_(Atomic!vars)
<1> DEFINE text == IF call[t].op \in FormatOps THEN outputBuffer ELSE Text(call[t].id, TRUE)
           x == Piece("text", call[t].id, text)
<1>1. /\ pc[t] = "text" /\ pc[t] \in Inside /\ pc[t] \in Writing /\ pc[t] \in Accepted
      /\ Goto(t, "newline") /\ UNCHANGED <<call, mutex, logfile>>
  BY DEF WriteText, Put, Inside, Writing, Accepted
<1>2. logfile \in Paths /\ files[logfile] \in Seq(Pieces)
  BY <1>1 DEF RInv, IInv, OpenWhileWriting, TypeOK, StreamTypeOK
<1>3. call[t].id \in 1 .. MaxCalls
  BY <1>1 DEF RInv, Ready, Numbered
<1>4. text.of = call[t].id /\ text.whole \in BOOLEAN /\ (Short(call[t]) => text.whole)
  BY <1>1 DEF RInv, IInv, Ready, TextReady, Text, TypeOK, BufferTypeOK, Texts
<1>5. AcceptedCall = CallOf(t) /\ AcceptedCall' = Atomic!NoCall
  BY <1>1, InsideAccepted, StaysAccepted DEF Accepted
<1>6. files' = [files EXCEPT ![logfile] = Append(files[logfile], x)]
  BY DEF WriteText, Put
<1> HIDE DEF text
<1>7. x \in Pieces /\ x.kind = "text"
  BY <1>3, <1>4, CallsAssumption DEF Piece, Pieces, Kinds
<1>8. [id |-> x.id, of |-> x.of, whole |-> x.whole] = Atomic!Line(call[t].id, text.whole)
  BY <1>4 DEF Piece, Atomic!Line
<1> HIDE DEF x
<1>9. Atomic!AddLine(logfile, Lines(files[logfile]), Atomic!Line(call[t].id, text.whole))
  BY <1>2, <1>6, <1>7, <1>8, LineAdded DEF RInv, IInv
<1>10. AcceptedCall # Atomic!NoCall
  BY <1>3, <1>5, CallsAssumption DEF CallOf, Atomic!NoCall
<1>11. Logged[logfile] = Lines(files[logfile])
  BY <1>2 DEF Logged
<1>12. Atomic!Write(text.whole)
  BY <1>1, <1>4, <1>5, <1>9, <1>10, <1>11 DEF Atomic!Write, CallOf
<1> QED
  BY <1>4, <1>12 DEF Atomic!Next

(***************************************************************************)
(* SetOutputFile and Cleanup close the log, which keeps its lines.         *)
(***************************************************************************)
LEMMA CloseSimulates ==
  ASSUME RInv, NEW t \in Threads, CloseFile(t)
  PROVE  [Atomic!Next]_(Atomic!vars)
<1>1. pc[t] \in Inside /\ pc[t] \notin Accepted /\ logfile' = NoFile /\ UNCHANGED files
  BY DEF CloseFile, Inside, Accepted
<1>2. AcceptedCall = Atomic!NoCall
  BY <1>1, InsideAccepted
<1>3. AcceptedCall' = Atomic!NoCall
  <2>1. CASE Return(t)
    BY <1>1, <2>1, ReturnAccepted
  <2>2. CASE Goto(t, "open") /\ UNCHANGED <<call, mutex>>
    BY <1>1, <2>2, StaysAccepted DEF Accepted
  <2> QED
    BY <2>1, <2>2 DEF CloseFile
<1>4. Atomic!Close
  BY <1>1, <1>2, <1>3 DEF Atomic!Close, Logged
<1> QED
  BY <1>4 DEF Atomic!Next

(***************************************************************************)
(* SetOutputFile opens a log only where none is open; a file that does not *)
(* open leaves all as it was.                                              *)
(***************************************************************************)
LEMMA OpenSimulates ==
  ASSUME RInv, NEW t \in Threads, NEW p \in Paths, OpenFile(t, p)
  PROVE  [Atomic!Next]_(Atomic!vars)
<1> DEFINE x == Piece("header", 0, NoText)
<1>1. pc[t] = "open" /\ pc[t] \in Inside /\ pc[t] \notin Accepted /\ Return(t)
  BY DEF OpenFile, Inside, Accepted
<1>2. AcceptedCall = Atomic!NoCall /\ AcceptedCall' = Atomic!NoCall
  BY <1>1, InsideAccepted, ReturnAccepted
<1>3. CASE OpenFails
  BY <1>2, <1>3, SameLog DEF OpenFails
<1>4. ASSUME NEW f \in Seq(Pieces), Opened(p, f)
      PROVE  Atomic!Open(p, Lines(f))
  <2>1. x \in Pieces /\ x.kind = "header"
    BY CallsAssumption DEF Piece, Pieces, Kinds, NoText, Text
  <2>2. [id |-> x.id, of |-> x.of, whole |-> x.whole] = Atomic!Header
    BY DEF Piece, NoText, Text, Atomic!Header, Atomic!Line
  <2>3. files' = [files EXCEPT ![p] = Append(f, x)] /\ logfile' = p
    BY <1>4 DEF Opened
  <2> HIDE DEF x
  <2>4. Atomic!AddLine(p, Lines(f), Atomic!Header)
    BY <2>1, <2>2, <2>3, LineAdded DEF RInv, IInv
  <2>5. logfile = NoFile
    BY <1>1 DEF RInv, Ready, StreamReady
  <2> QED
    BY <1>2, <2>3, <2>4, <2>5 DEF Atomic!Open
<1>5. CASE Opened(p, <<>>)
  <2>1. Lines(<<>>) = Atomic!Blank
    BY EmptyLines
  <2>2. <<>> \in Seq(Pieces)
    OBVIOUS
  <2> DEFINE none == <<>>
  <2>3. none \in Seq(Pieces) /\ Opened(p, none)
    BY <1>5, <2>2
  <2> HIDE DEF none
  <2>4. Atomic!Open(p, Lines(none))
    BY <1>4, <2>3
  <2> QED
    BY <2>1, <2>4 DEF Atomic!Next, none
<1>6. CASE Opened(p, files[p])
  <2>1. files[p] \in Seq(Pieces) /\ Logged[p] = Lines(files[p])
    BY DEF Logged, RInv, IInv, TypeOK, StreamTypeOK
  <2>2. Atomic!Open(p, Lines(files[p]))
    BY <1>4, <1>6, <2>1
  <2> QED
    BY <2>1, <2>2 DEF Atomic!Next
<1> QED
  BY <1>3, <1>5, <1>6 DEF OpenFile
(***************************************************************************)
(* What a thread does outside, and how it comes in.                        *)
(***************************************************************************)
LEMMA OutsideSimulates ==
  ASSUME RInv, NEW t \in Threads, pc[t] \notin Inside, UNCHANGED <<logfile, files>>,
         \A u \in Threads : u # t => Same(u),
         UNCHANGED mutex \/ AcquireMutex(t)
  PROVE  [Atomic!Next]_(Atomic!vars)
<1>1. CASE UNCHANGED mutex
  BY <1>1, OutsideAccepted, SameLog
<1>2. CASE AcquireMutex(t)
  <2>1. mutex = NoThread /\ mutex' = t
    BY <1>2 DEF AcquireMutex
  <2>2. pc'[t] \in {"close", "start"}
    BY <1>2 DEF AcquireMutex, Goto, RInv, IInv, TypeOK, ThreadTypeOK
  <2>3. UNCHANGED AcceptedCall
    BY <2>1, <2>2 DEF AcceptedCall, Accepted
  <2> QED
    BY <2>3, SameLog
<1> QED
  BY <1>1, <1>2

(***************************************************************************)
(* Every step of the logger is a step of AtomicLog or a stutter.           *)
(***************************************************************************)
LEMMA StepSimulates ==
  ASSUME RInv, [Next]_vars
  PROVE  [Atomic!Next]_(Atomic!vars)
<1> USE DEF RInv, IInv, TypeOK, ThreadTypeOK
<1>1. CASE UNCHANGED <<pc, call, mutex, logfile, files>>
  BY <1>1, SameLog DEF AcceptedCall, Short
<1>2. ASSUME NEW t \in Threads, NEW c, NEW label, Begin(t, c, label)
      PROVE  [Atomic!Next]_(Atomic!vars)
  <2>1. pc[t] \notin Inside /\ UNCHANGED <<logfile, files, mutex>>
    BY <1>2 DEF Begin, Inside, Writing
  <2>2. \A u \in Threads : u # t => Same(u)
    BY <1>2 DEF Begin, Goto, Same
  <2> QED
    BY <2>1, <2>2, OutsideSimulates
<1>3. ASSUME NEW t \in Threads, AcquireMutex(t)
      PROVE  [Atomic!Next]_(Atomic!vars)
  <2>1. pc[t] \notin Inside /\ UNCHANGED <<logfile, files>>
    BY <1>3 DEF AcquireMutex, Inside, Writing
  <2>2. \A u \in Threads : u # t => Same(u)
    BY <1>3 DEF AcquireMutex, Goto, Same
  <2> QED
    BY <1>3, <2>1, <2>2, OutsideSimulates
<1>4. ASSUME NEW t \in Threads, HexDumpTrace(t)
      PROVE  [Atomic!Next]_(Atomic!vars)
  <2>1. pc[t] \notin Inside /\ UNCHANGED <<logfile, files>>
    BY <1>4 DEF HexDumpTrace, Inside, Writing
  <2>2. \A u \in Threads : u # t => Same(u)
    BY <1>4, OthersSame DEF Proceed
  <2>3. UNCHANGED mutex
    BY <1>4, <2>1 DEF HexDumpTrace, Return, Exclusive
  <2> QED
    BY <2>1, <2>2, <2>3, OutsideSimulates
<1>5. ASSUME NEW t \in Threads, Proceed(t)
      PROVE  [Atomic!Next]_(Atomic!vars)
  BY <1>4, <1>5, StartSimulates, PiecesSimulate, BufferSimulates, TextSimulates, CloseSimulates,
     OpenSimulates DEF Proceed
<1>6. CASE Configure
  BY <1>1, <1>6 DEF Configure, SetTracingEnabled, AddTraceMask, AddIgnoreMask
<1> HIDE DEF RInv, IInv, TypeOK, ThreadTypeOK
<1>7. ASSUME NEW t \in Threads, NEW op, NEW mask, NEW len, Log(t, op, mask, len)
      PROVE  [Atomic!Next]_(Atomic!vars)
  BY <1>2, <1>7 DEF Log
<1>8. ASSUME NEW t \in Threads, NEW op, ChangeFile(t, op)
      PROVE  [Atomic!Next]_(Atomic!vars)
  BY <1>2, <1>8 DEF ChangeFile
<1> QED
  BY <1>1, <1>3, <1>5, <1>6, <1>7, <1>8 DEF Next, vars

(***************************************************************************)
(* Every accepted message becomes one line of its own in the file that is  *)
(* open, complete if it fits the buffer, whatever threads log at the same  *)
(* time, change the file or close it (README.md:8).                        *)
(***************************************************************************)
THEOREM LogsAtomicallyCorrect ==
  ASSUME ~ WArgs
  PROVE  Spec => LogsAtomically
<1>1. Init => Atomic!Init
  <2> SUFFICES ASSUME Init PROVE Atomic!Init
    OBVIOUS
  <2>1. AcceptedCall = Atomic!NoCall /\ logfile = NoFile
    BY DEF Init, AcceptedCall, Atomic!NoCall
  <2>2. Lines(<<>>) = Atomic!Blank
    BY EmptyLines
  <2>3. Logged = [p \in Paths |-> Atomic!Blank]
    BY <2>2 DEF Init, Logged
  <2> QED
    BY <2>1, <2>3 DEF Atomic!Init
<1>2. RInv /\ [Next]_vars => [Atomic!Next]_(Atomic!vars)
  BY StepSimulates
<1> QED
  BY <1>1, <1>2, AtomicInvariance, PTL DEF Spec, LogsAtomically, Atomic!Spec

=============================================================================
