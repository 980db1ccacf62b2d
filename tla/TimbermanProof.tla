---------------------------- MODULE TimbermanProof ----------------------------
(***************************************************************************)
(* Proofs about the tracer and the logger together, for any number of      *)
(* threads, lines and files: stamps are in order, and the log tells which  *)
(* functions were entered and left.                                        *)
(***************************************************************************)
EXTENDS Timberman, FiniteSetTheorems, WellFoundedInduction, TLAPS

USE DEF tracer, logger

-----------------------------------------------------------------------------
(***************************************************************************)
(* The types, as far as they matter here.                                  *)
(***************************************************************************)
Labels == L!Outside \cup L!Inside

LoggerTypeOK ==
  /\ logfile = Path
  /\ mutex \in Threads \cup {NoThread}
  /\ lpc \in [Threads -> Labels]
  /\ call = [t \in Threads |-> call[t]]
  /\ calls \in 0 .. MaxCalls
  /\ files = [p \in Paths |-> files[p]]
  /\ files[Path] \in Seq(L!Pieces)
  /\ outputBuffer \in L!Texts

MacroTypeOK ==
  /\ now \in Nat
  /\ macro = [t \in Threads |-> macro[t]]
  /\ said = [id \in Ids |-> said[id]]
  /\ \A id \in Ids : "at" \in DOMAIN said[id]

(***************************************************************************)
(* A thread is in the logger only inside a macro.                          *)
(***************************************************************************)
Entered(t) == lpc[t] # "idle" => InMacro(t)

MacroInv == MacroTypeOK /\ lpc \in [Threads -> Labels] /\ \A t \in Threads : Entered(t)

\* The calls that the macros make.
MacroOps == {"LogLine", "HexDumpTrace"}

(***************************************************************************)
(* What a step of LogLine does to its own thread, and to no other.         *)
(***************************************************************************)
Moves(t) ==
  /\ lpc[t] \in L!Inside
  /\ lpc' = [lpc EXCEPT ![t] = lpc'[t]]
  /\ lpc'[t] \in L!Inside \cup {"idle"}

LEMMA LogLineMoves ==
  ASSUME lpc \in [Threads -> Labels], NEW t \in Threads, LogLine(t)
  PROVE  Moves(t)
<1> USE DEF Moves, L!Goto, L!Return, L!Inside, L!Writing, L!threads
<1>1. CASE L!Vsnprintf(t)
  <2>1. PICK n : L!Rendered(t, n) \/ L!TooLong(t, n) \/ L!Retry(t, n) \/ L!Fail(t, n)
    BY <1>1 DEF L!Vsnprintf
  <2>2. CASE L!Rendered(t, n) \/ L!Fail(t, n)
    BY <1>1, <2>2 DEF L!Vsnprintf, L!Rendered, L!Fail
  <2>3. CASE L!TooLong(t, n) \/ L!Retry(t, n)
    BY <1>1, <2>3 DEF L!Vsnprintf, L!TooLong, L!Retry, L!Regrow
  <2> QED
    BY <2>1, <2>2, <2>3
<1>2. CASE L!StartLogLine(t) \/ L!AllocateBuffer(t) \/ L!OutputTimestamp(t)
  BY <1>2 DEF L!StartLogLine, L!AllocateBuffer, L!OutputTimestamp
<1>3. CASE L!WriteMask(t) \/ L!WriteText(t) \/ L!EndLine(t)
  BY <1>3 DEF L!WriteMask, L!WriteText, L!EndLine
<1> QED
  BY <1>1, <1>2, <1>3 DEF LogLine

(***************************************************************************)
(* The tracer's own steps touch neither the logger nor the clock.          *)
(***************************************************************************)
LEMMA TracerSteps ==
  ASSUME NEW t \in Threads, StartCall(t) \/ AcquireLock(t) \/ Trace(t)
  PROVE  UNCHANGED <<logger, macro, said, now>>
<1> USE DEF F!Return
<1>1. CASE StartCall(t) \/ AcquireLock(t)
  BY <1>1 DEF StartCall, AcquireLock, F!Construct, F!Destroy, F!TrackCall, F!Call, F!AcquireLock
<1>2. CASE Trace(t) /\ F!Lookup(t)
  BY <1>2 DEF Trace, F!Lookup, F!FindSlot, F!ScanSlot, F!StartCleanup, F!CleanupSlot, F!GiveUp,
              F!ClaimId, F!ClaimIndent
<1>3. CASE Trace(t) /\ ~ F!Lookup(t)
  BY <1>3 DEF Trace, F!Decrement, F!Format, F!Increment, F!UpdateLastAccessDelta
<1> QED
  BY <1>1, <1>2, <1>3 DEF Trace

(***************************************************************************)
(* HexDumpTrace asks for the mask, outside the mutex.                      *)
(***************************************************************************)
LEMMA HexDumpAsks ==
  ASSUME NEW t \in Threads, HexDumpTrace(t)
  PROVE  /\ lpc[t] = "hexdump"
         /\ lpc' = [lpc EXCEPT ![t] = IF L!IsTraceMask(call[t].mask) THEN "lock" ELSE "idle"]
         /\ IF L!IsTraceMask(call[t].mask) THEN UNCHANGED <<call, argptrUsed, mutex>>
            ELSE /\ call' = [call EXCEPT ![t] = L!Idle]
                 /\ mutex' = IF mutex = t THEN NoThread ELSE mutex
         /\ UNCHANGED <<tracer, macro, said, calls, files, logfile, outputBuffer,
                        traceMaskList, ignoreMaskList, tracingEnabled,
                        outputBufferSize, allocated>>
BY DEF HexDumpTrace, L!HexDumpTrace, L!Goto, L!Return, L!counts, L!config, L!buffer, L!stream

(***************************************************************************)
(* The macros: the call begins, and takes the next number.                 *)
(***************************************************************************)
LEMMA MacroBegins ==
  ASSUME NEW t \in Threads, NEW op \in MacroOps, NEW kind, NEW indent,
         Macro(t, op, kind, indent)
  PROVE  /\ ~ InMacro(t)
         /\ macro' = [macro EXCEPT ![t] = op]
         /\ UNCHANGED now
         /\ \/ UNCHANGED <<logger, said>>
            \/ /\ lpc[t] = "idle"
               /\ calls < MaxCalls
               /\ calls' = calls + 1
               /\ lpc' = [lpc EXCEPT ![t] = L!FirstStep(op)]
               /\ call' = [call EXCEPT ![t] =
                             [op |-> op, id |-> calls', mask |-> Mask,
                              len |-> IF op = "LogLine" THEN Length ELSE 0]]
               /\ said' = [said EXCEPT ![calls'] = [by |-> t, kind |-> kind,
                                                    indent |-> indent, at |-> NoTime]]
               /\ UNCHANGED <<logfile, mutex, files, outputBuffer>>
<1>1. CASE UNCHANGED <<logger, said>>
  BY <1>1 DEF Macro
<1>2. CASE ~ UNCHANGED <<logger, said>>
  BY <1>2 DEF Macro, L!Log, L!Begin, L!Goto, L!stream, L!buffer, L!config
<1> QED
  BY <1>1, <1>2

LEMMA FirstSteps ==
  ASSUME NEW op \in MacroOps
  PROVE  op # NoMacro /\ L!FirstStep(op) = IF op = "LogLine" THEN "lock" ELSE "hexdump"
BY DEF MacroOps, NoMacro, L!FirstStep

(***************************************************************************)
(* The steps that are a macro.                                             *)
(***************************************************************************)
LEMMA MacroSteps ==
  ASSUME NEW t \in Threads, TraceLine(t) \/ Message(t) \/ HexDump(t)
  PROVE  \E op \in MacroOps : \E kind, indent : Macro(t, op, kind, indent)
BY DEF TraceLine, Message, HexDump, MacroOps

(***************************************************************************)
(* The logger is entered by the macros only.                               *)
(***************************************************************************)
LEMMA MacroInvStep ==
  ASSUME MacroInv, [Next]_vars
  PROVE  MacroInv'
<1> USE DEF MacroInv, MacroTypeOK, Entered, InMacro
<1>1. CASE UNCHANGED <<lpc, macro, said>> /\ now' \in Nat
  BY <1>1
<1>2. ASSUME NEW t \in Threads, StartCall(t) \/ AcquireLock(t) \/ Trace(t)
      PROVE  MacroInv'
  BY <1>1, <1>2, TracerSteps
<1>3. CASE Tick
  BY <1>1, <1>3 DEF Tick, F!Tick
<1>4. ASSUME NEW t \in Threads, NEW op \in MacroOps, NEW kind, NEW indent,
             Macro(t, op, kind, indent)
      PROVE  MacroInv'
  <2>1. lpc[t] = "idle"
    BY <1>4, MacroBegins
  <2>2. lpc' \in [Threads -> Labels] /\ \A u \in Threads : u # t => lpc'[u] = lpc[u]
    BY <1>4, MacroBegins, FirstSteps DEF Labels, L!Outside
  <2>3. /\ macro'[t] # NoMacro /\ \A u \in Threads : u # t => macro'[u] = macro[u]
        /\ macro' = [u \in Threads |-> macro'[u]]
    BY <1>4, MacroBegins, FirstSteps
  <2>4. said' = [id \in Ids |-> said'[id]] /\ \A id \in Ids : "at" \in DOMAIN said'[id]
    BY <1>4, MacroBegins
  <2>5. UNCHANGED now
    BY <1>4, MacroBegins
  <2>6. \A u \in Threads : Entered(u)'
    BY <2>1, <2>2, <2>3
  <2> QED
    BY <2>2, <2>3, <2>4, <2>5, <2>6
<1>5. ASSUME NEW t \in Threads, EndMacro(t)
      PROVE  MacroInv'
  <2>1. UNCHANGED <<lpc, said, now>>
    BY <1>5 DEF EndMacro, F!LogLine, F!Finish
  <2> QED
    BY <1>5, <2>1 DEF EndMacro
<1>6. ASSUME NEW t \in Threads, ReturnTimestamp(t)
      PROVE  MacroInv'
  <2>1. UNCHANGED <<lpc, now, macro>>
    BY <1>6 DEF ReturnTimestamp
  <2>2. said' = [id \in Ids |-> said'[id]] /\ \A id \in Ids : "at" \in DOMAIN said'[id]
    BY <1>6 DEF ReturnTimestamp
  <2> QED
    BY <2>1, <2>2
<1>7. ASSUME NEW t \in Threads, LogLine(t)
      PROVE  MacroInv'
  <2>1. Moves(t) /\ UNCHANGED <<macro, said, now>>
    BY <1>7, LogLineMoves DEF LogLine
  <2> QED
    BY <2>1 DEF Moves, Labels, L!Outside, L!Inside, L!Writing
<1>8. ASSUME NEW t \in Threads, AcquireMutex(t) \/ HexDumpTrace(t)
      PROVE  MacroInv'
  <2>1. lpc[t] # "idle" /\ UNCHANGED <<macro, said, now>>
    BY <1>8, HexDumpAsks DEF AcquireMutex, L!AcquireMutex
  <2>2. lpc' \in [Threads -> Labels] /\ \A u \in Threads : u # t => lpc'[u] = lpc[u]
    BY <1>8, HexDumpAsks DEF AcquireMutex, L!AcquireMutex, L!Goto, Labels, L!Inside, L!Outside
  <2> QED
    BY <2>1, <2>2
<1>9. CASE UNCHANGED vars
  BY <1>1, <1>9 DEF vars
<1> HIDE DEF MacroInv
<1> QED
  BY <1>2, <1>3, <1>4, <1>5, <1>6, <1>7, <1>8, <1>9, MacroSteps DEF Next, Proceed

(***************************************************************************)
(* Before the first call no thread is in a macro.                          *)
(***************************************************************************)
LEMMA InitMacro == Init => MacroInv
<1> SUFFICES ASSUME Init PROVE MacroInv
  OBVIOUS
<1>1. now \in Nat
  BY DEF Init, F!Init
<1> QED
  BY <1>1 DEF Init, MacroInv, MacroTypeOK, Entered, InMacro, NoMacro, Labels, L!Outside

-----------------------------------------------------------------------------
(***************************************************************************)
(* The stamps of the log, and of the line that is being written.           *)
(***************************************************************************)
IsStamp(k) == k \in 1 .. Len(files[Path]) /\ files[Path][k].kind = "timestamp"
StampOf(k) == said[files[Path][k].id].at
MyStamp(t) == said[call[t].id].at

\* The mutex belongs to the thread that is inside the logger.
Exclusive == \A t \in Threads : lpc[t] \in L!Inside <=> mutex = t

\* A call has a number of its own, and is stamped under the mutex.
Numbered(t) ==
  /\ lpc[t] # "idle" => call[t].id \in 1 .. calls
  /\ lpc[t] \in {"hexdump", "lock", "start", "line"} => MyStamp(t) = NoTime
  /\ \A u \in Threads : u # t /\ lpc[t] # "idle" /\ lpc[u] # "idle" => call[t].id # call[u].id

\* What stands in the file was stamped before now, ...
Stamps == \A k \in DOMAIN files[Path] :
            IsStamp(k) => files[Path][k].id \in 1 .. calls /\ StampOf(k) \in 0 .. now

\* ... in order, and before the line that comes next.
Ordered ==
  \A j, k \in DOMAIN files[Path] : j < k /\ IsStamp(j) /\ IsStamp(k) => StampOf(j) <= StampOf(k)

LineDue(t) ==
  lpc[t] = "timestamp" /\ Stamped(t) =>
    /\ MyStamp(t) \in 0 .. now
    /\ \A k \in DOMAIN files[Path] : IsStamp(k) => StampOf(k) <= MyStamp(t)

StampInv ==
  /\ LoggerTypeOK /\ MacroInv /\ Exclusive
  /\ \A t \in Threads : Numbered(t) /\ LineDue(t)
  /\ Stamps /\ Ordered

\* One more piece in the open file.
Adds(x) == files' = [files EXCEPT ![Path] = Append(files[Path], x)]

(***************************************************************************)
(* A piece of a call's line is a piece.                                    *)
(***************************************************************************)
LEMMA PieceType ==
  ASSUME StampInv, NEW t \in Threads, lpc[t] # "idle",
         NEW kind \in L!Kinds, NEW text \in L!Texts
  PROVE  L!Piece(kind, call[t].id, text) \in L!Pieces
<1>1. call[t].id \in 0 .. MaxCalls
  BY ProgramAssumption DEF StampInv, Numbered, LoggerTypeOK
<1> QED
  BY <1>1 DEF L!Piece, L!Pieces, L!Texts

(***************************************************************************)
(* Each write adds one piece; only OutputTimestamp adds a stamp.           *)
(***************************************************************************)
LEMMA LogLineAdds ==
  ASSUME StampInv, NEW t \in Threads, LogLine(t)
  PROVE  /\ logfile' = Path /\ UNCHANGED calls
         /\ outputBuffer' \in L!Texts
         /\ \/ UNCHANGED files
            \/ \E x \in L!Pieces :
                 /\ Adds(x)
                 /\ x.kind = "timestamp" =>
                      /\ x.id = call[t].id /\ Stamped(t)
                      /\ lpc[t] = "timestamp" /\ lpc'[t] # "timestamp"
<1> USE DEF StampInv, LoggerTypeOK, L!Goto, L!Return, L!threads, L!counts, L!Put, Adds
<1>1. /\ L!NoText \in L!Texts
      /\ \A whole \in BOOLEAN : lpc[t] # "idle" => L!Text(call[t].id, whole) \in L!Texts
      /\ Path # NoFile
  BY ProgramAssumption DEF L!NoText, L!Text, L!Texts, Numbered
<1>2. ASSUME NEW kind \in L!Kinds, NEW text \in L!Texts, lpc[t] # "idle"
      PROVE  /\ L!Piece(kind, call[t].id, text) \in L!Pieces
             /\ L!Piece(kind, call[t].id, text).kind = kind
             /\ L!Piece(kind, call[t].id, text).id = call[t].id
  BY <1>2, PieceType DEF L!Piece
<1>3. CASE L!StartLogLine(t)
  BY <1>3 DEF L!StartLogLine, L!stream, L!buffer
<1>4. CASE L!AllocateBuffer(t)
  BY <1>1, <1>4 DEF L!AllocateBuffer, L!stream
<1>5. CASE L!OutputTimestamp(t) /\ Stamped(t)
  <2> DEFINE x == L!Piece("timestamp", call[t].id, L!NoText)
  <2>1. Adds(x) /\ UNCHANGED <<logfile, outputBuffer, calls>>
    BY <1>5 DEF L!OutputTimestamp, L!buffer
  <2>2. lpc[t] = "timestamp" /\ lpc'[t] # "timestamp"
    BY <1>5 DEF L!OutputTimestamp
  <2>3. x \in L!Pieces /\ x.id = call[t].id
    BY <1>1, <1>2, <2>2 DEF L!Kinds
  <2> HIDE DEF x
  <2> QED
    BY <1>5, <2>1, <2>2, <2>3
<1>6. CASE L!Vsnprintf(t)
  <2>1. PICK n : L!Rendered(t, n) \/ L!TooLong(t, n) \/ L!Retry(t, n) \/ L!Fail(t, n)
    BY <1>6 DEF L!Vsnprintf
  <2>2. CASE L!Rendered(t, n)
    BY <1>1, <1>6, <2>2 DEF L!Vsnprintf, L!Rendered, L!stream
  <2>3. CASE L!TooLong(t, n) \/ L!Retry(t, n)
    BY <1>1, <2>3 DEF L!TooLong, L!Retry, L!Regrow, L!stream
  <2>4. CASE L!Fail(t, n)
    BY <1>1, <1>2, <1>6, <2>4 DEF L!Vsnprintf, L!Fail, L!Kinds
  <2> QED
    BY <2>1, <2>2, <2>3, <2>4
<1>7. CASE L!WriteMask(t)
  BY <1>1, <1>2, <1>7 DEF L!WriteMask, L!Kinds, L!buffer, L!stream
<1>8. CASE L!WriteText(t)
  <2> DEFINE text == IF call[t].op \in L!FormatOps THEN outputBuffer
                     ELSE L!Text(call[t].id, TRUE)
             x == L!Piece("text", call[t].id, text)
  <2>1. text \in L!Texts /\ lpc[t] # "idle"
    BY <1>1, <1>8 DEF L!WriteText
  <2>2. Adds(x) /\ UNCHANGED <<logfile, outputBuffer, calls>>
    BY <1>8 DEF L!WriteText, L!buffer
  <2> HIDE DEF text
  <2>3. x \in L!Pieces /\ x.kind = "text"
    BY <1>2, <2>1 DEF L!Kinds
  <2> QED
    BY <2>2, <2>3
<1>9. CASE L!EndLine(t)
  BY <1>1, <1>2, <1>9 DEF L!EndLine, L!Kinds, L!buffer
<1> QED
  BY <1>3, <1>4, <1>5, <1>6, <1>7, <1>8, <1>9 DEF LogLine

(***************************************************************************)
(* A piece that is added keeps the stamps in order if it comes last.       *)
(***************************************************************************)
LEMMA AddsStamp ==
  ASSUME StampInv, NEW x \in L!Pieces, Adds(x), UNCHANGED <<said, calls>>, now' = now,
         x.kind = "timestamp" =>
           /\ x.id \in 1 .. calls /\ said[x.id].at \in 0 .. now
           /\ \A k \in DOMAIN files[Path] : IsStamp(k) => StampOf(k) <= said[x.id].at
  PROVE  Stamps' /\ Ordered' /\ files'[Path] \in Seq(L!Pieces)
         /\ files' = [p \in Paths |-> files'[p]]
<1> DEFINE f == files[Path]
           g == files'[Path]
<1>1. f \in Seq(L!Pieces) /\ g = Append(f, x) /\ files' = [p \in Paths |-> files'[p]]
  BY ProgramAssumption DEF StampInv, LoggerTypeOK, Adds
<1>2. /\ Len(f) \in Nat /\ Len(g) = Len(f) + 1 /\ DOMAIN g = 1 .. Len(g)
      /\ DOMAIN f = 1 .. Len(f) /\ g[Len(f) + 1] = x /\ \A k \in 1 .. Len(f) : g[k] = f[k]
      /\ g \in Seq(L!Pieces)
  BY <1>1
<1>3. \A k \in 1 .. Len(f) : IsStamp(k)' <=> IsStamp(k)
  BY <1>2 DEF IsStamp
<1>4. \A k \in 1 .. Len(f) : StampOf(k)' = StampOf(k)
  BY <1>2 DEF StampOf
<1>5. \A k \in 1 .. Len(f) + 1 :
        k = Len(f) + 1 /\ IsStamp(k)' => x.kind = "timestamp" /\ StampOf(k)' = said[x.id].at
  BY <1>2 DEF IsStamp, StampOf
<1> HIDE DEF f, g
<1>6. ASSUME NEW k \in DOMAIN g, IsStamp(k)'
      PROVE  g[k].id \in 1 .. calls /\ StampOf(k)' \in 0 .. now
  <2>1. CASE k \in 1 .. Len(f)
    BY <1>2, <1>3, <1>4, <1>6, <2>1 DEF StampInv, Stamps, f
  <2>2. CASE k = Len(f) + 1
    BY <1>2, <1>5, <1>6, <2>2
  <2> QED
    BY <1>2, <2>1, <2>2
<1>7. ASSUME NEW j \in DOMAIN g, NEW k \in DOMAIN g, j < k, IsStamp(j)', IsStamp(k)'
      PROVE  StampOf(j)' <= StampOf(k)'
  <2>1. j \in 1 .. Len(f) /\ IsStamp(j) /\ StampOf(j)' = StampOf(j)
    BY <1>2, <1>3, <1>4, <1>7
  <2>2. CASE k \in 1 .. Len(f)
    BY <1>2, <1>3, <1>4, <1>7, <2>1, <2>2 DEF StampInv, Ordered, f
  <2>3. CASE k = Len(f) + 1
    BY <1>2, <1>5, <1>7, <2>1, <2>3 DEF f
  <2> QED
    BY <1>2, <2>2, <2>3
<1>8. Stamps'
  BY <1>6 DEF Stamps, g
<1>9. Ordered'
  BY <1>7 DEF Ordered, g
<1> QED
  BY <1>1, <1>2, <1>8, <1>9 DEF g

(***************************************************************************)
(* LogLine keeps the mutex until it returns.                               *)
(***************************************************************************)
LEMMA LogLineKeeps ==
  ASSUME StampInv, NEW t \in Threads, LogLine(t)
  PROVE  \/ L!Return(t)
         \/ /\ UNCHANGED <<mutex, call>> /\ lpc'[t] \in L!Inside
            /\ lpc'[t] # lpc[t] => lpc'[t] # "start"
            /\ lpc'[t] = "line" => lpc[t] = "start"
            /\ lpc'[t] = "timestamp" => lpc[t] = "line"
<1> USE DEF L!Inside, L!Writing, L!Goto, StampInv, LoggerTypeOK
<1>1. CASE L!Vsnprintf(t)
  <2>1. PICK n : L!Rendered(t, n) \/ L!TooLong(t, n) \/ L!Retry(t, n) \/ L!Fail(t, n)
    BY <1>1 DEF L!Vsnprintf
  <2>2. CASE L!Rendered(t, n) \/ L!Fail(t, n)
    BY <1>1, <2>2 DEF L!Vsnprintf, L!Rendered, L!Fail
  <2>3. CASE L!TooLong(t, n) \/ L!Retry(t, n)
    BY <1>1, <2>3 DEF L!Vsnprintf, L!TooLong, L!Retry, L!Regrow
  <2> QED
    BY <2>1, <2>2, <2>3
<1>2. CASE L!StartLogLine(t)
  BY <1>2 DEF L!StartLogLine
<1>3. CASE L!AllocateBuffer(t)
  BY <1>3 DEF L!AllocateBuffer
<1>4. CASE L!OutputTimestamp(t)
  BY <1>4 DEF L!OutputTimestamp
<1>5. CASE L!WriteMask(t) \/ L!WriteText(t) \/ L!EndLine(t)
  BY <1>5 DEF L!WriteMask, L!WriteText, L!EndLine
<1> QED
  BY <1>1, <1>2, <1>3, <1>4, <1>5 DEF LogLine

(***************************************************************************)
(* Steps outside the logger, and the clock's.                              *)
(***************************************************************************)
LEMMA FrameStep ==
  ASSUME StampInv, MacroInv', UNCHANGED <<logger, said>>, now' \in Nat, now <= now'
  PROVE  StampInv'
<1> USE DEF StampInv
<1>1. LoggerTypeOK' /\ Exclusive'
  BY DEF LoggerTypeOK, Exclusive
<1>2. \A t \in Threads : Numbered(t)'
  BY DEF Numbered, MyStamp
<1>3. 0 .. now \subseteq 0 .. now'
  BY DEF MacroInv, MacroTypeOK
<1>4. Stamps'
  BY <1>3 DEF Stamps, IsStamp, StampOf
<1>5. Ordered'
  BY DEF Ordered, IsStamp, StampOf
<1>6. ASSUME NEW t \in Threads PROVE LineDue(t)'
  BY <1>3 DEF LineDue, IsStamp, StampOf, MyStamp, Stamped
<1> QED
  BY <1>1, <1>2, <1>4, <1>5, <1>6

(***************************************************************************)
(* A line begins: its number is new.                                       *)
(***************************************************************************)
LEMMA MacroStep ==
  ASSUME StampInv, MacroInv', NEW t \in Threads, NEW op \in MacroOps, NEW kind, NEW indent,
         Macro(t, op, kind, indent)
  PROVE  StampInv'
<1> USE DEF StampInv
<1>1. CASE UNCHANGED <<logger, said>>
  BY <1>1, MacroBegins, FrameStep DEF MacroInv, MacroTypeOK
<1>2. CASE ~ UNCHANGED <<logger, said>>
  <2>1. /\ lpc[t] = "idle" /\ calls' = calls + 1 /\ calls' \in 1 .. MaxCalls
        /\ calls \in 0 .. MaxCalls
        /\ UNCHANGED <<logfile, mutex, files, outputBuffer, now>>
    BY <1>2, MacroBegins, ProgramAssumption DEF LoggerTypeOK
  <2>2. /\ lpc'[t] \in {"lock", "hexdump"} /\ call'[t].id = calls'
        /\ call' = [u \in Threads |-> call'[u]] /\ lpc' \in [Threads -> Labels]
        /\ \A u \in Threads : u # t => lpc'[u] = lpc[u] /\ call'[u] = call[u]
    BY <1>2, MacroBegins, FirstSteps DEF LoggerTypeOK, Labels, L!Outside
  <2>3. said'[calls'].at = NoTime /\ \A id \in 1 .. calls : said'[id] = said[id]
    <3>1. said' = [said EXCEPT ![calls'] = [by |-> t, kind |-> kind, indent |-> indent,
                                            at |-> NoTime]]
      BY <1>2, MacroBegins
    <3>2. DOMAIN said = 1 .. MaxCalls
      BY DEF MacroInv, MacroTypeOK, Ids
    <3> QED
      BY <2>1, <3>1, <3>2
  <2>4. LoggerTypeOK'
    BY <2>1, <2>2, ProgramAssumption DEF LoggerTypeOK
  <2>5. Exclusive'
    BY <2>1, <2>2 DEF Exclusive, L!Inside, L!Writing
  <2>6. \A u \in Threads : Numbered(u)'
    BY <2>1, <2>2, <2>3 DEF Numbered, MyStamp
  <2>7. Stamps' /\ Ordered'
    <3>1. \A k \in DOMAIN files[Path] :
            IsStamp(k) => files[Path][k].id \in 1 .. calls
                          /\ said'[files[Path][k].id] = said[files[Path][k].id]
      BY <2>3 DEF Stamps
    <3>2. 1 .. calls \subseteq 1 .. calls'
      BY <2>1
    <3> QED
      BY <2>1, <3>1, <3>2 DEF Stamps, Ordered, IsStamp, StampOf
  <2>8. ASSUME NEW u \in Threads PROVE LineDue(u)'
    BY <2>1, <2>2, <2>3 DEF LineDue, Numbered, Stamps, IsStamp, StampOf, MyStamp, Stamped
  <2> QED
    BY <2>4, <2>5, <2>6, <2>7, <2>8
<1> QED
  BY <1>1, <1>2

(***************************************************************************)
(* Under the mutex the clock is read: no stamp of the file is later.       *)
(***************************************************************************)
LEMMA StampStep ==
  ASSUME StampInv, MacroInv', NEW t \in Threads, ReturnTimestamp(t)
  PROVE  StampInv'
<1> USE DEF StampInv
<1> DEFINE id == call[t].id
<1>1. /\ lpc[t] = "timestamp" /\ MyStamp(t) = NoTime /\ UNCHANGED <<logger, now>>
      /\ \A u \in Threads : u # t => lpc[u] # "timestamp"
      /\ now \in Nat
  BY DEF ReturnTimestamp, MyStamp, Stamped, Exclusive, L!Inside, L!Writing, MacroInv, MacroTypeOK
<1>2. id \in 1 .. calls /\ id \in Ids
  BY <1>1, ProgramAssumption DEF Numbered, LoggerTypeOK, Ids
<1>3. said'[id].at = now /\ \A other \in Ids : other # id => said'[other] = said[other]
  BY <1>2 DEF ReturnTimestamp, MacroInv, MacroTypeOK
<1>4. \A k \in DOMAIN files[Path] :
        IsStamp(k) => files[Path][k].id \in Ids /\ files[Path][k].id # id
  BY <1>1, ProgramAssumption DEF Stamps, StampOf, MyStamp, NoTime, LoggerTypeOK, Ids
<1>5. LoggerTypeOK' /\ Exclusive'
  BY <1>1 DEF LoggerTypeOK, Exclusive
<1>6. ASSUME NEW u \in Threads PROVE Numbered(u)'
  BY <1>1, <1>2, <1>3, ProgramAssumption DEF Numbered, MyStamp, LoggerTypeOK, Ids
<1>7. Stamps' /\ Ordered'
  BY <1>1, <1>3, <1>4 DEF Stamps, Ordered, IsStamp, StampOf
<1>8. ASSUME NEW u \in Threads PROVE LineDue(u)'
  BY <1>1, <1>3, <1>4 DEF LineDue, Stamps, IsStamp, StampOf, MyStamp
<1> QED
  BY <1>5, <1>6, <1>7, <1>8

(***************************************************************************)
(* Inside LogLine: the stamp that is written is the latest.                *)
(***************************************************************************)
LEMMA LogLineStep ==
  ASSUME StampInv, MacroInv', NEW t \in Threads, LogLine(t)
  PROVE  StampInv'
<1> USE DEF StampInv
<1>1. /\ UNCHANGED <<said, now, calls>> /\ logfile' = Path /\ outputBuffer' \in L!Texts
      /\ lpc \in [Threads -> Labels]
  BY LogLineAdds DEF LogLine, LoggerTypeOK
<1>2. /\ lpc[t] \in L!Inside /\ mutex = t /\ t # NoThread
      /\ \A u \in Threads : u # t => lpc[u] \notin L!Inside /\ lpc'[u] = lpc[u]
      /\ lpc' \in [Threads -> Labels]
  BY <1>1, LogLineMoves, ProgramAssumption DEF Moves, Exclusive, Labels, L!Outside
<1>3. /\ call' = [u \in Threads |-> call'[u]]
      /\ \A u \in Threads : u # t => call'[u] = call[u]
  BY LogLineKeeps DEF LoggerTypeOK, L!Return
<1>4. \/ lpc'[t] = "idle" /\ mutex' = NoThread
      \/ /\ mutex' = t /\ call'[t] = call[t] /\ lpc'[t] \in L!Inside
         /\ lpc'[t] \in {"start", "line"} => lpc[t] = "start"
         /\ lpc'[t] = "timestamp" => lpc[t] = "line"
  <2>1. CASE L!Return(t)
    BY <1>1, <1>2, <2>1 DEF L!Return, L!Goto
  <2>2. CASE ~ L!Return(t)
    BY <1>2, <2>2, LogLineKeeps
  <2> QED
    BY <2>1, <2>2
<1>5. Exclusive'
  BY <1>2, <1>4, ProgramAssumption DEF Exclusive, L!Inside, L!Writing
<1>6. ASSUME NEW u \in Threads PROVE Numbered(u)'
  BY <1>1, <1>2, <1>3, <1>4 DEF Numbered, MyStamp, L!Inside, L!Writing
<1>7. /\ Stamps' /\ Ordered' /\ files'[Path] \in Seq(L!Pieces)
      /\ files' = [p \in Paths |-> files'[p]]
  <2>1. CASE UNCHANGED files
    BY <1>1, <2>1 DEF Stamps, Ordered, IsStamp, StampOf, LoggerTypeOK
  <2>2. ASSUME NEW x \in L!Pieces, Adds(x),
               x.kind = "timestamp" =>
                 x.id = call[t].id /\ Stamped(t) /\ lpc[t] = "timestamp"
        PROVE  /\ Stamps' /\ Ordered' /\ files'[Path] \in Seq(L!Pieces)
               /\ files' = [p \in Paths |-> files'[p]]
    <3>1. x.kind = "timestamp" =>
            /\ x.id \in 1 .. calls /\ said[x.id].at \in 0 .. now
            /\ \A k \in DOMAIN files[Path] : IsStamp(k) => StampOf(k) <= said[x.id].at
      BY <2>2 DEF Numbered, LineDue, MyStamp
    <3> QED
      BY <1>1, <2>2, <3>1, AddsStamp
  <2> QED
    BY <2>1, <2>2, LogLineAdds
<1>8. ASSUME NEW u \in Threads PROVE LineDue(u)'
  <2>1. CASE u = t
    BY <1>1, <1>4, <2>1 DEF LineDue, Numbered, MyStamp, Stamped
  <2>2. CASE u # t
    BY <1>1, <1>2, <2>2 DEF LineDue, L!Inside, L!Writing
  <2> QED
    BY <2>1, <2>2
<1>9. LoggerTypeOK'
  BY <1>1, <1>2, <1>3, <1>4, <1>7 DEF LoggerTypeOK
<1> QED
  BY <1>5, <1>6, <1>7, <1>8, <1>9

(***************************************************************************)
(* One thread at a time gets in.                                           *)
(***************************************************************************)
LEMMA AcquireStep ==
  ASSUME StampInv, MacroInv', NEW t \in Threads, AcquireMutex(t)
  PROVE  StampInv'
<1> USE DEF StampInv
<1>1. /\ UNCHANGED <<said, now, calls, logfile, outputBuffer, call, files>>
      /\ mutex = NoThread /\ mutex' = t /\ lpc[t] = "lock"
      /\ lpc'[t] \in {"close", "start"} /\ lpc' \in [Threads -> Labels]
      /\ \A u \in Threads : u # t => lpc'[u] = lpc[u]
  BY DEF AcquireMutex, L!AcquireMutex, L!Goto, L!stream, L!buffer, L!counts, LoggerTypeOK,
         Labels, L!Inside
<1>2. LoggerTypeOK'
  BY <1>1 DEF LoggerTypeOK
<1>3. Exclusive'
  BY <1>1, ProgramAssumption DEF Exclusive, L!Inside, L!Writing
<1>4. ASSUME NEW u \in Threads PROVE Numbered(u)'
  BY <1>1 DEF Numbered, MyStamp
<1>5. Stamps' /\ Ordered'
  BY <1>1 DEF Stamps, Ordered, IsStamp, StampOf
<1>6. ASSUME NEW u \in Threads PROVE LineDue(u)'
  BY <1>1 DEF LineDue, IsStamp, StampOf, MyStamp, Stamped
<1> QED
  BY <1>2, <1>3, <1>4, <1>5, <1>6

(***************************************************************************)
(* A dump that asks for its mask gets in line, or returns.                 *)
(***************************************************************************)
LEMMA HexDumpStep ==
  ASSUME StampInv, MacroInv', NEW t \in Threads, HexDumpTrace(t)
  PROVE  StampInv'
<1> USE DEF StampInv
<1>1. /\ UNCHANGED <<said, now, calls, logfile, outputBuffer, files>>
      /\ mutex # t /\ mutex' = mutex
      /\ lpc[t] = "hexdump" /\ lpc'[t] \in {"lock", "idle"} /\ lpc' \in [Threads -> Labels]
      /\ \A u \in Threads : u # t => lpc'[u] = lpc[u]
  BY HexDumpAsks DEF LoggerTypeOK, Exclusive, Labels, L!Outside, L!Inside, L!Writing
<1>2. /\ call' = [u \in Threads |-> call'[u]]
      /\ \A u \in Threads : u # t => call'[u] = call[u]
      /\ lpc'[t] = "lock" => call'[t] = call[t]
  BY HexDumpAsks DEF LoggerTypeOK
<1>3. LoggerTypeOK'
  BY <1>1, <1>2 DEF LoggerTypeOK
<1>4. Exclusive'
  BY <1>1 DEF Exclusive, L!Inside, L!Writing
<1>5. ASSUME NEW u \in Threads PROVE Numbered(u)'
  BY <1>1, <1>2 DEF Numbered, MyStamp
<1>6. Stamps' /\ Ordered'
  BY <1>1 DEF Stamps, Ordered, IsStamp, StampOf
<1>7. ASSUME NEW u \in Threads PROVE LineDue(u)'
  BY <1>1, <1>2 DEF LineDue, IsStamp, StampOf, MyStamp, Stamped
<1> QED
  BY <1>3, <1>4, <1>5, <1>6, <1>7

(***************************************************************************)
(* Every step keeps the stamps in order.                                   *)
(***************************************************************************)
LEMMA StampInvStep ==
  ASSUME StampInv, [Next]_vars
  PROVE  StampInv'
<1>1. MacroInv' /\ now \in Nat
  BY MacroInvStep DEF StampInv, MacroInv, MacroTypeOK
<1>2. ASSUME NEW t \in Threads, StartCall(t) \/ AcquireLock(t) \/ Trace(t)
      PROVE  StampInv'
  BY <1>1, <1>2, TracerSteps, FrameStep
<1>3. CASE Tick
  BY <1>1, <1>3, FrameStep DEF Tick, F!Tick
<1>4. ASSUME NEW t \in Threads, EndMacro(t)
      PROVE  StampInv'
  BY <1>1, <1>4, FrameStep DEF EndMacro, F!LogLine
<1>5. CASE UNCHANGED vars
  BY <1>1, <1>5, FrameStep DEF vars
<1>6. ASSUME NEW t \in Threads, NEW op \in MacroOps, NEW kind, NEW indent,
             Macro(t, op, kind, indent)
      PROVE  StampInv'
  BY <1>1, <1>6, MacroStep
<1>7. ASSUME NEW t \in Threads,
             ReturnTimestamp(t) \/ LogLine(t) \/ AcquireMutex(t) \/ HexDumpTrace(t)
      PROVE  StampInv'
  BY <1>1, <1>7, StampStep, LogLineStep, AcquireStep, HexDumpStep
<1> QED
  BY <1>2, <1>3, <1>4, <1>5, <1>6, <1>7, MacroSteps DEF Next, Proceed

(***************************************************************************)
(* A log begins with a header, which has no stamp.                         *)
(***************************************************************************)
LEMMA InitStamp == Init => StampInv
<1> SUFFICES ASSUME Init PROVE StampInv
  OBVIOUS
<1>1. MacroInv
  BY InitMacro
<1>2. L!NoText \in L!Texts
  BY ProgramAssumption DEF L!NoText, L!Text, L!Texts
<1>3. L!Piece("header", 0, L!NoText) \in L!Pieces
      /\ L!Piece("header", 0, L!NoText).kind # "timestamp"
  BY <1>2, ProgramAssumption DEF L!Piece, L!Pieces, L!Texts, L!Kinds
<1>4. files[Path] = <<L!Piece("header", 0, L!NoText)>>
  BY ProgramAssumption DEF Init
<1>5. files[Path] \in Seq(L!Pieces) /\ \A k \in DOMAIN files[Path] : ~ IsStamp(k)
  BY <1>3, <1>4 DEF IsStamp
<1>6. LoggerTypeOK
  BY <1>2, <1>5, ProgramAssumption DEF Init, LoggerTypeOK, Labels, L!Outside
<1>7. Exclusive /\ \A t \in Threads : Numbered(t) /\ LineDue(t)
  BY ProgramAssumption DEF Init, Exclusive, Numbered, LineDue, L!Inside, L!Writing
<1>8. Stamps /\ Ordered
  BY <1>5 DEF Stamps, Ordered
<1> QED
  BY <1>1, <1>6, <1>7, <1>8 DEF StampInv

(***************************************************************************)
(* The timestamps of a log never go back, for any number of threads: the   *)
(* clock is read after the mutex was taken (Logger.cpp:93, 169 and 306).   *)
(***************************************************************************)
THEOREM StampsCorrect == FairSpec => []StampsInOrder
<1>1. StampInv => StampsInOrder
  <2> SUFFICES ASSUME StampInv PROVE StampsInOrder
    OBVIOUS
  <2>1. DOMAIN files[Path] = 1 .. Len(files[Path])
    BY DEF StampInv, LoggerTypeOK
  <2> QED
    BY <2>1 DEF StampInv, Ordered, IsStamp, StampOf, StampsInOrder
<1> QED
  BY <1>1, InitStamp, StampInvStep, PTL DEF FairSpec

-----------------------------------------------------------------------------
(***************************************************************************)
(* The tracer, and what is proved of it by itself.                         *)
(***************************************************************************)
T == INSTANCE CallTraceProof

(***************************************************************************)
(* The tracer among the steps of the program.                              *)
(***************************************************************************)
LEMMA TracerStep ==
  ASSUME [Next]_vars
  PROVE  [F!Next]_(F!vars)
<1>1. CASE UNCHANGED tracer
  BY <1>1 DEF F!vars, F!table, F!lookup
<1>2. CASE Tick
  BY <1>2 DEF Tick, F!Next
<1>3. ASSUME NEW t \in Threads, StartCall(t) \/ AcquireLock(t) \/ Trace(t)
      PROVE  F!Next
  BY <1>3 DEF StartCall, AcquireLock, Trace, F!Next, F!Trace
<1>4. ASSUME NEW t \in Threads, EndMacro(t)
      PROVE  [F!Next]_(F!vars)
  BY <1>1, <1>4 DEF EndMacro, F!Next, F!Trace
<1>5. ASSUME NEW t \in Threads, NEW op, NEW kind, NEW indent,
             \/ Macro(t, op, kind, indent) \/ HexDumpTrace(t)
             \/ ReturnTimestamp(t) \/ LogLine(t) \/ AcquireMutex(t)
      PROVE  UNCHANGED tracer
  BY <1>5 DEF Macro, HexDumpTrace, ReturnTimestamp, LogLine, AcquireMutex
<1>6. CASE UNCHANGED vars
  BY <1>1, <1>6 DEF vars
<1> QED
  BY <1>1, <1>2, <1>3, <1>4, <1>5, <1>6, MacroSteps DEF Next, Proceed

(***************************************************************************)
(* The tracer as the program runs it, each of its lines drawn out over all *)
(* the steps of the macro and of LogLine, is the tracer of FunctionTrace.  *)
(***************************************************************************)
THEOREM TracerImplemented == FairSpec => F!Spec
<1>1. Init => F!Init
  BY DEF Init
<1>2. [Next]_vars => [F!Next]_(F!vars)
  BY TracerStep
<1> QED
  BY <1>1, <1>2, PTL DEF FairSpec, F!Spec

(***************************************************************************)
(* F and T!CallTraceProof's FunctionTrace are one module, twice instanced. *)
(***************************************************************************)
LEMMA SameTracer ==
  /\ F!Init => T!Init
  /\ [F!Next]_(F!vars) => [T!Next]_(T!vars)
<1> USE DEF F!Goto, T!Goto, F!table, T!table, F!lookup, T!lookup, F!Slots, T!Slots,
            F!None, T!None, F!Return, T!Return, F!Finish, T!Finish, F!NewLive, T!NewLive
<1>1. F!Init => T!Init
  BY DEF F!Init, T!Init
<1>2. ASSUME NEW t
      PROVE  /\ F!Construct(t) => T!Construct(t)
             /\ F!Destroy(t) => T!Destroy(t)
             /\ F!TrackCall(t) => T!TrackCall(t)
             /\ F!AcquireLock(t) => T!AcquireLock(t)
  BY DEF F!Construct, T!Construct, F!Destroy, T!Destroy, F!TrackCall, T!TrackCall,
         F!Call, T!Call, F!AcquireLock, T!AcquireLock
<1>3. ASSUME NEW t, F!Lookup(t)
      PROVE  T!Lookup(t)
  <2> USE DEF T!Lookup
  <2>1. CASE F!FindSlot(t)
    BY <2>1 DEF F!FindSlot, T!FindSlot
  <2>2. CASE F!ScanSlot(t)
    BY <2>2 DEF F!ScanSlot, T!ScanSlot, F!NextSlot, T!NextSlot, F!Vacant, T!Vacant,
                F!isAvailable, T!isAvailable
  <2>3. CASE F!StartCleanup(t)
    BY <2>3 DEF F!StartCleanup, T!StartCleanup, F!NoRoom, T!NoRoom, F!LastSlot, T!LastSlot,
                F!Elapsed, T!Elapsed
  <2>4. CASE F!CleanupSlot(t)
    BY <2>4 DEF F!CleanupSlot, T!CleanupSlot, F!NextSlot, T!NextSlot, F!Vacant, T!Vacant,
                F!isAvailable, T!isAvailable, F!IsStale, T!IsStale, F!Collect, T!Collect
  <2>5. CASE F!GiveUp(t)
    BY <2>5 DEF F!GiveUp, T!GiveUp, F!NoRoom, T!NoRoom, F!LastSlot, T!LastSlot
  <2>6. CASE F!ClaimId(t)
    BY <2>6 DEF F!ClaimId, T!ClaimId, F!NoRoom, T!NoRoom, F!LastSlot, T!LastSlot
  <2>7. CASE F!ClaimIndent(t)
    BY <2>7 DEF F!ClaimIndent, T!ClaimIndent
  <2> QED
    BY <1>3, <2>1, <2>2, <2>3, <2>4, <2>5, <2>6, <2>7 DEF F!Lookup
<1>4. ASSUME NEW t, F!Trace(t)
      PROVE  T!Trace(t)
  <2> USE DEF T!Trace, F!Indent, T!Indent
  <2>1. CASE F!NoSlot(t)
    BY <2>1 DEF F!NoSlot, T!NoSlot
  <2>2. CASE F!Decrement(t)
    BY <2>2 DEF F!Decrement, T!Decrement
  <2>3. CASE F!Format(t)
    BY <2>3 DEF F!Format, T!Format, F!Clamp, T!Clamp
  <2>4. CASE F!LogLine(t)
    BY <2>4 DEF F!LogLine, T!LogLine
  <2>5. CASE F!Increment(t)
    BY <2>5 DEF F!Increment, T!Increment
  <2>6. CASE F!UpdateLastAccessDelta(t)
    BY <2>6 DEF F!UpdateLastAccessDelta, T!UpdateLastAccessDelta, F!Elapsed, T!Elapsed
  <2> QED
    BY <1>4, <2>1, <2>2, <2>3, <2>4, <2>5, <2>6 DEF F!Trace
<1>5. F!Tick => T!Tick
  BY DEF F!Tick, T!Tick
<1>6. UNCHANGED F!vars => UNCHANGED T!vars
  BY DEF F!vars, T!vars
<1> QED
  BY <1>1, <1>2, <1>3, <1>4, <1>5, <1>6 DEF F!Next, T!Next

(***************************************************************************)
(* What CallTraceProof assumes.                                            *)
(***************************************************************************)
LEMMA TracerRoom ==
  /\ T!RoomForAll
  /\ MaxSlots \in Nat \ {0} /\ CleanupDelta \in Nat /\ MaxTime \in Nat
  /\ Locked \in BOOLEAN /\ NoThread \notin Threads
<1>1. T!IsFiniteSet(Threads) /\ T!Cardinality(Threads) = Cardinality(Threads)
  BY RoomAssumption DEF T!IsFiniteSet, IsFiniteSet, T!Cardinality, Cardinality
<1>2. Cardinality(Threads) \in Nat
  BY RoomAssumption, FS_CardinalityType
<1> QED
  BY <1>1, <1>2, RoomAssumption, ProgramAssumption DEF T!RoomForAll

(***************************************************************************)
(* So each counter is its thread's depth in the program too.               *)
(***************************************************************************)
LEMMA TracerCounts == FairSpec => []T!DInv
<1>1. T!Spec => []T!DInv
  BY TracerRoom, T!DepthInvariance
<1>2. F!Init => T!Init
  BY SameTracer
<1>3. [F!Next]_(F!vars) => [T!Next]_(T!vars)
  BY SameTracer
<1> QED
  BY <1>1, <1>2, <1>3, TracerImplemented, PTL DEF F!Spec, T!Spec

\* What the logger needs to know of the tracer: of a line that is prepared its
\* indentation, and of a function that is left that it was entered.
TracerOK ==
  /\ live \in [Threads -> Nat]
  /\ pc = [t \in Threads |-> pc[t]] /\ caller = [t \in Threads |-> caller[t]]
  /\ \A t \in Threads :
       pc[t] = "log" =>
         /\ caller[t] = "dtor" => live[t] > 0
         /\ buffer[t] = IF caller[t] = "dtor" THEN live[t] - 1 ELSE live[t]

LEMMA TracerTypes == T!DInv => TracerOK
BY DEF T!DInv, T!OInv, T!IInv, T!TypeOK, T!CallsFit, T!Pending, T!Prepared, T!Expected, TracerOK

-----------------------------------------------------------------------------
(***************************************************************************)
(* The line that a thread is logging, and how far it is.                   *)
(***************************************************************************)
Kind(t)    == IF pc[t] = "log" THEN caller[t] ELSE "message"
Indents(t) == IF Kind(t) = "dtor" THEN live[t] - 1 ELSE live[t]

\* Its text is in the file, but the thread's call has not returned yet.
Owed(t) ==
  IF InMacro(t) /\ lpc[t] \in {"newline", "idle"} THEN Change(Kind(t)) ELSE 0

\* The program was set up, and changes nothing afterwards; the buffer is never
\* smaller than it was allocated.
SetUp ==
  /\ logfile = Path /\ tracingEnabled = TRUE
  /\ traceMaskList = {All} /\ ignoreMaskList = {}
  /\ allocated \in BOOLEAN /\ outputBufferSize \in Nat
  /\ allocated => outputBufferSize >= InitialSize

\* A message that fits the buffer is rendered at once, whole; a dump needs no
\* rendering.
Renders(t) ==
  /\ argptrUsed = [u \in Threads |-> argptrUsed[u]] /\ argptrUsed[t] = FALSE
  /\ lpc[t] \in {"idle", "hexdump", "lock", "start", "line"} \cup L!Writing
  /\ lpc[t] # "idle" => call[t].op \in MacroOps /\ call[t].mask = Mask
  /\ lpc[t] # "idle" /\ call[t].op = "LogLine" => call[t].len = Length
  /\ lpc[t] \in L!Writing => allocated
  /\ lpc[t] = "vsnprintf" => call[t].op = "LogLine"
  /\ lpc[t] \in {"mask", "text"} /\ call[t].op = "LogLine" =>
       outputBuffer = L!Text(call[t].id, TRUE)

\* Between functions, or at the line of one; what was asked for is what it does.
Asked(t) ==
  /\ InMacro(t) => pc[t] \in {"idle", "log"}
  /\ lpc[t] \notin {"idle", "newline"} =>
       /\ said[call[t].id].by = t
       /\ said[call[t].id].kind = Kind(t)
       /\ said[call[t].id].indent = Indents(t)

\* Every text is the whole message of its own call.
IsText(k) == k \in 1 .. Len(files[Path]) /\ files[Path][k].kind = "text"

WholeTexts ==
  /\ \A id \in Ids : {"by", "kind", "indent"} \subseteq DOMAIN said[id]
  /\ \A k \in DOMAIN files[Path] :
       IsText(k) => /\ files[Path][k].id \in 1 .. calls
                    /\ files[Path][k].of = files[Path][k].id
                    /\ files[Path][k].whole = TRUE

\* d is the depth that the file shows, and the lines before k nest.
IsDepth(t, d) ==
  /\ d[0] = 0
  /\ \A k \in 1 .. Len(files[Path]) :
       d[k] = d[k - 1] + IF SaidBy(t, files[Path][k])
                         THEN Change(said[files[Path][k].of].kind) ELSE 0

Nested(t, d) ==
  \A k \in 1 .. Len(files[Path]) :
    SaidBy(t, files[Path][k]) =>
      LET line == said[files[Path][k].of]
      IN  /\ line.indent = IF line.kind = "dtor" THEN d[k] ELSE d[k - 1]
          /\ d[k] >= 0

Shows(t, n) ==
  \E d \in [0 .. Len(files[Path]) -> Int] :
    IsDepth(t, d) /\ Nested(t, d) /\ d[Len(files[Path])] = n

TellInv ==
  /\ SetUp /\ WholeTexts
  /\ \A t \in Threads : Renders(t) /\ Asked(t) /\ Shows(t, live[t] + Owed(t))

(***************************************************************************)
(* A change is by one.                                                     *)
(***************************************************************************)
LEMMA ChangeType == ASSUME NEW kind PROVE Change(kind) \in {-1, 0, 1}
BY DEF Change

(***************************************************************************)
(* The file still shows the depths it showed if what was said in it is     *)
(* left alone.                                                             *)
(***************************************************************************)
LEMMA ShowsStill ==
  ASSUME LoggerTypeOK, WholeTexts, UNCHANGED files,
         \A k \in DOMAIN files[Path] :
           IsText(k) =>
             /\ said'[files[Path][k].id].by = said[files[Path][k].id].by
             /\ said'[files[Path][k].id].kind = said[files[Path][k].id].kind
             /\ said'[files[Path][k].id].indent = said[files[Path][k].id].indent,
         NEW t \in Threads, NEW n, Shows(t, n)
  PROVE  Shows(t, n)'
<1> DEFINE f == files[Path]
<1>1. DOMAIN f = 1 .. Len(f) /\ Len(f) \in Nat
  BY DEF LoggerTypeOK
<1>2. PICK d \in [0 .. Len(f) -> Int] : IsDepth(t, d) /\ Nested(t, d) /\ d[Len(f)] = n
  BY DEF Shows
<1>3. \A k \in 1 .. Len(f) : /\ SaidBy(t, f[k])' <=> SaidBy(t, f[k])
                             /\ SaidBy(t, f[k]) => said'[f[k].of].kind = said[f[k].of].kind
                                                   /\ said'[f[k].of].indent = said[f[k].of].indent
  BY <1>1 DEF SaidBy, IsText, WholeTexts
<1>4. IsDepth(t, d)'
  BY <1>1, <1>2, <1>3 DEF IsDepth
<1>5. Nested(t, d)'
  BY <1>1, <1>2, <1>3 DEF Nested
<1> QED
  BY <1>2, <1>4, <1>5 DEF Shows

(***************************************************************************)
(* One more piece: a line of the thread's own moves the depth, any other   *)
(* piece leaves it.                                                        *)
(***************************************************************************)
LEMMA ShowsMore ==
  ASSUME LoggerTypeOK, LoggerTypeOK', NEW x, files'[Path] = Append(files[Path], x),
         UNCHANGED said,
         NEW t \in Threads, NEW n \in Int, Shows(t, n),
         NEW m \in Int,
         m = n + (IF SaidBy(t, x) THEN Change(said[x.of].kind) ELSE 0),
         SaidBy(t, x) => /\ m >= 0
                         /\ said[x.of].indent = IF said[x.of].kind = "dtor" THEN m ELSE n
  PROVE  Shows(t, m)'
<1> DEFINE f == files[Path]
           g == files'[Path]
<1>1. /\ DOMAIN f = 1 .. Len(f) /\ Len(f) \in Nat /\ Len(g) = Len(f) + 1
      /\ g[Len(f) + 1] = x /\ \A k \in 1 .. Len(f) : g[k] = f[k]
  BY DEF LoggerTypeOK
<1>2. PICK d \in [0 .. Len(f) -> Int] : IsDepth(t, d) /\ Nested(t, d) /\ d[Len(f)] = n
  BY DEF Shows
<1>3. PICK e \in [0 .. Len(f) + 1 -> Int] :
        e[Len(f) + 1] = m /\ \A k \in 0 .. Len(f) : e[k] = d[k]
  <2> DEFINE more == [k \in 0 .. Len(f) + 1 |-> IF k = Len(f) + 1 THEN m ELSE d[k]]
  <2>1. more \in [0 .. Len(f) + 1 -> Int] /\ more[Len(f) + 1] = m
        /\ \A k \in 0 .. Len(f) : more[k] = d[k]
    BY <1>1, <1>2
  <2> QED
    BY <2>1
<1>4. \A k \in 1 .. Len(f) : SaidBy(t, files[Path][k])' <=> SaidBy(t, f[k])
  BY <1>1 DEF SaidBy
<1>5. SaidBy(t, x)' <=> SaidBy(t, x)
  BY DEF SaidBy
<1>6. ASSUME NEW k \in 1 .. Len(g)
      PROVE  e[k] = e[k - 1] + IF SaidBy(t, files[Path][k])' THEN Change(said'[g[k].of].kind) ELSE 0
  <2>1. CASE k = Len(f) + 1
    <3>1. g[k] = x /\ e[k] = m /\ e[k - 1] = n
      BY <1>1, <1>2, <1>3, <2>1
    <3> QED
      BY <1>5, <3>1
  <2>2. CASE k # Len(f) + 1
    <3>1. k \in 1 .. Len(f) /\ g[k] = f[k] /\ e[k] = d[k] /\ e[k - 1] = d[k - 1]
      BY <1>1, <1>3, <2>2
    <3> QED
      BY <1>2, <1>4, <3>1 DEF IsDepth
  <2> QED
    BY <2>1, <2>2
<1>7. IsDepth(t, e)'
  BY <1>1, <1>2, <1>3, <1>6 DEF IsDepth
<1>8. ASSUME NEW k \in 1 .. Len(g), SaidBy(t, files[Path][k])'
      PROVE  LET line == said'[g[k].of]
             IN  /\ line.indent = IF line.kind = "dtor" THEN e[k] ELSE e[k - 1]
                 /\ e[k] >= 0
  <2>1. CASE k = Len(f) + 1
    <3>1. g[k] = x /\ e[k] = m /\ e[k - 1] = n
      BY <1>1, <1>2, <1>3, <2>1
    <3> QED
      BY <1>5, <1>8, <3>1
  <2>2. CASE k # Len(f) + 1
    <3>1. k \in 1 .. Len(f) /\ g[k] = f[k] /\ e[k] = d[k] /\ e[k - 1] = d[k - 1]
      BY <1>1, <1>3, <2>2
    <3> QED
      BY <1>2, <1>4, <1>8, <3>1 DEF Nested
  <2> QED
    BY <2>1, <2>2
<1>9. Nested(t, e)'
  BY <1>8 DEF Nested
<1> QED
  BY <1>1, <1>3, <1>7, <1>9 DEF Shows

\* Everything that the steps below start from.
Before == StampInv /\ TracerOK /\ TellInv

LEMMA OwedType ==
  ASSUME TracerOK, NEW t \in Threads
  PROVE  live[t] + Owed(t) \in Int
BY ChangeType DEF TracerOK, Owed

LEMMA StillTold ==
  ASSUME Before, UNCHANGED files,
         \A k \in DOMAIN files[Path] :
           IsText(k) =>
             /\ said'[files[Path][k].id].by = said[files[Path][k].id].by
             /\ said'[files[Path][k].id].kind = said[files[Path][k].id].kind
             /\ said'[files[Path][k].id].indent = said[files[Path][k].id].indent,
         NEW t \in Threads, live'[t] + Owed(t)' = live[t] + Owed(t)
  PROVE  Shows(t, live[t] + Owed(t))'
<1>1. PICK n : n = live[t] + Owed(t)
  OBVIOUS
<1>2. Shows(t, n)
  BY <1>1 DEF Before, TellInv
<1>3. Shows(t, n)'
  BY <1>2, ShowsStill DEF Before, StampInv, TellInv
<1> QED
  BY <1>1, <1>3 DEF Shows

LEMMA MoreTold ==
  ASSUME Before, LoggerTypeOK', NEW x, Adds(x), UNCHANGED said, NEW t \in Threads,
         live'[t] + Owed(t)' =
           live[t] + Owed(t) + (IF SaidBy(t, x) THEN Change(said[x.of].kind) ELSE 0),
         SaidBy(t, x) =>
           /\ live'[t] + Owed(t)' >= 0
           /\ said[x.of].indent = IF said[x.of].kind = "dtor" THEN live'[t] + Owed(t)'
                                  ELSE live[t] + Owed(t)
  PROVE  Shows(t, live[t] + Owed(t))'
<1>1. PICK n \in Int : n = live[t] + Owed(t)
  BY OwedType DEF Before
<1>2. PICK m \in Int : m = n + (IF SaidBy(t, x) THEN Change(said[x.of].kind) ELSE 0)
  BY ChangeType
<1>3. files'[Path] = Append(files[Path], x)
  BY ProgramAssumption DEF Adds, Before, StampInv, LoggerTypeOK
<1>4. Shows(t, n)
  BY <1>1 DEF Before, TellInv
<1>5. Shows(t, m)'
  BY <1>1, <1>2, <1>3, <1>4, ShowsMore DEF Before, StampInv
<1> QED
  BY <1>1, <1>2, <1>5 DEF Shows

(***************************************************************************)
(* A step outside the logger, of a thread that is not logging.             *)
(***************************************************************************)
LEMMA OutsideTells ==
  ASSUME Before, UNCHANGED <<logger, said, macro, live>>,
         \A u \in Threads : InMacro(u) => pc'[u] = pc[u] /\ caller'[u] = caller[u]
  PROVE  TellInv'
<1> USE DEF Before
<1>1. SetUp' /\ WholeTexts'
  BY DEF TellInv, SetUp, WholeTexts, IsText
<1>2. ASSUME NEW u \in Threads
      PROVE  Renders(u)' /\ Asked(u)' /\ Shows(u, live[u] + Owed(u))'
  <2>1. InMacro(u)' <=> InMacro(u)
    BY DEF InMacro
  <2>2. Renders(u)'
    BY DEF TellInv, Renders
  <2>3. InMacro(u) => Kind(u)' = Kind(u) /\ Indents(u)' = Indents(u)
    BY DEF Kind, Indents
  <2>4. ~ InMacro(u) => lpc[u] = "idle"
    BY DEF StampInv, MacroInv, Entered
  <2>5. Asked(u)'
    BY <2>1, <2>3, <2>4 DEF TellInv, Asked
  <2>6. Owed(u)' = Owed(u)
    BY <2>1, <2>3 DEF Owed
  <2> QED
    BY <2>2, <2>5, <2>6, StillTold
<1> QED
  BY <1>1, <1>2 DEF TellInv

(***************************************************************************)
(* The tracer's steps but the end of its line.                             *)
(***************************************************************************)
LEMMA TracerTells ==
  ASSUME Before, NEW t \in Threads, StartCall(t) \/ AcquireLock(t) \/ Trace(t)
  PROVE  TellInv'
<1>1. UNCHANGED live /\ \A u \in Threads : u # t => pc'[u] = pc[u] /\ caller'[u] = caller[u]
  <2> USE DEF Before, TracerOK, F!Goto, F!lookup, F!table
  <2>1. CASE StartCall(t) \/ AcquireLock(t)
    BY <2>1 DEF StartCall, AcquireLock, F!Construct, F!Destroy, F!TrackCall, F!Call, F!AcquireLock
  <2>2. CASE F!Lookup(t)
    BY <2>2 DEF F!Lookup, F!FindSlot, F!ScanSlot, F!StartCleanup, F!CleanupSlot, F!GiveUp,
                F!ClaimId, F!ClaimIndent, F!Return
  <2>3. CASE F!Decrement(t) \/ F!Format(t) \/ F!Increment(t) \/ F!UpdateLastAccessDelta(t)
    BY <2>3 DEF F!Decrement, F!Format, F!Increment, F!UpdateLastAccessDelta, F!Finish
  <2> QED
    BY <2>1, <2>2, <2>3 DEF Trace
<1>2. ~ InMacro(t)
  <2> SUFFICES ASSUME InMacro(t) PROVE FALSE
    OBVIOUS
  <2>1. pc[t] \in {"idle", "log"}
    BY DEF Before, TellInv, Asked
  <2>2. ~ StartCall(t)
    BY DEF StartCall
  <2>3. ~ AcquireLock(t)
    BY <2>1 DEF AcquireLock, F!AcquireLock
  <2>4. ~ F!Lookup(t)
    BY <2>1 DEF F!Lookup, F!FindSlot, F!ScanSlot, F!StartCleanup, F!CleanupSlot, F!GiveUp,
                F!ClaimId, F!ClaimIndent
  <2>5. ~ Trace(t)
    BY <2>1, <2>4 DEF Trace, F!Decrement, F!Format, F!Increment, F!UpdateLastAccessDelta
  <2> QED
    BY <2>2, <2>3, <2>5
<1> QED
  BY <1>1, <1>2, TracerSteps, OutsideTells

(***************************************************************************)
(* A line is asked for: it is the thread's next, at its depth.             *)
(***************************************************************************)
LEMMA MacroTells ==
  ASSUME Before, NEW t \in Threads, TraceLine(t) \/ Message(t) \/ HexDump(t)
  PROVE  TellInv'
<1> USE DEF Before
<1>1. PICK op \in MacroOps : pc[t] \in {"idle", "log"} /\ Macro(t, op, Kind(t), Indents(t))
  <2>1. CASE TraceLine(t)
    BY <2>1 DEF TraceLine, TracerOK, Kind, Indents, MacroOps
  <2>2. CASE Message(t) \/ HexDump(t)
    BY <2>2 DEF Message, HexDump, Kind, Indents, MacroOps
  <2> QED
    BY <2>1, <2>2
<1>2. /\ ~ InMacro(t) /\ UNCHANGED tracer
      /\ lpc[t] = "idle" /\ calls < MaxCalls /\ calls' = calls + 1
      /\ lpc' = [lpc EXCEPT ![t] = L!FirstStep(op)]
      /\ call' = [call EXCEPT ![t] = [op |-> op, id |-> calls', mask |-> Mask,
                                      len |-> IF op = "LogLine" THEN Length ELSE 0]]
      /\ said' = [said EXCEPT ![calls'] = [by |-> t, kind |-> Kind(t), indent |-> Indents(t),
                                           at |-> NoTime]]
      /\ UNCHANGED <<logfile, tracingEnabled, traceMaskList, ignoreMaskList, allocated,
                     outputBufferSize, outputBuffer, argptrUsed, files>>
  BY <1>1 DEF Macro, TellInv, SetUp, L!Log, L!Begin, L!Goto, L!stream, L!buffer, L!config
<1>3. /\ calls' \in Ids /\ calls \in 0 .. MaxCalls /\ \A id \in 1 .. calls : id \in Ids /\ id # calls'
      /\ DOMAIN said = Ids
  BY <1>2, ProgramAssumption DEF StampInv, LoggerTypeOK, Ids, MacroInv, MacroTypeOK
<1>4. /\ said'[calls'] = [by |-> t, kind |-> Kind(t), indent |-> Indents(t), at |-> NoTime]
      /\ \A id \in Ids : id # calls' => said'[id] = said[id]
  BY <1>2, <1>3 DEF StampInv, MacroInv, MacroTypeOK
<1>5. \A u \in Threads : u # t => macro'[u] = macro[u]
  BY <1>1, MacroBegins DEF StampInv, MacroInv, MacroTypeOK
<1>6. SetUp'
  BY <1>2 DEF TellInv, SetUp
<1>7. WholeTexts'
  <2>1. \A id \in Ids : {"by", "kind", "indent"} \subseteq DOMAIN said'[id]
    BY <1>4 DEF TellInv, WholeTexts
  <2>2. 1 .. calls \subseteq 1 .. calls'
    BY <1>2, <1>3
  <2> QED
    BY <1>2, <2>1, <2>2 DEF TellInv, WholeTexts, IsText
<1>8. \A k \in DOMAIN files[Path] : IsText(k) => said'[files[Path][k].id] = said[files[Path][k].id]
  BY <1>3, <1>4 DEF TellInv, WholeTexts
<1>9. ASSUME NEW u \in Threads
      PROVE  Renders(u)' /\ Asked(u)' /\ Shows(u, live[u] + Owed(u))'
  <2>1. Kind(u)' = Kind(u) /\ Indents(u)' = Indents(u) /\ live'[u] = live[u]
    BY <1>2 DEF Kind, Indents
  <2>2. CASE u = t
    <3>1. /\ lpc'[u] \in {"lock", "hexdump"} /\ call'[u].id = calls' /\ call'[u].op \in MacroOps
          /\ call'[u].mask = Mask /\ (call'[u].op = "LogLine" => call'[u].len = Length)
      BY <1>2, <2>2, FirstSteps DEF StampInv, LoggerTypeOK
    <3>2. Renders(u)'
      BY <1>2, <3>1 DEF TellInv, Renders, L!Writing
    <3>3. Asked(u)'
      BY <1>1, <1>2, <1>4, <2>1, <2>2, <3>1 DEF Asked
    <3>4. Owed(u)' = Owed(u)
      BY <1>2, <2>2, <3>1 DEF Owed
    <3> QED
      BY <1>2, <1>8, <2>1, <3>2, <3>3, <3>4, StillTold
  <2>3. CASE u # t
    <3>1. lpc'[u] = lpc[u] /\ call'[u] = call[u] /\ (InMacro(u)' <=> InMacro(u))
      BY <1>2, <1>5, <2>3 DEF StampInv, LoggerTypeOK, InMacro
    <3>2. Renders(u)'
      BY <1>2, <3>1 DEF TellInv, Renders
    <3>3. lpc[u] # "idle" => said'[call[u].id] = said[call[u].id]
      BY <1>3, <1>4 DEF StampInv, Numbered
    <3>4. Asked(u)'
      BY <1>2, <2>1, <3>1, <3>3 DEF TellInv, Asked
    <3>5. Owed(u)' = Owed(u)
      BY <2>1, <3>1 DEF Owed
    <3> QED
      BY <1>2, <1>8, <2>1, <3>2, <3>4, <3>5, StillTold
  <2> QED
    BY <2>2, <2>3
<1> QED
  BY <1>6, <1>7, <1>9 DEF TellInv

(***************************************************************************)
(* The macro returns: what was owed is now the depth.                      *)
(***************************************************************************)
LEMMA EndTells ==
  ASSUME Before, NEW t \in Threads, EndMacro(t)
  PROVE  TellInv'
<1> USE DEF Before
<1>1. /\ InMacro(t) /\ lpc[t] = "idle" /\ UNCHANGED <<logger, said>>
      /\ macro'[t] = NoMacro /\ \A u \in Threads : u # t => macro'[u] = macro[u]
  BY DEF EndMacro, StampInv, MacroInv, MacroTypeOK
<1>2. /\ \A u \in Threads : u # t => /\ pc'[u] = pc[u] /\ caller'[u] = caller[u]
                                     /\ live'[u] = live[u]
      /\ live'[t] = live[t] + Change(Kind(t))
  <2>1. CASE pc[t] = "log"
    <3>1. F!LogLine(t)
      BY <2>1 DEF EndMacro
    <3> QED
      BY <2>1, <3>1 DEF F!LogLine, F!NewLive, F!Finish, F!Goto, TracerOK, Kind, Change
  <2>2. CASE pc[t] # "log"
    BY <2>2 DEF EndMacro, TracerOK, Kind, Change
  <2> QED
    BY <2>1, <2>2
<1>3. SetUp' /\ WholeTexts'
  BY <1>1 DEF TellInv, SetUp, WholeTexts, IsText
<1>4. ASSUME NEW u \in Threads
      PROVE  Renders(u)' /\ Asked(u)' /\ Shows(u, live[u] + Owed(u))'
  <2>1. Renders(u)'
    BY <1>1 DEF TellInv, Renders
  <2>2. CASE u = t
    <3>1. ~ InMacro(u)' /\ lpc'[u] = "idle"
      BY <1>1, <2>2 DEF InMacro
    <3>2. Owed(u) = Change(Kind(u)) /\ Owed(u)' = 0 /\ live'[u] = live[u] + Change(Kind(u))
      BY <1>1, <1>2, <2>2, <3>1 DEF Owed
    <3>3. Asked(u)'
      BY <3>1 DEF Asked
    <3>4. live'[u] + Owed(u)' = live[u] + Owed(u)
      BY <3>2, ChangeType DEF TracerOK
    <3> QED
      BY <1>1, <2>1, <3>3, <3>4, StillTold
  <2>3. CASE u # t
    <3>1. /\ (InMacro(u)' <=> InMacro(u)) /\ live'[u] = live[u]
          /\ Kind(u)' = Kind(u) /\ Indents(u)' = Indents(u) /\ pc'[u] = pc[u]
      BY <1>1, <1>2, <2>3 DEF InMacro, Kind, Indents
    <3>2. Asked(u)'
      BY <1>1, <3>1 DEF TellInv, Asked
    <3>3. Owed(u)' = Owed(u)
      BY <1>1, <3>1 DEF Owed
    <3> QED
      BY <1>1, <2>1, <3>1, <3>2, <3>3, StillTold
  <2> QED
    BY <2>2, <2>3
<1> QED
  BY <1>3, <1>4 DEF TellInv

(***************************************************************************)
(* The clock is read, the mutex taken: no line says anything else.         *)
(***************************************************************************)
LEMMA StampTells ==
  ASSUME Before, NEW t \in Threads, ReturnTimestamp(t)
  PROVE  TellInv'
<1> USE DEF Before
<1>1. UNCHANGED <<tracer, logger, macro>>
  BY DEF ReturnTimestamp
<1>2. /\ said' = [said EXCEPT ![call[t].id].at = now] /\ said = [id \in Ids |-> said[id]]
      /\ \A id \in Ids : {"by", "kind", "indent"} \subseteq DOMAIN said[id]
  BY DEF ReturnTimestamp, StampInv, MacroInv, MacroTypeOK, TellInv, WholeTexts
<1>3. \A id \in Ids : /\ said'[id].by = said[id].by /\ said'[id].kind = said[id].kind
                      /\ said'[id].indent = said[id].indent
                      /\ {"by", "kind", "indent"} \subseteq DOMAIN said'[id]
  BY <1>2
<1>4. 1 .. calls \subseteq Ids
  BY ProgramAssumption DEF StampInv, LoggerTypeOK, Ids
<1>5. SetUp' /\ WholeTexts'
  BY <1>1, <1>3 DEF TellInv, SetUp, WholeTexts, IsText
<1>6. ASSUME NEW u \in Threads
      PROVE  Renders(u)' /\ Asked(u)' /\ Shows(u, live[u] + Owed(u))'
  <2>1. Renders(u)'
    BY <1>1 DEF TellInv, Renders
  <2>2. /\ (InMacro(u)' <=> InMacro(u)) /\ Kind(u)' = Kind(u) /\ Indents(u)' = Indents(u)
    BY <1>1 DEF InMacro, Kind, Indents
  <2>3. lpc[u] # "idle" => call[u].id \in Ids
    BY <1>4 DEF StampInv, Numbered
  <2>4. Asked(u)'
    BY <1>1, <1>3, <2>2, <2>3 DEF TellInv, Asked
  <2>5. Owed(u)' = Owed(u)
    BY <1>1, <2>2 DEF Owed
  <2>6. \A k \in DOMAIN files[Path] : IsText(k) => files[Path][k].id \in Ids
    BY <1>4 DEF TellInv, WholeTexts
  <2> QED
    BY <1>1, <1>3, <2>1, <2>4, <2>5, <2>6, StillTold
<1> QED
  BY <1>5, <1>6 DEF TellInv

LEMMA HexDumpTells ==
  ASSUME Before, NEW t \in Threads, HexDumpTrace(t)
  PROVE  TellInv'
<1> USE DEF Before
<1>1. /\ UNCHANGED <<tracer, macro, said, logfile, tracingEnabled, traceMaskList, ignoreMaskList,
                     allocated, outputBufferSize, outputBuffer, argptrUsed, files, call, calls>>
      /\ lpc[t] = "hexdump" /\ lpc'[t] = "lock" /\ \A u \in Threads : u # t => lpc'[u] = lpc[u]
  <2>1. lpc[t] = "hexdump" /\ call[t].mask = Mask
    BY HexDumpAsks DEF TellInv, Renders
  <2>2. L!IsTraceMask(call[t].mask)
    BY <2>1 DEF L!IsTraceMask, TellInv, SetUp
  <2> QED
    BY <2>2, HexDumpAsks DEF StampInv, LoggerTypeOK
<1>2. SetUp' /\ WholeTexts'
  BY <1>1 DEF TellInv, SetUp, WholeTexts, IsText
<1>3. ASSUME NEW u \in Threads
      PROVE  Renders(u)' /\ Asked(u)' /\ Shows(u, live[u] + Owed(u))'
  <2>1. Renders(u)'
    BY <1>1 DEF TellInv, Renders, L!Writing
  <2>2. /\ (InMacro(u)' <=> InMacro(u)) /\ Kind(u)' = Kind(u) /\ Indents(u)' = Indents(u)
    BY <1>1 DEF InMacro, Kind, Indents
  <2>3. Asked(u)'
    BY <1>1, <2>2 DEF TellInv, Asked
  <2>4. Owed(u)' = Owed(u)
    BY <1>1, <2>2 DEF Owed
  <2> QED
    BY <1>1, <2>1, <2>3, <2>4, StillTold
<1> QED
  BY <1>2, <1>3 DEF TellInv

LEMMA AcquireTells ==
  ASSUME Before, NEW t \in Threads, AcquireMutex(t)
  PROVE  TellInv'
<1> USE DEF Before
<1>1. /\ UNCHANGED <<tracer, macro, said, logfile, tracingEnabled, traceMaskList, ignoreMaskList,
                     allocated, outputBufferSize, outputBuffer, argptrUsed, files, call, calls>>
      /\ lpc[t] = "lock" /\ lpc'[t] = "start" /\ \A u \in Threads : u # t => lpc'[u] = lpc[u]
  BY DEF AcquireMutex, L!AcquireMutex, L!Goto, L!config, L!buffer, L!stream, L!counts,
         StampInv, LoggerTypeOK, TellInv, Renders, MacroOps, L!FileOps
<1>2. SetUp' /\ WholeTexts'
  BY <1>1 DEF TellInv, SetUp, WholeTexts, IsText
<1>3. ASSUME NEW u \in Threads
      PROVE  Renders(u)' /\ Asked(u)' /\ Shows(u, live[u] + Owed(u))'
  <2>1. Renders(u)'
    BY <1>1 DEF TellInv, Renders, L!Writing
  <2>2. /\ (InMacro(u)' <=> InMacro(u)) /\ Kind(u)' = Kind(u) /\ Indents(u)' = Indents(u)
    BY <1>1 DEF InMacro, Kind, Indents
  <2>3. Asked(u)'
    BY <1>1, <2>2 DEF TellInv, Asked
  <2>4. Owed(u)' = Owed(u)
    BY <1>1, <2>2 DEF Owed
  <2> QED
    BY <1>1, <2>1, <2>3, <2>4, StillTold
<1> QED
  BY <1>2, <1>3 DEF TellInv

(***************************************************************************)
(* LogLine: the message fits, so it is rendered whole at the first try.    *)
(***************************************************************************)
LEMMA RenderedAtOnce ==
  ASSUME Before, NEW t \in Threads, L!Vsnprintf(t)
  PROVE  L!Rendered(t, Length) /\ outputBuffer' = L!Text(call[t].id, TRUE)
<1> USE DEF Before, TellInv
<1>1. /\ lpc[t] = "vsnprintf" /\ argptrUsed[t] = FALSE /\ call[t].len = Length
      /\ outputBufferSize >= InitialSize /\ outputBufferSize \in Nat
  BY DEF L!Vsnprintf, Renders, SetUp, L!Writing
<1>2. Length \in Nat /\ outputBufferSize \in Nat /\ Length < outputBufferSize
  BY <1>1, LengthAssumption
<1>3. \/ L!Rendered(t, Length) \/ L!TooLong(t, Length)
      \/ L!Retry(t, Length) \/ L!Fail(t, Length)
  <2>1. ~ argptrUsed[t]
    BY <1>1, Zenon
  <2>2. L!Results(t) = {Length}
    BY <1>1, <2>1 DEF L!Results
  <2> QED
    BY <2>2 DEF L!Vsnprintf
<1>4. ~ (Length >= outputBufferSize) /\ Length # -1
  BY <1>2
<1>5. L!Rendered(t, Length)
  BY <1>3, <1>4 DEF L!TooLong, L!Retry, L!Fail, L!Failed
<1> QED
  BY <1>1, <1>5 DEF L!Rendered

(***************************************************************************)
(* What a step of LogLine does for the line it writes.                     *)
(***************************************************************************)
Writes(t) ==
  IF lpc[t] = "text"
  THEN lpc'[t] = "newline" /\ Adds(L!Piece("text", call[t].id, L!Text(call[t].id, TRUE)))
  ELSE UNCHANGED files \/ \E x \in L!Pieces : Adds(x) /\ x.kind # "text"

LEMMA LogLineWrites ==
  ASSUME Before, NEW t \in Threads, LogLine(t)
  PROVE  /\ SetUp' /\ Renders(t)'
         /\ argptrUsed' = [u \in Threads |-> argptrUsed'[u]]
         /\ \A u \in Threads : u # t => argptrUsed'[u] = argptrUsed[u]
         /\ allocated => allocated'
         /\ lpc[t] # "text" => (lpc'[t] \in {"newline", "idle"} <=> lpc[t] = "newline")
         /\ lpc'[t] # "idle" => call'[t] = call[t]
         /\ Writes(t)
<1> USE DEF Before, TellInv, L!Goto, L!Return, L!threads, L!counts, L!config, L!Writing
<1>1. /\ lpc \in [Threads -> Labels] /\ call = [u \in Threads |-> call[u]]
      /\ argptrUsed = [u \in Threads |-> argptrUsed[u]] /\ Path # NoFile
      /\ logfile = Path /\ Renders(t) /\ SetUp
  BY ProgramAssumption DEF StampInv, LoggerTypeOK, Renders, SetUp
<1>2. L!IsTraceMask(Mask)
  BY DEF L!IsTraceMask, SetUp
<1>3. ASSUME NEW kind \in L!Kinds, lpc[t] # "idle"
      PROVE  /\ L!Piece(kind, call[t].id, L!NoText) \in L!Pieces
             /\ L!Piece(kind, call[t].id, L!NoText).kind = kind
  <2>1. L!NoText \in L!Texts
    BY ProgramAssumption DEF L!NoText, L!Text, L!Texts
  <2> QED
    BY <1>3, <2>1, PieceType DEF L!Piece
<1>4. CASE L!StartLogLine(t)
  <2>1. lpc[t] = "start" /\ lpc' = [lpc EXCEPT ![t] = "line"]
        /\ UNCHANGED <<call, argptrUsed, mutex, files, logfile, traceMaskList, ignoreMaskList,
                       tracingEnabled, outputBuffer, outputBufferSize, allocated>>
    BY <1>1, <1>2, <1>4 DEF L!StartLogLine, Renders, L!stream, L!buffer
  <2> QED
    BY <1>1, <2>1 DEF SetUp, Renders, Writes
<1>5. CASE L!AllocateBuffer(t)
  <2>1. /\ lpc[t] = "line" /\ lpc' = [lpc EXCEPT ![t] = "timestamp"] /\ allocated' = TRUE
        /\ outputBufferSize' = (IF allocated THEN outputBufferSize ELSE InitialSize)
        /\ UNCHANGED <<call, argptrUsed, mutex, files, logfile, traceMaskList, ignoreMaskList,
                       tracingEnabled>>
    BY <1>1, <1>5 DEF L!AllocateBuffer, L!stream
  <2>2. SetUp'
    BY <1>1, <2>1, LengthAssumption DEF SetUp
  <2> QED
    BY <1>1, <2>1, <2>2 DEF Renders, Writes
<1>6. CASE L!OutputTimestamp(t)
  <2>1. /\ lpc[t] = "timestamp"
        /\ lpc' = [lpc EXCEPT ![t] = IF call[t].op = "LogLine" THEN "vsnprintf" ELSE "mask"]
        /\ Adds(L!Piece("timestamp", call[t].id, L!NoText))
        /\ UNCHANGED <<call, argptrUsed, mutex, logfile, traceMaskList, ignoreMaskList,
                       tracingEnabled, outputBuffer, outputBufferSize, allocated>>
    BY <1>1, <1>6 DEF L!OutputTimestamp, L!Put, L!buffer, Adds, Renders, MacroOps, L!FormatOps
  <2>2. Writes(t)
    BY <1>3, <2>1 DEF Writes, L!Kinds
  <2> QED
    BY <1>1, <2>1, <2>2 DEF SetUp, Renders
<1>7. CASE L!Vsnprintf(t)
  <2>1. /\ lpc[t] = "vsnprintf" /\ lpc' = [lpc EXCEPT ![t] = "mask"]
        /\ outputBuffer' = L!Text(call[t].id, TRUE)
        /\ UNCHANGED <<call, argptrUsed, mutex, files, logfile, traceMaskList, ignoreMaskList,
                       tracingEnabled, outputBufferSize, allocated>>
    BY <1>7, RenderedAtOnce DEF L!Vsnprintf, L!Rendered, L!stream
  <2> QED
    BY <1>1, <2>1 DEF SetUp, Renders, Writes
<1>8. CASE L!WriteMask(t)
  <2>1. /\ lpc[t] = "mask" /\ lpc' = [lpc EXCEPT ![t] = "text"]
        /\ Adds(L!Piece("mask", call[t].id, L!NoText))
        /\ UNCHANGED <<call, argptrUsed, mutex, logfile, traceMaskList, ignoreMaskList,
                       tracingEnabled, outputBuffer, outputBufferSize, allocated>>
    BY <1>1, <1>8 DEF L!WriteMask, L!Put, L!buffer, Adds
  <2>2. Writes(t)
    BY <1>3, <2>1 DEF Writes, L!Kinds
  <2> QED
    BY <1>1, <2>1, <2>2 DEF SetUp, Renders
<1>9. CASE L!WriteText(t)
  <2>1. /\ lpc[t] = "text" /\ lpc' = [lpc EXCEPT ![t] = "newline"]
        /\ Adds(L!Piece("text", call[t].id, L!Text(call[t].id, TRUE)))
        /\ UNCHANGED <<call, argptrUsed, mutex, logfile, traceMaskList, ignoreMaskList,
                       tracingEnabled, outputBuffer, outputBufferSize, allocated>>
    BY <1>1, <1>9 DEF L!WriteText, L!Put, L!buffer, Adds, Renders, MacroOps, L!FormatOps
  <2> QED
    BY <1>1, <2>1 DEF SetUp, Renders, Writes
<1>10. CASE L!EndLine(t)
  <2>1. /\ lpc[t] = "newline" /\ lpc' = [lpc EXCEPT ![t] = "idle"]
        /\ Adds(L!Piece("newline", call[t].id, L!NoText))
        /\ argptrUsed' = [argptrUsed EXCEPT ![t] = FALSE]
        /\ UNCHANGED <<logfile, traceMaskList, ignoreMaskList,
                       tracingEnabled, outputBuffer, outputBufferSize, allocated>>
    BY <1>1, <1>10 DEF L!EndLine, L!buffer, Adds
  <2>2. Writes(t)
    BY <1>3, <2>1 DEF Writes, L!Kinds
  <2> QED
    BY <1>1, <2>1, <2>2 DEF SetUp, Renders
<1> QED
  BY <1>4, <1>5, <1>6, <1>7, <1>8, <1>9, <1>10 DEF LogLine

(***************************************************************************)
(* Nobody else's line is touched.                                          *)
(***************************************************************************)
LEMMA LogLineTells ==
  ASSUME Before, LoggerTypeOK', TracerOK', NEW t \in Threads, LogLine(t)
  PROVE  TellInv'
<1> USE DEF Before
<1>1. /\ UNCHANGED <<tracer, macro, said, calls>> /\ lpc[t] \in L!Inside /\ mutex = t
      /\ t # NoThread
      /\ \A u \in Threads : u # t => lpc[u] \notin L!Inside /\ lpc'[u] = lpc[u]
  BY LogLineAdds, LogLineMoves, ProgramAssumption
     DEF LogLine, Moves, Exclusive, StampInv, LoggerTypeOK
<1>2. \A u \in Threads : u # t => call'[u] = call[u]
  BY LogLineKeeps DEF StampInv, LoggerTypeOK, L!Return
<1>3. \A u \in Threads : /\ (InMacro(u)' <=> InMacro(u)) /\ Kind(u)' = Kind(u)
                         /\ Indents(u)' = Indents(u) /\ live'[u] = live[u] /\ pc'[u] = pc[u]
  BY <1>1 DEF InMacro, Kind, Indents
<1>4. InMacro(t)
  BY <1>1 DEF StampInv, MacroInv, Entered, L!Inside, L!Writing
<1>5. ASSUME NEW u \in Threads
      PROVE  Renders(u)' /\ Asked(u)'
  <2>1. CASE u = t
    <3>1. lpc'[t] \notin {"idle", "newline"} => lpc[t] \notin {"idle", "newline"}
      BY <1>1, LogLineWrites DEF L!Inside, L!Writing
    <3>2. Asked(t)'
      BY <1>1, <1>3, <3>1, LogLineWrites DEF TellInv, Asked
    <3> QED
      BY <2>1, <3>2, LogLineWrites
  <2>2. CASE u # t
    <3>1. lpc'[u] = lpc[u] /\ call'[u] = call[u] /\ lpc[u] \notin L!Inside
      BY <1>1, <1>2, <2>2
    <3>2. Renders(u)'
      BY <2>2, <3>1, LogLineWrites DEF TellInv, Renders, L!Inside, L!Writing
    <3>3. Asked(u)'
      BY <1>1, <1>3, <3>1 DEF TellInv, Asked
    <3> QED
      BY <3>2, <3>3
  <2> QED
    BY <2>1, <2>2
<1>6. ASSUME NEW u \in Threads, u # t \/ lpc[t] # "text"
      PROVE  Owed(u)' = Owed(u)
  <2>1. CASE u = t
    BY <1>1, <1>3, <1>6, <2>1, LogLineWrites DEF Owed, L!Inside, L!Writing
  <2>2. CASE u # t
    BY <1>1, <1>3, <2>2 DEF Owed
  <2> QED
    BY <2>1, <2>2
<1>7. ASSUME NEW x \in L!Pieces, Adds(x)
      PROVE  LET f == files[Path]
                 g == files'[Path]
             IN  /\ DOMAIN g = 1 .. Len(f) + 1 /\ DOMAIN f = 1 .. Len(f) /\ Len(f) \in Nat
                 /\ Len(g) = Len(f) + 1
                 /\ g[Len(f) + 1] = x /\ \A k \in 1 .. Len(f) : g[k] = f[k]
  BY <1>7, ProgramAssumption DEF StampInv, LoggerTypeOK, Adds
<1>8. ASSUME NEW x \in L!Pieces, Adds(x),
             x.kind = "text" => x.id \in 1 .. calls /\ x.of = x.id /\ x.whole = TRUE
      PROVE  WholeTexts'
  BY <1>1, <1>7, <1>8 DEF TellInv, WholeTexts, IsText
<1>9. CASE UNCHANGED files /\ lpc[t] # "text"
  <2>1. WholeTexts'
    BY <1>1, <1>9 DEF TellInv, WholeTexts, IsText
  <2>2. ASSUME NEW u \in Threads
        PROVE  Shows(u, live[u] + Owed(u))'
    BY <1>1, <1>3, <1>6, <1>9, StillTold
  <2> QED
    BY <1>5, <2>1, <2>2, LogLineWrites DEF TellInv
<1>10. ASSUME NEW x \in L!Pieces, Adds(x), x.kind # "text", lpc[t] # "text"
       PROVE  TellInv'
  <2>1. WholeTexts'
    BY <1>8, <1>10
  <2>2. ASSUME NEW u \in Threads
        PROVE  Shows(u, live[u] + Owed(u))'
    <3>1. ~ SaidBy(u, x)
      BY <1>10 DEF SaidBy
    <3>2. live'[u] + Owed(u)' = live[u] + Owed(u) + 0
      BY <1>3, <1>6, <1>10, OwedType
    <3> QED
      BY <1>1, <1>10, <3>1, <3>2, MoreTold
  <2> QED
    BY <1>5, <2>1, <2>2, LogLineWrites DEF TellInv
<1>11. CASE /\ lpc[t] = "text" /\ lpc'[t] = "newline"
            /\ Adds(L!Piece("text", call[t].id, L!Text(call[t].id, TRUE)))
  <2> DEFINE id == call[t].id
             text == L!Text(id, TRUE)
             x == L!Piece("text", id, text)
  <2>1. id \in 1 .. calls /\ id \in 0 .. MaxCalls
    BY <1>11, ProgramAssumption DEF StampInv, Numbered, LoggerTypeOK
  <2>2. x \in L!Pieces /\ x.kind = "text" /\ x.id = id /\ x.of = id /\ x.whole = TRUE
    BY <2>1 DEF L!Piece, L!Pieces, L!Text, L!Kinds
  <2>3. Adds(x)
    BY <1>11
  <2> HIDE DEF x
  <2>4. WholeTexts'
    BY <1>8, <2>1, <2>2, <2>3
  <2>5. said[id].by = t /\ said[id].kind = Kind(t) /\ said[id].indent = Indents(t)
    BY <1>11 DEF TellInv, Asked
  <2>6. Owed(t) = 0 /\ Owed(t)' = Change(Kind(t))
    BY <1>3, <1>4, <1>11 DEF Owed
  <2>7. ASSUME NEW u \in Threads
        PROVE  Shows(u, live[u] + Owed(u))'
    <3>1. CASE u = t
      <4>1. SaidBy(t, x)
        BY <2>2, <2>5 DEF SaidBy
      <4>2. live[t] \in Nat /\ (Kind(t) = "dtor" => live[t] > 0)
        BY DEF TracerOK, Kind
      <4>3. live'[t] + Owed(t)' = live[t] + Owed(t) + Change(said[x.of].kind)
        BY <1>3, <2>2, <2>5, <2>6, <4>2, ChangeType
      <4>4. live'[t] + Owed(t)' >= 0
        BY <1>3, <2>6, <4>2 DEF Change
      <4>5. said[x.of].indent = IF said[x.of].kind = "dtor" THEN live'[t] + Owed(t)'
                                ELSE live[t] + Owed(t)
        BY <1>3, <2>2, <2>5, <2>6, <4>2 DEF Indents, Change
      <4> QED
        BY <1>1, <2>3, <3>1, <4>1, <4>3, <4>4, <4>5, MoreTold
    <3>2. CASE u # t
      <4>1. ~ SaidBy(u, x)
        BY <2>2, <2>5, <3>2 DEF SaidBy
      <4>2. live'[u] + Owed(u)' = live[u] + Owed(u) + 0
        BY <1>3, <1>6, <3>2, OwedType
      <4> QED
        BY <1>1, <2>3, <4>1, <4>2, MoreTold
    <3> QED
      BY <3>1, <3>2
  <2> QED
    BY <1>5, <2>4, <2>7, LogLineWrites DEF TellInv
<1> QED
  BY <1>9, <1>10, <1>11, LogLineWrites DEF Writes

(***************************************************************************)
(* Every step of the program keeps what the log tells.                     *)
(***************************************************************************)
LEMMA TellStep ==
  ASSUME StampInv, StampInv', TracerOK, TracerOK', TellInv, [Next]_vars
  PROVE  TellInv'
<1>1. Before
  BY DEF Before
<1>2. ASSUME NEW t \in Threads,
             \/ StartCall(t) \/ AcquireLock(t) \/ Trace(t)
             \/ TraceLine(t) \/ Message(t) \/ HexDump(t) \/ HexDumpTrace(t)
             \/ EndMacro(t) \/ ReturnTimestamp(t) \/ AcquireMutex(t) \/ LogLine(t)
      PROVE  TellInv'
  BY <1>1, <1>2, TracerTells, MacroTells, HexDumpTells, EndTells, StampTells, AcquireTells,
     LogLineTells
     DEF StampInv
<1>3. CASE Tick \/ UNCHANGED vars
  BY <1>1, <1>3, OutsideTells DEF Tick, F!Tick, vars
<1> QED
  BY <1>2, <1>3 DEF Next, Proceed

(***************************************************************************)
(* A new log, which has its header only, shows no call.                    *)
(***************************************************************************)
LEMMA InitTell == Init => TellInv
<1> SUFFICES ASSUME Init PROVE TellInv
  OBVIOUS
<1>1. SetUp
  BY DEF Init, SetUp
<1>2. files[Path] = <<L!Piece("header", 0, L!NoText)>>
  BY ProgramAssumption DEF Init
<1>3. /\ Len(files[Path]) = 1 /\ DOMAIN files[Path] = {1} /\ files[Path][1].kind = "header"
  BY <1>2 DEF L!Piece
<1>4. WholeTexts
  BY <1>3 DEF Init, WholeTexts, IsText
<1>5. ASSUME NEW t \in Threads
      PROVE  Renders(t) /\ Asked(t) /\ Shows(t, live[t] + Owed(t))
  <2>1. ~ InMacro(t) /\ lpc[t] = "idle" /\ live[t] = 0
    BY <1>5 DEF Init, F!Init, InMacro
  <2>2. Renders(t) /\ Asked(t)
    BY <2>1 DEF Init, Renders, Asked, L!Writing
  <2>3. live[t] + Owed(t) = 0
    BY <2>1 DEF Owed
  <2> DEFINE d == [k \in 0 .. 1 |-> 0]
  <2>4. d \in [0 .. 1 -> Int] /\ d[0] = 0 /\ d[1] = 0
    OBVIOUS
  <2> HIDE DEF d
  <2>5. ~ SaidBy(t, files[Path][1])
    BY <1>3 DEF SaidBy
  <2>6. IsDepth(t, d) /\ Nested(t, d)
    BY <1>3, <2>4, <2>5 DEF IsDepth, Nested
  <2> QED
    BY <1>3, <2>2, <2>3, <2>4, <2>6 DEF Shows
<1> QED
  BY <1>1, <1>4, <1>5 DEF TellInv

(***************************************************************************)
(* A function defined along the positions of the file is determined by     *)
(* them: two that differ would differ first at some position.              *)
(***************************************************************************)
Below == {ss \in Nat \X Nat : ss[1] < ss[2]}

LEMMA Least ==
  ASSUME NEW S, S \subseteq Nat, S # {}
  PROVE  \E n \in S : \A m \in S : n <= m
<1>1. IsWellFoundedOn(Below, Nat)
  BY NatLessThanWellFounded DEF OpToRel, Below
<1>2. PICK n \in S : \A m \in S : ~ (<<m, n>> \in Below)
  BY <1>1, WFMin
<1>3. ASSUME NEW m \in S PROVE n <= m
  <2>1. m \in Nat /\ n \in Nat
    OBVIOUS
  <2>2. m < n => <<m, n>> \in Below
    BY <2>1 DEF Below
  <2>3. ~ (<<m, n>> \in Below)
    BY <1>2
  <2> QED
    BY <2>1, <2>2, <2>3
<1> QED
  BY <1>3

LEMMA OneDepth ==
  ASSUME LoggerTypeOK, NEW t, NEW d \in [0 .. Len(files[Path]) -> Int], NEW e,
         IsDepth(t, d), IsDepth(t, e), e = [k \in 0 .. Len(files[Path]) |-> e[k]]
  PROVE  d = e
<1> DEFINE f == files[Path]
           S == {k \in 0 .. Len(f) : d[k] # e[k]}
<1>1. Len(f) \in Nat
  BY DEF LoggerTypeOK
<1>2. /\ d[0] = e[0]
      /\ \A k \in 1 .. Len(f) : d[k - 1] = e[k - 1] => d[k] = e[k]
  BY DEF IsDepth
<1>3. S \subseteq Nat /\ \A k \in 0 .. Len(f) : k \in S <=> d[k] # e[k]
  BY <1>1
<1>4. S \subseteq 0 .. Len(f)
  OBVIOUS
<1> HIDE DEF S
<1>5. S = {}
  <2> SUFFICES ASSUME S # {} PROVE FALSE
    OBVIOUS
  <2>1. PICK n \in S : \A m \in S : n <= m
    BY <1>3, Least
  <2>2. n \in 0 .. Len(f) /\ d[n] # e[n]
    BY <1>3, <1>4, <2>1
  <2>3. n \in 1 .. Len(f) /\ n - 1 \in 0 .. Len(f) /\ n - 1 \notin S
    BY <1>1, <1>2, <2>1, <2>2
  <2> QED
    BY <1>2, <1>3, <2>2, <2>3
<1> QED
  BY <1>3, <1>5

\* The recursive definition in DepthAfter, of a function d.
DefinesDepth(t, d) ==
  d = [k \in 0 .. Len(files[Path]) |->
         IF k = 0 THEN 0
         ELSE d[k - 1] + IF SaidBy(t, files[Path][k])
                         THEN Change(said[files[Path][k].of].kind) ELSE 0]

LEMMA DepthEquations ==
  ASSUME LoggerTypeOK, NEW t, NEW d
  PROVE  /\ d \in [0 .. Len(files[Path]) -> Int] /\ IsDepth(t, d) => DefinesDepth(t, d)
         /\ DefinesDepth(t, d) =>
              IsDepth(t, d) /\ d = [k \in 0 .. Len(files[Path]) |-> d[k]]
<1> DEFINE f == files[Path]
           step(k) == IF SaidBy(t, f[k]) THEN Change(said[f[k].of].kind) ELSE 0
           value(k) == IF k = 0 THEN 0 ELSE d[k - 1] + step(k)
<1>1. Len(f) \in Nat
  BY DEF LoggerTypeOK
<1>2. DefinesDepth(t, d) <=> d = [k \in 0 .. Len(f) |-> value(k)]
  BY DEF DefinesDepth
<1>3. IsDepth(t, d) <=> d[0] = 0 /\ \A k \in 1 .. Len(f) : d[k] = d[k - 1] + step(k)
  BY DEF IsDepth
<1> HIDE DEF step
<1>4. ASSUME d \in [0 .. Len(f) -> Int], IsDepth(t, d)
      PROVE  d = [k \in 0 .. Len(f) |-> value(k)]
  <2>1. \A k \in 0 .. Len(f) : d[k] = value(k)
    BY <1>1, <1>3, <1>4
  <2> HIDE DEF value
  <2> QED
    BY <1>4, <2>1
<1>5. ASSUME d = [k \in 0 .. Len(f) |-> value(k)]
      PROVE  IsDepth(t, d) /\ d = [k \in 0 .. Len(f) |-> d[k]]
  <2>1. DOMAIN d = 0 .. Len(f) /\ \A k \in 0 .. Len(f) : d[k] = value(k)
    <3> HIDE DEF value
    <3> QED
      BY <1>5
  <2>2. d = [k \in 0 .. Len(f) |-> d[k]]
    <3> HIDE DEF value
    <3> QED
      BY <1>5
  <2>3. d[0] = 0 /\ \A k \in 1 .. Len(f) : d[k] = d[k - 1] + step(k)
    BY <1>1, <2>1
  <2> QED
    BY <1>3, <2>2, <2>3
<1> QED
  BY <1>2, <1>4, <1>5

(***************************************************************************)
(* The log tells precisely which functions were entered and left, and in   *)
(* what order (README.md:10), for any number of threads, calls and lines,  *)
(* while the table has room for all threads and each line fits the buffer. *)
(***************************************************************************)
THEOREM LogTellsCorrect == FairSpec => []LogTellsCalls
<1>1. ASSUME StampInv, TracerOK, TellInv
      PROVE  LogTellsCalls
  <2> SUFFICES ASSUME NEW t \in Threads
               PROVE  LET f == files[Path]
                          depth == DepthAfter(t)
                      IN  /\ \A k \in 1 .. Len(f) :
                               SaidBy(t, f[k]) =>
                                 LET line == said[f[k].of] IN
                                   /\ f[k].whole
                                   /\ line.by = t
                                   /\ line.indent = IF line.kind = "dtor" THEN depth[k]
                                                    ELSE depth[k - 1]
                                   /\ depth[k] >= 0
                          /\ ~ InMacro(t) => depth[Len(f)] = live[t]
    BY DEF LogTellsCalls
  <2>1. LoggerTypeOK
    BY <1>1 DEF StampInv
  <2>2. PICK d \in [0 .. Len(files[Path]) -> Int] :
          IsDepth(t, d) /\ Nested(t, d) /\ d[Len(files[Path])] = live[t] + Owed(t)
    BY <1>1 DEF TellInv, Shows
  <2>3. DefinesDepth(t, d)
    BY <2>1, <2>2, DepthEquations
  <2>4. DefinesDepth(t, DepthAfter(t))
    BY <2>3 DEF DefinesDepth, DepthAfter
  <2>5. DepthAfter(t) = d
    BY <2>1, <2>2, <2>4, DepthEquations, OneDepth
  <2>6. ASSUME NEW k \in 1 .. Len(files[Path]), SaidBy(t, files[Path][k])
        PROVE  files[Path][k].whole = TRUE /\ said[files[Path][k].of].by = t
    <3>1. k \in DOMAIN files[Path]
      BY <2>1 DEF LoggerTypeOK
    <3> QED
      BY <1>1, <2>6, <3>1 DEF SaidBy, TellInv, WholeTexts, IsText
  <2>7. ~ InMacro(t) => d[Len(files[Path])] = live[t]
    BY <1>1, <2>2 DEF Owed, TracerOK
  <2> QED
    BY <2>2, <2>5, <2>6, <2>7 DEF Nested
<1>2. TellInv /\ StampInv /\ StampInv' /\ T!DInv /\ T!DInv' /\ [Next]_vars => TellInv'
  <2>1. T!DInv => TracerOK
    BY TracerTypes
  <2>2. T!DInv' => TracerOK'
    BY <2>1, PTL
  <2> QED
    BY <2>1, <2>2, TellStep
<1>3. StampInv /\ T!DInv /\ TellInv => LogTellsCalls
  BY <1>1, TracerTypes
<1>4. Init => StampInv
  BY InitStamp
<1>5. StampInv /\ [Next]_vars => StampInv'
  BY StampInvStep
<1> QED
  BY <1>2, <1>3, <1>4, <1>5, InitTell, TracerCounts, PTL DEF FairSpec
=============================================================================
