---------------------------- MODULE RoutinesProof ----------------------------
(***************************************************************************)
(* The race on gapString, for any number of threads and an array of any    *)
(* size; the hex dump, for any buffer and any width of a row; the thread   *)
(* ids, for any native ids and any widths of int and long; and the path    *)
(* that is split, for any path.                                            *)
(***************************************************************************)
EXTENDS Routines, SequenceTheorems, WellFoundedInduction, TLAPS

Last == Size - 1

(***************************************************************************)
(* Only a thread that got past the test of firstTime writes; what it has   *)
(* passed is a space, except that the last byte is somebody's terminator,  *)
(* and what it has left behind is complete but for that byte.              *)
(***************************************************************************)
Filled(n) == \A j \in 0 .. Last - 1 : j < n => gapString[j] = G!Space

GapTypeOK ==
  /\ gapString = [j \in 0 .. Last |-> gapString[j]]
  /\ gpc = [t \in Tracers |-> gpc[t]]
  /\ at = [t \in Tracers |-> at[t]]

Writer(t) ==
  /\ gpc[t] \in {"idle", "test", "clear"} => at[t] = 0
  /\ gpc[t] = "memset" => at[t] \in 0 .. Last /\ Filled(at[t])
  /\ gpc[t] = "terminate" => Filled(Last)
  /\ firstTime => gpc[t] \in {"idle", "test", "clear"}

GapInv ==
  gpc # <<>> =>
    /\ GapTypeOK
    /\ \A t \in Tracers : Writer(t)
    /\ G!BuiltAfterRace

(***************************************************************************)
(* A step of GetIndentationString or of the sprintf that reads from it.    *)
(***************************************************************************)
LEMMA GapStep ==
  ASSUME gpc # <<>>, gpc' # <<>>, GapInv, G!Next
  PROVE  GapInv'
<1> USE RoutinesAssumption DEF GapInv, GapTypeOK, Writer, Filled, Last, G!Goto, G!Space
<1>1. PICK t \in Tracers :
        \/ \E d \in Depths : G!GetIndentationString(t, d)
        \/ G!TestFirstTime(t) \/ G!ClearFirstTime(t) \/ G!Memset(t) \/ G!Terminate(t)
        \/ G!ReturnPointer(t) \/ G!Sprintf(t)
  BY DEF G!Next
<1>2. \A u \in Tracers : u # t => gpc'[u] = gpc[u] /\ at'[u] = at[u]
  BY <1>1 DEF G!GetIndentationString, G!TestFirstTime, G!ClearFirstTime, G!Memset, G!Terminate,
              G!ReturnPointer, G!Sprintf
<1>3. GapTypeOK'
  BY <1>1 DEF G!GetIndentationString, G!TestFirstTime, G!ClearFirstTime, G!Memset, G!Terminate,
              G!ReturnPointer, G!Sprintf
<1>4. CASE \E d \in Depths : G!GetIndentationString(t, d)
  <2>1. /\ gpc[t] \in {"idle", "done"} /\ gpc'[t] = "test" /\ at'[t] = 0
        /\ UNCHANGED <<gapString, firstTime>>
    BY <1>4 DEF G!GetIndentationString
  <2>2. G!BuiltAfterRace'
    BY <1>2, <2>1 DEF G!BuiltAfterRace, G!Building
  <2> QED
    BY <1>2, <1>3, <2>1, <2>2
<1>5. CASE G!TestFirstTime(t)
  <2>1. /\ gpc[t] = "test" /\ at[t] = 0 /\ UNCHANGED <<gapString, firstTime, at>>
        /\ gpc'[t] = IF firstTime THEN "clear" ELSE "return"
    BY <1>5 DEF G!TestFirstTime
  <2>2. G!BuiltAfterRace'
    BY <1>2, <2>1 DEF G!BuiltAfterRace, G!Building
  <2> QED
    BY <1>2, <1>3, <2>1, <2>2
<1>6. CASE G!ClearFirstTime(t)
  <2>1. /\ gpc[t] = "clear" /\ gpc'[t] = "memset" /\ at'[t] = 0
        /\ ~ firstTime' /\ UNCHANGED gapString
    BY <1>6 DEF G!ClearFirstTime
  <2>2. t \in G!Building'
    BY <2>1 DEF G!Building
  <2>3. G!BuiltAfterRace'
    BY <2>2 DEF G!BuiltAfterRace
  <2> QED
    BY <1>2, <1>3, <2>1, <2>3
<1>7. CASE G!Memset(t)
  <2>1. /\ gpc[t] = "memset" /\ at[t] \in 0 .. Last /\ UNCHANGED firstTime
        /\ gpc'[t] = IF at[t] = Last THEN "terminate" ELSE "memset"
        /\ at'[t] = at[t] + 1
        /\ gapString'[at[t]] = G!Space
        /\ \A j \in 0 .. Last : j # at[t] => gapString'[j] = gapString[j]
    BY <1>7 DEF G!Memset
  <2>2. \A n \in Int : Filled(n) => Filled(n)'
    BY <2>1
  <2>3. Writer(t)'
    <3>1. \A n \in Int : n = at[t] + 1 => Filled(n)'
      BY <2>1
    <3>2. at[t] = Last => Filled(Last)'
      BY <2>1
    <3> QED
      BY <2>1, <3>1, <3>2
  <2>4. ASSUME NEW u \in Tracers, u # t PROVE Writer(u)'
    BY <1>2, <2>1, <2>2, <2>4
  <2>5. t \in G!Building'
    BY <2>1 DEF G!Building
  <2>6. G!BuiltAfterRace'
    BY <2>5 DEF G!BuiltAfterRace
  <2> QED
    BY <1>3, <2>3, <2>4, <2>6
<1>8. CASE G!Terminate(t)
  <2>1. /\ gpc[t] = "terminate" /\ gpc'[t] = "return" /\ UNCHANGED <<firstTime, at>>
        /\ gapString' = [gapString EXCEPT ![Last] = 0]
        /\ Filled(Last)
    BY <1>8 DEF G!Terminate
  <2>2. \A n \in Int : Filled(n) => Filled(n)'
    BY <2>1
  <2>3. ASSUME NEW u \in Tracers PROVE Writer(u)'
    BY <1>2, <2>1, <2>2
  <2>4. gapString' = [j \in 0 .. Last |-> IF j = Last THEN 0 ELSE G!Space]
    <3>1. gapString' = [j \in 0 .. Last |-> gapString'[j]]
      BY <1>3
    <3>2. Last \in 0 .. Last /\ gapString'[Last] = 0
      BY <2>1
    <3>3. \A j \in 0 .. Last : j # Last => gapString'[j] = G!Space
      BY <2>1
    <3> QED
      BY <3>1, <3>2, <3>3
  <2>5. G!BuiltAfterRace'
    BY <2>4 DEF G!BuiltAfterRace
  <2> QED
    BY <1>3, <2>3, <2>5
<1>9. CASE G!ReturnPointer(t) \/ G!Sprintf(t)
  <2>1. /\ gpc[t] \in {"return", "sprintf"} /\ gpc'[t] \in {"sprintf", "done", "outside"}
        /\ UNCHANGED <<gapString, firstTime>>
    BY <1>9 DEF G!ReturnPointer, G!Sprintf
  <2>2. G!BuiltAfterRace'
    BY <1>2, <2>1 DEF G!BuiltAfterRace, G!Building
  <2> QED
    BY <1>2, <1>3, <2>1, <2>2
<1> QED
  BY <1>1, <1>4, <1>5, <1>6, <1>7, <1>8, <1>9

(***************************************************************************)
(* However many threads meet firstTime together, the array is right once   *)
(* the last of them has left the block (FunctionTrace.cpp:153-161).        *)
(***************************************************************************)
THEOREM BuiltCorrect == Spec => []BuiltAfterRace
<1>1. Init => GapInv
  <2>1. NoGap => GapInv
    BY DEF NoGap, GapInv
  <2>2. G!Init => GapInv
    BY RoutinesAssumption
       DEF G!Init, GapInv, GapTypeOK, Writer, Filled, Last, G!BuiltAfterRace
  <2> QED
    BY <2>1, <2>2 DEF Init
<1>2. GapInv /\ [Next]_vars => GapInv'
  <2> SUFFICES ASSUME GapInv, [Next]_vars PROVE GapInv'
    OBVIOUS
  <2>1. CASE gpc # <<>> /\ G!Next
    BY <2>1, GapStep DEF GapInv
  <2>2. CASE UNCHANGED gap
    BY <2>2 DEF gap, GapInv, GapTypeOK, Writer, Filled, G!BuiltAfterRace, G!Building
  <2> QED
    BY <2>1, <2>2 DEF Next, vars
<1>3. GapInv => BuiltAfterRace
  BY DEF GapInv, BuiltAfterRace
<1> QED
  BY <1>1, <1>2, <1>3, PTL DEF Spec

-----------------------------------------------------------------------------
(***************************************************************************)
(* Bytes that are left over need one row more.                             *)
(***************************************************************************)
LEMMA RowsReached ==
  ASSUME NEW n \in Nat, NEW m \in Nat, m * Width < n
  PROVE  H!RowsFor(n) \in Nat /\ m + 1 <= H!RowsFor(n)
<1> USE RoutinesAssumption
<1> DEFINE q == (n + Width - 1) \div Width
           r == (n + Width - 1) % Width
<1>1. q \in Int /\ r \in 0 .. Width - 1 /\ n + Width - 1 = Width * q + r
  OBVIOUS
<1>2. m * Width >= 0 /\ n # 0
  OBVIOUS
<1> HIDE DEF q, r
<1>3. q >= m + 1
  <2>1. ASSUME q <= m PROVE FALSE
    <3>1. Width * q <= Width * m /\ Width * m = m * Width
      BY <1>1, <2>1
    <3> QED
      BY <1>1, <3>1
  <2> QED
    BY <1>1, <2>1
<1> QED
  BY <1>1, <1>2, <1>3 DEF H!RowsFor, q

(***************************************************************************)
(* The rows suffice when they have room for all bytes.                     *)
(***************************************************************************)
LEMMA RowsDone ==
  ASSUME NEW n \in Nat, NEW m \in Nat, m = 0 \/ m * Width < n, n <= m * Width + Width
  PROVE  H!RowsFor(n) = m + 1
<1> USE RoutinesAssumption
<1> DEFINE q == (n + Width - 1) \div Width
           r == (n + Width - 1) % Width
<1>1. CASE n = 0
  <2>1. m = 0
    BY <1>1
  <2> QED
    BY <1>1, <2>1 DEF H!RowsFor
<1>2. CASE n # 0
  <2>1. m * Width < n
    BY <1>2
  <2>2. H!RowsFor(n) = q /\ q >= m + 1
    BY <1>2, <2>1, RowsReached DEF H!RowsFor
  <2>3. q \in Int /\ r \in 0 .. Width - 1 /\ n + Width - 1 = Width * q + r
    OBVIOUS
  <2> HIDE DEF q, r
  <2>4. ASSUME q >= m + 2 PROVE FALSE
    <3>1. Width * q >= Width * (m + 2)
      BY <2>3, <2>4
    <3>2. Width * (m + 2) = m * Width + 2 * Width
      OBVIOUS
    <3> QED
      BY <2>3, <3>1, <3>2
  <2> QED
    BY <2>2, <2>3, <2>4
<1> QED
  BY <1>1, <1>2

(***************************************************************************)
(* The rows that are there are right, all of them were needed, and before  *)
(* the last there are bytes left.                                          *)
(***************************************************************************)
Bytes == Printable \cup Unprintable

AnyRow == [preamble : BOOLEAN, offset : Nat, cells : [1 .. Width -> Bytes \cup {Blank}],
           text : UNION {[D -> Bytes \cup {Dot}] : D \in SUBSET (1 .. Width)}]

RowOK(row, r, bytes) ==
  /\ row.offset = (r - 1) * Width
  /\ row.preamble <=> r = 1
  /\ \A j \in 1 .. Width :
       IF row.offset + j <= Len(bytes)
       THEN /\ row.cells[j] = bytes[row.offset + j]
            /\ row.text[j] = IF bytes[row.offset + j] \in Printable
                             THEN bytes[row.offset + j] ELSE Dot
       ELSE row.cells[j] = Blank /\ j \notin DOMAIN row.text

DumpInv ==
  hpc # "none" =>
    /\ buf \in Seq(Bytes) /\ outBuffer \in Seq(AnyRow)
    /\ hpc \in {"row", "return"}
    /\ \A r \in 1 .. Len(outBuffer) : RowOK(outBuffer[r], r, buf)
    /\ hpc = "row" => i = Len(outBuffer) * Width /\ (Len(outBuffer) = 0 \/ i < Len(buf))
    /\ hpc = "return" => Len(outBuffer) = H!RowsFor(Len(buf))

(***************************************************************************)
(* One row more.                                                           *)
(***************************************************************************)
LEMMA DumpStep ==
  ASSUME DumpInv, H!DumpRow
  PROVE  DumpInv'
<1> USE RoutinesAssumption
<1> DEFINE n == Len(outBuffer)
           x == H!Row
<1>1. /\ hpc = "row" /\ buf \in Seq(Bytes) /\ outBuffer \in Seq(AnyRow)
      /\ i = n * Width /\ (n = 0 \/ i < Len(buf)) /\ buf' = buf
      /\ outBuffer' = Append(outBuffer, x) /\ \A r \in 1 .. n : RowOK(outBuffer[r], r, buf)
  BY DEF DumpInv, H!DumpRow
<1>2. n \in Nat /\ Len(buf) \in Nat /\ i \in Nat /\ Width \in Nat \ {0}
      /\ \A k \in 1 .. Len(buf) : buf[k] \in Bytes
  BY <1>1
<1>3. /\ x.offset = i /\ x.preamble = (i = 0)
      /\ x.cells = [j \in 1 .. Width |-> IF i + j - 1 < Len(buf) THEN buf[i + j - 1 + 1] ELSE Blank]
      /\ x.text = [j \in {k \in 1 .. Width : i + k - 1 < Len(buf)} |->
                     IF buf[i + j - 1 + 1] \in Printable THEN buf[i + j - 1 + 1] ELSE Dot]
      /\ x = [preamble |-> x.preamble, offset |-> x.offset, cells |-> x.cells, text |-> x.text]
  BY DEF H!Row, H!Cells, H!Characters, H!InRow, H!byte, H!buflen, H!isprint
<1> HIDE DEF n, x
<1>4. /\ \A j \in 1 .. Width :
           /\ i + j - 1 + 1 = i + j /\ (i + j - 1 < Len(buf) <=> i + j <= Len(buf))
           /\ i + j <= Len(buf) => buf[i + j] \in Bytes
      /\ i = 0 <=> n = 0
  <2>1. ASSUME n # 0 PROVE n * Width > 0
    BY <1>2, <2>1
  <2> QED
    BY <1>1, <1>2, <2>1
<1>5. x \in AnyRow
  <2> DEFINE cell(j) == IF i + j - 1 < Len(buf) THEN buf[i + j - 1 + 1] ELSE Blank
             char(j) == IF buf[i + j - 1 + 1] \in Printable THEN buf[i + j - 1 + 1] ELSE Dot
  <2>1. x.cells \in [1 .. Width -> Bytes \cup {Blank}]
    <3>1. \A j \in 1 .. Width : cell(j) \in Bytes \cup {Blank}
      BY <1>4
    <3>2. x.cells = [j \in 1 .. Width |-> cell(j)]
      BY <1>3
    <3> HIDE DEF cell
    <3> QED
      BY <3>1, <3>2
  <2>2. x.text \in [{k \in 1 .. Width : i + k - 1 < Len(buf)} -> Bytes \cup {Dot}]
    <3>1. \A j \in {k \in 1 .. Width : i + k - 1 < Len(buf)} : char(j) \in Bytes \cup {Dot}
      BY <1>4
    <3>2. x.text = [j \in {k \in 1 .. Width : i + k - 1 < Len(buf)} |-> char(j)]
      BY <1>3
    <3> HIDE DEF char
    <3> QED
      BY <3>1, <3>2
  <2>3. x.text \in UNION {[D -> Bytes \cup {Dot}] : D \in SUBSET (1 .. Width)}
    BY <2>2
  <2> QED
    BY <1>2, <1>3, <2>1, <2>3 DEF AnyRow
<1>6. /\ outBuffer' \in Seq(AnyRow) /\ Len(outBuffer') = n + 1 /\ outBuffer'[n + 1] = x
      /\ \A r \in 1 .. n : outBuffer'[r] = outBuffer[r]
  BY <1>1, <1>5 DEF n
<1>7. ASSUME NEW r \in 1 .. n + 1 PROVE RowOK(outBuffer'[r], r, buf)
  <2>1. CASE r \in 1 .. n
    BY <1>1, <1>6, <2>1
  <2>2. CASE r = n + 1
    <3>1. outBuffer'[r] = x /\ i = (r - 1) * Width /\ (i = 0 <=> r = 1)
      <4>1. r - 1 = n /\ (n = 0 <=> r = 1)
        BY <1>2, <2>2
      <4> QED
        BY <1>4, <1>1, <1>6, <2>2, <4>1
    <3>2. \A j \in 1 .. Width :
            IF i + j <= Len(buf)
            THEN /\ x.cells[j] = buf[i + j]
                 /\ x.text[j] = IF buf[i + j] \in Printable THEN buf[i + j] ELSE Dot
            ELSE x.cells[j] = Blank /\ j \notin DOMAIN x.text
      BY <1>4, <1>3
    <3>3. RowOK(x, r, buf)
      BY <1>3, <3>1, <3>2 DEF RowOK
    <3> QED
      BY <3>1, <3>3
  <2> QED
    BY <1>2, <2>1, <2>2
<1>8. (n + 1) * Width = i + Width
  BY <1>1, <1>2
<1>9. CASE i + Width >= Len(buf)
  <2>1. hpc' = "return"
    BY <1>9 DEF H!DumpRow, H!IsLastRow, H!buflen
  <2>2. H!RowsFor(Len(buf)) = n + 1
    BY <1>1, <1>2, <1>9, RowsDone
  <2>3. H!RowsFor(Len(buf))' = H!RowsFor(Len(buf))
    BY <1>1 DEF H!RowsFor
  <2> QED
    BY <1>1, <1>6, <1>7, <2>1, <2>2, <2>3 DEF DumpInv
<1>10. CASE ~ (i + Width >= Len(buf))
  <2>1. hpc' = "row" /\ i' = i + Width
    BY <1>1, <1>10 DEF H!DumpRow, H!IsLastRow, H!buflen
  <2> QED
    BY <1>1, <1>2, <1>6, <1>7, <1>8, <1>10, <2>1 DEF DumpInv
<1> QED
  BY <1>9, <1>10

(***************************************************************************)
(* HexDump shows every byte once, in rows without gaps, for any buffer and *)
(* any width (Logger::HexDump).                                            *)
(***************************************************************************)
THEOREM DumpCorrect == Spec => []ShowsEveryByte
<1> USE RoutinesAssumption
<1>1. Init => DumpInv
  <2>1. NoDump => DumpInv
    BY DEF NoDump, DumpInv
  <2>2. H!Init => DumpInv
    BY DEF H!Init, DumpInv, Bytes
  <2> QED
    BY <2>1, <2>2 DEF Init
<1>2. DumpInv /\ [Next]_vars => DumpInv'
  <2>1. CASE UNCHANGED dump
    BY <2>1 DEF dump, DumpInv, H!RowsFor
  <2> QED
    BY <2>1, DumpStep DEF Next, vars, H!Next
<1>3. DumpInv => ShowsEveryByte
  <2> SUFFICES ASSUME DumpInv, hpc # "none" PROVE H!ShowsEveryByte
    BY DEF ShowsEveryByte
  <2>1. /\ Len(buf) \in Nat /\ Len(outBuffer) \in Nat
        /\ \A r \in 1 .. Len(outBuffer) : RowOK(outBuffer[r], r, buf)
    BY DEF DumpInv
  <2>2. Len(outBuffer) <= H!RowsFor(Len(buf))
    <3>1. CASE hpc = "return"
      <4>1. Len(outBuffer) = H!RowsFor(Len(buf))
        BY <3>1 DEF DumpInv
      <4> QED
        BY <2>1, <4>1
    <3>2. CASE hpc = "row"
      <4>1. H!RowsFor(0) = 1
        BY DEF H!RowsFor
      <4>2. CASE Len(outBuffer) = 0
        <5>1. 0 * Width = 0
          OBVIOUS
        <5> QED
          BY <2>1, <4>1, <4>2, <5>1, RowsReached
      <4>3. CASE Len(outBuffer) # 0
        <5>1. Len(outBuffer) * Width < Len(buf)
          BY <3>2, <4>3 DEF DumpInv
        <5>2. H!RowsFor(Len(buf)) \in Nat /\ Len(outBuffer) + 1 <= H!RowsFor(Len(buf))
          BY <2>1, <5>1, RowsReached
        <5> QED
          BY <2>1, <5>2
      <4> QED
        BY <4>2, <4>3
    <3> QED
      BY <3>1, <3>2 DEF DumpInv
  <2> QED
    BY <2>1, <2>2 DEF DumpInv, H!ShowsEveryByte, H!buflen, RowOK
<1> QED
  BY <1>1, <1>2, <1>3, PTL DEF Spec

-----------------------------------------------------------------------------
(***************************************************************************)
(* Induction, from the well-foundedness of the natural numbers.            *)
(***************************************************************************)
Below == {ss \in Nat \X Nat : ss[1] < ss[2]}

LEMMA Least ==
  ASSUME NEW S, S \subseteq Nat, S # {}
  PROVE  \E n \in S : \A m \in S : n <= m
<1>1. IsWellFoundedOn(Below, Nat)
  BY NatLessThanWellFounded DEF OpToRel, Below
<1>2. PICK n \in S : \A m \in S : ~ (<<m, n>> \in Below)
  BY <1>1, WFMin
<1>3. ASSUME NEW m \in S PROVE n <= m
  <2>1. m \in Nat /\ n \in Nat
    OBVIOUS
  <2>2. m < n => <<m, n>> \in Below
    BY <2>1 DEF Below
  <2>3. ~ (<<m, n>> \in Below)
    BY <1>2
  <2> QED
    BY <2>1, <2>2, <2>3
<1> QED
  BY <1>3

LEMMA Induction ==
  ASSUME NEW S, 0 \in S, \A n \in Nat : n \in S => n + 1 \in S
  PROVE  Nat \subseteq S
<1> SUFFICES ASSUME Nat \ S # {} PROVE FALSE
  OBVIOUS
<1>1. PICK n \in Nat \ S : \A m \in Nat \ S : n <= m
  BY Least
<1>2. n # 0 /\ n - 1 \in Nat
  OBVIOUS
<1>3. n - 1 \in S
  BY <1>1, <1>2
<1> QED
  BY <1>2, <1>3

(***************************************************************************)
(* power (radix, n), from its recursive definition.                         *)
(***************************************************************************)
IsPower(radix, n, p) ==
  /\ p \in [0 .. n -> Nat \ {0}]
  /\ p[0] = 1
  /\ \A k \in 1 .. n : p[k] = radix * p[k - 1]

LEMMA PowerExists ==
  ASSUME NEW radix \in Nat \ {0}, NEW n \in Nat
  PROVE  \E p : IsPower(radix, n, p)
<1> DEFINE S == {m \in Nat : \E p : IsPower(radix, m, p)}
<1>1. 0 \in S
  <2>1. IsPower(radix, 0, [k \in 0 .. 0 |-> 1])
    BY DEF IsPower
  <2> QED
    BY <2>1
<1>2. ASSUME NEW m \in Nat, m \in S PROVE m + 1 \in S
  <2>1. PICK p : IsPower(radix, m, p)
    BY <1>2
  <2> DEFINE q == [k \in 0 .. m + 1 |-> IF k = m + 1 THEN radix * p[m] ELSE p[k]]
  <2>2. radix * p[m] \in Nat \ {0}
    BY <2>1 DEF IsPower
  <2>3. /\ q \in [0 .. m + 1 -> Nat \ {0}] /\ q[m + 1] = radix * p[m]
        /\ \A k \in 0 .. m : q[k] = p[k]
    BY <2>1, <2>2 DEF IsPower
  <2> HIDE DEF q
  <2>4. IsPower(radix, m + 1, q)
    <3>1. ASSUME NEW k \in 1 .. m + 1 PROVE q[k] = radix * q[k - 1]
      <4>1. q[k - 1] = p[k - 1]
        BY <2>3
      <4>2. CASE k = m + 1
        <5>1. k - 1 = m
          BY <4>2
        <5> QED
          BY <2>3, <4>1, <4>2, <5>1
      <4>3. CASE k # m + 1
        <5>1. k \in 1 .. m /\ k \in 0 .. m
          BY <4>3
        <5>2. p[k] = radix * p[k - 1]
          BY <2>1, <5>1 DEF IsPower
        <5> QED
          BY <2>3, <4>1, <5>1, <5>2
      <4> QED
        BY <4>2, <4>3
    <3>2. q[0] = 1
      BY <2>1, <2>3 DEF IsPower
    <3> QED
      BY <2>3, <3>1, <3>2 DEF IsPower
  <2> QED
    BY <2>4
<1> QED
  BY <1>1, <1>2, Induction

LEMMA PowerUnique ==
  ASSUME NEW radix \in Nat \ {0}, NEW m \in Nat, NEW n \in Nat, NEW p, NEW q,
         IsPower(radix, m, p), IsPower(radix, n, q), NEW k \in Nat, k <= m, k <= n
  PROVE  p[k] = q[k]
<1> DEFINE S == {j \in 0 .. k : p[j] # q[j]}
<1>1. S \subseteq Nat /\ \A j \in 0 .. k : j \in S <=> p[j] # q[j]
  OBVIOUS
<1>2. p[0] = q[0] /\ \A j \in 1 .. k : p[j - 1] = q[j - 1] => p[j] = q[j]
  BY DEF IsPower
<1>3. S \subseteq 0 .. k
  OBVIOUS
<1> HIDE DEF S
<1>4. S = {}
  <2> SUFFICES ASSUME S # {} PROVE FALSE
    OBVIOUS
  <2>1. PICK j \in S : \A l \in S : j <= l
    BY <1>1, Least
  <2>2. j \in 1 .. k /\ j - 1 \in 0 .. k /\ j - 1 \notin S
    BY <1>1, <1>2, <1>3, <2>1
  <2> QED
    BY <1>1, <1>2, <2>1, <2>2
<1> QED
  BY <1>1, <1>4

LEMMA PowerIs ==
  ASSUME NEW radix \in Nat \ {0}, NEW n \in Nat
  PROVE  \E p : IsPower(radix, n, p) /\ T!power(radix, n) = p[n]
<1> DEFINE value(p, k) == IF k = 0 THEN 1 ELSE radix * p[k - 1]
           Defines(p) == p = [k \in 0 .. n |-> value(p, k)]
<1>1. ASSUME NEW p, IsPower(radix, n, p) PROVE Defines(p)
  <2>1. p \in [0 .. n -> Nat \ {0}] /\ \A k \in 0 .. n : p[k] = value(p, k)
    BY <1>1 DEF IsPower
  <2> HIDE DEF value
  <2> QED
    BY <2>1
<1>2. PICK q : IsPower(radix, n, q)
  BY PowerExists
<1>3. Defines(q)
  BY <1>1, <1>2
<1> DEFINE p == CHOOSE p : Defines(p)
<1>4. Defines(p)
  BY <1>3
<1>5. T!power(radix, n) = p[n]
  BY DEF T!power
<1> HIDE DEF p
<1>6. p[0] = 1 /\ (\A k \in 1 .. n : p[k] = radix * p[k - 1]) /\ DOMAIN p = 0 .. n
  <2>1. DOMAIN p = 0 .. n /\ \A k \in 0 .. n : p[k] = value(p, k)
    <3> HIDE DEF value
    <3> QED
      BY <1>4
  <2> QED
    BY <2>1
<1> DEFINE S == {k \in 0 .. n : p[k] # q[k]}
<1>7. \A k \in 0 .. n : k \in S <=> p[k] # q[k]
  OBVIOUS
<1>8. S \subseteq 0 .. n /\ S \subseteq Nat
  OBVIOUS
<1>9. q \in [0 .. n -> Nat \ {0}] /\ q[0] = 1 /\ \A k \in 1 .. n : q[k] = radix * q[k - 1]
  BY <1>2 DEF IsPower
<1> HIDE DEF S
<1>10. S = {}
  <2> SUFFICES ASSUME S # {} PROVE FALSE
    OBVIOUS
  <2>1. PICK j \in S : \A l \in S : j <= l
    BY <1>8, Least
  <2>2. j \in 0 .. n /\ p[j] # q[j]
    BY <1>7, <1>8, <2>1
  <2>3. j \in 1 .. n /\ j - 1 \in 0 .. n
    BY <1>6, <1>9, <2>2
  <2>4. p[j - 1] = q[j - 1]
    BY <1>7, <2>1, <2>3
  <2> QED
    BY <1>6, <1>9, <2>2, <2>3, <2>4
<1>11. p[n] = q[n]
  BY <1>7, <1>10
<1> QED
  BY <1>2, <1>5, <1>11

LEMMA PowerFacts ==
  ASSUME NEW radix \in Nat \ {0}
  PROVE  /\ T!power(radix, 0) = 1
         /\ \A n \in Nat : /\ T!power(radix, n) \in Nat \ {0}
                           /\ T!power(radix, n + 1) = radix * T!power(radix, n)
<1>1. T!power(radix, 0) = 1
  BY PowerIs DEF IsPower
<1>2. ASSUME NEW n \in Nat
      PROVE  T!power(radix, n) \in Nat \ {0} /\ T!power(radix, n + 1) = radix * T!power(radix, n)
  <2>1. PICK p : IsPower(radix, n, p) /\ T!power(radix, n) = p[n]
    BY PowerIs
  <2>2. PICK q : IsPower(radix, n + 1, q) /\ T!power(radix, n + 1) = q[n + 1]
    BY PowerIs
  <2>3. p[n] = q[n]
    BY <2>1, <2>2, PowerUnique
  <2>4. q[n + 1] = radix * q[n]
    BY <2>2 DEF IsPower
  <2> QED
    BY <2>1, <2>2, <2>3, <2>4 DEF IsPower
<1> QED
  BY <1>1, <1>2

LEMMA Powers ==
  ASSUME NEW n \in Nat
  PROVE  /\ T!power(10, 0) = 1 /\ T!power(16, 0) = 1
         /\ T!power(10, n) \in Nat \ {0} /\ T!power(16, n) \in Nat \ {0}
         /\ T!power(10, n + 1) = 10 * T!power(10, n)
         /\ T!power(16, n + 1) = 16 * T!power(16, n)
<1>1. 10 \in Nat \ {0} /\ 16 \in Nat \ {0}
  OBVIOUS
<1> QED
  BY <1>1, PowerFacts, Zenon

(***************************************************************************)
(* Quotient and remainder.                                                 *)
(***************************************************************************)
LEMMA Quotient ==
  ASSUME NEW x \in Nat, NEW w \in Nat \ {0}
  PROVE  \E q \in Nat, r \in 0 .. w - 1 : x \div w = q /\ x % w = r /\ x = w * q + r
<1> DEFINE p == x \div w
           s == x % w
<1>1. p \in Int /\ s \in 0 .. w - 1 /\ x = w * p + s
  OBVIOUS
<1>2. PICK q \in Int : q = p
  BY <1>1
<1>3. PICK r \in 0 .. w - 1 : r = s
  BY <1>1
<1> HIDE DEF p, s
<1>4. x = w * q + r
  BY <1>1, <1>2, <1>3
<1>5. ASSUME q < 0 PROVE FALSE
  <2>1. w * q <= w * (-1) /\ w * (-1) = - w
    BY <1>5
  <2> QED
    BY <1>4, <2>1
<1>6. q \in Nat
  BY <1>5
<1>7. p = q /\ s = r
  BY <1>2, <1>3
<1>8. x \div w = q
  BY <1>7 DEF p
<1>9. x % w = r
  BY <1>7 DEF s
<1> QED
  BY <1>4, <1>6, <1>8, <1>9, Zenon

LEMMA QuotientUnique ==
  ASSUME NEW w \in Nat \ {0}, NEW q \in Nat, NEW p \in Nat, NEW r \in 0 .. w - 1,
         NEW s \in 0 .. w - 1, w * q + r = w * p + s
  PROVE  q = p /\ r = s
<1>1. ASSUME q < p PROVE FALSE
  <2>1. w * (q + 1) <= w * p /\ w * (q + 1) = w * q + w
    BY <1>1
  <2> QED
    BY <2>1
<1>2. ASSUME p < q PROVE FALSE
  <2>1. w * (p + 1) <= w * q /\ w * (p + 1) = w * p + w
    BY <1>2
  <2> QED
    BY <2>1
<1> QED
  BY <1>1, <1>2

(***************************************************************************)
(* The last digit and the ones before it: of 16x + d modulo 16w.           *)
(***************************************************************************)
LEMMA LastDigit ==
  ASSUME NEW b \in Nat \ {0}, NEW w \in Nat \ {0}, NEW x \in Nat, NEW d \in 0 .. b - 1
  PROVE  (b * x + d) % (b * w) = b * (x % w) + d
<1>1. PICK q \in Nat, r \in 0 .. w - 1 : x \div w = q /\ x % w = r /\ x = w * q + r
  BY Quotient
<1>2. PICK v \in Nat \ {0} : v = b * w
  OBVIOUS
<1>3. PICK y \in Nat : y = b * x + d
  OBVIOUS
<1>4. PICK z \in Nat : z = b * r + d
  OBVIOUS
<1>5. PICK p \in Nat, s \in 0 .. v - 1 : y \div v = p /\ y % v = s /\ y = v * p + s
  BY Quotient
<1>6. z \in 0 .. v - 1
  <2>1. b * r <= b * (w - 1) /\ b * (w - 1) = b * w - b
    OBVIOUS
  <2> QED
    BY <1>2, <1>4, <2>1
<1>7. y = v * q + z
  <2>1. b * (w * q + r) = (b * w) * q + b * r
    OBVIOUS
  <2>2. b * x = v * q + b * r
    BY <1>1, <1>2, <2>1
  <2>3. v * q \in Nat /\ b * r \in Nat /\ b * x \in Nat
    OBVIOUS
  <2> QED
    BY <1>3, <1>4, <2>2, <2>3
<1>8. s = z
  BY <1>5, <1>6, <1>7, QuotientUnique
<1>9. y % v = b * r + d
  BY <1>4, <1>5, <1>8
<1> QED
  BY <1>1, <1>2, <1>3, <1>9, Zenon

(***************************************************************************)
(* Of n = 10 k + d, k is n \div 10 and d is n % 10.                        *)
(***************************************************************************)
LEMMA Decimal ==
  ASSUME NEW n \in Nat
  PROVE  \E k \in Nat, d \in 0 .. 9 : n \div 10 = k /\ n % 10 = d /\ n = 10 * k + d
OBVIOUS

(***************************************************************************)
(* The number that strtoul reads: the decimal digits of n, base 16.        *)
(***************************************************************************)
HexLaw(n, h) ==
  \A k \in 0 .. n : h[k] = IF k < 10 THEN k ELSE 16 * h[k \div 10] + (k % 10)

IsHex(n, h) == h \in [0 .. n -> Nat] /\ HexLaw(n, h)

Hex(n) == LET h[k \in 0 .. n] == IF k < 10 THEN k ELSE 16 * h[k \div 10] + (k % 10)
          IN  h[n]

LEMMA HexExists ==
  ASSUME NEW n \in Nat
  PROVE  \E h : IsHex(n, h)
<1> DEFINE S == {m \in Nat : \E h : IsHex(m, h)}
<1>1. 0 \in S
  <2>1. IsHex(0, [k \in 0 .. 0 |-> 0])
    BY DEF IsHex, HexLaw
  <2> QED
    BY <2>1
<1>2. ASSUME NEW m \in Nat, m \in S PROVE m + 1 \in S
  <2>1. PICK h : IsHex(m, h)
    BY <1>2
  <2>2. PICK k \in Nat, d \in 0 .. 9 :
          (m + 1) \div 10 = k /\ (m + 1) % 10 = d /\ m + 1 = 10 * k + d
    BY Decimal
  <2> DEFINE v == IF m + 1 < 10 THEN m + 1 ELSE 16 * h[k] + d
             g == [j \in 0 .. m + 1 |-> IF j = m + 1 THEN v ELSE h[j]]
  <2>3. k \in 0 .. m /\ v \in Nat
    BY <2>1, <2>2 DEF IsHex, HexLaw
  <2>4. g \in [0 .. m + 1 -> Nat] /\ g[m + 1] = v /\ \A j \in 0 .. m : g[j] = h[j]
    BY <2>1, <2>3 DEF IsHex, HexLaw
  <2> HIDE DEF g
  <2>5. ASSUME NEW j \in 0 .. m + 1
        PROVE  g[j] = IF j < 10 THEN j ELSE 16 * g[j \div 10] + (j % 10)
    <3>1. CASE j = m + 1
      BY <2>2, <2>3, <2>4, <3>1
    <3>2. CASE j \in 0 .. m
      <4>1. PICK l \in Nat, e \in 0 .. 9 : j \div 10 = l /\ j % 10 = e /\ j = 10 * l + e
        BY Decimal
      <4>2. l \in 0 .. m
        BY <3>2, <4>1
      <4> QED
        BY <2>1, <2>4, <3>2, <4>1, <4>2 DEF IsHex, HexLaw
    <3> QED
      BY <3>1, <3>2
  <2>6. IsHex(m + 1, g)
    BY <2>4, <2>5 DEF IsHex, HexLaw
  <2> QED
    BY <2>6
<1> QED
  BY <1>1, <1>2, Induction

LEMMA HexUnique ==
  ASSUME NEW m \in Nat, NEW n \in Nat, NEW g, NEW h, HexLaw(m, g), HexLaw(n, h),
         NEW k \in Nat, k <= m, k <= n
  PROVE  g[k] = h[k]
<1> DEFINE S == {j \in 0 .. k : g[j] # h[j]}
<1>1. \A j \in 0 .. k : j \in S <=> g[j] # h[j]
  OBVIOUS
<1>2. S \subseteq 0 .. k /\ S \subseteq Nat
  OBVIOUS
<1> HIDE DEF S
<1>3. S = {}
  <2> SUFFICES ASSUME S # {} PROVE FALSE
    OBVIOUS
  <2>1. PICK j \in S : \A l \in S : j <= l
    BY <1>2, Least
  <2>2. j \in 0 .. k /\ g[j] # h[j]
    BY <1>1, <1>2, <2>1
  <2>3. PICK l \in Nat, e \in 0 .. 9 : j \div 10 = l /\ j % 10 = e /\ j = 10 * l + e
    BY <2>2, Decimal
  <2>4. j >= 10 => l \in 0 .. k /\ l < j
    BY <2>2, <2>3
  <2>5. j >= 10 => g[l] = h[l]
    BY <1>1, <2>1, <2>2, <2>4
  <2>6. /\ g[j] = IF j < 10 THEN j ELSE 16 * g[j \div 10] + (j % 10)
        /\ h[j] = IF j < 10 THEN j ELSE 16 * h[j \div 10] + (j % 10)
    BY <2>2 DEF IsHex, HexLaw
  <2> QED
    BY <2>2, <2>3, <2>5, <2>6
<1> QED
  BY <1>1, <1>3

LEMMA HexIs ==
  ASSUME NEW n \in Nat
  PROVE  \E h : IsHex(n, h) /\ Hex(n) = h[n]
<1> DEFINE value(h, k) == IF k < 10 THEN k ELSE 16 * h[k \div 10] + (k % 10)
           Defines(h) == h = [k \in 0 .. n |-> value(h, k)]
<1>1. ASSUME NEW h, IsHex(n, h) PROVE Defines(h)
  <2>1. h \in [0 .. n -> Nat] /\ \A k \in 0 .. n : h[k] = value(h, k)
    BY <1>1 DEF IsHex, HexLaw
  <2> HIDE DEF value
  <2> QED
    BY <2>1
<1>2. PICK g : IsHex(n, g)
  BY HexExists
<1>3. Defines(g)
  BY <1>1, <1>2
<1> DEFINE h == CHOOSE h : Defines(h)
<1>4. Defines(h)
  BY <1>3
<1>5. Hex(n) = h[n]
  BY DEF Hex
<1> HIDE DEF h
<1>6. HexLaw(n, h)
  <2>1. \A k \in 0 .. n : h[k] = value(h, k)
    <3> HIDE DEF value
    <3> QED
      BY <1>4
  <2> QED
    BY <2>1 DEF HexLaw
<1>7. g[n] = h[n]
  BY <1>2, <1>6, HexUnique DEF IsHex
<1> QED
  BY <1>2, <1>5, <1>7

LEMMA HexStep ==
  ASSUME NEW n \in Nat
  PROVE  /\ Hex(n) \in Nat
         /\ n < 10 => Hex(n) = n
         /\ \A k \in Nat, d \in 0 .. 9 : n = 10 * k + d => Hex(n) = 16 * Hex(k) + d
<1>1. PICK g : IsHex(n, g) /\ Hex(n) = g[n]
  BY HexIs
<1>2. Hex(n) \in Nat
  BY <1>1 DEF IsHex, HexLaw
<1>3. n < 10 => Hex(n) = n
  BY <1>1 DEF IsHex, HexLaw
<1>4. ASSUME NEW k \in Nat, NEW d \in 0 .. 9, n = 10 * k + d PROVE Hex(n) = 16 * Hex(k) + d
  <2>1. PICK h : IsHex(k, h) /\ Hex(k) = h[k]
    BY HexIs
  <2>2. k <= n
    BY <1>4
  <2>3. HexLaw(n, g) /\ HexLaw(k, h)
    BY <1>1, <2>1 DEF IsHex
  <2>4. g[k] = h[k]
    BY <2>2, <2>3, HexUnique
  <2>5. CASE n < 10
    <3>1. k = 0 /\ d = n
      BY <1>4, <2>5
    <3>2. h[0] = 0
      BY <2>3, <3>1 DEF HexLaw
    <3> QED
      BY <1>3, <2>1, <2>5, <3>1, <3>2
  <2>6. CASE n >= 10
    <3>1. n \div 10 = k /\ n % 10 = d
      BY <1>4
    <3>2. g[n] = 16 * g[n \div 10] + (n % 10)
      BY <2>3, <2>6 DEF HexLaw
    <3> QED
      BY <1>1, <2>1, <2>4, <3>1, <3>2
  <2> QED
    BY <2>5, <2>6
<1> QED
  BY <1>2, <1>3, <1>4

(***************************************************************************)
(* Two numbers agree in their last j decimal digits exactly when what      *)
(* strtoul reads agrees in its last j hexadecimal digits.                  *)
(***************************************************************************)
LEMMA DigitsKept ==
  ASSUME NEW j \in Nat, NEW a \in Nat, NEW b \in Nat
  PROVE  Hex(a) % T!power(16, j) = Hex(b) % T!power(16, j)
           <=> a % T!power(10, j) = b % T!power(10, j)
<1> DEFINE Agree(x, y, m) == Hex(x) % T!power(16, m) = Hex(y) % T!power(16, m)
                               <=> x % T!power(10, m) = y % T!power(10, m)
           S == {m \in Nat : \A x, y \in Nat : Agree(x, y, m)}
<1>1. 0 \in S
  <2>1. \A x \in Nat : x % 1 = 0
    OBVIOUS
  <2>2. \A x \in Nat : Hex(x) % 1 = 0
    BY <2>1, HexStep
  <2> QED
    BY <2>1, <2>2, Powers
<1>2. ASSUME NEW m \in Nat, m \in S PROVE m + 1 \in S
  <2>1. PICK w \in Nat \ {0}, v \in Nat \ {0} :
          /\ T!power(10, m) = w /\ T!power(16, m) = v
          /\ T!power(10, m + 1) = 10 * w /\ T!power(16, m + 1) = 16 * v
    BY Powers
  <2>2. \A x, y \in Nat : Hex(x) % v = Hex(y) % v <=> x % w = y % w
    BY <1>2, <2>1
  <2>3. ASSUME NEW x \in Nat
        PROVE  \E k \in Nat, d \in 0 .. 9 : /\ x % (10 * w) = 10 * (k % w) + d
                                            /\ Hex(x) % (16 * v) = 16 * (Hex(k) % v) + d
    <3>1. PICK k \in Nat, d \in 0 .. 9 : x = 10 * k + d
      BY Decimal
    <3>2. x % (10 * w) = 10 * (k % w) + d
      <4>1. 10 \in Nat \ {0} /\ d \in 0 .. 10 - 1
        OBVIOUS
      <4>2. (10 * k + d) % (10 * w) = 10 * (k % w) + d
        BY <4>1, LastDigit, ZenonT(30)
      <4> QED
        BY <3>1, <4>2, Zenon
    <3>3. Hex(k) \in Nat
      BY HexStep
    <3>4. Hex(x) = 16 * Hex(k) + d
      <4>1. \A k2 \in Nat, d2 \in 0 .. 9 : x = 10 * k2 + d2 => Hex(x) = 16 * Hex(k2) + d2
        BY HexStep
      <4> QED
        BY <3>1, <4>1
    <3>5. Hex(x) % (16 * v) = 16 * (Hex(k) % v) + d
      <4>1. 16 \in Nat \ {0} /\ d \in 0 .. 16 - 1
        OBVIOUS
      <4>2. PICK h \in Nat : h = Hex(k)
        BY <3>3
      <4>3. (16 * h + d) % (16 * v) = 16 * (h % v) + d
        BY <4>1, LastDigit, ZenonT(30)
      <4> QED
        BY <3>4, <4>2, <4>3, Zenon
    <3> QED
      BY <3>2, <3>5
  <2>4. ASSUME NEW x \in Nat, NEW y \in Nat
        PROVE  Hex(x) % (16 * v) = Hex(y) % (16 * v) <=> x % (10 * w) = y % (10 * w)
    <3>1. PICK k \in Nat, d \in 0 .. 9 : /\ x % (10 * w) = 10 * (k % w) + d
                                         /\ Hex(x) % (16 * v) = 16 * (Hex(k) % v) + d
      BY <2>3
    <3>2. PICK l \in Nat, e \in 0 .. 9 : /\ y % (10 * w) = 10 * (l % w) + e
                                         /\ Hex(y) % (16 * v) = 16 * (Hex(l) % v) + e
      BY <2>3
    <3>3. PICK k1 \in Nat, l1 \in Nat : k1 = k % w /\ l1 = l % w
      BY Quotient
    <3>4. PICK k2 \in Nat, l2 \in Nat : k2 = Hex(k) % v /\ l2 = Hex(l) % v
      <4>1. Hex(k) \in Nat /\ Hex(l) \in Nat
        BY HexStep
      <4>2. PICK h \in Nat, i1 \in Nat : h = Hex(k) /\ i1 = Hex(l)
        BY <4>1
      <4>3. \E k2 \in Nat, l2 \in Nat : k2 = h % v /\ l2 = i1 % v
        BY Quotient
      <4> QED
        BY <4>2, <4>3, Zenon
    <3>5. k2 = l2 <=> k1 = l1
      BY <2>2, <3>3, <3>4
    <3>6. 10 * k1 + d = 10 * l1 + e <=> k1 = l1 /\ d = e
      OBVIOUS
    <3>7. 16 * k2 + d = 16 * l2 + e <=> k2 = l2 /\ d = e
      OBVIOUS
    <3> QED
      BY <3>1, <3>2, <3>3, <3>4, <3>5, <3>6, <3>7, Zenon
  <2> QED
    BY <2>1, <2>4
<1>3. Nat \subseteq S
  BY <1>1, <1>2, Induction
<1> QED
  BY <1>3

(***************************************************************************)
(* As many hexadecimal digits as decimal ones.                             *)
(***************************************************************************)
LEMMA DigitsFit ==
  ASSUME NEW j \in Nat, NEW a \in Nat, a < T!power(10, j)
  PROVE  Hex(a) < T!power(16, j)
<1> DEFINE S == {m \in Nat : \A x \in Nat : x < T!power(10, m) => Hex(x) < T!power(16, m)}
<1>1. 0 \in S
  <2>1. Hex(0) = 0
    BY HexStep
  <2>2. \A x \in Nat : x < 1 => x = 0
    OBVIOUS
  <2> QED
    BY <2>1, <2>2, Powers
<1>2. ASSUME NEW m \in Nat, m \in S PROVE m + 1 \in S
  <2>1. PICK w \in Nat \ {0}, v \in Nat \ {0} :
          /\ T!power(10, m) = w /\ T!power(16, m) = v
          /\ T!power(10, m + 1) = 10 * w /\ T!power(16, m + 1) = 16 * v
    BY Powers
  <2>2. ASSUME NEW x \in Nat, x < 10 * w PROVE Hex(x) < 16 * v
    <3>1. PICK k \in Nat, d \in 0 .. 9 : x = 10 * k + d
      BY Decimal
    <3>2. k < w
      BY <2>2, <3>1
    <3>3. Hex(k) \in Nat
      BY HexStep
    <3>4. Hex(k) < v
      BY <1>2, <2>1, <3>2
    <3>5. Hex(x) = 16 * Hex(k) + d
      <4>1. \A k2 \in Nat, d2 \in 0 .. 9 : x = 10 * k2 + d2 => Hex(x) = 16 * Hex(k2) + d2
        BY HexStep
      <4> QED
        BY <3>1, <4>1
    <3> QED
      BY <3>3, <3>4, <3>5
  <2> QED
    BY <2>1, <2>2
<1>3. Nat \subseteq S
  BY <1>1, <1>2, Induction
<1> QED
  BY <1>3

LEMMA Reads ==
  ASSUME NEW n \in Nat, n < T!power(10, LongDigits)
  PROVE  T!strtoul(n) = Hex(n)
<1>1. T!power(16, LongDigits) \in Nat
  BY Powers, ThreadIdAssumption
<1>2. Hex(n) \in Nat /\ ~ (Hex(n) > T!power(16, LongDigits) - 1)
  BY <1>1, DigitsFit, HexStep, ThreadIdAssumption
<1>3. T!strtoul(n) = IF Hex(n) > T!ULongMax THEN T!ULongMax ELSE Hex(n)
  BY DEF T!strtoul, Hex
<1> QED
  BY <1>2, <1>3 DEF T!ULongMax

(***************************************************************************)
(* A thread's id is the one OurGetCurrentThreadId computes, or none.       *)
(***************************************************************************)
ThreadIdInv ==
  \/ DOMAIN native = {}
  \/ /\ native \in [T!Two -> Natives]
     /\ \A k \in T!Two : threadId[k] \in {T!None, T!ToInt(T!strtoul(native[k]))}
     /\ DOMAIN threadId = T!Two

LEMMA ThreadIdInvHolds == Spec => []ThreadIdInv
<1>1. Init => ThreadIdInv
  <2>1. NoThreads => ThreadIdInv
    BY DEF NoThreads, ThreadIdInv
  <2>2. T!Init => ThreadIdInv
    BY DEF T!Init, ThreadIdInv
  <2> QED
    BY <2>1, <2>2 DEF Init
<1>2. ThreadIdInv /\ [Next]_vars => ThreadIdInv'
  <2> SUFFICES ASSUME ThreadIdInv, [Next]_vars PROVE ThreadIdInv'
    OBVIOUS
  <2>1. CASE T!Next
    BY <2>1 DEF T!Next, T!OurGetCurrentThreadId, ThreadIdInv
  <2>2. CASE UNCHANGED ids
    BY <2>2 DEF ids, ThreadIdInv
  <2> QED
    BY <2>1, <2>2 DEF Next, vars
<1> QED
  BY <1>1, <1>2, PTL DEF Spec

LEMMA ThreadIdKeeps ==
  ASSUME ThreadIdInv, DOMAIN native # {}
  PROVE  T!KeepsLastDigits
<1> USE ThreadIdAssumption
<1> DEFINE v == T!power(16, IntDigits)
           w == T!power(10, IntDigits)
<1>1. v \in Nat \ {0} /\ w \in Nat \ {0}
  BY Powers
<1>2. ASSUME NEW k \in T!Two, T!Fits(k)
      PROVE  native[k] \in Nat /\ threadId[k] = Hex(native[k]) % v
  <2>1. native[k] \in Nat
    BY DEF ThreadIdInv
  <2>2. threadId[k] = T!ToInt(T!strtoul(native[k]))
    BY <1>2 DEF ThreadIdInv, T!Fits
  <2> QED
    BY <1>2, <2>1, <2>2, Reads DEF T!Fits, T!ToInt
<1>3. ASSUME NEW k \in T!Two, T!Fits(k)
      PROVE  threadId[k] = 0 <=> T!LastDigits(native[k]) = 0
  <2>1. Hex(0) = 0 /\ 0 % v = 0 /\ 0 % w = 0
    <3>1. Hex(0) = 0
      BY HexStep
    <3>2. \A x \in Nat \ {0} : 0 % x = 0
      OBVIOUS
    <3> HIDE DEF v, w
    <3> QED
      BY <1>1, <3>1, <3>2
  <2>2. Hex(native[k]) % v = Hex(0) % v <=> native[k] % w = 0 % w
    BY <1>2, <1>3, DigitsKept
  <2> HIDE DEF v, w
  <2>3. Hex(native[k]) % v = 0 <=> native[k] % w = 0
    BY <2>1, <2>2, Zenon
  <2> QED
    BY <1>2, <1>3, <2>3, Zenon DEF T!LastDigits, w
<1>4. T!Fits(1) /\ T!Fits(2) =>
        (threadId[1] = threadId[2] <=> T!LastDigits(native[1]) = T!LastDigits(native[2]))
  <2> SUFFICES ASSUME T!Fits(1), T!Fits(2)
               PROVE  threadId[1] = threadId[2]
                        <=> T!LastDigits(native[1]) = T!LastDigits(native[2])
    OBVIOUS
  <2>1. 1 \in T!Two /\ 2 \in T!Two
    BY DEF T!Two
  <2>2. Hex(native[1]) % v = Hex(native[2]) % v <=> native[1] % w = native[2] % w
    BY <1>2, <2>1, DigitsKept
  <2> HIDE DEF v, w
  <2> QED
    BY <1>2, <2>1, <2>2, Zenon DEF T!LastDigits, w
<1> QED
  BY <1>3, <1>4 DEF T!KeepsLastDigits

\* Of a short id the last digits are all.
LEMMA ThreadIdTells ==
  ASSUME ThreadIdInv, DOMAIN native # {}
  PROVE  T!TellsThreadsApart
<1> DEFINE w == T!power(10, IntDigits)
<1>1. w \in Nat \ {0}
  BY Powers, ThreadIdAssumption
<1>2. ASSUME NEW k \in T!Two, T!Short(k)
      PROVE  T!Fits(k) /\ native[k] # 0 /\ T!LastDigits(native[k]) = native[k]
  <2>1. native[k] \in Nat \ {0} /\ native[k] < w
    BY <1>2, ThreadIdAssumption DEF ThreadIdInv, T!Short
  <2>2. \A a \in Nat : \A b \in Nat \ {0} : a < b => a % b = a
    OBVIOUS
  <2> HIDE DEF w
  <2>3. native[k] % w = native[k]
    BY <1>1, <2>1, <2>2
  <2> QED
    BY <1>2, <2>1, <2>3 DEF T!Short, T!LastDigits, w
<1> HIDE DEF w
<1>3. T!KeepsLastDigits /\ 1 \in T!Two /\ 2 \in T!Two
  BY ThreadIdKeeps DEF T!Two
<1>4. ASSUME NEW k \in T!Two, T!Short(k) PROVE threadId[k] # 0
  BY <1>2, <1>3, <1>4 DEF T!KeepsLastDigits
<1>5. ASSUME T!Short(1), T!Short(2), native[1] # native[2] PROVE threadId[1] # threadId[2]
  <2>1. /\ T!Fits(1) /\ T!LastDigits(native[1]) = native[1]
        /\ T!Fits(2) /\ T!LastDigits(native[2]) = native[2]
    BY <1>2, <1>3, <1>5
  <2> QED
    BY <1>3, <1>5, <2>1 DEF T!KeepsLastDigits
<1> QED
  BY <1>4, <1>5 DEF T!TellsThreadsApart

(***************************************************************************)
(* What the tracer's thread ids keep of the native ids, and which threads  *)
(* therefore share one, whatever the widths of int and long.               *)
(***************************************************************************)
THEOREM ThreadIdsCorrect == Spec => [](DOMAIN native # {} => T!KeepsLastDigits)
<1>1. ThreadIdInv => (DOMAIN native # {} => T!KeepsLastDigits)
  BY ThreadIdKeeps
<1> QED
  BY <1>1, ThreadIdInvHolds, PTL

(***************************************************************************)
(* Two threads whose native ids have no more decimal digits than an int    *)
(* has hexadecimal ones never share an id, nor does one of them have the   *)
(* id of a vacant slot (FunctionTrace.cpp:86).                             *)
(***************************************************************************)
THEOREM ThreadsApartCorrect == Spec => []TellsThreadsApart
<1>1. ThreadIdInv => TellsThreadsApart
  BY ThreadIdTells DEF TellsThreadsApart
<1> QED
  BY <1>1, ThreadIdInvHolds, PTL

-----------------------------------------------------------------------------
(***************************************************************************)
(* The last of some positions.                                             *)
(***************************************************************************)
LEMMA Greatest ==
  ASSUME NEW n \in Nat, NEW S, S \subseteq 0 .. n, S # {}
  PROVE  P!Max(S) \in S /\ \A y \in S : y <= P!Max(S)
<1> DEFINE R == {n - y : y \in S}
<1>1. R \subseteq Nat /\ R # {}
  <2>1. \A y \in S : n - y \in Nat
    OBVIOUS
  <2>2. PICK y \in S : TRUE
    OBVIOUS
  <2>3. n - y \in R
    BY <2>2
  <2> QED
    BY <2>1, <2>3
<1>2. PICK r \in R : \A y \in R : r <= y
  BY <1>1, Least
<1>3. PICK m \in S : r = n - m
  OBVIOUS
<1>4. ASSUME NEW y \in S PROVE m >= y
  <2>1. r <= n - y
    BY <1>2
  <2> QED
    BY <1>3, <2>1
<1>5. \E x \in S : \A y \in S : x >= y
  BY <1>4
<1>6. P!Max(S) \in S /\ \A y \in S : P!Max(S) >= y
  BY <1>5 DEF P!Max
<1> QED
  BY <1>6

LEMMA GreatestIs ==
  ASSUME NEW n \in Nat, NEW S, S \subseteq 0 .. n, NEW m \in S, \A y \in S : y <= m
  PROVE  P!Max(S) = m
<1>1. P!Max(S) \in S /\ \A y \in S : y <= P!Max(S)
  BY Greatest
<1>2. PICK x \in S : x = P!Max(S)
  BY <1>1
<1>3. x <= m /\ m <= x
  BY <1>1, <1>2
<1>4. x = m
  BY <1>3
<1> QED
  BY <1>2, <1>4

-----------------------------------------------------------------------------
(***************************************************************************)
(* What dirname and basename return, too, is a string.                     *)
(***************************************************************************)
Characters == Names \cup {P!Slash, "."}

IsString(s) == s \in Seq(Characters)
IsPath(s)   == s \in Seq(Names \cup {P!Slash})

LEMMA PathIs ==
  ASSUME NEW s, IsPath(s)
  PROVE  /\ IsString(s) /\ Len(s) \in Nat
         /\ \A k \in 1 .. Len(s) : s[k] # P!Slash <=> s[k] \in Names
<1>1. \A k \in 1 .. Len(s) : s[k] \in Names \cup {P!Slash}
  BY ElementOfSeq DEF IsPath
<1>2. P!Slash \notin Names
  BY SplitAssumption DEF P!Slash
<1>3. IsString(s)
  BY SeqMonotonic DEF IsPath, IsString, Characters
<1> QED
  BY <1>1, <1>2, <1>3, LenProperties DEF IsPath

(***************************************************************************)
(* The beginning of a string.                                              *)
(***************************************************************************)
LEMMA Beginning ==
  ASSUME NEW S, NEW s \in Seq(S), NEW e \in 0 .. Len(s)
  PROVE  /\ SubSeq(s, 1, e) \in Seq(S) /\ Len(SubSeq(s, 1, e)) = e
         /\ \A k \in 1 .. e : SubSeq(s, 1, e)[k] = s[k]
<1>1. \A k \in 1 .. e : s[k] \in S
  BY ElementOfSeq, LenProperties
<1>2. e \in Int /\ 1 \in Int
  OBVIOUS
<1>3. /\ SubSeq(s, 1, e) \in Seq(S)
      /\ Len(SubSeq(s, 1, e)) = IF 1 <= e THEN e - 1 + 1 ELSE 0
      /\ \A k \in 1 .. e - 1 + 1 : SubSeq(s, 1, e)[k] = s[1 + k - 1]
  BY <1>1, <1>2, SubSeqProperties
<1> QED
  BY <1>3

(***************************************************************************)
(* A piece of the beginning is a piece of the string.                      *)
(***************************************************************************)
LEMMA SamePiece ==
  ASSUME NEW S, NEW s \in Seq(S), NEW e \in 0 .. Len(s), NEW m \in 1 .. e + 1, NEW n \in 0 .. e
  PROVE  SubSeq(SubSeq(s, 1, e), m, n) = SubSeq(s, m, n)
<1> DEFINE r == SubSeq(s, 1, e)
<1>1. \A k \in 1 .. e : r[k] = s[k] /\ s[k] \in S
  BY Beginning, ElementOfSeq, LenProperties
<1> HIDE DEF r
<1>2. \A k \in m .. n : r[k] = s[k] /\ s[k] \in S
  BY <1>1
<1>3. m \in Int /\ n \in Int
  OBVIOUS
<1>4. /\ SubSeq(s, m, n) \in Seq(S)
      /\ Len(SubSeq(s, m, n)) = IF m <= n THEN n - m + 1 ELSE 0
      /\ \A k \in 1 .. n - m + 1 : SubSeq(s, m, n)[k] = s[m + k - 1]
  BY <1>2, <1>3, SubSeqProperties
<1>5. /\ SubSeq(r, m, n) \in Seq(S)
      /\ Len(SubSeq(r, m, n)) = IF m <= n THEN n - m + 1 ELSE 0
      /\ \A k \in 1 .. n - m + 1 : SubSeq(r, m, n)[k] = r[m + k - 1]
  BY <1>2, <1>3, SubSeqProperties
<1>6. \A k \in 1 .. Len(SubSeq(s, m, n)) : SubSeq(r, m, n)[k] = SubSeq(s, m, n)[k]
  BY <1>2, <1>4, <1>5
<1>7. SubSeq(r, m, n) = SubSeq(s, m, n)
  BY <1>4, <1>5, <1>6, SeqEqual
<1> QED
  BY <1>7 DEF r

-----------------------------------------------------------------------------
(***************************************************************************)
(* The names of a string, up to each position: the law that the recursive  *)
(* function in NamesIn obeys.                                              *)
(***************************************************************************)
Named(s, ignored, k) ==
  IF P!EndsAt(s, k) /\ P!NameAt(s, k) \notin ignored THEN <<P!NameAt(s, k)>> ELSE <<>>

Collects(s, ignored, n, f) ==
  /\ DOMAIN f = 0 .. n /\ f[0] = <<>>
  /\ \A k \in 1 .. n : f[k] = f[k - 1] \o Named(s, ignored, k)

LEMMA CollectsExists ==
  ASSUME NEW s, NEW ignored, NEW n \in Nat
  PROVE  \E f : Collects(s, ignored, n, f)
<1> DEFINE S == {m \in Nat : \E f : Collects(s, ignored, m, f)}
<1>1. 0 \in S
  <2>1. Collects(s, ignored, 0, [k \in 0 .. 0 |-> <<>>])
    BY DEF Collects
  <2> QED
    BY <2>1
<1>2. ASSUME NEW m \in Nat, m \in S PROVE m + 1 \in S
  <2>1. PICK f : Collects(s, ignored, m, f)
    BY <1>2
  <2> DEFINE new == f[m] \o Named(s, ignored, m + 1)
             g == [k \in 0 .. m + 1 |-> IF k = m + 1 THEN new ELSE f[k]]
  <2>2. /\ DOMAIN g = 0 .. m + 1 /\ g[m + 1] = new
        /\ \A k \in 0 .. m : g[k] = f[k]
    OBVIOUS
  <2> HIDE DEF g
  <2>3. ASSUME NEW k \in 1 .. m + 1 PROVE g[k] = g[k - 1] \o Named(s, ignored, k)
    <3>1. g[k - 1] = f[k - 1]
      BY <2>2
    <3>2. CASE k = m + 1
      <4>1. k - 1 = m
        BY <3>2
      <4> QED
        BY <2>2, <3>1, <3>2, <4>1
    <3>3. CASE k # m + 1
      <4>1. k \in 1 .. m /\ k \in 0 .. m
        BY <3>3
      <4>2. f[k] = f[k - 1] \o Named(s, ignored, k)
        BY <2>1, <4>1 DEF Collects
      <4> QED
        BY <2>2, <3>1, <4>1, <4>2
    <3> QED
      BY <3>2, <3>3
  <2>4. g[0] = <<>>
    BY <2>1, <2>2 DEF Collects
  <2>5. Collects(s, ignored, m + 1, g)
    BY <2>2, <2>3, <2>4 DEF Collects
  <2> QED
    BY <2>5
<1> QED
  BY <1>1, <1>2, Induction

LEMMA NamesInIs ==
  ASSUME NEW s, Len(s) \in Nat, NEW ignored
  PROVE  \E f : Collects(s, ignored, Len(s), f) /\ P!NamesIn(s, ignored) = f[Len(s)]
<1> DEFINE value(f, k) == IF k = 0 THEN <<>> ELSE f[k - 1] \o Named(s, ignored, k)
           Defines(f) == f = [k \in 0 .. Len(s) |-> value(f, k)]
<1>1. PICK g : Collects(s, ignored, Len(s), g)
  BY CollectsExists
<1>2. \E h : Defines(h)
  <2> DEFINE h == [k \in 0 .. Len(s) |-> g[k]]
  <2>1. \A k \in 0 .. Len(s) : g[k] = value(g, k)
    BY <1>1 DEF Collects
  <2>2. \A k \in 0 .. Len(s) : h[k] = g[k]
    OBVIOUS
  <2> HIDE DEF h
  <2>3. \A k \in 0 .. Len(s) : value(h, k) = value(g, k)
    BY <2>2
  <2> HIDE DEF value
  <2>4. h = [k \in 0 .. Len(s) |-> value(h, k)]
    BY <2>1, <2>2, <2>3 DEF h
  <2> QED
    BY <2>4
<1> DEFINE f == CHOOSE f : Defines(f)
<1>3. Defines(f)
  BY <1>2, Zenon
<1>4. P!NamesIn(s, ignored) = f[Len(s)]
  BY DEF P!NamesIn, Named
<1> HIDE DEF f
<1>5. DOMAIN f = 0 .. Len(s) /\ \A k \in 0 .. Len(s) : f[k] = value(f, k)
  <2> HIDE DEF value
  <2> QED
    BY <1>3
<1>6. Collects(s, ignored, Len(s), f)
  BY <1>5 DEF Collects
<1> QED
  BY <1>4, <1>6

(***************************************************************************)
(* A name begins at or before its end.                                     *)
(***************************************************************************)
LEMMA StartBefore ==
  ASSUME NEW s, NEW k \in Nat \ {0}
  PROVE  P!StartOf(s, k) \in 1 .. k
<1> DEFINE S == {j \in 1 .. k : j = 1 \/ s[j - 1] = P!Slash}
<1>1. S \subseteq 0 .. k /\ 1 \in S
  OBVIOUS
<1>2. P!Max(S) \in S
  BY <1>1, Greatest
<1>3. P!StartOf(s, k) = P!Max(S)
  BY DEF P!StartOf
<1> QED
  BY <1>2, <1>3

\* A name between the slash at a, or the beginning, and k begins at a + 1.
LEMMA StartIs ==
  ASSUME NEW s, NEW k \in Nat \ {0}, NEW a \in 0 .. k - 1, a # 0 => s[a] = P!Slash,
         \A x \in a + 1 .. k : s[x] # P!Slash
  PROVE  P!StartOf(s, k) = a + 1
<1> DEFINE S == {j \in 1 .. k : j = 1 \/ s[j - 1] = P!Slash}
<1>1. S \subseteq 0 .. k
  OBVIOUS
<1>2. a + 1 \in S
  OBVIOUS
<1>3. ASSUME NEW y \in S PROVE y <= a + 1
  <2>1. SUFFICES ASSUME y > a + 1 PROVE FALSE
    OBVIOUS
  <2>2. y # 1 /\ y - 1 \in a + 1 .. k
    BY <2>1
  <2> QED
    BY <2>2
<1>4. P!Max(S) = a + 1
  BY <1>1, <1>2, <1>3, GreatestIs
<1> QED
  BY <1>4 DEF P!StartOf

LEMMA NamedIs ==
  ASSUME NEW s, IsString(s), NEW ignored, NEW k \in 1 .. Len(s)
  PROVE  Named(s, ignored, k) \in Seq(Seq(Characters))
<1>1. Len(s) \in Nat /\ \A x \in 1 .. Len(s) : s[x] \in Characters
  BY ElementOfSeq, LenProperties DEF IsString
<1>2. PICK m \in 1 .. k : m = P!StartOf(s, k)
  BY StartBefore
<1>3. SubSeq(s, m, k) \in Seq(Characters)
  <2>1. m \in Int /\ k \in Int /\ \A x \in m .. k : s[x] \in Characters
    BY <1>1
  <2> QED
    BY <2>1, SubSeqProperties
<1>4. P!NameAt(s, k) \in Seq(Characters)
  BY <1>2, <1>3 DEF P!NameAt
<1> QED
  BY <1>4 DEF Named

LEMMA CollectsNames ==
  ASSUME NEW s, IsString(s), NEW ignored, NEW f, Collects(s, ignored, Len(s), f)
  PROVE  \A k \in 0 .. Len(s) : f[k] \in Seq(Seq(Characters))
<1> DEFINE S == {m \in Nat : m <= Len(s) => f[m] \in Seq(Seq(Characters))}
<1>1. Len(s) \in Nat
  BY LenProperties DEF IsString
<1>2. 0 \in S
  BY EmptySeq DEF Collects
<1>3. ASSUME NEW m \in Nat, m \in S PROVE m + 1 \in S
  <2> SUFFICES ASSUME m + 1 <= Len(s) PROVE f[m + 1] \in Seq(Seq(Characters))
    OBVIOUS
  <2>1. f[m] \in Seq(Seq(Characters))
    BY <1>1, <1>3
  <2>2. m + 1 \in 1 .. Len(s) /\ (m + 1) - 1 = m
    BY <1>1
  <2>3. f[m + 1] = f[m] \o Named(s, ignored, m + 1)
    BY <2>2 DEF Collects
  <2>4. Named(s, ignored, m + 1) \in Seq(Seq(Characters))
    BY <2>2, NamedIs
  <2> QED
    BY <2>1, <2>3, <2>4, ConcatProperties
<1>4. Nat \subseteq S
  BY <1>2, <1>3, Induction
<1> QED
  BY <1>1, <1>4

(***************************************************************************)
(* Where no name ends, none is added.                                      *)
(***************************************************************************)
LEMMA NoneAdded ==
  ASSUME NEW s, IsString(s), NEW ignored, NEW f, Collects(s, ignored, Len(s), f),
         NEW j \in 0 .. Len(s), NEW k \in j .. Len(s), \A x \in j + 1 .. k : ~ P!EndsAt(s, x)
  PROVE  f[k] = f[j]
<1> DEFINE S == {m \in Nat : j + m <= k => f[j + m] = f[j]}
<1>1. Len(s) \in Nat
  BY LenProperties DEF IsString
<1>2. 0 \in S
  OBVIOUS
<1>3. ASSUME NEW m \in Nat, m \in S PROVE m + 1 \in S
  <2> SUFFICES ASSUME j + m + 1 <= k PROVE f[j + (m + 1)] = f[j]
    OBVIOUS
  <2>1. PICK n \in Nat : n = j + m
    OBVIOUS
  <2>2. /\ n + 1 \in 1 .. Len(s) /\ n + 1 \in j + 1 .. k /\ n \in 0 .. Len(s)
        /\ (n + 1) - 1 = n /\ j + (m + 1) = n + 1
    BY <1>1, <2>1
  <2>3. f[n] = f[j]
    BY <1>3, <2>1
  <2>4. f[n + 1] = f[n] \o Named(s, ignored, n + 1)
    BY <2>2 DEF Collects
  <2>5. Named(s, ignored, n + 1) = <<>>
    BY <2>2 DEF Named
  <2>6. f[n] \in Seq(Seq(Characters))
    BY <2>2, CollectsNames
  <2>7. f[n] \o <<>> = f[n]
    BY <2>6, ConcatEmptySeq
  <2> QED
    BY <2>2, <2>3, <2>4, <2>5, <2>7
<1>4. Nat \subseteq S
  BY <1>2, <1>3, Induction
<1>5. k - j \in S
  BY <1>1, <1>4
<1>6. j + (k - j) = k /\ k <= k
  BY <1>1
<1> QED
  BY <1>5, <1>6

(***************************************************************************)
(* The names of a beginning that ends with a name, or is empty, are those  *)
(* that the string has up to there.                                        *)
(***************************************************************************)
LEMMA NamedBefore ==
  ASSUME NEW s, IsString(s), NEW ignored, NEW d \in 0 .. Len(s),
         d # 0 /\ d < Len(s) => s[d + 1] = P!Slash, NEW k \in 1 .. d
  PROVE  Named(SubSeq(s, 1, d), ignored, k) = Named(s, ignored, k)
<1> DEFINE r == SubSeq(s, 1, d)
<1>1. Len(s) \in Nat
  BY LenProperties DEF IsString
<1>2. Len(r) = d /\ \A x \in 1 .. d : r[x] = s[x]
  BY Beginning DEF IsString
<1>3. ASSUME NEW m \in 1 .. d + 1, NEW n \in 0 .. d
      PROVE  SubSeq(r, m, n) = SubSeq(s, m, n)
  BY SamePiece DEF IsString
<1> HIDE DEF r
<1>4. P!StartOf(r, k) = P!StartOf(s, k)
  <2>1. ASSUME NEW j \in 1 .. k PROVE j = 1 \/ r[j - 1] = P!Slash <=> j = 1 \/ s[j - 1] = P!Slash
    <3>1. j # 1 => j - 1 \in 1 .. d
      BY <1>1
    <3> QED
      BY <1>2, <3>1
  <2>2. {j \in 1 .. k : j = 1 \/ r[j - 1] = P!Slash} = {j \in 1 .. k : j = 1 \/ s[j - 1] = P!Slash}
    BY <2>1
  <2> QED
    BY <2>2 DEF P!StartOf
<1>5. PICK m \in 1 .. k : m = P!StartOf(s, k)
  BY <1>1, StartBefore
<1>6. P!NameAt(r, k) = P!NameAt(s, k)
  <2>1. m \in 1 .. d + 1 /\ k \in 0 .. d
    BY <1>1, <1>5
  <2>2. SubSeq(r, m, k) = SubSeq(s, m, k)
    BY <1>3, <2>1
  <2> QED
    BY <1>4, <1>5, <2>2 DEF P!NameAt
<1>7. P!EndsAt(r, k) <=> P!EndsAt(s, k)
  <2>1. r[k] = s[k]
    BY <1>2
  <2>2. CASE k = d
    BY <1>1, <1>2, <2>1, <2>2 DEF P!EndsAt
  <2>3. CASE k # d
    <3>1. k + 1 \in 1 .. d /\ k # Len(s)
      BY <1>1, <2>3
    <3> QED
      BY <1>2, <2>1, <2>3, <3>1 DEF P!EndsAt
  <2> QED
    BY <2>2, <2>3
<1>8. Named(r, ignored, k) = Named(s, ignored, k)
  BY <1>6, <1>7 DEF Named
<1> QED
  BY <1>8 DEF r

LEMMA NamesBefore ==
  ASSUME NEW s, IsString(s), NEW ignored, NEW f, Collects(s, ignored, Len(s), f),
         NEW d \in 0 .. Len(s), d # 0 /\ d < Len(s) => s[d + 1] = P!Slash
  PROVE  P!NamesIn(SubSeq(s, 1, d), ignored) = f[d]
<1> DEFINE r == SubSeq(s, 1, d)
<1>1. Len(s) \in Nat /\ Len(r) = d
  BY LenProperties, Beginning DEF IsString
<1>2. \A k \in 1 .. d : Named(r, ignored, k) = Named(s, ignored, k)
  BY NamedBefore
<1> HIDE DEF r
<1>3. PICK g : Collects(r, ignored, d, g) /\ P!NamesIn(r, ignored) = g[d]
  BY <1>1, NamesInIs
<1> DEFINE S == {m \in Nat : m <= d => g[m] = f[m]}
<1>4. 0 \in S
  BY <1>3 DEF Collects
<1>5. ASSUME NEW m \in Nat, m \in S PROVE m + 1 \in S
  <2> SUFFICES ASSUME m + 1 <= d PROVE g[m + 1] = f[m + 1]
    OBVIOUS
  <2>1. m + 1 \in 1 .. d /\ m + 1 \in 1 .. Len(s) /\ (m + 1) - 1 = m
    BY <1>1
  <2>2. g[m] = f[m]
    BY <1>1, <1>5
  <2>3. g[m + 1] = g[m] \o Named(r, ignored, m + 1)
    BY <1>3, <2>1 DEF Collects
  <2>4. f[m + 1] = f[m] \o Named(s, ignored, m + 1)
    BY <2>1 DEF Collects
  <2> QED
    BY <1>2, <2>1, <2>2, <2>3, <2>4
<1>6. Nat \subseteq S
  BY <1>4, <1>5, Induction
<1>7. g[d] = f[d]
  BY <1>1, <1>6
<1> QED
  BY <1>3, <1>7 DEF r

-----------------------------------------------------------------------------
(***************************************************************************)
(* The parts of a string: a directory up to d, slashes up to a, the last   *)
(* name up to e, and slashes; e is 0 when there is no name.                *)
(***************************************************************************)
Parts(s, d, a, e) ==
  /\ d \in 0 .. a /\ a \in 0 .. e /\ e \in 0 .. Len(s)
  /\ \A k \in e + 1 .. Len(s) : s[k] = P!Slash
  /\ \A k \in a + 1 .. e : s[k] # P!Slash
  /\ \A k \in d + 1 .. a : s[k] = P!Slash
  /\ a # 0 => s[a] = P!Slash
  /\ d # 0 => s[d] # P!Slash
  /\ e # 0 => a < e

\* What a name adds.
Adds(n, ignored) == IF n \notin ignored THEN <<n>> ELSE <<>>

LEMMA NamesOfParts ==
  ASSUME NEW s, IsString(s), NEW ignored, NEW d, NEW a, NEW e, Parts(s, d, a, e)
  PROVE  P!NamesIn(s, ignored) =
           IF e = 0 THEN <<>>
           ELSE P!NamesIn(SubSeq(s, 1, d), ignored) \o Adds(SubSeq(s, a + 1, e), ignored)
<1>1. /\ Len(s) \in Nat /\ d \in Nat /\ a \in Nat /\ e \in Nat
      /\ d <= a /\ a <= e /\ e <= Len(s)
  BY LenProperties DEF IsString, Parts
<1>2. PICK f : Collects(s, ignored, Len(s), f) /\ P!NamesIn(s, ignored) = f[Len(s)]
  BY <1>1, NamesInIs
<1>3. f[Len(s)] = f[e]
  <2>1. \A x \in e + 1 .. Len(s) : ~ P!EndsAt(s, x)
    BY DEF Parts, P!EndsAt
  <2>2. e \in 0 .. Len(s) /\ Len(s) \in e .. Len(s)
    BY <1>1
  <2> QED
    BY <1>2, <2>1, <2>2, NoneAdded
<1>4. CASE e = 0
  BY <1>2, <1>3, <1>4 DEF Collects
<1>5. CASE e # 0
  <2>1. a < e /\ s[e] # P!Slash /\ e \in 1 .. Len(s) /\ e - 1 \in Nat
    BY <1>1, <1>5 DEF Parts
  <2>2. f[a] = f[d]
    <3>1. \A x \in d + 1 .. a : ~ P!EndsAt(s, x)
      BY DEF Parts, P!EndsAt
    <3>2. d \in 0 .. Len(s) /\ a \in d .. Len(s)
      BY <1>1
    <3> QED
      BY <1>2, <3>1, <3>2, NoneAdded
  <2>3. f[e - 1] = f[a]
    <3>1. ASSUME NEW x \in a + 1 .. e - 1 PROVE ~ P!EndsAt(s, x)
      <4>1. x + 1 \in a + 1 .. e /\ x # Len(s)
        BY <1>1
      <4>2. s[x + 1] # P!Slash
        BY <4>1 DEF Parts
      <4> QED
        BY <4>1, <4>2 DEF P!EndsAt
    <3>2. a \in 0 .. Len(s) /\ e - 1 \in a .. Len(s)
      BY <1>1, <2>1
    <3> QED
      BY <1>2, <3>1, <3>2, NoneAdded
  <2>4. P!EndsAt(s, e)
    <3>1. e # Len(s) => s[e + 1] = P!Slash
      <4> SUFFICES ASSUME e # Len(s) PROVE s[e + 1] = P!Slash
        OBVIOUS
      <4>1. e + 1 \in e + 1 .. Len(s)
        BY <1>1
      <4> QED
        BY <4>1 DEF Parts
    <3> QED
      BY <2>1, <3>1 DEF P!EndsAt
  <2>5. P!NameAt(s, e) = SubSeq(s, a + 1, e)
    <3>1. a \in 0 .. e - 1 /\ e \in Nat \ {0}
      BY <1>1, <2>1
    <3>2. (a # 0 => s[a] = P!Slash) /\ \A x \in a + 1 .. e : s[x] # P!Slash
      BY DEF Parts
    <3>3. P!StartOf(s, e) = a + 1
      BY <3>1, <3>2, StartIs
    <3> QED
      BY <3>3 DEF P!NameAt
  <2>6. Named(s, ignored, e) = Adds(SubSeq(s, a + 1, e), ignored)
    BY <2>4, <2>5 DEF Named, Adds
  <2>7. f[e] = f[e - 1] \o Named(s, ignored, e)
    BY <1>2, <2>1 DEF Collects
  <2>8. P!NamesIn(SubSeq(s, 1, d), ignored) = f[d]
    <3>1. d \in 0 .. Len(s)
      BY <1>1
    <3>2. ASSUME d # 0, d < Len(s) PROVE s[d + 1] = P!Slash
      <4>1. d # a
        BY <1>1, <3>2 DEF Parts
      <4>2. d + 1 \in d + 1 .. a
        BY <1>1, <4>1
      <4> QED
        BY <4>2 DEF Parts
    <3> QED
      BY <1>2, <3>1, <3>2, NamesBefore
  <2> QED
    BY <1>2, <1>3, <1>5, <2>2, <2>3, <2>6, <2>7, <2>8
<1> QED
  BY <1>4, <1>5

LEMMA NoNames ==
  ASSUME NEW ignored
  PROVE  P!NamesIn(<<>>, ignored) = <<>> /\ P!NamesIn(<<P!Slash>>, ignored) = <<>>
<1>1. IsString(<<>>) /\ Parts(<<>>, 0, 0, 0)
  BY EmptySeq DEF IsString, Parts
<1>2. IsString(<<P!Slash>>) /\ Parts(<<P!Slash>>, 0, 0, 0)
  <2>1. P!Slash \in Characters
    BY DEF Characters
  <2>2. <<P!Slash>> \in Seq(Characters) /\ Len(<<P!Slash>>) = 1 /\ <<P!Slash>>[1] = P!Slash
    BY <2>1
  <2> QED
    BY <2>2 DEF IsString, Parts
<1> QED
  BY <1>1, <1>2, NamesOfParts

\* The names of a name.
LEMMA OneName ==
  ASSUME NEW n, IsString(n), n # <<>>, \A k \in 1 .. Len(n) : n[k] # P!Slash, NEW ignored
  PROVE  P!NamesIn(n, ignored) = Adds(n, ignored)
<1>1. Len(n) \in Nat \ {0}
  BY LenProperties, EmptySeq DEF IsString
<1>2. Parts(n, 0, 0, Len(n))
  BY <1>1 DEF Parts
<1>3. P!NamesIn(n, ignored) = P!NamesIn(SubSeq(n, 1, 0), ignored) \o Adds(SubSeq(n, 0 + 1, Len(n)), ignored)
  BY <1>1, <1>2, NamesOfParts
<1>4. SubSeq(n, 1, 0) = <<>> /\ SubSeq(n, 0 + 1, Len(n)) = n
  <2>1. 0 + 1 = 1
    OBVIOUS
  <2>2. SubSeq(n, 1, 0) = <<>>
    BY SubSeqEmpty
  <2>3. SubSeq(n, 1, Len(n)) = n
    BY SubSeqFull DEF IsString
  <2> QED
    BY <2>1, <2>2, <2>3
<1>5. <<>> \o Adds(n, ignored) = Adds(n, ignored)
  <2>1. <<>> \in Seq(Seq(Characters)) /\ <<n>> \in Seq(Seq(Characters))
    BY EmptySeq DEF IsString
  <2>2. Adds(n, ignored) \in Seq(Seq(Characters))
    BY <2>1 DEF Adds
  <2> QED
    BY <2>2, ConcatEmptySeq
<1> QED
  BY <1>3, <1>4, <1>5, NoNames

-----------------------------------------------------------------------------
(***************************************************************************)
(* dirname and basename take a path apart.                                 *)
(***************************************************************************)
LEMMA LastOf ==
  ASSUME NEW s, Len(s) \in Nat, NEW kept
  PROVE  \E e \in 0 .. Len(s) : /\ P!UpToLast(s, kept) = SubSeq(s, 1, e)
                                /\ e # 0 => s[e] \in kept
                                /\ \A k \in e + 1 .. Len(s) : s[k] \notin kept
<1> DEFINE S == {0} \cup {k \in 1 .. Len(s) : s[k] \in kept}
<1>1. S \subseteq 0 .. Len(s) /\ S # {}
  OBVIOUS
<1>2. PICK e \in S : e = P!Max(S) /\ \A y \in S : y <= e
  BY <1>1, Greatest
<1>3. ASSUME NEW k \in e + 1 .. Len(s) PROVE s[k] \notin kept
  <2>1. SUFFICES ASSUME s[k] \in kept PROVE FALSE
    OBVIOUS
  <2>2. k \in S
    BY <1>1, <2>1
  <2> QED
    BY <1>1, <1>2, <2>2
<1>4. P!UpToLast(s, kept) = SubSeq(s, 1, e)
  BY <1>2 DEF P!UpToLast
<1> QED
  BY <1>1, <1>2, <1>3, <1>4

LEMMA Anatomy ==
  ASSUME NEW s, IsPath(s)
  PROVE  \E d, a, e : /\ Parts(s, d, a, e)
                      /\ P!Trimmed(s) = SubSeq(s, 1, e)
                      /\ P!Above(s) = SubSeq(s, 1, a)
                      /\ P!Trimmed(P!Above(s)) = SubSeq(s, 1, d)
<1>1. /\ Len(s) \in Nat
      /\ \A k \in 1 .. Len(s) : s[k] # P!Slash <=> s[k] \in Names
  BY PathIs
<1>2. PICK e \in 0 .. Len(s) : /\ P!UpToLast(s, Names) = SubSeq(s, 1, e)
                               /\ e # 0 => s[e] \in Names
                               /\ \A k \in e + 1 .. Len(s) : s[k] \notin Names
  BY <1>1, LastOf
<1> DEFINE t == SubSeq(s, 1, e)
<1>3. Len(t) = e /\ \A k \in 1 .. e : t[k] = s[k]
  BY Beginning DEF IsPath
<1>4. e \in Nat /\ e <= Len(s)
  BY <1>1
<1>5. ASSUME NEW x \in 0 .. e PROVE SubSeq(t, 1, x) = SubSeq(s, 1, x)
  <2>1. 1 \in 1 .. e + 1
    BY <1>4
  <2> QED
    BY <2>1, SamePiece DEF IsPath
<1> HIDE DEF t
<1>6. PICK a \in 0 .. e : /\ P!UpToLast(t, {P!Slash}) = SubSeq(t, 1, a)
                          /\ a # 0 => t[a] \in {P!Slash}
                          /\ \A k \in a + 1 .. e : t[k] \notin {P!Slash}
  BY <1>3, <1>4, LastOf
<1> DEFINE u == SubSeq(s, 1, a)
<1>7. a \in Nat /\ a <= e /\ a \in 0 .. Len(s)
  BY <1>4
<1>8. Len(u) = a /\ \A k \in 1 .. a : u[k] = s[k]
  BY <1>7, Beginning DEF IsPath
<1>9. ASSUME NEW x \in 0 .. a PROVE SubSeq(u, 1, x) = SubSeq(s, 1, x)
  <2>1. 1 \in 1 .. a + 1
    BY <1>7
  <2> QED
    BY <1>7, <2>1, SamePiece DEF IsPath
<1> HIDE DEF u
<1>10. PICK d \in 0 .. a : /\ P!UpToLast(u, Names) = SubSeq(u, 1, d)
                           /\ d # 0 => u[d] \in Names
                           /\ \A k \in d + 1 .. a : u[k] \notin Names
  BY <1>7, <1>8, LastOf
<1>11. P!Trimmed(s) = t
  BY <1>2 DEF P!Trimmed, t
<1>12. P!Above(s) = u
  BY <1>5, <1>6, <1>11 DEF P!Above, u
<1>13. P!Trimmed(P!Above(s)) = SubSeq(s, 1, d)
  BY <1>9, <1>10, <1>12 DEF P!Trimmed
<1>14. Parts(s, d, a, e)
  <2>1. \A k \in e + 1 .. Len(s) : s[k] = P!Slash
    BY <1>1, <1>2, <1>4
  <2>2. /\ \A k \in a + 1 .. e : s[k] # P!Slash
        /\ a # 0 => s[a] = P!Slash
    BY <1>3, <1>4, <1>6
  <2>3. ASSUME NEW k \in d + 1 .. a PROVE s[k] = P!Slash
    <3>1. k \in 1 .. a /\ k \in 1 .. Len(s)
      BY <1>4, <1>7
    <3> QED
      BY <1>1, <1>8, <1>10, <3>1
  <2>4. ASSUME d # 0 PROVE s[d] # P!Slash
    <3>1. d \in 1 .. a /\ d \in 1 .. Len(s)
      BY <1>4, <1>7, <2>4
    <3> QED
      BY <1>1, <1>8, <1>10, <2>4, <3>1
  <2>5. ASSUME e # 0 PROVE a < e
    <3>1. e \in 1 .. Len(s)
      BY <1>4, <2>5
    <3>2. s[e] # P!Slash
      BY <1>1, <1>2, <2>5, <3>1
    <3> QED
      BY <1>4, <1>7, <2>2, <2>5, <3>2
  <2> QED
    BY <1>2, <1>6, <1>10, <2>1, <2>2, <2>3, <2>4, <2>5 DEF Parts
<1> QED
  BY <1>11, <1>12, <1>13, <1>14 DEF t, u

LEMMA CurrentDirDenotes == P!Denoted(P!CurrentDir) = <<>>
<1>1. "." # P!Slash /\ "." \in Characters
  BY DEF P!Slash, Characters
<1>2. <<".">> \in Seq(Characters) /\ Len(<<".">>) = 1 /\ <<".">>[1] = "."
  BY <1>1
<1>3. IsString(P!CurrentDir) /\ P!CurrentDir # <<>>
  BY <1>2 DEF IsString, P!CurrentDir
<1>4. \A k \in 1 .. Len(P!CurrentDir) : P!CurrentDir[k] # P!Slash
  BY <1>1, <1>2 DEF P!CurrentDir
<1>5. P!NamesIn(P!CurrentDir, {P!CurrentDir}) = Adds(P!CurrentDir, {P!CurrentDir})
  BY <1>3, <1>4, OneName
<1> QED
  BY <1>5 DEF P!Denoted, Adds

\* The last name of a path with names.
LEMMA LastName ==
  ASSUME NEW s, IsPath(s), NEW d, NEW a, NEW e, Parts(s, d, a, e), e # 0, NEW n, n = SubSeq(s, a + 1, e)
  PROVE  /\ IsString(n) /\ n # <<>>
         /\ \A k \in 1 .. Len(n) : n[k] # P!Slash
<1>1. IsString(s) /\ Len(s) \in Nat
  BY PathIs
<1>2. a \in Nat /\ e \in Nat /\ a < e /\ e <= Len(s)
  BY <1>1 DEF Parts
<1>3. \A k \in a + 1 .. e : s[k] \in Characters
  BY <1>1, <1>2, ElementOfSeq DEF IsString
<1>4. /\ n \in Seq(Characters)
      /\ Len(n) = e - a
      /\ \A k \in 1 .. e - a : n[k] = s[a + k]
  <2>1. a + 1 \in Int /\ e \in Int /\ a + 1 <= e /\ e - (a + 1) + 1 = e - a
    BY <1>2
  <2>2. /\ n \in Seq(Characters)
        /\ Len(n) = IF a + 1 <= e THEN e - (a + 1) + 1 ELSE 0
        /\ \A k \in 1 .. e - (a + 1) + 1 : n[k] = s[(a + 1) + k - 1]
    BY <1>3, <2>1, SubSeqProperties
  <2>3. \A k \in 1 .. e - a : (a + 1) + k - 1 = a + k
    BY <1>2
  <2> QED
    BY <2>1, <2>2, <2>3
<1>5. ASSUME NEW k \in 1 .. e - a PROVE n[k] # P!Slash
  <2>1. a + k \in a + 1 .. e
    BY <1>2
  <2>2. s[a + k] # P!Slash
    BY <2>1 DEF Parts
  <2> QED
    BY <1>4, <2>2
<1>6. n # <<>>
  BY <1>2, <1>4
<1> QED
  BY <1>4, <1>5, <1>6 DEF IsString

\* Both denote the file.
LEMMA BothDenote ==
  ASSUME NEW s, IsPath(s), NEW names, names = P!NamesIn(s, {}),
         NEW name, name = IF names = <<>> THEN <<>> ELSE names[Len(names)]
  PROVE  /\ IF names = <<>> THEN P!Denoted(P!basename(s)) = <<>> ELSE P!basename(s) = name
         /\ P!Denoted(P!dirname(s)) \o P!Denoted(name) = P!Denoted(s)
         /\ P!IsAbsolute(P!dirname(s)) <=> P!IsAbsolute(s)
<1>1. IsString(s) /\ Len(s) \in Nat
  BY PathIs
<1>2. PICK d, a, e : /\ Parts(s, d, a, e)
                     /\ P!Trimmed(s) = SubSeq(s, 1, e)
                     /\ P!Above(s) = SubSeq(s, 1, a)
                     /\ P!Trimmed(P!Above(s)) = SubSeq(s, 1, d)
  BY Anatomy
<1>3. /\ d \in Nat /\ a \in Nat /\ e \in Nat /\ d <= a /\ a <= e /\ e <= Len(s)
      /\ d \in 0 .. Len(s) /\ a \in 0 .. Len(s) /\ e \in 0 .. Len(s)
  BY <1>1, <1>2 DEF Parts
<1>4. /\ Len(SubSeq(s, 1, d)) = d /\ Len(SubSeq(s, 1, a)) = a /\ Len(SubSeq(s, 1, e)) = e
      /\ SubSeq(s, 1, d) \in Seq(Characters) /\ \A k \in 1 .. d : SubSeq(s, 1, d)[k] = s[k]
  BY <1>1, <1>3, Beginning DEF IsString
<1>5. SubSeq(s, 1, d) = <<>> <=> d = 0
  BY <1>3, <1>4, EmptySeq, SubSeqEmpty
<1>6. SubSeq(s, 1, e) = <<>> <=> e = 0
  BY <1>3, <1>4, EmptySeq, SubSeqEmpty
<1> DEFINE n == SubSeq(s, a + 1, e)
<1>7. ASSUME NEW ignored
      PROVE  P!NamesIn(s, ignored) =
               IF e = 0 THEN <<>> ELSE P!NamesIn(SubSeq(s, 1, d), ignored) \o Adds(n, ignored)
  BY <1>1, <1>2, NamesOfParts
<1>8. ASSUME e # 0 PROVE IsString(n) /\ \A ignored : P!NamesIn(n, ignored) = Adds(n, ignored)
  <2>1. IsString(n) /\ n # <<>> /\ \A k \in 1 .. Len(n) : n[k] # P!Slash
    BY <1>2, <1>8, LastName
  <2> HIDE DEF n
  <2> QED
    BY <2>1, OneName
<1>9. ASSUME e = 0 PROVE names = <<>> /\ name = <<>>
  <2>1. P!NamesIn(s, {}) = <<>>
    <3> HIDE DEF n
    <3> QED
      BY <1>7, <1>9
  <2> QED
    BY <2>1
<1>10. ASSUME e # 0 PROVE names # <<>> /\ name = n
  <2> DEFINE m == P!NamesIn(SubSeq(s, 1, d), {})
  <2>1. names = m \o <<n>>
    <3> HIDE DEF n
    <3>1. P!NamesIn(s, {}) = m \o Adds(n, {})
      BY <1>7, <1>10
    <3>2. Adds(n, {}) = <<n>>
      BY DEF Adds
    <3> QED
      BY <3>1, <3>2
  <2>2. m \in Seq(Seq(Characters))
    <3>1. PICK f : Collects(SubSeq(s, 1, d), {}, d, f) /\ m = f[d]
      BY <1>3, <1>4, NamesInIs
    <3>2. d \in 0 .. d
      BY <1>3
    <3> QED
      BY <1>4, <3>1, <3>2, CollectsNames DEF IsString
  <2>3. <<n>> \in Seq(Seq(Characters)) /\ Len(<<n>>) = 1 /\ <<n>>[1] = n
    BY <1>8, <1>10 DEF IsString
  <2> HIDE DEF n, m
  <2>4. Len(m) \in Nat
    BY <2>2, LenProperties
  <2>5. /\ m \o <<n>> \in Seq(Seq(Characters)) /\ Len(m \o <<n>>) = Len(m) + Len(<<n>>)
        /\ \A k \in 1 .. Len(m) + Len(<<n>>) :
             (m \o <<n>>)[k] = IF k <= Len(m) THEN m[k] ELSE <<n>>[k - Len(m)]
    BY <2>2, <2>3, ConcatProperties
  <2>6. Len(names) = Len(m) + 1 /\ names[Len(m) + 1] = n
    <3>1. Len(m) + 1 \in 1 .. Len(m) + Len(<<n>>) /\ (Len(m) + 1) - Len(m) = 1
          /\ ~ (Len(m) + 1 <= Len(m))
      BY <2>3, <2>4
    <3> QED
      BY <2>1, <2>3, <2>5, <3>1
  <2>7. names # <<>>
    BY <2>4, <2>6, EmptySeq
  <2> QED
    BY <2>6, <2>7
<1>11. e # 0 => P!basename(s) = name
  <2> SUFFICES ASSUME e # 0 PROVE P!basename(s) = n
    BY <1>10
  <2>1. P!basename(s) = SubSeq(SubSeq(s, 1, e), a + 1, e)
    BY <1>2, <1>4, <1>6 DEF P!basename
  <2>2. a + 1 \in 1 .. e + 1 /\ e \in 0 .. e
    BY <1>3
  <2> QED
    BY <1>1, <1>3, <2>1, <2>2, SamePiece DEF IsString
<1>12. e = 0 => P!Denoted(P!basename(s)) = <<>>
  <2> SUFFICES ASSUME e = 0 PROVE P!Denoted(P!basename(s)) = <<>>
    OBVIOUS
  <2>1. P!basename(s) \in {<<P!Slash>>, P!CurrentDir}
    BY <1>2, <1>6 DEF P!basename
  <2>2. P!Denoted(<<P!Slash>>) = <<>>
    BY NoNames DEF P!Denoted
  <2> QED
    BY <2>1, <2>2, CurrentDirDenotes
<1>13. d = 0 => P!dirname(s) \in {<<P!Slash>>, P!CurrentDir}
  BY <1>2, <1>5 DEF P!dirname
<1>14. d # 0 => P!dirname(s) = SubSeq(s, 1, d)
  BY <1>2, <1>5 DEF P!dirname
<1>15. P!Denoted(P!dirname(s)) = P!NamesIn(SubSeq(s, 1, d), {P!CurrentDir})
  <2>1. CASE d = 0
    <3>1. P!Denoted(P!dirname(s)) = <<>>
      BY <1>13, <2>1, NoNames, CurrentDirDenotes DEF P!Denoted
    <3> QED
      BY <1>5, <2>1, <3>1, NoNames
  <2>2. CASE d # 0
    BY <1>14, <2>2 DEF P!Denoted
  <2> QED
    BY <2>1, <2>2
<1>16. P!Denoted(P!dirname(s)) \o P!Denoted(name) = P!Denoted(s)
  <2>1. CASE e = 0
    <3>1. d = 0
      BY <1>3, <2>1
    <3>2. P!Denoted(P!dirname(s)) = <<>> /\ P!Denoted(name) = <<>> /\ P!Denoted(s) = <<>>
      BY <1>5, <1>7, <1>9, <1>15, <2>1, <3>1, NoNames DEF P!Denoted
    <3> QED
      BY <3>2
  <2>2. CASE e # 0
    <3>1. P!Denoted(name) = Adds(n, {P!CurrentDir})
      BY <1>8, <1>10, <2>2 DEF P!Denoted
    <3>2. P!Denoted(s) = P!NamesIn(SubSeq(s, 1, d), {P!CurrentDir}) \o Adds(n, {P!CurrentDir})
      BY <1>7, <2>2 DEF P!Denoted
    <3> QED
      BY <1>15, <3>1, <3>2
  <2> QED
    BY <2>1, <2>2
<1>17. P!IsAbsolute(P!dirname(s)) <=> P!IsAbsolute(s)
  <2>1. CASE d = 0
    <3>1. s # <<>> /\ s[1] = P!Slash => P!dirname(s) = <<P!Slash>>
      BY <1>2, <1>5, <2>1 DEF P!dirname
    <3>2. ~ (s # <<>> /\ s[1] = P!Slash) => P!dirname(s) = P!CurrentDir
      BY <1>2, <1>5, <2>1 DEF P!dirname
    <3>3. P!IsAbsolute(<<P!Slash>>) /\ ~ P!IsAbsolute(P!CurrentDir)
      BY DEF P!IsAbsolute, P!CurrentDir, P!Slash
    <3> QED
      BY <3>1, <3>2, <3>3 DEF P!IsAbsolute
  <2>2. CASE d # 0
    <3>1. 1 \in 1 .. d /\ s # <<>> /\ SubSeq(s, 1, d) # <<>>
      BY <1>1, <1>3, <1>5, <2>2, EmptySeq
    <3>2. SubSeq(s, 1, d)[1] = s[1]
      BY <1>4, <3>1
    <3> QED
      BY <1>14, <2>2, <3>1, <3>2 DEF P!IsAbsolute
  <2> QED
    BY <2>1, <2>2
<1>18. IF names = <<>> THEN P!Denoted(P!basename(s)) = <<>> ELSE P!basename(s) = name
  BY <1>9, <1>10, <1>11, <1>12
<1> QED
  BY <1>16, <1>17, <1>18

-----------------------------------------------------------------------------
(***************************************************************************)
(* Before each call the copy is the path, and what has been returned is    *)
(* what dirname and basename make of the path itself.                      *)
(***************************************************************************)
SplitInv ==
  spc # "none" =>
    /\ spc \in {"dirname", "copy", "basename", "return"} /\ IsPath(path)
    /\ spc \in {"dirname", "basename"} => resolved_path_copy = path
    /\ spc # "dirname" /\ "dir" \in wanted => dir = P!dirname(path)
    /\ spc = "return" /\ "base" \in wanted => base = P!basename(path)

(***************************************************************************)
(* OurSplitPath, for paths of any length and names of any characters:      *)
(* directory and name denote the file, whatever dirname does to its copy.  *)
(***************************************************************************)
THEOREM SplitsCorrect == Spec => []SplitsPath
<1>1. Init => SplitInv
  <2>1. ASSUME P!Init PROVE SplitInv
    <3>1. PICK n \in 0 .. MaxLength : path \in [1 .. n -> Names \cup {P!Slash}]
      BY <2>1 DEF P!Init, P!Paths
    <3>2. IsPath(path)
      BY <3>1, SplitAssumption DEF IsPath
    <3> QED
      BY <2>1, <3>2 DEF P!Init, SplitInv
  <2>2. NoSplit => SplitInv
    BY DEF NoSplit, SplitInv
  <2> QED
    BY <2>1, <2>2 DEF Init
<1>2. SplitInv /\ [Next]_vars => SplitInv'
  <2> SUFFICES ASSUME SplitInv, [Next]_vars PROVE SplitInv'
    OBVIOUS
  <2>1. CASE UNCHANGED split
    BY <2>1 DEF split, SplitInv
  <2>2. CASE P!Dirname
    BY <2>2 DEF P!Dirname, SplitInv
  <2>3. CASE P!CopyAgain
    BY <2>3 DEF P!CopyAgain, SplitInv
  <2>4. CASE P!Basename
    BY <2>4 DEF P!Basename, SplitInv
  <2> QED
    BY <2>1, <2>2, <2>3, <2>4 DEF Next, vars, P!Next
<1>3. SplitInv => SplitsPath
  <2> SUFFICES ASSUME SplitInv, spc = "return" PROVE P!SplitsPath
    BY DEF SplitsPath, P!SplitsPath
  <2>1. IsPath(path)
    BY DEF SplitInv
  <2> DEFINE names == P!NamesIn(path, {})
             name  == IF names = <<>> THEN <<>> ELSE names[Len(names)]
  <2>2. /\ IF names = <<>> THEN P!Denoted(P!basename(path)) = <<>> ELSE P!basename(path) = name
        /\ P!Denoted(P!dirname(path)) \o P!Denoted(name) = P!Denoted(path)
        /\ P!IsAbsolute(P!dirname(path)) <=> P!IsAbsolute(path)
    BY <2>1, BothDenote
  <2>3. /\ "dir" \in wanted => dir = P!dirname(path)
        /\ "base" \in wanted => base = P!basename(path)
    BY DEF SplitInv
  <2> QED
    BY <2>2, <2>3 DEF P!SplitsPath
<1> QED
  BY <1>1, <1>2, <1>3, PTL DEF Spec

=============================================================================
