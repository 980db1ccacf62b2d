------------------------------ MODULE HexDump ------------------------------
(***************************************************************************)
(* Logger::HexDump: the bytes of a buffer in rows of Width, each an offset,*)
(* a column of hexadecimal cells and a column of characters.               *)
(***************************************************************************)
EXTENDS Integers, Sequences

CONSTANTS
  Width,       \* the 16 bytes of a row
  Printable, Unprintable,  \* bytes isprint accepts, and others
  Dot, Blank,  \* the '.' of the text column, and the three spaces of an empty cell
  Buffers      \* what a program dumps

VARIABLES
  buf,        \* the bytes; positions are counted from 0 as in C
  i,          \* the offset of the row
  outBuffer,  \* the rows so far
  pc

vars == <<buf, i, outBuffer, pc>>

buflen == Len(buf)
byte(n) == buf[n + 1]

\* outBuffer.clear () is the first thing the call does.
Init ==
  /\ buf \in Buffers
  /\ i = 0
  /\ outBuffer = <<>>
  /\ pc = "row"

isprint(b) == b \in Printable

\* The inner loops: Width cells, then as many characters as there are bytes.
Cells == [j \in 1 .. Width |-> IF i + j - 1 < buflen THEN byte(i + j - 1) ELSE Blank]

InRow == {j \in 1 .. Width : i + j - 1 < buflen}
Characters ==
  [j \in InRow |-> IF isprint(byte(i + j - 1)) THEN byte(i + j - 1) ELSE Dot]

Row == [preamble |-> i = 0, offset |-> i, cells |-> Cells, text |-> Characters]

\* The test that leaves the loop after the last byte.
IsLastRow_Strict == i + Width > buflen
IsLastRow == i + Width >= buflen

\* The loop's own condition never fails: the test ends it first.
DumpRow ==
  /\ pc = "row"
  /\ i < buflen + Width
  /\ outBuffer' = Append(outBuffer, Row)
  /\ IF IsLastRow THEN pc' = "return" /\ UNCHANGED i
                  ELSE i' = i + Width /\ UNCHANGED pc
  /\ UNCHANGED buf

Next == DumpRow

-----------------------------------------------------------------------------
RowsFor(n) == IF n = 0 THEN 1 ELSE (n + Width - 1) \div Width

(***************************************************************************)
(* The dump shows every byte once, where its offset says, in both columns, *)
(* pads only the end of the last row, begins with the preamble, and has no *)
(* row without bytes unless there are none at all (also when the length is *)
(* a multiple of Width).                                                   *)
(***************************************************************************)
ShowsEveryByte ==
  /\ \A r \in 1 .. Len(outBuffer) :
       LET row == outBuffer[r] IN
         /\ row.offset = (r - 1) * Width
         /\ row.preamble <=> r = 1
         /\ \A j \in 1 .. Width :
              IF row.offset + j <= buflen
              THEN /\ row.cells[j] = buf[row.offset + j]
                   /\ row.text[j] = IF buf[row.offset + j] \in Printable
                                    THEN buf[row.offset + j] ELSE Dot
              ELSE row.cells[j] = Blank /\ j \notin DOMAIN row.text
  /\ Len(outBuffer) <= RowsFor(buflen)
  /\ pc = "return" => Len(outBuffer) = RowsFor(buflen)

=============================================================================
