------------------------------ MODULE Routines ------------------------------
(***************************************************************************)
(* The library's small routines, each a machine with variables of its own: *)
(* a behaviour runs one of them, for a single call, or for gapString and   *)
(* the thread ids the calls of two threads.  The others stay put.          *)
(***************************************************************************)
EXTENDS Integers, Sequences

CONSTANTS
  OctetStrings, WideStrings, WideSizes,          \* of Conversions
  Width, Printable, Unprintable, Dot, Blank, Buffers,  \* of HexDump
  Natives, LongDigits, IntDigits,                \* of ThreadId
  Tracers, Size, Depths,                         \* of GapString
  Names, MaxLength                               \* of SplitPath

\* An octet is a byte; sizeof (wchar_t) is that of an integer type.
ASSUME ConversionsAssumption ==
  /\ OctetStrings \subseteq Seq(0 .. 255) /\ WideStrings \subseteq Seq(Int)
  /\ WideSizes \subseteq {1, 2, 4}
\* Rows, arrays and words are not empty; 0 is no thread's id.
ASSUME RoutinesAssumption ==
  /\ Width \in Nat \ {0} /\ Size \in Nat \ {0} /\ Depths \subseteq Int
  /\ Buffers \subseteq Seq(Printable \cup Unprintable)
ASSUME ThreadIdAssumption ==
  /\ Natives \subseteq Nat \ {0} /\ IntDigits \in Nat \ {0} /\ LongDigits \in Nat \ {0}
\* A name holds no slash.
ASSUME SplitAssumption == "/" \notin Names /\ MaxLength \in Nat

VARIABLES
  op, wideSize, src, it, dest, ret, cpc,  \* of Conversions
  buf, i, outBuffer, hpc,                      \* of HexDump
  native, threadId,                            \* of ThreadId
  gapString, firstTime, gpc, depth, at, printed,  \* of GapString
  path, wanted, resolved_path_copy, dir, base, spc  \* of SplitPath

C == INSTANCE Conversions WITH pc <- cpc
H == INSTANCE HexDump WITH pc <- hpc
T == INSTANCE ThreadId
G == INSTANCE GapString WITH pc <- gpc, n <- depth, k <- at
P == INSTANCE SplitPath

conversion == <<op, wideSize, src, it, dest, ret, cpc>>
dump       == <<buf, i, outBuffer, hpc>>
ids        == <<native, threadId>>
gap        == <<gapString, firstTime, gpc, depth, at, printed>>
split      == <<path, wanted, resolved_path_copy, dir, base, spc>>
vars       == <<conversion, dump, ids, gap, split>>

\* Not called.
NoConversion == op = "none" /\ wideSize = 0 /\ src = <<>> /\ it = 1 /\ dest = <<>>
                /\ ret = TRUE /\ cpc = "none"
NoDump       == buf = <<>> /\ i = 0 /\ outBuffer = <<>> /\ hpc = "none"
NoThreads    == native = [k \in {} |-> 0] /\ threadId = [k \in {1, 2} |-> 0]
NoGap        == gapString = <<>> /\ firstTime = TRUE /\ gpc = <<>> /\ depth = <<>>
                /\ at = <<>> /\ printed = <<>>
NoSplit      == path = <<>> /\ wanted = {} /\ resolved_path_copy = <<>> /\ dir = <<>>
                /\ base = <<>> /\ spc = "none"

Init ==
  \/ C!Init /\ NoDump /\ NoThreads /\ NoGap /\ NoSplit
  \/ NoConversion /\ H!Init /\ NoThreads /\ NoGap /\ NoSplit
  \/ NoConversion /\ NoDump /\ T!Init /\ NoGap /\ NoSplit
  \/ NoConversion /\ NoDump /\ NoThreads /\ G!Init /\ NoSplit
  \/ NoConversion /\ NoDump /\ NoThreads /\ NoGap /\ P!Init

Next ==
  \/ C!Next /\ UNCHANGED <<dump, ids, gap, split>>
  \/ H!Next /\ UNCHANGED <<conversion, ids, gap, split>>
  \/ T!Next /\ UNCHANGED <<conversion, dump, gap, split>>
  \/ gpc # <<>> /\ G!Next /\ UNCHANGED <<conversion, dump, ids, split>>
  \/ P!Next /\ UNCHANGED <<conversion, dump, ids, gap>>

\* A routine runs until it returns.
Spec == Init /\ [][Next]_vars /\ WF_vars(Next)

-----------------------------------------------------------------------------
(***************************************************************************)
(* What a conversion leaves in its destination is the text it consumed.    *)
(***************************************************************************)
SameText == cpc # "none" => C!SameText

(***************************************************************************)
(* A conversion succeeds exactly for well-formed text.                     *)
(***************************************************************************)
AcceptsExactly == cpc # "none" => C!AcceptsExactly

(***************************************************************************)
(* Text that ends inside a character, or is malformed from one on, loses   *)
(* no character before it.                                                 *)
(***************************************************************************)
CutAtCharacter == cpc # "none" => C!CutAtCharacter

(***************************************************************************)
(* A hex dump shows every byte once and nothing else.                      *)
(***************************************************************************)
ShowsEveryByte == hpc # "none" => H!ShowsEveryByte

(***************************************************************************)
(* Two threads have two thread ids in the tracer's table, if their native  *)
(* ids are short enough.                                                   *)
(***************************************************************************)
TellsThreadsApart == DOMAIN native # {} => T!TellsThreadsApart

(***************************************************************************)
(* The race on gapString's initialisation leaves the array right.          *)
(***************************************************************************)
BuiltAfterRace == gpc # <<>> => G!BuiltAfterRace

(***************************************************************************)
(* Directory and file name denote the file of the path.                    *)
(***************************************************************************)
SplitsPath == spc # "none" => P!SplitsPath

(***************************************************************************)
(* The loops of the conversions and of HexDump end: each round consumes a  *)
(* character, or a row, or gives up.  A round that decoded without moving  *)
(* its iterator would go on for ever.                                      *)
(***************************************************************************)
Returns == <>(cpc \in {"none", "return"} /\ hpc \in {"none", "return"})

=============================================================================
