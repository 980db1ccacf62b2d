------------------------------ MODULE ThreadId ------------------------------
(***************************************************************************)
(* The thread id the tracer keeps: OurGetThreadId prints the native id     *)
(* with operator<<, in decimal, and reads the text back as hexadecimal;    *)
(* FunctionTrace keeps the long it returns in an int.  The widths are      *)
(* powers of 16, so that the digits of the text are the digits of the id.  *)
(***************************************************************************)
EXTENDS Integers

CONSTANTS
  Natives,     \* native ids, as operator<< prints them
  LongDigits,  \* hexadecimal digits of an unsigned long
  IntDigits    \* hexadecimal digits of an int

VARIABLES
  native,    \* the native ids of two threads
  threadId   \* FunctionTrace::_threadId of each, None before it is computed

vars == <<native, threadId>>

Two  == 1 .. 2
None == -1

Init ==
  /\ native \in [Two -> Natives]
  /\ threadId = [k \in Two |-> None]

\* base ^ n
power(base, n) ==
  LET p[k \in 0 .. n] == IF k = 0 THEN 1 ELSE base * p[k - 1]
  IN  p[n]

ULongMax == power(16, LongDigits) - 1

\* strtoul (text, 0, 16), where text is n in decimal; it saturates.
strtoul(n) ==
  LET hex[k \in 0 .. n] == IF k < 10 THEN k ELSE 16 * hex[k \div 10] + (k % 10)
  IN  IF hex[n] > ULongMax THEN ULongMax ELSE hex[n]

\* (int) (long) n: the low bits are kept, whichever sign they stand for.
ToInt_Byte(n) == n % 16
ToInt(n) == n % power(16, IntDigits)

OurGetCurrentThreadId(k) ==
  /\ threadId[k] = None
  /\ threadId' = [threadId EXCEPT ![k] = ToInt(strtoul(native[k]))]
  /\ UNCHANGED native

Next == \E k \in Two : OurGetCurrentThreadId(k)

-----------------------------------------------------------------------------
Fits(k) == threadId[k] # None /\ native[k] < power(10, LongDigits)

LastDigits(n) == n % power(10, IntDigits)

(***************************************************************************)
(* What the conversion keeps: of a native id that fits a long, the last    *)
(* decimal digits, as many as an int has hexadecimal ones.  This describes *)
(* the code and is nothing to wish for: ids that differ further to the     *)
(* left become the same one, or that of a vacant slot.                     *)
(***************************************************************************)
KeepsLastDigits ==
  /\ \A k \in Two : Fits(k) => (threadId[k] = 0 <=> LastDigits(native[k]) = 0)
  /\ Fits(1) /\ Fits(2) =>
       (threadId[1] = threadId[2] <=> LastDigits(native[1]) = LastDigits(native[2]))

(***************************************************************************)
(* FunctionTrace.cpp:86: a slot belongs to the thread whose id it holds,   *)
(* and id 0 marks a vacant one.  Native ids of no more decimal digits than *)
(* an int has hexadecimal ones tell threads apart, and from a vacant slot, *)
(* although they are printed in decimal and read in hexadecimal.  README.md*)
(* (lines 2 and 6) claims thread safety for all ids, which longer ones do  *)
(* not have.                                                               *)
(***************************************************************************)
Short(k) == Fits(k) /\ native[k] < power(10, IntDigits)

TellsThreadsApart ==
  /\ \A k \in Two : Short(k) => threadId[k] # 0
  /\ Short(1) /\ Short(2) /\ native[1] # native[2] => threadId[1] # threadId[2]

=============================================================================
