------------------------------ MODULE GapString ------------------------------
(***************************************************************************)
(* GetIndentationString (int): a static array of spaces, filled by the     *)
(* first call, of which every call returns a tail.  The flag firstTime     *)
(* is cleared before the array is filled, and no lock is taken (not with   *)
(* IOS_FREEZES either).  The caller's sprintf then reads to the first 0.   *)
(***************************************************************************)
EXTENDS Integers

CONSTANTS
  Tracers,  \* the threads that print an indentation
  Size,     \* the 2048 bytes of gapString
  Depths    \* the counters they print

VARIABLES
  gapString, firstTime,   \* the statics
  pc, n,                  \* where each thread is, and its argument
  k,                      \* its position in gapString, in memset and in sprintf
  printed                 \* how many spaces sprintf has copied

vars == <<gapString, firstTime, pc, n, k, printed>>

Space == 32

\* A static array starts as zeros.
Init ==
  /\ gapString = [j \in 0 .. Size - 1 |-> 0]
  /\ firstTime = TRUE
  /\ pc = [t \in Tracers |-> "idle"]
  /\ n = [t \in Tracers |-> 0]
  /\ k = [t \in Tracers |-> 0]
  /\ printed = [t \in Tracers |-> 0]

Goto(t, label) == pc' = [pc EXCEPT ![t] = label]

GetIndentationString(t, depth) ==
  /\ pc[t] \in {"idle", "done"}
  /\ n' = [n EXCEPT ![t] = depth]
  /\ k' = [k EXCEPT ![t] = 0]
  /\ printed' = [printed EXCEPT ![t] = 0]
  /\ Goto(t, "test")
  /\ UNCHANGED <<gapString, firstTime>>

TestFirstTime(t) ==
  /\ pc[t] = "test"
  /\ Goto(t, IF firstTime THEN "clear" ELSE "return")
  /\ UNCHANGED <<gapString, firstTime, n, k, printed>>

ClearFirstTime(t) ==
  /\ pc[t] = "clear"
  /\ firstTime' = FALSE
  /\ Goto(t, "memset")
  /\ UNCHANGED <<gapString, n, k, printed>>

Memset(t) ==
  /\ pc[t] = "memset"
  /\ gapString' = [gapString EXCEPT ![k[t]] = Space]
  /\ k' = [k EXCEPT ![t] = @ + 1]
  /\ Goto(t, IF k[t] = Size - 1 THEN "terminate" ELSE "memset")
  /\ UNCHANGED <<firstTime, n, printed>>

\* Skipped once another thread is through the block, as if the array were
\* complete then.
Terminate_Once(t) ==
  /\ pc[t] = "terminate"
  /\ gapString' = [gapString EXCEPT ![Size - 1] =
                     IF \E u \in Tracers \ {t} : pc[u] \in {"return", "sprintf", "done"}
                     THEN @ ELSE 0]
  /\ Goto(t, "return")
  /\ UNCHANGED <<firstTime, n, k, printed>>

Terminate(t) ==
  /\ pc[t] = "terminate"
  /\ gapString' = [gapString EXCEPT ![Size - 1] = 0]
  /\ Goto(t, "return")
  /\ UNCHANGED <<firstTime, n, k, printed>>

Clamped(depth) == IF depth < 0 THEN 0 ELSE depth

ReturnPointer(t) ==
  /\ pc[t] = "return"
  /\ k' = [k EXCEPT ![t] = Size - 1 - Clamped(n[t])]
  /\ Goto(t, "sprintf")
  /\ UNCHANGED <<gapString, firstTime, n, printed>>

\* sprintf (buffer, "%s...", ...) in the caller; outside the array anything
\* may follow.
Sprintf(t) ==
  /\ pc[t] = "sprintf"
  /\ IF k[t] \notin 0 .. Size - 1
     THEN Goto(t, "outside") /\ UNCHANGED <<k, printed>>
     ELSE IF gapString[k[t]] = 0
     THEN Goto(t, "done") /\ UNCHANGED <<k, printed>>
     ELSE /\ k' = [k EXCEPT ![t] = @ + 1]
          /\ printed' = [printed EXCEPT ![t] = @ + 1]
          /\ UNCHANGED pc
  /\ UNCHANGED <<gapString, firstTime, n>>

Next ==
  \E t \in Tracers :
    \/ \E depth \in Depths : GetIndentationString(t, depth)
    \/ TestFirstTime(t) \/ ClearFirstTime(t) \/ Memset(t) \/ Terminate(t)
    \/ ReturnPointer(t) \/ Sprintf(t)

Spec == Init /\ [][Next]_vars

-----------------------------------------------------------------------------
(***************************************************************************)
(* README.md:6: the library is thread-safe.  What a thread prints in front *)
(* of its line is as many spaces as its counter says.                      *)
(***************************************************************************)
PrintsIndentation ==
  \A t \in Tracers :
    /\ pc[t] = "done" => printed[t] = Clamped(n[t])
    /\ pc[t] = "outside" => n[t] >= Size

(***************************************************************************)
(* However many threads meet firstTime together, and whatever they print   *)
(* meanwhile, once the last of them has left the block the array holds     *)
(* Size - 1 spaces and the terminator, for good.                           *)
(***************************************************************************)
Building == {t \in Tracers : pc[t] \in {"clear", "memset", "terminate"}}

BuiltAfterRace ==
  ~ firstTime /\ Building = {} =>
    gapString = [j \in 0 .. Size - 1 |-> IF j = Size - 1 THEN 0 ELSE Space]

=============================================================================
