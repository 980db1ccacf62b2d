----------------------------- MODULE CallTrace -----------------------------
(***************************************************************************)
(* What the function tracer promises: every line a thread prints, as it    *)
(* enters (>), leaves (<) or annotates a traced function, is indented by   *)
(* that thread's own call depth, whatever the other threads are doing.     *)
(* When a line is printed it does not promise: the thread waits for the    *)
(* logger's mutex, which favours nobody.                                   *)
(***************************************************************************)
EXTENDS Integers

CONSTANTS Threads, MaxDepth

VARIABLES
  depth,   \* how many traced functions each thread is inside
  line     \* the line the thread is about to print, NoLine if there is none

vars == <<depth, line>>

NoLine == [kind |-> "none"]

Init ==
  /\ depth = [t \in Threads |-> 0]
  /\ line = [t \in Threads |-> NoLine]

Prepare(t, kind, indent) ==
  /\ line[t] = NoLine
  /\ line' = [line EXCEPT ![t] = [kind |-> kind, indent |-> indent]]
  /\ UNCHANGED depth

Enter(t)    == depth[t] < MaxDepth /\ Prepare(t, "ctor", depth[t])
Leave(t)    == depth[t] > 0 /\ Prepare(t, "dtor", depth[t] - 1)
Annotate(t) == depth[t] > 0 /\ Prepare(t, "note", depth[t])

PrintLine(t) ==
  /\ line[t] # NoLine
  /\ line' = [line EXCEPT ![t] = NoLine]
  /\ depth' = [depth EXCEPT ![t] = IF line[t].kind = "ctor" THEN @ + 1
                                   ELSE IF line[t].kind = "dtor" THEN @ - 1 ELSE @]

Next == \E t \in Threads : Enter(t) \/ Leave(t) \/ Annotate(t) \/ PrintLine(t)

Spec == Init /\ [][Next]_vars

=============================================================================
