----------------------------- MODULE AtomicLog -----------------------------
(***************************************************************************)
(* What the logger promises (README.md:8): every message it accepts is     *)
(* logged, in the file that is open, as one complete line of its own, and  *)
(* a message that fits the output buffer keeps its text.                   *)
(***************************************************************************)
EXTENDS Naturals

CONSTANTS
  Paths, NoFile,   \* the log files, and the absence of one
  Ids              \* the calls of the logger

VARIABLES
  open,       \* the path of the open log file, or NoFile
  accepted,   \* the call that is being logged, or NoCall, and if it is short
  log         \* of every file, the lines at the places they stand at

vars == <<open, accepted, log>>

NoCall == [id |-> 0, short |-> TRUE]
Line(id, whole) == [id |-> id, of |-> id, whole |-> whole]
Header == Line(0, FALSE)   \* what a freshly opened log begins with
Blank  == [at \in {} |-> Header]

\* p is as it was, or blank, but for a new line below all others; the other
\* files are as they were.
AddLine(p, old, line) ==
  /\ log' = [log EXCEPT ![p] = log'[p]]
  /\ \E at \in DOMAIN log'[p] :
       /\ \A above \in DOMAIN old : above < at
       /\ log'[p] = [place \in DOMAIN old \cup {at} |->
                      IF place = at THEN line ELSE old[place]]

Init ==
  /\ open = NoFile
  /\ accepted = NoCall
  /\ log = [p \in Paths |-> Blank]

Accept(id, short) ==
  /\ accepted = NoCall /\ open # NoFile
  /\ accepted' = [id |-> id, short |-> short]
  /\ UNCHANGED <<open, log>>

\* A message too long for the buffer may lose its text, never another's line.
Write(whole) ==
  /\ accepted # NoCall
  /\ accepted.short => whole
  /\ AddLine(open, log[open], Line(accepted.id, whole))
  /\ accepted' = NoCall
  /\ UNCHANGED open

Open(p, old) ==
  /\ accepted = NoCall /\ open = NoFile
  /\ open' = p
  /\ AddLine(p, old, Header)
  /\ UNCHANGED accepted

Close ==
  /\ accepted = NoCall
  /\ open' = NoFile
  /\ UNCHANGED <<accepted, log>>

Next ==
  \/ \E id \in Ids, short \in BOOLEAN : Accept(id, short)
  \/ \E whole \in BOOLEAN : Write(whole)
  \/ \E p \in Paths : Open(p, Blank) \/ Open(p, log[p])
  \/ Close

Spec == Init /\ [][Next]_vars

=============================================================================
