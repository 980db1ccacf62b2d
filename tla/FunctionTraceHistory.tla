------------------------ MODULE FunctionTraceHistory ------------------------
(***************************************************************************)
(* FunctionTrace with two history variables that no action reads, to say   *)
(* what the comment at FunctionTrace.cpp:124-125 says of the cleanup:      *)
(* "Remove all threads that were last active more than                     *)
(* TRACE_THREAD_CLEANUP_TIME_DELTA_SECONDS seconds ago."                   *)
(***************************************************************************)
EXTENDS FunctionTrace

VARIABLES
  lastActive,    \* when each thread last started or ended a piece of tracing
  cleanupStart   \* when each thread last started a cleanup

hvars == <<vars, lastActive, cleanupStart>>

HInit ==
  /\ Init
  /\ lastActive = [t \in Threads |-> 0]
  /\ cleanupStart = [t \in Threads |-> 0]

HNext ==
  /\ Next
  /\ lastActive' = [t \in Threads |-> IF pc'[t] # pc[t] THEN now ELSE lastActive[t]]
  /\ cleanupStart' = [t \in Threads |-> IF pc[t] = "scan" /\ pc'[t] = "cleanup"
                                        THEN now ELSE cleanupStart[t]]

HSpec == HInit /\ [][HNext]_hvars

(***************************************************************************)
(* A thread whose slot is collected was last active more than              *)
(* CleanupDelta seconds ago.                                               *)
(***************************************************************************)
OnlyIdleCollected ==
  [][\A s \in Slots :
       threadId[s] \in Threads /\ threadId'[s] = NoThread
         => now - lastActive[threadId[s]] > CleanupDelta]_hvars

(***************************************************************************)
(* When a cleanup ends, no slot is left whose owner was already inactive   *)
(* for more than CleanupDelta seconds when the cleanup started.            *)
(***************************************************************************)
AllIdleCollected ==
  [][\A t \in Threads :
       pc[t] = "cleanup" /\ pc'[t] # "cleanup" =>
         \A s \in Slots :
           threadId[s] \in Threads
             => cleanupStart[t] - lastActive[threadId[s]] <= CleanupDelta]_hvars

=============================================================================
