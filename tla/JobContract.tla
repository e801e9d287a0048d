---------------------------- MODULE JobContract ----------------------------
(***************************************************************************)
(* What osapi promises about one agent and one job to those who watch the  *)
(* job bucket and the stream, and know nothing of deliveries, calls,       *)
(* crashes and lost round trips: the agent reaches outcomes, stores the    *)
(* responses that carry them, announces them in its status events, and its *)
(* notification ends.  Nothing is taken back, and each comes after what it *)
(* tells about.                                                            *)
(***************************************************************************)
CONSTANTS
    Pairs,      \* an agent and a job
    Outcomes    \* completed, failed, skipped

VARIABLES
    decided,    \* outcomes the agent reached
    responses,  \* outcomes its stored responses carry
    announced,  \* outcomes its status events tell
    settled     \* open, acked or termed

vars == <<decided, responses, announced, settled>>

Init ==
    /\ decided = [p \in Pairs |-> {}]
    /\ responses = [p \in Pairs |-> {}]
    /\ announced = [p \in Pairs |-> {}]
    /\ settled = [p \in Pairs |-> "open"]

Decide(p, o) ==
    /\ decided' = [decided EXCEPT ![p] = @ \cup {o}]
    /\ UNCHANGED <<responses, announced, settled>>

Respond(p, o) ==
    /\ o \in decided[p]
    /\ responses' = [responses EXCEPT ![p] = @ \cup {o}]
    /\ UNCHANGED <<decided, announced, settled>>

\* A response that cannot be stored is announced as a failure.
Announce(p, o) ==
    /\ \/ o \in responses[p]
       \/ o = "failed" /\ decided[p] # {}
    /\ announced' = [announced EXCEPT ![p] = @ \cup {o}]
    /\ UNCHANGED <<decided, responses, settled>>

\* A job is acknowledged when it has an outcome ...
Acknowledge(p) ==
    /\ decided[p] # {}
    /\ settled[p] = "open"
    /\ settled' = [settled EXCEPT ![p] = "acked"]
    /\ UNCHANGED <<decided, responses, announced>>

\* ... and terminated when the agent cannot accept its data.
Terminate(p) ==
    /\ settled[p] = "open"
    /\ settled' = [settled EXCEPT ![p] = "termed"]
    /\ UNCHANGED <<decided, responses, announced>>

Next ==
    \E p \in Pairs :
        \/ \E o \in Outcomes : Decide(p, o) \/ Respond(p, o) \/ Announce(p, o)
        \/ Acknowledge(p) \/ Terminate(p)

Spec == Init /\ [][Next]_vars
=============================================================================
