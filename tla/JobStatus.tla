----------------------------- MODULE JobStatus -----------------------------
(***************************************************************************)
(* How the controller turns the append-only status events of a job into    *)
(* one status (internal/job/client/jobs.go).  The code does it twice: from *)
(* the event entries, for one job (computeStatusFromEvents), and from the  *)
(* key names alone, for the job list (computeStatusFromKeyNames).  A log   *)
(* is a function from host names to the set of events that host recorded;  *)
(* a key carries its own timestamp, so no event ever overwrites another.   *)
(***************************************************************************)
EXTENDS Naturals, FiniteSets

CONSTANTS
    Agents,     \* the host names of the agents
    Api         \* the reserved host name "_api" of the controller's own events

ASSUME ApiIsNoAgent == Api \notin Agents
ASSUME AgentsFinite == IsFiniteSet(Agents)

Hosts == Agents \cup {Api}

Outcomes       == {"completed", "failed", "skipped"}
TerminalEvents == Outcomes
Events == {"submitted", "acknowledged", "started", "retried"} \cup TerminalEvents

\* The agents' logs and the log of the controller itself, for one job.
Logs == [Hosts -> SUBSET Events]

(***************************************************************************)
(* StatusPriority: a higher event overwrites a lower one, so the order in  *)
(* which the bucket returns the keys does not matter.                      *)
(***************************************************************************)
StatusPriority ==
    [submitted |-> 0, acknowledged |-> 1, started |-> 2, failed |-> 3,
     skipped |-> 3, completed |-> 4, retried |-> 4]

\* "failed" and "skipped" tie: the first key in key order stays.  "completed"
\* and "retried" tie too, but no host writes both.
KeyOrder ==
    [acknowledged |-> 1, completed |-> 2, failed |-> 3, retried |-> 4,
     skipped |-> 5, started |-> 6, submitted |-> 7]

\* The event that stands for a host that recorded the events evs.
AgentState(evs) ==
    CHOOSE e \in evs : \A f \in evs :
        \/ StatusPriority[e] > StatusPriority[f]
        \/ StatusPriority[e] = StatusPriority[f] /\ KeyOrder[e] <= KeyOrder[f]

\* Hosts whose state is one of the events es, the controller left out.
InState(log, es) ==
    {a \in Agents : log[a] # {} /\ AgentState(log[a]) \in es}

\* What both functions report once no agent is active any more.
FinalStatus(completed, failed, skipped) ==
    IF failed > 0 /\ completed > 0 THEN "partial_failure"
    ELSE IF failed > 0 THEN "failed"
    ELSE IF skipped > 0 /\ completed = 0 THEN "skipped"
    ELSE "completed"

(***************************************************************************)
(* computeStatusFromEvents: the status GET /jobs/{id} reports.  An agent   *)
(* in a state it does not count leaves the default, "submitted".           *)
(***************************************************************************)
ComputedStatus(log) ==
    LET known     == {a \in Agents : log[a] # {}}
        active    == InState(log, {"started", "acknowledged"})
        completed == Cardinality(InState(log, {"completed"}))
        failed    == Cardinality(InState(log, {"failed"}))
        skipped   == Cardinality(InState(log, {"skipped"}))
    IN  IF known = {} THEN "submitted"
        ELSE IF active # {} THEN "processing"
        ELSE IF completed + failed + skipped = Cardinality(known)
             THEN FinalStatus(completed, failed, skipped)
             ELSE "submitted"

\* Mutant: a skipped host counts as a completed one.
ListedStatusWithoutSkips(log) ==
    LET completed == Cardinality(InState(log, {"completed", "retried", "skipped"}))
        failed    == Cardinality(InState(log, {"failed"}))
    IN  IF InState(log, Events \ {"submitted"}) = {} THEN "submitted"
        ELSE IF InState(log, {"started", "acknowledged"}) # {} THEN "processing"
        ELSE FinalStatus(completed, failed, 0)

(***************************************************************************)
(* computeStatusFromKeyNames: the status the job list and the queue        *)
(* summary report.  It counts a "retried" event of an agent as completed   *)
(* and forgets hosts in any other state.                                   *)
(***************************************************************************)
ListedStatus(log) ==
    LET active    == InState(log, {"started", "acknowledged"})
        completed == Cardinality(InState(log, {"completed", "retried"}))
        failed    == Cardinality(InState(log, {"failed"}))
        skipped   == Cardinality(InState(log, {"skipped"}))
    IN  IF completed + failed + skipped + Cardinality(active) = 0 THEN "submitted"
        ELSE IF active # {} THEN "processing"
        ELSE FinalStatus(completed, failed, skipped)
=============================================================================
