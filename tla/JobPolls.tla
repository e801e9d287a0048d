------------------------------ MODULE JobPolls ------------------------------
(***************************************************************************)
(* Clients that poll for a job while agents work on it: GetJobStatus and   *)
(* the counts of ListJobs (internal/job/client/jobs.go), next to the       *)
(* deliveries of JobDelivery.  A poll lists keys twice and reads values    *)
(* afterwards.  Event and response keys carry their own timestamp, so what *)
(* is under a listed key never changes: only the moments of the two lists  *)
(* matter, and the values that cannot be read.                             *)
(***************************************************************************)
EXTENDS JobDelivery

CONSTANT Polled     \* the jobs clients ask for

ASSUME JobPollsAssumption == Polled \subseteq Jobs /\ IsFiniteSet(Jobs)

VARIABLES
    at,             \* where the poll is
    polled,         \* the job it is about
    statusKeys,     \* the events whose keys it listed, by host
    responseKeys    \* the responses whose keys it listed, by host

pollVars == <<at, polled, statusKeys, responseKeys>>

NoEvents    == [h \in Hosts |-> {}]
NoResponses == [a \in Agents |-> {}]

PollEnds == at' = "idle" /\ polled' = NoJob
            /\ statusKeys' = NoEvents /\ responseKeys' = NoResponses

PollInit ==
    /\ at = "idle" /\ polled = NoJob
    /\ statusKeys = NoEvents /\ responseKeys = NoResponses

-----------------------------------------------------------------------------
Responses(j) == [a \in Agents |-> responses[<<a, j>>]]

\* Mutant: the response keys are listed before the status keys.
ListBackwards(n, j) ==
    IF n = 2
    THEN statusKeys' = events[j] /\ UNCHANGED responseKeys
    ELSE responseKeys' = Responses(j) /\ UNCHANGED statusKeys

\* The n-th list of a poll for j.
List(n, j) ==
    IF n = 1
    THEN statusKeys' = events[j] /\ UNCHANGED responseKeys
    ELSE responseKeys' = Responses(j) /\ UNCHANGED statusKeys

(***************************************************************************)
(* The job's own key is read before the first list: a job that is not      *)
(* there is an error; one that is not published has no answers yet.        *)
(***************************************************************************)
BeginPoll(j) ==
    /\ at = "idle"
    /\ job[j] = "present" /\ published[j]
    /\ at' = "list" /\ polled' = j
    /\ List(1, j)
    /\ UNCHANGED vars

ListAgain ==
    /\ at = "list"
    /\ at' = "read"
    /\ List(2, polled)
    /\ UNCHANGED <<vars, polled>>

\* A list that fails ends the poll with an error, the values end it with an answer.
EndPoll == at # "idle" /\ PollEnds /\ UNCHANGED vars

PollStep == (\E j \in Polled : BeginPoll(j)) \/ ListAgain \/ EndPoll

PollNext == (Next /\ UNCHANGED pollVars) \/ PollStep

PollSpec == Init /\ PollInit /\ [][PollNext]_<<vars, pollVars>> /\ Fairness

-----------------------------------------------------------------------------
(***************************************************************************)
(* The state the answer gives of host a: computeStatusFromEvents leaves    *)
(* out the events whose value it cannot read.                              *)
(***************************************************************************)
AnsweredState(a, missing) == AgentState(statusKeys[a] \ missing)

(***************************************************************************)
(* The counts of the job list: the statuses of all jobs that have status   *)
(* keys, plus the jobs with none, which are "submitted".                   *)
(***************************************************************************)
Listed    == {j \in Jobs : job[j] = "present"}
WithKeys  == {j \in Jobs : events[j] # NoEvents}
Statuses  == {"submitted", "processing", "completed", "failed", "skipped",
              "partial_failure"}

StatusCount(st) ==
    LET unknown == Cardinality(Listed) - Cardinality(WithKeys)
    IN  Cardinality({j \in WithKeys : ListedStatus(events[j]) = st})
        + (IF st = "submitted" /\ unknown > 0 THEN unknown ELSE 0)

\* The jobs a list filtered by a status shows.
Matching(st) == {j \in Listed : ListedStatus(events[j]) = st}

-----------------------------------------------------------------------------
(***************************************************************************)
(* Properties.                                                             *)
(***************************************************************************)
(***************************************************************************)
(* A client that reads an agent's terminal state in the answer of a poll   *)
(* finds that agent's response in the same answer, and it shows the same   *)
(* outcome, although the two lists are taken at different moments and      *)
(* events may be missing: unless the value of the response itself cannot   *)
(* be read or verified, or the agent reported that it could not store it.  *)
(* An agent that reached two outcomes has one row all the same, and it may *)
(* show the other outcome than the state does.                             *)
(***************************************************************************)
PolledOutcomeHasResponse ==
    at = "read" =>
        \A a \in Agents : \A missing \in SUBSET statusKeys[a] :
            LET state == AnsweredState(a, missing) IN
            (missing # statusKeys[a] /\ state \in TerminalEvents) =>
                \/ state = "failed" /\ faults > 0
                \/ /\ responseKeys[a] # {}
                   /\ Cardinality(decided[<<a, polled>>]) = 1 =>
                          responseKeys[a] = {state}
=============================================================================
