--------------------------- MODULE JobPollsProofs ---------------------------
(***************************************************************************)
(* What a poll may answer, and what the counts of a job list say, for      *)
(* every set of agents, jobs and slots and every bound.  A poll's two      *)
(* lists are of different moments; the argument is that everything listed  *)
(* was stored before, that nothing stored is taken back, and that the      *)
(* response of a terminal event was there when its key was listed, so the  *)
(* later list has it.                                                      *)
(***************************************************************************)
EXTENDS JobPolls, JobDeliveryProofs

\* What the poll has listed is in the bucket, with the responses it announces.
PollKnows ==
    /\ at \in {"idle", "list", "read"}
    /\ at # "idle" => polled \in Jobs
    /\ at # "idle" => \A a \in Agents :
           /\ statusKeys[a] \subseteq AgentEvents
           /\ \A e \in statusKeys[a] \cap TerminalEvents : AccountedFor(a, polled, e)
    /\ at = "read" => \A a \in Agents :
           /\ responseKeys[a] \subseteq decided[<<a, polled>>]
           /\ \A e \in statusKeys[a] \cap TerminalEvents :
                  e \in responseKeys[a] \/ (e = "failed" /\ faults > 0)

\* The inductive invariant.
PollInv == IInv /\ AgentLogs /\ PollKnows

\* Agents, the controller and the server work on while a poll is under way.
LEMMA WorkersStep ==
  ASSUME PollInv, [Next]_vars, UNCHANGED pollVars
  PROVE  PollKnows'
<1>1. CASE UNCHANGED vars
  BY <1>1 DEF PollInv, PollKnows, AccountedFor, pollVars, vars, bucketVars, historyVars
<1>2. CASE Next
  <2>1. Growth /\ faults \in Nat /\ faults' \in Nat
    BY <1>2, GrowthStep, JobDeliveryAssumption DEF PollInv, IInv, TypeOK, Growth
  <2>2. ASSUME NEW a \in Agents, NEW e, at # "idle", AccountedFor(a, polled, e)
        PROVE  AccountedFor(a, polled, e)'
    <3>1. PICK j \in Jobs : polled = j /\ polled' = j
      BY <2>2 DEF PollInv, PollKnows, pollVars
    <3>2. <<a, j>> \in Pairs
      BY DEF Pairs
    <3>3. QED
      BY <2>1, <2>2, <3>1, <3>2 DEF AccountedFor, Growth
  <2>3. ASSUME NEW a \in Agents, at = "read"
        PROVE  responseKeys[a] \subseteq decided'[<<a, polled>>]
    <3>1. <<a, polled>> \in Pairs /\ responseKeys[a] \subseteq decided[<<a, polled>>]
      BY <2>3 DEF PollInv, PollKnows, Pairs
    <3>2. QED
      BY <2>1, <3>1 DEF Growth
  <2>4. faults > 0 => faults' > 0
    BY <2>1 DEF Growth
  <2>5. QED
    BY <2>2, <2>3, <2>4 DEF PollInv, PollKnows, pollVars
<1>3. QED
  BY <1>1, <1>2

\* The first list takes events as they are, and their responses are stored.
LEMMA FirstList ==
  ASSUME PollInv, NEW j \in Polled, BeginPoll(j)
  PROVE  PollKnows'
<1>1. j \in Jobs /\ UNCHANGED <<events, responses, faults>>
  BY JobPollsAssumption DEF BeginPoll, vars, bucketVars
<1>2. at' = "list" /\ polled' = j /\ statusKeys' = events[j]
  BY DEF BeginPoll, List
<1>3. ASSUME NEW a \in Agents
      PROVE  /\ events[j][a] \subseteq AgentEvents
             /\ \A e \in events[j][a] \cap TerminalEvents :
                    e \in responses[<<a, j>>] \/ (e = "failed" /\ faults > 0)
  BY <1>1 DEF PollInv, IInv, AgentLogs, AgentsKeepTo, TerminalEventHasResponse
<1>4. QED
  BY <1>1, <1>2, <1>3 DEF PollKnows, AccountedFor

\* The second list has the responses the first one's events announce.
LEMMA SecondList ==
  ASSUME PollInv, ListAgain
  PROVE  PollKnows'
<1>1. /\ at = "list" /\ at' = "read" /\ polled \in Jobs /\ UNCHANGED <<polled, statusKeys>>
      /\ UNCHANGED <<responses, decided, faults>>
      /\ responseKeys' = Responses(polled)
  BY DEF ListAgain, List, vars, bucketVars, historyVars, PollInv, PollKnows
<1>2. ASSUME NEW a \in Agents
      PROVE  /\ responseKeys'[a] = responses[<<a, polled>>]
             /\ responses[<<a, polled>>] \subseteq decided[<<a, polled>>]
  BY <1>1 DEF Responses, Pairs, PollInv, IInv, AcknowledgedOnlyWhenDecided
<1>3. QED
  BY <1>1, <1>2 DEF PollInv, PollKnows, AccountedFor

\* Whatever step is taken, the poll's knowledge is right.
LEMMA PollStepKnows ==
  ASSUME PollInv, [PollNext]_<<vars, pollVars>>
  PROVE  PollInv'
<1>1. [Next]_vars
  BY DEF PollNext, PollStep, BeginPoll, ListAgain, EndPoll
<1>2. IInv'
  BY <1>1, StepIInv DEF PollInv
<1>3. AgentLogs'
  BY <1>1, AgentLogsStep DEF PollInv, IInv
<1>4. UNCHANGED pollVars => PollKnows'
  BY <1>1, WorkersStep
<1>5. ASSUME EndPoll PROVE PollKnows'
  BY <1>5 DEF EndPoll, PollEnds, PollKnows
<1>6. PollKnows'
  BY <1>4, <1>5, FirstList, SecondList DEF PollNext, PollStep
<1>7. QED
  BY <1>2, <1>3, <1>6 DEF PollInv

\* The inductive invariant holds in every reachable state.
THEOREM PollInvariance == PollSpec => []PollInv
<1>1. Init /\ PollInit => PollInv
  <2>1. Init => AgentLogs
    BY DEF Init, AgentLogs, AgentsKeepTo, Hosts
  <2>2. PollInit => PollKnows
    BY DEF PollInit, PollKnows
  <2>3. QED
    BY <2>1, <2>2, InitIInv DEF PollInv
<1>2. QED
  BY <1>1, PollStepKnows, PTL DEF PollSpec

(***************************************************************************)
(* A terminal state in a poll's answer comes with its response, and with   *)
(* the same outcome if the agent reached only one, for any number of       *)
(* agents and jobs and whatever values are missing.                        *)
(***************************************************************************)
THEOREM PolledOutcomesHaveResponses == PollSpec => []PolledOutcomeHasResponse
<1>1. PollInv => PolledOutcomeHasResponse
  <2> SUFFICES ASSUME PollInv, at = "read", NEW a \in Agents,
                      NEW missing \in SUBSET statusKeys[a], missing # statusKeys[a],
                      AnsweredState(a, missing) \in TerminalEvents
               PROVE  \/ AnsweredState(a, missing) = "failed" /\ faults > 0
                      \/ /\ responseKeys[a] # {}
                         /\ Cardinality(decided[<<a, polled>>]) = 1 =>
                                responseKeys[a] = {AnsweredState(a, missing)}
    BY DEF PolledOutcomeHasResponse
  <2> DEFINE e == AnsweredState(a, missing)
  <2>1. e \in statusKeys[a] \cap TerminalEvents
    <3>1. statusKeys[a] \ missing \in SUBSET AgentEvents /\ statusKeys[a] \ missing # {}
      BY DEF PollInv, PollKnows
    <3>2. QED
      BY <3>1, StateIsRecorded DEF AnsweredState
  <2>2. e \in responseKeys[a] \/ (e = "failed" /\ faults > 0)
    BY <2>1 DEF PollInv, PollKnows
  <2>3. responseKeys[a] \subseteq decided[<<a, polled>>]
    BY DEF PollInv, PollKnows
  <2>4. ASSUME Cardinality(decided[<<a, polled>>]) = 1, e \in responseKeys[a]
        PROVE  responseKeys[a] = {e}
    <3>1. decided[<<a, polled>>] \subseteq Outcomes
      BY DEF PollInv, PollKnows, IInv, TypeOK, Pairs
    <3>2. IsFiniteSet(Outcomes)
      <4>1. Outcomes = (({} \cup {"completed"}) \cup {"failed"}) \cup {"skipped"}
        BY DEF Outcomes
      <4>2. QED
        BY <4>1, FS_EmptySet, FS_AddElement
    <3>3. \E d : decided[<<a, polled>>] = {d}
      BY <2>4, <3>1, <3>2, FS_Subset, FS_Singleton
    <3>4. QED
      BY <2>3, <2>4, <3>3
  <2>5. QED
    BY <2>2, <2>4
<1>2. QED
  BY <1>1, PollInvariance, PTL

-----------------------------------------------------------------------------
(***************************************************************************)
(* How old an answer may be.                                               *)
(***************************************************************************)
\* What a poll listed is part of what the bucket holds.
ListedIsStored ==
    at # "idle" => \A a \in Agents : statusKeys[a] \subseteq events[polled][a]

\* A poll's answer, with whatever values missing, is a state the host is in or
\* one that its state now follows: never one it has not reached yet.
AnswersAreNotAhead ==
    at # "idle" => \A a \in Agents : \A missing \in SUBSET statusKeys[a] :
        missing # statusKeys[a] =>
            Follows(AnsweredState(a, missing), AgentState(events[polled][a]))

\* What is listed stays in the bucket while the poll goes on.
LEMMA ListedStep ==
  ASSUME PollInv, ListedIsStored, [PollNext]_<<vars, pollVars>>
  PROVE  ListedIsStored'
<1>1. [Next]_vars
  BY DEF PollNext, PollStep, BeginPoll, ListAgain, EndPoll
<1>2. \A a \in Agents, j \in Jobs : events[j][a] \subseteq events'[j][a]
  BY <1>1, EventsGrow DEF PollInv, IInv
<1>3. CASE UNCHANGED pollVars \/ ListAgain
  <2>1. at' # "idle" => at # "idle" /\ polled \in Jobs
    BY <1>3 DEF pollVars, ListAgain, PollInv, PollKnows
  <2>2. UNCHANGED <<polled, statusKeys>>
    BY <1>3 DEF pollVars, ListAgain, List
  <2>3. QED
    BY <1>2, <2>1, <2>2 DEF ListedIsStored
<1>4. ASSUME NEW j \in Polled, BeginPoll(j) PROVE ListedIsStored'
  BY <1>4 DEF BeginPoll, List, ListedIsStored, vars, bucketVars
<1>5. CASE EndPoll
  BY <1>5 DEF EndPoll, PollEnds, ListedIsStored
<1>6. QED
  BY <1>3, <1>4, <1>5 DEF PollNext, PollStep

(***************************************************************************)
(* However long a poll takes, and whatever deliveries, failures and        *)
(* retries come between its lists and its answer, the state it gives of a  *)
(* host is one the host has reached.                                       *)
(***************************************************************************)
THEOREM PollsAreNotAhead == PollSpec => []AnswersAreNotAhead
<1>1. Init /\ PollInit => ListedIsStored
  BY DEF PollInit, ListedIsStored
<1>2. PollInv /\ ListedIsStored /\ [PollNext]_<<vars, pollVars>> => ListedIsStored'
  BY ListedStep
<1>3. PollInv /\ ListedIsStored => AnswersAreNotAhead
  <2> SUFFICES ASSUME PollInv, ListedIsStored, at # "idle", NEW a \in Agents,
                      NEW missing \in SUBSET statusKeys[a], missing # statusKeys[a]
               PROVE  Follows(AnsweredState(a, missing), AgentState(events[polled][a]))
    BY DEF AnswersAreNotAhead
  <2>1. polled \in Jobs
    BY DEF PollInv, PollKnows
  <2>2. events[polled][a] \in SUBSET AgentEvents
    BY <2>1 DEF PollInv, AgentLogs, AgentsKeepTo
  <2>3. /\ statusKeys[a] \ missing \subseteq events[polled][a]
        /\ statusKeys[a] \ missing # {}
    BY DEF ListedIsStored
  <2>4. QED
    BY <2>2, <2>3, StateFollows DEF AnsweredState
<1>4. QED
  BY <1>1, <1>2, <1>3, PollInvariance, PTL DEF PollSpec

-----------------------------------------------------------------------------
(***************************************************************************)
(* The counts.                                                             *)
(***************************************************************************)
\* The list calls a job without status keys submitted.
LEMMA NoKeysMeanSubmitted == ListedStatus(NoEvents) = "submitted"
<1>1. \A es : InState(NoEvents, es) = {}
  BY DEF InState, NoEvents, Hosts
<1>2. QED
  BY <1>1, FS_EmptySet DEF ListedStatus

(***************************************************************************)
(* Each count of a job list is the number of jobs its filter shows, unless *)
(* a deleted job has status keys: for any number of jobs.                  *)
(***************************************************************************)
THEOREM CountsAreOfFilters ==
  ASSUME WithKeys \subseteq Listed, NEW st \in Statuses
  PROVE  StatusCount(st) = Cardinality(Matching(st))
<1> DEFINE keyed == {j \in WithKeys : ListedStatus(events[j]) = st}
           bare  == Listed \ WithKeys
<1>1. IsFiniteSet(Listed) /\ IsFiniteSet(WithKeys) /\ IsFiniteSet(keyed)
  BY JobPollsAssumption, FS_Subset DEF Listed, WithKeys
<1>2. IsFiniteSet(bare)
  BY <1>1, FS_Subset
<1>3. /\ Cardinality(Listed) \in Nat /\ Cardinality(WithKeys) \in Nat
      /\ Cardinality(bare) \in Nat /\ Cardinality(keyed) \in Nat
  BY <1>1, <1>2, FS_CardinalityType
<1>4. Cardinality(Listed) - Cardinality(WithKeys) = Cardinality(bare)
  <2>1. WithKeys \cup bare = Listed /\ WithKeys \cap bare = {}
    OBVIOUS
  <2>2. Cardinality(WithKeys \cup bare)
          = Cardinality(WithKeys) + Cardinality(bare) - Cardinality(WithKeys \cap bare)
    BY <1>1, <1>2, FS_Union
  <2>3. Cardinality(WithKeys \cap bare) = 0
    BY <2>1, FS_EmptySet
  <2>4. Cardinality(Listed) = Cardinality(WithKeys \cup bare)
    BY <2>1
  <2>5. QED
    BY <1>3, <2>2, <2>3, <2>4
<1>5. StatusCount(st) =
        Cardinality(keyed)
          + (IF st = "submitted" /\ Cardinality(bare) > 0 THEN Cardinality(bare) ELSE 0)
  BY <1>4 DEF StatusCount
<1>6. \A j \in bare : ListedStatus(events[j]) = "submitted"
  BY NoKeysMeanSubmitted DEF Listed, WithKeys
<1>7. CASE st = "submitted"
  <2>1. Matching(st) = keyed \cup bare /\ keyed \cap bare = {}
    BY <1>6, <1>7 DEF Matching, Listed, WithKeys
  <2>2. Cardinality(keyed \cup bare)
          = Cardinality(keyed) + Cardinality(bare) - Cardinality(keyed \cap bare)
    BY <1>1, <1>2, FS_Union
  <2>3. Cardinality(keyed \cap bare) = 0
    BY <2>1, FS_EmptySet
  <2>4. Cardinality(Matching(st)) = Cardinality(keyed) + Cardinality(bare)
    BY <1>3, <2>1, <2>2, <2>3
  <2>5. QED
    BY <1>3, <1>5, <1>7, <2>4
<1>8. CASE st # "submitted"
  <2>1. Matching(st) = keyed
    BY <1>6, <1>8 DEF Matching, Listed, WithKeys
  <2>2. QED
    BY <1>3, <1>5, <1>8, <2>1
<1>9. QED
  BY <1>7, <1>8
=============================================================================
