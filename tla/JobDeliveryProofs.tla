------------------------- MODULE JobDeliveryProofs -------------------------
(***************************************************************************)
(* Safety of JobDelivery for every set of agents, jobs and slots, and for  *)
(* every bound.  TypeOK, TerminalEventHasResponse and                      *)
(* AcknowledgedOnlyWhenDecided are not inductive: each says what the       *)
(* bucket holds, and what the next step writes to it depends on where the  *)
(* handler's calls are.  CallOK says what a call knows at each label.      *)
(***************************************************************************)
EXTENDS JobDelivery, FiniteSetTheorems, TLAPS

-----------------------------------------------------------------------------
(***************************************************************************)
(* The two status functions agree on every log in which the agents record  *)
(* neither "submitted" nor "retried", for any number of agents.  The one   *)
(* compares a sum of counts with the number of hosts it knows, the other   *)
(* never counts those hosts: they agree because every host has exactly one *)
(* state, so the hosts by state partition the known ones.                  *)
(***************************************************************************)
\* What an agent may write about a job.
AgentEvents == {"acknowledged", "started"} \cup Outcomes

\* The logs in which every agent keeps to that.
AgentsKeepTo(log) == \A a \in Agents : log[a] \subseteq AgentEvents

\* The event e stands for the events evs.
StandsFor(e, evs) ==
    \A f \in evs :
        \/ StatusPriority[e] > StatusPriority[f]
        \/ StatusPriority[e] = StatusPriority[f] /\ KeyOrder[e] <= KeyOrder[f]

\* Priority and key order rank the agents' events.
LEMMA Ranks ==
    /\ \A e \in AgentEvents : StandsFor("completed", {e})
    /\ \A e \in AgentEvents \ {"completed"} : StandsFor("failed", {e})
    /\ \A e \in AgentEvents \ {"completed", "failed"} : StandsFor("skipped", {e})
    /\ \A e \in {"started", "acknowledged"} : StandsFor("started", {e})
    /\ StandsFor("acknowledged", {"acknowledged"})
  BY DEF AgentEvents, Outcomes, StandsFor, StatusPriority, KeyOrder

\* The state of a host that recorded something is one of the events it recorded,
\* and stands for them all.
LEMMA StateIsRecorded ==
  ASSUME NEW evs \in SUBSET AgentEvents, evs # {}
  PROVE  AgentState(evs) \in evs /\ StandsFor(AgentState(evs), evs)
<1>1. ASSUME NEW e \in evs, \A f \in evs : StandsFor(e, {f})
      PROVE  AgentState(evs) \in evs /\ StandsFor(AgentState(evs), evs)
  <2>1. StandsFor(e, evs)
    BY <1>1 DEF StandsFor
  <2>2. QED
    BY <2>1 DEF AgentState, StandsFor
<1>2. CASE "completed" \in evs
  BY <1>1, <1>2, Ranks
<1>3. CASE "completed" \notin evs /\ "failed" \in evs
  BY <1>1, <1>3, Ranks
<1>4. CASE "completed" \notin evs /\ "failed" \notin evs /\ "skipped" \in evs
  BY <1>1, <1>4, Ranks
<1>5. CASE evs \cap Outcomes = {} /\ "started" \in evs
  BY <1>1, <1>5, Ranks DEF AgentEvents
<1>6. CASE evs = {"acknowledged"}
  BY <1>1, <1>6, Ranks
<1>7. QED
  BY <1>2, <1>3, <1>4, <1>5, <1>6 DEF AgentEvents, Outcomes

\* Hosts that recorded anything.
Known(log) == {a \in Agents : log[a] # {}}

\* Every known host is in one of the states the functions count.
LEMMA KnownHosts ==
  ASSUME NEW log, AgentsKeepTo(log)
  PROVE  Known(log) = InState(log, AgentEvents)
<1>1. ASSUME NEW a \in Known(log) PROVE AgentState(log[a]) \in AgentEvents
  BY StateIsRecorded DEF Known, AgentsKeepTo
<1>2. QED
  BY <1>1 DEF Known, InState

\* Hosts in one of two disjoint sets of states are counted by each set alone.
LEMMA DisjointStates ==
  ASSUME NEW log, NEW es, NEW fs, es \cap fs = {}
  PROVE  /\ Cardinality(InState(log, es)) \in Nat
         /\ Cardinality(InState(log, es \cup fs))
              = Cardinality(InState(log, es)) + Cardinality(InState(log, fs))
<1>1. /\ InState(log, es) \subseteq Agents /\ InState(log, fs) \subseteq Agents
      /\ InState(log, es \cup fs) = InState(log, es) \cup InState(log, fs)
      /\ InState(log, es) \cap InState(log, fs) = {}
  BY DEF InState
<1>2. IsFiniteSet(InState(log, es)) /\ IsFiniteSet(InState(log, fs))
  BY <1>1, AgentsFinite, FS_Subset
<1>3. Cardinality(InState(log, es)) \in Nat /\ Cardinality(InState(log, fs)) \in Nat
  BY <1>2, FS_CardinalityType
<1>4. Cardinality(InState(log, es) \cap InState(log, fs)) = 0
  BY <1>1, FS_EmptySet
<1>5. Cardinality(InState(log, es) \cup InState(log, fs))
        = Cardinality(InState(log, es)) + Cardinality(InState(log, fs))
            - Cardinality(InState(log, es) \cap InState(log, fs))
  BY <1>2, FS_Union
<1>6. Cardinality(InState(log, es \cup fs))
        = Cardinality(InState(log, es) \cup InState(log, fs))
  BY <1>1
<1>7. QED
  BY <1>3, <1>4, <1>5, <1>6

\* The counts by state add up to the number of known hosts.
LEMMA CountsAddUp ==
  ASSUME NEW log, AgentsKeepTo(log)
  PROVE  LET completed == Cardinality(InState(log, {"completed"}))
             failed    == Cardinality(InState(log, {"failed"}))
             skipped   == Cardinality(InState(log, {"skipped"}))
             active    == Cardinality(InState(log, {"started", "acknowledged"}))
         IN  /\ {completed, failed, skipped, active} \subseteq Nat
             /\ Cardinality(Known(log)) = completed + failed + skipped + active
<1> DEFINE C == {"completed"}  F == {"failed"}  S == {"skipped"}
           A == {"started", "acknowledged"}
<1>1. AgentEvents = C \cup (F \cup (S \cup A))
  BY DEF AgentEvents, Outcomes
<1>2. /\ C \cap (F \cup (S \cup A)) = {} /\ F \cap (S \cup A) = {} /\ S \cap A = {}
      /\ A \cap {} = {}
  OBVIOUS
<1>3. /\ Cardinality(InState(log, C)) \in Nat
      /\ Cardinality(InState(log, C \cup (F \cup (S \cup A))))
           = Cardinality(InState(log, C)) + Cardinality(InState(log, F \cup (S \cup A)))
  BY <1>2, DisjointStates
<1>4. /\ Cardinality(InState(log, F)) \in Nat
      /\ Cardinality(InState(log, F \cup (S \cup A)))
           = Cardinality(InState(log, F)) + Cardinality(InState(log, S \cup A))
  BY <1>2, DisjointStates
<1>5. /\ Cardinality(InState(log, S)) \in Nat
      /\ Cardinality(InState(log, S \cup A))
           = Cardinality(InState(log, S)) + Cardinality(InState(log, A))
  BY <1>2, DisjointStates
<1>6. Cardinality(InState(log, A)) \in Nat
  BY <1>2, DisjointStates
<1>7. Known(log) = InState(log, C \cup (F \cup (S \cup A)))
  BY <1>1, KnownHosts
<1> HIDE DEF C, F, S, A
<1>8. /\ {Cardinality(InState(log, C)), Cardinality(InState(log, F)),
          Cardinality(InState(log, S)), Cardinality(InState(log, A))} \subseteq Nat
      /\ Cardinality(Known(log)) = Cardinality(InState(log, C))
           + Cardinality(InState(log, F)) + Cardinality(InState(log, S))
           + Cardinality(InState(log, A))
  BY <1>3, <1>4, <1>5, <1>6, <1>7
<1>9. QED
  BY <1>8 DEF C, F, S, A

(***************************************************************************)
(* computeStatusFromEvents and computeStatusFromKeyNames agree whatever    *)
(* the controller's own events are.                                        *)
(***************************************************************************)
THEOREM StatusesAgree ==
  ASSUME NEW log, AgentsKeepTo(log)
  PROVE  ComputedStatus(log) = ListedStatus(log)
<1> DEFINE completed == Cardinality(InState(log, {"completed"}))
           failed    == Cardinality(InState(log, {"failed"}))
           skipped   == Cardinality(InState(log, {"skipped"}))
           active    == InState(log, {"started", "acknowledged"})
<1>1. InState(log, {"completed", "retried"}) = InState(log, {"completed"})
  <2>1. ASSUME NEW a \in Agents, log[a] # {} PROVE AgentState(log[a]) # "retried"
    BY <2>1, StateIsRecorded DEF AgentsKeepTo, AgentEvents, Outcomes
  <2>2. QED
    BY <2>1 DEF InState
<1>2. /\ completed \in Nat /\ failed \in Nat /\ skipped \in Nat
      /\ Cardinality(active) \in Nat
      /\ Cardinality(Known(log)) = completed + failed + skipped + Cardinality(active)
  BY CountsAddUp
<1>3. /\ Cardinality(active) = 0 <=> active = {}
      /\ Cardinality(Known(log)) = 0 <=> Known(log) = {}
  BY AgentsFinite, FS_Subset, FS_EmptySet DEF InState, Known
<1>4. ComputedStatus(log) =
        IF Known(log) = {} THEN "submitted"
        ELSE IF active # {} THEN "processing"
        ELSE IF completed + failed + skipped = Cardinality(Known(log))
             THEN FinalStatus(completed, failed, skipped)
             ELSE "submitted"
  BY DEF ComputedStatus, Known
<1>5. ListedStatus(log) =
        IF completed + failed + skipped + Cardinality(active) = 0 THEN "submitted"
        ELSE IF active # {} THEN "processing"
        ELSE FinalStatus(completed, failed, skipped)
  BY <1>1 DEF ListedStatus
<1> HIDE DEF completed, failed, skipped, active
<1>6. QED
  BY <1>2, <1>3, <1>4, <1>5

-----------------------------------------------------------------------------
(***************************************************************************)
(* The inductive invariant of a delivery.                                  *)
(***************************************************************************)

\* What is known of the handler call of slot h[2] of agent h[1].
CallOK(h) ==
    /\ pc[h] # "idle" => work[h] \in Jobs
    /\ pc[h] \in {"respond", "last event", "store failed", "ack"} =>
           outcome[h] \in decided[<<h[1], work[h]>>]
    /\ pc[h] = "last event" => outcome[h] \in responses[<<h[1], work[h]>>]
    /\ pc[h] = "store failed" => faults > 0
    /\ pc[h] = "skip" => responses[<<h[1], work[h]>>] # {}

\* A job that is being retried knows the job it was made from.
RetriesOK == \A j \in Jobs : caller[j] = "published" => origin[j] \in Jobs

CallsOK == \A h \in Agents \X Slots : CallOK(h)

\* The inductive invariant.
IInv ==
    /\ TypeOK
    /\ RetriesOK
    /\ CallsOK
    /\ TerminalEventHasResponse
    /\ AcknowledgedOnlyWhenDecided

-----------------------------------------------------------------------------
(***************************************************************************)
(* The initial states.                                                     *)
(***************************************************************************)
\* Nothing is stored, published or running at first: the types hold.
LEMMA InitTyped == Init => TypeOK
  BY JobDeliveryAssumption DEF Init, TypeOK, Logs, Pairs, CallerStates, Labels

\* The inductive invariant holds before the first job is created.
LEMMA InitIInv == Init => IInv
<1> SUFFICES ASSUME Init PROVE IInv
  OBVIOUS
<1>1. TypeOK
  BY InitTyped
<1>2. RetriesOK /\ CallsOK
  BY DEF Init, RetriesOK, CallsOK, CallOK
<1>3. TerminalEventHasResponse
  BY DEF Init, TerminalEventHasResponse, Hosts
<1>4. AcknowledgedOnlyWhenDecided
  BY DEF Init, AcknowledgedOnlyWhenDecided
<1>5. QED
  BY <1>1, <1>2, <1>3, <1>4 DEF IInv

-----------------------------------------------------------------------------
(***************************************************************************)
(* Types.                                                                  *)
(***************************************************************************)

\* A round trip, failed or not, keeps the fault count within its bound.
LEMMA FaultsTyped ==
  ASSUME TypeOK, Succeeds \/ Fails
  PROVE  faults' \in 0..MaxFaults /\ faults' \in Nat /\ faults' >= faults
  BY JobDeliveryAssumption DEF TypeOK, Succeeds, Fails

\* Recording one more event keeps the logs logs.
LEMMA RecordTyped ==
  ASSUME TypeOK, NEW j \in Jobs, NEW h \in Hosts, NEW e \in Events, Record(j, h, e)
  PROVE  events' \in [Jobs -> Logs]
  BY DEF TypeOK, Record, Logs

\* Settling a message, in either way, keeps its consumer's state well typed.
LEMMA SettleTyped ==
  ASSUME TypeOK, NEW a, NEW j, NEW how \in {"acked", "termed"}, Settle(a, j, how)
  PROVE  /\ settled' \in [Pairs -> {"open", "acked", "termed"}]
         /\ outstanding' \in [Pairs -> BOOLEAN]
  BY DEF TypeOK, Settle

\* A call that is not idle holds a job.
LEMMA CallTyped ==
  ASSUME TypeOK, CallsOK, NEW a \in Agents, NEW s \in Slots, pc[<<a, s>>] # "idle"
  PROVE  work[<<a, s>>] \in Jobs /\ CallPair(a, s) \in Pairs
  BY DEF TypeOK, CallsOK, CallOK, CallPair, Pairs

\* No step of the controller, the server or an agent leaves the types.
LEMMA TypedStep ==
  ASSUME TypeOK, RetriesOK, CallsOK, Next
  PROVE  TypeOK'
<1> USE DEF bucketVars, callerVars, consumerVars, handlerVars, historyVars
<1>1. ASSUME NEW j \in Jobs, StoreJob(j) PROVE TypeOK'
  BY <1>1, FaultsTyped DEF TypeOK, StoreJob, CallerStates, Labels, Succeeds, Fails
<1>2. ASSUME NEW j \in Jobs, RecordSubmitted(j) PROVE TypeOK'
  <2>1. events' \in [Jobs -> Logs]
    BY <1>2, RecordTyped DEF RecordSubmitted, Hosts, Events
  <2>2. QED
    BY <1>2, <2>1, FaultsTyped DEF TypeOK, RecordSubmitted, CallerStates
<1>3. ASSUME NEW j \in Jobs, PublishNotification(j) PROVE TypeOK'
  BY <1>3, FaultsTyped DEF TypeOK, PublishNotification, CallerStates, Labels
<1>4. ASSUME NEW j \in Jobs, RecordRetried(j) PROVE TypeOK'
  <2>1. origin[j] \in Jobs
    BY <1>4 DEF RetriesOK, RecordRetried
  <2>2. events' \in [Jobs -> Logs]
    BY <1>4, <2>1, RecordTyped DEF RecordRetried, Hosts, Events, TypeOK
  <2>3. QED
    BY <1>4, <2>2, FaultsTyped DEF TypeOK, RecordRetried, CallerStates
<1>5. ASSUME NEW j \in Jobs, DeleteJob(j) PROVE TypeOK'
  BY <1>5, FaultsTyped DEF TypeOK, DeleteJob, CallerStates, Labels
<1>6. ASSUME NEW j \in Jobs, NEW k \in Jobs, RetryJob(k, j) PROVE TypeOK'
  BY <1>6, FaultsTyped DEF TypeOK, RetryJob, CallerStates, Labels
<1>7. ASSUME NEW a \in Agents, NEW j \in Jobs, AckDeadlinePasses(a, j) PROVE TypeOK'
  <2>1. <<a, j>> \in Pairs
    BY DEF Pairs
  <2>2. outstanding' \in [Pairs -> BOOLEAN] /\ dlq' \in SUBSET Pairs
    BY <1>7, <2>1 DEF TypeOK, AckDeadlinePasses
  <2>3. QED
    BY <1>7, <2>2 DEF TypeOK, AckDeadlinePasses
<1>8. ASSUME NEW a \in Agents, NEW s \in Slots, NEW j \in Jobs, Deliver(a, s, j)
      PROVE  TypeOK'
  <2>1. <<a, j>> \in Pairs
    BY DEF Pairs
  <2>2. delivered' \in [Pairs -> 0..MaxDeliver] /\ outstanding' \in [Pairs -> BOOLEAN]
    BY <1>8, <2>1, JobDeliveryAssumption DEF TypeOK, Deliver
  <2>3. /\ pc' \in [Agents \X Slots -> Labels]
        /\ work' \in [Agents \X Slots -> Jobs \cup {NoJob}]
    BY <1>8 DEF TypeOK, Deliver, Labels
  <2>4. QED
    BY <1>8, <2>2, <2>3 DEF TypeOK, Deliver
<1>9. ASSUME NEW a \in Agents, NEW s \in Slots, CheckAnswered(a, s) PROVE TypeOK'
  BY <1>9, CallTyped, FaultsTyped DEF TypeOK, CheckAnswered, GoTo, Labels
<1>10. ASSUME NEW a \in Agents, NEW s \in Slots, LoadJob(a, s) PROVE TypeOK'
  <2>1. faults' \in 0..MaxFaults
    BY <1>10, FaultsTyped DEF LoadJob
  <2>2. /\ settled' \in [Pairs -> {"open", "acked", "termed"}]
        /\ outstanding' \in [Pairs -> BOOLEAN]
    BY <1>10, SettleTyped DEF TypeOK, LoadJob
  <2>3. /\ pc' \in [Agents \X Slots -> Labels]
        /\ work' \in [Agents \X Slots -> Jobs \cup {NoJob}]
        /\ outcome' \in [Agents \X Slots -> Outcomes \cup {NoOutcome}]
    BY <1>10 DEF TypeOK, LoadJob, GoTo, EndCall, Labels
  <2>4. QED
    BY <1>10, <2>1, <2>2, <2>3 DEF TypeOK, LoadJob
<1>11. ASSUME NEW a \in Agents, NEW s \in Slots, WriteAcknowledged(a, s) PROVE TypeOK'
  <2>1. events' \in [Jobs -> Logs]
    BY <1>11, CallTyped, RecordTyped
       DEF TypeOK, WriteAcknowledged, WriteEvent, Hosts, Events, TerminalEvents, Outcomes
  <2>2. QED
    BY <1>11, <2>1, FaultsTyped DEF TypeOK, WriteAcknowledged, WriteEvent, GoTo, Labels
<1>12. ASSUME NEW a \in Agents, NEW s \in Slots, WriteStarted(a, s) PROVE TypeOK'
  <2>1. events' \in [Jobs -> Logs]
    BY <1>12, CallTyped, RecordTyped
       DEF TypeOK, WriteStarted, WriteEvent, Hosts, Events, TerminalEvents, Outcomes
  <2>2. QED
    BY <1>12, <2>1, FaultsTyped DEF TypeOK, WriteStarted, WriteEvent, GoTo, Labels
<1>13. ASSUME NEW a \in Agents, NEW s \in Slots, RunOperation(a, s) PROVE TypeOK'
  <2>1. CallPair(a, s) \in Pairs /\ pc' \in [Agents \X Slots -> Labels]
    BY <1>13, CallTyped DEF TypeOK, RunOperation, Decide, GoTo, Labels
  <2>2. execs' \in [Pairs -> Nat]
    BY <1>13, <2>1 DEF TypeOK, RunOperation
  <2>3. decided' \in [Pairs -> SUBSET Outcomes]
    BY <1>13, <2>1 DEF TypeOK, RunOperation, Decide
  <2>4. QED
    BY <1>13, <2>1, <2>2, <2>3 DEF TypeOK, RunOperation, Decide
<1>14. ASSUME NEW a \in Agents, NEW s \in Slots, FactsUnresolved(a, s) PROVE TypeOK'
  <2>1. CallPair(a, s) \in Pairs /\ pc' \in [Agents \X Slots -> Labels]
    BY <1>14, CallTyped DEF TypeOK, FactsUnresolved, Decide, GoTo, Labels
  <2>2. decided' \in [Pairs -> SUBSET Outcomes]
    BY <1>14, <2>1 DEF TypeOK, FactsUnresolved, Decide, Outcomes
  <2>3. QED
    BY <1>14, <2>1, <2>2 DEF TypeOK, FactsUnresolved, Decide, Outcomes
<1>15. ASSUME NEW a \in Agents, NEW s \in Slots, StoreResponse(a, s) PROVE TypeOK'
  <2>1. outcome[<<a, s>>] \in Outcomes
    BY <1>15, CallTyped DEF StoreResponse, CallsOK, CallOK, TypeOK, CallPair
  <2>2. CallPair(a, s) \in Pairs /\ pc' \in [Agents \X Slots -> Labels]
    BY <1>15, CallTyped DEF TypeOK, StoreResponse, GoTo, Labels
  <2>3. responses' \in [Pairs -> SUBSET Outcomes]
    <3>1. responses[CallPair(a, s)] \cup {outcome[<<a, s>>]} \in SUBSET Outcomes
      BY <2>1, <2>2 DEF TypeOK
    <3>2. responses \in [Pairs -> SUBSET Outcomes]
      BY DEF TypeOK
    <3>3. QED
      BY <1>15, <3>1, <3>2 DEF StoreResponse, WithResponse
  <2>4. QED
    BY <1>15, <2>2, <2>3, FaultsTyped DEF TypeOK, StoreResponse
<1>16. ASSUME NEW a \in Agents, NEW s \in Slots, WriteStoreFailed(a, s) PROVE TypeOK'
  <2>1. events' \in [Jobs -> Logs]
    BY <1>16, CallTyped, RecordTyped
       DEF TypeOK, WriteStoreFailed, WriteEvent, Hosts, Events, TerminalEvents, Outcomes
  <2>2. QED
    BY <1>16, <2>1, FaultsTyped DEF TypeOK, WriteStoreFailed, WriteEvent, GoTo, Labels
<1>17. ASSUME NEW a \in Agents, NEW s \in Slots, WriteTerminal(a, s) PROVE TypeOK'
  <2>1. outcome[<<a, s>>] \in Outcomes
    BY <1>17, CallTyped DEF WriteTerminal, CallsOK, CallOK, TypeOK, CallPair
  <2>2. events' \in [Jobs -> Logs]
    BY <1>17, <2>1, CallTyped, RecordTyped
       DEF TypeOK, WriteTerminal, WriteEvent, Hosts, Events, TerminalEvents
  <2>3. QED
    BY <1>17, <2>2, FaultsTyped DEF TypeOK, WriteTerminal, WriteEvent, GoTo, Labels
<1>18. ASSUME NEW a \in Agents, NEW s \in Slots, Acknowledge(a, s) PROVE TypeOK'
  <2>1. /\ settled' \in [Pairs -> {"open", "acked", "termed"}]
        /\ outstanding' \in [Pairs -> BOOLEAN]
    BY <1>18, SettleTyped DEF TypeOK, Acknowledge
  <2>2. faults' \in 0..MaxFaults
    BY <1>18, FaultsTyped DEF Acknowledge
  <2>3. /\ pc' \in [Agents \X Slots -> Labels]
        /\ work' \in [Agents \X Slots -> Jobs \cup {NoJob}]
        /\ outcome' \in [Agents \X Slots -> Outcomes \cup {NoOutcome}]
    BY <1>18 DEF TypeOK, Acknowledge, EndCall, Labels
  <2>4. QED
    BY <1>18, <2>1, <2>2, <2>3 DEF TypeOK, Acknowledge
<1>19. ASSUME NEW a \in Agents, Crash(a) PROVE TypeOK'
  <2>1. pc' \in [Agents \X Slots -> Labels]
    BY <1>19 DEF TypeOK, Crash, Labels
  <2>2. work' \in [Agents \X Slots -> Jobs \cup {NoJob}]
    BY <1>19 DEF TypeOK, Crash
  <2>3. outcome' \in [Agents \X Slots -> Outcomes \cup {NoOutcome}]
    BY <1>19 DEF TypeOK, Crash
  <2>4. crashes' \in 0..MaxCrashes
    BY <1>19, JobDeliveryAssumption DEF TypeOK, Crash
  <2>5. QED
    BY <1>19, <2>1, <2>2, <2>3, <2>4 DEF TypeOK, Crash
<1>20. QED
  BY <1>1, <1>2, <1>3, <1>4, <1>5, <1>6, <1>7, <1>8, <1>9, <1>10, <1>11,
     <1>12, <1>13, <1>14, <1>15, <1>16, <1>17, <1>18, <1>19
     DEF Next, CreateStep, HandlerStep

-----------------------------------------------------------------------------
(***************************************************************************)
(* What only grows: the fault count, the stored responses, the outcomes.   *)
(***************************************************************************)
Growth ==
    /\ faults' \in Nat /\ faults' >= faults
    /\ \A p \in Pairs :
           responses[p] \subseteq responses'[p] /\ decided[p] \subseteq decided'[p]

\* No step deletes a response, un-decides an outcome or takes a fault back.
LEMMA GrowthStep ==
  ASSUME TypeOK, Next
  PROVE  Growth
<1> USE DEF bucketVars, callerVars, consumerVars, handlerVars, historyVars
<1>1. ASSUME NEW j \in Jobs, StoreJob(j) PROVE Growth
  BY <1>1, FaultsTyped DEF Growth, StoreJob
<1>2. ASSUME NEW j \in Jobs, RecordSubmitted(j) PROVE Growth
  BY <1>2, FaultsTyped DEF Growth, RecordSubmitted
<1>3. ASSUME NEW j \in Jobs, PublishNotification(j) PROVE Growth
  BY <1>3, FaultsTyped DEF Growth, PublishNotification
<1>4. ASSUME NEW j \in Jobs, RecordRetried(j) PROVE Growth
  BY <1>4, FaultsTyped DEF Growth, RecordRetried
<1>5. ASSUME NEW j \in Jobs, DeleteJob(j) PROVE Growth
  BY <1>5, JobDeliveryAssumption DEF Growth, TypeOK, DeleteJob
<1>6. ASSUME NEW j \in Jobs, NEW k \in Jobs, RetryJob(k, j) PROVE Growth
  BY <1>6, JobDeliveryAssumption DEF Growth, TypeOK, RetryJob
<1>7. ASSUME NEW a \in Agents, NEW j \in Jobs, AckDeadlinePasses(a, j) PROVE Growth
  BY <1>7, JobDeliveryAssumption DEF Growth, TypeOK, AckDeadlinePasses
<1>8. ASSUME NEW a \in Agents, NEW s \in Slots, NEW j \in Jobs, Deliver(a, s, j)
      PROVE  Growth
  BY <1>8, JobDeliveryAssumption DEF Growth, TypeOK, Deliver
<1>9. ASSUME NEW a \in Agents, NEW s \in Slots, CheckAnswered(a, s) PROVE Growth
  BY <1>9, FaultsTyped DEF Growth, CheckAnswered
<1>10. ASSUME NEW a \in Agents, NEW s \in Slots, LoadJob(a, s) PROVE Growth
  BY <1>10, FaultsTyped DEF Growth, LoadJob
<1>11. ASSUME NEW a \in Agents, NEW s \in Slots, WriteAcknowledged(a, s) PROVE Growth
  BY <1>11, FaultsTyped DEF Growth, WriteAcknowledged, WriteEvent
<1>12. ASSUME NEW a \in Agents, NEW s \in Slots, WriteStarted(a, s) PROVE Growth
  BY <1>12, FaultsTyped DEF Growth, WriteStarted, WriteEvent
<1>13. ASSUME NEW a \in Agents, NEW s \in Slots, RunOperation(a, s) PROVE Growth
  BY <1>13, JobDeliveryAssumption DEF Growth, TypeOK, RunOperation, Decide
<1>14. ASSUME NEW a \in Agents, NEW s \in Slots, FactsUnresolved(a, s) PROVE Growth
  BY <1>14, JobDeliveryAssumption DEF Growth, TypeOK, FactsUnresolved, Decide
<1>15. ASSUME NEW a \in Agents, NEW s \in Slots, StoreResponse(a, s) PROVE Growth
  <2>1. faults' \in Nat /\ faults' >= faults
    BY <1>15, FaultsTyped DEF StoreResponse
  <2>2. \A p \in Pairs : responses[p] \subseteq responses'[p]
    BY <1>15 DEF TypeOK, StoreResponse, WithResponse
  <2>3. QED
    BY <1>15, <2>1, <2>2 DEF Growth, StoreResponse
<1>16. ASSUME NEW a \in Agents, NEW s \in Slots, WriteStoreFailed(a, s) PROVE Growth
  BY <1>16, FaultsTyped DEF Growth, WriteStoreFailed, WriteEvent
<1>17. ASSUME NEW a \in Agents, NEW s \in Slots, WriteTerminal(a, s) PROVE Growth
  BY <1>17, FaultsTyped DEF Growth, WriteTerminal, WriteEvent
<1>18. ASSUME NEW a \in Agents, NEW s \in Slots, Acknowledge(a, s) PROVE Growth
  BY <1>18, FaultsTyped DEF Growth, Acknowledge
<1>19. ASSUME NEW a \in Agents, Crash(a) PROVE Growth
  BY <1>19, JobDeliveryAssumption DEF Growth, TypeOK, Crash
<1>20. QED
  BY <1>1, <1>2, <1>3, <1>4, <1>5, <1>6, <1>7, <1>8, <1>9, <1>10, <1>11,
     <1>12, <1>13, <1>14, <1>15, <1>16, <1>17, <1>18, <1>19
     DEF Next, CreateStep, HandlerStep

-----------------------------------------------------------------------------
(***************************************************************************)
(* The handler's calls.                                                    *)
(***************************************************************************)

\* The types of the handler's state, for steps that need no other.
LEMMA HandlerTyped ==
  ASSUME TypeOK
  PROVE  /\ pc \in [Agents \X Slots -> Labels]
         /\ work \in [Agents \X Slots -> Jobs \cup {NoJob}]
         /\ outcome \in [Agents \X Slots -> Outcomes \cup {NoOutcome}]
  BY DEF TypeOK

\* A call that did not move keeps what it knows.
LEMMA CallKept ==
  ASSUME TypeOK, Growth, NEW h \in Agents \X Slots, CallOK(h),
         pc'[h] = pc[h], work'[h] = work[h], outcome'[h] = outcome[h]
  PROVE  CallOK(h)'
<1>1. work[h] \in Jobs => <<h[1], work[h]>> \in Pairs
  BY DEF Pairs
<1>2. faults > 0 => faults' > 0
  BY JobDeliveryAssumption DEF TypeOK, Growth
<1>3. QED
  BY <1>1, <1>2 DEF CallOK, Growth

\* A step that moves the call of slot s of agent a only.
MovesOnly(a, s) ==
    \A h \in Agents \X Slots : h # <<a, s>> =>
        pc'[h] = pc[h] /\ work'[h] = work[h] /\ outcome'[h] = outcome[h]

\* If only one call moved, and it knows what it should, all calls do.
LEMMA OtherCallsKept ==
  ASSUME TypeOK, CallsOK, Growth, NEW a \in Agents, NEW s \in Slots,
         MovesOnly(a, s), CallOK(<<a, s>>)'
  PROVE  CallsOK'
<1> SUFFICES ASSUME NEW h \in Agents \X Slots, h # <<a, s>> PROVE CallOK(h)'
  BY DEF CallsOK
<1> QED
  BY CallKept DEF CallsOK, MovesOnly

\* Whatever step is taken, every handler call still knows what its label says.
LEMMA CallsStep ==
  ASSUME TypeOK, CallsOK, TypeOK', Next
  PROVE  CallsOK'
<1> USE DEF bucketVars, callerVars, consumerVars, handlerVars, historyVars
<1> USE GrowthStep
<1>1. ASSUME NEW j \in Jobs, StoreJob(j) PROVE CallsOK'
  BY <1>1, CallKept DEF CallsOK, StoreJob
<1>2. ASSUME NEW j \in Jobs, RecordSubmitted(j) PROVE CallsOK'
  BY <1>2, CallKept DEF CallsOK, RecordSubmitted
<1>3. ASSUME NEW j \in Jobs, PublishNotification(j) PROVE CallsOK'
  BY <1>3, CallKept DEF CallsOK, PublishNotification
<1>4. ASSUME NEW j \in Jobs, RecordRetried(j) PROVE CallsOK'
  BY <1>4, CallKept DEF CallsOK, RecordRetried
<1>5. ASSUME NEW j \in Jobs, DeleteJob(j) PROVE CallsOK'
  BY <1>5, CallKept DEF CallsOK, DeleteJob
<1>6. ASSUME NEW j \in Jobs, NEW k \in Jobs, RetryJob(k, j) PROVE CallsOK'
  BY <1>6, CallKept DEF CallsOK, RetryJob
<1>7. ASSUME NEW a \in Agents, NEW j \in Jobs, AckDeadlinePasses(a, j) PROVE CallsOK'
  BY <1>7, CallKept DEF CallsOK, AckDeadlinePasses
<1>8. ASSUME NEW a \in Agents, NEW s \in Slots, NEW j \in Jobs, Deliver(a, s, j)
      PROVE  CallsOK'
  <2>1. MovesOnly(a, s)
    BY <1>8 DEF MovesOnly, TypeOK, Deliver
  <2>2. CallOK(<<a, s>>)'
    BY <1>8, CallTyped DEF CallsOK, CallOK, TypeOK, CallPair, Deliver
  <2>3. QED
    BY <2>1, <2>2, OtherCallsKept
<1>9. ASSUME NEW a \in Agents, NEW s \in Slots, CheckAnswered(a, s) PROVE CallsOK'
  <2>1. MovesOnly(a, s)
    BY <1>9 DEF MovesOnly, TypeOK, CheckAnswered, GoTo
  <2>2. CallOK(<<a, s>>)'
    BY <1>9, CallTyped DEF CallsOK, CallOK, TypeOK, CallPair, CheckAnswered, GoTo
  <2>3. QED
    BY <2>1, <2>2, OtherCallsKept
<1>10. ASSUME NEW a \in Agents, NEW s \in Slots, LoadJob(a, s) PROVE CallsOK'
  <2>1. MovesOnly(a, s)
    BY <1>10 DEF MovesOnly, TypeOK, LoadJob, GoTo, EndCall
  <2>2. CallOK(<<a, s>>)'
    <3>1. \/ pc'[<<a, s>>] = "idle"
          \/ pc'[<<a, s>>] = "ack event" /\ work' = work
      BY <1>10, HandlerTyped DEF LoadJob, GoTo, EndCall
    <3>2. work[<<a, s>>] \in Jobs
      BY <1>10, CallTyped DEF LoadJob
    <3>3. QED
      BY <3>1, <3>2 DEF CallOK
  <2>3. QED
    BY <2>1, <2>2, OtherCallsKept
<1>11. ASSUME NEW a \in Agents, NEW s \in Slots, WriteAcknowledged(a, s) PROVE CallsOK'
  <2>1. MovesOnly(a, s)
    BY <1>11 DEF MovesOnly, TypeOK, WriteAcknowledged, WriteEvent, GoTo
  <2>2. CallOK(<<a, s>>)'
    BY <1>11, CallTyped
       DEF CallsOK, CallOK, TypeOK, CallPair, WriteAcknowledged, WriteEvent, GoTo
  <2>3. QED
    BY <2>1, <2>2, OtherCallsKept
<1>12. ASSUME NEW a \in Agents, NEW s \in Slots, WriteStarted(a, s) PROVE CallsOK'
  <2>1. MovesOnly(a, s)
    BY <1>12 DEF MovesOnly, TypeOK, WriteStarted, WriteEvent, GoTo
  <2>2. CallOK(<<a, s>>)'
    BY <1>12, CallTyped
       DEF CallsOK, CallOK, TypeOK, CallPair, WriteStarted, WriteEvent, GoTo
  <2>3. QED
    BY <2>1, <2>2, OtherCallsKept
<1>13. ASSUME NEW a \in Agents, NEW s \in Slots, RunOperation(a, s) PROVE CallsOK'
  <2>1. MovesOnly(a, s)
    BY <1>13 DEF MovesOnly, TypeOK, RunOperation, Decide, GoTo
  <2>2. CallOK(<<a, s>>)'
    <3>1. pc'[<<a, s>>] = "respond" /\ work' = work
      BY <1>13 DEF TypeOK, RunOperation, Decide, GoTo
    <3>2. work[<<a, s>>] \in Jobs /\ CallPair(a, s) \in Pairs
      BY <1>13, CallTyped DEF RunOperation
    <3>3. outcome'[<<a, s>>] \in decided'[CallPair(a, s)]
      BY <1>13, <3>2 DEF TypeOK, RunOperation, Decide
    <3>4. QED
      BY <3>1, <3>2, <3>3 DEF CallOK, CallPair
  <2>3. QED
    BY <2>1, <2>2, OtherCallsKept
<1>14. ASSUME NEW a \in Agents, NEW s \in Slots, FactsUnresolved(a, s) PROVE CallsOK'
  <2>1. MovesOnly(a, s)
    BY <1>14 DEF MovesOnly, TypeOK, FactsUnresolved, Decide, GoTo
  <2>2. CallOK(<<a, s>>)'
    <3>1. pc'[<<a, s>>] = "respond" /\ work' = work
      BY <1>14 DEF TypeOK, FactsUnresolved, Decide, GoTo
    <3>2. work[<<a, s>>] \in Jobs /\ CallPair(a, s) \in Pairs
      BY <1>14, CallTyped DEF FactsUnresolved
    <3>3. outcome'[<<a, s>>] \in decided'[CallPair(a, s)]
      BY <1>14, <3>2 DEF TypeOK, FactsUnresolved, Decide
    <3>4. QED
      BY <3>1, <3>2, <3>3 DEF CallOK, CallPair
  <2>3. QED
    BY <2>1, <2>2, OtherCallsKept
<1>15. ASSUME NEW a \in Agents, NEW s \in Slots, StoreResponse(a, s) PROVE CallsOK'
  <2>1. MovesOnly(a, s)
    BY <1>15 DEF MovesOnly, TypeOK, StoreResponse, GoTo
  <2>2. CallOK(<<a, s>>)'
    <3>1. work[<<a, s>>] \in Jobs /\ CallPair(a, s) \in Pairs
      BY <1>15, CallTyped DEF StoreResponse
    <3>2. outcome[<<a, s>>] \in decided[CallPair(a, s)]
      BY <1>15 DEF CallsOK, CallOK, CallPair, StoreResponse
    <3>3. Fails => faults' > 0
      BY JobDeliveryAssumption DEF TypeOK, Fails
    <3>4. responses \in [Pairs -> SUBSET Outcomes]
      BY DEF TypeOK
    <3>5. \/ /\ pc'[<<a, s>>] = "last event"
             /\ outcome[<<a, s>>] \in responses'[CallPair(a, s)]
          \/ pc'[<<a, s>>] = "store failed" /\ faults' > 0
      BY <1>15, <3>1, <3>3, <3>4, HandlerTyped
         DEF StoreResponse, WithResponse, GoTo
    <3>6. QED
      BY <1>15, <3>1, <3>2, <3>5 DEF StoreResponse, CallOK, CallPair
  <2>3. QED
    BY <2>1, <2>2, OtherCallsKept
<1>16. ASSUME NEW a \in Agents, NEW s \in Slots, WriteStoreFailed(a, s) PROVE CallsOK'
  <2>1. MovesOnly(a, s)
    BY <1>16 DEF MovesOnly, TypeOK, WriteStoreFailed, WriteEvent, GoTo
  <2>2. CallOK(<<a, s>>)'
    BY <1>16, CallTyped
       DEF CallsOK, CallOK, TypeOK, CallPair, WriteStoreFailed, WriteEvent, GoTo
  <2>3. QED
    BY <2>1, <2>2, OtherCallsKept
<1>17. ASSUME NEW a \in Agents, NEW s \in Slots, WriteTerminal(a, s) PROVE CallsOK'
  <2>1. MovesOnly(a, s)
    BY <1>17 DEF MovesOnly, TypeOK, WriteTerminal, WriteEvent, GoTo
  <2>2. CallOK(<<a, s>>)'
    BY <1>17, CallTyped
       DEF CallsOK, CallOK, TypeOK, CallPair, WriteTerminal, WriteEvent, GoTo
  <2>3. QED
    BY <2>1, <2>2, OtherCallsKept
<1>18. ASSUME NEW a \in Agents, NEW s \in Slots, Acknowledge(a, s) PROVE CallsOK'
  <2>1. MovesOnly(a, s)
    BY <1>18 DEF MovesOnly, TypeOK, Acknowledge, EndCall
  <2>2. CallOK(<<a, s>>)'
    BY <1>18, CallTyped DEF CallsOK, CallOK, TypeOK, CallPair, Acknowledge, EndCall
  <2>3. QED
    BY <2>1, <2>2, OtherCallsKept
<1>19. ASSUME NEW a \in Agents, Crash(a) PROVE CallsOK'
  <2> SUFFICES ASSUME NEW h \in Agents \X Slots PROVE CallOK(h)'
    BY DEF CallsOK
  <2>1. CASE h[1] = a
    BY <1>19, <2>1 DEF Crash, CallOK
  <2>2. CASE h[1] # a
    BY <1>19, <2>2, CallKept DEF CallsOK, Crash
  <2>3. QED
    BY <2>1, <2>2
<1>20. QED
  BY <1>1, <1>2, <1>3, <1>4, <1>5, <1>6, <1>7, <1>8, <1>9, <1>10, <1>11,
     <1>12, <1>13, <1>14, <1>15, <1>16, <1>17, <1>18, <1>19
     DEF Next, CreateStep, HandlerStep

-----------------------------------------------------------------------------
(***************************************************************************)
(* The controller's retries: only the five steps of the call move it.      *)
(***************************************************************************)

\* Whatever step is taken, a retry still knows the job it was made from.
LEMMA RetriesStep ==
  ASSUME TypeOK, RetriesOK, Next
  PROVE  RetriesOK'
<1> USE DEF bucketVars, callerVars, consumerVars, handlerVars, historyVars
<1>1. CASE UNCHANGED callerVars
  BY <1>1 DEF RetriesOK
<1>2. ASSUME NEW j \in Jobs, CreateStep(j) PROVE RetriesOK'
  <2>1. ASSUME StoreJob(j) PROVE RetriesOK'
    BY <2>1 DEF TypeOK, RetriesOK, StoreJob
  <2>2. ASSUME RecordSubmitted(j) PROVE RetriesOK'
    BY <2>2 DEF TypeOK, RetriesOK, RecordSubmitted
  <2>3. ASSUME PublishNotification(j) PROVE RetriesOK'
    BY <2>3 DEF TypeOK, RetriesOK, PublishNotification
  <2>4. ASSUME RecordRetried(j) PROVE RetriesOK'
    BY <2>4 DEF TypeOK, RetriesOK, RecordRetried
  <2>5. QED
    BY <1>2, <2>1, <2>2, <2>3, <2>4 DEF CreateStep
<1>3. ASSUME NEW j \in Jobs, NEW k \in Jobs, RetryJob(k, j) PROVE RetriesOK'
  BY <1>3 DEF TypeOK, RetriesOK, RetryJob
<1>4. ASSUME NEW a \in Agents, NEW s \in Slots, HandlerStep(a, s)
      PROVE  UNCHANGED callerVars
  <2>1. CheckAnswered(a, s) \/ LoadJob(a, s) => UNCHANGED callerVars
    BY DEF CheckAnswered, LoadJob
  <2>2. WriteAcknowledged(a, s) \/ WriteStarted(a, s) => UNCHANGED callerVars
    BY DEF WriteAcknowledged, WriteStarted, WriteEvent
  <2>3. RunOperation(a, s) \/ FactsUnresolved(a, s) => UNCHANGED callerVars
    BY DEF RunOperation, FactsUnresolved, Decide
  <2>4. StoreResponse(a, s) \/ Acknowledge(a, s) => UNCHANGED callerVars
    BY DEF StoreResponse, Acknowledge
  <2>5. WriteStoreFailed(a, s) \/ WriteTerminal(a, s) => UNCHANGED callerVars
    BY DEF WriteStoreFailed, WriteTerminal, WriteEvent
  <2>6. QED
    BY <1>4, <2>1, <2>2, <2>3, <2>4, <2>5 DEF HandlerStep
<1>5. ASSUME NEW a \in Agents, NEW j \in Jobs,
             AckDeadlinePasses(a, j) \/ \E s \in Slots : Deliver(a, s, j)
      PROVE  UNCHANGED callerVars
  BY <1>5 DEF AckDeadlinePasses, Deliver
<1>6. ASSUME NEW j \in Jobs, DeleteJob(j) PROVE UNCHANGED callerVars
  BY <1>6 DEF DeleteJob
<1>7. ASSUME NEW a \in Agents, Crash(a) PROVE UNCHANGED callerVars
  BY <1>7 DEF Crash
<1>8. QED
  BY <1>1, <1>2, <1>3, <1>4, <1>5, <1>6, <1>7 DEF Next

-----------------------------------------------------------------------------
(***************************************************************************)
(* The status events.                                                      *)
(***************************************************************************)

\* A log grows by the event recorded only.
LEMMA RecordedEvents ==
  ASSUME TypeOK, NEW j \in Jobs, NEW h \in Hosts, NEW e, Record(j, h, e),
         NEW k \in Jobs, NEW g \in Hosts, NEW f \in events'[k][g]
  PROVE  f \in events[k][g] \/ (k = j /\ g = h /\ f = e)
<1>1. events \in [Jobs -> [Hosts -> SUBSET Events]]
  BY DEF TypeOK, Logs
<1>2. QED
  BY <1>1 DEF Record

\* A terminal event of agent a for job j that the bucket accounts for.
AccountedFor(a, j, e) == e \in responses[<<a, j>>] \/ (e = "failed" /\ faults > 0)

\* An event that is accounted for stays so: responses and faults only grow.
LEMMA AccountedForKept ==
  ASSUME TypeOK, Growth, NEW a \in Agents, NEW j \in Jobs, NEW e, AccountedFor(a, j, e)
  PROVE  AccountedFor(a, j, e)'
<1>1. faults > 0 => faults' > 0
  BY JobDeliveryAssumption DEF TypeOK, Growth
<1>2. <<a, j>> \in Pairs
  BY DEF Pairs
<1>3. QED
  BY <1>1, <1>2 DEF AccountedFor, Growth

\* A step keeps the property if it records no terminal event of an agent
\* that is not accounted for.
LEMMA RecordingKept ==
  ASSUME TypeOK, TerminalEventHasResponse, Growth,
         NEW j \in Jobs, NEW h \in Hosts, NEW e, Record(j, h, e),
         h \in Agents /\ e \in TerminalEvents => AccountedFor(h, j, e)
  PROVE  TerminalEventHasResponse'
<1> SUFFICES ASSUME NEW a \in Agents, NEW k \in Jobs,
                    NEW f \in events'[k][a] \cap TerminalEvents
             PROVE  AccountedFor(a, k, f)'
  BY DEF TerminalEventHasResponse, AccountedFor
<1>1. a \in Hosts
  BY DEF Hosts
<1>2. CASE f \in events[k][a]
  BY <1>2, AccountedForKept DEF TerminalEventHasResponse, AccountedFor
<1>3. CASE k = j /\ a = h /\ f = e
  BY <1>3, AccountedForKept
<1>4. QED
  BY <1>1, <1>2, <1>3, RecordedEvents

\* A step that records no event keeps the promise about terminal events.
LEMMA SilenceKept ==
  ASSUME TypeOK, TerminalEventHasResponse, Growth, UNCHANGED events
  PROVE  TerminalEventHasResponse'
<1> SUFFICES ASSUME NEW a \in Agents, NEW k \in Jobs,
                    NEW f \in events[k][a] \cap TerminalEvents
             PROVE  AccountedFor(a, k, f)'
  BY DEF TerminalEventHasResponse, AccountedFor
<1> QED
  BY AccountedForKept DEF TerminalEventHasResponse, AccountedFor

\* Whatever step is taken, a terminal event has the response it announces.
LEMMA EventsStep ==
  ASSUME TypeOK, RetriesOK, CallsOK, TerminalEventHasResponse, Next
  PROVE  TerminalEventHasResponse'
<1> USE DEF bucketVars, callerVars, consumerVars, handlerVars, historyVars
<1>0. Growth
  BY GrowthStep
<1> USE <1>0
<1>1. ASSUME NEW j \in Jobs, StoreJob(j) PROVE TerminalEventHasResponse'
  BY <1>1, SilenceKept DEF StoreJob
<1>2. ASSUME NEW j \in Jobs, RecordSubmitted(j) PROVE TerminalEventHasResponse'
  BY <1>2, RecordingKept, ApiIsNoAgent DEF RecordSubmitted, Hosts
<1>3. ASSUME NEW j \in Jobs, PublishNotification(j) PROVE TerminalEventHasResponse'
  BY <1>3, SilenceKept DEF PublishNotification
<1>4. ASSUME NEW j \in Jobs, RecordRetried(j) PROVE TerminalEventHasResponse'
  <2>1. origin[j] \in Jobs
    BY <1>4 DEF RetriesOK, RecordRetried
  <2>2. QED
    BY <1>4, <2>1, RecordingKept, SilenceKept, ApiIsNoAgent DEF RecordRetried, Hosts
<1>5. ASSUME NEW j \in Jobs, DeleteJob(j) PROVE TerminalEventHasResponse'
  BY <1>5, SilenceKept DEF DeleteJob
<1>6. ASSUME NEW j \in Jobs, NEW k \in Jobs, RetryJob(k, j)
      PROVE  TerminalEventHasResponse'
  BY <1>6, SilenceKept DEF RetryJob
<1>7. ASSUME NEW a \in Agents, NEW j \in Jobs, AckDeadlinePasses(a, j)
      PROVE  TerminalEventHasResponse'
  BY <1>7, SilenceKept DEF AckDeadlinePasses
<1>8. ASSUME NEW a \in Agents, NEW s \in Slots, NEW j \in Jobs, Deliver(a, s, j)
      PROVE  TerminalEventHasResponse'
  BY <1>8, SilenceKept DEF Deliver
<1>9. ASSUME NEW a \in Agents, NEW s \in Slots, CheckAnswered(a, s)
      PROVE  TerminalEventHasResponse'
  BY <1>9, SilenceKept DEF CheckAnswered
<1>10. ASSUME NEW a \in Agents, NEW s \in Slots, LoadJob(a, s)
      PROVE  TerminalEventHasResponse'
  BY <1>10, SilenceKept DEF LoadJob
<1>11. ASSUME NEW a \in Agents, NEW s \in Slots, WriteAcknowledged(a, s)
      PROVE  TerminalEventHasResponse'
  <2>1. work[<<a, s>>] \in Jobs /\ a \in Hosts
    BY <1>11, CallTyped DEF WriteAcknowledged, Hosts
  <2>2. QED
    BY <1>11, <2>1, RecordingKept, SilenceKept
       DEF WriteAcknowledged, WriteEvent, TerminalEvents, Outcomes
<1>12. ASSUME NEW a \in Agents, NEW s \in Slots, WriteStarted(a, s)
      PROVE  TerminalEventHasResponse'
  <2>1. work[<<a, s>>] \in Jobs /\ a \in Hosts
    BY <1>12, CallTyped DEF WriteStarted, Hosts
  <2>2. QED
    BY <1>12, <2>1, RecordingKept, SilenceKept
       DEF WriteStarted, WriteEvent, TerminalEvents, Outcomes
<1>13. ASSUME NEW a \in Agents, NEW s \in Slots, RunOperation(a, s)
      PROVE  TerminalEventHasResponse'
  BY <1>13, SilenceKept DEF RunOperation, Decide
<1>14. ASSUME NEW a \in Agents, NEW s \in Slots, FactsUnresolved(a, s)
      PROVE  TerminalEventHasResponse'
  BY <1>14, SilenceKept DEF FactsUnresolved, Decide
<1>15. ASSUME NEW a \in Agents, NEW s \in Slots, StoreResponse(a, s)
      PROVE  TerminalEventHasResponse'
  BY <1>15, SilenceKept DEF StoreResponse
<1>16. ASSUME NEW a \in Agents, NEW s \in Slots, WriteStoreFailed(a, s)
      PROVE  TerminalEventHasResponse'
  <2>1. work[<<a, s>>] \in Jobs /\ a \in Hosts
    BY <1>16, CallTyped DEF WriteStoreFailed, Hosts
  <2>2. AccountedFor(a, work[<<a, s>>], "failed")
    BY <1>16 DEF WriteStoreFailed, CallsOK, CallOK, AccountedFor
  <2>3. QED
    BY <1>16, <2>1, <2>2, RecordingKept, SilenceKept DEF WriteStoreFailed, WriteEvent
<1>17. ASSUME NEW a \in Agents, NEW s \in Slots, WriteTerminal(a, s)
      PROVE  TerminalEventHasResponse'
  <2>1. work[<<a, s>>] \in Jobs /\ a \in Hosts
    BY <1>17, CallTyped DEF WriteTerminal, Hosts
  <2>2. AccountedFor(a, work[<<a, s>>], outcome[<<a, s>>])
    BY <1>17 DEF WriteTerminal, CallsOK, CallOK, AccountedFor
  <2>3. QED
    BY <1>17, <2>1, <2>2, RecordingKept, SilenceKept DEF WriteTerminal, WriteEvent
<1>18. ASSUME NEW a \in Agents, NEW s \in Slots, Acknowledge(a, s)
      PROVE  TerminalEventHasResponse'
  BY <1>18, SilenceKept DEF Acknowledge
<1>19. ASSUME NEW a \in Agents, Crash(a) PROVE TerminalEventHasResponse'
  BY <1>19, SilenceKept DEF Crash
<1>20. QED
  BY <1>1, <1>2, <1>3, <1>4, <1>5, <1>6, <1>7, <1>8, <1>9, <1>10, <1>11,
     <1>12, <1>13, <1>14, <1>15, <1>16, <1>17, <1>18, <1>19
     DEF Next, CreateStep, HandlerStep

-----------------------------------------------------------------------------
(***************************************************************************)
(* Responses and acknowledgements.                                         *)
(***************************************************************************)

\* A step that stores no response and settles nothing keeps the property.
LEMMA AcknowledgedKept ==
  ASSUME TypeOK, AcknowledgedOnlyWhenDecided, Growth,
         UNCHANGED <<responses, settled>>
  PROVE  AcknowledgedOnlyWhenDecided'
  BY DEF AcknowledgedOnlyWhenDecided, Growth

\* Whatever step is taken, only notifications with an outcome are acknowledged.
LEMMA AcknowledgedStep ==
  ASSUME TypeOK, CallsOK, AcknowledgedOnlyWhenDecided, Next
  PROVE  AcknowledgedOnlyWhenDecided'
<1> USE DEF bucketVars, callerVars, consumerVars, handlerVars, historyVars
<1>0. Growth
  BY GrowthStep
<1> USE <1>0
<1>1. ASSUME NEW j \in Jobs, StoreJob(j) PROVE AcknowledgedOnlyWhenDecided'
  BY <1>1, AcknowledgedKept DEF StoreJob
<1>2. ASSUME NEW j \in Jobs, RecordSubmitted(j) PROVE AcknowledgedOnlyWhenDecided'
  BY <1>2, AcknowledgedKept DEF RecordSubmitted
<1>3. ASSUME NEW j \in Jobs, PublishNotification(j) PROVE AcknowledgedOnlyWhenDecided'
  BY <1>3, AcknowledgedKept DEF PublishNotification
<1>4. ASSUME NEW j \in Jobs, RecordRetried(j) PROVE AcknowledgedOnlyWhenDecided'
  BY <1>4, AcknowledgedKept DEF RecordRetried
<1>5. ASSUME NEW j \in Jobs, DeleteJob(j) PROVE AcknowledgedOnlyWhenDecided'
  BY <1>5, AcknowledgedKept DEF DeleteJob
<1>6. ASSUME NEW j \in Jobs, NEW k \in Jobs, RetryJob(k, j)
      PROVE  AcknowledgedOnlyWhenDecided'
  BY <1>6, AcknowledgedKept DEF RetryJob
<1>7. ASSUME NEW a \in Agents, NEW j \in Jobs, AckDeadlinePasses(a, j)
      PROVE  AcknowledgedOnlyWhenDecided'
  BY <1>7, AcknowledgedKept DEF AckDeadlinePasses
<1>8. ASSUME NEW a \in Agents, NEW s \in Slots, NEW j \in Jobs, Deliver(a, s, j)
      PROVE  AcknowledgedOnlyWhenDecided'
  BY <1>8, AcknowledgedKept DEF Deliver
<1>9. ASSUME NEW a \in Agents, NEW s \in Slots, CheckAnswered(a, s)
      PROVE  AcknowledgedOnlyWhenDecided'
  BY <1>9, AcknowledgedKept DEF CheckAnswered
<1>10. ASSUME NEW a \in Agents, NEW s \in Slots, LoadJob(a, s)
      PROVE  AcknowledgedOnlyWhenDecided'
  <2>1. \A p \in Pairs : settled'[p] = "acked" => settled[p] = "acked"
    BY <1>10 DEF TypeOK, LoadJob, Settle
  <2>2. QED
    BY <1>10, <2>1 DEF AcknowledgedOnlyWhenDecided, Growth, LoadJob
<1>11. ASSUME NEW a \in Agents, NEW s \in Slots, WriteAcknowledged(a, s)
      PROVE  AcknowledgedOnlyWhenDecided'
  BY <1>11, AcknowledgedKept DEF WriteAcknowledged, WriteEvent
<1>12. ASSUME NEW a \in Agents, NEW s \in Slots, WriteStarted(a, s)
      PROVE  AcknowledgedOnlyWhenDecided'
  BY <1>12, AcknowledgedKept DEF WriteStarted, WriteEvent
<1>13. ASSUME NEW a \in Agents, NEW s \in Slots, RunOperation(a, s)
      PROVE  AcknowledgedOnlyWhenDecided'
  BY <1>13, AcknowledgedKept DEF RunOperation, Decide
<1>14. ASSUME NEW a \in Agents, NEW s \in Slots, FactsUnresolved(a, s)
      PROVE  AcknowledgedOnlyWhenDecided'
  BY <1>14, AcknowledgedKept DEF FactsUnresolved, Decide
<1>15. ASSUME NEW a \in Agents, NEW s \in Slots, StoreResponse(a, s)
      PROVE  AcknowledgedOnlyWhenDecided'
  <2>1. outcome[<<a, s>>] \in decided[CallPair(a, s)]
    BY <1>15 DEF StoreResponse, CallsOK, CallOK, CallPair
  <2>2. \A p \in Pairs : responses'[p] \subseteq decided[p]
    <3>1. \A p \in Pairs : responses[p] \subseteq decided[p]
      BY DEF AcknowledgedOnlyWhenDecided
    <3>2. responses \in [Pairs -> SUBSET Outcomes]
      BY DEF TypeOK
    <3>3. QED
      BY <1>15, <2>1, <3>1, <3>2 DEF StoreResponse, WithResponse
  <2>3. QED
    BY <1>15, <2>2 DEF AcknowledgedOnlyWhenDecided, StoreResponse
<1>16. ASSUME NEW a \in Agents, NEW s \in Slots, WriteStoreFailed(a, s)
      PROVE  AcknowledgedOnlyWhenDecided'
  BY <1>16, AcknowledgedKept DEF WriteStoreFailed, WriteEvent
<1>17. ASSUME NEW a \in Agents, NEW s \in Slots, WriteTerminal(a, s)
      PROVE  AcknowledgedOnlyWhenDecided'
  BY <1>17, AcknowledgedKept DEF WriteTerminal, WriteEvent
<1>18. ASSUME NEW a \in Agents, NEW s \in Slots, Acknowledge(a, s)
      PROVE  AcknowledgedOnlyWhenDecided'
  <2>1. CallPair(a, s) \in Pairs
    BY <1>18, CallTyped DEF Acknowledge
  <2>2. decided[CallPair(a, s)] # {}
    BY <1>18, <2>1
       DEF Acknowledge, CallsOK, CallOK, CallPair, AcknowledgedOnlyWhenDecided
  <2>3. \A p \in Pairs : settled'[p] = "acked" => settled[p] = "acked" \/ p = CallPair(a, s)
    BY <1>18 DEF TypeOK, Acknowledge, Settle, CallPair
  <2>4. QED
    BY <1>18, <2>2, <2>3 DEF AcknowledgedOnlyWhenDecided, Acknowledge
<1>19. ASSUME NEW a \in Agents, Crash(a) PROVE AcknowledgedOnlyWhenDecided'
  BY <1>19, AcknowledgedKept DEF Crash
<1>20. QED
  BY <1>1, <1>2, <1>3, <1>4, <1>5, <1>6, <1>7, <1>8, <1>9, <1>10, <1>11,
     <1>12, <1>13, <1>14, <1>15, <1>16, <1>17, <1>18, <1>19
     DEF Next, CreateStep, HandlerStep

-----------------------------------------------------------------------------
(***************************************************************************)
(* The invariant, and the theorems.                                        *)
(***************************************************************************)

\* Every step, and every stutter, keeps the inductive invariant.
LEMMA StepIInv ==
  ASSUME IInv, [Next]_vars
  PROVE  IInv'
<1>1. CASE Next
  BY <1>1, TypedStep, RetriesStep, CallsStep, EventsStep, AcknowledgedStep DEF IInv
<1>2. CASE UNCHANGED vars
  BY <1>2 DEF IInv, TypeOK, RetriesOK, CallsOK, CallOK, TerminalEventHasResponse,
              AcknowledgedOnlyWhenDecided, vars, bucketVars, callerVars,
              consumerVars, handlerVars, historyVars
<1>3. QED
  BY <1>1, <1>2

\* The inductive invariant holds in every reachable state.
THEOREM Invariance == Spec => []IInv
  BY InitIInv, StepIInv, PTL DEF Spec

\* Type correctness: job keys, status keys, responses, consumers and calls.
THEOREM TypeCorrectness == Spec => []TypeOK
<1>1. IInv => TypeOK
  BY DEF IInv
<1>2. QED
  BY <1>1, Invariance, PTL

(***************************************************************************)
(* Whoever sees a terminal event finds its response (handler.go:497), for  *)
(* any number of agents, jobs and concurrent calls, and any bucket speed,  *)
(* back-off list, crashes and faults.                                      *)
(***************************************************************************)
THEOREM TerminalEventsHaveResponses == Spec => []TerminalEventHasResponse
<1>1. IInv => TerminalEventHasResponse
  BY DEF IInv
<1>2. QED
  BY <1>1, Invariance, PTL

(***************************************************************************)
(* No notification is acknowledged, and no response stored, for a job that *)
(* the agent did not decide, under the same generality.                    *)
(***************************************************************************)
THEOREM AcknowledgementsAreDecided == Spec => []AcknowledgedOnlyWhenDecided
<1>1. IInv => AcknowledgedOnlyWhenDecided
  BY DEF IInv
<1>2. QED
  BY <1>1, Invariance, PTL

-----------------------------------------------------------------------------
(***************************************************************************)
(* The two statuses.  What an agent records about a job is one of the      *)
(* events of its handler: "submitted" and "retried" are the controller's.  *)
(***************************************************************************)
AgentLogs == \A j \in Jobs : AgentsKeepTo(events[j])

\* A step that records an event of the handler, or one of the controller.
LEMMA AgentLogsKept ==
  ASSUME TypeOK, AgentLogs,
         NEW j \in Jobs, NEW h \in Hosts, NEW e, Record(j, h, e),
         h \in Agents => e \in AgentEvents
  PROVE  AgentLogs'
<1> SUFFICES ASSUME NEW k \in Jobs, NEW a \in Agents, NEW f \in events'[k][a]
             PROVE  f \in AgentEvents
  BY DEF AgentLogs, AgentsKeepTo
<1>1. a \in Hosts
  BY DEF Hosts
<1>2. f \in events[k][a] \/ (k = j /\ a = h /\ f = e)
  BY <1>1, RecordedEvents
<1>3. QED
  BY <1>2 DEF AgentLogs, AgentsKeepTo

\* Whatever step is taken, the agents' logs hold events of the handler only.
LEMMA AgentLogsStep ==
  ASSUME TypeOK, RetriesOK, CallsOK, AgentLogs, [Next]_vars
  PROVE  AgentLogs'
<1> USE DEF bucketVars, callerVars, consumerVars, handlerVars, historyVars
<1>1. CASE UNCHANGED events
  BY <1>1 DEF AgentLogs, AgentsKeepTo
<1>2. ASSUME NEW j \in Jobs, RecordSubmitted(j) PROVE AgentLogs'
  BY <1>1, <1>2, AgentLogsKept, ApiIsNoAgent DEF RecordSubmitted, Hosts
<1>3. ASSUME NEW j \in Jobs, RecordRetried(j) PROVE AgentLogs'
  <2>1. origin[j] \in Jobs
    BY <1>3 DEF RetriesOK, RecordRetried
  <2>2. QED
    BY <1>1, <1>3, <2>1, AgentLogsKept, ApiIsNoAgent DEF RecordRetried, Hosts
<1>4. ASSUME NEW a \in Agents, NEW s \in Slots, NEW e \in AgentEvents, NEW l,
             WriteEvent(a, s, e, l), pc[<<a, s>>] # "idle", work[<<a, s>>] \in Jobs
      PROVE  AgentLogs'
  BY <1>1, <1>4, AgentLogsKept DEF WriteEvent, Hosts
<1>5. ASSUME NEW a \in Agents, NEW s \in Slots, HandlerStep(a, s)
      PROVE  AgentLogs'
  <2>1. pc[<<a, s>>] # "idle" => work[<<a, s>>] \in Jobs
    BY <1>5 DEF CallsOK, CallOK
  <2>2. pc[<<a, s>>] = "last event" => outcome[<<a, s>>] \in AgentEvents
    BY <1>5, CallTyped DEF CallsOK, CallOK, TypeOK, Pairs, AgentEvents
  <2>3. CASE WriteAcknowledged(a, s)
    BY <1>4, <2>1, <2>3 DEF WriteAcknowledged, AgentEvents
  <2>4. CASE WriteStarted(a, s)
    BY <1>4, <2>1, <2>4 DEF WriteStarted, AgentEvents
  <2>5. CASE WriteStoreFailed(a, s)
    BY <1>4, <2>1, <2>5 DEF WriteStoreFailed, AgentEvents, Outcomes
  <2>6. CASE WriteTerminal(a, s)
    BY <1>4, <2>1, <2>2, <2>6 DEF WriteTerminal
  <2>7. QED
    BY <1>1, <1>5, <2>3, <2>4, <2>5, <2>6
       DEF HandlerStep, CheckAnswered, LoadJob, RunOperation, FactsUnresolved,
           Decide, StoreResponse, Acknowledge
<1>6. QED
  BY <1>1, <1>2, <1>3, <1>5
     DEF Next, CreateStep, StoreJob, PublishNotification, DeleteJob, RetryJob,
         AckDeadlinePasses, Deliver, Crash, vars

(***************************************************************************)
(* GET /jobs/{id} and the job list report the same status of every job, in *)
(* every state: for any number of agents and whatever fails.               *)
(***************************************************************************)
THEOREM ListAndGetAgree == Spec => []ListAgreesWithGet
<1>1. Init => AgentLogs
  BY DEF Init, AgentLogs, AgentsKeepTo, Hosts
<1>2. IInv /\ AgentLogs /\ [Next]_vars => AgentLogs'
  BY AgentLogsStep DEF IInv
<1>3. AgentLogs => ListAgreesWithGet
  BY StatusesAgree DEF AgentLogs, ListAgreesWithGet
<1>4. QED
  BY <1>1, <1>2, <1>3, Invariance, PTL DEF Spec

-----------------------------------------------------------------------------
(***************************************************************************)
(* The state of a host.  A redelivered job records "acknowledged" and      *)
(* "started" again, after the terminal event of the call before: the       *)
(* priorities, not the order of the events, keep the state from going      *)
(* back.                                                                   *)
(***************************************************************************)
\* What may take the place of the state old: one of a higher priority, or a
\* failure that of "skipped".
Follows(old, new) ==
    \/ new = old
    \/ StatusPriority[new] > StatusPriority[old]
    \/ old = "skipped" /\ new = "failed"

(***************************************************************************)
(* No step takes the state GetJobStatus and ListJobs derive for a host     *)
(* back: not the events of a second delivery, not a late failure, not a    *)
(* retry.  A host that completed the job has completed it for good.        *)
(***************************************************************************)
HostStateNeverRegresses ==
    [][\A a \in Agents, j \in Jobs : events[j][a] # {} =>
           /\ events'[j][a] # {}
           /\ Follows(AgentState(events[j][a]), AgentState(events'[j][a]))]_vars

\* More events: the state they have may follow the state of fewer.
LEMMA StateFollows ==
  ASSUME NEW evs \in SUBSET AgentEvents, evs # {},
         NEW more \in SUBSET AgentEvents, evs \subseteq more
  PROVE  Follows(AgentState(evs), AgentState(more))
<1> DEFINE old == AgentState(evs)
           new == AgentState(more)
<1>1. old \in AgentEvents /\ new \in AgentEvents /\ old \in more
  BY StateIsRecorded
<1>2. StandsFor(new, {old})
  BY <1>1, StateIsRecorded DEF StandsFor
<1>3. \A e, f \in AgentEvents : StandsFor(e, {f}) => Follows(f, e)
  BY DEF StandsFor, Follows, AgentEvents, Outcomes, StatusPriority, KeyOrder
<1>4. QED
  BY <1>1, <1>2, <1>3

\* No step deletes an event.
LEMMA EventsGrow ==
  ASSUME TypeOK, [Next]_vars, NEW a \in Agents, NEW j \in Jobs
  PROVE  events[j][a] \subseteq events'[j][a]
<1> USE DEF bucketVars, callerVars, consumerVars, handlerVars, historyVars
<1>1. ASSUME NEW k, NEW h, NEW e, Record(k, h, e)
      PROVE  events[j][a] \subseteq events'[j][a]
  <2>1. events \in [Jobs -> [Hosts -> SUBSET Events]] /\ a \in Hosts
    BY DEF TypeOK, Logs, Hosts
  <2>2. QED
    BY <1>1, <2>1 DEF Record
<1>2. ASSUME NEW k \in Jobs, CreateStep(k)
      PROVE  UNCHANGED events \/ \E l, h, e : Record(l, h, e)
  BY <1>2 DEF CreateStep, StoreJob, RecordSubmitted, PublishNotification, RecordRetried
<1>3. ASSUME NEW b \in Agents, NEW s \in Slots, HandlerStep(b, s)
      PROVE  UNCHANGED events \/ \E l, h, e : Record(l, h, e)
  BY <1>3 DEF HandlerStep, CheckAnswered, LoadJob, WriteAcknowledged, WriteStarted,
     WriteEvent, RunOperation, FactsUnresolved, Decide, StoreResponse,
     WriteStoreFailed, WriteTerminal, Acknowledge
<1>4. UNCHANGED events \/ \E l, h, e : Record(l, h, e)
  BY <1>2, <1>3 DEF Next, DeleteJob, RetryJob, AckDeadlinePasses, Deliver, Crash, vars
<1>5. QED
  BY <1>1, <1>4

(***************************************************************************)
(* The state of a host only moves forward, whatever is redelivered, lost   *)
(* or retried, for any number of agents and jobs and with or without a     *)
(* keepalive that comes in time.                                           *)
(***************************************************************************)
THEOREM HostStatesMoveForward == Spec => HostStateNeverRegresses
<1> DEFINE Forward ==
             \A a \in Agents, j \in Jobs : events[j][a] # {} =>
                 /\ events'[j][a] # {}
                 /\ Follows(AgentState(events[j][a]), AgentState(events'[j][a]))
<1>1. Init => AgentLogs
  BY DEF Init, AgentLogs, AgentsKeepTo, Hosts
<1>2. IInv /\ AgentLogs /\ [Next]_vars => AgentLogs'
  BY AgentLogsStep DEF IInv
<1>3. IInv /\ AgentLogs /\ AgentLogs' /\ [Next]_vars => Forward
  <2> SUFFICES ASSUME IInv, AgentLogs, AgentLogs', [Next]_vars,
                      NEW a \in Agents, NEW j \in Jobs, events[j][a] # {}
               PROVE  /\ events'[j][a] # {}
                      /\ Follows(AgentState(events[j][a]), AgentState(events'[j][a]))
    OBVIOUS
  <2>1. events[j][a] \subseteq events'[j][a]
    BY EventsGrow DEF IInv
  <2>2. events[j][a] \in SUBSET AgentEvents /\ events'[j][a] \in SUBSET AgentEvents
    BY DEF AgentLogs, AgentsKeepTo
  <2>3. QED
    BY <2>1, <2>2, StateFollows
<1>4. IInv /\ AgentLogs /\ AgentLogs' /\ [Next]_vars => [Forward]_vars
  BY <1>3
<1>5. Spec => [][Forward]_vars
  BY <1>1, <1>2, <1>4, Invariance, PTL DEF Spec
<1>6. QED
  BY <1>5 DEF HostStateNeverRegresses

-----------------------------------------------------------------------------
(***************************************************************************)
(* The contract.                                                           *)
(***************************************************************************)

\* Before the first job the contract is in its own initial state.
LEMMA ContractInit == Init => Contract!Init
<1> SUFFICES ASSUME Init PROVE Contract!Init
  OBVIOUS
<1>1. Announced = [p \in Pairs |-> {}]
  BY DEF Init, Announced, Pairs, Hosts
<1>2. QED
  BY <1>1 DEF Init, Contract!Init

\* An event of the controller, or one that ends nothing, announces nothing.
LEMMA InvisibleEvent ==
  ASSUME TypeOK, NEW j \in Jobs, NEW h \in Hosts, NEW e, Record(j, h, e),
         h \notin Agents \/ e \notin TerminalEvents
  PROVE  Announced' = Announced
<1> SUFFICES ASSUME NEW p \in Pairs
             PROVE  events'[p[2]][p[1]] \cap TerminalEvents
                        = events[p[2]][p[1]] \cap TerminalEvents
  BY DEF Announced
<1>1. events \in [Jobs -> [Hosts -> SUBSET Events]]
  BY DEF TypeOK, Logs
<1>2. p[1] \in Agents /\ p[1] \in Hosts /\ p[2] \in Jobs
  BY DEF Pairs, Hosts
<1>3. QED
  BY <1>1, <1>2 DEF Record

\* A terminal event an agent records is announced in the contract.
LEMMA VisibleEvent ==
  ASSUME TypeOK, NEW a \in Agents, NEW j \in Jobs, NEW e \in TerminalEvents,
         Record(j, a, e)
  PROVE  Announced' = [Announced EXCEPT ![<<a, j>>] = @ \cup {e}]
<1>1. events \in [Jobs -> [Hosts -> SUBSET Events]] /\ a \in Hosts
  BY DEF TypeOK, Logs, Hosts
<1>2. ASSUME NEW p \in Pairs
      PROVE  events'[p[2]][p[1]] \cap TerminalEvents
                 = IF p = <<a, j>> THEN (events[j][a] \cap TerminalEvents) \cup {e}
                                  ELSE events[p[2]][p[1]] \cap TerminalEvents
  <2>1. p[1] \in Hosts /\ p[2] \in Jobs /\ p = <<p[1], p[2]>>
    BY DEF Pairs, Hosts
  <2>2. CASE p = <<a, j>>
    BY <1>1, <2>2 DEF Record
  <2>3. CASE p # <<a, j>>
    BY <1>1, <2>1, <2>3 DEF Record
  <2>4. QED
    BY <2>2, <2>3
<1>3. QED
  BY <1>2 DEF Announced

\* A step that leaves bucket, outcomes and settlement alone is a stutter.
LEMMA SilenceInvisible ==
  ASSUME UNCHANGED <<decided, responses, settled, events>>
  PROVE  UNCHANGED Contract!vars
  BY DEF Contract!vars, Announced

\* Settling a message is a step of the contract, or invisible.
LEMMA SettleStep ==
  ASSUME TypeOK, NEW a \in Agents, NEW j \in Jobs, NEW how \in {"acked", "termed"},
         Settle(a, j, how), how = "acked" => decided[<<a, j>>] # {},
         UNCHANGED <<decided, responses, events>>
  PROVE  [Contract!Next]_(Contract!vars)
<1>1. <<a, j>> \in Pairs /\ Announced' = Announced
  BY DEF Pairs, Announced
<1>2. CASE settled[<<a, j>>] # "open"
  <2>1. settled' = settled
    BY <1>2 DEF TypeOK, Settle
  <2>2. QED
    BY <2>1, SilenceInvisible
<1>3. CASE settled[<<a, j>>] = "open"
  <2>1. settled' = [settled EXCEPT ![<<a, j>>] = how]
    BY <1>3 DEF Settle
  <2>2. Contract!Acknowledge(<<a, j>>) \/ Contract!Terminate(<<a, j>>)
    BY <1>1, <1>3, <2>1 DEF Contract!Acknowledge, Contract!Terminate
  <2>3. QED
    BY <1>1, <2>2 DEF Contract!Next
<1>4. QED
  BY <1>2, <1>3

\* Announcing an outcome the bucket accounts for is a step of the contract.
LEMMA AnnounceStep ==
  ASSUME TypeOK, NEW a \in Agents, NEW j \in Jobs, NEW e \in TerminalEvents,
         Record(j, a, e),
         e \in responses[<<a, j>>] \/ (e = "failed" /\ decided[<<a, j>>] # {}),
         UNCHANGED <<decided, responses, settled>>
  PROVE  Contract!Next
<1>1. <<a, j>> \in Pairs /\ e \in Outcomes
  BY DEF Pairs, TerminalEvents
<1>2. Announced' = [Announced EXCEPT ![<<a, j>>] = @ \cup {e}]
  BY VisibleEvent
<1>3. Contract!Announce(<<a, j>>, e)
  BY <1>2 DEF Contract!Announce
<1>4. QED
  BY <1>1, <1>3 DEF Contract!Next

\* Every step of the detailed system is a step of the contract, or a stutter.
LEMMA ContractStep ==
  ASSUME IInv, Next
  PROVE  [Contract!Next]_(Contract!vars)
<1> USE DEF bucketVars, callerVars, consumerVars, handlerVars, historyVars
<1> USE DEF IInv
<1>1. ASSUME NEW j \in Jobs, StoreJob(j)
      PROVE [Contract!Next]_(Contract!vars)
  BY <1>1, SilenceInvisible DEF StoreJob
<1>2. ASSUME NEW j \in Jobs, RecordSubmitted(j)
      PROVE [Contract!Next]_(Contract!vars)
  <2>1. Announced' = Announced
    BY <1>2, InvisibleEvent, ApiIsNoAgent DEF RecordSubmitted, Hosts
  <2>2. QED
    BY <1>2, <2>1 DEF RecordSubmitted, Contract!vars
<1>3. ASSUME NEW j \in Jobs, PublishNotification(j)
      PROVE [Contract!Next]_(Contract!vars)
  BY <1>3, SilenceInvisible DEF PublishNotification
<1>4. ASSUME NEW j \in Jobs, RecordRetried(j)
      PROVE [Contract!Next]_(Contract!vars)
  <2>1. origin[j] \in Jobs
    BY <1>4 DEF RetriesOK, RecordRetried
  <2>2. Announced' = Announced
    BY <1>4, <2>1, InvisibleEvent, ApiIsNoAgent DEF RecordRetried, Hosts, Announced
  <2>3. QED
    BY <1>4, <2>2 DEF RecordRetried, Contract!vars
<1>5. ASSUME NEW j \in Jobs, DeleteJob(j)
      PROVE [Contract!Next]_(Contract!vars)
  BY <1>5, SilenceInvisible DEF DeleteJob
<1>6. ASSUME NEW j \in Jobs, NEW k \in Jobs, RetryJob(k, j)
      PROVE [Contract!Next]_(Contract!vars)
  BY <1>6, SilenceInvisible DEF RetryJob
<1>7. ASSUME NEW a \in Agents, NEW j \in Jobs, AckDeadlinePasses(a, j)
      PROVE [Contract!Next]_(Contract!vars)
  BY <1>7, SilenceInvisible DEF AckDeadlinePasses
<1>8. ASSUME NEW a \in Agents, NEW s \in Slots, NEW j \in Jobs, Deliver(a, s, j)
      PROVE [Contract!Next]_(Contract!vars)
  BY <1>8, SilenceInvisible DEF Deliver
<1>9. ASSUME NEW a \in Agents, NEW s \in Slots, CheckAnswered(a, s)
      PROVE [Contract!Next]_(Contract!vars)
  BY <1>9, SilenceInvisible DEF CheckAnswered
<1>10. ASSUME NEW a \in Agents, NEW s \in Slots, LoadJob(a, s)
      PROVE [Contract!Next]_(Contract!vars)
  <2>1. work[<<a, s>>] \in Jobs
    BY <1>10, CallTyped DEF LoadJob
  <2>2. CASE Settle(a, work[<<a, s>>], "termed")
    BY <1>10, <2>1, <2>2, SettleStep DEF LoadJob
  <2>3. CASE UNCHANGED settled
    BY <1>10, <2>3, SilenceInvisible DEF LoadJob
  <2>4. QED
    BY <1>10, <2>2, <2>3 DEF LoadJob
<1>11. ASSUME NEW a \in Agents, NEW s \in Slots, WriteAcknowledged(a, s)
      PROVE [Contract!Next]_(Contract!vars)
  <2>1. work[<<a, s>>] \in Jobs /\ a \in Hosts
    BY <1>11, CallTyped DEF WriteAcknowledged, Hosts
  <2>2. Announced' = Announced
    BY <1>11, <2>1, InvisibleEvent
       DEF WriteAcknowledged, WriteEvent, TerminalEvents, Outcomes, Announced
  <2>3. QED
    BY <1>11, <2>2 DEF WriteAcknowledged, WriteEvent, Contract!vars
<1>12. ASSUME NEW a \in Agents, NEW s \in Slots, WriteStarted(a, s)
      PROVE [Contract!Next]_(Contract!vars)
  <2>1. work[<<a, s>>] \in Jobs /\ a \in Hosts
    BY <1>12, CallTyped DEF WriteStarted, Hosts
  <2>2. Announced' = Announced
    BY <1>12, <2>1, InvisibleEvent
       DEF WriteStarted, WriteEvent, TerminalEvents, Outcomes, Announced
  <2>3. QED
    BY <1>12, <2>2 DEF WriteStarted, WriteEvent, Contract!vars
<1>13. ASSUME NEW a \in Agents, NEW s \in Slots, RunOperation(a, s)
      PROVE [Contract!Next]_(Contract!vars)
  <2>1. CallPair(a, s) \in Pairs
    BY <1>13, CallTyped DEF RunOperation
  <2>2. PICK o \in Outcomes : Decide(a, s, o)
    BY <1>13 DEF RunOperation, Outcomes
  <2>3. Contract!Decide(CallPair(a, s), o)
    BY <2>2 DEF Decide, Contract!Decide, Announced
  <2>4. QED
    BY <2>1, <2>3 DEF Contract!Next
<1>14. ASSUME NEW a \in Agents, NEW s \in Slots, FactsUnresolved(a, s)
      PROVE [Contract!Next]_(Contract!vars)
  <2>1. CallPair(a, s) \in Pairs
    BY <1>14, CallTyped DEF FactsUnresolved
  <2>2. PICK o \in Outcomes : Decide(a, s, o)
    BY <1>14 DEF FactsUnresolved, Outcomes
  <2>3. Contract!Decide(CallPair(a, s), o)
    BY <2>2 DEF Decide, Contract!Decide, Announced
  <2>4. QED
    BY <2>1, <2>3 DEF Contract!Next
<1>15. ASSUME NEW a \in Agents, NEW s \in Slots, StoreResponse(a, s)
      PROVE [Contract!Next]_(Contract!vars)
  <2>1. CallPair(a, s) \in Pairs
    BY <1>15, CallTyped DEF StoreResponse
  <2>2. outcome[<<a, s>>] \in decided[CallPair(a, s)]
    BY <1>15 DEF StoreResponse, CallsOK, CallOK, CallPair
  <2>3. outcome[<<a, s>>] \in Outcomes
    BY <2>1, <2>2 DEF TypeOK
  <2>4. CASE UNCHANGED responses
    BY <1>15, <2>4, SilenceInvisible DEF StoreResponse
  <2>5. CASE responses' = WithResponse(a, s)
    <3>1. Contract!Respond(CallPair(a, s), outcome[<<a, s>>])
      BY <1>15, <2>2, <2>5 DEF StoreResponse, WithResponse, Contract!Respond, Announced
    <3>2. QED
      BY <2>1, <2>3, <3>1 DEF Contract!Next
  <2>6. QED
    BY <1>15, <2>4, <2>5 DEF StoreResponse
<1>16. ASSUME NEW a \in Agents, NEW s \in Slots, WriteStoreFailed(a, s)
      PROVE [Contract!Next]_(Contract!vars)
  <2>1. work[<<a, s>>] \in Jobs /\ CallPair(a, s) \in Pairs
    BY <1>16, CallTyped DEF WriteStoreFailed
  <2>2. decided[<<a, work[<<a, s>>]>>] # {}
    BY <1>16 DEF WriteStoreFailed, CallsOK, CallOK
  <2>3. "failed" \in TerminalEvents
    BY <2>1, <2>2 DEF TypeOK, TerminalEvents, Outcomes, CallPair
  <2>4. CASE UNCHANGED events
    BY <1>16, <2>4, SilenceInvisible DEF WriteStoreFailed, WriteEvent
  <2>5. CASE Record(work[<<a, s>>], a, "failed")
    BY <1>16, <2>1, <2>2, <2>3, <2>5, AnnounceStep DEF WriteStoreFailed, WriteEvent
  <2>6. QED
    BY <1>16, <2>4, <2>5 DEF WriteStoreFailed, WriteEvent
<1>17. ASSUME NEW a \in Agents, NEW s \in Slots, WriteTerminal(a, s)
      PROVE [Contract!Next]_(Contract!vars)
  <2>1. work[<<a, s>>] \in Jobs /\ CallPair(a, s) \in Pairs
    BY <1>17, CallTyped DEF WriteTerminal
  <2>2. outcome[<<a, s>>] \in responses[<<a, work[<<a, s>>]>>]
    BY <1>17 DEF WriteTerminal, CallsOK, CallOK
  <2>3. outcome[<<a, s>>] \in TerminalEvents
    BY <2>1, <2>2 DEF TypeOK, TerminalEvents, Outcomes, CallPair
  <2>4. CASE UNCHANGED events
    BY <1>17, <2>4, SilenceInvisible DEF WriteTerminal, WriteEvent
  <2>5. CASE Record(work[<<a, s>>], a, outcome[<<a, s>>])
    BY <1>17, <2>1, <2>2, <2>3, <2>5, AnnounceStep DEF WriteTerminal, WriteEvent
  <2>6. QED
    BY <1>17, <2>4, <2>5 DEF WriteTerminal, WriteEvent
<1>18. ASSUME NEW a \in Agents, NEW s \in Slots, Acknowledge(a, s)
      PROVE [Contract!Next]_(Contract!vars)
  <2>1. work[<<a, s>>] \in Jobs /\ CallPair(a, s) \in Pairs
    BY <1>18, CallTyped DEF Acknowledge
  <2>2. decided[<<a, work[<<a, s>>]>>] # {}
    BY <1>18, <2>1 DEF Acknowledge, CallsOK, CallOK, CallPair, AcknowledgedOnlyWhenDecided
  <2>3. CASE Settle(a, work[<<a, s>>], "acked")
    BY <1>18, <2>1, <2>2, <2>3, SettleStep DEF Acknowledge
  <2>4. CASE UNCHANGED settled
    BY <1>18, <2>4, SilenceInvisible DEF Acknowledge
  <2>5. QED
    BY <1>18, <2>3, <2>4 DEF Acknowledge
<1>19. ASSUME NEW a \in Agents, Crash(a)
      PROVE [Contract!Next]_(Contract!vars)
  BY <1>19, SilenceInvisible DEF Crash
<1>20. QED
  BY <1>1, <1>2, <1>3, <1>4, <1>5, <1>6, <1>7, <1>8, <1>9, <1>10, <1>11,
     <1>12, <1>13, <1>14, <1>15, <1>16, <1>17, <1>18, <1>19 DEF Next, CreateStep, HandlerStep

(***************************************************************************)
(* The delivery of jobs implements the contract, whatever the number of    *)
(* agents, jobs and calls, the speed of the bucket, the crashes and the    *)
(* faults: what is decided, stored, announced or settled is never taken    *)
(* back, and comes in that order.                                          *)
(***************************************************************************)
THEOREM Refinement == Spec => ImplementsContract
<1>1. IInv /\ [Next]_vars => [Contract!Next]_(Contract!vars)
  <2> SUFFICES ASSUME IInv, [Next]_vars PROVE [Contract!Next]_(Contract!vars)
    OBVIOUS
  <2>1. CASE Next
    BY <2>1, ContractStep
  <2>2. CASE UNCHANGED vars
    BY <2>2, SilenceInvisible
       DEF vars, bucketVars, callerVars, consumerVars, handlerVars, historyVars
  <2>3. QED
    BY <2>1, <2>2
<1>2. QED
  BY <1>1, ContractInit, Invariance, PTL DEF Spec, ImplementsContract, Contract!Spec
=============================================================================
