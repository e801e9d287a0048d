---------------------------- MODULE JobDelivery ----------------------------
(***************************************************************************)
(* One job's way through osapi: the controller stores it in the job bucket *)
(* and publishes a notification (internal/job/client), JetStream delivers  *)
(* the notification to a durable consumer of every agent its subject       *)
(* matches and redelivers it until it is acknowledged, and the agent's     *)
(* handleJobMessage (internal/agent/handler.go) runs the operation and     *)
(* records its response and its status events.                             *)
(*                                                                         *)
(* Every round trip to the bucket is a step of its own, so agents, the     *)
(* controller and the ack timer interleave between any two of them; an     *)
(* agent may crash at each, and each round trip may fail.                  *)
(***************************************************************************)
EXTENDS JobStatus, Integers, Sequences

CONSTANTS
    Jobs,           \* job IDs
    NoJob,
    NoOutcome,
    Slots,          \* concurrent handler calls of an agent (agent.max_jobs)
    Matches,        \* [Jobs -> SUBSET Agents]: whose consumers match the subject
    Rejects,        \* SUBSET (Agents \X Jobs): job data the agent cannot accept
    AckWait,        \* agent.consumer.ack_wait, in units of 30 seconds
    BackOff,        \* agent.consumer.back_off, in the same units
    MaxDeliver,     \* agent.consumer.max_deliver
    SlowKV,         \* may the short bucket round trips outlast the ack deadline?
    MaxCrashes,     \* bound on the agent crashes of a behaviour
    MaxFaults       \* bound on the failed bucket, publish and ack round trips

Pairs == Agents \X Jobs

ASSUME JobDeliveryAssumption ==
    /\ NoJob \notin Jobs
    /\ NoOutcome \notin Outcomes
    /\ Matches \in [Jobs -> SUBSET Agents]
    /\ Rejects \subseteq Pairs
    /\ AckWait \in Nat \ {0}
    /\ BackOff \in Seq(Nat)
    /\ MaxDeliver \in Nat \ {0}
    /\ SlowKV \in BOOLEAN
    /\ MaxCrashes \in Nat
    /\ MaxFaults \in Nat

VARIABLES
    \* the job bucket
    job,            \* key jobs.<id>
    events,         \* keys status.<id>.<event>.<host>.<nanoseconds>
    responses,      \* keys responses.<id>.<host>.<nanoseconds>, by their status
    \* the controller's call that creates the job
    caller,
    origin,         \* the job a retry was made from, else NoJob
    \* the stream and the agents' durable consumers
    published,
    delivered,      \* deliveries so far
    outstanding,    \* delivered and the ack deadline has not passed
    settled,        \* acknowledged or terminated
    dlq,            \* max-deliveries advisories captured by the DLQ stream
    \* the agents' handler calls
    pc, work, outcome,
    \* history
    execs,          \* calls of processJobOperation
    decided,        \* outcomes the agent's handler calls reached
    crashes, faults

bucketVars   == <<job, events, responses>>
callerVars   == <<caller, origin>>
consumerVars == <<delivered, outstanding, settled, dlq>>
handlerVars  == <<pc, work, outcome>>
historyVars  == <<execs, decided>>
vars == <<bucketVars, callerVars, published, consumerVars, handlerVars,
          historyVars, crashes, faults>>

(***************************************************************************)
(* The ack deadline.  The server takes the n-th back_off duration for the  *)
(* n-th delivery when the list is not empty, ack_wait otherwise; the       *)
(* handler's keepalive resets it every ack_wait / 2.                       *)
(***************************************************************************)
AckDeadline(n) ==
    IF BackOff = <<>> THEN AckWait
    ELSE BackOff[IF n <= Len(BackOff) THEN n ELSE Len(BackOff)]

\* Mutant: a keepalive every ack_wait.
TwiceLateKeepAliveInterval == 2 * AckWait

\* startInProgressKeepAlive: twice the interval, to stay in whole units.
TwiceKeepAliveInterval == AckWait

\* The n-th delivery's deadline passes before the first keepalive resets it.
KeepAliveTooLate(n) == 2 * AckDeadline(n) <= TwiceKeepAliveInterval

-----------------------------------------------------------------------------
Init ==
    /\ job = [j \in Jobs |-> "absent"]
    /\ events = [j \in Jobs |-> [h \in Hosts |-> {}]]
    /\ responses = [p \in Pairs |-> {}]
    /\ caller = [j \in Jobs |-> "new"]
    /\ origin = [j \in Jobs |-> NoJob]
    /\ published = [j \in Jobs |-> FALSE]
    /\ delivered = [p \in Pairs |-> 0]
    /\ outstanding = [p \in Pairs |-> FALSE]
    /\ settled = [p \in Pairs |-> "open"]
    /\ dlq = {}
    /\ pc = [h \in Agents \X Slots |-> "idle"]
    /\ work = [h \in Agents \X Slots |-> NoJob]
    /\ outcome = [h \in Agents \X Slots |-> NoOutcome]
    /\ execs = [p \in Pairs |-> 0]
    /\ decided = [p \in Pairs |-> {}]
    /\ crashes = 0
    /\ faults = 0

\* A round trip that succeeds, or one that fails and costs a fault.
Succeeds == UNCHANGED faults
Fails    == faults < MaxFaults /\ faults' = faults + 1

Record(j, h, e) == events' = [events EXCEPT ![j][h] = @ \cup {e}]

-----------------------------------------------------------------------------
(***************************************************************************)
(* The controller.  CreateJob, publishAndWait and publishAndCollect store  *)
(* the job, and give up when that fails.  A write that reports an error    *)
(* may have been stored all the same.                                      *)
(***************************************************************************)
StoreJob(j) ==
    /\ caller[j] \in {"new", "retrying"}
    /\ \/ /\ Succeeds
          /\ job' = [job EXCEPT ![j] = "present"]
          /\ caller' = [caller EXCEPT ![j] = "stored"]
       \/ /\ Fails
          /\ job' \in {job, [job EXCEPT ![j] = "present"]}
          /\ caller' = [caller EXCEPT ![j] = "error"]
    /\ UNCHANGED <<events, responses, origin, published, consumerVars,
                   handlerVars, historyVars, crashes>>

(***************************************************************************)
(* CreateJob writes a submitted event, and goes on without it when that    *)
(* fails; the other two never write one.                                   *)
(***************************************************************************)
RecordSubmitted(j) ==
    /\ caller[j] = "stored"
    /\ Succeeds
    /\ Record(j, Api, "submitted")
    /\ caller' = [caller EXCEPT ![j] = "submitted"]
    /\ UNCHANGED <<job, responses, origin, published, consumerVars,
                   handlerVars, historyVars, crashes>>

(***************************************************************************)
(* The notification.  A publish whose acknowledgement is lost reports an   *)
(* error although the stream holds the message.                            *)
(***************************************************************************)
PublishNotification(j) ==
    /\ caller[j] \in {"stored", "submitted"}
    /\ \/ /\ Succeeds
          /\ published' = [published EXCEPT ![j] = TRUE]
          /\ caller' = [caller EXCEPT ![j] =
                           IF origin[j] = NoJob THEN "done" ELSE "published"]
       \/ /\ Fails
          /\ published' \in {published, [published EXCEPT ![j] = TRUE]}
          /\ caller' = [caller EXCEPT ![j] = "error"]
    /\ UNCHANGED <<bucketVars, origin, consumerVars, handlerVars, historyVars,
                   crashes>>

(***************************************************************************)
(* RetryJob: read the stored job k, create j with its operation, then tell *)
(* k's timeline, best effort.  (Without PKI: see the README.)              *)
(***************************************************************************)
RetryJob(k, j) ==
    /\ job[k] = "present"
    /\ caller[j] = "new"
    /\ origin' = [origin EXCEPT ![j] = k]
    /\ caller' = [caller EXCEPT ![j] = "retrying"]
    /\ UNCHANGED <<bucketVars, published, consumerVars, handlerVars,
                   historyVars, crashes, faults>>

RecordRetried(j) ==
    /\ caller[j] = "published"
    /\ \/ Succeeds /\ Record(origin[j], Api, "retried")
       \/ Fails /\ UNCHANGED events
    /\ caller' = [caller EXCEPT ![j] = "done"]
    /\ UNCHANGED <<job, responses, origin, published, consumerVars,
                   handlerVars, historyVars, crashes>>

\* DeleteJob removes the job's own key and leaves its events and responses.
DeleteJob(j) ==
    /\ job[j] = "present"
    /\ job' = [job EXCEPT ![j] = "deleted"]
    /\ UNCHANGED <<events, responses, callerVars, published, consumerVars,
                   handlerVars, historyVars, crashes, faults>>

-----------------------------------------------------------------------------
\* Mutant: the consumer is created without max_deliver.
DeliverWithoutLimit(a, s, j) ==
    /\ published[j]
    /\ a \in Matches[j]
    /\ settled[<<a, j>>] = "open"
    /\ ~outstanding[<<a, j>>]
    /\ pc[<<a, s>>] = "idle"
    /\ delivered' = [delivered EXCEPT ![<<a, j>>] = @ + 1]
    /\ outstanding' = [outstanding EXCEPT ![<<a, j>>] = TRUE]
    /\ pc' = [pc EXCEPT ![<<a, s>>] = "check"]
    /\ work' = [work EXCEPT ![<<a, s>>] = j]
    /\ UNCHANGED <<bucketVars, callerVars, published, settled, dlq, outcome,
                   historyVars, crashes, faults>>

(***************************************************************************)
(* The stream.  One durable consumer per agent and subject: each agent     *)
(* whose consumer matches gets the notification, whatever the others do.   *)
(***************************************************************************)
Deliver(a, s, j) ==
    /\ published[j]
    /\ a \in Matches[j]
    /\ settled[<<a, j>>] = "open"
    /\ ~outstanding[<<a, j>>]
    /\ delivered[<<a, j>>] < MaxDeliver
    /\ pc[<<a, s>>] = "idle"
    /\ delivered' = [delivered EXCEPT ![<<a, j>>] = @ + 1]
    /\ outstanding' = [outstanding EXCEPT ![<<a, j>>] = TRUE]
    /\ pc' = [pc EXCEPT ![<<a, s>>] = "check"]
    /\ work' = [work EXCEPT ![<<a, s>>] = j]
    /\ UNCHANGED <<bucketVars, callerVars, published, settled, dlq, outcome,
                   historyVars, crashes, faults>>

\* The handler calls of agent a that hold a delivery of job j.
Handling(a, j) == {s \in Slots : work[<<a, s>>] = j}

\* Mutant: the last delivery is not dead-lettered.
AckDeadlinePassesUnseen(a, j) ==
    /\ outstanding[<<a, j>>]
    /\ Handling(a, j) = {}
    /\ outstanding' = [outstanding EXCEPT ![<<a, j>>] = FALSE]
    /\ UNCHANGED <<bucketVars, callerVars, published, delivered, settled, dlq,
                   handlerVars, historyVars, crashes, faults>>

(***************************************************************************)
(* The ack deadline passes: the message becomes deliverable again, or the  *)
(* server gives it up and the DLQ stream captures the advisory.  While a   *)
(* call still holds the message this happens only if the operation runs    *)
(* and the keepalive comes too late, or if the bucket is that slow.        *)
(***************************************************************************)
AckDeadlinePasses(a, j) ==
    /\ outstanding[<<a, j>>]
    /\ \A s \in Handling(a, j) :
           SlowKV \/ (pc[<<a, s>>] = "run" /\ KeepAliveTooLate(delivered[<<a, j>>]))
    /\ outstanding' = [outstanding EXCEPT ![<<a, j>>] = FALSE]
    /\ dlq' = IF delivered[<<a, j>>] = MaxDeliver THEN dlq \cup {<<a, j>>} ELSE dlq
    /\ UNCHANGED <<bucketVars, callerVars, published, delivered, settled,
                   handlerVars, historyVars, crashes, faults>>

\* The call of slot s of agent a ends; its acknowledgement settles the message.
EndCall(a, s) ==
    /\ pc' = [pc EXCEPT ![<<a, s>>] = "idle"]
    /\ work' = [work EXCEPT ![<<a, s>>] = NoJob]
    /\ outcome' = [outcome EXCEPT ![<<a, s>>] = NoOutcome]

Settle(a, j, how) ==
    /\ settled' = [settled EXCEPT ![<<a, j>>] = IF @ = "open" THEN how ELSE @]
    /\ outstanding' = [outstanding EXCEPT ![<<a, j>>] = FALSE]

-----------------------------------------------------------------------------
(***************************************************************************)
(* handleJobMessage, one round trip at a time.                             *)
(***************************************************************************)
\* The agent and the job of the call of slot s.
CallPair(a, s) == <<a, work[<<a, s>>]>>

GoTo(a, s, label) == pc' = [pc EXCEPT ![<<a, s>>] = label]

\* Mutants: the check fails closed; there is no check.
CheckAnsweredFailsClosed(a, s) ==
    /\ pc[<<a, s>>] = "check"
    /\ \/ Succeeds /\ GoTo(a, s, IF responses[CallPair(a, s)] # {} THEN "skip" ELSE "load")
       \/ Fails /\ GoTo(a, s, "skip")
    /\ UNCHANGED <<bucketVars, callerVars, published, consumerVars, work,
                   outcome, historyVars, crashes>>

CheckNothing(a, s) ==
    /\ pc[<<a, s>>] = "check"
    /\ GoTo(a, s, "load")
    /\ UNCHANGED <<bucketVars, callerVars, published, consumerVars, work,
                   outcome, historyVars, crashes, faults>>

\* Has this agent answered the job already?  A failed check fails open.
CheckAnswered(a, s) ==
    LET j == work[<<a, s>>] IN
    /\ pc[<<a, s>>] = "check"
    /\ \/ Succeeds /\ GoTo(a, s, IF responses[<<a, j>>] # {} THEN "skip" ELSE "load")
       \/ Fails /\ GoTo(a, s, "load")
    /\ UNCHANGED <<bucketVars, callerVars, published, consumerVars, work,
                   outcome, historyVars, crashes>>

(***************************************************************************)
(* Read the job data.  Not found: return an error and leave the message    *)
(* to its deadline.  Data this agent cannot verify or parse: terminate.    *)
(***************************************************************************)
LoadJob(a, s) ==
    LET j == work[<<a, s>>] IN
    /\ pc[<<a, s>>] = "load"
    /\ \/ /\ \/ Succeeds /\ job[j] # "present"
             \/ Fails
          /\ EndCall(a, s)
          /\ UNCHANGED consumerVars
       \/ /\ job[j] = "present" /\ <<a, j>> \in Rejects
          /\ \/ Succeeds /\ Settle(a, j, "termed")
             \/ Fails /\ UNCHANGED <<settled, outstanding>>
          /\ EndCall(a, s)
          /\ UNCHANGED <<delivered, dlq>>
       \/ /\ job[j] = "present" /\ <<a, j>> \notin Rejects
          /\ Succeeds
          /\ GoTo(a, s, "ack event")
          /\ UNCHANGED <<consumerVars, work, outcome>>
    /\ UNCHANGED <<bucketVars, callerVars, published, historyVars, crashes>>

\* A best-effort status event, then on to the next step of the call.
WriteEvent(a, s, e, next) ==
    /\ \/ Succeeds /\ Record(work[<<a, s>>], a, e)
       \/ Fails /\ UNCHANGED events
    /\ GoTo(a, s, next)
    /\ UNCHANGED <<job, responses, callerVars, published, consumerVars, work,
                   outcome, historyVars, crashes>>

WriteAcknowledged(a, s) ==
    pc[<<a, s>>] = "ack event" /\ WriteEvent(a, s, "acknowledged", "start event")

WriteStarted(a, s) ==
    pc[<<a, s>>] = "start event" /\ WriteEvent(a, s, "started", "run")

\* The outcome o of the call: its response carries it, its last event too.
Decide(a, s, o) ==
    /\ outcome' = [outcome EXCEPT ![<<a, s>>] = o]
    /\ decided' = [decided EXCEPT ![CallPair(a, s)] = @ \cup {o}]
    /\ GoTo(a, s, "respond")
    /\ UNCHANGED <<bucketVars, callerVars, published, consumerVars, work,
                   crashes, faults>>

\* processJobOperation: the operation takes effect on the host.
RunOperation(a, s) ==
    /\ pc[<<a, s>>] = "run"
    /\ execs' = [execs EXCEPT ![CallPair(a, s)] = @ + 1]
    /\ \E o \in Outcomes : Decide(a, s, o)

\* Mutant: the call returns the error, and the message stays open.
FactsUnresolvedUnanswered(a, s) ==
    /\ pc[<<a, s>>] = "run"
    /\ EndCall(a, s)
    /\ UNCHANGED <<bucketVars, callerVars, published, consumerVars,
                   historyVars, crashes, faults>>

\* A fact reference does not resolve: the call fails without an operation.
FactsUnresolved(a, s) ==
    /\ pc[<<a, s>>] = "run"
    /\ Decide(a, s, "failed")
    /\ UNCHANGED execs

\* The agent's responses to the job with the one of this call.
WithResponse(a, s) ==
    [responses EXCEPT ![CallPair(a, s)] = @ \cup {outcome[<<a, s>>]}]

\* Mutants: a failed write is ignored; the message is settled too early.
StoreResponseIgnoringErrors(a, s) ==
    /\ pc[<<a, s>>] = "respond"
    /\ \/ /\ Succeeds
          /\ responses' = WithResponse(a, s)
       \/ Fails /\ UNCHANGED responses
    /\ GoTo(a, s, "last event")
    /\ UNCHANGED <<job, events, callerVars, published, consumerVars, work,
                   outcome, historyVars, crashes>>

StoreResponseAndSettle(a, s) ==
    /\ pc[<<a, s>>] = "respond"
    /\ responses' = WithResponse(a, s)
    /\ Settle(a, work[<<a, s>>], "acked")
    /\ GoTo(a, s, "last event")
    /\ UNCHANGED <<job, events, callerVars, published, delivered, dlq, work,
                   outcome, historyVars, crashes, faults>>

(***************************************************************************)
(* WriteJobResponse comes before the terminal event.  When it reports an   *)
(* error, stored or not, the call records a failure and is acknowledged.   *)
(***************************************************************************)
StoreResponse(a, s) ==
    /\ pc[<<a, s>>] = "respond"
    /\ \/ /\ Succeeds
          /\ responses' = WithResponse(a, s)
          /\ GoTo(a, s, "last event")
       \/ /\ Fails
          /\ responses' \in {responses, WithResponse(a, s)}
          /\ GoTo(a, s, "store failed")
    /\ UNCHANGED <<job, events, callerVars, published, consumerVars, work,
                   outcome, historyVars, crashes>>

WriteStoreFailed(a, s) ==
    pc[<<a, s>>] = "store failed" /\ WriteEvent(a, s, "failed", "ack")

WriteTerminal(a, s) ==
    pc[<<a, s>>] = "last event" /\ WriteEvent(a, s, outcome[<<a, s>>], "ack")

(***************************************************************************)
(* A nil return acknowledges the message, and the acknowledgement may be   *)
(* lost.  "skip" is the early return for a job that was answered before.   *)
(***************************************************************************)
Acknowledge(a, s) ==
    /\ pc[<<a, s>>] \in {"ack", "skip"}
    /\ \/ Succeeds /\ Settle(a, work[<<a, s>>], "acked")
       \/ Fails /\ UNCHANGED <<settled, outstanding>>
    /\ EndCall(a, s)
    /\ UNCHANGED <<bucketVars, callerVars, published, delivered, dlq,
                   historyVars, crashes>>

-----------------------------------------------------------------------------
\* The agent process dies and comes back: every call in flight is gone.
Crash(a) ==
    /\ crashes < MaxCrashes
    /\ crashes' = crashes + 1
    /\ \E s \in Slots : pc[<<a, s>>] # "idle"
    /\ pc' = [h \in Agents \X Slots |-> IF h[1] = a THEN "idle" ELSE pc[h]]
    /\ work' = [h \in Agents \X Slots |-> IF h[1] = a THEN NoJob ELSE work[h]]
    /\ outcome' = [h \in Agents \X Slots |-> IF h[1] = a THEN NoOutcome ELSE outcome[h]]
    /\ UNCHANGED <<bucketVars, callerVars, published, consumerVars,
                   historyVars, faults>>

CreateStep(j) ==
    \/ StoreJob(j) \/ RecordSubmitted(j) \/ PublishNotification(j) \/ RecordRetried(j)

HandlerStep(a, s) ==
    \/ CheckAnswered(a, s) \/ LoadJob(a, s)
    \/ WriteAcknowledged(a, s) \/ WriteStarted(a, s)
    \/ RunOperation(a, s) \/ FactsUnresolved(a, s)
    \/ StoreResponse(a, s) \/ WriteStoreFailed(a, s) \/ WriteTerminal(a, s)
    \/ Acknowledge(a, s)

Next ==
    \/ \E j \in Jobs : CreateStep(j) \/ DeleteJob(j)
    \/ \E j, k \in Jobs : RetryJob(k, j)
    \/ \E a \in Agents, j \in Jobs : AckDeadlinePasses(a, j)
    \/ \E a \in Agents, s \in Slots, j \in Jobs : Deliver(a, s, j)
    \/ \E a \in Agents, s \in Slots : HandlerStep(a, s)
    \/ \E a \in Agents : Crash(a)

Spec == Init /\ [][Next]_vars

(***************************************************************************)
(* Fairness.  The controller's call and the agents' goroutines run on; the *)
(* server delivers what is deliverable and its ack timers fire.  A crash,  *)
(* a deletion or a retry never has to happen.                              *)
(***************************************************************************)
Fairness ==
    /\ \A j \in Jobs : WF_vars(CreateStep(j))
    /\ \A a \in Agents, s \in Slots : WF_vars(HandlerStep(a, s))
    /\ \A a \in Agents, j \in Jobs :
           /\ WF_vars(AckDeadlinePasses(a, j))
           /\ WF_vars(\E s \in Slots : Deliver(a, s, j))

FairSpec == Spec /\ Fairness

-----------------------------------------------------------------------------
(***************************************************************************)
(* Properties.                                                             *)
(***************************************************************************)
CallerStates == {"new", "retrying", "stored", "submitted", "published", "done", "error"}
Labels == {"idle", "check", "load", "ack event", "start event", "run", "respond",
           "last event", "store failed", "ack", "skip"}

\* The values the state of internal/job/client and of the handler can take.
TypeOK ==
    /\ job \in [Jobs -> {"absent", "present", "deleted"}]
    /\ events \in [Jobs -> Logs]
    /\ responses \in [Pairs -> SUBSET Outcomes]
    /\ caller \in [Jobs -> CallerStates]
    /\ origin \in [Jobs -> Jobs \cup {NoJob}]
    /\ published \in [Jobs -> BOOLEAN]
    /\ delivered \in [Pairs -> 0..MaxDeliver]
    /\ outstanding \in [Pairs -> BOOLEAN]
    /\ settled \in [Pairs -> {"open", "acked", "termed"}]
    /\ dlq \in SUBSET Pairs
    /\ pc \in [Agents \X Slots -> Labels]
    /\ work \in [Agents \X Slots -> Jobs \cup {NoJob}]
    /\ outcome \in [Agents \X Slots -> Outcomes \cup {NoOutcome}]
    /\ execs \in [Pairs -> Nat]
    /\ decided \in [Pairs -> SUBSET Outcomes]
    /\ crashes \in 0..MaxCrashes
    /\ faults \in 0..MaxFaults

(***************************************************************************)
(* "The response data must already be in KV when they read it"             *)
(* (handler.go:497): whoever sees an agent's terminal event finds the      *)
(* response it announces, except a failure reported because that very      *)
(* response could not be stored.                                           *)
(***************************************************************************)
TerminalEventHasResponse ==
    \A a \in Agents, j \in Jobs :
        \A e \in events[j][a] \cap TerminalEvents :
            e \in responses[<<a, j>>] \/ (e = "failed" /\ faults > 0)

(***************************************************************************)
(* The bucket tells no outcome an agent did not reach: a response is one   *)
(* of the outcomes of its own calls, and a notification is acknowledged    *)
(* only once some call of that agent reached an outcome.  Whatever is      *)
(* redelivered, dropped or skipped, a job is not acknowledged unhandled.   *)
(***************************************************************************)
AcknowledgedOnlyWhenDecided ==
    \A p \in Pairs :
        /\ responses[p] \subseteq decided[p]
        /\ settled[p] = "acked" => decided[p] # {}

(***************************************************************************)
(* The ack timer never fires on a call that is still at work: bucket round *)
(* trips are shorter than the deadline, and the first keepalive of an      *)
(* operation comes before it.                                              *)
(***************************************************************************)
KeepAliveInTime == ~SlowKV /\ \A n \in 1..MaxDeliver : ~KeepAliveTooLate(n)

(***************************************************************************)
(* "An operation that outlives AckWait is not redelivered mid-flight"      *)
(* (handler.go:440): while an operation runs its delivery is outstanding,  *)
(* and no second call of the agent holds the same job.                     *)
(***************************************************************************)
NotRedeliveredMidFlight ==
    \A a \in Agents, s \in Slots :
        pc[<<a, s>>] = "run" => /\ outstanding[CallPair(a, s)]
                            /\ Handling(a, work[<<a, s>>]) = {s}

(***************************************************************************)
(* The handler exists to prevent "the operation would run a second time"   *)
(* (handler.go:510).  What it achieves: every execution after the first    *)
(* costs a crash, or two failed round trips (the response or its check,    *)
(* and the acknowledgement).                                               *)
(***************************************************************************)
ExtraExecutionsPaidFor ==
    KeepAliveInTime =>
        \A p \in Pairs : 2 * execs[p] <= 2 + 2 * crashes + faults

(***************************************************************************)
(* A notification whose job still exists is dead-lettered only after as    *)
(* many crashes or failed round trips as it has deliveries: the handler    *)
(* never wastes a delivery of a job it could have handled.                 *)
(***************************************************************************)
DeadLetteredOnlyAfterFailures ==
    KeepAliveInTime =>
        \A a \in Agents, j \in Jobs :
            <<a, j>> \in dlq /\ job[j] = "present" => crashes + faults >= MaxDeliver

(***************************************************************************)
(* GET /jobs/{id} and the job list derive the status of a job with two     *)
(* functions; they agree on every log the agents can write.                *)
(***************************************************************************)
ListAgreesWithGet ==
    \A j \in Jobs : ComputedStatus(events[j]) = ListedStatus(events[j])

(***************************************************************************)
(* Once every notification of a job is settled nobody writes about it any  *)
(* more: the status a client polls, and the responses, are final.          *)
(***************************************************************************)
AllSettled(j) == \A a \in Matches[j] : settled[<<a, j>>] # "open"

SettledIsFinal ==
    [][\A j \in Jobs : KeepAliveInTime /\ published[j] /\ AllSettled(j) =>
           /\ ComputedStatus(events[j])' = ComputedStatus(events[j])
           /\ \A a \in Agents : responses'[<<a, j>>] = responses[<<a, j>>]]_vars

(***************************************************************************)
(* Every notification ends: acknowledged, terminated or dead-lettered.     *)
(***************************************************************************)
EveryNotificationEnds ==
    \A j \in Jobs : \A a \in Matches[j] :
        published[j] ~> (settled[<<a, j>>] # "open" \/ <<a, j>> \in dlq)

(***************************************************************************)
(* "The response and terminal status are already recorded"                 *)
(* (handler.go:238): a call that skips a job because it was answered finds *)
(* the terminal event too.  See the README: it may not.                    *)
(***************************************************************************)
SkippedJobHasTerminalStatus ==
    \A a \in Agents, s \in Slots :
        pc[<<a, s>>] = "skip" => events[work[<<a, s>>]][a] \cap TerminalEvents # {}

-----------------------------------------------------------------------------
(***************************************************************************)
(* The refinement.  An announced outcome is a terminal event in the log of *)
(* the agent; everything else the contract speaks of is there as it is.    *)
(***************************************************************************)
Announced == [p \in Pairs |-> events[p[2]][p[1]] \cap TerminalEvents]

Contract == INSTANCE JobContract WITH announced <- Announced

(***************************************************************************)
(* Through crashes, redeliveries and failed round trips, each step of the  *)
(* agents keeps the contract or is invisible to it: no answer, event or    *)
(* acknowledgement is taken back, or comes before what it tells about.     *)
(***************************************************************************)
ImplementsContract == Contract!Spec
=============================================================================
