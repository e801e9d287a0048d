-------------------------- MODULE AgentLifecycle --------------------------
(***************************************************************************)
(* The life of one agent process (internal/agent): Start on the main       *)
(* goroutine, the heartbeat goroutine that detects drains and asks for     *)
(* enrollment again, and the NATS callback that hears an acceptance.  The  *)
(* three share the scheduling state and the consumer context, which        *)
(* lifecycleMu guards; they interleave everywhere else.                    *)
(*                                                                         *)
(* A consumer set is what one startConsumersLocked starts.  The agent      *)
(* holds the cancel function of the last one only: a set that is still     *)
(* running when the next one starts can never be cancelled again.          *)
(***************************************************************************)
EXTENDS Naturals

CONSTANTS
    PKI,            \* agent.pki.enabled
    MaxMessages,    \* bound on the enrollment messages in flight, each way
    MaxLost,        \* bound on requests and acceptances lost, and on rejections
    MaxFaults,      \* bound on failed reads, writes, publishes and subscriptions
    MaxDrains,      \* bound on the operator's drains
    MaxRestarts     \* bound on the restarts of the process

ASSUME AgentLifecycleAssumption ==
    /\ PKI \in BOOLEAN
    /\ MaxMessages \in Nat \ {0}
    /\ {MaxLost, MaxFaults, MaxDrains, MaxRestarts} \subseteq Nat

VARIABLES
    \* memory of the process
    main,           \* where Start is
    beat,           \* where writeRegistration and the heartbeat tick are
    drainSeen,      \* what the tick's checkDrainFlag returned
    callback,       \* where handleEnrollmentResponse is
    subscribed,     \* the acceptance listener exists
    trusted,        \* pkiManager holds the controller's public key
    state,          \* a.state
    consumers,      \* the consumer set whose cancel function is held
    leaked,         \* running consumer sets nobody can cancel
    \* what survives the process
    enrolled,       \* controller.pub is on disk
    drainFlag,      \* key drain.<machine id> in the state bucket
    requests,       \* enrollment requests on their way to the controller
    pending,        \* the controller holds a pending entry
    acceptances,    \* acceptances on their way to the agent
    \* history
    startupCordon,  \* the agent was cordoned before Start had finished
    crossed,        \* an acceptance came before that, or twice
    drains, undrains, restarts, lost, faults

process    == <<main, beat, drainSeen, callback, subscribed, state, consumers, leaked>>
enrollment == <<trusted, enrolled, requests, pending, acceptances, lost>>
operator   == <<drainFlag, drains, undrains>>
causes     == <<startupCordon, crossed>>
vars == <<process, enrollment, operator, causes, restarts, faults>>

Fault == faults < MaxFaults /\ faults' = faults + 1
Loss  == lost < MaxLost /\ lost' = lost + 1

\* lifecycleMu is held across steps only while a drain waits for its consumers.
Unlocked == beat # "draining"

(***************************************************************************)
(* startConsumersLocked: the new set's cancel function replaces the old    *)
(* one's.  A consumer that cannot be created is logged and left out.       *)
(***************************************************************************)
StartConsumers ==
    /\ leaked' = IF consumers = "running" THEN leaked + 1 ELSE leaked
    /\ \/ consumers' = "running" /\ UNCHANGED faults
       \/ Fault /\ consumers' = "uncreated"

Init ==
    /\ main = "init" /\ beat = "idle" /\ drainSeen = FALSE
    /\ callback = "idle" /\ subscribed = FALSE
    /\ state = "none" /\ consumers = "none" /\ leaked = 0
    /\ trusted = FALSE
    /\ enrolled \in {FALSE, PKI} /\ drainFlag = FALSE
    /\ requests = 0 /\ pending = FALSE /\ acceptances = 0
    /\ startupCordon = FALSE /\ crossed = FALSE
    /\ drains = 0 /\ undrains = 0 /\ restarts = 0 /\ lost = 0 /\ faults = 0

-----------------------------------------------------------------------------
(***************************************************************************)
(* Start.                                                                  *)
(***************************************************************************)
\* The identity or the agent's keys may be unreadable, which ends Start.  A
\* controller.pub that cannot be read counts as absent.
Begin ==
    /\ main = "init"
    /\ state' = "Ready"
    /\ \/ /\ main' = IF PKI /\ ~enrolled THEN "request" ELSE "preflight"
          /\ trusted' = (enrolled \/ trusted)
          /\ UNCHANGED faults
       \/ PKI /\ Fault /\ main' = "request" /\ UNCHANGED trusted
       \/ Fault /\ main' = "failed" /\ UNCHANGED trusted
    /\ UNCHANGED <<beat, drainSeen, callback, subscribed, consumers, leaked, enrolled,
                   requests, pending, acceptances, lost, operator, causes, restarts>>

(***************************************************************************)
(* publishEnrollmentRequest: a core NATS publish, at most once.  It fails, *)
(* which is only logged; or nobody hears it, because the broker dropped it *)
(* or the controller was down; or it is on its way.                        *)
(***************************************************************************)
PublishRequest ==
    \/ /\ requests' = IF requests < MaxMessages THEN requests + 1 ELSE requests
       /\ UNCHANGED <<lost, faults>>
    \/ Loss /\ UNCHANGED <<requests, faults>>
    \/ Fault /\ UNCHANGED <<requests, lost>>

\* handlePKIEnrollment: publish, then subscribe, then enter Pending.
RequestEnrollment ==
    /\ main = "request"
    /\ PublishRequest
    /\ main' = "subscribe"
    /\ UNCHANGED <<beat, drainSeen, callback, subscribed, state, consumers,
                   leaked, trusted, enrolled, pending, acceptances, operator,
                   causes, restarts>>

\* A failed subscription is logged; the agent goes on without a listener.
Subscribe ==
    /\ main = "subscribe"
    /\ \/ subscribed' = TRUE /\ UNCHANGED faults
       \/ Fault /\ UNCHANGED subscribed
    /\ main' = "enter pending"
    /\ UNCHANGED <<beat, drainSeen, callback, state, consumers, leaked,
                   enrollment, operator, causes, restarts>>

EnterPending ==
    /\ main = "enter pending"
    /\ state' = "Pending"
    /\ main' = "preflight"
    /\ UNCHANGED <<beat, drainSeen, callback, subscribed, consumers, leaked,
                   enrollment, operator, causes, restarts, faults>>

\* RunPreflight: on failure the agent's context is cancelled and Start returns.
Preflight ==
    /\ main = "preflight"
    /\ \/ main' = "register" /\ UNCHANGED <<consumers, leaked, faults>>
       \/ /\ Fault
          /\ main' = "failed"
          /\ consumers' = "none" /\ leaked' = 0
    /\ UNCHANGED <<beat, drainSeen, callback, subscribed, state, enrollment,
                   operator, causes, restarts>>

\* Mutant: Start does not look at the state.
CheckNothing ==
    /\ main = "check"
    /\ Unlocked
    /\ main' = "consume"
    /\ UNCHANGED <<beat, drainSeen, callback, subscribed, state, consumers,
                   leaked, enrollment, operator, causes, restarts, faults>>

\* The check and the start are two acquisitions of lifecycleMu.
CheckPending ==
    /\ main = "check"
    /\ Unlocked
    /\ main' = IF state # "Pending" THEN "consume" ELSE "up"
    /\ UNCHANGED <<beat, drainSeen, callback, subscribed, state, consumers,
                   leaked, enrollment, operator, causes, restarts, faults>>

StartJobConsumers ==
    /\ main = "consume"
    /\ Unlocked
    /\ StartConsumers
    /\ main' = "up"
    /\ UNCHANGED <<beat, drainSeen, callback, subscribed, state, enrollment,
                   operator, causes, restarts>>

-----------------------------------------------------------------------------
(***************************************************************************)
(* writeRegistration: once by Start itself, then on every heartbeat tick.  *)
(***************************************************************************)
ByStart   == main = "register"
Beating   == main \in {"check", "consume", "up"}

\* checkDrainFlag runs before the lock; a failed read means "no flag".
ReadDrainFlag ==
    /\ beat = "idle"
    /\ ByStart \/ Beating
    /\ \/ drainSeen' = drainFlag /\ UNCHANGED faults
       \/ Fault /\ drainSeen' = FALSE
    /\ beat' = "transition"
    /\ UNCHANGED <<main, callback, subscribed, state, consumers, leaked,
                   enrollment, operator, causes, restarts>>

\* After the transition Start goes on, a tick asks for enrollment again.
Registered ==
    /\ main' = IF ByStart THEN "check" ELSE main
    /\ beat' = IF ByStart THEN "idle" ELSE "retry"

\* handleDrainDetection: nothing to do.
KeepState ==
    /\ beat = "transition"
    /\ ~(drainSeen /\ state = "Ready")
    /\ ~(~drainSeen /\ state = "Cordoned")
    /\ Registered
    /\ UNCHANGED <<drainSeen, callback, subscribed, state, consumers, leaked,
                   enrollment, operator, causes, restarts, faults>>

\* Mutant: the drain waits for consumers it has not cancelled.
BeginDrainWithoutCancel ==
    /\ beat = "transition"
    /\ drainSeen /\ state = "Ready"
    /\ beat' = "draining"
    /\ UNCHANGED <<main, drainSeen, callback, subscribed, state, consumers, leaked,
                   enrollment, operator, causes, restarts, faults>>

\* ... the drain: cancel the consumers and wait for them, lifecycleMu held.
BeginDrain ==
    /\ beat = "transition"
    /\ drainSeen /\ state = "Ready"
    /\ consumers' = IF consumers = "running" THEN "cancelled" ELSE "none"
    /\ beat' = "draining"
    /\ UNCHANGED <<main, drainSeen, callback, subscribed, state, leaked,
                   enrollment, operator, causes, restarts, faults>>

\* Mutant: a goroutine that returns is counted twice.
ConsumersStopTwice ==
    /\ consumers = "cancelled"
    /\ consumers' = "none" /\ leaked' = leaked - 1
    /\ UNCHANGED <<main, beat, drainSeen, callback, subscribed, state,
                   enrollment, operator, causes, restarts, faults>>

\* The cancelled consumers finish the jobs they hold and return.
ConsumersStop ==
    /\ consumers = "cancelled"
    /\ consumers' = "none"
    /\ UNCHANGED <<main, beat, drainSeen, callback, subscribed, state, leaked,
                   enrollment, operator, causes, restarts, faults>>

\* Mutant: the drain does not wait.
FinishDrainAtOnce ==
    /\ beat = "draining"
    /\ state' = "Cordoned"
    /\ startupCordon' = (main # "up")
    /\ Registered
    /\ UNCHANGED <<drainSeen, callback, subscribed, consumers, leaked,
                   enrollment, operator, crossed, restarts, faults>>

\* consumerWg counts the goroutines of every set, the leaked ones included.
FinishDrain ==
    /\ beat = "draining"
    /\ consumers = "none" /\ leaked = 0
    /\ state' = "Cordoned"
    /\ startupCordon' = (main # "up")
    /\ Registered
    /\ UNCHANGED <<drainSeen, callback, subscribed, consumers, leaked,
                   enrollment, operator, crossed, restarts, faults>>

\* Mutants: nothing is started; any tick without a flag starts consumers.
UndrainWithoutStart ==
    /\ beat = "transition"
    /\ ~drainSeen /\ state = "Cordoned"
    /\ state' = "Ready"
    /\ Registered
    /\ UNCHANGED <<drainSeen, callback, subscribed, consumers, leaked, enrollment,
                   operator, causes, restarts, faults>>

UndrainAnyTick ==
    /\ beat = "transition"
    /\ ~drainSeen /\ state # "Pending"
    /\ StartConsumers
    /\ state' = "Ready"
    /\ Registered
    /\ UNCHANGED <<drainSeen, callback, subscribed, enrollment, operator,
                   causes, restarts>>

\* ... the undrain.
Undrain ==
    /\ beat = "transition"
    /\ ~drainSeen /\ state = "Cordoned"
    /\ StartConsumers
    /\ state' = "Ready"
    /\ Registered
    /\ UNCHANGED <<drainSeen, callback, subscribed, enrollment, operator,
                   causes, restarts>>

\* Mutant: the request is published once only.
NeverRetry ==
    /\ beat = "retry"
    /\ beat' = "idle"
    /\ UNCHANGED <<main, drainSeen, callback, subscribed, state, consumers,
                   leaked, enrollment, operator, causes, restarts, faults>>

\* retryEnrollmentIfPending: the state is read first, the request sent after.
RetryIfPending ==
    /\ beat = "retry"
    /\ beat' = IF state = "Pending" THEN "republish" ELSE "idle"
    /\ UNCHANGED <<main, drainSeen, callback, subscribed, state, consumers,
                   leaked, enrollment, operator, causes, restarts, faults>>

Republish ==
    /\ beat = "republish"
    /\ PublishRequest
    /\ beat' = "idle"
    /\ UNCHANGED <<main, drainSeen, callback, subscribed, state, consumers,
                   leaked, trusted, enrolled, pending, acceptances, operator,
                   causes, restarts>>

-----------------------------------------------------------------------------
(***************************************************************************)
(* handleEnrollmentResponse, on the subscription's own goroutine.  A       *)
(* rejection changes nothing here.  The key is taken over before the file  *)
(* is written, and kept when that fails.                                   *)
(***************************************************************************)
SaveControllerKey ==
    /\ callback = "idle"
    /\ acceptances > 0
    /\ acceptances' = acceptances - 1
    /\ trusted' = TRUE
    /\ \/ enrolled' = TRUE /\ callback' = "accepted" /\ UNCHANGED faults
       \/ Fault /\ UNCHANGED <<enrolled, callback>>
    /\ UNCHANGED <<main, beat, drainSeen, subscribed, state, consumers, leaked,
                   requests, pending, lost, operator, causes, restarts>>

BecomeReady ==
    /\ callback = "accepted"
    /\ Unlocked
    /\ state' = "Ready"
    /\ IF main = "failed" THEN UNCHANGED <<consumers, leaked, faults>>
                          ELSE StartConsumers
    /\ callback' = "idle"
    /\ crossed' = (crossed \/ state # "Pending" \/ main # "up")
    /\ UNCHANGED <<main, beat, drainSeen, subscribed, enrollment, operator,
                   startupCordon, restarts>>

-----------------------------------------------------------------------------
(***************************************************************************)
(* The controller's enrollment watcher: a request (re)creates the pending  *)
(* entry, unless the Put fails; the agent has to ask again then.           *)
(***************************************************************************)
ReceiveRequest ==
    /\ requests > 0
    /\ requests' = requests - 1
    /\ \/ pending' = TRUE /\ UNCHANGED faults
       \/ Fault /\ UNCHANGED pending
    /\ UNCHANGED <<process, trusted, enrolled, acceptances, lost, operator,
                   causes, restarts>>

\* A core NATS publish: nobody hears it who has not subscribed.
PublishAcceptance ==
    IF subscribed /\ main # "failed"
    THEN \/ /\ acceptances < MaxMessages
            /\ acceptances' = acceptances + 1
            /\ UNCHANGED lost
         \/ Loss /\ UNCHANGED acceptances
    ELSE UNCHANGED <<acceptances, lost>>

\* Accepting publishes, then deletes the entry: nothing may have happened yet
\* when it fails, or the agent is told and the entry stays.
AcceptAgent ==
    /\ pending
    /\ \/ PublishAcceptance /\ pending' = FALSE /\ UNCHANGED faults
       \/ PublishAcceptance /\ Fault /\ UNCHANGED pending
       \/ Fault /\ UNCHANGED <<pending, acceptances, lost>>
    /\ UNCHANGED <<process, trusted, enrolled, requests, operator, causes, restarts>>

\* The operator rejects the agent, or the bucket loses the entry.
RejectAgent ==
    /\ pending /\ Loss
    /\ pending' = FALSE
    /\ UNCHANGED <<process, trusted, enrolled, requests, acceptances, operator,
                   causes, restarts, faults>>

-----------------------------------------------------------------------------
\* The operator's drain and undrain calls write and delete the flag.
SetDrainFlag ==
    /\ ~drainFlag /\ drains < MaxDrains
    /\ drainFlag' = TRUE
    /\ drains' = drains + 1
    /\ UNCHANGED <<process, enrollment, undrains, causes, restarts, faults>>

DeleteDrainFlag ==
    /\ drainFlag
    /\ drainFlag' = FALSE
    /\ undrains' = undrains + 1
    /\ UNCHANGED <<process, enrollment, drains, causes, restarts, faults>>

\* The process stops, gracefully or not, and is started again.
Restart ==
    /\ restarts < MaxRestarts
    /\ main # "init"
    /\ restarts' = restarts + 1
    /\ main' = "init" /\ beat' = "idle" /\ drainSeen' = FALSE
    /\ callback' = "idle" /\ subscribed' = FALSE
    /\ state' = "none" /\ consumers' = "none" /\ leaked' = 0
    /\ trusted' = FALSE /\ acceptances' = 0
    /\ startupCordon' = FALSE /\ crossed' = FALSE
    /\ UNCHANGED <<enrolled, requests, pending, lost, operator, faults>>

StartStep ==
    \/ Begin \/ RequestEnrollment \/ Subscribe \/ EnterPending
    \/ Preflight \/ CheckPending \/ StartJobConsumers

Transition == KeepState \/ BeginDrain \/ Undrain

Heartbeat ==
    \/ ReadDrainFlag \/ Transition \/ FinishDrain \/ RetryIfPending \/ Republish

Callback == SaveControllerKey \/ BecomeReady

Next ==
    \/ StartStep \/ Heartbeat \/ Callback \/ ConsumersStop
    \/ ReceiveRequest \/ AcceptAgent \/ RejectAgent
    \/ SetDrainFlag \/ DeleteDrainFlag \/ Restart

Spec == Init /\ [][Next]_vars

(***************************************************************************)
(* Fairness: the goroutines run on, jobs in flight end, and the controller *)
(* handles the requests it receives and accepts the agents it has entries  *)
(* of: at once with pki.auto_accept, and again with the next request or by *)
(* the operator when that fails.  Draining, undraining, rejections,        *)
(* restarts, losses and faults never have to happen.                       *)
(***************************************************************************)
FairSpec ==
    /\ Spec
    /\ WF_vars(StartStep) /\ WF_vars(Heartbeat) /\ WF_vars(Callback)
    /\ WF_vars(ConsumersStop) /\ WF_vars(ReceiveRequest) /\ WF_vars(AcceptAgent)

-----------------------------------------------------------------------------
(***************************************************************************)
(* Properties.                                                             *)
(***************************************************************************)

\* The values of the agent's lifecycle fields and of the model's bookkeeping.
TypeOK ==
    /\ main \in {"init", "request", "subscribe", "enter pending", "preflight",
                 "register", "check", "consume", "up", "failed"}
    /\ beat \in {"idle", "transition", "draining", "retry", "republish"}
    /\ callback \in {"idle", "accepted"}
    /\ {drainSeen, subscribed, trusted, enrolled, drainFlag, pending, startupCordon,
        crossed} \subseteq BOOLEAN
    /\ state \in {"none", "Ready", "Pending", "Cordoned"}
    /\ consumers \in {"none", "running", "cancelled", "uncreated"}
    /\ requests \in 0..MaxMessages /\ acceptances \in 0..MaxMessages
    /\ {leaked, drains, undrains, restarts, lost, faults} \subseteq Nat
    /\ lost <= MaxLost /\ faults <= MaxFaults

(***************************************************************************)
(* lifecycleMu exists so that no agent ends up "cordoned with live         *)
(* consumers or ready with none" (types.go:102).  Cordoned: an agent that  *)
(* was drained once Start had finished runs no consumer of any set, from   *)
(* the moment it is cordoned until it leaves that state.                   *)
(***************************************************************************)
DrainedAgentIsIdle ==
    state = "Cordoned" /\ ~startupCordon => consumers = "none" /\ leaked = 0

(***************************************************************************)
(* Ready: a started agent whose state says Ready has started consumers for *)
(* that state, unless it is just draining.                                 *)
(***************************************************************************)
ReadyMeansStarted ==
    state = "Ready" /\ main = "up" /\ beat # "draining" =>
        consumers \in {"running", "uncreated"}

(***************************************************************************)
(* A consumer set escapes its cancel function only on an agent that was    *)
(* cordoned during Start, or whose acceptance came twice or before Start   *)
(* had finished: draining and undraining a started agent, in whatever      *)
(* order the ticks and an acceptance see it, leaks nothing.                *)
(***************************************************************************)
LeakHasCause == leaked > 0 => startupCordon \/ crossed

(***************************************************************************)
(* An agent that has to enroll takes no job before it holds the            *)
(* controller's key, whatever it could read of it at its start: it would   *)
(* terminate every job it cannot verify (handler.go:285) instead of        *)
(* leaving it to a later delivery.                                         *)
(***************************************************************************)
ConsumesOnlyWithKey ==
    PKI /\ (consumers \in {"running", "cancelled"} \/ leaked > 0) => trusted

(***************************************************************************)
(* "Once all in-flight jobs finish, state becomes Cordoned"                *)
(* (features/agent-lifecycle.md:94): the drain of a started agent that has *)
(* leaked no consumers ends in Cordoned, failed reads or not, unless the   *)
(* operator takes it back or the process stops.                            *)
(***************************************************************************)
DrainEnds ==
    (drainFlag /\ main = "up" /\ leaked = 0 /\ state # "Pending")
        ~> (state = "Cordoned" \/ ~drainFlag \/ main # "up" \/ leaked > 0)

(***************************************************************************)
(* A pending agent that listens does not wait for its enrollment for ever, *)
(* whichever requests could not be published, got lost or were not stored, *)
(* and whichever acceptances failed half way, got lost or could not be     *)
(* saved: the heartbeat asks again (enrollment.go:114).                    *)
(***************************************************************************)
EnrollmentCompletes ==
    (state = "Pending" /\ subscribed /\ main # "failed")
        ~> (state # "Pending" \/ main = "failed")

(***************************************************************************)
(* "Fully drained, idle, not accepting jobs"                               *)
(* (features/agent-lifecycle.md:84) describes Cordoned.  See the README: a *)
(* drained agent that is restarted takes jobs while it is Cordoned.        *)
(***************************************************************************)
CordonedMeansIdle ==
    state = "Cordoned" => consumers = "none" /\ leaked = 0
=============================================================================
