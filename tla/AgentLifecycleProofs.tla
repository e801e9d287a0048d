------------------------ MODULE AgentLifecycleProofs ------------------------
(***************************************************************************)
(* Safety of AgentLifecycle, with and without PKI, for every number of     *)
(* drains, restarts, messages, losses and faults.  What a step of one      *)
(* goroutine may do to the consumers depends on where the other two are:   *)
(* the parts of IInv relate their program counters to the shared state.    *)
(***************************************************************************)
EXTENDS AgentLifecycle, TLAPS

\* TypeOK, one variable at a time.
BooleanTypes ==
    /\ drainSeen \in BOOLEAN /\ subscribed \in BOOLEAN /\ trusted \in BOOLEAN
    /\ enrolled \in BOOLEAN
    /\ drainFlag \in BOOLEAN /\ pending \in BOOLEAN
    /\ startupCordon \in BOOLEAN /\ crossed \in BOOLEAN
CounterTypes ==
    /\ requests \in 0..MaxMessages /\ acceptances \in 0..MaxMessages
    /\ leaked \in Nat /\ drains \in Nat /\ undrains \in Nat /\ restarts \in Nat
    /\ lost \in 0..MaxLost /\ faults \in 0..MaxFaults
PlaceTypes ==
    /\ main \in {"init", "request", "subscribe", "enter pending", "preflight",
                 "register", "check", "consume", "up", "failed"}
    /\ beat \in {"idle", "transition", "draining", "retry", "republish"}
    /\ callback \in {"idle", "accepted"}
    /\ state \in {"none", "Ready", "Pending", "Cordoned"}
    /\ consumers \in {"none", "running", "cancelled", "uncreated"}

\* The heartbeat runs once Start has got as far as its first registration.
BeatsInTime == beat # "idle" => ByStart \/ Beating

\* An agent that is cordoned before Start has finished is recorded as such.
EarlyCordonNoted == state = "Cordoned" /\ main # "up" => startupCordon

\* An agent without the controller's key asks for it, waits in Pending, or failed.
WaitsForKey ==
    PKI /\ ~trusted =>
        \/ main \in {"init", "request", "subscribe", "enter pending", "failed"}
        \/ main \in {"preflight", "register", "check", "up"} /\ state = "Pending"

\* An acceptance is acted upon after the key is saved.
AcceptedHasKey == callback = "accepted" => trusted

\* Start does not start consumers for a pending agent.
NotPendingAtStart == main = "consume" => state # "Pending"

\* A drain is of a Ready agent, until it is done.
DrainOfReady == beat = "draining" => state = "Ready"

\* Consumers run before Start has finished, or while Pending, for a noted reason.
EarlyConsumersNoted ==
    consumers = "running" /\ (main # "up" \/ state = "Pending")
        => startupCordon \/ crossed

\* The inductive invariant.
IInv ==
    /\ BooleanTypes /\ CounterTypes /\ PlaceTypes
    /\ DrainedAgentIsIdle
    /\ ReadyMeansStarted
    /\ LeakHasCause
    /\ ConsumesOnlyWithKey
    /\ BeatsInTime
    /\ EarlyCordonNoted
    /\ WaitsForKey
    /\ AcceptedHasKey
    /\ NotPendingAtStart
    /\ DrainOfReady
    /\ EarlyConsumersNoted

-----------------------------------------------------------------------------
\* The bounds are numbers.
LEMMA Bounds == /\ MaxMessages \in Nat /\ MaxLost \in Nat /\ MaxFaults \in Nat
                /\ MaxDrains \in Nat /\ MaxRestarts \in Nat
BY AgentLifecycleAssumption

\* The initial state satisfies the inductive invariant.
LEMMA InitIInv == Init => IInv
<1>1. Init => BooleanTypes /\ PlaceTypes
      BY AgentLifecycleAssumption DEF Init, BooleanTypes, PlaceTypes
<1>3. Init => CounterTypes
      BY Bounds DEF Init, CounterTypes
<1>2. Init => DrainedAgentIsIdle /\ ReadyMeansStarted /\ LeakHasCause /\ ConsumesOnlyWithKey
      BY DEF Init, DrainedAgentIsIdle, ReadyMeansStarted, LeakHasCause, ConsumesOnlyWithKey
<1> QED BY <1>1, <1>2, <1>3
        DEF Init, IInv, BeatsInTime, ByStart, Beating, EarlyCordonNoted, WaitsForKey,
            AcceptedHasKey, NotPendingAtStart, DrainOfReady, EarlyConsumersNoted

\* Start, on the main goroutine.
LEMMA StartIInv ==
    ASSUME IInv, Begin \/ RequestEnrollment \/ Subscribe \/ EnterPending
                 \/ Preflight \/ CheckPending \/ StartJobConsumers
    PROVE  IInv'
<1> USE DEF IInv
<1>1. CASE Begin
  <2> USE <1>1 DEF Begin, Fault, enrollment, operator, causes
  <2>1. BooleanTypes'
        BY DEF BooleanTypes
  <2>2. CounterTypes'
        BY Bounds DEF CounterTypes
  <2>3. PlaceTypes'
        BY DEF PlaceTypes
  <2>4. DrainedAgentIsIdle' /\ ReadyMeansStarted'
        BY DEF BooleanTypes, CounterTypes, PlaceTypes, DrainedAgentIsIdle,
               ReadyMeansStarted
  <2>5. LeakHasCause' /\ ConsumesOnlyWithKey'
        BY DEF BooleanTypes, CounterTypes, PlaceTypes, LeakHasCause, ConsumesOnlyWithKey
  <2>6. BeatsInTime' /\ EarlyCordonNoted' /\ WaitsForKey'
        BY DEF BooleanTypes, CounterTypes, PlaceTypes, BeatsInTime, ByStart, Beating,
               EarlyCordonNoted, WaitsForKey
  <2>7. AcceptedHasKey' /\ NotPendingAtStart' /\ EarlyConsumersNoted'
        BY DEF BooleanTypes, CounterTypes, PlaceTypes, AcceptedHasKey, NotPendingAtStart,
               EarlyConsumersNoted
  <2>8. DrainOfReady'
        BY DEF PlaceTypes, DrainOfReady, BeatsInTime, ByStart, Beating
  <2> QED BY <2>1, <2>2, <2>3, <2>4, <2>5, <2>6, <2>7, <2>8
<1>2. CASE RequestEnrollment
  <2> USE <1>2 DEF RequestEnrollment, PublishRequest, Loss, Fault, operator, causes
  <2>1. BooleanTypes'
        BY DEF BooleanTypes
  <2>2. CounterTypes'
        BY Bounds DEF CounterTypes
  <2>3. PlaceTypes'
        BY DEF PlaceTypes
  <2>4. DrainedAgentIsIdle' /\ ReadyMeansStarted'
        BY DEF BooleanTypes, CounterTypes, PlaceTypes, DrainedAgentIsIdle,
               ReadyMeansStarted
  <2>5. LeakHasCause' /\ ConsumesOnlyWithKey'
        BY DEF BooleanTypes, CounterTypes, PlaceTypes, LeakHasCause, ConsumesOnlyWithKey
  <2>6. BeatsInTime' /\ EarlyCordonNoted' /\ WaitsForKey'
        BY DEF BooleanTypes, CounterTypes, PlaceTypes, BeatsInTime, ByStart, Beating,
               EarlyCordonNoted, WaitsForKey
  <2>7. AcceptedHasKey' /\ NotPendingAtStart' /\ EarlyConsumersNoted'
        BY DEF BooleanTypes, CounterTypes, PlaceTypes, AcceptedHasKey, NotPendingAtStart,
               EarlyConsumersNoted
  <2>8. DrainOfReady'
        BY DEF PlaceTypes, DrainOfReady
  <2> QED BY <2>1, <2>2, <2>3, <2>4, <2>5, <2>6, <2>7, <2>8
<1>3. CASE Subscribe
  <2> USE <1>3 DEF Subscribe, Fault, enrollment, operator, causes
  <2>1. BooleanTypes'
        BY DEF BooleanTypes
  <2>2. CounterTypes'
    <3>1. UNCHANGED faults \/ Fault
          BY Zenon
    <3>3. faults' \in 0..MaxFaults
      <4> HIDE <1>3 DEF Subscribe
      <4> QED BY <3>1, Bounds DEF CounterTypes
    <3>2. UNCHANGED <<requests, acceptances, leaked, drains, undrains, restarts, lost>>
          BY DEF process
    <3> QED BY <3>2, <3>3 DEF CounterTypes
  <2>3. PlaceTypes'
        BY DEF PlaceTypes
  <2>4. DrainedAgentIsIdle' /\ ReadyMeansStarted'
        BY DEF BooleanTypes, CounterTypes, PlaceTypes, DrainedAgentIsIdle,
               ReadyMeansStarted
  <2>5. LeakHasCause' /\ ConsumesOnlyWithKey'
        BY DEF BooleanTypes, CounterTypes, PlaceTypes, LeakHasCause, ConsumesOnlyWithKey
  <2>6. BeatsInTime' /\ EarlyCordonNoted' /\ WaitsForKey'
        BY DEF BooleanTypes, CounterTypes, PlaceTypes, BeatsInTime, ByStart, Beating,
               EarlyCordonNoted, WaitsForKey
  <2>7. AcceptedHasKey' /\ NotPendingAtStart' /\ EarlyConsumersNoted'
        BY DEF BooleanTypes, CounterTypes, PlaceTypes, AcceptedHasKey, NotPendingAtStart,
               EarlyConsumersNoted
  <2>8. DrainOfReady'
        BY DEF PlaceTypes, DrainOfReady
  <2> QED BY <2>1, <2>2, <2>3, <2>4, <2>5, <2>6, <2>7, <2>8
<1>4. CASE EnterPending
  <2> USE <1>4 DEF EnterPending, enrollment, operator, causes
  <2>1. BooleanTypes'
        BY DEF BooleanTypes
  <2>2. CounterTypes'
        BY Bounds DEF CounterTypes
  <2>3. PlaceTypes'
        BY DEF PlaceTypes
  <2>4. DrainedAgentIsIdle' /\ ReadyMeansStarted'
        BY DEF BooleanTypes, CounterTypes, PlaceTypes, DrainedAgentIsIdle,
               ReadyMeansStarted
  <2>5. LeakHasCause' /\ ConsumesOnlyWithKey'
        BY DEF BooleanTypes, CounterTypes, PlaceTypes, LeakHasCause, ConsumesOnlyWithKey
  <2>6. BeatsInTime' /\ EarlyCordonNoted' /\ WaitsForKey'
        BY DEF BooleanTypes, CounterTypes, PlaceTypes, BeatsInTime, ByStart, Beating,
               EarlyCordonNoted, WaitsForKey
  <2>7. AcceptedHasKey' /\ NotPendingAtStart' /\ EarlyConsumersNoted'
        BY DEF BooleanTypes, CounterTypes, PlaceTypes, AcceptedHasKey, NotPendingAtStart,
               EarlyConsumersNoted
  <2>8. DrainOfReady'
        BY DEF PlaceTypes, DrainOfReady, BeatsInTime, ByStart, Beating
  <2> QED BY <2>1, <2>2, <2>3, <2>4, <2>5, <2>6, <2>7, <2>8
<1>5. CASE Preflight
  <2> USE <1>5 DEF Preflight, Fault, enrollment, operator, causes
  <2>1. BooleanTypes'
        BY DEF BooleanTypes
  <2>2. CounterTypes'
        BY Bounds DEF CounterTypes
  <2>3. PlaceTypes'
        BY DEF PlaceTypes
  <2>4. DrainedAgentIsIdle' /\ ReadyMeansStarted'
        BY DEF BooleanTypes, CounterTypes, PlaceTypes, DrainedAgentIsIdle,
               ReadyMeansStarted
  <2>5. LeakHasCause' /\ ConsumesOnlyWithKey'
        BY DEF BooleanTypes, CounterTypes, PlaceTypes, LeakHasCause, ConsumesOnlyWithKey
  <2>6. BeatsInTime' /\ EarlyCordonNoted' /\ WaitsForKey'
        BY DEF BooleanTypes, CounterTypes, PlaceTypes, BeatsInTime, ByStart, Beating,
               EarlyCordonNoted, WaitsForKey
  <2>7. AcceptedHasKey' /\ NotPendingAtStart' /\ EarlyConsumersNoted'
        BY DEF BooleanTypes, CounterTypes, PlaceTypes, AcceptedHasKey, NotPendingAtStart,
               EarlyConsumersNoted
  <2>8. DrainOfReady'
        BY DEF PlaceTypes, DrainOfReady
  <2> QED BY <2>1, <2>2, <2>3, <2>4, <2>5, <2>6, <2>7, <2>8
<1>6. CASE CheckPending
  <2> USE <1>6 DEF CheckPending, Unlocked, enrollment, operator, causes
  <2>1. BooleanTypes'
        BY DEF BooleanTypes
  <2>2. CounterTypes'
        BY Bounds DEF CounterTypes
  <2>3. PlaceTypes'
        BY DEF PlaceTypes
  <2>4. DrainedAgentIsIdle' /\ ReadyMeansStarted'
        BY DEF BooleanTypes, CounterTypes, PlaceTypes, DrainedAgentIsIdle,
               ReadyMeansStarted
  <2>5. LeakHasCause' /\ ConsumesOnlyWithKey'
        BY DEF BooleanTypes, CounterTypes, PlaceTypes, LeakHasCause, ConsumesOnlyWithKey
  <2>6. BeatsInTime' /\ EarlyCordonNoted' /\ WaitsForKey'
        BY DEF BooleanTypes, CounterTypes, PlaceTypes, BeatsInTime, ByStart, Beating,
               EarlyCordonNoted, WaitsForKey
  <2>7. AcceptedHasKey' /\ NotPendingAtStart' /\ EarlyConsumersNoted'
        BY DEF BooleanTypes, CounterTypes, PlaceTypes, AcceptedHasKey, NotPendingAtStart,
               EarlyConsumersNoted
  <2>8. DrainOfReady'
        BY DEF PlaceTypes, DrainOfReady
  <2> QED BY <2>1, <2>2, <2>3, <2>4, <2>5, <2>6, <2>7, <2>8
<1>7. CASE StartJobConsumers
  <2> USE <1>7 DEF StartJobConsumers, StartConsumers, Fault, Unlocked, enrollment, operator,
                causes
  <2>1. BooleanTypes'
        BY DEF BooleanTypes
  <2>2. CounterTypes'
        BY Bounds DEF CounterTypes
  <2>3. PlaceTypes'
        BY DEF PlaceTypes
  <2>4. DrainedAgentIsIdle'
        BY DEF DrainedAgentIsIdle, EarlyCordonNoted
  <2>5. ReadyMeansStarted'
        BY DEF ReadyMeansStarted
  <2>6. LeakHasCause'
        BY DEF CounterTypes, LeakHasCause, EarlyConsumersNoted
  <2>7. ConsumesOnlyWithKey'
        BY DEF CounterTypes, ConsumesOnlyWithKey, WaitsForKey
  <2>8. BeatsInTime'
        BY DEF BeatsInTime, ByStart, Beating
  <2>9. EarlyCordonNoted'
        BY DEF EarlyCordonNoted
  <2>10. WaitsForKey'
        BY DEF WaitsForKey
  <2>11. AcceptedHasKey'
        BY DEF AcceptedHasKey
  <2>12. NotPendingAtStart'
        BY DEF NotPendingAtStart
  <2>13. EarlyConsumersNoted'
        BY DEF CounterTypes, EarlyConsumersNoted, NotPendingAtStart
  <2>14. DrainOfReady'
        BY DEF PlaceTypes, DrainOfReady
  <2> QED BY <2>1, <2>2, <2>3, <2>4, <2>5, <2>6, <2>7, <2>8, <2>9, <2>10, <2>11, <2>12,
             <2>13, <2>14
<1> QED BY <1>1, <1>2, <1>3, <1>4, <1>5, <1>6, <1>7

\* The registration and the heartbeat tick.
LEMMA HeartbeatIInv ==
    ASSUME IInv, ReadDrainFlag \/ KeepState \/ BeginDrain \/ Undrain
                 \/ FinishDrain \/ RetryIfPending \/ Republish
    PROVE  IInv'
<1> USE DEF IInv
<1>1. CASE ReadDrainFlag
  <2> USE <1>1 DEF ReadDrainFlag, Fault, ByStart, Beating, enrollment, operator, causes
  <2>1. BooleanTypes'
        BY DEF BooleanTypes
  <2>2. CounterTypes'
        BY Bounds DEF CounterTypes
  <2>3. PlaceTypes'
        BY DEF PlaceTypes
  <2>4. DrainedAgentIsIdle' /\ ReadyMeansStarted'
        BY DEF BooleanTypes, CounterTypes, PlaceTypes, DrainedAgentIsIdle,
               ReadyMeansStarted
  <2>5. LeakHasCause' /\ ConsumesOnlyWithKey'
        BY DEF BooleanTypes, CounterTypes, PlaceTypes, LeakHasCause, ConsumesOnlyWithKey
  <2>6. BeatsInTime' /\ EarlyCordonNoted' /\ WaitsForKey'
        BY DEF BooleanTypes, CounterTypes, PlaceTypes, BeatsInTime, EarlyCordonNoted,
               WaitsForKey
  <2>7. AcceptedHasKey' /\ NotPendingAtStart' /\ EarlyConsumersNoted'
        BY DEF BooleanTypes, CounterTypes, PlaceTypes, AcceptedHasKey, NotPendingAtStart,
               EarlyConsumersNoted
  <2>8. DrainOfReady'
        BY DEF PlaceTypes, DrainOfReady
  <2> QED BY <2>1, <2>2, <2>3, <2>4, <2>5, <2>6, <2>7, <2>8
<1>2. CASE KeepState
  <2> USE <1>2 DEF KeepState, Registered, ByStart, enrollment, operator, causes
  <2>1. BooleanTypes'
        BY DEF BooleanTypes
  <2>2. CounterTypes'
        BY Bounds DEF CounterTypes
  <2>3. PlaceTypes'
        BY DEF PlaceTypes
  <2>4. DrainedAgentIsIdle' /\ ReadyMeansStarted'
        BY DEF BooleanTypes, CounterTypes, PlaceTypes, DrainedAgentIsIdle,
               ReadyMeansStarted
  <2>5. LeakHasCause' /\ ConsumesOnlyWithKey'
        BY DEF BooleanTypes, CounterTypes, PlaceTypes, LeakHasCause, ConsumesOnlyWithKey
  <2>6. BeatsInTime' /\ EarlyCordonNoted' /\ WaitsForKey'
        BY DEF BooleanTypes, CounterTypes, PlaceTypes, BeatsInTime, Beating,
               EarlyCordonNoted, WaitsForKey
  <2>7. AcceptedHasKey' /\ NotPendingAtStart' /\ EarlyConsumersNoted'
        BY DEF BooleanTypes, CounterTypes, PlaceTypes, AcceptedHasKey, NotPendingAtStart,
               EarlyConsumersNoted
  <2>8. DrainOfReady'
        BY DEF PlaceTypes, DrainOfReady
  <2> QED BY <2>1, <2>2, <2>3, <2>4, <2>5, <2>6, <2>7, <2>8
<1>3. CASE BeginDrain
  <2> USE <1>3 DEF BeginDrain, enrollment, operator, causes
  <2>1. BooleanTypes'
        BY DEF BooleanTypes
  <2>2. CounterTypes'
        BY Bounds DEF CounterTypes
  <2>3. PlaceTypes'
        BY DEF PlaceTypes
  <2>4. DrainedAgentIsIdle' /\ ReadyMeansStarted'
        BY DEF BooleanTypes, CounterTypes, PlaceTypes, DrainedAgentIsIdle,
               ReadyMeansStarted
  <2>5. LeakHasCause' /\ ConsumesOnlyWithKey'
        BY DEF BooleanTypes, CounterTypes, PlaceTypes, LeakHasCause, ConsumesOnlyWithKey
  <2>6. BeatsInTime' /\ EarlyCordonNoted' /\ WaitsForKey'
        BY DEF BooleanTypes, CounterTypes, PlaceTypes, BeatsInTime, ByStart, Beating,
               EarlyCordonNoted, WaitsForKey
  <2>7. AcceptedHasKey' /\ NotPendingAtStart' /\ EarlyConsumersNoted'
        BY DEF BooleanTypes, CounterTypes, PlaceTypes, AcceptedHasKey, NotPendingAtStart,
               EarlyConsumersNoted
  <2>8. DrainOfReady'
        BY DEF PlaceTypes, DrainOfReady
  <2> QED BY <2>1, <2>2, <2>3, <2>4, <2>5, <2>6, <2>7, <2>8
<1>4. CASE Undrain
  <2> USE <1>4 DEF Undrain, StartConsumers, Fault, Registered, ByStart, enrollment,
                operator, causes
  <2>1. BooleanTypes'
        BY DEF BooleanTypes
  <2>2. CounterTypes'
        BY Bounds DEF CounterTypes
  <2>3. PlaceTypes'
        BY DEF PlaceTypes
  <2>4. DrainedAgentIsIdle'
        BY DEF DrainedAgentIsIdle
  <2>5. ReadyMeansStarted'
        BY DEF ReadyMeansStarted
  <2>6. LeakHasCause'
        BY DEF CounterTypes, LeakHasCause, DrainedAgentIsIdle
  <2>7. ConsumesOnlyWithKey'
        BY DEF CounterTypes, ConsumesOnlyWithKey, WaitsForKey, BeatsInTime, Beating
  <2>8. BeatsInTime'
        BY DEF BeatsInTime, Beating
  <2>9. EarlyCordonNoted'
        BY DEF EarlyCordonNoted
  <2>10. WaitsForKey'
        BY DEF WaitsForKey, BeatsInTime, Beating
  <2>11. AcceptedHasKey'
        BY DEF AcceptedHasKey
  <2>12. NotPendingAtStart'
        BY DEF NotPendingAtStart
  <2>13. EarlyConsumersNoted'
        BY DEF CounterTypes, EarlyConsumersNoted, EarlyCordonNoted
  <2>14. DrainOfReady'
        BY DEF PlaceTypes, DrainOfReady
  <2> QED BY <2>1, <2>2, <2>3, <2>4, <2>5, <2>6, <2>7, <2>8, <2>9, <2>10, <2>11, <2>12,
             <2>13, <2>14
<1>5. CASE FinishDrain
  <2> USE <1>5 DEF FinishDrain, Registered, ByStart, enrollment, operator
  <2>1. BooleanTypes'
        BY DEF BooleanTypes
  <2>2. CounterTypes'
        BY Bounds DEF CounterTypes
  <2>3. PlaceTypes'
        BY DEF PlaceTypes
  <2>4. DrainedAgentIsIdle'
        BY DEF DrainedAgentIsIdle
  <2>5. ReadyMeansStarted'
        BY DEF ReadyMeansStarted
  <2>6. LeakHasCause'
        BY DEF CounterTypes, LeakHasCause
  <2>7. ConsumesOnlyWithKey'
        BY DEF CounterTypes, ConsumesOnlyWithKey
  <2>8. BeatsInTime'
        BY DEF BeatsInTime, Beating
  <2>9. EarlyCordonNoted'
        BY DEF EarlyCordonNoted
  <2>10. WaitsForKey'
        BY DEF PlaceTypes, WaitsForKey, DrainOfReady, BeatsInTime, Beating
  <2>11. AcceptedHasKey'
        BY DEF AcceptedHasKey
  <2>12. NotPendingAtStart'
        BY DEF NotPendingAtStart
  <2>13. EarlyConsumersNoted'
        BY DEF CounterTypes, EarlyConsumersNoted
  <2>14. DrainOfReady'
        BY DEF PlaceTypes, DrainOfReady
  <2> QED BY <2>1, <2>2, <2>3, <2>4, <2>5, <2>6, <2>7, <2>8, <2>9, <2>10, <2>11, <2>12,
             <2>13, <2>14
<1>6. CASE RetryIfPending
  <2> USE <1>6 DEF RetryIfPending, enrollment, operator, causes
  <2>1. BooleanTypes'
        BY DEF BooleanTypes
  <2>2. CounterTypes'
        BY Bounds DEF CounterTypes
  <2>3. PlaceTypes'
        BY DEF PlaceTypes
  <2>4. DrainedAgentIsIdle' /\ ReadyMeansStarted'
        BY DEF BooleanTypes, CounterTypes, PlaceTypes, DrainedAgentIsIdle,
               ReadyMeansStarted
  <2>5. LeakHasCause' /\ ConsumesOnlyWithKey'
        BY DEF BooleanTypes, CounterTypes, PlaceTypes, LeakHasCause, ConsumesOnlyWithKey
  <2>6. BeatsInTime' /\ EarlyCordonNoted' /\ WaitsForKey'
        BY DEF BooleanTypes, CounterTypes, PlaceTypes, BeatsInTime, ByStart, Beating,
               EarlyCordonNoted, WaitsForKey
  <2>7. AcceptedHasKey' /\ NotPendingAtStart' /\ EarlyConsumersNoted'
        BY DEF BooleanTypes, CounterTypes, PlaceTypes, AcceptedHasKey, NotPendingAtStart,
               EarlyConsumersNoted
  <2>8. DrainOfReady'
        BY DEF PlaceTypes, DrainOfReady
  <2> QED BY <2>1, <2>2, <2>3, <2>4, <2>5, <2>6, <2>7, <2>8
<1>7. CASE Republish
  <2> USE <1>7 DEF Republish, PublishRequest, Loss, Fault, operator, causes
  <2>1. BooleanTypes'
        BY DEF BooleanTypes
  <2>2. CounterTypes'
        BY Bounds DEF CounterTypes
  <2>3. PlaceTypes'
        BY DEF PlaceTypes
  <2>4. DrainedAgentIsIdle' /\ ReadyMeansStarted'
        BY DEF BooleanTypes, CounterTypes, PlaceTypes, DrainedAgentIsIdle,
               ReadyMeansStarted
  <2>5. LeakHasCause' /\ ConsumesOnlyWithKey'
        BY DEF BooleanTypes, CounterTypes, PlaceTypes, LeakHasCause, ConsumesOnlyWithKey
  <2>6. BeatsInTime' /\ EarlyCordonNoted' /\ WaitsForKey'
        BY DEF BooleanTypes, CounterTypes, PlaceTypes, BeatsInTime, ByStart, Beating,
               EarlyCordonNoted, WaitsForKey
  <2>7. AcceptedHasKey' /\ NotPendingAtStart' /\ EarlyConsumersNoted'
        BY DEF BooleanTypes, CounterTypes, PlaceTypes, AcceptedHasKey, NotPendingAtStart,
               EarlyConsumersNoted
  <2>8. DrainOfReady'
        BY DEF PlaceTypes, DrainOfReady
  <2> QED BY <2>1, <2>2, <2>3, <2>4, <2>5, <2>6, <2>7, <2>8
<1> QED BY <1>1, <1>2, <1>3, <1>4, <1>5, <1>6, <1>7

\* The acceptance, and the consumers that return.
LEMMA CallbackIInv ==
    ASSUME IInv, SaveControllerKey \/ BecomeReady \/ ConsumersStop
    PROVE  IInv'
<1> USE DEF IInv
<1>1. CASE SaveControllerKey
  <2> USE <1>1 DEF SaveControllerKey, Fault, operator, causes
  <2>1. BooleanTypes'
        BY DEF BooleanTypes
  <2>2. CounterTypes'
        BY Bounds DEF CounterTypes
  <2>3. PlaceTypes'
        BY DEF PlaceTypes
  <2>4. DrainedAgentIsIdle'
        BY DEF DrainedAgentIsIdle
  <2>5. ReadyMeansStarted'
        BY DEF ReadyMeansStarted
  <2>6. LeakHasCause'
        BY DEF CounterTypes, LeakHasCause
  <2>7. ConsumesOnlyWithKey'
        BY DEF CounterTypes, ConsumesOnlyWithKey
  <2>8. BeatsInTime'
        BY DEF BeatsInTime, ByStart, Beating
  <2>9. EarlyCordonNoted'
        BY DEF EarlyCordonNoted
  <2>10. WaitsForKey'
    <3>1. UNCHANGED <<main, state>>
          OBVIOUS
    <3>2. CASE enrolled' = TRUE
          BY <3>2 DEF WaitsForKey
    <3>3. CASE UNCHANGED enrolled
          BY <3>1, <3>3, Zenon DEF WaitsForKey
    <3> QED BY <3>2, <3>3
  <2>11. AcceptedHasKey'
        BY DEF AcceptedHasKey
  <2>12. NotPendingAtStart'
        BY DEF NotPendingAtStart
  <2>13. EarlyConsumersNoted'
        BY DEF CounterTypes, EarlyConsumersNoted
  <2>14. DrainOfReady'
        BY DEF PlaceTypes, DrainOfReady
  <2> QED BY <2>1, <2>2, <2>3, <2>4, <2>5, <2>6, <2>7, <2>8, <2>9, <2>10, <2>11, <2>12,
             <2>13, <2>14
<1>2. CASE BecomeReady
  <2> USE <1>2 DEF BecomeReady, StartConsumers, Fault, Unlocked, enrollment, operator
  <2>1. BooleanTypes'
        BY DEF BooleanTypes
  <2>2. CounterTypes'
        BY Bounds DEF CounterTypes
  <2>3. PlaceTypes'
        BY DEF PlaceTypes
  <2>4. DrainedAgentIsIdle'
        BY DEF DrainedAgentIsIdle
  <2>5. ReadyMeansStarted'
        BY DEF ReadyMeansStarted
  <2>6. LeakHasCause'
        BY DEF CounterTypes, LeakHasCause, EarlyConsumersNoted
  <2>7. ConsumesOnlyWithKey'
        BY DEF CounterTypes, ConsumesOnlyWithKey, AcceptedHasKey
  <2>8. BeatsInTime'
        BY DEF BeatsInTime, ByStart, Beating
  <2>9. EarlyCordonNoted'
        BY DEF EarlyCordonNoted
  <2>10. WaitsForKey'
        BY DEF WaitsForKey, AcceptedHasKey
  <2>11. AcceptedHasKey'
        BY DEF AcceptedHasKey
  <2>12. NotPendingAtStart'
        BY DEF NotPendingAtStart
  <2>13. EarlyConsumersNoted'
        BY DEF CounterTypes, EarlyConsumersNoted
  <2>14. DrainOfReady'
        BY DEF PlaceTypes, DrainOfReady
  <2> QED BY <2>1, <2>2, <2>3, <2>4, <2>5, <2>6, <2>7, <2>8, <2>9, <2>10, <2>11, <2>12,
             <2>13, <2>14
<1>3. CASE ConsumersStop
  <2> USE <1>3 DEF ConsumersStop, enrollment, operator, causes
  <2>1. BooleanTypes'
        BY DEF BooleanTypes
  <2>2. CounterTypes'
        BY Bounds DEF CounterTypes
  <2>3. PlaceTypes'
        BY DEF PlaceTypes
  <2>4. DrainedAgentIsIdle' /\ ReadyMeansStarted'
        BY DEF BooleanTypes, CounterTypes, PlaceTypes, DrainedAgentIsIdle,
               ReadyMeansStarted
  <2>5. LeakHasCause' /\ ConsumesOnlyWithKey'
        BY DEF BooleanTypes, CounterTypes, PlaceTypes, LeakHasCause, ConsumesOnlyWithKey
  <2>6. BeatsInTime' /\ EarlyCordonNoted' /\ WaitsForKey'
        BY DEF BooleanTypes, CounterTypes, PlaceTypes, BeatsInTime, ByStart, Beating,
               EarlyCordonNoted, WaitsForKey
  <2>7. AcceptedHasKey' /\ NotPendingAtStart' /\ EarlyConsumersNoted'
        BY DEF BooleanTypes, CounterTypes, PlaceTypes, AcceptedHasKey, NotPendingAtStart,
               EarlyConsumersNoted
  <2>8. DrainOfReady'
        BY DEF PlaceTypes, DrainOfReady
  <2> QED BY <2>1, <2>2, <2>3, <2>4, <2>5, <2>6, <2>7, <2>8
<1> QED BY <1>1, <1>2, <1>3

\* Faults and losses are counted up to their bounds.
LEMMA CountersStay ==
    ASSUME CounterTypes
    PROVE  /\ Fault => faults' \in 0..MaxFaults
           /\ Loss => lost' \in 0..MaxLost
BY Bounds DEF CounterTypes, Fault, Loss

\* An acceptance adds to those in flight, or to those lost.
LEMMA PublishedInBounds ==
    ASSUME CounterTypes, PublishAcceptance
    PROVE  acceptances' \in 0..MaxMessages /\ lost' \in 0..MaxLost
<1>1. \/ acceptances < MaxMessages /\ acceptances' = acceptances + 1 /\ UNCHANGED lost
      \/ UNCHANGED acceptances /\ (Loss \/ UNCHANGED lost)
      BY Zenon DEF PublishAcceptance
<1> QED BY <1>1, Bounds, CountersStay DEF CounterTypes

\* The controller, the operator and a restart.
LEMMA OthersIInv ==
    ASSUME IInv, ReceiveRequest \/ AcceptAgent \/ RejectAgent \/ SetDrainFlag
                 \/ DeleteDrainFlag \/ Restart
    PROVE  IInv'
<1> USE DEF IInv
<1>1. CASE ReceiveRequest
  <2> USE <1>1 DEF ReceiveRequest, Fault, process, operator, causes
  <2>1. BooleanTypes'
        BY DEF BooleanTypes
  <2>2. CounterTypes'
        BY Bounds DEF CounterTypes
  <2>3. PlaceTypes'
        BY DEF PlaceTypes
  <2>4. DrainedAgentIsIdle' /\ ReadyMeansStarted'
        BY DEF BooleanTypes, CounterTypes, PlaceTypes, DrainedAgentIsIdle,
               ReadyMeansStarted
  <2>5. LeakHasCause' /\ ConsumesOnlyWithKey'
        BY DEF BooleanTypes, CounterTypes, PlaceTypes, LeakHasCause, ConsumesOnlyWithKey
  <2>6. BeatsInTime' /\ EarlyCordonNoted' /\ WaitsForKey'
        BY DEF BooleanTypes, CounterTypes, PlaceTypes, BeatsInTime, ByStart, Beating,
               EarlyCordonNoted, WaitsForKey
  <2>7. AcceptedHasKey' /\ NotPendingAtStart' /\ EarlyConsumersNoted'
        BY DEF BooleanTypes, CounterTypes, PlaceTypes, AcceptedHasKey, NotPendingAtStart,
               EarlyConsumersNoted
  <2>8. DrainOfReady'
        BY DEF PlaceTypes, DrainOfReady
  <2> QED BY <2>1, <2>2, <2>3, <2>4, <2>5, <2>6, <2>7, <2>8
<1>2. CASE AcceptAgent
  <2> USE <1>2 DEF AcceptAgent, PublishAcceptance, Loss, Fault, process, operator,
                causes
  <2>1. BooleanTypes'
        BY DEF BooleanTypes
  <2>2. CounterTypes'
    <3>1. UNCHANGED <<requests, leaked, drains, undrains, restarts>>
          OBVIOUS
    <3>2. /\ UNCHANGED faults \/ Fault
          /\ UNCHANGED <<acceptances, lost>> \/ PublishAcceptance
          BY DEF AcceptAgent
    <3>3. faults' \in 0..MaxFaults /\ lost' \in 0..MaxLost /\ acceptances' \in 0..MaxMessages
      <4> HIDE <1>2 DEF AcceptAgent, PublishAcceptance, Loss, Fault
      <4> QED BY <3>2, CountersStay, PublishedInBounds DEF CounterTypes
    <3> QED BY <3>1, <3>2, <3>3 DEF CounterTypes
  <2>3. PlaceTypes'
        BY DEF PlaceTypes
  <2>4. DrainedAgentIsIdle' /\ ReadyMeansStarted'
        BY DEF BooleanTypes, CounterTypes, PlaceTypes, DrainedAgentIsIdle,
               ReadyMeansStarted
  <2>5. LeakHasCause' /\ ConsumesOnlyWithKey'
        BY DEF BooleanTypes, CounterTypes, PlaceTypes, LeakHasCause, ConsumesOnlyWithKey
  <2>6. BeatsInTime' /\ EarlyCordonNoted' /\ WaitsForKey'
        BY DEF BooleanTypes, CounterTypes, PlaceTypes, BeatsInTime, ByStart, Beating,
               EarlyCordonNoted, WaitsForKey
  <2>7. AcceptedHasKey' /\ NotPendingAtStart' /\ EarlyConsumersNoted'
        BY DEF BooleanTypes, CounterTypes, PlaceTypes, AcceptedHasKey, NotPendingAtStart,
               EarlyConsumersNoted
  <2>8. DrainOfReady'
        BY DEF PlaceTypes, DrainOfReady
  <2> QED BY <2>1, <2>2, <2>3, <2>4, <2>5, <2>6, <2>7, <2>8
<1>3. CASE SetDrainFlag
  <2> USE <1>3 DEF SetDrainFlag, process, enrollment, causes
  <2>1. BooleanTypes'
        BY DEF BooleanTypes
  <2>2. CounterTypes'
        BY Bounds DEF CounterTypes
  <2>3. PlaceTypes'
        BY DEF PlaceTypes
  <2>4. DrainedAgentIsIdle' /\ ReadyMeansStarted'
        BY DEF BooleanTypes, CounterTypes, PlaceTypes, DrainedAgentIsIdle,
               ReadyMeansStarted
  <2>5. LeakHasCause' /\ ConsumesOnlyWithKey'
        BY DEF BooleanTypes, CounterTypes, PlaceTypes, LeakHasCause, ConsumesOnlyWithKey
  <2>6. BeatsInTime' /\ EarlyCordonNoted' /\ WaitsForKey'
        BY DEF BooleanTypes, CounterTypes, PlaceTypes, BeatsInTime, ByStart, Beating,
               EarlyCordonNoted, WaitsForKey
  <2>7. AcceptedHasKey' /\ NotPendingAtStart' /\ EarlyConsumersNoted'
        BY DEF BooleanTypes, CounterTypes, PlaceTypes, AcceptedHasKey, NotPendingAtStart,
               EarlyConsumersNoted
  <2>8. DrainOfReady'
        BY DEF PlaceTypes, DrainOfReady
  <2> QED BY <2>1, <2>2, <2>3, <2>4, <2>5, <2>6, <2>7, <2>8
<1>4. CASE DeleteDrainFlag
  <2> USE <1>4 DEF DeleteDrainFlag, process, enrollment, causes
  <2>1. BooleanTypes'
        BY DEF BooleanTypes
  <2>2. CounterTypes'
        BY Bounds DEF CounterTypes
  <2>3. PlaceTypes'
        BY DEF PlaceTypes
  <2>4. DrainedAgentIsIdle' /\ ReadyMeansStarted'
        BY DEF BooleanTypes, CounterTypes, PlaceTypes, DrainedAgentIsIdle,
               ReadyMeansStarted
  <2>5. LeakHasCause' /\ ConsumesOnlyWithKey'
        BY DEF BooleanTypes, CounterTypes, PlaceTypes, LeakHasCause, ConsumesOnlyWithKey
  <2>6. BeatsInTime' /\ EarlyCordonNoted' /\ WaitsForKey'
        BY DEF BooleanTypes, CounterTypes, PlaceTypes, BeatsInTime, ByStart, Beating,
               EarlyCordonNoted, WaitsForKey
  <2>7. AcceptedHasKey' /\ NotPendingAtStart' /\ EarlyConsumersNoted'
        BY DEF BooleanTypes, CounterTypes, PlaceTypes, AcceptedHasKey, NotPendingAtStart,
               EarlyConsumersNoted
  <2>8. DrainOfReady'
        BY DEF PlaceTypes, DrainOfReady
  <2> QED BY <2>1, <2>2, <2>3, <2>4, <2>5, <2>6, <2>7, <2>8
<1>5. CASE Restart
  <2> USE <1>5 DEF Restart, operator
  <2>1. BooleanTypes'
        BY DEF BooleanTypes
  <2>2. CounterTypes'
        BY Bounds DEF CounterTypes
  <2>3. PlaceTypes'
        BY DEF PlaceTypes
  <2>4. DrainedAgentIsIdle'
        BY DEF DrainedAgentIsIdle
  <2>5. ReadyMeansStarted'
        BY DEF ReadyMeansStarted
  <2>6. LeakHasCause'
        BY DEF CounterTypes, LeakHasCause
  <2>7. ConsumesOnlyWithKey'
        BY DEF CounterTypes, ConsumesOnlyWithKey
  <2>8. BeatsInTime'
        BY DEF BeatsInTime, ByStart, Beating
  <2>9. EarlyCordonNoted'
        BY DEF EarlyCordonNoted
  <2>10. WaitsForKey'
        BY DEF WaitsForKey
  <2>11. AcceptedHasKey'
        BY DEF AcceptedHasKey
  <2>12. NotPendingAtStart'
        BY DEF NotPendingAtStart
  <2>13. EarlyConsumersNoted'
        BY DEF CounterTypes, EarlyConsumersNoted
  <2>14. DrainOfReady'
        BY DEF PlaceTypes, DrainOfReady
  <2> QED BY <2>1, <2>2, <2>3, <2>4, <2>5, <2>6, <2>7, <2>8, <2>9, <2>10, <2>11, <2>12,
             <2>13, <2>14
<1>6. CASE RejectAgent
  <2> USE <1>6 DEF RejectAgent, Loss, process, operator, causes
  <2>1. BooleanTypes'
        BY DEF BooleanTypes
  <2>2. CounterTypes'
        BY Bounds DEF CounterTypes
  <2>3. PlaceTypes'
        BY DEF PlaceTypes
  <2>4. DrainedAgentIsIdle' /\ ReadyMeansStarted'
        BY DEF BooleanTypes, CounterTypes, PlaceTypes, DrainedAgentIsIdle,
               ReadyMeansStarted
  <2>5. LeakHasCause' /\ ConsumesOnlyWithKey'
        BY DEF BooleanTypes, CounterTypes, PlaceTypes, LeakHasCause, ConsumesOnlyWithKey
  <2>6. BeatsInTime' /\ EarlyCordonNoted' /\ WaitsForKey'
        BY DEF BooleanTypes, CounterTypes, PlaceTypes, BeatsInTime, ByStart, Beating,
               EarlyCordonNoted, WaitsForKey
  <2>7. AcceptedHasKey' /\ NotPendingAtStart' /\ EarlyConsumersNoted'
        BY DEF BooleanTypes, CounterTypes, PlaceTypes, AcceptedHasKey, NotPendingAtStart,
               EarlyConsumersNoted
  <2>8. DrainOfReady'
        BY DEF PlaceTypes, DrainOfReady
  <2> QED BY <2>1, <2>2, <2>3, <2>4, <2>5, <2>6, <2>7, <2>8
<1> QED BY <1>1, <1>2, <1>3, <1>4, <1>5, <1>6

\* Every step preserves the inductive invariant.
LEMMA StepIInv == IInv /\ [Next]_vars => IInv'
<1>1. SUFFICES ASSUME IInv, [Next]_vars
               PROVE  IInv'
      OBVIOUS
<1>2. CASE Next
      BY <1>1, <1>2, StartIInv, HeartbeatIInv, CallbackIInv, OthersIInv
         DEF Next, StartStep, Heartbeat, Transition, Callback
<1>3. CASE UNCHANGED vars
  <2> USE DEF vars, process, enrollment, operator, causes
  <2>1. BooleanTypes'
        BY <1>1, <1>3, Zenon DEF IInv, BooleanTypes
  <2>4. PlaceTypes'
        BY <1>1, <1>3 DEF IInv, PlaceTypes
  <2>3. CounterTypes'
        BY <1>1, <1>3 DEF IInv, CounterTypes
  <2>2. DrainedAgentIsIdle' /\ ReadyMeansStarted' /\ LeakHasCause' /\ ConsumesOnlyWithKey'
        BY <1>1, <1>3 DEF IInv, DrainedAgentIsIdle, ReadyMeansStarted, LeakHasCause,
                          ConsumesOnlyWithKey
  <2> QED BY <1>1, <1>3, <2>1, <2>2, <2>3, <2>4
          DEF IInv, BeatsInTime, ByStart, Beating, EarlyCordonNoted, WaitsForKey,
              AcceptedHasKey, NotPendingAtStart, DrainOfReady, EarlyConsumersNoted
<1> QED BY <1>1, <1>2, <1>3

\* The inductive invariant holds throughout.
THEOREM LifecycleInvariance == Spec => []IInv
BY InitIInv, StepIInv, PTL DEF Spec

\* The agent's lifecycle fields keep their types.
THEOREM LifecycleTypeCorrectness == Spec => []TypeOK
<1>1. ASSUME IInv PROVE TypeOK
  <2>1. {drainSeen, subscribed, trusted, enrolled, drainFlag, pending, startupCordon,
         crossed} \subseteq BOOLEAN
        BY <1>1, Zenon DEF IInv, BooleanTypes
  <2>2. /\ {leaked, drains, undrains, restarts, lost, faults} \subseteq Nat
        /\ lost <= MaxLost /\ faults <= MaxFaults
        BY <1>1, Bounds DEF IInv, CounterTypes
  <2> QED BY <1>1, <2>1, <2>2 DEF IInv, TypeOK, CounterTypes, PlaceTypes
<1> QED BY <1>1, LifecycleInvariance, PTL

\* An agent that was drained after Start had finished runs no consumers.
THEOREM DrainedAgentsAreIdle == Spec => []DrainedAgentIsIdle
<1>1. IInv => DrainedAgentIsIdle
      BY DEF IInv
<1> QED BY <1>1, LifecycleInvariance, PTL

\* A started agent that says Ready has started consumers.
THEOREM ReadyAgentsStarted == Spec => []ReadyMeansStarted
<1>1. IInv => ReadyMeansStarted
      BY DEF IInv
<1> QED BY <1>1, LifecycleInvariance, PTL

\* Consumer sets leak only after a cordon during Start, or an acceptance that
\* came twice or before Start had finished.
THEOREM LeaksHaveCauses == Spec => []LeakHasCause
<1>1. IInv => LeakHasCause
      BY DEF IInv
<1> QED BY <1>1, LifecycleInvariance, PTL

\* An agent that has to enroll takes no job before it has the controller's key.
THEOREM ConsumersHaveKey == Spec => []ConsumesOnlyWithKey
<1>1. IInv => ConsumesOnlyWithKey
      BY DEF IInv
<1> QED BY <1>1, LifecycleInvariance, PTL

-----------------------------------------------------------------------------
(***************************************************************************)
(* Why an agent leaves Cordoned.                                           *)
(***************************************************************************)
\* Until the operator undrains, the flag says whether he drained; what the
\* heartbeat made of it goes back to a drain, or to a read that failed.
FlagFollowed ==
    /\ undrains = 0 /\ drains > 0 => drainFlag
    /\ \/ state = "Cordoned" \/ beat = "draining" \/ drainFlag
       \/ (beat = "transition" /\ drainSeen)
       => drains > 0
    /\ beat = "transition" /\ ~drainSeen /\ state = "Cordoned" =>
           undrains > 0 \/ faults > 0

\* Cordoned is left for an undrain of the operator, a read of the flag that
\* failed, an acceptance out of turn, or the end of the process.
CordonEndsForCause ==
    [][state = "Cordoned" /\ state' # "Cordoned" =>
           undrains > 0 \/ faults > 0 \/ crossed' \/ main' = "init"]_vars

\* Only an agent that has come as far as its first registration is cordoned.
CordonedLate == state = "Cordoned" => ByStart \/ Beating

\* A fault is counted, and the count of faults never falls.
LEMMA FaultsCount ==
    ASSUME IInv, [Next]_vars
    PROVE  /\ Fault => faults' > 0
           /\ faults > 0 => faults' > 0
<1>1. faults \in Nat /\ MaxFaults \in Nat
      BY Bounds DEF IInv, CounterTypes
<1>2. Fault => faults' = faults + 1
      BY DEF Fault
<1>3. UNCHANGED faults \/ Fault
      BY DEF Next, StartStep, Heartbeat, Transition, Callback, Begin, RequestEnrollment,
             Subscribe, EnterPending, Preflight, CheckPending, StartJobConsumers,
             StartConsumers, ReadDrainFlag, KeepState, BeginDrain, Undrain, FinishDrain,
             RetryIfPending, Republish, PublishRequest, SaveControllerKey, BecomeReady,
             ConsumersStop, ReceiveRequest, AcceptAgent, RejectAgent, SetDrainFlag, DeleteDrainFlag, Restart, vars
<1> QED BY <1>1, <1>2, <1>3

\* Start does not go back, and a drain begins after it has registered.
LEMMA CordonedLateStep ==
    ASSUME IInv, CordonedLate, [Next]_vars
    PROVE  CordonedLate'
<1> USE DEF process, enrollment, operator, causes, CordonedLate, ByStart, Beating
<1>1. CASE FinishDrain
      BY <1>1 DEF FinishDrain, Registered, IInv, BeatsInTime
<1>2. CASE CheckPending \/ StartJobConsumers
      BY <1>2 DEF CheckPending, StartJobConsumers
<1>3. CASE KeepState \/ Undrain
      BY <1>3 DEF KeepState, Undrain, Registered
<1>4. CASE ~(FinishDrain \/ CheckPending \/ StartJobConsumers \/ KeepState \/ Undrain)
  <2>1. \/ state' # "Cordoned"
        \/ /\ state' = state
           /\ main' = main \/ main \in {"init", "request", "subscribe", "enter pending",
                                       "preflight"}
        BY <1>4 DEF Next, StartStep, Heartbeat, Transition, Callback, Begin,
               RequestEnrollment, Subscribe, EnterPending, Preflight, ReadDrainFlag,
               BeginDrain, RetryIfPending, Republish, SaveControllerKey, BecomeReady,
               ConsumersStop, ReceiveRequest, AcceptAgent, RejectAgent, SetDrainFlag,
               DeleteDrainFlag, Restart, vars
  <2> QED BY <2>1
<1> QED BY <1>1, <1>2, <1>3, <1>4

\* Every step keeps to the flag.
LEMMA FlagStep ==
    ASSUME IInv, FlagFollowed, Next
    PROVE  FlagFollowed'
<1> USE DEF process, enrollment, operator, causes
<1>1. /\ drains \in Nat /\ undrains \in Nat /\ faults \in Nat /\ MaxFaults \in Nat
      /\ drainSeen \in BOOLEAN /\ drainFlag \in BOOLEAN
      BY Bounds DEF IInv, BooleanTypes, CounterTypes
<1>2. (Fault => faults' > 0) /\ (faults > 0 => faults' > 0)
      BY FaultsCount
<1>3. CASE StartStep
  <2>1. /\ UNCHANGED <<beat, drainSeen, operator>>
        /\ state' = "Cordoned" => state = "Cordoned"
        BY <1>3 DEF StartStep, Begin, RequestEnrollment, Subscribe, EnterPending,
                    Preflight, CheckPending, StartJobConsumers
  <2> QED BY <1>2, <2>1 DEF FlagFollowed
<1>4. CASE ReadDrainFlag
  <2>1. /\ UNCHANGED <<state, operator>> /\ beat = "idle" /\ beat' = "transition"
        /\ \/ drainSeen' = drainFlag
           \/ Fault /\ drainSeen' = FALSE
        BY <1>4 DEF ReadDrainFlag
  <2> QED BY <1>1, <1>2, <2>1 DEF FlagFollowed
<1>5. CASE Transition
  <2>1. /\ UNCHANGED <<drainSeen, operator>> /\ beat = "transition"
        /\ beat' \in {"idle", "retry", "draining"}
        /\ state' = "Cordoned" => state = "Cordoned"
        /\ beat' = "draining" => drainSeen
        BY <1>5 DEF Transition, KeepState, BeginDrain, Undrain, Registered
  <2> QED BY <1>1, <1>2, <2>1 DEF FlagFollowed
<1>6. CASE FinishDrain \/ RetryIfPending \/ Republish
  <2>1. /\ UNCHANGED <<drainSeen, operator>>
        /\ beat' \in {"idle", "retry", "republish"}
        /\ state' = "Cordoned" => state = "Cordoned" \/ beat = "draining"
        BY <1>6 DEF FinishDrain, RetryIfPending, Republish, Registered
  <2> QED BY <1>1, <1>2, <2>1 DEF FlagFollowed
<1>7. CASE Callback \/ ConsumersStop \/ ReceiveRequest \/ AcceptAgent \/ RejectAgent
  <2>1. /\ UNCHANGED <<beat, drainSeen, operator>>
        /\ state' = "Cordoned" => state = "Cordoned"
        BY <1>7 DEF Callback, SaveControllerKey, BecomeReady, ConsumersStop,
                    ReceiveRequest, AcceptAgent, RejectAgent
  <2> QED BY <1>2, <2>1 DEF FlagFollowed
<1>8. CASE SetDrainFlag
  <2>1. drainFlag' = TRUE /\ drains' > 0 /\ UNCHANGED <<process, undrains>>
        BY <1>1, <1>8 DEF SetDrainFlag
  <2> QED BY <1>2, <2>1 DEF FlagFollowed
<1>9. CASE DeleteDrainFlag
  <2>1. drainFlag' = FALSE /\ undrains' > 0 /\ undrains' # 0 /\ UNCHANGED <<process, drains>>
        BY <1>1, <1>9 DEF DeleteDrainFlag
  <2> QED BY <2>1 DEF FlagFollowed
<1>10. CASE Restart
  <2>1. state' = "none" /\ beat' = "idle" /\ UNCHANGED operator
        BY <1>10 DEF Restart
  <2> QED BY <2>1 DEF FlagFollowed
<1> QED BY <1>3, <1>4, <1>5, <1>6, <1>7, <1>8, <1>9, <1>10 DEF Next, Heartbeat

(***************************************************************************)
(* "a failed read means no flag" and a misrouted acceptance are the only   *)
(* ways to lose a drain nobody took back, however the ticks, the callback, *)
(* the operator and restarts interleave.                                   *)
(***************************************************************************)
THEOREM CordonsEndForCause == Spec => CordonEndsForCause
<1> DEFINE Cause == state = "Cordoned" /\ state' # "Cordoned" =>
                        undrains > 0 \/ faults > 0 \/ crossed' \/ main' = "init"
<1>1. Init => FlagFollowed /\ CordonedLate
      BY DEF Init, FlagFollowed, CordonedLate
<1>2. IInv /\ CordonedLate /\ [Next]_vars => CordonedLate'
      BY CordonedLateStep
<1>3. IInv /\ FlagFollowed /\ [Next]_vars => FlagFollowed'
  <2>1. CASE Next
        BY <2>1, FlagStep
  <2>2. CASE UNCHANGED vars
        BY <2>2 DEF FlagFollowed, vars, process, operator
  <2> QED BY <2>1, <2>2
<1>4. IInv /\ FlagFollowed /\ CordonedLate /\ [Next]_vars => [Cause]_vars
  <2> SUFFICES ASSUME IInv, FlagFollowed, CordonedLate, Next,
                      state = "Cordoned", state' # "Cordoned"
               PROVE  undrains > 0 \/ faults > 0 \/ crossed' \/ main' = "init"
      OBVIOUS
  <2> USE DEF process, enrollment, operator, causes
  <2>1. Undrain \/ BecomeReady \/ Restart \/ Begin \/ EnterPending
        BY DEF Next, StartStep, Heartbeat, Transition, Callback, RequestEnrollment,
               Subscribe, Preflight, CheckPending, StartJobConsumers, ReadDrainFlag,
               KeepState, BeginDrain, FinishDrain, RetryIfPending, Republish,
               SaveControllerKey, ConsumersStop, ReceiveRequest, AcceptAgent, RejectAgent,
               SetDrainFlag, DeleteDrainFlag
  <2>2. CASE Undrain
        BY <2>2 DEF Undrain, FlagFollowed
  <2>3. CASE BecomeReady
        BY <2>3 DEF BecomeReady
  <2>4. CASE Restart
        BY <2>4 DEF Restart
  <2>5. CASE Begin \/ EnterPending
        BY <2>5 DEF Begin, EnterPending, CordonedLate, ByStart, Beating
  <2> QED BY <2>1, <2>2, <2>3, <2>4, <2>5
<1>5. Spec => [][Cause]_vars
      BY <1>1, <1>2, <1>3, <1>4, LifecycleInvariance, PTL DEF Spec
<1> QED BY <1>5 DEF CordonEndsForCause

-----------------------------------------------------------------------------
(***************************************************************************)
(* What EnrollmentCompletes takes for granted.                             *)
(***************************************************************************)
\* An agent that waits for its acceptance listens, or a subscription failed.
PendingAgentListens == state = "Pending" => subscribed \/ faults > 0

(***************************************************************************)
(* EnrollmentCompletes is about agents that listen: without a failed round *)
(* trip those are all the agents that wait, since handlePKIEnrollment      *)
(* subscribes before it enters Pending.                                    *)
(***************************************************************************)
THEOREM PendingAgentsListen == Spec => []PendingAgentListens
<1> DEFINE Listens == state = "Pending" \/ main = "enter pending" =>
                          subscribed \/ faults > 0
<1>1. Init => Listens
      BY DEF Init
<1>2. IInv /\ Listens /\ [Next]_vars => Listens'
  <2> SUFFICES ASSUME IInv, Listens, [Next]_vars PROVE Listens'
      OBVIOUS
  <2> USE DEF process, enrollment, operator, causes
  <2>1. (Fault => faults' > 0) /\ (faults > 0 => faults' > 0)
        BY FaultsCount
  <2>2. CASE Subscribe
        BY <2>1, <2>2 DEF Subscribe
  <2>3. CASE EnterPending
        BY <2>1, <2>3 DEF EnterPending
  <2>4. CASE Begin \/ Restart
        BY <2>4 DEF Begin, Restart
  <2>5. CASE ~(Subscribe \/ EnterPending \/ Begin \/ Restart)
    <3>1. /\ UNCHANGED subscribed
          /\ state' = "Pending" => state = "Pending"
          /\ main' = "enter pending" => main = "enter pending"
          BY <2>5 DEF Next, StartStep, Heartbeat, Transition, Callback, RequestEnrollment,
               Preflight, CheckPending, StartJobConsumers, ReadDrainFlag, KeepState,
               BeginDrain, Undrain, FinishDrain, RetryIfPending, Republish, Registered,
               SaveControllerKey, BecomeReady, ConsumersStop, ReceiveRequest, AcceptAgent, RejectAgent,
               SetDrainFlag, DeleteDrainFlag, vars
    <3> QED BY <2>1, <3>1
  <2> QED BY <2>2, <2>3, <2>4, <2>5
<1>3. Listens => PendingAgentListens
      BY DEF PendingAgentListens
<1> QED BY <1>1, <1>2, <1>3, LifecycleInvariance, PTL DEF Spec
=============================================================================
