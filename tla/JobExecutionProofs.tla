------------------------- MODULE JobExecutionProofs -------------------------
(***************************************************************************)
(* How often an operation of JobDelivery runs, and what the bucket tells   *)
(* of it, for every set of agents, jobs and slots and for every bound, as  *)
(* long as the keepalive comes in time (KeepAliveInTime).  Four inductive  *)
(* parts carry it: an agent has at most one call per job, and holds its    *)
(* message outstanding (Exclusive); every execution after the first was    *)
(* paid for at the label the call is at (Paid); every delivery but the     *)
(* current one has failed (Spent); and where an outcome is not announced,  *)
(* or not the only one, something has failed (Records).                    *)
(***************************************************************************)
EXTENDS JobDeliveryProofs

Calls == Agents \X Slots

\* The pair of the call h, where it holds a job.
PairOf(h) == <<h[1], work[h]>>

\* A call that holds a job holds its message outstanding, and is alone with it.
Exclusive ==
    /\ \A h \in Calls : pc[h] = "idle" => work[h] = NoJob
    /\ \A h \in Calls : work[h] \in Jobs =>
           published[work[h]] /\ h[1] \in Matches[work[h]] /\ outstanding[PairOf(h)]
    /\ \A a \in Agents, s, t \in Slots :
           work[<<a, s>>] \in Jobs /\ work[<<a, t>>] = work[<<a, s>>] => s = t

\* What is outstanding is open and was delivered; deliveries follow publication.
Consumers ==
    /\ \A p \in Pairs : outstanding[p] =>
           settled[p] = "open" /\ delivered[p] > 0 /\ published[p[2]]
    /\ \A j \in Jobs : caller[j] \in {"new", "retrying"} => ~published[j]
    /\ \A p \in Pairs : ~published[p[2]] => delivered[p] = 0 /\ p \notin dlq

\* Units of failure: a crash stands for two failed round trips.
Paid2 == 2 * crashes + faults

\* What a call at label l need not have paid for, with the responses rs stored.
Free(rs, l) ==
    IF l \in {"respond", "last event"} THEN 2
    ELSE IF l \in {"store failed", "skip"} THEN 1
    ELSE IF l = "check" THEN (IF rs = {} THEN 0 ELSE 1)
    ELSE IF l = "ack" THEN (IF rs = {} THEN 1 ELSE 2)
    ELSE 0

Paid ==
    /\ \A p \in Pairs : 2 * execs[p] <= Paid2 + 2
    /\ \A h \in Calls : pc[h] # "idle" =>
           2 * execs[PairOf(h)] <= Paid2 + Free(responses[PairOf(h)], pc[h])
    /\ \A p \in Pairs : settled[p] = "open" /\ Handling(p[1], p[2]) = {} =>
           2 * execs[p] <= Paid2 + Free(responses[p], "check")

\* Deliveries of an existing job's message, but for the one at work, have failed.
Spent ==
    \A p \in Pairs : job[p[2]] = "present" =>
        /\ delivered[p] <= crashes + faults + 1
        /\ settled[p] = "open" /\ Handling(p[1], p[2]) = {} =>
               delivered[p] <= crashes + faults
        /\ p \in dlq => crashes + faults >= MaxDeliver

-----------------------------------------------------------------------------
(***************************************************************************)
(* Kinds of handler steps: a call moves to another label, or it ends and   *)
(* may settle its message.                                                 *)
(***************************************************************************)
Moves(a, s) ==
    /\ pc[<<a, s>>] # "idle"
    /\ \E l \in Labels \ {"idle"} : GoTo(a, s, l)
    /\ UNCHANGED <<work, consumerVars>>

Ends(a, s) ==
    /\ pc[<<a, s>>] # "idle"
    /\ EndCall(a, s)
    /\ \/ \E how \in {"acked", "termed"} : Settle(a, work[<<a, s>>], how)
       \/ UNCHANGED <<settled, outstanding>>
    /\ UNCHANGED <<delivered, dlq>>

\* Every step of the handler is of one of the two kinds.
LEMMA HandlerKinds ==
  ASSUME TypeOK, NEW a \in Agents, NEW s \in Slots, HandlerStep(a, s)
  PROVE  (Moves(a, s) \/ Ends(a, s)) /\ UNCHANGED <<published, caller>>
<1> USE DEF Moves, Ends, Labels, bucketVars, callerVars, consumerVars, historyVars
<1>1. CASE CheckAnswered(a, s)
  BY <1>1 DEF CheckAnswered
<1>2. CASE LoadJob(a, s)
  BY <1>2 DEF LoadJob
<1>3. CASE WriteAcknowledged(a, s) \/ WriteStarted(a, s)
  BY <1>3 DEF WriteAcknowledged, WriteStarted, WriteEvent
<1>4. CASE RunOperation(a, s) \/ FactsUnresolved(a, s)
  BY <1>4 DEF RunOperation, FactsUnresolved, Decide
<1>5. CASE StoreResponse(a, s)
  BY <1>5 DEF StoreResponse
<1>6. CASE WriteStoreFailed(a, s) \/ WriteTerminal(a, s)
  BY <1>6 DEF WriteStoreFailed, WriteTerminal, WriteEvent
<1>7. CASE Acknowledge(a, s)
  BY <1>7 DEF Acknowledge
<1>8. QED
  BY <1>1, <1>2, <1>3, <1>4, <1>5, <1>6, <1>7 DEF HandlerStep

-----------------------------------------------------------------------------
(***************************************************************************)
(* One call per job.                                                       *)
(***************************************************************************)

\* While a call holds its message, the ack timer does not fire on it.
LEMMA TimerWaits ==
  ASSUME KeepAliveInTime, TypeOK, Consumers, NEW a \in Agents, NEW j \in Jobs,
         AckDeadlinePasses(a, j)
  PROVE  Handling(a, j) = {}
<1>1. <<a, j>> \in Pairs /\ delivered[<<a, j>>] \in 1..MaxDeliver
  BY JobDeliveryAssumption DEF TypeOK, Consumers, AckDeadlinePasses, Pairs
<1>2. QED
  BY <1>1 DEF KeepAliveInTime, AckDeadlinePasses

\* Two calls never hold one job, and a held message stays outstanding.
LEMMA ExclusiveStep ==
  ASSUME KeepAliveInTime, TypeOK, CallsOK, Exclusive, Consumers, Next
  PROVE  Exclusive'
<1> USE DEF Calls, PairOf, bucketVars, callerVars, consumerVars, handlerVars, historyVars
<1>1. /\ pc \in [Calls -> Labels] /\ work \in [Calls -> Jobs \cup {NoJob}]
      /\ outstanding \in [Pairs -> BOOLEAN] /\ published \in [Jobs -> BOOLEAN]
      /\ settled \in [Pairs -> {"open", "acked", "termed"}] /\ NoJob \notin Jobs
  BY JobDeliveryAssumption DEF TypeOK
<1>2. ASSUME UNCHANGED <<pc, work, outstanding>>,
             \A j \in Jobs : published[j] => published'[j]
      PROVE  Exclusive'
  BY <1>2 DEF Exclusive
<1>3. ASSUME NEW j \in Jobs, CreateStep(j) \/ DeleteJob(j) PROVE Exclusive'
  <2>1. UNCHANGED <<pc, work, outstanding>> /\ \A k \in Jobs : published[k] => published'[k]
    BY <1>1, <1>3 DEF CreateStep, StoreJob, RecordSubmitted, PublishNotification,
                      RecordRetried, DeleteJob
  <2>2. QED
    BY <1>2, <2>1
<1>4. ASSUME NEW j \in Jobs, NEW k \in Jobs, RetryJob(k, j) PROVE Exclusive'
  BY <1>2, <1>4 DEF RetryJob
<1>5. ASSUME NEW a \in Agents, NEW j \in Jobs, AckDeadlinePasses(a, j) PROVE Exclusive'
  <2>1. Handling(a, j) = {}
    BY <1>5, TimerWaits
  <2>2. \A h \in Calls : work[h] \in Jobs => PairOf(h) # <<a, j>>
    BY <2>1 DEF Handling
  <2>3. QED
    BY <1>1, <1>5, <2>2 DEF Exclusive, AckDeadlinePasses, Pairs
<1>6. ASSUME NEW a \in Agents, NEW s \in Slots, NEW j \in Jobs, Deliver(a, s, j)
      PROVE  Exclusive'
  <2>1. \A t \in Slots : work[<<a, t>>] # j
    BY <1>6 DEF Exclusive, Deliver
  <2>2. /\ pc' = [pc EXCEPT ![<<a, s>>] = "check"]
        /\ work' = [work EXCEPT ![<<a, s>>] = j]
        /\ outstanding' = [outstanding EXCEPT ![<<a, j>>] = TRUE]
        /\ published' = published /\ published[j] /\ a \in Matches[j]
    BY <1>6 DEF Deliver
  <2>3. QED
    BY <1>1, <2>1, <2>2 DEF Exclusive, Pairs
<1>7. ASSUME NEW a \in Agents, NEW s \in Slots, Moves(a, s), UNCHANGED published
      PROVE  Exclusive'
  BY <1>1, <1>7 DEF Exclusive, Moves, GoTo
<1>8. ASSUME NEW a \in Agents, NEW s \in Slots, Ends(a, s), UNCHANGED published
      PROVE  Exclusive'
  <2>1. work[<<a, s>>] \in Jobs
    BY <1>8, CallTyped DEF Ends
  <2>2. /\ pc' = [pc EXCEPT ![<<a, s>>] = "idle"]
        /\ work' = [work EXCEPT ![<<a, s>>] = NoJob]
    BY <1>8 DEF Ends, EndCall
  <2>3. \A p \in Pairs : p # <<a, work[<<a, s>>]>> => outstanding'[p] = outstanding[p]
    BY <1>1, <1>8 DEF Ends, Settle
  <2>4. QED
    BY <1>1, <1>8, <2>1, <2>2, <2>3 DEF Exclusive, Pairs
<1>9. ASSUME NEW a \in Agents, Crash(a) PROVE Exclusive'
  BY <1>1, <1>9 DEF Exclusive, Crash
<1>10. QED
  BY <1>3, <1>4, <1>5, <1>6, <1>7, <1>8, <1>9, HandlerKinds DEF Next

\* What the consumers know of a message stays true.
LEMMA ConsumersStep ==
  ASSUME TypeOK, CallsOK, Exclusive, Consumers, Next
  PROVE  Consumers'
<1> USE DEF bucketVars, callerVars, consumerVars, handlerVars, historyVars
<1>1. /\ outstanding \in [Pairs -> BOOLEAN] /\ published \in [Jobs -> BOOLEAN]
      /\ settled \in [Pairs -> {"open", "acked", "termed"}]
      /\ delivered \in [Pairs -> 0..MaxDeliver] /\ MaxDeliver \in Nat
      /\ caller \in [Jobs -> CallerStates] /\ \A p \in Pairs : p[2] \in Jobs
  BY JobDeliveryAssumption DEF TypeOK, Pairs
<1>2. ASSUME NEW j \in Jobs, StoreJob(j) \/ RecordSubmitted(j) \/ RecordRetried(j)
      PROVE  Consumers'
  BY <1>1, <1>2 DEF Consumers, StoreJob, RecordSubmitted, RecordRetried
<1>3. ASSUME NEW j \in Jobs, PublishNotification(j) PROVE Consumers'
  BY <1>1, <1>3 DEF Consumers, PublishNotification
<1>4. ASSUME NEW j \in Jobs, DeleteJob(j) PROVE Consumers'
  BY <1>4 DEF Consumers, DeleteJob
<1>5. ASSUME NEW j \in Jobs, NEW k \in Jobs, RetryJob(k, j) PROVE Consumers'
  BY <1>1, <1>5 DEF Consumers, RetryJob
<1>6. ASSUME NEW a \in Agents, NEW j \in Jobs, AckDeadlinePasses(a, j) PROVE Consumers'
  BY <1>1, <1>6 DEF Consumers, AckDeadlinePasses
<1>7. ASSUME NEW a \in Agents, NEW s \in Slots, NEW j \in Jobs, Deliver(a, s, j)
      PROVE  Consumers'
  <2>1. /\ delivered' = [delivered EXCEPT ![<<a, j>>] = @ + 1]
        /\ outstanding' = [outstanding EXCEPT ![<<a, j>>] = TRUE]
        /\ published[j] /\ settled[<<a, j>>] = "open" /\ <<a, j>> \in Pairs
        /\ UNCHANGED <<published, settled, dlq, caller>>
    BY <1>7 DEF Deliver, Pairs
  <2>2. QED
    BY <1>1, <2>1 DEF Consumers
<1>8. ASSUME NEW a \in Agents, NEW s \in Slots, Moves(a, s), UNCHANGED <<published, caller>>
      PROVE  Consumers'
  BY <1>8 DEF Consumers, Moves
<1>9. ASSUME NEW a \in Agents, NEW s \in Slots, Ends(a, s), UNCHANGED <<published, caller>>
      PROVE  Consumers'
  <2>1. \A p \in Pairs : /\ outstanding'[p] => outstanding[p]
                         /\ outstanding'[p] => settled'[p] = settled[p]
    BY <1>1, <1>9 DEF Ends, Settle
  <2>2. QED
    BY <1>9, <2>1 DEF Consumers, Ends
<1>10. ASSUME NEW a \in Agents, Crash(a) PROVE Consumers'
  BY <1>10 DEF Consumers, Crash
<1>11. QED
  BY <1>2, <1>3, <1>4, <1>5, <1>6, <1>7, <1>8, <1>9, <1>10, HandlerKinds
     DEF Next, CreateStep

-----------------------------------------------------------------------------
(***************************************************************************)
(* Executions are paid for.                                                *)
(***************************************************************************)

\* With the crashes and the faults their weighted sum grows.
LEMMA Weighing ==
  ASSUME NEW c \in Nat, NEW d \in Nat, NEW f \in Nat, NEW g \in Nat, c <= d, f <= g
  PROVE  /\ 2 * c + f \in Nat /\ 2 * d + g \in Nat /\ 2 * c + f <= 2 * d + g
         /\ c + f \in Nat /\ d + g \in Nat /\ c + f <= d + g
  OBVIOUS

\* Failures are never taken back.
LEMMA Counting ==
  ASSUME TypeOK, TypeOK', Next
  PROVE  /\ Paid2 \in Nat /\ Paid2' \in Nat /\ Paid2 <= Paid2'
         /\ crashes + faults \in Nat /\ crashes' + faults' \in Nat
         /\ crashes + faults <= crashes' + faults'
<1>1. /\ crashes \in Nat /\ faults \in Nat /\ crashes' \in Nat /\ faults' \in Nat
      /\ faults <= faults'
  BY GrowthStep, JobDeliveryAssumption DEF TypeOK, Growth
<1>2. crashes' = crashes \/ crashes' = crashes + 1
  <2>1. ASSUME NEW a \in Agents, NEW s \in Slots, HandlerStep(a, s)
        PROVE  crashes' = crashes
    BY <2>1 DEF HandlerStep, CheckAnswered, LoadJob, WriteAcknowledged, WriteStarted,
       WriteEvent, RunOperation, FactsUnresolved, Decide, StoreResponse,
       WriteStoreFailed, WriteTerminal, Acknowledge
  <2>2. ASSUME NEW j \in Jobs, CreateStep(j) PROVE crashes' = crashes
    BY <2>2 DEF CreateStep, StoreJob, RecordSubmitted, PublishNotification, RecordRetried
  <2>3. QED
    BY <2>1, <2>2 DEF Next, DeleteJob, RetryJob, AckDeadlinePasses, Deliver, Crash
<1>3. crashes <= crashes'
  BY <1>1, <1>2
<1>4. QED
  BY <1>1, <1>3, Weighing DEF Paid2

\* What is free of charge is 0, 1 or 2, and does not shrink as responses grow.
LEMMA FreeGrows ==
  ASSUME NEW rs, NEW rt, rs \subseteq rt, NEW l
  PROVE  /\ Free(rs, l) \in 0..2 /\ Free(rt, l) \in 0..2
         /\ Free(rs, l) <= Free(rt, l)
<1>1. Free(rs, l) \in 0..2 /\ Free(rt, l) \in 0..2
  BY DEF Free
<1>2. CASE rs = {}
  BY <1>2 DEF Free
<1>3. CASE rs # {}
  <2>1. Free(rt, l) = Free(rs, l)
    BY <1>3 DEF Free
  <2>2. QED
    BY <1>1, <2>1
<1>4. QED
  BY <1>1, <1>2, <1>3

\* A pair that did not run stays paid for.
LEMMA PaidKept ==
  ASSUME TypeOK, TypeOK', Next, NEW p \in Pairs, NEW l, execs'[p] = execs[p],
         2 * execs[p] <= Paid2 + Free(responses[p], l)
  PROVE  2 * execs'[p] <= Paid2' + Free(responses'[p], l)
<1>1. execs[p] \in Nat /\ 2 * execs[p] \in Nat
  BY DEF TypeOK
<1>2. responses[p] \subseteq responses'[p]
  BY GrowthStep DEF Growth
<1>3. /\ Free(responses[p], l) \in 0..2 /\ Free(responses'[p], l) \in 0..2
      /\ Free(responses[p], l) <= Free(responses'[p], l)
  BY <1>2, FreeGrows
<1>4. QED
  BY <1>1, <1>3, Counting

\* The step of one call: all other pairs stay paid for, so its own decides.
LEMMA CallPaid ==
  ASSUME TypeOK, TypeOK', CallsOK, Exclusive, Paid, Next,
         NEW a \in Agents, NEW s \in Slots, NEW j \in Jobs,
         pc[<<a, s>>] # "idle", work[<<a, s>>] = j,
         Moves(a, s) \/ Ends(a, s),
         \A p \in Pairs : p # <<a, j>> => execs'[p] = execs[p],
         2 * execs'[<<a, j>>] <= Paid2' + 2,
         pc'[<<a, s>>] # "idle" =>
             2 * execs'[<<a, j>>] <= Paid2' + Free(responses'[<<a, j>>], pc'[<<a, s>>]),
         pc'[<<a, s>>] = "idle" /\ settled'[<<a, j>>] = "open" =>
             2 * execs'[<<a, j>>] <= Paid2' + Free(responses'[<<a, j>>], "check")
  PROVE  Paid'
<1> USE DEF Calls, PairOf
<1> DEFINE c == <<a, j>>
<1>1. /\ pc \in [Calls -> Labels] /\ work \in [Calls -> Jobs \cup {NoJob}]
      /\ settled \in [Pairs -> {"open", "acked", "termed"}]
      /\ execs \in [Pairs -> Nat] /\ execs' \in [Pairs -> Nat] /\ NoJob \notin Jobs
  BY JobDeliveryAssumption DEF TypeOK
<1>2. c \in Pairs
  BY DEF Pairs
<1>3. /\ \A h \in Calls : h # <<a, s>> => pc'[h] = pc[h] /\ work'[h] = work[h]
      /\ \A p \in Pairs : p # c => settled'[p] = settled[p]
      /\ \/ pc'[<<a, s>>] # "idle" /\ work' = work
         \/ pc'[<<a, s>>] = "idle" /\ work' = [work EXCEPT ![<<a, s>>] = NoJob]
  BY <1>1, <1>2 DEF Moves, Ends, GoTo, EndCall, Settle, consumerVars
<1>4. \A p \in Pairs : 2 * execs'[p] <= Paid2' + 2
  <2> SUFFICES ASSUME NEW p \in Pairs, p # c PROVE 2 * execs'[p] <= Paid2' + 2
    BY <1>2
  <2>1. execs'[p] = execs[p] /\ execs[p] \in Nat /\ 2 * execs[p] <= Paid2 + 2
    BY <1>1 DEF Paid
  <2>2. QED
    BY <2>1, Counting
<1>5. ASSUME NEW h \in Calls, pc'[h] # "idle"
      PROVE  2 * execs'[PairOf(h)'] <= Paid2' + Free(responses'[PairOf(h)'], pc'[h])
  <2>1. CASE h = <<a, s>>
    BY <1>3, <1>5, <2>1
  <2>2. CASE h # <<a, s>>
    <3>1. pc'[h] = pc[h] /\ work'[h] = work[h]
      BY <1>3, <2>2
    <3>2. work[h] \in Jobs /\ PairOf(h) \in Pairs
      BY <1>5, <3>1 DEF CallsOK, CallOK, Pairs
    <3>3. PairOf(h) # c
      BY <1>2, <2>2, <3>2 DEF Exclusive
    <3>4. 2 * execs[PairOf(h)] <= Paid2 + Free(responses[PairOf(h)], pc[h])
      BY <1>5, <3>1 DEF Paid
    <3>5. 2 * execs'[PairOf(h)] <= Paid2' + Free(responses'[PairOf(h)], pc[h])
      BY <3>2, <3>3, <3>4, PaidKept
    <3>6. QED
      BY <3>1, <3>5
  <2>3. QED
    BY <2>1, <2>2
<1>6. ASSUME NEW p \in Pairs, settled'[p] = "open", Handling(p[1], p[2])' = {}
      PROVE  2 * execs'[p] <= Paid2' + Free(responses'[p], "check")
  <2>1. CASE p = c
    <3>1. work'[<<a, s>>] # j
      BY <1>6, <2>1 DEF Handling
    <3>2. QED
      BY <1>3, <1>6, <2>1, <3>1
  <2>2. CASE p # c
    <3>1. settled[p] = "open" /\ execs'[p] = execs[p]
      BY <1>3, <1>6, <2>2
    <3>2. Handling(p[1], p[2]) = {}
      BY <1>2, <1>3, <1>6, <2>2 DEF Handling, Pairs
    <3>3. QED
      BY <3>1, <3>2, PaidKept DEF Paid
  <2>3. QED
    BY <2>1, <2>2
<1>7. QED
  BY <1>4, <1>5, <1>6 DEF Paid

\* What a round trip costs: one unit if it failed, and a crash costs two.
LEMMA Costs ==
  ASSUME TypeOK
  PROVE  /\ Succeeds /\ UNCHANGED crashes => Paid2' = Paid2
         /\ Fails /\ UNCHANGED crashes => Paid2' = Paid2 + 1
         /\ crashes' = crashes + 1 /\ UNCHANGED faults => Paid2' = Paid2 + 2
<1>1. crashes \in Nat /\ faults \in Nat /\ Paid2 = 2 * crashes + faults
  BY JobDeliveryAssumption DEF TypeOK, Paid2
<1>2. \A c \in Nat, f \in Nat : 2 * (c + 1) + f = 2 * c + f + 2
  OBVIOUS
<1>3. \A c \in Nat, f \in Nat : 2 * c + (f + 1) = 2 * c + f + 1
  OBVIOUS
<1>4. QED
  BY <1>1, <1>2, <1>3 DEF Paid2, Succeeds, Fails

\* Steps that move no call and settle nothing keep every execution paid for.
LEMMA StillPaid ==
  ASSUME TypeOK, TypeOK', CallsOK, Paid, Next, UNCHANGED <<pc, work, settled, execs>>
  PROVE  Paid'
<1> USE DEF Calls, PairOf
<1>1. \A p \in Pairs : 2 * execs'[p] <= Paid2' + 2
  <2> SUFFICES ASSUME NEW p \in Pairs PROVE 2 * execs'[p] <= Paid2' + 2
    OBVIOUS
  <2>1. execs'[p] = execs[p] /\ execs[p] \in Nat /\ 2 * execs[p] <= Paid2 + 2
    BY DEF Paid, TypeOK
  <2>2. QED
    BY <2>1, Counting
<1>2. ASSUME NEW h \in Calls, pc[h] # "idle"
      PROVE  2 * execs'[PairOf(h)] <= Paid2' + Free(responses'[PairOf(h)], pc[h])
  <2>1. PairOf(h) \in Pairs
    BY <1>2 DEF CallsOK, CallOK, Pairs
  <2>2. QED
    BY <1>2, <2>1, PaidKept DEF Paid
<1>3. ASSUME NEW p \in Pairs, settled[p] = "open", Handling(p[1], p[2]) = {}
      PROVE  2 * execs'[p] <= Paid2' + Free(responses'[p], "check")
  BY <1>3, PaidKept DEF Paid
<1>4. QED
  BY <1>1, <1>2, <1>3 DEF Paid, Handling

\* The handler: what the label of the call demands is there at the next one.
LEMMA HandlerPaid ==
  ASSUME TypeOK, TypeOK', CallsOK, Exclusive, Paid, Next,
         NEW a \in Agents, NEW s \in Slots, HandlerStep(a, s)
  PROVE  Paid'
<1> USE DEF bucketVars, callerVars, consumerVars, historyVars
<1>1. Moves(a, s) \/ Ends(a, s)
  BY HandlerKinds
<1>2. pc[<<a, s>>] # "idle"
  BY <1>1 DEF Moves, Ends
<1>3. PICK j \in Jobs : work[<<a, s>>] = j
  BY <1>2, CallTyped
<1> DEFINE c == <<a, j>>
<1>4. /\ c \in Pairs /\ c = CallPair(a, s)
      /\ execs[c] \in Nat /\ execs'[c] \in Nat /\ 2 * execs[c] \in Nat
      /\ responses[c] \subseteq responses'[c]
  BY <1>3, GrowthStep DEF Pairs, CallPair, TypeOK, Growth
<1>5. 2 * execs[c] <= Paid2 + Free(responses[c], pc[<<a, s>>]) /\ 2 * execs[c] <= Paid2 + 2
  BY <1>2, <1>3, <1>4 DEF Paid, Calls, PairOf
<1>6. /\ pc \in [Agents \X Slots -> Labels]
      /\ settled \in [Pairs -> {"open", "acked", "termed"}]
      /\ faults \in Nat
  BY JobDeliveryAssumption DEF TypeOK
<1>7. ASSUME NEW l, l = pc'[<<a, s>>], UNCHANGED execs,
             l # "idle" => 2 * execs[c] <= Paid2' + Free(responses'[c], l),
             l = "idle" => settled'[c] # "open"
                           \/ 2 * execs[c] <= Paid2' + Free(responses'[c], "check")
      PROVE  Paid'
  <2>1. 2 * execs'[c] <= Paid2' + 2
    BY <1>4, <1>5, <1>7, Counting
  <2>2. QED
    BY <1>1, <1>2, <1>3, <1>7, <2>1, CallPaid
<1>8. Paid2 \in Nat /\ Paid2' \in Nat /\ Paid2 <= Paid2'
  BY Counting
<1>9. CASE CheckAnswered(a, s)
  <2>1. CASE Succeeds /\ responses[c] # {}
    <3>1. pc'[<<a, s>>] = "skip" /\ pc[<<a, s>>] = "check" /\ UNCHANGED <<execs, responses>>
      BY <1>3, <1>6, <1>9, <2>1 DEF CheckAnswered, GoTo, Succeeds, Fails
    <3>2. Free(responses[c], "check") = 1 /\ Free(responses'[c], "skip") = 1
      BY <2>1 DEF Free
    <3>3. QED
      BY <1>4, <1>5, <1>7, <1>8, <3>1, <3>2
  <2>2. CASE Succeeds /\ responses[c] = {}
    <3>1. pc'[<<a, s>>] = "load" /\ pc[<<a, s>>] = "check" /\ UNCHANGED <<execs, responses>>
      BY <1>3, <1>6, <1>9, <2>2 DEF CheckAnswered, GoTo
    <3>2. Free(responses[c], "check") = 0 /\ Free(responses'[c], "load") = 0
      BY <2>2 DEF Free
    <3>3. QED
      BY <1>4, <1>5, <1>7, <1>8, <3>1, <3>2
  <2>3. CASE Fails
    <3>1. /\ pc'[<<a, s>>] \in {"load", "skip"} /\ pc[<<a, s>>] = "check"
          /\ UNCHANGED <<execs, responses, crashes>>
      BY <1>3, <1>6, <1>9 DEF CheckAnswered, GoTo
    <3>2. Free(responses[c], "check") \in {0, 1} /\ Free(responses'[c], pc'[<<a, s>>]) \in {0, 1}
      BY <3>1 DEF Free
    <3>3. Paid2' = Paid2 + 1
      BY <2>3, <3>1, Costs
    <3>4. QED
      BY <1>4, <1>5, <1>7, <1>8, <3>1, <3>2, <3>3
  <2>4. QED
    BY <1>9, <2>1, <2>2, <2>3 DEF CheckAnswered
<1>10. CASE LoadJob(a, s) \/ WriteAcknowledged(a, s) \/ WriteStarted(a, s)
  <2>1. /\ pc[<<a, s>>] \in {"load", "ack event", "start event"}
        /\ pc'[<<a, s>>] \in {"idle", "ack event", "start event", "run"}
        /\ UNCHANGED execs
    BY <1>6, <1>10
       DEF LoadJob, WriteAcknowledged, WriteStarted, WriteEvent, GoTo, EndCall
  <2>2. Free(responses[c], pc[<<a, s>>]) = 0
    BY <2>1 DEF Free
  <2>3. \A l : Free(responses'[c], l) \in 0..2
    BY <1>4, FreeGrows
  <2>4. \A l : 2 * execs[c] <= Paid2' + Free(responses'[c], l)
    BY <1>4, <1>5, <1>8, <2>2, <2>3
  <2>5. QED
    BY <1>7, <2>1, <2>4
<1>11. CASE RunOperation(a, s)
  <2>1. /\ pc'[<<a, s>>] = "respond" /\ pc[<<a, s>>] = "run"
        /\ execs' = [execs EXCEPT ![c] = @ + 1]
        /\ Succeeds /\ UNCHANGED crashes
    BY <1>4, <1>6, <1>11 DEF RunOperation, Decide, GoTo, Succeeds
  <2>2. /\ execs'[c] = execs[c] + 1
        /\ \A p \in Pairs : p # c => execs'[p] = execs[p]
    BY <1>4, <2>1 DEF TypeOK
  <2>3. Free(responses[c], "run") = 0 /\ Free(responses'[c], "respond") = 2
    BY DEF Free
  <2>4. Paid2' = Paid2
    BY <2>1, Costs
  <2>5. 2 * execs'[c] = 2 * execs[c] + 2
    BY <1>4, <2>2
  <2>6. 2 * execs'[c] <= Paid2' + 2
    BY <1>4, <1>5, <1>8, <2>1, <2>3, <2>4, <2>5
  <2>7. QED
    BY <1>1, <1>2, <1>3, <2>1, <2>2, <2>3, <2>6, CallPaid
<1>12. CASE FactsUnresolved(a, s)
  <2>1. pc'[<<a, s>>] = "respond" /\ UNCHANGED execs
    BY <1>6, <1>12 DEF FactsUnresolved, Decide, GoTo
  <2>2. Free(responses'[c], "respond") = 2
    BY DEF Free
  <2>3. QED
    BY <1>4, <1>5, <1>7, <1>8, <2>1, <2>2
<1>13. CASE StoreResponse(a, s)
  <2>1. /\ \/ pc'[<<a, s>>] = "last event"
           \/ pc'[<<a, s>>] = "store failed" /\ Fails
        /\ UNCHANGED <<execs, crashes>>
    BY <1>6, <1>13 DEF StoreResponse, GoTo
  <2>2. Free(responses'[c], "last event") = 2 /\ Free(responses'[c], "store failed") = 1
    BY DEF Free
  <2>3. Fails => Paid2' = Paid2 + 1
    BY <2>1, Costs
  <2>4. CASE pc'[<<a, s>>] = "last event"
    <3>1. 2 * execs[c] <= Paid2' + 2
      BY <1>4, <1>5, <1>8
    <3>2. QED
      BY <1>7, <2>1, <2>2, <2>4, <3>1
  <2>5. CASE pc'[<<a, s>>] = "store failed" /\ Fails
    <3>1. Paid2' = Paid2 + 1
      BY <2>3, <2>5
    <3>2. 2 * execs[c] <= Paid2' + 1
      BY <1>4, <1>5, <1>8, <3>1
    <3>3. QED
      BY <1>7, <2>1, <2>2, <2>5, <3>2
  <2>6. QED
    BY <2>1, <2>4, <2>5
<1>14. CASE WriteStoreFailed(a, s)
  <2>1. pc[<<a, s>>] = "store failed" /\ pc'[<<a, s>>] = "ack" /\ UNCHANGED execs
    BY <1>6, <1>14 DEF WriteStoreFailed, WriteEvent, GoTo
  <2>2. Free(responses[c], "store failed") = 1 /\ Free(responses'[c], "ack") \in {1, 2}
    BY DEF Free
  <2>3. 2 * execs[c] <= Paid2' + Free(responses'[c], "ack")
    <3>1. 2 * execs[c] <= Paid2 + 1
      BY <1>5, <2>1, <2>2
    <3>2. CASE Free(responses'[c], "ack") = 1
      BY <1>4, <1>8, <3>1, <3>2
    <3>3. CASE Free(responses'[c], "ack") = 2
      BY <1>4, <1>8, <3>1, <3>3
    <3>4. QED
      BY <2>2, <3>2, <3>3
  <2>4. QED
    BY <1>7, <2>1, <2>3
<1>15. CASE WriteTerminal(a, s)
  <2>1. pc[<<a, s>>] = "last event" /\ pc'[<<a, s>>] = "ack" /\ UNCHANGED execs
    BY <1>6, <1>15 DEF WriteTerminal, WriteEvent, GoTo
  <2>2. responses'[c] # {}
    BY <1>3, <1>4, <2>1 DEF CallsOK, CallOK
  <2>3. Free(responses'[c], "ack") = 2
    BY <2>2 DEF Free
  <2>4. 2 * execs[c] <= Paid2' + Free(responses'[c], "ack")
    BY <1>4, <1>5, <1>8, <2>3
  <2>5. QED
    BY <1>7, <2>1, <2>4
<1>16. CASE Acknowledge(a, s)
  <2>1. /\ pc[<<a, s>>] \in {"ack", "skip"} /\ pc'[<<a, s>>] = "idle"
        /\ UNCHANGED <<execs, responses, crashes>>
    BY <1>6, <1>16 DEF Acknowledge, EndCall
  <2>2. CASE Succeeds /\ Settle(a, j, "acked")
    <3>1. settled'[c] # "open"
      BY <1>4, <1>6, <2>2 DEF Settle
    <3>2. QED
      BY <1>7, <2>1, <3>1
  <2>3. CASE Fails
    <3>1. Free(responses[c], pc[<<a, s>>]) <= Free(responses'[c], "check") + 1
      <4>1. CASE responses[c] = {} /\ pc[<<a, s>>] = "ack"
        BY <2>1, <4>1 DEF Free
      <4>2. CASE responses[c] # {} /\ pc[<<a, s>>] = "ack"
        BY <2>1, <4>2 DEF Free
      <4>3. CASE pc[<<a, s>>] = "skip" /\ responses[c] = {}
        BY <2>1, <4>3 DEF Free
      <4>4. CASE pc[<<a, s>>] = "skip" /\ responses[c] # {}
        BY <2>1, <4>4 DEF Free
      <4>5. QED
        BY <2>1, <4>1, <4>2, <4>3, <4>4
    <3>2. /\ Free(responses[c], pc[<<a, s>>]) \in 0..2
          /\ Free(responses'[c], "check") \in 0..2
      BY <1>4, FreeGrows
    <3>3. Paid2' = Paid2 + 1
      BY <2>1, <2>3, Costs
    <3>4. QED
      BY <1>4, <1>5, <1>7, <1>8, <2>1, <3>1, <3>2, <3>3
  <2>4. QED
    BY <1>3, <1>16, <2>2, <2>3 DEF Acknowledge
<1>17. QED
  BY <1>9, <1>10, <1>11, <1>12, <1>13, <1>14, <1>15, <1>16 DEF HandlerStep

\* Whatever step is taken, every execution stays paid for.
LEMMA PaidStep ==
  ASSUME TypeOK, TypeOK', CallsOK, Exclusive, Consumers, Paid, Next
  PROVE  Paid'
<1> USE DEF bucketVars, callerVars, consumerVars, handlerVars, historyVars
<1>1. ASSUME NEW j \in Jobs, CreateStep(j) \/ DeleteJob(j) PROVE Paid'
  BY <1>1, StillPaid DEF CreateStep, StoreJob, RecordSubmitted, PublishNotification,
                         RecordRetried, DeleteJob
<1>2. ASSUME NEW j \in Jobs, NEW k \in Jobs, RetryJob(k, j) PROVE Paid'
  BY <1>2, StillPaid DEF RetryJob
<1>3. ASSUME NEW a \in Agents, NEW j \in Jobs, AckDeadlinePasses(a, j) PROVE Paid'
  BY <1>3, StillPaid DEF AckDeadlinePasses
<1>4. ASSUME NEW a \in Agents, NEW s \in Slots, NEW j \in Jobs, Deliver(a, s, j)
      PROVE  Paid'
  <2>1. /\ pc' = [pc EXCEPT ![<<a, s>>] = "check"]
        /\ work' = [work EXCEPT ![<<a, s>>] = j]
        /\ UNCHANGED <<settled, execs, responses, faults, crashes>>
        /\ settled[<<a, j>>] = "open" /\ <<a, j>> \in Pairs
    BY <1>4 DEF Deliver, Pairs
  <2>2. Handling(a, j) = {}
    <3>1. \A t \in Slots : work[<<a, t>>] # j
      BY <1>4 DEF Exclusive, Calls, PairOf, Deliver
    <3>2. QED
      BY <3>1 DEF Handling
  <2>3. work[<<a, s>>] = NoJob /\ NoJob \notin Jobs
    BY <1>4, JobDeliveryAssumption DEF Exclusive, Calls, Deliver
  <2>4. UNCHANGED Paid2
    BY <2>1 DEF Paid2
  <2>5. 2 * execs[<<a, j>>] <= Paid2 + Free(responses[<<a, j>>], "check")
    BY <2>1, <2>2 DEF Paid
  <2>6. ASSUME NEW h \in Calls, pc'[h] # "idle"
        PROVE  2 * execs'[PairOf(h)'] <= Paid2' + Free(responses'[PairOf(h)'], pc'[h])
    <3>1. CASE h = <<a, s>>
      <4>1. pc'[h] = "check" /\ PairOf(h)' = <<a, j>>
        BY <2>1, <3>1 DEF TypeOK, Calls, PairOf
      <4>2. QED
        BY <2>1, <2>4, <2>5, <4>1
    <3>2. CASE h # <<a, s>>
      <4>1. pc'[h] = pc[h] /\ PairOf(h)' = PairOf(h)
        BY <2>1, <3>2 DEF TypeOK, Calls, PairOf
      <4>2. QED
        BY <2>1, <2>4, <2>6, <4>1 DEF Paid
    <3>3. QED
      BY <3>1, <3>2
  <2>7. ASSUME NEW p \in Pairs, settled'[p] = "open", Handling(p[1], p[2])' = {}
        PROVE  2 * execs'[p] <= Paid2' + Free(responses'[p], "check")
    <3>1. Handling(p[1], p[2]) = {}
      <4>1. PICK b \in Agents, k \in Jobs : p = <<b, k>>
        BY DEF Pairs
      <4>2. ASSUME NEW t \in Slots PROVE work[<<b, t>>] # k
        <5>1. work'[<<b, t>>] # k
          BY <2>7, <4>1 DEF Handling
        <5>2. work[<<b, t>>] # work'[<<b, t>>] => work[<<b, t>>] = NoJob
          BY <2>1, <2>3 DEF TypeOK
        <5>3. QED
          BY <2>3, <5>1, <5>2
      <4>3. QED
        BY <4>1, <4>2 DEF Handling
    <3>2. QED
      BY <2>1, <2>4, <2>7, <3>1 DEF Paid
  <2>8. QED
    BY <2>1, <2>4, <2>6, <2>7 DEF Paid
<1>5. ASSUME NEW a \in Agents, NEW s \in Slots, HandlerStep(a, s) PROVE Paid'
  BY <1>5, HandlerPaid
<1>6. ASSUME NEW a \in Agents, Crash(a) PROVE Paid'
  <2>1. /\ crashes' = crashes + 1
        /\ UNCHANGED <<settled, execs, responses, faults, bucketVars>>
        /\ \A h \in Calls : \/ h[1] = a /\ pc'[h] = "idle"
                            \/ h[1] # a /\ pc'[h] = pc[h] /\ work'[h] = work[h]
    BY <1>6 DEF Crash, Calls
  <2>2. Paid2' = Paid2 + 2 /\ Paid2 \in Nat
    BY <2>1, Costs, Counting
  <2>3. ASSUME NEW p \in Pairs, NEW f \in 0..2 PROVE 2 * execs'[p] <= Paid2' + f
    <3>1. execs[p] \in Nat /\ execs'[p] = execs[p] /\ 2 * execs[p] <= Paid2 + 2
      BY <2>1 DEF Paid, TypeOK
    <3>2. QED
      BY <2>2, <3>1
  <2>4. \A rs, l : Free(rs, l) \in 0..2
    BY FreeGrows
  <2>5. ASSUME NEW h \in Calls, pc'[h] # "idle"
        PROVE  2 * execs'[PairOf(h)'] <= Paid2' + Free(responses'[PairOf(h)'], pc'[h])
    <3>1. PairOf(h)' \in Pairs
      BY <2>1, <2>5 DEF CallsOK, CallOK, Pairs, PairOf, Calls
    <3>2. QED
      BY <2>3, <2>4, <3>1
  <2>6. \A p \in Pairs : /\ 2 * execs'[p] <= Paid2' + 2
                         /\ 2 * execs'[p] <= Paid2' + Free(responses'[p], "check")
    BY <2>3, <2>4
  <2>7. QED
    BY <2>5, <2>6 DEF Paid
<1>7. QED
  BY <1>1, <1>2, <1>3, <1>4, <1>5, <1>6 DEF Next

-----------------------------------------------------------------------------
(***************************************************************************)
(* Deliveries are spent on failures.                                       *)
(***************************************************************************)

\* A call that ends without settling the message of a present job has failed.
LEMMA EndsSettledOrFailed ==
  ASSUME TypeOK, NEW a \in Agents, NEW s \in Slots, NEW j \in Jobs,
         HandlerStep(a, s), work[<<a, s>>] = j, pc'[<<a, s>>] = "idle",
         job[j] = "present"
  PROVE  settled'[<<a, j>>] # "open" \/ (Fails /\ UNCHANGED crashes)
<1>1. /\ pc \in [Agents \X Slots -> Labels] /\ <<a, j>> \in Pairs
      /\ settled \in [Pairs -> {"open", "acked", "termed"}]
  BY DEF TypeOK, Pairs
<1>2. ASSUME NEW how \in {"acked", "termed"}, Settle(a, j, how)
      PROVE  settled'[<<a, j>>] # "open"
  BY <1>1, <1>2 DEF Settle
<1>3. CASE LoadJob(a, s)
  BY <1>1, <1>2, <1>3 DEF LoadJob, GoTo
<1>4. CASE Acknowledge(a, s)
  BY <1>2, <1>4 DEF Acknowledge
<1>5. QED
  BY <1>1, <1>3, <1>4
     DEF HandlerStep, CheckAnswered, WriteAcknowledged, WriteStarted, WriteEvent,
         RunOperation, FactsUnresolved, Decide, StoreResponse, WriteStoreFailed,
         WriteTerminal, GoTo

\* Steps that leave the calls and the consumers alone, and make no job present.
LEMMA StillSpent ==
  ASSUME TypeOK, TypeOK', Spent, Next, UNCHANGED <<work, consumerVars>>,
         \A j \in Jobs : job'[j] = "present" => job[j] = "present"
  PROVE  Spent'
<1> SUFFICES ASSUME NEW p \in Pairs, job[p[2]] = "present" PROVE
        /\ delivered[p] <= crashes' + faults' + 1
        /\ settled[p] = "open" /\ Handling(p[1], p[2]) = {} =>
               delivered[p] <= crashes' + faults'
        /\ p \in dlq => crashes' + faults' >= MaxDeliver
  BY DEF Spent, Handling, consumerVars, Pairs
<1>1. delivered[p] \in Nat /\ MaxDeliver \in Nat
  BY JobDeliveryAssumption DEF TypeOK
<1>2. /\ delivered[p] <= crashes + faults + 1
      /\ settled[p] = "open" /\ Handling(p[1], p[2]) = {} => delivered[p] <= crashes + faults
      /\ p \in dlq => crashes + faults >= MaxDeliver
  BY DEF Spent
<1>3. QED
  BY <1>1, <1>2, Counting

\* Whatever step is taken, no delivery but the one at work is unspent.
LEMMA SpentStep ==
  ASSUME KeepAliveInTime, TypeOK, TypeOK', CallsOK, Exclusive, Consumers, Spent, Next
  PROVE  Spent'
<1> USE DEF bucketVars, callerVars, consumerVars, handlerVars, historyVars
<1> DEFINE n == crashes + faults
<1>1. n \in Nat /\ n' \in Nat /\ n <= n'
  BY Counting
<1>2. /\ delivered \in [Pairs -> 0..MaxDeliver] /\ MaxDeliver \in Nat
      /\ settled \in [Pairs -> {"open", "acked", "termed"}]
      /\ pc \in [Calls -> Labels] /\ work \in [Calls -> Jobs \cup {NoJob}]
      /\ job \in [Jobs -> {"absent", "present", "deleted"}] /\ NoJob \notin Jobs
      /\ \A p \in Pairs : delivered[p] \in Nat /\ p[2] \in Jobs
  BY JobDeliveryAssumption DEF TypeOK, Calls, Pairs
<1>3. ASSUME NEW j \in Jobs, StoreJob(j) PROVE Spent'
  <2>1. ~published[j] /\ UNCHANGED <<work, delivered, settled, dlq>>
    BY <1>3 DEF StoreJob, Consumers
  <2>2. \A k \in Jobs : job'[k] = "present" => job[k] = "present" \/ k = j
    BY <1>2, <1>3 DEF StoreJob
  <2>3. ASSUME NEW p \in Pairs, job'[p[2]] = "present" PROVE
          /\ delivered[p] <= n' + 1
          /\ settled[p] = "open" /\ Handling(p[1], p[2]) = {} => delivered[p] <= n'
          /\ p \in dlq => n' >= MaxDeliver
    <3>1. CASE p[2] = j
      <4>1. delivered[p] = 0 /\ p \notin dlq
        BY <2>1, <3>1 DEF Consumers
      <4>2. QED
        BY <1>1, <4>1
    <3>2. CASE job[p[2]] = "present"
      <4>1. /\ delivered[p] <= n + 1
            /\ settled[p] = "open" /\ Handling(p[1], p[2]) = {} => delivered[p] <= n
            /\ p \in dlq => n >= MaxDeliver
        BY <3>2 DEF Spent
      <4>2. QED
        BY <1>1, <1>2, <4>1
    <3>3. QED
      BY <1>2, <2>2, <2>3, <3>1, <3>2
  <2>4. QED
    BY <2>1, <2>3 DEF Spent, Handling
<1>4. ASSUME NEW j \in Jobs,
             RecordSubmitted(j) \/ PublishNotification(j) \/ RecordRetried(j) \/ DeleteJob(j)
      PROVE  Spent'
  BY <1>2, <1>4, StillSpent
     DEF RecordSubmitted, PublishNotification, RecordRetried, DeleteJob
<1>5. ASSUME NEW j \in Jobs, NEW k \in Jobs, RetryJob(k, j) PROVE Spent'
  BY <1>5, StillSpent DEF RetryJob
<1>6. ASSUME NEW a \in Agents, NEW j \in Jobs, AckDeadlinePasses(a, j) PROVE Spent'
  <2>1. Handling(a, j) = {} /\ settled[<<a, j>>] = "open" /\ <<a, j>> \in Pairs
    BY <1>6, TimerWaits DEF Consumers, AckDeadlinePasses, Pairs
  <2>2. job[j] = "present" => delivered[<<a, j>>] <= n
    BY <2>1 DEF Spent
  <2>3. UNCHANGED <<work, delivered, settled, job, crashes, faults>>
    BY <1>6 DEF AckDeadlinePasses
  <2>4. \A p \in Pairs : p \in dlq' /\ job[p[2]] = "present" => n >= MaxDeliver
    BY <1>2, <1>6, <2>1, <2>2 DEF AckDeadlinePasses, Spent
  <2>5. QED
    BY <2>3, <2>4 DEF Spent, Handling
<1>7. ASSUME NEW a \in Agents, NEW s \in Slots, NEW j \in Jobs, Deliver(a, s, j)
      PROVE  Spent'
  <2>1. /\ delivered' = [delivered EXCEPT ![<<a, j>>] = @ + 1]
        /\ work' = [work EXCEPT ![<<a, s>>] = j] /\ pc[<<a, s>>] = "idle"
        /\ settled[<<a, j>>] = "open" /\ <<a, j>> \in Pairs
        /\ UNCHANGED <<settled, dlq, job, crashes, faults>>
    BY <1>7 DEF Deliver, Pairs
  <2>2. Handling(a, j) = {}
    <3>1. \A t \in Slots : work[<<a, t>>] # j
      BY <1>7 DEF Exclusive, Calls, PairOf, Deliver
    <3>2. QED
      BY <3>1 DEF Handling
  <2>3. work[<<a, s>>] = NoJob
    BY <2>1 DEF Exclusive, Calls
  <2>4. ASSUME NEW p \in Pairs, job[p[2]] = "present" PROVE
          /\ delivered'[p] <= n + 1
          /\ settled[p] = "open" /\ Handling(p[1], p[2])' = {} => delivered'[p] <= n
    <3>1. CASE p = <<a, j>>
      <4>1. delivered'[p] = delivered[p] + 1 /\ delivered[p] <= n
        BY <1>2, <2>1, <2>2, <2>4, <3>1 DEF Spent
      <4>2. s \in Handling(p[1], p[2])'
        BY <1>2, <2>1, <3>1 DEF Handling, Calls
      <4>3. QED
        BY <1>1, <1>2, <4>1, <4>2
    <3>2. CASE p # <<a, j>>
      <4>1. delivered'[p] = delivered[p]
        BY <1>2, <2>1, <3>2
      <4>2. PICK b \in Agents, k \in Jobs : p = <<b, k>>
        BY DEF Pairs
      <4>3. Handling(b, k)' = {} => Handling(b, k) = {}
        <5>1. ASSUME NEW t \in Slots, work[<<b, t>>] = k PROVE work'[<<b, t>>] = k
          BY <1>2, <2>1, <2>3, <5>1 DEF Calls
        <5>2. QED
          BY <5>1 DEF Handling
      <4>4. QED
        BY <2>4, <4>1, <4>2, <4>3 DEF Spent
    <3>3. QED
      BY <3>1, <3>2
  <2>5. QED
    BY <2>1, <2>4 DEF Spent
<1>8. ASSUME NEW a \in Agents, NEW s \in Slots, HandlerStep(a, s), Moves(a, s)
      PROVE  Spent'
  <2>1. UNCHANGED job
    BY <1>8 DEF HandlerStep, CheckAnswered, LoadJob, WriteAcknowledged, WriteStarted,
       WriteEvent, RunOperation, FactsUnresolved, Decide, StoreResponse,
       WriteStoreFailed, WriteTerminal, Acknowledge
  <2>2. QED
    BY <1>8, <2>1, StillSpent DEF Moves
<1>9. ASSUME NEW a \in Agents, NEW s \in Slots, HandlerStep(a, s), Ends(a, s)
      PROVE  Spent'
  <2>1. UNCHANGED job
    BY <1>9 DEF HandlerStep, CheckAnswered, LoadJob, WriteAcknowledged, WriteStarted,
       WriteEvent, RunOperation, FactsUnresolved, Decide, StoreResponse,
       WriteStoreFailed, WriteTerminal, Acknowledge
  <2>2. PICK j \in Jobs : work[<<a, s>>] = j
    BY <1>9, CallTyped DEF Ends
  <2>3. /\ UNCHANGED <<delivered, dlq>> /\ <<a, j>> \in Pairs
        /\ \A p \in Pairs : p # <<a, j>> => settled'[p] = settled[p]
        /\ work' = [work EXCEPT ![<<a, s>>] = NoJob] /\ pc'[<<a, s>>] = "idle"
    BY <1>2, <1>9, <2>2 DEF Ends, EndCall, Settle, Pairs, Calls
  <2>4. ASSUME NEW p \in Pairs, job[p[2]] = "present" PROVE
          /\ delivered[p] <= n' + 1
          /\ settled'[p] = "open" /\ Handling(p[1], p[2])' = {} => delivered[p] <= n'
          /\ p \in dlq => n' >= MaxDeliver
    <3>1. /\ delivered[p] <= n + 1
          /\ settled[p] = "open" /\ Handling(p[1], p[2]) = {} => delivered[p] <= n
          /\ p \in dlq => n >= MaxDeliver
      BY <2>4 DEF Spent
    <3>2. CASE p = <<a, j>>
      <4>1. settled'[p] # "open" \/ (Fails /\ UNCHANGED crashes)
        BY <1>9, <2>2, <2>3, <2>4, <3>2, EndsSettledOrFailed
      <4>2. Fails /\ UNCHANGED crashes => n' = n + 1
        BY JobDeliveryAssumption DEF Fails, TypeOK
      <4>3. QED
        BY <1>1, <1>2, <3>1, <4>1, <4>2
    <3>3. CASE p # <<a, j>>
      <4>1. PICK b \in Agents, k \in Jobs : p = <<b, k>>
        BY DEF Pairs
      <4>2. Handling(b, k)' = {} => Handling(b, k) = {}
        <5>1. ASSUME NEW t \in Slots, work[<<b, t>>] = k PROVE work'[<<b, t>>] = k
          BY <1>2, <2>2, <2>3, <3>3, <4>1, <5>1 DEF Calls
        <5>2. QED
          BY <5>1 DEF Handling
      <4>3. QED
        BY <1>1, <1>2, <2>3, <3>1, <3>3, <4>1, <4>2
    <3>4. QED
      BY <3>2, <3>3
  <2>5. QED
    BY <2>1, <2>3, <2>4 DEF Spent
<1>10. ASSUME NEW a \in Agents, Crash(a) PROVE Spent'
  <2>1. UNCHANGED <<delivered, settled, dlq, job, faults>> /\ crashes' = crashes + 1
    BY <1>10 DEF Crash
  <2>2. n' = n + 1
    BY <2>1, JobDeliveryAssumption DEF TypeOK
  <2>3. ASSUME NEW p \in Pairs, job[p[2]] = "present"
        PROVE  delivered[p] <= n' /\ delivered[p] <= n' + 1 /\ (p \in dlq => n' >= MaxDeliver)
    <3>1. delivered[p] <= n + 1 /\ (p \in dlq => n >= MaxDeliver)
      BY <2>3 DEF Spent
    <3>2. QED
      BY <1>1, <1>2, <2>2, <3>1
  <2>4. QED
    BY <2>1, <2>3 DEF Spent
<1>11. QED
  BY <1>3, <1>4, <1>5, <1>6, <1>7, <1>8, <1>9, <1>10, HandlerKinds DEF Next, CreateStep

-----------------------------------------------------------------------------
(***************************************************************************)
(* The results.                                                            *)
(***************************************************************************)
InTime == KeepAliveInTime => Exclusive /\ Consumers /\ Paid /\ Spent

\* Nothing is delivered, run or failed at first.
LEMMA InitInTime == Init => InTime
<1> SUFFICES ASSUME Init PROVE Exclusive /\ Consumers /\ Paid /\ Spent
  BY DEF InTime
<1>1. Exclusive
  BY JobDeliveryAssumption DEF Init, Exclusive, Calls
<1>2. Consumers
  BY DEF Init, Consumers, Pairs
<1>3. Paid
  <2>1. Paid2 = 0 /\ (\A p \in Pairs : execs[p] = 0) /\ \A h \in Calls : pc[h] = "idle"
    BY DEF Init, Paid2, Calls
  <2>2. \A rs, l : Free(rs, l) \in 0..2
    BY FreeGrows
  <2>3. QED
    BY <2>1, <2>2 DEF Paid
<1>4. Spent
  BY DEF Init, Spent, Pairs
<1>5. QED
  BY <1>1, <1>2, <1>3, <1>4

\* The three parts are inductive together with IInv.
LEMMA StepInTime ==
  ASSUME IInv, IInv', InTime, [Next]_vars
  PROVE  InTime'
<1> SUFFICES ASSUME KeepAliveInTime PROVE (Exclusive /\ Consumers /\ Paid /\ Spent)'
  BY DEF InTime
<1>1. CASE Next
  BY <1>1, ExclusiveStep, ConsumersStep, PaidStep, SpentStep DEF IInv, InTime
<1>2. CASE UNCHANGED vars
  BY <1>2 DEF InTime, Exclusive, Consumers, Paid, Paid2, Spent, PairOf, Handling, vars,
     bucketVars, callerVars, consumerVars, handlerVars, historyVars
<1>3. QED
  BY <1>1, <1>2

\* They hold in every reachable state.
THEOREM ExecutionInvariance == Spec => []InTime
<1>1. Spec => []IInv
  BY Invariance
<1>2. IInv /\ IInv' /\ InTime /\ [Next]_vars => InTime'
  BY StepInTime
<1>3. QED
  BY <1>1, <1>2, InitInTime, PTL DEF Spec

(***************************************************************************)
(* "An operation that outlives AckWait is not redelivered mid-flight"      *)
(* (handler.go:440), for any number of agents, calls and deliveries, as    *)
(* long as bucket round trips are short and the first keepalive comes      *)
(* before the deadline of every delivery.                                  *)
(***************************************************************************)
THEOREM RunningIsNotRedelivered ==
  Spec => [](KeepAliveInTime => NotRedeliveredMidFlight)
<1>1. IInv /\ InTime => (KeepAliveInTime => NotRedeliveredMidFlight)
  <2> SUFFICES ASSUME IInv, Exclusive, NEW a \in Agents, NEW s \in Slots,
                      pc[<<a, s>>] = "run"
               PROVE  /\ outstanding[CallPair(a, s)]
                      /\ Handling(a, work[<<a, s>>]) = {s}
    BY DEF InTime, NotRedeliveredMidFlight
  <2>1. work[<<a, s>>] \in Jobs
    BY CallTyped DEF IInv
  <2>2. outstanding[CallPair(a, s)]
    BY <2>1 DEF Exclusive, Calls, PairOf, CallPair
  <2>3. Handling(a, work[<<a, s>>]) = {s}
    BY <2>1 DEF Exclusive, Handling
  <2>4. QED
    BY <2>2, <2>3
<1>2. QED
  BY <1>1, Invariance, ExecutionInvariance, PTL

(***************************************************************************)
(* Every execution after the first costs a crash or two failed round       *)
(* trips, whatever the number of deliveries, crashes and faults.           *)
(***************************************************************************)
THEOREM ExecutionsArePaidFor == Spec => []ExtraExecutionsPaidFor
<1>1. IInv /\ InTime => ExtraExecutionsPaidFor
  <2> SUFFICES ASSUME IInv, Paid, NEW p \in Pairs
               PROVE  2 * execs[p] <= 2 + 2 * crashes + faults
    BY DEF InTime, ExtraExecutionsPaidFor
  <2>1. 2 * execs[p] <= 2 * crashes + faults + 2
    BY DEF Paid, Paid2
  <2>2. execs[p] \in Nat /\ crashes \in Nat /\ faults \in Nat
    BY JobDeliveryAssumption DEF IInv, TypeOK
  <2>3. \A c \in Nat, f \in Nat : 2 * c + f + 2 = 2 + 2 * c + f
    OBVIOUS
  <2>4. QED
    BY <2>1, <2>2, <2>3
<1>2. QED
  BY <1>1, Invariance, ExecutionInvariance, PTL

(***************************************************************************)
(* The dead letters of jobs that still exist have as many failures behind  *)
(* them as max_deliver allows deliveries.                                  *)
(***************************************************************************)
THEOREM DeadLettersHaveFailures == Spec => []DeadLetteredOnlyAfterFailures
<1>1. InTime => DeadLetteredOnlyAfterFailures
  BY DEF InTime, Spent, DeadLetteredOnlyAfterFailures, Pairs
<1>2. QED
  BY <1>1, ExecutionInvariance, PTL

\* The status depends on the agents' logs only.
LEMMA StatusOfAgents ==
  ASSUME NEW log, NEW new, \A a \in Agents : new[a] = log[a]
  PROVE  ComputedStatus(new) = ComputedStatus(log)
<1>1. \A es : InState(new, es) = InState(log, es)
  BY DEF InState
<1>2. {a \in Agents : new[a] # {}} = {a \in Agents : log[a] # {}}
  OBVIOUS
<1>3. QED
  BY <1>1, <1>2 DEF ComputedStatus

\* A step changes the bucket's entries of agent a for job j only through a call
\* that holds the job.
LEMMA OnlyHoldersWrite ==
  ASSUME TypeOK, RetriesOK, CallsOK, [Next]_vars, NEW a \in Agents, NEW j \in Jobs,
         Handling(a, j) = {}
  PROVE  events'[j][a] = events[j][a] /\ responses'[<<a, j>>] = responses[<<a, j>>]
<1> USE DEF bucketVars, callerVars, consumerVars, handlerVars, historyVars
<1>1. /\ events \in [Jobs -> [Hosts -> SUBSET Events]]
      /\ responses \in [Pairs -> SUBSET Outcomes] /\ <<a, j>> \in Pairs
      /\ a \in Hosts /\ Api \in Hosts /\ a # Api
  BY ApiIsNoAgent DEF TypeOK, Logs, Pairs, Hosts
<1>2. ASSUME NEW k \in Jobs, CreateStep(k)
      PROVE  events'[j][a] = events[j][a] /\ responses' = responses
  <2>1. responses' = responses
    BY <1>2 DEF CreateStep, StoreJob, RecordSubmitted, PublishNotification, RecordRetried
  <2>2. UNCHANGED events \/ \E l \in Jobs, e \in Events : Record(l, Api, e)
    BY <1>2 DEF CreateStep, StoreJob, RecordSubmitted, PublishNotification,
                RecordRetried, RetriesOK, Events
  <2>3. QED
    BY <1>1, <2>1, <2>2 DEF Record
<1>3. ASSUME NEW b \in Agents, NEW s \in Slots, HandlerStep(b, s)
      PROVE  events'[j][a] = events[j][a] /\ responses'[<<a, j>>] = responses[<<a, j>>]
  <2>1. pc[<<b, s>>] # "idle"
    BY <1>3, HandlerKinds DEF Moves, Ends
  <2>2. PICK k \in Jobs : work[<<b, s>>] = k
    BY <2>1, CallTyped
  <2>3. <<b, k>> # <<a, j>> /\ <<b, k>> \in Pairs /\ b \in Hosts
    BY <2>2 DEF Handling, Pairs, Hosts
  <2>4. UNCHANGED events \/ \E e : Record(k, b, e)
    BY <1>3, <2>2 DEF HandlerStep, CheckAnswered, LoadJob, WriteAcknowledged, WriteStarted,
       WriteEvent, RunOperation, FactsUnresolved, Decide, StoreResponse,
       WriteStoreFailed, WriteTerminal, Acknowledge
  <2>5. UNCHANGED responses \/ \E rs : responses' = [responses EXCEPT ![<<b, k>>] = rs]
    BY <1>3, <2>2 DEF HandlerStep, CheckAnswered, LoadJob, WriteAcknowledged, WriteStarted,
       WriteEvent, RunOperation, FactsUnresolved, Decide, StoreResponse, WithResponse,
       CallPair, WriteStoreFailed, WriteTerminal, Acknowledge
  <2>6. events'[j][a] = events[j][a]
    BY <1>1, <2>3, <2>4 DEF Record
  <2>7. QED
    BY <1>1, <2>3, <2>5, <2>6
<1>4. QED
  BY <1>2, <1>3
     DEF Next, DeleteJob, RetryJob, AckDeadlinePasses, Deliver, Crash, vars

(***************************************************************************)
(* Once every notification of a job is settled, its status and responses   *)
(* never change again, for every set of agents and however many retries,   *)
(* deletions, crashes and failures follow.                                 *)
(***************************************************************************)
THEOREM SettledJobsAreFinal == Spec => SettledIsFinal
<1> DEFINE Final(j) == /\ ComputedStatus(events[j])' = ComputedStatus(events[j])
                       /\ \A a \in Agents : responses'[<<a, j>>] = responses[<<a, j>>]
           Stays == \A j \in Jobs :
                        KeepAliveInTime /\ published[j] /\ AllSettled(j) => Final(j)
<1>1. IInv /\ InTime /\ [Next]_vars => Stays
  <2> SUFFICES ASSUME IInv, Exclusive, Consumers, [Next]_vars,
                      NEW j \in Jobs, AllSettled(j)
               PROVE  Final(j)
    BY DEF InTime
  <2>1. ASSUME NEW a \in Agents PROVE Handling(a, j) = {}
    <3>1. ASSUME NEW s \in Slots, work[<<a, s>>] = j PROVE FALSE
      <4>1. a \in Matches[j] /\ outstanding[<<a, j>>]
        BY <3>1 DEF Exclusive, Calls, PairOf
      <4>2. settled[<<a, j>>] = "open"
        BY <4>1 DEF Consumers, Pairs
      <4>3. QED
        BY <4>1, <4>2 DEF AllSettled
    <3>2. QED
      BY <3>1 DEF Handling
  <2>2. ASSUME NEW a \in Agents
        PROVE  events'[j][a] = events[j][a] /\ responses'[<<a, j>>] = responses[<<a, j>>]
    BY <2>1, OnlyHoldersWrite DEF IInv
  <2>3. ComputedStatus(events'[j]) = ComputedStatus(events[j])
    BY <2>2, StatusOfAgents
  <2>4. QED
    BY <2>2, <2>3
<1>2. IInv /\ InTime /\ [Next]_vars => [Stays]_vars
  BY <1>1
<1>3. Spec => [][Stays]_vars
  BY <1>2, Invariance, ExecutionInvariance, PTL DEF Spec
<1>4. QED
  BY <1>3 DEF SettledIsFinal

-----------------------------------------------------------------------------
(***************************************************************************)
(* What the bucket tells of a job.  An agent that has answered and told no *)
(* terminal event has paid for it (Due), and without any failure each job  *)
(* goes through its steps exactly once (OnceAt).                           *)
(***************************************************************************)
\* The terminal events agent p[1] has recorded for job p[2].
Told(p) == events[p[2]][p[1]] \cap TerminalEvents

\* What has failed if a call at label l has told nothing, with the responses rs.
Due(rs, l) ==
    IF l = "skip" THEN 2
    ELSE IF l \in {"store failed", "ack"} THEN 1
    ELSE IF l = "last event" \/ rs = {} THEN 0
    ELSE 2

\* A job the agent has not begun, and one it has finished with one outcome.
Fresh(p) == decided[p] = {} /\ responses[p] = {} /\ Told(p) = {}
Done(p)  == \E o \in Outcomes : decided[p] = {o} /\ responses[p] = {o} /\ Told(p) = {o}

\* The call h for the pair p, where nothing has failed.
OnceAt(h, p) ==
    /\ pc[h] \in {"check", "load", "ack event", "start event", "run"} => Fresh(p)
    /\ pc[h] \in {"respond", "last event"} => decided[p] = {outcome[h]} /\ Told(p) = {}
    /\ pc[h] = "respond" => responses[p] = {}
    /\ pc[h] = "last event" => responses[p] = {outcome[h]}
    /\ pc[h] = "ack" => Done(p)
    /\ pc[h] \notin {"store failed", "skip"}

\* While a call holds the job ...
CallRecords(h) ==
    /\ Told(PairOf(h)) = {} => Paid2 >= Due(responses[PairOf(h)], pc[h])
    /\ Paid2 = 0 => OnceAt(h, PairOf(h))

\* ... and while none does.
RestRecords(p) ==
    /\ Told(p) = {} /\ settled[p] = "acked" => Paid2 >= 1
    /\ Told(p) = {} /\ settled[p] = "open" => Paid2 >= Due(responses[p], "check")
    /\ Paid2 = 0 => IF settled[p] = "acked" THEN Done(p) ELSE Fresh(p)

\* The inductive part.
Records ==
    /\ \A h \in Calls : pc[h] # "idle" => CallRecords(h)
    /\ \A p \in Pairs : Handling(p[1], p[2]) = {} => RestRecords(p)

\* A step that writes nothing about the pair p.
Unwritten(p) ==
    /\ events'[p[2]][p[1]] = events[p[2]][p[1]]
    /\ responses'[p] = responses[p] /\ decided'[p] = decided[p]

\* The controller, the server and a crash write nothing about any pair.
LEMMA OthersWriteNothing ==
  ASSUME TypeOK, RetriesOK, NEW p \in Pairs,
         \/ \E j \in Jobs : CreateStep(j) \/ DeleteJob(j)
         \/ \E j, k \in Jobs : RetryJob(k, j)
         \/ \E a \in Agents, j \in Jobs : AckDeadlinePasses(a, j)
         \/ \E a \in Agents, s \in Slots, j \in Jobs : Deliver(a, s, j)
         \/ \E a \in Agents : Crash(a)
  PROVE  Unwritten(p)
<1> USE DEF bucketVars, callerVars, consumerVars, handlerVars, historyVars
<1>1. PICK a \in Agents, j \in Jobs : p = <<a, j>>
  BY DEF Pairs
<1>2. /\ events \in [Jobs -> [Hosts -> SUBSET Events]] /\ a \in Hosts /\ Api \in Hosts
      /\ a # Api
  BY ApiIsNoAgent DEF TypeOK, Logs, Hosts
<1>3. ASSUME NEW k \in Jobs, CreateStep(k) PROVE Unwritten(p)
  <2>1. UNCHANGED <<responses, decided>>
    BY <1>3 DEF CreateStep, StoreJob, RecordSubmitted, PublishNotification, RecordRetried
  <2>2. UNCHANGED events \/ \E l \in Jobs, e \in Events : Record(l, Api, e)
    BY <1>3 DEF CreateStep, StoreJob, RecordSubmitted, PublishNotification,
                RecordRetried, RetriesOK, Events
  <2>3. QED
    BY <1>1, <1>2, <2>1, <2>2 DEF Record, Unwritten
<1>4. QED
  BY <1>3 DEF DeleteJob, RetryJob, AckDeadlinePasses, Deliver, Crash, Unwritten

\* A step of a call writes about its own pair only, and moves no other call.
LEMMA CallWrites ==
  ASSUME TypeOK, CallsOK, NEW a \in Agents, NEW s \in Slots, HandlerStep(a, s)
  PROVE  /\ work[<<a, s>>] \in Jobs /\ UNCHANGED <<published, crashes>>
         /\ \A h \in Calls : h # <<a, s>> =>
                pc'[h] = pc[h] /\ work'[h] = work[h] /\ outcome'[h] = outcome[h]
         /\ \A p \in Pairs : p # CallPair(a, s) =>
                Unwritten(p) /\ settled'[p] = settled[p] /\ execs'[p] = execs[p]
         /\ \/ pc'[<<a, s>>] # "idle" /\ UNCHANGED <<work, settled>>
            \/ pc'[<<a, s>>] = "idle" /\ work' = [work EXCEPT ![<<a, s>>] = NoJob]
<1> USE DEF bucketVars, callerVars, consumerVars, historyVars
<1>1. /\ pc \in [Calls -> Labels] /\ work \in [Calls -> Jobs \cup {NoJob}]
      /\ outcome \in [Calls -> Outcomes \cup {NoOutcome}]
      /\ settled \in [Pairs -> {"open", "acked", "termed"}]
      /\ events \in [Jobs -> [Hosts -> SUBSET Events]]
      /\ responses \in [Pairs -> SUBSET Outcomes] /\ decided \in [Pairs -> SUBSET Outcomes]
      /\ execs \in [Pairs -> Nat]
  BY DEF TypeOK, Logs, Calls
<1>2. (Moves(a, s) \/ Ends(a, s)) /\ UNCHANGED published
  BY HandlerKinds
<1>3. PICK j \in Jobs : work[<<a, s>>] = j
  BY <1>2, CallTyped DEF Moves, Ends
<1>4. <<a, j>> \in Pairs /\ a \in Hosts /\ CallPair(a, s) = <<a, j>> /\ <<a, s>> \in Calls
  BY <1>3 DEF Pairs, Hosts, CallPair, Calls
<1>5. UNCHANGED events \/ \E e : Record(j, a, e)
  BY <1>3 DEF HandlerStep, CheckAnswered, LoadJob, WriteAcknowledged, WriteStarted,
     WriteEvent, RunOperation, FactsUnresolved, Decide, StoreResponse,
     WriteStoreFailed, WriteTerminal, Acknowledge
<1>6. UNCHANGED responses \/ \E rs : responses' = [responses EXCEPT ![<<a, j>>] = rs]
  BY <1>4 DEF HandlerStep, CheckAnswered, LoadJob, WriteAcknowledged, WriteStarted,
     WriteEvent, RunOperation, FactsUnresolved, Decide, StoreResponse, WithResponse,
     WriteStoreFailed, WriteTerminal, Acknowledge
<1>7. UNCHANGED decided \/ \E ds : decided' = [decided EXCEPT ![<<a, j>>] = ds]
  BY <1>4 DEF HandlerStep, CheckAnswered, LoadJob, WriteAcknowledged, WriteStarted,
     WriteEvent, RunOperation, FactsUnresolved, Decide, StoreResponse,
     WriteStoreFailed, WriteTerminal, Acknowledge
<1>8. UNCHANGED execs \/ \E n : execs' = [execs EXCEPT ![<<a, j>>] = n]
  BY <1>4 DEF HandlerStep, CheckAnswered, LoadJob, WriteAcknowledged, WriteStarted,
     WriteEvent, RunOperation, FactsUnresolved, Decide, StoreResponse,
     WriteStoreFailed, WriteTerminal, Acknowledge
<1>9. UNCHANGED outcome \/ \E o : outcome' = [outcome EXCEPT ![<<a, s>>] = o]
  BY DEF HandlerStep, CheckAnswered, LoadJob, WriteAcknowledged, WriteStarted,
     WriteEvent, RunOperation, FactsUnresolved, Decide, StoreResponse,
     WriteStoreFailed, WriteTerminal, Acknowledge, EndCall
<1>10. UNCHANGED crashes
  BY DEF HandlerStep, CheckAnswered, LoadJob, WriteAcknowledged, WriteStarted,
     WriteEvent, RunOperation, FactsUnresolved, Decide, StoreResponse,
     WriteStoreFailed, WriteTerminal, Acknowledge
<1>11. ASSUME NEW p \in Pairs, p # <<a, j>> PROVE Unwritten(p) /\ execs'[p] = execs[p]
  <2>1. PICK b \in Agents, k \in Jobs : p = <<b, k>>
    BY DEF Pairs
  <2>2. b \in Hosts /\ (b # a \/ k # j)
    BY <1>11, <2>1 DEF Hosts
  <2>3. events'[k][b] = events[k][b]
    BY <1>1, <1>5, <2>2 DEF Record
  <2>4. QED
    BY <1>1, <1>6, <1>7, <1>8, <1>11, <2>1, <2>3 DEF Unwritten
<1>12. \A p \in Pairs : p # <<a, j>> => settled'[p] = settled[p]
  BY <1>1, <1>2, <1>3 DEF Moves, Ends, Settle
<1>13. /\ \A h \in Calls : h # <<a, s>> => pc'[h] = pc[h] /\ work'[h] = work[h]
       /\ \/ pc'[<<a, s>>] # "idle" /\ UNCHANGED <<work, settled>>
          \/ pc'[<<a, s>>] = "idle" /\ work' = [work EXCEPT ![<<a, s>>] = NoJob]
  BY <1>1, <1>2, <1>4 DEF Moves, Ends, GoTo, EndCall
<1>14. QED
  BY <1>1, <1>2, <1>3, <1>4, <1>9, <1>10, <1>11, <1>12, <1>13

\* What is due is 0, 1 or 2, and a call gives up nothing by ending.
LEMMA DueBound ==
  ASSUME NEW rs, NEW l
  PROVE  Due(rs, l) \in 0..2
  BY DEF Due

\* What the agent told stays told.
LEMMA ToldGrows ==
  ASSUME TypeOK, Next, NEW p \in Pairs, Told(p)' = {}
  PROVE  Told(p) = {}
<1>1. p[1] \in Agents /\ p[2] \in Jobs
  BY DEF Pairs
<1>2. events[p[2]][p[1]] \subseteq events'[p[2]][p[1]]
  BY <1>1, EventsGrow
<1>3. QED
  BY <1>2 DEF Told

\* A pair nobody writes about, whose call did not move, or that has none.
LEMMA UnwrittenKept ==
  ASSUME TypeOK, TypeOK', Next, NEW p \in Pairs, Unwritten(p)
  PROVE  /\ \A h \in Calls :
                /\ PairOf(h) = p /\ PairOf(h)' = p
                /\ pc'[h] = pc[h] /\ outcome'[h] = outcome[h]
                /\ CallRecords(h)
                => CallRecords(h)'
         /\ settled'[p] = settled[p] /\ RestRecords(p) => RestRecords(p)'
<1>1. Told(p)' = Told(p) /\ responses'[p] = responses[p] /\ decided'[p] = decided[p]
  BY DEF Unwritten, Told
<1>2. (Fresh(p)' <=> Fresh(p)) /\ (Done(p)' <=> Done(p))
  BY <1>1 DEF Fresh, Done
<1>3. Paid2 \in Nat /\ Paid2' \in Nat /\ Paid2 <= Paid2'
  BY Counting
<1>4. Paid2' = 0 => Paid2 = 0
  BY <1>3
<1>5. ASSUME NEW h \in Calls, PairOf(h) = p, PairOf(h)' = p,
             pc'[h] = pc[h], outcome'[h] = outcome[h], CallRecords(h)
      PROVE  CallRecords(h)'
  <2>1. Due(responses[p], pc[h]) \in 0..2
    BY DueBound
  <2>2. OnceAt(h, p) => OnceAt(h, p)'
    BY <1>1, <1>2, <1>5 DEF OnceAt
  <2>3. Paid2' = 0 => OnceAt(h, PairOf(h))'
    BY <1>4, <1>5, <2>2 DEF CallRecords
  <2>4. Told(PairOf(h))' = {} => Paid2' >= Due(responses'[PairOf(h)'], pc'[h])
    BY <1>1, <1>3, <1>5, <2>1 DEF CallRecords
  <2>5. QED
    BY <2>3, <2>4 DEF CallRecords
<1>6. ASSUME settled'[p] = settled[p], RestRecords(p) PROVE RestRecords(p)'
  <2>1. Due(responses[p], "check") \in 0..2
    BY DueBound
  <2>2. QED
    BY <1>1, <1>2, <1>3, <1>4, <1>6, <2>1 DEF RestRecords
<1>7. QED
  BY <1>5, <1>6

\* A step of the handler: what it leaves behind is what its label allows.
LEMMA OwnRecords ==
  ASSUME TypeOK, TypeOK', CallsOK, Exclusive, Consumers, Records, Next,
         NEW a \in Agents, NEW s \in Slots, HandlerStep(a, s),
         NEW p \in Pairs, p = CallPair(a, s)
  PROVE  /\ pc'[<<a, s>>] # "idle" => CallRecords(<<a, s>>)'
         /\ pc'[<<a, s>>] = "idle" => RestRecords(p)'
<1> USE DEF bucketVars, callerVars, consumerVars, historyVars
<1> DEFINE h == <<a, s>>
<1>1. /\ pc \in [Calls -> Labels] /\ outcome \in [Calls -> Outcomes \cup {NoOutcome}]
      /\ settled \in [Pairs -> {"open", "acked", "termed"}]
      /\ responses \in [Pairs -> SUBSET Outcomes] /\ decided \in [Pairs -> SUBSET Outcomes]
      /\ Paid2 \in Nat /\ Paid2' \in Nat /\ Paid2 <= Paid2'
  BY Counting DEF TypeOK, Calls
<1>2. /\ work[h] \in Jobs /\ UNCHANGED crashes /\ pc[h] # "idle" /\ h \in Calls
      /\ pc'[h] # "idle" => UNCHANGED <<work, settled>>
  BY CallWrites, HandlerKinds DEF Moves, Ends, Calls
<1>3. p = <<a, work[h]>> /\ p = PairOf(h)
  BY DEF CallPair, PairOf
<1>4. settled[p] = "open"
  BY <1>2, <1>3 DEF Exclusive, Consumers
<1>5. /\ Told(p) = {} => Paid2 >= Due(responses[p], pc[h])
      /\ Paid2 = 0 => OnceAt(h, p)
      /\ CallOK(h)
  BY <1>2, <1>3 DEF Records, CallRecords, CallsOK, Calls
<1>6. /\ Succeeds => Paid2' = Paid2
      /\ Fails => Paid2' = Paid2 + 1
  BY <1>2, Costs
<1>7. Fails => Paid2' # 0 /\ Paid2' >= 1
  BY <1>1, <1>6
<1>8. UNCHANGED faults => Paid2' = Paid2
  BY <1>6 DEF Succeeds
<1>9. UNCHANGED events => Told(p)' = Told(p)
  BY DEF Told
<1>10. ASSUME NEW e, Record(work[h], a, e)
       PROVE  Told(p)' = Told(p) \cup ({e} \cap TerminalEvents)
  <2>1. events \in [Jobs -> [Hosts -> SUBSET Events]] /\ a \in Hosts
    BY DEF TypeOK, Logs, Hosts
  <2>2. QED
    BY <1>2, <1>3, <1>10, <2>1 DEF Record, Told
<1>11. ASSUME pc'[h] # "idle",
              Told(p)' = {} => Paid2' >= Due(responses'[p], pc'[h]),
              Paid2' = 0 => OnceAt(h, p)'
       PROVE  CallRecords(h)'
  <2>1. PairOf(h)' = p
    BY <1>2, <1>3, <1>11 DEF PairOf
  <2>2. QED
    BY <1>11, <2>1 DEF CallRecords
<1>12. Due(responses[p], pc[h]) \in 0..2
  BY DueBound
<1>13. CASE CheckAnswered(a, s)
  <2>1. /\ UNCHANGED <<events, responses, decided, outcome>>
        /\ pc[h] = "check"
        /\ \/ Succeeds /\ pc'[h] = IF responses[p] # {} THEN "skip" ELSE "load"
           \/ Fails /\ pc'[h] = "load"
    BY <1>1, <1>2, <1>3, <1>13 DEF CheckAnswered, GoTo
  <2>2. Due(responses'[p], pc'[h]) = Due(responses[p], pc[h])
    BY <2>1 DEF Due
  <2>3. Told(p)' = {} => Paid2' >= Due(responses'[p], pc'[h])
    BY <1>1, <1>5, <1>9, <1>12, <2>1, <2>2
  <2>4. Paid2' = 0 => OnceAt(h, p)'
    BY <1>1, <1>5, <1>6, <1>7, <1>9, <2>1 DEF OnceAt, Fresh
  <2>5. QED
    BY <1>11, <2>1, <2>3, <2>4
<1>14. CASE LoadJob(a, s)
  <2>1. /\ UNCHANGED <<events, responses, decided>>
        /\ pc[h] = "load"
    BY <1>14 DEF LoadJob
  <2>2. \/ pc'[h] = "idle" /\ settled'[p] \in {"open", "termed"}
        \/ pc'[h] = "ack event"
    BY <1>1, <1>2, <1>3, <1>4, <1>14 DEF LoadJob, EndCall, Settle, GoTo
  <2>3. Paid2' = 0 => Fresh(p)'
    BY <1>1, <1>5, <1>9, <2>1 DEF OnceAt, Fresh
  <2>4. Told(p)' = {} => Paid2' >= Due(responses'[p], "check")
    BY <1>1, <1>5, <1>9, <2>1 DEF Due
  <2>5. CASE pc'[h] = "idle" /\ settled'[p] \in {"open", "termed"}
    BY <2>3, <2>4, <2>5 DEF RestRecords
  <2>6. CASE pc'[h] = "ack event"
    <3>1. Told(p)' = {} => Paid2' >= Due(responses'[p], pc'[h])
      BY <2>4, <2>6 DEF Due
    <3>2. Paid2' = 0 => OnceAt(h, p)'
      BY <2>3, <2>6 DEF OnceAt
    <3>3. QED
      BY <1>11, <2>6, <3>1, <3>2
  <2>7. QED
    BY <2>2, <2>5, <2>6
<1>15. CASE WriteAcknowledged(a, s) \/ WriteStarted(a, s)
  <2>1. /\ UNCHANGED <<responses, decided, outcome>>
        /\ \/ pc[h] = "ack event" /\ pc'[h] = "start event"
           \/ pc[h] = "start event" /\ pc'[h] = "run"
        /\ \/ UNCHANGED events
           \/ \E e \in {"acknowledged", "started"} : Record(work[h], a, e)
    BY <1>1, <1>2, <1>15 DEF WriteAcknowledged, WriteStarted, WriteEvent, GoTo
  <2>2. Told(p)' = Told(p)
    BY <1>9, <1>10, <2>1 DEF TerminalEvents, Outcomes
  <2>3. Due(responses'[p], pc'[h]) = Due(responses[p], pc[h])
    BY <2>1 DEF Due
  <2>4. Told(p)' = {} => Paid2' >= Due(responses'[p], pc'[h])
    BY <1>1, <1>5, <1>12, <2>2, <2>3
  <2>5. Fresh(p) => Fresh(p)'
    BY <2>1, <2>2 DEF Fresh
  <2>6. Paid2' = 0 => OnceAt(h, p)'
    <3>1. SUFFICES ASSUME Paid2' = 0 PROVE OnceAt(h, p)'
      OBVIOUS
    <3>2. OnceAt(h, p)
      BY <1>1, <1>5, <3>1
    <3>3. Fresh(p)'
      BY <2>1, <2>5, <3>2 DEF OnceAt
    <3>4. QED
      BY <2>1, <3>3 DEF OnceAt
  <2>7. QED
    BY <1>11, <2>1, <2>4, <2>6
<1>16. CASE RunOperation(a, s) \/ FactsUnresolved(a, s)
  <2>1. PICK o \in Outcomes : Decide(a, s, o) /\ pc[h] = "run"
    BY <1>16 DEF RunOperation, FactsUnresolved, Outcomes
  <2>2. /\ UNCHANGED <<events, responses>> /\ pc'[h] = "respond"
        /\ outcome'[h] = o /\ decided'[p] = decided[p] \cup {o}
    BY <1>1, <1>2, <1>3, <2>1 DEF Decide, GoTo
  <2>3. Told(p)' = {} => Paid2' >= Due(responses'[p], pc'[h])
    BY <1>1, <1>5, <1>9, <2>1, <2>2 DEF Due
  <2>4. Paid2' = 0 => OnceAt(h, p)'
    BY <1>1, <1>5, <1>9, <2>1, <2>2 DEF OnceAt, Fresh
  <2>5. QED
    BY <1>11, <2>2, <2>3, <2>4
<1>17. CASE StoreResponse(a, s)
  <2>1. /\ UNCHANGED <<events, decided, outcome>> /\ pc[h] = "respond"
        /\ \/ /\ Succeeds /\ pc'[h] = "last event"
              /\ responses'[p] = responses[p] \cup {outcome[h]}
           \/ Fails /\ pc'[h] = "store failed"
    BY <1>1, <1>2, <1>3, <1>17 DEF StoreResponse, WithResponse, GoTo
  <2>2. Told(p)' = {} => Paid2' >= Due(responses'[p], pc'[h])
    <3>1. CASE pc'[h] = "last event"
      <4>1. Due(responses'[p], pc'[h]) = 0
        BY <3>1 DEF Due
      <4>2. QED
        BY <1>1, <4>1
    <3>2. CASE Fails /\ pc'[h] = "store failed"
      BY <1>7, <3>2 DEF Due
    <3>3. QED
      BY <2>1, <3>1, <3>2
  <2>3. Paid2' = 0 => OnceAt(h, p)'
    <3>1. SUFFICES ASSUME Paid2' = 0 PROVE OnceAt(h, p)'
      OBVIOUS
    <3>2. OnceAt(h, p) /\ ~Fails
      BY <1>1, <1>5, <1>7, <3>1
    <3>3. responses'[p] = {outcome[h]} /\ pc'[h] = "last event"
      BY <2>1, <3>2 DEF OnceAt
    <3>4. QED
      BY <1>9, <2>1, <3>2, <3>3 DEF OnceAt
  <2>4. QED
    BY <1>11, <2>1, <2>2, <2>3
<1>18. CASE WriteStoreFailed(a, s) \/ WriteTerminal(a, s)
  <2>1. /\ UNCHANGED <<responses, decided, outcome>> /\ pc'[h] = "ack"
        /\ \/ pc[h] = "store failed"
           \/ pc[h] = "last event" /\ outcome[h] \in Outcomes
        /\ \/ Fails /\ UNCHANGED events
           \/ \E e \in Outcomes : /\ Record(work[h], a, e)
                                  /\ pc[h] = "last event" => e = outcome[h]
    <3>1. pc[h] = "last event" => outcome[h] \in Outcomes
      BY <1>1, <1>3, <1>5 DEF CallOK
    <3>2. QED
      BY <1>1, <1>2, <1>18, <3>1
         DEF WriteStoreFailed, WriteTerminal, WriteEvent, GoTo, Outcomes
  <2>2. Told(p)' = {} => Paid2' >= 1
    BY <1>7, <1>10, <2>1 DEF TerminalEvents
  <2>3. Told(p)' = {} => Paid2' >= Due(responses'[p], pc'[h])
    BY <2>1, <2>2 DEF Due
  <2>4. Paid2' = 0 => OnceAt(h, p)'
    <3>1. SUFFICES ASSUME Paid2' = 0 PROVE Done(p)'
      BY <2>1 DEF OnceAt
    <3>2. OnceAt(h, p)
      BY <1>1, <1>5, <3>1
    <3>3. pc[h] = "last event" /\ Record(work[h], a, outcome[h])
      BY <1>7, <2>1, <3>1, <3>2 DEF OnceAt
    <3>4. Told(p)' = {outcome[h]}
      BY <1>10, <2>1, <3>2, <3>3 DEF OnceAt, TerminalEvents
    <3>5. QED
      BY <2>1, <3>2, <3>3, <3>4 DEF OnceAt, Done
  <2>5. QED
    BY <1>11, <2>1, <2>3, <2>4
<1>19. CASE Acknowledge(a, s)
  <2>1. /\ UNCHANGED <<events, responses, decided>> /\ pc'[h] = "idle"
        /\ pc[h] \in {"ack", "skip"}
        /\ \/ Succeeds /\ settled'[p] = "acked"
           \/ Fails /\ settled'[p] = "open"
    BY <1>1, <1>2, <1>3, <1>4, <1>19 DEF Acknowledge, Settle, EndCall
  <2>2. Told(p)' = {} => Paid2 >= 1
    <3>1. Due(responses[p], pc[h]) \in {1, 2}
      BY <2>1 DEF Due
    <3>2. QED
      BY <1>1, <1>5, <1>9, <2>1, <3>1
  <2>3. Told(p)' = {} /\ settled'[p] = "open" => Paid2' >= 2
    BY <1>1, <1>6, <2>1, <2>2
  <2>4. Told(p)' = {} /\ settled'[p] = "open" => Paid2' >= Due(responses'[p], "check")
    BY <1>1, <2>3 DEF Due
  <2>5. Paid2' = 0 => Done(p)' /\ settled'[p] = "acked"
    <3>1. SUFFICES ASSUME Paid2' = 0 PROVE Done(p)' /\ settled'[p] = "acked"
      OBVIOUS
    <3>2. OnceAt(h, p) /\ ~Fails
      BY <1>1, <1>5, <1>7, <3>1
    <3>3. Done(p)
      BY <2>1, <3>2 DEF OnceAt
    <3>4. QED
      BY <1>9, <2>1, <3>2, <3>3 DEF Done
  <2>6. QED
    BY <1>1, <2>1, <2>2, <2>4, <2>5 DEF RestRecords
<1>20. QED
  BY <1>13, <1>14, <1>15, <1>16, <1>17, <1>18, <1>19 DEF HandlerStep

\* Nothing is told, decided or settled at first.
LEMMA InitRecords == Init => Records
<1> SUFFICES ASSUME Init PROVE Records
  OBVIOUS
<1>1. /\ \A h \in Calls : pc[h] = "idle"
      /\ \A p \in Pairs : /\ p[1] \in Agents /\ p[2] \in Jobs /\ settled[p] = "open"
                          /\ responses[p] = {} /\ decided[p] = {}
      /\ Paid2 = 0
  BY DEF Init, Calls, Pairs, Paid2
<1>2. \A p \in Pairs : Told(p) = {}
  BY <1>1 DEF Init, Told, Hosts
<1>3. \A p \in Pairs : Due(responses[p], "check") = 0
  BY <1>1 DEF Due
<1>4. QED
  BY <1>1, <1>2, <1>3 DEF Records, RestRecords, Fresh

\* With a crash, or two failed round trips, nothing is left to be shown.
LEMMA PaidRecords ==
  ASSUME Paid2 \in Nat, Paid2 >= 2
  PROVE  Records
<1>1. \A rs, l : Due(rs, l) \in 0..2
  BY DueBound
<1>2. \A rs, l : Paid2 >= Due(rs, l)
  BY <1>1
<1>3. Paid2 # 0 /\ Paid2 >= 1
  OBVIOUS
<1>4. QED
  BY <1>2, <1>3 DEF Records, CallRecords, RestRecords

\* Steps that move no call and settle nothing.
LEMMA QuietRecords ==
  ASSUME TypeOK, TypeOK', CallsOK, Records, Next,
         UNCHANGED <<pc, work, outcome, settled>>,
         \A p \in Pairs : Unwritten(p)
  PROVE  Records'
<1>1. ASSUME NEW h \in Calls, pc'[h] # "idle" PROVE CallRecords(h)'
  <2>1. PICK a \in Agents, s \in Slots : h = <<a, s>>
    BY DEF Calls
  <2>2. work[h] \in Jobs
    BY <1>1, <2>1, CallTyped
  <2>3. PICK p \in Pairs : p = PairOf(h)
    BY <2>1, <2>2 DEF PairOf, Pairs
  <2>4. PairOf(h)' = p /\ CallRecords(h)
    BY <1>1, <2>3 DEF PairOf, Records
  <2>5. QED
    BY <1>1, <2>3, <2>4, UnwrittenKept
<1>2. ASSUME NEW p \in Pairs, Handling(p[1], p[2])' = {} PROVE RestRecords(p)'
  <2>1. Handling(p[1], p[2]) = {}
    BY <1>2 DEF Handling
  <2>2. RestRecords(p)
    BY <2>1 DEF Records
  <2>3. QED
    BY <2>2, UnwrittenKept
<1>3. QED
  BY <1>1, <1>2 DEF Records

\* A delivery finds the job as the last call left it.
LEMMA DeliveredRecords ==
  ASSUME TypeOK, TypeOK', CallsOK, Exclusive, Records, Next,
         \A p \in Pairs : Unwritten(p),
         NEW a \in Agents, NEW s \in Slots, NEW j \in Jobs, Deliver(a, s, j)
  PROVE  Records'
<1> DEFINE c == <<a, s>>
           d == <<a, j>>
<1>1. /\ c \in Calls /\ d \in Pairs /\ work \in [Calls -> Jobs \cup {NoJob}]
      /\ pc \in [Calls -> Labels] /\ NoJob \notin Jobs
  BY JobDeliveryAssumption DEF TypeOK, Calls, Pairs
<1>2. /\ pc' = [pc EXCEPT ![c] = "check"] /\ work' = [work EXCEPT ![c] = j]
      /\ UNCHANGED <<outcome, settled, crashes, faults>>
      /\ settled[d] = "open" /\ ~outstanding[d] /\ pc[c] = "idle"
  BY DEF Deliver
<1>3. work[c] = NoJob
  BY <1>1, <1>2 DEF Exclusive
<1>4. Handling(a, j) = {}
  BY <1>1, <1>2 DEF Exclusive, Handling, PairOf, Calls
<1>5. RestRecords(d)
  BY <1>1, <1>4 DEF Records
<1>6. RestRecords(d)'
  BY <1>1, <1>2, <1>5, UnwrittenKept
<1>7. settled'[d] = "open" /\ pc'[c] = "check" /\ PairOf(c)' = d
  BY <1>1, <1>2 DEF PairOf
<1>8. CallRecords(c)'
  BY <1>6, <1>7 DEF RestRecords, CallRecords, OnceAt
<1>9. ASSUME NEW h \in Calls, h # c, pc'[h] # "idle" PROVE CallRecords(h)'
  <2>1. PICK b \in Agents, t \in Slots : h = <<b, t>>
    BY DEF Calls
  <2>2. pc'[h] = pc[h] /\ work'[h] = work[h] /\ outcome'[h] = outcome[h]
    BY <1>1, <1>2, <1>9
  <2>3. work[h] \in Jobs
    BY <1>9, <2>1, <2>2, CallTyped
  <2>4. PICK p \in Pairs : p = PairOf(h)
    BY <2>1, <2>3 DEF PairOf, Pairs
  <2>5. PairOf(h)' = p /\ CallRecords(h)
    BY <1>9, <2>2, <2>4 DEF PairOf, Records
  <2>6. QED
    BY <2>2, <2>4, <2>5, UnwrittenKept
<1>10. ASSUME NEW p \in Pairs, Handling(p[1], p[2])' = {} PROVE RestRecords(p)'
  <2>1. p[1] \in Agents /\ p[2] \in Jobs
    BY DEF Pairs
  <2>2. Handling(p[1], p[2]) = {}
    <3>1. ASSUME NEW t \in Slots, work[<<p[1], t>>] = p[2] PROVE FALSE
      <4>1. <<p[1], t>> \in Calls /\ <<p[1], t>> # c
        BY <1>1, <1>3, <2>1, <3>1 DEF Calls
      <4>2. work'[<<p[1], t>>] = p[2]
        BY <1>1, <1>2, <3>1, <4>1
      <4>3. QED
        BY <1>10, <4>2 DEF Handling
    <3>2. QED
      BY <3>1 DEF Handling
  <2>3. RestRecords(p)
    BY <2>2 DEF Records
  <2>4. QED
    BY <1>2, <2>3, UnwrittenKept
<1>11. QED
  BY <1>8, <1>9, <1>10 DEF Records

\* A step of the handler disturbs the records of its own pair only.
LEMMA HandlerRecords ==
  ASSUME TypeOK, TypeOK', CallsOK, Exclusive, Consumers, Records, Next,
         NEW a \in Agents, NEW s \in Slots, HandlerStep(a, s)
  PROVE  Records'
<1> DEFINE c == <<a, s>>
<1>1. c \in Calls /\ work \in [Calls -> Jobs \cup {NoJob}] /\ NoJob \notin Jobs
  BY JobDeliveryAssumption DEF TypeOK, Calls
<1>2. /\ work[c] \in Jobs
      /\ \A h \in Calls : h # c =>
             pc'[h] = pc[h] /\ work'[h] = work[h] /\ outcome'[h] = outcome[h]
      /\ \A p \in Pairs : p # CallPair(a, s) => Unwritten(p) /\ settled'[p] = settled[p]
      /\ \/ pc'[c] # "idle" /\ UNCHANGED work
         \/ pc'[c] = "idle" /\ work' = [work EXCEPT ![c] = NoJob]
  BY CallWrites
<1>3. PICK d \in Pairs : d = CallPair(a, s)
  BY <1>2 DEF CallPair, Pairs
<1>4. d[1] = a /\ d[2] = work[c]
  BY <1>3 DEF CallPair
<1>5. /\ pc'[c] # "idle" => CallRecords(c)'
      /\ pc'[c] = "idle" => RestRecords(d)'
  BY <1>3, OwnRecords
<1>6. ASSUME NEW h \in Calls, h # c, pc'[h] # "idle" PROVE CallRecords(h)'
  <2>1. PICK b \in Agents, t \in Slots : h = <<b, t>>
    BY DEF Calls
  <2>2. pc'[h] = pc[h] /\ work'[h] = work[h] /\ outcome'[h] = outcome[h]
    BY <1>2, <1>6
  <2>3. work[h] \in Jobs
    BY <1>6, <2>1, <2>2, CallTyped
  <2>4. PICK p \in Pairs : p = PairOf(h)
    BY <2>1, <2>3 DEF PairOf, Pairs
  <2>5. p # d
    BY <1>2, <1>4, <1>6, <2>1, <2>3, <2>4 DEF Exclusive, PairOf
  <2>6. PairOf(h)' = p /\ CallRecords(h)
    BY <1>6, <2>2, <2>4 DEF PairOf, Records
  <2>7. QED
    BY <1>2, <1>3, <2>2, <2>4, <2>5, <2>6, UnwrittenKept
<1>7. ASSUME NEW p \in Pairs, p # d, Handling(p[1], p[2])' = {} PROVE RestRecords(p)'
  <2>1. p[1] \in Agents /\ p[2] \in Jobs /\ p = <<p[1], p[2]>>
    BY DEF Pairs
  <2>2. Handling(p[1], p[2]) = {}
    <3>1. ASSUME NEW t \in Slots, work[<<p[1], t>>] = p[2] PROVE FALSE
      <4>1. <<p[1], t>> \in Calls /\ <<p[1], t>> # c
        BY <1>3, <1>7, <2>1, <3>1 DEF Calls, CallPair
      <4>2. work'[<<p[1], t>>] = p[2]
        BY <1>2, <3>1, <4>1
      <4>3. QED
        BY <1>7, <4>2 DEF Handling
    <3>2. QED
      BY <3>1 DEF Handling
  <2>3. RestRecords(p)
    BY <2>2 DEF Records
  <2>4. QED
    BY <1>2, <1>3, <1>7, <2>3, UnwrittenKept
<1>8. Handling(d[1], d[2])' = {} => pc'[c] = "idle"
  <2>1. pc'[c] # "idle" => work'[c] = d[2] /\ c = <<d[1], s>>
    BY <1>2, <1>4
  <2>2. QED
    BY <2>1 DEF Handling
<1>9. QED
  BY <1>5, <1>6, <1>7, <1>8 DEF Records

\* Every step keeps the records.
LEMMA RecordsStep ==
  ASSUME KeepAliveInTime, TypeOK, TypeOK', CallsOK, RetriesOK,
         Exclusive, Consumers, Records, Next
  PROVE  Records'
<1> USE DEF bucketVars, callerVars, consumerVars, handlerVars, historyVars
<1>1. CASE \E j \in Jobs : CreateStep(j) \/ DeleteJob(j)
  <2>1. UNCHANGED <<pc, work, outcome, settled>>
    BY <1>1 DEF CreateStep, StoreJob, RecordSubmitted, PublishNotification,
                RecordRetried, DeleteJob
  <2>2. QED
    BY <1>1, <2>1, OthersWriteNothing, QuietRecords
<1>2. CASE \E j, k \in Jobs : RetryJob(k, j)
  BY <1>2, OthersWriteNothing, QuietRecords DEF RetryJob
<1>3. CASE \E a \in Agents, j \in Jobs : AckDeadlinePasses(a, j)
  BY <1>3, OthersWriteNothing, QuietRecords DEF AckDeadlinePasses
<1>4. CASE \E a \in Agents, s \in Slots, j \in Jobs : Deliver(a, s, j)
  BY <1>4, OthersWriteNothing, DeliveredRecords
<1>5. CASE \E a \in Agents, s \in Slots : HandlerStep(a, s)
  BY <1>5, HandlerRecords
<1>6. CASE \E a \in Agents : Crash(a)
  <2>1. crashes' = crashes + 1 /\ faults' = faults /\ crashes \in Nat /\ faults \in Nat
    BY <1>6, JobDeliveryAssumption DEF Crash, TypeOK
  <2>2. Paid2' = 2 * (crashes + 1) + faults
    BY <2>1 DEF Paid2
  <2>3. \A m \in Nat, n \in Nat : 2 * (m + 1) + n \in Nat /\ 2 * (m + 1) + n >= 2
    OBVIOUS
  <2>4. Paid2' \in Nat /\ Paid2' >= 2
    BY <2>1, <2>2, <2>3
  <2>5. (Paid2 \in Nat /\ Paid2 >= 2 => Records)'
    BY PaidRecords, PTL
  <2>6. QED
    BY <2>4, <2>5
<1>7. QED
  BY <1>1, <1>2, <1>3, <1>4, <1>5, <1>6 DEF Next

(***************************************************************************)
(* As long as the keepalive comes in time, what an agent decided, stored   *)
(* and announced about a job tells how much has failed.                    *)
(***************************************************************************)
THEOREM RecordsInvariance == Spec => [](KeepAliveInTime => Records)
<1> DEFINE R == KeepAliveInTime => Records
<1>1. Init => R
  BY InitRecords
<1>2. IInv /\ IInv' /\ InTime /\ R /\ [Next]_vars => R'
  <2> SUFFICES ASSUME IInv, IInv', InTime, R, [Next]_vars, KeepAliveInTime PROVE Records'
    BY DEF KeepAliveInTime, KeepAliveTooLate, AckDeadline, TwiceKeepAliveInterval
  <2>1. CASE Next
    BY <2>1, RecordsStep DEF IInv, InTime
  <2>2. CASE UNCHANGED vars
    BY <2>2 DEF Records, CallRecords, RestRecords, OnceAt, Fresh, Done, Told, Due, Paid2,
       PairOf, Handling, vars, bucketVars, callerVars, consumerVars, handlerVars,
       historyVars
  <2>3. QED
    BY <2>1, <2>2
<1>3. QED
  BY <1>1, <1>2, Invariance, ExecutionInvariance, PTL DEF Spec

-----------------------------------------------------------------------------
(***************************************************************************)
(* What a client may conclude.                                             *)
(***************************************************************************)

\* An acknowledged job whose agent announced no outcome has failures behind it.
SilenceIsPaidFor ==
    KeepAliveInTime =>
        \A a \in Agents, j \in Jobs :
            settled[<<a, j>>] = "acked" /\ events[j][a] \cap TerminalEvents = {}
            => crashes + faults > 0

(***************************************************************************)
(* "The response and terminal status are already recorded"                 *)
(* (handler.go:238) fails only after a crash or two failed round trips;    *)
(* and a job acknowledged without an outcome in its log, after one.        *)
(***************************************************************************)
THEOREM StuckStatusesArePaidFor ==
  Spec => [](SilenceIsPaidFor
             /\ (KeepAliveInTime /\ 2 * crashes + faults < 2
                    => SkippedJobHasTerminalStatus))
<1> DEFINE R == KeepAliveInTime => Records
<1>1. IInv /\ InTime /\ R =>
          SilenceIsPaidFor
          /\ (KeepAliveInTime /\ 2 * crashes + faults < 2 => SkippedJobHasTerminalStatus)
  <2> SUFFICES ASSUME IInv, Exclusive, Consumers, Records, KeepAliveInTime
               PROVE  /\ \A a \in Agents, j \in Jobs :
                             /\ settled[<<a, j>>] = "acked"
                             /\ events[j][a] \cap TerminalEvents = {}
                             => crashes + faults > 0
                      /\ 2 * crashes + faults < 2 => SkippedJobHasTerminalStatus
    BY DEF InTime, SilenceIsPaidFor
  <2>1. crashes \in Nat /\ faults \in Nat /\ Paid2 = 2 * crashes + faults
    BY JobDeliveryAssumption DEF IInv, TypeOK, Paid2
  <2>2. ASSUME NEW a \in Agents, NEW j \in Jobs, settled[<<a, j>>] = "acked",
               events[j][a] \cap TerminalEvents = {}
        PROVE  crashes + faults > 0
    <3>1. <<a, j>> \in Pairs
      BY DEF Pairs
    <3>2. Handling(a, j) = {}
      BY <2>2, <3>1 DEF Exclusive, Consumers, Handling, Calls, PairOf
    <3>3. Told(<<a, j>>) = {}
      BY <2>2 DEF Told
    <3>4. Paid2 >= 1
      BY <2>2, <3>1, <3>2, <3>3 DEF Records, RestRecords
    <3>5. \A m \in Nat, n \in Nat : 2 * m + n >= 1 => m + n > 0
      OBVIOUS
    <3>6. QED
      BY <2>1, <3>4, <3>5
  <2>3. ASSUME 2 * crashes + faults < 2, NEW a \in Agents, NEW s \in Slots,
               pc[<<a, s>>] = "skip", events[work[<<a, s>>]][a] \cap TerminalEvents = {}
        PROVE  FALSE
    <3>1. Told(PairOf(<<a, s>>)) = {} /\ CallRecords(<<a, s>>)
      BY <2>3 DEF Told, PairOf, Records, Calls
    <3>2. Paid2 >= 2
      BY <2>3, <3>1 DEF CallRecords, Due
    <3>3. \A m \in Nat, n \in Nat : 2 * m + n >= 2 /\ 2 * m + n < 2 => FALSE
      OBVIOUS
    <3>4. QED
      BY <2>1, <2>3, <3>2, <3>3
  <2>4. QED
    BY <2>2, <2>3 DEF SkippedJobHasTerminalStatus
<1>2. QED
  BY <1>1, Invariance, ExecutionInvariance, RecordsInvariance, PTL

\* Without failures an agent runs a job at most once, and its acknowledged
\* jobs have one outcome: decided, stored and announced.
ExactlyOnceWithoutFailures ==
    KeepAliveInTime /\ crashes = 0 /\ faults = 0 =>
        \A a \in Agents, j \in Jobs :
            /\ execs[<<a, j>>] <= 1
            /\ settled[<<a, j>>] = "acked" =>
                   \E o \in Outcomes : /\ decided[<<a, j>>] = {o}
                                       /\ responses[<<a, j>>] = {o}
                                       /\ events[j][a] \cap TerminalEvents = {o}
            /\ settled[<<a, j>>] # "acked" /\ Handling(a, j) = {} =>
                   /\ decided[<<a, j>>] = {} /\ responses[<<a, j>>] = {}
                   /\ events[j][a] \cap TerminalEvents = {}

(***************************************************************************)
(* The promise the handler makes as long as nothing fails: every job runs  *)
(* at most once on each agent, and what the agent decided, stored and      *)
(* announced is one and the same outcome.                                  *)
(***************************************************************************)
THEOREM FailureFreeJobsRunOnce == Spec => []ExactlyOnceWithoutFailures
<1> DEFINE R == KeepAliveInTime => Records
<1>1. IInv /\ InTime /\ R => ExactlyOnceWithoutFailures
  <2> SUFFICES ASSUME IInv, Exclusive, Consumers, Paid, Records,
                      crashes = 0, faults = 0, NEW a \in Agents, NEW j \in Jobs
               PROVE  /\ execs[<<a, j>>] <= 1
                      /\ settled[<<a, j>>] = "acked" => Done(<<a, j>>)
                      /\ settled[<<a, j>>] # "acked" /\ Handling(a, j) = {} =>
                             Fresh(<<a, j>>)
    BY DEF InTime, ExactlyOnceWithoutFailures, Done, Fresh, Told
  <2>1. <<a, j>> \in Pairs /\ Paid2 = 0 /\ execs[<<a, j>>] \in Nat
    BY DEF IInv, TypeOK, Pairs, Paid2
  <2>2. 2 * execs[<<a, j>>] <= 0 + 2
    BY <2>1 DEF Paid
  <2>3. \A n \in Nat : 2 * n <= 0 + 2 => n <= 1
    OBVIOUS
  <2>4. settled[<<a, j>>] = "acked" => Handling(a, j) = {}
    BY <2>1 DEF Exclusive, Consumers, Handling, Calls, PairOf
  <2>5. Handling(a, j) = {} => RestRecords(<<a, j>>)
    BY <2>1 DEF Records
  <2>6. QED
    BY <2>1, <2>2, <2>3, <2>4, <2>5 DEF RestRecords
<1>2. QED
  BY <1>1, Invariance, ExecutionInvariance, RecordsInvariance, PTL

\* An agent that announced one outcome is in that state.
LEMMA AnnouncedState ==
  ASSUME NEW evs \in SUBSET AgentEvents, NEW o, evs \cap TerminalEvents = {o}
  PROVE  AgentState(evs) = o
<1>1. o \in evs /\ o \in Outcomes
  BY DEF TerminalEvents
<1>2. AgentState(evs) \in evs /\ StandsFor(AgentState(evs), evs)
  BY <1>1, StateIsRecorded
<1>3. CASE AgentState(evs) \in Outcomes
  BY <1>2, <1>3 DEF TerminalEvents
<1>4. CASE AgentState(evs) \in {"acknowledged", "started"}
  <2>1. StatusPriority[o] \in {3, 4} /\ StatusPriority[AgentState(evs)] \in {1, 2}
    BY <1>1, <1>4 DEF Outcomes, StatusPriority
  <2>2. QED
    BY <1>1, <1>2, <2>1 DEF StandsFor
<1>5. QED
  BY <1>2, <1>3, <1>4 DEF AgentEvents

\* A job all of whose known agents announced one outcome has a final status,
\* and it tells of a failure exactly when one of them failed.
LEMMA FinalStatuses ==
  ASSUME NEW log, AgentsKeepTo(log), Known(log) # {},
         \A a \in Known(log) : \E o \in Outcomes : log[a] \cap TerminalEvents = {o}
  PROVE  /\ ComputedStatus(log) \in {"completed", "failed", "skipped", "partial_failure"}
         /\ ComputedStatus(log) \in {"failed", "partial_failure"}
                <=> \E a \in Known(log) : "failed" \in log[a]
<1> DEFINE completed == Cardinality(InState(log, {"completed"}))
           failed    == Cardinality(InState(log, {"failed"}))
           skipped   == Cardinality(InState(log, {"skipped"}))
           active    == InState(log, {"started", "acknowledged"})
<1>1. \A a \in Known(log) : /\ AgentState(log[a]) \in Outcomes
                            /\ log[a] \cap TerminalEvents = {AgentState(log[a])}
  BY AnnouncedState DEF AgentsKeepTo, Known
<1>2. active = {}
  BY <1>1 DEF InState, Known, Outcomes
<1>3. InState(log, {"failed"}) = {a \in Known(log) : "failed" \in log[a]}
  BY <1>1 DEF InState, Known, Outcomes, TerminalEvents
<1>4. /\ completed \in Nat /\ failed \in Nat /\ skipped \in Nat
      /\ Cardinality(active) \in Nat
      /\ Cardinality(Known(log)) = completed + failed + skipped + Cardinality(active)
  BY CountsAddUp
<1>5. Cardinality(active) = 0
  BY <1>2, FS_EmptySet
<1>6. failed = 0 <=> InState(log, {"failed"}) = {}
  BY AgentsFinite, FS_Subset, FS_EmptySet DEF InState
<1>7. ComputedStatus(log) =
        IF Known(log) = {} THEN "submitted"
        ELSE IF active # {} THEN "processing"
        ELSE IF completed + failed + skipped = Cardinality(Known(log))
             THEN FinalStatus(completed, failed, skipped)
             ELSE "submitted"
  BY DEF ComputedStatus, Known
<1> HIDE DEF completed, failed, skipped, active
<1>8. ComputedStatus(log) = FinalStatus(completed, failed, skipped)
  BY <1>2, <1>4, <1>5, <1>7
<1>9. FinalStatus(completed, failed, skipped)
          \in {"completed", "failed", "skipped", "partial_failure"}
  BY DEF FinalStatus
<1>10. FinalStatus(completed, failed, skipped) \in {"failed", "partial_failure"}
          <=> failed > 0
  BY DEF FinalStatus
<1>11. failed > 0 <=> \E a \in Known(log) : "failed" \in log[a]
  BY <1>3, <1>4, <1>6
<1>12. QED
  BY <1>8, <1>9, <1>10, <1>11

\* Agents the job's subject does not match record nothing about it.
Strangers == \A a \in Agents, j \in Jobs : a \notin Matches[j] => events[j][a] = {}

\* No step makes a stranger write.
LEMMA StrangersStep ==
  ASSUME IInv, Exclusive, Strangers, [Next]_vars
  PROVE  Strangers'
<1> SUFFICES ASSUME NEW a \in Agents, NEW j \in Jobs, a \notin Matches[j]
             PROVE  events'[j][a] = events[j][a]
  BY DEF Strangers
<1>1. Handling(a, j) = {}
  BY DEF Exclusive, Handling, Calls
<1>2. QED
  BY <1>1, OnlyHoldersWrite DEF IInv

\* Without failures, a job every targeted agent has acknowledged has a final
\* status, and the status tells of a failure exactly when a response does.
FinishedStatusIsFinal ==
    KeepAliveInTime /\ crashes = 0 /\ faults = 0 =>
        \A j \in Jobs :
            /\ Matches[j] # {}
            /\ \A a \in Matches[j] : settled[<<a, j>>] = "acked"
            => /\ ComputedStatus(events[j])
                      \in {"completed", "failed", "skipped", "partial_failure"}
               /\ ComputedStatus(events[j]) \in {"failed", "partial_failure"}
                      <=> \E a \in Matches[j] : "failed" \in responses[<<a, j>>]

(***************************************************************************)
(* What a client that polls GET /jobs/{id} waits for: as long as nothing   *)
(* fails, "submitted" and "processing" end when the last targeted agent    *)
(* has acknowledged, and the status agrees with the responses.             *)
(***************************************************************************)
THEOREM FinishedJobsShowFinalStatus == Spec => []FinishedStatusIsFinal
<1> DEFINE S == KeepAliveInTime => Strangers
<1>1. Init => AgentLogs /\ S
  BY DEF Init, AgentLogs, AgentsKeepTo, Strangers, Hosts
<1>2. IInv /\ InTime /\ AgentLogs /\ S /\ [Next]_vars => (AgentLogs /\ S)'
  <2> SUFFICES ASSUME IInv, InTime, AgentLogs, S, [Next]_vars PROVE (AgentLogs /\ S)'
    OBVIOUS
  <2>1. AgentLogs'
    BY AgentLogsStep DEF IInv
  <2>2. KeepAliveInTime' <=> KeepAliveInTime
    BY DEF KeepAliveInTime, KeepAliveTooLate, AckDeadline, TwiceKeepAliveInterval
  <2>3. S'
    BY <2>2, StrangersStep DEF InTime
  <2>4. QED
    BY <2>1, <2>3
<1>3. AgentLogs /\ S /\ ExactlyOnceWithoutFailures => FinishedStatusIsFinal
  <2> SUFFICES ASSUME AgentLogs, Strangers, ExactlyOnceWithoutFailures,
                      KeepAliveInTime, crashes = 0, faults = 0,
                      NEW j \in Jobs, Matches[j] # {},
                      \A a \in Matches[j] : settled[<<a, j>>] = "acked"
               PROVE  /\ ComputedStatus(events[j])
                             \in {"completed", "failed", "skipped", "partial_failure"}
                      /\ ComputedStatus(events[j]) \in {"failed", "partial_failure"}
                             <=> \E a \in Matches[j] : "failed" \in responses[<<a, j>>]
    BY DEF FinishedStatusIsFinal
  <2> DEFINE log == events[j]
  <2>1. Matches[j] \subseteq Agents
    BY JobDeliveryAssumption
  <2>2. \A a \in Matches[j] : \E o \in Outcomes :
            responses[<<a, j>>] = {o} /\ log[a] \cap TerminalEvents = {o}
    BY <2>1 DEF ExactlyOnceWithoutFailures
  <2>3. Known(log) = Matches[j]
    BY <2>1, <2>2 DEF Known, Strangers
  <2>4. \A a \in Matches[j] : "failed" \in log[a] <=> "failed" \in responses[<<a, j>>]
    BY <2>2 DEF TerminalEvents, Outcomes
  <2>5. AgentsKeepTo(log)
    BY DEF AgentLogs
  <2> HIDE DEF log
  <2>6. /\ ComputedStatus(log) \in {"completed", "failed", "skipped", "partial_failure"}
        /\ ComputedStatus(log) \in {"failed", "partial_failure"}
               <=> \E a \in Known(log) : "failed" \in log[a]
    <3>1. \A a \in Known(log) : \E o \in Outcomes : log[a] \cap TerminalEvents = {o}
      BY <2>2, <2>3
    <3>2. Known(log) # {}
      BY <2>3
    <3>3. QED
      BY <2>5, <3>1, <3>2, FinalStatuses
  <2>7. QED
    BY <2>3, <2>4, <2>6 DEF log
<1>4. QED
  BY <1>1, <1>2, <1>3, Invariance, ExecutionInvariance, FailureFreeJobsRunOnce, PTL DEF Spec

-----------------------------------------------------------------------------
(***************************************************************************)
(* Notifications end.  That the handler, the server and the timers go on   *)
(* is fairness, which the runs assume; what is shown here is that nothing  *)
(* is lost on the way and that the way is finite: every step about a       *)
(* notification takes it forward, up to a bound.                           *)
(***************************************************************************)
\* A notification that has not ended is with the agent or can be delivered.
NoNotificationIsLost ==
    \A p \in Pairs : settled[p] = "open" /\ p \notin dlq =>
        outstanding[p] \/ delivered[p] < MaxDeliver

(***************************************************************************)
(* Whatever crashes and fails, no message is left behind: what is neither  *)
(* settled nor dead-lettered waits for its ack deadline or has a delivery  *)
(* left, also where the ack timer fires on calls that are still at work.   *)
(***************************************************************************)
THEOREM OpenNotificationsGoOn == Spec => []NoNotificationIsLost
<1> USE DEF bucketVars, callerVars, consumerVars, handlerVars, historyVars
<1>1. Init => NoNotificationIsLost
  BY JobDeliveryAssumption DEF Init, NoNotificationIsLost
<1>2. IInv /\ NoNotificationIsLost /\ [Next]_vars => NoNotificationIsLost'
  <2> SUFFICES ASSUME IInv, NoNotificationIsLost, [Next]_vars
               PROVE  NoNotificationIsLost'
    OBVIOUS
  <2>1. /\ delivered \in [Pairs -> 0..MaxDeliver] /\ outstanding \in [Pairs -> BOOLEAN]
        /\ settled \in [Pairs -> {"open", "acked", "termed"}] /\ MaxDeliver \in Nat
    BY JobDeliveryAssumption DEF IInv, TypeOK
  <2>2. CASE UNCHANGED consumerVars
    BY <2>2 DEF NoNotificationIsLost
  <2>3. ASSUME NEW a \in Agents, NEW j \in Jobs, AckDeadlinePasses(a, j)
        PROVE  NoNotificationIsLost'
    BY <2>1, <2>3 DEF NoNotificationIsLost, AckDeadlinePasses, Pairs
  <2>4. ASSUME NEW a \in Agents, NEW s \in Slots, NEW j \in Jobs, Deliver(a, s, j)
        PROVE  NoNotificationIsLost'
    BY <2>1, <2>4 DEF NoNotificationIsLost, Deliver, Pairs
  <2>5. ASSUME NEW a \in Agents, NEW s \in Slots, HandlerStep(a, s)
        PROVE  NoNotificationIsLost'
    <3>1. Moves(a, s) \/ Ends(a, s)
      BY <2>5, HandlerKinds DEF IInv
    <3>2. \A p \in Pairs : settled'[p] = "open" =>
              settled[p] = "open" /\ outstanding'[p] = outstanding[p]
      BY <2>1, <3>1 DEF Moves, Ends, Settle
    <3>3. UNCHANGED <<delivered, dlq>>
      BY <3>1 DEF Moves, Ends
    <3>4. QED
      BY <3>2, <3>3 DEF NoNotificationIsLost
  <2>6. QED
    BY <2>2, <2>3, <2>4, <2>5
       DEF Next, CreateStep, StoreJob, RecordSubmitted, PublishNotification,
           RecordRetried, DeleteJob, RetryJob, Crash, vars
<1>3. QED
  BY <1>1, <1>2, Invariance, PTL DEF Spec

\* How far a call at label l is.
Rank(l) ==
    IF l = "check" THEN 1
    ELSE IF l = "load" THEN 2
    ELSE IF l = "ack event" THEN 3
    ELSE IF l = "start event" THEN 4
    ELSE IF l = "run" THEN 5
    ELSE IF l = "respond" THEN 6
    ELSE IF l \in {"last event", "store failed"} THEN 7
    ELSE 8

\* How far the current delivery of job j to agent a is.
Stage(a, j) ==
    IF Handling(a, j) # {} THEN Rank(pc[<<a, CHOOSE s \in Handling(a, j) : TRUE>>])
    ELSE IF outstanding[<<a, j>>] THEN 9 ELSE 10

Progress(a, j) == 10 * delivered[<<a, j>>] + Stage(a, j)

\* The notification of job j to agent a is as it was.
Rests(a, j) ==
    /\ delivered'[<<a, j>>] = delivered[<<a, j>>]
    /\ outstanding'[<<a, j>>] = outstanding[<<a, j>>]
    /\ settled'[<<a, j>>] = settled[<<a, j>>]
    /\ <<a, j>> \in dlq' <=> <<a, j>> \in dlq
    /\ Handling(a, j)' = Handling(a, j)
    /\ \A s \in Handling(a, j) : pc'[<<a, s>>] = pc[<<a, s>>]

\* Every step about a notification takes it forward; no measure passes the bound.
NotificationsAdvance ==
    [][KeepAliveInTime =>
           \A a \in Agents, j \in Jobs :
               /\ Rests(a, j) \/ Progress(a, j)' > Progress(a, j)
               /\ Progress(a, j)' <= 10 * MaxDeliver + 10]_vars

\* A rank is a number below the stage of a delivery without a call.
LEMMA RankBound ==
  ASSUME NEW l
  PROVE  Rank(l) \in 0..8
  BY DEF Rank

\* The stage is the rank of the call that holds the job.
LEMMA StageOfHolder ==
  ASSUME Exclusive, NEW a \in Agents, NEW s \in Slots, NEW j \in Jobs,
         work[<<a, s>>] = j
  PROVE  Handling(a, j) = {s} /\ Stage(a, j) = Rank(pc[<<a, s>>])
<1>1. Handling(a, j) = {s}
  BY DEF Exclusive, Handling
<1>2. (CHOOSE t \in Handling(a, j) : TRUE) = s
  BY <1>1
<1>3. QED
  BY <1>1, <1>2 DEF Stage

\* No step of the handler goes back.
LEMMA RankGrows ==
  ASSUME TypeOK, NEW a \in Agents, NEW s \in Slots, HandlerStep(a, s),
         pc'[<<a, s>>] # "idle"
  PROVE  Rank(pc'[<<a, s>>]) > Rank(pc[<<a, s>>])
<1>1. pc \in [Agents \X Slots -> Labels] /\ <<a, s>> \in Agents \X Slots
  BY DEF TypeOK
<1>2. \/ pc[<<a, s>>] = "check" /\ pc'[<<a, s>>] \in {"load", "skip"}
      \/ pc[<<a, s>>] = "load" /\ pc'[<<a, s>>] = "ack event"
      \/ pc[<<a, s>>] = "ack event" /\ pc'[<<a, s>>] = "start event"
      \/ pc[<<a, s>>] = "start event" /\ pc'[<<a, s>>] = "run"
      \/ pc[<<a, s>>] = "run" /\ pc'[<<a, s>>] = "respond"
      \/ pc[<<a, s>>] = "respond" /\ pc'[<<a, s>>] \in {"last event", "store failed"}
      \/ pc[<<a, s>>] \in {"last event", "store failed"} /\ pc'[<<a, s>>] = "ack"
  BY <1>1 DEF HandlerStep, CheckAnswered, LoadJob, WriteAcknowledged, WriteStarted,
     WriteEvent, RunOperation, FactsUnresolved, Decide, StoreResponse, WriteStoreFailed,
     WriteTerminal, Acknowledge, GoTo, EndCall
<1>3. CASE pc[<<a, s>>] = "check"
  <2>1. Rank(pc[<<a, s>>]) = 1 /\ Rank(pc'[<<a, s>>]) \in {2, 8}
    BY <1>2, <1>3 DEF Rank
  <2>2. QED
    BY <2>1
<1>4. CASE pc[<<a, s>>] = "load"
  <2>1. Rank(pc[<<a, s>>]) = 2 /\ Rank(pc'[<<a, s>>]) = 3
    BY <1>2, <1>4 DEF Rank
  <2>2. QED
    BY <2>1
<1>5. CASE pc[<<a, s>>] = "ack event"
  <2>1. Rank(pc[<<a, s>>]) = 3 /\ Rank(pc'[<<a, s>>]) = 4
    BY <1>2, <1>5 DEF Rank
  <2>2. QED
    BY <2>1
<1>6. CASE pc[<<a, s>>] = "start event"
  <2>1. Rank(pc[<<a, s>>]) = 4 /\ Rank(pc'[<<a, s>>]) = 5
    BY <1>2, <1>6 DEF Rank
  <2>2. QED
    BY <2>1
<1>7. CASE pc[<<a, s>>] = "run"
  <2>1. Rank(pc[<<a, s>>]) = 5 /\ Rank(pc'[<<a, s>>]) = 6
    BY <1>2, <1>7 DEF Rank
  <2>2. QED
    BY <2>1
<1>8. CASE pc[<<a, s>>] = "respond"
  <2>1. Rank(pc[<<a, s>>]) = 6 /\ Rank(pc'[<<a, s>>]) = 7
    BY <1>2, <1>8 DEF Rank
  <2>2. QED
    BY <2>1
<1>9. CASE pc[<<a, s>>] \in {"last event", "store failed"}
  <2>1. Rank(pc[<<a, s>>]) = 7 /\ Rank(pc'[<<a, s>>]) = 8
    BY <1>2, <1>9 DEF Rank
  <2>2. QED
    BY <2>1
<1>10. QED
  BY <1>2, <1>3, <1>4, <1>5, <1>6, <1>7, <1>8, <1>9

\* Each step either leaves a notification alone or takes it forward.
LEMMA AdvanceStep ==
  ASSUME KeepAliveInTime, TypeOK, CallsOK, Exclusive, Consumers, Next,
         NEW a \in Agents, NEW j \in Jobs
  PROVE  Rests(a, j) \/ Progress(a, j)' > Progress(a, j)
<1> USE DEF bucketVars, callerVars, consumerVars, handlerVars, historyVars
<1> DEFINE d == <<a, j>>
<1>1. /\ delivered \in [Pairs -> 0..MaxDeliver] /\ d \in Pairs /\ MaxDeliver \in Nat
      /\ outstanding \in [Pairs -> BOOLEAN]
      /\ settled \in [Pairs -> {"open", "acked", "termed"}]
      /\ pc \in [Calls -> Labels] /\ work \in [Calls -> Jobs \cup {NoJob}]
      /\ NoJob \notin Jobs /\ delivered[d] \in Nat
      /\ \A s \in Slots : <<a, s>> \in Calls
  BY JobDeliveryAssumption DEF TypeOK, Pairs, Calls
<1>2. CASE UNCHANGED <<delivered, outstanding, settled, dlq, pc, work>>
  BY <1>2 DEF Rests, Handling
<1>3. ASSUME NEW b \in Agents, NEW k \in Jobs, AckDeadlinePasses(b, k)
      PROVE  Rests(a, j) \/ Progress(a, j)' > Progress(a, j)
  <2>1. CASE <<b, k>> # d
    BY <1>1, <1>3, <2>1 DEF AckDeadlinePasses, Rests, Handling
  <2>2. CASE b = a /\ k = j
    <3>1. Handling(a, j) = {} /\ Handling(a, j)' = {}
      <4>1. Handling(a, j) = {}
        BY <1>3, <2>2, TimerWaits
      <4>2. UNCHANGED work
        BY <1>3 DEF AckDeadlinePasses
      <4>3. QED
        BY <4>1, <4>2 DEF Handling
    <3>2. outstanding[d] /\ ~outstanding'[d] /\ delivered'[d] = delivered[d]
      BY <1>1, <1>3, <2>2 DEF AckDeadlinePasses
    <3>3. Stage(a, j) = 9 /\ Stage(a, j)' = 10
      BY <3>1, <3>2 DEF Stage
    <3>4. QED
      BY <1>1, <3>2, <3>3 DEF Progress
  <2>3. QED
    BY <2>1, <2>2
<1>4. ASSUME NEW b \in Agents, NEW t \in Slots, NEW k \in Jobs, Deliver(b, t, k)
      PROVE  Rests(a, j) \/ Progress(a, j)' > Progress(a, j)
  <2>1. /\ pc' = [pc EXCEPT ![<<b, t>>] = "check"]
        /\ work' = [work EXCEPT ![<<b, t>>] = k]
        /\ pc[<<b, t>>] = "idle" /\ work[<<b, t>>] = NoJob /\ <<b, t>> \in Calls
        /\ ~outstanding[<<b, k>>] /\ UNCHANGED <<settled, dlq>>
        /\ delivered' = [delivered EXCEPT ![<<b, k>>] = @ + 1]
        /\ outstanding' = [outstanding EXCEPT ![<<b, k>>] = TRUE]
    BY <1>4 DEF Deliver, Exclusive, Calls
  <2>2. CASE <<b, k>> # d
    <3>1. \A s \in Slots : work'[<<a, s>>] = j <=> work[<<a, s>>] = j
      BY <1>1, <2>1, <2>2
    <3>2. \A s \in Slots : work[<<a, s>>] = j => pc'[<<a, s>>] = pc[<<a, s>>]
      BY <1>1, <2>1
    <3>3. QED
      BY <1>1, <2>1, <2>2, <3>1, <3>2 DEF Rests, Handling
  <2>3. CASE b = a /\ k = j
    <3>1. Handling(a, j) = {}
      BY <1>1, <2>1, <2>3 DEF Exclusive, Handling, PairOf
    <3>2. Stage(a, j) = 10
      BY <2>1, <2>3, <3>1 DEF Stage
    <3>3. work'[<<a, t>>] = j /\ pc'[<<a, t>>] = "check"
      BY <1>1, <2>1, <2>3
    <3>4. Stage(a, j)' = Rank(pc'[<<a, t>>])
      <4>1. \A s \in Slots : s # t => work'[<<a, s>>] # j
        BY <1>1, <2>1, <2>3, <3>1 DEF Handling
      <4>2. Handling(a, j)' = {t}
        BY <3>3, <4>1 DEF Handling
      <4>3. QED
        BY <4>2 DEF Stage
    <3>5. Stage(a, j)' = 1
      BY <3>3, <3>4 DEF Rank
    <3>6. delivered'[d] = delivered[d] + 1
      BY <1>1, <2>1, <2>3
    <3>7. QED
      BY <1>1, <3>2, <3>5, <3>6 DEF Progress
  <2>4. QED
    BY <2>2, <2>3
<1>5. ASSUME NEW b \in Agents, NEW t \in Slots, HandlerStep(b, t)
      PROVE  Rests(a, j) \/ Progress(a, j)' > Progress(a, j)
  <2> DEFINE c == <<b, t>>
  <2>1. /\ c \in Calls /\ (Moves(b, t) \/ Ends(b, t)) /\ work[c] \in Jobs
        /\ \A h \in Calls : h # c => pc'[h] = pc[h] /\ work'[h] = work[h]
        /\ \/ pc'[c] # "idle" /\ UNCHANGED <<work, settled>>
           \/ pc'[c] = "idle" /\ work' = [work EXCEPT ![c] = NoJob]
    BY <1>5, HandlerKinds, CallWrites DEF Calls
  <2>2. UNCHANGED <<delivered, dlq>>
    BY <2>1 DEF Moves, Ends
  <2>3. CASE <<b, work[c]>> # d
    <3>1. outstanding'[d] = outstanding[d] /\ settled'[d] = settled[d]
      BY <1>1, <2>1, <2>3 DEF Moves, Ends, Settle
    <3>2. \A s \in Slots : /\ work'[<<a, s>>] = j <=> work[<<a, s>>] = j
                           /\ work[<<a, s>>] = j => pc'[<<a, s>>] = pc[<<a, s>>]
      BY <1>1, <2>1, <2>3
    <3>3. QED
      BY <2>2, <3>1, <3>2 DEF Rests, Handling
  <2>4. CASE b = a /\ work[c] = j
    <3>1. Handling(a, j) = {t} /\ Stage(a, j) = Rank(pc[c])
      BY <2>4, StageOfHolder
    <3>2. CASE pc'[c] # "idle"
      <4>1. Handling(a, j)' = {t}
        BY <2>1, <3>1, <3>2 DEF Handling
      <4>2. Stage(a, j)' = Rank(pc'[c])
        BY <2>4, <4>1 DEF Stage
      <4>3. Rank(pc'[c]) > Rank(pc[c])
        BY <1>5, <3>2, RankGrows
      <4>4. QED
        BY <1>1, <2>2, <3>1, <4>2, <4>3, RankBound DEF Progress
    <3>3. CASE pc'[c] = "idle"
      <4>1. \A s \in Slots : s # t => work'[<<a, s>>] = work[<<a, s>>] /\ work[<<a, s>>] # j
        BY <1>1, <2>1, <2>4, <3>1 DEF Handling
      <4>2. work'[<<a, t>>] = NoJob
        BY <1>1, <2>1, <2>4, <3>3
      <4>3. Handling(a, j)' = {}
        BY <1>1, <4>1, <4>2 DEF Handling
      <4>4. Stage(a, j)' \in {9, 10}
        BY <4>3 DEF Stage
      <4>5. QED
        BY <1>1, <2>2, <3>1, <4>4, RankBound DEF Progress
    <3>4. QED
      BY <3>2, <3>3
  <2>5. QED
    BY <2>3, <2>4
<1>6. ASSUME NEW b \in Agents, Crash(b)
      PROVE  Rests(a, j) \/ Progress(a, j)' > Progress(a, j)
  <2>1. /\ pc' = [h \in Calls |-> IF h[1] = b THEN "idle" ELSE pc[h]]
        /\ work' = [h \in Calls |-> IF h[1] = b THEN NoJob ELSE work[h]]
        /\ UNCHANGED consumerVars
    BY <1>6 DEF Crash, Calls
  <2>2. CASE b # a \/ Handling(a, j) = {}
    <3>1. \A s \in Slots : /\ work'[<<a, s>>] = j <=> work[<<a, s>>] = j
                           /\ work[<<a, s>>] = j => pc'[<<a, s>>] = pc[<<a, s>>]
      BY <1>1, <2>1, <2>2 DEF Handling
    <3>2. QED
      BY <2>1, <3>1 DEF Rests, Handling
  <2>3. CASE b = a /\ Handling(a, j) # {}
    <3>1. PICK t \in Slots : work[<<a, t>>] = j
      BY <2>3 DEF Handling
    <3>2. Stage(a, j) = Rank(pc[<<a, t>>]) /\ outstanding[d]
      BY <1>1, <3>1, StageOfHolder DEF Exclusive, PairOf
    <3>3. \A s \in Slots : work'[<<a, s>>] = NoJob
      BY <1>1, <2>1, <2>3
    <3>4. Handling(a, j)' = {}
      BY <1>1, <3>3 DEF Handling
    <3>5. Stage(a, j)' = 9
      BY <2>1, <3>2, <3>4 DEF Stage
    <3>6. QED
      BY <1>1, <2>1, <3>2, <3>5, RankBound DEF Progress
  <2>4. QED
    BY <2>2, <2>3
<1>7. QED
  BY <1>2, <1>3, <1>4, <1>5, <1>6
     DEF Next, CreateStep, StoreJob, RecordSubmitted, PublishNotification,
         RecordRetried, DeleteJob, RetryJob

(***************************************************************************)
(* The safety half of EveryNotificationEnds: a notification takes at most  *)
(* 10 * max_deliver + 10 steps, so fairness alone decides that it ends.    *)
(***************************************************************************)
THEOREM NotificationStepsAreBounded == Spec => NotificationsAdvance
<1> DEFINE Advances ==
             KeepAliveInTime =>
                 \A a \in Agents, j \in Jobs :
                     /\ Rests(a, j) \/ Progress(a, j)' > Progress(a, j)
                     /\ Progress(a, j)' <= 10 * MaxDeliver + 10
<1>1. IInv /\ IInv' /\ InTime /\ [Next]_vars => [Advances]_vars
  <2> SUFFICES ASSUME IInv, IInv', InTime, Next, KeepAliveInTime,
                      NEW a \in Agents, NEW j \in Jobs
               PROVE  /\ Rests(a, j) \/ Progress(a, j)' > Progress(a, j)
                      /\ Progress(a, j)' <= 10 * MaxDeliver + 10
    OBVIOUS
  <2>1. Rests(a, j) \/ Progress(a, j)' > Progress(a, j)
    BY AdvanceStep DEF IInv, InTime
  <2>2. delivered'[<<a, j>>] \in 0..MaxDeliver /\ MaxDeliver \in Nat
    BY JobDeliveryAssumption DEF IInv, TypeOK, Pairs
  <2>3. Stage(a, j)' \in 0..10
    BY RankBound DEF Stage
  <2>4. QED
    BY <2>1, <2>2, <2>3 DEF Progress
<1>2. Spec => [][Advances]_vars
  BY <1>1, Invariance, ExecutionInvariance, PTL DEF Spec
<1>3. QED
  BY <1>2 DEF NotificationsAdvance
=============================================================================
