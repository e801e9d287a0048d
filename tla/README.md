# Verification of osapi

TLA+ models of the core of osapi: a controller that publishes jobs over NATS
JetStream, agents that execute them on the hosts they manage, and the key-value
buckets both sides meet in. The modules are translated from the Go sources; every
definition that models code is listed with its lines in `PROJECT.json` (`map`), and
every hazard with the line where it bites and the properties that watch it (`hazards`).

## 1. The system

| Component | State it keeps | Operations | Talks to |
| --- | --- | --- | --- |
| Job client (`internal/job/client/jobs.go`) | job bucket: `jobs.<id>`, `status.<id>.<event>.<host>.<ns>`, `responses.<id>.<host>.<ns>` | create, retry, delete, list, poll | bucket, stream |
| Synchronous calls (`client.go`) | one call: listing, expected hosts, rows, deadline | publishAndWait, publishAndCollect | registry, bucket (watch), stream |
| Targets (`internal/validation/target.go`, `internal/job/subjects.go`) | none | validate, resolve, build subjects, match labels | registry |
| Status computation (`jobs.go`) | none | computeStatusFromEvents, computeStatusFromKeyNames | - |
| Stream and consumers (`internal/agent/consumer.go`, `cmd/nats_setup.go`) | deliveries, ack deadlines, dead letters | deliver, redeliver, dead-letter | agents |
| Job handler (`internal/agent/handler.go`) | one call per delivered message | check, load, verify, events, run, respond, acknowledge | bucket, stream |
| Agent lifecycle (`server.go`, `drain.go`, `heartbeat.go`) | state and consumer context, under `lifecycleMu` | start, stop, drain, undrain, heartbeat | state bucket, registry |
| Enrollment (`internal/agent/enrollment.go`, `internal/controller/enrollment`) | `controller.pub`, pending entries | request, retry, accept, reject | core NATS, enrollment bucket |
| Key store (`internal/controller/enrollment/keystore.go`) | accepted keys, a cache of them | record, look up, remove | enrollment bucket |
| Conditions and the watcher (`heartbeat.go`, `internal/controller/notify`) | the last conditions of each component | evaluate, register, compare, notify | registry bucket |
| Providers that own files (`internal/provider/file`, `network/netplan`, `schedule/cron`, `node/{sysctl,ntp,certificate,service}`) | a file on the host, its record in the file-state bucket, what the running system has loaded | create, update, delete | object store, file-state bucket, commands |
| Other providers, processors, facts, API, audit, CLI, SDK | the host, requests, an audit stream | one request at a time | - |

What is hard, and what makes each part correct:

* **Job handler.** A message is delivered at least once; the agent may die between
  any two round trips; any round trip may fail. An event must never announce what
  cannot be read, an acknowledged job must have been handled, and an operation may
  run again only when something failed that nothing could mask.
* **Consumers.** Deadlines come from two settings (`ack_wait` and `back_off`), the
  keepalive from one of them. A running operation must not be delivered again,
  deliveries must not be wasted, every notification must end.
* **Status and polls.** Events are merged by priority, with two functions, from
  lists taken at different moments. The two must agree, a settled job's status must
  stay, and who polls must find the response that an event announces.
* **Lifecycle.** Three goroutines move one state. No agent may be drained with live
  consumers or ready without any, and a drain must end.
* **Enrollment and keys.** At-most-once messages both ways, decisions by concurrent
  goroutines, a cache nothing but decisions invalidates. No job before the
  controller's key, no agent pending for ever because a message was lost, and what an
  accepted agent signs must verify.
* **Synchronous calls.** A target is validated, resolved and counted in three
  different listings, answers come in any order, a deadline races them. Rows must tell
  what was answered by hosts the target names, and the call must return.
* **Conditions.** The registry keeps one revision of a key, the watcher's memory dies
  with the controller. Alarms must match the registry once the watcher has caught up.

* **Managed files.** A deploy changes a file, a record and a running system in three
  steps, any of which may fail or be the last; no provider takes a lock, and objects are
  uploaded meanwhile. What is reported must be true of the file, a refused network
  configuration must not stay, and the copies must agree unless something went wrong.

## 2. Modules

| Module | Models | Relation |
| --- | --- | --- |
| `JobStatus` | the two status functions over logs of events | pure operators |
| `JobContract` | what an agent promises about a job: decide, respond, announce, settle | abstract specification |
| `JobDelivery` | jobs from creation to acknowledgement: controller, stream, consumers, handler, crashes | extends `JobStatus`, refines `JobContract` |
| `JobPolls` | clients that poll and list beside the deliveries | extends `JobDelivery` |
| `AgentLifecycle` | Start, heartbeat, drain and enrollment of one agent | - |
| `AgentKeys` | the controller's pending entry, accepted key and cache of one machine | - |
| `ConditionWatch` | heartbeat, registry entry and notification watcher of one component | - |
| `Targets` | validation, resolution, subjects, consumer filters, expected agents | pure operators |
| `Broadcast` | a synchronous call from its target to its rows | extends `Targets` |
| `ManagedFiles` | one path on one host and the operations of the provider that owns it | - |
| `MCJobDelivery`, `MCJobPolls`, `MCBroadcast`, `MCManagedFiles` | instances for TLC; the other modules need only a `.cfg` | - |
| `JobDeliveryProofs`, `JobExecutionProofs`, `JobPollsProofs`, `AgentLifecycleProofs`, `AgentKeysProofs`, `ConditionWatchProofs`, `BroadcastProofs`, `ManagedFilesProofs` | theorems, see section 5 | extend the modules above |

### JobDelivery

*State.* `job`, `events`, `responses` are the bucket, keyed as in the code with
timestamps left out: a log is a set, because `StatusPriority` makes the order of
the keys irrelevant and no key is ever overwritten. `caller` is the program
counter of the controller's call, `origin` the job a retry was made from.
`delivered`, `outstanding`, `settled`, `dlq` are the server's view of one durable
consumer. `pc`, `work`, `outcome` are the handler calls, `Slots` of them per agent
(`MaxInFlight`, from `agent.max_jobs`). `execs` and `decided` are history.

*Actions.* One per bucket or stream round trip of `handleJobMessage`: `CheckAnswered`
(`HasJobResponse`, fails open), `LoadJob` (not found: error return, message left to
its deadline; not verifiable or not parsable: terminated), `WriteAcknowledged`,
`FactsUnresolved` or `WriteStarted` then `RunOperation`, `StoreResponse`,
`WriteStoreFailed`, `WriteTerminal`, `Acknowledge`. Fact references are resolved
before the started event in the code but the failure is only used after it, so the
model decides at `run`. The controller's side is `StoreJob`, `RecordSubmitted`,
`PublishNotification`, `RetryJob`, `RecordRetried`, `DeleteJob`. `Deliver` and
`AckDeadlinePasses` are the server.

*Failures.* `Fails` is one failed round trip, bounded by `MaxFaults`. Where the
difference is visible the write may have been stored all the same (the job, the
response, the notification); status events ignore their errors, so there a failed
write that was stored is the successful one. `Crash` ends all calls of one agent,
bounded by `MaxCrashes`.

*Time.* Only the order of deadlines matters. `AckDeadline(n)` follows the server:
the n-th `back_off` entry if the list is not empty, else `ack_wait`. Units are 30
seconds. `SlowKV` lets the deadline pass between two bucket round trips;
`KeepAliveInTime` is the assumption, stated with the properties that need it, that
neither a slow bucket nor a short back-off beats the keepalive.

*Abstractions.* The consumers an agent creates for `_any`, `_all`, its machine ID and
its labels are one consumer per matching job (`Matches`); `Targets` has the filters
themselves. Whether a job verifies and parses is a constant (`Rejects`). `RetryJob` is
the path without PKI. Host names do not change, and sanitizing them is injective.

### JobPolls

A poll reads the job's key, lists its status keys, lists its response keys and reads
values afterwards. Event and response keys carry a timestamp, so what is under a
listed key never changes; a value that cannot be read is a member of `missing` in
the property. `StatusCount` and `Matching` are the counts and the filter of `ListJobs`,
which computes the jobs without status keys by subtraction: no run asks about them, a
theorem does (`CountsAreOfFilters`).

### AgentLifecycle

`main` is where `Start` is, `beat` where `writeRegistration` and the heartbeat tick
are, `callback` where `handleEnrollmentResponse` is: three program counters.
`lifecycleMu` is held across steps only while a drain waits for its consumers
(`Unlocked`); every other critical section is one action. `consumers` is the set
whose cancel function the agent holds, `leaked` counts sets that still run but
whose cancel function was overwritten: `stopConsumersLocked` waits for them as well,
for `consumerWg` counts every goroutine. `drainSeen` is what `checkDrainFlag` read
before the lock was taken; a failed read says FALSE, as in the code. An agent with PKI
begins enrolled or not; `trusted` is the controller's key in `pkiManager`, which is there
before the file is and also when writing it fails. `Restart` is `Stop` or a crash followed
by a new `Start`; `enrolled`, `drainFlag`, `requests` and `pending` survive it.

Enrollment may go wrong at every step. `PublishRequest` sends the request, loses it (core
NATS keeps nothing) or fails, which is only logged; `ReceiveRequest` stores the pending
entry or drops the request when the `Put` fails; `AcceptAgent` deletes the entry after the
answer is published, and may fail before or between the two; `PublishAcceptance` loses the
answer when nobody is subscribed, or anyway; `SaveControllerKey` may fail to write
`controller.pub`, and `Begin` to read it; `RejectAgent` removes the entry. Losses and
rejections are bounded by `MaxLost`, failures by `MaxFaults`. `startupCordon` and `crossed` are
history: the
agent was cordoned, or an acceptance came, before `Start` had finished (or twice).

### AgentKeys

Entries of different machines share only the cache's mutex, so there is one machine;
its agent may lose its key directory (`Rekey`) or be renamed. `sent` has the requests
it published under any key and name: besides prompt ones, late ones may reach the controller
at any time, each at the price of one fault. The goroutines are the
enrollment subscription, API callers that accept or reject, and readers that verify a
message. Each step is one round trip or one use of the cache: `GetPending`, then with a
grace period `LookUp`, `Fetch`, `Fill` of the record to be replaced, `Put`,
`Invalidate`, `PublishAccept`, `ClearAccept`; a rejection is `PublishReject`,
`ClearReject`, `Remove`, `Uncache`. A failed write may have been stored. `since` is when an
acceptance computed its record: the grace period begins then, not with the `Put`. `causes`
is history, and names what the properties make an exception for: "cache", a record that
is stored but not in the cache; "identity", a decision about an identity that is no
longer the agent's, or overlapping decisions; "grace", an acceptance that did not find
the record it replaces.

### ConditionWatch

`Publish` appends to what the watcher's client has not handled, or takes the place of
its youngest update: the bucket has history one. `Expire` is the TTL, without a marker;
it may take the youngest unreceived update with it, and it meets a component that is up
when its writes fail or a drain holds its ticks up, which costs a fault. `HandleDelete`,
`HandleUnknown` and
`HandleRegistration` are the three ways through `handleEntry`. `due` holds the
conditions last notified a renotify interval ago. `alarms` is what the operator was told of
conditions. `stopTold` is history: `ComponentUnreachable` was told since the last delete
marker was stored; only the next marker resets it, for the watcher never takes the notice
back. `forgotten` is history too: alarms whose memory was lost. What the
watcher remembers of one key never touches another, so there is one component.

### ManagedFiles

`kind` is the provider the path belongs to. `object`, `disk` with `attrs`, `record` and
`applied` are the copies of the truth: the object store, the file with its mode and owner,
`job.FileState` (the SHA, and whether it is marked undeployed) and what
`update-ca-certificates`, `systemctl daemon-reload`, `netplan apply`, `sysctl` or `chronyc`
loaded last. Files of other paths share nothing with this one. `Slots` are the jobs an
agent works on at a time; operations overlap freely, for there is no lock.

Each access of disk, bucket, object store or command is one action: `CheckDeploy`, `Fetch`,
`Compare`, then `Permit` for a file that is right already or `Write`, `Own`, `Validate`, `Record`
and `Apply` in the order of the kind (`AfterWrite`, `AfterRecord`, ...); `CheckDelete`,
`Remove`, `Recollect`, `Mark`, `Apply` for a removal. Netplan loads before it records,
sysctl after; NTP keeps no record; the record of a removal is best effort except for sysctl.
`Fails` is one failure: a `Put` or a command that fails may have done its work, a
`WriteFileAtomic` or a removal that fails has not. `Crash` ends all operations, and the
redelivered job is a new one. `Edit` is somebody at the host.

`spoiled` and `causes` are history: an operation is spoiled by one it overlaps or by an
edit, and `causes` is what went wrong since an unspoiled operation last rewrote the file.
The properties speak of the rest. Two decisions of the code are exceptions of
`SuccessIsTrue` (`LeftAlone`): creating an interface leaves a file that is there, and
sysctl's delete believes its record, which it takes for none when it cannot read it.
Reads of the local disk succeed; a step that looks at the file and acts on it without a round
trip in between is one action.

### Targets and Broadcast

A target and the subject built from it are the same tuple of routing type and value;
query and modify subjects are alike, and one label key stands for all. `Filters(m)`
are the durable consumers an agent creates from its machine ID and the prefixes of
its label; `ExpectedOf` matches labels in the registry instead, and `ExpectedReceive`
compares the two. Every listing is an arbitrary member of `Listings`: agents join,
leave, drain and change state between any two of them, and a listing that fails has the
effect of an empty one. `call` runs through validate, resolve, store, list, publish,
watch and wait. `updates` are the stored responses in their order, `seen` how many
the watcher has delivered, `rows` the map from host names to entries. `expected` is a
set of machines; the code keeps a list of host names and counts duplicates, and so
does `Cardinality(expected)`, while `rows` is keyed by host name. The deadline may pass
at any moment.

## 3. Runs

| Run | Question | Bounds | Distinct states |
| --- | --- | --- | --- |
| `JobDelivery_broadcast` | does the bucket ever tell more than the agents did, and do list and status agree? | 2 interchangeable agents, a second job for nobody, 2 deliveries, slow bucket, 1 fault | 1.7 million |
| `JobDelivery_redelivery` | how often can an operation run, when is a job dead-lettered, is the contract kept, does every notification end? | 1 agent, 2 calls, 4 deliveries, 2 crashes, 4 faults, fair | 560 thousand |
| `JobPolls_retry` | is a poll's answer consistent, do settled jobs stay settled? | 1 agent, 2 jobs of which one is polled, 1 crash | 980 thousand |
| `AgentLifecycle_life` | do state and consumers move together, are keys there before jobs, do drains and enrollments end? | PKI, 2 messages each way, 2 losses or rejections, 1 fault, 2 drains, 1 restart, fair | 970 thousand |
| `AgentKeys_decisions` | when is the cache stale, when do accepted agents and replaced keys verify? | 2 keys, 2 names, grace 1, 1 tick, the subscription, 1 caller, 1 reader, 1 fault or late request | 8.8 million |
| `ConditionWatch_alarms` | do alarms match the registry, are conditions told? | 2 conditions, renotify, feed of 2, 2 faults, 1 restart, fair | 89 thousand |
| `Broadcast_calls` | who receives a job, who is waited for, what is reported? | 3 machines of which two share a name and one does not verify, nested labels, 8 targets, 5 answers, fair | 58 thousand |
| `ManagedFiles_overlaps` | is what is reported true, do file, record, running system and the stale list agree? | 8 kinds, 2 contents of which one is invalid, 2 interchangeable operations at a time, 1 upload, 1 fault, edit or death | 3.5 million |
| `JobDelivery_midflight` | is a running operation never delivered again with the shipped configuration? | violated | |
| `JobDelivery_stuck_status` | has a skipped job a terminal status? | violated | |
| `AgentLifecycle_cordoned_idle` | is a Cordoned agent idle? | violated | |
| `Broadcast_missing_row` | has every expected agent a row? | violated | |

*Why the bounds are enough.* In `JobDelivery` agents do not interact except through
status computation, so two of them show the partial outcomes; two calls and four
deliveries are what an overlap and a third execution need, and the bounds on crashes and
faults exceed what two extra executions are charged. Dead-lettering needs as many
failures as deliveries: four against six. A retry needs a second job, a poll one to look
at. Two drains let a tick see a drain, an undrain and a drain again. Two keys, two names
and three goroutines show each pair of a decision, a decision and a lookup in every
order, and one fault each way a round trip can fail. Two losses are a request and an
answer, or two of one of them. A feed of two is one update that can
be superseded behind another one. Two contents are the one that is there and the one
asked for, two operations every overlap of two; a second mishap was tried and shows
nothing more (10 million states). Three machines are two that share a host name with
different labels and one below both in the hierarchy. All bounds are constants
of the configurations; the theorems of section 5 do not depend on them.

*Symmetry.* `JobDelivery_broadcast` uses it, whose agents match and reject the same jobs,
and `ManagedFiles_overlaps`, whose slots are alike. Neither checks liveness.

*Deadlock.* `ManagedFiles_overlaps` checks it: an operation can always go on, and another one
always start. Every other run says `CHECK_DEADLOCK FALSE`: these systems may stop. A job ends
and no other is created, a call returns, the bounds on keys, time and faults are used
up, and an agent whose `Start` failed does nothing until it is restarted.

*Fairness.* `JobDelivery!Fairness`: the controller's call and every handler call take
their next step (goroutines run, round trips end, with an error if need be), the
server delivers what can be delivered and its ack timers fire. Nobody has to crash,
delete, retry or poll. `AgentLifecycle!FairSpec`: the three goroutines run on, jobs in
flight end, and the controller answers requests (`pki.auto_accept`); faults and losses
are bounded, so the retry of the heartbeat gets through in the end.
`ConditionWatch!FairSpec`: the heartbeat ticks and the watcher's goroutine handles what it
received; conditions, stops, restarts and faults are free to happen or not.
`Broadcast!FairSpec`: the call runs on and its timer fires; no agent has to answer.

## 4. What the violated runs show

* **`JobDelivery_midflight`.** `configs/osapi.yaml:155-164` ships `ack_wait: 2m` and a
  `back_off` list that begins with `30s`. The server uses the list; the keepalive is
  sent every `ack_wait / 2`, one minute. After 30 seconds the operation is delivered to
  the same agent again and runs a second time. Without a `back_off` list the property
  holds (`JobDelivery_redelivery`), and it is proved under `KeepAliveInTime`.
* **`JobDelivery_stuck_status`.** The response is stored, the agent dies, the
  redelivery sees the response and acknowledges; "started" is the last event for ever and
  the job stays `processing`. `StuckStatusesArePaidFor` proves what the comment may
  promise: with the keepalive in time it takes a crash or two failed round trips.
* **`AgentLifecycle_cordoned_idle`.** An agent with a drain flag that restarts is
  cordoned by the registration `Start` itself writes. `Start` then starts the
  consumers, because it only asks whether the state is Pending. The same trace goes on:
  after an undrain a second set runs, the first cannot be cancelled any more, and the
  next drain waits for it with `lifecycleMu` held. `LeakHasCause` shows that this, and an
  acceptance that comes before `Start` has finished or twice, are the only ways to leak
  a set; `DrainEnds` assumes that none was leaked.
* **`Broadcast_missing_row`.** The early return counts rows. An agent that is not in
  the snapshot answers first, the count is reached, and an expected agent has
  neither an answer nor a timeout. What does hold is `ReportsAsManyAsExpected`, and
  `MissingRowsHaveOutsiders` proves that an answer of a host outside the snapshot is the
  only way to lose a row.

Met while modelling, and not given a run, mostly because no text promises otherwise or
because it lies outside what is modelled:

* accepting the same key again forgets the outgoing one (`keystore.go:93`), and a `Put`
  that failed but was stored leaves the old record cached (`keystore.go:111`): the two
  exceptions "grace" and "cache";
* a lookup that read a record before a rejection deleted it caches it afterwards
  (`keystore.go:155`), so a removed key goes on verifying, although keystore.go:160 says
  "After it returns, nothing signed by the removed key verifies": the cause "cache", since
  the lookup and the decision overlap;
* a configuration that `netplan generate` refuses is removed, and so is what it replaced
  (`netplan.go:86-93`), although `docs/docs/sidebar/features/network-interface-management.md:36`
  says "The previous configuration is preserved";
* after a failed record or reload the retry finds the content right and reports
  unchanged: nothing repairs the record or the running system (`deploy.go:83-111`,
  `netplan.go:68`, `sysctl/debian.go:194`): the causes "fault" and "crash"; only a deploy
  that changes something repairs (`DeploysRepair`);
* sysctl deletes nothing, and says so without an error, when its record cannot be read
  (`sysctl/debian.go:285`);
* the stale list leaves out a record it cannot read or parse (`file_stale.go:73-93`), takes
  any failed read of an object for a deleted object (`file_stale.go:103-116`), and always
  lists the files of netplan and sysctl, whose records name no object
  (`netplan.go:107-113`, `sysctl/debian.go:225`), although
  `docs/docs/sidebar/features/file-management.md:263-268` names the users of the file
  provider only: the exceptions of `StaleListErrsForCause`;
* the record of a template has the SHA of what was rendered, and the stale list compares
  it with the raw object (`file_stale.go:119`): templates are always listed; a template whose
  metadata cannot be read is deployed unrendered (`deploy.go:61`);
* a rotated controller key is announced by nobody and heard by nobody
  (`controller/enrollment/rotation.go:40`, `agent/pki/rotation.go:50`);
* a component that registers again is not told reachable: `detectTransitions` sends events
  of conditions only (`notify/watcher.go:221-292`);
* `extractConditions` knows agent, api and nats, while the controller registers as
  "controller" (`notify/watcher.go:202`): its conditions are never told; nor is an entry
  that expires, since the bucket asks for no marker;
* `DeleteJob` leaves status keys, so a deleted job still counts in the list's counts and
  in the queue summary, which in turn omits jobs without status keys;
* `RetryJob` reads a stored job without unwrapping a signed envelope (`jobs.go:742`), and
  a retry for a host name is published unresolved, on a subject no agent subscribes to;
* a job for `_any` is delivered to every agent, for each has a durable consumer of its own
  (`consumer.go:60`, against `subjects.go:221`);
* validation takes the first listed claimant of a host name, resolution the lowest machine
  ID, which may be Pending: the exception of `ValidTargetIsRouted`;
* a host that is renamed between two deliveries does not find its answer and answers
  again (`handler.go:246`).

## 5. Proofs

Every safety property of a passing run, the refinement included, is proved for every
value of the constants; of two of the four violated properties the version that does
hold is proved. Other theorems state what no run checks because it follows from an
inductive invariant already there: which way states move, what failures explain a
deviation, that steps are bounded. The theorems rest on the named assumptions of the modules only:
types and bounds of the constants, markers that are no values, finite sets where
something is counted. No property is inductive; each proof module states the
strengthening, has one step per action under its step lemma, and combines the steps in a
temporal theorem at its end.

* **`JobDeliveryProofs`**: `TypeCorrectness`, `TerminalEventsHaveResponses`,
  `AcknowledgementsAreDecided`, `Refinement`, `ListAndGetAgree`. What the next step writes
  depends on where a handler call is, so `CallOK` says what a call knows at each label:
  it holds a job; from `respond` on its outcome is one the agent decided; at
  `last event` the response is stored; at `store failed` a fault was spent; at `skip` there
  is an earlier response. `RetriesOK` says a retry knows its origin. `IInv` joins these
  with the types and the properties; `GrowthStep` (responses, outcomes and faults only
  grow) carries the knowledge of one call over the steps of the others. `ContractStep`
  maps each action to the contract's step or a stutter. `ListAndGetAgree` needs
  `AgentLogs`, that agents record only events of agents, and `StatusesAgree`, a fact
  about the operators of `JobStatus`: the hosts of a log fall into four classes whose sizes add up,
  which is what the two functions count in different ways. `HostStatesMoveForward`: events are
  only added (`EventsGrow`), and the state of more events equals or follows that of
  fewer (`StateFollows`), so a second delivery or a retry never takes a host back.
* **`JobExecutionProofs`**: `RunningIsNotRedelivered`, `ExecutionsArePaidFor`,
  `DeadLettersHaveFailures`, `SettledJobsAreFinal`, and the theorems about the records
  below. `Exclusive`: while the keepalive is in
  time an outstanding delivery is held by at most one call. `Consumers`: what is settled is
  not outstanding. `Paid` is the budget: each call may have a last execution free of charge, at the
  labels and with the responses `Free` names, and all others were paid by crashes and
  faults. `Spent` charges each used-up delivery to a failure. `SettledIsFinal`
  follows because only a call that holds a job writes about it, and a settled
  consumer has none.

  `RecordsInvariance` adds a fourth part, `Records`: an agent that has told no terminal
  event has spent what `Due` names for the label its call is at and the responses
  stored, and where nothing was spent `OnceAt` gives the one state each label allows.
  From it follow `StuckStatusesArePaidFor` (an outcome stays unannounced only after
  failures), `FailureFreeJobsRunOnce` (without failures a job is decided, answered and
  announced once, with one outcome), and with `StrangersStep`
  `FinishedJobsShowFinalStatus` (without failures the status of a job all targeted
  agents have acknowledged is final and agrees with their responses).

  `OpenNotificationsGoOn` and `NotificationStepsAreBounded` are what `EveryNotificationEnds`
  rests on besides fairness: an open notification is outstanding or has deliveries left,
  and `Progress`, ten times the deliveries plus how far the call is, grows with every
  step about it up to a bound. Both leave ENABLED and fairness to TLC.
* **`JobPollsProofs`**: `PolledOutcomesHaveResponses`, `PollsAreNotAhead`,
  `CountsAreOfFilters`. `PollKnows` says
  that listed keys are still in the bucket, and that an outcome in the first list had its
  response stored before the second list began. `PollsAreNotAhead`: what is listed is
  part of what is stored (`ListedIsStored`), so by `StateFollows` the answer is a state the
  host has reached. `CountsAreOfFilters` is a fact about the
  operators of the list: it holds in every state.
* **`AgentLifecycleProofs`**: `LifecycleTypeCorrectness`, `DrainedAgentsAreIdle`,
  `ReadyAgentsStarted`, `LeaksHaveCauses`, `ConsumersHaveKey`, `CordonsEndForCause`,
  `PendingAgentsListen`. The invariant relates the three
  program counters to state, consumers and history: who may be about to start, who holds
  the lock, and what each of them has read before. `CordonsEndForCause` needs to know
  what the heartbeat has made of the flag (`FlagFollowed`) and that only an agent past its
  first registration is cordoned (`CordonedLate`). `PendingAgentsListen` discharges what
  `EnrollmentCompletes` takes for granted.
* **`AgentKeysProofs`**: `KeysTypeCorrectness`, `CacheCurrency`, `AcceptedAgentsVerify`,
  `ReplacedKeysVerify`, `OnlyPastKeysVerify`. Each goroutine's place says what it knows
  of record, cache and pending entry unless another decision overlaps; an overlap is recorded
  in `causes`
  before it can do harm. `OnlyPastKeysVerify` is the other direction: every copy of the
  record, the ones in flight included, tells of keys and names the agent has had and of
  an outgoing key with no more than the grace period left (`RecordsArePast`).
* **`ConditionWatchProofs`**: `WatchTypeCorrectness`, `AlarmsAreTheRegistrys`,
  `StopsAreTold`. `FeedIsCurrent`: the youngest update, or with an empty feed the memory, is
  what the bucket holds.
  `MemoryOK`: what is remembered was told, and other alarms are forgotten ones.
  `StopsAreTold`, from the same invariant, is the safety half of `StopIsTold`: where the
  registry has a delete marker, the stop was told or the marker is on its way to the watcher.
* **`BroadcastProofs`**: `BroadcastTypeCorrectness`, `RowsTellAnswers`, `ReportsEnough`,
  `WaitsForSomebody`, `NamedHostsOnly`, `ExpectedMachinesReceive`, `ValidTargetsAreRouted`,
  `MissingRowsHaveOutsiders`, `CallStepsAreBounded`. The counts rest on
  a cardinality argument (there are no more host names than machines), the routing on
  the agreement of prefixes subscribed to and labels matched. `MissingRowsHaveOutsiders`
  compares the set of rows with the expected hosts by size. `CallStepsAreBounded` is the
  safety half of `CallReturns`: stage plus answers seen grows up to `MaxAnswers + 7`.
* **`ManagedFilesProofs`**: `FilesTypeCorrectness`, `ReportsAreTrue`, `CopiesAgree`,
  `RefusedConfigsGo`, `StaleListErrs`, `DeploysRepair`. `Alone`: an operation that
  overlaps nothing is the only one. So what it has written is still there when it goes on
  (`Knowledge`), and
  each step it has left makes one more copy agree with the disk (`AgreesAt`, by label).
  `SpoiledHasCause` ties the history of an operation to that of the file, and
  `OnlyValidatedStay` says that an invalid file without a cause is about to be validated.
  `DeploysRepair` asks for no clean start: `Mended` says which copy a deploy has renewed
  itself by the time it takes its last step. `StaleListErrs` takes every outcome of the list's
  reads: `Listed` is what `GetFileStale` makes of them, at one moment.

*Only model-checked*: liveness (`EveryNotificationEnds`, `DrainEnds`,
`EnrollmentCompletes`, `ConditionTold`, `ActiveToldAgain`, `StopIsTold`, `CallReturns`),
which needs fairness and ENABLED and is out of this prover's reach; of
`EveryNotificationEnds`, `CallReturns` and `StopIsTold` the safety half is proved as said
above. And the violated properties as the texts state them, which TLC refutes.

## 6. Not modelled

* Processors, and the providers that keep no file: users, packages, containers, power,
  host name, time zone, keys: command lines and system calls. `JobDelivery` takes the
  outcome of an operation as a choice.
* Of the providers that do: static routes (they merge with what is in the file), the several
  directories a cron entry may be in, rendering of templates, stopping and disabling a
  service before its unit is deleted, temporary files a death leaves behind, a mode that
  does not parse, and files recorded under a host name that has changed since.
* Fact collection, HTTP handlers other than uploads and the stale list, audit log, CLI, tokens,
  validation of other request fields, telemetry, the SDK: sequential code without shared state
  of its own, or pure I/O.
* Signatures, envelopes and key files: `Rejects`, `Unverifiable` and `Verifies` are verdicts.
* The controller's key rotation: its announcement has no caller and no subscriber.
* Stream retention, `MaxAckPending`, and the TTLs of buckets other than the registry.
* Consumer names: an agent's durables are named after its host and labels, and names
  that sanitize to the same string would be one consumer.

The modelled lines are a small share of the repository. Two fifths of it are generated
(OpenAPI clients and servers), and most of the rest are request handlers, command-line
providers, the SDK and the CLI, which move data and keep no state that two actors share.
What coordinates processes or keeps copies that can disagree, in `internal/agent`,
`internal/job`, `internal/controller/enrollment`, `internal/controller/notify`,
`internal/validation` and the file-owning providers, is what the modules are about.

## 7. What could follow

1. Renamed hosts in `JobDelivery`: the host name is part of the keys, and the only
   identity the check for an earlier answer has.
2. The composition of `AgentKeys` with `JobDelivery`: `Rejects` and the verdict on a
   response as functions of keys that change while a job is under way.
3. Static routes and moving cron entries, as further kinds of `ManagedFiles` with more than
   one path.
