----------------------------- MODULE Broadcast -----------------------------
(***************************************************************************)
(* One call of the controller that waits for agents to answer a job, from  *)
(* the request's target to the rows of its result                          *)
(* (internal/job/client/client.go): publishAndCollect for a broadcast,     *)
(* publishAndWait for a single target.  Meanwhile agents join and leave    *)
(* the registry, so that it is different whenever it is listed, and those  *)
(* that receive the job store their responses, in any order and at any     *)
(* time, or never; the deadline of the call races the last answers.        *)
(***************************************************************************)
EXTENDS Targets

CONSTANTS
    Asked,          \* the targets of the request
    MaxAnswers      \* bound on the responses stored for the job

ASSUME BroadcastAssumption ==
    /\ \A target \in Asked :
           \/ target \in {AnyHost, BroadcastHost}
           \/ Routing(target) = "label" /\ Value(target) \in Seq(STRING) \ {<<>>}
              /\ target = Label(Value(target))
           \/ Routing(target) = "host" /\ target = Host(Value(target))
    /\ MaxAnswers \in Nat

VARIABLES
    target,         \* what the request names
    agents,         \* the listing validation and resolution work on
    relisted,       \* the two worked on different ones
    subject,        \* what the target is resolved to
    updates,        \* the job's response keys, in the order they were stored
    call,           \* where the call is
    expected,       \* the machines the snapshot of the registry expects
    seen,           \* how many updates the watcher has delivered
    rows            \* the responses map, by host name

request == <<target, agents, relisted, subject>>
vars == <<request, updates, call, expected, seen, rows>>

Nobody == [m \in {} |-> "Ready"]

Init ==
    /\ target \in Asked
    /\ agents = Nobody /\ relisted = FALSE
    /\ subject = target
    /\ updates = <<>>
    /\ call = "validate"
    /\ expected = {}
    /\ seen = 0
    /\ rows = [h \in Hostnames |-> "none"]

collecting == IsBroadcast(target)

\* Host names with an entry in the responses map.
Answered == {h \in Hostnames : rows[h] # "none"}

-----------------------------------------------------------------------------
(***************************************************************************)
(* The request's handler validates the target, the call resolves it; both  *)
(* use a listing that is cached for five seconds (getAgents).              *)
(***************************************************************************)
Validate ==
    /\ call = "validate"
    /\ \E listing \in Listings :
           \/ /\ TRUE \in Verdicts(target, listing)
              /\ call' = "resolve" /\ agents' = listing
           \/ /\ FALSE \in Verdicts(target, listing)
              /\ call' = "error" /\ UNCHANGED agents
    /\ UNCHANGED <<target, relisted, subject, updates, expected, seen, rows>>

Resolve ==
    /\ call = "resolve"
    /\ agents' \in Listings
    /\ relisted' = (agents' # agents)
    /\ subject' \in ResolvesTo(target, agents')
    /\ call' = "store"
    /\ UNCHANGED <<target, updates, expected, seen, rows>>

(***************************************************************************)
(* The call.  The job is stored, the registry is listed again, the         *)
(* notification is published, and the watch replays the responses stored   *)
(* so far before it delivers new ones.                                     *)
(***************************************************************************)
StoreJob ==
    /\ call = "store"
    /\ call' \in {IF collecting THEN "list" ELSE "publish", "error"}
    /\ agents' = Nobody
    /\ UNCHANGED <<target, relisted, subject, updates, expected, seen, rows>>

SnapshotExpected ==
    /\ call = "list"
    /\ \E listing \in Listings : expected' = ExpectedOf(target, listing)
    /\ call' = "publish"
    /\ UNCHANGED <<request, updates, seen, rows>>

Publish ==
    /\ call = "publish"
    /\ call' \in {"watch", "error"}
    /\ UNCHANGED <<request, updates, expected, seen, rows>>

Watch ==
    /\ call = "watch"
    /\ call' \in {"wait", "error"}
    /\ UNCHANGED <<request, updates, expected, seen, rows>>

\* The next response the watcher delivers.
NextUpdate == updates[seen + 1]

\* A response of a broadcast that does not verify is dropped.
DropUpdate ==
    /\ call = "wait" /\ collecting
    /\ seen < Len(updates)
    /\ NextUpdate \in Unverifiable
    /\ seen' = seen + 1
    /\ UNCHANGED <<request, updates, call, expected, rows>>

\* Mutant: one answer more than expected is waited for.
MoreThanEnoughAnswers == expected # {} /\ Cardinality(Answered') > Cardinality(expected)

\* Mutant: messages are counted, not hosts.
EnoughMessages == expected # {} /\ seen' >= Cardinality(expected)

\* As many rows as expected host names, equal names counted once per machine.
EnoughAnswers == expected # {} /\ Cardinality(Answered') >= Cardinality(expected)

\* Any other response becomes its host's row; enough of them end the call.
CollectUpdate ==
    /\ call = "wait" /\ collecting
    /\ seen < Len(updates)
    /\ NextUpdate \notin Unverifiable
    /\ seen' = seen + 1
    /\ rows' = [rows EXCEPT ![HostOf[NextUpdate]] = "answered"]
    /\ call' = IF EnoughAnswers THEN "returned" ELSE "wait"
    /\ UNCHANGED <<request, updates, expected>>

\* publishAndWait returns the first response, or an error if it does not verify.
TakeFirst ==
    /\ call = "wait" /\ ~collecting
    /\ seen < Len(updates)
    /\ seen' = seen + 1
    /\ IF NextUpdate \in Unverifiable
       THEN call' = "error" /\ UNCHANGED rows
       ELSE /\ call' = "returned"
            /\ rows' = [rows EXCEPT ![HostOf[NextUpdate]] = "answered"]
    /\ UNCHANGED <<request, updates, expected>>

Expected(h) == \E m \in expected : HostOf[m] = h

\* Mutants: a silent host is reported failed; answers are overwritten too.
FailureRow(h) == IF h \notin Answered /\ Expected(h) THEN "failed" ELSE rows[h]
AnyTimeoutRow(h) == IF Expected(h) THEN "timeout" ELSE rows[h]

\* An expected host without a row gets a timeout row at the deadline.
RowAtDeadline(h) == IF h \notin Answered /\ Expected(h) THEN "timeout" ELSE rows[h]

\* Mutant: the deadline counts only once somebody has answered.
DeadlineAfterAnswer ==
    /\ call = "wait" /\ Answered # {}
    /\ call' = "returned"
    /\ rows' = [h \in Hostnames |-> RowAtDeadline(h)]
    /\ UNCHANGED <<request, updates, expected, seen>>

\* The deadline passes: without any answer the call fails.
Deadline ==
    /\ call = "wait"
    /\ IF Answered = {}
       THEN call' = "error" /\ UNCHANGED rows
       ELSE call' = "returned" /\ rows' = [h \in Hostnames |-> RowAtDeadline(h)]
    /\ UNCHANGED <<request, updates, expected, seen>>

-----------------------------------------------------------------------------
\* An agent that receives the job, expected or not, stores a response.
Answer(m) ==
    /\ call \in {"watch", "wait", "returned", "error"}
    /\ Receives(m, subject)
    /\ Len(updates) < MaxAnswers
    /\ updates' = Append(updates, m)
    /\ UNCHANGED <<request, call, expected, seen, rows>>

CallStep ==
    \/ Validate \/ Resolve \/ StoreJob \/ SnapshotExpected \/ Publish \/ Watch
    \/ DropUpdate \/ CollectUpdate \/ TakeFirst \/ Deadline

Next == CallStep \/ \E m \in Machines : Answer(m)

Spec == Init /\ [][Next]_vars

\* The call runs on and its deadline passes; no agent ever has to answer.
FairSpec == Spec /\ WF_vars(CallStep)

-----------------------------------------------------------------------------
(***************************************************************************)
(* Properties.                                                             *)
(***************************************************************************)
TypeOK ==
    /\ target \in Asked /\ agents \in Listings /\ relisted \in BOOLEAN
    /\ subject \in Asked \cup {Host(m) : m \in Machines}
    /\ expected \in SUBSET Machines
    /\ updates \in Seq(Machines) /\ Len(updates) <= MaxAnswers
    /\ call \in {"validate", "resolve", "store", "list", "publish", "watch", "wait",
                 "returned", "error"}
    /\ seen \in 0..Len(updates)
    /\ rows \in [Hostnames -> {"none", "answered", "timeout"}]

(***************************************************************************)
(* A row says "answered" for exactly the hosts whose verified response the *)
(* watcher delivered: a later timeout or a response that does not verify   *)
(* neither hides an answer nor makes one up.                               *)
(***************************************************************************)
RowsTellTheAnswers ==
    \A h \in Hostnames :
        rows[h] = "answered" <=>
            \E i \in 1..seen : updates[i] \notin Unverifiable /\ HostOf[updates[i]] = h

(***************************************************************************)
(* A broadcast that returns reports on as many hosts as it expected, each  *)
(* answered or timed out; a timeout row names an expected host.            *)
(***************************************************************************)
ReportsAsManyAsExpected ==
    collecting /\ call = "returned" =>
        /\ Cardinality(Answered) >= Cardinality({HostOf[m] : m \in expected})
        /\ \A h \in Hostnames :
               rows[h] = "timeout" => \E m \in expected : HostOf[m] = h

(***************************************************************************)
(* "Returns immediately once all have replied" (client.go:440): a call     *)
(* that still waits lacks the answer of an expected host, if no two        *)
(* expected machines share a host name.                                    *)
(***************************************************************************)
WaitsOnlyForTheMissing ==
    ( /\ call = "wait"
      /\ expected # {}
      /\ \A m, n \in expected : HostOf[m] = HostOf[n] => m = n )
    => \E m \in expected : rows[HostOf[m]] = "none"

\* What the client who names a target means by it.
Names(m) ==
    CASE Routing(target) = "label" -> Under(LabelOf[m], Value(target))
      [] Routing(target) = "host"  -> Value(target) \in {m, HostOf[m]}
      [] OTHER -> TRUE

(***************************************************************************)
(* From the request to the result: only hosts the target names have a row, *)
(* whatever listing each step saw and although agents choose by their own  *)
(* consumers what they receive.                                            *)
(***************************************************************************)
OnlyNamedHostsReported ==
    \A h \in Hostnames :
        rows[h] # "none" => \E m \in Machines : HostOf[m] = h /\ Names(m)

(***************************************************************************)
(* The registry's view of a label and the agents' subscriptions agree      *)
(* ("mirroring hierarchical NATS subject matching", subjects.go:351):      *)
(* every machine the call expects receives the job.                        *)
(***************************************************************************)
ExpectedReceive == \A m \in expected : Receives(m, subject)

(***************************************************************************)
(* A validated host target that is resolved in the same listing goes to a  *)
(* registered and verified machine of that name, and to one that is not    *)
(* Pending unless several machines have the name.                          *)
(***************************************************************************)
ValidTargetIsRouted ==
    call = "store" /\ Routing(target) = "host" /\ ~relisted =>
        LET named == NamedBy(agents, Value(target))
        IN  \E m \in named :
                /\ Receives(m, subject)
                /\ agents[m] # "Pending" \/ named # {m}

(***************************************************************************)
(* No agent's silence keeps the caller waiting for ever.                   *)
(***************************************************************************)
CallReturns == <>(call \in {"returned", "error"})

(***************************************************************************)
(* "Return early when all expected agents have responded" (client.go:659): *)
(* a broadcast that returns has a row, an answer or a timeout, for every   *)
(* expected agent.  The code counts rows: see the README.                  *)
(***************************************************************************)
EveryExpectedHasRow ==
    collecting /\ call = "returned" => \A m \in expected : rows[HostOf[m]] # "none"
=============================================================================
