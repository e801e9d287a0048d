----------------------------- MODULE AgentKeys -----------------------------
(***************************************************************************)
(* What the controller knows about the key of one agent                    *)
(* (internal/controller/enrollment): the pending entry its requests write, *)
(* the record an acceptance stores, and the cached copy of the record that *)
(* every verification reads.  The enrollment subscription, the handlers of *)
(* the API and the goroutines that verify messages run concurrently; each  *)
(* step is one round trip to the bucket or one use of the cache.           *)
(*                                                                         *)
(* Entries of different machines have nothing in common but the cache's    *)
(* mutex, so one machine is modelled.  Its agent may lose its key          *)
(* directory and be renamed; the requests and answers it exchanges with    *)
(* the controller travel over core NATS, at most once.                     *)
(***************************************************************************)
EXTENDS Naturals

CONSTANTS
    MaxKeys,        \* bound on the keys the agent generates
    MaxHosts,       \* bound on the names its machine takes, one after the other
    Grace,          \* controller.pki.rotation_grace_period, in ticks
    MaxTime,        \* bound on the ticks
    AutoAccept,     \* controller.pki.auto_accept
    Sub,            \* the goroutine of the enrollment subscription
    Callers,        \* API handlers that accept and reject
    Readers,        \* goroutines that verify signed messages
    MaxFaults,      \* bound on failed round trips, late requests and restarts
    None            \* no such entry

NoKey == 0
Keys == 1..MaxKeys
Hosts == 1..MaxHosts
Deciders == {Sub} \cup Callers
Procs == Deciders \cup Readers

Identity == [key : Keys, host : Hosts]
Record   == {r \in [key : Keys, host : Hosts, old : {NoKey} \cup Keys, until : Nat] :
                r.old # r.key /\ (r.old = NoKey => r.until = 0)}
Outgoing == [key : Keys, until : Nat]

ASSUME AgentKeysAssumption ==
    /\ {MaxKeys, MaxHosts} \subseteq Nat \ {0}
    /\ {Grace, MaxTime, MaxFaults} \subseteq Nat
    /\ AutoAccept \in BOOLEAN
    /\ Sub \notin Callers \cup Readers /\ Callers \cap Readers = {}
    /\ None \notin Identity \cup Record \cup Outgoing

VARIABLES
    \* the agent
    agent,      \* its key and host name
    enrolled,   \* controller.pub is in its key directory
    sent,       \* the requests that may reach the controller, late or again
    \* the bucket, and the controller's memory
    pending,    \* the entry pending.<machine id>
    record,     \* the entry accepted.<machine id>
    cache,      \* keyCache[machine id]
    at,         \* where each goroutine is
    asked,      \* the pending entry an acceptance works on
    found,      \* what a lookup found, until it is used
    since,      \* when an acceptance computed its record
    now,
    \* history
    outgoing,   \* the key the last acceptance replaced, and until when it is good
    causes,     \* what happened that the properties make an exception for
    faults

agentVars   == <<agent, enrolled, sent>>
historyVars == <<outgoing, causes, faults>>
vars == <<agentVars, pending, record, cache, at, asked, found, since, now, historyVars>>

Init ==
    /\ agent = [key |-> 1, host |-> 1]
    /\ enrolled = FALSE /\ sent = {agent}
    /\ pending = None /\ record = None /\ cache = None
    /\ at = [p \in Procs |-> "idle"]
    /\ asked = [p \in Procs |-> None]
    /\ found = [p \in Procs |-> None]
    /\ since = [p \in Procs |-> 0]
    /\ now = 0
    /\ outgoing = None /\ causes = {} /\ faults = 0

Fault == faults < MaxFaults /\ faults' = faults + 1
Goto(p, place) == at' = [at EXCEPT ![p] = place]

\* The goroutine is done with what it read.
Return(p) ==
    /\ Goto(p, "idle")
    /\ asked' = [asked EXCEPT ![p] = None]
    /\ found' = [found EXCEPT ![p] = None]
    /\ since' = [since EXCEPT ![p] = 0]

Because(effect, happened) ==
    causes' = IF happened THEN causes \cup effect ELSE causes

\* Another acceptance or rejection has read its pending entry.
Active(q) == at[q] \notin {"idle", "get accept", "get reject"}
Overlapped(p) == \E q \in Deciders \ {p} : Active(q)

-----------------------------------------------------------------------------
(***************************************************************************)
(* The agent's side.                                                       *)
(***************************************************************************)
\* The key directory is lost: LoadOrGenerate makes a new key pair.
Rekey ==
    /\ agent.key < MaxKeys
    /\ agent' = [agent EXCEPT !.key = @ + 1]
    /\ enrolled' = FALSE /\ sent' = sent \cup {agent'}
    /\ causes' = causes \ {"identity"}
    /\ UNCHANGED <<pending, record, cache, at, asked, found, since, now, outgoing, faults>>

Rename ==
    /\ agent.host < MaxHosts
    /\ agent' = [agent EXCEPT !.host = @ + 1]
    /\ sent' = IF enrolled THEN sent ELSE sent \cup {agent'}
    /\ Because({"identity"}, enrolled)
    /\ UNCHANGED <<enrolled, pending, record, cache, at, asked, found, since, now,
                   outgoing, faults>>

Tick ==
    /\ now < MaxTime
    /\ now' = now + 1
    /\ UNCHANGED <<agentVars, pending, record, cache, at, asked, found, since, historyVars>>

-----------------------------------------------------------------------------
(***************************************************************************)
(* handleEnrollmentRequest, for one of the requests the agent publishes    *)
(* until it is enrolled, or for a late one, of what the agent was when it  *)
(* asked: each start is a connection of its own, so it may come after      *)
(* newer ones and after the answer.  The request replaces the pending      *)
(* entry, and is accepted at once with auto_accept.  A failed Put may have *)
(* stored it.                                                              *)
(***************************************************************************)
Requested(request) ==
    pending' = request /\ Goto(Sub, IF AutoAccept THEN "get accept" ELSE "idle")

ReceiveRequest ==
    /\ at[Sub] = "idle"
    /\ \/ ~enrolled /\ Requested(agent) /\ UNCHANGED faults
       \/ /\ Fault
          /\ \E request \in sent :
                \/ Requested(request)
                \/ pending' \in {pending, request} /\ UNCHANGED at
    /\ UNCHANGED <<agentVars, record, cache, asked, found, since, now, outgoing, causes>>

\* An API call names a pending agent; findPendingBy finds its entry.
Decide(c, verdict) ==
    /\ at[c] = "idle"
    /\ pending # None
    /\ Goto(c, verdict)
    /\ UNCHANGED <<agentVars, pending, record, cache, asked, found, since, now, historyVars>>

\* Mutant: the agent is told as soon as its pending entry is read.
GetPendingAndTell(p) ==
    /\ at[p] = "get accept" /\ pending # None
    /\ asked' = [asked EXCEPT ![p] = pending]
    /\ Goto(p, "look up")
    /\ enrolled' = TRUE
    /\ Because({"identity", "grace"}, Overlapped(p))
    /\ UNCHANGED <<agent, sent, pending, record, cache, found, since, now, outgoing, faults>>

\* The entry is read again by machine ID: it may be gone, or a newer one.
GetPending(p) ==
    /\ at[p] \in {"get accept", "get reject"}
    /\ \/ /\ pending # None /\ at[p] = "get accept"
          /\ asked' = [asked EXCEPT ![p] = pending]
          /\ Goto(p, IF Grace > 0 THEN "look up" ELSE "put")
          /\ UNCHANGED <<found, since, faults>>
       \/ /\ pending # None /\ at[p] = "get reject"
          /\ Goto(p, "publish reject")
          /\ UNCHANGED <<asked, found, since, faults>>
       \/ pending = None /\ Return(p) /\ UNCHANGED faults
       \/ Fault /\ Return(p)
    /\ Because({"identity", "grace"}, Overlapped(p))
    /\ UNCHANGED <<agentVars, pending, record, cache, now, outgoing>>

-----------------------------------------------------------------------------
(***************************************************************************)
(* LookupAgentKey: cache, then bucket, then fill the cache.  An acceptance *)
(* looks up the record it replaces; a reader, the signer's.                *)
(***************************************************************************)
\* What a reader makes of the answer changes nothing here.
Answered(p, rec) ==
    IF p \in Readers
    THEN Return(p)
    ELSE /\ Goto(p, "put") /\ found' = [found EXCEPT ![p] = rec]
         /\ since' = [since EXCEPT ![p] = now] /\ UNCHANGED asked

LookUp(p) ==
    /\ at[p] = IF p \in Readers THEN "idle" ELSE "look up"
    /\ \/ cache # None /\ Answered(p, cache)
       \/ cache = None /\ Goto(p, "fetch") /\ UNCHANGED <<asked, found, since>>
    /\ Because({"grace"}, p \notin Readers /\ cache # None /\ "cache" \in causes)
    /\ UNCHANGED <<agentVars, pending, record, cache, now, outgoing, faults>>

\* Not found is an answer; a failed read looks the same to an acceptance.
Fetch(p) ==
    /\ at[p] = "fetch"
    /\ \/ /\ record # None
          /\ Goto(p, "fill") /\ found' = [found EXCEPT ![p] = record]
          /\ UNCHANGED <<asked, since, causes, faults>>
       \/ record = None /\ Answered(p, None) /\ UNCHANGED <<causes, faults>>
       \/ Fault /\ Answered(p, None) /\ Because({"grace"}, p \notin Readers)
    /\ UNCHANGED <<agentVars, pending, record, cache, now, outgoing>>

\* The record may have been replaced or removed since it was read.
Fill(p) ==
    /\ at[p] = "fill"
    /\ cache' = found[p]
    /\ Answered(p, found[p])
    /\ Because({"cache"}, found[p] # record)
    /\ UNCHANGED <<agentVars, pending, record, now, outgoing, faults>>
-----------------------------------------------------------------------------
(***************************************************************************)
(* AcceptAgent: recordAgentKey stores the record and invalidates the       *)
(* cache, then the agent is told, then the pending entry is deleted.       *)
(***************************************************************************)
\* Mutant: the keys are not compared.
ReplacesAnything(p) == Grace > 0 /\ found[p] # None

Replaces(p) == Grace > 0 /\ found[p] # None /\ found[p].key # asked[p].key

\* Mutant: the outgoing key is good until now.
NewRecordWithoutGrace(p) ==
    [key |-> asked[p].key, host |-> asked[p].host,
     old   |-> IF Replaces(p) THEN found[p].key ELSE NoKey,
     until |-> IF Replaces(p) THEN since[p] ELSE 0]

\* A key that another one replaces stays acceptable for the grace period,
\* which begins when the record is computed, before it is stored.
NewRecord(p) ==
    [key |-> asked[p].key, host |-> asked[p].host,
     old   |-> IF Replaces(p) THEN found[p].key ELSE NoKey,
     until |-> IF Replaces(p) THEN since[p] + Grace ELSE 0]

Stored(p) ==
    /\ record' = NewRecord(p)
    /\ outgoing' = IF record # None /\ record.key # asked[p].key
                   THEN [key |-> record.key, until |-> since[p] + Grace]
                   ELSE outgoing

\* A Put that fails may have stored the record; the cache is left alone then.
Put(p) ==
    /\ at[p] = "put"
    /\ \/ /\ Stored(p)
          /\ Goto(p, "invalidate") /\ found' = [found EXCEPT ![p] = None]
          /\ since' = [since EXCEPT ![p] = 0] /\ UNCHANGED <<asked, faults>>
       \/ Fault /\ Return(p) /\ (Stored(p) \/ UNCHANGED <<record, outgoing>>)
    /\ causes' = causes
        \cup {c \in {"cache"} : faults' # faults}
        \cup {c \in {"identity"} : asked[p] # agent}
        \cup {c \in {"grace"} : record # None /\ record.key = asked[p].key}
    /\ UNCHANGED <<agentVars, pending, cache, now>>

\* Mutant: the cached copy stays.
InvalidateNothing(p) ==
    /\ at[p] = "invalidate"
    /\ Goto(p, "publish accept")
    /\ UNCHANGED <<agentVars, pending, record, cache, asked, found, since, now, historyVars>>

Invalidate(p) ==
    /\ at[p] = "invalidate"
    /\ cache' = None
    /\ Goto(p, "publish accept")
    /\ UNCHANGED <<agentVars, pending, record, asked, found, since, now, historyVars>>

\* The agent hears it and saves the controller's key, or does not.
PublishAccept(p) ==
    /\ at[p] = "publish accept"
    /\ \/ /\ enrolled' \in {enrolled, TRUE}
          /\ Goto(p, "clear accept") /\ asked' = [asked EXCEPT ![p] = None]
          /\ UNCHANGED <<found, since, faults>>
       \/ Fault /\ Return(p) /\ UNCHANGED enrolled
    /\ Because({"identity"}, asked[p] # agent)
    /\ UNCHANGED <<agent, sent, pending, record, cache, now, outgoing>>

\* Whatever entry is there goes, a newer request's included.
ClearAccept(p) ==
    /\ at[p] = "clear accept"
    /\ \/ pending' = None /\ UNCHANGED faults
       \/ Fault /\ pending' \in {pending, None}
    /\ Goto(p, "idle")
    /\ UNCHANGED <<agentVars, record, cache, asked, found, since, now, outgoing, causes>>

-----------------------------------------------------------------------------
(***************************************************************************)
(* RejectAgent: the agent is told, which changes nothing there; then the   *)
(* pending entry and the stored record go.                                 *)
(***************************************************************************)
PublishReject(p) ==
    /\ at[p] = "publish reject"
    /\ \/ Goto(p, "clear reject") /\ UNCHANGED faults
       \/ Fault /\ Goto(p, "idle")
    /\ UNCHANGED <<agentVars, pending, record, cache, asked, found, since, now, outgoing,
                   causes>>

ClearReject(p) ==
    /\ at[p] = "clear reject"
    /\ \/ pending' = None /\ Goto(p, "remove") /\ UNCHANGED faults
       \/ Fault /\ pending' \in {pending, None} /\ Goto(p, "idle")
    /\ UNCHANGED <<agentVars, record, cache, asked, found, since, now, outgoing, causes>>

\* RemoveAgentKey: delete the record, then drop the cached copy.
Remove(p) ==
    /\ at[p] = "remove"
    /\ \/ record' = None /\ Goto(p, "uncache") /\ UNCHANGED faults
       \/ Fault /\ record' \in {record, None} /\ Goto(p, "idle")
    /\ outgoing' = None
    /\ causes' = causes
        \cup {c \in {"cache"} : faults' # faults}
        \cup {c \in {"identity"} : record # None}
    /\ UNCHANGED <<agentVars, pending, cache, asked, found, since, now>>

Uncache(p) ==
    /\ at[p] = "uncache"
    /\ cache' = None
    /\ Goto(p, "idle")
    /\ UNCHANGED <<agentVars, pending, record, asked, found, since, now, historyVars>>

-----------------------------------------------------------------------------
\* The controller process stops and starts: its memory is gone, the bucket stays.
Restart ==
    /\ Fault
    /\ cache' = None
    /\ at' = [p \in Procs |-> "idle"]
    /\ asked' = [p \in Procs |-> None]
    /\ found' = [p \in Procs |-> None]
    /\ since' = [p \in Procs |-> 0]
    /\ causes' = causes \ {"cache"}
    /\ UNCHANGED <<agentVars, pending, record, now, outgoing>>

Lookup(p) == LookUp(p) \/ Fetch(p) \/ Fill(p)

Decision(p) ==
    \/ GetPending(p)
    \/ Put(p) \/ Invalidate(p) \/ PublishAccept(p) \/ ClearAccept(p)
    \/ PublishReject(p) \/ ClearReject(p) \/ Remove(p) \/ Uncache(p)

Next ==
    \/ Rekey \/ Rename \/ Tick \/ ReceiveRequest \/ Restart
    \/ \E c \in Callers, verdict \in {"get accept", "get reject"} : Decide(c, verdict)
    \/ \E p \in Procs : Lookup(p)
    \/ \E p \in Deciders : Decision(p)

Spec == Init /\ [][Next]_vars

-----------------------------------------------------------------------------
(***************************************************************************)
(* Properties.                                                             *)
(***************************************************************************)
Places == {"idle", "get accept", "get reject", "look up", "fetch", "fill", "put",
           "invalidate", "publish accept", "clear accept", "publish reject",
           "clear reject", "remove", "uncache"}

\* What is stored, cached and on its way, and where everybody is.
KeysTypeOK ==
    /\ agent \in Identity /\ enrolled \in BOOLEAN
    /\ pending \in Identity \cup {None}
    /\ {record, cache} \subseteq Record \cup {None}
    /\ at \in [Procs -> Places]
    /\ asked \in [Procs -> Identity \cup {None}]
    /\ found \in [Procs -> Record \cup {None}]
    /\ sent \subseteq Identity
    /\ now \in 0..MaxTime /\ since \in [Procs -> 0..now] /\ faults \in 0..MaxFaults
    /\ outgoing \in Outgoing \cup {None}
    /\ causes \subseteq {"cache", "identity", "grace"}

\* Somebody has written the record and not invalidated the cache yet.
Writing == \E p \in Procs : at[p] \in {"invalidate", "uncache"}

(***************************************************************************)
(* "The cache is invalidated by acceptance and removal, never by elapsed   *)
(* time" (keystore.go:193): a cached record is the stored one, unless a    *)
(* write has not reached its invalidation yet, a write that failed took    *)
(* effect, or a lookup filled the cache with a record that had been        *)
(* replaced since it was read.  Only a restart mends the last two.         *)
(***************************************************************************)
CacheIsCurrent ==
    \/ cache \in {None, record}
    \/ Writing
    \/ "cache" \in causes

\* A verification (verifyAgentResponse, applyRegistrationTrust) whose lookup
\* begins and ends now, of a message signed by key and sent from host.
AcceptableKeys(rec) ==
    {rec.key} \cup {k \in {rec.old} : k # NoKey /\ now < rec.until}

Verifies(key, host) ==
    LET rec == IF cache # None THEN cache ELSE record
    IN  rec # None /\ key \in AcceptableKeys(rec) /\ host = rec.host

(***************************************************************************)
(* "Store the agent's key before anything is published" (accept.go:54):    *)
(* what an agent signs once it was told it is accepted verifies, whichever *)
(* request, answer or round trip was lost, unless it changed since it      *)
(* asked, was rejected, two decisions about it overlapped, or the cache is *)
(* not current.                                                            *)
(***************************************************************************)
AcceptedAgentVerifies ==
    enrolled /\ ~Writing /\ causes \cap {"identity", "cache"} = {}
        => Verifies(agent.key, agent.host)

(***************************************************************************)
(* What was signed with the key an acceptance replaced verifies for the    *)
(* grace period, restarts included, unless the acceptance did not find the *)
(* replaced record, decisions overlapped, the new key was accepted again,  *)
(* or the cache is not current.                                            *)
(***************************************************************************)
ReplacedKeyVerifies ==
    outgoing # None /\ now < outgoing.until /\ causes \cap {"cache", "grace"} = {}
        => \E h \in Hosts : Verifies(outgoing.key, h)
=============================================================================
