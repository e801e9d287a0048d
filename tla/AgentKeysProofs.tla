-------------------------- MODULE AgentKeysProofs --------------------------
(***************************************************************************)
(* Safety of AgentKeys for every number of keys, names, callers, readers,  *)
(* faults and ticks, and every grace period.  CacheIsCurrent is inductive  *)
(* by itself.  What verifies depends on what the deciders read before they *)
(* write: DecidersOK says what each of them knows where it is.             *)
(***************************************************************************)
EXTENDS AgentKeys, TLAPS

\* What the agent was is never ahead of what it is.
Older(id) == id # None => id.key <= agent.key /\ id.host <= agent.host
NothingAhead ==
    /\ \A request \in sent : Older(request)
    /\ Older(pending) /\ \A p \in Procs : Older(asked[p])

\* The stored record tells the agent's key and name.
Known == record # None /\ record.key = agent.key /\ record.host = agent.host

\* An acceptance holds the pending entry until it has told the agent.
Accepting(p) == at[p] \in {"look up", "fetch", "fill", "put", "invalidate",
                           "publish accept"}

ReadersOK == \A r \in Readers : at[r] \in {"idle", "fetch", "fill"}

\* What a decider knows.
Knows(p) ==
    /\ Accepting(p) => asked[p] # None
    /\ at[p] = "fill" => found[p] # None
    /\ at[p] \in {"fill", "put"} /\ Grace > 0 /\ "grace" \notin causes =>
           found[p] = record
    /\ at[p] \in {"invalidate", "publish accept"} /\ "identity" \notin causes
       /\ asked[p] = agent => Known

DecidersOK == \A p \in Deciders : Knows(p)

\* Two decisions at a time are noticed, or both are about what the agent was.
OverlapsOK ==
    \A p, q \in Deciders :
        p # q /\ Active(p) /\ Active(q) =>
            /\ "grace" \in causes
            /\ "identity" \in causes \/ (asked[p] # agent /\ asked[q] # agent)

EnrolledKnown == enrolled /\ "identity" \notin causes => Known

\* The record remembers the outgoing key as long as history does.
OutgoingRecorded ==
    outgoing # None =>
        /\ record # None
        /\ now < outgoing.until /\ "grace" \notin causes =>
               record.old = outgoing.key /\ record.until = outgoing.until

\* Until it is invalidated, the cached copy is the one the outgoing key is of.
CacheOfOutgoing ==
    causes \cap {"cache", "grace"} = {} =>
        \/ cache \in {None, record}
        \/ record = None
        \/ outgoing # None /\ cache.key = outgoing.key

\* The inductive invariant.
IInv ==
    /\ KeysTypeOK
    /\ CacheIsCurrent
    /\ NothingAhead
    /\ ReadersOK
    /\ DecidersOK
    /\ OverlapsOK
    /\ EnrolledKnown
    /\ OutgoingRecorded
    /\ CacheOfOutgoing

-----------------------------------------------------------------------------
(***************************************************************************)
(* The initial states.                                                     *)
(***************************************************************************)
\* Nobody has asked for anything yet: the inductive invariant holds.
LEMMA InitIInv == Init => IInv
<1> SUFFICES ASSUME Init PROVE IInv
  OBVIOUS
<1>1. KeysTypeOK
  <2>1. agent \in Identity
    BY AgentKeysAssumption DEF Init, Identity, Keys, Hosts
  <2>2. at \in [Procs -> Places]
    BY DEF Init, Places
  <2>3. now \in 0..MaxTime /\ faults \in 0..MaxFaults
    BY AgentKeysAssumption DEF Init
  <2>4. since \in [Procs -> 0..now]
    BY DEF Init
  <2>5. QED
    BY <2>1, <2>2, <2>3, <2>4 DEF Init, KeysTypeOK
<1>2. CacheIsCurrent /\ CacheOfOutgoing /\ EnrolledKnown /\ OutgoingRecorded
  BY DEF Init, CacheIsCurrent, CacheOfOutgoing, EnrolledKnown, OutgoingRecorded
<1>3. NothingAhead
  <2>1. agent.key <= agent.key /\ agent.host <= agent.host
    BY DEF Init
  <2>2. QED
    BY <2>1 DEF Init, NothingAhead, Older
<1>4. ReadersOK /\ DecidersOK /\ OverlapsOK
  BY DEF Init, ReadersOK, DecidersOK, Knows, OverlapsOK, Accepting, Active, Procs
<1>5. QED
  BY <1>1, <1>2, <1>3, <1>4 DEF IInv

-----------------------------------------------------------------------------
(***************************************************************************)
(* Types.                                                                  *)
(***************************************************************************)
\* A round trip, failed or not, keeps the fault count within its bound.
LEMMA FaultsTyped ==
  ASSUME KeysTypeOK, Fault \/ UNCHANGED faults
  PROVE  faults' \in 0..MaxFaults
  BY AgentKeysAssumption DEF KeysTypeOK, Fault

\* A goroutine that moves on is somewhere.
LEMMA GotoTyped ==
  ASSUME KeysTypeOK, NEW p \in Procs, NEW place \in Places, Goto(p, place)
  PROVE  at' \in [Procs -> Places]
  BY DEF KeysTypeOK, Goto

\* A goroutine that returns forgets.
LEMMA ReturnTyped ==
  ASSUME KeysTypeOK, NEW p \in Procs, Return(p)
  PROVE  /\ at' \in [Procs -> Places]
         /\ asked' \in [Procs -> Identity \cup {None}]
         /\ found' \in [Procs -> Record \cup {None}]
         /\ since' \in [Procs -> 0..now]
<1>1. now \in Nat /\ 0 \in 0..now
  BY AgentKeysAssumption DEF KeysTypeOK
<1>2. QED
  BY <1>1 DEF KeysTypeOK, Return, Goto, Places

\* So does a reader that was answered; a decider holds the answer.
LEMMA AnsweredTyped ==
  ASSUME KeysTypeOK, NEW p \in Procs, NEW rec \in Record \cup {None}, Answered(p, rec)
  PROVE  /\ at' \in [Procs -> Places]
         /\ asked' \in [Procs -> Identity \cup {None}]
         /\ found' \in [Procs -> Record \cup {None}]
         /\ since' \in [Procs -> 0..now]
<1>1. CASE Return(p)
  BY <1>1, ReturnTyped
<1>2. CASE /\ Goto(p, "put") /\ found' = [found EXCEPT ![p] = rec]
           /\ since' = [since EXCEPT ![p] = now] /\ UNCHANGED asked
  <2>1. at' \in [Procs -> Places]
    BY <1>2, GotoTyped DEF Places
  <2>2. now \in 0..now
    BY AgentKeysAssumption DEF KeysTypeOK
  <2>3. QED
    BY <1>2, <2>1, <2>2 DEF KeysTypeOK
<1>3. QED
  BY <1>1, <1>2 DEF Answered

\* What an acceptance stores is a record.
LEMMA StoredTyped ==
  ASSUME KeysTypeOK, NEW p \in Procs, asked[p] # None, Stored(p)
  PROVE  /\ record' \in Record
         /\ outgoing' \in Outgoing \cup {None}
<1>1. asked[p] \in Identity /\ asked[p].key \in Keys /\ asked[p].host \in Hosts
  BY DEF KeysTypeOK, Identity
<1>2. since[p] \in Nat /\ since[p] + Grace \in Nat
  BY AgentKeysAssumption DEF KeysTypeOK
<1>3. found[p] \in Record \cup {None}
  BY DEF KeysTypeOK
<1>4. record' \in Record
  <2>1. CASE Replaces(p)
    <3>1. found[p] \in Record /\ found[p].key \in Keys /\ found[p].key # asked[p].key
      BY <1>3, <2>1 DEF Replaces, Record
    <3>2. found[p].key # NoKey
      BY <3>1, AgentKeysAssumption DEF Keys, NoKey
    <3>3. record' = [key |-> asked[p].key, host |-> asked[p].host,
                     old |-> found[p].key, until |-> since[p] + Grace]
      BY <2>1 DEF Stored, NewRecord
    <3>4. QED
      BY <1>1, <1>2, <3>1, <3>2, <3>3 DEF Record
  <2>2. CASE ~Replaces(p)
    <3>1. record' = [key |-> asked[p].key, host |-> asked[p].host,
                     old |-> NoKey, until |-> 0]
      BY <2>2 DEF Stored, NewRecord
    <3>2. asked[p].key # NoKey
      BY <1>1, AgentKeysAssumption DEF Keys, NoKey
    <3>3. QED
      BY <1>1, <3>1, <3>2 DEF Record
  <2>3. QED
    BY <2>1, <2>2
<1>5. record # None => record.key \in Keys
  BY DEF KeysTypeOK, Record
<1>6. QED
  BY <1>2, <1>4, <1>5 DEF Stored, KeysTypeOK, Outgoing

\* What an acceptance of the pending entry, or a lookup, holds is well typed.
LEMMA HoldTyped ==
  ASSUME KeysTypeOK, NEW p \in Procs
  PROVE  /\ pending # None => [asked EXCEPT ![p] = pending] \in [Procs -> Identity \cup {None}]
         /\ [asked EXCEPT ![p] = None] \in [Procs -> Identity \cup {None}]
         /\ record # None => [found EXCEPT ![p] = record] \in [Procs -> Record \cup {None}]
         /\ [found EXCEPT ![p] = None] \in [Procs -> Record \cup {None}]
         /\ [since EXCEPT ![p] = 0] \in [Procs -> 0..now]
<1>1. 0 \in 0..now
  BY AgentKeysAssumption DEF KeysTypeOK
<1>2. QED
  BY <1>1 DEF KeysTypeOK

\* No step leaves the types.
LEMMA TypedStep ==
  ASSUME KeysTypeOK, DecidersOK, Next
  PROVE  KeysTypeOK'
<1> USE DEF agentVars, historyVars
<1>1. CASE Rekey
  <2>1. agent' \in Identity
    BY <1>1, AgentKeysAssumption DEF Rekey, KeysTypeOK, Identity, Keys
  <2>2. QED
    BY <1>1, <2>1 DEF Rekey, KeysTypeOK
<1>2. CASE Rename
  <2>1. agent' \in Identity
    BY <1>2, AgentKeysAssumption DEF Rename, KeysTypeOK, Identity, Hosts
  <2>2. QED
    BY <1>2, <2>1 DEF Rename, KeysTypeOK, Because
<1>3. CASE Tick
  <2>1. now' \in 0..MaxTime /\ 0..now \subseteq 0..now'
    BY <1>3, AgentKeysAssumption DEF Tick, KeysTypeOK
  <2>2. QED
    BY <1>3, <2>1 DEF Tick, KeysTypeOK
<1>4. CASE ReceiveRequest
  <2>1. at' \in [Procs -> Places]
    BY <1>4, GotoTyped DEF ReceiveRequest, Requested, KeysTypeOK, Procs, Deciders, Places
  <2>2. faults' \in 0..MaxFaults
    BY <1>4, FaultsTyped DEF ReceiveRequest
  <2>3. pending' \in Identity \cup {None}
    BY <1>4 DEF ReceiveRequest, Requested, KeysTypeOK
  <2>4. QED
    BY <1>4, <2>1, <2>2, <2>3 DEF ReceiveRequest, KeysTypeOK
<1>5. CASE Restart
  <2>1. faults' \in 0..MaxFaults
    BY <1>5, FaultsTyped DEF Restart
  <2>2. at' \in [Procs -> Places]
    BY <1>5 DEF Restart, Places
  <2>3. QED
    BY <1>5, <2>1, <2>2 DEF Restart, KeysTypeOK
<1>6. ASSUME NEW c \in Callers, NEW verdict \in {"get accept", "get reject"},
             Decide(c, verdict)
      PROVE  KeysTypeOK'
  <2>1. at' \in [Procs -> Places]
    BY <1>6, GotoTyped DEF Decide, Procs, Deciders, Places
  <2>2. QED
    BY <1>6, <2>1 DEF Decide, KeysTypeOK
<1>7. ASSUME NEW p \in Procs, LookUp(p) PROVE KeysTypeOK'
  <2>1. causes' \subseteq {"cache", "identity", "grace"}
    BY <1>7 DEF LookUp, Because, KeysTypeOK
  <2>2. CASE Answered(p, cache)
    BY <1>7, <2>1, <2>2, AnsweredTyped DEF LookUp, KeysTypeOK
  <2>3. CASE Goto(p, "fetch") /\ UNCHANGED <<asked, found, since>>
    <3>1. at' \in [Procs -> Places]
      BY <2>3, GotoTyped DEF Places
    <3>2. QED
      BY <1>7, <2>1, <2>3, <3>1 DEF LookUp, KeysTypeOK
  <2>4. QED
    BY <1>7, <2>2, <2>3 DEF LookUp
<1>8. ASSUME NEW p \in Procs, Fetch(p) PROVE KeysTypeOK'
  <2>1. causes' \subseteq {"cache", "identity", "grace"}
    BY <1>8 DEF Fetch, Because, KeysTypeOK
  <2>2. faults' \in 0..MaxFaults
    BY <1>8, FaultsTyped DEF Fetch
  <2>3. CASE Answered(p, None)
    BY <1>8, <2>1, <2>2, <2>3, AnsweredTyped DEF Fetch, KeysTypeOK
  <2>4. CASE /\ record # None
             /\ Goto(p, "fill") /\ found' = [found EXCEPT ![p] = record]
             /\ UNCHANGED <<asked, since, causes, faults>>
    <3>1. at' \in [Procs -> Places]
      BY <2>4, GotoTyped DEF Places
    <3>2. QED
      BY <1>8, <2>1, <2>2, <2>4, <3>1, HoldTyped DEF Fetch, KeysTypeOK
  <2>5. QED
    BY <1>8, <2>3, <2>4 DEF Fetch
<1>9. ASSUME NEW p \in Procs, Fill(p) PROVE KeysTypeOK'
  <2>1. found[p] \in Record \cup {None}
    BY DEF KeysTypeOK
  <2>2. causes' \subseteq {"cache", "identity", "grace"}
    BY <1>9 DEF Fill, Because, KeysTypeOK
  <2>3. QED
    BY <1>9, <2>1, <2>2, AnsweredTyped DEF Fill, KeysTypeOK
<1>10. ASSUME NEW p \in Deciders, GetPending(p) PROVE KeysTypeOK'
  <2>1. p \in Procs
    BY DEF Procs
  <2>2. causes' \subseteq {"cache", "identity", "grace"}
    BY <1>10 DEF GetPending, Because, KeysTypeOK
  <2>3. faults' \in 0..MaxFaults
    BY <1>10, FaultsTyped DEF GetPending
  <2>4. CASE Return(p)
    BY <1>10, <2>1, <2>2, <2>3, <2>4, ReturnTyped DEF GetPending, KeysTypeOK
  <2>5. CASE /\ pending # None
             /\ asked' = [asked EXCEPT ![p] = pending]
             /\ Goto(p, IF Grace > 0 THEN "look up" ELSE "put")
             /\ UNCHANGED <<found, since, faults>>
    <3>1. at' \in [Procs -> Places]
      BY <2>1, <2>5, GotoTyped DEF Places
    <3>2. QED
      BY <1>10, <2>1, <2>2, <2>3, <2>5, <3>1, HoldTyped DEF GetPending, KeysTypeOK
  <2>6. CASE Goto(p, "publish reject") /\ UNCHANGED <<asked, found, since, faults>>
    <3>1. at' \in [Procs -> Places]
      BY <2>1, <2>6, GotoTyped DEF Places
    <3>2. QED
      BY <1>10, <2>2, <2>3, <2>6, <3>1 DEF GetPending, KeysTypeOK
  <2>7. QED
    BY <1>10, <2>4, <2>5, <2>6 DEF GetPending
<1>11. ASSUME NEW p \in Deciders, Put(p) PROVE KeysTypeOK'
  <2>1. p \in Procs
    BY DEF Procs
  <2>2. causes' \subseteq {"cache", "identity", "grace"}
    BY <1>11 DEF Put, KeysTypeOK
  <2>3. faults' \in 0..MaxFaults
    BY <1>11, FaultsTyped DEF Put
  <2>4. /\ record' \in Record \cup {None}
        /\ outgoing' \in Outgoing \cup {None}
    <3>1. asked[p] # None
      BY <1>11 DEF Put, DecidersOK, Knows, Accepting
    <3>2. QED
      BY <1>11, <2>1, <3>1, StoredTyped DEF Put, KeysTypeOK
  <2>5. /\ at' \in [Procs -> Places]
        /\ asked' \in [Procs -> Identity \cup {None}]
        /\ found' \in [Procs -> Record \cup {None}]
        /\ since' \in [Procs -> 0..now]
    <3>1. CASE Return(p)
      BY <2>1, <3>1, ReturnTyped
    <3>2. CASE /\ Goto(p, "invalidate") /\ found' = [found EXCEPT ![p] = None]
               /\ since' = [since EXCEPT ![p] = 0] /\ UNCHANGED asked
      BY <2>1, <3>2, GotoTyped, HoldTyped DEF Places, KeysTypeOK
    <3>3. QED
      BY <1>11, <3>1, <3>2 DEF Put
  <2>6. QED
    BY <1>11, <2>2, <2>3, <2>4, <2>5 DEF Put, KeysTypeOK
<1>12. ASSUME NEW p \in Deciders, PublishAccept(p) PROVE KeysTypeOK'
  <2>1. p \in Procs
    BY DEF Procs
  <2>2. causes' \subseteq {"cache", "identity", "grace"}
    BY <1>12 DEF PublishAccept, Because, KeysTypeOK
  <2>3. faults' \in 0..MaxFaults
    BY <1>12, FaultsTyped DEF PublishAccept
  <2>4. /\ at' \in [Procs -> Places]
        /\ asked' \in [Procs -> Identity \cup {None}]
        /\ found' \in [Procs -> Record \cup {None}]
        /\ since' \in [Procs -> 0..now]
    <3>1. CASE Return(p)
      BY <2>1, <3>1, ReturnTyped
    <3>2. CASE /\ Goto(p, "clear accept") /\ asked' = [asked EXCEPT ![p] = None]
               /\ UNCHANGED <<found, since>>
      BY <2>1, <3>2, GotoTyped, HoldTyped DEF Places, KeysTypeOK
    <3>3. QED
      BY <1>12, <3>1, <3>2 DEF PublishAccept
  <2>5. QED
    BY <1>12, <2>2, <2>3, <2>4 DEF PublishAccept, KeysTypeOK
<1>13. ASSUME NEW p \in Deciders,
              \/ Invalidate(p) \/ ClearAccept(p) \/ PublishReject(p)
              \/ ClearReject(p) \/ Remove(p) \/ Uncache(p)
       PROVE  KeysTypeOK'
  <2>1. PICK place \in Places : Goto(p, place)
    BY <1>13 DEF Invalidate, ClearAccept, PublishReject, ClearReject, Remove, Uncache,
                 Places
  <2>2. at' \in [Procs -> Places]
    BY <2>1, GotoTyped DEF Procs
  <2>3. faults' \in 0..MaxFaults
    BY <1>13, FaultsTyped
       DEF Invalidate, ClearAccept, PublishReject, ClearReject, Remove, Uncache
  <2>4. causes' \subseteq {"cache", "identity", "grace"}
    BY <1>13 DEF Invalidate, ClearAccept, PublishReject, ClearReject, Remove, Uncache,
                 KeysTypeOK
  <2>5. QED
    BY <1>13, <2>2, <2>3, <2>4
       DEF Invalidate, ClearAccept, PublishReject, ClearReject, Remove, Uncache,
           KeysTypeOK
<1>14. QED
  BY <1>1, <1>2, <1>3, <1>4, <1>5, <1>6, <1>7, <1>8, <1>9, <1>10, <1>11, <1>12, <1>13
     DEF Next, Lookup, Decision

-----------------------------------------------------------------------------
(***************************************************************************)
(* The cache.                                                              *)
(***************************************************************************)
\* Another goroutine that is about to invalidate the cache still is.
LEMMA WritingKept ==
  ASSUME KeysTypeOK, NEW p \in Procs, NEW place, Goto(p, place),
         at[p] \notin {"invalidate", "uncache"}
  PROVE  Writing => Writing'
  BY DEF KeysTypeOK, Goto, Writing

\* So it is when a lookup goes on or ends.
LEMMA WritingKeptByLookups ==
  ASSUME KeysTypeOK, NEW p \in Procs, Lookup(p)
  PROVE  Writing => Writing'
<1>1. at[p] \notin {"invalidate", "uncache"}
  BY DEF Lookup, LookUp, Fetch, Fill
<1>2. \E place : Goto(p, place)
  BY DEF Lookup, LookUp, Fetch, Fill, Answered, Return
<1>3. QED
  BY <1>1, <1>2, WritingKept

\* No step leaves an outdated copy without a cause or a write under way.
LEMMA CacheStep ==
  ASSUME KeysTypeOK, CacheIsCurrent, Next
  PROVE  CacheIsCurrent'
<1> USE DEF agentVars, historyVars
<1>1. CASE Rekey \/ Rename \/ Tick
  BY <1>1 DEF Rekey, Rename, Tick, Because, CacheIsCurrent, Writing
<1>2. CASE ReceiveRequest
  <2>1. Sub \in Procs
    BY DEF Procs, Deciders
  <2>2. Writing => Writing'
    BY <1>2, <2>1, WritingKept DEF ReceiveRequest, Requested, Writing
  <2>3. QED
    BY <1>2, <2>2 DEF ReceiveRequest, CacheIsCurrent
<1>3. CASE Restart
  BY <1>3 DEF Restart, CacheIsCurrent
<1>4. ASSUME NEW c \in Callers, NEW verdict \in {"get accept", "get reject"},
             Decide(c, verdict)
      PROVE  CacheIsCurrent'
  <2>1. Writing => Writing'
    BY <1>4, WritingKept DEF Decide, Procs, Deciders
  <2>2. QED
    BY <1>4, <2>1 DEF Decide, CacheIsCurrent
<1>5. ASSUME NEW p \in Procs, Lookup(p) PROVE CacheIsCurrent'
  <2>1. Writing => Writing'
    BY <1>5, WritingKeptByLookups
  <2>2. CASE Fill(p)
    BY <2>2 DEF Fill, Because, CacheIsCurrent
  <2>3. CASE LookUp(p) \/ Fetch(p)
    BY <2>1, <2>3 DEF LookUp, Fetch, Because, CacheIsCurrent
  <2>4. QED
    BY <1>5, <2>2, <2>3 DEF Lookup
<1>6. ASSUME NEW p \in Deciders, Put(p) \/ Remove(p) PROVE CacheIsCurrent'
  <2>1. CASE UNCHANGED faults
    <3>1. at'[p] \in {"invalidate", "uncache"}
      BY <1>6, <2>1 DEF Put, Remove, Goto, Fault, KeysTypeOK, Procs
    <3>2. QED
      BY <3>1 DEF CacheIsCurrent, Writing, Procs
  <2>2. CASE faults' # faults
    BY <1>6, <2>2 DEF Put, Remove, CacheIsCurrent
  <2>3. QED
    BY <2>1, <2>2
<1>7. ASSUME NEW p \in Deciders, Invalidate(p) \/ Uncache(p) PROVE CacheIsCurrent'
  BY <1>7 DEF Invalidate, Uncache, CacheIsCurrent
<1>8. ASSUME NEW p \in Deciders,
             \/ GetPending(p) \/ PublishAccept(p) \/ ClearAccept(p)
             \/ PublishReject(p) \/ ClearReject(p)
      PROVE  CacheIsCurrent'
  <2>1. /\ at[p] \notin {"invalidate", "uncache"}
        /\ \E place : Goto(p, place)
    BY <1>8 DEF GetPending, PublishAccept, ClearAccept, PublishReject, ClearReject, Return
  <2>2. Writing => Writing'
    BY <2>1, WritingKept DEF Procs
  <2>3. QED
    BY <1>8, <2>2
       DEF GetPending, PublishAccept, ClearAccept, PublishReject, ClearReject, Because,
           CacheIsCurrent
<1>9. QED
  BY <1>1, <1>2, <1>3, <1>4, <1>5, <1>6, <1>7, <1>8 DEF Next, Decision

-----------------------------------------------------------------------------
(***************************************************************************)
(* Who is where, and what the agent was.                                   *)
(***************************************************************************)
\* The keys and names of the agent only grow, and everybody's are its own.
LEMMA AheadStep ==
  ASSUME KeysTypeOK, NothingAhead, Next
  PROVE  NothingAhead'
<1> USE DEF agentVars, historyVars, NothingAhead, Older
<1>1. agent.key \in Nat /\ agent.host \in Nat
  BY AgentKeysAssumption DEF KeysTypeOK, Identity, Keys, Hosts
<1>2. pending # None => pending.key \in Nat /\ pending.host \in Nat
  BY AgentKeysAssumption DEF KeysTypeOK, Identity, Keys, Hosts
<1>3. \A p \in Procs : asked[p] # None => asked[p].key \in Nat /\ asked[p].host \in Nat
  BY AgentKeysAssumption DEF KeysTypeOK, Identity, Keys, Hosts
<1>4. CASE Rekey \/ Rename
  <2>1. agent.key <= agent'.key /\ agent.host <= agent'.host
        /\ agent'.key \in Nat /\ agent'.host \in Nat
    BY <1>1, <1>4 DEF Rekey, Rename, KeysTypeOK, Identity
  <2>2. \A id \in Identity \cup {None} :
            Older(id) => (id # None => id.key <= agent'.key /\ id.host <= agent'.host)
    BY <1>1, <2>1, AgentKeysAssumption DEF Identity, Keys, Hosts
  <2>3. sent' \subseteq sent \cup {agent'} /\ UNCHANGED <<pending, asked>>
    BY <1>4 DEF Rekey, Rename
  <2>4. agent'.key <= agent'.key /\ agent'.host <= agent'.host
    BY <2>1
  <2>5. /\ sent \subseteq Identity \cup {None} /\ pending \in Identity \cup {None}
        /\ \A p \in Procs : asked[p] \in Identity \cup {None}
    BY DEF KeysTypeOK
  <2>6. QED
    BY <2>2, <2>3, <2>4, <2>5
<1>5. CASE Tick
  BY <1>5 DEF Tick
<1>6. CASE ReceiveRequest
  <2>1. agent.key <= agent.key /\ agent.host <= agent.host
    BY <1>1
  <2>2. pending' \in {pending, agent} \cup sent /\ UNCHANGED <<agent, asked, sent>>
    BY <1>6 DEF ReceiveRequest, Requested
  <2>3. agent \in Identity
    BY DEF KeysTypeOK
  <2>4. QED
    BY <2>1, <2>2, <2>3
<1>7. CASE Restart
  BY <1>7 DEF Restart
<1>8. ASSUME NEW c \in Callers, NEW verdict \in {"get accept", "get reject"},
             Decide(c, verdict)
      PROVE  NothingAhead'
  BY <1>8 DEF Decide
<1>9. ASSUME NEW p \in Procs, Lookup(p) PROVE NothingAhead'
  BY <1>9 DEF Lookup, LookUp, Fetch, Fill, Answered, Return, KeysTypeOK
<1>10. ASSUME NEW p \in Deciders, Decision(p) PROVE NothingAhead'
  <2>1. agent' = agent /\ sent' = sent /\ pending' \in {pending, None}
    BY <1>10 DEF Decision, GetPending, Put, Invalidate, PublishAccept, ClearAccept,
                 PublishReject, ClearReject, Remove, Uncache
  <2>2. \A q \in Procs : asked'[q] \in {asked[q], pending, None}
    BY <1>10 DEF Decision, GetPending, Put, Invalidate, PublishAccept, ClearAccept,
                 PublishReject, ClearReject, Remove, Uncache, Return, KeysTypeOK
  <2>3. QED
    BY <2>1, <2>2
<1>11. QED
  BY <1>4, <1>5, <1>6, <1>7, <1>8, <1>9, <1>10 DEF Next

\* Readers look up and do nothing else.
LEMMA ReadersStep ==
  ASSUME KeysTypeOK, ReadersOK, Next
  PROVE  ReadersOK'
<1> USE AgentKeysAssumption DEF agentVars, historyVars, ReadersOK, Procs, Deciders
<1>1. CASE Rekey \/ Rename \/ Tick \/ ReceiveRequest \/ Restart
  BY <1>1 DEF Rekey, Rename, Tick, ReceiveRequest, Requested, Restart, Goto, KeysTypeOK
<1>2. ASSUME NEW c \in Callers, NEW verdict \in {"get accept", "get reject"},
             Decide(c, verdict)
      PROVE  ReadersOK'
  BY <1>2 DEF Decide, Goto, KeysTypeOK
<1>3. ASSUME NEW p \in Procs, Lookup(p) PROVE ReadersOK'
  BY <1>3 DEF Lookup, LookUp, Fetch, Fill, Answered, Return, Goto, KeysTypeOK
<1>4. ASSUME NEW p \in Deciders, Decision(p) PROVE ReadersOK'
  <2>1. \E place : Goto(p, place)
    BY <1>4 DEF Decision, GetPending, Put, Invalidate, PublishAccept, ClearAccept,
                PublishReject, ClearReject, Remove, Uncache, Return
  <2>2. QED
    BY <2>1 DEF Goto, KeysTypeOK
<1>5. QED
  BY <1>1, <1>2, <1>3, <1>4 DEF Next

-----------------------------------------------------------------------------
(***************************************************************************)
(* What the deciders know.                                                 *)
(***************************************************************************)
DecisionStep(p) == (p \in Procs /\ Lookup(p)) \/ (p \in Deciders /\ Decision(p))

\* The kinds of steps.
LEMMA StepKinds ==
  ASSUME Next
  PROVE  \/ Rekey \/ Rename \/ Tick \/ ReceiveRequest \/ Restart
         \/ \E c \in Callers, verdict \in {"get accept", "get reject"} : Decide(c, verdict)
         \/ \E p \in Procs : DecisionStep(p)
<1>1. CASE \E p \in Procs : Lookup(p)
  BY <1>1 DEF DecisionStep
<1>2. CASE \E p \in Deciders : Decision(p)
  BY <1>2 DEF DecisionStep, Procs
<1>3. QED
  BY <1>1, <1>2 DEF Next

\* A lookup or a decision concerns nobody else, and the agent only if told.
LEMMA Elsewhere ==
  ASSUME KeysTypeOK, NEW p \in Procs, DecisionStep(p)
  PROVE  /\ \A q \in Procs : q # p => /\ at'[q] = at[q]
                                      /\ asked'[q] = asked[q]
                                      /\ found'[q] = found[q]
         /\ agent' = agent /\ now' = now
         /\ causes \subseteq causes'
<1> USE DEF agentVars, historyVars, KeysTypeOK
<1>1. CASE Lookup(p)
  BY <1>1 DEF Lookup, LookUp, Fetch, Fill, Answered, Return, Goto, Because
<1>2. CASE Decision(p)
  BY <1>2 DEF Decision, GetPending, Put, Invalidate, PublishAccept, ClearAccept,
              PublishReject, ClearReject, Remove, Uncache, Return, Goto, Because
<1>3. QED
  BY <1>1, <1>2 DEF DecisionStep

\* Only an active acceptance or rejection changes the record.
LEMMA RecordWriters ==
  ASSUME NEW p \in Procs, DecisionStep(p), record' # record
  PROVE  p \in Deciders /\ Active(p) /\ (Put(p) \/ Remove(p))
BY DEF DecisionStep, Lookup, LookUp, Fetch, Fill, Decision, GetPending, Put, Invalidate,
       PublishAccept, ClearAccept, PublishReject, ClearReject, Remove, Uncache, Active,
       agentVars, historyVars

\* A decision under way holds what it held or nothing; others notice its start.
LEMMA HeldOrNoticed ==
  ASSUME KeysTypeOK, NEW p \in Deciders, DecisionStep(p), Active(p)'
  PROVE  \/ Active(p) /\ asked'[p] \in {asked[p], None}
         \/ Overlapped(p) => {"identity", "grace"} \subseteq causes'
<1> USE DEF KeysTypeOK, Procs
<1>1. CASE Lookup(p)
  BY <1>1, AgentKeysAssumption
     DEF Lookup, LookUp, Fetch, Fill, Answered, Return, Goto, Active, Deciders
<1>2. CASE GetPending(p)
  BY <1>2 DEF GetPending, Because
<1>3. CASE \/ Put(p) \/ Invalidate(p) \/ PublishAccept(p) \/ ClearAccept(p)
           \/ PublishReject(p) \/ ClearReject(p) \/ Remove(p) \/ Uncache(p)
  BY <1>3 DEF Put, Invalidate, PublishAccept, ClearAccept, PublishReject, ClearReject,
              Remove, Uncache, Return, Goto, Active
<1>4. QED
  BY <1>1, <1>2, <1>3 DEF DecisionStep, Decision

\* The agent has changed: nobody works for what it is now.
LEMMA NobodysAgent ==
  ASSUME KeysTypeOK, KeysTypeOK', NothingAhead, Rekey \/ Rename
  PROVE  \A p \in Procs : asked[p] # agent'
<1> SUFFICES ASSUME NEW p \in Procs, asked[p] = agent' PROVE FALSE
  OBVIOUS
<1>1. agent' \in Identity /\ agent' # None /\ agent \in Identity
  BY AgentKeysAssumption DEF KeysTypeOK
<1>2. agent'.key <= agent.key /\ agent'.host <= agent.host
  BY <1>1 DEF NothingAhead, Older
<1>3. agent.key \in Nat /\ agent.host \in Nat
  BY <1>1, AgentKeysAssumption DEF Identity, Keys, Hosts
<1>4. CASE Rekey
  BY <1>1, <1>2, <1>3, <1>4 DEF Rekey, Identity
<1>5. CASE Rename
  BY <1>1, <1>2, <1>3, <1>5 DEF Rename, Identity
<1>6. QED
  BY <1>4, <1>5

\* Two decisions at a time stay noticed.
LEMMA OverlapsStep ==
  ASSUME KeysTypeOK, KeysTypeOK', NothingAhead, OverlapsOK, Next
  PROVE  OverlapsOK'
<1> USE DEF agentVars, historyVars
<1>1. CASE Rekey \/ Rename
  <2>1. \A p \in Deciders : asked'[p] # agent'
    BY <1>1, NobodysAgent DEF Rekey, Rename, Procs
  <2>2. "grace" \in causes => "grace" \in causes'
    BY <1>1 DEF Rekey, Rename, Because
  <2>3. QED
    BY <1>1, <2>1, <2>2 DEF Rekey, Rename, OverlapsOK, Active
<1>2. CASE Tick
  BY <1>2 DEF Tick, OverlapsOK, Active
<1>3. CASE ReceiveRequest
  <2>1. \A p \in Deciders : Active(p)' => Active(p)
    BY <1>3 DEF ReceiveRequest, Requested, Goto, Active, KeysTypeOK, Procs
  <2>2. QED
    BY <1>3, <2>1 DEF ReceiveRequest, OverlapsOK
<1>4. CASE Restart
  BY <1>4 DEF Restart, OverlapsOK, Active, Procs
<1>5. ASSUME NEW c \in Callers, NEW verdict \in {"get accept", "get reject"},
             Decide(c, verdict)
      PROVE  OverlapsOK'
  <2>1. \A p \in Deciders : Active(p)' => Active(p)
    BY <1>5 DEF Decide, Goto, Active, KeysTypeOK, Procs
  <2>2. QED
    BY <1>5, <2>1 DEF Decide, OverlapsOK
<1>6. ASSUME NEW p \in Procs, DecisionStep(p) PROVE OverlapsOK'
  <2> SUFFICES ASSUME NEW q \in Deciders, NEW r \in Deciders,
                      q # r, Active(q)', Active(r)'
               PROVE  /\ "grace" \in causes'
                      /\ \/ "identity" \in causes'
                         \/ asked'[q] # agent' /\ asked'[r] # agent'
    BY DEF OverlapsOK
  <2>1. agent # None
    BY AgentKeysAssumption DEF KeysTypeOK
  <2>2. /\ \A s \in Deciders : s # p => (Active(s)' <=> Active(s)) /\ asked'[s] = asked[s]
        /\ causes \subseteq causes' /\ agent' = agent
    BY <1>6, Elsewhere DEF Active, Procs
  <2>3. CASE p \notin {q, r}
    BY <2>2, <2>3 DEF OverlapsOK
  <2>4. ASSUME NEW s \in Deciders, p \in Deciders, p # s, Active(p)', Active(s)'
        PROVE  /\ "grace" \in causes'
               /\ \/ "identity" \in causes'
                  \/ asked'[p] # agent' /\ asked'[s] # agent'
    <3>1. p \in Deciders /\ Active(p)' /\ Active(s)'
      BY <2>4
    <3>2. Active(s) /\ asked'[s] = asked[s] /\ Overlapped(p)
      BY <2>2, <2>4, <3>1 DEF Overlapped
    <3>3. CASE Active(p) /\ asked'[p] \in {asked[p], None}
      BY <2>1, <2>2, <2>4, <3>1, <3>2, <3>3 DEF OverlapsOK
    <3>4. \/ Active(p) /\ asked'[p] \in {asked[p], None}
          \/ {"identity", "grace"} \subseteq causes'
      BY <1>6, <3>1, <3>2, HeldOrNoticed
    <3>5. CASE {"identity", "grace"} \subseteq causes'
      BY <3>5
    <3>6. QED
      BY <3>3, <3>4, <3>5
  <2>5. CASE p = q
    BY <2>4, <2>5
  <2>6. CASE p = r
    BY <2>4, <2>6
  <2>7. QED
    BY <2>3, <2>5, <2>6
<1>7. CASE \E p \in Procs : DecisionStep(p)
  BY <1>6, <1>7
<1>8. QED
  BY <1>1, <1>2, <1>3, <1>4, <1>5, <1>7, StepKinds

\* A copy an acceptance reads from the cache is current, or it is noticed.
LEMMA CopyIsCurrent ==
  ASSUME KeysTypeOK, CacheIsCurrent, ReadersOK, OverlapsOK, NEW p \in Deciders,
         Active(p), at[p] \notin {"invalidate", "uncache"},
         "grace" \notin causes, "cache" \notin causes
  PROVE  cache \in {None, record}
<1> SUFFICES ASSUME Writing PROVE FALSE
  BY DEF CacheIsCurrent
<1>1. PICK q \in Procs : at[q] \in {"invalidate", "uncache"}
  BY DEF Writing
<1>2. q \in Deciders /\ q # p /\ Active(q)
  BY <1>1 DEF ReadersOK, Procs, Active
<1>3. QED
  BY <1>2 DEF OverlapsOK

\* One step of a decider leaves it knowing what it has to.
LEMMA OwnStep ==
  ASSUME KeysTypeOK, CacheIsCurrent, ReadersOK, OverlapsOK, NothingAhead,
         NEW p \in Deciders, Knows(p), DecisionStep(p)
  PROVE  Knows(p)'
<1> USE DEF agentVars, historyVars
<1>1. p \in Procs /\ p \notin Readers
  BY AgentKeysAssumption DEF Procs, Deciders
<1>2. CASE LookUp(p)
  <2>1. Active(p)
    BY <1>1, <1>2 DEF LookUp, Active
  <2>2. CASE cache # None /\ Answered(p, cache)
    <3>1. at'[p] = "put" /\ found'[p] = cache /\ asked' = asked
      BY <1>1, <2>2 DEF Answered, Goto, KeysTypeOK
    <3>2. "grace" \notin causes' => "grace" \notin causes /\ "cache" \notin causes
      BY <1>1, <1>2, <2>2 DEF LookUp, Because
    <3>3. "grace" \notin causes' => cache = record
      BY <1>1, <1>2, <2>1, <2>2, <3>2, CopyIsCurrent DEF LookUp
    <3>4. QED
      BY <1>1, <1>2, <3>1, <3>3 DEF LookUp, Knows, Accepting
  <2>3. CASE Goto(p, "fetch") /\ UNCHANGED <<asked, found, since>>
    BY <1>1, <1>2, <2>3 DEF LookUp, Goto, Knows, Accepting, KeysTypeOK
  <2>4. QED
    BY <1>2, <2>2, <2>3 DEF LookUp
<1>3. CASE Fetch(p)
  <2>1. asked' = asked /\ asked[p] # None /\ record' = record
    BY <1>1, <1>3 DEF Fetch, Answered, Knows, Accepting
  <2>2. CASE record # None /\ Goto(p, "fill") /\ found' = [found EXCEPT ![p] = record]
    BY <1>1, <2>1, <2>2 DEF Goto, Knows, Accepting, KeysTypeOK
  <2>3. CASE record = None /\ Answered(p, None)
    BY <1>1, <2>1, <2>3 DEF Answered, Goto, Knows, Accepting, KeysTypeOK
  <2>4. CASE Answered(p, None) /\ Because({"grace"}, p \notin Readers)
    <3>1. "grace" \in causes' /\ at'[p] = "put"
      BY <1>1, <2>4 DEF Answered, Goto, Because, KeysTypeOK
    <3>2. QED
      BY <2>1, <3>1 DEF Knows, Accepting
  <2>5. QED
    BY <1>3, <2>2, <2>3, <2>4 DEF Fetch
<1>4. CASE Fill(p)
  BY <1>1, <1>4 DEF Fill, Answered, Goto, Because, Knows, Accepting, KeysTypeOK
<1>5. CASE GetPending(p)
  <2>1. CASE Return(p)
    BY <1>1, <2>1 DEF Return, Goto, Knows, Accepting, KeysTypeOK
  <2>2. CASE /\ pending # None
             /\ asked' = [asked EXCEPT ![p] = pending]
             /\ Goto(p, IF Grace > 0 THEN "look up" ELSE "put")
    BY <1>1, <2>2 DEF Goto, Knows, Accepting, KeysTypeOK
  <2>3. CASE Goto(p, "publish reject")
    BY <1>1, <2>3 DEF Goto, Knows, Accepting, KeysTypeOK
  <2>4. QED
    BY <1>5, <2>1, <2>2, <2>3 DEF GetPending
<1>6. CASE Put(p)
  <2>1. CASE Return(p)
    BY <1>1, <2>1 DEF Return, Goto, Knows, Accepting, KeysTypeOK
  <2>2. CASE Stored(p) /\ Goto(p, "invalidate") /\ UNCHANGED asked
    <3>1. at'[p] = "invalidate" /\ asked[p] # None /\ agent' = agent
      BY <1>1, <1>6, <2>2 DEF Put, Goto, Knows, Accepting, KeysTypeOK
    <3>2. asked[p] = agent => Known'
      <4>1. record' # None
        BY <1>1, <2>2, <3>1, StoredTyped, AgentKeysAssumption
      <4>2. QED
        BY <2>2, <3>1, <4>1 DEF Stored, NewRecord, Known
    <3>3. QED
      BY <2>2, <3>1, <3>2 DEF Knows, Accepting
  <2>3. QED
    BY <1>6, <2>1, <2>2 DEF Put
<1>7. CASE Invalidate(p)
  BY <1>1, <1>7 DEF Invalidate, Goto, Knows, Accepting, Known, KeysTypeOK
<1>8. CASE PublishAccept(p) \/ ClearAccept(p) \/ PublishReject(p)
           \/ ClearReject(p) \/ Remove(p) \/ Uncache(p)
  <2>1. at'[p] \in {"idle", "clear accept", "clear reject", "remove", "uncache"}
    BY <1>1, <1>8 DEF PublishAccept, ClearAccept, PublishReject, ClearReject, Remove,
                      Uncache, Return, Goto, KeysTypeOK
  <2>2. QED
    BY <2>1 DEF Knows, Accepting
<1>9. QED
  BY <1>2, <1>3, <1>4, <1>5, <1>6, <1>7, <1>8 DEF DecisionStep, Lookup, Decision

\* Every step leaves every decider knowing what it has to.
LEMMA DecidersStep ==
  ASSUME KeysTypeOK, KeysTypeOK', CacheIsCurrent, ReadersOK, OverlapsOK, NothingAhead,
         DecidersOK, Next
  PROVE  DecidersOK'
<1> USE DEF agentVars, historyVars
<1>1. CASE Rekey \/ Rename
  <2>1. \A p \in Deciders : asked'[p] # agent'
    BY <1>1, NobodysAgent DEF Rekey, Rename, Procs
  <2>2. "grace" \in causes => "grace" \in causes'
    BY <1>1 DEF Rekey, Rename, Because
  <2>3. QED
    BY <1>1, <2>1, <2>2 DEF Rekey, Rename, DecidersOK, Knows, Accepting
<1>2. CASE Tick
  BY <1>2 DEF Tick, DecidersOK, Knows, Accepting, Known
<1>3. CASE ReceiveRequest
  <2>1. \A p \in Deciders : at'[p] = at[p] \/ at'[p] \in {"get accept", "idle"}
    BY <1>3 DEF ReceiveRequest, Requested, Goto, KeysTypeOK, Procs
  <2>2. QED
    BY <1>3, <2>1 DEF ReceiveRequest, DecidersOK, Knows, Accepting, Known
<1>4. CASE Restart
  BY <1>4 DEF Restart, DecidersOK, Knows, Accepting, Procs
<1>5. ASSUME NEW c \in Callers, NEW verdict \in {"get accept", "get reject"},
             Decide(c, verdict)
      PROVE  DecidersOK'
  <2>1. \A p \in Deciders : at'[p] = at[p] \/ at'[p] \in {"get accept", "get reject"}
    BY <1>5 DEF Decide, Goto, KeysTypeOK, Procs
  <2>2. QED
    BY <1>5, <2>1 DEF Decide, DecidersOK, Knows, Accepting, Known
<1>6. ASSUME NEW p \in Procs, DecisionStep(p) PROVE DecidersOK'
  <2> SUFFICES ASSUME NEW q \in Deciders PROVE Knows(q)'
    BY DEF DecidersOK
  <2>1. Knows(q)
    BY DEF DecidersOK
  <2>2. CASE q = p
    BY <1>6, <2>1, <2>2, OwnStep
  <2>3. CASE q # p
    <3>1. /\ at'[q] = at[q] /\ asked'[q] = asked[q] /\ found'[q] = found[q]
          /\ causes \subseteq causes' /\ agent' = agent
      BY <1>6, <2>3, Elsewhere DEF Procs
    <3>2. CASE record' = record
      BY <2>1, <3>1, <3>2 DEF Knows, Accepting, Known
    <3>3. CASE record' # record /\ Active(q)
      <4>1. p \in Deciders /\ Active(p)
        BY <1>6, <3>3, RecordWriters
      <4>2. "grace" \in causes /\ ("identity" \in causes \/ asked[q] # agent)
        BY <2>3, <3>3, <4>1 DEF OverlapsOK
      <4>3. QED
        BY <2>1, <3>1, <4>2 DEF Knows, Accepting
    <3>4. CASE ~Active(q)
      BY <2>1, <3>1, <3>4 DEF Knows, Accepting, Active
    <3>5. QED
      BY <3>2, <3>3, <3>4
  <2>4. QED
    BY <2>2, <2>3
<1>7. CASE \E p \in Procs : DecisionStep(p)
  BY <1>6, <1>7
<1>8. QED
  BY <1>1, <1>2, <1>3, <1>4, <1>5, <1>7, StepKinds

-----------------------------------------------------------------------------
(***************************************************************************)
(* What the record tells.                                                  *)
(***************************************************************************)
\* An agent that has been told is known.
LEMMA EnrolledStep ==
  ASSUME KeysTypeOK, DecidersOK, EnrolledKnown, Next
  PROVE  EnrolledKnown'
<1> USE DEF agentVars, historyVars
<1>1. CASE Rekey \/ Rename \/ Tick \/ ReceiveRequest \/ Restart
  BY <1>1 DEF Rekey, Rename, Tick, ReceiveRequest, Restart, Because, EnrolledKnown, Known
<1>2. ASSUME NEW c \in Callers, NEW verdict \in {"get accept", "get reject"},
             Decide(c, verdict)
      PROVE  EnrolledKnown'
  BY <1>2 DEF Decide, EnrolledKnown, Known
<1>3. ASSUME NEW p \in Procs, DecisionStep(p) PROVE EnrolledKnown'
  <2>1. causes \subseteq causes' /\ agent' = agent
    BY <1>3, Elsewhere
  <2>2. CASE Put(p) /\ p \in Deciders
    <3>1. CASE Stored(p) /\ "identity" \notin causes'
      <4>1. asked[p] = agent /\ asked[p] # None
        BY <2>2, <3>1 DEF Put, DecidersOK, Knows, Accepting
      <4>2. record' # None
        BY <2>2, <3>1, <4>1, StoredTyped, AgentKeysAssumption DEF Procs
      <4>3. QED
        BY <2>1, <3>1, <4>1, <4>2 DEF Stored, NewRecord, EnrolledKnown, Known
    <3>2. CASE record' = record
      BY <2>1, <2>2, <3>2 DEF Put, EnrolledKnown, Known
    <3>3. QED
      BY <2>2, <3>1, <3>2 DEF Put, EnrolledKnown
  <2>3. CASE Remove(p)
    BY <2>1, <2>3 DEF Remove, EnrolledKnown, Known
  <2>4. CASE PublishAccept(p) /\ p \in Deciders
    <3>1. "identity" \notin causes' => asked[p] = agent /\ "identity" \notin causes
      BY <2>4 DEF PublishAccept, Because
    <3>2. "identity" \notin causes' => Known
      BY <2>4, <3>1 DEF PublishAccept, DecidersOK, Knows
    <3>3. QED
      BY <2>1, <2>4, <3>2 DEF PublishAccept, EnrolledKnown, Known
  <2>5. CASE record' = record /\ enrolled' = enrolled
    BY <2>1, <2>5 DEF EnrolledKnown, Known
  <2>6. QED
    <3>1. \/ Put(p) /\ p \in Deciders
          \/ Remove(p)
          \/ PublishAccept(p) /\ p \in Deciders
          \/ record' = record /\ enrolled' = enrolled
      BY <1>3 DEF DecisionStep, Lookup, LookUp, Fetch, Fill, Decision, GetPending,
                  Invalidate, ClearAccept, PublishReject, ClearReject, Uncache
    <3>2. QED
      BY <2>2, <2>3, <2>4, <2>5, <3>1
<1>4. CASE \E p \in Procs : DecisionStep(p)
  BY <1>3, <1>4
<1>5. QED
  BY <1>1, <1>2, <1>4, StepKinds

\* Most steps write neither the record nor its history.
LEMMA RecordUntouched ==
  ASSUME NEW p \in Procs, DecisionStep(p)
  PROVE  \/ Put(p) /\ p \in Deciders
         \/ Remove(p) /\ p \in Deciders
         \/ UNCHANGED <<record, outgoing>>
BY DEF DecisionStep, Lookup, LookUp, Fetch, Fill, Decision, GetPending, Invalidate,
       PublishAccept, ClearAccept, PublishReject, ClearReject, Uncache, agentVars,
       historyVars

\* The record that replaces another one remembers its key for the grace period.
LEMMA OutgoingStep ==
  ASSUME KeysTypeOK, DecidersOK, OutgoingRecorded, Next
  PROVE  OutgoingRecorded'
<1> USE DEF agentVars, historyVars
<1>1. now \in Nat /\ Grace \in Nat /\ (outgoing # None => outgoing.until \in Nat)
  BY AgentKeysAssumption DEF KeysTypeOK, Outgoing
<1>2. CASE Rekey \/ Rename \/ ReceiveRequest \/ Restart
  <2>1. "grace" \in causes => "grace" \in causes'
    BY <1>2 DEF Rekey, Rename, ReceiveRequest, Restart, Because
  <2>2. QED
    BY <1>2, <2>1 DEF Rekey, Rename, ReceiveRequest, Restart, OutgoingRecorded
<1>3. CASE Tick
  BY <1>1, <1>3 DEF Tick, OutgoingRecorded
<1>4. ASSUME NEW c \in Callers, NEW verdict \in {"get accept", "get reject"},
             Decide(c, verdict)
      PROVE  OutgoingRecorded'
  BY <1>4 DEF Decide, OutgoingRecorded
<1>5. ASSUME NEW p \in Procs, DecisionStep(p) PROVE OutgoingRecorded'
  <2>1. causes \subseteq causes' /\ now' = now
    BY <1>5, Elsewhere
  <2>2. CASE UNCHANGED <<record, outgoing>>
    BY <2>1, <2>2 DEF OutgoingRecorded
  <2>3. CASE Remove(p)
    BY <2>3 DEF Remove, OutgoingRecorded
  <2>4. CASE Put(p) /\ p \in Deciders /\ Stored(p)
    <3>1. asked[p] # None /\ at[p] = "put"
      BY <2>4 DEF Put, DecidersOK, Knows, Accepting
    <3>2. record' # None
      BY <2>4, <3>1, StoredTyped, AgentKeysAssumption DEF Procs
    <3>3. CASE record = None
      BY <2>4, <3>3 DEF Stored, OutgoingRecorded
    <3>4. CASE record # None /\ record.key = asked[p].key
      <4>1. "grace" \in causes'
        BY <2>4, <3>4 DEF Put
      <4>2. QED
        BY <3>2, <4>1 DEF OutgoingRecorded
    <3>5. CASE record # None /\ record.key # asked[p].key
      <4>1. outgoing' = [key |-> record.key, until |-> since[p] + Grace]
        BY <2>4, <3>5 DEF Stored
      <4>2. CASE Grace = 0
        <5>1. ~(now' < outgoing'.until)
          BY <1>1, <2>1, <2>4, <4>1, <4>2 DEF Procs, KeysTypeOK
        <5>2. QED
          BY <3>2, <5>1 DEF OutgoingRecorded
      <4>3. CASE Grace > 0 /\ "grace" \notin causes'
        <5>1. found[p] = record
          BY <2>1, <2>4, <3>1, <4>3 DEF DecidersOK, Knows
        <5>2. Replaces(p)
          BY <3>5, <4>3, <5>1 DEF Replaces
        <5>3. record'.old = record.key /\ record'.until = since[p] + Grace
          BY <2>4, <5>1, <5>2 DEF Stored, NewRecord
        <5>4. QED
          BY <3>2, <4>1, <5>3 DEF OutgoingRecorded
      <4>4. QED
        BY <1>1, <3>2, <4>2, <4>3 DEF OutgoingRecorded
    <3>6. QED
      BY <3>3, <3>4, <3>5
  <2>5. QED
    BY <1>5, <2>2, <2>3, <2>4, RecordUntouched DEF Put
<1>6. CASE \E p \in Procs : DecisionStep(p)
  BY <1>5, <1>6
<1>7. QED
  BY <1>2, <1>3, <1>4, <1>6, StepKinds

\* The cached copy is current, or the one whose key is outgoing.
LEMMA CacheOfOutgoingStep ==
  ASSUME KeysTypeOK, CacheIsCurrent, ReadersOK, OverlapsOK, DecidersOK,
         CacheOfOutgoing, Next
  PROVE  CacheOfOutgoing'
<1> USE DEF agentVars, historyVars
<1>1. CASE Rekey \/ Rename \/ Tick \/ ReceiveRequest \/ Restart
  <2>1. cache' = cache \/ cache' = None
    BY <1>1 DEF Rekey, Rename, Tick, ReceiveRequest, Restart
  <2>2. cache' = cache => causes \cap {"cache", "grace"} \subseteq causes' \/ cache = None
    BY <1>1 DEF Rekey, Rename, Tick, ReceiveRequest, Restart, Because
  <2>3. UNCHANGED <<record, outgoing>>
    BY <1>1 DEF Rekey, Rename, Tick, ReceiveRequest, Restart
  <2>4. QED
    BY <2>1, <2>2, <2>3 DEF CacheOfOutgoing
<1>2. ASSUME NEW c \in Callers, NEW verdict \in {"get accept", "get reject"},
             Decide(c, verdict)
      PROVE  CacheOfOutgoing'
  BY <1>2 DEF Decide, CacheOfOutgoing
<1>3. ASSUME NEW p \in Procs, DecisionStep(p) PROVE CacheOfOutgoing'
  <2>1. causes \subseteq causes'
    BY <1>3, Elsewhere
  <2>2. CASE UNCHANGED <<record, outgoing>>
    <3>1. CASE cache' = cache \/ cache' = None
      BY <2>1, <2>2, <3>1 DEF CacheOfOutgoing
    <3>2. CASE Fill(p)
      BY <2>2, <3>2 DEF Fill, Because, CacheOfOutgoing
    <3>3. QED
      BY <1>3, <3>1, <3>2
         DEF DecisionStep, Lookup, LookUp, Fetch, Decision, GetPending, Put, Invalidate,
             PublishAccept, ClearAccept, PublishReject, ClearReject, Remove, Uncache
  <2>3. CASE Remove(p)
    <3>1. record' = None \/ "cache" \in causes'
      BY <2>3 DEF Remove, Fault, KeysTypeOK
    <3>2. QED
      BY <3>1 DEF CacheOfOutgoing
  <2>4. CASE Put(p) /\ p \in Deciders /\ Stored(p) /\ causes' \cap {"cache", "grace"} = {}
    <3>1. asked[p] # None /\ at[p] = "put" /\ cache' = cache
      BY <2>4 DEF Put, DecidersOK, Knows, Accepting
    <3>2. "grace" \notin causes /\ "cache" \notin causes
      BY <2>1, <2>4
    <3>3. cache \in {None, record}
      BY <2>4, <3>1, <3>2, CopyIsCurrent DEF Active
    <3>4. record # None => record.key # asked[p].key
      BY <2>4 DEF Put
    <3>5. record # None => outgoing' = [key |-> record.key, until |-> since[p] + Grace]
      BY <2>4, <3>4 DEF Stored
    <3>6. record # None => outgoing' # None
      BY <2>4, <3>1, <3>5, StoredTyped, AgentKeysAssumption DEF Procs, KeysTypeOK, Outgoing, Record
    <3>7. QED
      BY <3>1, <3>3, <3>5, <3>6 DEF CacheOfOutgoing
  <2>5. QED
    BY <1>3, <2>2, <2>3, <2>4, RecordUntouched DEF Put, CacheOfOutgoing
<1>4. CASE \E p \in Procs : DecisionStep(p)
  BY <1>3, <1>4
<1>5. QED
  BY <1>1, <1>2, <1>4, StepKinds

-----------------------------------------------------------------------------
(***************************************************************************)
(* The theorems.                                                           *)
(***************************************************************************)
\* A step that changes nothing keeps the inductive invariant.
LEMMA StutterIInv == IInv /\ UNCHANGED vars => IInv'
<1> SUFFICES ASSUME IInv, UNCHANGED vars PROVE IInv'
  OBVIOUS
<1> USE DEF vars, agentVars, historyVars
<1>1. KeysTypeOK'
  BY DEF IInv, KeysTypeOK
<1>2. CacheIsCurrent'
  BY DEF IInv, CacheIsCurrent, Writing
<1>3. NothingAhead'
  BY DEF IInv, NothingAhead, Older
<1>4. ReadersOK'
  BY DEF IInv, ReadersOK
<1>5. DecidersOK'
  BY DEF IInv, DecidersOK, Knows, Accepting, Known
<1>6. OverlapsOK'
  BY DEF IInv, OverlapsOK, Active
<1>7. EnrolledKnown'
  BY DEF IInv, EnrolledKnown, Known
<1>8. OutgoingRecorded'
  BY DEF IInv, OutgoingRecorded
<1>9. CacheOfOutgoing'
  BY DEF IInv, CacheOfOutgoing
<1>10. QED
  BY <1>1, <1>2, <1>3, <1>4, <1>5, <1>6, <1>7, <1>8, <1>9 DEF IInv

\* The inductive invariant holds in every reachable state.
THEOREM KeysInvariance == Spec => []IInv
<1>1. IInv /\ [Next]_vars => IInv'
  <2>1. ASSUME IInv, Next PROVE IInv'
    <3>1. KeysTypeOK'
      BY <2>1, TypedStep DEF IInv
    <3>2. CacheIsCurrent' /\ NothingAhead' /\ ReadersOK'
      BY <2>1, CacheStep, AheadStep, ReadersStep DEF IInv
    <3>3. DecidersOK' /\ OverlapsOK'
      BY <2>1, <3>1, DecidersStep, OverlapsStep DEF IInv
    <3>4. EnrolledKnown' /\ OutgoingRecorded' /\ CacheOfOutgoing'
      BY <2>1, EnrolledStep, OutgoingStep, CacheOfOutgoingStep DEF IInv
    <3>5. QED
      BY <3>1, <3>2, <3>3, <3>4 DEF IInv
  <2>2. QED
    BY <2>1, StutterIInv
<1>2. QED
  BY <1>1, InitIInv, PTL DEF Spec

\* What is stored, cached and on its way keeps its type.
THEOREM KeysTypeCorrectness == Spec => []KeysTypeOK
<1>1. IInv => KeysTypeOK
  BY DEF IInv
<1>2. QED
  BY <1>1, KeysInvariance, PTL

\* The cache is outdated only while a write is under way, or for a cause.
THEOREM CacheCurrency == Spec => []CacheIsCurrent
<1>1. IInv => CacheIsCurrent
  BY DEF IInv
<1>2. QED
  BY <1>1, KeysInvariance, PTL

\* What an accepted agent signs verifies.
THEOREM AcceptedAgentsVerify == Spec => []AcceptedAgentVerifies
<1>1. IInv => AcceptedAgentVerifies
  <2> SUFFICES ASSUME IInv, enrolled, ~Writing, "identity" \notin causes,
                      "cache" \notin causes
               PROVE  Verifies(agent.key, agent.host)
    BY DEF AcceptedAgentVerifies
  <2>1. Known /\ cache \in {None, record}
    BY DEF IInv, EnrolledKnown, CacheIsCurrent
  <2>2. QED
    BY <2>1 DEF Verifies, AcceptableKeys, Known
<1>2. QED
  BY <1>1, KeysInvariance, PTL

\* What was signed with a replaced key verifies for the grace period.
THEOREM ReplacedKeysVerify == Spec => []ReplacedKeyVerifies
<1>1. IInv => ReplacedKeyVerifies
  <2> SUFFICES ASSUME IInv, outgoing # None, now < outgoing.until,
                      causes \cap {"cache", "grace"} = {}
               PROVE  \E h \in Hosts : Verifies(outgoing.key, h)
    BY DEF ReplacedKeyVerifies
  <2> DEFINE rec == IF cache # None THEN cache ELSE record
  <2>1. /\ record # None /\ record.old = outgoing.key
        /\ record.until = outgoing.until
    BY DEF IInv, OutgoingRecorded
  <2>2. cache \in {None, record} \/ cache.key = outgoing.key
    BY <2>1 DEF IInv, CacheOfOutgoing
  <2>3. rec \in Record /\ rec # None
    BY <2>1 DEF IInv, KeysTypeOK
  <2>4. rec.host \in Hosts /\ outgoing.key \in Keys
    BY <2>3 DEF Record, IInv, KeysTypeOK, Outgoing
  <2>5. outgoing.key # NoKey
    BY <2>4, AgentKeysAssumption DEF Keys, NoKey
  <2>6. CASE rec = record
    BY <2>1, <2>3, <2>4, <2>5, <2>6 DEF Verifies, AcceptableKeys
  <2>7. CASE rec.key = outgoing.key
    BY <2>3, <2>4, <2>7 DEF Verifies, AcceptableKeys
  <2>8. QED
    BY <2>2, <2>6, <2>7
<1>2. QED
  BY <1>1, KeysInvariance, PTL

-----------------------------------------------------------------------------
(***************************************************************************)
(* What does not verify.                                                   *)
(***************************************************************************)
\* A copy of the record tells of keys and names the agent has had, and of an
\* outgoing key that has no more than the grace period left.
Past(rec) ==
    rec # None => /\ rec.key <= agent.key /\ rec.old <= agent.key
                  /\ rec.host <= agent.host
                  /\ rec.until <= now + Grace

RecordsArePast == Past(record) /\ Past(cache) /\ \A p \in Procs : Past(found[p])

\* Only a key and a name that the agent has had verify, a replaced key for at
\* most the grace period, and after a removal nothing does once the cache was
\* invalidated.
NothingElseVerifies ==
    \A key \in Keys, host \in Hosts :
        Verifies(key, host) =>
            LET rec == IF cache # None THEN cache ELSE record IN
            /\ key <= agent.key /\ host <= agent.host
            /\ key # rec.key => now < rec.until /\ rec.until <= now + Grace
            /\ record # None \/ Writing \/ "cache" \in causes

\* What is past stays so while the agent changes and time goes by.
LEMMA PastStays ==
  ASSUME KeysTypeOK, NEW rec \in Record \cup {None}, Past(rec),
         agent'.key \in Nat, agent'.key >= agent.key,
         agent'.host \in Nat, agent'.host >= agent.host,
         now' \in Nat, now' >= now
  PROVE  rec # None => /\ rec.key <= agent'.key /\ rec.old <= agent'.key
                       /\ rec.host <= agent'.host
                       /\ rec.until <= now' + Grace
<1>1. agent.key \in Nat /\ agent.host \in Nat /\ now \in Nat /\ Grace \in Nat
  BY AgentKeysAssumption DEF KeysTypeOK, Identity, Keys, Hosts
<1>2. rec # None => /\ rec.key \in Nat /\ rec.host \in Nat /\ rec.old \in Nat
                    /\ rec.until \in Nat
  BY AgentKeysAssumption DEF Record, Keys, Hosts, NoKey
<1>3. QED
  BY <1>1, <1>2 DEF Past

\* A lookup or a decision copies a record, or stores one of the pending entry.
LEMMA PastCopies ==
  ASSUME IInv, RecordsArePast, NEW p \in Procs, DecisionStep(p)
  PROVE  RecordsArePast'
<1>1. UNCHANGED <<agent, now>> /\ \A q \in Procs : q # p => found'[q] = found[q]
  BY Elsewhere DEF IInv
<1>2. Past(None)
  BY DEF Past
<1>3. found'[p] \in {found[p], record, cache, None}
  BY DEF DecisionStep, Lookup, LookUp, Fetch, Fill, Answered, Return, Decision, GetPending,
         Put, Invalidate, PublishAccept, ClearAccept, PublishReject, ClearReject, Remove,
         Uncache, IInv, KeysTypeOK
<1>4. cache' \in {cache, found[p], None}
  BY DEF DecisionStep, Lookup, LookUp, Fetch, Fill, Decision, GetPending, Put, Invalidate,
         PublishAccept, ClearAccept, PublishReject, ClearReject, Remove, Uncache
<1>5. ASSUME record' = NewRecord(p), Put(p), p \in Deciders PROVE Past(record')
  <2>1. asked[p] # None /\ asked[p].key <= agent.key /\ asked[p].host <= agent.host
    BY <1>5 DEF IInv, DecidersOK, Knows, Accepting, Put, NothingAhead, Older
  <2>2. found[p] # None => found[p].key <= agent.key
    BY DEF RecordsArePast, Past
  <2>3. now \in Nat /\ Grace \in Nat /\ agent.key \in Nat
    BY AgentKeysAssumption DEF IInv, KeysTypeOK, Identity, Keys
  <2>4. since[p] + Grace <= now + Grace /\ 0 <= now + Grace /\ NoKey <= agent.key
    BY <1>1, <2>3 DEF NoKey, IInv, KeysTypeOK
  <2>5. CASE Replaces(p)
    <3>1. /\ record'.key = asked[p].key /\ record'.host = asked[p].host
          /\ record'.old = found[p].key /\ record'.until = since[p] + Grace
      BY <1>5, <2>5 DEF NewRecord
    <3>2. QED
      BY <2>1, <2>2, <2>4, <2>5, <3>1 DEF Past, Replaces
  <2>6. CASE ~Replaces(p)
    <3>1. /\ record'.key = asked[p].key /\ record'.host = asked[p].host
          /\ record'.old = NoKey /\ record'.until = 0
      BY <1>5, <2>6 DEF NewRecord
    <3>2. QED
      BY <2>1, <2>4, <3>1 DEF Past
  <2>7. QED
    BY <2>5, <2>6
<1>6. Past(record')
  <2>1. \/ Put(p) /\ p \in Deciders /\ record' \in {record, NewRecord(p)}
        \/ record' \in {record, None}
    BY RecordUntouched DEF Put, Stored, Remove
  <2>2. QED
    BY <1>2, <1>5, <2>1 DEF RecordsArePast
<1>7. QED
  BY <1>1, <1>2, <1>3, <1>4, <1>6 DEF RecordsArePast, Past

\* Every step keeps the copies in the past.
LEMMA PastStep ==
  ASSUME IInv, RecordsArePast, [Next]_vars
  PROVE  RecordsArePast'
<1> USE DEF agentVars, historyVars
<1>1. CASE Rekey \/ Rename \/ Tick
  <2>1. /\ UNCHANGED <<record, cache, found>>
        /\ agent'.key \in Nat /\ agent'.key >= agent.key
        /\ agent'.host \in Nat /\ agent'.host >= agent.host
        /\ now' \in Nat /\ now' >= now
    BY <1>1, AgentKeysAssumption
       DEF Rekey, Rename, Tick, IInv, KeysTypeOK, Identity, Keys, Hosts
  <2>2. {record, cache} \cup {found[p] : p \in Procs} \subseteq Record \cup {None}
    BY DEF IInv, KeysTypeOK
  <2>3. QED
    BY <2>1, <2>2, PastStays DEF IInv, RecordsArePast, Past
<1>2. CASE ReceiveRequest \/ UNCHANGED vars
  BY <1>2 DEF ReceiveRequest, vars, RecordsArePast, Past
<1>3. CASE Restart
  BY <1>3 DEF Restart, RecordsArePast, Past
<1>4. ASSUME NEW c \in Callers, NEW verdict, Decide(c, verdict) PROVE RecordsArePast'
  BY <1>4 DEF Decide, RecordsArePast, Past
<1>5. QED
  BY <1>1, <1>2, <1>3, <1>4, StepKinds, PastCopies

(***************************************************************************)
(* The other side of the two theorems above, for any sequence of requests, *)
(* decisions, lookups, faults and restarts: enrolling again, replacing a   *)
(* key or a stale cache never lets more verify.                            *)
(***************************************************************************)
THEOREM OnlyPastKeysVerify == Spec => []NothingElseVerifies
<1>1. Init => RecordsArePast
  BY DEF Init, RecordsArePast, Past
<1>2. IInv /\ RecordsArePast /\ [Next]_vars => RecordsArePast'
  BY PastStep
<1>3. IInv /\ RecordsArePast => NothingElseVerifies
  <2> SUFFICES ASSUME IInv, RecordsArePast, NEW key \in Keys, NEW host \in Hosts,
                      Verifies(key, host)
               PROVE  LET rec == IF cache # None THEN cache ELSE record IN
                      /\ key <= agent.key /\ host <= agent.host
                      /\ key # rec.key => now < rec.until /\ rec.until <= now + Grace
                      /\ record # None \/ Writing \/ "cache" \in causes
    BY DEF NothingElseVerifies
  <2> DEFINE rec == IF cache # None THEN cache ELSE record
  <2>1. /\ rec # None /\ key \in AcceptableKeys(rec) /\ host = rec.host
        /\ Past(rec)
    BY DEF Verifies, RecordsArePast
  <2>2. key = rec.key \/ (key = rec.old /\ now < rec.until)
    BY <2>1 DEF AcceptableKeys
  <2>3. record # None \/ Writing \/ "cache" \in causes
    BY <2>1 DEF IInv, CacheIsCurrent
  <2> HIDE DEF rec
  <2>4. key <= agent.key /\ host <= agent.host /\ rec.until <= now + Grace
    BY <2>1, <2>2 DEF Past
  <2>5. QED
    BY <2>2, <2>3, <2>4 DEF rec
<1>4. QED
  BY <1>1, <1>2, <1>3, KeysInvariance, PTL DEF Spec
=============================================================================
