-------------------------- MODULE BroadcastProofs --------------------------
(***************************************************************************)
(* Safety of Broadcast for every finite set of machines, every assignment  *)
(* of host names and labels, every listing of the registry and every       *)
(* number of answers.  Two arguments meet.  The early return compares a    *)
(* number of rows with a number of machines: expected machines have at     *)
(* most as many host names as there are of them, and exactly as many if no *)
(* two share one.  And whoever receives a subject is named by the target   *)
(* it was resolved from: what an agent subscribes to is what is below its  *)
(* label, its machine ID, and everybody's.                                 *)
(***************************************************************************)
EXTENDS Broadcast, FiniteSetTheorems, TLAPS

\* A timeout row names an expected host.
TimeoutsExpected == \A h \in Hostnames : rows[h] = "timeout" => Expected(h)

\* The snapshot is taken for broadcasts only, of machines the target names.
SnapshotOfBroadcast ==
    /\ ~collecting => expected = {}
    /\ \A m \in expected : Names(m)

ListedByBroadcast == call = "list" => collecting

\* Nobody is expected before the snapshot, nothing is reported before the watch.
NothingYet ==
    /\ call \in {"validate", "resolve", "store", "list"} => expected = {}
    /\ call \in {"validate", "resolve", "store", "list", "publish", "watch"} =>
           seen = 0 /\ \A h \in Hostnames : rows[h] = "none"

\* A host name is resolved to a machine that has it; everything else stays.
SubjectOfTarget ==
    \/ subject = target
    \/ /\ Routing(target) = "host"
       /\ \E m \in Machines : HostOf[m] = Value(target) /\ subject = Host(m)

\* Whoever answers is named.
AnswersNamed == \A i \in 1..Len(updates) : Names(updates[i])

\* What validation and resolution know of the listing they worked on.
ListingUsed ==
    /\ call = "resolve" => TRUE \in Verdicts(target, agents)
    /\ call = "store" => subject \in ResolvesTo(target, agents)
    /\ call = "store" /\ ~relisted => TRUE \in Verdicts(target, agents)

\* A broadcast that waits has not got enough rows.
NotEnoughYet ==
    collecting /\ call = "wait" /\ expected # {} =>
        Cardinality(Answered) < Cardinality(expected)

\* The inductive invariant.
IInv ==
    /\ TypeOK
    /\ RowsTellTheAnswers
    /\ ReportsAsManyAsExpected
    /\ TimeoutsExpected
    /\ SnapshotOfBroadcast /\ ListedByBroadcast
    /\ NothingYet
    /\ NotEnoughYet
    /\ SubjectOfTarget /\ AnswersNamed
    /\ ListingUsed
    /\ ExpectedReceive

-----------------------------------------------------------------------------
\* Machines have no more host names than there are of them, and as many if
\* they share none: what the early return of the call relies on.
LEMMA HostsOfMachines ==
    ASSUME NEW S \in SUBSET Machines
    PROVE  /\ IsFiniteSet(S) /\ IsFiniteSet({HostOf[m] : m \in S})
           /\ Cardinality(S) \in Nat /\ Cardinality({HostOf[m] : m \in S}) \in Nat
           /\ Cardinality({HostOf[m] : m \in S}) <= Cardinality(S)
           /\ (\A m, n \in S : HostOf[m] = HostOf[n] => m = n) =>
                  Cardinality({HostOf[m] : m \in S}) = Cardinality(S)
<1> DEFINE T == {HostOf[m] : m \in S}
           f == [m \in S |-> HostOf[m]]
<1>1. IsFiniteSet(S)
      BY FS_Subset, TargetsAssumption
<1>2. f \in Surjection(S, T)
      BY DEF Surjection
<1>3. IsFiniteSet(T) /\ Cardinality(T) <= Cardinality(S)
      /\ (Cardinality(T) = Cardinality(S) <=> f \in Injection(S, T))
      BY <1>1, <1>2, FS_Surjection
<1>4. ASSUME \A m, n \in S : HostOf[m] = HostOf[n] => m = n
      PROVE  f \in Injection(S, T)
      BY <1>4 DEF Injection, IsInjective
<1> QED BY <1>1, <1>3, <1>4, FS_CardinalityType

\* The responses map never has more entries than there are host names.
LEMMA HostnamesFinite ==
    ASSUME NEW A \in SUBSET Hostnames, NEW B \in SUBSET A
    PROVE  /\ IsFiniteSet(A) /\ Cardinality(A) \in Nat /\ Cardinality(B) \in Nat
           /\ Cardinality(B) <= Cardinality(A)
<1>1. IsFiniteSet(Hostnames)
      BY HostsOfMachines DEF Hostnames
<1> QED BY <1>1, FS_Subset, FS_CardinalityType

\* The initial state satisfies the inductive invariant.
LEMMA InitIInv == Init => IInv
<1> SUFFICES ASSUME Init PROVE IInv
    OBVIOUS
<1>1. Nobody \in Listings
      BY DEF Nobody, Listings
<1>2. TypeOK
  <2>1. updates \in Seq(Machines) /\ Len(updates) = 0
        BY DEF Init
  <2>2. Len(updates) <= MaxAnswers /\ seen \in 0..Len(updates)
        BY <2>1, BroadcastAssumption DEF Init
  <2> QED BY <1>1, <2>1, <2>2 DEF Init, TypeOK
<1>3. \A i \in 1..Len(updates) : FALSE
      BY DEF Init
<1> QED BY <1>2, <1>3
        DEF Init, IInv, RowsTellTheAnswers, ReportsAsManyAsExpected, TimeoutsExpected,
            SnapshotOfBroadcast, ListedByBroadcast, NothingYet, NotEnoughYet,
            SubjectOfTarget, AnswersNamed, ListingUsed, ExpectedReceive

-----------------------------------------------------------------------------
\* A target is one of the four kinds, and its kind is its routing type.
LEMMA KindsOfTargets ==
    ASSUME TypeOK
    PROVE  \/ target \in {AnyHost, BroadcastHost} /\ Routing(target) \in {"_any", "_all"}
           \/ /\ Routing(target) = "label" /\ target = Label(Value(target))
              /\ Value(target) \in Seq(STRING) \ {<<>>}
           \/ Routing(target) = "host" /\ target = Host(Value(target))
BY BroadcastAssumption DEF TypeOK, AnyHost, BroadcastHost, Routing

\* An agent that receives the subject of a label target has a label below it.
LEMMA SubscribedIsUnder ==
    ASSUME NEW m \in Machines, NEW value, Label(value) \in Filters(m)
    PROVE  Under(LabelOf[m], value)
<1>1. PICK i \in 1..Len(LabelOf[m]) : Label(value) = Label(SubSeq(LabelOf[m], 1, i))
      BY DEF Filters, Label, AnyHost, BroadcastHost, Host
<1>2. value = SubSeq(LabelOf[m], 1, i)
      BY <1>1 DEF Label
<1>3. LabelOf[m] \in Seq(STRING)
      BY TargetsAssumption
<1>4. Len(value) = i
      BY <1>2, <1>3
<1> QED BY <1>2, <1>3, <1>4 DEF Under

\* ... and an agent with a label below it receives it.
LEMMA UnderIsSubscribed ==
    ASSUME NEW m \in Machines, NEW value \in Seq(STRING) \ {<<>>},
           Under(LabelOf[m], value)
    PROVE  Label(value) \in Filters(m)
<1>1. LabelOf[m] \in Seq(STRING)
      BY TargetsAssumption
<1>2. Len(value) \in 1..Len(LabelOf[m])
      BY <1>1 DEF Under
<1> QED BY <1>2 DEF Filters, Under

\* Whoever receives the job is named by the target.
LEMMA ReceiversNamed ==
    ASSUME TypeOK, SubjectOfTarget, NEW m \in Machines, Receives(m, subject)
    PROVE  Names(m)
<1>1. CASE subject = target
  <2>1. CASE Routing(target) = "label"
        BY <1>1, <2>1, KindsOfTargets, SubscribedIsUnder DEF Receives, Names
  <2>2. CASE Routing(target) = "host"
    <3>1. target = Host(Value(target)) /\ target \in Filters(m)
          BY <1>1, <2>2, KindsOfTargets DEF Receives, AnyHost, BroadcastHost, Routing
    <3>2. Host(Value(target)) = Host(m)
          BY <3>1 DEF Filters, Host, AnyHost, BroadcastHost, Label
    <3> QED BY <2>2, <3>2 DEF Host, Names
  <2> QED BY <2>1, <2>2, KindsOfTargets DEF Names
<1>2. CASE /\ Routing(target) = "host"
           /\ \E n \in Machines : HostOf[n] = Value(target) /\ subject = Host(n)
  <2>1. PICK n \in Machines : HostOf[n] = Value(target) /\ subject = Host(n)
        BY <1>2
  <2>2. Host(n) = Host(m)
        BY <2>1 DEF Receives, Filters, Host, AnyHost, BroadcastHost, Label
  <2> QED BY <1>2, <2>1, <2>2 DEF Host, Names
<1> QED BY <1>1, <1>2 DEF SubjectOfTarget

\* Whom a listing makes the call expect, the target names, and the job reaches.
LEMMA ExpectedAreNamed ==
    ASSUME TypeOK, SubjectOfTarget, NEW listing \in Listings,
           NEW m \in ExpectedOf(target, listing)
    PROVE  m \in Machines /\ Names(m) /\ Receives(m, subject)
<1>1. m \in Machines
      BY DEF ExpectedOf, CanReceiveJobs, Listings
<1>2. Routing(target) \in {"_all", "label"} /\ subject = target
      BY DEF ExpectedOf, SubjectOfTarget
<1>3. CASE Routing(target) = "_all"
  <2>1. target \in {AnyHost, BroadcastHost}
        BY <1>3, KindsOfTargets
  <2> QED BY <1>1, <1>2, <1>3, <2>1 DEF Names, Receives, Filters
<1>4. CASE Routing(target) = "label"
  <2>1. Under(LabelOf[m], Value(target))
        BY <1>4 DEF ExpectedOf
  <2>2. target = Label(Value(target)) /\ Value(target) \in Seq(STRING) \ {<<>>}
        BY <1>4, KindsOfTargets DEF AnyHost, BroadcastHost, Routing
  <2> QED BY <1>1, <1>2, <1>4, <2>1, <2>2, UnderIsSubscribed DEF Names, Receives
<1> QED BY <1>2, <1>3, <1>4

-----------------------------------------------------------------------------
\* An answer that nobody has read yet tells the call nothing.
LEMMA AnswerIInv ==
    ASSUME IInv, NEW m \in Machines, Answer(m)
    PROVE  IInv'
<1> USE DEF IInv
<1>1. /\ updates' = Append(updates, m) /\ Len(updates) < MaxAnswers
      /\ Receives(m, subject)
      /\ UNCHANGED <<request, call, expected, seen, rows>>
      BY DEF Answer
<1>2. updates' \in Seq(Machines) /\ Len(updates') = Len(updates) + 1
      BY <1>1 DEF TypeOK
<1>3. TypeOK'
  <2>1. Len(updates') <= MaxAnswers /\ seen' \in 0..Len(updates')
        BY <1>1, <1>2, BroadcastAssumption DEF TypeOK
  <2> QED BY <1>1, <1>2, <2>1 DEF TypeOK, request
<1>4. \A i \in 1..Len(updates) : updates'[i] = updates[i]
      BY <1>1 DEF TypeOK
<1>5. RowsTellTheAnswers'
  <2>1. \A i \in 1..seen : updates'[i] = updates[i]
        BY <1>4 DEF TypeOK
  <2> QED BY <1>1, <2>1 DEF RowsTellTheAnswers
<1>6. AnswersNamed'
  <2>1. Names(m)
        BY <1>1, ReceiversNamed
  <2>2. SUFFICES ASSUME NEW i \in 1..Len(updates')
                 PROVE  Names(updates'[i])
        BY <1>1 DEF AnswersNamed, Names, request
  <2>3. CASE i \in 1..Len(updates)
        BY <2>3, <1>4 DEF AnswersNamed
  <2>4. CASE i = Len(updates) + 1
        BY <2>1, <2>4, <1>1 DEF TypeOK
  <2> QED BY <2>3, <2>4, <1>2 DEF TypeOK
<1>7. ReportsAsManyAsExpected' /\ TimeoutsExpected' /\ NotEnoughYet'
      BY <1>1 DEF ReportsAsManyAsExpected, TimeoutsExpected, NotEnoughYet, Expected,
                  Answered, collecting, request
<1> QED BY <1>1, <1>3, <1>5, <1>6, <1>7
        DEF SnapshotOfBroadcast, ListedByBroadcast, NothingYet, SubjectOfTarget,
            ListingUsed, ExpectedReceive, Names, collecting, request

\* While the request is validated and resolved, nothing else happens.
LEMMA RequestIInv ==
    ASSUME IInv, Validate \/ Resolve
    PROVE  IInv'
<1> USE DEF IInv
<1>1. /\ UNCHANGED <<target, updates, expected, seen, rows>>
      /\ call \in {"validate", "resolve"} /\ call' \in {"resolve", "store", "error"}
      BY DEF Validate, Resolve
<1>2. expected = {} /\ seen = 0 /\ \A h \in Hostnames : rows[h] = "none"
      BY <1>1 DEF NothingYet
<1>3. agents' \in Listings /\ relisted' \in BOOLEAN
      BY DEF Validate, Resolve, TypeOK
<1>4. SubjectOfTarget' /\ subject' \in Asked \cup {Host(m) : m \in Machines}
  <2>1. CASE Validate
        BY <2>1 DEF Validate, SubjectOfTarget, TypeOK
  <2>2. CASE Resolve
    <3>1. subject' \in ResolvesTo(target, agents') /\ target' = target
          BY <2>2 DEF Resolve
    <3>2. DOMAIN agents' \subseteq Machines
          BY <1>3 DEF Listings
    <3>3. \/ subject' = target
          \/ /\ Routing(target) = "host"
             /\ \E m \in Machines : HostOf[m] = Value(target) /\ subject' = Host(m)
          BY <3>1, <3>2 DEF ResolvesTo, Resolvable
    <3> QED BY <3>1, <3>3 DEF SubjectOfTarget, TypeOK
  <2> QED BY <2>1, <2>2
<1>5. TypeOK'
      BY <1>1, <1>3, <1>4 DEF TypeOK
<1>6. ListingUsed'
      BY DEF ListingUsed, Validate, Resolve
<1> QED BY <1>1, <1>2, <1>4, <1>5, <1>6
        DEF RowsTellTheAnswers, ReportsAsManyAsExpected, TimeoutsExpected, Expected,
            SnapshotOfBroadcast, ListedByBroadcast, NothingYet, NotEnoughYet,
            AnswersNamed, ExpectedReceive, Names, collecting

\* Until the watch, no row and no update changes.
LEMMA BeforeWaitIInv ==
    ASSUME IInv, StoreJob \/ SnapshotExpected \/ Publish \/ Watch
    PROVE  IInv'
<1> USE DEF IInv
<1>1. /\ UNCHANGED <<target, relisted, subject, updates, seen, rows>>
      /\ call \in {"store", "list", "publish", "watch"}
      /\ call' \in {"list", "publish", "watch", "wait", "error"}
      BY DEF StoreJob, SnapshotExpected, Publish, Watch, request
<1>2. seen = 0 /\ \A h \in Hostnames : rows[h] = "none"
      BY <1>1 DEF NothingYet
<1>3. /\ expected' \in SUBSET Machines
      /\ \A m \in expected' : Names(m) /\ Receives(m, subject)
      /\ ~collecting => expected' = {}
  <2>1. CASE SnapshotExpected
    <3>1. PICK listing \in Listings : expected' = ExpectedOf(target, listing)
          BY <2>1 DEF SnapshotExpected
    <3>2. collecting
          BY <2>1 DEF SnapshotExpected, ListedByBroadcast
    <3> QED BY <3>1, <3>2, ExpectedAreNamed
  <2>2. CASE ~SnapshotExpected
        BY <2>2 DEF StoreJob, Publish, Watch, TypeOK, SnapshotOfBroadcast, ExpectedReceive
  <2> QED BY <2>1, <2>2
<1>4. agents' \in Listings
  <2>1. Nobody \in Listings
        BY DEF Nobody, Listings
  <2> QED BY <2>1 DEF StoreJob, SnapshotExpected, Publish, Watch, request, TypeOK
<1>5. TypeOK'
      BY <1>1, <1>3, <1>4 DEF TypeOK
<1>6. SnapshotOfBroadcast' /\ ExpectedReceive' /\ AnswersNamed' /\ SubjectOfTarget'
      BY <1>1, <1>3 DEF SnapshotOfBroadcast, ExpectedReceive, AnswersNamed, SubjectOfTarget,
                        Names, collecting
<1>7. NothingYet' /\ ListedByBroadcast' /\ ListingUsed'
      BY <1>1, <1>2 DEF NothingYet, ListedByBroadcast, ListingUsed, StoreJob,
                        SnapshotExpected, Publish, Watch, collecting
<1>8. RowsTellTheAnswers' /\ TimeoutsExpected' /\ ReportsAsManyAsExpected'
      BY <1>1, <1>2 DEF RowsTellTheAnswers, TimeoutsExpected, ReportsAsManyAsExpected
<1>9. NotEnoughYet'
  <2>1. SUFFICES ASSUME call' = "wait", expected' # {}
                 PROVE  Cardinality(Answered') < Cardinality(expected')
        BY DEF NotEnoughYet
  <2>2. Answered' = {}
        BY <1>1, <1>2 DEF Answered
  <2>3. IsFiniteSet(expected') /\ Cardinality(expected') \in Nat
        BY <1>3, HostsOfMachines
  <2> QED BY <2>1, <2>2, <2>3, FS_EmptySet
<1> QED BY <1>5, <1>6, <1>7, <1>8, <1>9

\* The update that comes next, and the row it is for.
LEMMA NextUpdateType ==
    ASSUME TypeOK, seen < Len(updates)
    PROVE  /\ NextUpdate \in Machines /\ HostOf[NextUpdate] \in Hostnames
           /\ seen + 1 \in 0..Len(updates)
BY DEF TypeOK, NextUpdate, Hostnames

\* What the rows say after the next update has been handled.
LEMMA RowsAfterUpdate ==
    ASSUME IInv, seen < Len(updates), seen' = seen + 1, UNCHANGED updates,
           rows' = IF NextUpdate \in Unverifiable
                   THEN rows
                   ELSE [rows EXCEPT ![HostOf[NextUpdate]] = "answered"]
    PROVE  RowsTellTheAnswers' /\ rows' \in [Hostnames -> {"none", "answered", "timeout"}]
<1>1. /\ NextUpdate \in Machines /\ HostOf[NextUpdate] \in Hostnames
      /\ NextUpdate = updates[seen + 1]
      BY NextUpdateType DEF IInv, NextUpdate
<1>2. rows' \in [Hostnames -> {"none", "answered", "timeout"}]
      BY <1>1 DEF IInv, TypeOK
<1>3. ASSUME NEW h \in Hostnames
      PROVE  (rows'[h] = "answered") <=>
                 \E i \in 1..seen' : updates'[i] \notin Unverifiable
                                     /\ HostOf[updates'[i]] = h
  <2>1. seen \in Nat
        BY DEF IInv, TypeOK
  <2>2. (\E i \in 1..seen' : updates'[i] \notin Unverifiable /\ HostOf[updates'[i]] = h)
        <=> \/ \E i \in 1..seen : updates[i] \notin Unverifiable /\ HostOf[updates[i]] = h
            \/ NextUpdate \notin Unverifiable /\ HostOf[NextUpdate] = h
        BY <2>1, <1>1
  <2>3. (rows[h] = "answered") <=>
            \E i \in 1..seen : updates[i] \notin Unverifiable /\ HostOf[updates[i]] = h
        BY DEF IInv, RowsTellTheAnswers
  <2>4. rows'[h] = IF NextUpdate \notin Unverifiable /\ HostOf[NextUpdate] = h
                   THEN "answered" ELSE rows[h]
        BY <1>1 DEF IInv, TypeOK
  <2> QED BY <2>2, <2>3, <2>4
<1> QED BY <1>2, <1>3 DEF RowsTellTheAnswers

\* What concerns the target stays once the call waits.
LEMMA TargetKept ==
    ASSUME IInv, call = "wait", call' \in {"wait", "returned", "error"},
           UNCHANGED <<target, agents, relisted, subject, updates, expected>>
    PROVE  /\ SnapshotOfBroadcast' /\ ListedByBroadcast' /\ NothingYet'
           /\ SubjectOfTarget' /\ AnswersNamed' /\ ListingUsed' /\ ExpectedReceive'
           /\ collecting' = collecting /\ \A h \in Hostnames : Expected(h)' = Expected(h)
BY DEF IInv, SnapshotOfBroadcast, ListedByBroadcast, NothingYet, SubjectOfTarget,
       AnswersNamed, ListingUsed, ExpectedReceive, Names, collecting, Expected

\* A broadcast handles one response; enough rows end it.
LEMMA HandleUpdateIInv ==
    ASSUME IInv, DropUpdate \/ CollectUpdate
    PROVE  IInv'
<1> USE DEF IInv
<1>1. /\ seen < Len(updates) /\ collecting /\ call = "wait"
      /\ seen' = seen + 1
      /\ UNCHANGED <<target, agents, relisted, subject, updates, expected>>
      /\ rows' = IF NextUpdate \in Unverifiable
                 THEN rows
                 ELSE [rows EXCEPT ![HostOf[NextUpdate]] = "answered"]
      BY DEF DropUpdate, CollectUpdate, request
<1>2. RowsTellTheAnswers' /\ rows' \in [Hostnames -> {"none", "answered", "timeout"}]
      BY <1>1, RowsAfterUpdate
<1>3. call' \in {"wait", "returned"}
      BY <1>1 DEF DropUpdate, CollectUpdate
<1>4. TypeOK'
      BY <1>1, <1>2, <1>3 DEF TypeOK
<1>5. TimeoutsExpected'
  <2>1. ASSUME NEW h \in Hostnames, rows'[h] = "timeout"
        PROVE  rows[h] = "timeout"
        BY <2>1, <1>1, NextUpdateType DEF TypeOK
  <2> QED BY <1>1, <2>1 DEF TimeoutsExpected, Expected
<1>9. /\ SnapshotOfBroadcast' /\ ListedByBroadcast' /\ NothingYet'
      /\ SubjectOfTarget' /\ AnswersNamed' /\ ListingUsed' /\ ExpectedReceive'
      BY <1>1, <1>3, TargetKept
<1>6. Answered \subseteq Answered' /\ Answered' \subseteq Hostnames
  <2>1. ASSUME NEW h \in Hostnames, rows[h] # "none"
        PROVE  rows'[h] # "none"
        BY <2>1, <1>1, NextUpdateType DEF TypeOK
  <2> QED BY <2>1 DEF Answered
<1>7. CASE call' = "returned"
  <2>1. EnoughAnswers
        BY <1>7 DEF DropUpdate, CollectUpdate
  <2>2. Cardinality(Answered') >= Cardinality(expected)
        BY <2>1 DEF EnoughAnswers
  <2>3. /\ Cardinality({HostOf[m] : m \in expected}) <= Cardinality(expected)
        /\ Cardinality({HostOf[m] : m \in expected}) \in Nat
        /\ Cardinality(expected) \in Nat
        BY HostsOfMachines DEF TypeOK
  <2>4. Cardinality(Answered') \in Nat
        BY <1>6, HostnamesFinite
  <2>5. Cardinality(Answered') >= Cardinality({HostOf[m] : m \in expected'})
        BY <2>2, <2>3, <2>4, <1>1
  <2>6. ReportsAsManyAsExpected'
        BY <2>5, <1>5 DEF ReportsAsManyAsExpected, TimeoutsExpected, Expected
  <2>7. NotEnoughYet'
        BY <1>7 DEF NotEnoughYet
  <2> QED BY <1>2, <1>4, <1>5, <1>9, <2>6, <2>7
<1>8. CASE call' = "wait"
  <2>1. ReportsAsManyAsExpected'
        BY <1>8 DEF ReportsAsManyAsExpected
  <2>2. ASSUME expected' # {}
        PROVE  Cardinality(Answered') < Cardinality(expected')
    <3>1. CASE DropUpdate
      <4>1. Answered' = Answered /\ expected' = expected
            BY <3>1 DEF DropUpdate, Answered
      <4> QED BY <4>1, <2>2, <1>1 DEF NotEnoughYet
    <3>2. CASE CollectUpdate
      <4>1. ~EnoughAnswers
            BY <3>2, <1>8 DEF CollectUpdate
      <4>2. Cardinality(Answered') \in Nat /\ Cardinality(expected) \in Nat
            BY <1>6, HostnamesFinite, HostsOfMachines DEF TypeOK
      <4> QED BY <4>1, <4>2, <2>2, <1>1 DEF EnoughAnswers
    <3> QED BY <3>1, <3>2
  <2>3. NotEnoughYet'
        BY <2>2 DEF NotEnoughYet
  <2> QED BY <1>2, <1>4, <1>5, <1>9, <2>1, <2>3
<1> QED BY <1>3, <1>7, <1>8

\* A call to one target ends with the first response.
LEMMA TakeFirstIInv ==
    ASSUME IInv, TakeFirst
    PROVE  IInv'
<1> USE DEF IInv
<1>1. /\ seen < Len(updates) /\ ~collecting /\ call = "wait"
      /\ seen' = seen + 1 /\ call' \in {"returned", "error"}
      /\ UNCHANGED <<target, agents, relisted, subject, updates, expected>>
      /\ rows' = IF NextUpdate \in Unverifiable
                 THEN rows
                 ELSE [rows EXCEPT ![HostOf[NextUpdate]] = "answered"]
      BY DEF TakeFirst, request
<1>2. RowsTellTheAnswers' /\ rows' \in [Hostnames -> {"none", "answered", "timeout"}]
      BY <1>1, RowsAfterUpdate
<1>3. TypeOK'
      BY <1>1, <1>2 DEF TypeOK
<1>4. TimeoutsExpected'
  <2>1. ASSUME NEW h \in Hostnames, rows'[h] = "timeout"
        PROVE  rows[h] = "timeout"
        BY <2>1, <1>1, NextUpdateType DEF TypeOK
  <2> QED BY <1>1, <2>1 DEF TimeoutsExpected, Expected
<1>5. ReportsAsManyAsExpected' /\ NotEnoughYet'
      BY <1>1 DEF ReportsAsManyAsExpected, NotEnoughYet, collecting
<1> QED BY <1>1, <1>2, <1>3, <1>4, <1>5, TargetKept

\* The deadline gives the expected hosts that are missing their rows.
LEMMA DeadlineIInv ==
    ASSUME IInv, Deadline
    PROVE  IInv'
<1> USE DEF IInv
<1>1. /\ call = "wait" /\ call' \in {"returned", "error"}
      /\ UNCHANGED <<target, agents, relisted, subject, updates, expected, seen>>
      BY DEF Deadline, request
<1>4. /\ SnapshotOfBroadcast' /\ ListedByBroadcast' /\ NothingYet'
      /\ SubjectOfTarget' /\ AnswersNamed' /\ ListingUsed' /\ ExpectedReceive'
      BY <1>1, TargetKept
<1>2. CASE Answered = {}
  <2>1. call' = "error" /\ rows' = rows
        BY <1>2 DEF Deadline
  <2>2. TypeOK' /\ RowsTellTheAnswers'
        BY <1>1, <2>1 DEF TypeOK, RowsTellTheAnswers
  <2> QED BY <1>1, <1>4, <2>1, <2>2
          DEF ReportsAsManyAsExpected, TimeoutsExpected, Expected, NotEnoughYet
<1>3. CASE Answered # {}
  <2>1. call' = "returned" /\ rows' = [h \in Hostnames |-> RowAtDeadline(h)]
        BY <1>3 DEF Deadline
  <2>2. ASSUME NEW h \in Hostnames
        PROVE  /\ rows'[h] \in {"none", "answered", "timeout"}
               /\ (rows'[h] = "answered") <=> (rows[h] = "answered")
               /\ rows'[h] = "timeout" => Expected(h)
               /\ Expected(h) => rows'[h] # "none"
        BY <2>1 DEF RowAtDeadline, Answered, TypeOK, TimeoutsExpected
  <2>3. TypeOK'
        BY <1>1, <2>1, <2>2 DEF TypeOK
  <2>4. RowsTellTheAnswers'
        BY <1>1, <2>2 DEF RowsTellTheAnswers
  <2>5. TimeoutsExpected'
        BY <1>1, <2>2 DEF TimeoutsExpected, Expected
  <2>6. {HostOf[m] : m \in expected} \subseteq Answered' /\ Answered' \subseteq Hostnames
        BY <2>2 DEF TypeOK, Answered, Expected, Hostnames
  <2>7. Cardinality(Answered') >= Cardinality({HostOf[m] : m \in expected'})
        BY <1>1, <2>6, HostnamesFinite
  <2>8. ReportsAsManyAsExpected'
        BY <2>5, <2>7 DEF ReportsAsManyAsExpected, TimeoutsExpected, Expected
  <2> QED BY <1>1, <1>4, <2>1, <2>3, <2>4, <2>5, <2>8 DEF NotEnoughYet
<1> QED BY <1>2, <1>3

\* Every step preserves the inductive invariant.
LEMMA StepIInv == IInv /\ [Next]_vars => IInv'
<1>1. SUFFICES ASSUME IInv, [Next]_vars
               PROVE  IInv'
      OBVIOUS
<1>2. CASE Next
      BY <1>1, <1>2, AnswerIInv, RequestIInv, BeforeWaitIInv, HandleUpdateIInv,
         TakeFirstIInv, DeadlineIInv
         DEF Next, CallStep
<1>3. CASE UNCHANGED vars
  <2>1. TypeOK' /\ RowsTellTheAnswers' /\ ReportsAsManyAsExpected' /\ TimeoutsExpected'
        BY <1>1, <1>3 DEF vars, request, IInv, TypeOK, RowsTellTheAnswers, Answered,
                          ReportsAsManyAsExpected, TimeoutsExpected, Expected, collecting
  <2>2. SnapshotOfBroadcast' /\ ListedByBroadcast' /\ NothingYet' /\ NotEnoughYet'
        BY <1>1, <1>3 DEF vars, request, IInv, SnapshotOfBroadcast, ListedByBroadcast,
                          NothingYet, NotEnoughYet, Answered, Names, collecting
  <2>3. SubjectOfTarget' /\ AnswersNamed' /\ ListingUsed' /\ ExpectedReceive'
        BY <1>1, <1>3 DEF vars, request, IInv, SubjectOfTarget, AnswersNamed, ListingUsed,
                          ExpectedReceive, Names
  <2> QED BY <2>1, <2>2, <2>3 DEF IInv
<1> QED BY <1>1, <1>2, <1>3

\* The inductive invariant holds throughout.
THEOREM BroadcastInvariance == Spec => []IInv
BY InitIInv, StepIInv, PTL DEF Spec

\* The call's variables keep their types.
THEOREM BroadcastTypeCorrectness == Spec => []TypeOK
<1>1. IInv => TypeOK
      BY DEF IInv
<1> QED BY <1>1, BroadcastInvariance, PTL

\* A row says "answered" for exactly the hosts whose verified response the
\* watcher delivered.
THEOREM RowsTellAnswers == Spec => []RowsTellTheAnswers
<1>1. IInv => RowsTellTheAnswers
      BY DEF IInv
<1> QED BY <1>1, BroadcastInvariance, PTL

\* A broadcast that returns reports on as many hosts as it expected.
THEOREM ReportsEnough == Spec => []ReportsAsManyAsExpected
<1>1. IInv => ReportsAsManyAsExpected
      BY DEF IInv
<1> QED BY <1>1, BroadcastInvariance, PTL

\* A broadcast that waits lacks the answer of an expected host, if no two
\* expected machines share a host name: the early return is never missed.
THEOREM WaitsForSomebody == Spec => []WaitsOnlyForTheMissing
<1>1. ASSUME IInv PROVE WaitsOnlyForTheMissing
  <2>1. SUFFICES ASSUME call = "wait", expected # {},
                        \A m, n \in expected : HostOf[m] = HostOf[n] => m = n,
                        \A m \in expected : rows[HostOf[m]] # "none"
                 PROVE  FALSE
        BY DEF WaitsOnlyForTheMissing
  <2>2. Cardinality(Answered) < Cardinality(expected)
        BY <1>1, <2>1 DEF IInv, NotEnoughYet, SnapshotOfBroadcast
  <2>3. expected \in SUBSET Machines
        BY <1>1 DEF IInv, TypeOK
  <2>4. Cardinality({HostOf[m] : m \in expected}) = Cardinality(expected)
        /\ Cardinality(expected) \in Nat
        BY <2>1, <2>3, HostsOfMachines
  <2>5. {HostOf[m] : m \in expected} \subseteq Answered /\ Answered \subseteq Hostnames
        BY <2>1, <2>3 DEF Answered, Hostnames
  <2>6. Cardinality({HostOf[m] : m \in expected}) <= Cardinality(Answered)
        /\ Cardinality(Answered) \in Nat
        BY <2>5, HostnamesFinite
  <2> QED BY <2>2, <2>4, <2>6
<1>2. IInv => WaitsOnlyForTheMissing
      BY <1>1
<1> QED BY <1>2, BroadcastInvariance, PTL

\* Only hosts the target names have a row.
THEOREM NamedHostsOnly == Spec => []OnlyNamedHostsReported
<1>1. ASSUME IInv PROVE OnlyNamedHostsReported
  <2>1. SUFFICES ASSUME NEW h \in Hostnames, rows[h] # "none"
                 PROVE  \E m \in Machines : HostOf[m] = h /\ Names(m)
        BY DEF OnlyNamedHostsReported
  <2>2. CASE rows[h] = "answered"
    <3>1. PICK i \in 1..seen : HostOf[updates[i]] = h
          BY <1>1, <2>2 DEF IInv, RowsTellTheAnswers
    <3>2. i \in 1..Len(updates) /\ updates[i] \in Machines
          BY <1>1 DEF IInv, TypeOK
    <3> QED BY <1>1, <3>1, <3>2 DEF IInv, AnswersNamed
  <2>3. CASE rows[h] = "timeout"
        BY <1>1, <2>3 DEF IInv, TimeoutsExpected, Expected, SnapshotOfBroadcast, TypeOK
  <2> QED BY <1>1, <2>1, <2>2, <2>3 DEF IInv, TypeOK
<1>2. IInv => OnlyNamedHostsReported
      BY <1>1
<1> QED BY <1>2, BroadcastInvariance, PTL

\* Every machine the call expects receives the job.
THEOREM ExpectedMachinesReceive == Spec => []ExpectedReceive
<1>1. IInv => ExpectedReceive
      BY DEF IInv
<1> QED BY <1>1, BroadcastInvariance, PTL

\* A valid target resolved in the same listing goes to a machine of its name.
THEOREM ValidTargetsAreRouted == Spec => []ValidTargetIsRouted
<1>1. ASSUME IInv PROVE ValidTargetIsRouted
  <2> DEFINE named == NamedBy(agents, Value(target))
  <2>1. SUFFICES ASSUME call = "store", Routing(target) = "host", ~relisted
                 PROVE  \E m \in named : /\ Receives(m, subject)
                                         /\ agents[m] # "Pending" \/ named # {m}
        BY DEF ValidTargetIsRouted
  <2>2. TRUE \in Verdicts(target, agents) /\ subject \in ResolvesTo(target, agents)
        BY <1>1, <2>1 DEF IInv, ListingUsed
  <2>3. PICK m \in named : agents[m] # "Pending"
        BY <2>1, <2>2 DEF Verdicts
  <2>4. named \subseteq Machines
        BY <1>1 DEF NamedBy, Resolvable, IInv, TypeOK, Listings
  <2>5. \E n \in named : Receives(n, subject)
    <3> DEFINE claimed == \E n \in Resolvable(agents) : HostOf[n] = Value(target)
    <3>1. CASE claimed
      <4>1. PICK n \in Resolvable(agents) : HostOf[n] = Value(target) /\ subject = Host(n)
            BY <2>1, <2>2, <3>1 DEF ResolvesTo
      <4> QED BY <4>1 DEF NamedBy, Receives, Filters
    <3>2. CASE ~claimed
      <4>1. subject = target /\ Value(target) = m
            BY <2>2, <2>3, <3>2 DEF ResolvesTo, NamedBy
      <4>2. target = Host(Value(target))
            BY <1>1, <2>1, KindsOfTargets DEF IInv, AnyHost, BroadcastHost, Routing
      <4> QED BY <4>1, <4>2, <2>3 DEF Receives, Filters
    <3> QED BY <3>1, <3>2
  <2>6. PICK n \in named : Receives(n, subject)
        BY <2>5
  <2>7. CASE n = m
        BY <2>3, <2>6, <2>7
  <2>8. CASE n # m
        BY <2>3, <2>6, <2>8
  <2> QED BY <2>7, <2>8
<1>2. IInv => ValidTargetIsRouted
      BY <1>1
<1> QED BY <1>2, BroadcastInvariance, PTL

-----------------------------------------------------------------------------
(***************************************************************************)
(* The rows a broadcast may lack.                                          *)
(***************************************************************************)
\* Somebody answered whom the snapshot of the registry did not expect.
AnOutsiderAnswered == \E h \in Hostnames : rows[h] = "answered" /\ ~Expected(h)

(***************************************************************************)
(* "Return early when all expected agents have responded" (client.go:659)  *)
(* holds of every broadcast that nobody answers but the hosts its snapshot *)
(* expected: an expected host without a row costs an answer of an outsider *)
(* that was counted in its place, and nothing else makes a row go missing. *)
(***************************************************************************)
THEOREM MissingRowsHaveOutsiders ==
    Spec => [](EveryExpectedHasRow \/ AnOutsiderAnswered)
<1>1. IInv => EveryExpectedHasRow \/ AnOutsiderAnswered
  <2> SUFFICES ASSUME IInv, collecting, call = "returned", ~AnOutsiderAnswered,
                      NEW m \in expected, rows[HostOf[m]] = "none"
               PROVE  FALSE
      BY DEF EveryExpectedHasRow
  <2> DEFINE T == {HostOf[n] : n \in expected}
  <2>1. expected \in SUBSET Machines /\ HostOf[m] \in T /\ T \in SUBSET Hostnames
        BY DEF IInv, TypeOK, Hostnames
  <2>2. Cardinality(Answered) >= Cardinality(T)
        BY DEF IInv, ReportsAsManyAsExpected
  <2>3. Answered \subseteq T
    <3>1. ASSUME NEW h \in Answered PROVE Expected(h)
      <4>1. h \in Hostnames /\ rows[h] \in {"answered", "timeout"}
            BY DEF Answered, IInv, TypeOK
      <4> QED BY <4>1 DEF AnOutsiderAnswered, IInv, TimeoutsExpected
    <3> QED BY <3>1 DEF Expected
  <2>4. HostOf[m] \notin Answered
        BY DEF Answered
  <2>5. IsFiniteSet(T)
        BY <2>1, HostsOfMachines
  <2>6. Answered # T
        BY <2>1, <2>4
  <2>7. Cardinality(Answered) <= Cardinality(T)
        /\ (Cardinality(Answered) = Cardinality(T) => Answered = T)
        BY <2>3, <2>5, FS_Subset
  <2>8. Cardinality(Answered) \in Nat /\ Cardinality(T) \in Nat
        BY <2>3, <2>5, FS_Subset, FS_CardinalityType
  <2> QED BY <2>2, <2>6, <2>7, <2>8
<1> QED BY <1>1, BroadcastInvariance, PTL

-----------------------------------------------------------------------------
(***************************************************************************)
(* The end of the call.                                                    *)
(***************************************************************************)
\* How far a call at c is.
Stage(c) ==
    IF c = "validate" THEN 0
    ELSE IF c = "resolve" THEN 1
    ELSE IF c = "store" THEN 2
    ELSE IF c = "list" THEN 3
    ELSE IF c = "publish" THEN 4
    ELSE IF c = "watch" THEN 5
    ELSE IF c = "wait" THEN 6
    ELSE 7

\* Answers leave the call alone; its own steps take it forward, up to a bound.
CallAdvances ==
    [][/\ \/ UNCHANGED <<call, expected, seen, rows>>
          \/ Stage(call') + seen' > Stage(call) + seen
       /\ Stage(call') + seen' <= 7 + MaxAnswers
       /\ call \in {"returned", "error"} => UNCHANGED <<call, expected, seen, rows>>]_vars

\* The order of the call's steps.
LEMMA StageOrder ==
    ASSUME NEW c, NEW d,
           \/ c = "validate" /\ d \in {"resolve", "error"}
           \/ c = "resolve" /\ d = "store"
           \/ c = "store" /\ d \in {"list", "publish", "error"}
           \/ c = "list" /\ d = "publish"
           \/ c = "publish" /\ d \in {"watch", "error"}
           \/ c = "watch" /\ d \in {"wait", "error"}
           \/ c = "wait" /\ d \in {"returned", "error"}
    PROVE  Stage(c) < Stage(d)
BY DEF Stage

\* A step forward, or one more response read, makes the sum grow.
LEMMA Measure ==
    ASSUME NEW p \in 0..7, NEW q \in 0..7, NEW s \in Nat, NEW t \in Nat, NEW n \in Nat, t <= n
    PROVE  /\ q + t <= 7 + n
           /\ p < q /\ t = s => q + t > p + s
           /\ p <= q /\ t = s + 1 => q + t > p + s
OBVIOUS

(***************************************************************************)
(* The safety half of CallReturns: however many agents answer, and however *)
(* late, the call takes at most MaxAnswers + 7 steps, and the rows it      *)
(* returned never change.                                                  *)
(***************************************************************************)
THEOREM CallStepsAreBounded == Spec => CallAdvances
<1> DEFINE Advances ==
        /\ \/ UNCHANGED <<call, expected, seen, rows>>
           \/ Stage(call') + seen' > Stage(call) + seen
        /\ Stage(call') + seen' <= 7 + MaxAnswers
        /\ call \in {"returned", "error"} => UNCHANGED <<call, expected, seen, rows>>
<1>1. IInv /\ IInv' /\ [Next]_vars => [Advances]_vars
  <2> SUFFICES ASSUME IInv, IInv', Next PROVE Advances
      OBVIOUS
  <2>1. seen \in Nat /\ seen' \in Nat /\ seen' <= MaxAnswers /\ MaxAnswers \in Nat
    <3>1. /\ seen \in 0..Len(updates) /\ updates \in Seq(Machines)
          /\ seen' \in 0..Len(updates') /\ updates' \in Seq(Machines)
          /\ Len(updates') <= MaxAnswers /\ MaxAnswers \in Nat
          BY BroadcastAssumption DEF IInv, TypeOK
    <3>2. Len(updates) \in Nat /\ Len(updates') \in Nat
          BY <3>1
    <3> QED BY <3>1, <3>2
  <2>2. Stage(call) \in 0..7 /\ Stage(call') \in 0..7
        BY DEF Stage
  <2>3. /\ Stage(call') + seen' <= 7 + MaxAnswers
        /\ Stage(call) < Stage(call') /\ seen' = seen =>
               Stage(call') + seen' > Stage(call) + seen
        /\ Stage(call) <= Stage(call') /\ seen' = seen + 1 =>
               Stage(call') + seen' > Stage(call) + seen
        BY <2>1, <2>2, Measure
  <2>4. ASSUME NEW m \in Machines, Answer(m)
        PROVE  UNCHANGED <<call, expected, seen, rows>>
        BY <2>4 DEF Answer
  <2>5. ASSUME CallStep
        PROVE  Stage(call') + seen' > Stage(call) + seen /\ call \notin {"returned", "error"}
    <3>1. CASE Validate \/ Resolve \/ StoreJob \/ SnapshotExpected \/ Publish \/ Watch
               \/ Deadline
      <4>1. /\ \/ call = "validate" /\ call' \in {"resolve", "error"}
               \/ call = "resolve" /\ call' = "store"
               \/ call = "store" /\ call' \in {"list", "publish", "error"}
               \/ call = "list" /\ call' = "publish"
               \/ call = "publish" /\ call' \in {"watch", "error"}
               \/ call = "watch" /\ call' \in {"wait", "error"}
               \/ call = "wait" /\ call' \in {"returned", "error"}
            /\ seen' = seen
            BY <3>1 DEF Validate, Resolve, StoreJob, SnapshotExpected, Publish, Watch, Deadline
      <4>2. Stage(call) < Stage(call')
            BY <4>1, StageOrder
      <4> QED BY <2>3, <4>1, <4>2
    <3>2. CASE DropUpdate \/ CollectUpdate \/ TakeFirst
      <4>1. /\ call = "wait" /\ call' \in {"wait", "returned", "error"}
            /\ seen' = seen + 1
            BY <3>2 DEF DropUpdate, CollectUpdate, TakeFirst
      <4>2. Stage(call) <= Stage(call')
            BY <2>2, <4>1, StageOrder
      <4> QED BY <2>3, <4>1, <4>2
    <3> QED BY <2>5, <3>1, <3>2 DEF CallStep
  <2> QED BY <2>3, <2>4, <2>5 DEF Next
<1>2. Spec => [][Advances]_vars
      BY <1>1, BroadcastInvariance, PTL DEF Spec
<1> QED BY <1>2 DEF CallAdvances
=============================================================================
