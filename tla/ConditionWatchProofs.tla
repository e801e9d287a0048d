------------------------ MODULE ConditionWatchProofs ------------------------
(***************************************************************************)
(* The operator's picture of a component, for any set of conditions, any   *)
(* length of the feed and any number of faults and restarts.  It is not    *)
(* inductive: it speaks of the moment the feed is empty.  What carries it  *)
(* is that the youngest update is what the bucket holds (FeedIsCurrent),   *)
(* and that the watcher's memory lies between the alarms and what it has   *)
(* forgotten (MemoryOK).                                                   *)
(***************************************************************************)
EXTENDS ConditionWatch, SequenceTheorems, TLAPS

\* The watcher's last update, or what it remembers, is the registration stored.
FeedIsCurrent ==
    watching /\ entry \in Updates =>
        /\ feed # <<>> => feed[Len(feed)] = entry
        /\ feed = <<>> /\ entry # Deleted /\ kind # "controller" => prev = entry.active

\* What is remembered was told; an alarm not remembered is one it has forgotten.
MemoryOK == prev \subseteq alarms /\ alarms \ prev \subseteq forgotten

\* The inductive invariant.
WatchInv == WatchTypeOK /\ FeedIsCurrent /\ MemoryOK

-----------------------------------------------------------------------------
\* A registration lists conditions; no marker is one.
LEMMA RegistrationFacts ==
    /\ \A active \in SUBSET Conditions : Registration(active) \in Registrations
    /\ \A u \in Registrations : u.active \in SUBSET Conditions
    /\ Deleted \notin Registrations /\ NoEntry \notin Updates
  BY ConditionWatchAssumption DEF Registrations, Registration, Updates

\* All but the youngest update.
LEMMA Older ==
  ASSUME NEW f \in Seq(Updates), f # <<>>
  PROVE  Front(f) \in Seq(Updates) /\ Len(Front(f)) = Len(f) - 1
<1> DEFINE n == Len(f) - 1
<1>1. n \in Nat /\ \A i \in 1..n : f[i] \in Updates
  OBVIOUS
<1>2. Front(f) = SubSeq(f, 1, n)
  BY DEF Front
<1> HIDE DEF n
<1>3. 1 \in Int /\ n \in Int
  BY <1>1
<1>4. /\ SubSeq(f, 1, n) \in Seq(Updates)
      /\ Len(SubSeq(f, 1, n)) = IF 1 <= n THEN n - 1 + 1 ELSE 0
  BY <1>1, <1>3, SubSeqProperties
<1>5. (IF 1 <= n THEN n - 1 + 1 ELSE 0) = n
  BY <1>1
<1>6. QED
  BY <1>2, <1>4, <1>5 DEF n

\* An update is appended, or takes the place of the youngest.
LEMMA PublishStep ==
  ASSUME WatchInv, NEW u \in Updates, Publish(u), UNCHANGED <<kind, watching, prev>>
  PROVE  /\ entry' \in Updates \cup {NoEntry} /\ stopTold' \in BOOLEAN
         /\ feed' \in Seq(Updates) /\ Len(feed') <= MaxFeed
         /\ FeedIsCurrent'
<1>0. stopTold' \in BOOLEAN
  BY DEF Publish
<1>1. feed \in Seq(Updates) /\ Len(feed) <= MaxFeed /\ MaxFeed \in Nat /\ entry' = u
  BY ConditionWatchAssumption DEF WatchInv, WatchTypeOK, Publish
<1>2. CASE ~watching /\ UNCHANGED feed
  BY <1>0, <1>1, <1>2 DEF FeedIsCurrent
<1>3. CASE watching /\ Len(feed) < MaxFeed /\ feed' = Append(feed, u)
  <2>1. /\ feed' \in Seq(Updates) /\ Len(feed') = Len(feed) + 1
        /\ feed'[Len(feed')] = u /\ feed' # <<>>
    BY <1>1, <1>3
  <2>2. QED
    BY <1>0, <1>1, <1>3, <2>1 DEF FeedIsCurrent
<1>4. CASE watching /\ feed # <<>> /\ feed' = Append(Front(feed), u)
  <2>1. Front(feed) \in Seq(Updates) /\ Len(Front(feed)) = Len(feed) - 1
    BY <1>1, <1>4, Older
  <2>2. /\ feed' \in Seq(Updates) /\ Len(feed') = Len(feed)
        /\ feed'[Len(feed')] = u /\ feed' # <<>>
    BY <1>1, <1>4, <2>1
  <2>3. QED
    BY <1>0, <1>1, <2>2 DEF FeedIsCurrent
<1>5. QED
  BY <1>1, <1>2, <1>3, <1>4 DEF Publish

\* Handling the oldest update leaves the youngest, or nothing.
LEMMA HandledFeed ==
  ASSUME WatchInv, feed # <<>>, feed' = Tail(feed)
  PROVE  /\ feed' \in Seq(Updates) /\ Len(feed') <= MaxFeed /\ Head(feed) \in Updates
         /\ feed' # <<>> => feed'[Len(feed')] = feed[Len(feed)]
         /\ feed' = <<>> => Head(feed) = feed[Len(feed)]
<1>1. feed \in Seq(Updates) /\ Len(feed) <= MaxFeed /\ MaxFeed \in Nat
  BY ConditionWatchAssumption DEF WatchInv, WatchTypeOK
<1>2. /\ Tail(feed) \in Seq(Updates) /\ Len(Tail(feed)) = Len(feed) - 1
      /\ \A i \in 1..Len(Tail(feed)) : Tail(feed)[i] = feed[i + 1]
      /\ Head(feed) = feed[1] /\ Len(feed) >= 1 /\ Head(feed) \in Updates
  BY <1>1
<1>3. CASE feed' = <<>>
  <2>1. Len(feed') = 0 /\ Len(feed') = Len(feed) - 1
    BY <1>2, <1>3
  <2>2. Len(feed) = 1
    BY <1>1, <2>1
  <2>3. QED
    BY <1>1, <1>2, <1>3, <2>2
<1>4. CASE feed' # <<>>
  <2>1. Len(Tail(feed)) \in 1..Len(Tail(feed))
    BY <1>2, <1>4
  <2>2. QED
    BY <1>1, <1>2, <1>4, <2>1
<1>5. QED
  BY <1>3, <1>4

\* Forgetting and telling keep memory, alarms and what was forgotten in line.
LEMMA Remembering ==
  ASSUME WatchInv
  PROVE  /\ Forget /\ UNCHANGED alarms => MemoryOK'
         /\ \A current \in SUBSET Conditions : DetectTransitions(current) =>
                /\ MemoryOK' /\ prev' = current
                /\ {alarms', forgotten'} \subseteq SUBSET Conditions
                /\ due' \subseteq prev' /\ UNCHANGED stopTold
<1>1. ASSUME Forget, UNCHANGED alarms PROVE MemoryOK'
  BY <1>1 DEF Forget, MemoryOK
<1>2. ASSUME NEW current \in SUBSET Conditions, DetectTransitions(current)
      PROVE  /\ MemoryOK' /\ prev' = current
             /\ {alarms', forgotten'} \subseteq SUBSET Conditions
             /\ due' \subseteq prev' /\ UNCHANGED stopTold
  <2>1. Again(current) \subseteq current \cap prev
    BY DEF Again
  <2> DEFINE fired == (current \ prev) \cup Again(current)
             resolved == prev \ current
  <2>2. /\ alarms' = (alarms \cup fired) \ resolved /\ prev' = current
        /\ forgotten' = forgotten \ (fired \cup resolved)
        /\ due' = due \ (fired \cup resolved) /\ UNCHANGED stopTold
    BY <1>2 DEF DetectTransitions, Notify
  <2>3. {alarms, forgotten, prev} \subseteq SUBSET Conditions /\ due \subseteq prev
    BY DEF WatchInv, WatchTypeOK
  <2>4. current \subseteq alarms' /\ alarms' \ current \subseteq forgotten'
    BY <2>1, <2>2 DEF WatchInv, MemoryOK
  <2>5. {alarms', forgotten'} \subseteq SUBSET Conditions /\ due' \subseteq prev'
    BY <2>1, <2>2, <2>3
  <2>6. QED
    BY <2>2, <2>4, <2>5 DEF MemoryOK
<1>3. QED
  BY <1>1, <1>2

-----------------------------------------------------------------------------
\* Before the first registration the three parts hold.
LEMMA InitWatch == Init => WatchInv
<1> SUFFICES ASSUME Init PROVE WatchInv
  OBVIOUS
<1>1. /\ kind \in {"agent", "controller"} /\ {up, watching, stopTold} \subseteq BOOLEAN
      /\ feed = <<>> /\ entry = NoEntry /\ due \subseteq prev
  BY DEF Init
<1>2. {holds, prev, alarms, forgotten} \subseteq SUBSET Conditions
  BY DEF Init
<1>3. Len(feed) <= MaxFeed /\ feed \in Seq(Updates)
  BY <1>1, ConditionWatchAssumption
<1>4. restarts \in 0..MaxRestarts /\ faults \in 0..MaxFaults
  BY ConditionWatchAssumption DEF Init
<1>5. FeedIsCurrent /\ MemoryOK
  BY <1>1, RegistrationFacts DEF Init, FeedIsCurrent, MemoryOK
<1>6. QED
  BY <1>1, <1>2, <1>3, <1>4, <1>5 DEF WatchInv, WatchTypeOK

\* Every step, and every stutter, keeps the three parts.
LEMMA StepWatch ==
  ASSUME WatchInv, [Next]_vars
  PROVE  WatchInv'
<1> USE DEF component, watcher, told
<1>1. faults \in Nat /\ MaxFaults \in Nat /\ MaxRestarts \in Nat /\ MaxFeed \in Nat \ {0}
  BY ConditionWatchAssumption DEF WatchInv, WatchTypeOK
<1>2. Fault \/ UNCHANGED faults => faults' \in 0..MaxFaults
  BY <1>1 DEF Fault, WatchInv, WatchTypeOK
<1>3. CASE Change
  <2>1. holds' \in SUBSET Conditions
    BY <1>3 DEF Change, WatchInv, WatchTypeOK
  <2>2. QED
    BY <1>3, <2>1 DEF Change, WatchInv, WatchTypeOK, FeedIsCurrent, MemoryOK
<1>4. CASE StartUp \/ Die
  <2>1. up' \in BOOLEAN
    BY <1>4 DEF StartUp, Die
  <2>2. UNCHANGED <<kind, holds, entry, watcher, told, restarts, faults>>
    BY <1>4 DEF StartUp, Die
  <2>3. QED
    BY <2>1, <2>2 DEF WatchInv, WatchTypeOK, FeedIsCurrent, MemoryOK
<1>5. ASSUME NEW u \in Updates, Publish(u) \/ UNCHANGED <<entry, feed, stopTold>>,
             Fault \/ UNCHANGED faults, up' \in BOOLEAN,
             UNCHANGED <<kind, holds, watching, prev, due, alarms, forgotten, restarts>>
      PROVE  WatchInv'
  <2>1. /\ entry' \in Updates \cup {NoEntry} /\ stopTold' \in BOOLEAN
        /\ feed' \in Seq(Updates) /\ Len(feed') <= MaxFeed
        /\ FeedIsCurrent'
    <3>1. CASE Publish(u)
      BY <1>5, <3>1, PublishStep
    <3>2. CASE UNCHANGED <<entry, feed, stopTold>>
      BY <1>5, <3>2 DEF WatchInv, WatchTypeOK, FeedIsCurrent
    <3>3. QED
      BY <1>5, <3>1, <3>2
  <2>2. QED
    BY <1>2, <1>5, <2>1 DEF WatchInv, WatchTypeOK, MemoryOK
<1>6. CASE WriteRegistration
  <2>1. \A unread \in SUBSET holds : Registration(Evaluated(unread)) \in Updates
    BY RegistrationFacts DEF Evaluated, Updates, WatchInv, WatchTypeOK
  <2>2. {} \in SUBSET holds /\ up' \in BOOLEAN
    BY <1>6 DEF WriteRegistration, WatchInv, WatchTypeOK
  <2>3. QED
    BY <1>5, <1>6, <2>1, <2>2 DEF WriteRegistration
<1>7. CASE Stop
  BY <1>5, <1>7 DEF Stop, Updates
<1>8. CASE Expire
  <2>1. feed' \in Seq(Updates) /\ Len(feed') <= MaxFeed
    <3>1. feed \in Seq(Updates) /\ Len(feed) <= MaxFeed
      BY DEF WatchInv, WatchTypeOK
    <3>2. feed # <<>> => Front(feed) \in Seq(Updates) /\ Len(Front(feed)) = Len(feed) - 1
      BY <3>1, Older
    <3>3. QED
      BY <1>1, <1>8, <3>1, <3>2 DEF Expire
  <2>2. /\ entry' = NoEntry /\ (Fault \/ UNCHANGED faults)
        /\ UNCHANGED <<component, watching, prev, due, told, restarts>>
    BY <1>8 DEF Expire
  <2>3. QED
    BY <1>2, <2>1, <2>2, RegistrationFacts DEF WatchInv, WatchTypeOK, FeedIsCurrent, MemoryOK
<1>9. CASE HandleDelete
  <2>1. feed # <<>> /\ feed' = Tail(feed) /\ Head(feed) = Deleted /\ stopTold' = TRUE
    BY <1>9 DEF HandleDelete
  <2>2. Forget /\ UNCHANGED <<component, entry, watching, alarms, restarts, faults>>
    BY <1>9 DEF HandleDelete
  <2>3. MemoryOK'
    BY <2>2, Remembering
  <2>4. FeedIsCurrent'
    BY <2>1, <2>2, HandledFeed DEF WatchInv, FeedIsCurrent
  <2>5. WatchTypeOK'
    BY <2>1, <2>2, HandledFeed DEF WatchInv, WatchTypeOK, Forget
  <2>6. QED
    BY <2>3, <2>4, <2>5 DEF WatchInv
<1>10. CASE HandleUnknown
  <2>1. feed # <<>> /\ feed' = Tail(feed) /\ kind = "controller"
    BY <1>10 DEF HandleUnknown
  <2>2. UNCHANGED <<component, entry, watching, prev, due, told, restarts, faults>>
    BY <1>10 DEF HandleUnknown
  <2>3. FeedIsCurrent'
    BY <2>1, <2>2, HandledFeed DEF WatchInv, FeedIsCurrent
  <2>4. QED
    BY <2>1, <2>2, <2>3, HandledFeed DEF WatchInv, WatchTypeOK, MemoryOK
<1>11. CASE HandleRegistration
  <2>1. feed # <<>> /\ feed' = Tail(feed) /\ Head(feed) # Deleted
    BY <1>11 DEF HandleRegistration
  <2>2. UNCHANGED <<component, entry, watching, restarts, faults>>
    BY <1>11 DEF HandleRegistration
  <2>3. Head(feed) \in Registrations /\ Head(feed).active \in SUBSET Conditions
    BY <2>1, HandledFeed, RegistrationFacts DEF Updates
  <2>4. /\ MemoryOK' /\ prev' = Head(feed).active
        /\ {alarms', forgotten'} \subseteq SUBSET Conditions
        /\ due' \subseteq prev' /\ UNCHANGED stopTold
    BY <1>11, <2>3, Remembering DEF HandleRegistration
  <2>5. FeedIsCurrent'
    BY <2>1, <2>2, <2>4, HandledFeed DEF WatchInv, FeedIsCurrent
  <2>6. WatchTypeOK'
    BY <2>1, <2>2, <2>3, <2>4, HandledFeed DEF WatchInv, WatchTypeOK
  <2>7. QED
    BY <2>4, <2>5, <2>6 DEF WatchInv
<1>12. ASSUME NEW c \in Conditions, IntervalPasses(c) PROVE WatchInv'
  <2>1. due' = due \cup {c} /\ c \in prev
    BY <1>12 DEF IntervalPasses
  <2>2. UNCHANGED <<component, entry, watching, feed, prev, told, restarts, faults>>
    BY <1>12 DEF IntervalPasses
  <2>3. QED
    BY <2>1, <2>2 DEF WatchInv, WatchTypeOK, FeedIsCurrent, MemoryOK
<1>13. CASE RestartWatcher
  <2>1. /\ Forget /\ UNCHANGED <<component, entry, alarms, stopTold>>
        /\ restarts' = restarts + 1 /\ restarts < MaxRestarts
    BY <1>13 DEF RestartWatcher
  <2>2. MemoryOK'
    BY <2>1, Remembering
  <2>3. \/ watching' = TRUE /\ feed' = <<>> /\ entry = NoEntry /\ UNCHANGED faults
        \/ watching' = TRUE /\ feed' = <<entry>> /\ entry # NoEntry /\ UNCHANGED faults
        \/ watching' = FALSE /\ feed' = <<>> /\ Fault
    BY <1>13 DEF RestartWatcher
  <2>4. /\ feed' \in Seq(Updates) /\ Len(feed') <= MaxFeed
        /\ FeedIsCurrent' /\ watching' \in BOOLEAN
    <3>1. CASE feed' = <<>>
      <4>1. ~watching' \/ entry = NoEntry
        BY <2>3, <3>1
      <4>2. <<>> \in Seq(Updates) /\ Len(<<>>) = 0
        OBVIOUS
      <4>3. feed' \in Seq(Updates) /\ Len(feed') <= MaxFeed
        BY <1>1, <3>1, <4>2
      <4>4. FeedIsCurrent'
        BY <2>1, <3>1, <4>1, RegistrationFacts DEF FeedIsCurrent
      <4>5. QED
        BY <2>3, <4>3, <4>4
    <3>2. CASE watching' = TRUE /\ feed' = <<entry>> /\ entry # NoEntry
      <4>1. entry \in Updates
        BY <3>2 DEF WatchInv, WatchTypeOK
      <4>2. feed' \in Seq(Updates) /\ Len(feed') = 1 /\ feed'[1] = entry /\ feed' # <<>>
        BY <3>2, <4>1
      <4>3. QED
        BY <1>1, <2>1, <3>2, <4>2 DEF FeedIsCurrent
    <3>3. QED
      BY <2>3, <3>1, <3>2
  <2>5. WatchTypeOK'
    BY <1>1, <1>2, <2>1, <2>3, <2>4 DEF WatchInv, WatchTypeOK, Forget
  <2>6. QED
    BY <2>2, <2>4, <2>5 DEF WatchInv
<1>14. CASE UNCHANGED vars
  BY <1>14 DEF vars, WatchInv, WatchTypeOK, FeedIsCurrent, MemoryOK
<1>15. QED
  BY <1>3, <1>4, <1>6, <1>7, <1>8, <1>9, <1>10, <1>11, <1>12, <1>13, <1>14
     DEF Next, Watch

\* The inductive invariant holds in every reachable state.
THEOREM WatchInvariance == Spec => []WatchInv
  BY InitWatch, StepWatch, PTL DEF Spec

\* The watcher's memory, its feed and the alarms keep their types.
THEOREM WatchTypeCorrectness == Spec => []WatchTypeOK
<1>1. WatchInv => WatchTypeOK
  BY DEF WatchInv
<1>2. QED
  BY <1>1, WatchInvariance, PTL

(***************************************************************************)
(* Whenever the watcher has caught up, the operator was told every active  *)
(* condition of a registered component, and an alarm that is not active is *)
(* one the watcher lost its memory of: for any number of superseded        *)
(* updates, restarts and faults.                                           *)
(***************************************************************************)
THEOREM AlarmsAreTheRegistrys == Spec => []AlarmsMatchRegistry
<1>1. WatchInv => AlarmsMatchRegistry
  BY RegistrationFacts DEF WatchInv, FeedIsCurrent, MemoryOK, AlarmsMatchRegistry, Updates
<1>2. QED
  BY <1>1, WatchInvariance, PTL

-----------------------------------------------------------------------------
(***************************************************************************)
(* Whether the operator hears that the component has gone.                 *)
(***************************************************************************)
\* As long as its marker lasts, a component that deregistered has been told
\* unreachable since, or the marker is among the updates not handled yet.
StopToldOrOnItsWay ==
    watching /\ entry = Deleted => stopTold \/ \E i \in 1..Len(feed) : feed[i] = Deleted

(***************************************************************************)
(* The safety half of StopIsTold: neither updates that supersede each      *)
(* other nor restarts of the watcher lose the notice of a stop, and what   *)
(* was told of an earlier stop does not stand in for it.                   *)
(***************************************************************************)
THEOREM StopsAreTold == Spec => []StopToldOrOnItsWay
<1> DEFINE CaughtUp == watching /\ feed = <<>> /\ entry = Deleted => stopTold
<1>1. Init => CaughtUp
  BY RegistrationFacts DEF Init, Updates
<1>2. WatchInv /\ CaughtUp /\ [Next]_vars => CaughtUp'
  <2> SUFFICES ASSUME WatchInv, CaughtUp, [Next]_vars,
                      watching', feed' = <<>>, entry' = Deleted
               PROVE  stopTold'
    OBVIOUS
  <2> USE DEF component, watcher, told
  <2>1. ASSUME NEW u, Publish(u), UNCHANGED watching PROVE FALSE
    <3>1. \A v : Append(feed, v) # <<>> /\ Append(Front(feed), v) # <<>>
      BY Older DEF WatchInv, WatchTypeOK
    <3>2. QED
      BY <2>1, <3>1 DEF Publish
  <2>2. CASE WriteRegistration \/ Stop
    <3>1. /\ UNCHANGED watching
          /\ UNCHANGED <<entry, feed, stopTold>> \/ \E u : Publish(u)
      BY <2>2 DEF WriteRegistration, Stop
    <3>2. QED
      BY <2>1, <3>1
  <2>3. CASE HandleDelete
    BY <2>3 DEF HandleDelete
  <2>4. CASE HandleRegistration \/ HandleUnknown
    <3>1. feed # <<>> /\ feed' = Tail(feed) /\ UNCHANGED <<entry, watching>>
          /\ Head(feed) # Deleted
      BY <2>4 DEF HandleRegistration, HandleUnknown
    <3>2. Head(feed) = entry
      BY <3>1, HandledFeed, RegistrationFacts DEF WatchInv, FeedIsCurrent, Updates
    <3>3. QED
      BY <3>1, <3>2
  <2>5. CASE RestartWatcher
    BY <2>5, RegistrationFacts DEF RestartWatcher, Updates
  <2>6. CASE Expire
    BY <2>6, RegistrationFacts DEF Expire, Updates
  <2>7. CASE Change \/ StartUp \/ Die \/ (\E c \in Conditions : IntervalPasses(c))
             \/ UNCHANGED vars
    BY <2>7 DEF Change, StartUp, Die, IntervalPasses, vars
  <2>8. QED
    BY <2>2, <2>3, <2>4, <2>5, <2>6, <2>7 DEF Next, Watch
<1>3. WatchInv /\ CaughtUp => StopToldOrOnItsWay
  <2> SUFFICES ASSUME WatchInv, watching, entry = Deleted, feed # <<>>
               PROVE  \E i \in 1..Len(feed) : feed[i] = Deleted
    BY DEF StopToldOrOnItsWay
  <2>1. feed[Len(feed)] = Deleted
    BY DEF WatchInv, FeedIsCurrent, Updates
  <2>2. Len(feed) \in 1..Len(feed)
    BY DEF WatchInv, WatchTypeOK
  <2>3. QED
    BY <2>1, <2>2
<1>4. QED
  BY <1>1, <1>2, <1>3, WatchInvariance, PTL DEF Spec
=============================================================================
