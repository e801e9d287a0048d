-------------------------- MODULE ConditionWatch --------------------------
(***************************************************************************)
(* How an operator hears that a component is in trouble: the component's   *)
(* heartbeat evaluates conditions and puts them into the registry bucket   *)
(* (internal/agent/heartbeat.go, internal/controller/heartbeat.go), and a  *)
(* watcher in the controller (internal/controller/notify) turns the        *)
(* updates of the bucket into notifications.                               *)
(*                                                                         *)
(* What the watcher remembers of one key never touches another, so one     *)
(* component is modelled.  The bucket keeps one revision of a key: an      *)
(* update the watcher's client has not received is gone once a newer one   *)
(* is stored.                                                              *)
(***************************************************************************)
EXTENDS Integers, Sequences, SequencesExt

CONSTANTS
    Conditions,     \* the condition types of the component
    Renotify,       \* notifications.renotify_interval is not 0
    Deleted,        \* a delete marker
    NoEntry,        \* the bucket holds nothing
    MaxFeed,        \* bound on the updates the watcher's client buffers
    MaxFaults,      \* bound on failed reads, writes and subscriptions
    MaxRestarts     \* bound on the restarts of the controller

\* A registration, by its active conditions, and what the bucket may hold.
Registration(active) == [active |-> active]
Registrations == {Registration(active) : active \in SUBSET Conditions}
Updates == Registrations \cup {Deleted}

ASSUME ConditionWatchAssumption ==
    /\ Renotify \in BOOLEAN
    /\ MaxFeed \in Nat \ {0}
    /\ {MaxFaults, MaxRestarts} \subseteq Nat
    /\ Deleted # NoEntry
    /\ {Deleted, NoEntry} \cap Registrations = {}

VARIABLES
    \* the component
    kind,           \* the prefix of its registry key
    up,             \* its heartbeat goroutine runs
    holds,          \* the conditions that hold on its host
    \* the registry bucket
    entry,          \* what its key holds: the active conditions, or a marker
    \* the watcher
    watching,       \* WatchAll succeeded
    feed,           \* updates not handled yet, oldest first
    prev,           \* the active conditions it remembers, w.prev[key]
    due,            \* those last notified a renotify interval ago
    \* what the operator has been told
    alarms,         \* conditions fired and not resolved since
    \* history
    stopTold,       \* ComponentUnreachable was told since the last marker was stored
    forgotten,      \* alarms the watcher has lost its memory of
    restarts, faults

component == <<kind, up, holds>>
watcher   == <<watching, feed, prev, due>>
told      == <<alarms, stopTold, forgotten>>
vars == <<component, entry, watcher, told, restarts, faults>>

Init ==
    /\ kind \in {"agent", "controller"} /\ up = FALSE /\ holds = {}
    /\ entry = NoEntry
    /\ watching = TRUE /\ feed = <<>> /\ prev = {} /\ due = {}
    /\ alarms = {} /\ stopTold = FALSE /\ forgotten = {}
    /\ restarts = 0 /\ faults = 0

Fault == faults < MaxFaults /\ faults' = faults + 1

\* The update the client has not received yet may be superseded by u.
Publish(u) ==
    /\ entry' = u
    /\ stopTold' = (stopTold /\ u # Deleted)
    /\ \/ ~watching /\ UNCHANGED feed
       \/ watching /\ Len(feed) < MaxFeed /\ feed' = Append(feed, u)
       \/ watching /\ feed # <<>> /\ feed' = Append(Front(feed), u)

-----------------------------------------------------------------------------
(***************************************************************************)
(* The component.                                                          *)
(***************************************************************************)
\* What happens on its host.
Change ==
    /\ \E c \in Conditions :
           holds' = IF c \in holds THEN holds \ {c} ELSE holds \cup {c}
    /\ UNCHANGED <<kind, up, entry, watcher, told, restarts, faults>>

StartUp == ~up /\ up' = TRUE
           /\ UNCHANGED <<kind, holds, entry, watcher, told, restarts, faults>>

\* A condition whose host values cannot be read is evaluated as inactive.
Evaluated(unread) == holds \ unread

\* writeRegistration, at once and on every tick.  A failed Put may be stored.
WriteRegistration ==
    /\ up
    /\ \/ Publish(Registration(Evaluated({}))) /\ UNCHANGED faults
       \/ Fault /\ \E unread \in SUBSET holds : Publish(Registration(Evaluated(unread)))
       \/ Fault /\ UNCHANGED <<entry, feed, stopTold>>
    /\ UNCHANGED <<component, watching, prev, due, alarms, forgotten, restarts>>

\* A clean stop deregisters, best effort.
Stop ==
    /\ up /\ up' = FALSE
    /\ \/ Publish(Deleted) /\ UNCHANGED faults
       \/ Fault /\ (Publish(Deleted) \/ UNCHANGED <<entry, feed, stopTold>>)
    /\ UNCHANGED <<kind, holds, watching, prev, due, alarms, forgotten, restarts>>

Die ==
    /\ up /\ up' = FALSE
    /\ UNCHANGED <<kind, holds, entry, watcher, told, restarts, faults>>

(***************************************************************************)
(* The bucket's TTL.  BuildRegistryKVConfig asks for no marker of what     *)
(* expires (LimitMarkerTTL), so the entry goes without an update.  A       *)
(* component that is up writes three times in a TTL: its entry expires     *)
(* when these writes fail or a drain holds its ticks up, which is counted  *)
(* as one fault.                                                           *)
(***************************************************************************)
Expire ==
    /\ entry # NoEntry
    /\ \/ ~up /\ UNCHANGED faults
       \/ up /\ Fault
    /\ entry' = NoEntry
    /\ feed' \in {feed} \cup {Front(f) : f \in {feed} \ {<<>>}}
    /\ UNCHANGED <<component, watching, prev, due, told, restarts>>

-----------------------------------------------------------------------------
(***************************************************************************)
(* The watcher: handleEntry, for the oldest update.                        *)
(***************************************************************************)
Forget ==
    /\ prev' = {} /\ due' = {}
    /\ forgotten' = forgotten \cup alarms

\* Mutants: the marker is dropped; the times of the notifications stay.
HandleDeleteSilently ==
    /\ feed # <<>> /\ Head(feed) = Deleted
    /\ feed' = Tail(feed)
    /\ Forget
    /\ UNCHANGED <<component, entry, watching, alarms, stopTold, restarts, faults>>

HandleDeleteKeepingTimes ==
    /\ feed # <<>> /\ Head(feed) = Deleted
    /\ feed' = Tail(feed)
    /\ prev' = {} /\ forgotten' = forgotten \cup alarms
    /\ stopTold' = TRUE
    /\ UNCHANGED <<component, entry, watching, due, alarms, restarts, faults>>

\* handleDelete: tell, and drop what is remembered without resolving it.
HandleDelete ==
    /\ feed # <<>> /\ Head(feed) = Deleted
    /\ feed' = Tail(feed)
    /\ stopTold' = TRUE
    /\ Forget
    /\ UNCHANGED <<component, entry, watching, alarms, restarts, faults>>

\* extractConditions has no case for a controller's entries.
HandleUnknown ==
    /\ feed # <<>> /\ Head(feed) # Deleted
    /\ kind = "controller"
    /\ feed' = Tail(feed)
    /\ UNCHANGED <<component, entry, watching, prev, due, told, restarts, faults>>

\* Tell that fired are active and resolved are not.
Notify(fired, resolved) ==
    /\ alarms' = (alarms \cup fired) \ resolved
    /\ due' = due \ (fired \cup resolved)
    /\ forgotten' = forgotten \ (fired \cup resolved)
    /\ UNCHANGED stopTold

\* Active conditions that were last notified long enough ago.
Again(current) == IF Renotify THEN current \cap prev \cap due ELSE {}

\* Mutants: the first entry of a key only fills the memory; nothing resolves;
\* nothing is told again.
RememberFirst(current) ==
    /\ Notify(IF prev = {} THEN {} ELSE (current \ prev) \cup Again(current),
              prev \ current)
    /\ prev' = current

NeverResolve(current) ==
    /\ Notify((current \ prev) \cup Again(current), {})
    /\ prev' = prev \cup current

NeverAgain(current) ==
    /\ Notify(current \ prev, prev \ current)
    /\ prev' = current

\* detectTransitions.
DetectTransitions(current) ==
    /\ Notify((current \ prev) \cup Again(current), prev \ current)
    /\ prev' = current

HandleRegistration ==
    /\ feed # <<>> /\ Head(feed) # Deleted
    /\ kind # "controller"
    /\ feed' = Tail(feed)
    /\ DetectTransitions(Head(feed).active)
    /\ UNCHANGED <<component, entry, watching, restarts, faults>>

\* A renotify interval has passed since c was last notified.
IntervalPasses(c) ==
    /\ Renotify /\ c \in prev \ due
    /\ due' = due \cup {c}
    /\ UNCHANGED <<component, entry, watching, feed, prev, told, restarts, faults>>

(***************************************************************************)
(* The controller restarts.  WatchAll replays what the bucket holds, the   *)
(* marker of a component that deregistered included.                       *)
(***************************************************************************)
RestartWatcher ==
    /\ restarts < MaxRestarts /\ restarts' = restarts + 1
    /\ \/ /\ watching' = TRUE
          /\ feed' = IF entry = NoEntry THEN <<>> ELSE <<entry>>
          /\ UNCHANGED faults
       \/ Fault /\ watching' = FALSE /\ feed' = <<>>
    /\ Forget
    /\ UNCHANGED <<component, entry, alarms, stopTold>>

Watch == HandleDelete \/ HandleUnknown \/ HandleRegistration

Next ==
    \/ Change \/ StartUp \/ WriteRegistration \/ Stop \/ Die \/ Expire
    \/ Watch \/ RestartWatcher
    \/ \E c \in Conditions : IntervalPasses(c)

Spec == Init /\ [][Next]_vars

(***************************************************************************)
(* Fairness: the heartbeat ticks and the watcher's goroutine runs on.      *)
(* Conditions, stops, restarts and faults are free to happen or not.       *)
(***************************************************************************)
FairSpec == Spec /\ WF_vars(WriteRegistration) /\ WF_vars(Watch)

-----------------------------------------------------------------------------
(***************************************************************************)
(* Properties.                                                             *)
(***************************************************************************)
\* Only a remembered condition has a time of its last notification.
WatchTypeOK ==
    /\ kind \in {"agent", "controller"} /\ {up, watching, stopTold} \subseteq BOOLEAN
    /\ entry \in Updates \cup {NoEntry}
    /\ feed \in Seq(Updates) /\ Len(feed) <= MaxFeed
    /\ {holds, prev, alarms, forgotten} \subseteq SUBSET Conditions
    /\ due \subseteq prev
    /\ restarts \in 0..MaxRestarts /\ faults \in 0..MaxFaults

(***************************************************************************)
(* Once the watcher has handled what it received, the operator's picture   *)
(* of a registered component is the registry's, whatever updates were      *)
(* superseded and however often watcher and component were restarted: all  *)
(* its active conditions were told, and an alarm that is no longer active  *)
(* is one the watcher lost its memory of.  Nobody hears of a controller's  *)
(* conditions.                                                             *)
(***************************************************************************)
AlarmsMatchRegistry ==
    watching /\ feed = <<>> /\ entry \in Registrations /\ kind # "controller" =>
        entry.active \subseteq alarms /\ alarms \ entry.active \subseteq forgotten

\* The watcher may also not exist.
Deaf == ~watching \/ kind = "controller"

(***************************************************************************)
(* A condition that persists on a running component is told, and one that  *)
(* has passed is resolved unless the watcher lost its memory of it,        *)
(* although reads, writes and updates get lost ("fires once when it        *)
(* becomes active and once when it resolves", notifications.md:69).        *)
(***************************************************************************)
ConditionTold ==
    \A c \in Conditions :
        /\ (c \in holds /\ up) ~> (c \in alarms \/ c \notin holds \/ ~up \/ Deaf)
        /\ (c \in alarms \ holds /\ up)
               ~> (c \notin alarms \ forgotten \/ c \in holds \/ ~up \/ Deaf)

(***************************************************************************)
(* An active condition is told again when the renotify interval has passed *)
(* (notifications.md:22), unless it is resolved or the component is gone.  *)
(***************************************************************************)
ActiveToldAgain ==
    \A c \in Conditions : (c \in due /\ up) ~> (c \notin due \/ ~up \/ Deaf)

(***************************************************************************)
(* A component that deregistered is told unreachable after it did, while   *)
(* its marker lasts and it does not register again: once told of an        *)
(* earlier stop is not enough.  No event ever takes the notice back.       *)
(***************************************************************************)
StopIsTold ==
    (entry = Deleted) ~> (stopTold \/ entry # Deleted \/ ~watching)
=============================================================================
