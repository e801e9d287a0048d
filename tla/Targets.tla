------------------------------ MODULE Targets ------------------------------
(***************************************************************************)
(* Who a job is for.  A target is validated and resolved against the       *)
(* registry (internal/validation/target.go), becomes the subject of the    *)
(* job's notification and, for a broadcast, the list of the agents that    *)
(* are expected to answer (internal/job/subjects.go).  Who receives it is  *)
(* decided elsewhere: by the filters of the consumers each agent created   *)
(* from its machine ID and its labels (internal/agent/consumer.go).        *)
(*                                                                         *)
(* A target is a tuple of its routing type and its value; the subject      *)
(* built from it is written as the same tuple.  Query and modify subjects  *)
(* are alike, and one label key stands for all: values of different keys   *)
(* never meet.                                                             *)
(***************************************************************************)
EXTENDS Naturals, Sequences, FiniteSets

CONSTANTS
    Machines,       \* machine IDs, in their order
    HostOf,         \* [Machines -> host names]
    LabelOf,        \* [Machines -> label values, sequences of segments]
    Unverifiable    \* machines whose signatures do not verify, where that is enforced

Hostnames == {HostOf[m] : m \in Machines}

ASSUME TargetsAssumption ==
    /\ Machines \subseteq Nat /\ IsFiniteSet(Machines)
    /\ DOMAIN HostOf = Machines /\ DOMAIN LabelOf = Machines
    /\ \A m \in Machines : LabelOf[m] \in Seq(STRING)
    /\ Unverifiable \subseteq Machines

AnyHost       == <<"_any">>
BroadcastHost == <<"_all">>
Label(value)  == <<"label", value>>
Host(name)    == <<"host", name>>

Routing(target) == target[1]
Value(target)   == target[2]

\* Targets that call for publishAndCollect.
IsBroadcast(target) == Routing(target) \in {"_all", "label"}

(***************************************************************************)
(* A listing of the registry: the machines it has an entry for, and the    *)
(* state of each, a drain flag included.  A listing that fails has the     *)
(* effect of an empty one.                                                 *)
(***************************************************************************)
States   == {"Ready", "Cordoned", "Pending"}
Listings == UNION {[S -> States] : S \in SUBSET Machines}

CanReceiveJobs(agents) == {m \in DOMAIN agents : agents[m] = "Ready"}

\* Registrations that may decide where work goes.
Resolvable(agents) == DOMAIN agents \ Unverifiable

\* The label is the value, or below it in the hierarchy.
Under(label, value) ==
    Len(value) <= Len(label) /\ SubSeq(label, 1, Len(value)) = value

-----------------------------------------------------------------------------
\* Mutant: only the whole label is subscribed to.
WholeLabelFilters(m) == {AnyHost, BroadcastHost, Host(m), Label(LabelOf[m])}

\* Mutant: the segments are subscribed to one by one.
SegmentFilters(m) ==
    {AnyHost, BroadcastHost, Host(m)}
    \cup {Label(<<LabelOf[m][i]>>) : i \in 1..Len(LabelOf[m])}

(***************************************************************************)
(* The filters of an agent's durable consumers.  They are the agent's own, *)
(* the one for _any too: each of them sees every job sent to its filter.   *)
(***************************************************************************)
Filters(m) ==
    {AnyHost, BroadcastHost, Host(m)}
    \cup {Label(SubSeq(LabelOf[m], 1, i)) : i \in 1..Len(LabelOf[m])}

Receives(m, subject) == subject \in Filters(m)

-----------------------------------------------------------------------------
\* Resolvable machines whose label matches, or that the name names.
Labelled(agents, value) == {m \in Resolvable(agents) : Under(LabelOf[m], value)}
NamedBy(agents, name)   == {m \in Resolvable(agents) : name \in {m, HostOf[m]}}

(***************************************************************************)
(* validTarget: its possible verdicts.  The first listed machine of a name *)
(* decides, in whatever order the registry lists them.                     *)
(***************************************************************************)
Verdicts(target, agents) ==
    CASE Routing(target) = "label" -> {Labelled(agents, Value(target)) # {}}
      [] Routing(target) = "host"  ->
             LET named == NamedBy(agents, Value(target))
             IN  IF named = {} THEN {FALSE} ELSE {agents[m] # "Pending" : m \in named}
      [] OTHER ->
             {DOMAIN agents = {} \/ \E m \in DOMAIN agents : agents[m] # "Pending"}

\* Mutant: host names are not resolved.
ResolvesToItself(target, agents) == {target}

(***************************************************************************)
(* ResolveTarget, as the set that holds its result: of the machines that   *)
(* claim a host name the lowest machine ID.                                *)
(***************************************************************************)
ResolvesTo(target, agents) ==
    LET claimants == {m \in Resolvable(agents) :
                          Routing(target) = "host" /\ HostOf[m] = Value(target)}
        lowest    == {m \in claimants : \A n \in claimants : m <= n}
    IN  IF claimants = {} THEN {target} ELSE {Host(m) : m \in lowest}

\* ExpectedAgentHostnames, as machines: a verified registration is not required.
ExpectedOf(target, agents) ==
    CASE Routing(target) = "_all"  -> CanReceiveJobs(agents)
      [] Routing(target) = "label" ->
             {m \in CanReceiveJobs(agents) : Under(LabelOf[m], Value(target))}
      [] OTHER -> {}
=============================================================================
