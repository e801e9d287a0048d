--------------------------- MODULE MCJobDelivery ---------------------------
(* Instances of JobDelivery for TLC. *)
EXTENDS JobDelivery, TLC

CONSTANTS a1, a2, j1, j2

\* Every agent matches every job, as for _all, and one of them rejects j2.
AllMatch  == [j \in Jobs |-> Agents]
\* j2 is for an agent that does not exist.
FirstMatches == [j \in Jobs |-> IF j = j1 THEN Agents ELSE {}]
NoneRejected == {}
RejectsSecond == {<<a1, j2>>}

\* agent.consumer.back_off of configs/osapi.yaml (30s, 2m), and none.
ShippedBackOff == <<1, 4>>
NoBackOff == <<>>

\* Agents that match and reject the same jobs are interchangeable.
AgentSymmetry == Permutations(Agents)
=============================================================================
