---------------------------- MODULE MCBroadcast ----------------------------
(* Instances of Broadcast for TLC. *)
EXTENDS Broadcast, TLC

CONSTANTS h1, h2

\* Two machines report the same host name, and the first cannot be verified.
SharedHost == <<h1, h1, h2>>

\* Every machine has a host name of its own.
OwnHosts == <<h1, h2>>

\* ... and a label of its own.
OwnLabels == <<<<"web">>, <<"dev">>>>

\* One label is above another one, and a segment of it is a label as well.
NestedLabels == <<<<"web">>, <<"web", "dev">>, <<"dev">>>>

EveryKind ==
    {AnyHost, BroadcastHost,
     Label(<<"web">>), Label(<<"web", "dev">>), Label(<<"dev">>),
     Host(h1), Host(h2), Host(2)}

ToAll == {BroadcastHost}
=============================================================================
