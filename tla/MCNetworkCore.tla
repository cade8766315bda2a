---------------------------- MODULE MCNetworkCore ----------------------------
(* Small instances of the network side for TLC. *)
EXTENDS NetworkCore

CONSTANTS a1, a2        \* two other machines: model values

NoAddr == {}
OneAddr == {a1}
TwoAddrs == {a1, a2}

==============================================================================
