----------------------------- MODULE MCScheduler -----------------------------
(* Small instances of the scheduler for TLC. *)
EXTENDS Scheduler, TLC

CONSTANTS k1, k2, ok, ko    \* sockets and exit codes: model values

NoSocket == {}
OneSocket == {k1}
TwoSockets == {k1, k2}
TwoCodes == {ok, ko}
OneCode == {ok}

Careful == {}
WritesFull == {"write_full"}
SharesWait == {"shared_wait"}
KillsFree == {"kill_free"}
Reckless == {"write_full", "shared_wait", "kill_zombie"}

CodeSymmetry == Permutations(TwoCodes)
==============================================================================
