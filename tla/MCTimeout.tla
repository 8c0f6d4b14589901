----------------------------- MODULE MCTimeout -----------------------------
(* Small instances of TimeoutDriver for TLC. *)
EXTENDS TimeoutDriver, TLC

CONSTANTS A, B, C

MCTimers2 == {A, B}
MCTimers3 == {A, B, C}
(* one timeout inside the counter's range, one that needs Dummy, and the     *)
(* timeout of zero that softApConnectTimer gets                              *)
MCTimeouts == {0, 1, 5}
=============================================================================
