---------------------------- MODULE TimerService ----------------------------
(***************************************************************************)
(* What the timer driver promises its callers.  A timer is idle, pending   *)
(* or expired; expired timers have their callbacks run one at a time, in   *)
(* the order in which they expired, once for each time they were started.  *)
(***************************************************************************)
EXTENDS Integers, Sequences

CONSTANTS Timers, Boot, NoTimer

VARIABLES
  pending,   (* timers that have been started and have not expired         *)
  expired,   (* timers that have expired, oldest first                     *)
  active     (* the timer whose callback runs, Boot, or NoTimer            *)

Idle(t) == t \notin pending /\ \A i \in DOMAIN expired : expired[i] # t

(* Sequence s without its i-th entry.                                      *)
Without(s, i) == SubSeq(s, 1, i - 1) \o SubSeq(s, i + 1, Len(s))

Init == pending = {} /\ expired = <<>> /\ active = Boot

Start(t) ==
  /\ Idle(t)
  /\ pending' = pending \cup {t}
  /\ UNCHANGED <<expired, active>>

CancelPending(t) ==
  /\ t \in pending
  /\ pending' = pending \ {t}
  /\ UNCHANGED <<expired, active>>

CancelExpired(t) ==
  /\ \E i \in DOMAIN expired : expired[i] = t /\ expired' = Without(expired, i)
  /\ UNCHANGED <<pending, active>>

Expire(t) ==
  /\ t \in pending
  /\ pending' = pending \ {t}
  /\ expired' = Append(expired, t)
  /\ UNCHANGED active

Dispatch ==
  /\ active = NoTimer /\ expired # <<>>
  /\ active' = Head(expired)
  /\ expired' = Tail(expired)
  /\ UNCHANGED pending

Finish ==
  /\ active # NoTimer
  /\ active' = NoTimer
  /\ UNCHANGED <<pending, expired>>

Next ==
  \/ \E t \in Timers : Start(t) \/ CancelPending(t) \/ CancelExpired(t) \/ Expire(t)
  \/ Dispatch
  \/ Finish

Spec == Init /\ [][Next]_<<pending, expired, active>>
=============================================================================
