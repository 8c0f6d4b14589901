--------------------------- MODULE TimeoutDriver ---------------------------
(***************************************************************************)
(* The software timer driver, src/mcc_generated_files/drivers/timeout.c,   *)
(* on top of the RTC counter of src/mcc_generated_files/src/rtc.c.         *)
(*                                                                         *)
(* Main code (application_init, then one callback after the other out of   *)
(* the superloop) and the overflow interrupt of the RTC share two singly   *)
(* linked lists.  Main code guards them by switching the overflow          *)
(* interrupt off; every place where that interrupt is on is a place where  *)
(* timeout_isr may run, so each driver call is cut there into steps, and   *)
(* also where one more tick of the counter makes a difference.             *)
(***************************************************************************)
EXTENDS Integers, Sequences, SequencesExt

CONSTANTS
  Timers,     (* the timerStruct_t objects of the program                  *)
  Dummy,      (* the driver's own timer, inserted when the head is too far *)
  Boot,       (* "callback" that stands for application_init               *)
  NoTimer,    (* no callback is running                                    *)
  MaxCount,   (* top of the RTC counter, 65535 in the code                 *)
  AbsMod,     (* modulus of an absolute time, 2^32 in the code             *)
  Timeouts,   (* the timeouts callers ask for, in ticks                    *)
  MaxCalls    (* bound: driver calls that change a timer in a behaviour    *)

ASSUME TimeoutAssumption ==
  /\ Dummy \notin Timers /\ Boot \notin Timers /\ NoTimer \notin Timers
  /\ Boot # NoTimer
  /\ MaxCount \in Nat \ {0}
  /\ AbsMod \in Nat /\ AbsMod > MaxCount
  /\ Timeouts \subseteq 0 .. AbsMod - 1
  /\ MaxCalls \in Nat

VARIABLES
  list,       (* listHead: running timers and Dummy, next to expire first  *)
  queue,      (* executeQueueHead: expired timers awaiting their callback  *)
  abs,        (* absoluteTime of every timer                               *)
  absLast,    (* absoluteTimeofLastTimeout                                 *)
  lastLoad,   (* lastTimerLoad                                             *)
  running,    (* isRunning                                                 *)
  rebased,    (* for a property: rebaseList has run since list was empty   *)
  cnt,        (* RTC.CNT                                                   *)
  ovfIE,      (* RTC.INTCTRL.OVF: the overflow interrupt is enabled        *)
  ovfFlag,    (* RTC.INTFLAGS.OVF: an overflow is pending                  *)
  pc,         (* where main code stands in the driver                      *)
  which,      (* the list timeout_deleteHelper works on                    *)
  op,         (* the call main code is in: its name, timer and timeout     *)
  tempIE,     (* local of timeout_callNextCallback                         *)
  cur,        (* the timer whose callback runs, Boot, or NoTimer           *)
  calls,      (* calls made so far                                         *)
  wild        (* timeout_isr has dereferenced a NULL listHead              *)

hw    == <<cnt, ovfIE, ovfFlag>>
clock == <<absLast, lastLoad, running, rebased>>
ctl   == <<pc, which, op, tempIE, cur, calls>>
vars  == <<list, queue, abs, clock, hw, ctl, wild>>

Nodes == Timers \cup {Dummy}
NoOp  == [call |-> "none", timer |-> NoTimer, timeout |-> 0]

PcStates == {"ready", "check", "guard", "off", "create", "createOff",
             "createAbs", "callIE", "callOff", "flush"}

----------------------------------------------------------------------------
(* Time arithmetic.                                                        *)

(* Ticks the counter has done since it was loaded, MaxCount once it has    *)
(* visibly wrapped.                                                        *)
Elapsed == IF running
             THEN (IF cnt < lastLoad THEN MaxCount ELSE cnt) - lastLoad
             ELSE 0

MakeAbsolute(timeout) == (timeout + absLast + Elapsed) % AbsMod

TimeRemaining(t) == (abs[t] - MakeAbsolute(0)) % AbsMod

----------------------------------------------------------------------------
(* Driver subroutines.  Each fixes the next value of list, abs, clock and  *)
(* cnt and ovfIE; none touches ovfFlag: RTC_ClearOVFInterruptFlag writes   *)
(* INTFLAGS &= ~OVF, and the hardware clears a flag only when a one is     *)
(* written to it.                                                          *)
ClearOVFInterruptFlag(flag) == flag

SetTimerDuration(duration) ==
  /\ lastLoad' = MaxCount - duration
  /\ cnt' = MaxCount - duration

StopTimeouts ==
  /\ ovfIE' = FALSE
  /\ absLast' = 0
  /\ lastLoad' = 0
  /\ running' = FALSE

(* Ticks from the time base to the expiry of the head of l.                *)
(* Fault: the time base is not subtracted.                                 *)
PeriodAbsolute(l, a, base) == a[Head(l)]
Period(l, a, base) == (a[Head(l)] - base) % AbsMod

(* Fault: a far-off head is never broken up by the dummy.                  *)
TooFarNever(period) == FALSE
TooFar(period) == period > MaxCount

(* startTimerAtHead on list l, absolute times a and time base `base`.      *)
StartTimerAtHead(l, a, base) ==
  IF l = <<>>
    THEN StopTimeouts /\ list' = l /\ abs' = a /\ UNCHANGED cnt
    ELSE /\ IF TooFar(Period(l, a, base))
              THEN /\ list' = <<Dummy>> \o l
                   /\ abs' = [a EXCEPT ![Dummy] = (base + MaxCount) % AbsMod]
                   /\ SetTimerDuration(MaxCount)
              ELSE /\ list' = l
                   /\ abs' = a
                   /\ SetTimerDuration(Period(l, a, base))
         /\ absLast' = base
         /\ ovfIE' = TRUE
         /\ running' = TRUE

(* The record of rebaseList is about the timers that are in the list.      *)
StillRebased(now) == rebased' = (now /\ list' # <<>>)

(* The absolute times and the time base after rebaseList; timer t is the   *)
(* one being inserted, which the code corrects by 65535 - base + 1.        *)
(* Fault: the timers of the list keep their times.                         *)
RebasedOne(t) ==
  [abs EXCEPT ![t] = (abs[t] + MaxCount - MakeAbsolute(0) + 1) % AbsMod]
Rebased(t) ==
  LET base == MakeAbsolute(0)
  IN [x \in Nodes |-> IF x = t THEN (abs[t] + MaxCount - base + 1) % AbsMod
                      ELSE IF x \in ToSet(list) THEN (abs[x] - base) % AbsMod
                      ELSE abs[x]]

(* Where sortedInsert puts a timer that expires at time: behind every      *)
(* entry that expires no later.  Fault: it always appends.                 *)
InsertPositionLast(a, time, k) == k = Len(list) + 1
InsertPosition(a, time, k) ==
  /\ \A j \in 1 .. k - 1 : a[list[j]] <= time
  /\ k <= Len(list) => a[list[k]] > time

(* timeout_create switches the interrupt on again behind an insertion that *)
(* did not restart the counter.  Fault: it leaves it off.                  *)
ReEnableNever == ovfIE
ReEnable == ovfIE \/ running

----------------------------------------------------------------------------
(* Hardware.                                                               *)

(* The interrupt is taken before the next tick and before the next step of *)
(* main code ("assumes the callback completes before the next timer        *)
(* tick").                                                                 *)
InterruptDue == ovfIE /\ ovfFlag

Tick ==
  /\ ~InterruptDue
  /\ cnt' = (cnt + 1) % (MaxCount + 1)
  /\ ovfFlag' = (ovfFlag \/ cnt = MaxCount)
  /\ UNCHANGED <<list, queue, abs, clock, ovfIE, ctl, wild>>

(* Fault: what waits in the queue is overwritten.                          *)
EnqueueOver(t) == queue' = <<t>>
EnqueueCallback(t) == queue' = Append(queue, t)

(* timeout_isr from the RTC_CNT vector, which clears the flag on return.   *)
TimeoutIsr ==
  /\ InterruptDue
  /\ ovfFlag' = FALSE
  /\ IF list = <<>>
       THEN /\ wild' = TRUE
            /\ UNCHANGED <<list, queue, abs, clock, cnt, ovfIE>>
       ELSE /\ IF Head(list) # Dummy THEN EnqueueCallback(Head(list))
                                     ELSE UNCHANGED queue
            /\ StartTimerAtHead(Tail(list), abs, abs[Head(list)])
            /\ StillRebased(rebased)
            /\ UNCHANGED wild
  /\ UNCHANGED ctl

----------------------------------------------------------------------------
(* Main code.  A step of it runs only while no interrupt is due.           *)

MainAt(p) == pc = p /\ ~InterruptDue /\ ~wild

Return == pc' = "ready" /\ op' = NoOp /\ which' = "list"

(* What follows timeout_delete in the call that made it.                   *)
AfterDelete ==
  /\ which' = "list"
  /\ CASE op.call = "create" -> pc' = "create" /\ UNCHANGED op
       [] op.call = "flush"  -> pc' = "flush" /\ op' = [op EXCEPT !.timer = NoTimer]
       [] OTHER              -> pc' = "ready" /\ op' = NoOp

(* An application call out of application_init or out of a callback.       *)
Call(name, t, timeout) ==
  /\ MainAt("ready") /\ cur # NoTimer
  /\ calls < MaxCalls
  /\ calls' = calls + 1
  /\ op' = [call |-> name, timer |-> t, timeout |-> timeout]
  /\ UNCHANGED <<tempIE, cur, queue, list, abs, wild>>

CallCreate(t, timeout) ==
  /\ Call("create", t, timeout)
  /\ pc' = "check" /\ which' = "list"
  /\ UNCHANGED <<clock, hw>>

CallDelete(t) ==
  /\ Call("delete", t, 0)
  /\ pc' = "check" /\ which' = "list"
  /\ UNCHANGED <<clock, hw>>

CallFlushAll ==
  /\ Call("flush", NoTimer, 0)
  /\ pc' = "flush" /\ UNCHANGED which
  /\ StopTimeouts
  /\ UNCHANGED <<cnt, ovfFlag, rebased>>

(* One round of the loops of timeout_flushAll.                             *)
FlushNext ==
  /\ MainAt("flush")
  /\ IF list = <<>> /\ queue = <<>>
       THEN Return
       ELSE /\ op' = [op EXCEPT !.timer = Head(IF list # <<>> THEN list ELSE queue)]
            /\ pc' = "check" /\ which' = "list"
  /\ UNCHANGED <<list, queue, abs, clock, hw, tempIE, cur, calls, wild>>

(* timeout_deleteHelper reads *list before it switches the interrupt off.  *)
Target == IF which = "list" THEN list ELSE queue

(* Fault: a timer that is not in listHead is not looked for in the queue.  *)
NotFoundAnywhere == AfterDelete
NotFound ==
  IF which = "list"
    THEN pc' = "check" /\ which' = "queue" /\ UNCHANGED op
    ELSE AfterDelete

DeleteCheck ==
  /\ MainAt("check")
  /\ IF Target = <<>> THEN NotFound
                      ELSE pc' = "guard" /\ UNCHANGED <<which, op>>
  /\ UNCHANGED <<list, queue, abs, clock, hw, tempIE, cur, calls, wild>>

DeleteGuard ==
  /\ MainAt("guard")
  /\ ovfIE' = FALSE
  /\ pc' = "off"
  /\ UNCHANGED <<list, queue, abs, clock, cnt, ovfFlag, which, op, tempIE, cur,
                 calls, wild>>

(* The timer is the head: it is unlinked and the counter restarted for     *)
(* whatever is at the head of listHead then, whichever list it was in.     *)
DeleteHead ==
  /\ MainAt("off")
  /\ Target # <<>> /\ Head(Target) = op.timer
  /\ IF which = "list"
       THEN StartTimerAtHead(Tail(list), abs, absLast) /\ UNCHANGED queue
       ELSE StartTimerAtHead(list, abs, absLast) /\ queue' = Tail(queue)
  /\ StillRebased(rebased)
  /\ ovfFlag' = IF list' = <<>> THEN ovfFlag ELSE ClearOVFInterruptFlag(ovfFlag)
  /\ AfterDelete
  /\ UNCHANGED <<tempIE, cur, calls, wild>>

(* The rest of the list is searched, and the interrupt switched on.        *)
DeleteSearch ==
  /\ MainAt("off")
  /\ Target # <<>> => Head(Target) # op.timer
  /\ ovfIE' = TRUE
  /\ \/ /\ op.timer \notin ToSet(Target)
        /\ NotFound
        /\ UNCHANGED <<list, queue>>
     \/ /\ \E i \in 2 .. Len(Target) :
             /\ Target[i] = op.timer
             /\ \A j \in 1 .. i - 1 : Target[j] # op.timer
             /\ IF which = "list"
                  THEN list' = RemoveAt(list, i) /\ UNCHANGED queue
                  ELSE queue' = RemoveAt(queue, i) /\ UNCHANGED list
        /\ AfterDelete
  /\ UNCHANGED <<abs, clock, cnt, ovfFlag, tempIE, cur, calls, wild>>

(* timeout_create, after its timeout_delete.                               *)
CreateGuard ==
  /\ MainAt("create")
  /\ ovfIE' = FALSE
  /\ pc' = "createOff"
  /\ UNCHANGED <<list, queue, abs, clock, cnt, ovfFlag, which, op, tempIE, cur,
                 calls, wild>>

CreateAbsolute ==
  /\ MainAt("createOff")
  /\ abs' = [abs EXCEPT ![op.timer] = MakeAbsolute(op.timeout)]
  /\ pc' = "createAbs"
  /\ UNCHANGED <<list, queue, clock, hw, which, op, tempIE, cur, calls, wild>>

CreateInsert ==
  /\ MainAt("createAbs")
  /\ LET t    == op.timer
         wrap == abs[t] < absLast
         a    == IF wrap THEN Rebased(t) ELSE abs
         base == IF wrap THEN (absLast - MakeAbsolute(0)) % AbsMod ELSE absLast
     IN /\ \E k \in 1 .. Len(list) + 1 :
             /\ InsertPosition(a, a[t], k)
             /\ IF k = 1
                  THEN LET rest == IF list # <<>> /\ Head(list) = Dummy
                                     THEN Tail(list) ELSE list
                       IN StartTimerAtHead(<<t>> \o rest, a, base)
                  ELSE /\ list' = InsertAt(list, k, t)
                       /\ abs' = a
                       /\ absLast' = base
                       /\ ovfIE' = ReEnable
                       /\ UNCHANGED <<lastLoad, running, cnt>>
        /\ StillRebased(rebased \/ wrap)
  /\ Return
  /\ ovfFlag' = ClearOVFInterruptFlag(ovfFlag)
  /\ UNCHANGED <<queue, tempIE, cur, calls, wild>>

----------------------------------------------------------------------------
(* The superloop: runScheduler is timeout_callNextCallback.                *)

CallNext ==
  /\ MainAt("ready") /\ cur = NoTimer
  /\ queue # <<>>
  /\ tempIE' = ovfIE
  /\ pc' = "callIE"
  /\ UNCHANGED <<list, queue, abs, clock, hw, which, op, cur, calls, wild>>

CallNextGuard ==
  /\ MainAt("callIE")
  /\ ovfIE' = FALSE
  /\ pc' = "callOff"
  /\ UNCHANGED <<list, queue, abs, clock, cnt, ovfFlag, which, op, tempIE, cur,
                 calls, wild>>

(* The head of the queue is unlinked and its callback entered.             *)
CallNextPop ==
  /\ MainAt("callOff")
  /\ cur' = Head(queue)
  /\ queue' = Tail(queue)
  /\ ovfIE' = (ovfIE \/ tempIE)
  /\ tempIE' = FALSE
  /\ pc' = "ready"
  /\ UNCHANGED <<list, abs, clock, cnt, ovfFlag, which, op, calls, wild>>

(* The callback (or application_init) returns zero ...                     *)
CallbackDone ==
  /\ MainAt("ready") /\ cur # NoTimer
  /\ cur' = NoTimer
  /\ UNCHANGED <<list, queue, abs, clock, hw, pc, which, op, tempIE, calls, wild>>

(* ... or a delay, and timeout_callNextCallback creates the timer anew.    *)
CallbackReschedule(timeout) ==
  /\ MainAt("ready") /\ cur \in Timers
  /\ calls < MaxCalls
  /\ calls' = calls + 1
  /\ op' = [call |-> "create", timer |-> cur, timeout |-> timeout]
  /\ pc' = "check"
  /\ cur' = NoTimer
  /\ UNCHANGED <<list, queue, abs, clock, hw, which, tempIE, wild>>

----------------------------------------------------------------------------
(* RTC_Initialize has started the counter with its overflow interrupt on.  *)
Init ==
  /\ list = <<>> /\ queue = <<>>
  /\ abs = [x \in Nodes |-> 0]
  /\ absLast = 0 /\ lastLoad = 0 /\ running = FALSE /\ rebased = FALSE
  /\ cnt = 0 /\ ovfIE = TRUE /\ ovfFlag = FALSE
  /\ pc = "ready" /\ which = "list" /\ op = NoOp
  /\ tempIE = FALSE /\ cur = Boot /\ calls = 0
  /\ wild = FALSE

Application ==
  \/ \E t \in Timers, d \in Timeouts : CallCreate(t, d)
  \/ \E t \in Timers : CallDelete(t)
  \/ CallFlushAll
  \/ \E d \in Timeouts : CallbackReschedule(d)

Driver ==
  \/ FlushNext \/ DeleteCheck \/ DeleteGuard \/ DeleteHead \/ DeleteSearch
  \/ CreateGuard \/ CreateAbsolute \/ CreateInsert
  \/ CallNextGuard \/ CallNextPop

Superloop == CallNext \/ CallbackDone

Next == Tick \/ TimeoutIsr \/ Application \/ Driver \/ Superloop

Spec == Init /\ [][Next]_vars

(* The counter keeps counting, the interrupt is served, and main code runs *)
(* on: callbacks return and the superloop polls the queue.  Nothing makes  *)
(* the application call.                                                   *)
Fairness ==
  /\ WF_vars(Tick)
  /\ WF_vars(TimeoutIsr)
  /\ WF_vars(Driver)
  /\ WF_vars(Superloop)

FairSpec == Spec /\ Fairness

----------------------------------------------------------------------------
(* Properties.                                                             *)

TypeOK ==
  /\ list \in Seq(Nodes) /\ queue \in Seq(Timers)
  /\ abs \in [Nodes -> 0 .. AbsMod - 1]
  /\ absLast \in 0 .. AbsMod - 1
  /\ lastLoad \in 0 .. MaxCount /\ cnt \in 0 .. MaxCount
  /\ running \in BOOLEAN /\ ovfIE \in BOOLEAN /\ ovfFlag \in BOOLEAN
  /\ rebased \in BOOLEAN
  /\ pc \in PcStates /\ which \in {"list", "queue"}
  /\ op \in [call : {"none", "create", "delete", "flush"},
             timer : Nodes \cup {NoTimer}, timeout : Timeouts \cup {0}]
  /\ tempIE \in BOOLEAN
  /\ cur \in Timers \cup {Boot, NoTimer}
  /\ calls \in 0 .. MaxCalls
  /\ wild \in BOOLEAN

(* A timer is in one place at most: once in listHead or once in the        *)
(* callback queue, whatever interrupt falls between the steps of           *)
(* timeout_delete and timeout_create; Dummy is at the head of listHead or  *)
(* nowhere.  Otherwise the `next` links would tie the two lists together.  *)
OneHome ==
  /\ IsInjective(list) /\ IsInjective(queue)
  /\ ToSet(list) \cap ToSet(queue) = {}
  /\ \A i \in 2 .. Len(list) : list[i] # Dummy

(* sortedInsert keeps listHead in the order in which its timers expire, so *)
(* the one the counter is loaded for is the next one due: as long as       *)
(* rebaseList has not been at the list, which takes the time base below    *)
(* zero, and a timer that is due before zero then goes to the end.         *)
Sorted ==
  \A i, j \in 1 .. Len(list) : i < j => abs[list[i]] <= abs[list[j]]

SortedUntilRebase == Sorted \/ rebased

(* The counter has been loaded for the timer that is at the head of        *)
(* listHead now: insertions and deletions elsewhere leave it alone, those  *)
(* at the head reload it.                                                  *)
LoadedForHead ==
  /\ running => list # <<>>
  /\ running => lastLoad + ((abs[Head(list)] - absLast) % AbsMod) = MaxCount

(* The interrupt that serves listHead is off only while main code guards a *)
(* list, or is flushing them: no path through the driver returns to the    *)
(* application with timers in the list and nothing to expire them.         *)
Guarded == pc \in {"off", "createOff", "createAbs", "callOff"}

ListIsServed ==
  list # <<>> /\ ~Guarded /\ op.call # "flush" => running /\ ovfIE

(* The driver keeps the promise of TimerService.                           *)
Service == INSTANCE TimerService
             WITH pending <- ToSet(list) \ {Dummy}, expired <- queue, active <- cur

ImplementsTimerService == Service!Spec

(* Every timer that was started has its callback run or is deleted.  The   *)
(* two ways out are the wild read of timeout_isr on an empty listHead and  *)
(* the loop of timeout_flushAll, which never ends when the dummy is head.  *)
EveryTimerIsServed ==
  \A t \in Timers :
    (t \in ToSet(list) \cup ToSet(queue))
      ~> (t \notin ToSet(list) \cup ToSet(queue) \/ wild \/ op.call = "flush")

(* timeout.c:323: "This function starts the timer provided with an expiry  *)
(* equal to "timeout"": when timeout_create is done, the time remaining is *)
(* no longer than the timeout asked for.                                   *)
ExpiryEqualsTimeout ==
  [][\A t \in Timers : CreateInsert /\ op.timer = t
        => TimeRemaining(t)' <= op.timeout]_vars

(* The same promise from the other side: timeout_isr is entered for the    *)
(* head only once the counter has run over from the value it was loaded    *)
(* with for that head (a load of zero cannot be told from an overflow).    *)
NeverEarly ==
  [][TimeoutIsr /\ running => cnt < lastLoad \/ lastLoad = 0]_vars
============================================================================
