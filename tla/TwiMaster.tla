------------------------------ MODULE TwiMaster ------------------------------
(***************************************************************************)
(* The I2C master (twi0_master.c) under the blocking calls of              *)
(* i2c_simple_master.c: a state machine run by the TWI interrupt, which    *)
(* main code starts and then waits for in the loop around I2C0_Close.      *)
(* Callbacks tell the machine what to do when a buffer is through or an    *)
(* address is refused.  A status flag is cleared by writing a one, so      *)
(* MSTATUS |= RIF | WIF clears every flag that is set.                     *)
(***************************************************************************)
EXTENDS Integers, Sequences, SequencesExt

CONSTANTS
  Calls,      \* the calls of i2c_simple_master.c that are made, see Call
  MaxLen,     \* bound: bytes of data of one call
  SizeMax     \* largest size_t (2^16 - 1)

(* A register number goes before its data; a plain transfer is all data.   *)
(* Only MasterRead keeps the default for a refused address, which is stop. *)
Call ==
  {c \in [first : {"reg", "data"},                     \* what SetBuffer is given at the start
          reads : BOOLEAN,                             \* the first transfer is MasterRead
          then : {"stop", "continue", "restartRead"},  \* the data-complete callback
          refused : {"stop", "restartWrite"},          \* the address-NACK callback
          len : 1 .. MaxLen,                           \* bytes of data
          tries : 1 .. 2] :
     /\ IF c.first = "reg" THEN ~c.reads /\ c.then # "stop" ELSE c.then = "stop"
     /\ c.refused = IF c.reads THEN "stop" ELSE "restartWrite"}

ASSUME TwiAssumption ==
  /\ MaxLen \in Nat \ {0} /\ SizeMax \in Nat /\ SizeMax >= MaxLen
  /\ Calls \subseteq Call

VARIABLES
  call, tries,          \* the call main code is in (or was in last), tries left
  pc,                   \* where main code stands
  result,               \* what I2C0_Close returned last
  state, error, addressNACKCheck, busy, inUse, bufferFree,   \* I2C0_status
  buffer,               \* data_ptr and data_length: which buffer, next byte, bytes left
  onComplete,           \* callbackTable[DATA_COMPLETE]
  irqOn,                \* RIEN and WIEN
  flags, nack,          \* MSTATUS: "done" for RIF or WIF, "ARBLOST", "BUSERR"; RXACK
  bus, reading,         \* what the hardware is doing, and the R bit of the address
  heard, given, got,    \* bytes the device took, number of the byte it gave, bytes stored
  refused, hurt         \* for the properties: a refusal, a bus fault met the call

fsm == <<state, error, addressNACKCheck, busy, bufferFree, buffer, onComplete>>
device == <<heard, given>>
main == <<call, tries, result, inUse>>
vars == <<main, pc, fsm, irqOn, flags, nack, bus, reading, device, got, refused, hurt>>

States == {"IDLE", "SEND_ADR_READ", "SEND_ADR_WRITE", "TX", "RX", "TX_EMPTY", "RESET"}
Overrides == {"ADDRESS_NACK", "BUS_COLLISION", "BUS_ERROR"}

NoCall == [first |-> "none"]
NoBuffer == [which |-> "none", next |-> 0, left |-> 0]
DataBuffer == [which |-> "data", next |-> 1, left |-> call.len]

(* The bytes of a buffer: 0 is the register number, 1, 2, ... the data.    *)
Byte == buffer.next

(* I2C0_SetBuffer: only while the buffer is free.                          *)
SetBuffer(b, free) == IF free THEN b ELSE buffer

----------------------------------------------------------------------------
(* The hardware as the driver uses it: an address or a byte goes out or    *)
(* comes in, the flag rises and the clock is held.                         *)

MasterTxAddr(read) == bus' = "address" /\ reading' = read
MasterTxData == bus' = IF bus = "held" THEN "sending" ELSE "dead"

(* Fault: the next byte is not asked for.                                  *)
MasterIsRxOrTxNot == UNCHANGED bus

MasterIsRxOrTx == bus' = IF bus = "held" THEN "receiving" ELSE "dead"

MasterStop == bus' = "idle"
MasterResetBus == bus' = "idle"

Under(p) == /\ pc # "overtaken" /\ bus = p
            /\ flags' = flags \union {"done"} /\ bus' = "held"
            /\ UNCHANGED <<main, pc, fsm, irqOn, reading, got, hurt>>

AddressAcked ==
  /\ Under("address") /\ nack' = FALSE
  /\ heard' = IF reading THEN heard ELSE <<>>
  /\ given' = IF reading THEN 1 ELSE given
  /\ UNCHANGED refused

AddressNacked ==
  /\ Under("address") /\ nack' = TRUE
  /\ refused' = (refused \/ reading)
  /\ UNCHANGED device

DataAcked ==
  /\ Under("sending") /\ nack' = FALSE
  /\ heard' = Append(heard, Byte - 1)
  /\ UNCHANGED <<given, refused>>

DataNacked ==
  /\ Under("sending") /\ nack' = TRUE
  /\ refused' = TRUE
  /\ UNCHANGED device

DataReceived ==
  /\ Under("receiving") /\ given' = given + 1
  /\ UNCHANGED <<nack, heard, refused>>

(* Another master or noise: the bus is no longer this master's.  Noise on  *)
(* a bus at rest is taken to interrupt as well.                            *)
Fault ==
  /\ pc # "overtaken"
  /\ \E f \in {"ARBLOST", "BUSERR"} :
       /\ \/ bus \in {"address", "sending", "receiving"}
          \/ bus = "idle" /\ irqOn /\ f = "BUSERR"
       /\ flags' = flags \union {"done", f}
  /\ bus' = "lost" /\ hurt' = TRUE /\ nack' \in BOOLEAN
  /\ UNCHANGED <<main, pc, fsm, irqOn, reading, device, got, refused>>

----------------------------------------------------------------------------
(* The states of the machine.                                              *)

(* Fault: the driver stays busy.                                           *)
DoIdleBusy == UNCHANGED busy /\ error' = "NOERR" /\ state' = "IDLE"

DoIdle == busy' = FALSE /\ error' = "NOERR" /\ state' = "IDLE"

DoStayIdle == DoIdle /\ UNCHANGED <<addressNACKCheck, bufferFree, buffer, onComplete, bus,
                                    reading, got>>

DoReset == /\ busy' = FALSE /\ error' = "NOERR" /\ state' = "RESET" /\ MasterResetBus
           /\ UNCHANGED <<addressNACKCheck, bufferFree, buffer, onComplete, reading, got>>

DoSendStop == MasterStop /\ DoIdle /\ UNCHANGED <<buffer, onComplete, reading, got>>

DoSendAdr(read) ==
  /\ addressNACKCheck' = TRUE /\ MasterTxAddr(read)
  /\ state' = IF read THEN "RX" ELSE "TX"

(* An address that was refused: the error it sets is undone by DoIdle.     *)
DoAddressNack ==
  /\ UNCHANGED bufferFree
  /\ IF call.refused = "restartWrite"
       THEN error' = "FAIL" /\ DoSendAdr(FALSE) /\ UNCHANGED <<busy, buffer, onComplete, got>>
       ELSE addressNACKCheck' = FALSE /\ DoSendStop

(* --data_length, in the width of size_t.                                  *)
Less(n) == (n - 1) % (SizeMax + 1)

(* Fault: the last byte is not told from the others.                       *)
AfterTxAlways(b) == "TX"

AfterTx(b) == IF Less(b.left) = 0 THEN "TX_EMPTY" ELSE "TX"

(* The next byte of b goes out.                                            *)
TxByte(b) ==
  /\ addressNACKCheck' = FALSE /\ MasterTxData
  /\ buffer' = [b EXCEPT !.next = @ + 1, !.left = Less(@)]
  /\ state' = AfterTx(b)
  /\ UNCHANGED <<busy, error, reading, got>>

(* Nobody sets the data-NACK callback: it stops.                           *)
DataRefused == nack /\ DoSendStop /\ UNCHANGED <<addressNACKCheck, bufferFree>>

DoTx ==
  \/ DataRefused
  \/ ~nack /\ TxByte(buffer) /\ UNCHANGED <<bufferFree, onComplete>>

(* Fault: SetBuffer comes while the old buffer is still taken.             *)
NextBufferTaken == SetBuffer(DataBuffer, bufferFree)

(* What the data-complete callback gives the machine: its call of          *)
(* SetBuffer comes when the old buffer has been given back.                *)
NextBuffer == SetBuffer(DataBuffer, TRUE)

DoTxEmpty ==
  \/ DataRefused
  \/ /\ ~nack /\ onComplete = "stop"
     /\ bufferFree' = TRUE /\ DoSendStop /\ UNCHANGED addressNACKCheck
  \/ /\ ~nack /\ onComplete = "restartRead" /\ onComplete' = "stop"
     /\ bufferFree' = FALSE /\ buffer' = NextBuffer
     /\ DoSendAdr(TRUE) /\ UNCHANGED <<busy, error, got>>
  \/ /\ ~nack /\ onComplete = "continue" /\ onComplete' = "stop"
     /\ bufferFree' = FALSE /\ TxByte(NextBuffer)

(* The last byte is answered with NACK and stop, the others with ACK.  The *)
(* data-complete callback of a read is always the default.                 *)
DoRx ==
  /\ addressNACKCheck' = FALSE
  /\ got' = Append(got, given)
  /\ buffer' = [buffer EXCEPT !.next = @ + 1, !.left = Less(@)]
  /\ UNCHANGED <<onComplete, reading>>
  /\ IF Less(buffer.left) # 0
       THEN MasterIsRxOrTx /\ state' = "RX" /\ UNCHANGED <<busy, error, bufferFree>>
       ELSE MasterStop /\ DoIdle /\ bufferFree' = TRUE

DoBusError == /\ MasterResetBus /\ busy' = FALSE /\ error' = "FAIL" /\ state' = "RESET"
              /\ UNCHANGED <<addressNACKCheck, bufferFree, buffer, onComplete, reading, got>>

(* Fault: an address that is refused is not looked for.                    *)
OverriddenNot(late) ==
  CASE "BUSERR" \in late -> "BUS_ERROR"
    [] "ARBLOST" \in late -> "BUS_COLLISION"
    [] OTHER -> state

(* The status flags are cleared first; the overrides see what rises after. *)
Overridden(late) ==
  CASE "BUSERR" \in late -> "BUS_ERROR"
    [] "ARBLOST" \in late -> "BUS_COLLISION"
    [] late = {} /\ addressNACKCheck /\ nack -> "ADDRESS_NACK"
    [] OTHER -> state

Dispatch(s) ==
  \/ s = "ADDRESS_NACK" /\ DoAddressNack
  \/ s \in {"BUS_COLLISION", "RESET"} /\ DoReset
  \/ s = "BUS_ERROR" /\ DoBusError
  \/ s = "TX" /\ DoTx
  \/ s = "TX_EMPTY" /\ DoTxEmpty
  \/ s = "RX" /\ DoRx
  \/ s \in {"SEND_ADR_READ", "SEND_ADR_WRITE"} /\ DoSendAdr(s = "SEND_ADR_READ")
     /\ UNCHANGED <<busy, error, bufferFree, buffer, onComplete, got>>
  \/ s = "IDLE" /\ DoStayIdle

(* Faults that rise in the interrupt are seen by the overrides only; the   *)
(* handlers of both reset the bus, whose MSTATUS |= clears them.           *)
MasterIsr ==
  /\ irqOn /\ "done" \in flags
  /\ flags' = {}
  /\ \E late \in {{}, {"ARBLOST"}, {"BUSERR"}} :
       /\ Dispatch(Overridden(late))
       /\ hurt' = (hurt \/ late # {})
  /\ pc' = IF pc = "started" THEN "overtaken" ELSE pc
  /\ UNCHANGED <<main, irqOn, nack, device, refused>>

----------------------------------------------------------------------------
(* Main code: a call of i2c_simple_master.c.                               *)

Opened(c) ==
  /\ pc' = "start" /\ inUse' = TRUE /\ state' = "RESET"
  /\ busy' = FALSE /\ addressNACKCheck' = FALSE
  /\ buffer' = [which |-> c.first, next |-> IF c.first = "reg" THEN 0 ELSE 1,
                left |-> IF c.first = "reg" THEN 1 ELSE c.len]
  /\ bufferFree' = FALSE /\ onComplete' = c.then
  /\ MasterResetBus /\ flags' = {} /\ irqOn' = TRUE
  /\ heard' = <<>> /\ given' = 0 /\ got' = <<>> /\ refused' = FALSE /\ hurt' = FALSE
  /\ UNCHANGED <<error, nack, reading, result>>

(* I2C0_Open is called again until it reports the bus as in use: the loop  *)
(* tests for NOERR, which is 0, as if it were a failure.                   *)
Open ==
  \/ /\ pc = "idle" /\ ~inUse
     /\ \E c \in Calls : call' = c /\ tries' = c.tries /\ Opened(c)
  \/ /\ pc = "retry" /\ ~inUse
     /\ tries' = tries - 1 /\ UNCHANGED call /\ Opened(call)

(* MasterOperation runs the machine by itself for the first step; what     *)
(* that returns is stored after the address is on its way.                 *)
MasterOperation ==
  /\ pc = "start" /\ ~busy /\ busy' = TRUE
  /\ state' = IF call.reads THEN "SEND_ADR_READ" ELSE "SEND_ADR_WRITE"
  /\ flags' = {} /\ addressNACKCheck' = TRUE /\ MasterTxAddr(call.reads)
  /\ pc' = "started"
  /\ UNCHANGED <<main, error, bufferFree, buffer, onComplete, irqOn, nack, device, got,
                 refused, hurt>>

StoreState ==
  /\ pc \in {"started", "overtaken"} /\ pc' = "wait"
  /\ state' = IF call.reads THEN "RX" ELSE "TX"
  /\ UNCHANGED <<main, error, addressNACKCheck, busy, bufferFree, buffer, onComplete, irqOn,
                 flags, nack, bus, reading, device, got, refused, hurt>>

(* I2C0_Close, in two steps, as the interrupt may fall between them.       *)
CloseLooks ==
  /\ pc = "wait" /\ pc' = "check"
  /\ IF "BUSERR" \in flags THEN busy' = FALSE /\ error' = "FAIL" ELSE UNCHANGED <<busy, error>>
  /\ UNCHANGED <<main, state, addressNACKCheck, bufferFree, buffer, onComplete, irqOn, flags,
                 nack, bus, reading, device, got, refused, hurt>>

CloseWaits == /\ pc = "check" /\ busy /\ pc' = "wait"
              /\ UNCHANGED <<main, fsm, irqOn, flags, nack, bus, reading, device, got, refused, hurt>>

CloseReleases ==
  /\ pc = "check" /\ ~busy
  /\ inUse' = FALSE /\ flags' = {} /\ irqOn' = FALSE /\ result' = error
  /\ pc' = IF error # "NOERR" /\ tries > 1 THEN "retry" ELSE "idle"
  /\ UNCHANGED <<call, tries, fsm, nack, bus, reading, device, got, refused, hurt>>

Init ==
  /\ call = NoCall /\ tries = 0 /\ pc = "idle" /\ result = "NOERR"
  /\ state = "IDLE" /\ error = "NOERR" /\ addressNACKCheck = FALSE
  /\ busy = FALSE /\ inUse = FALSE /\ bufferFree = FALSE
  /\ buffer = NoBuffer /\ onComplete = "stop" /\ irqOn = FALSE
  /\ flags = {} /\ nack = FALSE /\ bus = "idle" /\ reading = FALSE
  /\ heard = <<>> /\ given = 0 /\ got = <<>> /\ refused = FALSE /\ hurt = FALSE

Progress == AddressAcked \/ AddressNacked \/ DataAcked \/ DataNacked \/ DataReceived
Hardware == Progress \/ Fault
Main == Open \/ MasterOperation \/ StoreState \/ CloseLooks \/ CloseWaits \/ CloseReleases
Next == Hardware \/ MasterIsr \/ Main

Spec == Init /\ [][Next]_vars

(* The processor and the bus go on, faults need not come; a device that is *)
(* polled with its address answers some time.                              *)
Fairness ==
  /\ WF_vars(MasterOperation \/ StoreState \/ CloseLooks \/ CloseWaits \/ CloseReleases)
  /\ WF_vars(MasterIsr) /\ WF_vars(Progress) /\ SF_vars(AddressAcked)

FairSpec == Spec /\ Fairness

----------------------------------------------------------------------------
(* Properties.                                                             *)

TypeOK ==
  /\ call \in Calls \union {NoCall} /\ tries \in 0 .. 2
  /\ pc \in {"idle", "retry", "start", "started", "overtaken", "wait", "check"}
  /\ result \in {"NOERR", "FAIL"} /\ error \in {"NOERR", "FAIL"}
  /\ state \in States
  /\ addressNACKCheck \in BOOLEAN /\ busy \in BOOLEAN /\ inUse \in BOOLEAN
  /\ bufferFree \in BOOLEAN /\ irqOn \in BOOLEAN /\ nack \in BOOLEAN
  /\ reading \in BOOLEAN /\ refused \in BOOLEAN /\ hurt \in BOOLEAN
  /\ buffer \in [which : {"none", "reg", "data"}, next : 0 .. MaxLen + 1, left : 0 .. MaxLen]
  /\ onComplete \in {"stop", "continue", "restartRead"}
  /\ flags \subseteq {"done", "ARBLOST", "BUSERR"}
  /\ bus \in {"idle", "address", "sending", "receiving", "held", "lost", "dead"}
  /\ heard \in Seq(0 .. MaxLen) /\ got \in Seq(0 .. MaxLen) /\ given \in 0 .. MaxLen

(* What the device is to hear, and what the caller is to get.              *)
Numbers(n) == [i \in 1 .. n |-> i]
Message ==
  CASE call.reads -> <<>>
    [] ~call.reads /\ call.first = "data" -> Numbers(call.len)
    [] call.first = "reg" /\ call.then = "continue" -> <<0>> \o Numbers(call.len)
    [] OTHER -> <<0>>
Answer == IF call.reads \/ call.then = "restartRead" THEN Numbers(call.len) ELSE <<>>

Finished == pc = "idle" /\ call # NoCall

(* The device hears the bytes of a call in their order, each once; those   *)
(* of a read only while nothing is refused.                                *)
HeardInOrder ==
  call # NoCall /\ ~hurt /\ (Answer # <<>> => ~refused) => IsPrefix(heard, Message)

(* A call that meets no refusal and no fault is carried out as a whole.    *)
WholeUnlessRefused ==
  Finished /\ ~refused /\ ~hurt => result = "NOERR" /\ heard = Message /\ got = Answer

(* Every call on an undisturbed bus comes to its end.                      *)
CallsReturn == pc = "start" ~> pc = "idle" \/ hurt
=============================================================================
