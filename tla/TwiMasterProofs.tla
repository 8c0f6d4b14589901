-------------------------- MODULE TwiMasterProofs --------------------------
(***************************************************************************)
(* Proofs about TwiMaster, for calls of any length and any width of        *)
(* size_t: types, and what the device hears and the caller gets.           *)
(***************************************************************************)
EXTENDS TwiMaster, SequenceTheorems, TLAPS

(* The buffer a call begins with.                                          *)
FirstBuffer ==
  [which |-> call.first, next |-> IF call.first = "reg" THEN 0 ELSE 1,
   left |-> IF call.first = "reg" THEN 1 ELSE call.len]

----------------------------------------------------------------------------
(* The invariant for types: it holds whatever meets the call.              *)

(* Nothing is counted below zero or beyond the buffer: bytes gone and      *)
(* bytes left add up, and no more is received than there is room for.      *)
Counted ==
  IF buffer.which = "reg"
    THEN /\ call.first = "reg" /\ onComplete = call.then /\ given = 0
         /\ buffer.next \in 0 .. 1 /\ buffer.left = 1 - buffer.next
    ELSE /\ buffer.which = "data" /\ onComplete = "stop" /\ given <= buffer.next
         /\ buffer.next \in 1 .. call.len + 1 /\ buffer.left = call.len + 1 - buffer.next

(* Whenever a byte is to go or to come there is one left.                  *)
Lasting ==
  /\ state = "TX" \/ addressNACKCheck => buffer.left >= 1
  /\ state = "RX" => buffer.left >= 1 /\ buffer.which = "data"
  /\ bus = "address" /\ reading => buffer.which = "data"
  /\ bus = "sending" => buffer.next >= 1
  /\ bus = "receiving" => buffer.which = "data" /\ buffer.left >= 1 /\ given < buffer.next

(* The buffer is untouched until MasterOperation has stored the state.     *)
Starting ==
  /\ pc \in {"start", "started", "overtaken"} => buffer = FirstBuffer
  /\ pc = "start" => bus \in {"idle", "lost"} /\ state = "RESET" /\ ~addressNACKCheck
  /\ pc = "started" => state = IF call.reads THEN "SEND_ADR_READ" ELSE "SEND_ADR_WRITE"
  /\ state \in {"SEND_ADR_READ", "SEND_ADR_WRITE"} => pc = "started"
  /\ pc = "overtaken" => "done" \notin flags
  /\ pc = "retry" => tries > 1

Bounded == call # NoCall => Counted /\ Lasting /\ Starting

(* Before the first call.                                                  *)
Unused == call = NoCall => pc = "idle" /\ ~irqOn /\ bus = "idle"

Typed == TypeOK /\ Bounded /\ Unused

(* The calls are those of i2c_simple_master.c, and NoCall is none of them. *)
LEMMA CallFacts ==
  ASSUME NEW c \in Calls
  PROVE  /\ c # NoCall /\ c.first \in {"reg", "data"} /\ c.reads \in BOOLEAN
         /\ c.then \in {"stop", "continue", "restartRead"} /\ c.refused \in {"stop", "restartWrite"}
         /\ c.len \in 1 .. MaxLen /\ c.tries \in 1 .. 2
         /\ IF c.first = "reg" THEN ~c.reads /\ c.then # "stop" ELSE c.then = "stop"
         /\ c.refused = IF c.reads THEN "stop" ELSE "restartWrite"
<1>1. c \in Call
  BY TwiAssumption
<1>2. c.first \in {"reg", "data"}
  BY <1>1 DEF Call
<1> QED
  BY <1>1, <1>2 DEF Call, NoCall

(* The Boolean variables, one by one.                                      *)
LEMMA Bits ==
  ASSUME TypeOK
  PROVE  /\ addressNACKCheck \in BOOLEAN /\ busy \in BOOLEAN /\ inUse \in BOOLEAN
         /\ bufferFree \in BOOLEAN /\ irqOn \in BOOLEAN /\ nack \in BOOLEAN
         /\ reading \in BOOLEAN /\ refused \in BOOLEAN /\ hurt \in BOOLEAN
BY DEF TypeOK

(* A byte less is one less, as long as there is one: size_t does not wrap. *)
LEMMA LessIs == ASSUME NEW n \in 1 .. MaxLen PROVE Less(n) = n - 1
BY TwiAssumption DEF Less

BufferType == [which : {"none", "reg", "data"}, next : 0 .. MaxLen + 1, left : 0 .. MaxLen]
BusStates == {"idle", "address", "sending", "receiving", "held", "lost", "dead"}

(* What a step of the machine leaves behind.                               *)
MachineType ==
  /\ state \in States \ {"SEND_ADR_READ", "SEND_ADR_WRITE"} /\ error \in {"NOERR", "FAIL"}
  /\ addressNACKCheck \in BOOLEAN /\ busy \in BOOLEAN /\ bufferFree \in BOOLEAN
  /\ reading \in BOOLEAN
  /\ buffer \in BufferType /\ onComplete \in {"stop", "continue", "restartRead"}
  /\ bus \in BusStates /\ got \in Seq(0 .. MaxLen)
  /\ Counted /\ Lasting

(* The state of affairs in which the machine takes a step.                 *)
InCall == TypeOK /\ call \in Calls /\ Counted /\ Lasting

(* The machine resets the bus.                                             *)
LEMMA ResetType ==
  ASSUME InCall, UNCHANGED <<call, given>>, DoReset \/ DoBusError
  PROVE  /\ MachineType' /\ state' = "RESET" /\ buffer' = buffer /\ bus' = "idle"
         /\ addressNACKCheck' = addressNACKCheck
<1>1. /\ state' = "RESET" /\ bus' = "idle" /\ busy' = FALSE /\ error' \in {"NOERR", "FAIL"}
      /\ UNCHANGED <<addressNACKCheck, bufferFree, buffer, onComplete, reading, got>>
  BY DEF DoReset, DoBusError, MasterResetBus
<1>2. Counted' /\ Lasting'
  BY <1>1 DEF InCall, Counted, Lasting
<1> QED
  BY <1>1, <1>2, Bits DEF InCall, TypeOK, MachineType, States, BusStates, BufferType

(* The machine stops.                                                      *)
LEMMA StopType ==
  ASSUME InCall, UNCHANGED <<call, given>>, DoSendStop,
         addressNACKCheck' \in BOOLEAN, addressNACKCheck' => addressNACKCheck,
         bufferFree' \in BOOLEAN
  PROVE  MachineType' /\ buffer' = buffer
<1>1. /\ state' = "IDLE" /\ bus' = "idle" /\ busy' = FALSE /\ error' = "NOERR"
      /\ UNCHANGED <<buffer, onComplete, reading, got>>
  BY DEF DoSendStop, MasterStop, DoIdle
<1>2. Counted' /\ Lasting'
  BY <1>1, Bits DEF InCall, Counted, Lasting
<1>3. addressNACKCheck' \in BOOLEAN /\ busy' \in BOOLEAN /\ reading' \in BOOLEAN
  BY <1>1, Bits DEF InCall
<1>4. /\ state' \in States \ {"SEND_ADR_READ", "SEND_ADR_WRITE"} /\ error' \in {"NOERR", "FAIL"}
      /\ bus' \in BusStates
  BY <1>1 DEF States, BusStates
<1>5. /\ buffer' \in BufferType /\ onComplete' \in {"stop", "continue", "restartRead"}
      /\ got' \in Seq(0 .. MaxLen)
  BY <1>1 DEF InCall, TypeOK, BufferType
<1> QED
  BY <1>1, <1>2, <1>3, <1>4, <1>5 DEF MachineType

(* A machine that is idle when it is interrupted stays so.                 *)
LEMMA StayIdleType ==
  ASSUME InCall, UNCHANGED <<call, given>>, DoStayIdle
  PROVE  MachineType' /\ buffer' = buffer
<1>1. /\ state' = "IDLE" /\ busy' = FALSE /\ error' = "NOERR"
      /\ UNCHANGED <<addressNACKCheck, bufferFree, buffer, onComplete, bus, reading, got>>
  BY DEF DoStayIdle, DoIdle
<1>2. Counted' /\ Lasting'
  BY <1>1 DEF InCall, Counted, Lasting
<1> QED
  BY <1>1, <1>2, Bits DEF InCall, TypeOK, MachineType, States, BusStates, BufferType

(* The machine sends an address, with a byte left in the buffer.           *)
LEMMA AddressType ==
  ASSUME InCall, UNCHANGED <<call, given>>, NEW read \in BOOLEAN, DoSendAdr(read),
         error' \in {"NOERR", "FAIL"}, busy' \in BOOLEAN, bufferFree' \in BOOLEAN,
         buffer' \in BufferType, onComplete' \in {"stop", "continue", "restartRead"},
         got' = got, Counted', buffer'.left >= 1, read => buffer'.which = "data"
  PROVE  MachineType'
<1>1. /\ state' = (IF read THEN "RX" ELSE "TX") /\ bus' = "address"
      /\ addressNACKCheck' = TRUE /\ reading' = read
  BY DEF DoSendAdr, MasterTxAddr
<1>2. Lasting'
  BY <1>1 DEF Lasting
<1> QED
  BY <1>1, <1>2 DEF InCall, TypeOK, MachineType, States, BusStates

(* An address that is refused.                                             *)
LEMMA RefusedType ==
  ASSUME InCall, UNCHANGED <<call, given>>, addressNACKCheck, DoAddressNack
  PROVE  MachineType' /\ buffer' = buffer
<1>1. CASE call.refused = "restartWrite"
  <2>1. /\ error' = "FAIL" /\ DoSendAdr(FALSE)
        /\ UNCHANGED <<bufferFree, busy, buffer, onComplete, got>>
    BY <1>1 DEF DoAddressNack
  <2>2. Counted' /\ buffer'.left >= 1 /\ buffer' \in BufferType
    BY <2>1 DEF InCall, Counted, Lasting, TypeOK, BufferType
  <2> QED
    BY <2>1, <2>2, AddressType, Bits DEF InCall, TypeOK
<1>2. CASE call.refused # "restartWrite"
  BY <1>2, StopType, Bits DEF DoAddressNack, InCall
<1> QED
  BY <1>1, <1>2

(* A byte of the buffer b goes out.                                        *)
LEMMA TxByteType ==
  ASSUME InCall, UNCHANGED <<call, given>>, NEW b \in BufferType, TxByte(b), b.left >= 1,
         bufferFree' \in BOOLEAN, onComplete' \in {"stop", "continue", "restartRead"},
         IF b.which = "reg"
           THEN /\ call.first = "reg" /\ onComplete' = call.then /\ given = 0
                /\ b.next \in 0 .. 1 /\ b.left = 1 - b.next
           ELSE /\ b.which = "data" /\ onComplete' = "stop" /\ given <= b.next
                /\ b.next \in 1 .. call.len + 1 /\ b.left = call.len + 1 - b.next
  PROVE  MachineType'
<1>1. /\ addressNACKCheck' = FALSE /\ bus' \in {"sending", "dead"}
      /\ buffer' = [b EXCEPT !.next = b.next + 1, !.left = Less(b.left)]
      /\ state' = (IF Less(b.left) = 0 THEN "TX_EMPTY" ELSE "TX")
      /\ UNCHANGED <<busy, error, reading, got>>
  BY DEF TxByte, MasterTxData, AfterTx
<1>2. /\ b.left \in 1 .. MaxLen /\ b.next \in Int /\ b.next + 1 \in 0 .. MaxLen + 1
      /\ b.which \in {"none", "reg", "data"} /\ call.len \in 1 .. MaxLen /\ given \in Int
  <2>1. call.len \in 1 .. MaxLen /\ MaxLen \in Nat /\ given \in Int
    BY CallFacts, TwiAssumption DEF InCall, TypeOK
  <2>2. b.left \in 0 .. MaxLen /\ b.next \in 0 .. MaxLen + 1 /\ b.which \in {"none", "reg", "data"}
    BY DEF BufferType
  <2>3. b.next <= MaxLen
    BY <2>1, <2>2
  <2> QED
    BY <2>1, <2>2, <2>3
<1>3. Less(b.left) = b.left - 1
  BY <1>2, LessIs
<1>4. /\ buffer'.which = b.which /\ buffer'.next = b.next + 1 /\ buffer'.left = b.left - 1
      /\ buffer' \in BufferType
  <2>1. b = [which |-> b.which, next |-> b.next, left |-> b.left]
    BY DEF BufferType
  <2>2. buffer' = [which |-> b.which, next |-> b.next + 1, left |-> b.left - 1]
    BY <1>1, <1>3, <2>1
  <2>3. b.left - 1 \in 0 .. MaxLen
    BY <1>2, TwiAssumption
  <2> QED
    BY <1>2, <2>2, <2>3 DEF BufferType
<1>5. Counted'
  BY <1>2, <1>4 DEF Counted
<1>6. Lasting'
  BY <1>1, <1>2, <1>3, <1>4 DEF Lasting, BufferType
<1> QED
  BY <1>1, <1>4, <1>5, <1>6, Bits DEF InCall, TypeOK, MachineType, States, BusStates

(* The state TX.                                                           *)
LEMMA TxType ==
  ASSUME InCall, UNCHANGED <<call, given>>, DoTx, state = "TX" PROVE MachineType'
<1>1. CASE DataRefused
  <2>1. DoSendStop /\ UNCHANGED <<addressNACKCheck, bufferFree>>
    BY <1>1 DEF DataRefused
  <2>2. addressNACKCheck' \in BOOLEAN /\ bufferFree' \in BOOLEAN
    BY <2>1, Bits DEF InCall
  <2> QED
    BY <2>1, <2>2, StopType
<1>2. CASE TxByte(buffer) /\ UNCHANGED <<bufferFree, onComplete>>
  <2>1. /\ buffer \in BufferType /\ buffer.left >= 1 /\ Counted
        /\ bufferFree' \in BOOLEAN /\ onComplete' \in {"stop", "continue", "restartRead"}
        /\ onComplete' = onComplete
    BY <1>2, Bits DEF InCall, Lasting, TypeOK, BufferType
  <2> QED
    BY <1>2, <2>1, TxByteType DEF Counted
<1> QED
  BY <1>1, <1>2 DEF DoTx

(* The buffer that the data-complete callback sets.                        *)
LEMMA NextBufferIs ==
  ASSUME InCall
  PROVE  /\ NextBuffer = DataBuffer /\ DataBuffer \in BufferType
         /\ DataBuffer.which = "data" /\ DataBuffer.next = 1 /\ DataBuffer.left = call.len
         /\ call.len \in 1 .. MaxLen
<1>1. call.len \in 1 .. MaxLen
  BY CallFacts DEF InCall
<1>2. call.len \in 0 .. MaxLen /\ 1 \in 0 .. MaxLen + 1
  BY <1>1, TwiAssumption
<1> QED
  BY <1>1, <1>2 DEF NextBuffer, SetBuffer, DataBuffer, BufferType

(* The state TX_EMPTY: only a register number is followed by something.    *)
LEMMA TxEmptyType ==
  ASSUME InCall, UNCHANGED <<call, given>>, DoTxEmpty PROVE MachineType'
<1>1. CASE DataRefused
  <2>1. DoSendStop /\ UNCHANGED <<addressNACKCheck, bufferFree>>
    BY <1>1 DEF DataRefused
  <2>2. addressNACKCheck' \in BOOLEAN /\ bufferFree' \in BOOLEAN
    BY <2>1, Bits DEF InCall
  <2> QED
    BY <2>1, <2>2, StopType
<1>2. CASE bufferFree' = TRUE /\ DoSendStop /\ UNCHANGED addressNACKCheck
  <2>1. addressNACKCheck' \in BOOLEAN /\ bufferFree' \in BOOLEAN
    BY <1>2, Bits DEF InCall
  <2> QED
    BY <1>2, <2>1, StopType
<1>3. onComplete # "stop" => given = 0
  BY DEF InCall, Counted
<1>4. CASE /\ onComplete = "restartRead" /\ onComplete' = "stop"
           /\ bufferFree' = FALSE /\ buffer' = NextBuffer
           /\ DoSendAdr(TRUE) /\ UNCHANGED <<busy, error, got>>
  <2>1. /\ buffer' = DataBuffer /\ buffer' \in BufferType /\ buffer'.which = "data"
        /\ buffer'.next = 1 /\ buffer'.left = call.len /\ call.len \in 1 .. MaxLen
    BY <1>4, NextBufferIs
  <2>2. Counted'
    BY <1>3, <1>4, <2>1 DEF Counted
  <2>3. /\ error' \in {"NOERR", "FAIL"} /\ buffer'.left >= 1
        /\ onComplete' \in {"stop", "continue", "restartRead"} /\ got' = got
    BY <1>4, <2>1 DEF InCall, TypeOK
  <2>4. busy' \in BOOLEAN /\ bufferFree' \in BOOLEAN /\ TRUE \in BOOLEAN
    BY <1>4, Bits DEF InCall
  <2> QED
    BY <1>4, <2>1, <2>2, <2>3, <2>4, AddressType
<1>5. CASE /\ onComplete = "continue" /\ onComplete' = "stop"
           /\ bufferFree' = FALSE /\ TxByte(NextBuffer)
  <2>1. /\ TxByte(DataBuffer) /\ DataBuffer \in BufferType /\ DataBuffer.which = "data"
        /\ DataBuffer.next = 1 /\ DataBuffer.left = call.len /\ call.len \in 1 .. MaxLen
    BY <1>5, NextBufferIs
  <2>2. bufferFree' \in BOOLEAN /\ onComplete' \in {"stop", "continue", "restartRead"}
    BY <1>5
  <2>3. /\ given <= DataBuffer.next /\ DataBuffer.next \in 1 .. call.len + 1
        /\ DataBuffer.left = call.len + 1 - DataBuffer.next /\ DataBuffer.left >= 1
    BY <1>3, <1>5, <2>1
  <2> QED
    BY <1>5, <2>1, <2>2, <2>3, TxByteType
<1> QED
  BY <1>1, <1>2, <1>4, <1>5 DEF DoTxEmpty

(* The state RX.                                                           *)
LEMMA RxType ==
  ASSUME InCall, UNCHANGED <<call, given>>, DoRx, state = "RX" PROVE MachineType'
<1>1. /\ buffer.which = "data" /\ onComplete = "stop" /\ given <= buffer.next
      /\ buffer.next \in 1 .. call.len + 1 /\ buffer.left = call.len + 1 - buffer.next
      /\ buffer.left >= 1 /\ call.len \in 1 .. MaxLen
      /\ given \in 0 .. MaxLen /\ got \in Seq(0 .. MaxLen) /\ MaxLen \in Nat
      /\ buffer.next <= call.len
  <2>1. /\ buffer.which = "data" /\ onComplete = "stop" /\ given <= buffer.next
        /\ buffer.next \in 1 .. call.len + 1 /\ buffer.left = call.len + 1 - buffer.next
        /\ buffer.left >= 1 /\ call.len \in 1 .. MaxLen
        /\ given \in 0 .. MaxLen /\ got \in Seq(0 .. MaxLen) /\ MaxLen \in Nat
    BY CallFacts, TwiAssumption DEF InCall, Counted, Lasting, TypeOK
  <2> QED
    BY <2>1
<1>2. Less(buffer.left) = buffer.left - 1
  <2>1. buffer.left \in 1 .. MaxLen
    BY <1>1
  <2> QED
    BY <2>1, LessIs
<1>3. /\ addressNACKCheck' = FALSE /\ got' \in Seq(0 .. MaxLen) /\ UNCHANGED <<onComplete, reading>>
      /\ buffer' = [buffer EXCEPT !.next = @ + 1, !.left = Less(@)]
  <2>1. got' = Append(got, given)
    BY DEF DoRx
  <2> QED
    BY <1>1, <2>1 DEF DoRx
<1>4. /\ buffer'.which = "data" /\ buffer'.next = buffer.next + 1 /\ buffer'.left = buffer.left - 1
      /\ buffer' \in BufferType
  <2>1. buffer = [which |-> buffer.which, next |-> buffer.next, left |-> buffer.left]
    BY DEF InCall, TypeOK
  <2>2. buffer' = [which |-> "data", next |-> buffer.next + 1, left |-> buffer.left - 1]
    BY <1>1, <1>2, <1>3, <2>1
  <2>3. buffer.left - 1 \in 0 .. MaxLen /\ buffer.next + 1 \in 0 .. MaxLen + 1
    BY <1>1, SMTT(20)
  <2> QED
    BY <2>2, <2>3 DEF BufferType
<1>5. Counted'
  <2>1. /\ buffer'.next \in 1 .. call.len + 1 /\ buffer'.left = call.len + 1 - buffer'.next
        /\ given <= buffer'.next
    BY <1>1, <1>4, SMTT(20)
  <2> QED
    BY <1>1, <1>3, <1>4, <2>1 DEF Counted
<1>6. CASE buffer.left - 1 # 0
  <2>1. /\ bus' \in {"receiving", "dead"} /\ state' = "RX"
        /\ UNCHANGED <<busy, error, bufferFree>>
    BY <1>2, <1>6 DEF DoRx, MasterIsRxOrTx
  <2>2. Lasting'
    BY <1>1, <1>3, <1>4, <1>6, <2>1 DEF Lasting
  <2> QED
    BY <1>3, <1>4, <1>5, <2>1, <2>2, Bits DEF InCall, TypeOK, MachineType, States, BusStates
<1>7. CASE buffer.left - 1 = 0
  <2>1. /\ bus' = "idle" /\ state' = "IDLE" /\ busy' = FALSE /\ error' = "NOERR"
        /\ bufferFree' = TRUE
    BY <1>2, <1>7 DEF DoRx, MasterStop, DoIdle
  <2>2. Lasting'
    BY <1>3, <2>1 DEF Lasting
  <2> QED
    BY <1>3, <1>4, <1>5, <2>1, <2>2, Bits DEF InCall, TypeOK, MachineType, States, BusStates
<1> QED
  BY <1>6, <1>7

(* Whatever the machine finds, its step is well typed; in the states in    *)
(* which the transfer has not begun it leaves the buffer alone.            *)
LEMMA DispatchType ==
  ASSUME InCall, UNCHANGED <<call, given>>,
         NEW late \in {{}, {"ARBLOST"}, {"BUSERR"}}, Dispatch(Overridden(late)),
         state \in {"SEND_ADR_READ", "SEND_ADR_WRITE"} =>
           buffer.left >= 1 /\ (state = "SEND_ADR_READ" => buffer.which = "data")
  PROVE  /\ MachineType'
         /\ state \notin {"TX", "TX_EMPTY", "RX"} => buffer' = buffer
         /\ state = "RESET" /\ ~addressNACKCheck =>
              state' = "RESET" /\ bus' = "idle" /\ ~addressNACKCheck'
<1>1. CASE "BUSERR" \in late
  <2>1. Overridden(late) = "BUS_ERROR"
    BY <1>1 DEF Overridden
  <2>2. DoBusError
    BY <2>1 DEF Dispatch
  <2> QED
    BY <2>2, ResetType
<1>2. CASE "BUSERR" \notin late /\ "ARBLOST" \in late
  <2>1. Overridden(late) = "BUS_COLLISION"
    BY <1>2 DEF Overridden
  <2>2. DoReset
    BY <2>1 DEF Dispatch
  <2> QED
    BY <1>2, <2>2, ResetType
<1>3. CASE "BUSERR" \notin late /\ "ARBLOST" \notin late /\ late = {} /\ addressNACKCheck /\ nack
  <2>1. Overridden(late) = "ADDRESS_NACK"
    BY <1>3 DEF Overridden
  <2>2. DoAddressNack
    BY <2>1 DEF Dispatch
  <2> QED
    BY <1>3, <2>2, RefusedType
<1>4. CASE "BUSERR" \notin late /\ "ARBLOST" \notin late /\ ~(late = {} /\ addressNACKCheck /\ nack)
  <2>1. Overridden(late) = state
    BY <1>4 DEF Overridden
  <2>2. CASE state \in {"TX", "TX_EMPTY", "RX"}
    BY <1>4, <2>1, <2>2, TxType, TxEmptyType, RxType DEF Dispatch
  <2>3. CASE state \in {"SEND_ADR_READ", "SEND_ADR_WRITE"}
    <3>1. /\ DoSendAdr(state = "SEND_ADR_READ")
          /\ UNCHANGED <<busy, error, bufferFree, buffer, onComplete, got>>
      BY <2>1, <2>3 DEF Dispatch
    <3>2. /\ Counted' /\ buffer' \in BufferType /\ buffer'.left >= 1
          /\ state = "SEND_ADR_READ" => buffer'.which = "data"
          /\ error' \in {"NOERR", "FAIL"} /\ onComplete' \in {"stop", "continue", "restartRead"}
          /\ got' = got
      BY <2>3, <3>1 DEF InCall, Counted, TypeOK, BufferType
    <3>3. busy' \in BOOLEAN /\ bufferFree' \in BOOLEAN
      BY <3>1, Bits DEF InCall
    <3>4. (state = "SEND_ADR_READ") \in BOOLEAN
      OBVIOUS
    <3>5. MachineType'
      BY <3>1, <3>2, <3>3, <3>4, AddressType
    <3> QED
      BY <1>4, <2>3, <3>1, <3>5
  <2>4. CASE state = "IDLE"
    <3>1. DoStayIdle
      BY <2>1, <2>4 DEF Dispatch
    <3> QED
      BY <2>4, <3>1, StayIdleType
  <2>5. CASE state = "RESET"
    <3>1. DoReset
      BY <2>1, <2>5 DEF Dispatch
    <3> QED
      BY <3>1, ResetType
  <2> QED
    BY <2>2, <2>3, <2>4, <2>5 DEF InCall, TypeOK, States
<1> QED
  BY <1>1, <1>2, <1>3, <1>4

(* A call under way is one of Calls, and the machine may take a step.      *)
LEMMA InCallIs == ASSUME Typed, call # NoCall PROVE InCall
BY DEF Typed, TypeOK, Bounded, InCall

(* Main code: a call begins, for the first time or again.                  *)
LEMMA OpenType ==
  ASSUME TypeOK, NEW c \in Calls, call' = c, tries' \in 0 .. 2, Opened(c) PROVE Typed'
<1>1. /\ pc' = "start" /\ inUse' = TRUE /\ state' = "RESET" /\ bus' = "idle"
      /\ busy' = FALSE /\ addressNACKCheck' = FALSE
      /\ buffer' = [which |-> c.first, next |-> IF c.first = "reg" THEN 0 ELSE 1,
                    left |-> IF c.first = "reg" THEN 1 ELSE c.len]
      /\ bufferFree' = FALSE /\ onComplete' = c.then
      /\ flags' = {} /\ irqOn' = TRUE
      /\ heard' = <<>> /\ given' = 0 /\ got' = <<>> /\ refused' = FALSE /\ hurt' = FALSE
      /\ UNCHANGED <<error, nack, reading, result>>
  BY DEF Opened, MasterResetBus
<1>2. /\ c # NoCall /\ c.first \in {"reg", "data"} /\ c.len \in 1 .. MaxLen /\ c.len \in 0 .. MaxLen
      /\ c.then \in {"stop", "continue", "restartRead"} /\ MaxLen \in Nat \ {0}
      /\ c.first = "data" => c.then = "stop"
  BY CallFacts, TwiAssumption
<1>3. buffer' \in BufferType /\ buffer' = FirstBuffer'
  BY <1>1, <1>2 DEF BufferType, FirstBuffer
<1>4. Counted'
  BY <1>1, <1>2 DEF Counted
<1>5. Lasting' /\ Starting'
  BY <1>1, <1>2, <1>3 DEF Lasting, Starting
<1>6. TypeOK'
  <2>1. heard' \in Seq(0 .. MaxLen) /\ got' \in Seq(0 .. MaxLen) /\ given' \in 0 .. MaxLen
    BY <1>1, <1>2
  <2> QED
    BY <1>1, <1>2, <1>3, <2>1, Bits DEF TypeOK, BufferType, States
<1> QED
  BY <1>2, <1>4, <1>5, <1>6 DEF Typed, Bounded, Unused

(* The device and the bus.                                                 *)
LEMMA HardwareType == ASSUME Typed, Hardware PROVE Typed'
<1>1. /\ call # NoCall /\ pc # "overtaken"
      /\ bus \in {"address", "sending", "receiving"} \/ Fault
  BY DEF Hardware, Progress, AddressAcked, AddressNacked, DataAcked, DataNacked, DataReceived, Fault,
         Under, Typed, Unused
<1>2. InCall /\ Starting /\ call.len \in 1 .. MaxLen /\ MaxLen \in Nat \ {0}
  BY <1>1, InCallIs, CallFacts, TwiAssumption DEF Typed, Bounded, InCall
<1>3. /\ UNCHANGED <<main, pc, fsm, irqOn, reading, got>>
      /\ flags' \subseteq {"done", "ARBLOST", "BUSERR"} /\ bus' \in {"held", "lost"}
      /\ pc = "start" => bus' = "lost"
  BY <1>1, <1>2 DEF Hardware, Progress, AddressAcked, AddressNacked, DataAcked, DataNacked, DataReceived,
         Fault, Under, Starting, InCall, TypeOK
<1>4. Starting' /\ Lasting'
  BY <1>1, <1>2, <1>3 DEF Starting, Lasting, InCall, main, fsm, FirstBuffer
<1>5. nack' \in BOOLEAN /\ refused' \in BOOLEAN /\ hurt' \in BOOLEAN
  <2>1. nack' \in BOOLEAN
    BY Bits DEF Typed, Hardware, Progress, AddressAcked, AddressNacked, DataAcked, DataNacked,
                DataReceived, Fault
  <2>2. refused' \in BOOLEAN
    BY Bits DEF Typed, Hardware, Progress, AddressAcked, AddressNacked, DataAcked, DataNacked,
                DataReceived, Fault
  <2>3. hurt' \in BOOLEAN
    BY Bits DEF Typed, Hardware, Progress, AddressAcked, AddressNacked, DataAcked, DataNacked,
                DataReceived, Fault, Under
  <2> QED
    BY <2>1, <2>2, <2>3
<1>6. heard' \in Seq(0 .. MaxLen) /\ given' \in 0 .. MaxLen /\ Counted'
  <2>1. CASE AddressAcked
    <3>1. bus = "address"
      BY <2>1 DEF AddressAcked, Under
    <3>2. CASE reading
      <4>1. heard' = heard /\ given' = 1
        BY <2>1, <3>2 DEF AddressAcked
      <4>2. buffer.which = "data"
        BY <1>2, <3>1, <3>2 DEF InCall, Lasting
      <4> QED
        BY <1>2, <1>3, <4>1, <4>2 DEF InCall, TypeOK, Counted, main, fsm
    <3>3. CASE ~reading
      <4>1. heard' = <<>> /\ given' = given
        BY <2>1, <3>3 DEF AddressAcked
      <4> QED
        BY <1>2, <1>3, <4>1 DEF InCall, TypeOK, Counted, main, fsm
    <3> QED
      BY <3>2, <3>3
  <2>2. CASE DataAcked
    <3>1. heard' = Append(heard, buffer.next - 1) /\ given' = given /\ bus = "sending"
      BY <2>2 DEF DataAcked, Byte, Under
    <3>2. buffer.next - 1 \in 0 .. MaxLen
      BY <1>2, <3>1 DEF InCall, Lasting, TypeOK
    <3>3. heard' \in Seq(0 .. MaxLen)
      BY <1>2, <3>1, <3>2 DEF InCall, TypeOK
    <3> QED
      BY <1>2, <1>3, <3>1, <3>3 DEF InCall, Counted, TypeOK, main, fsm
  <2>3. CASE DataReceived
    <3>1. heard' = heard /\ given' = given + 1 /\ bus = "receiving"
      BY <2>3 DEF DataReceived, Under
    <3>2. /\ buffer.which = "data" /\ buffer.left >= 1 /\ given < buffer.next
          /\ onComplete = "stop" /\ given \in 0 .. MaxLen
          /\ buffer.next \in 1 .. call.len + 1 /\ buffer.left = call.len + 1 - buffer.next
      BY <1>2, <3>1 DEF InCall, Lasting, Counted, TypeOK
    <3>3. given' \in 0 .. MaxLen /\ given' <= buffer.next
      BY <1>2, <3>1, <3>2
    <3> QED
      BY <1>2, <1>3, <3>1, <3>2, <3>3 DEF InCall, Counted, TypeOK, main, fsm
  <2>4. CASE AddressNacked \/ DataNacked \/ Fault
    <3>1. UNCHANGED <<heard, given>>
      BY <2>4 DEF AddressNacked, DataNacked, Fault, device
    <3> QED
      BY <1>2, <1>3, <3>1 DEF InCall, Counted, TypeOK, main, fsm
  <2> QED
    BY <2>1, <2>2, <2>3, <2>4 DEF Hardware, Progress
<1>7. TypeOK'
  BY <1>2, <1>3, <1>5, <1>6, Bits DEF InCall, TypeOK, main, fsm
<1> QED
  BY <1>1, <1>3, <1>4, <1>6, <1>7 DEF Typed, Bounded, Unused, main

(* The interrupt.                                                          *)
LEMMA IsrType == ASSUME Typed, MasterIsr PROVE Typed'
<1>1. PICK late \in {{}, {"ARBLOST"}, {"BUSERR"}} :
         /\ Dispatch(Overridden(late))
         /\ flags' = {}
         /\ hurt' = (hurt \/ late # {})
  BY DEF MasterIsr
<1>2. /\ irqOn /\ "done" \in flags
      /\ pc' = (IF pc = "started" THEN "overtaken" ELSE pc)
      /\ UNCHANGED <<main, irqOn, nack, device, refused>>
  BY DEF MasterIsr
<1>3. call # NoCall
  BY <1>2 DEF Typed, Unused
<1>4. InCall /\ Starting /\ call \in Calls /\ call.len \in 1 .. MaxLen
  BY <1>3, InCallIs, CallFacts DEF Typed, Bounded, InCall
<1>5. state \in {"SEND_ADR_READ", "SEND_ADR_WRITE"} =>
           buffer.left >= 1 /\ (state = "SEND_ADR_READ" => buffer.which = "data")
  BY <1>4, CallFacts DEF Starting, FirstBuffer
<1>6. UNCHANGED <<call, given>>
  BY <1>2 DEF main, device
<1>7. /\ MachineType'
      /\ state \notin {"TX", "TX_EMPTY", "RX"} => buffer' = buffer
      /\ state = "RESET" /\ ~addressNACKCheck =>
              state' = "RESET" /\ bus' = "idle" /\ ~addressNACKCheck'
  BY <1>1, <1>4, <1>5, <1>6, DispatchType
<1>8. Starting'
  <2>1. pc' = "start" => bus' \in {"idle", "lost"} /\ state' = "RESET" /\ ~addressNACKCheck'
    BY <1>2, <1>4, <1>7 DEF Starting
  <2>2. pc' \in {"start", "started", "overtaken"} => buffer' = FirstBuffer'
    <3>1. pc \in {"start", "started", "overtaken"} => state \notin {"TX", "TX_EMPTY", "RX"} /\ buffer = FirstBuffer
      BY <1>2, <1>4 DEF Starting
    <3> QED
      BY <1>2, <1>6, <1>7, <3>1 DEF FirstBuffer
  <2>3. pc' = "overtaken" => "done" \notin flags'
    BY <1>1
  <2>4. state' \notin {"SEND_ADR_READ", "SEND_ADR_WRITE"} /\ pc' # "started"
    BY <1>2, <1>7 DEF MachineType
  <2>5. pc' = "retry" => tries' > 1
    BY <1>2, <1>4 DEF Starting, main
  <2> QED
    BY <2>1, <2>2, <2>3, <2>4, <2>5 DEF Starting
<1>9. hurt' \in BOOLEAN
  BY <1>1
<1>10. flags' \subseteq {"done", "ARBLOST", "BUSERR"}
  BY <1>1
<1>11. pc' \in {"idle", "retry", "start", "started", "overtaken", "wait", "check"}
  BY <1>2 DEF Typed, TypeOK
<1>12. TypeOK'
  BY <1>2, <1>7, <1>9, <1>10, <1>11, Bits DEF Typed, TypeOK, MachineType, BufferType, BusStates,
     main, device
<1> QED
  BY <1>3, <1>6, <1>7, <1>8, <1>12 DEF Typed, Bounded, Unused, MachineType

(* Main code after the call has been opened.                               *)
LEMMA MainType ==
  ASSUME Typed, MasterOperation \/ StoreState \/ CloseLooks \/ CloseWaits \/ CloseReleases
  PROVE  Typed'
<1>1. call # NoCall
  BY DEF Typed, Unused, MasterOperation, StoreState, CloseLooks, CloseWaits, CloseReleases
<1>2. InCall /\ Starting /\ call \in Calls /\ call.len \in 1 .. MaxLen /\ call.reads \in BOOLEAN
      /\ (call.reads => call.first = "data") /\ call.first \in {"reg", "data"}
  BY <1>1, InCallIs, CallFacts DEF Typed, Bounded, InCall
<1>3. CASE MasterOperation
  <2>1. /\ pc = "start" /\ busy' = TRUE /\ pc' = "started"
        /\ state' = IF call.reads THEN "SEND_ADR_READ" ELSE "SEND_ADR_WRITE"
        /\ flags' = {} /\ addressNACKCheck' = TRUE /\ bus' = "address" /\ reading' = call.reads
        /\ UNCHANGED <<main, error, bufferFree, buffer, onComplete, irqOn, nack, device, got,
                       refused, hurt>>
    BY <1>3 DEF MasterOperation, MasterTxAddr
  <2>2. buffer = FirstBuffer /\ buffer.left >= 1 /\ (call.reads => buffer.which = "data")
    BY <1>2, <2>1 DEF Starting, FirstBuffer
  <2>3. Counted' /\ Lasting' /\ Starting'
    BY <1>2, <2>1, <2>2 DEF Counted, Lasting, Starting, InCall, FirstBuffer, main, device
  <2>4. TypeOK'
    <3>1. reading' \in BOOLEAN /\ busy' \in BOOLEAN /\ addressNACKCheck' \in BOOLEAN
      BY <1>2, <2>1
    <3>2. /\ state' \in States /\ flags' \subseteq {"done", "ARBLOST", "BUSERR"}
          /\ bus' \in {"idle", "address", "sending", "receiving", "held", "lost", "dead"}
          /\ pc' \in {"idle", "retry", "start", "started", "overtaken", "wait", "check"}
      BY <2>1 DEF States
    <3> QED
      BY <1>2, <2>1, <3>1, <3>2 DEF InCall, TypeOK, main, device
  <2> QED
    BY <1>1, <2>1, <2>3, <2>4 DEF Typed, Bounded, Unused, main
<1>4. CASE StoreState
  <2>1. /\ pc \in {"started", "overtaken"} /\ pc' = "wait"
        /\ state' = IF call.reads THEN "RX" ELSE "TX"
        /\ UNCHANGED <<main, error, addressNACKCheck, busy, bufferFree, buffer, onComplete, irqOn,
                       flags, nack, bus, reading, device, got, refused, hurt>>
    BY <1>4 DEF StoreState
  <2>2. buffer = FirstBuffer /\ buffer.left >= 1 /\ (call.reads => buffer.which = "data")
    BY <1>2, <2>1 DEF Starting, FirstBuffer
  <2>3. Counted' /\ Lasting' /\ Starting'
    BY <1>2, <2>1, <2>2 DEF Counted, Lasting, Starting, InCall, FirstBuffer, main, device
  <2>4. TypeOK'
    BY <1>2, <2>1, Bits DEF InCall, TypeOK, States, main, device
  <2> QED
    BY <1>1, <2>1, <2>3, <2>4 DEF Typed, Bounded, Unused, main
<1>5. CASE CloseLooks \/ CloseWaits
  <2>1. /\ pc \in {"wait", "check"} /\ pc' \in {"wait", "check"}
        /\ busy' \in {busy, FALSE} /\ error' \in {error, "FAIL"}
        /\ UNCHANGED <<main, state, addressNACKCheck, bufferFree, buffer, onComplete, irqOn,
                       flags, nack, bus, reading, device, got, refused, hurt>>
    BY <1>5 DEF CloseLooks, CloseWaits, fsm
  <2>2. Counted' /\ Lasting' /\ Starting'
    BY <1>2, <2>1 DEF Counted, Lasting, Starting, InCall, FirstBuffer, main, device
  <2>3. TypeOK'
    <3>1. busy' \in BOOLEAN
      BY <1>2, <2>1, Bits DEF InCall
    <3> QED
      BY <1>2, <2>1, <3>1, Bits DEF InCall, TypeOK, main, device
  <2> QED
    BY <1>1, <2>1, <2>2, <2>3 DEF Typed, Bounded, Unused, main
<1>6. CASE CloseReleases
  <2>1. /\ pc = "check" /\ inUse' = FALSE /\ flags' = {} /\ irqOn' = FALSE /\ result' = error
        /\ pc' = (IF error # "NOERR" /\ tries > 1 THEN "retry" ELSE "idle")
        /\ UNCHANGED <<call, tries, fsm, nack, bus, reading, device, got, refused, hurt>>
    BY <1>6 DEF CloseReleases
  <2>2. Counted' /\ Lasting' /\ Starting'
    BY <1>2, <2>1 DEF Counted, Lasting, Starting, InCall, FirstBuffer, fsm, device
  <2>3. TypeOK'
    <3>1. /\ pc' \in {"idle", "retry", "start", "started", "overtaken", "wait", "check"}
          /\ inUse' \in BOOLEAN /\ irqOn' \in BOOLEAN
      BY <2>1
    <3> QED
      BY <1>2, <2>1, <3>1, Bits DEF InCall, TypeOK, fsm, device
  <2> QED
    BY <1>1, <2>1, <2>2, <2>3 DEF Typed, Bounded, Unused
<1> QED
  BY <1>3, <1>4, <1>5, <1>6

(* Nothing has been called at the start.                                   *)
LEMMA TypedInit == Init => Typed
<1> SUFFICES ASSUME Init PROVE Typed
  OBVIOUS
<1>1. buffer \in BufferType /\ heard \in Seq(0 .. MaxLen) /\ got \in Seq(0 .. MaxLen)
      /\ given \in 0 .. MaxLen
  BY TwiAssumption DEF Init, NoBuffer, BufferType
<1>2. /\ inUse \in BOOLEAN /\ addressNACKCheck \in BOOLEAN /\ busy \in BOOLEAN
      /\ bufferFree \in BOOLEAN /\ irqOn \in BOOLEAN /\ nack \in BOOLEAN
      /\ reading \in BOOLEAN /\ refused \in BOOLEAN /\ hurt \in BOOLEAN
  BY DEF Init
<1>3. TypeOK
  BY <1>1, <1>2 DEF Init, TypeOK, BufferType, States
<1> QED
  BY <1>3 DEF Init, Typed, Bounded, Unused

LEMMA TypedStep == Typed /\ [Next]_vars => Typed'
<1> SUFFICES ASSUME Typed, [Next]_vars PROVE Typed'
  OBVIOUS
<1>1. CASE UNCHANGED vars
  BY <1>1 DEF Typed, TypeOK, Bounded, Unused, Counted, Lasting, Starting, FirstBuffer,
              vars, main, fsm, device
<1>2. CASE Open
  <2>1. CASE \E c \in Calls : call' = c /\ tries' = c.tries /\ Opened(c)
    <3>1. PICK c \in Calls : call' = c /\ tries' = c.tries /\ Opened(c)
      BY <2>1
    <3>2. tries' \in 0 .. 2
      BY <3>1, CallFacts
    <3> QED
      BY <3>1, <3>2, OpenType DEF Typed
  <2>2. CASE pc = "retry" /\ tries' = tries - 1 /\ UNCHANGED call /\ Opened(call)
    <3>1. call # NoCall
      BY <2>2 DEF Typed, Unused
    <3>2. call \in Calls /\ tries > 1 /\ tries \in 0 .. 2
      BY <2>2, <3>1 DEF Typed, TypeOK, Bounded, Starting
    <3>3. tries' \in 0 .. 2
      BY <2>2, <3>2
    <3> QED
      BY <2>2, <3>2, <3>3, OpenType DEF Typed
  <2> QED
    BY <1>2, <2>1, <2>2 DEF Open
<1> QED
  BY <1>1, <1>2, HardwareType, IsrType, MainType DEF Next, Main

(* Whatever the device refuses and the bus breaks, the machine never wraps *)
(* data_length, never puts out or stores a byte beyond its buffer.         *)
THEOREM TypeCorrect == Spec => []TypeOK
<1>1. Typed => TypeOK
  BY DEF Typed
<1> QED
  BY <1>1, TypedInit, TypedStep, PTL DEF Spec

----------------------------------------------------------------------------
(* The invariant for what is heard and got: while nothing disturbs.        *)

(* A call that HeardInOrder speaks about.                                  *)
Undisturbed == call # NoCall /\ ~hurt /\ (Answer # <<>> => ~refused)

(* The first n bytes of the message, and how many have been put out.       *)
Count(n, from) == [i \in 1 .. n |-> i - from]
Offset == IF call.first = "reg" THEN 1 ELSE 0
Spoken(n) == Count(n, Offset)
Uttered ==
  CASE call.reads -> 0
    [] ~call.reads /\ call.first = "data" -> buffer.next - 1
    [] call.first = "reg" /\ (call.then = "continue" \/ buffer.which = "reg") -> buffer.next
    [] OTHER -> 1

InWait == pc \in {"wait", "check"}
AfterAddress == bus = "address" \/ (bus = "held" /\ addressNACKCheck)

(* The machine, the flags and the bus agree.                               *)
Agreed ==
  /\ bus \notin {"lost", "dead"} /\ flags = (IF bus = "held" THEN {"done"} ELSE {})
  /\ busy <=> bus # "idle"
  /\ pc \in {"started", "overtaken"} => AfterAddress /\ (reading <=> call.reads)
  /\ pc = "overtaken" => bus = "address"
  /\ pc \in {"idle", "retry", "start"} => bus = "idle"
  /\ bus = "idle" /\ InWait => error = "NOERR"
  /\ pc = "idle" => result = "NOERR"
  /\ pc # "retry"

AtStart ==
  pc = "start" => heard = <<>> /\ got = <<>> /\ given = 0 /\ ~refused

(* A transfer has begun: the address goes out, or has been answered.       *)
Addressing ==
  AfterAddress =>
    /\ got = <<>> /\ ~refused /\ addressNACKCheck
    /\ IF reading
         THEN /\ Answer # <<>> /\ heard = Message /\ buffer = DataBuffer
              /\ bus = "held" => given = 1 /\ ~nack
              /\ InWait => state = "RX"
         ELSE /\ ~call.reads /\ heard = <<>> /\ buffer = FirstBuffer
              /\ InWait => state = "TX"

Writing ==
  bus = "sending" \/ (bus = "held" /\ ~addressNACKCheck /\ ~reading) =>
    /\ InWait /\ ~reading /\ ~call.reads /\ ~addressNACKCheck /\ got = <<>>
    /\ buffer.which = "data" => call.then # "restartRead"
    /\ Uttered >= 1
    /\ state = IF buffer.left = 0 THEN "TX_EMPTY" ELSE "TX"
    /\ IF bus = "held" /\ ~nack THEN ~refused /\ heard = Spoken(Uttered)
                                ELSE heard = Spoken(Uttered - 1)
    /\ bus = "held" => (nack <=> refused)
    /\ bus = "sending" => ~refused

Reading ==
  bus = "receiving" \/ (bus = "held" /\ ~addressNACKCheck /\ reading) =>
    /\ InWait /\ reading /\ ~addressNACKCheck /\ state = "RX" /\ buffer.which = "data"
    /\ Answer # <<>> /\ heard = Message /\ ~refused
    /\ got = Numbers(buffer.next - 1)
    /\ given = IF bus = "held" THEN buffer.next ELSE buffer.next - 1

(* The call is through.                                                    *)
Ended ==
  bus = "idle" /\ pc # "start" =>
    IF refused THEN \E n \in 0 .. Len(Message) : heard = Spoken(n)
               ELSE heard = Message /\ got = Answer

Told == Undisturbed => Agreed /\ AtStart /\ Addressing /\ Writing /\ Reading /\ Ended

(* Counting up.                                                            *)
LEMMA CountIs ==
  ASSUME NEW n \in Nat, NEW from \in Int
  PROVE  /\ Count(n, from) \in Seq(Int) /\ Len(Count(n, from)) = n
         /\ \A i \in 1 .. n : Count(n, from)[i] = i - from
<1>1. \A i \in 1 .. n : i - from \in Int
  OBVIOUS
<1>2. Count(n, from) \in Seq(Int)
  BY <1>1, IsASeq DEF Count
<1> QED
  BY <1>2 DEF Count

(* Nothing counted, and one more.                                          *)
LEMMA CountNone == ASSUME NEW from \in Int PROVE Count(0, from) = <<>>
<1>1. Count(0, from) \in Seq(Int) /\ Len(Count(0, from)) = 0
  BY CountIs
<1> QED
  BY <1>1

LEMMA CountOne ==
  ASSUME NEW n \in Nat, NEW from \in Int
  PROVE  Append(Count(n, from), n + 1 - from) = Count(n + 1, from)
<1> DEFINE s == Count(n, from)
<1> DEFINE t == Append(s, n + 1 - from)
<1> DEFINE u == Count(n + 1, from)
<1>1. s \in Seq(Int) /\ Len(s) = n /\ \A i \in 1 .. n : s[i] = i - from
  BY CountIs
<1>2. u \in Seq(Int) /\ Len(u) = n + 1 /\ \A i \in 1 .. n + 1 : u[i] = i - from
  BY CountIs
<1> HIDE DEF s, u
<1>3. t \in Seq(Int) /\ Len(t) = n + 1 /\ \A i \in 1 .. n + 1 : t[i] = i - from
  BY <1>1
<1> HIDE DEF t
<1>4. t = u
  BY <1>2, <1>3, SeqEqual
<1> QED
  BY <1>4 DEF t, u, s

(* Less is a beginning of more.                                            *)
LEMMA CountPrefix ==
  ASSUME NEW m \in Nat, NEW n \in 0 .. m, NEW from \in Int
  PROVE  IsPrefix(Count(n, from), Count(m, from))
<1> DEFINE s == Count(n, from)
<1> DEFINE t == Count(m, from)
<1>1. s \in Seq(Int) /\ Len(s) = n /\ \A i \in 1 .. n : s[i] = i - from
  BY CountIs
<1>2. t \in Seq(Int) /\ Len(t) = m /\ \A i \in 1 .. m : t[i] = i - from
  BY CountIs
<1> HIDE DEF s, t
<1>3. SubSeq(t, 1, n) \in Seq(Int) /\ Len(SubSeq(t, 1, n)) = n
      /\ \A i \in 1 .. n : SubSeq(t, 1, n)[i] = i - from
  BY <1>1, <1>2
<1>4. SubSeq(t, 1, n) = s
  BY <1>1, <1>3, SeqEqual
<1>5. SubSeq(s, 1, n) = s
  BY <1>1, SubSeqFull
<1> QED
  BY <1>1, <1>2, <1>4, <1>5 DEF IsPrefix, s, t

(* The length of the message.                                              *)
Whole ==
  CASE call.reads -> 0
    [] ~call.reads /\ call.first = "data" -> call.len
    [] call.first = "reg" /\ call.then = "continue" -> call.len + 1
    [] OTHER -> 1

LEMMA NumbersIs == ASSUME NEW n \in Nat PROVE Numbers(n) = Count(n, 0)
<1>1. \A i \in 1 .. n : i - 0 = i
  OBVIOUS
<1> QED
  BY <1>1 DEF Numbers, Count

(* The facts above for the two places counting starts from.                *)
LEMMA CountFrom ==
  ASSUME NEW n \in Nat
  PROVE  /\ Count(n, 0) \in Seq(Int) /\ Len(Count(n, 0)) = n
         /\ \A i \in 1 .. n : Count(n, 0)[i] = i
         /\ Count(n, 1) \in Seq(Int) /\ Len(Count(n, 1)) = n
         /\ \A i \in 1 .. n : Count(n, 1)[i] = i - 1
         /\ Count(0, 0) = <<>> /\ Count(0, 1) = <<>>
<1>1. 0 \in Int /\ 1 \in Int
  OBVIOUS
<1>2. /\ Count(n, 0) \in Seq(Int) /\ Len(Count(n, 0)) = n
      /\ \A i \in 1 .. n : Count(n, 0)[i] = i - 0
      /\ Count(n, 1) \in Seq(Int) /\ Len(Count(n, 1)) = n
      /\ \A i \in 1 .. n : Count(n, 1)[i] = i - 1
  BY <1>1, CountIs, Zenon
<1>3. Count(0, 0) = <<>> /\ Count(0, 1) = <<>>
  BY <1>1, CountNone, Zenon
<1> QED
  BY <1>2, <1>3

(* A register number and the data behind it.                               *)
LEMMA RegisterAndData ==
  ASSUME NEW n \in Nat PROVE <<0>> \o Numbers(n) = Count(n + 1, 1)
<1> DEFINE s == Numbers(n)
<1> DEFINE t == Count(n + 1, 1)
<1>1. s \in Seq(Int) /\ Len(s) = n /\ \A i \in 1 .. n : s[i] = i
  BY NumbersIs, CountFrom
<1>2. t \in Seq(Int) /\ Len(t) = n + 1 /\ \A i \in 1 .. n + 1 : t[i] = i - 1
  <2>1. n + 1 \in Nat
    OBVIOUS
  <2> QED
    BY <2>1, CountFrom, Zenon
<1> HIDE DEF s, t
<1>3. <<0>> \in Seq(Int) /\ Len(<<0>>) = 1 /\ <<0>>[1] = 0
  OBVIOUS
<1>4. /\ <<0>> \o s \in Seq(Int) /\ Len(<<0>> \o s) = 1 + n
      /\ \A i \in 1 .. 1 + n : (<<0>> \o s)[i] = IF i <= 1 THEN <<0>>[i] ELSE s[i - 1]
  BY <1>1, <1>3, ConcatProperties
<1>5. ASSUME NEW i \in 1 .. n + 1 PROVE (<<0>> \o s)[i] = i - 1
  <2>1. CASE i = 1
    <3>1. (<<0>> \o s)[1] = <<0>>[1]
      BY <1>4
    <3> QED
      BY <1>3, <2>1, <3>1
  <2>2. CASE i # 1
    <3>1. i - 1 \in 1 .. n /\ i \in 1 .. 1 + n /\ ~(i <= 1)
      BY <2>2
    <3> QED
      BY <1>1, <1>4, <3>1
  <2> QED
    BY <2>1, <2>2
<1>6. <<0>> \o s = t
  BY <1>2, <1>4, <1>5, SeqEqual, SMTT(20)
<1> QED
  BY <1>6 DEF s, t

(* The message counts up from the register number, or from the first byte. *)
LEMMA MessageIs ==
  ASSUME call \in Calls
  PROVE  /\ Message = Spoken(Whole) /\ Whole \in Nat /\ Len(Message) = Whole
         /\ call.reads => Whole = 0
         /\ ~call.reads /\ call.first = "data" => Whole = call.len
         /\ call.then = "continue" => Whole = call.len + 1
         /\ call.then = "restartRead" => Whole = 1
<1> DEFINE n == call.len
<1>1. /\ n \in Nat /\ n + 1 \in Nat /\ call.first \in {"reg", "data"} /\ call.reads \in BOOLEAN
      /\ call.then \in {"stop", "continue", "restartRead"}
      /\ IF call.first = "reg" THEN ~call.reads /\ call.then # "stop" ELSE call.then = "stop"
  BY CallFacts
<1>2. CASE call.reads
  <2>1. Message = <<>> /\ Whole = 0 /\ Offset = 0
    BY <1>1, <1>2 DEF Message, Whole, Offset
  <2>2. Spoken(Whole) = <<>>
    BY <1>1, <2>1, CountFrom DEF Spoken
  <2> QED
    BY <1>1, <1>2, <2>1, <2>2
<1>3. CASE ~call.reads /\ call.first = "data"
  <2>1. Message = Numbers(n) /\ Whole = n /\ Offset = 0
    BY <1>3 DEF Message, Whole, Offset
  <2> HIDE DEF n
  <2>2. Spoken(Whole) = Count(n, 0) /\ Numbers(n) = Count(n, 0) /\ Len(Count(n, 0)) = n
    BY <1>1, <2>1, NumbersIs, CountFrom DEF Spoken
  <2> QED
    BY <1>1, <1>3, <2>1, <2>2 DEF n
<1>4. CASE call.first = "reg" /\ call.then = "continue"
  <2>1. Message = <<0>> \o Numbers(n) /\ Whole = n + 1 /\ Offset = 1
    BY <1>1, <1>4 DEF Message, Whole, Offset
  <2> HIDE DEF n
  <2>2. Message = Count(n + 1, 1) /\ Spoken(Whole) = Count(n + 1, 1)
    BY <1>1, <2>1, RegisterAndData DEF Spoken
  <2>3. Len(Count(n + 1, 1)) = n + 1
    BY <1>1, CountFrom, Zenon
  <2> QED
    BY <1>1, <1>4, <2>1, <2>2, <2>3 DEF n
<1>5. CASE call.first = "reg" /\ call.then = "restartRead"
  <2>1. Message = <<0>> /\ Whole = 1 /\ Offset = 1
    <3>1. Message = <<0>> \o <<>> \/ Message = <<0>>
      BY <1>1, <1>5 DEF Message
    <3> QED
      BY <1>1, <1>5, <3>1 DEF Whole, Offset
  <2>2. Spoken(Whole) = <<0>>
    <3>1. Numbers(0) = <<>>
      BY NumbersIs, CountFrom
    <3>2. <<0>> \o Numbers(0) = Count(0 + 1, 1)
      BY RegisterAndData
    <3> QED
      BY <2>1, <3>1, <3>2 DEF Spoken
  <2> QED
    BY <1>1, <1>5, <2>1, <2>2
<1> QED
  BY <1>1, <1>2, <1>3, <1>4, <1>5

(* Who reads gets an answer.                                               *)
LEMMA AnswerIs ==
  ASSUME call \in Calls
  PROVE  /\ (call.reads \/ call.then = "restartRead") <=> Answer # <<>>
         /\ Answer # <<>> => Answer = Numbers(call.len)
<1> DEFINE n == call.len
<1>1. n \in Nat /\ n >= 1
  BY CallFacts, TwiAssumption
<1> HIDE DEF n
<1>2. Numbers(n) # <<>>
  <2>1. Len(Numbers(n)) = n
    BY <1>1, NumbersIs, CountFrom
  <2> QED
    BY <1>1, <2>1
<1> QED
  BY <1>2 DEF Answer, n

(* Expressions over the call alone stay while it stays.                    *)
LEMMA SameCall ==
  ASSUME call' = call
  PROVE  /\ Message' = Message /\ Answer' = Answer /\ Offset' = Offset
         /\ FirstBuffer' = FirstBuffer /\ DataBuffer' = DataBuffer /\ Whole' = Whole
BY DEF Message, Answer, Offset, FirstBuffer, DataBuffer, Whole, Numbers

(* A byte more, and the sequence is one longer.                            *)
LEMMA SpokenNext ==
  ASSUME NEW n \in Nat
  PROVE  /\ Append(Spoken(n), n + 1 - Offset) = Spoken(n + 1) /\ Spoken(0) = <<>>
         /\ Append(Numbers(n), n + 1) = Numbers(n + 1) /\ Numbers(0) = <<>>
<1>1. Offset \in Int /\ 0 \in Int /\ n + 1 - 0 = n + 1 /\ n + 1 \in Nat
  BY DEF Offset
<1>2. Append(Spoken(n), n + 1 - Offset) = Spoken(n + 1)
  BY <1>1, CountOne DEF Spoken
<1>3. Spoken(0) = <<>>
  BY <1>1, CountNone DEF Spoken
<1>4. Append(Count(n, 0), n + 1) = Count(n + 1, 0)
  <2>1. Append(Count(n, 0), n + 1 - 0) = Count(n + 1, 0)
    BY <1>1, CountOne, Zenon
  <2> QED
    BY <1>1, <2>1
<1>5. Numbers(n) = Count(n, 0) /\ Numbers(n + 1) = Count(n + 1, 0)
  BY <1>1, NumbersIs, Zenon
<1>6. Numbers(0) = <<>>
  BY NumbersIs, CountFrom
<1> QED
  BY <1>2, <1>3, <1>4, <1>5, <1>6

(* What is put out is part of the message.                                 *)
LEMMA UtteredIs ==
  ASSUME call \in Calls, Counted
  PROVE  /\ Uttered \in 0 .. Whole
         /\ ~call.reads /\ (call.first = "data" \/ call.then # "restartRead" \/ buffer.which = "reg")
              => Uttered = buffer.next - 1 + Offset
<1>1. /\ call.len \in 1 .. MaxLen /\ call.first \in {"reg", "data"} /\ call.reads \in BOOLEAN
      /\ call.then \in {"stop", "continue", "restartRead"} /\ MaxLen \in Nat
      /\ IF call.first = "reg" THEN ~call.reads /\ call.then # "stop" ELSE call.then = "stop"
  BY CallFacts, TwiAssumption
<1>2. CASE call.reads
  BY <1>1, <1>2, MessageIs DEF Uttered
<1>3. CASE ~call.reads /\ call.first = "data"
  <2>1. Uttered = buffer.next - 1 /\ Whole = call.len /\ Offset = 0 /\ buffer.next \in 1 .. call.len + 1
    BY <1>1, <1>3, MessageIs DEF Uttered, Offset, Counted
  <2> QED
    BY <1>1, <1>3, <2>1
<1>4. CASE call.first = "reg" /\ call.then = "continue"
  <2>1. /\ Uttered = buffer.next /\ Whole = call.len + 1 /\ Offset = 1
        /\ buffer.next \in 0 .. call.len + 1
    BY <1>1, <1>4, MessageIs DEF Uttered, Offset, Counted
  <2> QED
    BY <1>1, <1>4, <2>1
<1>5. CASE call.first = "reg" /\ call.then = "restartRead"
  <2>1. Whole = 1 /\ Offset = 1
    BY <1>1, <1>5, MessageIs DEF Offset
  <2>2. CASE buffer.which = "reg"
    BY <1>1, <1>5, <2>1, <2>2 DEF Uttered, Counted
  <2>3. CASE buffer.which # "reg"
    BY <1>1, <1>5, <2>1, <2>3 DEF Uttered
  <2> QED
    BY <2>2, <2>3
<1> QED
  BY <1>1, <1>2, <1>3, <1>4, <1>5

(* At the start nothing has been put out.                                  *)
LEMMA FirstUttered ==
  ASSUME call \in Calls, ~call.reads, buffer = FirstBuffer PROVE Uttered = 0
<1>1. /\ call.first \in {"reg", "data"}
      /\ IF call.first = "reg" THEN call.then # "stop" ELSE call.then = "stop"
  BY CallFacts
<1> QED
  BY <1>1 DEF Uttered, FirstBuffer

----------------------------------------------------------------------------
(* Main code keeps what is told.                                           *)

(* A call begins with nothing on the bus.                                  *)
LEMMA OpenTold ==
  ASSUME NEW c \in Calls, call' = c, Opened(c) PROVE Told'
<1>1. /\ pc' = "start" /\ bus' = "idle" /\ busy' = FALSE /\ flags' = {}
      /\ heard' = <<>> /\ given' = 0 /\ got' = <<>> /\ refused' = FALSE
  BY DEF Opened, MasterResetBus
<1> QED
  BY <1>1 DEF Told, Agreed, AtStart, Addressing, Writing, Reading, Ended, AfterAddress, InWait

(* The first address goes out.                                             *)
LEMMA OperationTold ==
  ASSUME Typed, Told, MasterOperation PROVE Told'
<1>1. /\ pc = "start" /\ busy' = TRUE /\ pc' = "started"
      /\ flags' = {} /\ addressNACKCheck' = TRUE /\ bus' = "address" /\ reading' = call.reads
      /\ UNCHANGED <<call, result, buffer, heard, given, got, refused, hurt>>
  BY DEF MasterOperation, MasterTxAddr, main, device
<1> SUFFICES ASSUME Undisturbed' PROVE Told'
  BY DEF Told
<1>2. Undisturbed /\ call \in Calls
  BY <1>1, SameCall DEF Undisturbed, Typed, TypeOK
<1>3. heard = <<>> /\ got = <<>> /\ ~refused /\ buffer = FirstBuffer
  BY <1>1, <1>2 DEF Told, AtStart, Typed, Bounded, Starting, Undisturbed
<1>4. /\ call.reads \in BOOLEAN /\ (call.reads => call.first = "data")
  BY <1>2, CallFacts
<1>5. call.reads => Answer # <<>> /\ Message = <<>> /\ buffer = DataBuffer
  BY <1>2, <1>3, <1>4, AnswerIs DEF Message, FirstBuffer, DataBuffer
<1>6. Addressing'
  BY <1>1, <1>3, <1>4, <1>5, SameCall DEF Addressing, InWait
<1> QED
  BY <1>1, <1>6 DEF Told, Agreed, AtStart, Writing, Reading, Ended, AfterAddress, InWait

(* The state is stored while the address stands, whatever has overtaken.   *)
LEMMA StoreTold ==
  ASSUME Typed, Told, StoreState PROVE Told'
<1>1. /\ pc \in {"started", "overtaken"} /\ pc' = "wait"
      /\ state' = IF call.reads THEN "RX" ELSE "TX"
      /\ UNCHANGED <<call, result, error, addressNACKCheck, busy, buffer, flags, nack, bus, reading,
                     heard, given, got, refused, hurt>>
  BY DEF StoreState, main, device
<1> SUFFICES ASSUME Undisturbed' PROVE Told'
  BY DEF Told
<1>2. Undisturbed
  BY <1>1, SameCall DEF Undisturbed
<1>3. Agreed /\ Addressing /\ AfterAddress /\ (reading <=> call.reads)
  BY <1>1, <1>2 DEF Told, Agreed
<1>4. AfterAddress' /\ addressNACKCheck /\ addressNACKCheck'
  BY <1>1, <1>3 DEF AfterAddress, Addressing
<1>5. Addressing'
  BY <1>1, <1>3, SameCall DEF Addressing
<1>6. Agreed'
  BY <1>1, <1>3, <1>4 DEF Agreed, AfterAddress
<1> QED
  BY <1>1, <1>4, <1>5, <1>6 DEF Told, AtStart, Writing, Reading, Ended, AfterAddress

(* I2C0_Close sees no bus error, and waits or has been waiting enough.     *)
LEMMA CloseTold ==
  ASSUME Typed, Told, CloseLooks \/ CloseWaits PROVE Told'
<1>1. /\ pc \in {"wait", "check"} /\ pc' \in {"wait", "check"}
      /\ UNCHANGED <<call, result, state, addressNACKCheck, buffer, flags, nack, bus, reading,
                     heard, given, got, refused, hurt>>
  BY DEF CloseLooks, CloseWaits, main, fsm, device
<1> SUFFICES ASSUME Undisturbed' PROVE Told'
  BY DEF Told
<1>2. Undisturbed
  BY <1>1, SameCall DEF Undisturbed
<1>3. Agreed /\ Addressing /\ Writing /\ Reading /\ Ended
  BY <1>2 DEF Told
<1>4. UNCHANGED <<busy, error>>
  <2>1. "BUSERR" \notin flags
    BY <1>3 DEF Agreed
  <2> QED
    BY <2>1 DEF CloseLooks, CloseWaits, fsm
<1>5. Message' = Message /\ Answer' = Answer /\ FirstBuffer' = FirstBuffer /\ DataBuffer' = DataBuffer
      /\ Offset' = Offset /\ Uttered' = Uttered
  BY <1>1, SameCall DEF Uttered
<1>6. Agreed'
  BY <1>1, <1>3, <1>4 DEF Agreed, AfterAddress, InWait
<1>7. Addressing'
  BY <1>1, <1>3, <1>5 DEF Addressing, AfterAddress, InWait
<1>8. Writing'
  BY <1>1, <1>3, <1>5 DEF Writing, InWait, Spoken
<1>9. Reading'
  BY <1>1, <1>3, <1>5 DEF Reading, InWait, Numbers
<1>10. Ended'
  BY <1>1, <1>3, <1>5 DEF Ended, Spoken
<1> QED
  BY <1>1, <1>6, <1>7, <1>8, <1>9, <1>10 DEF Told, AtStart

(* I2C0_Close lets the bus go and reports what it found.                   *)
LEMMA ReleaseTold ==
  ASSUME Typed, Told, CloseReleases PROVE Told'
<1>1. /\ pc = "check" /\ ~busy /\ flags' = {} /\ result' = error
      /\ pc' = (IF error # "NOERR" /\ tries > 1 THEN "retry" ELSE "idle")
      /\ UNCHANGED <<call, error, busy, bus, heard, got, refused, hurt>>
  BY DEF CloseReleases, fsm, device
<1> SUFFICES ASSUME Undisturbed' PROVE Told'
  BY DEF Told
<1>2. Undisturbed
  BY <1>1, SameCall DEF Undisturbed
<1>3. Agreed /\ Ended /\ bus = "idle" /\ error = "NOERR"
  BY <1>1, <1>2 DEF Told, Agreed, InWait
<1>4. Message' = Message /\ Answer' = Answer /\ Offset' = Offset
  BY <1>1, SameCall
<1>5. Ended'
  BY <1>1, <1>3, <1>4 DEF Ended, Spoken
<1>6. Agreed'
  BY <1>1, <1>3 DEF Agreed, InWait
<1> QED
  BY <1>1, <1>3, <1>5, <1>6 DEF Told, AtStart, Addressing, Writing, Reading, AfterAddress

----------------------------------------------------------------------------
(* The device and the bus keep it.                                         *)

(* What a step of an undisturbed bus leaves alone.                         *)
LEMMA HardwareIs ==
  ASSUME Typed, Told, Hardware, Undisturbed'
  PROVE  /\ UNCHANGED <<call, result, pc, state, error, addressNACKCheck, busy, buffer, reading, got,
                        hurt>>
         /\ Undisturbed /\ flags' = {"done"} /\ bus' = "held" /\ call \in Calls
         /\ pc \in {"started", "wait", "check"} /\ busy
         /\ Agreed /\ Addressing /\ Writing /\ Reading
         /\ Message' = Message /\ Answer' = Answer /\ FirstBuffer' = FirstBuffer
         /\ DataBuffer' = DataBuffer /\ Offset' = Offset /\ Uttered' = Uttered
<1>1. ~Fault
  BY DEF Fault, Undisturbed
<1>2. /\ UNCHANGED <<call, result, pc, state, error, addressNACKCheck, busy, buffer, reading, got, hurt>>
      /\ flags' = flags \union {"done"} /\ bus' = "held" /\ pc # "overtaken"
      /\ bus \in {"address", "sending", "receiving"} /\ (refused => refused')
  BY <1>1, Bits DEF Hardware, Progress, AddressAcked, AddressNacked, DataAcked, DataNacked, DataReceived,
     Under, main, fsm, Typed
<1>3. Undisturbed
  BY <1>2, SameCall DEF Undisturbed
<1>4. Agreed /\ Addressing /\ Writing /\ Reading
  BY <1>3 DEF Told
<1>5. flags' = {"done"} /\ pc \in {"started", "wait", "check"} /\ busy
  BY <1>2, <1>4 DEF Agreed, Typed, TypeOK
<1> QED
  BY <1>2, <1>3, <1>4, <1>5, SameCall DEF Uttered, Typed, TypeOK, Undisturbed

(* An address is answered.                                                 *)
LEMMA AddressTold ==
  ASSUME Typed, Told, Hardware, Undisturbed', bus = "address",
         IF reading THEN heard' = heard /\ given' = 1 /\ nack' = FALSE
                    ELSE heard' = <<>>,
         refused' = refused
  PROVE  Told'
<1>1. AfterAddress /\ addressNACKCheck /\ AfterAddress' /\ addressNACKCheck'
  BY HardwareIs DEF AfterAddress, Addressing
<1>2. Addressing'
  BY <1>1, HardwareIs DEF Addressing, InWait
<1>3. Agreed'
  BY <1>1, HardwareIs DEF Agreed, AfterAddress, InWait
<1> QED
  BY <1>1, <1>2, <1>3, HardwareIs DEF Told, AtStart, Writing, Reading, Ended

(* A byte that was sent is taken, or refused.                              *)
LEMMA DataTold ==
  ASSUME Typed, Told, Undisturbed', DataAcked \/ DataNacked PROVE Told'
<1>1. Hardware /\ bus = "sending"
  BY DEF Hardware, Progress, DataAcked, DataNacked, Under
<1>2. /\ InWait /\ ~reading /\ ~call.reads /\ ~addressNACKCheck /\ got = <<>>
      /\ buffer.which = "data" => call.then # "restartRead"
      /\ Uttered >= 1 /\ state = (IF buffer.left = 0 THEN "TX_EMPTY" ELSE "TX")
      /\ heard = Spoken(Uttered - 1) /\ ~refused
  BY <1>1, HardwareIs DEF Writing
<1>3. Uttered \in Nat /\ Uttered = buffer.next - 1 + Offset
  <2>1. Counted /\ call \in Calls /\ buffer.which \in {"reg", "data"}
    BY <1>1, HardwareIs DEF Typed, Bounded, Undisturbed, Counted
  <2> QED
    BY <1>2, <2>1, UtteredIs, MessageIs
<1>4. /\ nack' = FALSE => heard' = Spoken(Uttered) /\ refused' = refused
      /\ nack' = TRUE => heard' = heard /\ refused' = TRUE
      /\ nack' \in BOOLEAN
  <2>1. CASE DataAcked
    <3>1. nack' = FALSE /\ heard' = Append(heard, buffer.next - 1) /\ refused' = refused
      BY <2>1 DEF DataAcked, Byte
    <3>2. Uttered - 1 \in Nat /\ (Uttered - 1) + 1 - Offset = buffer.next - 1
      <4>1. buffer.next \in Int /\ Offset \in Int
        BY DEF Typed, TypeOK, Offset
      <4> QED
        BY <1>2, <1>3, <4>1
    <3>3. Append(Spoken(Uttered - 1), (Uttered - 1) + 1 - Offset) = Spoken((Uttered - 1) + 1)
      BY <3>2, SpokenNext
    <3>4. (Uttered - 1) + 1 = Uttered
      BY <1>3
    <3> QED
      BY <1>2, <3>1, <3>2, <3>3, <3>4
  <2>2. CASE DataNacked
    BY <2>2 DEF DataNacked, device
  <2> QED
    BY <2>1, <2>2
<1>5. Writing'
  <2> DEFINE u == Uttered
  <2>1. u' = u /\ Spoken(u)' = Spoken(u) /\ Spoken(u - 1)' = Spoken(u - 1)
    BY <1>1, HardwareIs DEF Spoken
  <2>2. bus' = "held" /\ (nack' <=> refused') /\ InWait' /\ ~reading' /\ ~call'.reads /\ ~addressNACKCheck'
    BY <1>1, <1>2, <1>4, HardwareIs DEF InWait
  <2>3. IF bus' = "held" /\ ~nack' THEN ~refused' /\ heard' = Spoken(u) ELSE heard' = Spoken(u - 1)
    BY <1>2, <1>4, <2>2
  <2>4. /\ got' = <<>> /\ (buffer'.which = "data" => call'.then # "restartRead")
        /\ u' >= 1 /\ state' = (IF buffer'.left = 0 THEN "TX_EMPTY" ELSE "TX")
    BY <1>1, <1>2, <2>1, HardwareIs
  <2> QED
    BY <2>1, <2>2, <2>3, <2>4 DEF Writing
<1>6. Agreed'
  BY <1>1, <1>2, HardwareIs DEF Agreed, AfterAddress, InWait
<1> QED
  BY <1>1, <1>2, <1>5, <1>6, HardwareIs DEF Told, AtStart, Addressing, Reading, Ended, AfterAddress, InWait

(* A byte comes in.                                                        *)
LEMMA ReceivedTold ==
  ASSUME Typed, Told, Undisturbed', DataReceived PROVE Told'
<1>1. /\ Hardware /\ bus = "receiving" /\ given' = given + 1
      /\ UNCHANGED <<heard, refused>>
  BY DEF Hardware, Progress, DataReceived, Under
<1>2. /\ InWait /\ reading /\ ~addressNACKCheck /\ state = "RX" /\ buffer.which = "data"
      /\ Answer # <<>> /\ heard = Message /\ ~refused
      /\ got = Numbers(buffer.next - 1) /\ given = buffer.next - 1
  BY <1>1, HardwareIs DEF Reading
<1>3. given' = buffer.next
  BY <1>1, <1>2 DEF Typed, TypeOK
<1>4. Reading'
  BY <1>1, <1>2, <1>3, HardwareIs DEF Reading, InWait, Numbers
<1>5. Agreed'
  BY <1>1, <1>2, HardwareIs DEF Agreed, AfterAddress, InWait
<1> QED
  BY <1>1, <1>2, <1>4, <1>5, HardwareIs DEF Told, AtStart, Addressing, Writing, Ended, AfterAddress, InWait

(* Every step of the hardware.                                             *)
LEMMA HardwareTold ==
  ASSUME Typed, Told, Hardware PROVE Told'
<1> SUFFICES ASSUME Undisturbed' PROVE Told'
  BY DEF Told
<1>1. CASE AddressAcked
  BY <1>1, AddressTold DEF AddressAcked, Under
<1>2. CASE AddressNacked
  <2>1. /\ bus = "address" /\ refused' = (refused \/ reading) /\ UNCHANGED <<heard, given>>
        /\ Addressing /\ ~reading => heard = <<>>
    BY <1>2, HardwareIs DEF AddressNacked, Under, device, Addressing, AfterAddress
  <2>2. ~reading
    <3>1. reading => Answer # <<>> /\ Answer' = Answer
      BY <2>1, HardwareIs DEF Addressing, AfterAddress
    <3> QED
      BY <2>1, <3>1 DEF Undisturbed
  <2>3. heard' = <<>> /\ refused' = refused
    BY <2>1, <2>2, HardwareIs, Bits DEF Addressing, AfterAddress, Typed
  <2> QED
    BY <2>1, <2>2, <2>3, AddressTold
<1>3. CASE DataAcked \/ DataNacked
  BY <1>3, DataTold
<1>4. CASE DataReceived
  BY <1>4, ReceivedTold
<1>5. CASE Fault
  BY <1>5 DEF Fault, Undisturbed
<1> QED
  BY <1>1, <1>2, <1>3, <1>4, <1>5 DEF Hardware, Progress

----------------------------------------------------------------------------
(* The machine keeps it.                                                   *)

(* The machine takes its step with the clock held, every fault excluded.   *)
LEMMA IsrIs ==
  ASSUME Typed, Told, MasterIsr, Undisturbed'
  PROVE  /\ pc' = (IF pc = "started" THEN "overtaken" ELSE pc) /\ flags' = {}
         /\ UNCHANGED <<call, result, nack, heard, given, refused, hurt>>
         /\ Undisturbed /\ InCall /\ bus = "held" /\ busy /\ pc \in {"started", "wait", "check"}
         /\ Agreed /\ Addressing /\ Writing /\ Reading
         /\ Message' = Message /\ Answer' = Answer /\ FirstBuffer' = FirstBuffer
         /\ DataBuffer' = DataBuffer /\ Offset' = Offset
         /\ IF addressNACKCheck /\ nack THEN DoAddressNack ELSE Dispatch(state)
<1>1. /\ irqOn /\ "done" \in flags /\ pc' = (IF pc = "started" THEN "overtaken" ELSE pc)
      /\ UNCHANGED <<call, result, nack, heard, given, refused>>
  BY DEF MasterIsr, main, device
<1>2. Dispatch(Overridden({})) /\ flags' = {} /\ hurt' = hurt
  <2>1. PICK late \in {{}, {"ARBLOST"}, {"BUSERR"}} :
          /\ Dispatch(Overridden(late))
          /\ flags' = {}
          /\ hurt' = (hurt \/ late # {})
    BY DEF MasterIsr
  <2>2. ~hurt'
    BY DEF Undisturbed
  <2>3. late = {} /\ ~hurt
    BY <2>1, <2>2
  <2> QED
    BY <2>1, <2>2, <2>3, Bits DEF Typed
<1>3. Undisturbed
  BY <1>1, <1>2, SameCall DEF Undisturbed
<1>4. Agreed /\ Addressing /\ Writing /\ Reading
  BY <1>3 DEF Told
<1>5. bus = "held" /\ busy /\ pc \in {"started", "wait", "check"}
  BY <1>1, <1>4 DEF Agreed, Typed, TypeOK, AfterAddress
<1>6. InCall
  BY <1>3 DEF Undisturbed, InCall, Typed, TypeOK, Bounded
<1>7. IF addressNACKCheck /\ nack THEN DoAddressNack ELSE Dispatch(state)
  <2>1. Overridden({}) = IF addressNACKCheck /\ nack THEN "ADDRESS_NACK" ELSE state
    BY DEF Overridden
  <2>2. addressNACKCheck /\ nack => Dispatch("ADDRESS_NACK")
    BY <1>2, <2>1
  <2> QED
    BY <1>2, <2>1, <2>2 DEF Dispatch
<1> QED
  BY <1>1, <1>2, <1>3, <1>4, <1>5, <1>6, <1>7, SameCall

(* The machine lets the bus go, with all that was to be heard and got.     *)
LEMMA LetGoTold ==
  ASSUME Typed, Told, MasterIsr, Undisturbed', InWait,
         bus' = "idle", busy' = FALSE, error' = "NOERR",
         IF refused THEN \E n \in 0 .. Len(Message) : heard = Spoken(n)
                    ELSE heard = Message /\ got' = Answer
  PROVE  Told'
<1>1. Agreed'
  BY IsrIs DEF Agreed, AfterAddress, InWait
<1>2. Ended'
  BY IsrIs DEF Ended, Spoken
<1> QED
  BY <1>1, <1>2, IsrIs DEF Told, AtStart, Addressing, Writing, Reading, AfterAddress, InWait

(* The machine puts an address out, for the first buffer or for the answer.*)
LEMMA AddressAgainTold ==
  ASSUME Typed, Told, MasterIsr, Undisturbed', NEW read \in BOOLEAN, DoSendAdr(read),
         busy' = busy, got = <<>>, got' = got, ~refused, pc = "started" => (read <=> call.reads),
         IF read THEN Answer # <<>> /\ heard = Message /\ buffer' = DataBuffer
                 ELSE ~call.reads /\ heard = <<>> /\ buffer' = FirstBuffer
  PROVE  Told'
<1>1. /\ bus' = "address" /\ addressNACKCheck' = TRUE /\ reading' = read
      /\ state' = (IF read THEN "RX" ELSE "TX")
  BY DEF DoSendAdr, MasterTxAddr
<1>2. Addressing'
  BY <1>1, IsrIs DEF Addressing, InWait
<1>3. Agreed'
  BY <1>1, IsrIs DEF Agreed, AfterAddress, InWait
<1> QED
  BY <1>1, <1>2, <1>3, IsrIs DEF Told, AtStart, Writing, Reading, Ended, InWait

(* The machine puts the next byte of the message out.                      *)
LEMMA PutOutTold ==
  ASSUME Typed, Told, MasterIsr, Undisturbed', NEW b \in BufferType, TxByte(b), InWait,
         ~reading, ~call.reads, got = <<>>, ~refused, b.left >= 1,
         b.which = "data" => call.then # "restartRead",
         NEW n \in Nat, heard = Spoken(n), Uttered' = n + 1
  PROVE  Told'
<1>1. /\ bus' = "sending" /\ addressNACKCheck' = FALSE /\ UNCHANGED <<busy, error, reading, got>>
      /\ buffer' = [b EXCEPT !.next = b.next + 1, !.left = Less(b.left)]
      /\ state' = (IF Less(b.left) = 0 THEN "TX_EMPTY" ELSE "TX")
  BY IsrIs DEF TxByte, MasterTxData, AfterTx
<1>2. buffer'.left = Less(b.left) /\ buffer'.which = b.which
  BY <1>1 DEF BufferType
<1>3. Spoken(n)' = Spoken(n) /\ (Uttered - 1)' = n
  BY IsrIs DEF Spoken
<1>4. heard' = Spoken(Uttered - 1)'
  <2>1. heard' = Count(n, Offset)
    BY IsrIs DEF Spoken
  <2> QED
    BY <1>3, <2>1, IsrIs DEF Spoken
<1>5. Writing'
  BY <1>1, <1>2, <1>4, IsrIs DEF Writing, InWait
<1>6. Agreed'
  BY <1>1, IsrIs DEF Agreed, AfterAddress, InWait
<1> QED
  BY <1>1, <1>5, <1>6, IsrIs DEF Told, AtStart, Addressing, Reading, Ended, AfterAddress, InWait

(* The machine stores a byte, and asks for the next or stops.              *)
LEMMA StoredTold ==
  ASSUME Typed, Told, MasterIsr, Undisturbed', DoRx, InWait, reading, state = "RX",
         buffer.which = "data", Answer # <<>>, heard = Message, ~refused,
         got = Numbers(buffer.next - 1), given = buffer.next
  PROVE  Told'
<1>1. /\ buffer.next \in 1 .. call.len /\ buffer.left = call.len + 1 - buffer.next
      /\ call.len \in 1 .. MaxLen /\ MaxLen \in Nat
  <2>1. /\ buffer.next \in 1 .. call.len + 1 /\ buffer.left = call.len + 1 - buffer.next
        /\ buffer.left >= 1 /\ call.len \in 1 .. MaxLen /\ MaxLen \in Nat
    BY IsrIs, CallFacts, TwiAssumption DEF InCall, Counted, Lasting
  <2> QED
    BY <2>1
<1>2. Less(buffer.left) = buffer.left - 1
  <2>1. buffer.left \in 1 .. MaxLen
    BY <1>1
  <2> QED
    BY <2>1, LessIs
<1>3. /\ addressNACKCheck' = FALSE /\ got' = Append(got, given) /\ reading' = reading
      /\ buffer' = [buffer EXCEPT !.next = buffer.next + 1, !.left = buffer.left - 1]
  BY <1>2 DEF DoRx
<1>4. buffer'.which = "data" /\ buffer'.next = buffer.next + 1
  BY <1>3 DEF Typed, TypeOK
<1>5. got' = Numbers(buffer.next)
  <2> DEFINE n == buffer.next - 1
  <2>1. n \in Nat /\ n + 1 = buffer.next
    BY <1>1
  <2> HIDE DEF n
  <2>2. Append(Numbers(n), n + 1) = Numbers(n + 1)
    BY <2>1, SpokenNext
  <2> QED
    BY <1>3, <2>1, <2>2 DEF n
<1>6. CASE buffer.left - 1 # 0
  <2>1. bus' = "receiving" /\ state' = "RX" /\ UNCHANGED <<busy, error>>
    BY <1>2, <1>6, IsrIs DEF DoRx, MasterIsRxOrTx
  <2>2. got' = Numbers(buffer.next - 1)' /\ given' = buffer'.next - 1
    <3>1. buffer'.next - 1 = buffer.next
      BY <1>1, <1>4
    <3> QED
      BY <1>5, <3>1, IsrIs DEF Numbers
  <2>3. Reading'
    BY <1>3, <1>4, <2>1, <2>2, IsrIs DEF Reading, InWait
  <2>4. Agreed'
    BY <2>1, IsrIs DEF Agreed, AfterAddress, InWait
  <2> QED
    BY <2>1, <2>3, <2>4, IsrIs DEF Told, AtStart, Addressing, Writing, Ended, AfterAddress, InWait
<1>7. CASE buffer.left - 1 = 0
  <2>1. bus' = "idle" /\ busy' = FALSE /\ error' = "NOERR"
    BY <1>2, <1>7 DEF DoRx, MasterStop, DoIdle
  <2>2. buffer.next = call.len
    BY <1>1, <1>7
  <2>3. got' = Answer
    BY <1>5, <2>2, IsrIs, AnswerIs DEF InCall
  <2> QED
    BY <2>1, <2>3, LetGoTold
<1> QED
  BY <1>6, <1>7

(* One more byte of the buffer in hand is out.                             *)
LEMMA OneMore ==
  ASSUME TypeOK, call \in Calls, UNCHANGED call, TxByte(buffer), ~call.reads,
         buffer.which \in {"reg", "data"}, buffer.which = "reg" => call.first = "reg",
         buffer.which = "data" => call.then # "restartRead"
  PROVE  Uttered' = Uttered + 1
<1>1. buffer' = [buffer EXCEPT !.next = buffer.next + 1, !.left = Less(buffer.left)]
  BY DEF TxByte
<1>2. buffer'.which = buffer.which /\ buffer'.next = buffer.next + 1 /\ buffer.next \in Int
  BY <1>1 DEF TypeOK
<1>3. /\ call.first \in {"reg", "data"} /\ call.then \in {"stop", "continue", "restartRead"}
      /\ (call.first = "reg" => call.then # "stop")
  BY CallFacts
<1> QED
  BY <1>2, <1>3 DEF Uttered

(* An address is answered: the transfer goes on.                           *)
LEMMA AnsweredTold ==
  ASSUME Typed, Told, MasterIsr, Undisturbed', addressNACKCheck PROVE Told'
<1>1. /\ got = <<>> /\ ~refused /\ AfterAddress
      /\ IF reading
           THEN /\ Answer # <<>> /\ heard = Message /\ buffer = DataBuffer /\ given = 1 /\ ~nack
                /\ InWait => state = "RX"
           ELSE /\ ~call.reads /\ heard = <<>> /\ buffer = FirstBuffer
                /\ InWait => state = "TX"
  BY IsrIs DEF Addressing, AfterAddress
<1>2. /\ pc \in {"started", "wait", "check"} /\ call \in Calls
      /\ pc = "started" => (reading <=> call.reads)
      /\ pc = "started" => state = IF call.reads THEN "SEND_ADR_READ" ELSE "SEND_ADR_WRITE"
  BY IsrIs DEF Agreed, InCall, Typed, Bounded, Starting, Undisturbed
<1>3. CASE nack
  <2>1. call.refused = "restartWrite" /\ ~reading
    BY <1>1, <1>2, <1>3, CallFacts
  <2>2. DoSendAdr(FALSE) /\ UNCHANGED <<busy, buffer, got>>
    BY <1>3, <2>1, IsrIs DEF DoAddressNack
  <2> QED
    BY <1>1, <1>2, <2>1, <2>2, AddressAgainTold
<1>4. CASE ~nack /\ pc = "started"
  <2>1. DoSendAdr(call.reads) /\ UNCHANGED <<busy, buffer, got>>
    <3>1. Dispatch(state) /\ call.reads \in BOOLEAN
      BY <1>2, <1>4, IsrIs, CallFacts
    <3> QED
      BY <1>2, <1>4, <3>1 DEF Dispatch
  <2> QED
    BY <1>1, <1>2, <1>4, <2>1, CallFacts, AddressAgainTold
<1>5. CASE ~nack /\ pc # "started" /\ reading
  <2>1. InWait /\ state = "RX" /\ DoRx
    <3>1. InWait /\ state = "RX" /\ Dispatch(state)
      BY <1>1, <1>2, <1>5, IsrIs DEF InWait
    <3> QED
      BY <3>1 DEF Dispatch
  <2>2. buffer.which = "data" /\ buffer.next = 1 /\ got = Numbers(buffer.next - 1)
    <3>1. Numbers(0) = <<>>
      BY SpokenNext
    <3> QED
      BY <1>1, <1>5, <3>1 DEF DataBuffer
  <2> QED
    BY <1>1, <1>5, <2>1, <2>2, StoredTold
<1>6. CASE ~nack /\ pc # "started" /\ ~reading
  <2>1. InWait /\ TxByte(buffer)
    <3>1. InWait /\ state = "TX" /\ Dispatch(state)
      BY <1>1, <1>2, <1>6, IsrIs DEF InWait
    <3>2. DoTx
      BY <3>1 DEF Dispatch
    <3> QED
      BY <1>6, <3>1, <3>2 DEF DoTx, DataRefused
  <2>2. /\ buffer.which \in {"reg", "data"} /\ (buffer.which = "reg" => call.first = "reg")
        /\ (buffer.which = "data" => call.then # "restartRead")
        /\ buffer.left >= 1 /\ buffer \in BufferType
    <3>1. buffer.left >= 1 /\ buffer \in BufferType
      BY IsrIs DEF InCall, Lasting, TypeOK, BufferType
    <3> QED
      BY <1>1, <1>2, <1>6, <3>1, CallFacts DEF FirstBuffer
  <2>3. Uttered' = 0 + 1
    BY <1>1, <1>2, <1>6, <2>1, <2>2, IsrIs, OneMore, FirstUttered DEF InCall
  <2>4. heard = Spoken(0)
    BY <1>1, <1>6, SpokenNext
  <2> QED
    BY <1>1, <1>6, <2>1, <2>2, <2>3, <2>4, PutOutTold
<1> QED
  BY <1>3, <1>4, <1>5, <1>6

(* A byte that was put out has been answered.                              *)
LEMMA TakenTold ==
  ASSUME Typed, Told, MasterIsr, Undisturbed', ~addressNACKCheck, ~reading PROVE Told'
<1>1. /\ InWait /\ ~call.reads /\ got = <<>> /\ (nack <=> refused)
      /\ buffer.which = "data" => call.then # "restartRead"
      /\ Uttered >= 1 /\ state = (IF buffer.left = 0 THEN "TX_EMPTY" ELSE "TX")
      /\ IF ~nack THEN heard = Spoken(Uttered) ELSE heard = Spoken(Uttered - 1)
  BY IsrIs DEF Writing
<1>2. /\ call \in Calls /\ Counted /\ Uttered \in 0 .. Whole /\ Whole \in Nat
      /\ Message = Spoken(Whole) /\ Len(Message) = Whole
      /\ Uttered = buffer.next - 1 + Offset
  <2>1. call \in Calls /\ Counted /\ (buffer.which = "reg" \/ buffer.which = "data")
    BY IsrIs DEF InCall, Counted
  <2> QED
    BY <1>1, <2>1, UtteredIs, MessageIs
<1>3. /\ call.first \in {"reg", "data"} /\ call.then \in {"stop", "continue", "restartRead"}
      /\ call.len \in 1 .. MaxLen
      /\ IF call.first = "reg" THEN call.then # "stop" ELSE call.then = "stop"
  BY <1>1, <1>2, CallFacts
<1>4. IF buffer.left = 0 THEN DoTxEmpty ELSE DoTx
  <2>1. Dispatch(state)
    BY IsrIs
  <2> QED
    BY <1>1, <2>1 DEF Dispatch
<1>5. CASE nack
  <2>1. DoSendStop
    BY <1>4, <1>5 DEF DoTx, DoTxEmpty, DataRefused
  <2>2. bus' = "idle" /\ busy' = FALSE /\ error' = "NOERR"
    BY <2>1 DEF DoSendStop, MasterStop, DoIdle
  <2>3. \E n \in 0 .. Len(Message) : heard = Spoken(n)
    <3>1. Uttered - 1 \in 0 .. Len(Message)
      BY <1>1, <1>2
    <3> QED
      BY <1>1, <1>5, <3>1
  <2> QED
    BY <1>1, <1>5, <2>2, <2>3, LetGoTold
<1>6. CASE ~nack /\ buffer.left # 0
  <2>1. TxByte(buffer)
    BY <1>4, <1>6 DEF DoTx, DataRefused
  <2>2. /\ buffer.which \in {"reg", "data"} /\ (buffer.which = "reg" => call.first = "reg")
        /\ buffer.left >= 1 /\ buffer \in BufferType
    BY <1>2, <1>6, IsrIs DEF InCall, Counted, TypeOK, BufferType
  <2>3. Uttered' = Uttered + 1 /\ Uttered \in Nat
    BY <1>1, <1>2, <2>1, <2>2, IsrIs, OneMore DEF InCall
  <2> QED
    BY <1>1, <1>6, <2>1, <2>2, <2>3, PutOutTold
<1>7. CASE ~nack /\ buffer.left = 0 /\ onComplete = "stop"
  <2>1. DoSendStop
    BY <1>4, <1>7 DEF DoTxEmpty, DataRefused
  <2>2. bus' = "idle" /\ busy' = FALSE /\ error' = "NOERR" /\ got' = got
    BY <2>1 DEF DoSendStop, MasterStop, DoIdle
  <2>3. buffer.which = "data" /\ buffer.next = call.len + 1 /\ call.then # "restartRead"
    BY <1>1, <1>2, <1>3, <1>7 DEF Counted
  <2>4. Uttered = Whole
    BY <1>1, <1>2, <1>3, <2>3, MessageIs DEF Offset
  <2>5. Answer = <<>>
    BY <1>1, <1>2, <2>3, AnswerIs
  <2> QED
    BY <1>1, <1>2, <1>7, <2>2, <2>4, <2>5, LetGoTold
<1>8. CASE ~nack /\ buffer.left = 0 /\ onComplete # "stop"
  <2>1. /\ buffer.which = "reg" /\ buffer.next = 1 /\ onComplete = call.then
        /\ call.first = "reg" /\ Uttered = 1 /\ ~refused
    BY <1>1, <1>2, <1>8 DEF Counted, Offset
  <2>2. CASE onComplete = "restartRead"
    <3>1. DoSendAdr(TRUE) /\ buffer' = NextBuffer /\ UNCHANGED <<busy, got>>
      BY <1>4, <1>8, <2>2 DEF DoTxEmpty, DataRefused
    <3>2. Whole = 1 /\ Answer # <<>>
      BY <1>2, <2>1, <2>2, MessageIs, AnswerIs
    <3>3. buffer' = DataBuffer /\ heard = Message /\ pc # "started"
      BY <1>1, <1>2, <1>8, <2>1, <3>1, <3>2, NextBufferIs, IsrIs DEF InWait
    <3>4. TRUE \in BOOLEAN
      OBVIOUS
    <3> QED
      BY <1>1, <2>1, <3>1, <3>2, <3>3, <3>4, AddressAgainTold
  <2>3. CASE onComplete = "continue"
    <3>1. TxByte(DataBuffer)
      BY <1>4, <1>8, <2>3, NextBufferIs, IsrIs DEF DoTxEmpty, DataRefused
    <3>2. /\ DataBuffer \in BufferType /\ DataBuffer.which = "data" /\ DataBuffer.left >= 1
          /\ DataBuffer.next = 1
      BY <1>3, NextBufferIs, IsrIs
    <3>3. Uttered' = 1 + 1
      <4>1. buffer' = [DataBuffer EXCEPT !.next = DataBuffer.next + 1, !.left = Less(DataBuffer.left)]
        BY <3>1 DEF TxByte
      <4>2. buffer'.next = 1 + 1
        BY <3>2, <4>1 DEF BufferType
      <4> QED
        BY <1>1, <2>1, <2>3, <4>2, IsrIs DEF Uttered
    <3>4. heard = Spoken(1) /\ call.then # "restartRead" /\ 1 \in Nat
      BY <1>1, <1>8, <2>1, <2>3
    <3> QED
      BY <1>1, <2>1, <3>1, <3>2, <3>3, <3>4, PutOutTold
  <2> QED
    BY <1>3, <1>8, <2>1, <2>2, <2>3
<1> QED
  BY <1>5, <1>6, <1>7, <1>8

(* Every step of the machine.                                              *)
LEMMA IsrTold == ASSUME Typed, Told, MasterIsr PROVE Told'
<1> SUFFICES ASSUME Undisturbed' PROVE Told'
  BY DEF Told
<1>1. CASE ~addressNACKCheck /\ reading
  <2>1. /\ InWait /\ state = "RX" /\ buffer.which = "data" /\ Answer # <<>> /\ heard = Message
        /\ ~refused /\ got = Numbers(buffer.next - 1) /\ given = buffer.next
    BY <1>1, IsrIs DEF Reading
  <2>2. DoRx
    <3>1. Dispatch(state)
      BY <1>1, IsrIs
    <3> QED
      BY <2>1, <3>1 DEF Dispatch
  <2> QED
    BY <1>1, <2>1, <2>2, StoredTold
<1> QED
  BY <1>1, AnsweredTold, TakenTold

----------------------------------------------------------------------------
(* Told is invariant, and says what a caller relies on.                    *)

LEMMA ToldInit == Init => Told
BY DEF Init, Told, Undisturbed

LEMMA ToldStep == Typed /\ Told /\ [Next]_vars => Told'
<1> SUFFICES ASSUME Typed, Told, [Next]_vars PROVE Told'
  OBVIOUS
<1>1. CASE UNCHANGED vars
  <2>1. /\ UNCHANGED <<call, result, pc, state, error, addressNACKCheck, busy, buffer, flags, nack,
                       bus, reading, heard, given, got, refused, hurt>>
    BY <1>1 DEF vars, main, fsm, device
  <2>2. /\ Message' = Message /\ Answer' = Answer /\ FirstBuffer' = FirstBuffer
        /\ DataBuffer' = DataBuffer /\ Offset' = Offset /\ Uttered' = Uttered
    BY <2>1, SameCall DEF Uttered
  <2>3. Undisturbed' = Undisturbed /\ Agreed' = Agreed /\ AtStart' = AtStart
    BY <2>1, <2>2 DEF Undisturbed, Agreed, AtStart, AfterAddress, InWait
  <2>4. Addressing' = Addressing /\ Writing' = Writing /\ Reading' = Reading /\ Ended' = Ended
    BY <2>1, <2>2 DEF Addressing, Writing, Reading, Ended, AfterAddress, InWait, Spoken, Numbers
  <2> QED
    BY <2>3, <2>4 DEF Told
<1>2. CASE Open
  <2>1. CASE \E c \in Calls : call' = c /\ tries' = c.tries /\ Opened(c)
    BY <2>1, OpenTold
  <2>2. CASE pc = "retry" /\ UNCHANGED call /\ Opened(call)
    <3>1. call \in Calls
      BY <2>2 DEF Typed, Unused, TypeOK
    <3> QED
      BY <2>2, <3>1, OpenTold
  <2> QED
    BY <1>2, <2>1, <2>2 DEF Open
<1> QED
  BY <1>1, <1>2, OperationTold, StoreTold, CloseTold, ReleaseTold, HardwareTold, IsrTold
     DEF Next, Main

(* The device has heard a beginning of the message, wherever it stands.    *)
LEMMA ToldInOrder == Typed /\ Told => HeardInOrder
<1> SUFFICES ASSUME Typed, Told, Undisturbed PROVE IsPrefix(heard, Message)
  BY DEF HeardInOrder, Undisturbed
<1>1. /\ call \in Calls /\ Counted /\ Agreed /\ AtStart /\ Addressing /\ Writing /\ Reading /\ Ended
  BY DEF Told, Typed, TypeOK, Bounded, Undisturbed
<1>2. /\ Message = Spoken(Whole) /\ Whole \in Nat /\ Len(Message) = Whole
      /\ Uttered \in 0 .. Whole /\ Spoken(0) = <<>> /\ 0 \in Nat
  BY <1>1, MessageIs, UtteredIs, SpokenNext
<1>3. \E n \in 0 .. Whole : heard = Spoken(n)
  <2>1. CASE AfterAddress
    BY <1>1, <1>2, <2>1 DEF Addressing
  <2>2. CASE bus = "sending" \/ (bus = "held" /\ ~addressNACKCheck /\ ~reading)
    <3>1. Uttered - 1 \in 0 .. Whole /\ (heard = Spoken(Uttered) \/ heard = Spoken(Uttered - 1))
      BY <1>1, <1>2, <2>2 DEF Writing
    <3> QED
      BY <1>2, <3>1
  <2>3. CASE bus = "receiving" \/ (bus = "held" /\ ~addressNACKCheck /\ reading)
    BY <1>1, <1>2, <2>3 DEF Reading
  <2>4. CASE bus = "idle"
    BY <1>1, <1>2, <2>4 DEF AtStart, Ended
  <2> QED
    BY <1>1, <2>1, <2>2, <2>3, <2>4 DEF Agreed, AfterAddress, Typed, TypeOK
<1>4. PICK n \in 0 .. Whole : heard = Spoken(n)
  BY <1>3
<1>5. IsPrefix(Count(n, Offset), Count(Whole, Offset))
  <2>1. Offset \in Int
    BY DEF Offset
  <2> QED
    BY <1>2, <2>1, CountPrefix
<1> QED
  BY <1>2, <1>4, <1>5 DEF Spoken

(* The device hears the bytes of a call in their order, each once,         *)
(* whatever the interrupt overtakes and however often an address is        *)
(* refused and sent again.                                                 *)
THEOREM HeardInOrderHolds == Spec => []HeardInOrder
<1>1. Init => Typed /\ Told
  BY TypedInit, ToldInit
<1>2. Typed /\ Told /\ [Next]_vars => (Typed /\ Told)'
  BY TypedStep, ToldStep
<1>3. Typed /\ Told => HeardInOrder
  BY ToldInOrder
<1> QED
  BY <1>1, <1>2, <1>3, PTL DEF Spec

(* A call that meets no refusal and no fault reports success, and the      *)
(* device has heard and the caller has got the whole of it.                *)
THEOREM WholeUnlessRefusedHolds == Spec => []WholeUnlessRefused
<1>1. Init => Typed /\ Told
  BY TypedInit, ToldInit
<1>2. Typed /\ Told /\ [Next]_vars => (Typed /\ Told)'
  BY TypedStep, ToldStep
<1>3. Typed /\ Told => WholeUnlessRefused
  BY DEF Told, Undisturbed, Agreed, Ended, WholeUnlessRefused, Finished
<1> QED
  BY <1>1, <1>2, <1>3, PTL DEF Spec

=============================================================================
