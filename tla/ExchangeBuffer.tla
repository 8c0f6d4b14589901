--------------------------- MODULE ExchangeBuffer ---------------------------
(***************************************************************************)
(* The ring buffer between the MQTT core and the socket layer,             *)
(* src/mcc_generated_files/mqtt/mqtt_exchange_buffer.  Addresses count     *)
(* from `start`: the buffer is 0 .. BufferLength - 1.                      *)
(***************************************************************************)
EXTENDS Integers, Sequences

CONSTANTS
  Bytes,          (* the values of a byte                                  *)
  Foreign,        (* a byte that is not the buffer's                       *)
  BufferLength,   (* bufferLength                                          *)
  MaxLength,      (* bound: the longest write and the longest read         *)
  PeekLengths     (* the lengths callers peek: sizeof a packet header      *)

ASSUME BufferAssumption ==
  /\ Foreign \notin Bytes
  /\ BufferLength \in Nat \ {0}
  /\ MaxLength \in Nat
  /\ PeekLengths \subseteq {1} /\ PeekLengths \subseteq 0 .. MaxLength

VARIABLES
  memory,            (* the bytes of the buffer                            *)
  currentLocation,   (* the oldest byte                                    *)
  dataLength,        (* the number of bytes written and not read           *)
  returned           (* the caller's data after the last read or peek      *)

vars == <<memory, currentLocation, dataLength, returned>>

Least(m, n) == IF m < n THEN m ELSE n

(* The address i bytes behind p, round the end of the buffer.              *)
Behind(p, i) == (p + i) % BufferLength

Init ==
  /\ memory = [a \in 0 .. BufferLength - 1 |-> Foreign]
  /\ currentLocation = 0 /\ dataLength = 0
  /\ returned = <<>>

ExchangeBufferInit ==
  /\ currentLocation' = 0 /\ dataLength' = 0
  /\ UNCHANGED <<memory, returned>>

(* The loop of MQTT_ExchangeBufferWrite stops when it has come round to    *)
(* currentLocation.  Fault: it stops one byte late.                        *)
RoomAndOne == BufferLength - dataLength + 1
Room == BufferLength - dataLength

ExchangeBufferWrite(data) ==
  LET n   == Least(Len(data), Room)
      end == Behind(currentLocation, dataLength)
  IN /\ memory' = [a \in 0 .. BufferLength - 1 |->
                     IF \E i \in 1 .. n : Behind(end, i - 1) = a
                       THEN data[CHOOSE i \in 1 .. n : Behind(end, i - 1) = a]
                       ELSE memory[a]]
     /\ dataLength' = dataLength + n
     /\ UNCHANGED <<currentLocation, returned>>

(* MQTT_ExchangeBufferPeek indexes from currentLocation and does not wrap: *)
(* its `ptr` never moves.                                                  *)
ExchangeBufferPeek(length) ==
  /\ returned' = [i \in 1 .. Least(length, dataLength) |->
                    LET a == currentLocation + i - 1
                    IN IF a < BufferLength THEN memory[a] ELSE Foreign]
  /\ UNCHANGED <<memory, currentLocation, dataLength>>

ExchangeBufferRead(length) ==
  LET n == Least(length, dataLength)
  IN /\ returned' = [i \in 1 .. n |-> memory[Behind(currentLocation, i - 1)]]
     /\ currentLocation' = Behind(currentLocation, n)
     /\ dataLength' = dataLength - n
     /\ UNCHANGED memory

Next ==
  \/ ExchangeBufferInit
  \/ \E n \in 0 .. MaxLength : \E data \in [1 .. n -> Bytes] : ExchangeBufferWrite(data)
  \/ \E n \in PeekLengths : ExchangeBufferPeek(n)
  \/ \E n \in 0 .. MaxLength : ExchangeBufferRead(n)

Spec == Init /\ [][Next]_vars

----------------------------------------------------------------------------
TypeOK ==
  /\ memory \in [0 .. BufferLength - 1 -> Bytes \cup {Foreign}]
  /\ currentLocation \in 0 .. BufferLength - 1
  /\ dataLength \in 0 .. BufferLength
  /\ returned \in Seq(Bytes \cup {Foreign})

(* What is in the buffer, oldest first.                                    *)
Contents == [i \in 1 .. dataLength |-> memory[Behind(currentLocation, i - 1)]]

Queue == INSTANCE ByteQueue
           WITH bytes <- Contents, out <- returned, Capacity <- BufferLength

(* MQTT_ExchangeBufferInit, Write, Peek and Read are a bounded queue: a    *)
(* byte is read once, in the order of the writes, whatever the wrap-around *)
(* between them, and neither a full buffer nor a long read mixes bytes up  *)
(* or hands out any that were not written.                                 *)
ImplementsByteQueue == Queue!Spec
=============================================================================
