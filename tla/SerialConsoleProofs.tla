------------------------- MODULE SerialConsoleProofs -------------------------
(***************************************************************************)
(* Proofs about SerialConsole for buffers, commands and answers of any     *)
(* size: no interrupt, wherever it falls, makes the serial port lose,      *)
(* repeat or reorder what it sends, and no interrupt makes the command     *)
(* line run what was not typed as a line.                                  *)
(***************************************************************************)
EXTENDS SerialConsole, SequenceTheorems, TLAPS

(* The sizes, one by one.                                                  *)
LEMMA Sizes ==
  /\ RxSize \in Nat \ {0} /\ TxSize \in Nat \ {0} /\ MaxCommand \in Nat \ {0}
  /\ ReplyLength \in Nat \ {0} /\ MaxTyped \in Nat \ {0}
  BY ConsoleAssumption

(* Index i of a ring of size places, up to one round ahead.                *)
At(i, size) == IF i < size THEN i ELSE i - size

(* The next place of a ring is the one ahead, or the first.                *)
LEMMA FollowingIsAt ==
  ASSUME NEW size \in Nat \ {0}, NEW i \in 0 .. size - 1
  PROVE  Following(i, size) = At(i + 1, size) /\ Following(i, size) \in 0 .. size - 1
<1>1. CASE i + 1 < size
  BY <1>1 DEF Following, At
<1>2. CASE i + 1 = size
  <2>1. size % size = 0
    OBVIOUS
  <2> QED
    BY <1>2, <2>1 DEF Following, At
<1> QED
  BY <1>1, <1>2

(* Places of a ring counted from its tail.                                 *)
LEMMA RingPlace ==
  ASSUME NEW size \in Nat \ {0}, NEW tail \in 0 .. size - 1, NEW n \in 0 .. size
  PROVE  At(tail + n, size) \in 0 .. size - 1
BY DEF At

(* The place behind the n-th is the next.                                  *)
LEMMA RingAhead ==
  ASSUME NEW size \in Nat \ {0}, NEW tail \in 0 .. size - 1, NEW n \in 0 .. size - 1
  PROVE  Following(At(tail + n, size), size) = At(tail + (n + 1), size)
<1>1. At(tail + n, size) \in 0 .. size - 1 /\ At(At(tail + n, size) + 1, size) = At(tail + (n + 1), size)
  BY DEF At
<1> QED
  BY <1>1, FollowingIsAt

(* When the tail moves on, every place is one less from it.                *)
LEMMA RingShift ==
  ASSUME NEW size \in Nat \ {0}, NEW tail \in 0 .. size - 1, NEW n \in 0 .. size - 1
  PROVE  At(Following(tail, size) + n, size) = At(tail + (n + 1), size)
<1>1. At(At(tail + 1, size) + n, size) = At(tail + (n + 1), size)
  BY DEF At
<1> QED
  BY <1>1, FollowingIsAt

(* Two of them are apart.                                                  *)
LEMMA RingApart ==
  ASSUME NEW size \in Nat \ {0}, NEW tail \in 0 .. size - 1,
         NEW n \in 0 .. size - 1, NEW k \in 1 .. n
  PROVE  At(tail + k, size) # At(tail + (n + 1), size)
BY DEF At

----------------------------------------------------------------------------
(* The transmitter.                                                        *)

(* Bytes between tail and head, and one in place that the head does not    *)
(* cover yet.                                                              *)
Queued == txElements + IF pc = "writeCount" THEN 1 ELSE 0
Laid == IF pc = "writeHead" THEN 1 ELSE 0

MainType ==
  /\ pc \in {"idle", "loop", "readCount", "readData", "write", "writeHead", "writeCount",
             "writeEnable"}
  /\ reply \in Seq(1 .. ReplyLength) /\ Len(reply) <= ReplyLength
  /\ pc = "write" => reply # <<>>
  /\ pc \in {"idle", "loop", "readCount", "readData"} => reply = <<>>

TxType ==
  /\ txbuf \in [0 .. TxSize - 1 -> 0 .. ReplyLength]
  /\ txHead \in 0 .. TxSize - 1 /\ txTail \in 0 .. TxSize - 1
  /\ txElements \in 0 .. TxSize /\ dreIE \in BOOLEAN
  /\ pc \in {"writeHead", "writeCount"} => txElements < TxSize
  /\ txHead = At(txTail + Queued, TxSize)

(* What was written is what was sent and, behind it, what the ring holds.  *)
TxContents ==
  /\ written \in Seq(1 .. ReplyLength) /\ sent \in Seq(0 .. ReplyLength)
  /\ Len(written) = Len(sent) + Queued + Laid
  /\ \A k \in 1 .. Len(sent) : sent[k] = written[k]
  /\ \A k \in 1 .. Queued + Laid : txbuf[At(txTail + k, TxSize)] = written[Len(sent) + k]

TxInv == MainType /\ TxType /\ TxContents

(* Nothing has been written.                                               *)
LEMMA TxInit == Init => TxInv
  BY Sizes, EmptySeq
     DEF Init, TxInv, MainType, TxType, TxContents, Queued, Laid, At

(* The answer is a sequence of its characters.                             *)
LEMMA AnswerType == Answer \in Seq(1 .. ReplyLength) /\ Len(Answer) = ReplyLength /\ Answer # <<>>
<1>1. Answer \in Seq(1 .. ReplyLength)
  BY Sizes, IsASeq DEF Answer
<1>2. Len(Answer) = ReplyLength
  BY Sizes DEF Answer
<1> QED
  BY <1>1, <1>2, Sizes

(* How many bytes there can be.                                            *)
LEMMA QueuedType ==
  ASSUME TxInv
  PROVE  /\ Queued \in 0 .. TxSize /\ Laid \in 0 .. 1 /\ Queued + Laid <= TxSize
         /\ Len(sent) \in Nat /\ Len(written) \in Nat
<1>1. txElements \in 0 .. TxSize /\ (pc \in {"writeHead", "writeCount"} => txElements < TxSize)
  BY DEF TxInv, TxType
<1>2. Queued \in 0 .. TxSize /\ Laid \in 0 .. 1 /\ Queued + Laid <= TxSize
  BY <1>1, Sizes DEF Queued, Laid
<1>3. Len(sent) \in Nat /\ Len(written) \in Nat
  BY LenProperties DEF TxInv, TxContents
<1> QED
  BY <1>2, <1>3

(* The data register empty interrupt, wherever main code stands.           *)
LEMMA TxIsrKeeps == TxInv /\ TxIsr => TxInv'
<1> SUFFICES ASSUME TxInv, TxIsr PROVE TxInv'
  OBVIOUS
<1>1. CASE txElements = 0
  <2>1. UNCHANGED <<txbuf, txHead, txTail, txElements, pc, reply, written, sent>> /\ dreIE' \in BOOLEAN
    BY <1>1 DEF TxIsr, StaysOn
  <2> QED
    BY <2>1 DEF TxInv, MainType, TxType, TxContents, Queued, Laid
<1>2. CASE txElements # 0
  <2>1. /\ txTail' = Following(txTail, TxSize)
        /\ sent' = Append(sent, txbuf[txTail'])
        /\ txElements' = txElements - 1 /\ dreIE' \in BOOLEAN
        /\ UNCHANGED <<txbuf, txHead, pc, reply, written>>
    BY <1>2 DEF TxIsr, StaysOn
  <2>2. /\ Queued' = Queued - 1 /\ Laid' = Laid /\ Queued \in 1 .. TxSize
        /\ txElements \in 1 .. TxSize /\ txTail \in 0 .. TxSize - 1
    BY <1>2, <2>1, Sizes, QueuedType DEF TxInv, TxType, Queued, Laid
  <2>3. txTail' \in 0 .. TxSize - 1 /\ txTail' = At(txTail + 1, TxSize)
    BY <2>1, <2>2, FollowingIsAt, Sizes
  <2>4. /\ sent' \in Seq(0 .. ReplyLength) /\ Len(sent') = Len(sent) + 1
        /\ \A k \in 1 .. Len(sent) : sent'[k] = sent[k]
        /\ sent'[Len(sent) + 1] = txbuf[txTail']
    BY <2>1, <2>3, AppendProperties DEF TxInv, TxType, TxContents
  <2>5. MainType'
    BY <2>1 DEF TxInv, MainType
  <2>6. txHead' = At(txTail' + Queued', TxSize)
    <3>1. Queued - 1 \in 0 .. TxSize - 1 /\ (Queued - 1) + 1 = Queued
      BY <2>2, Sizes
    <3>2. At(txTail' + (Queued - 1), TxSize) = At(txTail + Queued, TxSize)
      BY <2>1, <2>2, <3>1, RingShift, Sizes
    <3> QED
      BY <2>1, <2>2, <3>2 DEF TxInv, TxType
  <2>7. TxType'
    BY <2>1, <2>2, <2>3, <2>6, Sizes, SMTT(20) DEF TxInv, TxType
  <2>8. \A k \in 1 .. Len(sent') : sent'[k] = written[k]
    <3>1. sent'[Len(sent) + 1] = written[Len(sent) + 1]
      BY <2>2, <2>3, <2>4, QueuedType DEF TxInv, TxContents
    <3> QED
      BY <2>4, <3>1, QueuedType DEF TxInv, TxContents
  <2>9. \A k \in 1 .. Queued' + Laid' :
          txbuf[At(txTail' + k, TxSize)] = written[Len(sent') + k]
    <3> SUFFICES ASSUME NEW k \in 1 .. Queued' + Laid'
                 PROVE  txbuf[At(txTail' + k, TxSize)] = written[Len(sent') + k]
      OBVIOUS
    <3>1. k + 1 \in 1 .. Queued + Laid /\ k \in 0 .. TxSize - 1
      BY <2>2, QueuedType, Sizes
    <3>2. At(txTail' + k, TxSize) = At(txTail + (k + 1), TxSize)
      BY <2>1, <2>2, <3>1, RingShift, Sizes
    <3>3. txbuf[At(txTail + (k + 1), TxSize)] = written[Len(sent) + (k + 1)]
      BY <3>1 DEF TxInv, TxContents
    <3>4. Len(sent) + (k + 1) = Len(sent') + k
      BY <2>2, <2>4, QueuedType
    <3> QED
      BY <3>2, <3>3, <3>4
  <2>10. Len(written') = Len(sent') + Queued' + Laid'
    BY <2>1, <2>2, <2>4, QueuedType DEF TxInv, TxContents
  <2>11. TxContents'
    BY <2>1, <2>4, <2>8, <2>9, <2>10 DEF TxInv, TxContents
  <2> QED
    BY <2>5, <2>7, <2>11 DEF TxInv
<1> QED
  BY <1>1, <1>2

(* The first step of USART2_Write: the byte is in place.                   *)
LEMMA WriteDataKeeps == TxInv /\ WriteData => TxInv'
<1> SUFFICES ASSUME TxInv, WriteData PROVE TxInv'
  OBVIOUS
<1> DEFINE place == At(txTail + (Queued + 1), TxSize)
<1>1. /\ Queued = txElements /\ Queued' = Queued /\ Laid = 0 /\ Laid' = 1
      /\ Queued \in 0 .. TxSize - 1 /\ txTail \in 0 .. TxSize - 1 /\ txElements < TxSize
  BY Sizes DEF WriteData, Full, Queued, Laid, TxInv, TxType
<1>2. Following(txHead, TxSize) = place /\ place \in 0 .. TxSize - 1
  <2>1. Following(At(txTail + Queued, TxSize), TxSize) = place
    BY <1>1, RingAhead, Sizes
  <2>2. Queued + 1 \in 0 .. TxSize
    BY <1>1, Sizes
  <2>3. place \in 0 .. TxSize - 1
    BY <1>1, <2>2, RingPlace, Sizes
  <2> QED
    BY <2>1, <2>3 DEF TxInv, TxType
<1>3. /\ pc = "write" /\ pc' = "writeHead" /\ reply # <<>>
      /\ txbuf' = [txbuf EXCEPT ![place] = Head(reply)]
      /\ written' = Append(written, Head(reply)) /\ reply' = Tail(reply)
      /\ UNCHANGED <<txHead, txTail, txElements, dreIE, sent>>
  BY <1>2 DEF WriteData, TxInv, MainType
<1>4. /\ Head(reply) \in 1 .. ReplyLength /\ Tail(reply) \in Seq(1 .. ReplyLength)
      /\ Len(Tail(reply)) <= ReplyLength
  BY <1>3, HeadTailProperties, LenProperties, Sizes DEF TxInv, MainType
<1>5. /\ written' \in Seq(1 .. ReplyLength) /\ Len(written') = Len(written) + 1
      /\ \A k \in 1 .. Len(written) : written'[k] = written[k]
      /\ written'[Len(written) + 1] = Head(reply)
  BY <1>3, <1>4, AppendProperties DEF TxInv, TxContents
<1>6. MainType'
  BY <1>3, <1>4 DEF TxInv, MainType
<1>7. Head(reply) \in 0 .. ReplyLength
  BY <1>4, Sizes
<1>8. TxType'
  BY <1>1, <1>2, <1>3, <1>7 DEF TxInv, TxType
<1>9. Len(written) = Len(sent) + Queued
  BY <1>1, QueuedType DEF TxInv, TxContents
<1>10. \A k \in 1 .. Queued : txbuf'[At(txTail + k, TxSize)] = written'[Len(sent) + k]
  <2> SUFFICES ASSUME NEW k \in 1 .. Queued
               PROVE  txbuf'[At(txTail + k, TxSize)] = written'[Len(sent) + k]
    OBVIOUS
  <2>1. At(txTail + k, TxSize) # place
    BY <1>1, RingApart, Sizes
  <2>2. k \in 0 .. TxSize /\ At(txTail + k, TxSize) \in 0 .. TxSize - 1
    BY <1>1, RingPlace, Sizes
  <2>3. txbuf[At(txTail + k, TxSize)] = written[Len(sent) + k]
    BY <1>1 DEF TxInv, TxContents
  <2>4. Len(sent) + k \in 1 .. Len(written)
    BY <1>1, <1>9, QueuedType
  <2> QED
    BY <1>3, <1>5, <2>1, <2>2, <2>3, <2>4 DEF TxInv, TxType
<1>11. txbuf'[place] = written'[Len(sent) + (Queued + 1)]
  <2>1. Len(sent) + (Queued + 1) = Len(written) + 1
    BY <1>1, <1>9, QueuedType
  <2> QED
    BY <1>2, <1>3, <1>5, <2>1 DEF TxInv, TxType
<1>12. \A k \in 1 .. Queued' + Laid' : txbuf'[At(txTail' + k, TxSize)] = written'[Len(sent') + k]
  <2> SUFFICES ASSUME NEW k \in 1 .. Queued' + Laid'
               PROVE  txbuf'[At(txTail' + k, TxSize)] = written'[Len(sent') + k]
    OBVIOUS
  <2>1. k \in 1 .. Queued \/ k = Queued + 1
    BY <1>1, Sizes
  <2> QED
    BY <1>3, <1>10, <1>11, <2>1
<1>13. \A k \in 1 .. Len(sent') : sent'[k] = written'[k]
  BY <1>1, <1>3, <1>5, <1>9, QueuedType DEF TxInv, TxContents
<1>14. TxContents'
  BY <1>1, <1>3, <1>5, <1>9, <1>12, <1>13, QueuedType DEF TxInv, TxContents
<1> QED
  BY <1>6, <1>8, <1>14 DEF TxInv

(* The rest of USART2_Write: the head and the count follow.                *)
LEMMA WriteRestKeeps == TxInv /\ (WriteHead \/ WriteCount \/ WriteEnable) => TxInv'
<1> SUFFICES ASSUME TxInv, WriteHead \/ WriteCount \/ WriteEnable PROVE TxInv'
  OBVIOUS
<1>1. CASE WriteHead
  <2>1. /\ Queued' = Queued + 1 /\ Laid = 1 /\ Laid' = 0 /\ Queued \in 0 .. TxSize - 1
        /\ txHead' = Following(txHead, TxSize) /\ txTail \in 0 .. TxSize - 1
        /\ UNCHANGED <<txbuf, txTail, txElements, dreIE, reply, written, sent>>
        /\ pc' = "writeCount" /\ txElements < TxSize
    BY <1>1, Sizes DEF WriteHead, Queued, Laid, history, TxInv, TxType
  <2>2. Following(txHead, TxSize) = At(txTail + (Queued + 1), TxSize)
    BY <2>1, RingAhead, Sizes DEF TxInv, TxType
  <2>3. txHead' \in 0 .. TxSize - 1
    BY <2>1, FollowingIsAt, Sizes DEF TxInv, TxType
  <2>4. MainType'
    BY <2>1 DEF TxInv, MainType
  <2>5. TxType'
    BY <2>1, <2>2, <2>3 DEF TxInv, TxType
  <2>6. Queued' + Laid' = Queued + Laid /\ Len(sent) + Queued' + Laid' = Len(sent) + Queued + Laid
    BY <2>1, QueuedType
  <2>7. TxContents'
    BY <2>1, <2>6 DEF TxInv, TxContents
  <2> QED
    BY <2>4, <2>5, <2>7 DEF TxInv
<1>2. CASE WriteCount \/ WriteEnable
  <2>1. /\ Queued' = Queued /\ Laid' = Laid /\ dreIE' \in BOOLEAN
        /\ UNCHANGED <<txbuf, txHead, txTail, reply, written, sent>>
        /\ txElements' \in 0 .. TxSize
        /\ pc' \notin {"writeHead", "writeCount"}
    <3>1. txElements \in 0 .. TxSize /\ (pc = "writeCount" => txElements < TxSize) /\ dreIE \in BOOLEAN
      BY DEF TxInv, TxType
    <3>2. CASE WriteCount
      BY <3>1, <3>2, Sizes DEF WriteCount, Queued, Laid, history
    <3>3. CASE WriteEnable
      BY <3>1, <3>3, Sizes DEF WriteEnable, Queued, Laid, transmitter, history
    <3> QED
      BY <1>2, <3>2, <3>3
  <2>2. MainType'
    BY <1>2, <2>1 DEF WriteCount, WriteEnable, TxInv, MainType
  <2>3. TxType'
    BY <2>1 DEF TxInv, TxType
  <2>4. TxContents'
    BY <2>1 DEF TxInv, TxContents
  <2> QED
    BY <2>2, <2>3, <2>4 DEF TxInv
<1> QED
  BY <1>1, <1>2

(* Reading leaves the transmitter alone.                                   *)
LEMMA ReaderKeepsTx ==
  TxInv /\ (RxIsr \/ CliTask \/ LoopEnds \/ ReadTail \/ ReadCount \/ ReadData) => TxInv'
<1> SUFFICES ASSUME TxInv, RxIsr \/ CliTask \/ LoopEnds \/ ReadTail \/ ReadCount \/ ReadData
             PROVE  TxInv'
  OBVIOUS
<1>1. UNCHANGED <<transmitter, dreIE, written, sent>>
  BY DEF RxIsr, CliTask, LoopEnds, ReadTail, ReadCount, ReadData, history
<1>2. Queued' = Queued /\ Laid' = Laid
  BY <1>1 DEF RxIsr, CliTask, LoopEnds, ReadTail, ReadCount, ReadData, Queued, Laid, transmitter
<1>3. MainType'
  <2>1. CASE RxIsr \/ CliTask \/ LoopEnds \/ ReadTail \/ ReadCount
    BY <2>1 DEF RxIsr, CliTask, LoopEnds, ReadTail, ReadCount, TxInv, MainType
  <2>2. CASE ReadData
    <3>1. reply' = Answer \/ reply' = <<>>
      BY <2>2 DEF ReadData, EndLine, StoreLetter
    <3>2. reply' \in Seq(1 .. ReplyLength) /\ Len(reply') <= ReplyLength
      <4>1. CASE reply' = Answer
        <5>1. ReplyLength <= ReplyLength
          BY Sizes
        <5> QED
          BY <4>1, <5>1, AnswerType
      <4>2. CASE reply' = <<>>
        BY <4>2, Sizes
      <4> QED
        BY <3>1, <4>1, <4>2
    <3>3. pc' = IF reply' = <<>> THEN "loop" ELSE "write"
      BY <2>2 DEF ReadData
    <3> QED
      BY <3>2, <3>3 DEF MainType
  <2> QED
    BY <2>1, <2>2
<1>4. \/ pc \notin {"writeHead", "writeCount"} /\ pc' \notin {"writeHead", "writeCount"}
      \/ pc' = pc
  BY DEF RxIsr, CliTask, LoopEnds, ReadTail, ReadCount, ReadData
<1>5. TxType' /\ TxContents'
  BY <1>1, <1>2, <1>4 DEF TxInv, TxType, TxContents, transmitter
<1> QED
  BY <1>3, <1>5 DEF TxInv

(* The ring and what is in it hold together at every point at which the    *)
(* interrupt can take a byte out.                                          *)
LEMMA TxStep == TxInv /\ [Next]_vars => TxInv'
<1> SUFFICES ASSUME TxInv, [Next]_vars PROVE TxInv'
  OBVIOUS
<1>1. CASE UNCHANGED vars
  BY <1>1 DEF vars, transmitter, history, TxInv, MainType, TxType, TxContents, Queued, Laid
<1> QED
  BY <1>1, TxIsrKeeps, WriteDataKeeps, WriteRestKeeps, ReaderKeepsTx DEF Next, Main

(* USART2_Write and its interrupt: what was sent is the beginning of what  *)
(* was written, for any size of the ring.                                  *)
THEOREM OutputInOrderHolds == Spec => []OutputInOrder
<1>1. TxInv => OutputInOrder
  <2> SUFFICES ASSUME TxInv PROVE OutputInOrder
    OBVIOUS
  <2>1. Len(sent) \in Nat /\ Len(written) \in Nat /\ Len(sent) <= Len(written)
    BY QueuedType DEF TxInv, TxContents
  <2>2. \A k \in 1 .. Len(sent) : sent[k] = written[k]
    BY DEF TxInv, TxContents
  <2>3. SubSeq(sent, 1, Len(sent)) = SubSeq(written, 1, Len(sent))
    BY <2>1, <2>2
  <2> QED
    BY <2>1, <2>3 DEF OutputInOrder, IsPrefix
<1> QED
  BY <1>1, TxInit, TxStep, PTL DEF Spec

----------------------------------------------------------------------------
(* The receiver and the command line.                                      *)

(* Characters between tail and head, the one that main code has in hand,   *)
(* and those that the command line has dealt with.                         *)
Unread == rxElements - IF pc = "readCount" THEN 1 ELSE 0
InHand == IF pc \in {"readCount", "readData"} THEN 1 ELSE 0
Done == Len(typed) - Unread - InHand

RxType ==
  /\ rxbuf \in [0 .. RxSize - 1 -> Chars]
  /\ rxHead \in 0 .. RxSize - 1 /\ rxTail \in 0 .. RxSize - 1
  /\ rxElements \in 0 .. RxSize /\ Unread \in 0 .. RxSize - 1
  /\ rxHead = At(rxTail + Unread, RxSize)
  /\ dropped \in BOOLEAN

CliType ==
  /\ command \in Seq(Letters) /\ Len(command) <= MaxCommand
  /\ commandTooLong \in BOOLEAN /\ cmdRcvd \in BOOLEAN /\ test \in {CR, LF}
  /\ ran \in Seq(Seq(Letters))

(* Nothing lost, the ring holds the end of what was typed.                 *)
RxContents ==
  /\ typed \in Seq(Chars)
  /\ ~dropped =>
       /\ Done \in Nat
       /\ \A k \in 1 .. Unread : rxbuf[At(rxTail + k, RxSize)] = typed[Done + InHand + k]
       /\ InHand = 1 => rxbuf[rxTail] = typed[Done + 1]

(* The line being typed begins behind b, and unless it has become too long *)
(* the command is all of it so far.                                        *)
LineFrom(b) ==
  /\ b = 0 \/ typed[b] \in {CR, LF}
  /\ ~commandTooLong =>
       Len(command) = Done - b /\ \A i \in 1 .. Len(command) : command[i] = typed[b + i]

CliContents == ~dropped => (\E b \in 0 .. Done : LineFrom(b)) /\ CommandsAreLines

PcType ==
  pc \in {"idle", "loop", "readCount", "readData", "write", "writeHead", "writeCount", "writeEnable"}

RxInv == PcType /\ RxType /\ CliType /\ RxContents /\ CliContents

(* Nothing has been typed.                                                 *)
LEMMA RxInit == Init => RxInv
<1> SUFFICES ASSUME Init PROVE RxInv
  OBVIOUS
<1>1. typed = <<>> /\ Len(typed) = 0 /\ Unread = 0 /\ InHand = 0 /\ Done = 0
  BY DEF Init, Unread, InHand, Done
<1>2. RxType /\ PcType
  BY <1>1, Sizes DEF Init, RxType, PcType, At, Chars
<1>3. CliType
  BY Sizes DEF Init, CliType
<1>4. RxContents
  BY <1>1 DEF RxContents
<1>5. LineFrom(0)
  BY <1>1 DEF Init, LineFrom
<1>6. CommandsAreLines
  BY DEF Init, CommandsAreLines
<1> QED
  BY <1>1, <1>2, <1>3, <1>4, <1>5, <1>6 DEF RxInv, CliContents

(* A step that leaves what was typed and its reading alone.                *)
LEMMA RxElsewhere ==
  ASSUME RxInv, PcType',
         UNCHANGED <<receiver, command, commandTooLong, test, typed, dropped, ran>>,
         cmdRcvd' \in BOOLEAN, Unread' = Unread, InHand' = InHand
  PROVE  RxInv'
<1>1. Done' = Done
  BY DEF Done
<1>2. RxType' /\ CliType' /\ RxContents'
  BY <1>1 DEF RxInv, RxType, CliType, RxContents, receiver
<1>3. \A b : LineFrom(b)' <=> LineFrom(b)
  BY <1>1 DEF LineFrom
<1>4. CommandsAreLines' <=> CommandsAreLines
  BY DEF CommandsAreLines, IsLine
<1> QED
  BY <1>1, <1>2, <1>3, <1>4 DEF RxInv, CliContents

(* How many characters there can be.                                       *)
LEMMA UnreadType ==
  ASSUME RxInv
  PROVE  /\ Unread \in 0 .. RxSize - 1 /\ InHand \in 0 .. 1 /\ Len(typed) \in Nat
         /\ Done \in Int /\ Done + InHand + Unread = Len(typed)
         /\ ~dropped => Done \in Nat
<1>1. Unread \in 0 .. RxSize - 1 /\ InHand \in 0 .. 1 /\ Len(typed) \in Nat
  BY LenProperties DEF RxInv, RxType, RxContents, InHand
<1>2. Done \in Int /\ Done + InHand + Unread = Len(typed)
  BY <1>1, Sizes DEF Done
<1> QED
  BY <1>1, <1>2 DEF RxInv, RxContents

(* What is a line stays one when more is typed.                            *)
LEMMA LinesStay ==
  ASSUME typed \in Seq(Chars), NEW c \in Chars, typed' = Append(typed, c), NEW s, IsLine(s)
  PROVE  IsLine(s)'
<1>1. PICK i, j \in 1 .. Len(typed) :
        /\ typed[j] \in {CR, LF} /\ i <= j /\ s = SubSeq(typed, i, j - 1)
        /\ i = 1 \/ typed[i - 1] \in {CR, LF}
  BY DEF IsLine
<1>2. /\ Len(typed) \in Nat /\ Len(typed') = Len(typed) + 1
      /\ \A k \in 1 .. Len(typed) : typed'[k] = typed[k]
  BY AppendProperties, LenProperties
<1>3. i \in 1 .. Len(typed') /\ j \in 1 .. Len(typed') /\ typed'[j] \in {CR, LF}
  BY <1>1, <1>2
<1>4. i = 1 \/ typed'[i - 1] \in {CR, LF}
  BY <1>1, <1>2
<1>5. SubSeq(typed', i, j - 1) = SubSeq(typed, i, j - 1)
  BY <1>1, <1>2, SMTT(20)
<1> QED
  BY <1>1, <1>3, <1>4, <1>5 DEF IsLine

(* The receive interrupt, wherever main code stands.                       *)
LEMMA RxIsrKeeps == RxInv /\ RxIsr => RxInv'
<1> SUFFICES ASSUME RxInv, RxIsr PROVE RxInv'
  OBVIOUS
<1>1. PICK c \in Chars :
        /\ typed' = Append(typed, c)
        /\ IF NoRoom
             THEN dropped' = TRUE /\ UNCHANGED receiver
             ELSE /\ rxHead' = Following(rxHead, RxSize)
                  /\ rxbuf' = [rxbuf EXCEPT ![rxHead'] = c]
                  /\ rxElements' = rxElements + 1
                  /\ UNCHANGED <<rxTail, dropped>>
  BY DEF RxIsr
<1>2. UNCHANGED <<pc, command, commandTooLong, test, cmdRcvd, ran>>
  BY DEF RxIsr, cli
<1>3. /\ typed \in Seq(Chars) /\ typed' \in Seq(Chars) /\ Len(typed') = Len(typed) + 1
      /\ \A k \in 1 .. Len(typed) : typed'[k] = typed[k]
      /\ typed'[Len(typed) + 1] = c
  BY <1>1, AppendProperties DEF RxInv, RxContents
<1>4. InHand' = InHand /\ CliType' /\ PcType'
  BY <1>2 DEF InHand, RxInv, CliType, PcType
<1>5. CASE NoRoom
  <2>1. dropped' = TRUE /\ UNCHANGED <<rxbuf, rxHead, rxTail, rxElements>>
    BY <1>1, <1>5 DEF receiver
  <2>2. RxType'
    BY <1>2, <2>1 DEF RxInv, RxType, Unread
  <2> QED
    BY <1>3, <1>4, <2>1, <2>2 DEF RxInv, RxContents, CliContents
<1>6. CASE ~NoRoom
  <2> DEFINE place == At(rxTail + (Unread + 1), RxSize)
  <2>1. /\ rxHead' = Following(rxHead, RxSize) /\ rxbuf' = [rxbuf EXCEPT ![rxHead'] = c]
        /\ rxElements' = rxElements + 1 /\ UNCHANGED <<rxTail, dropped>>
    BY <1>1, <1>6
  <2>2. /\ rxTail \in 0 .. RxSize - 1 /\ Unread \in 0 .. RxSize - 1
        /\ rxHead = At(rxTail + Unread, RxSize) /\ rxElements \in 0 .. RxSize
        /\ rxbuf \in [0 .. RxSize - 1 -> Chars]
    BY DEF RxInv, RxType
  <2>3. rxHead' = place
    BY <2>1, <2>2, RingAhead, Sizes
  <2>4. Unread + 1 \in 0 .. RxSize - 1
    <3>1. place # rxTail
      BY <1>6, <2>1, <2>3 DEF NoRoom
    <3> QED
      BY <2>2, <3>1, Sizes DEF At
  <2>5. Unread' = Unread + 1 /\ rxElements' \in 0 .. RxSize
    BY <1>2, <2>1, <2>2, <2>4, Sizes DEF Unread
  <2>6. place \in 0 .. RxSize - 1 /\ place # rxTail
    BY <2>2, <2>4, Sizes DEF At
  <2>7. RxType'
    BY <2>1, <2>2, <2>3, <2>4, <2>5, <2>6 DEF RxInv, RxType
  <2>8. Done' = Done
    BY <1>3, <1>4, <2>5, UnreadType, Sizes DEF Done
  <2>9. CASE dropped
    BY <1>3, <1>4, <2>1, <2>7, <2>9 DEF RxInv, RxContents, CliContents
  <2>10. CASE ~dropped
    <3>1. /\ Done \in Nat /\ \A k \in 1 .. Unread : rxbuf[At(rxTail + k, RxSize)] = typed[Done + InHand + k]
          /\ InHand = 1 => rxbuf[rxTail] = typed[Done + 1]
      BY <2>10 DEF RxInv, RxContents
    <3>2. \A k \in 1 .. Unread' : rxbuf'[At(rxTail' + k, RxSize)] = typed'[Done' + InHand' + k]
      <4> SUFFICES ASSUME NEW k \in 1 .. Unread'
                   PROVE  rxbuf'[At(rxTail + k, RxSize)] = typed'[Done + InHand + k]
        BY <1>4, <2>1, <2>8
      <4>1. CASE k = Unread + 1
        <5>1. Done + InHand + k = Len(typed) + 1
          BY <4>1, UnreadType, Sizes
        <5> QED
          BY <1>3, <2>1, <2>2, <2>3, <2>6, <4>1, <5>1
      <4>2. CASE k # Unread + 1
        <5>1. k \in 1 .. Unread
          BY <2>2, <2>5, <4>2, Sizes
        <5>2. At(rxTail + k, RxSize) # place /\ At(rxTail + k, RxSize) \in 0 .. RxSize - 1
          <6>1. k \in 0 .. RxSize
            BY <2>2, <5>1, Sizes
          <6> QED
            BY <2>2, <5>1, <6>1, RingApart, RingPlace, Sizes
        <5>3. Done + InHand + k \in 1 .. Len(typed)
          BY <2>2, <3>1, <5>1, UnreadType, Sizes
        <5> QED
          BY <1>3, <2>1, <2>2, <2>3, <3>1, <5>1, <5>2, <5>3
      <4> QED
        BY <4>1, <4>2
    <3>3. InHand' = 1 => rxbuf'[rxTail'] = typed'[Done' + 1]
      <4> SUFFICES ASSUME InHand = 1 PROVE rxbuf'[rxTail] = typed'[Done + 1]
        BY <1>4, <2>1, <2>8
      <4>1. Done + 1 \in 1 .. Len(typed)
        BY <3>1, UnreadType, Sizes
      <4> QED
        BY <1>3, <2>1, <2>2, <2>3, <2>6, <3>1, <4>1
    <3>4. RxContents'
      BY <1>3, <2>8, <3>1, <3>2, <3>3 DEF RxContents
    <3>5. PICK b \in 0 .. Done : LineFrom(b)
      BY <2>10 DEF RxInv, CliContents
    <3>6. LineFrom(b)'
      <4>1. Done <= Len(typed)
        BY <3>1, UnreadType, Sizes
      <4>2. b = 0 \/ typed'[b] \in {CR, LF}
        BY <1>3, <3>1, <3>5, <4>1, UnreadType DEF LineFrom
      <4>3. ~commandTooLong => \A i \in 1 .. Len(command) : command[i] = typed'[b + i]
        <5> SUFFICES ASSUME ~commandTooLong, NEW i \in 1 .. Len(command) PROVE command[i] = typed'[b + i]
          OBVIOUS
        <5>1. Len(command) = Done - b /\ command[i] = typed[b + i]
          BY <3>5 DEF LineFrom
        <5>2. b + i \in 1 .. Len(typed)
          BY <3>1, <4>1, <5>1, UnreadType
        <5> QED
          BY <1>3, <5>1, <5>2
      <4> QED
        BY <1>2, <2>8, <3>5, <4>2, <4>3 DEF LineFrom
    <3>7. CommandsAreLines'
      <4>1. \A i \in DOMAIN ran : IsLine(ran[i])
        BY <2>10 DEF RxInv, CliContents, CommandsAreLines
      <4>2. ASSUME NEW i \in DOMAIN ran' PROVE IsLine(ran[i])'
        <5>1. IsLine(ran[i]) /\ ran' = ran
          BY <1>2, <4>1, <4>2
        <5> DEFINE line == ran[i]
        <5>2. \A x : IsLine(x) => IsLine(x)'
          BY <1>1, <1>3, LinesStay
        <5> QED
          BY <5>1, <5>2 DEF IsLine
      <4> QED
        BY <4>2 DEF CommandsAreLines
    <3> QED
      BY <1>4, <2>7, <2>8, <3>4, <3>5, <3>6, <3>7 DEF RxInv, CliContents
  <2> QED
    BY <2>9, <2>10, <2>7 DEF RxInv, RxType
<1> QED
  BY <1>5, <1>6

(* The steps of USART2_Read that come before the character is used.        *)
LEMMA ReadKeeps == RxInv /\ (ReadTail \/ ReadCount) => RxInv'
<1> SUFFICES ASSUME RxInv, ReadTail \/ ReadCount PROVE RxInv'
  OBVIOUS
<1>1. CASE ReadCount
  <2>1. /\ pc = "readCount" /\ pc' = "readData" /\ rxElements' = rxElements - 1
        /\ UNCHANGED <<rxbuf, rxHead, rxTail, command, commandTooLong, test, cmdRcvd, typed,
                       dropped, ran>>
    BY <1>1 DEF ReadCount, cli, history
  <2>2. Unread' = Unread /\ InHand' = InHand /\ rxElements' = Unread
    BY <2>1 DEF Unread, InHand
  <2>3. Done' = Done
    BY <2>1, <2>2 DEF Done
  <2>4. RxType' /\ PcType'
    BY <2>1, <2>2, Sizes DEF RxInv, RxType, PcType
  <2>5. CliType' /\ RxContents'
    BY <2>1, <2>2, <2>3 DEF RxInv, CliType, RxContents
  <2>6. CliContents'
    BY <2>1, <2>3 DEF RxInv, CliContents, LineFrom, CommandsAreLines, IsLine
  <2> QED
    BY <2>4, <2>5, <2>6 DEF RxInv
<1>2. CASE ReadTail
  <2>1. /\ pc = "loop" /\ pc' = "readCount" /\ rxElements # 0 /\ rxTail' = Following(rxTail, RxSize)
        /\ UNCHANGED <<rxbuf, rxHead, rxElements, command, commandTooLong, test, cmdRcvd, typed,
                       dropped, ran>>
    BY <1>2 DEF ReadTail, cli, history
  <2>2. /\ rxTail \in 0 .. RxSize - 1 /\ Unread = rxElements /\ Unread \in 1 .. RxSize - 1
        /\ InHand = 0 /\ InHand' = 1 /\ Unread' = Unread - 1
        /\ rxHead = At(rxTail + Unread, RxSize)
    BY <2>1, Sizes DEF RxInv, RxType, Unread, InHand
  <2>3. /\ rxTail' \in 0 .. RxSize - 1 /\ rxTail' = At(rxTail + 1, RxSize)
        /\ Unread - 1 \in 0 .. RxSize - 1 /\ (Unread - 1) + 1 = Unread
    BY <2>1, <2>2, FollowingIsAt, Sizes
  <2>4. rxHead' = At(rxTail' + Unread', RxSize)
    BY <2>1, <2>2, <2>3, RingShift, Sizes
  <2>5. RxType' /\ PcType' /\ CliType'
    BY <2>1, <2>2, <2>3, <2>4 DEF RxInv, RxType, PcType, CliType
  <2>6. Done' = Done
    BY <2>1, <2>2, UnreadType, Sizes DEF Done
  <2>7. CliContents'
    BY <2>1, <2>6 DEF RxInv, CliContents, LineFrom, CommandsAreLines, IsLine
  <2>8. CASE dropped
    BY <2>1, <2>5, <2>7, <2>8 DEF RxInv, RxContents
  <2>9. CASE ~dropped
    <3>1. Done \in Nat /\ \A k \in 1 .. Unread : rxbuf[At(rxTail + k, RxSize)] = typed[Done + k]
      BY <2>2, <2>9 DEF RxInv, RxContents
    <3>2. rxbuf'[rxTail'] = typed'[Done' + 1]
      BY <2>1, <2>2, <2>3, <2>6, <3>1, Sizes
    <3>3. \A k \in 1 .. Unread' : rxbuf'[At(rxTail' + k, RxSize)] = typed'[Done' + InHand' + k]
      <4> SUFFICES ASSUME NEW k \in 1 .. Unread'
                   PROVE  rxbuf[At(rxTail' + k, RxSize)] = typed[Done + 1 + k]
        BY <2>1, <2>2, <2>6
      <4>1. k + 1 \in 1 .. Unread /\ k \in 0 .. RxSize - 1
        BY <2>2, Sizes
      <4>2. At(rxTail' + k, RxSize) = At(rxTail + (k + 1), RxSize)
        BY <2>1, <2>2, <4>1, RingShift, Sizes
      <4>3. Done + (k + 1) = Done + 1 + k
        BY <3>1, <4>1
      <4> QED
        BY <3>1, <4>1, <4>2, <4>3
    <3>4. RxContents'
      BY <2>1, <2>6, <3>1, <3>2, <3>3 DEF RxInv, RxContents
    <3> QED
      BY <2>5, <2>7, <3>4 DEF RxInv
  <2> QED
    BY <2>8, <2>9, <2>5 DEF RxInv, RxType
<1> QED
  BY <1>1, <1>2

(* The command line takes the character in hand.                           *)
LEMMA ReadDataKeeps == RxInv /\ ReadData => RxInv'
<1> SUFFICES ASSUME RxInv, ReadData PROVE RxInv'
  OBVIOUS
<1> DEFINE c == rxbuf[rxTail]
<1>1. /\ pc = "readData" /\ pc' \in {"loop", "write"}
      /\ UNCHANGED <<rxbuf, rxHead, rxTail, rxElements, typed, dropped>>
  BY DEF ReadData, receiver
<1>2. /\ Unread' = Unread /\ InHand = 1 /\ InHand' = 0
      /\ Done \in Int /\ Done' = Done + 1
  <2>1. Unread' = Unread /\ InHand = 1 /\ InHand' = 0
    BY <1>1 DEF Unread, InHand
  <2> QED
    BY <1>1, <2>1, UnreadType, Sizes DEF Done
<1>3. RxType' /\ PcType'
  BY <1>1, <1>2 DEF RxInv, RxType, PcType
<1>4. c \in Chars
  BY Sizes DEF RxInv, RxType
<1>5. RxContents'
  <2>1. CASE dropped
    BY <1>1, <2>1 DEF RxInv, RxContents
  <2>2. CASE ~dropped
    <3>1. Done \in Nat /\ \A k \in 1 .. Unread : rxbuf[At(rxTail + k, RxSize)] = typed[Done + 1 + k]
      BY <1>2, <2>2 DEF RxInv, RxContents
    <3>2. \A k \in 1 .. Unread' : rxbuf'[At(rxTail' + k, RxSize)] = typed'[Done' + InHand' + k]
      BY <1>1, <1>2, <3>1
    <3> QED
      BY <1>1, <1>2, <3>1, <3>2 DEF RxInv, RxContents
  <2> QED
    BY <2>1, <2>2 DEF RxInv, RxType
<1>6. CASE c \in {CR, LF}
  <2>1. EndLine(c)
    BY <1>6 DEF ReadData
  <2>2. command' = <<>> /\ Len(command') = 0 /\ commandTooLong' = FALSE
    BY <2>1 DEF EndLine
  <2>3. \/ ran' = ran
        \/ ran' = Append(ran, command) /\ ~commandTooLong
    BY <2>1 DEF EndLine
  <2>4. CliType'
    <3>1. command' \in Seq(Letters) /\ Len(command') <= MaxCommand
      BY <2>2, Sizes
    <3>2. test' \in {CR, LF} /\ cmdRcvd' \in BOOLEAN
      BY <1>6, <2>1 DEF EndLine, RxInv, CliType
    <3>3. ran' \in Seq(Seq(Letters))
      BY <2>3, AppendProperties DEF RxInv, CliType
    <3> QED
      BY <2>2, <3>1, <3>2, <3>3 DEF CliType
  <2>5. CliContents'
    <3> SUFFICES ASSUME ~dropped
                 PROVE  (\E b \in 0 .. Done' : LineFrom(b)') /\ CommandsAreLines'
      BY <1>1 DEF CliContents, LineFrom
    <3>1. Done \in Nat /\ typed[Done + 1] = c /\ Done + 1 \in 1 .. Len(typed)
      BY <1>2, UnreadType, Sizes DEF RxInv, RxContents
    <3>2. \E b \in 0 .. Done' : LineFrom(b)'
      <4>1. PICK b \in Nat : b = Done + 1
        BY <3>1
      <4>2. b \in 0 .. Done' /\ typed'[b] \in {CR, LF} /\ Len(command') = Done' - b
            /\ 1 .. Len(command') = {}
        BY <1>1, <1>2, <1>6, <2>2, <3>1, <4>1
      <4>3. LineFrom(b)'
        BY <4>2 DEF LineFrom
      <4> QED
        BY <4>2, <4>3
    <3>3. \A x : IsLine(x)' <=> IsLine(x)
      BY <1>1 DEF IsLine
    <3>4. \A i \in DOMAIN ran : IsLine(ran[i])
      BY DEF RxInv, CliContents, CommandsAreLines
    <3>5. ~commandTooLong => IsLine(command)
      <4> SUFFICES ASSUME ~commandTooLong PROVE IsLine(command)
        OBVIOUS
      <4>1. PICK b \in 0 .. Done : LineFrom(b)
        BY DEF RxInv, CliContents
      <4>2. Len(command) = Done - b /\ \A i \in 1 .. Len(command) : command[i] = typed[b + i]
        BY <4>1 DEF LineFrom
      <4>3. command \in Seq(Letters) /\ typed \in Seq(Chars)
        BY DEF RxInv, CliType, RxContents
      <4>4. command = SubSeq(typed, b + 1, (Done + 1) - 1)
        BY <3>1, <4>2, <4>3, UnreadType
      <4>5. b + 1 \in 1 .. Len(typed) /\ b + 1 <= Done + 1
        BY <3>1, UnreadType
      <4>6. b + 1 = 1 \/ typed[(b + 1) - 1] \in {CR, LF}
        BY <3>1, <4>1 DEF LineFrom
      <4> QED
        BY <1>6, <3>1, <4>4, <4>5, <4>6 DEF IsLine
    <3>6. ASSUME NEW i \in DOMAIN ran' PROVE IsLine(ran'[i])
      <4>1. CASE ran' = ran
        BY <3>4, <3>6, <4>1
      <4>2. CASE ran' = Append(ran, command) /\ ~commandTooLong
        <5>1. /\ ran \in Seq(Seq(Letters)) /\ command \in Seq(Letters)
          BY DEF RxInv, CliType
        <5>2. /\ Len(ran) \in Nat /\ DOMAIN ran = 1 .. Len(ran)
              /\ DOMAIN ran' = 1 .. Len(ran) + 1
              /\ \A k \in 1 .. Len(ran) : ran'[k] = ran[k]
              /\ ran'[Len(ran) + 1] = command
          BY <4>2, <5>1, AppendProperties, LenProperties
        <5>3. i \in 1 .. Len(ran) \/ i = Len(ran) + 1
          BY <3>6, <5>2
        <5> QED
          BY <3>4, <3>5, <4>2, <5>2, <5>3
      <4> QED
        BY <2>3, <4>1, <4>2
    <3>7. CommandsAreLines'
      <4>1. ASSUME NEW i \in DOMAIN ran' PROVE IsLine(ran[i])'
        <5>1. IsLine(ran'[i])
          BY <3>6, <4>1
        <5> QED
          BY <1>1, <5>1 DEF IsLine
      <4> QED
        BY <4>1 DEF CommandsAreLines
    <3> QED
      BY <3>2, <3>7
  <2> QED
    BY <1>3, <1>5, <2>4, <2>5 DEF RxInv
<1>7. CASE c \notin {CR, LF}
  <2>1. StoreLetter(c) /\ c \in Letters
    BY <1>4, <1>7 DEF ReadData, Chars
  <2>2. /\ \/ /\ Len(command) < MaxCommand
              /\ command' = Append(command, c) /\ commandTooLong' = commandTooLong
           \/ commandTooLong' = TRUE /\ command' = command
        /\ UNCHANGED <<test, cmdRcvd, ran>>
    BY <2>1 DEF StoreLetter, TooLong
  <2>3. command \in Seq(Letters) /\ Len(command) \in Nat
    BY LenProperties DEF RxInv, CliType
  <2>4. CliType'
    <3>1. Len(command) <= MaxCommand /\ commandTooLong \in BOOLEAN
      BY DEF RxInv, CliType
    <3>2. command' \in Seq(Letters) /\ Len(command') <= MaxCommand /\ commandTooLong' \in BOOLEAN
      <4>1. Append(command, c) \in Seq(Letters) /\ Len(Append(command, c)) = Len(command) + 1
        BY <2>1, <2>3, AppendProperties
      <4>2. Len(command) < MaxCommand => Len(Append(command, c)) <= MaxCommand
        BY <2>3, <4>1, Sizes
      <4> QED
        BY <2>2, <2>3, <3>1, <4>1, <4>2
    <3> QED
      BY <2>2, <3>2 DEF RxInv, CliType
  <2>5. CASE dropped
    BY <1>1, <1>3, <1>5, <2>4, <2>5 DEF RxInv, CliContents
  <2>6. CASE ~dropped
    <3>1. Done \in Nat /\ typed[Done + 1] = c
      BY <1>2, <2>6 DEF RxInv, RxContents
    <3>2. PICK b \in 0 .. Done : LineFrom(b)
      BY <2>6 DEF RxInv, CliContents
    <3>3. b \in 0 .. Done' /\ (b = 0 \/ typed'[b] \in {CR, LF})
      BY <1>1, <1>2, <3>1, <3>2 DEF LineFrom
    <3>4. ~commandTooLong' => /\ Len(command') = Done' - b
                              /\ \A i \in 1 .. Len(command') : command'[i] = typed'[b + i]
      <4> SUFFICES ASSUME ~commandTooLong'
                   PROVE  /\ Len(command') = Done' - b
                          /\ \A i \in 1 .. Len(command') : command'[i] = typed[b + i]
        BY <1>1
      <4>1. /\ command' = Append(command, c) /\ ~commandTooLong
        BY <2>2
      <4>2. Len(command) = Done - b /\ \A i \in 1 .. Len(command) : command[i] = typed[b + i]
        BY <3>2, <4>1 DEF LineFrom
      <4>3. /\ Len(command') = Len(command) + 1 /\ command'[Len(command) + 1] = c
            /\ \A i \in 1 .. Len(command) : command'[i] = command[i]
        BY <2>1, <2>3, <4>1, AppendProperties
      <4>4. Len(command') = Done' - b
        BY <1>2, <3>1, <4>2, <4>3
      <4>5. b + (Len(command) + 1) = Done + 1
        BY <3>1, <4>2
      <4> QED
        BY <2>3, <3>1, <4>2, <4>3, <4>4, <4>5
    <3>5. LineFrom(b)'
      BY <3>3, <3>4 DEF LineFrom
    <3>6. CommandsAreLines'
      BY <1>1, <2>2, <2>6 DEF RxInv, CliContents, CommandsAreLines, IsLine
    <3> QED
      BY <1>3, <1>5, <2>4, <3>3, <3>5, <3>6 DEF RxInv, CliContents
  <2> QED
    BY <2>5, <2>6 DEF RxInv, RxType
<1> QED
  BY <1>6, <1>7

(* Everything else leaves what was typed and its reading alone.            *)
LEMMA OthersKeepRx ==
  RxInv /\ (TxIsr \/ CliTask \/ LoopEnds \/ WriteData \/ WriteHead \/ WriteCount \/ WriteEnable)
    => RxInv'
<1> SUFFICES ASSUME RxInv, TxIsr \/ CliTask \/ LoopEnds \/ WriteData \/ WriteHead \/ WriteCount
                           \/ WriteEnable
             PROVE  RxInv'
  OBVIOUS
<1>1. UNCHANGED <<receiver, command, commandTooLong, test, typed, dropped, ran>>
      /\ cmdRcvd' \in {FALSE, cmdRcvd}
  BY DEF TxIsr, CliTask, LoopEnds, WriteData, WriteHead, WriteCount, WriteEnable, cli, history
<1>2. PcType' /\ (pc' = pc \/ {pc, pc'} \cap {"readCount", "readData"} = {})
  BY DEF TxIsr, CliTask, LoopEnds, WriteData, WriteHead, WriteCount, WriteEnable, RxInv, PcType
<1>3. Unread' = Unread /\ InHand' = InHand
  BY <1>1, <1>2 DEF Unread, InHand, receiver
<1>4. cmdRcvd' \in BOOLEAN
  BY <1>1 DEF RxInv, CliType
<1> QED
  BY <1>1, <1>2, <1>3, <1>4, RxElsewhere

(* What is in hand and in the ring stays the end of what was typed.        *)
LEMMA RxStep == RxInv /\ [Next]_vars => RxInv'
<1> SUFFICES ASSUME RxInv, [Next]_vars PROVE RxInv'
  OBVIOUS
<1>1. CASE UNCHANGED vars
  <2>1. UNCHANGED <<receiver, pc, command, commandTooLong, test, cmdRcvd, typed, dropped, ran>>
    BY <1>1 DEF vars, cli, history
  <2>2. Unread' = Unread /\ InHand' = InHand /\ PcType' /\ cmdRcvd' \in BOOLEAN
    BY <2>1 DEF Unread, InHand, receiver, RxInv, PcType, CliType
  <2> QED
    BY <2>1, <2>2, RxElsewhere
<1> QED
  BY <1>1, RxIsrKeeps, ReadKeeps, ReadDataKeeps, OthersKeepRx DEF Next, Main

(* CLI_task: as long as no character was lost for want of room, every      *)
(* command it has run was typed as a line of its own, for any size of the  *)
(* ring and of a command.                                                  *)
THEOREM CommandsAreLinesHold == Spec => []CommandsAreLines
<1>1. RxInv => CommandsAreLines
  BY DEF RxInv, CliContents, CommandsAreLines
<1> QED
  BY <1>1, RxInit, RxStep, PTL DEF Spec

(* Every variable of the serial port and of the command line has its type: *)
(* the indices stay in their rings, the counts never exceed the sizes nor  *)
(* fall below zero, and a command fits its buffer.                         *)
THEOREM TypeCorrect == Spec => []TypeOK
<1>1. TxInv /\ RxInv => TypeOK
  BY DEF TxInv, MainType, TxType, RxInv, RxType, CliType, TypeOK
<1> QED
  BY <1>1, TxInit, TxStep, RxInit, RxStep, PTL DEF Spec
=============================================================================
