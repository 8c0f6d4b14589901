---------------------------- MODULE SerialConsole ----------------------------
(***************************************************************************)
(* The serial port (usart2.c) with its two ring buffers, which interrupts  *)
(* share with main code, and the command line (cli.c), which reads lines   *)
(* from one and answers into the other.  Main code is cut wherever an      *)
(* interrupt can fall between two accesses to what they share.             *)
(***************************************************************************)
EXTENDS Integers, Sequences, SequencesExt

CONSTANTS
  Letters,        \* characters other than the two below
  CR, LF,
  RxSize, TxSize, \* USART2_RX_BUFFER_SIZE, USART2_TX_BUFFER_SIZE
  MaxCommand,     \* MAX_COMMAND_SIZE
  ReplyLength,    \* bound: characters of an answer
  MaxTyped        \* bound: characters that come in

Chars == Letters \union {CR, LF}

ASSUME ConsoleAssumption ==
  /\ CR \notin Letters /\ LF \notin Letters /\ CR # LF
  /\ {RxSize, TxSize, MaxCommand, ReplyLength, MaxTyped} \subseteq Nat \ {0}

VARIABLES
  rxbuf, rxHead, rxTail, rxElements,   \* USART2_rx_...
  txbuf, txHead, txTail, txElements,   \* USART2_tx_...
  dreIE,                               \* the data register empty interrupt is on
  pc,                                  \* where main code stands
  reply,                               \* what it has still to write
  command, commandTooLong, test,       \* of cli.c; test is the last end of line
  cmdRcvd,                             \* of CLI_task: this run has had its command
  typed, dropped, ran, written, sent   \* for the properties

receiver == <<rxbuf, rxHead, rxTail, rxElements>>
transmitter == <<txbuf, txHead, txTail, txElements>>
cli == <<command, commandTooLong, test, cmdRcvd>>
history == <<typed, dropped, ran, written, sent>>
vars == <<receiver, transmitter, dreIE, pc, reply, cli, history>>

Following(i, size) == (i + 1) % size

----------------------------------------------------------------------------
(* The interrupts.                                                         *)

(* Fault: the oldest byte is overwritten.                                  *)
NoRoomNever == FALSE

(* One place of the receive buffer stays empty.                            *)
NoRoom == Following(rxHead, RxSize) = rxTail

(* USART2_DefaultRxIsrCb: a character that finds no room is lost.          *)
RxIsr ==
  /\ Len(typed) < MaxTyped
  /\ \E c \in Chars :
       /\ typed' = Append(typed, c)
       /\ IF NoRoom
            THEN dropped' = TRUE /\ UNCHANGED receiver
            ELSE /\ rxHead' = Following(rxHead, RxSize)
                 /\ rxbuf' = [rxbuf EXCEPT ![rxHead'] = c]
                 /\ rxElements' = rxElements + 1
                 /\ UNCHANGED <<rxTail, dropped>>
  /\ UNCHANGED <<transmitter, dreIE, pc, reply, cli, ran, written, sent>>

(* Fault: off with one byte still to go.                                   *)
StaysOnLess(n) == n > 1

StaysOn(n) == n # 0

(* USART2_DefaultTxIsrCb, when the transmitter can take a byte.            *)
TxIsr ==
  /\ dreIE
  /\ IF txElements # 0
       THEN /\ txTail' = Following(txTail, TxSize)
            /\ sent' = Append(sent, txbuf[txTail'])
            /\ txElements' = txElements - 1
       ELSE UNCHANGED <<txTail, sent, txElements>>
  /\ dreIE' = StaysOn(txElements')
  /\ UNCHANGED <<receiver, txbuf, txHead, pc, reply, cli, typed, dropped, ran, written>>

----------------------------------------------------------------------------
(* CLI_task and, step by step, USART2_Read and USART2_Write.               *)

CliTask ==
  /\ pc = "idle" /\ pc' = "loop" /\ cmdRcvd' = FALSE
  /\ UNCHANGED <<receiver, transmitter, dreIE, reply, command, commandTooLong, test, history>>

LoopEnds ==
  /\ pc = "loop" /\ rxElements = 0 /\ pc' = "idle"
  /\ UNCHANGED <<receiver, transmitter, dreIE, reply, cli, history>>

ReadTail ==
  /\ pc = "loop" /\ rxElements # 0 /\ pc' = "readCount"
  /\ rxTail' = Following(rxTail, RxSize)
  /\ UNCHANGED <<rxbuf, rxHead, rxElements, transmitter, dreIE, reply, cli, history>>

ReadCount ==
  /\ pc = "readCount" /\ pc' = "readData"
  /\ rxElements' = rxElements - 1
  /\ UNCHANGED <<rxbuf, rxHead, rxTail, transmitter, dreIE, reply, cli, history>>

(* The LF of a CR LF is no line's end; a letter leaves test as it is.      *)
EndOfLine(c) == ~(c = LF /\ test = CR)

Answer == [i \in 1 .. ReplyLength |-> i]

(* Fault: what does not fit is left out and nobody is told.                *)
TooLongNever == FALSE

TooLong == TRUE

StoreLetter(c) ==
  /\ IF Len(command) < MaxCommand
       THEN command' = Append(command, c) /\ UNCHANGED commandTooLong
       ELSE commandTooLong' = TooLong /\ UNCHANGED command
  /\ UNCHANGED <<test, cmdRcvd, ran>> /\ reply' = <<>>

(* A line that is too long is reported without a look at its end; of the   *)
(* others one is run in each run of the task.                              *)
EndLine(c) ==
  /\ command' = <<>> /\ commandTooLong' = FALSE
  /\ IF commandTooLong
       THEN reply' = Answer /\ UNCHANGED <<test, cmdRcvd, ran>>
       ELSE /\ test' = c
            /\ IF EndOfLine(c) /\ ~cmdRcvd
                 THEN reply' = Answer /\ cmdRcvd' = TRUE /\ ran' = Append(ran, command)
                 ELSE reply' = <<>> /\ UNCHANGED <<cmdRcvd, ran>>

ReadData ==
  /\ pc = "readData"
  /\ IF rxbuf[rxTail] \in {CR, LF} THEN EndLine(rxbuf[rxTail]) ELSE StoreLetter(rxbuf[rxTail])
  /\ pc' = IF reply' = <<>> THEN "loop" ELSE "write"
  /\ UNCHANGED <<receiver, transmitter, dreIE, typed, dropped, written, sent>>

(* Fault: the room is not waited for.                                      *)
FullNever == FALSE

Full == txElements = TxSize

WriteData ==
  /\ pc = "write" /\ ~Full /\ pc' = "writeHead"
  /\ txbuf' = [txbuf EXCEPT ![Following(txHead, TxSize)] = Head(reply)]
  /\ written' = Append(written, Head(reply)) /\ reply' = Tail(reply)
  /\ UNCHANGED <<receiver, txHead, txTail, txElements, dreIE, cli, typed, dropped, ran, sent>>

WriteHead ==
  /\ pc = "writeHead" /\ pc' = "writeCount"
  /\ txHead' = Following(txHead, TxSize)
  /\ UNCHANGED <<receiver, txbuf, txTail, txElements, dreIE, reply, cli, history>>

WriteCount ==
  /\ pc = "writeCount" /\ pc' = "writeEnable"
  /\ txElements' = txElements + 1
  /\ UNCHANGED <<receiver, txbuf, txHead, txTail, dreIE, reply, cli, history>>

WriteEnable ==
  /\ pc = "writeEnable" /\ pc' = IF reply = <<>> THEN "loop" ELSE "write"
  /\ dreIE' = TRUE
  /\ UNCHANGED <<receiver, transmitter, reply, cli, history>>

Init ==
  /\ rxbuf = [i \in 0 .. RxSize - 1 |-> CR] /\ rxHead = 0 /\ rxTail = 0 /\ rxElements = 0
  /\ txbuf = [i \in 0 .. TxSize - 1 |-> 0] /\ txHead = 0 /\ txTail = 0 /\ txElements = 0
  /\ dreIE = FALSE /\ pc = "idle" /\ reply = <<>>
  /\ command = <<>> /\ commandTooLong = FALSE /\ test = LF /\ cmdRcvd = FALSE
  /\ typed = <<>> /\ dropped = FALSE /\ ran = <<>> /\ written = <<>> /\ sent = <<>>

Main ==
  \/ CliTask \/ LoopEnds \/ ReadTail \/ ReadCount \/ ReadData
  \/ WriteData \/ WriteHead \/ WriteCount \/ WriteEnable

Next == RxIsr \/ TxIsr \/ Main

Spec == Init /\ [][Next]_vars

(* The timer of CLI_task comes round, and the transmitter sends.           *)
Fairness == WF_vars(Main) /\ WF_vars(TxIsr)

FairSpec == Spec /\ Fairness

----------------------------------------------------------------------------
(* Properties.                                                             *)

TypeOK ==
  /\ rxbuf \in [0 .. RxSize - 1 -> Chars] /\ txbuf \in [0 .. TxSize - 1 -> 0 .. ReplyLength]
  /\ {rxHead, rxTail} \subseteq 0 .. RxSize - 1 /\ {txHead, txTail} \subseteq 0 .. TxSize - 1
  /\ rxElements \in 0 .. RxSize /\ txElements \in 0 .. TxSize
  /\ {dreIE, commandTooLong, cmdRcvd, dropped} \subseteq BOOLEAN
  /\ pc \in {"idle", "loop", "readCount", "readData", "write", "writeHead", "writeCount",
             "writeEnable"}
  /\ command \in Seq(Letters) /\ Len(command) <= MaxCommand /\ test \in {CR, LF}
  /\ Len(reply) <= ReplyLength

(* s is a line of what was typed: all that is between two ends of line.    *)
IsLine(s) ==
  \E i, j \in 1 .. Len(typed) :
    /\ typed[j] \in {CR, LF} /\ i <= j /\ s = SubSeq(typed, i, j - 1)
    /\ i = 1 \/ typed[i - 1] \in {CR, LF}

(* A command that is run was typed as a line of its own: no piece of a     *)
(* longer line is run, and nothing is put together of two.                 *)
CommandsAreLines == ~dropped => \A i \in DOMAIN ran : IsLine(ran[i])

(* What goes out is what was written, each character once.                 *)
OutputInOrder == IsPrefix(sent, written)

(* ... and all of it does.                                                 *)
AllGoesOut == []<>(sent = written)
=============================================================================
