------------------------- MODULE CloudServiceProofs -------------------------
(***************************************************************************)
(* Proofs about MqttClient and CloudService.  The client alone, for all    *)
(* sets of requests and any number of packets in a segment: who may have   *)
(* been asked, which answer is awaited and watched, when it is connected.  *)
(* Then the service: the bits of cloudStatus agree with the watchdogs that *)
(* run, hence a client that is not connected is always looked after and by *)
(* one watchdog only; and the supervised client is the client of           *)
(* MqttClient, which no reset finds connected.                             *)
(***************************************************************************)
EXTENDS CloudService, TLAPS

----------------------------------------------------------------------------
(* The client alone.                                                       *)

(* What the properties need to be inductive: who can have been asked, and  *)
(* how the client's state, the socket and the CONNACK hang together.       *)
Broker == unanswered \subseteq asked \ {"publish"}

(* A client past its CONNECT sits on no half-open socket, on an open one   *)
(* it has sent its CONNECT, and a CONNACK in the buffer answers that.      *)
Handshake ==
  /\ mqttState \in {"WAITFORCONNACK", "CONNECTED"} =>
       /\ socketState # "in_progress"
       /\ socketState = "connected" => "connect" \in asked
  /\ mqttState = "WAITFORCONNACK" /\ socketState = "connected" =>
       \A i \in 1 .. Len(rxbuff) : rxbuff[i] = "connack" => "connect" \notin unanswered
  /\ mqttState = "CONNECTED" /\ socketState = "connected" => "connect" \notin unanswered

UnknownInv == mqttState = "UNKNOWN" => socketState = "closed"

USE DEF client, socket, broker, vars

(* Each request has a response flag of its own kind.                       *)
LEMMA AckType == \A r \in Requests \cup {"pingreq"} : AckOf(r) \in Awaits
BY MqttAssumption DEF AckOf, Awaits

(* What a receive request brings is a sequence of packets.                 *)
LEMMA SegmentType ==
  ASSUME NEW segment \in Segments, unanswered \subseteq Sends
  PROVE  segment \in Seq(Packets)
<1> DEFINE packets == {"publish"} \cup UNION {Replies(r) : r \in unanswered}
<1>1. packets \subseteq Packets
  BY DEF Replies, Packets
<1>2. PICK n \in 1 .. MaxSegment : segment \in [1 .. n -> packets]
  BY DEF Segments
<1>3. n \in Nat
  BY MqttAssumption
<1> QED
  BY <1>1, <1>2, <1>3

(* An emptied receive buffer is a sequence of packets.                     *)
LEMMA DropType == DropReceived => rxbuff' \in Seq(Packets)
BY DEF DropReceived

(* TypeOK holds in every reachable state.                                  *)
THEOREM TypeCorrect == Spec => []TypeOK
<1>1. Init => TypeOK
  <2>1. Init => rxbuff \in Seq(Packets)
    BY DEF Init
  <2>2. Init => /\ mqttState \in States
                /\ socketState \in {"closed", "in_progress", "connected"}
                /\ task \in {"idle", "transmit", "after"}
                /\ recvPending \in BOOLEAN /\ sendSubscribe \in BOOLEAN
                /\ haveAP \in BOOLEAN
    BY DEF Init, States
  <2>3. Init => /\ txFlags \subseteq Sends /\ rxFlags \subseteq Awaits
                /\ timedOut \subseteq Clocks /\ timers \subseteq Clocks
                /\ asked \subseteq Sends /\ unanswered \subseteq asked
    BY DEF Init
  <2> QED
    BY <2>1, <2>2, <2>3 DEF TypeOK
<1>2. TypeOK /\ [Next]_vars => TypeOK'
  <2> SUFFICES ASSUME TypeOK, [Next]_vars PROVE TypeOK'
    OBVIOUS
  <2> USE DEF TypeOK, States, Sends, Awaits, Clocks
  <2>1. CASE LostWifi
    BY <2>1 DEF LostWifi
  <2>2. CASE OpenSocket
    BY <2>2, DropType DEF OpenSocket
  <2>3. CASE ConnectAppProtocol
    BY <2>3 DEF ConnectAppProtocol
  <2>4. CASE ReceptionHandler
    <3> USE DEF Receive, ReceiveIn, Quiet
    <3>1. CASE ReceiveOverdue
      BY <3>1 DEF ReceiveOverdue, CloseSocket
    <3>2. CASE ReceiveNothing
      BY <3>2 DEF ReceiveNothing
    <3>3. CASE ReceiveConnack
      BY <3>3 DEF ReceiveConnack, Reloaded
    <3>4. CASE ReceiveRefusal
      BY <3>4 DEF ReceiveRefusal
    <3>5. CASE ReceiveIncorrect
      BY <3>5 DEF ReceiveIncorrect, CloseSocket
    <3>6. CASE ReceivePingresp
      BY <3>6, DropType DEF ReceivePingresp, Reloaded
    <3>7. CASE ReceivePublish
      BY <3>7, DropType DEF ReceivePublish
    <3>8. CASE ReceiveUnexpected
      BY <3>8 DEF ReceiveUnexpected
    <3>9. ASSUME NEW r \in Requests, ReceiveAck(r) PROVE TypeOK'
      BY <3>9, DropType DEF ReceiveAck
    <3> QED
      BY <2>4, <3>1, <3>2, <3>3, <3>4, <3>5, <3>6, <3>7, <3>8, <3>9
      DEF ReceptionHandler
  <2>5. CASE TransmissionHandler
    <3> USE DEF Transmit, Connected, NotSent, Sent
    <3>1. CASE TransmitConnect
      BY <3>1, DropType DEF TransmitConnect
    <3>2. CASE TransmitPublish
      BY <3>2, DropType DEF TransmitPublish
    <3>3. CASE TransmitPingreq
      BY <3>3, DropType DEF TransmitPingreq, Watched
    <3>4. CASE TransmitNothing
      BY <3>4 DEF TransmitNothing
    <3>5. ASSUME NEW r \in Requests, TransmitRequest(r) PROVE TypeOK'
      BY <3>5, AckType, DropType DEF TransmitRequest, Watched
    <3> QED
      BY <2>5, <3>1, <3>2, <3>3, <3>4, <3>5 DEF TransmissionHandler
  <2>6. CASE FinishTask
    BY <2>6, MqttAssumption DEF FinishTask
  <2>7. CASE FinishAged
    BY <2>7, MqttAssumption, DropType DEF FinishAged, CloseSocket
  <2>8. ASSUME NEW c \in Clocks, TimerFires(c) PROVE TypeOK'
    BY <2>8 DEF TimerFires
  <2>9. CASE Publish \/ Unsubscribe
    BY <2>9 DEF Publish, Unsubscribe
  <2>10. CASE SocketConnects
    BY <2>10 DEF SocketConnects
  <2>11. CASE SocketReceives
    BY <2>11, SegmentType DEF SocketReceives
  <2>12. CASE SocketFails \/ ReInit
    BY <2>12, DropType DEF SocketFails, ReInit, StartOver, CloseSocket
  <2>13. CASE Wifi
    BY <2>13 DEF Wifi
  <2>14. CASE UNCHANGED vars
    BY <2>14
  <2> QED
    BY <2>1, <2>2, <2>3, <2>4, <2>5, <2>6, <2>7, <2>8, <2>9, <2>10, <2>11,
       <2>12, <2>13, <2>14 DEF Next, CloudTask, Callbacks
<1> QED
  BY <1>1, <1>2, PTL DEF Spec

----------------------------------------------------------------------------
(* One request of a kind is under way at most.                             *)
THEOREM OneOutstandingHolds == Spec => []OneOutstanding
<1>1. Init => OneOutstanding
  BY DEF Init, OneOutstanding
<1>2. TypeOK /\ OneOutstanding /\ [Next]_vars => OneOutstanding'
  <2> SUFFICES ASSUME OneOutstanding, [Next]_vars PROVE OneOutstanding'
    OBVIOUS
  <2> USE MqttAssumption DEF OneOutstanding, AckOf
  <2>1. CASE UNCHANGED <<txFlags, rxFlags>>
    BY <2>1
  <2>2. CASE ConnectAppProtocol
    BY <2>2 DEF ConnectAppProtocol
  <2>3. CASE ReceiveConnack
    BY <2>3 DEF ReceiveConnack, Reloaded
  <2>4. CASE ReceivePingresp
    BY <2>4 DEF ReceivePingresp, Reloaded
  <2>5. ASSUME NEW r \in Requests, ReceiveAck(r) PROVE OneOutstanding'
    BY <2>5 DEF ReceiveAck
  <2>6. CASE TransmitConnect
    BY <2>6 DEF TransmitConnect
  <2>7. CASE TransmitPublish
    BY <2>7 DEF TransmitPublish
  <2>8. CASE TransmitPingreq
    BY <2>8 DEF TransmitPingreq
  <2>9. ASSUME NEW r \in Requests, TransmitRequest(r) PROVE OneOutstanding'
    BY <2>9 DEF TransmitRequest
  <2>10. CASE FinishTask
    BY <2>10 DEF FinishTask, Subscribing, MayCreate
  <2>11. CASE FinishAged
    BY <2>11 DEF FinishAged, Subscribing, MayCreate
  <2>12. CASE Publish
    BY <2>12 DEF Publish
  <2>13. CASE Unsubscribe
    BY <2>13 DEF Unsubscribe, MayCreate
  <2> QED
    BY <2>1, <2>2, <2>3, <2>4, <2>5, <2>6, <2>7, <2>8, <2>9, <2>10, <2>11,
       <2>12, <2>13
    DEF Next, CloudTask, Callbacks, ReceptionHandler, TransmissionHandler,
        LostWifi, OpenSocket, ReceiveOverdue, ReceiveNothing, ReceiveRefusal,
        ReceiveIncorrect, ReceivePublish, ReceiveUnexpected, TransmitNothing,
        TimerFires, SocketConnects, SocketReceives, SocketFails, ReInit, StartOver, Wifi
<1> QED
  BY <1>1, <1>2, TypeCorrect, PTL DEF Spec

(* Whatever is awaited has its timer running or is overdue.                *)
THEOREM AwaitedIsWatchedHolds == Spec => []AwaitedIsWatched
<1>1. Init => AwaitedIsWatched
  BY DEF Init, AwaitedIsWatched
<1>2. TypeOK /\ AwaitedIsWatched /\ [Next]_vars => AwaitedIsWatched'
  <2> SUFFICES ASSUME TypeOK, AwaitedIsWatched, [Next]_vars
               PROVE  AwaitedIsWatched'
    OBVIOUS
  <2>0. rxFlags \subseteq Awaits
    BY DEF TypeOK
  <2> USE <2>0 DEF AwaitedIsWatched, Awaits
  <2>1. CASE UNCHANGED <<rxFlags, timedOut, timers>>
    BY <2>1
  <2>2. CASE ReceiveConnack
    BY <2>2 DEF ReceiveConnack
  <2>3. CASE ReceiveRefusal \/ ReceiveIncorrect
    BY <2>3 DEF ReceiveRefusal, ReceiveIncorrect
  <2>4. CASE ReceivePingresp
    BY <2>4 DEF ReceivePingresp
  <2>5. ASSUME NEW r \in Requests, ReceiveAck(r) PROVE AwaitedIsWatched'
    BY <2>5 DEF ReceiveAck
  <2>6. CASE TransmitConnect
    BY <2>6 DEF TransmitConnect
  <2>7. CASE TransmitPublish
    BY <2>7 DEF TransmitPublish
  <2>8. CASE TransmitPingreq
    BY <2>8 DEF TransmitPingreq, Watched
  <2>9. ASSUME NEW r \in Requests, TransmitRequest(r) PROVE AwaitedIsWatched'
    BY <2>9 DEF TransmitRequest, Watched
  <2>10. CASE FinishAged
    BY <2>10 DEF FinishAged
  <2>11. ASSUME NEW c \in Clocks, TimerFires(c) PROVE AwaitedIsWatched'
    BY <2>11 DEF TimerFires
  <2> QED
    BY <2>1, <2>2, <2>3, <2>4, <2>5, <2>6, <2>7, <2>8, <2>9, <2>10, <2>11
    DEF Next, CloudTask, Callbacks, ReceptionHandler, TransmissionHandler,
        LostWifi, OpenSocket, ConnectAppProtocol, ReceiveOverdue,
        ReceiveNothing, ReceivePublish, ReceiveUnexpected, TransmitNothing,
        FinishTask, Publish, Unsubscribe, SocketConnects, SocketReceives,
        SocketFails, ReInit, StartOver, Wifi
<1> QED
  BY <1>1, <1>2, TypeCorrect, PTL DEF Spec

(* A connection that is up keeps its keep-alive going.                     *)
THEOREM KeepAliveGoesHolds == Spec => []KeepAliveGoes
<1>1. Init => KeepAliveGoes
  BY DEF Init, KeepAliveGoes
<1>2. KeepAliveGoes /\ [Next]_vars => KeepAliveGoes'
  <2> SUFFICES ASSUME KeepAliveGoes, [Next]_vars PROVE KeepAliveGoes'
    OBVIOUS
  <2> USE DEF KeepAliveGoes
  <2>1. CASE UNCHANGED <<mqttState, txFlags, rxFlags, timers>>
    BY <2>1
  <2>2. CASE mqttState' # "CONNECTED"
    BY <2>2
  <2>3. CASE ReceiveConnack
    BY <2>3 DEF ReceiveConnack, Reloaded
  <2>4. CASE ReceivePingresp
    BY <2>4 DEF ReceivePingresp, Reloaded
  <2>5. ASSUME NEW r \in Requests, ReceiveAck(r) PROVE KeepAliveGoes'
    BY <2>5, MqttAssumption DEF ReceiveAck, ReceiveIn, AckOf
  <2>6. CASE TransmitConnect
    BY <2>6 DEF TransmitConnect
  <2>7. CASE TransmitPublish
    BY <2>7 DEF TransmitPublish
  <2>8. CASE TransmitPingreq
    BY <2>8 DEF TransmitPingreq, Watched
  <2>9. ASSUME NEW r \in Requests, TransmitRequest(r) PROVE KeepAliveGoes'
    BY <2>9, MqttAssumption DEF TransmitRequest, Watched
  <2>10. CASE FinishTask
    BY <2>10 DEF FinishTask
  <2>11. ASSUME NEW c \in Clocks, TimerFires(c) PROVE KeepAliveGoes'
    BY <2>11 DEF TimerFires
  <2>12. CASE Publish \/ Unsubscribe
    BY <2>12 DEF Publish, Unsubscribe
  <2> QED
    BY <2>1, <2>2, <2>3, <2>4, <2>5, <2>6, <2>7, <2>8, <2>9, <2>10, <2>11,
       <2>12
    DEF Next, CloudTask, Callbacks, ReceptionHandler, TransmissionHandler,
        LostWifi, OpenSocket, ConnectAppProtocol, ReceiveOverdue,
        ReceiveNothing, ReceiveRefusal, ReceiveIncorrect, ReceivePublish,
        ReceiveUnexpected, TransmitNothing, FinishAged, SocketConnects,
        SocketReceives, SocketFails, ReInit, StartOver, Wifi
<1> QED
  BY <1>1, <1>2, PTL DEF Spec

(* The unknown state is met on a closed socket only: strengthened from     *)
(* "not connected" to "closed", for a socket in progress may come up.      *)
THEOREM UnknownIsClosedHolds == Spec => []UnknownIsClosed
<1>1. Init => UnknownInv
  BY DEF Init, UnknownInv
<1>2. UnknownInv /\ [Next]_vars => UnknownInv'
  <2> SUFFICES ASSUME UnknownInv, [Next]_vars PROVE UnknownInv'
    OBVIOUS
  <2> USE DEF UnknownInv
  <2>1. CASE UNCHANGED <<mqttState, socketState>>
    BY <2>1
  <2>2. CASE mqttState' # "UNKNOWN" \/ socketState' = "closed"
    BY <2>2
  <2>3. CASE TransmitConnect \/ TransmitPublish \/ TransmitPingreq
    BY <2>3 DEF TransmitConnect, TransmitPublish, TransmitPingreq, Connected, Transmit
  <2>4. ASSUME NEW r \in Requests, TransmitRequest(r) \/ ReceiveAck(r)
        PROVE  UnknownInv'
    BY <2>4 DEF TransmitRequest, Connected, Transmit, ReceiveAck
  <2>5. CASE SocketConnects \/ SocketReceives
    BY <2>5 DEF SocketConnects, SocketReceives
  <2>6. ASSUME NEW c \in Clocks, TimerFires(c) PROVE UnknownInv'
    BY <2>6 DEF TimerFires
  <2>7. CASE ConnectAppProtocol \/ ReceiveNothing \/ ReceivePublish \/ ReceivePingresp
    BY <2>7 DEF ConnectAppProtocol, ReceiveNothing, ReceivePublish, ReceivePingresp,
                Quiet
  <2> QED
    BY <2>1, <2>2, <2>3, <2>4, <2>5, <2>6, <2>7
    DEF Next, CloudTask, Callbacks, ReceptionHandler, TransmissionHandler,
        LostWifi, OpenSocket, ReceiveOverdue, ReceiveConnack, ReceiveRefusal,
        ReceiveIncorrect, ReceiveUnexpected, TransmitNothing, Transmit, Quiet,
        FinishTask, FinishAged, Publish, Unsubscribe, SocketFails, ReInit, StartOver, Wifi,
        CloseSocket
<1>3. UnknownInv => UnknownIsClosed
  BY DEF UnknownInv, UnknownIsClosed
<1> QED
  BY <1>1, <1>2, <1>3, PTL DEF Spec

----------------------------------------------------------------------------
(* Never connected on the CONNACK of another connection.                   *)

(* A CONNACK among the packets that come in answers the CONNECT.           *)
LEMMA ConnackAnswers ==
  ASSUME Broker, asked \subseteq Sends, SocketReceives,
         NEW i \in 1 .. Len(rxbuff'), rxbuff'[i] = "connack"
  PROVE  "connect" \notin unanswered'
<1>1. rxbuff' \in Segments
  BY DEF SocketReceives
<1> DEFINE packets == {"publish"} \cup UNION {Replies(r) : r \in unanswered}
<1>2. PICK n \in 1 .. MaxSegment : rxbuff' \in [1 .. n -> packets]
  BY <1>1 DEF Segments
<1>3. i \in DOMAIN rxbuff'
  <2>1. n \in Nat
    BY MqttAssumption
  <2>2. rxbuff' \in Seq(packets)
    BY <2>1, <1>2
  <2> QED
    BY <2>2
<1>4. "connack" \in Replies("connect")
  BY DEF Replies
<1>5. unanswered' = {r \in unanswered : \A j \in DOMAIN rxbuff' : rxbuff'[j] \notin Replies(r)}
  BY DEF SocketReceives
<1> QED
  BY <1>3, <1>4, <1>5

(* mqttState is CONNECTED on an open socket only if the CONNECT of this    *)
(* very connection was sent and answered: Handshake is inductive.          *)
THEOREM OnlineIsAcceptedHolds == Spec => []OnlineIsAccepted
<1>1. Init => Handshake
  BY DEF Init, Handshake
<1>2. TypeOK /\ Broker /\ Handshake /\ [Next]_vars => Handshake'
  <2> SUFFICES ASSUME TypeOK, Broker, Handshake, [Next]_vars PROVE Handshake'
    OBVIOUS
  <2> USE DEF Handshake
  <2>1. CASE UNCHANGED <<mqttState, socketState, asked, unanswered, rxbuff>>
    BY <2>1
  <2>2. CASE mqttState' \notin {"WAITFORCONNACK", "CONNECTED"}
    BY <2>2
  <2>3. CASE socketState' = "closed" /\ mqttState' = mqttState
    BY <2>3
  <2>4. CASE ReceiveConnack
    <3>1. socketState = "connected" /\ mqttState = "WAITFORCONNACK"
      BY <2>4 DEF ReceiveConnack, ReceiveIn, Receive
    <3>2. 1 \in 1 .. Len(rxbuff) /\ rxbuff[1] = "connack"
      BY <2>4 DEF ReceiveConnack, ReceiveIn, TypeOK
    <3> QED
      BY <2>4, <3>1, <3>2 DEF ReceiveConnack, Quiet
  <2>5. CASE ReceivePingresp \/ ReceivePublish
    BY <2>5 DEF ReceivePingresp, ReceivePublish, ReceiveIn, Quiet
  <2>6. ASSUME NEW r \in Requests, ReceiveAck(r) PROVE Handshake'
    BY <2>6 DEF ReceiveAck, ReceiveIn, Quiet
  <2>7. CASE TransmitConnect
    BY <2>7 DEF TransmitConnect, Transmit, Sent, NotSent, DropReceived
  <2>8. CASE TransmitPublish
    BY <2>8 DEF TransmitPublish, Connected, Transmit, Sent, NotSent
  <2>9. CASE TransmitPingreq
    BY <2>9 DEF TransmitPingreq, Connected, Transmit, Sent, NotSent
  <2>10. ASSUME NEW r \in Requests, TransmitRequest(r) PROVE Handshake'
    BY <2>10, MqttAssumption
    DEF TransmitRequest, Connected, Transmit, Sent, NotSent
  <2>11. CASE SocketConnects
    BY <2>11 DEF SocketConnects
  <2>12. CASE SocketReceives
    <3>1. \A i \in 1 .. Len(rxbuff') : rxbuff'[i] = "connack" => "connect" \notin unanswered'
      BY <2>12, ConnackAnswers DEF TypeOK
    <3>2. unanswered' \subseteq unanswered
      BY <2>12 DEF SocketReceives
    <3> QED
      BY <2>12, <3>1, <3>2 DEF SocketReceives
  <2>13. CASE ConnectAppProtocol
    BY <2>13 DEF ConnectAppProtocol
  <2>14. ASSUME NEW c \in Clocks, TimerFires(c) PROVE Handshake'
    BY <2>14 DEF TimerFires
  <2> QED
    BY <2>1, <2>2, <2>3, <2>4, <2>5, <2>6, <2>7, <2>8, <2>9, <2>10, <2>11,
       <2>12, <2>13, <2>14
    DEF Next, CloudTask, Callbacks, ReceptionHandler, TransmissionHandler,
        LostWifi, OpenSocket, ReceiveOverdue, ReceiveNothing, ReceiveRefusal,
        ReceiveIncorrect, ReceiveUnexpected, TransmitNothing, Transmit, Quiet,
        FinishTask, FinishAged, Publish, Unsubscribe, SocketFails, ReInit, StartOver, Wifi,
        CloseSocket
<1>3. Init => Broker
  BY DEF Init, Broker
<1>4. Broker /\ [Next]_vars => Broker'
  <2> SUFFICES ASSUME Broker, [Next]_vars PROVE Broker'
    OBVIOUS
  <2> USE DEF Broker
  <2>1. CASE UNCHANGED <<asked, unanswered>> \/ CloseSocket
    BY <2>1 DEF CloseSocket
  <2>2. ASSUME NEW p, Sent(p) PROVE Broker'
    BY <2>2 DEF Sent
  <2>3. CASE SocketReceives
    BY <2>3 DEF SocketReceives
  <2>4. CASE TransmitConnect \/ TransmitPublish \/ TransmitPingreq
    BY <2>1, <2>2, <2>4 DEF TransmitConnect, TransmitPublish, TransmitPingreq, NotSent
  <2>5. ASSUME NEW r \in Requests, TransmitRequest(r) \/ ReceiveAck(r) PROVE Broker'
    BY <2>1, <2>2, <2>5 DEF TransmitRequest, NotSent, ReceiveAck, Quiet
  <2>6. ASSUME NEW c \in Clocks, TimerFires(c) PROVE Broker'
    BY <2>6 DEF TimerFires
  <2> QED
    BY <2>1, <2>3, <2>4, <2>5, <2>6
    DEF Next, CloudTask, Callbacks, ReceptionHandler, TransmissionHandler,
        LostWifi, OpenSocket, ConnectAppProtocol, ReceiveOverdue,
        ReceiveNothing, ReceiveConnack, ReceiveRefusal, ReceiveIncorrect,
        ReceivePingresp, ReceivePublish, ReceiveUnexpected, TransmitNothing,
        Quiet, FinishTask, FinishAged, Publish, Unsubscribe, SocketConnects,
        SocketFails, ReInit, StartOver, Wifi
<1>5. Handshake => OnlineIsAccepted
  BY DEF Handshake, OnlineIsAccepted
<1> QED
  BY <1>1, <1>2, <1>3, <1>4, <1>5, TypeCorrect, PTL DEF Spec

----------------------------------------------------------------------------
(* The service.                                                            *)

HIDE DEF client, socket, broker, vars

(* What cloudTask and the two watchdogs keep true of cloudStatus: each bit *)
(* says which timer runs, at most one does, and a service that has been    *)
(* initialised has no reset due.                                           *)
Bookkeeping ==
  /\ isResetting <=> "cloudReset" \in watch
  /\ waitingForMQTT <=> "mqttTimeout" \in watch
  /\ waitingForMQTT => cloudInitialized /\ ~isResetting
  /\ isResetting => cloudResetTimerFlag
  /\ cloudInitialized => ~cloudResetTimerFlag

StatusType ==
  /\ cloudInitialized \in BOOLEAN /\ isResetting \in BOOLEAN
  /\ waitingForMQTT \in BOOLEAN /\ cloudResetTimerFlag \in BOOLEAN

(* CLOUD_init has not run yet: every bit is clear and no watchdog runs.    *)
LEMMA BookkeepingInit == ServiceInit => StatusType /\ Bookkeeping
  BY DEF ServiceInit, StatusType, Bookkeeping

(* Every step keeps the bits in agreement; only the parts of cloudTask     *)
(* that touch them and the watchdogs' own callbacks matter.                *)
LEMMA BookkeepingStep ==
  StatusType /\ Bookkeeping /\ [ServiceNext]_allVars => StatusType' /\ Bookkeeping'
<1> SUFFICES ASSUME StatusType, Bookkeeping, [ServiceNext]_allVars
             PROVE  StatusType' /\ Bookkeeping'
  OBVIOUS
<1> USE DEF StatusType, Bookkeeping
<1>1. CASE CloudInit
  BY <1>1 DEF CloudInit
<1>2. CASE StartMqttConnectionTimeout
  BY <1>2 DEF StartMqttConnectionTimeout, Unwatched
<1>3. CASE UNCHANGED <<status, watch>>
  BY <1>3 DEF status
<1>4. CASE CloudTaskHead
  BY <1>4, <1>1, <1>2, <1>3 DEF CloudTaskHead, Head500ms, NothingToStart
<1>5. CASE CloudTaskTail
  BY <1>5 DEF CloudTaskTail, StillWatched, Watchdogs
<1>6. CASE MqttTimeoutTask
  BY <1>6 DEF MqttTimeoutTask, CloudReset, Fires
<1>7. CASE CloudResetTask
  BY <1>7 DEF CloudResetTask, Outcome, Fires
<1>8. CASE WifiConnected \/ WifiDisconnected
  BY <1>8 DEF WifiConnected, WifiDisconnected, StateChanged, CloudReset
<1>9. CASE WifiAddressed \/ CheckBackTask
  BY <1>9 DEF WifiAddressed, CheckBackTask, Fires, status
<1>10. CASE CloudTaskTransmit \/ ClientCallback \/ UNCHANGED allVars
  BY <1>10, <1>3 DEF CloudTaskTransmit, ClientCallback, allVars, cloud
<1> QED
  BY <1>4, <1>5, <1>6, <1>7, <1>8, <1>9, <1>10
     DEF ServiceNext, SuperviseTask, WifiCallback

(* The bits of cloudStatus agree with the watchdogs in every reachable     *)
(* state; Supervised and OneWatchdog both follow from this.                *)
THEOREM BookkeepingHolds == ServiceSpec => [](StatusType /\ Bookkeeping)
<1> QED
  BY BookkeepingInit, BookkeepingStep, PTL DEF ServiceSpec

(* A client that is not connected is never left alone: a watchdog of       *)
(* cloudTask runs or the next run of it starts one.                        *)
THEOREM SupervisedHolds == ServiceSpec => []Supervised
<1>1. StatusType /\ Bookkeeping => Supervised
  BY DEF StatusType, Bookkeeping, Supervised, Unwatched, Watchdogs
<1> QED
  BY <1>1, BookkeepingHolds, PTL

(* mqttTimeoutTask and cloudResetTask are never both due.                  *)
THEOREM OneWatchdogHolds == ServiceSpec => []OneWatchdog
<1>1. StatusType /\ Bookkeeping => OneWatchdog
  BY DEF StatusType, Bookkeeping, OneWatchdog, Watchdogs
<1> QED
  BY <1>1, BookkeepingHolds, PTL

----------------------------------------------------------------------------
(* No reset is due between two runs of cloudTask while the client is       *)
(* connected: the run that finds it connected calls the reset off, and the *)
(* run that starts one leaves the client disconnected or calls it off      *)
(* again.  A socket that is still connecting has no connected client.      *)
NoResetDue ==
  /\ haveAP \in BOOLEAN
  /\ Idle /\ mqttState = "CONNECTED" => "cloudReset" \notin watch
  /\ socketState = "in_progress" => Idle /\ mqttState # "CONNECTED"

(* Every step of the service keeps NoResetDue.                             *)
LEMMA NoResetDueStep == NoResetDue /\ [ServiceNext]_allVars => NoResetDue'
<1> SUFFICES ASSUME NoResetDue, [ServiceNext]_allVars PROVE NoResetDue'
  OBVIOUS
<1> USE DEF NoResetDue, Idle, At
<1>1. CASE CloudTaskHead
  <2>1. CASE LostWifi
    BY <2>1 DEF LostWifi, socket
  <2>2. CASE OpenSocket
    BY <2>2 DEF OpenSocket
  <2>3. CASE AwaitSocket
    BY <2>3 DEF AwaitSocket, vars, client, socket
  <2>4. CASE ConnectAppProtocol
    BY <2>4 DEF ConnectAppProtocol, socket
  <2>5. CASE ReceptionHandler
    <3>1. task' = "transmit" /\ socketState = "connected" /\ haveAP' = haveAP
      BY <2>5 DEF ReceptionHandler, ReceiveOverdue, ReceiveNothing, ReceiveConnack,
         ReceiveRefusal, ReceiveIncorrect, ReceivePingresp, ReceivePublish,
         ReceiveUnexpected, ReceiveAck, ReceiveIn, Receive
    <3>2. socketState' \in {socketState, "closed"}
      BY <2>5 DEF ReceptionHandler, ReceiveOverdue, ReceiveNothing, ReceiveConnack,
         ReceiveRefusal, ReceiveIncorrect, ReceivePingresp, ReceivePublish,
         ReceiveUnexpected, ReceiveAck, CloseSocket, Quiet, socket
    <3> QED
      BY <3>1, <3>2
  <2> QED
    BY <1>1, <2>1, <2>2, <2>3, <2>4, <2>5 DEF CloudTaskHead
<1>2. CASE CloudTaskTransmit
  <2>1. /\ task = "transmit" /\ task' = "after"
        /\ socketState' = socketState /\ haveAP' = haveAP
    BY <1>2 DEF CloudTaskTransmit, TransmissionHandler, TransmitConnect,
       TransmitPublish, TransmitPingreq, TransmitNothing, TransmitRequest,
       Connected, Transmit, At, socket
  <2> QED
    BY <2>1
<1>3. CASE CloudTaskTail
  BY <1>3 DEF CloudTaskTail, FinishTask, FinishAged, CloseSocket, StillWatched, Watchdogs
<1>4. CASE MqttTimeoutTask
  BY <1>4 DEF MqttTimeoutTask, vars, client, socket
<1>5. CASE CloudResetTask
  BY <1>5 DEF CloudResetTask, StartOver, CloseSocket
<1>6. CASE WifiCallback
  BY <1>6 DEF WifiCallback, WifiConnected, WifiDisconnected, WifiAddressed,
     CheckBackTask, vars, client, socket
<1>7. CASE ClientCallback
  BY <1>7 DEF ClientCallback, TimerFires, Publish, Unsubscribe, SocketConnects,
     SocketReceives, SocketFails, CloseSocket, cloud, client, socket
<1>8. CASE UNCHANGED allVars
  BY <1>8 DEF allVars, vars, client, socket, cloud
<1> QED
  BY <1>1, <1>2, <1>3, <1>4, <1>5, <1>6, <1>7, <1>8 DEF ServiceNext, SuperviseTask

(* The supervised client is a client of MqttClient: cloudResetTask is its  *)
(* ReInit, which leaves a connected client alone, and whatever the access  *)
(* point does is its Wifi.                                                 *)
THEOREM RefinesMqttClient == ServiceSpec => ImplementsMqttClient
<1>1. ServiceInit => Init /\ NoResetDue
  BY DEF ServiceInit, Init, NoResetDue
<1>2. NoResetDue /\ [ServiceNext]_allVars => [Next]_vars
  <2> SUFFICES ASSUME NoResetDue, [ServiceNext]_allVars PROVE [Next]_vars
    OBVIOUS
  <2>1. CASE SuperviseTask
    BY <2>1 DEF SuperviseTask, CloudTaskHead, CloudTaskTransmit, CloudTaskTail,
       AwaitSocket, Next, CloudTask
  <2>2. CASE MqttTimeoutTask
    BY <2>2 DEF MqttTimeoutTask
  <2>3. CASE CloudResetTask
    BY <2>3 DEF CloudResetTask, Fires, NoResetDue, ReInit, Next, Callbacks
  <2>4. CASE ClientCallback
    BY <2>4 DEF ClientCallback, Next, Callbacks
  <2>5. CASE UNCHANGED allVars
    BY <2>5 DEF allVars
  <2>6. CASE WifiCallback
    <3>1. CASE WifiAddressed
      BY <3>1 DEF WifiAddressed
    <3>2. CASE WifiConnected \/ WifiDisconnected \/ CheckBackTask
      <4>1. /\ Idle
            /\ haveAP' \in BOOLEAN
            /\ UNCHANGED <<client, socket, broker, sendSubscribe, task>>
        BY <3>2 DEF WifiConnected, WifiDisconnected, CheckBackTask, Fires, NoResetDue
      <4>2. haveAP' = ~haveAP \/ haveAP' = haveAP
        BY <4>1 DEF NoResetDue
      <4>3. CASE haveAP' = ~haveAP
        BY <4>1, <4>3 DEF Wifi, Next, Callbacks
      <4>4. CASE haveAP' = haveAP
        BY <4>1, <4>4 DEF vars
      <4> QED
        BY <4>2, <4>3, <4>4
    <3> QED
      BY <2>6, <3>1, <3>2 DEF WifiCallback
  <2> QED
    BY <2>1, <2>2, <2>3, <2>4, <2>5, <2>6 DEF ServiceNext
<1> QED
  BY <1>1, <1>2, NoResetDueStep, PTL DEF ServiceSpec, ImplementsMqttClient, Spec

(* What is proved of the client alone holds of it under supervision; with  *)
(* the types of the supervisor's own state this is its type invariant.     *)
THEOREM CloudTypeCorrect == ServiceSpec => []CloudTypeOK
<1> DEFINE OwnType == /\ watch \subseteq Watchdogs \cup {"checkBack"}
                      /\ amConnectingAP \in BOOLEAN /\ amDisconnecting \in BOOLEAN
<1>1. ServiceInit => OwnType
  BY DEF ServiceInit
<1>2. OwnType /\ [ServiceNext]_allVars => OwnType'
  <2> SUFFICES ASSUME OwnType, [ServiceNext]_allVars PROVE OwnType'
    OBVIOUS
  <2>1. CASE SuperviseTask
    BY <2>1 DEF SuperviseTask, CloudTaskHead, CloudTaskTransmit, CloudTaskTail,
       Head500ms, CloudInit, StartMqttConnectionTimeout, NothingToStart,
       StillWatched, Watchdogs, cloud, ap
  <2>2. CASE MqttTimeoutTask \/ CloudResetTask
    BY <2>2 DEF MqttTimeoutTask, CloudResetTask, Watchdogs, ap
  <2>3. CASE WifiCallback
    BY <2>3 DEF WifiCallback, WifiConnected, WifiDisconnected, WifiAddressed,
       CheckBackTask, Watchdogs
  <2>4. CASE ClientCallback \/ UNCHANGED allVars
    BY <2>4 DEF ClientCallback, allVars, cloud, ap
  <2> QED
    BY <2>1, <2>2, <2>3, <2>4 DEF ServiceNext
<1>3. ServiceSpec => []TypeOK
  BY RefinesMqttClient, TypeCorrect DEF ImplementsMqttClient
<1>4. TypeOK /\ StatusType /\ OwnType => CloudTypeOK
  BY DEF CloudTypeOK, StatusType
<1> QED
  BY <1>1, <1>2, <1>3, <1>4, BookkeepingHolds, PTL DEF ServiceSpec
=============================================================================
