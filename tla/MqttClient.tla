----------------------------- MODULE MqttClient -----------------------------
(***************************************************************************)
(* The MQTT client, mqtt/mqtt_core/mqtt_core.c with its communication      *)
(* layer mqtt/mqtt_comm_bsd/mqtt_comm_layer.c, driven by cloudTask of      *)
(* cloud/cloud_service.c, which the superloop runs every 500 ms.           *)
(*                                                                         *)
(* One run of cloudTask on an open socket is three steps here, the         *)
(* reception handler, the transmission handler and what follows them; the  *)
(* callbacks of timers and of the WINC driver come out of the same         *)
(* superloop, so they find cloudTask idle.  The broker, the network and    *)
(* the access point are the environment.                                   *)
(***************************************************************************)
EXTENDS Naturals, Sequences

CONSTANTS
  Requests,   (* acknowledged requests in use: subscribe, unsubscribe      *)
  MaxSegment  (* bound: packets that come in with one receive request      *)

ASSUME MqttAssumption ==
  /\ Requests \subseteq {"subscribe", "unsubscribe"}
  /\ "subscribe" \in Requests
  /\ MaxSegment \in Nat \ {0}

VARIABLES
  mqttState,      (* mqttState                                             *)
  txFlags,        (* mqttTxFlags: packets created and not yet sent         *)
  rxFlags,        (* mqttRxFlags: responses the client waits for           *)
  timedOut,       (* mqttTimeouts: timers of the client that have fired    *)
  timers,         (* the client's timers that are running                  *)
  rxbuff,         (* unread packets in the receive exchange buffer         *)
  socketState,    (* state of the client's socket in the BSD adapter       *)
  sendSubscribe,  (* cloudStatus.sendSubscribe                             *)
  recvPending,    (* a receive request is posted to the WINC               *)
  haveAP,         (* shared_networking_params.haveAPConnection             *)
  task,           (* where cloudTask stands                                *)
  asked,          (* requests sent on this TCP connection                  *)
  unanswered      (* those of them the broker has not answered             *)

client == <<mqttState, txFlags, rxFlags, timedOut, timers, rxbuff>>
socket == <<socketState, recvPending>>
broker == <<asked, unanswered>>
vars   == <<client, socket, broker, sendSubscribe, haveAP, task>>

States  == {"DISCONNECTED", "CONNECTING", "WAITFORCONNACK", "CONNECTED", "UNKNOWN"}
Sends   == {"connect", "publish", "pingreq"} \cup Requests
Awaits  == {"suback", "unsuback", "pingresp"}
Clocks  == {"connack", "pingreq"} \cup Awaits
Packets == {"connack", "refused", "suback", "subfail", "unsuback", "unsubfail",
            "pingresp", "publish"}

(* Fault: the subscription's flag is taken for another.                    *)
AckOfSwapped(request) == IF request = "pingreq" THEN "pingresp" ELSE "connack"
AckOf(request) == CASE request = "subscribe"   -> "suback"
                    [] request = "unsubscribe" -> "unsuback"
                    [] request = "pingreq"     -> "pingresp"
                    [] OTHER                   -> "connack"

Replies(request) == CASE request = "subscribe"   -> {"suback", "subfail"}
                      [] request = "unsubscribe" -> {"unsuback", "unsubfail"}
                      [] request = "pingreq"     -> {"pingresp"}
                      [] OTHER                   -> {"connack", "refused"}

At(t) == task = t
Idle  == At("idle")

----------------------------------------------------------------------------
(* Steps several handlers share.                                           *)

(* MQTT_ExchangeBufferInit of the receive buffer: what is unread is gone.  *)
(* Fault: the buffer keeps its contents.                                   *)
DropNothing == UNCHANGED rxbuff
DropReceived == rxbuff' = <<>>

(* BSD_close: the WINC forgets the connection.                             *)
(* Fault: the socket stays open.                                           *)
CloseNot == UNCHANGED <<socket, broker>>
CloseSocket ==
  /\ socketState' = "closed" /\ recvPending' = FALSE
  /\ asked' = {} /\ unanswered' = {}

(* A packet goes out: MQTT_Send succeeds at most on a connected socket.    *)
Sent(packet) ==
  /\ socketState = "connected"
  /\ asked' = asked \cup {packet}
  /\ unanswered' = IF packet = "publish" THEN unanswered ELSE unanswered \cup {packet}

NotSent == UNCHANGED broker

(* The running timers once the timer of a response that is now awaited has *)
(* been created.  Fault: it is left to the previous request.               *)
WatchedNot(ack) == timers
Watched(ack) == timers \cup {ack}

(* The packets to send once the next PINGREQ has been marked.              *)
(* Fault: the keep-alive ends with the first PINGRESP.                     *)
ReloadedNot == txFlags
Reloaded == txFlags \cup {"pingreq"}

----------------------------------------------------------------------------
(* The head of a run of cloudTask.                                         *)

LostWifi ==
  /\ Idle /\ ~haveAP
  /\ mqttState' = IF mqttState = "CONNECTED" THEN "DISCONNECTED" ELSE mqttState
  /\ UNCHANGED <<txFlags, rxFlags, timedOut, timers, rxbuff, socket, broker,
                 sendSubscribe, haveAP, task>>

(* NOT_A_SOCKET or SOCKET_CLOSED: MQTT_ClientInitialise, then              *)
(* CLOUD_connectSocket, which may fail or find no broker address yet.      *)
OpenSocket ==
  /\ Idle /\ haveAP /\ socketState = "closed"
  /\ mqttState' = "DISCONNECTED"
  /\ DropReceived
  /\ socketState' \in {"closed", "in_progress"}
  /\ UNCHANGED <<txFlags, rxFlags, timedOut, timers, recvPending, broker,
                 sendSubscribe, haveAP, task>>

(* CLOUD_connectAppProtocol: MQTT_CreateConnectPacket if the time is known *)
ConnectAppProtocol ==
  /\ Idle /\ haveAP /\ socketState = "connected" /\ mqttState = "DISCONNECTED"
  /\ \/ txFlags' = {"connect"} /\ mqttState' = "CONNECTING"
     \/ UNCHANGED <<txFlags, mqttState>>
  /\ sendSubscribe' = TRUE
  /\ UNCHANGED <<rxFlags, timedOut, timers, rxbuff, socket, broker, haveAP, task>>

----------------------------------------------------------------------------
(* MQTT_ReceptionHandler.                                                  *)

(* Fault: pingrespTimeoutOccured is left out.                              *)
OverdueAcks == timedOut \cap {"suback", "unsuback"}
Overdue == timedOut \cap Awaits

Receive ==
  /\ Idle /\ haveAP /\ socketState = "connected" /\ mqttState # "DISCONNECTED"
  /\ task' = "transmit"
  /\ UNCHANGED <<sendSubscribe, haveAP>>

ReceiveIn(state, packets) ==
  /\ Receive /\ Overdue = {} /\ mqttState = state
  /\ rxbuff # <<>> /\ Head(rxbuff) \in packets

Quiet == UNCHANGED <<socket, broker>>

(* A response is overdue: the connection is closed.  With data left in the *)
(* buffer the handler goes on in state DISCONNECTED, its default case.     *)
ReceiveOverdue ==
  /\ Receive /\ Overdue # {}
  /\ CloseSocket
  /\ mqttState' = IF rxbuff = <<>> THEN "DISCONNECTED" ELSE "UNKNOWN"
  /\ UNCHANGED <<txFlags, rxFlags, timedOut, timers, rxbuff>>

ReceiveNothing ==
  /\ Receive /\ Overdue = {}
  /\ rxbuff = <<>> \/ mqttState = "CONNECTING"
  /\ Quiet /\ UNCHANGED client

ReceiveConnack ==
  /\ ReceiveIn("WAITFORCONNACK", {"connack"}) /\ "connack" \notin timedOut
  /\ mqttState' = "CONNECTED"
  /\ txFlags' = Reloaded
  /\ rxFlags' = rxFlags \ {"pingresp"}
  /\ timers' = (timers \ {"connack"}) \cup {"pingreq"}
  /\ rxbuff' = Tail(rxbuff)
  /\ Quiet /\ UNCHANGED timedOut

ReceiveRefusal ==
  /\ ReceiveIn("WAITFORCONNACK", {"refused"}) /\ "connack" \notin timedOut
  /\ mqttState' = "DISCONNECTED"
  /\ timers' = timers \ {"connack"}
  /\ rxbuff' = Tail(rxbuff)
  /\ Quiet /\ UNCHANGED <<txFlags, rxFlags, timedOut>>

(* Another packet than the CONNACK, or a packet after connackTimer.        *)
ReceiveIncorrect ==
  /\ ReceiveIn("WAITFORCONNACK", Packets)
  /\ \/ "connack" \in timedOut /\ UNCHANGED timers
     \/ /\ "connack" \notin timedOut
        /\ Head(rxbuff) \notin {"connack", "refused"}
        /\ timers' = timers \ {"connack"}
  /\ mqttState' = "DISCONNECTED"
  /\ CloseSocket
  /\ UNCHANGED <<txFlags, rxFlags, timedOut, rxbuff>>

ReceivePingresp ==
  /\ ReceiveIn("CONNECTED", {"pingresp"}) /\ "pingresp" \in rxFlags
  /\ timers' = timers \ {"pingresp"}
  /\ rxFlags' = rxFlags \ {"pingresp"}
  /\ txFlags' = Reloaded
  /\ DropReceived
  /\ Quiet /\ UNCHANGED <<mqttState, timedOut>>

(* SUBACK and UNSUBACK, good (state CONNECTED) or bad (DISCONNECTED).      *)
ReceiveAck(request) ==
  LET ack == AckOf(request) IN
  /\ ReceiveIn("CONNECTED", Replies(request)) /\ ack \in rxFlags
  /\ timers' = timers \ {ack}
  /\ rxFlags' = rxFlags \ {ack}
  /\ mqttState' = IF Head(rxbuff) = ack THEN "CONNECTED" ELSE "DISCONNECTED"
  /\ DropReceived
  /\ Quiet /\ UNCHANGED <<txFlags, timedOut>>

ReceivePublish ==
  /\ ReceiveIn("CONNECTED", {"publish"})
  /\ DropReceived
  /\ Quiet /\ UNCHANGED <<mqttState, txFlags, rxFlags, timedOut, timers>>

(* Nobody waits for the packet at the head: it stays where it is.          *)
ReceiveUnexpected ==
  /\ ReceiveIn("CONNECTED", Packets)
  /\ \/ Head(rxbuff) \in {"connack", "refused"}
     \/ Head(rxbuff) = "pingresp" /\ "pingresp" \notin rxFlags
     \/ Head(rxbuff) \in {"suback", "subfail"} /\ "suback" \notin rxFlags
     \/ Head(rxbuff) \in {"unsuback", "unsubfail"} /\ "unsuback" \notin rxFlags
  /\ Quiet /\ UNCHANGED client

ReceptionHandler ==
  \/ ReceiveOverdue \/ ReceiveNothing
  \/ ReceiveConnack \/ ReceiveRefusal \/ ReceiveIncorrect
  \/ ReceivePingresp \/ ReceivePublish \/ ReceiveUnexpected
  \/ \E r \in Requests : ReceiveAck(r)

----------------------------------------------------------------------------
(* MQTT_TransmissionHandler: one packet per run, in the order of the bits  *)
(* of mqttTxFlags.                                                         *)

Transmit ==
  /\ At("transmit") /\ task' = "after"
  /\ UNCHANGED <<socket, sendSubscribe, haveAP>>

Bits == <<"connect", "publish", "subscribe", "unsubscribe", "pingreq">>

LowestBit(packet) ==
  \E i \in DOMAIN Bits : Bits[i] = packet /\ packet \in txFlags
                          /\ \A j \in 1 .. i - 1 : Bits[j] \notin txFlags

Connected(packet) == Transmit /\ mqttState = "CONNECTED" /\ LowestBit(packet)

TransmitConnect ==
  /\ Transmit /\ mqttState \in {"CONNECTING", "DISCONNECTED"}
  /\ "connect" \in txFlags
  /\ DropReceived
  /\ UNCHANGED rxFlags
  /\ \/ /\ Sent("connect")
        /\ txFlags' = txFlags \ {"connect"}
        /\ timers' = timers \cup {"connack"}
        /\ timedOut' = timedOut \ {"connack"}
        /\ mqttState' = "WAITFORCONNACK"
     \/ NotSent /\ UNCHANGED <<txFlags, timers, timedOut, mqttState>>

TransmitPublish ==
  /\ Connected("publish")
  /\ DropReceived
  /\ UNCHANGED <<rxFlags, timedOut>>
  /\ \/ /\ Sent("publish")
        /\ txFlags' = txFlags \ {"publish"}
        /\ timers' = timers \cup {"pingreq"}
        /\ UNCHANGED mqttState
     \/ /\ NotSent
        /\ timers' = timers \ {"pingreq"}
        /\ mqttState' = "DISCONNECTED"
        /\ UNCHANGED txFlags

(* SUBSCRIBE or UNSUBSCRIBE; sent or not, the keep-alive starts afresh.    *)
TransmitRequest(request) ==
  /\ Connected(request)
  /\ DropReceived
  /\ UNCHANGED mqttState
  /\ \/ /\ Sent(request)
        /\ txFlags' = txFlags \ {request}
        /\ rxFlags' = rxFlags \cup {AckOf(request)}
        /\ timedOut' = timedOut \ {AckOf(request)}
        /\ timers' = Watched(AckOf(request)) \cup {"pingreq"}
     \/ /\ NotSent
        /\ timers' = timers \cup {"pingreq"}
        /\ UNCHANGED <<txFlags, rxFlags, timedOut>>

(* The keep-alive timeout is forgotten whether the PINGREQ goes out or not. *)
PingDue == "pingreq" \in timedOut

TransmitPingreq ==
  /\ Connected("pingreq") /\ PingDue
  /\ DropReceived
  /\ UNCHANGED mqttState
  /\ \/ /\ Sent("pingreq")
        /\ txFlags' = txFlags \ {"pingreq"}
        /\ rxFlags' = rxFlags \cup {"pingresp"}
        /\ timedOut' = timedOut \ {"pingreq", "pingresp"}
        /\ timers' = Watched("pingresp")
     \/ /\ NotSent
        /\ timedOut' = timedOut \ {"pingreq"}
        /\ UNCHANGED <<txFlags, rxFlags, timers>>

(* Nothing to send, PINGREQ not yet due, or a state without a case.        *)
NothingToSend ==
  CASE mqttState \in {"CONNECTING", "DISCONNECTED"} -> "connect" \notin txFlags
    [] mqttState = "CONNECTED" -> \/ txFlags = {} \/ LowestBit("connect")
                                  \/ LowestBit("pingreq") /\ ~PingDue
    [] OTHER -> TRUE

TransmitNothing == Transmit /\ NothingToSend /\ UNCHANGED <<client, broker>>

TransmissionHandler ==
  \/ TransmitConnect \/ TransmitPublish \/ TransmitPingreq \/ TransmitNothing
  \/ \E r \in Requests : TransmitRequest(r)

----------------------------------------------------------------------------
(* The tail of cloudTask: BSD_recv, and on a connection that is up the     *)
(* subscription; a connection older than an hour is taken down.            *)

(* MQTT_CreateSubscribePacket and MQTT_CreateUnsubscribePacket allow one   *)
(* request at a time.  Fault: a request under way is not looked at.        *)
MayCreateAlways(request) == mqttState = "CONNECTED"
MayCreate(request) == mqttState = "CONNECTED" /\ AckOf(request) \notin rxFlags

Subscribing == sendSubscribe /\ MayCreate("subscribe")

FinishTask ==
  /\ At("after") /\ task' = "idle"
  /\ recvPending' = (socketState = "connected")
  /\ IF Subscribing
       THEN txFlags' = txFlags \cup {"subscribe"} /\ sendSubscribe' = FALSE
       ELSE UNCHANGED <<txFlags, sendSubscribe>>
  /\ UNCHANGED <<mqttState, rxFlags, timedOut, timers, rxbuff, socketState,
                 broker, haveAP>>

(* CLOUD_disconnect with a DISCONNECT that goes out or not, and BSD_close. *)
FinishAged ==
  /\ At("after") /\ task' = "idle"
  /\ mqttState = "CONNECTED"
  /\ mqttState' = "DISCONNECTED"
  /\ timers' = timers \ {"pingreq"}
  /\ DropReceived
  /\ CloseSocket
  /\ txFlags' \in {{}, IF Subscribing THEN txFlags \cup {"subscribe"} ELSE txFlags}
  /\ sendSubscribe' = (sendSubscribe /\ ~Subscribing)
  /\ UNCHANGED <<rxFlags, timedOut, haveAP>>

CloudTask ==
  \/ LostWifi \/ OpenSocket \/ ConnectAppProtocol
  \/ ReceptionHandler \/ TransmissionHandler
  \/ FinishTask \/ FinishAged

----------------------------------------------------------------------------
(* Other callbacks out of the superloop.                                   *)

(* connackTimer, subackTimer and unsubackTimer fire once, the other two    *)
(* are rescheduled.                                                        *)
TimerFires(clock) ==
  /\ Idle /\ clock \in timers
  /\ timedOut' = timedOut \cup {clock}
  /\ timers' = IF clock \in {"pingreq", "pingresp"} THEN timers ELSE timers \ {clock}
  /\ UNCHANGED <<mqttState, txFlags, rxFlags, rxbuff, socket, broker,
                 sendSubscribe, haveAP, task>>

(* CLOUD_publishData: MQTT_CreatePublishPacket.                            *)
Publish ==
  /\ Idle /\ mqttState = "CONNECTED"
  /\ txFlags' = txFlags \cup {"publish"}
  /\ UNCHANGED <<mqttState, rxFlags, timedOut, timers, rxbuff, socket, broker,
                 sendSubscribe, haveAP, task>>

(* MQTT_CreateUnsubscribePacket, where the application uses it.            *)
Unsubscribe ==
  /\ Idle /\ "unsubscribe" \in Requests /\ MayCreate("unsubscribe")
  /\ txFlags' = txFlags \cup {"unsubscribe"}
  /\ UNCHANGED <<mqttState, rxFlags, timedOut, timers, rxbuff, socket, broker,
                 sendSubscribe, haveAP, task>>

(* BSD_SocketHandler.                                                      *)
SocketConnects ==
  /\ Idle /\ socketState = "in_progress"
  /\ socketState' = "connected"
  /\ UNCHANGED <<client, recvPending, broker, sendSubscribe, haveAP, task>>

(* A failed connect, or a receive that reports an error or the end.        *)
SocketFails ==
  /\ Idle
  /\ socketState = "in_progress" \/ recvPending
  /\ CloseSocket
  /\ UNCHANGED <<client, sendSubscribe, haveAP, task>>

(* MQTT_GetReceivedData: one receive request brings what TCP has by then,  *)
(* messages and answers to requests, in place of what was in the buffer.   *)
Segments ==
  LET packets == {"publish"} \cup UNION {Replies(r) : r \in unanswered}
      Answering(segment, r) == {i \in DOMAIN segment : segment[i] \in Replies(r)}
  IN {segment \in UNION {[1 .. n -> packets] : n \in 1 .. MaxSegment} :
        \A r \in unanswered : \A i, j \in Answering(segment, r) : i = j}

SocketReceives ==
  /\ Idle /\ recvPending
  /\ \E segment \in Segments :
       /\ rxbuff' = segment
       /\ unanswered' = {r \in unanswered : \A i \in DOMAIN segment :
                                              segment[i] \notin Replies(r)}
  /\ recvPending' = FALSE
  /\ UNCHANGED <<mqttState, txFlags, rxFlags, timedOut, timers, socketState,
                 asked, sendSubscribe, haveAP, task>>

(* reInit, which cloudResetTask runs when no connection has come up: that  *)
(* it never takes a connection down is what CloudService shows.            *)
StartOver ==
  /\ Idle
  /\ mqttState' = "DISCONNECTED"
  /\ DropReceived
  /\ CloseSocket
  /\ haveAP' = FALSE
  /\ UNCHANGED <<txFlags, rxFlags, timedOut, timers, sendSubscribe, task>>

ReInit == mqttState # "CONNECTED" /\ StartOver

(* The access point comes and goes.                                        *)
Wifi ==
  /\ Idle
  /\ haveAP' = ~haveAP
  /\ UNCHANGED <<client, socket, broker, sendSubscribe, task>>

Callbacks ==
  \/ \E c \in Clocks : TimerFires(c)
  \/ Publish \/ Unsubscribe
  \/ SocketConnects \/ SocketReceives \/ SocketFails \/ ReInit \/ Wifi

----------------------------------------------------------------------------
Init ==
  /\ mqttState = "DISCONNECTED"
  /\ txFlags = {} /\ rxFlags = {} /\ timedOut = {} /\ timers = {} /\ rxbuff = <<>>
  /\ socketState = "closed" /\ recvPending = FALSE
  /\ sendSubscribe = FALSE /\ haveAP = FALSE /\ task = "idle"
  /\ asked = {} /\ unanswered = {}

Next == CloudTask \/ Callbacks

Spec == Init /\ [][Next]_vars

(* The superloop runs cloudTask again and again, and pingrespTimer fires   *)
(* when it has run long enough: its callback waits for cloudTask to be     *)
(* idle, which it is now and then, hence strong fairness.                  *)
Fairness == WF_vars(CloudTask) /\ SF_vars(TimerFires("pingresp"))

FairSpec == Spec /\ Fairness

----------------------------------------------------------------------------
(* Properties.                                                             *)

TypeOK ==
  /\ mqttState \in States
  /\ txFlags \subseteq Sends /\ rxFlags \subseteq Awaits
  /\ timedOut \subseteq Clocks /\ timers \subseteq Clocks
  /\ rxbuff \in Seq(Packets)
  /\ socketState \in {"closed", "in_progress", "connected"}
  /\ recvPending \in BOOLEAN /\ sendSubscribe \in BOOLEAN /\ haveAP \in BOOLEAN
  /\ task \in {"idle", "transmit", "after"}
  /\ asked \subseteq Sends /\ unanswered \subseteq asked

(* A request that awaits its response is not created again: at most one    *)
(* SUBSCRIBE, UNSUBSCRIBE and PINGREQ is under way, whatever connection    *)
(* loss came in between.                                                   *)
OneOutstanding ==
  \A r \in Requests \cup {"pingreq"} : r \in txFlags => AckOf(r) \notin rxFlags

(* Nothing is awaited without end: a response that has not come is watched *)
(* by its running timer or has been declared overdue.                      *)
AwaitedIsWatched == rxFlags \subseteq timers \cup timedOut

(* A connection that is up has its keep-alive going: the timer of the next *)
(* PINGREQ runs, and a PINGREQ is ready or its answer is awaited.          *)
KeepAliveGoes ==
  mqttState = "CONNECTED" =>
    /\ "pingreq" \in timers
    /\ "pingreq" \in txFlags \/ "pingresp" \in rxFlags

(* The client takes itself for connected only on a TCP connection whose    *)
(* own CONNECT the broker has answered, never on a CONNACK left over from  *)
(* the connection before.                                                  *)
OnlineIsAccepted ==
  mqttState = "CONNECTED" /\ socketState = "connected"
    => "connect" \in asked \ unanswered

(* MQTT_UNKNOWN_RECEIVE_STATE, which neither handler leaves, is never met  *)
(* on an open socket, where cloudTask would keep it for good.              *)
UnknownIsClosed == mqttState = "UNKNOWN" => socketState # "connected"

(* A broker that does not answer a PINGREQ is found out: the response      *)
(* comes or the connection is given up.                                    *)
SilenceIsNoticed ==
  mqttState = "CONNECTED" /\ "pingresp" \in rxFlags
    ~> "pingresp" \notin rxFlags \/ mqttState # "CONNECTED"
=============================================================================
