----------------------------- MODULE MqttPackets -----------------------------
(***************************************************************************)
(* The bytes of MQTT (mqtt_core.c): packets that the application asks for, *)
(* the lengths computed when they are created, the bytes written when they *)
(* are sent, which is later and from the application's own memory, and     *)
(* the reading of a PUBLISH that the broker sends.  Which flag goes first  *)
(* and when is the matter of MqttClient.                                   *)
(***************************************************************************)
EXTENDS Integers, Sequences, FiniteSetsExt

CONSTANTS
  ClientId,       \* cid
  Credentials,    \* user names and passwords of newConnectPacket
  Topics,         \* Topics["sensors"], ["shadow"]: published to; ["delta"]: subscribed
  Texts,          \* Texts["sensors"], ["shadow"]: the payloads sprintf makes
  Publications,   \* [topic, payload] that the broker publishes
  Segments,       \* the bytes that one receive reply of the WINC may bring
  TxSize, RxSize, \* CFG_MQTT_TXBUFFER_SIZE, CFG_MQTT_RXBUFFER_SIZE
  TopicSize,      \* SUBSCRIBE_TOPIC_SIZE, PAYLOAD_SIZE: the two arrays of
  PayloadSize,    \* mqttProcessPublish
  LenWidth        \* 2^8: of MQTT_GetReceivedData's len and of payloadLength

Byte == 0 .. 255
WordWidth == 256 * 256
Lengths == 0 .. WordWidth - 1
Sources == {"sensors", "shadow"}
States == {"DISCONNECTED", "CONNECTING", "WAITFORCONNACK", "CONNECTED"}
Kinds == {"connect", "publish", "subscribe", "unsubscribe"}

ASSUME BytesAssumption ==
  /\ ClientId \in Seq(Byte) /\ Segments \subseteq Seq(Byte) \ {<<>>}
  /\ Credentials \subseteq [username : Seq(Byte), password : Seq(Byte)]
  /\ Topics \in [Sources \union {"delta"} -> Seq(Byte)]
  /\ Texts \in [Sources -> SUBSET Seq(Byte)]
  /\ Publications \subseteq [topic : Seq(Byte), payload : Seq(Byte)]

(* A packet fits its buffer, with room for three bytes in front of it, and *)
(* its length takes two bytes, as does that of a publication which fits    *)
(* the two arrays; a payload fits what counts it.  Of the segments that    *)
(* come in nothing is assumed.                                             *)
ASSUME BuffersAssumption ==
  /\ TxSize \in Nat /\ TxSize <= 16386 /\ RxSize \in Nat \ {0}
  /\ TopicSize \in Nat /\ PayloadSize \in Nat /\ 2 + TopicSize + PayloadSize < 16384
  /\ LenWidth \in Nat \ {0} /\ LenWidth <= 16384
ASSUME ConnectFits ==
  \A c \in Credentials :
    19 + Len(ClientId) + Len(c.username) + Len(c.password) <= TxSize
ASSUME PublishFits ==
  \A from \in Sources : \A payload \in Texts[from] :
    Len(payload) < LenWidth /\ 5 + Len(Topics[from]) + Len(payload) <= TxSize
ASSUME TopicFits == 8 + Len(Topics["delta"]) <= TxSize
VARIABLES
  mqttState,
  txFlags,       \* which of the packets below are to be sent
  txConnect,     \* txConnectPacket: user name, password, totalLength
  txPublish,     \* txPublishPacket: where topic and payload are, lengths
  txTopics,      \* txSubscribePacket and txUnsubscribePacket: totalLength
  text,          \* the static payload of sendToCloud and of updateDeviceShadow
  txbuff,        \* what was sent last
  rxbuff,        \* what came in and is unread
  heard,         \* what the last PUBLISH gave receivedFromCloud, if anything
  overrun,       \* mqttTopic or mqttPayload was used beyond its end
  asked, sent,   \* for the properties: the requests made, the one in txbuff,
  inflight, told \* the publication in rxbuff, the one of the last PUBLISH

tx == <<txFlags, txConnect, txPublish, txTopics, asked>>
rx == <<rxbuff, inflight>>
read == <<heard, told, overrun>>
vars == <<mqttState, tx, text, txbuff, rx, sent, read>>

Nothing == [kind |-> "none"]
NoPublication == [topic |-> <<>>, payload |-> <<>>]

----------------------------------------------------------------------------
(* Lengths.  A uint16_t goes out high byte first, as htons makes it.       *)
Word(n) == <<n \div 256, n % 256>>
WordAt(b, i) == 256 * b[i] + b[i + 1]

(* Fault: the top bit that says that more follows is forgotten.            *)
EncodeLengthPlain(length) ==
  LET encoded[n \in Lengths] ==
        IF n < 128 THEN <<n>> ELSE <<n % 128>> \o encoded[n \div 128]
  IN encoded[length]

LastByte(n) == <<n>>
ByteAndMore(n, more) == <<128 + (n % 128)>> \o more

EncodeLength(length) ==
  LET encoded[n \in Lengths] ==
        IF n < 128 THEN LastByte(n) ELSE ByteAndMore(n, encoded[n \div 128])
  IN encoded[length]

(* What is not read stays as memset left it, a zero.                       *)
ByteAt(b, i) == IF i \in 1 .. Len(b) THEN b[i] ELSE 0

(* The index of the last byte of the length that begins at b[2]: four at   *)
(* most, for remainingLength has no more.                                  *)
LengthEnd(b) == Min({i \in 2 .. 5 : ByteAt(b, i) < 128 \/ i = 5})

DecodeLength(b) ==
  LET value[i \in 1 .. LengthEnd(b)] ==
        IF i = 1 THEN 0 ELSE value[i - 1] + (ByteAt(b, i) % 128) * 128 ^ (i - 2)
  IN value[LengthEnd(b)]

(* Fault: the type is one bit too far up.                                  *)
HeaderHigh(type, qos) == <<32 * type + 2 * qos>>

(* mqttHeaderFlags: type, duplicate, QoS and retain.                       *)
Header(type, qos) == <<16 * type + 2 * qos>>

(* MQTT_ExchangeBufferWrite keeps what fits.                               *)
Kept(b, size) == IF Len(b) <= size THEN b ELSE SubSeq(b, 1, size)

----------------------------------------------------------------------------
(* MQTT_CreateConnectPacket.                                               *)
HasCredentials(c) == c.username # <<>> \/ c.password # <<>>

CreateConnect(c) ==
  /\ txConnect' = [username |-> c.username, password |-> c.password,
                   totalLength |-> 10 + 2 + Len(ClientId)
                     + IF HasCredentials(c) THEN 4 + Len(c.username) + Len(c.password) ELSE 0]
  /\ txFlags' = {"connect"} /\ mqttState' = "CONNECTING"
  /\ asked' = [asked EXCEPT !["connect"] =
                 [kind |-> "connect", id |-> ClientId, username |-> c.username,
                  password |-> c.password]]

(* MQTT_CLIENT_connect, when the socket is up.                             *)
Connect ==
  /\ mqttState = "DISCONNECTED"
  /\ \E c \in Credentials : CreateConnect(c)
  /\ UNCHANGED <<txPublish, txTopics, text, txbuff, rx, sent, read>>

(* Fault: the two bytes of the topic's length are not counted.             *)
PublishLengthShort(topic, payloadLength) == Len(topic) + payloadLength

PublishLength(topic, payloadLength) == 2 + Len(topic) + payloadLength

(* MQTT_CreatePublishPacket keeps pointers; a packet that waits to be sent *)
(* is replaced.  It refuses outside CONNECTED, which no caller asks of it: *)
(* MAIN_dataTask and initDeviceShadow test CLOUD_checkIsConnected first,   *)
(* and receivedFromCloud runs within MQTT_ReceptionHandler in CONNECTED.   *)
CreatePublish(from, payload) ==
  LET n == Len(payload) % LenWidth
  IN /\ txPublish' = [from |-> from, payloadLength |-> n,
                      totalLength |-> PublishLength(Topics[from], n)]
     /\ txFlags' = txFlags \union {"publish"}
     /\ asked' = [asked EXCEPT !["publish"] =
                    [kind |-> "publish", topic |-> Topics[from], payload |-> payload]]

(* sendToCloud and updateDeviceShadow, which write their payload into a    *)
(* static buffer of their own.                                             *)
Publish(from, payload) ==
  /\ text' = [text EXCEPT ![from] = payload]
  /\ CreatePublish(from, payload)
  /\ UNCHANGED <<txConnect, txTopics>>

SendToCloud ==
  /\ mqttState = "CONNECTED"
  /\ \E payload \in Texts["sensors"] : Publish("sensors", payload)
  /\ UNCHANGED <<mqttState, txbuff, rx, sent, read>>

InitDeviceShadow ==
  /\ mqttState = "CONNECTED"
  /\ \E payload \in Texts["shadow"] : Publish("shadow", payload)
  /\ UNCHANGED <<mqttState, txbuff, rx, sent, read>>

(* MQTT_CreateSubscribePacket and MQTT_CreateUnsubscribePacket, with one   *)
(* topic; only a SUBSCRIBE has a QoS byte to it.                           *)
CreateTopicPacket ==
  /\ mqttState = "CONNECTED"
  /\ \E kind \in {"subscribe", "unsubscribe"} :
       /\ txTopics' = [txTopics EXCEPT ![kind] =
                         2 + 2 + Len(Topics["delta"]) + IF kind = "subscribe" THEN 1 ELSE 0]
       /\ txFlags' = txFlags \union {kind}
       /\ asked' = [asked EXCEPT ![kind] = [kind |-> kind, topic |-> Topics["delta"]]]
  /\ UNCHANGED <<mqttState, txConnect, txPublish, text, txbuff, rx, sent, read>>

----------------------------------------------------------------------------
(* mqttSendConnect, mqttSendPublish, mqttSendSubscribe and                 *)
(* mqttSendUnsubscribe.                                                    *)
Field(s) == Word(Len(s)) \o s
PacketIdentifier == <<0, 1>>
ProtocolName == <<0, 4, 77, 81, 84, 84>>

ConnectBytes ==
  Header(1, 0) \o EncodeLength(txConnect.totalLength)
    \o ProtocolName \o <<4, IF HasCredentials(txConnect) THEN 194 ELSE 2>> \o Word(10)
    \o Field(ClientId)
    \o IF HasCredentials(txConnect)
         THEN Field(txConnect.username) \o Field(txConnect.password) ELSE <<>>

PublishBytes ==
  Header(3, 0) \o EncodeLength(txPublish.totalLength) \o Field(Topics[txPublish.from])
    \o SubSeq(text[txPublish.from], 1, txPublish.payloadLength)

TopicBytes(kind) ==
  Header(IF kind = "subscribe" THEN 8 ELSE 10, 1) \o EncodeLength(txTopics[kind])
    \o PacketIdentifier \o Field(Topics["delta"])
    \o IF kind = "subscribe" THEN <<0>> ELSE <<>>

PacketBytes(kind) ==
  CASE kind = "connect" -> ConnectBytes
    [] kind = "publish" -> PublishBytes
    [] OTHER            -> TopicBytes(kind)

(* Each of them empties both buffers first; a send that fails leaves the   *)
(* flag set, and a PUBLISH that fails ends the connection.                 *)
SendPacket(bytes, request) ==
  /\ txbuff' = Kept(bytes, TxSize) /\ sent' = request
  /\ rxbuff' = <<>> /\ inflight' = Nothing
  /\ UNCHANGED <<txConnect, txPublish, txTopics, asked, text, read>>

Transmit ==
  \E kind \in txFlags, ok \in BOOLEAN :
    /\ mqttState \in IF kind = "connect" THEN {"CONNECTING", "DISCONNECTED"} ELSE {"CONNECTED"}
    /\ SendPacket(PacketBytes(kind), asked[kind])
    /\ txFlags' = IF ok THEN txFlags \ {kind} ELSE txFlags
    /\ mqttState' = CASE kind = "connect" /\ ok  -> "WAITFORCONNACK"
                      [] kind = "publish" /\ ~ok -> "DISCONNECTED"
                      [] OTHER                   -> mqttState

(* mqttSendPingreq, when nothing else is flagged, and MQTT_Disconnect.     *)
SendPingreq ==
  /\ mqttState = "CONNECTED" /\ txFlags = {}
  /\ SendPacket(Header(12, 0) \o <<0>>, [kind |-> "pingreq"])
  /\ UNCHANGED <<txFlags, mqttState>>

Disconnect ==
  /\ mqttState \in {"CONNECTED", "WAITFORCONNACK"} /\ mqttState' = "DISCONNECTED"
  /\ SendPacket(Header(14, 0) \o <<0>>, [kind |-> "disconnect"])
  /\ txFlags' \in {{}, txFlags}

(* What the other side does to the connection: MqttClient has the whole.   *)
Accepted ==
  /\ mqttState = "WAITFORCONNACK" /\ mqttState' = "CONNECTED"
  /\ UNCHANGED <<tx, text, txbuff, rx, sent, read>>

Lost ==
  /\ mqttState # "DISCONNECTED" /\ mqttState' = "DISCONNECTED"
  /\ UNCHANGED <<tx, text, txbuff, rx, sent, read>>

----------------------------------------------------------------------------
(* The broker's PUBLISH, of QoS 0 as it was subscribed to, of a length that *)
(* takes two bytes at most.                                                *)
BrokerLength(n) == IF n < 128 THEN <<n>> ELSE <<128 + (n % 128), n \div 128>>
BrokerBytes(p) ==
  LET n == 2 + Len(p.topic) + Len(p.payload)
  IN <<48>> \o BrokerLength(n) \o <<Len(p.topic) \div 256, Len(p.topic) % 256>>
       \o p.topic \o p.payload

(* Socket_ReadSocketData passes a reply on in pieces of rxbuff's size, each *)
(* over the one before, and MQTT_GetReceivedData's len is a uint8_t: what  *)
(* is beyond it is not read.                                               *)
LastPiece(s) == SubSeq(s, Len(s) - ((Len(s) - 1) % RxSize), Len(s))
Received(s) == LET b == LastPiece(s) IN SubSeq(b, 1, Len(b) % LenWidth)

(* A publication that mqtt_config.h supports, in a segment of which every  *)
(* byte is counted; the payload keeps a zero at its end.                   *)
Supported(p, s) ==
  /\ Len(BrokerBytes(p)) <= Len(s) /\ SubSeq(s, 1, Len(BrokerBytes(p))) = BrokerBytes(p)
  /\ Len(s) < LenWidth /\ Len(s) <= RxSize
  /\ Len(p.topic) <= TopicSize /\ Len(p.payload) < PayloadSize

Arrive ==
  /\ mqttState = "CONNECTED"
  /\ \E s \in Segments :
       LET promised == {p \in Publications : Supported(p, s)}
       IN  rxbuff' = Received(s) /\ inflight' \in IF promised = {} THEN {Nothing} ELSE promised
  /\ UNCHANGED <<mqttState, tx, text, txbuff, sent, read>>

(* mqttProcessPublish: what the buffer does not hold is not read, and      *)
(* MQTT_ExchangeBufferRead takes its length as a uint16_t.                 *)
Fetched(b, from, n) == SubSeq(b, from, Min({from + n - 1, Len(b)}))

(* Fault: the topic's length field counts as payload.                      *)
PayloadLengthLong(b, topicLength) == (DecodeLength(b) - topicLength) % WordWidth

PayloadLength(b, topicLength) == (DecodeLength(b) - 2 - topicLength) % WordWidth

Decoded(b) ==
  LET start == LengthEnd(b) + 1
      n     == 256 * ByteAt(b, start) + ByteAt(b, start + 1)
  IN [topic   |-> Fetched(b, start + 2, n),
      payload |-> Fetched(b, start + 2 + n, PayloadLength(b, n))]

(* manageSubscriptionMessage compares as many bytes as the subscribed      *)
(* topic has; receivedFromCloud answers with the device's shadow.          *)
IsSubscribed(topic) ==
  /\ Len(topic) >= Len(Topics["delta"])
  /\ SubSeq(topic, 1, Len(Topics["delta"])) = Topics["delta"]

(* Neither array is written beyond its end, and strstr, which only a       *)
(* payload handed over meets, finds the zero behind it.                    *)
InArrays(p) ==
  /\ Len(p.topic) <= TopicSize /\ Len(p.payload) <= PayloadSize
  /\ IsSubscribed(p.topic) => Len(p.payload) < PayloadSize

(* MQTT_ReceptionHandler goes by the type in the first byte.  The lengths  *)
(* are not tested against the arrays: what the program does after overrun  *)
(* is undefined, and the behaviour ends there.                             *)
ProcessPublish ==
  LET p == Decoded(rxbuff)
  IN /\ mqttState = "CONNECTED" /\ rxbuff # <<>> /\ rxbuff[1] \div 16 = 3
     /\ rxbuff' = <<>> /\ inflight' = Nothing /\ told' = inflight
     /\ overrun' = ~InArrays(p)
     /\ IF IsSubscribed(p.topic)
          THEN heard' = p /\ \E payload \in Texts["shadow"] : Publish("shadow", payload)
          ELSE heard' = NoPublication /\ UNCHANGED <<tx, text>>
     /\ UNCHANGED <<mqttState, txbuff, sent>>

Init ==
  /\ mqttState = "DISCONNECTED" /\ txFlags = {}
  /\ txConnect = [username |-> <<>>, password |-> <<>>, totalLength |-> 0]
  /\ txPublish = [from |-> "sensors", payloadLength |-> 0, totalLength |-> 0]
  /\ txTopics = [kind \in {"subscribe", "unsubscribe"} |-> 0]
  /\ text = [from \in Sources |-> <<>>]
  /\ txbuff = <<>> /\ rxbuff = <<>> /\ heard = NoPublication /\ overrun = FALSE
  /\ asked = [kind \in Kinds |-> Nothing] /\ sent = Nothing
  /\ inflight = Nothing /\ told = Nothing

Next ==
  /\ ~overrun
  /\ \/ Connect \/ SendToCloud \/ InitDeviceShadow \/ CreateTopicPacket
     \/ Transmit \/ SendPingreq \/ Disconnect \/ Accepted \/ Lost \/ Arrive \/ ProcessPublish

Spec == Init /\ [][Next]_vars

----------------------------------------------------------------------------
(* Properties.                                                             *)

(* How MQTT 3.1.1 reads a packet.                                          *)
RemainingLength(b) == IF b[2] < 128 THEN b[2] ELSE (b[2] % 128) + 128 * b[3]
Rest(b) == SubSeq(b, IF b[2] < 128 THEN 3 ELSE 4, Len(b))
String(b) == SubSeq(b, 3, 2 + WordAt(b, 1))
After(b) == SubSeq(b, 3 + WordAt(b, 1), Len(b))

ParseConnect(r) ==
  LET body == SubSeq(r, 11, Len(r))
      more == After(body)
  IN [kind |-> "connect", id |-> String(body),
      username |-> IF r[8] >= 128 THEN String(more) ELSE <<>>,
      password |-> IF (r[8] \div 64) % 2 = 1 THEN String(After(more)) ELSE <<>>]

Parse(b) ==
  LET r == Rest(b)
  IN CASE Len(r) # RemainingLength(b) -> [kind |-> "malformed"]
       [] b[1] = 16  -> ParseConnect(r)
       [] b[1] = 48  -> [kind |-> "publish", topic |-> String(r), payload |-> After(r)]
       [] b[1] = 130 -> [kind |-> "subscribe", topic |-> String(SubSeq(r, 3, Len(r) - 1))]
       [] b[1] = 162 -> [kind |-> "unsubscribe", topic |-> String(SubSeq(r, 3, Len(r)))]
       [] b[1] = 192 -> [kind |-> "pingreq"]
       [] b[1] = 224 -> [kind |-> "disconnect"]
       [] OTHER      -> [kind |-> "unknown"]

TypeOK ==
  /\ mqttState \in States /\ txFlags \subseteq Kinds
  /\ txConnect.totalLength \in Lengths /\ txPublish.totalLength \in Lengths
  /\ txPublish.from \in Sources /\ txPublish.payloadLength \in 0 .. LenWidth - 1
  /\ \A kind \in {"subscribe", "unsubscribe"} : txTopics[kind] \in Lengths
  /\ txbuff \in Seq(Byte) /\ Len(txbuff) <= TxSize
  /\ rxbuff \in Seq(Byte) /\ Len(rxbuff) <= RxSize /\ overrun \in BOOLEAN

(* A packet that goes out is read by the broker as the last request of its *)
(* kind: the lengths computed at its creation fit the bytes written when   *)
(* it is sent, whatever the application has done to its buffers since.     *)
SentIsAsked == txbuff # <<>> => Parse(txbuff) = sent

(* Of a publication that is supported, whatever stands behind it in the    *)
(* segment, the application is handed topic and payload as the broker sent *)
(* them if it has subscribed to them and nothing if not; nothing of an     *)
(* earlier one is left over, and both arrays hold what is read.            *)
HeardIsPublished ==
  told # Nothing =>
    /\ ~overrun
    /\ heard = IF IsSubscribed(told.topic) THEN told ELSE NoPublication
=============================================================================
