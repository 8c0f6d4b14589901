---------------------------- MODULE MCMqttPackets ----------------------------
(* Instances of MqttPackets for TLC, with the sizes of mqtt_config.h.       *)
EXTENDS MqttPackets

Chars(first, n) == [i \in 1 .. n |-> first + (i % 7)]

MCClientId == Chars(65, 5)
MCCredentials ==
  {[username |-> <<>>, password |-> <<>>],
   [username |-> Chars(65, 105), password |-> Chars(75, 2)]}
MCTopics == [sensors |-> Chars(65, 9), shadow |-> Chars(75, 79), delta |-> Chars(85, 20)]

(* Remaining lengths of 127 and 128 occur: 2 + 9 + 116 in a PUBLISH and     *)
(* 10 + 2 + 5 + 4 + 105 + 2 in a CONNECT; the longest payload is that of a  *)
(* buffer of PAYLOAD_SIZE with its terminator.                              *)
MCTexts == [sensors |-> {Chars(97, 116), Chars(107, 199)},
            shadow  |-> {Chars(97, 36)}]

(* What the broker publishes: remaining lengths of 127 (2 + 20 + 105) and   *)
(* of two bytes, the longest payload that is supported and one byte more,   *)
(* a payload of digits, and a topic not subscribed to.                      *)
Delta(first, n) == [topic |-> MCTopics["delta"], payload |-> Chars(first, n)]
Other == [topic |-> Chars(75, 20), payload |-> <<100>>]
MCPublications ==
  {Delta(97, 105), Delta(97, 199), Delta(97, 200), Delta(48, 40), Other}

(* Segments: one publication, and one with another behind it.  224 + 31     *)
(* bytes are the most that a uint8_t counts, 224 + 32 count as none,        *)
(* 130 + 185 as 59, and of 224 + 185 the last 9 are a piece of their own.   *)
(* The publication of digits comes in two segments; the second begins with  *)
(* a digit, which is the type of a PUBLISH.                                 *)
Behind(p, n) == BrokerBytes(p) \o BrokerBytes(Delta(97, n))
Digits == BrokerBytes(Delta(48, 40))
MCSegments ==
  {BrokerBytes(p) : p \in {Delta(97, 105), Delta(97, 200), Other}}
    \union {Behind(Delta(97, 199), n) : n \in {7, 8, 160}}
    \union {Behind(Delta(97, 105), 160), SubSeq(Digits, 1, 31), SubSeq(Digits, 32, Len(Digits))}
=============================================================================
