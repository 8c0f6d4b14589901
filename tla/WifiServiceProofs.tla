------------------------- MODULE WifiServiceProofs -------------------------
(***************************************************************************)
(* Proofs about WifiService, for any number of events that wait.           *)
(***************************************************************************)
EXTENDS WifiService, TLAPS

USE DEF params, station, switch, vars, Colors, Timers, Kinds

Pending(q, kind) == \E i \in DOMAIN q : q[i] = kind

(* Behind what the user has entered there is a connection in the queue.    *)
Announced(q) ==
  \A i \in DOMAIN q : q[i] = "info" => \E j \in DOMAIN q : i < j /\ q[j] = "connected"

(* The retry runs while the user's credentials wait to be accepted.        *)
Retries == (responding <=> "softApConnect" \in timers) /\ (responding => credentials = "user")

(* As long as the reports of a link are on their way the client is not     *)
(* connected by it; once it is, nothing of the provisioning is left.       *)
Reports ==
  /\ winc = "joined" => Announced(events) /\ (responding => Pending(events, "connected"))
  /\ online => winc # "softAP" /\ ~responding /\ ~Pending(events, "info")

Steady(c) == led[c].timer = "none" /\ led[c].lit

(* MAIN_dataTask lights the blue LED on an access point only.              *)
Blue ==
  /\ haveAP => ~lost /\ ~amDefaultCred
  /\ Steady("blue") => ~lost /\ ~amDefaultCred

Inv == TypeOK /\ Retries /\ Reports /\ Blue /\ ToggleIsShown

(* What an event at the end of the queue changes, ...                      *)
LEMMA AppendFacts ==
  ASSUME NEW q \in Seq(Kinds), NEW k \in Kinds
  PROVE  /\ Append(q, k) \in Seq(Kinds) /\ Len(Append(q, k)) = Len(q) + 1
         /\ \A kind \in Kinds : Pending(Append(q, k), kind) <=> Pending(q, kind) \/ kind = k
         /\ k # "info" /\ Announced(q) => Announced(Append(q, k))
         /\ k = "connected" => Announced(Append(q, k))
<1> DEFINE r == Append(q, k)
<1>1. r \in Seq(Kinds) /\ Len(r) = Len(q) + 1 /\ r[Len(q) + 1] = k
  OBVIOUS
<1>2. \A i \in 1 .. Len(q) : r[i] = q[i]
  OBVIOUS
<1>3. DOMAIN r = 1 .. Len(q) + 1 /\ DOMAIN q = 1 .. Len(q) /\ Len(q) \in Nat
  BY <1>1
<1> HIDE DEF r
<1>4. \A kind \in Kinds : Pending(r, kind) <=> Pending(q, kind) \/ kind = k
  BY <1>1, <1>2, <1>3 DEF Pending
<1>5. k # "info" /\ Announced(q) => Announced(r)
  BY <1>1, <1>2, <1>3 DEF Announced
<1>6. k = "connected" => Announced(r)
  BY <1>1, <1>2, <1>3 DEF Announced
<1> QED
  BY <1>1, <1>4, <1>5, <1>6 DEF r

(* ... and the one that is taken from its front.                           *)
LEMMA TailFacts ==
  ASSUME NEW q \in Seq(Kinds), q # <<>>
  PROVE  /\ Tail(q) \in Seq(Kinds) /\ Len(Tail(q)) = Len(q) - 1
         /\ Head(q) \in Kinds
         /\ \A kind \in Kinds : Pending(q, kind) <=> Pending(Tail(q), kind) \/ kind = Head(q)
         /\ Announced(q) => Announced(Tail(q))
         /\ Announced(q) /\ Head(q) = "info" => Pending(Tail(q), "connected")
<1> DEFINE r == Tail(q)
<1>1. r \in Seq(Kinds) /\ Len(r) = Len(q) - 1 /\ Head(q) = q[1] /\ Len(q) \in Nat \ {0}
  OBVIOUS
<1>2. \A i \in 1 .. Len(q) - 1 : r[i] = q[i + 1]
  OBVIOUS
<1>3. DOMAIN r = 1 .. Len(q) - 1 /\ DOMAIN q = 1 .. Len(q)
  BY <1>1
<1> HIDE DEF r
<1>4. \A i \in 2 .. Len(q) : i - 1 \in 1 .. Len(q) - 1 /\ r[i - 1] = q[i]
  BY <1>1, <1>2
<1>5. \A kind \in Kinds : Pending(q, kind) <=> Pending(r, kind) \/ kind = q[1]
  <2> SUFFICES ASSUME NEW kind \in Kinds
               PROVE  Pending(q, kind) <=> Pending(r, kind) \/ kind = q[1]
    OBVIOUS
  <2>1. Pending(r, kind) => Pending(q, kind)
    BY <1>1, <1>2, <1>3 DEF Pending
  <2>2. Pending(q, kind) => Pending(r, kind) \/ kind = q[1]
    <3> SUFFICES ASSUME NEW i \in 1 .. Len(q), q[i] = kind, kind # q[1]
                 PROVE  Pending(r, kind)
      BY <1>3 DEF Pending
    <3>1. i \in 2 .. Len(q)
      BY <1>1
    <3> QED
      BY <3>1, <1>3, <1>4 DEF Pending
  <2>3. kind = q[1] => Pending(q, kind)
    BY <1>1, <1>3 DEF Pending
  <2> QED
    BY <2>1, <2>2, <2>3
<1>6. Announced(q) => Announced(r)
  <2> SUFFICES ASSUME Announced(q), NEW i \in 1 .. Len(q) - 1, r[i] = "info"
               PROVE  \E j \in 1 .. Len(q) - 1 : i < j /\ r[j] = "connected"
    BY <1>3 DEF Announced
  <2>1. PICK j \in 1 .. Len(q) : i + 1 < j /\ q[j] = "connected"
    <3>1. i + 1 \in 1 .. Len(q) /\ q[i + 1] = "info"
      BY <1>1, <1>2
    <3> QED
      BY <3>1, <1>3 DEF Announced
  <2>2. j \in 2 .. Len(q) /\ i < j - 1
    BY <2>1, <1>1
  <2> QED
    BY <2>1, <2>2, <1>4
<1>7. Announced(q) /\ q[1] = "info" => Pending(r, "connected")
  <2> SUFFICES ASSUME Announced(q), q[1] = "info" PROVE Pending(r, "connected")
    OBVIOUS
  <2>1. PICK j \in 1 .. Len(q) : 1 < j /\ q[j] = "connected"
    BY <1>1, <1>3 DEF Announced
  <2>2. j \in 2 .. Len(q)
    BY <2>1, <1>1
  <2> QED
    BY <2>1, <2>2, <1>3, <1>4 DEF Pending
<1> QED
  BY <1>1, <1>5, <1>6, <1>7 DEF r

LEMMA InvInit == Init => Inv
<1> SUFFICES ASSUME Init PROVE Inv
  OBVIOUS
<1>1. TypeOK
  <2>1. led \in [Colors -> [timer : {"none", "on", "off"}, lit : BOOLEAN]]
    BY DEF Init
  <2>2. timers \subseteq Timers /\ events \in Seq(Kinds) /\ Len(events) <= MaxEvents
    BY WifiAssumption DEF Init
  <2>3. /\ winc \in {"softAP", "idle", "joining", "joined"}
        /\ credentials \in {"none", "build", "user"}
        /\ amSoftAP \in BOOLEAN /\ amDefaultCred \in BOOLEAN /\ amConnectingAP \in BOOLEAN
    BY DEF Init
  <2>4. /\ haveAP \in BOOLEAN /\ amDisconnecting \in BOOLEAN /\ amConnectingSocket \in BOOLEAN
        /\ haveDataConnection \in BOOLEAN /\ haveError \in BOOLEAN /\ toggleState \in BOOLEAN
        /\ responding \in BOOLEAN /\ online \in BOOLEAN /\ lost \in BOOLEAN
    BY DEF Init
  <2>5. holdCount \in 0 .. 2
    BY DEF Init
  <2> QED
    BY <2>1, <2>2, <2>3, <2>4, <2>5 DEF TypeOK
<1>2. Retries /\ ToggleIsShown
  BY DEF Init, Retries, ToggleIsShown
<1>3. Reports
  BY DEF Init, Reports
<1>4. Blue
  BY DEF Init, Blue, Steady
<1> QED
  BY <1>1, <1>2, <1>3, <1>4 DEF Inv

LEMMA TypeStep == TypeOK /\ [Next]_vars => TypeOK'
<1> SUFFICES ASSUME TypeOK, [Next]_vars PROVE TypeOK'
  OBVIOUS
<1> USE WifiAssumption
<1>1. ASSUME NEW k \in Kinds, Report(k) PROVE events' \in Seq(Kinds) /\ Len(events') <= MaxEvents
  BY <1>1, AppendFacts DEF Report, TypeOK
<1>2. ASSUME NEW k \in Kinds, Handled(k) PROVE events' \in Seq(Kinds) /\ Len(events') <= MaxEvents
  BY <1>2, TailFacts DEF Handled, TypeOK
<1>3. ASSUME NEW l \in [timer : {"none", "on", "off"}, lit : BOOLEAN],
             NEW how \in {"on", "off", "blink", "same"}
      PROVE  Controlled(l, how) \in [timer : {"none", "on", "off"}, lit : BOOLEAN]
  BY DEF Controlled
<1>4. ASSUME NEW asks, LedControl(asks), DOMAIN asks \subseteq Colors,
             \A c \in DOMAIN asks : asks[c] \in {"on", "off", "blink", "same"}
      PROVE  led' \in [Colors -> [timer : {"none", "on", "off"}, lit : BOOLEAN]]
  BY <1>3, <1>4, ZenonT(30) DEF LedControl, TypeOK
<1>5. CASE Winc
  BY <1>5, <1>1 DEF Winc, TypeOK
<1>6. CASE WifiConnected
  <2>1. led' \in [Colors -> [timer : {"none", "on", "off"}, lit : BOOLEAN]]
    BY <1>6, <1>4 DEF WifiConnected
  <2> QED
    BY <1>6, <1>2, <2>1 DEF WifiConnected, TimersOnceConnected, Joins, TypeOK
<1>7. CASE WifiDisconnected
  <2>1. led' \in [Colors -> [timer : {"none", "on", "off"}, lit : BOOLEAN]]
    BY <1>7, <1>4 DEF WifiDisconnected
  <2> QED
    BY <1>7, <1>2, <2>1 DEF WifiDisconnected, TypeOK
<1>8. CASE WifiAddressed
  BY <1>8, <1>2, ZenonT(30) DEF WifiAddressed, TypeOK
<1>9. CASE ProvisionInfo
  BY <1>9, <1>2 DEF ProvisionInfo, TypeOK
<1>10. CASE SoftApConnectTask
  BY <1>10, <1>1 DEF SoftApConnectTask, ConnectToAp, TypeOK
<1>11. CASE CheckBackTask
  BY <1>11 DEF CheckBackTask, CheckedBack, TypeOK
<1>12. CASE DataTask
  <2>1. led' \in [Colors -> [timer : {"none", "on", "off"}, lit : BOOLEAN]]
    BY <1>12, <1>4 DEF DataTask, BlueShows, GreenShows
  <2>2. holdCount' \in 0 .. 2
    BY <1>12 DEF DataTask, TypeOK
  <2> QED
    BY <1>12, <2>1, <2>2 DEF DataTask, TypeOK
<1>13. CASE CloudTask
  BY <1>13, ZenonT(30) DEF CloudTask, TypeOK
<1>14. CASE ReceivedFromCloud
  <2>1. led' \in [Colors -> [timer : {"none", "on", "off"}, lit : BOOLEAN]]
    BY <1>14, <1>4 DEF ReceivedFromCloud
  <2> QED
    BY <1>14, <2>1 DEF ReceivedFromCloud, Hold, TypeOK
<1>15. CASE CloudResetTask
  <2>1. haveError' \in BOOLEAN /\ winc' \in {"softAP", "idle", "joining", "joined"}
    BY <1>15 DEF CloudResetTask
  <2>2. events' \in Seq(Kinds) /\ Len(events') <= MaxEvents
    BY <1>15 DEF CloudResetTask
  <2> QED
    BY <1>15, <2>1, <2>2 DEF CloudResetTask, TypeOK
<1>16. CASE LedService
  <2>1. /\ [timer |-> "off", lit |-> TRUE] \in [timer : {"none", "on", "off"}, lit : BOOLEAN]
        /\ [timer |-> "on", lit |-> FALSE] \in [timer : {"none", "on", "off"}, lit : BOOLEAN]
    OBVIOUS
  <2>2. PICK c \in Colors, l \in [timer : {"none", "on", "off"}, lit : BOOLEAN] :
          led' = [led EXCEPT ![c] = l]
    BY <1>16, <2>1, Zenon DEF LedService
  <2>3. led' \in [Colors -> [timer : {"none", "on", "off"}, lit : BOOLEAN]]
    BY <2>2, Zenon DEF TypeOK
  <2> QED
    BY <1>16, <2>3 DEF LedService, TypeOK
<1>17. CASE UNCHANGED vars
  BY <1>17 DEF TypeOK
<1> QED
  BY <1>5, <1>6, <1>7, <1>8, <1>9, <1>10, <1>11, <1>12, <1>13, <1>14, <1>15, <1>16, <1>17
     DEF Next, WifiCallback, Tasks

(* The retry and the user's credentials end together.                      *)
LEMMA RetriesStep == Retries /\ TypeOK /\ [Next]_vars => Retries'
<1> SUFFICES ASSUME Retries, TypeOK, [Next]_vars PROVE Retries'
  OBVIOUS
<1>1. CASE WifiConnected
  BY <1>1 DEF WifiConnected, TimersOnceConnected, Retries, TypeOK
<1>2. CASE WifiDisconnected
  BY <1>2 DEF WifiDisconnected, Retries
<1>3. CASE WifiAddressed
  BY <1>3 DEF WifiAddressed, Retries
<1>4. CASE ProvisionInfo
  BY <1>4 DEF ProvisionInfo, Retries
<1>5. CASE CheckBackTask
  BY <1>5 DEF CheckBackTask, Retries
<1>6. CASE UNCHANGED <<responding, credentials, timers>>
  BY <1>6 DEF Retries
<1>7. Winc \/ LedService \/ SoftApConnectTask \/ DataTask \/ CloudTask \/ ReceivedFromCloud
        \/ CloudResetTask \/ UNCHANGED vars
      => UNCHANGED <<responding, credentials, timers>>
  BY DEF Winc, LedService, SoftApConnectTask, DataTask, CloudTask, ReceivedFromCloud,
         CloudResetTask
<1> QED
  BY <1>1, <1>2, <1>3, <1>4, <1>5, <1>6, <1>7 DEF Next, WifiCallback, Tasks

(* A report of the link the user asked for comes before the client can be  *)
(* connected over it, and behind what the user has entered.                *)
LEMMA ReportsStep == Reports /\ TypeOK /\ [Next]_vars => Reports'
<1> SUFFICES ASSUME Reports, TypeOK, [Next]_vars PROVE Reports'
  OBVIOUS
<1> USE DEF Reports
<1>0. events \in Seq(Kinds)
  BY DEF TypeOK
<1>1. ASSUME NEW k \in Kinds, Report(k)
      PROVE  /\ \A kind \in Kinds : Pending(events', kind) <=> Pending(events, kind) \/ kind = k
             /\ k # "info" /\ Announced(events) => Announced(events')
             /\ k = "connected" => Announced(events')
  BY <1>0, <1>1, AppendFacts DEF Report
<1>2. ASSUME NEW k \in Kinds, Handled(k)
      PROVE  /\ \A kind \in Kinds : Pending(events, kind) <=> Pending(events', kind) \/ kind = k
             /\ Announced(events) => Announced(events')
             /\ Announced(events) /\ k = "info" => Pending(events', "connected")
  BY <1>0, <1>2, TailFacts DEF Handled
<1>3. CASE Winc
  <2>1. CASE winc = "softAP" /\ UNCHANGED winc
    BY <1>3, <2>1 DEF Winc
  <2>2. CASE winc = "joining" /\ winc' = "joined" /\ Report("connected")
    BY <1>3, <2>2, <1>1 DEF Winc
  <2>3. CASE winc \in {"joining", "joined"} /\ winc' = "joining" /\ Report("disconnected")
    BY <1>3, <2>3, <1>1 DEF Winc
  <2>4. CASE winc = "joined" /\ UNCHANGED winc /\ Report("addressed")
    BY <1>3, <2>4, <1>1 DEF Winc
  <2> QED
    BY <1>3, <2>1, <2>2, <2>3, <2>4 DEF Winc
<1>4. CASE WifiConnected
  BY <1>4, <1>2 DEF WifiConnected
<1>5. CASE WifiDisconnected
  BY <1>5, <1>2 DEF WifiDisconnected
<1>6. CASE WifiAddressed
  BY <1>6, <1>2 DEF WifiAddressed
<1>7. CASE ProvisionInfo
  <2>1. Pending(events, "info")
    BY <1>7, <1>2 DEF ProvisionInfo
  <2>2. ~online
    BY <2>1
  <2> QED
    BY <1>7, <2>2, <1>2 DEF ProvisionInfo
<1>8. CASE SoftApConnectTask
  <2>1. CASE winc' = "joining" /\ UNCHANGED events
    BY <1>8, <2>1 DEF SoftApConnectTask
  <2>2. CASE winc' = "joining" /\ Report("disconnected")
    BY <1>8, <2>2, <1>1 DEF SoftApConnectTask
  <2>3. CASE UNCHANGED <<winc, events>>
    BY <1>8, <2>3 DEF SoftApConnectTask
  <2> QED
    BY <1>8, <2>1, <2>2, <2>3 DEF SoftApConnectTask, ConnectToAp
<1>9. CASE CloudTask
  <2>1. CASE LinkReported
    <3>1. ~Pending(events, "connected") /\ winc = "joined"
      BY <2>1 DEF LinkReported, Pending
    <3>2. ~Pending(events, "info")
      BY <3>1 DEF Announced, Pending
    <3> QED
      BY <1>9, <3>1, <3>2 DEF CloudTask
  <2>2. CASE ~LinkReported
    BY <1>9, <2>2 DEF CloudTask
  <2> QED
    BY <2>1, <2>2
<1>10. CASE CloudResetTask
  <2>1. ~online' /\ winc' # "joined"
    BY <1>10 DEF CloudResetTask
  <2> QED
    BY <2>1
<1>11. CheckBackTask \/ DataTask \/ ReceivedFromCloud \/ LedService \/ UNCHANGED vars
       => UNCHANGED <<winc, events, responding, online>>
  BY DEF CheckBackTask, DataTask, ReceivedFromCloud, LedService
<1>12. CASE UNCHANGED <<winc, events, responding, online>>
  BY <1>12 DEF Pending, Announced
<1> QED
  BY <1>3, <1>4, <1>5, <1>6, <1>7, <1>8, <1>9, <1>10, <1>11, <1>12
     DEF Next, WifiCallback, Tasks

(* The LED timers keep a blinking LED blinking and leave the others alone. *)
LEMMA LedServiceFacts ==
  ASSUME TypeOK, LedService, NEW c \in Colors
  PROVE  IF led[c].timer = "none" THEN led'[c] = led[c] ELSE led'[c].timer # "none"
<1>1. PICK d \in Colors :
        \/ led[d].timer = "on"  /\ led' = [led EXCEPT ![d] = [timer |-> "off", lit |-> TRUE]]
        \/ led[d].timer = "off" /\ led' = [led EXCEPT ![d] = [timer |-> "on", lit |-> FALSE]]
  BY DEF LedService
<1>2. DOMAIN led = Colors
  BY DEF TypeOK
<1>3. CASE d = c
  BY <1>1, <1>2, <1>3
<1>4. CASE d # c
  BY <1>1, <1>2, <1>4
<1> QED
  BY <1>3, <1>4

(* A steady blue LED means that no loss has been reported: it is lit for   *)
(* an access point, and both a loss and a new provisioning make it blink.  *)
LEMMA BlueStep == Blue /\ TypeOK /\ [Next]_vars => Blue'
<1> SUFFICES ASSUME Blue, TypeOK, [Next]_vars PROVE Blue'
  OBVIOUS
<1> USE DEF Blue, Steady
<1>1. CASE WifiConnected
  <2>1. led'["blue"].timer # "none" \/ led'["blue"] = led["blue"]
    BY <1>1 DEF WifiConnected, LedControl, Controlled
  <2> QED
    BY <1>1, <2>1 DEF WifiConnected, Joins, TypeOK
<1>2. CASE WifiDisconnected
  <2>1. IF amDefaultCred THEN led'["blue"] = led["blue"] ELSE led'["blue"].timer # "none"
    BY <1>2 DEF WifiDisconnected, OfTheBuild, LedControl, Controlled
  <2>2. ~haveAP' /\ amDefaultCred' = amDefaultCred
    BY <1>2 DEF WifiDisconnected
  <2>3. ~Steady("blue")'
    BY <2>1
  <2> QED
    BY <2>2, <2>3
<1>3. CASE DataTask
  <2>1. led'["blue"] = led["blue"] \/ haveAP
    BY <1>3 DEF DataTask, LedControl, Controlled, BlueShows
  <2> QED
    BY <1>3, <2>1 DEF DataTask
<1>4. CASE LedService
  <2>1. Steady("blue")' => Steady("blue")
    BY <1>4, LedServiceFacts
  <2> QED
    BY <1>4, <2>1 DEF LedService
<1>5. CASE ReceivedFromCloud
  <2>1. led'["blue"] = led["blue"]
    BY <1>5 DEF ReceivedFromCloud, LedControl
  <2> QED
    BY <1>5, <2>1 DEF ReceivedFromCloud
<1>6. CASE (haveAP' => haveAP) /\ UNCHANGED <<led, lost, amDefaultCred>>
  BY <1>6
<1>7. Winc \/ WifiAddressed \/ ProvisionInfo \/ SoftApConnectTask \/ CheckBackTask \/ CloudTask
        \/ CloudResetTask \/ UNCHANGED vars
      => (haveAP' => haveAP) /\ UNCHANGED <<led, lost, amDefaultCred>>
  BY DEF Winc, WifiAddressed, ProvisionInfo, SoftApConnectTask, CheckBackTask, CheckedBack,
         CloudTask, CloudResetTask
<1> QED
  BY <1>1, <1>2, <1>3, <1>4, <1>5, <1>6, <1>7 DEF Next, WifiCallback, Tasks

LEMMA ToggleStep == ToggleIsShown /\ TypeOK /\ [Next]_vars => ToggleIsShown'
<1> SUFFICES ASSUME ToggleIsShown, TypeOK, [Next]_vars PROVE ToggleIsShown'
  OBVIOUS
<1> USE DEF ToggleIsShown
<1>1. CASE DataTask
  <2>1. holdCount \in 0 .. 2
    BY DEF TypeOK
  <2>2. holdCount' > 0 => holdCount > 0
    BY <1>1, <2>1 DEF DataTask
  <2>3. holdCount > 0 => led'["yellow"] = led["yellow"]
                           \/ led'["yellow"] = [timer |-> "none", lit |-> FALSE]
    BY <1>1, <2>1 DEF DataTask, LedControl, Controlled
  <2> QED
    BY <1>1, <2>2, <2>3 DEF DataTask
<1>2. CASE WifiConnected
  <2>1. led'["yellow"] = led["yellow"]
    BY <1>2 DEF WifiConnected, LedControl
  <2> QED
    BY <1>2, <2>1 DEF WifiConnected
<1>3. CASE WifiDisconnected
  <2>1. led'["yellow"] = [timer |-> "none", lit |-> FALSE]
    BY <1>3 DEF WifiDisconnected, LedControl, Controlled
  <2> QED
    BY <2>1
<1>4. CASE LedService
  <2>1. led["yellow"].timer = "none" => led'["yellow"] = led["yellow"]
    BY <1>4, LedServiceFacts
  <2> QED
    BY <1>4, <2>1 DEF LedService
<1>5. CASE ReceivedFromCloud
  <2>1. PICK t \in BOOLEAN :
          toggleState' = t /\ LedControl([yellow |-> IF t THEN "on" ELSE "off"])
    BY <1>5 DEF ReceivedFromCloud
  <2>2. led'["yellow"] = [timer |-> "none", lit |-> t]
    BY <2>1 DEF LedControl, Controlled
  <2> QED
    BY <2>1, <2>2
<1>6. CASE UNCHANGED <<led, switch>>
  BY <1>6
<1>7. Winc \/ WifiAddressed \/ ProvisionInfo \/ SoftApConnectTask \/ CheckBackTask \/ CloudTask
        \/ CloudResetTask \/ UNCHANGED vars
      => UNCHANGED <<led, switch>>
  BY DEF Winc, WifiAddressed, ProvisionInfo, SoftApConnectTask, CheckBackTask, CloudTask,
         CloudResetTask
<1> QED
  BY <1>1, <1>2, <1>3, <1>4, <1>5, <1>6, <1>7 DEF Next, WifiCallback, Tasks

LEMMA InvStep == Inv /\ [Next]_vars => Inv'
BY TypeStep, RetriesStep, ReportsStep, BlueStep, ToggleStep DEF Inv

LEMMA Invariant == Spec => []Inv
BY InvInit, InvStep, PTL DEF Spec

(* Every variable of wifi_service.c, the application and its LEDs keeps to *)
(* its values, and no more events wait than the WINC holds back.           *)
THEOREM TypeCorrect == Spec => []TypeOK
<1>1. Inv => TypeOK
  BY DEF Inv
<1> QED
  BY <1>1, Invariant, PTL

(* MAIN_dataTask and wifiCallback: a steady blue LED never outlives the    *)
(* report of a loss.                                                       *)
THEOREM BlueMeansApHolds == Spec => []BlueMeansAp
<1>1. Inv => BlueMeansAp
  BY DEF Inv, Blue, Steady, BlueMeansAp
<1> QED
  BY <1>1, Invariant, PTL

(* receivedFromCloud and sendToCloud: publications do not blink over the   *)
(* switch that the broker has sent.                                        *)
THEOREM ToggleIsShownHolds == Spec => []ToggleIsShown
<1>1. Inv => ToggleIsShown
  BY DEF Inv
<1> QED
  BY <1>1, Invariant, PTL

(* softApConnectTask: a device that has come online by what the user has   *)
(* entered is left in peace by the task that tried it.                     *)
THEOREM NeverDisturbedHolds == Spec => NeverDisturbed
<1>1. Inv => [SoftApConnectTask => credentials = "user" /\ ~online]_vars
  BY DEF Inv, Retries, Reports, SoftApConnectTask
<1> QED
  BY <1>1, Invariant, PTL DEF NeverDisturbed
=============================================================================
