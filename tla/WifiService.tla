---------------------------- MODULE WifiService ----------------------------
(***************************************************************************)
(* The way onto an access point (cloud/wifi_service.c), as a station or by *)
(* provisioning, what application_manager.c does about it, and the LEDs    *)
(* that tell the user (led.c).  The WINC reports events, which wait until  *)
(* wifiHandlerTask runs; timers fire and tasks run in between.  Of the     *)
(* cloud service, the matter of CloudService, only its effects are here.   *)
(***************************************************************************)
EXTENDS Naturals, Sequences

CONSTANT MaxEvents      \* bound: events the WINC holds back

ASSUME WifiAssumption == MaxEvents \in Nat \ {0}

VARIABLES
  haveAP, amConnectingAP, amDisconnecting,         \* shared_networking_params
  amSoftAP, amDefaultCred, amConnectingSocket, haveDataConnection, haveError,
  responding,    \* responseFromProvisionConnect
  credentials,   \* ssid and authType: none, those of the build, the user's
  timers,        \* the timers that run
  led,           \* of each LED: its running timer, whether it is lit
  toggleState, holdCount,   \* of application_manager.c
  online,        \* the MQTT client is connected
  winc,          \* what the WINC is doing
  events,        \* what it has to report
  lost           \* for the properties: its last report was a loss

params == <<haveAP, amConnectingAP, amDisconnecting, amSoftAP, amDefaultCred,
            amConnectingSocket, haveDataConnection, haveError>>
switch == <<toggleState, holdCount>>
station == <<amSoftAP, amDefaultCred, responding, credentials>>
vars == <<params, responding, credentials, timers, led, switch, online, winc, events, lost>>

Colors == {"blue", "green", "yellow", "red"}
Timers == {"softApConnect", "checkBack", "cloud", "data"}
Kinds == {"connected", "disconnected", "addressed", "info"}

----------------------------------------------------------------------------
(* LEDs.  LED_control stops both timers of an LED; blinking begins with    *)
(* the timer that will switch it on, and leaves it as it is until then.    *)

(* Fault: the timers of a blinking LED are not stopped.                    *)
ControlledStill(l, how) ==
  CASE how = "on"    -> [l EXCEPT !.lit = TRUE]
    [] how = "off"   -> [l EXCEPT !.lit = FALSE]
    [] how = "blink" -> [l EXCEPT !.timer = "on"]
    [] how = "same"  -> l

Controlled(l, how) ==
  CASE how = "on"    -> [timer |-> "none", lit |-> TRUE]
    [] how = "off"   -> [timer |-> "none", lit |-> FALSE]
    [] how = "blink" -> [timer |-> "on", lit |-> l.lit]
    [] how = "same"  -> l

(* LED_control of some LEDs, asks saying what of which.                    *)
LedControl(asks) ==
  led' = [c \in Colors |-> IF c \in DOMAIN asks THEN Controlled(led[c], asks[c]) ELSE led[c]]

(* LED_onServiceBlue, LED_offServiceBlue and those of the other three.     *)
LedService ==
  /\ \E c \in Colors :
       \/ led[c].timer = "on"  /\ led' = [led EXCEPT ![c] = [timer |-> "off", lit |-> TRUE]]
       \/ led[c].timer = "off" /\ led' = [led EXCEPT ![c] = [timer |-> "on", lit |-> FALSE]]
  /\ UNCHANGED <<params, responding, credentials, timers, switch, online, winc, events, lost>>

----------------------------------------------------------------------------
(* The WINC.  As an access point it reports a phone that comes and goes    *)
(* just as a station's link, and what the user enters on its web page.     *)

Report(kind) == Len(events) < MaxEvents /\ events' = Append(events, kind)

Winc ==
  /\ \/ /\ winc = "softAP" /\ UNCHANGED winc
        /\ Report("connected") \/ Report("disconnected") \/ Report("info")
     \/ winc = "joining" /\ winc' = "joined" /\ Report("connected")
     \/ winc \in {"joining", "joined"} /\ winc' = "joining" /\ Report("disconnected")
     \/ winc = "joined" /\ UNCHANGED winc /\ Report("addressed")
  /\ UNCHANGED <<params, responding, credentials, timers, led, switch, online, lost>>

----------------------------------------------------------------------------
(* wifiCallback, on the first event that waits.                            *)

Handled(kind) == events # <<>> /\ Head(events) = kind /\ events' = Tail(events)

(* What ends provisioning: the user's credentials have been accepted.      *)
(* Fault: softApConnectTimer goes on.                                      *)
TimersOnceConnectedStill ==
  IF responding THEN timers \union {"cloud", "data"} ELSE timers

TimersOnceConnected ==
  IF responding
    THEN (timers \ {"softApConnect"}) \union {"cloud", "data"}
    ELSE timers

Joins == amConnectingAP /\ ~haveAP

WifiConnected ==
  /\ Handled("connected")
  /\ timers' = TimersOnceConnected
  /\ LedControl([blue  |-> IF responding \/ amSoftAP THEN "blink" ELSE "same",
                 green |-> IF Joins THEN "blink" ELSE "same"])
  /\ haveAP' = (haveAP \/ Joins)
  /\ amConnectingAP' = (amConnectingAP /\ ~Joins)
  /\ amDefaultCred' = (amDefaultCred /\ ~Joins)
  /\ amConnectingSocket' = (amConnectingSocket \/ Joins)
  /\ responding' = FALSE /\ amSoftAP' = FALSE /\ credentials' = "none" /\ lost' = FALSE
  /\ UNCHANGED <<amDisconnecting, haveDataConnection, haveError, switch, online, winc>>

(* Fault: amDefaultCred is not cleared, and the LEDs stay as they are.     *)
OfTheBuildStill == TRUE

(* The LEDs stay as they are while the credentials of the build have not   *)
(* brought a connection yet.                                               *)
OfTheBuild == amDefaultCred

WifiDisconnected ==
  /\ Handled("disconnected")
  /\ LedControl([blue   |-> IF OfTheBuild THEN "same" ELSE "blink",
                 green  |-> IF OfTheBuild THEN "same" ELSE "off",
                 yellow |-> "off", red |-> "off"])
  /\ haveAP' = FALSE /\ amConnectingSocket' = FALSE /\ amConnectingAP' = TRUE
  /\ timers' = timers \union {"checkBack"} /\ amDisconnecting' = TRUE
  /\ lost' = TRUE
  /\ UNCHANGED <<station, haveDataConnection, haveError, switch, online, winc>>

(* DHCP_CONF, the lookup of the host being accepted or not.                *)
WifiAddressed ==
  /\ Handled("addressed")
  /\ \/ /\ amDisconnecting' = FALSE /\ haveError' = FALSE
        /\ timers' = IF amDisconnecting THEN timers \ {"checkBack"} ELSE timers
     \/ UNCHANGED <<amDisconnecting, haveError, timers>>
  /\ UNCHANGED <<haveAP, amConnectingAP, station, amConnectingSocket, haveDataConnection,
                 led, switch, online, winc, lost>>

(* PROVISION_INFO.                                                         *)
ProvisionInfo ==
  /\ Handled("info")
  /\ \/ /\ responding' = TRUE /\ credentials' = "user"
        /\ timers' = timers \union {"softApConnect"}
     \/ UNCHANGED <<responding, credentials, timers>>
  /\ UNCHANGED <<params, led, switch, online, winc, lost>>

----------------------------------------------------------------------------
(* Timers.                                                                 *)

(* A request to connect may fail; it ends whatever the WINC was doing,     *)
(* which it may report.                                                    *)
ConnectToAp ==
  \/ /\ winc' = "joining" /\ UNCHANGED haveError
     /\ \/ UNCHANGED events
        \/ winc = "joined" /\ Report("disconnected")
  \/ haveError' = TRUE /\ UNCHANGED <<winc, events>>

SoftApConnectTask ==
  /\ "softApConnect" \in timers
  /\ ConnectToAp
  /\ UNCHANGED <<haveAP, amConnectingAP, amDisconnecting, station, amConnectingSocket,
                 haveDataConnection, timers, led, switch, online, lost>>

CheckedBack == haveAP' = FALSE

CheckBackTask ==
  /\ "checkBack" \in timers /\ timers' = timers \ {"checkBack"}
  /\ CheckedBack
  /\ amDisconnecting' = FALSE /\ amConnectingSocket' = FALSE /\ amConnectingAP' = TRUE
  /\ UNCHANGED <<station, haveDataConnection, haveError, led, switch, online, winc, events, lost>>

(* MAIN_dataTask.  A client that is connected publishes once the interval  *)
(* has passed; the first two publications after a message from the broker  *)
(* leave the yellow LED as that has set it.                                *)
(* Fault: the LED goes by the connection to the broker.                    *)
BlueShowsData == IF haveDataConnection THEN "on" ELSE "same"

BlueShows == IF ~amConnectingAP /\ haveAP THEN "on" ELSE "same"
GreenShows ==
  IF amConnectingAP \/ amConnectingSocket THEN "same"
  ELSE IF online THEN "on"
  ELSE IF haveDataConnection THEN "blink" ELSE "same"

DataTask ==
  /\ "data" \in timers
  /\ \E publishes \in BOOLEAN :
       /\ publishes => online /\ haveAP
       /\ holdCount' = IF publishes /\ holdCount > 0 THEN holdCount - 1 ELSE holdCount
       /\ LedControl([blue |-> BlueShows, green |-> GreenShows,
                      red |-> IF haveError THEN "on" ELSE "off",
                      yellow |-> IF ~online THEN "off"
                                 ELSE IF publishes /\ holdCount = 0 THEN "blink" ELSE "same"])
  /\ UNCHANGED <<params, responding, credentials, timers, toggleState, online, winc, events, lost>>

----------------------------------------------------------------------------
(* The cloud service as the WiFi service sees it.                          *)

(* The socket's answers come behind the report of the link they use.       *)
LinkReported == winc = "joined" /\ \A i \in DOMAIN events : events[i] # "connected"

(* cloudTask: without an access point the client is disconnected; with one *)
(* a run finds nothing to do or loses the client, opens a socket or fails  *)
(* to, or finds the client connected, which it may then close for its age. *)
CloudTask ==
  /\ "cloud" \in timers
  /\ haveDataConnection' \in {haveDataConnection, online /\ (haveAP \/ haveDataConnection)}
  /\ \/ online' = FALSE /\ UNCHANGED <<amConnectingSocket, haveError>>
     \/ /\ haveAP /\ online' = FALSE
        /\ \/ amConnectingSocket' = TRUE /\ UNCHANGED haveError
           \/ haveError' = TRUE /\ UNCHANGED amConnectingSocket
     \/ /\ haveAP /\ (online \/ LinkReported)
        /\ online' \in BOOLEAN /\ (online' \/ online)
        /\ amConnectingSocket' = FALSE /\ haveError' = FALSE
  /\ UNCHANGED <<haveAP, amConnectingAP, amDisconnecting, station, timers, led, switch, winc,
                 events, lost>>

(* Fault: one publication too many.                                        *)
HoldThree == holdCount' = 3

(* receivedFromCloud holds the yellow LED for two publications.            *)
Hold == holdCount' = 2

(* receivedFromCloud, called by the reception handler, on a message that   *)
(* has the toggle in it.                                                   *)
ReceivedFromCloud ==
  /\ "cloud" \in timers /\ haveAP /\ online
  /\ \E t \in BOOLEAN : toggleState' = t /\ LedControl([yellow |-> IF t THEN "on" ELSE "off"])
  /\ Hold
  /\ UNCHANGED <<params, responding, credentials, timers, online, winc, events, lost>>

(* cloudResetTask with reInit, which never meets a connected client: the   *)
(* WINC starts anew as a station and is told to connect.                   *)
CloudResetTask ==
  /\ "cloud" \in timers /\ ~online
  /\ haveAP' = FALSE /\ amConnectingAP' = TRUE
  /\ events' = <<>> /\ winc' \in {"joining", "idle"}
  /\ haveError' = (haveError \/ winc' = "idle")
  /\ UNCHANGED <<amDisconnecting, station, amConnectingSocket, haveDataConnection, timers,
                 led, switch, online, lost>>

----------------------------------------------------------------------------
(* application_init with wifi_init: no button, one button, both.           *)
Init ==
  /\ haveAP = FALSE /\ amDisconnecting = FALSE /\ amConnectingSocket = FALSE
  /\ haveError \in BOOLEAN /\ toggleState = FALSE /\ holdCount = 0
  /\ haveDataConnection = FALSE /\ responding = FALSE /\ online = FALSE
  /\ events = <<>> /\ lost = FALSE
  /\ \E both, one \in BOOLEAN :
       /\ ~(both /\ one)
       /\ amSoftAP = one /\ amDefaultCred = both /\ amConnectingAP = ~one
       /\ credentials = IF both THEN "build" ELSE "none"
       /\ timers = IF one THEN {} ELSE {"cloud", "data"}
       /\ winc = IF one THEN "softAP" ELSE "idle"
       /\ led = [c \in Colors |->
                   [timer |-> IF c = "blue" \/ (c = "green" /\ both) THEN "on" ELSE "none",
                    lit |-> FALSE]]

WifiCallback == WifiConnected \/ WifiDisconnected \/ WifiAddressed \/ ProvisionInfo
Tasks == SoftApConnectTask \/ CheckBackTask \/ DataTask \/ CloudTask \/ ReceivedFromCloud
         \/ CloudResetTask
Next == Winc \/ WifiCallback \/ Tasks \/ LedService

Spec == Init /\ [][Next]_vars

----------------------------------------------------------------------------
(* Properties.                                                             *)

TypeOK ==
  /\ <<haveAP, amConnectingAP, amDisconnecting, amSoftAP, amDefaultCred, amConnectingSocket,
       haveDataConnection>> \in BOOLEAN \X BOOLEAN \X BOOLEAN \X BOOLEAN \X BOOLEAN \X BOOLEAN
                                  \X BOOLEAN
  /\ {haveError, toggleState, responding, online, lost} \subseteq BOOLEAN
  /\ credentials \in {"none", "build", "user"} /\ timers \subseteq Timers
  /\ led \in [Colors -> [timer : {"none", "on", "off"}, lit : BOOLEAN]]
  /\ holdCount \in 0 .. 2
  /\ winc \in {"softAP", "idle", "joining", "joined"}
  /\ events \in Seq(Kinds) /\ Len(events) <= MaxEvents

(* The blue LED is lit without a break only while the last that the WINC   *)
(* has reported is a connection: no timer and no task brings it back after *)
(* a loss, and a blinking LED does blink.                                  *)
BlueMeansAp == led.blue.timer = "none" /\ led.blue.lit => ~lost

(* While the switch that the broker has sent is held, the yellow LED is    *)
(* steady, and lit only if the switch is on.                               *)
ToggleIsShown == holdCount > 0 => led.yellow.timer = "none" /\ (led.yellow.lit => toggleState)

(* softApConnectTask asks for the access point with what the user has      *)
(* entered, and never again once the device is online by it.               *)
NeverDisturbed == [][SoftApConnectTask => credentials = "user" /\ ~online]_vars
=============================================================================
