---------------------------- MODULE CloudService ----------------------------
(***************************************************************************)
(* What keeps the connection up, cloud/cloud_service.c with CLOUD_init of  *)
(* cloud/aws_cloud_service.c and the access point callbacks of             *)
(* cloud/wifi_service.c, around the MQTT client of module MqttClient.      *)
(*                                                                         *)
(* Two watchdog timers look after a client that is not connected:          *)
(* mqttTimeoutTask (10 s) gives an attempt up, cloudResetTask (2 s later)  *)
(* starts the WiFi module, the socket layer and the client all over.  The  *)
(* head of cloudTask starts them, its tail on a connected client stops     *)
(* them, and four bits of cloudStatus say which one is due.                *)
(***************************************************************************)
EXTENDS MqttClient

VARIABLES
  cloudInitialized,     (* cloudStatus.cloudInitialized                    *)
  isResetting,          (* cloudStatus.isResetting                         *)
  waitingForMQTT,       (* cloudStatus.waitingForMQTT                      *)
  cloudResetTimerFlag,  (* cloudStatus.cloudResetTimerFlag                 *)
  watch,                (* running: mqttTimeout, cloudReset, checkBack     *)
  amConnectingAP,       (* shared_networking_params.amConnectingAP         *)
  amDisconnecting       (* shared_networking_params.amDisconnecting        *)

status   == <<cloudInitialized, isResetting, waitingForMQTT, cloudResetTimerFlag>>
ap       == <<amConnectingAP, amDisconnecting>>
cloud    == <<status, watch, ap>>
allVars  == <<vars, cloud>>

Watchdogs == {"mqttTimeout", "cloudReset"}

----------------------------------------------------------------------------
(* cloudTask.                                                              *)

(* CLOUD_init.                                                             *)
CloudInit ==
  /\ ~cloudInitialized /\ ~isResetting
  /\ isResetting' = TRUE
  /\ watch' = (watch \ {"mqttTimeout"}) \cup {"cloudReset"}
  /\ cloudResetTimerFlag' = TRUE
  /\ UNCHANGED <<cloudInitialized, waitingForMQTT>>

(* Nothing has been started for a connection that is down.                 *)
(* Fault: cloudResetTimerFlag is not looked at.                            *)
UnwatchedAny == ~waitingForMQTT /\ mqttState # "CONNECTED"
Unwatched == ~waitingForMQTT /\ mqttState # "CONNECTED" /\ ~cloudResetTimerFlag

StartMqttConnectionTimeout ==
  /\ cloudInitialized \/ isResetting
  /\ Unwatched
  /\ watch' = watch \cup {"mqttTimeout"}
  /\ waitingForMQTT' = TRUE
  /\ UNCHANGED <<cloudInitialized, isResetting, cloudResetTimerFlag>>

NothingToStart ==
  /\ cloudInitialized \/ isResetting
  /\ ~Unwatched
  /\ UNCHANGED <<status, watch>>

Head500ms == CloudInit \/ StartMqttConnectionTimeout \/ NothingToStart

(* SOCKET_IN_PROGRESS: cloudTask has nothing more to do.                   *)
AwaitSocket == Idle /\ haveAP /\ socketState = "in_progress" /\ UNCHANGED vars

CloudTaskHead ==
  /\ LostWifi \/ OpenSocket \/ AwaitSocket \/ ConnectAppProtocol \/ ReceptionHandler
  /\ Head500ms
  /\ UNCHANGED ap

CloudTaskTransmit == TransmissionHandler /\ UNCHANGED cloud

(* The watchdogs are called off once the client is connected.              *)
(* Fault: the reset stays due.                                             *)
StillWatchedReset == watch \ {"mqttTimeout"}
StillWatched == watch \ Watchdogs

CloudTaskTail ==
  /\ FinishTask \/ FinishAged
  /\ IF mqttState = "CONNECTED"
       THEN watch' = StillWatched /\ isResetting' = FALSE /\ waitingForMQTT' = FALSE
       ELSE UNCHANGED <<watch, isResetting, waitingForMQTT>>
  /\ UNCHANGED <<cloudInitialized, cloudResetTimerFlag, ap>>

SuperviseTask == CloudTaskHead \/ CloudTaskTransmit \/ CloudTaskTail

----------------------------------------------------------------------------
(* The watchdogs.                                                          *)

Fires(timer) == Idle /\ timer \in watch

(* Fault: the attempt is given up and nothing is reset.                    *)
CloudResetNot == UNCHANGED cloudInitialized
CloudReset == cloudInitialized' = FALSE

MqttTimeoutTask ==
  /\ Fires("mqttTimeout")
  /\ watch' = watch \ {"mqttTimeout"}
  /\ CloudReset
  /\ waitingForMQTT' = FALSE
  /\ UNCHANGED <<vars, isResetting, cloudResetTimerFlag, ap>>

(* cloudResetTask keeps what reInit returns.                               *)
(* Fault: it takes every reset for a success.                              *)
OutcomeIgnored(succeeded) == cloudInitialized' = TRUE
Outcome(succeeded) == cloudInitialized' = succeeded

(* reInit; wifi_connectToAp may fail, which leaves without a timer.        *)
CloudResetTask ==
  /\ Fires("cloudReset")
  /\ StartOver
  /\ amConnectingAP' = TRUE
  /\ isResetting' = FALSE
  /\ \/ /\ watch' = (watch \ {"cloudReset"}) \cup {"mqttTimeout"}
        /\ cloudResetTimerFlag' = FALSE
        /\ waitingForMQTT' = TRUE
        /\ Outcome(TRUE)
     \/ /\ watch' = watch \ {"cloudReset"}
        /\ UNCHANGED cloudResetTimerFlag
        /\ waitingForMQTT' = FALSE
        /\ Outcome(FALSE)
  /\ UNCHANGED amDisconnecting

----------------------------------------------------------------------------
(* wifiCallback and checkBackTask.                                         *)

(* wifiConnectionStateChanged of the application, told unless a loss of    *)
(* the access point is being waited out: it resets when there is none.     *)
StateChanged(connected, disconnecting) ==
  IF connected \/ disconnecting THEN UNCHANGED cloudInitialized ELSE CloudReset

WifiConnected ==
  /\ Idle
  /\ IF amConnectingAP /\ ~haveAP
       THEN haveAP' = TRUE /\ amConnectingAP' = FALSE
       ELSE UNCHANGED <<haveAP, amConnectingAP>>
  /\ StateChanged(TRUE, amDisconnecting)
  /\ UNCHANGED <<client, socket, broker, sendSubscribe, task, isResetting,
                 waitingForMQTT, cloudResetTimerFlag, watch, amDisconnecting>>

WifiDisconnected ==
  /\ Idle
  /\ haveAP' = FALSE /\ amConnectingAP' = TRUE /\ amDisconnecting' = TRUE
  /\ watch' = watch \cup {"checkBack"}
  /\ StateChanged(FALSE, amDisconnecting')
  /\ UNCHANGED <<client, socket, broker, sendSubscribe, task, isResetting,
                 waitingForMQTT, cloudResetTimerFlag>>

(* DHCP_CONF, with the host lookup under way.                              *)
WifiAddressed ==
  /\ Idle /\ amDisconnecting
  /\ watch' = watch \ {"checkBack"}
  /\ amDisconnecting' = FALSE
  /\ UNCHANGED <<vars, status, amConnectingAP>>

CheckBackTask ==
  /\ Fires("checkBack")
  /\ watch' = watch \ {"checkBack"}
  /\ haveAP' = FALSE /\ amDisconnecting' = FALSE /\ amConnectingAP' = TRUE
  /\ UNCHANGED <<client, socket, broker, sendSubscribe, task, status>>

WifiCallback == WifiConnected \/ WifiDisconnected \/ WifiAddressed \/ CheckBackTask

ClientCallback ==
  /\ \/ \E c \in Clocks : TimerFires(c)
     \/ Publish \/ Unsubscribe
     \/ SocketConnects \/ SocketReceives \/ SocketFails
  /\ UNCHANGED cloud

----------------------------------------------------------------------------
ServiceInit ==
  /\ Init
  /\ cloudInitialized = FALSE /\ isResetting = FALSE
  /\ waitingForMQTT = FALSE /\ cloudResetTimerFlag = FALSE
  /\ watch = {} /\ amConnectingAP = TRUE /\ amDisconnecting = FALSE

ServiceNext ==
  SuperviseTask \/ MqttTimeoutTask \/ CloudResetTask \/ WifiCallback \/ ClientCallback

ServiceSpec == ServiceInit /\ [][ServiceNext]_allVars

(* cloudTask runs every 500 ms, and a watchdog that is not stopped fires;  *)
(* its callback waits for cloudTask to be idle, hence strong fairness.     *)
ServiceFairness ==
  /\ WF_allVars(SuperviseTask)
  /\ SF_allVars(MqttTimeoutTask) /\ SF_allVars(CloudResetTask)

FairServiceSpec == ServiceSpec /\ ServiceFairness

----------------------------------------------------------------------------
(* Properties.                                                             *)

CloudTypeOK ==
  /\ TypeOK
  /\ cloudInitialized \in BOOLEAN /\ isResetting \in BOOLEAN
  /\ waitingForMQTT \in BOOLEAN /\ cloudResetTimerFlag \in BOOLEAN
  /\ watch \subseteq Watchdogs \cup {"checkBack"}
  /\ amConnectingAP \in BOOLEAN /\ amDisconnecting \in BOOLEAN

(* A client that is not connected is looked after: a watchdog runs, or the *)
(* next run of cloudTask starts one.  The bits of cloudStatus never        *)
(* contradict each other so that both branches of its head are shut.       *)
Supervised ==
  Idle /\ mqttState # "CONNECTED" =>
    \/ watch \cap Watchdogs # {}
    \/ ~cloudInitialized /\ ~isResetting
    \/ cloudInitialized /\ Unwatched

(* The watchdogs follow each other and never run at the same time:         *)
(* mqttTimeoutTask would cut a reset short and have it begin again.        *)
OneWatchdog == ~(Watchdogs \subseteq watch)

(* With its supervisor around it the client still does what MqttClient     *)
(* says, above all: nothing resets a client that is connected, though a    *)
(* reset is started anew every 500 ms after a connection that came up      *)
(* between CLOUD_init and cloudResetTask.                                  *)
ImplementsMqttClient == Spec

(* The device does not stay offline in silence: it is connected again and  *)
(* again, or it keeps starting over.                                       *)
WatchdogBites ==
  []<>(mqttState = "CONNECTED") \/ []<><<CloudResetTask>>_allVars

(* application_manager.c:529: "If we have no AP access we want to retry":  *)
(* a disconnect that the WINC reports leads to a reset of the cloud.       *)
RetryWithoutAp == [][WifiDisconnected => ~cloudInitialized']_allVars
=============================================================================
