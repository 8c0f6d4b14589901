# Verification of the AVR-IoT firmware (AVRIoT.X)

The firmware runs on an AVR-IoT board: an 8-bit microcontroller without an
operating system, a WINC1510 WiFi module on SPI that holds the TCP/IP stack, a
crypto chip and a few sensors on I2C. It keeps an MQTT connection to AWS and
publishes sensor data over it. This directory holds TLA+ models of the parts in
which it is decided whether the device stays connected, its timers keep running,
and what it says and hears on its buses is what was meant; the TLC configurations
that check them on small instances; and TLAPS proofs of most of their safety
properties for every value of the constants.

Paths are relative to `src/mcc_generated_files/` unless they begin with `src/`.

## 1. Inventory

### How the system runs

There is one thread. `main` calls `application_init` and then, for ever,
`runScheduler`, which is `timeout_callNextCallback`: it takes the first expired
timer and runs its callback. Everything else is a timer callback or is called by
one: `cloudTask` (every 500 ms), `wifiHandlerTask` (every 50 ms, it polls the
WINC driver, which in turn calls `wifiCallback` and `BSD_SocketHandler`),
`MAIN_dataTask`, the timers of the MQTT client and the watchdogs of the cloud
service. Interrupts run between any two instructions: RTC overflow (timers), TWI
(I2C), USART (serial port), a pin change of the WINC.

Two kinds of concurrency follow. Main code and the RTC interrupt share the timer
lists, at instruction granularity. The callbacks interleave with each other, one
whole callback at a time, in an order that the network, the broker, the access
point and the clock decide.

### Components

| Component | Source | State | Operations | What makes it correct |
|---|---|---|---|---|
| Timer driver | `drivers/timeout.c`, `src/rtc.c` | two linked lists through one `next` field, `absoluteTimeofLastTimeout`, `lastTimerLoad`, `isRunning`, RTC counter, interrupt flag and enable | `timeout_create`, `timeout_delete`, `timeout_flushAll`, `timeout_isr`, `timeout_callNextCallback` | a timer is in one list at most; the counter is loaded for the head; the interrupt that serves the list is not left off; each start gives one callback, in the order of expiry |
| MQTT client | `mqtt/mqtt_core/mqtt_core.c`, `mqtt/mqtt_comm_bsd` | `mqttState`, the flags `mqttTxFlags`, `mqttRxFlags`, `mqttTimeouts`, five timers, the exchange buffers | create a packet, `MQTT_ReceptionHandler`, `MQTT_TransmissionHandler`, `MQTT_Disconnect`, `MQTT_ClientInitialise` | connected only after its own CONNACK; one request of a kind at a time; no response awaited without a timer; keep-alive never lost |
| Exchange buffer | `mqtt/mqtt_exchange_buffer` | memory, `currentLocation`, `dataLength` | Init, Write, Peek, Read | a bounded queue of bytes |
| Cloud service | `cloud/cloud_service.c`, `cloud/aws_cloud_service.c` | bits of `cloudStatus`, two watchdog timers | `cloudTask`, `mqttTimeoutTask`, `cloudResetTask` with `reInit` | an unconnected client is always supervised, by one watchdog; nothing resets a connected one |
| WiFi service | `cloud/wifi_service.c` | `shared_networking_params`, `responseFromProvisionConnect`, the credentials, `checkBackTimer`, `softApConnectTimer` | `wifiCallback`, `checkBackTask`, `softApConnectTask`, `wifi_connectToAp` | a lost access point is noticed and a regained one used again; a retry ends with what it was for |
| LEDs | `led.c` | two timers for each of four LEDs | `LED_control`, the callbacks by which the timers start each other | an LED shows what the flags it is set from say |
| BSD socket adapter | `mqtt/mqtt_winc_adapter.c` | socket states | `BSD_*`, `BSD_SocketHandler` | its states follow those of the WINC |
| WINC socket layer | `winc/socket/socket.c` | socket table, session numbers, pending receives | `socket`, `connect`, `send`, `recv`, `close`, `m2m_ip_cb` | a late reply of a closed socket does not reach the socket that reuses its number; no entry is lost |
| WINC host interface | `winc/driver/winc_hif.c`, `winc_adapter.c` | the count of edges of the interrupt pin, whether its interrupt is on | `winc_hif_send`, `winc_hif_handle_isr`, `winc_adapter_interrupt_serviced` | no reply that the WINC presents is overlooked |
| Application | `application_manager.c`, `src/main.c` | the data task, the switch the broker sends, `holdCount` | `application_init`, `MAIN_dataTask`, `receivedFromCloud` | starts tasks once, publishes only when connected |
| I2C master | `src/twi0_master.c`, `drivers/i2c_simple_master.c` | the state of a machine that the interrupt runs, its callbacks and buffer | `I2C0_Open`, `I2C0_MasterOperation`, `I2C0_Close`, the interrupt | bytes in order, each once; every call ends |
| Serial port | `src/usart2.c` | two ring buffers shared with the interrupts | read, write, two interrupts | no byte lost unnoticed or repeated |
| Command line | `cli/cli.c` | the line being typed | `CLI_task` | runs what was typed as a line |
| Time service, sensors and classifier, crypto client, start-up, TCP/IP Lite layer | see `PROJECT.json` | little or numeric | | |

### Interactions

- `cloudTask` opens the socket (BSD adapter, WINC), starts MQTT on it, runs the
  two MQTT handlers and calls the watchdogs off. It is the only caller of the
  handlers, so they never run while a callback is half-way.
- The WINC driver, polled by `wifiHandlerTask`, answers through callbacks: `BSD_SocketHandler` changes the
  socket's state and hands received data to `MQTT_GetReceivedData`;
  `wifiCallback` changes `haveAPConnection`, `amConnectingAP` and
  `amDisconnecting`, which `cloudTask` reads in its next run and `MAIN_dataTask`
  turns into LEDs. A reply waits in the WINC until the one before it has been taken.
- The client's timers only set bits of `mqttTimeouts`, which the handlers read
  when they run next: a response and its timeout race.
- `wifiConnectionStateChanged` of the application calls `CLOUD_reset`, which
  only clears `cloudInitialized`; the next `cloudTask` acts on it.

### What is hard here

The hazards with their lines are in `PROJECT.json`. In short: the RTC interrupt
in the middle of list surgery; absolute times that wrap and a counter shorter
than the timeouts; flags that outlive the connection they belong to; timers
that fire after the answer; data of the previous connection; several packets in
one segment; failed sends half-way through a handler; watchdogs that overtake
each other; replies to sockets that have been closed; counts that an interrupt and main
code both change; a state machine whose next state main code stores after the interrupt
may have run it; and everything that must happen eventually although each piece of it
is a timer somebody has to restart.

## 2. Modules

| Module | Models | |
|---|---|---|
| `TimerService` | what the timer driver promises | abstract specification |
| `TimeoutDriver` | `drivers/timeout.c` on the RTC | implements `TimerService` (checked and proved) |
| `TimeoutDriverProofs` | | type correctness, `OneHome`, `LoadedForHead`, `ListIsServed`, `SortedUntilRebase`, the refinement |
| `MqttClient` | the client, its communication layer, the socket as the client sees it, the part of `cloudTask` that drives it | |
| `CloudService` | `EXTENDS MqttClient`: the rest of `cloudTask`, the watchdogs, the access point callbacks | implements `MqttClient` (checked and proved) |
| `CloudServiceProofs` | | type correctness and all five invariants of `MqttClient`; the service's invariants and the refinement |
| `WifiService` | `cloud/wifi_service.c`, the data task and the reception of `application_manager.c`, `led.c` | |
| `WifiServiceProofs` | | type correctness and all its properties |
| `MqttPackets` | the bytes of `mqtt_core.c`: creation, sending, reading a PUBLISH | |
| `MqttPacketsProofs` | | type correctness, `SentIsAsked`, `HeardIsPublished` |
| `ByteQueue` | what an exchange buffer promises | abstract specification |
| `ExchangeBuffer` | `mqtt/mqtt_exchange_buffer` | implements `ByteQueue` (checked and proved) |
| `ExchangeBufferProofs` | | type correctness and the refinement |
| `WincSocket` | `mqtt_winc_adapter.c` on `winc/socket/socket.c` on the host interface | |
| `WincSocketProofs` | | type correctness and its four invariants |
| `TwiMaster` | `src/twi0_master.c` under the calls of `i2c_simple_master.c` | |
| `TwiMasterProofs` | | type correctness, `HeardInOrder`, `WholeUnlessRefused` |
| `SerialConsole` | `src/usart2.c` with `CLI_task` as its user | |
| `SerialConsoleProofs` | | type correctness and its two invariants |
| `MCTimeout`, `MCMqtt`, `MCCloud`, `MCWifiService`, `MCMqttPackets`, `MCExchangeBuffer`, `MCWincSocket`, `MCTwiMaster`, `MCSerialConsole` | | small instances |

Names are those of the source where TLA+ allows. An operator marked "Fault" in
its comment stands beside a definition it resembles: it is that definition with a
plausible mistake in it, and exists to show that a property notices the mistake.

### TimeoutDriver

`list` and `queue` are `listHead` and `executeQueueHead`; linked lists become
sequences, which is right as long as no timer is in both, and `OneHome` says
that. `abs`, `absLast`, `lastLoad`, `running` are the module's variables;
`cnt`, `ovfIE`, `ovfFlag` are the RTC's registers. `pc`, `which`, `op` and
`tempIE` are where main code stands in the driver. A driver call is cut into a
step at every place where the overflow interrupt is enabled and could fall, and
where one more tick makes a difference to what is computed next: for
`timeout_create` those are the unguarded head test of `timeout_deleteHelper`, the
search, the way to the guard, `makeAbsolute` and the insertion.

`TimeoutIsr` runs before the next tick or step once an overflow is pending and
enabled, which is the assumption stated in the code ("assumes the callback
completes before the next timer tick"). A load of the counter takes effect at
once, and `cnt = 0` on an overflow. `ClearOVFInterruptFlag` leaves the flag
as it is: `rtc.c:179` writes `INTFLAGS &= ~OVF`, and the hardware clears a flag
where a one is written. When `timeout_isr` finds `listHead` NULL it reads through
it; `wild` records that and main code stops there, for what follows is undefined.
`rebased` is not of the program: it says that `rebaseList` has been at the list since it was empty.
`Timeouts` may be any absolute times.

### MqttClient

A run of `cloudTask` on an open socket is three steps, reception handler,
transmission handler and the rest (`task` is `idle`, `transmit`, `after`).
Nothing comes between them in the code; the cut keeps each handler an action of
its own, and every other action waits for `Idle`. Each case of the two handlers is
one disjunct: `ReceiveOverdue` is the response-timeout branch, `ReceiveConnack` the
CONNACK case, and so on.

Packets are their types; a bad return code or granted QoS makes `refused`,
`subfail`, `unsubfail`. `rxbuff` holds unread packets. A received segment
replaces what was unread, since `MQTT_GetReceivedData` first resets the buffer; the
handlers that end with `MQTT_ExchangeBufferInit` drop what follows the packet they
have read (`DropReceived`), the CONNACK case takes only its packet.

`asked` and `unanswered` are no variables of the program: they record for the
properties what went out on the present TCP connection and what the broker has
answered. The broker answers each request at most once, in any order, good or bad,
or never, and sends publications at any time.

Durations are abstracted: a timer that runs may fire whenever the superloop is
free. Every real schedule of 10 s keep-alive and 30 s response timeouts is among the
model's behaviours, so what holds in the model holds in the code.

### CloudService

`CloudTaskHead` is the part of `cloudTask` before the socket switch, conjoined
with the step of the client that this run takes, for they are one callback;
`CloudTaskTail` adds to the client's last step what `handleSocketState` does when
connected. `watch` is the set of running watchdog timers. `CloudResetTask` is
the callback with `reInit` inside; it may fail in `wifi_connectToAp`.
`wifiCallback` is three actions by message, `checkBackTask` a fourth.

What the model brought to light about the code, besides the findings below:
after a connection that comes up in the two seconds between `CLOUD_init` and
`cloudResetTask`, `cloudInitialized` stays false; every later run of `cloudTask`
calls `CLOUD_init`, creating `cloudResetTaskTimer` anew, and the tail of the same
run deletes it. That the reset never strikes is what `ImplementsMqttClient` says.
And `checkBackTask` may mark a working access point as lost when it fires between
association and DHCP; only the watchdogs put that right.

### WifiService

The reports of the WINC wait in `events` until `wifiHandlerTask` takes the first, and
timers fire and tasks run in between. A WINC that is an access point reports a phone that
joins and leaves just as it reports its own link, and what the user enters. Of an LED there
is which of its two timers runs and whether it is lit, so blinking is two states that follow
each other (`LedService`) and `LED_control` one function (`Controlled`). `CloudTask` and
`CloudResetTask` are the effects of `CloudService` on the flags that this module reads;
that the reset does not meet a connected client is `ImplementsMqttClient` there. `lost` is
not of the program: it says that the last report taken was a loss.
`LinkReported` is an assumption on the WINC: its report of a link comes before the
answers that came over that link.

What the model brought to light: the green LED stays solid while the device reconnects, since
`amConnectingSocket` is set by then and the data task leaves the LED alone. The blue
LED stays solid after `reInit`, which ends a connection without a report. A provisioned
device comes online only by way of `CLOUD_init` and the reset that follows it. A CONNECTED report
for another link, such as a phone joining, that is taken while
`responseFromProvisionConnect` is set deletes `softApConnectTimer` and clears the new
credentials, although the log has said "Connect Credentials sent to WINC"; and a phone that
leaves and joins again makes a softAP set `haveAPConnection`.

### MqttPackets

Bytes are numbers, packets sequences of them, with the sizes of the build. A packet is created
with its lengths and sent later, when its bytes are read from where the application
keeps them, so `text` (the static buffers of `sendToCloud` and `updateDeviceShadow`) may have
changed; `asked` records what was last requested and `Parse` reads what went out the way
MQTT 3.1.1 has it. The way in is the same with `Decoded` for the code and the
broker's PUBLISH as the reference.

What comes in is a segment of any length (`Segments`), with whatever stands in it. `MQTT_GetReceivedData`
takes its length in an `uint8_t`, so `Received` keeps the length modulo 256 of it, and of a reply longer than the buffer
of 400 bytes the last piece. `mqttProcessPublish` reads the topic into `mqttTopic[100]` and the payload into
`mqttPayload[200]` with the lengths that stand in the packet and tests neither (`mqtt_core.c:960`, 961, 982, 987).
`InArrays` says that both hold what is read, with the zero behind the payload that `strstr` needs; when
they do not, `overrun` is set and the behaviour ends, for what the program does then is undefined. The run's broker
does send a payload of 200 bytes, and its split publication is read with lengths that nobody sent; both set `overrun`.

`HeardIsPublished` is therefore about `Supported` publications: topic of at most 100 bytes and payload below 200, as
`mqtt_config.h` has them, at the front of a segment of fewer than 256 bytes, whatever follows there.
Two publications of ordinary size in one segment reach 256, and then the rest is cut off or all of it is lost. That the
code keeps to these limits of its own is not claimed: nothing in it does.

`payloadLength` of a packet to be sent has eight bits as well, but the two buffers of the application hold 200. With
QoS 2 the length would count an identifier that is not written; only QoS 0 is used. A packet is at most
283 bytes, so the transmit buffer of 400 never cuts it. These are the assumptions `ConnectFits`, `PublishFits` and
`TopicFits`, as sums of lengths: each packet fits its buffer with three bytes for its type and length,
and what is counted in eight bits is below `LenWidth`. They are what the sizes of the application's buffers give.

### ExchangeBuffer

Addresses count from `start`. `MQTT_ExchangeBufferPeek` does not wrap: its `ptr`
is set once and compared with the end, so a peek of several bytes across the end
reads memory that is not the buffer's (`Foreign`). Both callers (`mqtt_core.c:1179`
and 1226) peek `sizeof` a packet header, one byte, so `PeekLengths` is {1} in the
instance; with 2 the refinement fails as soon as reads have moved
`currentLocation` to the last byte.

### WincSocket

`sockets` is the table of `socket.c`, `state` the client's entry in the adapter's table; an
entry's `bIsUsed` goes with its session number, so a number other than 0 stands for both.
`requests` are commands that the WINC has to answer, `rx` the answers it holds. The handshake by
which it gives them to the host is cut where the pin's interrupt can fall: `Serviced` and
`Reenabled` are the two halves of `winc_adapter_interrupt_serviced`, and the WINC presents
its next reply after `RxDone` only. A command that is reported as failed is taken as
not executed. `Forgotten` is the assumption under which 16 bits of session number are
enough. `mine`, `got` and `leaked` are for the properties. Listening, accepting and UDP have no
caller in this build, `winc_hif_set_power_save` neither. `Reinit` stands for `wifi_reinit` whatever the socket's state: the reset
watchdog may meet a TCP connection on which MQTT has not been accepted. It initialises the chip (`ResetChip`) and the table. Of
the two reads of a reply to `recv`, its head and its data, either may fail.

What the model brought to light: `recv` leaves `bIsRecvPending` set when its command is lost or
the reply cannot be read, and the socket hears nothing more until it is closed. A failed close
leaves its entry in use; a late reply to `send` or `recv` then makes the closed socket
"connected" again, which `ConnectedIsUsed` shows to be harmless. A stale reply to `recv` clears the
pending flag before its session is compared. With the table full `socket` resets the last entry and returns
-1, and `CLOUD_connectSocket` still reports success. A bus error after the WINC's interrupt has
been cleared leaves the WINC waiting until `wifi_reinit`, which the watchdogs see to.

### TwiMaster

`state`, `busy`, `addressNACKCheck` and the rest are fields of `I2C0_status`; a callback that nobody
sets to anything but one or two functions is the name of what it asks for (`call.then`,
`call.refused`). Each `I2C0_DO_*` is an operator, `MasterIsr` chooses by `Overridden`. Main code
is `MasterOperation`, after which the interrupt may run before `StoreState`
(`overtaken`: the interrupt has come first, and the state it left is then overwritten; the
bus is taken not to finish another byte in these few instructions), and the loop around `I2C0_Close`. A device
answers or refuses each address and byte; `Fault` is a lost arbitration or a start or stop where
none belongs. Noise may also interrupt a bus at rest, which is the one way to the handlers of `RESET` and `IDLE`;
`MasterResetBus` writes `MSTATUS` and so clears what was flagged.

What the model brought to light: `MSTATUS |= RIF|WIF` clears the error flags before the overrides look
at them, so only faults that rise inside the interrupt are seen, and after another
one main code may wait in `I2C0_Close` for ever. An address or byte that is refused ends
with `I2C0_NOERR`, because `I2C0_DO_IDLE` sets that again (`twi0_master.c:364`, against
`include/twi0_master.h:50`). A refused address of the repeated start of a read calls the
restart-write callback, which writes the buffer meant for reading. A device that is absent is
polled with its address for ever. `while(!I2C0_Open())` works because the second call reports the bus as in
use. A length of 0 would be counted down through the whole of `size_t`.

### SerialConsole

`USART2_Read` and `USART2_Write` are cut between any two accesses to what they share with the
interrupts; the interrupts are one step each. The line buffer takes letters and ends of
lines; an answer is a number of characters. `typed`, `ran`, `written`, `sent` and `dropped`
are for the properties. The build switches the command line off (`CFG_ENABLE_CLI` is 0); the
transmitting half is in use by `printf`.

What the model brought to light: `rxElements` may equal the size of the buffer for a moment. A
character that finds no room is lost and nobody is told, hence the condition `~dropped`. Of two
lines that are read in one run of `CLI_task` the second is dropped. `test` is not reset by ordinary
characters, so after a CR the next line that ends with an LF is swallowed. A line that is exactly as long
as the buffer has its terminator written one place behind it.

## 3. Runs

| Run | Asks | Result | Size |
|---|---|---|---|
| `timeout_core` | types, `OneHome`, `SortedUntilRebase`, `LoadedForHead`, `ListIsServed`; the driver is a `TimerService`; every started timer is served | holds | 2 timers, timeouts 0, 1 and 5 on a counter of 0..3, times modulo 14, 3 calls |
| `timeout_late` | a timer gets the time it asked for | violated | |
| `timeout_early` | a timer is not expired before its load has run out | violated | |
| `mqtt_client` | types, `OneOutstanding`, `AwaitedIsWatched`, `KeepAliveGoes`, `OnlineIsAccepted`, `UnknownIsClosed`; a silent broker is noticed (`SilenceIsNoticed`) | holds | both requests, 437 716 states, fair specification |
| `mqtt_packets` | types; what goes out is what was asked for last, what is heard of a supported publication is what was published; the program may stop, after `overrun` | holds | 150 035 states, sizes of the build |
| `cloud_service` | `Supervised`, `OneWatchdog`, refinement of `MqttClient`, `WatchdogBites` | holds | 336 844 states, fair specification |
| `cloud_retry` | a lost access point resets the cloud connection | violated | |
| `wifi_service` | types, `BlueMeansAp`, `ToggleIsShown`, `NeverDisturbed` | holds | 174 875 states, 3 reports waiting |
| `winc_socket` | types, `ConnectedIsUsed`, `DataIsOurs`, `NoLeak`, `PresentedIsCounted`; again and again the client has a socket while the WINC is free to report (`NotLockedOut`) | holds | 1 374 958 states, 2 sockets, 4 session numbers, fair specification |
| `i2c_master` | types, `HeardInOrder`, `WholeUnlessRefused`, `CallsReturn` | holds | 20 450 states, nine calls of up to 3 bytes, fair specification |
| `serial_console` | types, `CommandsAreLines`, `OutputInOrder`, `AllGoesOut` | holds | 193 729 states, fair specification |
| `exchange_buffer` | refinement of `ByteQueue` | holds | 3 bytes of memory, writes and reads of up to 4 |

### Bounds

- **Timers.** Two timers make every pair of positions in the two lists, with the
  driver's dummy three entries. `MaxCount = 3` stands for 65535: timeout 1 fits, 5
  needs the dummy, 0 expires at once, so a head that is split, deleted behind its dummy and displaced by
  a shorter timer all occur within three calls (`MaxCalls` counts creations,
  deletions, flushes and reschedules; the clock and the interrupt are not bounded).
  `AbsMod = 14` stands for 2^32: absolute times cross it within a few loads and
  `rebaseList` runs, with timers in the list and without. The two violation runs have 1024 and a
  counter of 15, so that what they show does not come from the smallness of these.
- **MQTT.** One packet to a segment. What follows a packet in its segment is either dropped
  with it or read next, which is what a packet that never comes, or comes in a segment of its own,
  does too; and the invariants are proved for every length of segment. The client's flags are sets, so
  nothing else is bounded: connections may be lost and made any number of times.
- **Cloud.** The same, with the one request the application makes.
- **Packets.** Buffers of 400 bytes as in the build, payloads that give remaining lengths of
  127 and 128, where the coding takes a second byte, and the longest that the application's buffers
  allow. Segments of 255 bytes, the most that is counted, of 256, of 315 and of 409, which is beyond the buffer; a
  publication in two segments; payloads of 199 and 200 bytes.
- **WiFi.** Three reports waiting: a link that is lost and regained before the first of them is
  taken. Everything else is finite by itself.
- **WINC.** Two sockets, so that the table can be full while the client has none and a
  reply can belong to the other socket; four session numbers, so that they come round; one reply held back at
  the WINC besides any number of commands that it has yet to answer. The proofs are for
  any numbers.
- **I2C.** Up to three bytes: a first, one that is neither, a last. `SizeMax` stands for the range of
  `size_t`; it is not met, as no call has length 0.
- **Serial port.** A receive buffer of 4, of which 3 are used, a transmit buffer of 2 against answers of 3, a line
  buffer of 1, and 5 characters typed: the buffers fill up and wrap around, and lines are too long.
- **Buffer.** Memory of 3 and transfers of up to 4 give full, empty, wrapped and
  overlong transfers from each position.

### Fairness

- `TimeoutDriver`: weak fairness of `Tick` (the crystal), `TimeoutIsr` (a pending
  enabled interrupt is taken), of main code inside the driver, and of the superloop,
  which also says that callbacks return. The application need not call anything.
- `MqttClient`: weak fairness of `CloudTask`, which re-creates itself every 500 ms
  because its callback returns the interval, and strong fairness of `pingrespTimer`:
  its callback must find `cloudTask` idle, which it does again and again but not
  continuously. Nothing is assumed of the broker or the network.
- `CloudService`: weak fairness of the whole of `cloudTask` (`SuperviseTask`), strong fairness of the two
  watchdogs for the same reason. The access point and the WINC owe nothing.
- `WincSocket`: weak fairness of `ConnectSocket`, which `cloudTask` calls whenever there is no socket, and of the
  host's steps inside `winc_hif_handle_isr`; of `ClientCloses` while the WINC waits for an RX done, for a client that hears
  nothing closes its connection, which `SilenceIsNoticed` of `MqttClient` shows; strong fairness of `Reinit` while there is no
  connection, the watchdogs' way out, which `WatchdogBites` of `CloudService` shows. The WINC need not answer.
- `TwiMaster`: weak fairness of main code, the interrupt and the bus (`Progress`; a fault never has to come), strong fairness of `AddressAcked`: a
  device that is polled with its address answers some time. Without the last a call to an absent device
  does not return, and the code has nothing against that.
- `SerialConsole`: weak fairness of main code and of the transmitter's interrupt.
- `WifiService`, `MqttPackets` and `ExchangeBuffer` have safety properties only.

That running timers fire is what `EveryTimerIsServed` shows of the timer driver; the
fairness of the tasks rests on it.

### Findings

1. `timeout_late`: a timer can get more than it asked for. `makeAbsolute` adds the ticks that the counter has run
   (`drivers/timeout.c:88`); if the timer becomes the head, `setTimerDuration` loads the counter with its time
   less the time base (`timeout.c:151`, 179, 190), and neither moves the base. The ticks that have run are in
   the load and the counter begins from nothing: a timer of 1 that is created one tick into a timer of 5 is
   called after 2. Nothing wraps in this run.
2. `timeout_early`: the overflow flag is not cleared when the counter is loaded anew
   (`src/rtc.c:179`), so an overflow that was pending expires the new head at once.
3. `cloud_retry`: `wifiCallback` sets `amDisconnecting` three lines before it tests it, so
   the application is never told of a disconnect (`wifi_service.c:348`).

Smaller ones without a run, besides those told of with their modules:
`timeout_flushAll` deletes the dummy, deleting it restarts the counter, and that puts the dummy
back, so it would never end (`drivers/timeout.c:201`; no code of this build calls it). The timeout bit of a
response is cleared only when the request is sent again (`mqtt_core.c:1156`), so
once one was set each later connection is closed in the first run of the reception handler, before
anything was asked on it. The reception handler returns for want of data before it looks at the CONNACK
timeout (`mqtt_core.c:1166`); the watchdogs still get the device out.
Once `rebaseList` has run, the time base is a number just below 2^32; when the counter is then started anew, a
short timeout gives a time below it that does not wrap, and the timer goes to the end of the list, 2^32
ticks late. "Adjust the time base so that we can never wrap" (`drivers/timeout.c:98`) is meant to
prevent just that; `Sorted` is false for this reason, and `SortedUntilRebase` is what holds.
Read in the code and shown by no run: for a time that has wrapped `sortedInsert` has `rebaseList` add 65536, the
range of the counter, although absolute times have 32 bits (`drivers/timeout.c:134`).
`timeout_hasPendingTimeouts` and `timeout_hasPendingCallbacks` return the opposite of
their names (`drivers/timeout.c:47-55`). `MQTT_ExchangeBufferWrite` reports a truncated
write as whole.

## 4. Proofs

Everything is proved for all values of the constants that satisfy the assumptions
named in the modules; these ask no more than that timers, the dummy and the two
pseudo-callbacks differ, that the modulus exceeds the counter and the timeouts are absolute times,
that subscribing is among the requests, that tables and buffers have some size, that a CR is not an LF, and that the I2C calls are of the shapes
that `i2c_simple_master.c` has. Those of `MqttPackets` ask that packets fit the buffers; see there.

- **`TimeoutDriverProofs!TypeCorrect`.** `TypeOK` alone is not inductive: popping the
  queue needs it not to be empty, and the insertion needs `op` to hold a timer and a
  timeout. `Control` adds what each `pc` says of `op` and of the queue. The
  load `MaxCount - duration` stays in 16 bits only because `TooFar` breaks up longer
  periods, which is the point of that theorem.
- **Its lists.** In the same module `OneHomeHolds`, `LoadedForHeadHolds` and `ListIsServedHolds`
  come out of one inductive invariant, `Lists`, because none of the three is inductive
  without the others: what is at the head decides whether the counter is loaded for it, and
  `DeleteHead` restarts the counter for a list that must not hold the dummy twice. Added to
  them are `Absent` (`timeout_create` has taken its timer out of both lists and it
  stays out until inserted), `Passed` (while the queue is searched, the timer is not in
  `listHead`: the interrupt moves timers only from `listHead` to the queue), `Stopped`
  (timers in the list of a stopped counter occur only at the start of
  `timeout_flushAll`, which then deletes the head) and `Enabled` (the interrupt of a
  running counter is on, or main code is about to put it back). The step that restarts the
  counter is `StartFacts`; a deletion that leaves the head alone does not restart it, and
  its insertion counterpart relies on `rebaseList` subtracting the same amount from the time
  base and from every entry, so that the difference under the modulus stays (`ModDiff`).
- **Its order.** `SortedHolds` adds to the order that no entry of the list lies before the time base (`Ordered`), for
  `startTimerAtHead` puts the dummy at the time base plus 65535 and must not put it behind the head. A time that wraps
  lies before the time base, which is when `rebaseList` runs; from then on the order is lost until the list is empty
  (see Findings), hence `rebased`.
- **Its promise.** `ImplementsTimerServiceHolds` maps the list without the dummy to the timers that are
  pending, the queue to those expired. Under `Lists` the interrupt is `Expire` or, for the dummy, a stutter; a deletion
  takes the timer out of wherever it was; the insertion starts it; and what falls between the steps of one call is a
  step of the service by itself.
- **`TwiMasterProofs`.** `TypeCorrect` holds whatever is refused and whatever fault meets the bus. It needs `Counted`
  (bytes gone and bytes left add up to the buffer), `Lasting` (in each state in which a byte will be moved there is one
  left, so that `--data_length` does not wrap) and `Starting` (the interrupt that overtakes
  `I2C0_MasterOperation` leaves the buffer alone). `HeardInOrderHolds` and `WholeUnlessRefusedHolds` come out of `Told`, which says,
  for each thing that the bus may be doing, what has been heard and got so far: nothing while the first address is out
  (`Addressing`), as many bytes as the buffer is behind (`Writing`, `Reading`), all of it once the bus is let go
  (`Ended`). Neither theorem is inductive, for what is on the bus decides which byte comes next.
  `Agreed` is why the state that main code stores late does no harm: until then only an address has been on the bus, and
  storing it again names the state that the answer is awaited in.
- **`CloudServiceProofs`, the client.** `TypeCorrect` first. `OneOutstandingHolds`,
  `AwaitedIsWatchedHolds`, `KeepAliveGoesHolds` follow action by action from their own
  formula with the types, some with another of the invariants. `UnknownIsClosedHolds` needs "closed" in place of "not
  connected", for a connecting socket may come up. `OnlineIsAcceptedHolds` needs the most:
  `Handshake` says that a client past its CONNECT has no half-open socket, that
  on an open one it has sent it, and that a CONNACK in the buffer answers this CONNECT and
  no earlier one, because every way to a new connection empties the buffer; `Broker`
  says that only what was asked is unanswered.
- **`CloudServiceProofs`, the service.** `Bookkeeping` ties the bits of `cloudStatus` to the running
  watchdogs: `isResetting` iff the reset is due, `waitingForMQTT` iff the attempt is being
  timed, the second only when initialised and not resetting, `cloudResetTimerFlag` set
  while resetting and clear once initialised. It is inductive by itself, and
  `SupervisedHolds` and `OneWatchdogHolds` are its consequences.
  `RefinesMqttClient` needs `NoResetDue`: between two runs of `cloudTask` a connected
  client has no reset due, and a connecting socket has no connected client. Under it
  `CloudResetTask` is `ReInit`, and the access point callbacks are `Wifi` or a stutter.
  `CloudTypeCorrect` then gets the client's half from `TypeCorrect` through the refinement.
- **`WifiServiceProofs`.** `Retries` says that the retry timer runs only while
  `responseFromProvisionConnect` is set, and that the credentials are then the user's; `Reports` that behind what
  the user has entered stands a report of the connection as long as the WINC is joined, and that
  an online client has nothing of provisioning left. Together they give `NeverDisturbedHolds`.
  `BlueMeansApHolds` needs `Blue`: with `haveAPConnection` set the last report was no loss, and
  the credentials of the build are no longer waiting, for with them `wifiCallback` would leave the LED as it is.
  `ToggleIsShownHolds` follows from its own formula and the types.
- **`ExchangeBufferProofs`.** The lemmas `BehindIs`, `BehindBehind` and `BehindApart` are the arithmetic of a ring: where
  the next byte goes, that two moves add up, and that two places less than a round apart differ.
  From them `RefinesByteQueue`: what is read by walking from `currentLocation` is the queue with the
  written bytes appended or the read ones taken away. `TypeCorrect` is what keeps `dataLength` within the memory.
- **`WincSocketProofs`.** One inductive invariant in four parts. `HandInv` is the handshake: what `line`,
  `serviceRequest`, `intOn` and `step` say of each other, from which `PresentedIsCountedHolds` follows. `SockInv` ties the client's
  entry to `mine` and `state`, and gives every other entry in use to `leaked`. `MsgInv` is about what is on
  its way: one connection is asked for at a time, and nothing else of its session exists before it is there; this is why
  the reply to `connect`, whose session the code does not compare, is nevertheless the client's.
- **`MqttPacketsProofs`.** `SentIsAsked` says nothing of packets that wait, so the invariant adds `Ready`: the bytes that
  each flagged packet would be sent with now are read, by the rules of MQTT 3.1.1, as what was asked for last. Hence no
  creation may disturb the packet of another flag, and a payload must not change while its packet waits unless the packet
  is made anew. `Held` is the same for the way in, for segments of any length and content: if the buffer was filled from one with a
  supported publication in front, it is decoded to that publication, within both arrays. Below them, `FieldIs` and `FramedIs` say that a field preceded by its length, and a packet
  preceded by its own, are found again where they were put, and `PublishReads`, `TopicReads`, `ConnectReads` and
  `ShortReads` apply this to each packet. `DecodeIs`: `mqttDecodeLength` reads what `mqttEncodeLength` wrote. Both
  are recursive functions, of which a proof must first know that they exist; as a 16-bit length takes three bytes at
  most and a packet that fits the buffer two, they are written out (`Written`, `Summed`), which needs no induction.
- **`SerialConsoleProofs`.** `TxInv`: the bytes between tail and head, with the one that `WriteData` has laid but
  not counted, are what was written and has not been sent, so `OutputInOrderHolds` wherever the
  interrupt falls between the four steps of `USART2_Write`. `RxInv`: as long as nothing has been dropped, the receive ring is the
  unread end of `typed`, and `command` is what has been typed since the last end of line.

Only model-checked: the liveness properties (`EveryTimerIsServed`, `SilenceIsNoticed`,
`WatchdogBites`, `NotLockedOut`, `CallsReturn`, `AllGoesOut`), which need ENABLED and fairness.

## 5. Not modelled

- QoS above 0: the application publishes with QoS 0 only, and PUBACK has no effect in
  that case. `MQTT_CreateUnsubscribePacket` has no caller in this build; it is kept
  as an optional request.
- The time from NTP and `time_service.c`: values that the models do not tell apart, beyond whether the time is known.
- The thing name and the endpoint in the flash of the WINC, read once at start-up.
- UDP, servers and name resolution of the WINC's socket layer: the build has one TCP client.
- The chip side of the WINC, its SPI and register traffic, CryptoAuthLib: vendor or
  third-party code whose other half is hardware.
- Sensors and classifier: numeric code without control state. `I2C_check` of `i2c_scan.c`: a loop over
  addresses around calls that `TwiMaster` has.
- What each command of the command line does, and the TCP/IP Lite layer, which is not part of the build.
- Durations: a running timer may fire whenever the superloop is free. The rates at which LEDs blink are
  left out for the same reason.

## 6. What could follow

1. The composition of `WincSocket` with `MqttClient`, in which the table of sockets takes the place of the client's
   idealised socket.
2. `WifiService` with `CloudService` in place of its effects.
