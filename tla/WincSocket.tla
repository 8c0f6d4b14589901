----------------------------- MODULE WincSocket -----------------------------
(***************************************************************************)
(* The client's TCP socket from cloudTask down to the WINC: the BSD        *)
(* adapter, the socket table of socket.c below it and the host interface   *)
(* (winc_hif.c, winc_adapter.c) below that.  Commands may get lost on the  *)
(* bus, which the caller is told; replies come later, one at a time,       *)
(* through the interrupt handshake, and may belong to a socket that has    *)
(* been closed in the meantime.                                            *)
(***************************************************************************)
EXTENDS Integers, Sequences, FiniteSets

CONSTANTS
  TcpSocks,      \* TCP_SOCK_MAX
  Sessions,      \* session numbers are 0 .. Sessions - 1 (2^16)
  MaxReplies     \* bound: replies the WINC holds back

ASSUME WincAssumption ==
  /\ TcpSocks \in Nat \ {0} /\ MaxReplies \in Nat \ {0}
  /\ Sessions \in Nat /\ Sessions > 1

VARIABLES
  sockets,          \* gastrSockets: session number and bIsRecvPending of each entry
  nextSock,         \* u8NextTcpSock
  lastSession,      \* gu16SessionID
  client,           \* mqqtSocket, -1 before the first socket
  state,            \* socketState of the client's entry in the adapter's table
  requests,         \* commands the WINC has yet to answer
  rx,               \* replies it holds for the host
  line,             \* of the first reply: held back, presented, taken by the host
  serviceRequest,   \* falling edges seen and not yet served
  intOn,            \* the pin interrupt is enabled
  step,             \* where winc_hif_handle_isr stands
  mine, got,        \* for the properties: the session of the client's socket, that of
  leaked            \* the data it was given, sockets whose close command was lost

hif == <<rx, line, serviceRequest, intOn, step>>
host == <<sockets, client, state, requests, leaked>>
vars == <<sockets, nextSock, lastSession, client, state, requests, hif, mine, got, leaked>>

Socks == 0 .. TcpSocks - 1
States == {"none", "closed", "inProgress", "connected"}
Kinds == {"connect", "recv", "send"}
Request == [kind : Kinds, sock : Socks, session : 1 .. Sessions - 1]
Reply == [kind : Kinds, sock : Socks, session : 1 .. Sessions - 1, ok : BOOLEAN]

(* An entry's bIsUsed is set and cleared along with its session number,    *)
(* so a number other than 0 stands for both.                               *)
Entry(n) == [session |-> n, pending |-> FALSE]
Free == Entry(0)
Used(s) == sockets[s].session # 0

(* What winc_hif_send reports: the WINC has the command or it has not.     *)
Outcomes == {"sent", "lost"}

(* Fault: the session number is not counted in 16 bits.                    *)
NextSessionWide == lastSession + 1

(* The session number that socket() hands out, 0 left out.                 *)
NextSession == IF (lastSession + 1) % Sessions = 0 THEN 1 ELSE lastSession + 1

(* Assumption on the 16 bits: when a number comes round again, nobody      *)
(* remembers its last use.                                                 *)
Forgotten(n) ==
  /\ \A q \in requests : q.session # n
  /\ \A i \in DOMAIN rx : rx[i].session # n
  /\ \A s \in Socks : sockets[s].session # n

----------------------------------------------------------------------------
(* socket.c and the adapter.                                               *)

(* socket() looks at the entries round robin, at each one before which all *)
(* are in use.  When all are it has looked at each, and resets the last    *)
(* one although it returns -1.                                             *)
Nth(i) == (nextSock + i) % TcpSocks
Tries == Cardinality({i \in Socks : \A j \in 0 .. i - 1 : Used(Nth(j))})
Slot == Nth(Tries - 1)
Created == IF Used(Slot) THEN -1 ELSE Slot

(* Fault: close() never gives the entry back.                              *)
BsdCloseKeeps(s, outcome) == state' = "none" /\ UNCHANGED <<sockets, leaked>>

(* close() by way of BSD_close, which first marks the socket as none: an   *)
(* entry that is not in use is refused, a lost command changes nothing.    *)
BsdClose(s, outcome) ==
  /\ state' = "none"
  /\ IF Used(s) /\ outcome = "sent"
       THEN sockets' = [sockets EXCEPT ![s] = Free] /\ leaked' = leaked \ {s}
       ELSE UNCHANGED sockets /\ leaked' = IF Used(s) THEN leaked \union {s} ELSE leaked

Ask(kind, s, n, outcome) ==
  requests' = IF outcome = "sent"
                THEN requests \union {[kind |-> kind, sock |-> s, session |-> n]}
                ELSE requests

(* The client's socket s of session n, entered as e: setsockopt, and when  *)
(* that succeeds connect, and when that fails BSD_close.                   *)
StartConnect(s, n, option, connecting, closing) ==
  /\ client' = s /\ mine' = n
  /\ got' = IF n = mine THEN got ELSE 0
  /\ \/ /\ option = "lost"
        /\ state' = "closed" /\ UNCHANGED <<requests, leaked>>
        /\ sockets' = [sockets EXCEPT ![s] = Entry(n)]
     \/ /\ option = "sent" /\ connecting = "sent"
        /\ state' = "inProgress" /\ Ask("connect", s, n, "sent") /\ UNCHANGED leaked
        /\ sockets' = [sockets EXCEPT ![s] = Entry(n)]
     \/ /\ option = "sent" /\ connecting = "lost" /\ UNCHANGED requests
        /\ state' = "none"
        /\ sockets' = [sockets EXCEPT ![s] = IF closing = "sent" THEN Free
                                            ELSE Entry(n)]
        /\ leaked' = IF closing = "sent" THEN leaked \ {s} ELSE leaked \union {s}

(* CLOUD_connectSocket, when cloudTask finds no socket or a closed one.    *)
ConnectSocket ==
  /\ step = "idle" /\ state \in {"none", "closed"}
  /\ \E option, connecting, closing \in Outcomes :
       \/ /\ state = "none" /\ Forgotten(NextSession)
          /\ nextSock' = (nextSock + Tries) % TcpSocks /\ lastSession' = NextSession
          /\ IF Created = -1
               THEN /\ client' = -1 /\ mine' = 0 /\ got' = 0
                    /\ sockets' = [sockets EXCEPT ![Slot] = Entry(NextSession)]
                    /\ UNCHANGED <<state, requests, leaked>>
               ELSE StartConnect(Created, NextSession, option, connecting, closing)
       \/ /\ state = "closed"
          /\ UNCHANGED <<nextSock, lastSession>>
          /\ StartConnect(client, mine, option, connecting, closing)
  /\ UNCHANGED hif

(* BSD_recv: a request that is pending is not repeated; the flag is set    *)
(* before the command is sent and stays when that fails.                   *)
Receive ==
  /\ step = "idle" /\ state = "connected" /\ Used(client) /\ ~sockets[client].pending
  /\ \E outcome \in Outcomes : Ask("recv", client, sockets[client].session, outcome)
  /\ sockets' = [sockets EXCEPT ![client].pending = TRUE]
  /\ UNCHANGED <<nextSock, lastSession, client, state, hif, mine, got, leaked>>

Send ==
  /\ step = "idle" /\ state = "connected" /\ Used(client)
  /\ Ask("send", client, sockets[client].session, "sent")
  /\ UNCHANGED <<sockets, nextSock, lastSession, client, state, hif, mine, got, leaked>>

(* The MQTT client or cloudTask closes the connection.                     *)
ClientCloses ==
  /\ step = "idle" /\ state = "connected"
  /\ \E outcome \in Outcomes : BsdClose(client, outcome)
  /\ UNCHANGED <<nextSock, lastSession, client, requests, hif, mine, got>>

(* Fault: socketDeinit leaves the table as it is.                          *)
DeinitTableNot == sockets

DeinitTable == [s \in Socks |-> Free]

(* Fault: the WINC is not reset along with the host's side.                *)
ResetChipNot == rx' = rx /\ line' = line /\ serviceRequest' = 0 /\ intOn' = TRUE

ResetChip == rx' = <<>> /\ line' = "idle" /\ serviceRequest' = 0 /\ intOn' = TRUE

(* The watchdogs' wifi_reinit resets the WINC, the table and the adapter,  *)
(* also under a TCP connection over which MQTT has not been accepted.      *)

Reinit ==
  /\ step = "idle"
  /\ sockets' = DeinitTable /\ lastSession' = 0 /\ leaked' = {}
  /\ state' = "none" /\ mine' = 0 /\ got' = 0
  /\ requests' = {} /\ ResetChip
  /\ UNCHANGED <<nextSock, client, step>>

----------------------------------------------------------------------------
(* m2m_ip_cb with BSD_SocketHandler, which knows the client's number only. *)

(* A reply to connect is passed on whatever its session.                   *)
ConnectReply(r, outcome) ==
  /\ r.kind = "connect"
  /\ \/ r.sock = client /\ r.ok /\ state' = "connected" /\ UNCHANGED <<sockets, leaked>>
     \/ r.sock = client /\ ~r.ok /\ BsdClose(client, outcome)
     \/ r.sock # client /\ UNCHANGED <<state, sockets, leaked>>
  /\ UNCHANGED got

(* Fault: the session of a reply is not looked at.                         *)
CurrentAny(r) == TRUE

Current(r) == r.session = sockets[r.sock].session

(* A reply to recv ends the pending request of the socket with this        *)
(* number, and only then is its session compared and its data read, which  *)
(* may fail: then the adapter hears nothing.                               *)
RecvReply(r, outcome) ==
  /\ r.kind = "recv"
  /\ \/ /\ Current(r) /\ r.sock = client /\ ~r.ok
        /\ state' = "none" /\ UNCHANGED got
        /\ sockets' = [sockets EXCEPT ![r.sock] =
                         IF outcome = "sent" THEN Free ELSE [@ EXCEPT !.pending = FALSE]]
        /\ leaked' = IF outcome = "sent" THEN leaked \ {r.sock} ELSE leaked \union {r.sock}
     \/ /\ ~(Current(r) /\ r.sock = client /\ ~r.ok)
        /\ sockets' = [sockets EXCEPT ![r.sock].pending = FALSE]
        /\ UNCHANGED leaked
        /\ \/ Current(r) /\ r.sock = client /\ state' = "connected" /\ got' = r.session
           \/ UNCHANGED <<state, got>>

(* Fault: the session of a reply to send is not looked at.                 *)
SendReplyAny(r) ==
  /\ r.kind = "send" /\ UNCHANGED <<sockets, leaked, got>>
  /\ IF r.sock = client THEN state' = "connected" ELSE UNCHANGED state

SendReply(r) ==
  /\ r.kind = "send" /\ UNCHANGED <<sockets, leaked, got>>
  /\ IF Current(r) /\ r.sock = client THEN state' = "connected" ELSE UNCHANGED state

(* The reply cannot be read from the WINC: nothing comes of it.            *)
Unread == UNCHANGED <<sockets, leaked, got, state>>

IpCallback(r) ==
  \/ \E outcome \in Outcomes : ConnectReply(r, outcome) \/ RecvReply(r, outcome)
  \/ SendReply(r)
  \/ Unread

----------------------------------------------------------------------------
(* winc_hif_handle_isr and the handshake.                                  *)

(* The header of the reply cannot be read: the handler returns without     *)
(* telling the WINC that it is done.                                       *)
HandleFails ==
  /\ step = "idle" /\ serviceRequest > 0 /\ line = "presented"
  /\ line' = "taken"
  /\ UNCHANGED <<host, nextSock, lastSession, rx, serviceRequest, intOn, step, mine, got>>

HandleIsr ==
  /\ step = "idle" /\ serviceRequest > 0 /\ line = "presented"
  /\ line' = "taken" /\ step' = "served"
  /\ IpCallback(Head(rx))
  /\ UNCHANGED <<nextSock, lastSession, client, requests, rx, serviceRequest, intOn, mine>>

(* winc_adapter_interrupt_serviced(true): with the interrupt off the       *)
(* count goes down.                                                        *)
Serviced ==
  /\ step = "served" /\ step' = "counted" /\ intOn' = FALSE
  /\ serviceRequest' = IF serviceRequest > 0 THEN serviceRequest - 1 ELSE 0
  /\ UNCHANGED <<host, nextSock, lastSession, rx, line, mine, got>>

(* Fault: the pin interrupt stays off.                                     *)
ReenabledNot ==
  /\ step = "counted" /\ step' = "enabled"
  /\ UNCHANGED <<host, nextSock, lastSession, rx, line, serviceRequest, intOn, mine, got>>

(* ... and the interrupt is put back for the next falling edge.            *)
Reenabled ==
  /\ step = "counted" /\ step' = "enabled" /\ intOn' = TRUE
  /\ UNCHANGED <<host, nextSock, lastSession, rx, line, serviceRequest, mine, got>>

(* RX done lets the WINC go on to its next reply; a write that fails does  *)
(* not.                                                                    *)
RxDone ==
  /\ step = "enabled" /\ step' = "idle"
  /\ \/ line' = "idle" /\ rx' = Tail(rx)
     \/ UNCHANGED <<line, rx>>
  /\ UNCHANGED <<host, nextSock, lastSession, serviceRequest, intOn, mine, got>>

(* The WINC's side, and winc_interrupt_handler on the falling edge.        *)
Present ==
  /\ rx # <<>> /\ line = "idle"
  /\ line' = "presented"
  /\ serviceRequest' = IF intOn THEN serviceRequest + 1 ELSE serviceRequest
  /\ UNCHANGED <<host, nextSock, lastSession, rx, intOn, step, mine, got>>

Answer ==
  /\ Len(rx) < MaxReplies
  /\ \E q \in requests, ok \in BOOLEAN :
       /\ requests' = requests \ {q}
       /\ rx' = Append(rx, [kind |-> q.kind, sock |-> q.sock, session |-> q.session, ok |-> ok])
  /\ UNCHANGED <<sockets, nextSock, lastSession, client, state, line, serviceRequest, intOn,
                 step, mine, got, leaked>>

Init ==
  /\ sockets = [s \in Socks |-> Free] /\ nextSock = 0 /\ lastSession = 0
  /\ client = -1 /\ state = "none" /\ requests = {} /\ leaked = {}
  /\ rx = <<>> /\ line = "idle" /\ serviceRequest = 0 /\ intOn = TRUE /\ step = "idle"
  /\ mine = 0 /\ got = 0

Interrupts == HandleFails \/ HandleIsr \/ Serviced \/ Reenabled \/ RxDone
Tasks == ConnectSocket \/ Receive \/ Send \/ ClientCloses \/ Reinit
Next == Tasks \/ Interrupts \/ Present \/ Answer

Spec == Init /\ [][Next]_vars

(* cloudTask and wifiHandlerTask run again and again; a client that hears  *)
(* nothing for want of RX done closes its connection (SilenceIsNoticed);   *)
(* the watchdogs of cloud_service.c reset one that stays without.          *)
Fairness ==
  /\ WF_vars(ConnectSocket) /\ WF_vars(Serviced) /\ WF_vars(Reenabled) /\ WF_vars(RxDone)
  /\ WF_vars(line = "taken" /\ ClientCloses) /\ SF_vars(state # "connected" /\ Reinit)

FairSpec == Spec /\ Fairness

----------------------------------------------------------------------------
(* Properties.                                                             *)

TypeOK ==
  /\ sockets \in [Socks -> [session : 0 .. Sessions - 1, pending : BOOLEAN]]
  /\ nextSock \in Socks /\ lastSession \in 0 .. Sessions - 1
  /\ client \in Socks \union {-1} /\ state \in States
  /\ requests \subseteq Request
  /\ rx \in Seq(Reply)
  /\ line \in {"idle", "presented", "taken"}
  /\ serviceRequest \in 0 .. 1 /\ intOn \in BOOLEAN
  /\ step \in {"idle", "served", "counted", "enabled"}
  /\ mine \in 0 .. Sessions - 1 /\ got \in 0 .. Sessions - 1
  /\ leaked \subseteq Socks

(* A socket the adapter calls connected is the client's own and in use in  *)
(* the WINC's table, whatever late reply has made it connected.            *)
ConnectedIsUsed ==
  state = "connected" => client # -1 /\ sockets[client].session = mine /\ mine # 0

(* The MQTT client is never given data of an earlier connection.           *)
DataIsOurs == got \in {0, mine}

(* Entries in use that the client knows nothing of are those whose close   *)
(* command was lost.                                                       *)
NoLeak ==
  \A s \in Socks : Used(s) => s \in leaked \/ (s = client /\ state # "none")

(* A reply that the WINC presents is asked for by the pin interrupt's      *)
(* count: no edge falls in the time in which the interrupt is off.         *)
PresentedIsCounted == line = "presented" => serviceRequest > 0

(* Lost closes may fill the table and the WINC may wait for an RX done     *)
(* that has failed: again and again the client has a socket while the WINC *)
(* is free to report.                                                      *)
NotLockedOut == []<>(client # -1 /\ line # "taken")
=============================================================================
