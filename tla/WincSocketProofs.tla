--------------------------- MODULE WincSocketProofs ---------------------------
(***************************************************************************)
(* Proofs about WincSocket for a socket table of any size, any range of    *)
(* session numbers and any number of replies that the WINC holds back.     *)
(***************************************************************************)
EXTENDS WincSocket, SequenceTheorems, FiniteSetTheorems, TLAPS

(* The replies the host has not dealt with yet.                            *)
Open == {i \in 1 .. Len(rx) : i # 1 \/ line # "taken"}

(* Where the host stands, how often it will look, and whether an edge of   *)
(* the pin would be seen hang together.                                    *)
HandInv ==
  /\ line # "idle" => rx # <<>>
  /\ step = "idle" => intOn
  /\ step # "idle" => line = "taken"
  /\ step = "counted" => serviceRequest = 0
  /\ step = "enabled" => serviceRequest = 0 /\ intOn
  /\ step = "served" => serviceRequest = 1 /\ intOn
  /\ line = "idle" => serviceRequest = 0
  /\ line = "presented" => serviceRequest = 1

(* The client's entry has the session the client thinks it has, or has     *)
(* been given back.                                                        *)
SockInv ==
  /\ NoLeak /\ DataIsOurs
  /\ client # -1 => sockets[client].session \in {0, mine}
  /\ state # "none" => client # -1 /\ sockets[client].session = mine /\ mine # 0

(* What is on its way: one connection at a time is being asked for, and    *)
(* before it is there nothing of its session but that is.                  *)
MsgInv ==
  /\ \A q \in requests : q.kind = "connect" =>
       /\ state = "inProgress" /\ q.sock = client /\ q.session = mine
       /\ \A i \in Open : rx[i].kind # "connect"
  /\ \A i \in Open : rx[i].kind = "connect" =>
       /\ state = "inProgress" /\ rx[i].sock = client
       /\ \A j \in Open : rx[j].kind = "connect" => j = i
  /\ state \in {"closed", "inProgress"} =>
       /\ \A q \in requests : q.kind # "connect" => q.session # mine
       /\ \A i \in Open : rx[i].kind # "connect" => rx[i].session # mine

Inv == TypeOK /\ HandInv /\ SockInv /\ MsgInv

(* The sizes, one by one.                                                  *)
LEMMA Sizes == TcpSocks \in Nat \ {0} /\ MaxReplies \in Nat \ {0} /\ Sessions \in Nat /\ Sessions > 1
  BY WincAssumption

(* What socket() looks at is an entry of the table.                        *)
LEMMA SlotType ==
  ASSUME nextSock \in Socks
  PROVE  /\ Tries \in Nat /\ Slot \in Socks /\ (nextSock + Tries) % TcpSocks \in Socks
         /\ Created \in {-1, Slot} /\ (Created = -1 <=> Used(Slot))
<1> DEFINE S == {i \in Socks : \A j \in 0 .. i - 1 : Used(Nth(j))}
<1>1. IsFiniteSet(Socks)
  BY Sizes, FS_Interval DEF Socks
<1>2. IsFiniteSet(S)
  BY <1>1, FS_Subset
<1>3. Tries \in Nat
  BY <1>2, FS_CardinalityType DEF Tries
<1>4. nextSock \in Int /\ nextSock + (Tries - 1) \in Int /\ nextSock + Tries \in Int
  BY <1>3, Sizes DEF Socks
<1>5. \A n \in Int : n % TcpSocks \in 0 .. TcpSocks - 1
  BY Sizes
<1>6. Slot \in Socks /\ (nextSock + Tries) % TcpSocks \in Socks
  BY <1>4, <1>5 DEF Slot, Nth, Socks
<1>7. -1 \notin Socks
  BY Sizes DEF Socks
<1> QED
  BY <1>3, <1>6, <1>7 DEF Created

(* A session number is handed out in its range, and never as 0.            *)
LEMMA SessionType ==
  ASSUME lastSession \in 0 .. Sessions - 1
  PROVE  NextSession \in 1 .. Sessions - 1
<1>1. Sessions % Sessions = 0
  BY Sizes
<1> QED
  BY <1>1, Sizes DEF NextSession

(* Nothing has happened yet.                                               *)
LEMMA InvInit == Init => Inv
<1> SUFFICES ASSUME Init PROVE Inv
  OBVIOUS
<1>1. TypeOK
  BY Sizes, EmptySeq DEF Init, TypeOK, Entry, Free, Socks, States
<1>2. Len(rx) = 0 /\ Open = {}
  BY DEF Init, Open
<1>3. HandInv /\ SockInv /\ MsgInv
  BY <1>2, Sizes DEF Init, HandInv, SockInv, MsgInv, NoLeak, DataIsOurs, Used, Entry, Free, Socks
<1> QED
  BY <1>1, <1>3 DEF Inv

(* A step of the host that leaves the handshake where it is.               *)
LEMMA HandStays == Inv /\ UNCHANGED hif => HandInv' /\ Open' = Open
BY DEF Inv, HandInv, Open, hif

----------------------------------------------------------------------------
(* The client's calls.                                                     *)

(* A connection is asked for on an entry of the table: a new one, or the   *)
(* one whose options could not be set before.                              *)
LEMMA StartKeeps ==
  ASSUME Inv, step = "idle", state \in {"none", "closed"},
         NEW s \in Socks, NEW n \in 1 .. Sessions - 1,
         NEW option, NEW connecting, NEW closing,
         StartConnect(s, n, option, connecting, closing), UNCHANGED hif,
         nextSock' \in Socks, lastSession' \in 0 .. Sessions - 1,
         \A t \in Socks : Used(t) => t = s \/ t \in leaked,
         \A q \in requests : q.session # n, \A i \in Open : rx[i].session # n
  PROVE  Inv'
<1>1. /\ client' = s /\ mine' = n /\ got' = IF n = mine THEN got ELSE 0
      /\ UNCHANGED <<rx, line, serviceRequest, intOn, step>>
  BY DEF StartConnect, hif
<1>2. /\ sockets \in [Socks -> [session : 0 .. Sessions - 1, pending : BOOLEAN]]
      /\ requests \subseteq Request /\ leaked \subseteq Socks
  BY DEF Inv, TypeOK
<1>3. HandInv' /\ Open' = Open
  BY HandStays
<1>4. Entry(n).session = n /\ Free.session = 0 /\ n # 0
  BY Sizes DEF Entry, Free
<1>5. PICK e \in {Free, Entry(n)} :
        /\ sockets' = [sockets EXCEPT ![s] = e]
        /\ state' # "none" => e.session = n
        /\ e.session = n /\ state' = "none" => s \in leaked'
        /\ leaked' \in {leaked, leaked \ {s}, leaked \union {s}}
        /\ state' \in States /\ state' # "connected"
        /\ requests' \in {requests, requests \union {[kind |-> "connect", sock |-> s, session |-> n]}}
        /\ requests' # requests => state' = "inProgress"
  BY <1>4 DEF StartConnect, Ask, States
<1>6. [kind |-> "connect", sock |-> s, session |-> n] \in Request
  BY DEF Request, Kinds
<1>7. e \in [session : 0 .. Sessions - 1, pending : BOOLEAN] /\ e.session \in {0, n}
  <2>1. n \in 0 .. Sessions - 1 /\ 0 \in 0 .. Sessions - 1
    BY Sizes
  <2>2. Entry(0) \in [session : 0 .. Sessions - 1, pending : BOOLEAN]
    BY <2>1 DEF Entry
  <2>3. Entry(n) \in [session : 0 .. Sessions - 1, pending : BOOLEAN]
    BY <2>1 DEF Entry
  <2> QED
    BY <1>4, <1>5, <2>2, <2>3 DEF Free
<1>8. TypeOK'
  <2>1. sockets' \in [Socks -> [session : 0 .. Sessions - 1, pending : BOOLEAN]]
    BY <1>2, <1>5, <1>7
  <2>2. requests' \subseteq Request /\ leaked' \subseteq Socks
    BY <1>2, <1>5, <1>6
  <2>3. mine' \in 0 .. Sessions - 1 /\ got' \in 0 .. Sessions - 1
    BY <1>1, Sizes DEF Inv, TypeOK
  <2> QED
    BY <1>1, <1>5, <2>1, <2>2, <2>3 DEF Inv, TypeOK
<1>9. sockets'[s] = e /\ \A t \in Socks : t # s => sockets'[t] = sockets[t]
  BY <1>2, <1>5
<1>10. NoLeak'
  BY <1>1, <1>4, <1>5, <1>9 DEF NoLeak, Used
<1>11. SockInv'
  BY <1>1, <1>4, <1>5, <1>7, <1>9, <1>10, Sizes DEF Inv, SockInv, DataIsOurs, Socks
<1>12. MsgInv'
  <2>1. (\A q \in requests : q.kind # "connect") /\ \A i \in Open : rx[i].kind # "connect"
    BY DEF Inv, MsgInv
  <2> QED
    BY <1>1, <1>3, <1>5, <2>1 DEF MsgInv
<1> QED
  BY <1>3, <1>8, <1>11, <1>12 DEF Inv

(* CLOUD_connectSocket.                                                    *)
LEMMA ConnectSocketKeeps == Inv /\ ConnectSocket => Inv'
<1> SUFFICES ASSUME Inv, ConnectSocket PROVE Inv'
  OBVIOUS
<1>1. step = "idle" /\ state \in {"none", "closed"} /\ UNCHANGED hif
  BY DEF ConnectSocket
<1>2. /\ nextSock \in Socks /\ lastSession \in 0 .. Sessions - 1
      /\ \A i \in Open : i \in DOMAIN rx
      /\ sockets \in [Socks -> [session : 0 .. Sessions - 1, pending : BOOLEAN]]
  BY DEF Inv, TypeOK, Open
<1>3. CASE state = "closed"
  <2>1. PICK option, connecting, closing \in Outcomes :
          StartConnect(client, mine, option, connecting, closing) /\ UNCHANGED <<nextSock, lastSession>>
    BY <1>3 DEF ConnectSocket
  <2>2. client \in Socks /\ mine \in 1 .. Sessions - 1
    BY <1>3, Sizes DEF Inv, SockInv, TypeOK
  <2>3. \A t \in Socks : Used(t) => t = client \/ t \in leaked
    BY DEF Inv, SockInv, NoLeak
  <2>4. (\A q \in requests : q.session # mine) /\ \A i \in Open : rx[i].session # mine
    BY <1>3 DEF Inv, MsgInv
  <2> QED
    BY <1>1, <1>2, <2>1, <2>2, <2>3, <2>4, StartKeeps
<1>4. CASE state = "none"
  <2>1. /\ Forgotten(NextSession)
        /\ nextSock' = (nextSock + Tries) % TcpSocks /\ lastSession' = NextSession
    BY <1>4 DEF ConnectSocket
  <2>2. /\ NextSession \in 1 .. Sessions - 1 /\ nextSock' \in Socks /\ Slot \in Socks
        /\ lastSession' \in 0 .. Sessions - 1
        /\ Created \in {-1, Slot} /\ (Created = -1 <=> Used(Slot))
    BY <1>2, <2>1, SlotType, SessionType, Sizes
  <2>3. \A t \in Socks : Used(t) => t \in leaked
    BY <1>4 DEF Inv, SockInv, NoLeak
  <2>4. CASE Created = -1
    <3>1. /\ client' = -1 /\ mine' = 0 /\ got' = 0
          /\ sockets' = [sockets EXCEPT ![Slot] = Entry(NextSession)]
          /\ UNCHANGED <<state, requests, leaked, rx, line, serviceRequest, intOn, step>>
      BY <1>4, <2>4 DEF ConnectSocket, hif
    <3>2. Entry(NextSession) \in [session : 0 .. Sessions - 1, pending : BOOLEAN]
      BY <2>2, Sizes DEF Entry
    <3>3. sockets' \in [Socks -> [session : 0 .. Sessions - 1, pending : BOOLEAN]]
      BY <1>2, <3>1, <3>2
    <3>4. TypeOK'
      BY <2>2, <3>1, <3>3, Sizes DEF Inv, TypeOK
    <3>5. HandInv' /\ Open' = Open
      BY <1>1, HandStays
    <3>6. NoLeak'
      BY <1>2, <2>2, <2>3, <2>4, <3>1 DEF NoLeak, Used
    <3>7. SockInv' /\ MsgInv'
      BY <1>4, <3>1, <3>5, <3>6 DEF Inv, SockInv, MsgInv, DataIsOurs
    <3> QED
      BY <3>4, <3>5, <3>7 DEF Inv
  <2>5. CASE Created # -1
    <3>1. PICK option, connecting, closing \in Outcomes :
            StartConnect(Slot, NextSession, option, connecting, closing)
      BY <1>4, <2>2, <2>5 DEF ConnectSocket
    <3>2. (\A q \in requests : q.session # NextSession) /\ \A i \in Open : rx[i].session # NextSession
      BY <1>2, <2>1 DEF Forgotten
    <3> QED
      BY <1>1, <1>4, <2>2, <2>3, <3>1, <3>2, StartKeeps
  <2> QED
    BY <2>4, <2>5
<1> QED
  BY <1>1, <1>3, <1>4

(* BSD_recv: the flag is set whether the command gets through or not.      *)
LEMMA ReceiveKeeps == Inv /\ Receive => Inv'
<1> SUFFICES ASSUME Inv, Receive PROVE Inv'
  OBVIOUS
<1> DEFINE q == [kind |-> "recv", sock |-> client, session |-> sockets[client].session]
<1>1. /\ state = "connected" /\ Used(client)
      /\ sockets' = [sockets EXCEPT ![client].pending = TRUE]
      /\ requests' \in {requests, requests \union {q}}
      /\ UNCHANGED <<nextSock, lastSession, client, state, hif, mine, got, leaked>>
      /\ UNCHANGED <<rx, line, serviceRequest, intOn, step>>
  BY DEF Receive, Ask, hif
<1>2. /\ client \in Socks /\ sockets[client].session \in 1 .. Sessions - 1
      /\ sockets \in [Socks -> [session : 0 .. Sessions - 1, pending : BOOLEAN]]
  BY <1>1, Sizes DEF Inv, SockInv, TypeOK, Used
<1>3. q \in Request /\ q.kind = "recv"
  BY <1>2 DEF Request, Kinds
<1>4. /\ sockets' \in [Socks -> [session : 0 .. Sessions - 1, pending : BOOLEAN]]
      /\ \A s \in Socks : sockets'[s].session = sockets[s].session
  BY <1>1, <1>2
<1>5. TypeOK'
  BY <1>1, <1>3, <1>4 DEF Inv, TypeOK
<1>6. HandInv' /\ Open' = Open
  BY <1>1, HandStays
<1>7. SockInv'
  BY <1>1, <1>2, <1>4 DEF Inv, SockInv, NoLeak, DataIsOurs, Used
<1>8. MsgInv'
  BY <1>1, <1>3, <1>6 DEF Inv, MsgInv
<1> QED
  BY <1>5, <1>6, <1>7, <1>8 DEF Inv

(* BSD_send.                                                               *)
LEMMA SendKeeps == Inv /\ Send => Inv'
<1> SUFFICES ASSUME Inv, Send PROVE Inv'
  OBVIOUS
<1> DEFINE q == [kind |-> "send", sock |-> client, session |-> sockets[client].session]
<1>1. /\ state = "connected" /\ Used(client) /\ requests' = requests \union {q}
      /\ UNCHANGED <<sockets, nextSock, lastSession, client, state, hif, mine, got, leaked>>
      /\ UNCHANGED <<rx, line, serviceRequest, intOn, step>>
  BY DEF Send, Ask, hif
<1>2. client \in Socks /\ sockets[client].session \in 1 .. Sessions - 1
  BY <1>1, Sizes DEF Inv, SockInv, TypeOK, Used
<1>3. q \in Request /\ q.kind = "send"
  BY <1>2 DEF Request, Kinds
<1>4. TypeOK'
  BY <1>1, <1>3 DEF Inv, TypeOK
<1>5. HandInv' /\ Open' = Open
  BY <1>1, HandStays
<1>6. SockInv'
  BY <1>1 DEF Inv, SockInv, NoLeak, DataIsOurs, Used
<1>7. MsgInv'
  BY <1>1, <1>3, <1>5 DEF Inv, MsgInv
<1> QED
  BY <1>4, <1>5, <1>6, <1>7 DEF Inv

(* BSD_close of the client's socket, when no connection is being asked for *)
(* any more.                                                               *)
LEMMA BsdCloseFrees ==
  ASSUME Inv, client \in Socks, NEW outcome, BsdClose(client, outcome)
  PROVE  /\ sockets' \in [Socks -> [session : 0 .. Sessions - 1, pending : BOOLEAN]]
         /\ leaked' \subseteq Socks /\ state' = "none"
         /\ \A s \in Socks : sockets'[s].session \in {0, sockets[s].session}
         /\ \A s \in Socks : sockets'[s].session # 0 => s \in leaked'
<1>1. /\ sockets \in [Socks -> [session : 0 .. Sessions - 1, pending : BOOLEAN]]
      /\ leaked \subseteq Socks /\ NoLeak
  BY DEF Inv, TypeOK, SockInv
<1>2. Free \in [session : 0 .. Sessions - 1, pending : BOOLEAN] /\ Free.session = 0
  BY Sizes DEF Free, Entry
<1>3. CASE Used(client) /\ outcome = "sent"
  BY <1>1, <1>2, <1>3 DEF BsdClose, NoLeak, Used
<1>4. CASE ~(Used(client) /\ outcome = "sent")
  BY <1>1, <1>4 DEF BsdClose, NoLeak, Used
<1> QED
  BY <1>3, <1>4

(* The client closes its connection.                                       *)
LEMMA ClientClosesKeeps == Inv /\ ClientCloses => Inv'
<1> SUFFICES ASSUME Inv, ClientCloses PROVE Inv'
  OBVIOUS
<1>1. /\ state = "connected"
      /\ UNCHANGED <<nextSock, lastSession, client, requests, hif, mine, got>>
      /\ UNCHANGED <<rx, line, serviceRequest, intOn, step>>
  BY DEF ClientCloses, hif
<1>2. PICK outcome \in Outcomes : BsdClose(client, outcome)
  BY DEF ClientCloses
<1>3. client \in Socks
  BY <1>1 DEF Inv, SockInv, TypeOK
<1>4. /\ sockets' \in [Socks -> [session : 0 .. Sessions - 1, pending : BOOLEAN]]
      /\ leaked' \subseteq Socks /\ state' = "none"
      /\ \A s \in Socks : sockets'[s].session \in {0, sockets[s].session}
      /\ \A s \in Socks : sockets'[s].session # 0 => s \in leaked'
  BY <1>2, <1>3, BsdCloseFrees
<1>5. TypeOK'
  BY <1>1, <1>4 DEF Inv, TypeOK, States
<1>6. HandInv' /\ Open' = Open
  BY <1>1, HandStays
<1>7. SockInv'
  BY <1>1, <1>3, <1>4 DEF Inv, SockInv, NoLeak, DataIsOurs, Used
<1>8. MsgInv'
  BY <1>1, <1>4, <1>6 DEF Inv, MsgInv
<1> QED
  BY <1>5, <1>6, <1>7, <1>8 DEF Inv

(* wifi_reinit: the table, the adapter and the WINC begin again.           *)
LEMMA ReinitKeeps == Inv /\ Reinit => Inv'
<1> SUFFICES ASSUME Inv, Reinit PROVE Inv'
  OBVIOUS
<1>1. /\ sockets' = [s \in Socks |-> Free] /\ lastSession' = 0 /\ leaked' = {}
      /\ state' = "none" /\ mine' = 0 /\ got' = 0
      /\ requests' = {} /\ rx' = <<>> /\ line' = "idle"
      /\ serviceRequest' = 0 /\ intOn' = TRUE /\ step' = "idle"
      /\ UNCHANGED <<nextSock, client>>
  BY DEF Reinit, DeinitTable, ResetChip
<1>2. Free \in [session : 0 .. Sessions - 1, pending : BOOLEAN] /\ Free.session = 0
  BY Sizes DEF Free, Entry
<1>3. TypeOK'
  BY <1>1, <1>2, Sizes, EmptySeq DEF Inv, TypeOK, States
<1>4. Open' = {}
  BY <1>1 DEF Open
<1>5. HandInv' /\ SockInv' /\ MsgInv'
  BY <1>1, <1>2, <1>4 DEF Inv, TypeOK, HandInv, SockInv, MsgInv, NoLeak, DataIsOurs, Used
<1> QED
  BY <1>3, <1>5 DEF Inv

----------------------------------------------------------------------------
(* The replies.                                                            *)

(* What the callback leaves of the client's socket.                        *)
Settled ==
  /\ sockets' \in [Socks -> [session : 0 .. Sessions - 1, pending : BOOLEAN]]
  /\ leaked' \subseteq Socks /\ got' \in 0 .. Sessions - 1 /\ state' \in States
  /\ NoLeak' /\ got' \in {0, mine}
  /\ \A s \in Socks : sockets'[s].session \in {0, sockets[s].session}
  /\ state' # "none" => client # -1 /\ sockets'[client].session = mine /\ mine # 0

(* A reply to connect finds the client waiting for it.                     *)
LEMMA ConnectReplySettles ==
  ASSUME Inv, client' = client, NEW r, NEW outcome, ConnectReply(r, outcome),
         r.sock = client, state = "inProgress"
  PROVE  Settled
<1>1. /\ client \in Socks /\ sockets[client].session = mine /\ mine # 0
      /\ sockets \in [Socks -> [session : 0 .. Sessions - 1, pending : BOOLEAN]]
      /\ leaked \subseteq Socks /\ got' = got /\ got \in 0 .. Sessions - 1 /\ got \in {0, mine}
      /\ NoLeak
  BY DEF Inv, TypeOK, SockInv, DataIsOurs, ConnectReply
<1>2. CASE state' = "connected" /\ UNCHANGED <<sockets, leaked>>
  <2>1. NoLeak'
    BY <1>1, <1>2 DEF NoLeak, Used
  <2>2. /\ \A s \in Socks : sockets'[s].session \in {0, sockets[s].session}
        /\ sockets'[client].session = mine /\ state' \in States /\ client # -1
        /\ sockets' \in [Socks -> [session : 0 .. Sessions - 1, pending : BOOLEAN]]
        /\ leaked' \subseteq Socks
    BY <1>1, <1>2, Sizes DEF States, Socks
  <2> QED
    BY <1>1, <1>2, <2>1, <2>2 DEF Settled
<1>3. CASE BsdClose(client, outcome)
  <2>1. /\ sockets' \in [Socks -> [session : 0 .. Sessions - 1, pending : BOOLEAN]]
        /\ leaked' \subseteq Socks /\ state' = "none"
        /\ \A s \in Socks : sockets'[s].session \in {0, sockets[s].session}
        /\ \A s \in Socks : sockets'[s].session # 0 => s \in leaked'
    BY <1>1, <1>3, BsdCloseFrees
  <2> QED
    BY <1>1, <2>1 DEF Settled, NoLeak, Used, States
<1> QED
  BY <1>2, <1>3 DEF ConnectReply

(* A reply to recv, whosever it is.                                        *)
LEMMA RecvReplySettles ==
  ASSUME Inv, client' = client, NEW r \in Reply, NEW outcome, RecvReply(r, outcome)
  PROVE  Settled
<1>1. /\ sockets \in [Socks -> [session : 0 .. Sessions - 1, pending : BOOLEAN]]
      /\ leaked \subseteq Socks /\ got \in 0 .. Sessions - 1 /\ got \in {0, mine}
      /\ NoLeak /\ state \in States /\ mine \in 0 .. Sessions - 1
      /\ r.sock \in Socks /\ r.session \in 1 .. Sessions - 1
      /\ client # -1 => client \in Socks /\ sockets[client].session \in {0, mine}
      /\ state # "none" => client # -1 /\ sockets[client].session = mine /\ mine # 0
  BY DEF Inv, TypeOK, SockInv, DataIsOurs, Reply
<1>2. CASE Current(r) /\ r.sock = client /\ ~r.ok
  <2>1. /\ state' = "none" /\ got' = got
        /\ sockets' = [sockets EXCEPT ![r.sock] =
                         IF outcome = "sent" THEN Free ELSE [@ EXCEPT !.pending = FALSE]]
        /\ leaked' = IF outcome = "sent" THEN leaked \ {r.sock} ELSE leaked \union {r.sock}
    BY <1>2 DEF RecvReply
  <2>2. Free \in [session : 0 .. Sessions - 1, pending : BOOLEAN] /\ Free.session = 0
    BY Sizes DEF Free, Entry
  <2>3. CASE outcome = "sent"
    BY <1>1, <1>2, <2>1, <2>2, <2>3 DEF Settled, NoLeak, Used, States
  <2>4. CASE outcome # "sent"
    BY <1>1, <1>2, <2>1, <2>4 DEF Settled, NoLeak, Used, States
  <2> QED
    BY <2>3, <2>4
<1>3. CASE ~(Current(r) /\ r.sock = client /\ ~r.ok)
  <2>1. /\ sockets' = [sockets EXCEPT ![r.sock].pending = FALSE] /\ leaked' = leaked
        /\ \/ Current(r) /\ r.sock = client /\ state' = "connected" /\ got' = r.session
           \/ UNCHANGED <<state, got>>
    BY <1>3 DEF RecvReply
  <2>2. /\ sockets' \in [Socks -> [session : 0 .. Sessions - 1, pending : BOOLEAN]]
        /\ \A s \in Socks : sockets'[s].session = sockets[s].session
    BY <1>1, <2>1
  <2>3. CASE Current(r) /\ r.sock = client /\ state' = "connected" /\ got' = r.session
    <3>1. client # -1 /\ r.session = mine /\ sockets[client].session = mine /\ mine # 0
      BY <1>1, <2>3, Sizes DEF Current, Socks
    <3> QED
      BY <1>1, <2>1, <2>2, <2>3, <3>1 DEF Settled, NoLeak, Used, States
  <2>4. CASE UNCHANGED <<state, got>>
    BY <1>1, <2>1, <2>2, <2>4 DEF Settled, NoLeak, Used
  <2> QED
    BY <2>1, <2>3, <2>4
<1> QED
  BY <1>2, <1>3

(* A reply to send, whosever it is.                                        *)
LEMMA SendReplySettles ==
  ASSUME Inv, client' = client, NEW r \in Reply, SendReply(r)
  PROVE  Settled
<1>1. /\ sockets \in [Socks -> [session : 0 .. Sessions - 1, pending : BOOLEAN]]
      /\ leaked \subseteq Socks /\ got \in 0 .. Sessions - 1 /\ got \in {0, mine}
      /\ NoLeak /\ state \in States
      /\ r.sock \in Socks /\ r.session \in 1 .. Sessions - 1
      /\ client # -1 => client \in Socks /\ sockets[client].session \in {0, mine}
      /\ state # "none" => client # -1 /\ sockets[client].session = mine /\ mine # 0
  BY DEF Inv, TypeOK, SockInv, DataIsOurs, Reply
<1>2. UNCHANGED <<sockets, leaked, got>> /\ (state' = state \/ (state' = "connected" /\ Current(r) /\ r.sock = client))
  BY DEF SendReply
<1>3. CASE state' = state
  BY <1>1, <1>2, <1>3 DEF Settled, NoLeak, Used
<1>4. CASE state' = "connected" /\ Current(r) /\ r.sock = client
  <2>1. client # -1 /\ sockets[client].session = mine /\ mine # 0
    BY <1>1, <1>4, Sizes DEF Current, Socks
  <2> QED
    BY <1>1, <1>2, <1>4, <2>1 DEF Settled, NoLeak, Used, States
<1> QED
  BY <1>2, <1>3, <1>4

(* While a connection is asked for, and before, only the answer to that    *)
(* changes the state of the socket.                                        *)
LEMMA AskedOnly ==
  ASSUME Inv, NEW r \in Reply, NEW outcome, RecvReply(r, outcome) \/ SendReply(r),
         r.session # mine, state \in {"closed", "inProgress"}
  PROVE  state' = state
<1>1. client # -1 /\ sockets[client].session = mine
  BY DEF Inv, SockInv
<1>2. ~(Current(r) /\ r.sock = client)
  BY <1>1 DEF Current
<1> QED
  BY <1>2 DEF RecvReply, SendReply

(* winc_hif_handle_isr hands the reply to its callback.                    *)
LEMMA HandleIsrKeeps == Inv /\ HandleIsr => Inv'
<1> SUFFICES ASSUME Inv, HandleIsr PROVE Inv'
  OBVIOUS
<1> DEFINE r == rx[1]
<1>1. /\ step = "idle" /\ line = "presented" /\ line' = "taken" /\ step' = "served"
      /\ IpCallback(Head(rx))
      /\ UNCHANGED <<nextSock, lastSession, client, requests, rx, serviceRequest, intOn, mine>>
  BY DEF HandleIsr
<1>2. rx \in Seq(Reply) /\ rx # <<>> /\ Len(rx) \in Nat /\ Len(rx) >= 1 /\ r \in Reply /\ Head(rx) = r
  BY <1>1, HeadTailProperties, LenProperties, ElementOfSeq DEF Inv, TypeOK, HandInv
<1>3. Open = 1 .. Len(rx) /\ Open' = {i \in 1 .. Len(rx) : i # 1} /\ 1 \in Open
  BY <1>1, <1>2 DEF Open
<1>4. HandInv'
  BY <1>1 DEF Inv, HandInv
<1>5. /\ r.kind = "connect" => state = "inProgress" /\ r.sock = client
                              /\ \A j \in Open : rx[j].kind = "connect" => j = 1
      /\ r.kind # "connect" /\ state \in {"closed", "inProgress"} => r.session # mine
      /\ r.kind = "connect" => \A q \in requests : q.kind # "connect"
  BY <1>3 DEF Inv, MsgInv
<1>6. Settled
  <2>1. CASE Unread
    BY <1>1, <2>1 DEF Unread, Settled, Inv, TypeOK, SockInv, NoLeak, DataIsOurs, Used
  <2>2. ASSUME NEW outcome \in Outcomes, ConnectReply(r, outcome) PROVE Settled
    <3>1. r.kind = "connect"
      BY <2>2 DEF ConnectReply
    <3> QED
      BY <1>1, <1>5, <2>2, <3>1, ConnectReplySettles
  <2> QED
    BY <1>1, <1>2, <2>1, <2>2, RecvReplySettles, SendReplySettles DEF IpCallback
<1>7. \/ r.kind = "connect"
      \/ r.kind # "connect" /\ (state \in {"closed", "inProgress"} => state' = state)
                            /\ (state' \in {"closed", "inProgress"} => state' = state)
  <2>1. CASE Unread
    BY <2>1 DEF Unread
  <2>2. ASSUME NEW outcome \in Outcomes, RecvReply(r, outcome) \/ SendReply(r), r.kind # "connect"
        PROVE  /\ state \in {"closed", "inProgress"} => state' = state
               /\ state' \in {"closed", "inProgress"} => state' = state
    BY <1>2, <1>5, <2>2, AskedOnly DEF RecvReply, SendReply
  <2> QED
    BY <1>1, <1>2, <2>1, <2>2 DEF IpCallback, ConnectReply, Outcomes
<1>8. TypeOK'
  BY <1>1, <1>6 DEF Inv, TypeOK, Settled
<1>9. SockInv'
  BY <1>1, <1>6 DEF Inv, TypeOK, SockInv, Settled, DataIsOurs
<1>10. MsgInv'
  <2>1. CASE r.kind # "connect"
    <3>1. /\ state \in {"closed", "inProgress"} => state' = state
          /\ state' \in {"closed", "inProgress"} => state' = state
      BY <1>7, <2>1
    <3> QED
      BY <1>1, <1>3, <3>1 DEF Inv, MsgInv
  <2>2. CASE r.kind = "connect"
    <3>1. (\A q \in requests : q.kind # "connect") /\ \A i \in Open' : rx[i].kind # "connect"
      BY <1>3, <1>5, <2>2
    <3>2. /\ \A q \in requests : q.session # mine
          /\ \A i \in Open' : rx[i].session # mine
      BY <1>3, <1>5, <2>2, <3>1 DEF Inv, MsgInv
    <3> QED
      BY <1>1, <3>1, <3>2 DEF MsgInv
  <2> QED
    BY <2>1, <2>2
<1> QED
  BY <1>4, <1>8, <1>9, <1>10 DEF Inv

----------------------------------------------------------------------------
(* The handshake.                                                          *)

(* A step of the handshake that leaves the socket and what is on its way.  *)
LEMMA SocketStays ==
  ASSUME Inv, UNCHANGED <<host, mine, got>>, Open' = Open, \A i \in Open : rx'[i] = rx[i]
  PROVE  SockInv' /\ MsgInv'
<1>1. UNCHANGED <<sockets, client, state, requests, leaked>>
  BY DEF host
<1>2. SockInv'
  BY <1>1 DEF Inv, SockInv, NoLeak, DataIsOurs, Used
<1>3. MsgInv'
  BY <1>1 DEF Inv, MsgInv
<1> QED
  BY <1>2, <1>3

(* A reply that cannot be read is dealt with all the same.                 *)
LEMMA HandleFailsKeeps == Inv /\ HandleFails => Inv'
<1> SUFFICES ASSUME Inv, HandleFails PROVE Inv'
  OBVIOUS
<1>1. /\ step = "idle" /\ line = "presented" /\ line' = "taken"
      /\ UNCHANGED <<nextSock, lastSession, rx, serviceRequest, intOn, step, mine, got>>
      /\ UNCHANGED <<sockets, client, state, requests, leaked>>
  BY DEF HandleFails, host
<1>2. HandInv' /\ TypeOK'
  BY <1>1 DEF Inv, HandInv, TypeOK
<1>3. Open' \subseteq Open
  BY <1>1 DEF Open
<1>4. SockInv'
  BY <1>1 DEF Inv, SockInv, NoLeak, DataIsOurs, Used
<1>5. MsgInv'
  BY <1>1, <1>3 DEF Inv, MsgInv
<1> QED
  BY <1>2, <1>4, <1>5 DEF Inv

(* The two halves of winc_adapter_interrupt_serviced.                      *)
LEMMA ServicedKeeps == Inv /\ (Serviced \/ Reenabled) => Inv'
<1> SUFFICES ASSUME Inv, Serviced \/ Reenabled PROVE Inv'
  OBVIOUS
<1>1. /\ UNCHANGED <<nextSock, lastSession, rx, line, mine, got, host>>
      /\ UNCHANGED <<sockets, client, state, requests, leaked>>
  BY DEF Serviced, Reenabled, host
<1>2. Open' = Open
  BY <1>1 DEF Open
<1>3. SockInv' /\ MsgInv'
  BY <1>1, <1>2, SocketStays
<1>4. CASE Serviced
  <2>1. /\ step = "served" /\ step' = "counted" /\ intOn' = FALSE
        /\ serviceRequest' = IF serviceRequest > 0 THEN serviceRequest - 1 ELSE 0
    BY <1>4 DEF Serviced
  <2>2. serviceRequest = 1 /\ serviceRequest' = 0
    BY <2>1 DEF Inv, HandInv
  <2>3. line = "taken" /\ rx # <<>>
    BY <2>1 DEF Inv, HandInv
  <2>4. HandInv'
    BY <1>1, <2>1, <2>2, <2>3 DEF HandInv
  <2>5. serviceRequest' \in 0 .. 1 /\ intOn' \in BOOLEAN
        /\ step' \in {"idle", "served", "counted", "enabled"}
    <3>1. serviceRequest' \in 0 .. 1
      BY <2>2
    <3>2. intOn' \in BOOLEAN
      BY <2>1, Zenon
    <3>3. step' \in {"idle", "served", "counted", "enabled"}
      BY <2>1
    <3> QED
      BY <3>1, <3>2, <3>3
  <2>6. TypeOK'
    BY <1>1, <2>5 DEF Inv, TypeOK
  <2> QED
    BY <1>3, <2>4, <2>6 DEF Inv
<1>5. CASE Reenabled
  <2>1. /\ step = "counted" /\ step' = "enabled" /\ intOn' = TRUE /\ serviceRequest' = serviceRequest
    BY <1>5 DEF Reenabled
  <2>2. HandInv' /\ TypeOK'
    BY <1>1, <2>1 DEF Inv, HandInv, TypeOK
  <2> QED
    BY <1>3, <2>2 DEF Inv
<1> QED
  BY <1>4, <1>5

(* RX done: the replies behind move up.                                    *)
LEMMA RxDoneKeeps == Inv /\ RxDone => Inv'
<1> SUFFICES ASSUME Inv, RxDone PROVE Inv'
  OBVIOUS
<1>1. /\ step = "enabled" /\ step' = "idle"
      /\ (line' = "idle" /\ rx' = Tail(rx)) \/ UNCHANGED <<line, rx>>
      /\ UNCHANGED <<nextSock, lastSession, serviceRequest, intOn, mine, got, host>>
      /\ UNCHANGED <<sockets, client, state, requests, leaked>>
  BY DEF RxDone, host
<1>2. line = "taken" /\ rx \in Seq(Reply) /\ rx # <<>> /\ Len(rx) \in Nat
  BY <1>1, LenProperties DEF Inv, TypeOK, HandInv
<1>3. CASE UNCHANGED <<line, rx>>
  <2>1. Open' = Open
    BY <1>3 DEF Open
  <2>2. SockInv' /\ MsgInv'
    BY <1>1, <1>3, <2>1, SocketStays
  <2>3. HandInv' /\ TypeOK'
    BY <1>1, <1>3 DEF Inv, HandInv, TypeOK
  <2> QED
    BY <2>2, <2>3 DEF Inv
<1>4. CASE line' = "idle" /\ rx' = Tail(rx)
  <2>1. /\ rx' \in Seq(Reply) /\ Len(rx') = Len(rx) - 1
        /\ \A i \in 1 .. Len(rx') : rx'[i] = rx[i + 1]
    BY <1>2, <1>4, HeadTailProperties
  <2>2. HandInv' /\ TypeOK'
    BY <1>1, <1>4, <2>1 DEF Inv, HandInv, TypeOK
  <2>3. \A i \in Open' : i \in Nat /\ i + 1 \in Open /\ rx'[i] = rx[i + 1]
    BY <1>2, <2>1 DEF Open
  <2>4. SockInv'
    BY <1>1 DEF Inv, SockInv, NoLeak, DataIsOurs, Used
  <2>5. MsgInv'
    <3>1. \A q \in requests : q.kind = "connect" =>
            /\ state = "inProgress" /\ q.sock = client /\ q.session = mine
            /\ \A i \in Open' : rx'[i].kind # "connect"
      BY <2>3 DEF Inv, MsgInv
    <3>2. ASSUME NEW i \in Open', rx'[i].kind = "connect"
          PROVE  /\ state = "inProgress" /\ rx'[i].sock = client
                 /\ \A j \in Open' : rx'[j].kind = "connect" => j = i
      <4>1. i + 1 \in Open /\ rx[i + 1].kind = "connect" /\ rx'[i].sock = rx[i + 1].sock
        BY <2>3, <3>2
      <4>2. /\ state = "inProgress" /\ rx[i + 1].sock = client
            /\ \A j \in Open : rx[j].kind = "connect" => j = i + 1
        BY <4>1 DEF Inv, MsgInv
      <4>3. ASSUME NEW j \in Open', rx'[j].kind = "connect" PROVE j = i
        <5>1. j + 1 = i + 1 /\ i \in Nat /\ j \in Nat
          BY <2>3, <4>2, <4>3
        <5> QED
          BY <5>1
      <4> QED
        BY <4>1, <4>2, <4>3
    <3>3. state \in {"closed", "inProgress"} =>
            /\ \A q \in requests : q.kind # "connect" => q.session # mine
            /\ \A i \in Open' : rx'[i].kind # "connect" => rx'[i].session # mine
      BY <2>3 DEF Inv, MsgInv
    <3> QED
      BY <1>1, <3>1, <3>2, <3>3 DEF MsgInv
  <2> QED
    BY <2>2, <2>4, <2>5 DEF Inv
<1> QED
  BY <1>1, <1>3, <1>4

(* The WINC pulls the pin, which the host's interrupt counts.              *)
LEMMA PresentKeeps == Inv /\ Present => Inv'
<1> SUFFICES ASSUME Inv, Present PROVE Inv'
  OBVIOUS
<1>1. /\ rx # <<>> /\ line = "idle" /\ line' = "presented"
      /\ serviceRequest' = IF intOn THEN serviceRequest + 1 ELSE serviceRequest
      /\ UNCHANGED <<nextSock, lastSession, rx, intOn, step, mine, got, host>>
      /\ UNCHANGED <<sockets, client, state, requests, leaked>>
  BY DEF Present, host
<1>2. step = "idle" /\ intOn /\ serviceRequest = 0 /\ serviceRequest' = 1
  BY <1>1 DEF Inv, HandInv, TypeOK
<1>3. HandInv' /\ TypeOK'
  BY <1>1, <1>2 DEF Inv, HandInv, TypeOK
<1>4. Open' = Open
  BY <1>1 DEF Open
<1>5. SockInv' /\ MsgInv'
  BY <1>1, <1>4, SocketStays
<1> QED
  BY <1>3, <1>5 DEF Inv

(* The WINC answers a command, which is then no longer asked.              *)
LEMMA AnswerKeeps == Inv /\ Answer => Inv'
<1> SUFFICES ASSUME Inv, Answer PROVE Inv'
  OBVIOUS
<1>1. PICK q \in requests, ok \in BOOLEAN :
        /\ requests' = requests \ {q}
        /\ rx' = Append(rx, [kind |-> q.kind, sock |-> q.sock, session |-> q.session, ok |-> ok])
  BY DEF Answer
<1> DEFINE r == [kind |-> q.kind, sock |-> q.sock, session |-> q.session, ok |-> ok]
           n == Len(rx) + 1
<1>2. /\ UNCHANGED <<sockets, nextSock, lastSession, client, state, line, serviceRequest, intOn,
                     step, mine, got, leaked>>
  BY DEF Answer
<1>3. q \in Request /\ requests \subseteq Request /\ rx \in Seq(Reply) /\ Len(rx) \in Nat
  BY LenProperties DEF Inv, TypeOK
<1>4. r \in Reply /\ r.kind = q.kind /\ r.sock = q.sock /\ r.session = q.session
  BY <1>3 DEF Request, Reply
<1>5. /\ rx' \in Seq(Reply) /\ Len(rx') = n /\ rx'[n] = r /\ rx' # <<>>
      /\ \A i \in 1 .. Len(rx) : rx'[i] = rx[i]
  BY <1>1, <1>3, <1>4, AppendProperties
<1>6. TypeOK' /\ HandInv'
  BY <1>1, <1>2, <1>5 DEF Inv, TypeOK, HandInv
<1>7. SockInv'
  BY <1>2 DEF Inv, SockInv, NoLeak, DataIsOurs, Used
<1>8. \A i \in Open' : (i \in Open /\ rx'[i] = rx[i]) \/ (i = n /\ rx'[i] = r)
  BY <1>2, <1>3, <1>5 DEF Open
<1>9. MsgInv'
  <2>1. \A p \in requests' : p.kind = "connect" =>
          /\ state = "inProgress" /\ p.sock = client /\ p.session = mine
          /\ \A i \in Open' : rx'[i].kind # "connect"
    <3> SUFFICES ASSUME NEW p \in requests', p.kind = "connect"
                 PROVE  /\ state = "inProgress" /\ p.sock = client /\ p.session = mine
                        /\ \A i \in Open' : rx'[i].kind # "connect"
      OBVIOUS
    <3>1. p \in requests /\ p # q /\ p \in Request
      BY <1>1, <1>3
    <3>2. /\ state = "inProgress" /\ p.sock = client /\ p.session = mine
          /\ \A i \in Open : rx[i].kind # "connect"
      BY <3>1 DEF Inv, MsgInv
    <3>3. q.kind # "connect"
      <4> SUFFICES ASSUME q.kind = "connect" PROVE FALSE
        OBVIOUS
      <4>1. q.sock = client /\ q.session = mine
        BY DEF Inv, MsgInv
      <4>2. p = q
        BY <1>3, <3>1, <3>2, <4>1 DEF Request
      <4> QED
        BY <3>1, <4>2
    <3> QED
      BY <1>4, <1>8, <3>2, <3>3
  <2>2. ASSUME NEW i \in Open', rx'[i].kind = "connect"
        PROVE  /\ state = "inProgress" /\ rx'[i].sock = client
               /\ \A j \in Open' : rx'[j].kind = "connect" => j = i
    <3>1. CASE q.kind = "connect"
      <4>1. /\ state = "inProgress" /\ q.sock = client
            /\ \A j \in Open : rx[j].kind # "connect"
        BY <3>1 DEF Inv, MsgInv
      <4> QED
        BY <1>4, <1>8, <2>2, <4>1
    <3>2. CASE q.kind # "connect"
      <4>1. i \in Open /\ rx'[i] = rx[i] /\ rx[i].kind = "connect"
        BY <1>4, <1>8, <2>2, <3>2
      <4>2. /\ state = "inProgress" /\ rx[i].sock = client
            /\ \A j \in Open : rx[j].kind = "connect" => j = i
        BY <4>1 DEF Inv, MsgInv
      <4> QED
        BY <1>4, <1>8, <3>2, <4>1, <4>2
    <3> QED
      BY <3>1, <3>2
  <2>3. state \in {"closed", "inProgress"} =>
          /\ \A p \in requests' : p.kind # "connect" => p.session # mine
          /\ \A i \in Open' : rx'[i].kind # "connect" => rx'[i].session # mine
    BY <1>1, <1>4, <1>8 DEF Inv, MsgInv
  <2> QED
    BY <1>2, <2>1, <2>2, <2>3 DEF MsgInv
<1> QED
  BY <1>6, <1>7, <1>9 DEF Inv

(* Every step of the client, of the host and of the WINC.                  *)
LEMMA InvStep == Inv /\ [Next]_vars => Inv'
<1> SUFFICES ASSUME Inv, [Next]_vars PROVE Inv'
  OBVIOUS
<1>1. CASE UNCHANGED vars
  <2>1. UNCHANGED <<sockets, nextSock, lastSession, client, state, requests, leaked, rx, line,
                    serviceRequest, intOn, step, mine, got>>
    BY <1>1 DEF vars, hif
  <2>2. TypeOK' /\ HandInv' /\ Open' = Open
    BY <2>1 DEF Inv, TypeOK, HandInv, Open
  <2>3. SockInv' /\ MsgInv'
    BY <2>1, <2>2, SocketStays DEF host
  <2> QED
    BY <2>2, <2>3 DEF Inv
<1>2. CASE Tasks
  BY <1>2, ConnectSocketKeeps, ReceiveKeeps, SendKeeps, ClientClosesKeeps, ReinitKeeps DEF Tasks
<1>3. CASE Interrupts
  BY <1>3, HandleFailsKeeps, HandleIsrKeeps, ServicedKeeps, RxDoneKeeps DEF Interrupts
<1> QED
  BY <1>1, <1>2, <1>3, PresentKeeps, AnswerKeeps DEF Next

(* The invariant of all of them.                                           *)
LEMMA InvHolds == Spec => []Inv
  BY InvInit, InvStep, PTL DEF Spec

----------------------------------------------------------------------------
(* Every variable has its type: the socket table, the session numbers and  *)
(* the count of interrupts not yet served stay in their ranges.            *)
THEOREM TypeCorrect == Spec => []TypeOK
<1>1. Inv => TypeOK
  BY DEF Inv
<1> QED
  BY <1>1, InvHolds, PTL

(* BSD_SocketHandler knows the socket's number only, and still a socket it *)
(* makes connected is in use, with the client's session: a connection is   *)
(* asked for one at a time, and its session has nothing else on its way    *)
(* before it is there.                                                     *)
THEOREM ConnectedIsUsedHolds == Spec => []ConnectedIsUsed
<1>1. Inv => ConnectedIsUsed
  BY DEF Inv, SockInv, ConnectedIsUsed
<1> QED
  BY <1>1, InvHolds, PTL

(* m2m_ip_cb: data that comes late, for a socket closed in the meantime,   *)
(* is never taken for data of the client's present connection.             *)
THEOREM DataIsOursHolds == Spec => []DataIsOurs
<1>1. Inv => DataIsOurs
  BY DEF Inv, SockInv
<1> QED
  BY <1>1, InvHolds, PTL

(* socket() and close(): an entry of the table that nobody uses and nobody *)
(* can close is there only because a close command was lost.               *)
THEOREM NoLeakHolds == Spec => []NoLeak
<1>1. Inv => NoLeak
  BY DEF Inv, SockInv
<1> QED
  BY <1>1, InvHolds, PTL

(* winc_hif_handle_isr and winc_adapter_interrupt_serviced: the count goes *)
(* down and the pin interrupt comes back before the WINC is told to go on, *)
(* so a reply it presents is always counted.                               *)
THEOREM PresentedIsCountedHolds == Spec => []PresentedIsCounted
<1>1. Inv => PresentedIsCounted
  BY DEF Inv, HandInv, PresentedIsCounted
<1> QED
  BY <1>1, InvHolds, PTL
=============================================================================
