---------------------------- MODULE DhcpProofs ----------------------------
(***************************************************************************)
(* Proofs about Dhcp: the clients are an environment that DhcpServer       *)
(* allows for, for any number of hosts and processes, any address pool and *)
(* any delay, loss and duplication of datagrams; so what DhcpServerProofs  *)
(* shows of the server alone also holds next to its clients.               *)
(*                                                                         *)
(* The two programs depend on each other here: a client sends what it has  *)
(* received, with another type and code, and the server answers with what  *)
(* it has received.  The invariant PacketsOK says of every packet, in      *)
(* flight or in a buffer, that its lease time, address and mask are ones   *)
(* that the server has once put there; it needs the records of the server  *)
(* to be well-formed, and the steps of the clients to be steps of its      *)
(* environment.                                                            *)
(***************************************************************************)
EXTENDS Dhcp, SeqLemmas

\* The server with the theorems about it.
Srv == INSTANCE DhcpServerProofs WITH
  ttl_flag <- server_ttl_flag, EnvPackets <- ClientSends, EnvProcs <- Procs

Fields == [type : Uint8, code : Uint8, ttl : {0, Htons(UseIpTime)},
           address : Addrs \cup {Zero}, netmask : Masks \cup {Zero}]
Requests == [from : Procs, pkt : ClientSends]

InFlightOK ==
  /\ toServer \in Seq(Requests)
  /\ toClient \in [Procs -> Seq(Fields)]

\* A datagram that may be sent again is one that may be sent.
BuffersOK ==
  /\ dhcph_packet \in [Procs -> Fields]
  /\ \A p \in Procs : WaitsFirst(p) => dhcph_packet[p] \in ClientSends

\* ClientTypeOK without the buffer.
LoopsOK ==
  /\ stat \in [Procs -> INIT .. WAIT_ACK_AGAIN]
  /\ use_ip_time \in [Procs -> Uint16]
  /\ age \in [Procs -> 0 .. Timeout]
  /\ alarm \in [Procs -> OFF .. 32767]
  /\ ttl_flag \in [Procs -> BOOLEAN]
  /\ release_flag \in [Procs -> BOOLEAN]
  /\ registered \in [Procs -> BOOLEAN]
  /\ cpc \in [Procs -> {"top", "flags", "recv"}]

PacketsOK == InFlightOK /\ BuffersOK
Inv == Srv!IInv /\ PacketsOK /\ LoopsOK

-----------------------------------------------------------------------------
\* Packets.
LEMMA HtonsType ==
  ASSUME NEW n \in Uint16
  PROVE  Htons(n) \in Uint16 /\ Ntohs(n) \in Uint16
<1>1. MaxUint16 \in Nat /\ MaxUint16 = 65535
  BY DEF MaxUint16
<1>2. MaxUint16 \in Nat
  BY <1>1
<1>3. n \in Nat /\ n <= MaxUint16
  BY <1>2 DEF Uint16
<1>4. n <= 65535
  BY <1>1, <1>3
<1>5. n % 256 \in Nat /\ n % 256 <= 255
  BY <1>3
<1>6. n \div 256 \in Nat /\ n \div 256 <= 255
  BY <1>3, <1>4
<1>7. ASSUME NEW a \in Nat, NEW b \in Nat, a <= 255, b <= 255
      PROVE  a * 256 + b \in Nat /\ a * 256 + b <= 65535
  BY <1>7
<1>8. Htons(n) \in Nat /\ Htons(n) <= 65535
  BY <1>5, <1>6, <1>7 DEF Htons
<1>9. Htons(n) <= MaxUint16
  BY <1>1, <1>8
<1>. QED
  BY <1>2, <1>8, <1>9 DEF Ntohs, Uint16

LEMMA FieldsArePackets == Fields \subseteq Packets
<1>1. MaxUint16 \in Nat
  BY DEF MaxUint16
<1>2. Htons(UseIpTime) \in Uint16 /\ 0 \in Uint16
  BY <1>1, DhcpAssumption, HtonsType DEF Uint16
<1>. QED
  BY <1>2 DEF Fields, Packets

LEMMA SendsAreFields == ClientSends \subseteq Fields
BY DEF ClientSends, Fields, Discover, NoPacket, Uint8, DISCOVER, REQUEST, RELEASE,
       RequestAlloc, RequestExt

\* What a client makes of a packet that it has received.
LEMMA MadeOfFields ==
  ASSUME NEW m \in Fields
  PROVE  /\ Accept(m) \in ClientSends
         /\ [m EXCEPT !.type = REQUEST, !.code = RequestExt] \in ClientSends
         /\ [m EXCEPT !.type = RELEASE, !.code = 0, !.ttl = 0, !.netmask = Zero]
              \in ClientSends
BY DEF Fields, ClientSends, Accept

LEMMA ServerAssumed == Srv!ServerAssumption /\ Srv!NetAssumption
<1>1. Srv!Uint16 = Uint16 /\ Srv!Packets = Packets
  BY DEF Uint8, Srv!Uint8, Uint16, Srv!Uint16, MaxUint16, Srv!MaxUint16, Packets, Srv!Packets
<1>2. ClientSends \subseteq Srv!Packets
  BY <1>1, FieldsArePackets, SendsAreFields
<1>3. Srv!IpMasks = [ip : Addrs, netmask : Masks]
  BY DEF Srv!IpMasks
<1>4. Srv!NetAssumption
  BY NetAssumption DEF Srv!NetAssumption
<1>. QED
  BY <1>1, <1>2, <1>3, <1>4, DhcpAssumption DEF Srv!ServerAssumption

-----------------------------------------------------------------------------
\* Server and Srv are instances of the same definitions.

LEMMA SameInit == Server!Init <=> Srv!Init
BY DEF Server!Init, Srv!Init, Server!ServerInit, Srv!ServerInit,
      Server!NetInit, Srv!NetInit

LEMMA SameVars == UNCHANGED Server!vars <=> UNCHANGED Srv!vars
BY SMTT(30) DEF Server!vars, Srv!vars, Server!serverVars, Srv!serverVars,
      Server!netVars, Srv!netVars, Server!queueVars, Srv!queueVars,
      Server!faultVars, Srv!faultVars

LEMMA SameSteps ==
  /\ Server!ServerStep <=> Srv!ServerStep
  /\ Server!Alarm <=> Srv!Alarm
  /\ Server!ServerTick <=> Srv!ServerTick
  /\ Server!ClientMove <=> Srv!ClientMove
  /\ Server!Network <=> Srv!Network
  /\ UNCHANGED Server!serverVars <=> UNCHANGED Srv!serverVars
  /\ UNCHANGED Server!netVars <=> UNCHANGED Srv!netVars
BY DEF Server!queueVars, Srv!queueVars, Server!faultVars, Srv!faultVars,
      Server!netVars, Srv!netVars, Server!DISCOVER, Srv!DISCOVER,
      Server!OFFER, Srv!OFFER, Server!REQUEST, Srv!REQUEST, Server!ACK,
      Srv!ACK, Server!RELEASE, Srv!RELEASE, Server!OfferOk, Srv!OfferOk,
      Server!OfferNone, Srv!OfferNone, Server!RequestAlloc, Srv!RequestAlloc,
      Server!RequestExt, Srv!RequestExt, Server!AckOk, Srv!AckOk,
      Server!AckRefused, Srv!AckRefused, Server!Htons, Srv!Htons,
      Server!Ntohs, Srv!Ntohs, Server!Enqueue, Srv!Enqueue, Server!Delivered,
      Srv!Delivered, Server!Mail, Srv!Mail, Server!Sent, Srv!Sent,
      Server!LoseRequest, Srv!LoseRequest, Server!LoseReply, Srv!LoseReply,
      Server!DuplicateRequest, Srv!DuplicateRequest, Server!DuplicateReply,
      Srv!DuplicateReply, Server!Network, Srv!Network, Server!serverVars,
      Srv!serverVars, Server!WAIT_REQ, Srv!WAIT_REQ, Server!IN_USE,
      Srv!IN_USE, Server!WAIT_REQ_AGAIN, Srv!WAIT_REQ_AGAIN, Server!UsedAt,
      Srv!UsedAt, Server!RecallIp, Srv!RecallIp, Server!HoldersAt,
      Srv!HoldersAt, Server!ReleaseClient, Srv!ReleaseClient,
      Server!RecallFirst, Srv!RecallFirst, Server!Reached, Srv!Reached,
      Server!Expired, Srv!Expired, Server!Ticked, Srv!Ticked,
      Server!TtlDecrement, Srv!TtlDecrement, Server!TtlClear, Srv!TtlClear,
      Server!OfferFor, Srv!OfferFor, Server!TimedOut, Srv!TimedOut,
      Server!Reoffered, Srv!Reoffered, Server!GivesUp, Srv!GivesUp,
      Server!WaitEvent, Srv!WaitEvent, Server!RecordsOf, Srv!RecordsOf,
      Server!Known, Srv!Known, Server!RecordAt, Srv!RecordAt, Server!RecordOf,
      Srv!RecordOf, Server!AgreesWithOffer, Srv!AgreesWithOffer,
      Server!AsksNew, Srv!AsksNew, Server!AsksAlloc, Srv!AsksAlloc,
      Server!AsksExtension, Srv!AsksExtension, Server!AsksRelease,
      Srv!AsksRelease, Server!Reply, Srv!Reply, Server!NewClient,
      Srv!NewClient, Server!MakeOffer, Srv!MakeOffer, Server!RefuseOffer,
      Srv!RefuseOffer, Server!Leased, Srv!Leased, Server!GrantLease,
      Srv!GrantLease, Server!RefuseLease, Srv!RefuseLease, Server!Extended,
      Srv!Extended, Server!ExtendLease, Srv!ExtendLease, Server!EndLease,
      Srv!EndLease, Server!Ignore, Srv!Ignore, Server!Handle, Srv!Handle,
      Server!Recv, Srv!Recv, Server!Idle, Srv!Idle, Server!ServerStep,
      Srv!ServerStep, Server!Alarm, Srv!Alarm, Server!Older, Srv!Older,
      Server!ServerTick, Srv!ServerTick, Server!OpenSocket, Srv!OpenSocket,
      Server!TakeReply, Srv!TakeReply, Server!CloseSocket, Srv!CloseSocket,
      Server!ClientMove, Srv!ClientMove, Server!Min, Srv!Min, Server!RemoveAt, Srv!RemoveAt

LEMMA SameNext == Server!Next <=> Srv!Next
BY SameSteps DEF Server!Next, Srv!Next, Server!Tick, Srv!Tick

LEMMA SameTypes == Server!TypeOK <=> Srv!TypeOK
BY DEF Server!TypeOK, Srv!TypeOK, Server!NetTypeOK, Srv!NetTypeOK,
      Server!Packets, Srv!Packets, Server!Datagrams, Srv!Datagrams,
      Server!Uint8, Srv!Uint8, Server!Uint16, Srv!Uint16, Server!MaxUint16,
      Srv!MaxUint16, Server!IpMasks, Srv!IpMasks, Server!ClientRecords,
      Srv!ClientRecords, Server!WAIT_REQ, Srv!WAIT_REQ, Server!IN_USE,
      Srv!IN_USE, Server!WAIT_REQ_AGAIN, Srv!WAIT_REQ_AGAIN,
      Server!TimerStates, Srv!TimerStates

\* The theorems about the server alone, here.
LEMMA ServerInvariant ==
  /\ Server!Init => Srv!IInv
  /\ Srv!IInv /\ [Server!Next]_(Server!vars) => Srv!IInv'
<1>1. /\ Srv!Init => Srv!IInv
      /\ Srv!IInv /\ [Srv!Next]_(Srv!vars) => Srv!IInv'
  BY ServerAssumed, Srv!InitEstablishes, Srv!StepKeeps, NetAssumption DEF Srv!ServerAssumption
<1>. QED
  BY <1>1, SameInit, SameNext, SameVars

-----------------------------------------------------------------------------
\* Datagrams in flight.

LEMMA EnqueueType ==
  ASSUME NEW S, NEW q \in Seq(S), NEW m \in S
  PROVE  Enqueue(q, m) \in Seq(S)
BY AppendElements DEF Enqueue

\* What a client may do to its socket, and to the server's.
ClientMoved(p) ==
  /\ \/ Server!OpenSocket(p) \/ Server!TakeReply(p) \/ Server!CloseSocket(p)
     \/ UNCHANGED <<toClient, open>>
  /\ \/ \E m \in ClientSends : toServer' = Sent(p, m)
     \/ UNCHANGED toServer

LEMMA ClientMovedInFlight ==
  ASSUME InFlightOK, NEW p \in Procs, ClientMoved(p) PROVE InFlightOK'
<1>1. toServer' \in Seq(Requests)
  <2>1. ASSUME NEW m \in ClientSends, toServer' = Sent(p, m)
        PROVE  toServer' \in Seq(Requests)
    <3>1. [from |-> p, pkt |-> m] \in Requests
      BY DEF Requests
    <3>. QED
      BY <2>1, <3>1, EnqueueType DEF Sent, InFlightOK
  <2>. QED
    BY <2>1 DEF ClientMoved, InFlightOK
<1>2. toClient' \in [Procs -> Seq(Fields)]
  <2>1. CASE Server!TakeReply(p)
    <3>1. toClient[p] \in Seq(Fields) /\ toClient[p] # << >>
      BY <2>1 DEF InFlightOK, Server!TakeReply
    <3>2. Tail(toClient[p]) \in Seq(Fields)
      BY <3>1, TailElements
    <3>. QED
      BY <2>1, <3>2 DEF InFlightOK, Server!TakeReply
  <2>2. CASE Server!CloseSocket(p)
    BY <2>2 DEF InFlightOK, Server!CloseSocket
  <2>3. CASE Server!OpenSocket(p) \/ UNCHANGED <<toClient, open>>
    BY <2>3 DEF InFlightOK, Server!OpenSocket
  <2>. QED
    BY <2>1, <2>2, <2>3 DEF ClientMoved
<1>. QED
  BY <1>1, <1>2 DEF InFlightOK

LEMMA NetworkInFlight ==
  ASSUME InFlightOK, Network PROVE InFlightOK'
<1>1. toServer \in Seq(Requests) /\ toClient \in [Procs -> Seq(Fields)]
  BY DEF InFlightOK
<1>2. ASSUME LoseRequest PROVE InFlightOK'
  <2>1. PICK i \in DOMAIN toServer : toServer' = RemoveAt(toServer, i)
    BY <1>2 DEF LoseRequest
  <2>2. i \in 1 .. Len(toServer)
    BY <1>1
  <2>3. toServer' \in Seq(Requests)
    BY <1>1, <2>1, <2>2, RemoveAtProperties
  <2>. QED
    BY <1>1, <1>2, <2>3 DEF InFlightOK, LoseRequest
<1>3. ASSUME LoseReply PROVE InFlightOK'
  <2>1. PICK p \in Procs : \E i \in DOMAIN toClient[p] :
          toClient' = [toClient EXCEPT ![p] = RemoveAt(@, i)]
    BY <1>3 DEF LoseReply
  <2>2. PICK i \in DOMAIN toClient[p] :
          toClient' = [toClient EXCEPT ![p] = RemoveAt(toClient[p], i)]
    BY <2>1
  <2>3. i \in 1 .. Len(toClient[p])
    BY <1>1
  <2>4. RemoveAt(toClient[p], i) \in Seq(Fields)
    BY <1>1, <2>3, RemoveAtProperties
  <2>5. toClient' \in [Procs -> Seq(Fields)]
    BY <1>1, <2>2, <2>4
  <2>. QED
    BY <1>1, <1>3, <2>5 DEF InFlightOK, LoseReply
<1>4. ASSUME DuplicateRequest PROVE InFlightOK'
  <2>1. PICK i \in DOMAIN toServer : toServer' = Enqueue(toServer, toServer[i])
    BY <1>4 DEF DuplicateRequest
  <2>2. toServer[i] \in Requests
    BY <1>1
  <2>3. toServer' \in Seq(Requests)
    BY <1>1, <2>1, <2>2, EnqueueType
  <2>. QED
    BY <1>1, <1>4, <2>3 DEF InFlightOK, DuplicateRequest
<1>5. ASSUME DuplicateReply PROVE InFlightOK'
  <2>1. PICK p \in Procs : \E i \in DOMAIN toClient[p] :
          toClient' = [toClient EXCEPT ![p] = Enqueue(@, toClient[p][i])]
    BY <1>5 DEF DuplicateReply
  <2>2. PICK i \in DOMAIN toClient[p] :
          toClient' = [toClient EXCEPT ![p] = Enqueue(toClient[p], toClient[p][i])]
    BY <2>1
  <2>3. toClient[p][i] \in Fields
    BY <1>1
  <2>4. Enqueue(toClient[p], toClient[p][i]) \in Seq(Fields)
    BY <1>1, <2>3, EnqueueType
  <2>5. toClient' \in [Procs -> Seq(Fields)]
    BY <1>1, <2>2, <2>4
  <2>. QED
    BY <1>1, <1>5, <2>5 DEF InFlightOK, DuplicateReply
<1>. QED
  BY <1>2, <1>3, <1>4, <1>5 DEF Network

\* The server answers with what it has received, or with what its record
\* holds.
LEMMA DeliveredFields ==
  ASSUME toClient \in [Procs -> Seq(Fields)],
         NEW mail, \A p \in DOMAIN mail : mail[p] \in Fields
  PROVE  Server!Delivered(mail) \in [Procs -> Seq(Fields)]
<1>1. ASSUME NEW p \in Procs
      PROVE  (IF p \in DOMAIN mail /\ p \in open
                THEN Enqueue(toClient[p], mail[p]) ELSE toClient[p]) \in Seq(Fields)
  BY EnqueueType
<1>2. \A q, m : Server!Enqueue(q, m) = Enqueue(q, m)
  BY DEF Enqueue, Server!Enqueue
<1>. QED
  BY <1>1, <1>2 DEF Server!Delivered

LEMMA ServerInFlight ==
  ASSUME InFlightOK, Srv!IInv, Server!ServerStep PROVE InFlightOK'
<1>1. toServer \in Seq(Requests) /\ toClient \in [Procs -> Seq(Fields)]
  BY DEF InFlightOK
<1>2. clients \in Seq(Srv!ClientRecords)
  BY DEF Srv!IInv, Srv!TypeOK
<1>3. ASSUME NEW c, c.addr \in Addrs, c.netmask \in Masks
      PROVE  Server!OfferFor(c) \in Fields
  <2>1. Server!Htons(UseIpTime) = Htons(UseIpTime)
    BY DEF Htons, Server!Htons
  <2>. QED
    BY <1>3, <2>1 DEF Server!OfferFor, Fields, Uint8, Server!OFFER, Server!OfferOk
<1>4. ASSUME NEW m \in Fields, NEW p \in Procs, toClient' = Server!Delivered(Server!Mail(p, m))
      PROVE  toClient' \in [Procs -> Seq(Fields)]
  <2>. DEFINE mail == Server!Mail(p, m)
  <2>1. \A q \in DOMAIN mail : mail[q] \in Fields
    BY DEF Server!Mail
  <2>. HIDE DEF mail
  <2>. QED
    BY <1>1, <1>4, <2>1, DeliveredFields DEF mail
<1>5. CASE Server!TtlDecrement \/ Server!TtlClear \/ Server!Idle
  BY <1>1, <1>5 DEF Server!TtlDecrement, Server!TtlClear, Server!Idle, Server!netVars,
                    Server!queueVars, InFlightOK
<1>6. CASE Server!WaitEvent
  <2>. DEFINE due == {i \in DOMAIN clients : Server!GivesUp(clients[i])}
              again == {i \in DOMAIN clients :
                          /\ Server!Reached(due, i)
                          /\ Server!Reoffered(clients[i]) # clients[i]}
              mail == [p \in {clients[i].again : i \in again} |->
                         Server!OfferFor(clients[Server!Min({i \in again : clients[i].again = p})])]
  <2>1. toClient' = Server!Delivered(mail) /\ toServer' = toServer
    BY <1>6 DEF Server!WaitEvent
  <2>2. ASSUME NEW p \in DOMAIN mail PROVE mail[p] \in Fields
    <3>. DEFINE J == {i \in again : clients[i].again = p}
    <3>1. J # {} /\ J \subseteq DOMAIN clients
      OBVIOUS
    <3>2. J \subseteq Nat
      BY <1>2, <3>1
    <3>3. Min(J) \in DOMAIN clients /\ Min(J) = Server!Min(J)
      BY <3>1, <3>2, MinProperties DEF Min, Server!Min
    <3>4. clients[Server!Min(J)] \in Srv!ClientRecords
      BY <1>2, <3>3
    <3>5. mail[p] = Server!OfferFor(clients[Server!Min(J)])
      OBVIOUS
    <3>. HIDE DEF J, mail
    <3>. QED
      BY <1>3, <3>4, <3>5 DEF Srv!ClientRecords
  <2>. HIDE DEF mail
  <2>. QED
    BY <1>1, <2>1, <2>2, DeliveredFields DEF InFlightOK
<1>7. CASE Server!Recv
  <2>. DEFINE d == Head(toServer)
  <2>1. toServer # << >> /\ toServer' = Tail(toServer) /\ Server!Handle(d)
    BY <1>7 DEF Server!Recv
  <2>2. d \in Requests /\ toServer' \in Seq(Requests)
    BY <1>1, <2>1, TailElements
  <2>. HIDE DEF d
  <2>3. d.from \in Procs /\ d.pkt \in Fields
    BY <2>2, SendsAreFields DEF Requests
  <2>4. ASSUME NEW t \in Uint8, NEW c \in Uint8, Server!Reply(d, t, c)
        PROVE  toClient' \in [Procs -> Seq(Fields)]
    <3>1. [d.pkt EXCEPT !.type = t, !.code = c] \in Fields
      BY <2>3 DEF Fields
    <3>. QED
      BY <1>4, <2>3, <2>4, <3>1 DEF Server!Reply
  <2>5. /\ Server!OFFER \in Uint8 /\ Server!ACK \in Uint8 /\ Server!OfferNone \in Uint8
        /\ Server!AckOk \in Uint8 /\ Server!AckRefused \in Uint8
    BY DEF Server!OFFER, Server!ACK, Server!OfferNone, Server!AckOk, Server!AckRefused, Uint8
  <2>6. CASE Server!MakeOffer(d)
    <3>. DEFINE a == Head(pool)
                c == Server!NewClient(d, a)
    <3>1. pool # << >> /\ toClient' = Server!Delivered(Server!Mail(d.from, Server!OfferFor(c)))
      BY <2>6 DEF Server!MakeOffer
    <3>2. pool \in Seq(Srv!IpMasks)
      BY DEF Srv!IInv, Srv!TypeOK
    <3>3. a \in Srv!IpMasks
      BY <3>1, <3>2, TailElements
    <3>4. c.addr \in Addrs /\ c.netmask \in Masks
      BY <3>3 DEF Server!NewClient, Srv!IpMasks
    <3>. HIDE DEF c
    <3>5. Server!OfferFor(c) \in Fields
      BY <1>3, <3>4
    <3>. QED
      BY <1>4, <2>2, <2>3, <3>1, <3>5 DEF InFlightOK
  <2>7. CASE Server!EndLease(d) \/ Server!Ignore(d)
    BY <1>1, <2>2, <2>7 DEF Server!EndLease, Server!Ignore, InFlightOK
  <2>8. CASE \E t, c \in Uint8 : Server!Reply(d, t, c)
    BY <2>2, <2>4, <2>8 DEF InFlightOK
  <2>. QED
    BY <2>1, <2>5, <2>6, <2>7, <2>8 DEF Server!Handle, Server!RefuseOffer, Server!GrantLease,
       Server!RefuseLease, Server!ExtendLease
<1>. QED
  BY <1>5, <1>6, <1>7 DEF Server!ServerStep

-----------------------------------------------------------------------------
\* The clients.  Each of their actions moves packets as the environment of the
\* server may, and keeps the buffer and the rest of the client's state.

LEMMA Numbers ==
  /\ INIT = 1 /\ WAIT_OFFER = 2 /\ WAIT_ACK = 3 /\ IN_USE = 4 /\ WAIT_EXT_ACK = 5
  /\ EXITING = 6 /\ WAIT_EXT_ACK_AGAIN = 7 /\ WAIT_OFFER_AGAIN = 8 /\ WAIT_ACK_AGAIN = 9
  /\ OFF = -1
BY DEF INIT, WAIT_OFFER, WAIT_ACK, IN_USE, WAIT_EXT_ACK, EXITING, WAIT_EXT_ACK_AGAIN,
       WAIT_OFFER_AGAIN, WAIT_ACK_AGAIN, OFF

LEMMA Ranges ==
  /\ {WAIT_OFFER, WAIT_ACK, IN_USE, WAIT_EXT_ACK, EXITING} \subseteq INIT .. WAIT_ACK_AGAIN
  /\ {7, 8, 9} \subseteq INIT .. WAIT_ACK_AGAIN
  /\ IN_USE \notin {2, 3, 5} /\ EXITING \notin {2, 3, 5}
  /\ 0 \in 0 .. Timeout /\ 0 \in Uint16 /\ OFF \in OFF .. 32767
<1>1. MaxUint16 \in Nat
  BY DEF MaxUint16
<1>2. 0 \in Uint16 /\ 0 \in 0 .. Timeout
  BY <1>1, NetAssumption DEF Uint16
<1>. QED
  BY <1>2, Numbers

LEMMA AgainOfType ==
  /\ DOMAIN AgainOf = {2, 3, 5}
  /\ AgainOf[2] = 8 /\ AgainOf[3] = 9 /\ AgainOf[5] = 7
BY Numbers DEF AgainOf

LEMMA Waiting == ASSUME NEW p PROVE WaitsFirst(p) <=> stat[p] \in {2, 3, 5}
BY AgainOfType DEF WaitsFirst

LEMMA WaitingNext == ASSUME NEW p PROVE WaitsFirst(p)' <=> stat'[p] \in {2, 3, 5}
BY AgainOfType DEF WaitsFirst, AgainOf

\* NoPacket is the packet of a process that has not started or has exited.
LEMMA NoPacketFields == NoPacket \in Fields /\ Discover \in ClientSends
BY DEF NoPacket, Fields, Uint8, Discover, ClientSends

LEMMA HalfTimeType ==
  ASSUME LoopsOK, NEW p \in Procs PROVE HalfTime(p) \in OFF .. 32767
<1>1. MaxUint16 \in Nat /\ MaxUint16 = 65535
  BY DEF MaxUint16
<1>2. MaxUint16 \in Nat
  BY <1>1
<1>3. use_ip_time[p] \in Nat /\ use_ip_time[p] <= MaxUint16
  BY <1>2 DEF LoopsOK, Uint16
<1>4. use_ip_time[p] \div 2 \in Nat /\ use_ip_time[p] \div 2 <= 32767
  BY <1>1, <1>3
<1>5. OFF \in Int /\ OFF <= 0 /\ OFF <= 32767
  BY Numbers
<1>6. \A k \in Nat : k <= 32767 => k \in OFF .. 32767
  BY <1>5
<1>. QED
  BY <1>4, <1>6, Ranges DEF HalfTime

ClientKept(p) == ClientMoved(p) /\ BuffersOK' /\ LoopsOK'

\* The buffer of one process changes, the others keep theirs.
LEMMA BufferSet ==
  ASSUME BuffersOK, LoopsOK, NEW p \in Procs, NEW m \in Fields, NEW s,
         stat' = [stat EXCEPT ![p] = s],
         dhcph_packet' = [dhcph_packet EXCEPT ![p] = m],
         s \in {2, 3, 5} => m \in ClientSends
  PROVE  BuffersOK'
<1>1. dhcph_packet' \in [Procs -> Fields]
  BY DEF BuffersOK
<1>2. ASSUME NEW q \in Procs, stat'[q] \in {2, 3, 5} PROVE dhcph_packet'[q] \in ClientSends
  <2>1. CASE q = p
    BY <1>2, <2>1 DEF BuffersOK, LoopsOK
  <2>2. CASE q # p
    BY <1>2, <2>2, Waiting DEF BuffersOK, LoopsOK
  <2>. QED
    BY <2>1, <2>2
<1>. QED
  BY <1>1, <1>2, WaitingNext DEF BuffersOK

LEMMA ExitKept ==
  ASSUME BuffersOK, LoopsOK, NEW p \in Procs, Exit(p)
  PROVE  Server!CloseSocket(p) /\ BuffersOK' /\ LoopsOK'
<1>1. Server!CloseSocket(p)
  BY DEF Exit, Server!CloseSocket
<1>2. BuffersOK'
  <2>1. /\ stat' = [stat EXCEPT ![p] = EXITING]
        /\ dhcph_packet' = [dhcph_packet EXCEPT ![p] = NoPacket]
        /\ EXITING \notin {2, 3, 5}
    BY Numbers DEF Exit
  <2>. QED
    BY <2>1, NoPacketFields, BufferSet
<1>3. LoopsOK'
  <2>1. 0 \in Uint16
    <3>1. MaxUint16 \in Nat
      BY DEF MaxUint16
    <3>. QED
      BY <3>1 DEF Uint16
  <2>2. OFF \in OFF .. 32767 /\ EXITING \in INIT .. WAIT_ACK_AGAIN /\ 0 \in 0 .. Timeout
    BY Numbers, NetAssumption
  <2>. QED
    BY <2>1, <2>2 DEF Exit, LoopsOK
<1>. QED
  BY <1>1, <1>2, <1>3

LEMMA StartKept ==
  ASSUME BuffersOK, LoopsOK, NEW p \in Procs, Start(p) PROVE ClientKept(p)
<1>1. ClientMoved(p)
  BY NoPacketFields DEF Start, Send, ClientMoved, Server!OpenSocket
<1>2. BuffersOK'
  BY NoPacketFields, SendsAreFields, BufferSet DEF Start, Send
<1>3. LoopsOK'
  BY Ranges DEF Start, LoopsOK
<1>. QED
  BY <1>1, <1>2, <1>3 DEF ClientKept

LEMMA TimeoutKept ==
  ASSUME BuffersOK, LoopsOK, NEW p \in Procs, Resend(p) \/ GiveUp(p) PROVE ClientKept(p)
<1>1. CASE Resend(p)
  <2>1. dhcph_packet[p] \in ClientSends /\ stat[p] \in {2, 3, 5}
    BY <1>1, Waiting DEF Resend, BuffersOK
  <2>2. AgainOf[stat[p]] \in {7, 8, 9}
    BY <2>1, AgainOfType
  <2>3. ClientMoved(p)
    BY <1>1, <2>1 DEF Resend, Send, ClientMoved
  <2>4. BuffersOK'
    BY <1>1, <2>1, <2>2, SendsAreFields, BufferSet DEF Resend, Send
  <2>5. LoopsOK'
    BY <1>1, <2>2, Ranges DEF Resend, LoopsOK
  <2>. QED
    BY <2>3, <2>4, <2>5 DEF ClientKept
<1>2. CASE GiveUp(p)
  BY <1>2, ExitKept DEF GiveUp, ClientKept, ClientMoved
<1>. QED
  BY <1>1, <1>2

LEMMA FlagsKept ==
  ASSUME BuffersOK, LoopsOK, NEW p \in Procs,
         Extend(p) \/ ExtendAndExit(p) \/ ReleaseAndExit(p) \/ Proceed(p)
  PROVE  ClientKept(p)
<1>1. dhcph_packet[p] \in Fields
  BY SMTT(30) DEF BuffersOK
<1>2. Extension(p) \in ClientSends /\ ReleaseMessage(p) \in ClientSends
  BY <1>1, MadeOfFields DEF Extension, ReleaseMessage
<1>3. CASE Extend(p)
  <2>1. ClientMoved(p)
    BY <1>2, <1>3 DEF Extend, Send, ClientMoved
  <2>2. BuffersOK'
    BY <1>2, <1>3, SendsAreFields, BufferSet DEF Extend, Send
  <2>3. LoopsOK'
    BY <1>3, Ranges DEF Extend, LoopsOK
  <2>. QED
    BY <2>1, <2>2, <2>3 DEF ClientKept
<1>4. CASE ExtendAndExit(p)
  BY <1>2, <1>4, ExitKept DEF ExtendAndExit, ClientKept, ClientMoved
<1>5. CASE ReleaseAndExit(p)
  BY <1>2, <1>5, ExitKept DEF ReleaseAndExit, ClientKept, ClientMoved
<1>6. CASE Proceed(p)
  BY <1>6, Waiting, WaitingNext DEF Proceed, ClientKept, ClientMoved, BuffersOK, LoopsOK
<1>. QED
  BY <1>3, <1>4, <1>5, <1>6

LEMMA ReceivedKept ==
  ASSUME InFlightOK, BuffersOK, LoopsOK, NEW p \in Procs,
         RecvOffer(p) \/ RecvAck(p) \/ RecvRefusal(p) \/ RecvWrongType(p) \/ RecvNoCase(p)
  PROVE  ClientKept(p)
<1>1. Received(p) \in Fields /\ toClient[p] # << >>
  <2>1. toClient[p] \in Seq(Fields) /\ toClient[p] # << >>
    BY DEF InFlightOK, RecvOffer, RecvAck, RecvRefusal, RecvWrongType, RecvNoCase, Takes
  <2>. QED
    BY <2>1, TailElements DEF Received
<1>2. Consume(p) => Server!TakeReply(p)
  BY <1>1 DEF Consume, Server!TakeReply
<1>3. CASE RecvOffer(p)
  <2>1. Accept(Received(p)) \in ClientSends
    BY <1>1, MadeOfFields
  <2>2. ClientMoved(p)
    BY <1>2, <1>3, <2>1 DEF RecvOffer, Send, ClientMoved
  <2>3. BuffersOK'
    BY <1>3, <2>1, SendsAreFields, BufferSet DEF RecvOffer, Send
  <2>4. Ntohs(Received(p).ttl) \in Uint16
    <3>1. Received(p).ttl \in Uint16
      BY <1>1, FieldsArePackets DEF Packets
    <3>. QED
      BY <3>1, HtonsType
  <2>5. /\ use_ip_time' = [use_ip_time EXCEPT ![p] = Ntohs(Received(p).ttl)]
        /\ stat' = [stat EXCEPT ![p] = WAIT_ACK]
        /\ age' = [age EXCEPT ![p] = 0]
        /\ cpc' = [cpc EXCEPT ![p] = "top"]
        /\ UNCHANGED <<alarm, registered, ttl_flag, release_flag>>
    BY <1>3 DEF RecvOffer, Consume
  <2>6. LoopsOK'
    BY <2>4, <2>5, Ranges DEF LoopsOK
  <2>. QED
    BY <2>2, <2>3, <2>6, SMTT(30) DEF ClientKept
<1>4. CASE RecvAck(p)
  <2>1. ClientMoved(p)
    BY <1>2, <1>4 DEF RecvAck, ClientMoved
  <2>2. /\ stat' = [stat EXCEPT ![p] = IN_USE]
        /\ dhcph_packet' = [dhcph_packet EXCEPT ![p] = Received(p)]
        /\ registered' = [registered EXCEPT ![p] = @ \/ WaitsForAck(p)]
        /\ alarm' = [alarm EXCEPT ![p] = HalfTime(p)]
        /\ age' = [age EXCEPT ![p] = 0]
        /\ cpc' = [cpc EXCEPT ![p] = "top"]
        /\ UNCHANGED <<use_ip_time, ttl_flag, release_flag>>
    BY <1>4 DEF RecvAck, Consume
  <2>3. BuffersOK'
    <3>1. IN_USE \notin {2, 3, 5}
      BY Ranges
    <3>2. /\ stat' = [stat EXCEPT ![p] = IN_USE]
          /\ dhcph_packet' = [dhcph_packet EXCEPT ![p] = Received(p)]
      BY <2>2
    <3>. QED
      BY <1>1, <3>1, <3>2, BufferSet
  <2>4. registered' \in [Procs -> BOOLEAN]
    BY <2>2 DEF LoopsOK
  <2>5. LoopsOK'
    BY <2>2, <2>4, HalfTimeType, Ranges DEF LoopsOK
  <2>. QED
    BY <2>1, <2>3, <2>5 DEF ClientKept
<1>5. CASE RecvRefusal(p)
  BY <1>5, ExitKept DEF RecvRefusal, ClientKept, ClientMoved
<1>6. CASE RecvWrongType(p)
  <2>1. ClientMoved(p)
    BY <1>2, <1>6 DEF RecvWrongType, ClientMoved
  <2>2. BuffersOK'
    <3>1. /\ stat' = [stat EXCEPT ![p] = EXITING]
          /\ dhcph_packet' = [dhcph_packet EXCEPT ![p] = Received(p)]
      BY <1>6 DEF RecvWrongType
    <3>2. EXITING \notin {2, 3, 5}
      BY Ranges
    <3>. QED
      BY <1>1, <3>1, <3>2, BufferSet
  <2>3. LoopsOK'
    BY <1>6, Ranges, SMTT(30) DEF RecvWrongType, Consume, LoopsOK
  <2>. QED
    BY <2>1, <2>2, <2>3 DEF ClientKept
<1>7. CASE RecvNoCase(p)
  <2>1. ClientMoved(p)
    BY <1>2, <1>7 DEF RecvNoCase, ClientMoved
  <2>2. stat[p] \notin {2, 3, 5} /\ stat' = stat
    BY <1>7, Ranges DEF RecvNoCase
  <2>3. stat' = [stat EXCEPT ![p] = stat[p]]
    BY <2>2 DEF LoopsOK
  <2>4. BuffersOK'
    BY <1>1, <1>7, <2>2, <2>3, BufferSet DEF RecvNoCase
  <2>5. LoopsOK'
    BY <1>7 DEF RecvNoCase, Consume, LoopsOK
  <2>. QED
    BY <2>1, <2>4, <2>5 DEF ClientKept
<1>. QED
  BY <1>3, <1>4, <1>5, <1>6, <1>7

LEMMA ClientStepKept ==
  ASSUME InFlightOK, BuffersOK, LoopsOK, NEW p \in Procs, ClientStep(p)
  PROVE  ClientKept(p)
<1>1. CASE NothingToRecv(p)
  BY <1>1, Waiting, WaitingNext
     DEF NothingToRecv, ClientKept, ClientMoved, BuffersOK, LoopsOK, queueVars
<1>. QED
  BY <1>1, TimeoutKept, FlagsKept, ReceivedKept DEF ClientStep

LEMMA SignalKept ==
  ASSUME BuffersOK, LoopsOK, NEW p \in Procs,
         Hangup(p) \/ KilledByHangup(p) \/ ClientAlarm(p)
  PROVE  ClientKept(p)
<1>1. CASE Hangup(p)
  BY <1>1, Waiting, WaitingNext
     DEF Hangup, ClientKept, ClientMoved, BuffersOK, LoopsOK, queueVars
<1>2. CASE KilledByHangup(p)
  BY <1>2, ExitKept DEF KilledByHangup, ClientKept, ClientMoved
<1>3. CASE ClientAlarm(p)
  <2>1. BuffersOK' /\ ClientMoved(p)
    BY <1>3, Waiting, WaitingNext DEF ClientAlarm, ClientMoved, BuffersOK, queueVars
  <2>2. LoopsOK'
    BY <1>3, HalfTimeType DEF ClientAlarm, LoopsOK
  <2>. QED
    BY <2>1, <2>2 DEF ClientKept
<1>. QED
  BY <1>1, <1>2, <1>3

LEMMA TickKept == ASSUME BuffersOK, LoopsOK, ClientTick PROVE BuffersOK' /\ LoopsOK'
<1>1. BuffersOK'
  BY Waiting, WaitingNext DEF ClientTick, BuffersOK
<1>2. alarm' \in [Procs -> OFF .. 32767]
  <2>1. OFF \in Int /\ OFF <= 0
    BY Numbers
  <2>2. \A k \in OFF .. 32767 : k # OFF /\ k # 0 => k - 1 \in OFF .. 32767
    BY <2>1
  <2>3. OFF \in OFF .. 32767
    BY <2>1
  <2>. QED
    BY <2>2, <2>3 DEF ClientTick, LoopsOK
<1>3. age' \in [Procs -> 0 .. Timeout]
  <2>1. \A k \in 0 .. Timeout : k < Timeout => k + 1 \in 0 .. Timeout
    BY NetAssumption
  <2>. QED
    BY <2>1 DEF ClientTick, LoopsOK
<1>. QED
  BY <1>1, <1>2, <1>3 DEF ClientTick, LoopsOK

-----------------------------------------------------------------------------
\* The steps of the composition.

\* A step of the composition is one of the server and its environment.
LEMMA ClientMovedServer ==
  ASSUME NEW p \in Procs, ClientMoved(p), UNCHANGED <<serverVars, faultVars>>
  PROVE  Server!Next
<1>1. \A m : Server!Sent(p, m) = Sent(p, m)
  BY DEF Server!Sent, Sent, Server!Enqueue, Enqueue
<1>. QED
  BY <1>1 DEF Server!Next, Server!ClientMove, ClientMoved, Server!faultVars,
              Server!serverVars, serverVars, faultVars

LEMMA StepServer ==
  ASSUME Inv, [Next]_vars
  PROVE  [Server!Next]_(Server!vars) /\ PacketsOK' /\ LoopsOK'
<1>1. InFlightOK /\ BuffersOK /\ LoopsOK /\ Srv!IInv
  BY DEF Inv, PacketsOK
<1>2. ASSUME NEW p \in Procs, ClientKept(p), UNCHANGED <<serverVars, faultVars>>
      PROVE  [Server!Next]_(Server!vars) /\ PacketsOK' /\ LoopsOK'
  BY <1>1, <1>2, ClientMovedServer, ClientMovedInFlight DEF ClientKept, PacketsOK
<1>3. CASE UNCHANGED clientVars /\ (ServerAct \/ ServerAlarm)
  <2>1. BuffersOK' /\ LoopsOK'
    BY <1>1, <1>3, Waiting, WaitingNext DEF clientVars, BuffersOK, LoopsOK
  <2>2. InFlightOK'
    <3>1. CASE ServerAct
      BY <1>1, <3>1, ServerInFlight DEF ServerAct
    <3>2. CASE ServerAlarm
      BY <1>1, <3>2 DEF ServerAlarm, Server!Alarm, Server!netVars, Server!queueVars, InFlightOK
    <3>. QED
      BY <1>3, <3>1, <3>2
  <2>3. Server!Next
    BY <1>3 DEF ServerAct, ServerAlarm, Server!Next
  <2>. QED
    BY <2>1, <2>2, <2>3 DEF PacketsOK
<1>4. CASE Network /\ UNCHANGED <<clientVars, serverVars>>
  <2>1. BuffersOK' /\ LoopsOK'
    BY <1>1, <1>4, Waiting, WaitingNext DEF clientVars, BuffersOK, LoopsOK
  <2>2. InFlightOK'
    BY <1>1, <1>4, NetworkInFlight
  <2>3. Server!Network /\ UNCHANGED Server!serverVars
    BY <1>4 DEF Network, LoseRequest, LoseReply, DuplicateRequest, DuplicateReply, Enqueue,
       Server!Network, Server!LoseRequest, Server!LoseReply, Server!DuplicateRequest,
       Server!DuplicateReply, Server!Enqueue, RemoveAt, Server!RemoveAt,
       serverVars, Server!serverVars
  <2>. QED
    BY <2>1, <2>2, <2>3 DEF PacketsOK, Server!Next
<1>5. CASE Tick
  <2>1. BuffersOK' /\ LoopsOK'
    BY <1>1, <1>5, TickKept DEF Tick
  <2>2. InFlightOK'
    BY <1>1, <1>5 DEF Tick, netVars, queueVars, InFlightOK
  <2>3. Server!Tick
    BY <1>5 DEF Tick, Server!Tick, netVars, queueVars, faultVars, Server!netVars,
                Server!queueVars, Server!faultVars
  <2>. QED
    BY <2>1, <2>2, <2>3 DEF PacketsOK, Server!Next
<1>6. CASE UNCHANGED vars
  <2>1. BuffersOK' /\ LoopsOK'
    BY <1>1, <1>6, Waiting, WaitingNext DEF vars, clientVars, BuffersOK, LoopsOK
  <2>2. InFlightOK' /\ UNCHANGED Server!vars
    BY <1>1, <1>6 DEF vars, netVars, queueVars, faultVars, serverVars, InFlightOK,
       Server!vars, Server!serverVars, Server!netVars, Server!queueVars, Server!faultVars
  <2>. QED
    BY <2>1, <2>2 DEF PacketsOK
<1>7. CASE \E p \in Procs :
             StartAct(p) \/ ClientAct(p) \/ AlarmAct(p) \/ HangupAct(p) \/ KillAct(p)
  <2>1. PICK p \in Procs :
          StartAct(p) \/ ClientAct(p) \/ AlarmAct(p) \/ HangupAct(p) \/ KillAct(p)
    BY <1>7
  <2>2. UNCHANGED <<serverVars, faultVars>>
    BY <2>1 DEF StartAct, ClientAct, AlarmAct, HangupAct, KillAct
  <2>3. ClientKept(p)
    BY <1>1, <2>1, StartKept, ClientStepKept, SignalKept
       DEF StartAct, ClientAct, AlarmAct, HangupAct, KillAct
  <2>. QED
    BY <1>2, <2>2, <2>3
<1>8. ServerAct \/ ServerAlarm => UNCHANGED clientVars
  BY DEF ServerAct, ServerAlarm
<1>. QED
  BY <1>3, <1>4, <1>5, <1>6, <1>7, <1>8 DEF Next

LEMMA InitInv == Init => Inv /\ Server!Init
<1>. SUFFICES ASSUME Init PROVE Inv /\ Server!Init
  OBVIOUS
<1>1. Server!Init
  BY DEF Init, Server!Init, NetInit, Server!NetInit
<1>2. InFlightOK
  BY DEF Init, NetInit, InFlightOK
<1>3. BuffersOK
  BY NoPacketFields, Waiting, Numbers DEF Init, ClientInit, BuffersOK
<1>4. INIT \in INIT .. WAIT_ACK_AGAIN
  BY Numbers
<1>5. LoopsOK
  BY <1>4, Ranges DEF Init, ClientInit, LoopsOK
<1>. QED
  BY <1>1, <1>2, <1>3, <1>5, ServerInvariant DEF Inv, PacketsOK

LEMMA NextInv == Inv /\ [Next]_vars => Inv'
<1>. SUFFICES ASSUME Inv, [Next]_vars PROVE Inv'
  OBVIOUS
<1>1. [Server!Next]_(Server!vars) /\ PacketsOK' /\ LoopsOK'
  BY StepServer
<1>2. Srv!IInv'
  BY <1>1, ServerInvariant DEF Inv
<1>. QED
  BY <1>1, <1>2 DEF Inv

LEMMA Invariance == Spec => []Inv
BY InitInv, NextInv, PTL DEF Spec

\* Type correctness of the two programs and of all datagrams: neither a repeat
\* nor a refused or late answer drives a client out of its states, its timer
\* out of range or its only packet buffer out of the values of struct dhcph
\* (the loops of mydhcpc.c:116-177 and mydhcpd.c:188-564).
THEOREM DhcpTypeCorrect == Spec => []TypeOK
<1>1. Inv => TypeOK
  <2>. SUFFICES ASSUME Inv PROVE TypeOK
    OBVIOUS
  <2>1. Srv!TypeOK /\ PacketsOK /\ LoopsOK
    BY DEF Inv, Srv!IInv
  <2>2. dhcph_packet \in [Procs -> Packets]
    BY <2>1, FieldsArePackets DEF PacketsOK, BuffersOK
  <2>. QED
    BY <2>1, <2>2, SameTypes DEF TypeOK, ClientTypeOK, LoopsOK
<1>. QED
  BY <1>1, Invariance, PTL

\* The clients are an environment that DhcpServer allows for, whatever is lost,
\* duplicated or late and however often a user starts and ends them.
THEOREM ClientsAreAnEnvironment == Spec => ImplementsServer
<1>1. Init => Server!Init
  BY InitInv
<1>2. Inv /\ [Next]_vars => [Server!Next]_(Server!vars)
  BY StepServer
<1>. QED
  BY <1>1, <1>2, Invariance, PTL DEF Spec, ImplementsServer, Server!Spec

\* So the address lists and the client records are consistent while real
\* clients talk to the server.
ServerConsistent ==
  Server!AddressesConserved /\ Server!LeaseTableConsistent /\ Server!OneRecordPerHost

\* What DhcpServerProofs shows of the server with any clients (mydhcpd.c:188-564)
\* holds with those of mydhcpc.c.
THEOREM ServerConsistentAmongClients == Spec => []ServerConsistent
<1>1. Srv!IInv => Srv!AddressesConserved /\ Srv!LeaseTableConsistent /\ Srv!OneRecordPerHost
  BY DEF Srv!IInv, Srv!Consistent, Srv!Conserved, Srv!Matches, Srv!OnePerHost,
         Srv!AddressesConserved, Srv!LeaseTableConsistent, Srv!OneRecordPerHost
<1>2. Server!AddressesConserved <=> Srv!AddressesConserved
  BY DEF Server!AddressesConserved, Srv!AddressesConserved, Server!DistinctIps,
         Srv!DistinctIps, Server!ToSet, Srv!ToSet
<1>3. Server!LeaseTableConsistent <=> Srv!LeaseTableConsistent
  BY DEF Server!LeaseTableConsistent, Srv!LeaseTableConsistent, Server!AddressOf,
         Srv!AddressOf, Server!ToSet, Srv!ToSet
<1>4. Server!OneRecordPerHost <=> Srv!OneRecordPerHost
  BY DEF Server!OneRecordPerHost, Srv!OneRecordPerHost
<1>5. Inv => ServerConsistent
  BY <1>1, <1>2, <1>3, <1>4 DEF Inv, ServerConsistent
<1>. QED
  BY <1>5, Invariance, PTL

\* And each host goes through the state diagram of AddressLeases.
THEOREM ClientsKeepToLeases == Spec => Server!ImplementsAddressLeases
<1>1. /\ Server!Leases!Init <=> Srv!Leases!Init
      /\ Server!Leases!Next <=> Srv!Leases!Next
      /\ UNCHANGED Server!Leases!vars <=> UNCHANGED Srv!Leases!vars
  BY DEF Server!Leases!Init, Srv!Leases!Init, Server!Leases!Next,
         Srv!Leases!Next, Server!Leases!vars, Srv!Leases!vars,
         Server!Leases!Free, Srv!Leases!Free, Server!Leases!Offer,
         Srv!Leases!Offer, Server!Leases!Grant, Srv!Leases!Grant,
         Server!Leases!Recall, Srv!Leases!Recall, Server!Leases!TimeoutPass,
         Srv!Leases!TimeoutPass, Server!Leases!NULL, Srv!Leases!NULL,
         Server!Leases!WAIT_REQ, Srv!Leases!WAIT_REQ, Server!Leases!IN_USE,
         Srv!Leases!IN_USE, Server!Leases!WAIT_REQ_AGAIN,
         Srv!Leases!WAIT_REQ_AGAIN, Server!StatOf, Srv!StatOf, Server!LeaseOf,
         Srv!LeaseOf, Server!RecordsOf, Srv!RecordsOf, Server!Min, Srv!Min
<1>2. Srv!IInv /\ [Srv!Next]_(Srv!vars) => [Srv!Leases!Next]_(Srv!Leases!vars)
  BY ServerAssumed, Srv!StepMap, NetAssumption DEF Srv!ServerAssumption
<1>3. Srv!Init => Srv!Leases!Init
  BY ServerAssumed, Srv!InitMap, NetAssumption DEF Srv!ServerAssumption
<1>4. Init => Server!Leases!Init
  BY <1>1, <1>3, InitInv, SameInit
<1>5. Inv /\ [Next]_vars => [Server!Leases!Next]_(Server!Leases!vars)
  BY <1>1, <1>2, StepServer, SameNext, SameVars DEF Inv
<1>. QED
  BY <1>4, <1>5, Invariance, PTL DEF Spec, Server!ImplementsAddressLeases, Server!Leases!Spec
=============================================================================
