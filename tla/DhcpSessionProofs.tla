------------------------ MODULE DhcpSessionProofs ------------------------
(***************************************************************************)
(* Proofs about Dhcp: what a client believes, the server knows.  For any   *)
(* number of hosts and processes, any pool and any number of losses:       *)
(*                                                                         *)
(*   InUseLeased    the address of a client that is IN_USE is leased to    *)
(*                  its host;                                              *)
(*   NothingShared  two clients never use one address;                     *)
(*   LeaseKept      only SIGHUP ends the use of an address.                *)
(*                                                                         *)
(* None of the three is inductive, and most of what they rest on is not in *)
(* the program but between the programs: in which order the datagrams of   *)
(* a host lie in the server's buffer, which of them may still be there in  *)
(* each state of the client, and what an answer in flight promises.        *)
(* SessionInv says so, and compares the two clocks: the record of the      *)
(* server and the alarm of the client run down together, so what is left   *)
(* of a lease is the half that the client does not wait for, plus what its *)
(* alarm still counts.  ExtensionInv goes on from there: it counts what    *)
(* the client has waited for the ACK, and the losses that this takes.      *)
(***************************************************************************)
EXTENDS DhcpProofs, FiniteSetTheorems

\* What the client has and what it takes for granted.

\* The host has the address for k more seconds, this one not counted; and it
\* has no record but leases of addresses of A.
HasLease(h, a, m, k) == Srv!LeaseLasts(h, a, m, k)
OnlyLeases(h, A) == Srv!OnlyLeases(h, A)

\* What the client has left of the lease when its half time is over.
Half == UseIpTime - 1 - UseIpTime \div 2

\* The system of the runs: no second passes while someone has work to do, a
\* host runs one client, no datagram comes twice, and a lease has a half time.
Orderly == Prompt /\ OneClientPerHost /\ MaxDup = 0 /\ UseIpTime >= 2

\* The order of the queue is one of the processes of a host: nothing of a
\* process that has exited comes behind a datagram of its successor, and a
\* process has at most a DISCOVER and one more datagram there.
OpenOK ==
  /\ \A p, q \in open : HostOf[p] = HostOf[q] => p = q
  /\ \A p \in open : stat[p] # INIT
  /\ \A p \in Procs : p \notin open => stat[p] \in {INIT, EXITING} /\ toClient[p] = << >>

InOrder(d, e) ==
  HostOf[d.from] = HostOf[e.from] =>
    IF d.from = e.from THEN d.pkt.type = DISCOVER /\ e.pkt.type # DISCOVER
                       ELSE d.from \notin open

OrderOK == \A i, j \in DOMAIN toServer : i < j => InOrder(toServer[i], toServer[j])

InUse(p) == stat[p] = IN_USE

\* A datagram m of p that the server has not seen.  While p lives it is the
\* DISCOVER or the REQUEST of p's state, sent this very second.
SentOK(p, m) ==
  /\ stat[p] # INIT
  /\ p \in open => /\ age[p] = 0
                   /\ WaitsForOffer(p) => m.type = DISCOVER
                   /\ WaitsForAck(p) => \/ m.type = DISCOVER
                                        \/ m.type = REQUEST /\ m.code = RequestAlloc
                   /\ WaitsForExtAck(p) => m = dhcph_packet[p]
                   /\ ~InUse(p)
                   /\ m.type # RELEASE
  /\ m.type = REQUEST => m.ttl = Htons(UseIpTime)

RequestsOK == \A i \in DOMAIN toServer : SentOK(toServer[i].from, toServer[i].pkt)

\* A RELEASE is the last word of its client, first in the queue among those of
\* its host, and names the one address that the server may have for the host.
ReleasesOK ==
  \A i \in DOMAIN toServer : toServer[i].pkt.type = RELEASE =>
    /\ \A j \in DOMAIN toServer : j < i => HostOf[toServer[j].from] # HostOf[toServer[i].from]
    /\ OnlyLeases(HostOf[toServer[i].from], {toServer[i].pkt.address})

\* Nothing of p's host is in flight to the server; no ACK is in flight to p.
None(p) == \A i \in DOMAIN toServer : HostOf[toServer[i].from] # HostOf[p]
NoAck(p) == \A i \in DOMAIN toClient[p] : toClient[p][i].type # ACK
Granted(m) == m.type = ACK /\ m.code = AckOk

\* An answer m that p has not read.  An ACK has a lease behind it that began
\* this second; nothing else of p is in flight then.
ReplyOK(p, m) ==
  /\ \/ m.type = OFFER /\ m.code \in {OfferOk, OfferNone}
     \/ m.type = ACK /\ m.code \in {AckOk, AckRefused}
  /\ m.type = ACK \/ m.code = OfferOk => m.ttl = Htons(UseIpTime)
  /\ ~InUse(p)
  /\ WaitsForOffer(p) => m.type = OFFER
  /\ WaitsForExtAck(p) => /\ Granted(m)
                          /\ m.address = dhcph_packet[p].address
                          /\ m.netmask = dhcph_packet[p].netmask
  /\ WaitsForAck(p) \/ WaitsForExtAck(p) =>
       /\ Granted(m) => HasLease(HostOf[p], m.address, m.netmask, UseIpTime - 1)
       /\ m.type = ACK => /\ None(p)
                          /\ age[p] = 0
                          /\ OnlyLeases(HostOf[p], Addrs)

RepliesOK(p) ==
  /\ \A i \in DOMAIN toClient[p] : ReplyOK(p, toClient[p][i])
  /\ WaitsForAck(p) \/ WaitsForExtAck(p) =>
       \A i \in DOMAIN toClient[p] : toClient[p][i].type = ACK => i = Len(toClient[p])

\* p has had an ACK, and has not given the address back.
Holds(p) == InUse(p) \/ WaitsForExtAck(p)

\* dhcph_packet holds what p has last sent, or the answer that it holds to.
BufferOK(p) ==
  /\ WaitsForOffer(p) => dhcph_packet[p].type = DISCOVER
  /\ WaitsForAck(p) => dhcph_packet[p].type = REQUEST /\ dhcph_packet[p].code = RequestAlloc
  /\ WaitsForExtAck(p) => dhcph_packet[p].type = REQUEST /\ dhcph_packet[p].code = RequestExt
  /\ WaitsForAck(p) \/ Holds(p) => /\ dhcph_packet[p].ttl = Htons(UseIpTime)
                                   /\ use_ip_time[p] = UseIpTime

\* The server knows the lease that the client believes in.
HeldOK(p) ==
  /\ Holds(p) => registered[p] /\ OnlyLeases(HostOf[p], Addrs)
  /\ WaitsForExtAck(p) =>
       \A i \in DOMAIN toServer :
         HostOf[toServer[i].from] = HostOf[p] => toServer[i].from = p
  /\ InUse(p) =>
       /\ None(p)
       /\ alarm[p] \in 0 .. UseIpTime \div 2
       /\ HasLease(HostOf[p], dhcph_packet[p].address, dhcph_packet[p].netmask,
                   Half + IF ttl_flag[p] THEN 0 ELSE alarm[p])

ClientOK(p) == RepliesOK(p) /\ BufferOK(p) /\ HeldOK(p)

QueueOK == OrderOK /\ RequestsOK /\ ReleasesOK
SessionInv == /\ Srv!OneTick
              /\ Srv!RecordsOK
              /\ OpenOK
              /\ QueueOK
              /\ \A p \in open : ClientOK(p)

LEMMA InUseFollows == SessionInv => InUseIsLeased
<1>1. Srv!IN_USE = Server!IN_USE
  BY DEF Srv!IN_USE, Server!IN_USE
<1>. QED
  BY <1>1 DEF SessionInv, ClientOK, HeldOK, InUse, InUseIsLeased, HasLease, Srv!LeaseLasts

-----------------------------------------------------------------------------
\* The server, as a client sees it.

LEMMA SameMessages ==
  /\ Srv!DISCOVER = DISCOVER /\ Srv!OFFER = OFFER /\ Srv!REQUEST = REQUEST
  /\ Srv!ACK = ACK /\ Srv!RELEASE = RELEASE
  /\ Srv!OfferOk = OfferOk /\ Srv!OfferNone = OfferNone
  /\ Srv!RequestAlloc = RequestAlloc /\ Srv!RequestExt = RequestExt
  /\ Srv!AckOk = AckOk /\ Srv!AckRefused = AckRefused
  /\ \A n : Srv!Htons(n) = Htons(n)
  /\ \A mail : Srv!Delivered(mail) = Delivered(mail)
  /\ \A p, m : Srv!Mail(p, m) = Mail(p, m)
BY DEF Srv!DISCOVER, DISCOVER, Srv!OFFER, OFFER, Srv!REQUEST, REQUEST, Srv!ACK, ACK,
       Srv!RELEASE, RELEASE, Srv!OfferOk, OfferOk, Srv!OfferNone, OfferNone,
       Srv!RequestAlloc, RequestAlloc, Srv!RequestExt, RequestExt, Srv!AckOk, AckOk,
       Srv!AckRefused, AckRefused, Srv!Htons, Htons, Srv!Delivered, Delivered, Srv!Mail, Mail,
       Srv!Enqueue, Enqueue

LEMMA SamePackets == Srv!Packets = Packets
BY DEF Uint8, Srv!Uint8, Uint16, Srv!Uint16, MaxUint16, Srv!MaxUint16, Packets, Srv!Packets

LEMMA MessageTypes ==
  /\ DISCOVER = 1 /\ OFFER = 2 /\ REQUEST = 3 /\ ACK = 4 /\ RELEASE = 5
  /\ OfferOk = 0 /\ OfferNone = 1 /\ RequestAlloc = 2 /\ RequestExt = 3
  /\ AckOk = 0 /\ AckRefused = 4
BY DEF DISCOVER, OFFER, REQUEST, ACK, RELEASE, OfferOk, OfferNone, RequestAlloc, RequestExt,
       AckOk, AckRefused

\* Everything but a datagram.
Pass == Srv!TtlDecrement \/ Srv!TtlClear \/ Srv!WaitEvent \/ Srv!Idle \/ Srv!Alarm

LEMMA ServerSteps == ServerAct \/ ServerAlarm => UNCHANGED clientVars /\ (Pass \/ Srv!Recv)
BY SameSteps DEF ServerAct, ServerAlarm, Pass, Srv!ServerStep

\* OFFERs that wait_event() repeats go to hosts that have no lease.
Repeats(mail) ==
  /\ toClient' = Delivered(mail)
  /\ \A p \in DOMAIN mail : /\ mail[p].type = OFFER
                            /\ mail[p].code = OfferOk
                            /\ mail[p].ttl = Htons(UseIpTime)
                            /\ \A A : ~OnlyLeases(HostOf[p], A)

LEMMA PassKeeps ==
  ASSUME Inv, Srv!OneTick, Srv!RecordsOK, Pass
  PROVE  /\ Srv!OneTick' /\ Srv!RecordsOK'
         /\ UNCHANGED <<toServer, open, lost>>
         /\ \A h, a, m : \A k \in Nat : HasLease(h, a, m, k) => HasLease(h, a, m, k)'
         /\ \A h, A : OnlyLeases(h, A) => OnlyLeases(h, A)'
         /\ toClient' = toClient \/ \E mail : Repeats(mail)
<1>. USE ServerAssumed, NetAssumption DEF Srv!ServerAssumption
<1>1. Srv!IInv
  BY DEF Inv
<1>2. Srv!ServerStep \/ Srv!Alarm
  BY DEF Pass, Srv!ServerStep
<1>3. ~Srv!Recv
  BY DEF Pass, Srv!TtlDecrement, Srv!TtlClear, Srv!WaitEvent, Srv!Idle, Srv!Alarm, Srv!Recv
<1>4. Srv!OneTick'
  <2>1. spc \in {"top", "clear", "wait", "recv"}
    BY <1>1 DEF Srv!IInv, Srv!TypeOK
  <2>. QED
    BY <1>2, <2>1, Srv!OneTickKept
<1>5. Srv!RecordsOK'
  BY <1>1, <1>2, <1>3, Srv!RecordsKept
<1>6. UNCHANGED <<toServer, open, lost>>
  BY DEF Pass, Srv!TtlDecrement, Srv!TtlClear, Srv!WaitEvent, Srv!Idle, Srv!Alarm, Srv!netVars,
         Srv!queueVars, Srv!faultVars
<1>7. ASSUME NEW h, NEW a, NEW m, NEW k \in Nat, HasLease(h, a, m, k)
      PROVE  HasLease(h, a, m, k)'
  BY <1>1, <1>7, Srv!LoopKeepsLease DEF Pass, HasLease
<1>8. ASSUME NEW h, NEW A, OnlyLeases(h, A) PROVE OnlyLeases(h, A)'
  BY <1>1, <1>2, <1>3, <1>8, Srv!NoOtherRecord DEF OnlyLeases
<1>9. ASSUME Srv!WaitEvent PROVE \E mail : Repeats(mail)
  <2>1. PICK mail : /\ toClient' = Srv!Delivered(mail)
                    /\ \A p \in DOMAIN mail :
                         /\ mail[p].type = Srv!OFFER
                         /\ mail[p].code = Srv!OfferOk
                         /\ mail[p].ttl = Srv!Htons(UseIpTime)
                         /\ \E i \in DOMAIN clients : /\ clients[i].again = p
                                                       /\ clients[i].stat = Srv!WAIT_REQ
    BY <1>1, <1>9, Srv!WaitEventOffers
  <2>2. ASSUME NEW p \in DOMAIN mail, NEW A PROVE ~OnlyLeases(HostOf[p], A)
    <3>1. PICK i \in DOMAIN clients : clients[i].again = p /\ clients[i].stat = Srv!WAIT_REQ
      BY <2>1
    <3>2. clients[i].id = HostOf[p]
      BY <3>1 DEF Srv!RecordsOK
    <3>. QED
      BY <3>1, <3>2 DEF OnlyLeases, Srv!OnlyLeases, Srv!WAIT_REQ, Srv!IN_USE
  <2>3. Repeats(mail)
    BY <2>1, <2>2, SameMessages DEF Repeats
  <2>. QED
    BY <2>3
<1>10. ASSUME Srv!TtlDecrement \/ Srv!TtlClear \/ Srv!Idle \/ Srv!Alarm
       PROVE  toClient' = toClient
  BY <1>10 DEF Srv!TtlDecrement, Srv!TtlClear, Srv!Idle, Srv!Alarm, Srv!netVars, Srv!queueVars
<1>. QED
  BY <1>4, <1>5, <1>6, <1>7, <1>8, <1>9, <1>10 DEF Pass

\* What the server may answer to d: nothing, an OFFER to a DISCOVER, an ACK to
\* a REQUEST.
OfferTo(d, m) ==
  /\ d.pkt.type = DISCOVER
  /\ m.type = OFFER
  /\ (m.code = OfferOk /\ m.ttl = Htons(UseIpTime)) \/ m.code = OfferNone

AckTo(d, m) ==
  /\ d.pkt.type = REQUEST
  /\ m.type = ACK
  /\ m.ttl = d.pkt.ttl /\ m.address = d.pkt.address /\ m.netmask = d.pkt.netmask
  /\ m.code = AckOk \/ (m.code = AckRefused /\ d.pkt.code = RequestAlloc)
  /\ OnlyLeases(HostOf[d.from], Addrs)'
  /\ Granted(m) => HasLease(HostOf[d.from], m.address, m.netmask, UseIpTime - 1)'

\* The environment's half of the contract: what a RELEASE names is its own.
Fair(d) ==
  /\ d \in Requests
  /\ d.pkt.type = REQUEST => d.pkt.ttl = Htons(UseIpTime)
  /\ d.pkt.type = RELEASE => OnlyLeases(HostOf[d.from], {d.pkt.address})

LEMMA RecvKeeps ==
  ASSUME Inv, Srv!OneTick, Srv!RecordsOK, Srv!Recv, NEW d, d = Head(toServer), Fair(d)
  PROVE  /\ Srv!OneTick' /\ Srv!RecordsOK'
         /\ toServer # << >> /\ toServer' = Tail(toServer) /\ UNCHANGED <<open, lost>>
         /\ \A h, a, m : \A k \in Nat :
              HasLease(h, a, m, k) /\ k < UseIpTime
                /\ (d.pkt.type = RELEASE => HostOf[d.from] # h) => HasLease(h, a, m, k)'
         /\ \A h, A : OnlyLeases(h, A) /\ (d.pkt.type = DISCOVER => HostOf[d.from] # h) =>
              OnlyLeases(h, A)'
         /\ toClient' = toClient
              \/ \E m : toClient' = Delivered(Mail(d.from, m)) /\ (OfferTo(d, m) \/ AckTo(d, m))
<1>. USE ServerAssumed, NetAssumption DEF Srv!ServerAssumption
<1>1. Srv!IInv
  BY DEF Inv
<1>2. Srv!ServerStep
  BY DEF Srv!ServerStep
<1>3. d \in Srv!Datagrams
  <2>1. Fields \subseteq Packets /\ ClientSends \subseteq Fields
    BY FieldsArePackets, SendsAreFields
  <2>2. Srv!Packets = Packets
    BY SamePackets
  <2>. QED
    BY <2>1, <2>2 DEF Fair, Requests, Srv!Datagrams
<1>4. Srv!Handle(d)
  BY DEF Srv!Recv
<1>5. d.pkt.type = Srv!REQUEST => d.pkt.ttl = Srv!Htons(UseIpTime)
  BY SameMessages DEF Fair
<1>6. Srv!OneTick'
  <2>1. spc \in {"top", "clear", "wait", "recv"}
    BY <1>1 DEF Srv!IInv, Srv!TypeOK
  <2>. QED
    BY <1>2, <2>1, Srv!OneTickKept
<1>7. Srv!RecordsOK'
  BY <1>1, <1>2, <1>3, <1>5, Srv!RecordsKept
<1>8. toServer # << >> /\ toServer' = Tail(toServer) /\ UNCHANGED <<open, lost>>
  BY DEF Srv!Recv, Srv!faultVars
<1>9. ASSUME NEW h, NEW a, NEW m, NEW k \in Nat, HasLease(h, a, m, k), k < UseIpTime,
             d.pkt.type = RELEASE => HostOf[d.from] # h
      PROVE  HasLease(h, a, m, k)'
  <2>1. Srv!AsksRelease(d) => d.pkt.address # a
    <3>. SUFFICES ASSUME Srv!AsksRelease(d), d.pkt.address = a PROVE FALSE
      OBVIOUS
    <3>1. d.pkt.type = RELEASE /\ Srv!Known(d)
      BY SameMessages DEF Srv!AsksRelease
    <3>2. PICK i \in DOMAIN clients : clients[i].id = HostOf[d.from]
      BY <3>1 DEF Srv!Known, Srv!RecordsOf
    <3>3. clients[i].addr = a
      BY <3>1, <3>2 DEF Fair, OnlyLeases, Srv!OnlyLeases
    <3>4. PICK j \in DOMAIN clients : clients[j].id = h /\ clients[j].addr = a
      BY <1>9 DEF HasLease, Srv!LeaseLasts
    <3>5. i = j
      BY <1>1, <3>3, <3>4, Srv!ListsHold
    <3>. QED
      BY <1>9, <3>1, <3>2, <3>4, <3>5
  <2>2. k \in Int /\ k <= UseIpTime - 1
    <3>1. MaxUint16 \in Nat
      BY DEF MaxUint16
    <3>. QED
      BY <1>9, <3>1, DhcpAssumption DEF Uint16
  <2>. QED
    BY <1>1, <1>3, <1>4, <1>5, <1>9, <2>1, <2>2, Srv!RecvKeepsLease DEF HasLease
<1>10. ASSUME NEW h, NEW A, OnlyLeases(h, A), d.pkt.type = DISCOVER => HostOf[d.from] # h
       PROVE  OnlyLeases(h, A)'
  BY <1>1, <1>2, <1>3, <1>10, SameMessages, Srv!NoOtherRecord DEF OnlyLeases
<1>11. ASSUME toClient' # toClient
       PROVE  \E m : toClient' = Delivered(Mail(d.from, m)) /\ (OfferTo(d, m) \/ AckTo(d, m))
  <2>1. Srv!Replied(d)
    BY <1>3, <1>4, Srv!HandlerReplies
  <2>2. ASSUME NEW m, Srv!Answer(d.from, m) PROVE toClient' = Delivered(Mail(d.from, m))
    BY <2>2, SameMessages DEF Srv!Answer
  <2>3. CASE d.pkt.type = Srv!DISCOVER
    <3>1. d.pkt.type # Srv!REQUEST
      BY <2>3 DEF Srv!DISCOVER, Srv!REQUEST
    <3>2. PICK m : /\ Srv!Answer(d.from, m)
                   /\ m.type = Srv!OFFER
                   /\ \/ m.code = Srv!OfferOk /\ m.ttl = Srv!Htons(UseIpTime)
                      \/ m.code = Srv!OfferNone
      BY <1>11, <2>1, <3>1 DEF Srv!Replied
    <3>3. OfferTo(d, m)
      BY <2>3, <3>2, SameMessages DEF OfferTo
    <3>. QED
      BY <2>2, <3>2, <3>3
  <2>4. CASE d.pkt.type # Srv!DISCOVER
    <3>1. PICK m : /\ d.pkt.type = Srv!REQUEST
                   /\ Srv!Answer(d.from, m)
                   /\ m.type = Srv!ACK
                   /\ \/ m.code = Srv!AckOk /\ (Srv!GrantLease(d) \/ Srv!ExtendLease(d))
                      \/ m.code = Srv!AckRefused /\ Srv!RefuseLease(d)
                   /\ m.ttl = d.pkt.ttl
                   /\ m.address = d.pkt.address
                   /\ m.netmask = d.pkt.netmask
      BY <1>11, <2>1, <2>4 DEF Srv!Replied
    <3>2. Srv!GrantLease(d) \/ Srv!RefuseLease(d) \/ Srv!ExtendLease(d)
      BY <3>1
    <3>3. OnlyLeases(HostOf[d.from], Addrs)'
      BY <1>1, <1>3, <3>2, Srv!AnsweredHost DEF OnlyLeases
    <3>4. m.code = Srv!AckRefused => d.pkt.code = RequestAlloc
      BY <3>1, SameMessages
         DEF Srv!RefuseLease, Srv!AsksAlloc, Srv!AckOk, Srv!AckRefused
    <3>5. m.code = Srv!AckOk => HasLease(HostOf[d.from], m.address, m.netmask, UseIpTime - 1)'
      <4>. SUFFICES ASSUME m.code = Srv!AckOk
                    PROVE  HasLease(HostOf[d.from], m.address, m.netmask, UseIpTime - 1)'
        OBVIOUS
      <4>1. Srv!GrantLease(d) \/ Srv!ExtendLease(d)
        BY <3>1 DEF Srv!AckOk, Srv!AckRefused
      <4>2. d.pkt.ttl = Srv!Htons(UseIpTime)
        BY <1>5, <3>1
      <4>3. Srv!LeaseLasts(HostOf[d.from], d.pkt.address, d.pkt.netmask, UseIpTime - 1)'
        BY <1>1, <1>3, <4>1, <4>2, Srv!RecvStartsLease
      <4>. QED
        BY <3>1, <4>3 DEF HasLease
    <3>6. AckTo(d, m)
      BY <3>1, <3>3, <3>4, <3>5, SameMessages DEF AckTo, Granted
    <3>. QED
      BY <2>2, <3>1, <3>6
  <2>. QED
    BY <2>3, <2>4
<1>. QED
  BY <1>6, <1>7, <1>8, <1>9, <1>10, <1>11

LEMMA TickKeepsLeases ==
  ASSUME Inv, Srv!OneTick, Srv!RecordsOK, Tick, Prompt
  PROVE  /\ Srv!OneTick' /\ Srv!RecordsOK'
         /\ \A h, a, m : \A k \in Nat : HasLease(h, a, m, k + 1) => HasLease(h, a, m, k)'
         /\ \A h, A : OnlyLeases(h, A) => OnlyLeases(h, A)'
<1>. USE ServerAssumed, NetAssumption DEF Srv!ServerAssumption
<1>1. Srv!IInv
  BY DEF Inv
<1>2. Srv!ServerTick /\ ~server_ttl_flag
  BY SameSteps DEF Tick, ServerSettled
<1>3. Srv!OneTick'
  <2>1. spc \in {"top", "clear", "wait", "recv"}
    BY <1>1 DEF Srv!IInv, Srv!TypeOK
  <2>. QED
    BY <1>2, <2>1, Srv!OneTickKept
<1>4. ~Srv!Recv
  <2>1. toServer = << >>
    BY DEF Tick, ServerSettled
  <2>. QED
    BY <2>1 DEF Srv!Recv
<1>5. Srv!RecordsOK'
  BY <1>1, <1>2, <1>4, Srv!RecordsKept
<1>6. ASSUME NEW h, NEW a, NEW m, NEW k \in Nat, HasLease(h, a, m, k + 1)
      PROVE  HasLease(h, a, m, k)'
  <2>1. k \in Int
    OBVIOUS
  <2>. QED
    BY <1>1, <1>2, <1>6, <2>1, Srv!TickCountsLease DEF HasLease
<1>7. ASSUME NEW h, NEW A, OnlyLeases(h, A) PROVE OnlyLeases(h, A)'
  BY <1>1, <1>2, <1>4, <1>7, Srv!NoOtherRecord DEF OnlyLeases
<1>. QED
  BY <1>3, <1>5, <1>6, <1>7

\* Nothing else touches the records.
LEMMA ServerUntouched ==
  ASSUME UNCHANGED serverVars
  PROVE  /\ Srv!OneTick' <=> Srv!OneTick
         /\ Srv!RecordsOK' <=> Srv!RecordsOK
         /\ \A h, a, m, k : HasLease(h, a, m, k)' <=> HasLease(h, a, m, k)
         /\ \A h, A : OnlyLeases(h, A)' <=> OnlyLeases(h, A)
BY DEF serverVars, Srv!OneTick, Srv!RecordsOK, HasLease, OnlyLeases, Srv!LeaseLasts,
       Srv!OnlyLeases,
       Srv!Pending

-----------------------------------------------------------------------------
\* What a step of anyone else leaves of a client, and of the queue.

\* What belongs to one process stays as it is.
Same(q) ==
  /\ stat'[q] = stat[q]
  /\ dhcph_packet'[q] = dhcph_packet[q]
  /\ use_ip_time'[q] = use_ip_time[q]
  /\ age'[q] = age[q]
  /\ alarm'[q] = alarm[q]
  /\ ttl_flag'[q] = ttl_flag[q]
  /\ registered'[q] = registered[q]

LeasesKept(h) ==
  /\ \A a, m : \A k \in Nat : HasLease(h, a, m, k) /\ k < UseIpTime => HasLease(h, a, m, k)'
  /\ \A A : OnlyLeases(h, A) => OnlyLeases(h, A)'

\* No datagram that is in flight for q's host comes from anywhere else.
Alone(q) ==
  \A i \in DOMAIN toServer : HostOf[toServer[i].from] = HostOf[q] => toServer[i].from = q

\* Nothing has happened to q, but for its replies.
Left(q) ==
  /\ Same(q)
  /\ None(q) => None(q)'
  /\ Alone(q) => Alone(q)'
  /\ None(q) \/ WaitsForExtAck(q) => LeasesKept(HostOf[q])

LEMMA States ==
  /\ \A p : WaitsForOffer(p) <=> stat[p] \in {2, 8}
  /\ \A p : WaitsForAck(p) <=> stat[p] \in {3, 9}
  /\ \A p : WaitsForExtAck(p) <=> stat[p] \in {5, 7}
  /\ \A p : InUse(p) <=> stat[p] = 4
BY Numbers DEF WaitsForOffer, WaitsForAck, WaitsForExtAck, InUse

LEMMA StatesNext ==
  /\ \A p : WaitsForOffer(p)' <=> stat'[p] \in {2, 8}
  /\ \A p : WaitsForAck(p)' <=> stat'[p] \in {3, 9}
  /\ \A p : WaitsForExtAck(p)' <=> stat'[p] \in {5, 7}
  /\ \A p : InUse(p)' <=> stat'[p] = 4
BY Numbers DEF WaitsForOffer, WaitsForAck, WaitsForExtAck, InUse

LEMMA SameStates ==
  ASSUME NEW q, stat'[q] = stat[q]
  PROVE  /\ WaitsForOffer(q)' <=> WaitsForOffer(q)
         /\ WaitsForAck(q)' <=> WaitsForAck(q)
         /\ WaitsForExtAck(q)' <=> WaitsForExtAck(q)
         /\ InUse(q)' <=> InUse(q)
         /\ Holds(q)' <=> Holds(q)
BY States, StatesNext DEF Holds

LEMMA HalfType ==
  ASSUME UseIpTime >= 2
  PROVE  /\ UseIpTime \in Nat
         /\ UseIpTime \div 2 \in Nat \ {0}
         /\ Half \in Nat
         /\ Half + UseIpTime \div 2 = UseIpTime - 1
<1>1. MaxUint16 \in Nat
  BY DEF MaxUint16
<1>2. UseIpTime \in Nat
  BY <1>1, DhcpAssumption DEF Uint16
<1>. QED
  BY <1>2 DEF Half

LEMMA ReplyLeft ==
  ASSUME UseIpTime >= 2, NEW q, Left(q), NEW m, ReplyOK(q, m) PROVE ReplyOK(q, m)'
<1>1. UseIpTime - 1 \in Nat /\ UseIpTime - 1 < UseIpTime
  BY HalfType
<1>2. /\ None(q) => None(q)'
      /\ None(q) => LeasesKept(HostOf[q])
      /\ dhcph_packet'[q] = dhcph_packet[q] /\ age'[q] = age[q] /\ stat'[q] = stat[q]
  BY DEF Left, Same
<1>3. WaitsForAck(q) \/ WaitsForExtAck(q) =>
        /\ Granted(m) => HasLease(HostOf[q], m.address, m.netmask, UseIpTime - 1)'
        /\ m.type = ACK => None(q)' /\ age'[q] = 0 /\ OnlyLeases(HostOf[q], Addrs)'
  BY <1>1, <1>2 DEF ReplyOK, LeasesKept, Granted
<1>. QED
  BY <1>2, <1>3, SameStates DEF ReplyOK

LEMMA BufferLeft ==
  ASSUME NEW q, Same(q), BufferOK(q) PROVE BufferOK(q)'
BY SameStates DEF Same, BufferOK

LEMMA HeldLeft ==
  ASSUME UseIpTime >= 2, NEW q, Left(q), HeldOK(q) PROVE HeldOK(q)'
<1>1. Same(q) /\ stat'[q] = stat[q] /\ registered'[q] = registered[q]
  BY DEF Left, Same
<1>2. Holds(q) => registered'[q] /\ OnlyLeases(HostOf[q], Addrs)'
  BY <1>1 DEF HeldOK, Left, LeasesKept, Holds
<1>3. WaitsForExtAck(q) => Alone(q)'
  BY DEF HeldOK, Left, Alone
<1>4. ASSUME InUse(q)
      PROVE  (/\ None(q)
              /\ alarm[q] \in 0 .. UseIpTime \div 2
              /\ HasLease(HostOf[q], dhcph_packet[q].address, dhcph_packet[q].netmask,
                          Half + IF ttl_flag[q] THEN 0 ELSE alarm[q]))'
  <2>1. PICK a, m, k : /\ a = dhcph_packet[q].address
                       /\ m = dhcph_packet[q].netmask
                       /\ k = Half + IF ttl_flag[q] THEN 0 ELSE alarm[q]
                       /\ HasLease(HostOf[q], a, m, k)
                       /\ None(q)
                       /\ alarm[q] \in 0 .. UseIpTime \div 2
    BY <1>4 DEF HeldOK
  <2>2. k \in Nat /\ k < UseIpTime
    BY <2>1, HalfType
  <2>3. HasLease(HostOf[q], a, m, k)'
    BY <2>1, <2>2 DEF Left, LeasesKept
  <2>. QED
    BY <1>1, <2>1, <2>3 DEF Left, Same
<1>. QED
  BY <1>1, <1>2, <1>3, <1>4, SameStates DEF HeldOK, Alone

\* Replies are lost, or none is.
LEMMA LeftClient ==
  ASSUME UseIpTime >= 2, InFlightOK, InFlightOK', NEW q \in Procs, ClientOK(q), Left(q),
         Thinned(toClient'[q], toClient[q])
  PROVE  ClientOK(q)'
<1>1. BufferOK(q)' /\ HeldOK(q)'
  BY BufferLeft, HeldLeft DEF ClientOK, Left
<1>2. PICK f : ThinnedBy(f, toClient'[q], toClient[q])
  BY DEF Thinned
<1>3. \A i \in DOMAIN toClient'[q] : ReplyOK(q, toClient[q][i])'
  BY <1>2, ReplyLeft DEF ThinnedBy, ClientOK, RepliesOK
<1>4. ASSUME WaitsForAck(q) \/ WaitsForExtAck(q),
             NEW i \in DOMAIN toClient'[q], toClient'[q][i].type = ACK
      PROVE  i = Len(toClient'[q])
  <2>1. f[i] \in DOMAIN toClient[q] /\ toClient'[q][i] = toClient[q][f[i]]
    BY <1>2 DEF ThinnedBy
  <2>2. f[i] = Len(toClient[q])
    BY <1>4, <2>1 DEF ClientOK, RepliesOK
  <2>3. toClient[q] \in Seq(Fields) /\ toClient'[q] \in Seq(Fields)
    BY DEF InFlightOK
  <2>. QED
    BY <1>2, <2>2, <2>3, ThinnedLast
<1>5. RepliesOK(q)'
  BY <1>3, <1>4, SameStates DEF RepliesOK, Left, Same
<1>. QED
  BY <1>1, <1>5 DEF ClientOK

\* One reply comes.
LEMMA AnsweredClient ==
  ASSUME UseIpTime >= 2, InFlightOK, NEW q \in Procs, BufferOK(q), HeldOK(q), RepliesOK(q),
         Left(q), NEW m, toClient'[q] = Append(toClient[q], m),
         WaitsForAck(q) \/ WaitsForExtAck(q) => NoAck(q), ReplyOK(q, m)'
  PROVE  ClientOK(q)'
<1>1. BufferOK(q)' /\ HeldOK(q)'
  BY BufferLeft, HeldLeft DEF Left
<1>2. /\ Len(toClient[q]) \in Nat /\ DOMAIN toClient[q] = 1 .. Len(toClient[q])
      /\ DOMAIN toClient'[q] = 1 .. Len(toClient[q]) + 1
      /\ Len(toClient'[q]) = Len(toClient[q]) + 1
      /\ \A i \in 1 .. Len(toClient[q]) : toClient'[q][i] = toClient[q][i]
      /\ toClient'[q][Len(toClient[q]) + 1] = m
  BY DEF InFlightOK
<1>3. \A i \in DOMAIN toClient'[q] :
        (i \in DOMAIN toClient[q] /\ toClient'[q][i] = toClient[q][i])
          \/ (i = Len(toClient'[q]) /\ toClient'[q][i] = m)
  BY <1>2
<1>4. \A i \in DOMAIN toClient'[q] : ReplyOK(q, toClient[q][i])'
  BY <1>3, ReplyLeft DEF RepliesOK
<1>5. RepliesOK(q)'
  BY <1>3, <1>4, SameStates DEF RepliesOK, Left, Same, NoAck
<1>. QED
  BY <1>1, <1>5 DEF ClientOK

LEMMA SentLeft ==
  ASSUME NEW p, stat'[p] = stat[p], age'[p] = age[p], dhcph_packet'[p] = dhcph_packet[p],
         p \in open' => p \in open, NEW m, SentOK(p, m)
  PROVE  SentOK(p, m)'
BY SameStates DEF SentOK

\* Datagrams are lost or taken, or none is.
LEMMA LeftQueue ==
  ASSUME QueueOK, Thinned(toServer', toServer), UNCHANGED <<clientVars, open>>,
         \A i \in DOMAIN toServer' : toServer'[i].pkt.type = RELEASE =>
           OnlyLeases(HostOf[toServer[i].from], {toServer[i].pkt.address})'
  PROVE  QueueOK'
<1>1. PICK f : ThinnedBy(f, toServer', toServer)
  BY DEF Thinned
<1>2. /\ \A i \in DOMAIN toServer' : f[i] \in DOMAIN toServer /\ toServer'[i] = toServer[f[i]]
      /\ \A i, j \in DOMAIN toServer' : i < j => f[i] < f[j]
  BY <1>1 DEF ThinnedBy
<1>3. OrderOK'
  BY <1>2 DEF QueueOK, OrderOK, InOrder
<1>4. RequestsOK'
  <2>. SUFFICES ASSUME NEW i \in DOMAIN toServer'
                PROVE  SentOK(toServer[i].from, toServer[i].pkt)'
    BY DEF RequestsOK
  <2>1. PICK d : d = toServer'[i] /\ SentOK(d.from, d.pkt)
    BY <1>2 DEF QueueOK, RequestsOK
  <2>2. SentOK(d.from, d.pkt)'
    BY <2>1, SentLeft DEF clientVars
  <2>. QED
    BY <2>1, <2>2
<1>5. ReleasesOK'
  <2>. SUFFICES ASSUME NEW i \in DOMAIN toServer', toServer'[i].pkt.type = RELEASE,
                       NEW j \in DOMAIN toServer', j < i
                PROVE  HostOf[toServer'[j].from] # HostOf[toServer'[i].from]
    BY DEF ReleasesOK
  <2>1. /\ f[i] \in DOMAIN toServer /\ f[j] \in DOMAIN toServer /\ f[j] < f[i]
        /\ toServer'[i] = toServer[f[i]] /\ toServer'[j] = toServer[f[j]]
    BY <1>2
  <2>. QED
    BY <2>1 DEF QueueOK, ReleasesOK
<1>. QED
  BY <1>3, <1>4, <1>5 DEF QueueOK

LEMMA Types ==
  ASSUME Inv
  PROVE  /\ toServer \in Seq(Requests)
         /\ \A p \in Procs : toClient[p] \in Seq(Fields)
         /\ open \subseteq Procs
         /\ InFlightOK /\ BuffersOK /\ LoopsOK
         /\ \A d \in Requests : d.from \in Procs
BY DEF Inv, PacketsOK, InFlightOK, Srv!IInv, Srv!TypeOK, Srv!NetTypeOK, Requests

\* All but the queues: what a step of the server alone keeps.
LEMMA ServerPass ==
  ASSUME Orderly, Inv, Inv', SessionInv, Pass, UNCHANGED clientVars
  PROVE  SessionInv'
<1>1. /\ Srv!OneTick' /\ Srv!RecordsOK'
      /\ UNCHANGED <<toServer, open, lost>>
      /\ \A h, a, m : \A k \in Nat : HasLease(h, a, m, k) => HasLease(h, a, m, k)'
      /\ \A h, A : OnlyLeases(h, A) => OnlyLeases(h, A)'
      /\ toClient' = toClient \/ \E mail : Repeats(mail)
  BY PassKeeps DEF SessionInv
<1>2. UseIpTime >= 2
  BY DEF Orderly
<1>3. QueueOK'
  <2>1. Thinned(toServer', toServer)
    BY <1>1, Types, ThinnedNot
  <2>2. ASSUME NEW i \in DOMAIN toServer', toServer'[i].pkt.type = RELEASE
        PROVE  OnlyLeases(HostOf[toServer[i].from], {toServer[i].pkt.address})'
    <3>1. PICK d : d = toServer[i] /\ OnlyLeases(HostOf[d.from], {d.pkt.address})
      BY <1>1, <2>2 DEF SessionInv, QueueOK, ReleasesOK
    <3>2. OnlyLeases(HostOf[d.from], {d.pkt.address})'
      BY <1>1, <3>1
    <3>. QED
      BY <1>1, <3>1, <3>2
  <2>. QED
    BY <1>1, <2>1, <2>2, LeftQueue DEF SessionInv
<1>4. ASSUME NEW p \in Procs, p \notin open PROVE toClient'[p] = toClient[p]
  BY <1>1, <1>4, Types DEF Repeats, Delivered
<1>5. OpenOK'
  BY <1>1, <1>4 DEF SessionInv, OpenOK, clientVars
<1>6. ASSUME NEW q \in open PROVE ClientOK(q)'
  <2>1. q \in Procs /\ ClientOK(q)
    BY Types DEF SessionInv
  <2>2. Left(q)
    BY <1>1 DEF Left, Same, clientVars, LeasesKept, None, Alone
  <2>3. CASE toClient'[q] = toClient[q]
    <3>1. Thinned(toClient'[q], toClient[q])
      BY <2>1, <2>3, Types, ThinnedNot
    <3>2. InFlightOK /\ InFlightOK'
      BY DEF Inv, PacketsOK
    <3>. QED
      BY <1>2, <2>1, <2>2, <3>1, <3>2, LeftClient
  <2>4. CASE toClient'[q] # toClient[q]
    <3>1. PICK mail : Repeats(mail)
      BY <1>1, <2>4
    <3>2. PICK m : m = mail[q] /\ q \in DOMAIN mail /\ toClient'[q] = Append(toClient[q], m)
      BY <2>1, <2>4, <3>1 DEF Repeats, Delivered, Enqueue
    <3>3. /\ m.type = OFFER /\ m.code = OfferOk /\ m.ttl = Htons(UseIpTime)
          /\ ~OnlyLeases(HostOf[q], Addrs)
      BY <3>1, <3>2 DEF Repeats
    <3>4. ~Holds(q)
      BY <2>1, <3>3 DEF ClientOK, HeldOK
    <3>5. WaitsForAck(q) \/ WaitsForExtAck(q) => NoAck(q)
      BY <2>1, <3>3 DEF ClientOK, RepliesOK, ReplyOK, NoAck
    <3>6. stat'[q] = stat[q]
      BY <2>2 DEF Left, Same
    <3>7. ReplyOK(q, m)'
      BY <3>3, <3>4, <3>6, SameStates, MessageTypes DEF ReplyOK, Holds, Granted
    <3>. QED
      BY <1>2, <2>1, <2>2, <3>2, <3>5, <3>7, Types, AnsweredClient DEF ClientOK
  <2>. QED
    BY <2>3, <2>4
<1>. QED
  BY <1>1, <1>3, <1>5, <1>6 DEF SessionInv

LEMMA ServerRecv ==
  ASSUME Orderly, Inv, Inv', SessionInv, Srv!Recv, UNCHANGED clientVars
  PROVE  SessionInv'
<1>1. PICK d : d = Head(toServer)
  OBVIOUS
<1>2. toServer # << >> /\ toServer' = Tail(toServer)
  BY DEF Srv!Recv
<1>3. /\ d \in Requests
      /\ d = toServer[1]
      /\ 1 \in DOMAIN toServer
      /\ DOMAIN toServer' = 1 .. Len(toServer) - 1
      /\ \A i \in DOMAIN toServer' : /\ i + 1 \in DOMAIN toServer
                                     /\ 1 < i + 1
                                     /\ toServer'[i] = toServer[i + 1]
  <2>1. toServer \in Seq(Requests)
    BY Types
  <2>. QED
    BY <1>1, <1>2, <2>1
<1>4. SentOK(d.from, d.pkt)
  BY <1>3 DEF SessionInv, QueueOK, RequestsOK
<1>5. Fair(d)
  BY <1>3, <1>4 DEF Fair, SentOK, SessionInv, QueueOK, ReleasesOK
<1>6. /\ Srv!OneTick' /\ Srv!RecordsOK'
      /\ UNCHANGED <<open, lost>>
      /\ \A h, a, m : \A k \in Nat :
           HasLease(h, a, m, k) /\ k < UseIpTime
             /\ (d.pkt.type = RELEASE => HostOf[d.from] # h) => HasLease(h, a, m, k)'
      /\ \A h, A : OnlyLeases(h, A) /\ (d.pkt.type = DISCOVER => HostOf[d.from] # h) =>
           OnlyLeases(h, A)'
      /\ toClient' = toClient
           \/ \E m : toClient' = Delivered(Mail(d.from, m)) /\ (OfferTo(d, m) \/ AckTo(d, m))
  BY <1>1, <1>5, RecvKeeps DEF SessionInv
<1>7. UseIpTime >= 2
  BY DEF Orderly
<1>8. QueueOK'
  <2>1. Thinned(toServer', toServer)
    BY <1>2, Types, ThinnedTail DEF Thinned
  <2>2. ASSUME NEW i \in DOMAIN toServer', toServer'[i].pkt.type = RELEASE
        PROVE  OnlyLeases(HostOf[toServer[i].from], {toServer[i].pkt.address})'
    <3>. DEFINE e == toServer[i + 1]
    <3>1. /\ i + 1 \in DOMAIN toServer /\ 1 < i + 1
          /\ e = toServer'[i] /\ e.pkt.type = RELEASE
      BY <1>3, <2>2
    <3>2. /\ OnlyLeases(HostOf[e.from], {e.pkt.address})
          /\ HostOf[toServer[1].from] # HostOf[e.from]
      BY <1>3, <3>1 DEF SessionInv, QueueOK, ReleasesOK
    <3>3. PICK h, a : /\ h = HostOf[e.from] /\ a = e.pkt.address
                      /\ OnlyLeases(h, {a}) /\ HostOf[d.from] # h
      BY <1>3, <3>2
    <3>4. OnlyLeases(h, {a})'
      BY <1>6, <3>3
    <3>5. h = HostOf[toServer'[i].from] /\ a = toServer'[i].pkt.address
      BY <3>1, <3>3
    <3>. HIDE DEF e
    <3>. QED
      BY <3>4, <3>5
  <2>. QED
    BY <1>6, <2>1, <2>2, LeftQueue DEF SessionInv
<1>9. ASSUME NEW p \in Procs, p \notin open \/ p # d.from PROVE toClient'[p] = toClient[p]
  BY <1>6, <1>9, Types DEF Delivered, Mail
<1>10. OpenOK'
  BY <1>6, <1>9 DEF SessionInv, OpenOK, clientVars
<1>11. ASSUME NEW q \in open PROVE ClientOK(q)'
  <2>1. q \in Procs /\ ClientOK(q)
    BY Types DEF SessionInv
  <2>2. None(q) => HostOf[d.from] # HostOf[q]
    BY <1>3 DEF None
  <2>3. WaitsForExtAck(q) /\ HostOf[d.from] = HostOf[q] =>
          d.from = q /\ d.pkt = dhcph_packet[q] /\ d.pkt.type = REQUEST
    BY <1>3, <1>4, <2>1 DEF ClientOK, HeldOK, BufferOK, SentOK
  <2>4. Left(q)
    <3>1. None(q) => None(q)'
      BY <1>3 DEF None
    <3>2. Alone(q) => Alone(q)'
      BY <1>3 DEF Alone
    <3>3. None(q) \/ WaitsForExtAck(q) => LeasesKept(HostOf[q])
      BY <1>6, <2>2, <2>3, MessageTypes DEF LeasesKept
    <3>. QED
      BY <3>1, <3>2, <3>3 DEF Left, Same, clientVars
  <2>5. CASE toClient'[q] = toClient[q]
    <3>1. Thinned(toClient'[q], toClient[q])
      BY <2>1, <2>5, Types, ThinnedNot
    <3>2. InFlightOK /\ InFlightOK'
      BY DEF Inv, PacketsOK
    <3>. QED
      BY <1>7, <2>1, <2>4, <3>1, <3>2, LeftClient
  <2>6. CASE toClient'[q] # toClient[q]
    <3>1. q = d.from
      BY <1>9, <2>1, <2>6
    <3>2. PICK m : /\ toClient' = Delivered(Mail(q, m))
                   /\ OfferTo(d, m) \/ AckTo(d, m)
      BY <1>6, <2>6, <3>1
    <3>3. toClient'[q] = Append(toClient[q], m)
      BY <2>1, <2>6, <3>2 DEF Delivered, Mail, Enqueue
    <3>4. ~None(q)
      BY <2>2, <3>1
    <3>5. WaitsForAck(q) \/ WaitsForExtAck(q) => NoAck(q)
      BY <2>1, <3>4 DEF ClientOK, RepliesOK, ReplyOK, NoAck
    <3>6. stat'[q] = stat[q] /\ dhcph_packet'[q] = dhcph_packet[q] /\ age'[q] = age[q]
      BY <2>4 DEF Left, Same
    <3>7. ~InUse(q) /\ age[q] = 0
      BY <1>4, <3>1 DEF SentOK
    <3>8. ASSUME OfferTo(d, m) PROVE ReplyOK(q, m)'
      <4>1. ~WaitsForExtAck(q)
        BY <2>3, <3>1, <3>8, MessageTypes DEF OfferTo
      <4>2. m.type = OFFER /\ m.code \in {OfferOk, OfferNone} /\ m.type # ACK
            /\ (m.code = OfferOk => m.ttl = Htons(UseIpTime))
        BY <3>8, MessageTypes DEF OfferTo
      <4>. QED
        BY <3>6, <3>7, <4>1, <4>2, SameStates DEF ReplyOK, Granted
    <3>9. ASSUME AckTo(d, m) PROVE ReplyOK(q, m)'
      <4>1. ~WaitsForOffer(q) /\ d.pkt.ttl = Htons(UseIpTime)
        BY <1>4, <3>1, <3>9, MessageTypes DEF SentOK, AckTo
      <4>2. None(q)'
        <5>. SUFFICES ASSUME NEW i \in DOMAIN toServer', HostOf[toServer'[i].from] = HostOf[q]
                      PROVE  FALSE
          BY DEF None
        <5>1. InOrder(d, toServer[i + 1]) /\ toServer'[i] = toServer[i + 1]
          BY <1>3 DEF SessionInv, QueueOK, OrderOK
        <5>. QED
          BY <3>1, <3>9, <5>1, MessageTypes DEF InOrder, AckTo
      <4>3. WaitsForExtAck(q) => /\ Granted(m)
                                 /\ m.address = dhcph_packet[q].address
                                 /\ m.netmask = dhcph_packet[q].netmask
        <5>1. WaitsForExtAck(q) => d.pkt.code = RequestExt
          BY <2>1, <2>3, <3>1 DEF ClientOK, BufferOK
        <5>. QED
          BY <2>3, <3>1, <3>9, <5>1, MessageTypes DEF AckTo, Granted
      <4>4. m.type = ACK /\ m.code \in {AckOk, AckRefused} /\ m.ttl = Htons(UseIpTime)
        BY <3>9, <4>1 DEF AckTo
      <4>5. /\ OnlyLeases(HostOf[q], Addrs)'
            /\ Granted(m) => HasLease(HostOf[q], m.address, m.netmask, UseIpTime - 1)'
        BY <3>1, <3>9 DEF AckTo
      <4>. QED
        BY <3>6, <3>7, <4>1, <4>2, <4>3, <4>4, <4>5, SameStates DEF ReplyOK, Granted
    <3>10. ReplyOK(q, m)'
      BY <3>2, <3>8, <3>9
    <3>. QED
      BY <1>7, <2>1, <2>4, <3>3, <3>5, <3>10, Types, AnsweredClient DEF ClientOK
  <2>. QED
    BY <2>5, <2>6
<1>. QED
  BY <1>6, <1>8, <1>10, <1>11 DEF SessionInv

-----------------------------------------------------------------------------
\* Datagrams get lost; a second passes.
LEMMA NetworkStep ==
  ASSUME Orderly, Inv, Inv', SessionInv, Network, UNCHANGED <<clientVars, serverVars>>
  PROVE  SessionInv'
<1>1. LoseRequest \/ LoseReply
  <2>1. dup \in 0 .. MaxDup /\ MaxDup = 0
    BY DEF Inv, Srv!IInv, Srv!TypeOK, Srv!NetTypeOK, Orderly
  <2>. QED
    BY <2>1 DEF Network, DuplicateRequest, DuplicateReply
<1>2. UNCHANGED open
  BY <1>1 DEF LoseRequest, LoseReply
<1>3. UseIpTime >= 2 /\ InFlightOK /\ InFlightOK'
  BY DEF Orderly, Inv, PacketsOK
<1>4. Thinned(toServer', toServer)
  BY <1>1, Types, ThinnedNot, ThinnedRemoveAt DEF LoseRequest, LoseReply
<1>5. ASSUME NEW q \in Procs PROVE Thinned(toClient'[q], toClient[q])
  <2>1. toClient'[q] = toClient[q] \/ \E i \in DOMAIN toClient[q] :
          toClient'[q] = RemoveAt(toClient[q], i)
    BY <1>1, <1>3 DEF LoseRequest, LoseReply, InFlightOK
  <2>. QED
    BY <2>1, Types, ThinnedNot, ThinnedRemoveAt
<1>6. /\ \A h : LeasesKept(h)
      /\ Srv!OneTick' /\ Srv!RecordsOK'
  BY ServerUntouched DEF LeasesKept, SessionInv
<1>7. PICK f : ThinnedBy(f, toServer', toServer)
  BY <1>4 DEF Thinned
<1>8. \A i \in DOMAIN toServer' : f[i] \in DOMAIN toServer /\ toServer'[i] = toServer[f[i]]
  BY <1>7 DEF ThinnedBy
<1>9. QueueOK'
  <2>1. ASSUME NEW i \in DOMAIN toServer', toServer'[i].pkt.type = RELEASE
        PROVE  OnlyLeases(HostOf[toServer[i].from], {toServer[i].pkt.address})'
    <3>1. PICK h, a : /\ h = HostOf[toServer'[i].from] /\ a = toServer'[i].pkt.address
                      /\ OnlyLeases(h, {a})
      BY <1>8, <2>1 DEF SessionInv, QueueOK, ReleasesOK
    <3>2. OnlyLeases(h, {a})'
      BY <1>6, <3>1 DEF LeasesKept
    <3>. QED
      BY <3>1, <3>2
  <2>. QED
    BY <1>2, <1>4, <2>1, LeftQueue DEF SessionInv
<1>10. OpenOK'
  <2>1. ASSUME NEW p \in Procs, p \notin open PROVE toClient'[p] = << >>
    <3>1. toClient[p] = << >> /\ toClient'[p] \in Seq(Fields)
      BY <1>3, <2>1 DEF SessionInv, OpenOK, InFlightOK
    <3>2. PICK g : ThinnedBy(g, toClient'[p], toClient[p])
      BY <1>5 DEF Thinned
    <3>3. DOMAIN toClient'[p] = {}
      BY <3>1, <3>2 DEF ThinnedBy
    <3>4. ASSUME NEW t \in Seq(Fields), DOMAIN t = {} PROVE t = << >>
      BY <3>4
    <3>. QED
      BY <3>1, <3>3, <3>4
  <2>. QED
    BY <1>2, <2>1 DEF SessionInv, OpenOK, clientVars
<1>11. ASSUME NEW q \in open PROVE ClientOK(q)'
  <2>1. q \in Procs /\ ClientOK(q)
    BY Types DEF SessionInv
  <2>2. Left(q)
    BY <1>6, <1>8 DEF Left, Same, clientVars, None, Alone
  <2>. QED
    BY <1>3, <1>5, <2>1, <2>2, LeftClient
<1>. QED
  BY <1>2, <1>6, <1>9, <1>10, <1>11 DEF SessionInv

LEMMA TickStep ==
  ASSUME Orderly, Inv, Inv', SessionInv, Tick
  PROVE  SessionInv'
<1>1. /\ Srv!OneTick' /\ Srv!RecordsOK'
      /\ \A h, a, m : \A k \in Nat : HasLease(h, a, m, k + 1) => HasLease(h, a, m, k)'
      /\ \A h, A : OnlyLeases(h, A) => OnlyLeases(h, A)'
  BY TickKeepsLeases DEF SessionInv, Orderly
<1>2. /\ toServer' = << >> /\ toServer = << >> /\ open' = open /\ toClient' = toClient
      /\ \A p \in open : toClient[p] = << >> /\ ~ttl_flag[p]
      /\ UNCHANGED <<stat, dhcph_packet, use_ip_time, ttl_flag, registered>>
      /\ \A p \in Procs : alarm[p] # 0
      /\ alarm' = [p \in Procs |-> IF alarm[p] = OFF THEN OFF ELSE alarm[p] - 1]
  BY Types DEF Tick, ServerSettled, Settled, Orderly, ClientTick, netVars, queueVars
<1>3. QueueOK'
  BY <1>2 DEF QueueOK, OrderOK, RequestsOK, ReleasesOK
<1>4. OpenOK'
  BY <1>2 DEF SessionInv, OpenOK
<1>5. ASSUME NEW q \in open PROVE ClientOK(q)'
  <2>1. q \in Procs /\ BufferOK(q) /\ HeldOK(q)
    BY Types DEF SessionInv, ClientOK
  <2>2. RepliesOK(q)'
    BY <1>2 DEF RepliesOK
  <2>3. BufferOK(q)'
    BY <1>2, <2>1, SameStates DEF BufferOK
  <2>4. ASSUME InUse(q)
        PROVE  (/\ None(q)
                /\ alarm[q] \in 0 .. UseIpTime \div 2
                /\ HasLease(HostOf[q], dhcph_packet[q].address, dhcph_packet[q].netmask,
                            Half + IF ttl_flag[q] THEN 0 ELSE alarm[q]))'
    <3>1. PICK a, m, k : /\ a = dhcph_packet[q].address
                         /\ m = dhcph_packet[q].netmask
                         /\ k = Half + alarm[q]
                         /\ HasLease(HostOf[q], a, m, k)
                         /\ alarm[q] \in 0 .. UseIpTime \div 2
      BY <1>2, <2>1, <2>4 DEF HeldOK
    <3>2. /\ Half \in Nat /\ UseIpTime \div 2 \in Nat
          /\ alarm[q] \in Nat \ {0} /\ OFF = -1
      BY <1>2, <2>1, <3>1, HalfType, Numbers DEF Orderly
    <3>3. /\ alarm'[q] = alarm[q] - 1 /\ alarm'[q] \in 0 .. UseIpTime \div 2
          /\ k - 1 \in Nat /\ (k - 1) + 1 = k /\ k - 1 = Half + alarm'[q]
      BY <1>2, <2>1, <3>1, <3>2, SMTT(30)
    <3>4. HasLease(HostOf[q], a, m, k - 1)'
      BY <1>1, <3>1, <3>3
    <3>5. None(q)'
      BY <1>2 DEF None
    <3>. QED
      BY <1>2, <3>1, <3>3, <3>4, <3>5
  <2>5. Holds(q) => registered'[q] /\ OnlyLeases(HostOf[q], Addrs)'
    BY <1>1, <1>2, <2>1 DEF HeldOK
  <2>6. HeldOK(q)'
    BY <1>2, <2>4, <2>5, SameStates DEF HeldOK
  <2>. QED
    BY <2>2, <2>3, <2>6 DEF ClientOK
<1>. QED
  BY <1>1, <1>2, <1>3, <1>4, <1>5 DEF SessionInv

-----------------------------------------------------------------------------
\* A step of one client.

\* The server and the other clients do not notice, but for a datagram.
Alters(p) ==
  /\ UNCHANGED serverVars
  /\ \A q \in Procs : q # p => /\ Same(q)
                               /\ toClient'[q] = toClient[q]
                               /\ q \in open' <=> q \in open

Says(p, m) == toServer' = Append(toServer, [from |-> p, pkt |-> m])

LEMMA OneClient ==
  ASSUME Orderly, Inv, Inv', SessionInv, NEW p \in Procs, Alters(p), QueueOK',
         toServer' = toServer \/ \E m : Says(p, m),
         \/ \A q \in open : HostOf[q] = HostOf[p] => q = p
         \/ toServer' = toServer /\ p \notin open',
         p \in open' => stat'[p] # INIT /\ ClientOK(p)',
         p \notin open' => stat'[p] \in {INIT, EXITING} /\ toClient'[p] = << >>
  PROVE  SessionInv'
<1>1. /\ \A h : LeasesKept(h)
      /\ Srv!OneTick' /\ Srv!RecordsOK'
  BY ServerUntouched DEF LeasesKept, SessionInv, Alters
<1>2. open \subseteq Procs /\ open' \subseteq Procs
  BY DEF Inv, Srv!IInv, Srv!TypeOK, Srv!NetTypeOK
<1>3. OpenOK'
  BY <1>2 DEF SessionInv, OpenOK, Alters, Same
<1>4. UseIpTime >= 2 /\ InFlightOK /\ InFlightOK'
  BY DEF Orderly, Inv, PacketsOK
<1>5. ASSUME NEW q \in open', q # p PROVE ClientOK(q)'
  <2>1. q \in Procs /\ q \in open /\ ClientOK(q) /\ Same(q) /\ toClient'[q] = toClient[q]
    BY <1>2, <1>5 DEF SessionInv, Alters
  <2>2. HostOf[q] # HostOf[p] \/ toServer' = toServer
    BY <1>5, <2>1
  <2>3. \A i \in DOMAIN toServer' :
          (i \in DOMAIN toServer /\ toServer'[i] = toServer[i])
            \/ (toServer'[i].from = p /\ HostOf[q] # HostOf[p])
    <3>1. toServer \in Seq(Requests)
      BY Types
    <3>2. ASSUME NEW m, Says(p, m), NEW i \in DOMAIN toServer'
          PROVE  (i \in DOMAIN toServer /\ toServer'[i] = toServer[i]) \/ toServer'[i].from = p
      BY <3>1, <3>2 DEF Says
    <3>3. CASE toServer' = toServer
      BY <3>3
    <3>. QED
      BY <2>2, <3>2, <3>3
  <2>4. Left(q)
    BY <1>1, <2>1, <2>2, <2>3 DEF Left, None, Alone
  <2>5. Thinned(toClient'[q], toClient[q])
    BY <2>1, Types, ThinnedNot
  <2>. QED
    BY <1>4, <2>1, <2>4, <2>5, LeftClient
<1>. QED
  BY <1>1, <1>3, <1>5 DEF SessionInv

\* What p has in flight does not contradict what it becomes.
Persists(p) == None(p) \/ \A m : SentOK(p, m) => SentOK(p, m)'

LEMMA SentNext ==
  ASSUME Inv, SessionInv, NEW p \in Procs, Alters(p), Persists(p), NEW i \in DOMAIN toServer,
         NEW d, d = toServer[i]
  PROVE  SentOK(d.from, d.pkt)'
<1>1. d \in Requests /\ d.from \in Procs /\ SentOK(d.from, d.pkt)
  BY Types DEF SessionInv, QueueOK, RequestsOK
<1>2. CASE d.from = p
  BY <1>1, <1>2 DEF Persists, None
<1>3. CASE d.from # p
  BY <1>1, <1>3, SentLeft DEF Alters, Same
<1>. QED
  BY <1>2, <1>3

LEMMA OrderNext ==
  ASSUME Inv, SessionInv, NEW p \in Procs, Alters(p),
         p \in open' => p \in open \/ stat[p] = INIT,
         NEW i \in DOMAIN toServer, NEW j \in DOMAIN toServer, i < j
  PROVE  /\ InOrder(toServer[i], toServer[j])
         /\ toServer[i].from \notin open => toServer[i].from \notin open'
<1>1. toServer[i].from \in Procs /\ SentOK(toServer[i].from, toServer[i].pkt)
  BY Types DEF SessionInv, QueueOK, RequestsOK
<1>2. stat[toServer[i].from] # INIT
  BY <1>1 DEF SentOK
<1>. QED
  BY <1>1, <1>2 DEF Alters, SessionInv, QueueOK, OrderOK

LEMMA QuietQueue ==
  ASSUME Inv, SessionInv, NEW p \in Procs, Alters(p), Persists(p), toServer' = toServer,
         p \in open' => p \in open \/ stat[p] = INIT
  PROVE  QueueOK'
<1>1. OrderOK'
  BY OrderNext DEF OrderOK, InOrder
<1>2. RequestsOK'
  <2>. SUFFICES ASSUME NEW i \in DOMAIN toServer
                PROVE  SentOK(toServer[i].from, toServer[i].pkt)'
    BY DEF RequestsOK
  <2>1. PICK d : d = toServer[i]
    OBVIOUS
  <2>2. SentOK(d.from, d.pkt)'
    BY <2>1, SentNext
  <2>. QED
    BY <2>1, <2>2
<1>3. ReleasesOK'
  BY ServerUntouched DEF Alters, SessionInv, QueueOK, ReleasesOK
<1>. QED
  BY <1>1, <1>2, <1>3 DEF QueueOK

LEMMA SentQueue ==
  ASSUME Inv, SessionInv, NEW p \in Procs, Alters(p), Persists(p), NEW m, Says(p, m),
         SentOK(p, m)',
         p \in open' => p \in open \/ stat[p] = INIT,
         \A q \in open : HostOf[q] = HostOf[p] => q = p,
         None(p) \/ \A b : SentOK(p, b) => b.type = DISCOVER /\ m.type # DISCOVER,
         m.type = RELEASE => None(p) /\ OnlyLeases(HostOf[p], {m.address})
  PROVE  QueueOK'
<1>. DEFINE e == [from |-> p, pkt |-> m]
<1>1. /\ toServer' = Append(toServer, e)
      /\ e.from = p /\ e.pkt = m
  BY DEF Says
<1>. HIDE DEF e
<1>2. /\ Len(toServer) \in Nat
      /\ DOMAIN toServer = 1 .. Len(toServer)
      /\ DOMAIN toServer' = 1 .. Len(toServer) + 1
      /\ \A i \in 1 .. Len(toServer) : toServer'[i] = toServer[i]
      /\ toServer'[Len(toServer) + 1] = e
  <2>1. toServer \in Seq(Requests)
    BY Types
  <2>. QED
    BY <1>1, <2>1
<1>3. ASSUME NEW i \in DOMAIN toServer, HostOf[toServer[i].from] = HostOf[p]
      PROVE  IF toServer[i].from = p THEN toServer[i].pkt.type = DISCOVER /\ m.type # DISCOVER
                                     ELSE toServer[i].from \notin open'
  <2>1. ~None(p)
    BY <1>3 DEF None
  <2>2. toServer[i].from \in Procs /\ SentOK(toServer[i].from, toServer[i].pkt)
    BY Types DEF SessionInv, QueueOK, RequestsOK
  <2>. QED
    BY <1>3, <2>1, <2>2 DEF Alters
<1>4. OrderOK'
  <2>. SUFFICES ASSUME NEW i \in DOMAIN toServer', NEW j \in DOMAIN toServer', i < j
                PROVE  InOrder(toServer[i], toServer[j])'
    BY DEF OrderOK
  <2>1. i \in DOMAIN toServer /\ toServer'[i] = toServer[i]
    BY <1>2
  <2>2. CASE j \in DOMAIN toServer
    <3>1. toServer'[j] = toServer[j]
      BY <1>2, <2>2
    <3>. QED
      BY <2>1, <2>2, <3>1, OrderNext DEF InOrder
  <2>3. CASE j \notin DOMAIN toServer
    <3>1. toServer'[j] = e
      BY <1>2, <2>3
    <3>. QED
      BY <1>1, <1>3, <2>1, <3>1 DEF InOrder
  <2>. QED
    BY <2>2, <2>3
<1>5. RequestsOK'
  <2>. SUFFICES ASSUME NEW i \in DOMAIN toServer'
                PROVE  SentOK(toServer[i].from, toServer[i].pkt)'
    BY DEF RequestsOK
  <2>1. CASE i \in DOMAIN toServer
    <3>1. PICK d : d = toServer[i] /\ toServer'[i] = d
      BY <1>2, <2>1
    <3>2. SentOK(d.from, d.pkt)'
      BY <2>1, <3>1, SentNext
    <3>. QED
      BY <3>1, <3>2
  <2>2. CASE i \notin DOMAIN toServer
    <3>1. toServer'[i].from = p /\ toServer'[i].pkt = m
      BY <1>1, <1>2, <2>2
    <3>. QED
      BY <3>1
  <2>. QED
    BY <2>1, <2>2
<1>6. ReleasesOK'
  <2>. SUFFICES ASSUME NEW i \in DOMAIN toServer', toServer'[i].pkt.type = RELEASE
                PROVE  (/\ \A j \in DOMAIN toServer :
                             j < i => HostOf[toServer[j].from] # HostOf[toServer[i].from]
                        /\ OnlyLeases(HostOf[toServer[i].from], {toServer[i].pkt.address}))'
    BY DEF ReleasesOK
  <2>1. CASE i \in DOMAIN toServer
    <3>1. PICK h, a : /\ h = HostOf[toServer'[i].from] /\ a = toServer'[i].pkt.address
                      /\ OnlyLeases(h, {a})
                      /\ \A j \in DOMAIN toServer : j < i => HostOf[toServer[j].from] # h
      BY <1>2, <2>1, ZenonT(60) DEF SessionInv, QueueOK, ReleasesOK
    <3>2. OnlyLeases(h, {a})'
      BY <3>1, ServerUntouched DEF Alters
    <3>. QED
      BY <1>2, <2>1, <3>1, <3>2
  <2>2. CASE i \notin DOMAIN toServer
    <3>1. /\ toServer'[i].from = p /\ toServer'[i].pkt = m
          /\ \A j \in DOMAIN toServer' :
               j < i => j \in DOMAIN toServer /\ toServer'[j] = toServer[j]
      BY <1>1, <1>2, <2>2
    <3>2. None(p) /\ OnlyLeases(HostOf[p], {m.address})
      BY <3>1
    <3>3. OnlyLeases(HostOf[p], {m.address})'
      BY <3>2, ServerUntouched DEF Alters
    <3>. QED
      BY <3>1, <3>2, <3>3 DEF None
  <2>. QED
    BY <2>1, <2>2
<1>. QED
  BY <1>4, <1>5, <1>6 DEF QueueOK

\* What OneClient asks of a step.
Moved(p) ==
  /\ Alters(p)
  /\ QueueOK'
  /\ toServer' = toServer \/ \E m : Says(p, m)
  /\ p \in open' => stat'[p] # INIT /\ ClientOK(p)'
  /\ p \notin open' => stat'[p] \in {INIT, EXITING} /\ toClient'[p] = << >>

\* The one lease of a host is the one that its client believes in.
LEMMA OneLease ==
  ASSUME Inv, NEW h, NEW A, NEW a, NEW m, NEW k, HasLease(h, a, m, k), OnlyLeases(h, A)
  PROVE  OnlyLeases(h, {a})
<1>1. Srv!IInv
  BY DEF Inv
<1>2. \A i, j \in DOMAIN clients : clients[i].id = clients[j].id => i = j
  BY <1>1, ServerAssumed, NetAssumption, Srv!ListsHold DEF Srv!ServerAssumption
<1>3. PICK i \in DOMAIN clients : clients[i].id = h /\ clients[i].addr = a
  BY DEF HasLease, Srv!LeaseLasts
<1>. QED
  BY <1>2, <1>3 DEF OnlyLeases, Srv!OnlyLeases

LEMMA LeaseShorter ==
  ASSUME Inv, NEW h, NEW a, NEW m, NEW k \in Int, NEW j \in Int, j <= k, HasLease(h, a, m, k)
  PROVE  HasLease(h, a, m, j)
<1>1. PICK i \in DOMAIN clients : /\ clients[i].id = h
                                  /\ clients[i].stat = Srv!IN_USE
                                  /\ clients[i].addr = a
                                  /\ clients[i].netmask = m
                                  /\ clients[i].ttlcounter >= k + Srv!Pending
  BY DEF HasLease, Srv!LeaseLasts
<1>2. clients[i].ttlcounter \in Nat
  <2>1. Srv!MaxUint16 \in Nat
    BY DEF Srv!MaxUint16
  <2>2. clients \in Seq(Srv!ClientRecords)
    BY DEF Inv, Srv!IInv, Srv!TypeOK
  <2>3. clients[i] \in Srv!ClientRecords
    BY <2>2
  <2>4. clients[i].ttlcounter \in Srv!Uint16
    BY <2>3 DEF Srv!ClientRecords
  <2>. QED
    BY <2>1, <2>4 DEF Srv!Uint16
<1>3. Srv!Pending \in {0, 1}
  BY DEF Srv!Pending
<1>4. clients[i].ttlcounter >= j + Srv!Pending
  BY <1>1, <1>2, <1>3
<1>. QED
  BY <1>1, <1>4 DEF HasLease, Srv!LeaseLasts

\* A client whose host has nothing in flight sends a last datagram or none.
LEMMA Exited ==
  ASSUME Orderly, Inv, SessionInv, NEW p \in open, Exit(p), UNCHANGED serverVars,
         \/ toServer' = toServer
         \/ \E m : /\ toServer' = Sent(p, m)
                   /\ None(p)
                   /\ m.type = REQUEST => m.ttl = Htons(UseIpTime)
                   /\ m.type = RELEASE => OnlyLeases(HostOf[p], {m.address})
  PROVE  Moved(p)
<1>1. p \in Procs /\ LoopsOK /\ BuffersOK /\ InFlightOK
  BY Types
<1>2. Alters(p)
  BY <1>1 DEF Exit, Alters, Same, LoopsOK, BuffersOK, InFlightOK
<1>3. stat'[p] = EXITING /\ toClient'[p] = << >> /\ p \notin open' /\ EXITING # INIT
  <2>1. EXITING # INIT
    BY Numbers
  <2>2. open' = open \ {p}
    BY DEF Exit
  <2>. QED
    BY <1>1, <2>1, <2>2 DEF Exit, LoopsOK, InFlightOK
<1>4. Persists(p)
  BY <1>3 DEF Persists, SentOK
<1>5. \A q \in open : HostOf[q] = HostOf[p] => q = p
  BY DEF SessionInv, OpenOK
<1>6. CASE toServer' = toServer
  <2>1. QueueOK'
    BY <1>1, <1>2, <1>3, <1>4, <1>6, QuietQueue
  <2>. QED
    BY <1>2, <1>3, <1>6, <2>1 DEF Moved
<1>7. CASE toServer' # toServer
  <2>1. PICK m : /\ toServer' = Sent(p, m)
                 /\ None(p)
                 /\ m.type = REQUEST => m.ttl = Htons(UseIpTime)
                 /\ m.type = RELEASE => OnlyLeases(HostOf[p], {m.address})
    BY <1>7
  <2>2. Says(p, m)
    BY <1>7, <2>1 DEF Sent, Enqueue, Says
  <2>3. SentOK(p, m)'
    BY <1>3, <2>1 DEF SentOK
  <2>4. QueueOK'
    BY <1>1, <1>2, <1>3, <1>4, <1>5, <2>1, <2>2, <2>3, SentQueue
  <2>. QED
    BY <1>2, <1>3, <2>2, <2>4 DEF Moved
<1>. QED
  BY <1>6, <1>7

\* A client goes on and sends m: none of its other datagrams is in flight but
\* a DISCOVER.
LEMMA Spoken ==
  ASSUME Inv, SessionInv, NEW p \in Procs, Alters(p), Persists(p), NEW m, toServer' = Sent(p,
         m),
         SentOK(p, m)', m.type # RELEASE, p \in open' /\ (p \in open \/ stat[p] = INIT),
         \A q \in open : HostOf[q] = HostOf[p] => q = p,
         None(p) \/ \A b : SentOK(p, b) => b.type = DISCOVER /\ m.type # DISCOVER,
         stat'[p] # INIT, ClientOK(p)'
  PROVE  Moved(p)
<1>1. CASE toServer' = toServer
  BY <1>1, QuietQueue DEF Moved
<1>2. CASE toServer' # toServer
  <2>1. Says(p, m)
    BY <1>2 DEF Sent, Enqueue, Says
  <2>2. QueueOK'
    BY <2>1, SentQueue
  <2>. QED
    BY <2>1, <2>2 DEF Moved
<1>. QED
  BY <1>1, <1>2

-----------------------------------------------------------------------------
\* The steps of a client, one lemma each.
LEMMA StartMoves ==
  ASSUME Orderly, Inv, SessionInv, NEW p \in Procs, StartAct(p) PROVE Moved(p)
<1>1. LoopsOK /\ BuffersOK /\ InFlightOK
  BY Types
<1>2. /\ stat[p] = INIT
      /\ stat' = [stat EXCEPT ![p] = WAIT_OFFER]
      /\ dhcph_packet' = [dhcph_packet EXCEPT ![p] = Discover]
      /\ age' = [age EXCEPT ![p] = 0]
      /\ toServer' = Sent(p, Discover)
      /\ open' = open \cup {p}
      /\ UNCHANGED <<toClient, use_ip_time, alarm, ttl_flag, registered, serverVars>>
      /\ \A q \in open : HostOf[q] # HostOf[p]
  BY DEF StartAct, Start, Send, Orderly
<1>3. Alters(p)
  BY <1>1, <1>2 DEF Alters, Same, LoopsOK, BuffersOK
<1>4. p \notin open /\ toClient[p] = << >>
  BY <1>2 DEF SessionInv, OpenOK
<1>5. Persists(p) /\ \A b : ~SentOK(p, b)
  BY <1>2 DEF Persists, SentOK
<1>6. /\ stat'[p] = 2 /\ dhcph_packet'[p] = Discover /\ age'[p] = 0 /\ p \in open'
      /\ 2 # INIT
  <2>1. stat'[p] = WAIT_OFFER /\ dhcph_packet'[p] = Discover /\ age'[p] = 0
    BY <1>1, <1>2 DEF LoopsOK, BuffersOK
  <2>2. p \in open'
    BY <1>2
  <2>3. WAIT_OFFER = 2 /\ INIT = 1
    BY Numbers
  <2>. QED
    BY <2>1, <2>2, <2>3
<1>7. Discover.type = DISCOVER /\ DISCOVER # REQUEST /\ DISCOVER # RELEASE
  BY MessageTypes DEF Discover, NoPacket
<1>8. SentOK(p, Discover)'
  BY <1>6, <1>7, StatesNext DEF SentOK
<1>9. ClientOK(p)'
  <2>1. RepliesOK(p)'
    BY <1>2, <1>4 DEF RepliesOK
  <2>2. BufferOK(p)'
    BY <1>6, <1>7, StatesNext DEF BufferOK, Holds
  <2>3. HeldOK(p)'
    BY <1>6, StatesNext DEF HeldOK, Holds
  <2>. QED
    BY <2>1, <2>2, <2>3 DEF ClientOK
<1>. QED
  BY <1>2, <1>3, <1>5, <1>6, <1>7, <1>8, <1>9, Spoken

\* A socket is open: what that means for its process.
LEMMA Opened ==
  ASSUME Inv, SessionInv, NEW p \in open
  PROVE  /\ p \in Procs /\ LoopsOK /\ BuffersOK /\ InFlightOK
         /\ BufferOK(p) /\ HeldOK(p) /\ RepliesOK(p)
         /\ toClient[p] \in Seq(Fields) /\ dhcph_packet[p] \in Fields
         /\ \A q \in open : HostOf[q] = HostOf[p] => q = p
         /\ stat[p] # INIT
         /\ InUse(p) => toClient[p] = << >>
<1>1. p \in Procs /\ LoopsOK /\ BuffersOK /\ InFlightOK
  BY Types
<1>2. BufferOK(p) /\ HeldOK(p) /\ RepliesOK(p)
  BY DEF SessionInv, ClientOK
<1>3. toClient[p] \in Seq(Fields) /\ dhcph_packet[p] \in Fields
  BY <1>1 DEF InFlightOK, BuffersOK
<1>4. ASSUME InUse(p) PROVE toClient[p] = << >>
  <2>1. DOMAIN toClient[p] = {}
    BY <1>2, <1>4 DEF RepliesOK, ReplyOK
  <2>2. ASSUME NEW t \in Seq(Fields), DOMAIN t = {} PROVE t = << >>
    BY <2>2
  <2>. QED
    BY <1>3, <2>1, <2>2
<1>. QED
  BY <1>1, <1>2, <1>3, <1>4 DEF SessionInv, OpenOK

\* Only the flags, the timer or the program counter change.
LEMMA QuietMoves ==
  ASSUME Orderly, Inv, SessionInv, NEW p \in open,
         UNCHANGED <<toServer, toClient, open, stat, dhcph_packet, use_ip_time, age, registered,
                     serverVars>>,
         \A q \in Procs : q # p => alarm'[q] = alarm[q] /\ ttl_flag'[q] = ttl_flag[q],
         \/ /\ UNCHANGED alarm
            /\ ttl_flag' = ttl_flag \/ ~InUse(p) \/ (~ttl_flag[p] /\ ~ttl_flag'[p])
         \/ alarm[p] = 0 /\ alarm' = [alarm EXCEPT ![p] = HalfTime(p)] /\ ttl_flag'[p]
  PROVE  Moved(p)
<1>1. p \in Procs /\ LoopsOK /\ BufferOK(p) /\ HeldOK(p) /\ RepliesOK(p) /\ stat[p] # INIT
  BY Opened
<1>2. Alters(p)
  BY DEF Alters, Same
<1>3. Persists(p)
  BY SentLeft DEF Persists
<1>4. LeasesKept(HostOf[p]) /\ \A h, a, m, k : HasLease(h, a, m, k)' <=> HasLease(h, a, m, k)
  BY ServerUntouched DEF LeasesKept
<1>5. QueueOK'
  BY <1>1, <1>2, <1>3, QuietQueue
<1>6. BufferOK(p)'
  BY <1>1, SameStates DEF BufferOK
<1>7. RepliesOK(p)'
  <2>1. ASSUME NEW m, ReplyOK(p, m) PROVE ReplyOK(p, m)'
    BY <1>4, <2>1, SameStates, ServerUntouched DEF ReplyOK, None
  <2>2. \A i \in DOMAIN toClient[p] : ReplyOK(p, toClient[p][i])'
    <3>. SUFFICES ASSUME NEW i \in DOMAIN toClient[p] PROVE ReplyOK(p, toClient[p][i])'
      OBVIOUS
    <3>1. PICK m : m = toClient[p][i] /\ ReplyOK(p, m)
      BY <1>1 DEF RepliesOK
    <3>2. ReplyOK(p, m)'
      BY <2>1, <3>1
    <3>. QED
      BY <3>1, <3>2
  <2>. QED
    BY <1>1, <2>2, SameStates DEF RepliesOK
<1>8. HeldOK(p)'
  <2>1. ASSUME InUse(p)
        PROVE  (/\ None(p)
                /\ alarm[p] \in 0 .. UseIpTime \div 2
                /\ HasLease(HostOf[p], dhcph_packet[p].address, dhcph_packet[p].netmask,
                            Half + IF ttl_flag[p] THEN 0 ELSE alarm[p]))'
    <3>1. PICK a, m, k : /\ a = dhcph_packet[p].address
                         /\ m = dhcph_packet[p].netmask
                         /\ k = Half + IF ttl_flag[p] THEN 0 ELSE alarm[p]
                         /\ HasLease(HostOf[p], a, m, k)
                         /\ alarm[p] \in 0 .. UseIpTime \div 2
                         /\ None(p)
      BY <1>1, <2>1 DEF HeldOK
    <3>2. None(p)'
      BY <3>1 DEF None
    <3>3. HasLease(HostOf[p], a, m, k)'
      BY <1>4, <3>1
    <3>4. ttl_flag \in [Procs -> BOOLEAN] /\ alarm \in [Procs -> OFF .. 32767]
      BY <1>1 DEF LoopsOK
    <3>5. CASE UNCHANGED alarm /\ (ttl_flag' = ttl_flag \/ (~ttl_flag[p] /\ ~ttl_flag'[p]))
      BY <3>1, <3>2, <3>3, <3>5
    <3>6. CASE alarm[p] = 0 /\ alarm' = [alarm EXCEPT ![p] = HalfTime(p)] /\ ttl_flag'[p]
      <4>1. use_ip_time[p] = UseIpTime
        BY <1>1, <2>1 DEF BufferOK, Holds
      <4>2. alarm'[p] = UseIpTime \div 2
        BY <1>1, <3>4, <3>6, <4>1, HalfType DEF HalfTime, Orderly
      <4>3. k = Half
        BY <3>1, <3>6, HalfType DEF Orderly
      <4>. QED
        BY <3>1, <3>2, <3>3, <3>6, <4>2, <4>3, HalfType DEF Orderly
    <3>. QED
      BY <2>1, <3>5, <3>6
  <2>2. Holds(p) => registered'[p] /\ OnlyLeases(HostOf[p], Addrs)'
    BY <1>1, <1>4 DEF HeldOK, LeasesKept
  <2>3. Alone(p) => Alone(p)'
    BY DEF Alone
  <2>. QED
    BY <1>1, <2>1, <2>2, <2>3, SameStates DEF HeldOK, Alone
<1>. QED
  BY <1>1, <1>2, <1>5, <1>6, <1>7, <1>8 DEF Moved, ClientOK

\* The timer of a process that has no socket.
LEMMA StrayAlarm ==
  ASSUME Inv, SessionInv, NEW p \in Procs, p \notin open, ClientAlarm(p), UNCHANGED serverVars
  PROVE  Moved(p)
<1>1. LoopsOK
  BY Types
<1>2. Alters(p)
  BY <1>1 DEF ClientAlarm, queueVars, Alters, Same, LoopsOK
<1>3. Persists(p)
  BY SentLeft DEF ClientAlarm, queueVars, Persists
<1>4. QueueOK'
  BY <1>2, <1>3, QuietQueue DEF ClientAlarm, queueVars
<1>. QED
  BY <1>2, <1>4 DEF Moved, ClientAlarm, queueVars, SessionInv, OpenOK

LEMMA ResendMoves ==
  ASSUME Orderly, Inv, SessionInv, NEW p \in Procs, Resend(p), UNCHANGED serverVars
  PROVE  Moved(p)
<1>1. p \in open
  BY DEF Resend
<1>2. /\ p \in Procs /\ LoopsOK /\ BuffersOK /\ InFlightOK
      /\ BufferOK(p) /\ HeldOK(p) /\ RepliesOK(p)
      /\ \A q \in open : HostOf[q] = HostOf[p] => q = p
  BY <1>1, Opened
<1>3. PICK m, s : m = dhcph_packet[p] /\ s = AgainOf[stat[p]]
  OBVIOUS
<1>4. /\ stat' = [stat EXCEPT ![p] = s]
      /\ dhcph_packet' = [dhcph_packet EXCEPT ![p] = m]
      /\ age' = [age EXCEPT ![p] = 0]
      /\ toServer' = Sent(p, m)
      /\ UNCHANGED <<toClient, open, use_ip_time, alarm, ttl_flag, registered>>
  BY <1>3 DEF Resend, Send
<1>5. /\ stat'[p] = s /\ dhcph_packet'[p] = m /\ age'[p] = 0 /\ p \in open'
      /\ use_ip_time'[p] = use_ip_time[p] /\ registered'[p] = registered[p]
  BY <1>1, <1>2, <1>4 DEF LoopsOK, BuffersOK
<1>6. /\ WaitsForOffer(p)' <=> WaitsForOffer(p)
      /\ WaitsForAck(p)' <=> WaitsForAck(p)
      /\ WaitsForExtAck(p)' <=> WaitsForExtAck(p)
      /\ ~InUse(p)' /\ ~InUse(p) /\ s # INIT
      /\ WaitsForOffer(p) \/ WaitsForAck(p) \/ WaitsForExtAck(p)
  <2>1. stat[p] \in {2, 3, 5} /\ INIT = 1
    BY Waiting, Numbers DEF Resend
  <2>2. \/ stat[p] = 2 /\ s = 8
        \/ stat[p] = 3 /\ s = 9
        \/ stat[p] = 5 /\ s = 7
    BY <1>3, <2>1, AgainOfType
  <2>. QED
    BY <1>5, <2>1, <2>2, States, StatesNext
<1>7. age[p] # 0
  BY NetAssumption DEF Resend, TimedOut
<1>8. Alters(p)
  BY <1>2, <1>4 DEF Alters, Same, LoopsOK, BuffersOK
<1>9. (\A b : ~SentOK(p, b)) /\ Persists(p)
  BY <1>1, <1>7 DEF SentOK, Persists
<1>11. /\ m.type # RELEASE
       /\ m.type = REQUEST => m.ttl = Htons(UseIpTime)
       /\ WaitsForOffer(p) => m.type = DISCOVER
       /\ WaitsForAck(p) => m.type = REQUEST /\ m.code = RequestAlloc
  BY <1>2, <1>3, <1>6, MessageTypes DEF BufferOK, Holds
<1>10. SentOK(p, m)'
  BY <1>5, <1>6, <1>11 DEF SentOK
<1>12. BufferOK(p)'
  BY <1>2, <1>3, <1>5, <1>6 DEF BufferOK, Holds
<1>13. RepliesOK(p)'
  <2>1. ASSUME NEW b, ReplyOK(p, b)
        PROVE  ReplyOK(p, b)' /\ (WaitsForAck(p) \/ WaitsForExtAck(p) => b.type # ACK)
    <3>1. WaitsForAck(p) \/ WaitsForExtAck(p) => b.type # ACK
      BY <1>7, <2>1 DEF ReplyOK
    <3>2. ~WaitsForExtAck(p)
      BY <2>1, <3>1 DEF ReplyOK, Granted
    <3>3. WaitsForAck(p) => ~Granted(b)
      BY <3>1 DEF Granted
    <3>. QED
      BY <1>6, <2>1, <3>1, <3>2, <3>3 DEF ReplyOK
  <2>2. ASSUME NEW i \in DOMAIN toClient[p]
        PROVE  /\ ReplyOK(p, toClient[p][i])'
               /\ WaitsForAck(p) \/ WaitsForExtAck(p) => toClient[p][i].type # ACK
    <3>1. PICK b : b = toClient[p][i] /\ ReplyOK(p, b)
      BY <1>2 DEF RepliesOK
    <3>2. ReplyOK(p, b)' /\ (WaitsForAck(p) \/ WaitsForExtAck(p) => b.type # ACK)
      BY <2>1, <3>1
    <3>3. toClient'[p][i] = b
      BY <1>4, <3>1
    <3>. QED
      BY <1>4, <3>1, <3>2, <3>3
  <2>. QED
    BY <1>4, <1>6, <2>2 DEF RepliesOK
<1>14. HeldOK(p)'
  <2>1. OnlyLeases(HostOf[p], Addrs)' <=> OnlyLeases(HostOf[p], Addrs)
    BY ServerUntouched
  <2>2. ASSUME Alone(p) PROVE Alone(p)'
    <3>1. toServer \in Seq(Requests)
      BY Types
    <3>2. CASE toServer' = toServer
      BY <2>2, <3>2 DEF Alone
    <3>3. CASE toServer' = Append(toServer, [from |-> p, pkt |-> m])
      BY <2>2, <3>1, <3>3 DEF Alone
    <3>. QED
      BY <1>4, <3>2, <3>3 DEF Sent, Enqueue
  <2>. QED
    BY <1>2, <1>5, <1>6, <2>1, <2>2 DEF HeldOK, Holds, Alone
<1>. QED
  BY <1>1, <1>2, <1>4, <1>5, <1>6, <1>8, <1>9, <1>10, <1>11, <1>12, <1>13, <1>14, Spoken
     DEF ClientOK

\* The steps that end a process.
LEMMA ExitMoves ==
  ASSUME Orderly, Inv, SessionInv, NEW p \in Procs, UNCHANGED serverVars,
         \/ GiveUp(p) \/ RecvRefusal(p) \/ KilledByHangup(p)
         \/ ExtendAndExit(p) \/ ReleaseAndExit(p)
  PROVE  Moved(p)
<1>1. p \in open /\ Exit(p)
  BY DEF GiveUp, RecvRefusal, KilledByHangup, ExtendAndExit, ReleaseAndExit, Takes, AtFlags
<1>2. BufferOK(p) /\ HeldOK(p) /\ dhcph_packet[p] \in Fields
  BY <1>1, Opened
<1>3. CASE GiveUp(p) \/ RecvRefusal(p) \/ KilledByHangup(p)
  BY <1>1, <1>3, Exited DEF GiveUp, RecvRefusal, KilledByHangup
<1>4. CASE ExtendAndExit(p)
  <2>1. InUse(p) /\ toServer' = Sent(p, Extension(p))
    BY <1>4 DEF ExtendAndExit, WantsExtension, InUse
  <2>2. None(p) /\ dhcph_packet[p].ttl = Htons(UseIpTime)
    BY <1>2, <2>1 DEF HeldOK, BufferOK, Holds
  <2>3. Extension(p).type = REQUEST /\ Extension(p).ttl = Htons(UseIpTime) /\ REQUEST # RELEASE
    BY <1>2, <2>2, MessageTypes DEF Extension, Fields
  <2>. QED
    BY <1>1, <2>1, <2>2, <2>3, Exited
<1>5. CASE ReleaseAndExit(p)
  <2>1. CASE ~InUse(p)
    BY <1>1, <1>5, <2>1, Exited DEF ReleaseAndExit, InUse
  <2>2. CASE InUse(p)
    <3>1. toServer' = Sent(p, ReleaseMessage(p))
      BY <1>5, <2>2 DEF ReleaseAndExit, InUse
    <3>2. PICK a, m, k : a = dhcph_packet[p].address /\ HasLease(HostOf[p], a, m, k)
      BY <1>2, <2>2 DEF HeldOK
    <3>3. None(p) /\ OnlyLeases(HostOf[p], Addrs)
      BY <1>2, <2>2 DEF HeldOK, Holds
    <3>4. OnlyLeases(HostOf[p], {a})
      BY <3>2, <3>3, OneLease
    <3>5. ReleaseMessage(p).type = RELEASE /\ ReleaseMessage(p).address = a /\ REQUEST # RELEASE
      BY <1>2, <3>2, MessageTypes DEF ReleaseMessage, Fields
    <3>. QED
      BY <1>1, <3>1, <3>3, <3>4, <3>5, Exited
  <2>. QED
    BY <2>1, <2>2
<1>. QED
  BY <1>3, <1>4, <1>5

LEMMA ExtendMoves ==
  ASSUME Orderly, Inv, SessionInv, NEW p \in Procs, Extend(p), UNCHANGED serverVars
  PROVE  Moved(p)
<1>1. p \in open /\ InUse(p)
  BY DEF Extend, AtFlags, WantsExtension, InUse
<1>2. /\ p \in Procs /\ LoopsOK /\ BuffersOK /\ InFlightOK
      /\ BufferOK(p) /\ HeldOK(p)
      /\ dhcph_packet[p] \in Fields
      /\ toClient[p] = << >>
      /\ \A q \in open : HostOf[q] = HostOf[p] => q = p
  BY <1>1, Opened
<1>3. PICK m : m = Extension(p)
  OBVIOUS
<1>4. /\ stat' = [stat EXCEPT ![p] = WAIT_EXT_ACK]
      /\ dhcph_packet' = [dhcph_packet EXCEPT ![p] = m]
      /\ age' = [age EXCEPT ![p] = 0]
      /\ ttl_flag' = [ttl_flag EXCEPT ![p] = FALSE]
      /\ toServer' = Sent(p, m)
      /\ UNCHANGED <<toClient, open, use_ip_time, alarm, registered>>
  BY <1>3 DEF Extend, Send
<1>5. /\ stat'[p] = 5 /\ dhcph_packet'[p] = m /\ age'[p] = 0 /\ p \in open'
      /\ use_ip_time'[p] = use_ip_time[p] /\ registered'[p] = registered[p]
  <2>1. stat'[p] = WAIT_EXT_ACK /\ dhcph_packet'[p] = m /\ age'[p] = 0
    BY <1>2, <1>4 DEF LoopsOK, BuffersOK
  <2>2. WAIT_EXT_ACK = 5
    BY Numbers
  <2>. QED
    BY <1>1, <1>4, <2>1, <2>2
<1>6. /\ m.type = REQUEST /\ m.code = RequestExt /\ m.ttl = Htons(UseIpTime)
      /\ REQUEST # RELEASE /\ use_ip_time[p] = UseIpTime
  BY <1>1, <1>2, <1>3, MessageTypes DEF BufferOK, Holds, Extension, Fields
<1>7. Alters(p)
  BY <1>2, <1>4 DEF Alters, Same, LoopsOK, BuffersOK
<1>8. None(p) /\ Persists(p)
  BY <1>1, <1>2 DEF HeldOK, Persists
<1>9. /\ ~WaitsForOffer(p)' /\ ~WaitsForAck(p)' /\ ~InUse(p)' /\ WaitsForExtAck(p)'
      /\ stat'[p] # INIT
  BY <1>5, StatesNext, Numbers
<1>10. SentOK(p, m)'
  BY <1>5, <1>6, <1>9 DEF SentOK
<1>11. BufferOK(p)'
  BY <1>5, <1>6, <1>9 DEF BufferOK, Holds
<1>12. RepliesOK(p)'
  BY <1>2, <1>4 DEF RepliesOK
<1>13. HeldOK(p)'
  <2>1. OnlyLeases(HostOf[p], Addrs)' <=> OnlyLeases(HostOf[p], Addrs)
    BY ServerUntouched
  <2>2. Alone(p)'
    <3>1. toServer \in Seq(Requests)
      BY Types
    <3>2. CASE toServer' = toServer
      BY <1>8, <3>2 DEF Alone, None
    <3>3. CASE toServer' = Append(toServer, [from |-> p, pkt |-> m])
      BY <1>8, <3>1, <3>3 DEF Alone, None
    <3>. QED
      BY <1>4, <3>2, <3>3 DEF Sent, Enqueue
  <2>. QED
    BY <1>1, <1>2, <1>5, <1>9, <2>1, <2>2 DEF HeldOK, Holds, Alone
<1>. QED
  BY <1>1, <1>2, <1>4, <1>5, <1>6, <1>7, <1>8, <1>9, <1>10, <1>11, <1>12, <1>13, Spoken
     DEF ClientOK

\* What recvfrom() takes, and what it leaves.
LEMMA Took ==
  ASSUME Inv, SessionInv, NEW p \in open, toClient[p] # << >>,
         toClient' = [toClient EXCEPT ![p] = Tail(@)], NEW m, m = Received(p)
  PROVE  /\ m \in Fields /\ ReplyOK(p, m)
         /\ m.type = ACK /\ (WaitsForAck(p) \/ WaitsForExtAck(p)) => toClient'[p] = << >>
         /\ \A i \in DOMAIN toClient'[p] : \E b : toClient'[p][i] = b /\ ReplyOK(p, b)
         /\ \A q \in Procs : q # p => toClient'[q] = toClient[q]
         /\ WaitsForAck(p) \/ WaitsForExtAck(p) =>
              \A i \in DOMAIN toClient'[p] : toClient'[p][i].type = ACK => i = Len(toClient'[p])
<1>1. p \in Procs /\ InFlightOK /\ RepliesOK(p) /\ toClient[p] \in Seq(Fields)
  BY Opened
<1>2. /\ toClient'[p] = Tail(toClient[p])
      /\ \A q \in Procs : q # p => toClient'[q] = toClient[q]
  BY <1>1 DEF InFlightOK
<1>3. /\ Len(toClient[p]) \in Nat \ {0}
      /\ DOMAIN toClient[p] = 1 .. Len(toClient[p])
      /\ DOMAIN toClient'[p] = 1 .. Len(toClient[p]) - 1
      /\ Len(toClient'[p]) = Len(toClient[p]) - 1
      /\ \A i \in 1 .. Len(toClient[p]) - 1 : toClient'[p][i] = toClient[p][i + 1]
      /\ toClient'[p] \in Seq(Fields)
      /\ m = toClient[p][1] /\ m \in Fields
  <2>1. ASSUME NEW s \in Seq(Fields), s # << >>
        PROVE  /\ Len(s) \in Nat \ {0}
               /\ DOMAIN s = 1 .. Len(s)
               /\ DOMAIN Tail(s) = 1 .. Len(s) - 1
               /\ Len(Tail(s)) = Len(s) - 1
               /\ \A i \in 1 .. Len(s) - 1 : Tail(s)[i] = s[i + 1]
               /\ Tail(s) \in Seq(Fields)
               /\ Head(s) = s[1] /\ Head(s) \in Fields
    BY <2>1
  <2>. QED
    BY <1>1, <1>2, <2>1 DEF Received
<1>4. 1 \in DOMAIN toClient[p] /\ \A i \in DOMAIN toClient'[p] : i + 1 \in DOMAIN toClient[p]
  BY <1>3
<1>5. ReplyOK(p, m)
  <2>1. PICK b : b = toClient[p][1] /\ ReplyOK(p, b)
    BY <1>1, <1>4 DEF RepliesOK
  <2>. QED
    BY <1>3, <2>1
<1>6. ASSUME m.type = ACK, WaitsForAck(p) \/ WaitsForExtAck(p) PROVE toClient'[p] = << >>
  <2>1. 1 = Len(toClient[p])
    BY <1>1, <1>3, <1>4, <1>6 DEF RepliesOK
  <2>2. DOMAIN toClient'[p] = {}
    BY <1>3, <2>1
  <2>3. ASSUME NEW t \in Seq(Fields), DOMAIN t = {} PROVE t = << >>
    BY <2>3
  <2>. QED
    BY <1>3, <2>2, <2>3
<1>7. ASSUME NEW i \in DOMAIN toClient'[p]
      PROVE  /\ \E b : toClient'[p][i] = b /\ ReplyOK(p, b)
             /\ WaitsForAck(p) \/ WaitsForExtAck(p) =>
                  (toClient'[p][i].type = ACK => i = Len(toClient'[p]))
  <2>1. PICK b : /\ b = toClient[p][i + 1]
                 /\ ReplyOK(p, b)
                 /\ WaitsForAck(p) \/ WaitsForExtAck(p) =>
                      (b.type = ACK => i + 1 = Len(toClient[p]))
    BY <1>1, <1>4 DEF RepliesOK
  <2>2. toClient'[p][i] = b /\ (i + 1 = Len(toClient[p]) => i = Len(toClient'[p]))
    BY <1>3, <2>1
  <2>. QED
    BY <2>1, <2>2
<1>. QED
  BY <1>2, <1>3, <1>5, <1>6, <1>7

\* A process that is exiting, and one that has an answer to its DISCOVER.
LEMMA RecvExitingMoves ==
  ASSUME Orderly, Inv, SessionInv, NEW p \in Procs, RecvWrongType(p) \/ RecvNoCase(p),
         UNCHANGED serverVars
  PROVE  Moved(p)
<1>1. p \in open /\ toClient[p] # << >> /\ toClient' = [toClient EXCEPT ![p] = Tail(@)]
  BY DEF RecvWrongType, RecvNoCase, Takes, Consume
<1>2. /\ p \in Procs /\ LoopsOK /\ BuffersOK /\ InFlightOK
      /\ (InUse(p) => toClient[p] = << >>)
  BY <1>1, Opened
<1>3. PICK m : m = Received(p)
  OBVIOUS
<1>4. /\ \A i \in DOMAIN toClient'[p] : \E b : toClient'[p][i] = b /\ ReplyOK(p, b)
      /\ \A q \in Procs : q # p => toClient'[q] = toClient[q]
  BY <1>1, <1>3, Took
<1>5. stat' = [stat EXCEPT ![p] = EXITING] /\ (age' = [age EXCEPT ![p] = 0] \/ age' = age)
  <2>1. CASE RecvWrongType(p)
    BY <2>1 DEF RecvWrongType
  <2>2. CASE RecvNoCase(p)
    <3>1. stat[p] = EXITING /\ stat' = stat /\ age' = age
      BY <1>1, <1>2, <2>2 DEF RecvNoCase, InUse
    <3>2. stat' = [stat EXCEPT ![p] = EXITING]
      BY <1>2, <3>1 DEF LoopsOK
    <3>. QED
      BY <3>1, <3>2
  <2>. QED
    BY <2>1, <2>2
<1>6. /\ dhcph_packet' = [dhcph_packet EXCEPT ![p] = m]
      /\ UNCHANGED <<toServer, use_ip_time, alarm, registered, open, ttl_flag>>
  BY <1>3 DEF RecvWrongType, RecvNoCase, Consume
<1>7. /\ stat'[p] = 6 /\ 6 # INIT
      /\ ~WaitsForOffer(p)' /\ ~WaitsForAck(p)' /\ ~WaitsForExtAck(p)' /\ ~InUse(p)'
  <2>1. stat'[p] = 6
    <3>1. stat'[p] = EXITING
      BY <1>2, <1>5 DEF LoopsOK
    <3>. QED
      BY <3>1, Numbers
  <2>. QED
    BY <2>1, StatesNext, Numbers
<1>8. Alters(p)
  BY <1>2, <1>4, <1>5, <1>6 DEF Alters, Same, LoopsOK, BuffersOK
<1>9. age[p] = 0 => age'[p] = 0
  BY <1>2, <1>5 DEF LoopsOK
<1>10. Persists(p)
  BY <1>1, <1>6, <1>7, <1>9 DEF Persists, SentOK
<1>11. QueueOK'
  BY <1>1, <1>6, <1>8, <1>10, QuietQueue
<1>12. BufferOK(p)' /\ HeldOK(p)'
  BY <1>7 DEF BufferOK, HeldOK, Holds
<1>13. RepliesOK(p)'
  <2>1. ASSUME NEW b, ReplyOK(p, b) PROVE ReplyOK(p, b)'
    BY <1>7, <2>1 DEF ReplyOK
  <2>2. ASSUME NEW i \in DOMAIN toClient'[p] PROVE ReplyOK(p, toClient[p][i])'
    <3>1. PICK b : toClient'[p][i] = b /\ ReplyOK(p, b)
      BY <1>4
    <3>2. ReplyOK(p, b)'
      BY <2>1, <3>1
    <3>. QED
      BY <3>1, <3>2
  <2>. QED
    BY <1>7, <2>2 DEF RepliesOK
<1>. QED
  BY <1>1, <1>6, <1>7, <1>8, <1>11, <1>12, <1>13 DEF Moved, ClientOK

LEMMA RecvOfferMoves ==
  ASSUME Orderly, Inv, SessionInv, NEW p \in Procs, RecvOffer(p), UNCHANGED serverVars
  PROVE  Moved(p)
<1>1. p \in open /\ toClient[p] # << >> /\ toClient' = [toClient EXCEPT ![p] = Tail(@)]
  BY DEF RecvOffer, Takes, Consume
<1>2. /\ LoopsOK /\ BuffersOK /\ InFlightOK
      /\ \A q \in open : HostOf[q] = HostOf[p] => q = p
  BY <1>1, Opened
<1>3. PICK m, n : m = Received(p) /\ n = Accept(m)
  OBVIOUS
<1>4. /\ m \in Fields /\ ReplyOK(p, m)
      /\ \A i \in DOMAIN toClient'[p] : \E b : toClient'[p][i] = b /\ ReplyOK(p, b)
      /\ \A q \in Procs : q # p => toClient'[q] = toClient[q]
  BY <1>1, <1>3, Took
<1>5. /\ WaitsForOffer(p) /\ m.type = OFFER /\ m.code = OfferOk
      /\ use_ip_time' = [use_ip_time EXCEPT ![p] = Ntohs(m.ttl)]
      /\ stat' = [stat EXCEPT ![p] = WAIT_ACK]
      /\ dhcph_packet' = [dhcph_packet EXCEPT ![p] = n]
      /\ age' = [age EXCEPT ![p] = 0]
      /\ toServer' = Sent(p, n)
      /\ UNCHANGED <<open, alarm, registered, ttl_flag>>
  BY <1>3 DEF RecvOffer, Send, Consume
<1>6. m.ttl = Htons(UseIpTime) /\ Ntohs(m.ttl) = UseIpTime
  <2>1. m.ttl = Htons(UseIpTime)
    BY <1>4, <1>5 DEF ReplyOK
  <2>2. Srv!Uint16 = Uint16 /\ \A k : Srv!Ntohs(Srv!Htons(k)) = Ntohs(Htons(k))
    BY DEF Srv!Uint16, Uint16, Srv!MaxUint16, MaxUint16, Srv!Ntohs, Ntohs, Srv!Htons, Htons
  <2>3. Ntohs(Htons(UseIpTime)) = UseIpTime
    BY <2>2, Srv!HtonsTwice, DhcpAssumption, ServerAssumed, NetAssumption
       DEF Srv!ServerAssumption
  <2>. QED
    BY <2>1, <2>3
<1>7. /\ n.type = REQUEST /\ n.code = RequestAlloc /\ n.ttl = Htons(UseIpTime)
      /\ REQUEST # RELEASE /\ REQUEST # DISCOVER
  BY <1>3, <1>4, <1>6, MessageTypes DEF Accept, Fields
<1>8. /\ stat'[p] = 3 /\ dhcph_packet'[p] = n /\ age'[p] = 0 /\ use_ip_time'[p] = UseIpTime
      /\ p \in open'
  <2>1. /\ stat'[p] = WAIT_ACK /\ dhcph_packet'[p] = n /\ age'[p] = 0
        /\ use_ip_time'[p] = UseIpTime
    BY <1>2, <1>5, <1>6 DEF LoopsOK, BuffersOK
  <2>2. WAIT_ACK = 3
    BY Numbers
  <2>. QED
    BY <1>1, <1>5, <2>1, <2>2
<1>9. /\ ~WaitsForOffer(p)' /\ WaitsForAck(p)' /\ ~InUse(p)' /\ ~WaitsForExtAck(p)'
      /\ stat'[p] # INIT
  BY <1>8, StatesNext, Numbers
<1>10. Alters(p)
  BY <1>2, <1>4, <1>5 DEF Alters, Same, LoopsOK, BuffersOK
<1>11. \A b : SentOK(p, b) => b.type = DISCOVER /\ SentOK(p, b)'
  BY <1>1, <1>5, <1>8, <1>9 DEF SentOK
<1>12. SentOK(p, n)'
  BY <1>7, <1>8, <1>9 DEF SentOK
<1>13. BufferOK(p)'
  BY <1>7, <1>8, <1>9 DEF BufferOK, Holds
<1>14. RepliesOK(p)'
  <2>1. ASSUME NEW b, ReplyOK(p, b) PROVE ReplyOK(p, b)' /\ b.type # ACK
    <3>1. b.type = OFFER /\ OFFER # ACK
      BY <1>5, <2>1, MessageTypes DEF ReplyOK
    <3>. QED
      BY <1>9, <2>1, <3>1 DEF ReplyOK, Granted
  <2>2. ASSUME NEW i \in DOMAIN toClient'[p]
        PROVE  ReplyOK(p, toClient[p][i])' /\ toClient'[p][i].type # ACK
    <3>1. PICK b : toClient'[p][i] = b /\ ReplyOK(p, b)
      BY <1>4
    <3>2. ReplyOK(p, b)' /\ b.type # ACK
      BY <2>1, <3>1
    <3>. QED
      BY <3>1, <3>2
  <2>. QED
    BY <2>2 DEF RepliesOK
<1>15. HeldOK(p)'
  BY <1>9 DEF HeldOK, Holds
<1>. QED
  BY <1>1, <1>2, <1>5, <1>7, <1>8, <1>9, <1>10, <1>11, <1>12, <1>13, <1>14, <1>15, Spoken
     DEF ClientOK, Persists

LEMMA RecvAckMoves ==
  ASSUME Orderly, Inv, SessionInv, NEW p \in Procs, RecvAck(p), UNCHANGED serverVars
  PROVE  Moved(p)
<1>1. p \in open /\ toClient[p] # << >> /\ toClient' = [toClient EXCEPT ![p] = Tail(@)]
  BY DEF RecvAck, Takes, Consume
<1>2. /\ LoopsOK /\ BuffersOK /\ BufferOK(p) /\ HeldOK(p)
  BY <1>1, Opened
<1>3. PICK m : m = Received(p)
  OBVIOUS
<1>4. /\ WaitsForAck(p) \/ WaitsForExtAck(p)
      /\ m.type = ACK /\ m.code = AckOk
      /\ alarm' = [alarm EXCEPT ![p] = HalfTime(p)]
      /\ registered' = [registered EXCEPT ![p] = @ \/ WaitsForAck(p)]
      /\ stat' = [stat EXCEPT ![p] = IN_USE]
      /\ dhcph_packet' = [dhcph_packet EXCEPT ![p] = m]
      /\ age' = [age EXCEPT ![p] = 0]
      /\ UNCHANGED <<toServer, use_ip_time, open, ttl_flag>>
  BY <1>3 DEF RecvAck, Consume
<1>5. /\ m \in Fields /\ ReplyOK(p, m) /\ toClient'[p] = << >>
      /\ \A q \in Procs : q # p => toClient'[q] = toClient[q]
  BY <1>1, <1>3, <1>4, Took
<1>6. PICK h, a, k : h = HostOf[p] /\ a = m.address /\ k = m.netmask
  OBVIOUS
<1>7. /\ HasLease(h, a, k, UseIpTime - 1)
      /\ None(p) /\ OnlyLeases(h, Addrs)
      /\ m.ttl = Htons(UseIpTime)
  BY <1>4, <1>5, <1>6 DEF ReplyOK, Granted
<1>8. UseIpTime >= 2 /\ use_ip_time[p] = UseIpTime
  BY <1>2, <1>4 DEF Orderly, BufferOK, Holds
<1>9. HalfTime(p) = UseIpTime \div 2
  BY <1>8, HalfType DEF HalfTime
<1>10. /\ stat'[p] = 4 /\ dhcph_packet'[p] = m
       /\ alarm'[p] = UseIpTime \div 2
       /\ use_ip_time'[p] = UseIpTime /\ p \in open'
  <2>1. stat'[p] = IN_USE /\ dhcph_packet'[p] = m /\ alarm'[p] = UseIpTime \div 2
    BY <1>2, <1>4, <1>9 DEF LoopsOK, BuffersOK
  <2>2. IN_USE = 4
    BY Numbers
  <2>. QED
    BY <1>1, <1>4, <1>8, <2>1, <2>2
<1>11. registered'[p]
  <2>1. registered[p] \/ WaitsForAck(p)
    BY <1>2, <1>4 DEF HeldOK, Holds
  <2>2. registered'[p] = (registered[p] \/ WaitsForAck(p))
    BY <1>2, <1>4 DEF LoopsOK
  <2>. QED
    BY <2>1, <2>2
<1>12. /\ ~WaitsForOffer(p)' /\ ~WaitsForAck(p)' /\ InUse(p)' /\ ~WaitsForExtAck(p)'
       /\ stat'[p] # INIT
  BY <1>10, StatesNext, Numbers
<1>13. Alters(p)
  BY <1>2, <1>4, <1>5 DEF Alters, Same, LoopsOK, BuffersOK
<1>14. QueueOK'
  BY <1>1, <1>4, <1>7, <1>13, QuietQueue DEF Persists
<1>15. RepliesOK(p)'
  BY <1>5 DEF RepliesOK
<1>16. BufferOK(p)'
  BY <1>7, <1>10, <1>12 DEF BufferOK
<1>17. HeldOK(p)'
  <2>1. HasLease(h, a, k, Half + IF ttl_flag[p] THEN 0 ELSE UseIpTime \div 2)
    BY <1>7, <1>8, HalfType, LeaseShorter
  <2>2. /\ HasLease(h, a, k, Half + IF ttl_flag[p] THEN 0 ELSE UseIpTime \div 2)'
        /\ OnlyLeases(h, Addrs)'
    <3>1. PICK j : j = Half + IF ttl_flag[p] THEN 0 ELSE UseIpTime \div 2
      OBVIOUS
    <3>2. HasLease(h, a, k, j)'
      BY <2>1, <3>1, ServerUntouched
    <3>3. j = (Half + IF ttl_flag[p] THEN 0 ELSE UseIpTime \div 2)'
      BY <1>4, <3>1 DEF Half
    <3>. QED
      BY <1>7, <3>2, <3>3, ServerUntouched
  <2>3. None(p)'
    BY <1>4, <1>7 DEF None
  <2>4. alarm'[p] \in 0 .. UseIpTime \div 2
    BY <1>8, <1>10, HalfType
  <2>5. HasLease(HostOf[p], dhcph_packet[p].address, dhcph_packet[p].netmask,
                 Half + IF ttl_flag[p] THEN 0 ELSE alarm[p])'
    BY <1>4, <1>6, <1>10, <2>2
  <2>. QED
    BY <1>6, <1>11, <1>12, <2>2, <2>3, <2>4, <2>5 DEF HeldOK, Holds
<1>. QED
  BY <1>1, <1>4, <1>10, <1>12, <1>13, <1>14, <1>15, <1>16, <1>17 DEF Moved, ClientOK

LEMMA FlagMoves ==
  ASSUME Orderly, Inv, SessionInv, NEW p \in Procs, UNCHANGED serverVars,
         Proceed(p) \/ NothingToRecv(p) \/ Hangup(p) \/ ClientAlarm(p)
  PROVE  Moved(p)
<1>1. LoopsOK
  BY Types
<1>2. CASE Proceed(p)
  <2>1. p \in open /\ (~InUse(p) \/ (~ttl_flag[p] /\ ~ttl_flag'[p]))
    BY <1>1, <1>2 DEF Proceed, AtFlags, WantsExtension, InUse, LoopsOK
  <2>2. \A q \in Procs : q # p => alarm'[q] = alarm[q] /\ ttl_flag'[q] = ttl_flag[q]
    BY <1>1, <1>2 DEF Proceed, LoopsOK
  <2>. QED
    BY <1>2, <2>1, <2>2, QuietMoves DEF Proceed
<1>3. CASE NothingToRecv(p) \/ Hangup(p)
  <2>1. /\ p \in open
        /\ UNCHANGED <<toServer, toClient, open, stat, dhcph_packet, use_ip_time, age, registered,
                       serverVars>>
        /\ alarm' = alarm /\ ttl_flag' = ttl_flag
    BY <1>3 DEF NothingToRecv, Hangup, queueVars
  <2>2. \A q \in Procs : q # p => alarm'[q] = alarm[q] /\ ttl_flag'[q] = ttl_flag[q]
    BY <2>1
  <2>3. /\ UNCHANGED alarm
        /\ ttl_flag' = ttl_flag \/ ~InUse(p) \/ (~ttl_flag[p] /\ ~ttl_flag'[p])
    BY <2>1
  <2>. QED
    BY <2>1, <2>2, <2>3, QuietMoves
<1>4. CASE ClientAlarm(p)
  <2>1. CASE p \notin open
    BY <1>4, <2>1, StrayAlarm
  <2>2. CASE p \in open
    <3>1. /\ ttl_flag'[p]
          /\ \A q \in Procs : q # p => alarm'[q] = alarm[q] /\ ttl_flag'[q] = ttl_flag[q]
      BY <1>1, <1>4 DEF ClientAlarm, LoopsOK
    <3>. QED
      BY <1>4, <2>2, <3>1, QuietMoves DEF ClientAlarm, queueVars
  <2>. QED
    BY <2>1, <2>2
<1>. QED
  BY <1>2, <1>3, <1>4

LEMMA ClientMoves ==
  ASSUME Orderly, Inv, SessionInv, NEW p \in Procs,
         StartAct(p) \/ ClientAct(p) \/ AlarmAct(p) \/ HangupAct(p) \/ KillAct(p)
  PROVE  Moved(p)
BY StartMoves, ResendMoves, ExitMoves, ExtendMoves, RecvOfferMoves, RecvAckMoves,
   RecvExitingMoves, FlagMoves
   DEF ClientAct, ClientStep, AlarmAct, HangupAct, KillAct

LEMMA SessionClient ==
  ASSUME Orderly, Inv, Inv', SessionInv, NEW p \in Procs,
         StartAct(p) \/ ClientAct(p) \/ AlarmAct(p) \/ HangupAct(p) \/ KillAct(p)
  PROVE  SessionInv'
<1>1. Moved(p)
  BY ClientMoves
<1>2. \/ \A q \in open : HostOf[q] = HostOf[p] => q = p
      \/ toServer' = toServer /\ p \notin open'
  <2>1. CASE p \in open
    BY <2>1, Opened
  <2>2. CASE StartAct(p)
    BY <2>2 DEF StartAct, Orderly
  <2>3. CASE p \notin open /\ ClientAlarm(p)
    BY <2>3 DEF ClientAlarm, queueVars
  <2>. QED
    BY <2>1, <2>2, <2>3
       DEF ClientAct, ClientStep, AlarmAct, HangupAct, KillAct, Resend, GiveUp, Extend,
           ExtendAndExit, ReleaseAndExit, Proceed, AtFlags, RecvOffer, RecvAck, RecvRefusal,
           RecvWrongType, RecvNoCase, NothingToRecv, Takes, Hangup, KilledByHangup
<1>. QED
  BY <1>1, <1>2, OneClient DEF Moved

LEMMA SessionInit == ASSUME Init PROVE SessionInv
<1>1. /\ toServer = << >> /\ open = {} /\ clients = << >> /\ spc = "top"
      /\ server_ttl_flag = FALSE
      /\ \A p \in Procs : stat[p] = INIT /\ toClient[p] = << >>
  BY DEF Init, NetInit, ClientInit, Server!ServerInit
<1>2. Srv!OneTick /\ Srv!RecordsOK
  BY <1>1 DEF Srv!OneTick, Srv!RecordsOK
<1>3. OpenOK
  BY <1>1 DEF OpenOK
<1>4. QueueOK
  BY <1>1 DEF QueueOK, OrderOK, RequestsOK, ReleasesOK
<1>. QED
  BY <1>1, <1>2, <1>3, <1>4 DEF SessionInv

LEMMA SessionNext ==
  ASSUME Orderly, Inv, Inv', SessionInv, [Next]_vars PROVE SessionInv'
<1>1. ASSUME ServerAct \/ ServerAlarm PROVE SessionInv'
  BY <1>1, ServerSteps, ServerPass, ServerRecv
<1>2. CASE Tick
  BY <1>2, TickStep
<1>3. CASE Network /\ UNCHANGED <<clientVars, serverVars>>
  BY <1>3, NetworkStep
<1>4. CASE UNCHANGED vars
  <2>1. UNCHANGED <<serverVars, clientVars, queueVars>>
    BY <1>4 DEF vars, netVars
  <2>2. /\ Srv!OneTick' /\ Srv!RecordsOK'
        /\ \A h, a, m, k : HasLease(h, a, m, k)' <=> HasLease(h, a, m, k)
        /\ \A h, A : OnlyLeases(h, A)' <=> OnlyLeases(h, A)
    BY <2>1, ServerUntouched DEF SessionInv
  <2>3. SessionInv' <=> SessionInv
    BY <2>1
       DEF SessionInv, serverVars, clientVars, queueVars, Srv!OneTick, Srv!RecordsOK, OpenOK,
           QueueOK, OrderOK, InOrder, RequestsOK, SentOK, ReleasesOK, OnlyLeases,
           Srv!OnlyLeases, ClientOK, RepliesOK, ReplyOK, BufferOK, HeldOK, Holds, InUse, None,
           Half, HasLease, Srv!LeaseLasts, Srv!Pending,
           WaitsForOffer, WaitsForAck, WaitsForExtAck
  <2>. QED
    BY <2>3
<1>. QED
  BY <1>1, <1>2, <1>3, <1>4, SessionClient DEF Next

\* Where no second passes while a datagram waits and no host runs two clients,
\* every step of the system keeps what client and server believe of each other.
LEMMA SessionAlways == ASSUME Orderly PROVE Spec => []SessionInv
<1>1. Init => SessionInv
  BY SessionInit
<1>2. SessionInv /\ Inv /\ Inv' /\ [Next]_vars => SessionInv'
  BY SessionNext
<1>. QED
  BY <1>1, <1>2, Invariance, PTL DEF Spec

\* A client whose loop (mydhcpc.c:116-177) is in IN_USE has the address by a
\* record of the server (mydhcpd.c:188-564) that is its host's, is IN_USE and
\* has time left: the server never gives away an address that is being used
\* by a client that is not asking for more time.
THEOREM InUseLeased == ASSUME Orderly PROVE Spec => []InUseIsLeased
BY SessionAlways, InUseFollows, PTL

-----------------------------------------------------------------------------
\* The extension: how long a client waits, and for what.

\* Seconds since the client first asked for the extension.
Waited(p) == IF stat[p] = WAIT_EXT_ACK THEN age[p] ELSE Timeout + age[p]

\* The request or the answer is on its way.
Talking(p) == ~None(p) \/ toClient[p] # << >>

\* The buffers hold all that is in flight when each process has at most a
\* DISCOVER and one more datagram there.
Room == IsFiniteSet(Procs) /\ QueueCap >= 2 * Cardinality(Procs)

\* The lease outlasts the request and its repeat, or the repeat is answered.
OneLoss == Room /\ MaxLost <= 1 /\ (MaxLost = 1 => Timeout <= Half)
InTime == 2 * Timeout <= Half \/ OneLoss

\* The lease of a client that waits for its extension still lasts, for what
\* was left at half time less the time it has waited.
KeptOK(p) ==
  WaitsForExtAck(p) =>
    /\ Waited(p) <= Half
    /\ HasLease(HostOf[p], dhcph_packet[p].address, dhcph_packet[p].netmask, Half - Waited(p))

\* A client that hears nothing has lost a datagram; two, after its second try.
LossOK(p) ==
  /\ stat[p] = WAIT_EXT_ACK => Talking(p) \/ lost >= 1
  /\ stat[p] = WAIT_EXT_ACK_AGAIN => lost >= 1 /\ (Talking(p) \/ lost >= 2)

ExtensionOK(p) == KeptOK(p) /\ (Room => LossOK(p))
ExtensionInv == \A p \in open : ExtensionOK(p)

LEMMA WaitedType ==
  ASSUME Inv, UseIpTime >= 2, NEW p \in Procs
  PROVE  /\ Waited(p) \in Nat /\ Half \in Nat /\ UseIpTime \in Nat /\ Timeout \in Nat
         /\ Half < UseIpTime
<1>1. age[p] \in 0 .. Timeout
  BY Types DEF LoopsOK
<1>2. /\ Half \in Nat /\ UseIpTime \in Nat /\ UseIpTime \div 2 \in Nat
      /\ Half + UseIpTime \div 2 = UseIpTime - 1
  BY HalfType
<1>3. Waited(p) \in Nat /\ Timeout \in Nat
  BY <1>1, NetAssumption DEF Waited
<1>. QED
  BY <1>2, <1>3

LEMMA LostType == ASSUME Inv PROVE lost \in 0 .. MaxLost /\ lost \in Nat
<1>1. lost \in 0 .. MaxLost
  BY DEF Inv, Srv!IInv, Srv!TypeOK, Srv!NetTypeOK
<1>. QED
  BY <1>1, NetAssumption

\* Nothing has happened to a client that waits for the answer.
LEMMA ExtensionLeft ==
  ASSUME UseIpTime >= 2, Inv, Inv', NEW q \in Procs, ExtensionOK(q),
         WaitsForExtAck(q) => LeasesKept(HostOf[q]),
         stat'[q] = stat[q], age'[q] = age[q], dhcph_packet'[q] = dhcph_packet[q],
         Room /\ WaitsForExtAck(q) /\ Talking(q) => Talking(q)' \/ lost' > lost, lost' >= lost
  PROVE  ExtensionOK(q)'
<1>1. KeptOK(q)'
  <2>. SUFFICES ASSUME WaitsForExtAck(q)
                PROVE  (/\ Waited(q) <= Half
                        /\ HasLease(HostOf[q], dhcph_packet[q].address, dhcph_packet[q].netmask,
                                    Half - Waited(q)))'
    BY SameStates DEF KeptOK
  <2>1. PICK a, m, k : /\ a = dhcph_packet[q].address
                       /\ m = dhcph_packet[q].netmask
                       /\ k = Half - Waited(q)
                       /\ HasLease(HostOf[q], a, m, k)
                       /\ Waited(q) <= Half
    BY DEF ExtensionOK, KeptOK
  <2>2. k \in Nat /\ k < UseIpTime
    BY <2>1, WaitedType
  <2>3. HasLease(HostOf[q], a, m, k)'
    BY <2>1, <2>2 DEF LeasesKept
  <2>4. Waited(q)' = Waited(q) /\ Half' = Half
    BY DEF Waited, Half
  <2>. QED
    BY <2>1, <2>3, <2>4
<1>2. ASSUME Room, LossOK(q) PROVE LossOK(q)'
  <2>1. lost \in Nat /\ lost' \in Nat
    BY LostType DEF Inv, Srv!IInv, Srv!TypeOK, Srv!NetTypeOK
  <2>2. stat[q] \in {WAIT_EXT_ACK, WAIT_EXT_ACK_AGAIN} <=> WaitsForExtAck(q)
    BY DEF WaitsForExtAck
  <2>. QED
    BY <1>2, <2>1, <2>2 DEF LossOK
<1>. QED
  BY <1>1, <1>2 DEF ExtensionOK, Room

LEMMA ExtensionPass ==
  ASSUME Orderly, Inv, Inv', SessionInv, ExtensionInv, Pass, UNCHANGED clientVars
  PROVE  ExtensionInv'
<1>1. /\ UNCHANGED <<toServer, open, lost>>
      /\ \A h, a, m : \A k \in Nat : HasLease(h, a, m, k) => HasLease(h, a, m, k)'
      /\ \A h, A : OnlyLeases(h, A) => OnlyLeases(h, A)'
      /\ toClient' = toClient \/ \E mail : Repeats(mail)
  BY PassKeeps DEF SessionInv
<1>2. ASSUME NEW q \in open PROVE ExtensionOK(q)'
  <2>1. q \in Procs /\ toClient[q] \in Seq(Fields)
    BY Types
  <2>2. toClient'[q] = toClient[q] \/ \E m : toClient'[q] = Append(toClient[q], m)
    BY <1>1, <2>1 DEF Repeats, Delivered, Enqueue
  <2>3. toClient[q] # << >> => toClient'[q] # << >>
    BY <2>1, <2>2
  <2>4. Talking(q) => Talking(q)'
    BY <1>1, <2>3 DEF Talking, None
  <2>5. lost' >= lost /\ UseIpTime >= 2
    BY <1>1, LostType DEF Orderly
  <2>6. LeasesKept(HostOf[q])
    BY <1>1 DEF LeasesKept
  <2>. QED
    BY <2>1, <2>4, <2>5, <2>6, ExtensionLeft DEF ExtensionInv, clientVars
<1>. QED
  BY <1>1, <1>2 DEF ExtensionInv

LEMMA ExtensionTick ==
  ASSUME Orderly, InTime, Inv, Inv', SessionInv, ExtensionInv, Tick
  PROVE  ExtensionInv'
<1>1. /\ \A h, a, m : \A k \in Nat : HasLease(h, a, m, k + 1) => HasLease(h, a, m, k)'
  BY TickKeepsLeases DEF SessionInv, Orderly
<1>2. /\ toServer' = << >> /\ toServer = << >> /\ open' = open /\ toClient' = toClient
      /\ \A p \in open : toClient[p] = << >> /\ ~Due(p)
      /\ UNCHANGED <<stat, dhcph_packet, lost>>
      /\ age' = [p \in Procs |->
                   IF (WaitsFirst(p) \/ WaitsAgain(p)) /\ age[p] < Timeout
                     THEN age[p] + 1 ELSE age[p]]
  BY Types DEF Tick, ServerSettled, Settled, Orderly, ClientTick, netVars, queueVars, faultVars
<1>3. ASSUME NEW q \in open PROVE ExtensionOK(q)'
  <2>1. q \in Procs /\ ExtensionOK(q)
    BY Types DEF ExtensionInv
  <2>2. ~Talking(q)
    BY <1>2 DEF Talking, None
  <2>3. Room => LossOK(q)'
    BY <1>2, <2>1, <2>2 DEF ExtensionOK, LossOK
  <2>4. ASSUME WaitsForExtAck(q)
        PROVE  (/\ Waited(q) <= Half
                /\ HasLease(HostOf[q], dhcph_packet[q].address, dhcph_packet[q].netmask,
                            Half - Waited(q)))'
    <3>1. PICK a, m, k : /\ a = dhcph_packet[q].address
                         /\ m = dhcph_packet[q].netmask
                         /\ k = Half - Waited(q)
                         /\ HasLease(HostOf[q], a, m, k)
                         /\ Waited(q) <= Half
      BY <2>1, <2>4 DEF ExtensionOK, KeptOK
    <3>2. stat[q] \in {5, 7} /\ WAIT_EXT_ACK = 5 /\ WAIT_EXT_ACK_AGAIN = 7
      BY <2>4, States, Numbers
    <3>3. WaitsFirst(q) \/ WaitsAgain(q)
      <4>1. stat[q] = 5 => WaitsFirst(q)
        BY Waiting
      <4>2. stat[q] = 7 => WaitsAgain(q)
        BY AgainOfType DEF WaitsAgain, Range
      <4>. QED
        BY <3>2, <4>1, <4>2
    <3>4. age[q] \in Nat /\ age[q] < Timeout /\ Timeout \in Nat
      BY <1>2, <2>1, <3>3, Types, NetAssumption DEF Due, TimedOut, LoopsOK
    <3>5. age'[q] = age[q] + 1
      BY <1>2, <2>1, <3>3, <3>4
    <3>6. Waited(q)' = Waited(q) + 1
      BY <1>2, <3>4, <3>5 DEF Waited
    <3>7. Waited(q) \in Nat /\ Half \in Nat /\ Half < UseIpTime
      BY <2>1, WaitedType DEF Orderly
    <3>8. Waited(q) + 1 <= Half
      <4>1. CASE 2 * Timeout <= Half
        BY <3>4, <3>7, <4>1 DEF Waited
      <4>2. CASE OneLoss
        <5>1. lost \in 0 .. MaxLost /\ MaxLost \in Nat /\ MaxLost <= 1
          BY <4>2, LostType, NetAssumption DEF OneLoss
        <5>2. stat[q] = 5 /\ lost >= 1
          BY <2>1, <2>2, <3>2, <4>2, <5>1 DEF ExtensionOK, LossOK, OneLoss
        <5>3. Timeout <= Half
          BY <4>2, <5>1, <5>2 DEF OneLoss
        <5>. QED
          BY <3>2, <3>4, <3>7, <5>2, <5>3 DEF Waited
      <4>. QED
        BY <4>1, <4>2 DEF InTime
    <3>9. k - 1 \in Nat /\ (k - 1) + 1 = k /\ k - 1 = Half - (Waited(q) + 1)
      BY <3>1, <3>7, <3>8
    <3>10. HasLease(HostOf[q], a, m, k - 1)'
      BY <1>1, <3>1, <3>9
    <3>11. Half' = Half
      BY DEF Half
    <3>. QED
      BY <1>2, <3>1, <3>6, <3>8, <3>9, <3>10, <3>11
  <2>5. KeptOK(q)'
    BY <1>2, <2>4, SameStates DEF KeptOK
  <2>. QED
    BY <2>3, <2>5 DEF ExtensionOK, Room
<1>. QED
  BY <1>2, <1>3 DEF ExtensionInv

LEMMA ExtensionNetwork ==
  ASSUME Orderly, Inv, Inv', SessionInv, ExtensionInv, Network,
         UNCHANGED <<clientVars, serverVars>>
  PROVE  ExtensionInv'
<1>1. LoseRequest \/ LoseReply
  <2>1. dup \in 0 .. 0
    BY DEF Inv, Srv!IInv, Srv!TypeOK, Srv!NetTypeOK, Orderly
  <2>. QED
    BY <2>1 DEF Network, DuplicateRequest, DuplicateReply, Orderly
<1>2. open' = open /\ lost' = lost + 1
  BY <1>1 DEF LoseRequest, LoseReply
<1>3. \A h : LeasesKept(h)
  BY ServerUntouched DEF LeasesKept
<1>4. ASSUME NEW q \in open PROVE ExtensionOK(q)'
  <2>1. q \in Procs /\ UseIpTime >= 2 /\ lost' > lost /\ lost' >= lost
    BY <1>2, LostType, Types DEF Orderly
  <2>. QED
    BY <1>3, <2>1, ExtensionLeft DEF ExtensionInv, clientVars
<1>. QED
  BY <1>2, <1>4 DEF ExtensionInv

\* The server answers the request for an extension.
LEMMA ExtensionRecv ==
  ASSUME Orderly, Inv, Inv', SessionInv, ExtensionInv, Srv!Recv, UNCHANGED clientVars
  PROVE  ExtensionInv'
<1>1. PICK d : d = Head(toServer)
  OBVIOUS
<1>2. toServer # << >> /\ toServer' = Tail(toServer)
  BY DEF Srv!Recv
<1>3. /\ d \in Requests
      /\ d = toServer[1]
      /\ 1 \in DOMAIN toServer
      /\ \A i \in DOMAIN toServer : i # 1 => /\ i - 1 \in DOMAIN toServer'
                                             /\ toServer'[i - 1] = toServer[i]
  <2>1. toServer \in Seq(Requests)
    BY Types
  <2>. QED
    BY <1>1, <1>2, <2>1
<1>4. SentOK(d.from, d.pkt)
  BY <1>3 DEF SessionInv, QueueOK, RequestsOK
<1>5. Fair(d)
  BY <1>3, <1>4 DEF Fair, SentOK, SessionInv, QueueOK, ReleasesOK
<1>6. /\ UNCHANGED <<open, lost>>
      /\ \A h, a, m : \A k \in Nat :
           HasLease(h, a, m, k) /\ k < UseIpTime
             /\ (d.pkt.type = RELEASE => HostOf[d.from] # h) => HasLease(h, a, m, k)'
      /\ \A h, A : OnlyLeases(h, A) /\ (d.pkt.type = DISCOVER => HostOf[d.from] # h) =>
           OnlyLeases(h, A)'
      /\ toClient' = toClient
           \/ \E m : toClient' = Delivered(Mail(d.from, m)) /\ (OfferTo(d, m) \/ AckTo(d, m))
  BY <1>1, <1>5, RecvKeeps DEF SessionInv
<1>7. ASSUME NEW q \in open PROVE ExtensionOK(q)'
  <2>1. /\ q \in Procs /\ ClientOK(q) /\ ExtensionOK(q) /\ toClient[q] \in Seq(Fields)
        /\ UseIpTime >= 2 /\ lost' >= lost
    BY <1>6, Types, LostType DEF SessionInv, ExtensionInv, Orderly
  <2>2. WaitsForExtAck(q) /\ HostOf[d.from] = HostOf[q] =>
          /\ d.from = q /\ d.pkt = dhcph_packet[q]
          /\ d.pkt.type = REQUEST /\ d.pkt.code = RequestExt /\ d.pkt.ttl = Htons(UseIpTime)
    BY <1>3, <1>4, <2>1 DEF ClientOK, HeldOK, BufferOK, SentOK, Holds
  <2>3. WaitsForExtAck(q) => LeasesKept(HostOf[q])
    BY <1>6, <2>2, MessageTypes DEF LeasesKept
  <2>4. ASSUME WaitsForExtAck(q), Talking(q) PROVE Talking(q)'
    <3>1. CASE toClient[q] # << >>
      <4>1. toClient'[q] = toClient[q] \/ \E m : toClient'[q] = Append(toClient[q], m)
        BY <1>6, <2>1 DEF Delivered, Enqueue
      <4>2. toClient'[q] # << >>
        BY <2>1, <3>1, <4>1
      <4>. QED
        BY <4>2 DEF Talking
    <3>2. CASE HostOf[d.from] # HostOf[q]
      <4>1. None(q)' => None(q)
        BY <1>3, <3>2 DEF None
      <4>2. toClient'[q] = toClient[q]
        BY <1>6, <2>1, <3>2 DEF Delivered, Mail
      <4>. QED
        BY <2>4, <4>1, <4>2 DEF Talking
    <3>3. CASE HostOf[d.from] = HostOf[q] /\ toClient[q] = << >>
      <4>1. Srv!IInv /\ Srv!RecordsOK /\ Srv!Handle(d) /\ d \in Srv!Datagrams
        <5>1. Fields \subseteq Packets /\ ClientSends \subseteq Fields
          BY FieldsArePackets, SendsAreFields
        <5>2. Srv!Packets = Packets
          BY SamePackets
        <5>3. d \in Srv!Datagrams
          BY <1>3, <5>1, <5>2 DEF Requests, Srv!Datagrams
        <5>. QED
          BY <1>1, <5>3 DEF Inv, SessionInv, Srv!Recv
      <4>2. PICK k : k = Half - Waited(q) /\ k \in Nat
        BY <2>1, <2>4, WaitedType DEF ExtensionOK, KeptOK
      <4>3. Srv!LeaseLasts(HostOf[d.from], d.pkt.address, d.pkt.netmask, k)
        BY <2>1, <2>2, <2>4, <3>3, <4>2 DEF ExtensionOK, KeptOK, HasLease
      <4>4. /\ d.pkt.type = Srv!REQUEST /\ d.pkt.code = Srv!RequestExt
            /\ d.pkt.ttl = Srv!Htons(UseIpTime)
        BY <2>2, <2>4, <3>3, SameMessages
      <4>5. Srv!ExtendLease(d)
        BY <4>1, <4>2, <4>3, <4>4, Srv!ExtensionGranted, ServerAssumed, NetAssumption
           DEF Srv!ServerAssumption
      <4>6. PICK m : toClient' = Srv!Delivered(Srv!Mail(d.from, m))
        BY <4>5 DEF Srv!ExtendLease, Srv!Reply
      <4>7. toClient'[q] = Append(toClient[q], m)
        <5>1. toClient' = Delivered(Mail(q, m)) /\ q \in DOMAIN Mail(q, m) /\ Mail(q, m)[q] = m
          BY <2>2, <2>4, <3>3, <4>6, SameMessages DEF Mail
        <5>2. toClient'[q] = Enqueue(toClient[q], m)
          BY <2>1, <5>1 DEF Delivered
        <5>3. Len(toClient[q]) < QueueCap
          BY <3>3, NetAssumption
        <5>. QED
          BY <5>2, <5>3 DEF Enqueue
      <4>8. toClient'[q] # << >>
        BY <3>3, <4>7
      <4>. QED
        BY <4>8 DEF Talking
    <3>. QED
      BY <3>1, <3>2, <3>3
  <2>. QED
    BY <2>1, <2>3, <2>4, ExtensionLeft DEF clientVars
<1>. QED
  BY <1>6, <1>7 DEF ExtensionInv

-----------------------------------------------------------------------------
\* The steps of the client that waits, and the room for its requests.

\* Whoever has nothing in flight finds room for a datagram.
LEMMA RoomLeft ==
  ASSUME Inv, SessionInv, Room, NEW p \in Procs, None(p)
  PROVE  Len(toServer) < QueueCap
<1>. DEFINE I == 1 .. Len(toServer)
            J == (Procs \ {p}) \X (0 .. 1)
            Kind(d) == IF d.pkt.type = DISCOVER THEN 0 ELSE 1
            f == [i \in I |-> <<toServer[i].from, Kind(toServer[i])>>]
<1>1. Len(toServer) \in Nat /\ DOMAIN toServer = I /\ \A i \in I : toServer[i] \in Requests
  <2>1. toServer \in Seq(Requests)
    BY Types
  <2>. QED
    BY <2>1
<1>2. \A i \in I : toServer[i].from \in Procs \ {p}
  BY <1>1, Types DEF None
<1>3. f \in Injection(I, J)
  <2>1. f \in [I -> J]
    BY <1>2
  <2>2. ASSUME NEW i \in I, NEW j \in I, f[i] = f[j], i < j PROVE FALSE
    <3>1. InOrder(toServer[i], toServer[j])
      BY <1>1, <2>2 DEF SessionInv, QueueOK, OrderOK
    <3>2. toServer[i].from = toServer[j].from /\ Kind(toServer[i]) = Kind(toServer[j])
      BY <2>2
    <3>. QED
      BY <3>1, <3>2 DEF InOrder
  <2>3. ASSUME NEW i \in I, NEW j \in I, f[i] = f[j] PROVE i = j
    <3>1. i < j \/ j < i \/ i = j
      BY <1>1
    <3>. QED
      BY <2>2, <2>3, <3>1
  <2>. QED
    BY <2>1, <2>3 DEF Injection, IsInjective
<1>4. IsFiniteSet(Procs \ {p}) /\ Cardinality(Procs \ {p}) = Cardinality(Procs) - 1
  BY FS_RemoveElement DEF Room
<1>5. IsFiniteSet(0 .. 1) /\ Cardinality(0 .. 1) = 2
  <2>1. PICK a \in Int, b \in Int : a = 0 /\ b = 1
    OBVIOUS
  <2>2. IsFiniteSet(a .. b) /\ Cardinality(a .. b) = IF a > b THEN 0 ELSE b - a + 1
    BY FS_Interval
  <2>. QED
    BY <2>1, <2>2
<1>6. /\ IsFiniteSet(J) /\ Cardinality(J) = (Cardinality(Procs) - 1) * 2
      /\ Cardinality(Procs) \in Nat
  BY <1>4, <1>5, FS_Product, FS_CardinalityType DEF Room
<1>7. Cardinality(I) <= Cardinality(J)
  <2>. HIDE DEF f, I, J
  <2>. QED
    BY <1>3, <1>6, FS_Injection
<1>8. Cardinality(I) = Len(toServer)
  <2>1. Cardinality(I) = IF 1 > Len(toServer) THEN 0 ELSE Len(toServer) - 1 + 1
    BY <1>1, FS_Interval, SMTT(30)
  <2>. QED
    BY <1>1, <2>1
<1>9. QueueCap >= 2 * Cardinality(Procs) /\ QueueCap \in Nat
  BY NetAssumption DEF Room
<1>10. Len(toServer) <= (Cardinality(Procs) - 1) * 2
  <2>. HIDE DEF I, J
  <2>. QED
    BY <1>6, <1>7, <1>8
<1>. HIDE DEF I, J, f
<1>. QED
  BY <1>1, <1>6, <1>9, <1>10

\* While a request is in flight, or its answer, no second has passed.
LEMMA Answerless ==
  ASSUME Inv, SessionInv, NEW p \in open, WaitsForExtAck(p), age[p] # 0
  PROVE  ~Talking(p) /\ None(p)
<1>1. RepliesOK(p) /\ HeldOK(p) /\ p \in Procs /\ toClient[p] \in Seq(Fields)
  BY Opened
<1>2. None(p)
  <2>. SUFFICES ASSUME NEW i \in DOMAIN toServer, HostOf[toServer[i].from] = HostOf[p]
                PROVE  FALSE
    BY DEF None
  <2>1. toServer[i].from = p
    BY <1>1 DEF HeldOK
  <2>2. SentOK(p, toServer[i].pkt)
    BY <2>1 DEF SessionInv, QueueOK, RequestsOK
  <2>. QED
    BY <2>2 DEF SentOK
<1>3. DOMAIN toClient[p] = {}
  BY <1>1 DEF RepliesOK, ReplyOK, Granted
<1>4. ASSUME NEW t \in Seq(Fields), DOMAIN t = {} PROVE t = << >>
  BY <1>4
<1>. QED
  BY <1>1, <1>2, <1>3, <1>4 DEF Talking

\* p asks for the extension: a datagram leaves.
LEMMA Asked ==
  ASSUME Inv, SessionInv, Room, NEW p \in Procs, None(p), NEW m, toServer' = Sent(p, m)
  PROVE  Talking(p)'
<1>1. Len(toServer) < QueueCap
  BY RoomLeft
<1>2. toServer' = Append(toServer, [from |-> p, pkt |-> m])
  BY <1>1 DEF Sent, Enqueue
<1>3. toServer \in Seq(Requests)
  BY Types
<1>4. Len(toServer) + 1 \in DOMAIN toServer' /\ toServer'[Len(toServer) + 1].from = p
  BY <1>2, <1>3
<1>5. ~None(p)'
  BY <1>4 DEF None
<1>. QED
  BY <1>5 DEF Talking

LEMMA ExtensionAsked ==
  ASSUME Orderly, Inv, SessionInv, ExtensionInv, NEW p \in Procs, Extend(p),
         UNCHANGED serverVars
  PROVE  ExtensionOK(p)'
<1>1. p \in open /\ InUse(p) /\ ttl_flag[p]
  BY DEF Extend, AtFlags, WantsExtension, InUse
<1>2. LoopsOK /\ BuffersOK /\ HeldOK(p) /\ dhcph_packet[p] \in Fields
  BY <1>1, Opened
<1>3. /\ stat' = [stat EXCEPT ![p] = WAIT_EXT_ACK]
      /\ dhcph_packet' = [dhcph_packet EXCEPT ![p] = Extension(p)]
      /\ age' = [age EXCEPT ![p] = 0]
      /\ toServer' = Sent(p, Extension(p))
  BY DEF Extend, Send
<1>4. PICK m, a, k : /\ m = Extension(p)
                     /\ a = dhcph_packet[p].address
                     /\ k = dhcph_packet[p].netmask
                     /\ HasLease(HostOf[p], a, k, Half)
  <2>1. HasLease(HostOf[p], dhcph_packet[p].address, dhcph_packet[p].netmask,
                 Half + IF ttl_flag[p] THEN 0 ELSE alarm[p])
    BY <1>1, <1>2 DEF HeldOK
  <2>2. Half + (IF ttl_flag[p] THEN 0 ELSE alarm[p]) = Half
    BY <1>1, HalfType DEF Orderly
  <2>. QED
    BY <2>1, <2>2
<1>5. stat'[p] = WAIT_EXT_ACK /\ dhcph_packet'[p] = m /\ age'[p] = 0
  BY <1>2, <1>3, <1>4 DEF LoopsOK, BuffersOK
<1>6. m.address = a /\ m.netmask = k
  BY <1>2, <1>4 DEF Extension, Fields
<1>7. Waited(p)' = 0 /\ Half' = Half /\ Half \in Nat
  BY <1>5, HalfType DEF Waited, Half, Orderly
<1>8. HasLease(HostOf[p], a, k, Half)'
  <2>1. PICK j : j = Half
    OBVIOUS
  <2>2. HasLease(HostOf[p], a, k, j)'
    BY <1>4, <2>1, ServerUntouched
  <2>. QED
    BY <1>7, <2>1, <2>2
<1>9. KeptOK(p)'
  <2>1. Half - 0 = Half /\ 0 <= Half
    BY <1>7
  <2>. QED
    BY <1>5, <1>6, <1>7, <1>8, <2>1 DEF KeptOK
<1>10. ASSUME Room PROVE LossOK(p)'
  <2>1. Talking(p)'
    BY <1>1, <1>2, <1>3, <1>10, Asked DEF HeldOK
  <2>2. WAIT_EXT_ACK # WAIT_EXT_ACK_AGAIN
    BY Numbers
  <2>. QED
    BY <1>5, <2>1, <2>2 DEF LossOK
<1>. QED
  BY <1>9, <1>10 DEF ExtensionOK, Room

LEMMA ExtensionRepeated ==
  ASSUME Orderly, Inv, SessionInv, ExtensionInv, NEW p \in Procs, Resend(p),
         UNCHANGED serverVars,
         UNCHANGED lost
  PROVE  ExtensionOK(p)'
<1>1. p \in open /\ WaitsFirst(p) /\ age[p] >= Timeout /\ stat[p] \in {2, 3, 5}
  BY Waiting DEF Resend, TimedOut
<1>2. LoopsOK /\ BuffersOK /\ ExtensionOK(p)
  BY <1>1, Opened DEF ExtensionInv
<1>3. /\ stat' = [stat EXCEPT ![p] = AgainOf[stat[p]]]
      /\ dhcph_packet' = [dhcph_packet EXCEPT ![p] = dhcph_packet[p]]
      /\ age' = [age EXCEPT ![p] = 0]
      /\ toServer' = Sent(p, dhcph_packet[p])
  BY DEF Resend, Send
<1>4. stat'[p] = AgainOf[stat[p]] /\ dhcph_packet'[p] = dhcph_packet[p] /\ age'[p] = 0
  BY <1>2, <1>3 DEF LoopsOK, BuffersOK
<1>5. age[p] = Timeout /\ age[p] # 0 /\ Timeout \in Nat
  BY <1>1, <1>2, NetAssumption DEF LoopsOK
<1>6. CASE stat[p] # 5
  <2>1. stat'[p] \in {8, 9}
    BY <1>1, <1>4, <1>6, AgainOfType
  <2>2. stat'[p] \notin {WAIT_EXT_ACK, WAIT_EXT_ACK_AGAIN}
    BY <2>1, Numbers
  <2>. QED
    BY <2>2 DEF ExtensionOK, KeptOK, LossOK, WaitsForExtAck
<1>7. CASE stat[p] = 5
  <2>1. stat'[p] = 7 /\ WaitsForExtAck(p) /\ WAIT_EXT_ACK = 5 /\ WAIT_EXT_ACK_AGAIN = 7
    BY <1>4, <1>7, AgainOfType, States, Numbers
  <2>2. ~Talking(p) /\ None(p)
    BY <1>1, <1>5, <2>1, Answerless
  <2>3. Waited(p)' = Waited(p) /\ Half' = Half
    BY <1>4, <1>5, <1>7, <2>1 DEF Waited, Half
  <2>4. PICK a, m, k : /\ a = dhcph_packet[p].address
                       /\ m = dhcph_packet[p].netmask
                       /\ k = Half - Waited(p)
                       /\ HasLease(HostOf[p], a, m, k)
                       /\ Waited(p) <= Half
    BY <1>2, <2>1 DEF ExtensionOK, KeptOK
  <2>5. HasLease(HostOf[p], a, m, k)'
    BY <2>4, ServerUntouched
  <2>6. KeptOK(p)'
    BY <1>4, <2>3, <2>4, <2>5 DEF KeptOK
  <2>7. ASSUME Room PROVE LossOK(p)'
    <3>1. Talking(p)'
      BY <1>3, <2>2, <2>7, Asked
    <3>2. lost >= 1
      BY <1>2, <1>7, <2>1, <2>2, <2>7 DEF ExtensionOK, LossOK
    <3>. QED
      BY <2>1, <3>1, <3>2 DEF LossOK
  <2>. QED
    BY <2>6, <2>7 DEF ExtensionOK, Room
<1>. QED
  BY <1>6, <1>7

LEMMA ExtensionClient ==
  ASSUME Orderly, Inv, Inv', SessionInv, ExtensionInv, NEW p \in Procs,
         StartAct(p) \/ ClientAct(p) \/ AlarmAct(p) \/ HangupAct(p) \/ KillAct(p)
  PROVE  ExtensionInv'
<1>1. Alters(p) /\ (toServer' = toServer \/ \E m : Says(p, m))
  BY ClientMoves DEF Moved
<1>2. UNCHANGED serverVars /\ lost' = lost /\ lost' >= lost
  BY LostType DEF StartAct, ClientAct, AlarmAct, HangupAct, KillAct, faultVars
<1>3. UseIpTime >= 2 /\ toServer \in Seq(Requests) /\ LoopsOK /\ open' \subseteq Procs
  BY Types DEF Orderly, Inv, Srv!IInv, Srv!TypeOK, Srv!NetTypeOK
<1>4. \A h : LeasesKept(h)
  BY <1>2, ServerUntouched DEF LeasesKept
<1>5. ASSUME NEW q \in open', q # p PROVE ExtensionOK(q)'
  <2>1. q \in Procs /\ q \in open /\ ExtensionOK(q) /\ Same(q) /\ toClient'[q] = toClient[q]
    BY <1>1, <1>3, <1>5 DEF Alters, ExtensionInv
  <2>2. None(q)' => None(q)
    <3>1. ASSUME NEW m, Says(p, m), NEW i \in DOMAIN toServer
          PROVE  i \in DOMAIN toServer' /\ toServer'[i] = toServer[i]
      BY <1>3, <3>1 DEF Says
    <3>. QED
      BY <1>1, <3>1 DEF None
  <2>. QED
    BY <1>2, <1>3, <1>4, <2>1, <2>2, ExtensionLeft DEF Talking, Same
<1>6. ASSUME p \in open' PROVE ExtensionOK(p)'
  <2>1. CASE Extend(p) \/ Resend(p)
    BY <1>2, <2>1, ExtensionAsked, ExtensionRepeated
  <2>2. CASE Proceed(p) \/ NothingToRecv(p) \/ Hangup(p) \/ (ClientAlarm(p) /\ p \in open)
    <3>1. p \in open /\ UNCHANGED <<toServer, toClient, stat, age, dhcph_packet>>
      BY <2>2 DEF Proceed, NothingToRecv, Hangup, ClientAlarm, AtFlags, queueVars
    <3>2. Talking(p)' <=> Talking(p)
      BY <3>1 DEF Talking, None
    <3>. QED
      BY <1>2, <1>3, <1>4, <3>1, <3>2, ExtensionLeft DEF ExtensionInv
  <2>3. CASE Start(p) \/ RecvOffer(p) \/ RecvAck(p) \/ RecvWrongType(p) \/ RecvNoCase(p)
    <3>1. stat'[p] \in {WAIT_OFFER, WAIT_ACK, IN_USE, EXITING}
      BY <1>3, <2>3 DEF Start, RecvOffer, RecvAck, RecvWrongType, RecvNoCase, LoopsOK
    <3>2. stat'[p] \notin {WAIT_EXT_ACK, WAIT_EXT_ACK_AGAIN}
      BY <3>1, Numbers
    <3>. QED
      BY <3>2 DEF ExtensionOK, KeptOK, LossOK, WaitsForExtAck
  <2>4. ~Exit(p)
    BY <1>6 DEF Exit
  <2>5. ClientAlarm(p) => p \in open
    BY <1>6 DEF ClientAlarm, queueVars
  <2>. QED
    BY <2>1, <2>2, <2>3, <2>4, <2>5
       DEF StartAct, ClientAct, ClientStep, AlarmAct, HangupAct, KillAct, GiveUp, ExtendAndExit,
           ReleaseAndExit, RecvRefusal, KilledByHangup
<1>. QED
  BY <1>5, <1>6 DEF ExtensionInv

-----------------------------------------------------------------------------
\* The theorems.
LEMMA ExtensionInit == ASSUME Init PROVE ExtensionInv
BY DEF Init, NetInit, ExtensionInv

LEMMA ExtensionNext ==
  ASSUME Orderly, InTime, Inv, Inv', SessionInv, ExtensionInv, [Next]_vars
  PROVE  ExtensionInv'
<1>1. ASSUME ServerAct \/ ServerAlarm PROVE ExtensionInv'
  BY <1>1, ServerSteps, ExtensionPass, ExtensionRecv
<1>2. CASE Tick
  BY <1>2, ExtensionTick
<1>3. CASE Network /\ UNCHANGED <<clientVars, serverVars>>
  BY <1>3, ExtensionNetwork
<1>4. CASE UNCHANGED vars
  <2>1. /\ UNCHANGED serverVars
        /\ UNCHANGED <<toServer, toClient, open, lost, stat, age, dhcph_packet>>
    BY <1>4 DEF vars, netVars, queueVars, faultVars, clientVars
  <2>2. \A h : LeasesKept(h)
    BY <2>1, ServerUntouched DEF LeasesKept
  <2>3. lost' >= lost /\ UseIpTime >= 2
    BY <2>1, LostType DEF Orderly
  <2>4. ASSUME NEW q \in open PROVE ExtensionOK(q)'
    <3>1. q \in Procs /\ ExtensionOK(q)
      BY Types DEF ExtensionInv
    <3>2. Talking(q) => Talking(q)'
      BY <2>1 DEF Talking, None
    <3>. QED
      BY <2>1, <2>2, <2>3, <3>1, <3>2, ExtensionLeft
  <2>. QED
    BY <2>1, <2>4 DEF ExtensionInv
<1>. QED
  BY <1>1, <1>2, <1>3, <1>4, ExtensionClient DEF Next

\* A client that uses an address has the lease of it.
LEMMA UsedIsLeased ==
  ASSUME Inv, SessionInv, ExtensionInv, NEW p \in Procs, Using(p)
  PROVE  \E i \in DOMAIN clients : /\ clients[i].id = HostOf[p]
                                   /\ clients[i].addr = dhcph_packet[p].address
<1>1. p \in open /\ HeldOK(p) /\ ExtensionOK(p) /\ (InUse(p) \/ WaitsForExtAck(p))
  BY DEF Using, SessionInv, ClientOK, ExtensionInv, InUse, WaitsForExtAck
<1>2. PICK k : HasLease(HostOf[p], dhcph_packet[p].address, dhcph_packet[p].netmask, k)
  BY <1>1 DEF HeldOK, ExtensionOK, KeptOK
<1>. QED
  BY <1>2 DEF HasLease, Srv!LeaseLasts

LEMMA NoneShared ==
  ASSUME Inv, SessionInv, ExtensionInv PROVE NoSharedAddress
<1>. SUFFICES ASSUME NEW p \in Procs, NEW q \in Procs, p # q, Using(p), Using(q),
                     dhcph_packet[p].address = dhcph_packet[q].address
              PROVE  FALSE
  BY DEF NoSharedAddress
<1>1. PICK i \in DOMAIN clients : /\ clients[i].id = HostOf[p]
                                  /\ clients[i].addr = dhcph_packet[p].address
  BY UsedIsLeased
<1>2. PICK j \in DOMAIN clients : /\ clients[j].id = HostOf[q]
                                  /\ clients[j].addr = dhcph_packet[q].address
  BY UsedIsLeased
<1>3. i = j
  BY <1>1, <1>2, ServerAssumed, NetAssumption, Srv!ListsHold DEF Inv, Srv!ServerAssumption
<1>4. p \in open /\ q \in open
  BY DEF Using
<1>. QED
  BY <1>1, <1>2, <1>3, <1>4 DEF SessionInv, OpenOK

\* What ends a session but the user: the steps of the client that leave the
\* states of a lease.
LEMMA KeptUntilHangup ==
  ASSUME Orderly, OneLoss, Inv, SessionInv, ExtensionInv, NEW p \in Procs, Using(p),
         ~release_flag[p],
         StartAct(p) \/ ClientAct(p) \/ AlarmAct(p) \/ HangupAct(p) \/ KillAct(p)
  PROVE  Using(p)'
<1>1. /\ p \in open /\ LoopsOK /\ HeldOK(p) /\ RepliesOK(p) /\ stat[p] # INIT
      /\ (InUse(p) => toClient[p] = << >>)
  BY Opened DEF Using
<1>2. stat[p] \in {4, 5, 7} /\ (InUse(p) \/ WaitsForExtAck(p))
  BY Numbers, States DEF Using
<1>3. /\ ~WaitsForOffer(p) /\ ~WaitsForAck(p)
      /\ IN_USE = 4 /\ WAIT_EXT_ACK = 5 /\ WAIT_EXT_ACK_AGAIN = 7 /\ EXITING = 6
  BY <1>2, States, Numbers
<1>4. toClient[p] # << >> => WaitsForExtAck(p) /\ Granted(Received(p))
  <2>1. toClient[p] \in Seq(Fields)
    BY Types
  <2>2. toClient[p] # << >> => 1 \in DOMAIN toClient[p] /\ Received(p) = toClient[p][1]
    BY <2>1 DEF Received
  <2>. QED
    BY <1>1, <1>2, <2>2 DEF RepliesOK, ReplyOK
<1>5. ~StartAct(p) /\ ~RecvOffer(p) /\ ~RecvRefusal(p) /\ ~RecvWrongType(p) /\ ~RecvNoCase(p)
  <2>1. AckOk # AckRefused
    BY MessageTypes
  <2>2. ~RecvRefusal(p) /\ ~RecvWrongType(p)
    BY <1>3, <1>4, <2>1 DEF RecvRefusal, RecvWrongType, WrongType, Takes, Granted
  <2>3. ~RecvNoCase(p)
    BY <1>1, <1>2, <1>3 DEF RecvNoCase, Takes, InUse
  <2>. QED
    BY <1>1, <1>3, <2>2, <2>3 DEF StartAct, Start, RecvOffer
<1>6. ~GiveUp(p)
  <2>. SUFFICES ASSUME GiveUp(p) PROVE FALSE
    OBVIOUS
  <2>1. stat[p] = 7
    <3>1. WaitsAgain(p)
      BY DEF GiveUp
    <3>2. stat[p] \in {7, 8, 9}
      BY <3>1, AgainOfType DEF WaitsAgain, Range
    <3>. QED
      BY <1>2, <3>2
  <2>2. age[p] # 0
    BY NetAssumption DEF GiveUp, TimedOut
  <2>3. WaitsForExtAck(p)
    BY <2>1, States
  <2>4. ~Talking(p)
    BY <1>1, <2>2, <2>3, Answerless
  <2>5. lost >= 2
    BY <1>1, <1>3, <2>1, <2>4 DEF ExtensionInv, ExtensionOK, LossOK, OneLoss
  <2>6. lost \in 0 .. MaxLost /\ MaxLost \in Nat /\ MaxLost <= 1
    BY LostType, NetAssumption DEF OneLoss
  <2>. QED
    BY <2>5, <2>6
<1>7. ~KilledByHangup(p) /\ ~ExtendAndExit(p) /\ ~ReleaseAndExit(p)
  BY <1>1, <1>2 DEF KilledByHangup, ExtendAndExit, ReleaseAndExit, HeldOK, Holds
<1>8. CASE Resend(p)
  <2>1. stat[p] = 5
    BY <1>2, <1>8, Waiting DEF Resend
  <2>2. stat'[p] = 7
    BY <1>1, <1>8, <2>1, AgainOfType DEF Resend, LoopsOK
  <2>. QED
    BY <1>1, <1>3, <1>8, <2>2 DEF Resend, Using
<1>9. CASE Extend(p) \/ RecvAck(p)
  <2>1. stat'[p] \in {IN_USE, WAIT_EXT_ACK} /\ open' = open
    BY <1>1, <1>9 DEF Extend, RecvAck, Consume, LoopsOK
  <2>. QED
    BY <1>1, <2>1 DEF Using
<1>10. CASE Proceed(p) \/ NothingToRecv(p) \/ Hangup(p) \/ ClientAlarm(p)
  BY <1>10 DEF Proceed, NothingToRecv, Hangup, ClientAlarm, queueVars, Using
<1>. QED
  BY <1>5, <1>6, <1>7, <1>8, <1>9, <1>10 DEF ClientAct, ClientStep, AlarmAct, HangupAct, KillAct

LEMMA KeepsStep ==
  ASSUME Orderly, OneLoss, Inv, SessionInv, ExtensionInv, [Next]_vars
  PROVE  \A p \in Procs : Using(p) /\ ~Using(p)' => release_flag[p]
<1>. SUFFICES ASSUME NEW p \in Procs, Using(p), ~release_flag[p] PROVE Using(p)'
  OBVIOUS
<1>1. CASE UNCHANGED <<stat, open>>
  BY <1>1 DEF Using
<1>2. ASSUME ServerAct \/ ServerAlarm PROVE UNCHANGED <<stat, open>>
  <2>1. UNCHANGED clientVars /\ (Pass \/ Srv!Recv)
    BY <1>2, ServerSteps
  <2>. QED
    BY <2>1 DEF clientVars, Pass, Srv!TtlDecrement, Srv!TtlClear, Srv!WaitEvent, Srv!Idle,
                Srv!Alarm,
       Srv!Recv, Srv!netVars, Srv!queueVars, Srv!faultVars
<1>3. ASSUME Tick PROVE UNCHANGED <<stat, open>>
  BY <1>3 DEF Tick, ClientTick, netVars, queueVars
<1>4. ASSUME Network, UNCHANGED <<clientVars, serverVars>> PROVE UNCHANGED <<stat, open>>
  BY <1>4 DEF Network, LoseRequest, LoseReply, DuplicateRequest, DuplicateReply, clientVars
<1>5. ASSUME UNCHANGED vars PROVE UNCHANGED <<stat, open>>
  BY <1>5 DEF vars, netVars, queueVars, clientVars
<1>6. ASSUME NEW q \in Procs, q # p,
             StartAct(q) \/ ClientAct(q) \/ AlarmAct(q) \/ HangupAct(q) \/ KillAct(q)
      PROVE  Using(p)'
  <2>1. Alters(q)
    BY <1>6, ClientMoves DEF Moved
  <2>. QED
    BY <1>6, <2>1 DEF Alters, Same, Using
<1>. QED
  BY <1>1, <1>2, <1>3, <1>4, <1>5, <1>6, KeptUntilHangup DEF Next

\* A client that keeps its lease is in time.
LEMMA OneLossInTime == OneLoss => InTime
BY DEF InTime

\* The same for a client that waits for an extension, if the lease outlasts
\* the two tries or one of them gets through.
LEMMA ExtensionAlways == ASSUME Orderly, InTime PROVE Spec => []ExtensionInv
<1>1. Init => ExtensionInv
  BY ExtensionInit
<1>2. ExtensionInv /\ SessionInv /\ Inv /\ Inv' /\ [Next]_vars => ExtensionInv'
  BY ExtensionNext
<1>. QED
  BY <1>1, <1>2, Invariance, SessionAlways, PTL DEF Spec

\* Two clients never use one address: not even while one of them still waits
\* for the ACK of its extension (mydhcpc.c:296), when the server
\* (mydhcpd.c:188-564) could have taken the address back and given it away.
THEOREM NothingShared == ASSUME Orderly, InTime PROVE Spec => []NoSharedAddress
<1>1. Inv /\ SessionInv /\ ExtensionInv => NoSharedAddress
  BY NoneShared
<1>. QED
  BY <1>1, Invariance, SessionAlways, ExtensionAlways, PTL

\* A client that has an address loses it by SIGHUP (mydhcpc.c:161, 530) and by
\* nothing else: no refusal, no answer of the wrong type, no timeout.  The
\* buffers hold what is in flight, and one lost datagram is made good by the
\* second try.
THEOREM LeaseKept == ASSUME Orderly, OneLoss PROVE Spec => KeepsLease
<1>1. Inv /\ SessionInv /\ ExtensionInv /\ [Next]_vars =>
        \A p \in Procs : Using(p) /\ ~Using(p)' => release_flag[p]
  BY KeepsStep
<1>2. InTime
  BY OneLossInTime
<1>. QED
  BY <1>1, <1>2, Invariance, SessionAlways, ExtensionAlways, PTL DEF Spec, KeepsLease

=============================================================================
