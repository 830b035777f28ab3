----------------------------- MODULE DhcpServer -----------------------------
(***************************************************************************)
(* mydhcpd: the main loop of dhcp/mydhcpd.c, its address lists, its client *)
(* records and its two clocks.                                             *)
(*                                                                         *)
(* The loop is one process with a program counter:                         *)
(*   "top"    the test of ttl_flag and, when it is set, ttl_decrement()    *)
(*   "clear"  between ttl_decrement() and ttl_flag = 0                     *)
(*   "wait"   wait_event(), the 10 second timeouts                         *)
(*   "recv"   select() with a zero timeout, recvfrom() and the handler     *)
(* SIGALRM arrives between any two of these steps; one that arrives at     *)
(* "clear" is overwritten.  A tick is the start of the next full second.   *)
(* Elapsed time is kept as an age per record that stops at Timeout,        *)
(* instead of an absolute start_time.                                      *)
(*                                                                         *)
(* Standing alone, the server faces an environment that sends any datagram *)
(* of EnvPackets at any time, so what holds here holds whatever the        *)
(* clients do.                                                             *)
(***************************************************************************)
EXTENDS DhcpNet

CONSTANTS
  UseIpTime,   \* first line of config_file, the lease time in seconds
  PoolConfig,  \* the other lines of config_file: a sequence of [ip, netmask]
  EnvPackets,  \* what the environment sends when the server stands alone
  EnvProcs     \* the processes whose sockets the environment uses

IpMasks == [ip : Addrs, netmask : Masks]

\* Addresses of config_file are all different; the code does not check it.
ASSUME ServerAssumption ==
  /\ UseIpTime \in Uint16
  /\ PoolConfig \in Seq(IpMasks)
  /\ \A i, j \in DOMAIN PoolConfig :
        PoolConfig[i].ip = PoolConfig[j].ip => i = j
  /\ EnvPackets \subseteq Packets
  /\ EnvProcs \subseteq Procs

VARIABLES
  pool,      \* ipmask_list: the addresses that are free, oldest first
  useList,   \* ipmask_use_list: the addresses that are offered or leased
  clients,   \* client_list: one record per host with an address
  ttl_flag,  \* set by the SIGALRM handler, cleared by the loop
  timer,     \* the one second interval timer of setitimer_ttl()
  spc        \* where the loop is

serverVars == <<pool, useList, clients, ttl_flag, timer, spc>>
vars == <<serverVars, netVars>>

-----------------------------------------------------------------------------
\* The values of struct client's stat a record has between two steps.
WAIT_REQ       == 2
IN_USE         == 3
WAIT_REQ_AGAIN == 4

\* struct client.  ttlcounter is a signed int: ttl_decrement() removes a
\* record as soon as its counter is below zero.
ClientRecords ==
  [id : Hosts, again : Procs, stat : {WAIT_REQ, IN_USE, WAIT_REQ_AGAIN},
   ttlcounter : Uint16, ttl : Uint16, addr : Addrs, netmask : Masks,
   age : 0 .. Timeout]

\* "armed": SIGALRM comes in the next second; "due": it comes in this one.
TimerStates == {"off", "armed", "due"}

TypeOK ==
  /\ NetTypeOK
  /\ pool \in Seq(IpMasks)
  /\ useList \in Seq(IpMasks)
  /\ clients \in Seq(ClientRecords)
  /\ ttl_flag \in BOOLEAN
  /\ timer \in TimerStates
  /\ spc \in {"top", "clear", "wait", "recv"}

ServerInit ==
  /\ pool = PoolConfig
  /\ useList = << >>
  /\ clients = << >>
  /\ ttl_flag = FALSE
  /\ timer = "off"
  /\ spc = "top"

-----------------------------------------------------------------------------
\* The definitions named ...Slip are not part of the specification: each is
\* the definition after it with a mistake that would be easy to make in the
\* code, and a property has to fail with it.

\* Where the use list holds an address.
UsedAt(ip) == {i \in DOMAIN useList : useList[i].ip = ip}

\* Slip: the entry is copied to the pool, but stays in the use list.
RecallIpSlip(ip) ==
  IF UsedAt(ip) = {}
    THEN UNCHANGED <<pool, useList>>
    ELSE /\ pool' = Append(pool, useList[Min(UsedAt(ip))])
         /\ UNCHANGED useList

\* remove_ipmask_use_list(): the first entry with this address moves from the
\* use list to the tail of the pool.
RecallIp(ip) ==
  IF UsedAt(ip) = {}
    THEN UNCHANGED <<pool, useList>>
    ELSE LET i == Min(UsedAt(ip))
         IN  /\ pool' = Append(pool, useList[i])
             /\ useList' = RemoveAt(useList, i)

\* Which records of a list have an address.
HoldersAt(list, ip) == {i \in DOMAIN list : list[i].addr = ip}

\* Slip: the record that is unlinked is the one at the head of the list.
ReleaseClientSlip(list, ip) ==
  IF HoldersAt(list, ip) = {} THEN list ELSE Tail(list)

\* release_client(): the first record with this address leaves list.
ReleaseClient(list, ip) ==
  IF HoldersAt(list, ip) = {} THEN list
                              ELSE RemoveAt(list, Min(HoldersAt(list, ip)))

\* The two loops over the records recall the address of the first record that
\* is out of time and break; swept is what the loop did to the records.
RecallFirst(due, swept) ==
  IF due = {}
    THEN clients' = swept /\ UNCHANGED <<pool, useList>>
    ELSE LET ip == clients[Min(due)].addr
         IN  clients' = ReleaseClient(swept, ip) /\ RecallIp(ip)

\* Whether the loop reaches record i before it breaks.
Reached(due, i) == \A j \in due : i < j

-----------------------------------------------------------------------------
\* Slip: the counter is tested before it is decremented.
ExpiredSlip(c) == c.stat = IN_USE /\ c.ttlcounter < 0

\* ttl_decrement()
Expired(c) == c.stat = IN_USE /\ c.ttlcounter - 1 < 0
Ticked(c) ==
  IF c.stat = IN_USE THEN [c EXCEPT !.ttlcounter = @ - 1] ELSE c

TtlDecrement ==
  LET due == {i \in DOMAIN clients : Expired(clients[i])}
  IN  /\ spc = "top"
      /\ ttl_flag
      /\ RecallFirst(due, [i \in DOMAIN clients |->
                             IF Reached(due, i) THEN Ticked(clients[i])
                                                ELSE clients[i]])
      /\ spc' = "clear"
      /\ UNCHANGED <<ttl_flag, timer, netVars>>

TtlClear ==
  /\ spc = "clear"
  /\ ttl_flag' = FALSE
  /\ spc' = "wait"
  /\ UNCHANGED <<pool, useList, clients, timer, netVars>>

\* struct dhcph of an OFFER of the record's address, first or repeated
OfferFor(c) == [type |-> OFFER, code |-> OfferOk, ttl |-> Htons(UseIpTime),
                address |-> c.addr, netmask |-> c.netmask]

\* The wait for a REQUEST is over.
TimedOut(c) == c.age >= Timeout

\* Slip: the state is not advanced, so every timeout is a first one.
ReofferedSlip(c) ==
  IF c.stat = WAIT_REQ /\ TimedOut(c) THEN [c EXCEPT !.age = 0] ELSE c

\* wait_event(): an OFFER without an answer is repeated once, then recalled.
Reoffered(c) ==
  IF c.stat = WAIT_REQ /\ TimedOut(c)
    THEN [c EXCEPT !.stat = WAIT_REQ_AGAIN, !.age = 0]
    ELSE c

GivesUp(c) == c.stat = WAIT_REQ_AGAIN /\ TimedOut(c)

WaitEvent ==
  LET due == {i \in DOMAIN clients : GivesUp(clients[i])}
      again == {i \in DOMAIN clients : /\ Reached(due, i)
                                       /\ Reoffered(clients[i]) # clients[i]}
  IN  /\ spc = "wait" \/ (spc = "top" /\ ~ttl_flag)
      /\ RecallFirst(due, [i \in DOMAIN clients |->
                             IF Reached(due, i) THEN Reoffered(clients[i])
                                                ELSE clients[i]])
      /\ toClient' = Delivered(
           [p \in {clients[i].again : i \in again} |->
              OfferFor(clients[Min({i \in again : clients[i].again = p})])])
      /\ spc' = "recv"
      /\ UNCHANGED <<ttl_flag, timer, toServer, open, faultVars>>

-----------------------------------------------------------------------------
\* search_client(): the record whose id is the source address, if any.
RecordsOf(h) == {i \in DOMAIN clients : clients[i].id = h}
Known(d) == RecordsOf(HostOf[d.from]) # {}
RecordAt(d) == Min(RecordsOf(HostOf[d.from]))
RecordOf(d) == clients[RecordAt(d)]

\* The datagram asks for what the OFFER held.  ttl is compared as stored.
AgreesWithOffer(c, m) ==
  /\ m.address = c.addr
  /\ m.netmask = c.netmask
  /\ m.ttl <= c.ttl

\* Slip: search_client() is not consulted.
AsksNewSlip(d) == d.pkt.type = DISCOVER

AsksNew(d) == ~Known(d) /\ d.pkt.type = DISCOVER
AsksAlloc(d) ==
  /\ Known(d)
  /\ RecordOf(d).stat \in {WAIT_REQ, WAIT_REQ_AGAIN}
  /\ d.pkt.type = REQUEST
  /\ d.pkt.code = RequestAlloc
AsksExtension(d) ==
  /\ Known(d)
  /\ RecordOf(d).stat = IN_USE
  /\ d.pkt.type = REQUEST
  /\ d.pkt.code = RequestExt
  /\ AgreesWithOffer(RecordOf(d), d.pkt)
AsksRelease(d) ==
  /\ Known(d)
  /\ RecordOf(d).stat = IN_USE
  /\ d.pkt.type = RELEASE

Reply(d, type, code) ==
  toClient' = Delivered(Mail(d.from, [d.pkt EXCEPT !.type = type, !.code = code]))

\* Slip: the address comes from the head of the use list, not from the new entry.
NewClientSlip(d, a) ==
  LET u == IF useList = << >> THEN a ELSE Head(useList)
  IN  [id |-> HostOf[d.from], again |-> d.from, stat |-> WAIT_REQ,
       ttlcounter |-> UseIpTime, ttl |-> Htons(UseIpTime),
       addr |-> u.ip, netmask |-> u.netmask, age |-> 0]

\* DISCOVER from a new host: create_use_list(), remove_ipmask_list(),
\* create_client() and the OFFER.
NewClient(d, a) ==
  [id |-> HostOf[d.from], again |-> d.from, stat |-> WAIT_REQ,
   ttlcounter |-> UseIpTime, ttl |-> Htons(UseIpTime),
   addr |-> a.ip, netmask |-> a.netmask, age |-> 0]

MakeOffer(d) ==
  /\ AsksNew(d)
  /\ pool # << >>
  /\ LET c == NewClient(d, Head(pool))
     IN  /\ clients' = Append(clients, c)
         /\ toClient' = Delivered(Mail(d.from, OfferFor(c)))
  /\ useList' = Append(useList, Head(pool))
  /\ pool' = Tail(pool)
  /\ UNCHANGED timer

\* DISCOVER with no free address: the packet goes back with code 1.
\* search_ipmask() then ends without a return statement; in the unoptimized
\* build of the Makefile its caller finds the list head it compared last.
RefuseOffer(d) ==
  /\ AsksNew(d)
  /\ pool = << >>
  /\ Reply(d, OFFER, OfferNone)
  /\ UNCHANGED <<pool, useList, clients, timer>>

\* REQUEST that agrees with the OFFER: the lease starts, and setitimer_ttl()
\* starts the timer, or starts it again with what was left of its second lost.
\* age means nothing from here on and is reset to keep states few.
Leased(c, m) == [c EXCEPT !.stat = IN_USE, !.ttlcounter = Ntohs(m.ttl),
                          !.ttl = m.ttl, !.age = 0]

GrantLease(d) ==
  /\ AsksAlloc(d)
  /\ AgreesWithOffer(RecordOf(d), d.pkt)
  /\ clients' = [clients EXCEPT ![RecordAt(d)] = Leased(@, d.pkt)]
  /\ Reply(d, ACK, AckOk)
  /\ timer' = "armed"
  /\ UNCHANGED <<pool, useList>>

\* REQUEST that disagrees: ACK with code 4, the address is recalled.
RefuseLease(d) ==
  /\ AsksAlloc(d)
  /\ ~AgreesWithOffer(RecordOf(d), d.pkt)
  /\ Reply(d, ACK, AckRefused)
  /\ RecallIp(RecordOf(d).addr)
  /\ clients' = ReleaseClient(clients, RecordOf(d).addr)
  /\ UNCHANGED timer

\* Slip: the state is set as for a new lease that waits, or nothing is set at all.
ExtendedSlip(c, m) == [c EXCEPT !.stat = WAIT_REQ, !.ttlcounter = Ntohs(m.ttl)]
NotExtendedSlip(c, m) == c

\* Extension: the counter starts again.
Extended(c, m) == [c EXCEPT !.ttlcounter = Ntohs(m.ttl)]

ExtendLease(d) ==
  /\ AsksExtension(d)
  /\ clients' = [clients EXCEPT ![RecordAt(d)] = Extended(@, d.pkt)]
  /\ Reply(d, ACK, AckOk)
  /\ UNCHANGED <<pool, useList, timer>>

\* RELEASE: what goes is the address in the packet, whoever sent it.
EndLease(d) ==
  /\ AsksRelease(d)
  /\ RecallIp(d.pkt.address)
  /\ clients' = ReleaseClient(clients, d.pkt.address)
  /\ UNCHANGED <<timer, toClient>>

\* Every other datagram is dropped without an answer.
Ignore(d) ==
  /\ ~(AsksNew(d) \/ AsksAlloc(d) \/ AsksExtension(d) \/ AsksRelease(d))
  /\ UNCHANGED <<pool, useList, clients, timer, toClient>>

Handle(d) ==
  \/ MakeOffer(d)
  \/ RefuseOffer(d)
  \/ GrantLease(d)
  \/ RefuseLease(d)
  \/ ExtendLease(d)
  \/ EndLease(d)
  \/ Ignore(d)

Recv ==
  /\ spc = "recv"
  /\ toServer # << >>
  /\ Handle(Head(toServer))
  /\ toServer' = Tail(toServer)
  /\ spc' = "top"
  /\ UNCHANGED <<ttl_flag, open, faultVars>>

\* select() found nothing.
Idle ==
  /\ spc = "recv"
  /\ toServer = << >>
  /\ spc' = "top"
  /\ UNCHANGED <<pool, useList, clients, ttl_flag, timer, netVars>>

ServerStep == TtlDecrement \/ TtlClear \/ WaitEvent \/ Recv \/ Idle

\* Slip: it_interval is zero, the timer fires once.
AlarmSlip ==
  /\ timer = "due"
  /\ timer' = "off"
  /\ ttl_flag' = TRUE
  /\ UNCHANGED <<pool, useList, clients, spc, netVars>>

\* ttl_count_flag(), the handler of SIGALRM; the timer is periodic.
Alarm ==
  /\ timer = "due"
  /\ timer' = "armed"
  /\ ttl_flag' = TRUE
  /\ UNCHANGED <<pool, useList, clients, spc, netVars>>

\* The next second starts; the kernel has delivered the SIGALRM of this one.
Older(c) ==
  IF c.stat # IN_USE /\ c.age < Timeout THEN [c EXCEPT !.age = @ + 1] ELSE c

ServerTick ==
  /\ timer # "due"
  /\ timer' = IF timer = "armed" THEN "due" ELSE "off"
  /\ clients' = [i \in DOMAIN clients |-> Older(clients[i])]
  /\ UNCHANGED <<pool, useList, ttl_flag, spc>>

-----------------------------------------------------------------------------
\* The environment of a server that stands alone: a client process opens its
\* socket, takes a reply or closes the socket again, and may send a datagram
\* in the same step.
OpenSocket(p) == open' = open \cup {p} /\ UNCHANGED toClient
TakeReply(p) ==
  /\ toClient[p] # << >>
  /\ toClient' = [toClient EXCEPT ![p] = Tail(@)]
  /\ UNCHANGED open
CloseSocket(p) ==
  /\ open' = open \ {p}
  /\ toClient' = [toClient EXCEPT ![p] = << >>]

ClientMove ==
  /\ \E p \in Procs :
       /\ \/ p \in EnvProcs /\ (OpenSocket(p) \/ TakeReply(p) \/ CloseSocket(p))
          \/ UNCHANGED <<toClient, open>>
       /\ \/ \E m \in EnvPackets : toServer' = Sent(p, m)
          \/ UNCHANGED toServer
  /\ UNCHANGED <<faultVars, serverVars>>

Tick == ServerTick /\ UNCHANGED netVars

Init == NetInit /\ ServerInit

Next ==
  \/ ServerStep
  \/ Alarm
  \/ Tick
  \/ ClientMove
  \/ Network /\ UNCHANGED serverVars

Spec == Init /\ [][Next]_vars

\* The loop never blocks, time passes and the kernel delivers SIGALRM.
FairSpec ==
  Spec /\ WF_vars(ServerStep) /\ WF_vars(Alarm) /\ WF_vars(Tick)

-----------------------------------------------------------------------------
\* Every address of config_file is in exactly one of the two lists, once:
\* whatever order of offers, refusals, releases and timeouts moves them
\* (create_use_list, remove_ipmask_list, remove_ipmask_use_list), none is
\* lost, doubled or given another netmask.
DistinctIps(s) == \A i, j \in DOMAIN s : s[i].ip = s[j].ip => i = j

AddressesConserved ==
  /\ DistinctIps(pool)
  /\ DistinctIps(useList)
  /\ \A i \in DOMAIN pool, j \in DOMAIN useList : pool[i].ip # useList[j].ip
  /\ ToSet(pool) \cup ToSet(useList) = ToSet(PoolConfig)

\* The use list and the client records, kept by separate functions and
\* searched by address separately, describe the same leases: every address
\* in use has exactly one record, with its netmask, and every record has its
\* address in the use list.
AddressOf(c) == [ip |-> c.addr, netmask |-> c.netmask]

LeaseTableConsistent ==
  /\ \A i, j \in DOMAIN clients : clients[i].addr = clients[j].addr => i = j
  /\ {AddressOf(clients[i]) : i \in DOMAIN clients} = ToSet(useList)

\* A host never has two records, whatever it sends and from whichever ports,
\* so search_client() finds the only one.
OneRecordPerHost ==
  \A i, j \in DOMAIN clients : clients[i].id = clients[j].id => i = j

\* No step gives an address of one host to another host directly: it is in
\* the pool in between, so a release and a grant are two iterations.
HoldersOf(ip) == {clients[i].id : i \in HoldersAt(clients, ip)}

HandoverThroughPool ==
  [][\A ip \in Addrs : HoldersOf(ip) # {} => HoldersOf(ip)' \in {{}, HoldersOf(ip)}]_vars

\* The loop implements the state diagram that AddressLeases gives each host:
\* no datagram, timeout or tick moves a record along another edge, or changes
\* the address of a host that has one.  The address of a host is the set of the
\* addresses of its records, which differs from none even for 0.0.0.0.
StatOf(h) ==
  IF RecordsOf(h) = {} THEN 0 ELSE clients[Min(RecordsOf(h))].stat
LeaseOf(h) == {clients[i].addr : i \in RecordsOf(h)}

Leases == INSTANCE AddressLeases WITH
  Pool <- {{PoolConfig[i].ip} : i \in DOMAIN PoolConfig},
  NoAddr <- {},
  stat <- [h \in Hosts |-> StatOf(h)],
  lease <- [h \in Hosts |-> LeaseOf(h)]

ImplementsAddressLeases == Leases!Spec

\* An OFFER never stays open: the two timeouts of wait_event() end every wait
\* for a REQUEST, however many other records time out in the same pass (the
\* loop breaks at the first one it recalls) and whatever datagrams arrive.
WaitsForRequest(h) ==
  \E i \in RecordsOf(h) : clients[i].stat \in {WAIT_REQ, WAIT_REQ_AGAIN}

OfferResolves == \A h \in Hosts : WaitsForRequest(h) ~> ~WaitsForRequest(h)

\* A lease that is not extended ends (ttl is the time an address may be used,
\* mydhcpd.c:56, counted from the call at mydhcpd.c:403).
HoldsLease(h) == \E i \in RecordsOf(h) : clients[i].stat = IN_USE
ExtensionBy(h) ==
  Recv /\ HostOf[Head(toServer).from] = h /\ ExtendLease(Head(toServer))

LeaseEnds ==
  \A h \in Hosts : []<>~HoldsLease(h) \/ []<><<ExtensionBy(h)>>_vars

\* The same when leases are not granted over and over: lost ticks (SIGALRM
\* while ttl_flag is being cleared, records behind one that expires) delay
\* the end of a lease but never prevent it.
GrantOfLease == Recv /\ GrantLease(Head(toServer))

LeaseEndsWithoutGrants ==
  \A h \in Hosts : \/ []<>~HoldsLease(h)
                   \/ []<><<ExtensionBy(h)>>_vars
                   \/ []<><<GrantOfLease>>_vars

\* A lease never lasts longer than the OFFER said (mydhcpd.c:358-360: a
\* REQUEST that differs from the OFFER is answered with code 4).
LeaseWithinOffer ==
  \A i \in DOMAIN clients :
    clients[i].stat = IN_USE => clients[i].ttlcounter <= UseIpTime
=============================================================================
