-------------------------------- MODULE Dhcp --------------------------------
(***************************************************************************)
(* mydhcpd and the mydhcpc processes of several hosts, joined by the UDP   *)
(* network of DhcpNet and by the clock: a tick is the start of a second    *)
(* for all of them.                                                        *)
(*                                                                         *)
(* With Prompt, a second is long: every datagram is delivered, lost or     *)
(* duplicated, and every signal and timeout handled, before the next one   *)
(* starts.  Without it the network and the programs may be arbitrarily     *)
(* slow.                                                                   *)
(***************************************************************************)
EXTENDS DhcpClient

CONSTANTS
  UseIpTime, PoolConfig,   \* config_file, see DhcpServer
  Prompt,                  \* whether a second is long, see above
  OneClientPerHost         \* whether a user runs one client per host at a time

\* What DhcpServer assumes of config_file.
ASSUME DhcpAssumption ==
  /\ UseIpTime \in Uint16
  /\ PoolConfig \in Seq([ip : Addrs, netmask : Masks])
  /\ \A i, j \in DOMAIN PoolConfig : PoolConfig[i].ip = PoolConfig[j].ip => i = j

VARIABLES pool, useList, clients, server_ttl_flag, timer, spc

\* All that a client sends: DISCOVER, and REQUEST and RELEASE for an address
\* of the pool or, when the buffer holds a refused DISCOVER, for 0.0.0.0.
ClientSends ==
  {Discover}
    \cup [type : {REQUEST}, code : {RequestAlloc, RequestExt},
          ttl : {0, Htons(UseIpTime)}, address : Addrs \cup {Zero},
          netmask : Masks \cup {Zero}]
    \cup [type : {RELEASE}, code : {0}, ttl : {0},
          address : Addrs \cup {Zero}, netmask : {Zero}]

Server == INSTANCE DhcpServer WITH
  ttl_flag <- server_ttl_flag, EnvPackets <- ClientSends, EnvProcs <- Procs

serverVars == <<pool, useList, clients, server_ttl_flag, timer, spc>>
vars == <<netVars, clientVars, serverVars>>

Init == NetInit /\ ClientInit /\ Server!ServerInit

-----------------------------------------------------------------------------
\* Nothing is left to do before the next second starts.
Settled(p) ==
  p \in open => /\ toClient[p] = << >>
                /\ ~ttl_flag[p]
                /\ ~release_flag[p]
                /\ ~Due(p)

ServerSettled ==
  /\ toServer = << >>
  /\ ~server_ttl_flag
  /\ \A i \in DOMAIN clients :
        clients[i].stat \in {Server!WAIT_REQ, Server!WAIT_REQ_AGAIN} =>
          ~Server!TimedOut(clients[i])

Tick ==
  /\ Prompt => ServerSettled /\ \A p \in Procs : Settled(p)
  /\ Server!ServerTick
  /\ ClientTick
  /\ UNCHANGED netVars

ServerAct == Server!ServerStep /\ UNCHANGED clientVars
ServerAlarm == Server!Alarm /\ UNCHANGED clientVars
StartAct(p) ==
  /\ OneClientPerHost => \A q \in open : HostOf[q] # HostOf[p]
  /\ Start(p)
  /\ UNCHANGED <<serverVars, faultVars>>
ClientAct(p) == ClientStep(p) /\ UNCHANGED <<serverVars, faultVars>>
AlarmAct(p) == ClientAlarm(p) /\ UNCHANGED <<serverVars, faultVars>>
HangupAct(p) == Hangup(p) /\ UNCHANGED <<serverVars, faultVars>>
KillAct(p) == KilledByHangup(p) /\ UNCHANGED <<serverVars, faultVars>>

Next ==
  \/ ServerAct
  \/ ServerAlarm
  \/ \E p \in Procs :
       StartAct(p) \/ ClientAct(p) \/ AlarmAct(p) \/ HangupAct(p) \/ KillAct(p)
  \/ Network /\ UNCHANGED <<clientVars, serverVars>>
  \/ Tick

Spec == Init /\ [][Next]_vars

\* Both loops poll and never block, signals are delivered and time passes.
\* Nothing makes a user start a client or hang it up.
Fairness ==
  /\ WF_vars(ServerAct)
  /\ WF_vars(ServerAlarm)
  /\ WF_vars(Tick)
  /\ \A p \in Procs : WF_vars(ClientAct(p)) /\ WF_vars(AlarmAct(p))

FairSpec == Spec /\ Fairness

-----------------------------------------------------------------------------
TypeOK == ClientTypeOK /\ Server!TypeOK

\* The clients are an environment that DhcpServer allows for: whatever they
\* send, in whatever order they close sockets and leave replies unread, it is
\* one of ClientSends, so all that holds of the server alone holds here.
ImplementsServer == Server!Spec

\* A client in IN_USE has a lease: the server's record of its host is in
\* IN_USE as well and holds the address in the client's only packet buffer,
\* the one that it will extend and release.
InUseIsLeased ==
  \A p \in open : stat[p] = IN_USE =>
    \E i \in DOMAIN clients : /\ clients[i].id = HostOf[p]
                              /\ clients[i].stat = Server!IN_USE
                              /\ clients[i].addr = dhcph_packet[p].address

\* No two clients have the same address, also while they wait for the answer
\* to an extension.
Using(p) == p \in open /\ stat[p] \in {IN_USE, WAIT_EXT_ACK, WAIT_EXT_ACK_AGAIN}

NoSharedAddress ==
  \A p, q \in Procs : p # q /\ Using(p) /\ Using(q) =>
    dhcph_packet[p].address # dhcph_packet[q].address

\* A client that has a lease keeps it until it is told to hang up: the
\* extension at half time and its repeat come before the server's timeout.
KeepsLease ==
  [][\A p \in Procs : Using(p) /\ ~Using(p)' => release_flag[p]]_vars

\* SIGHUP in IN_USE makes the client send RELEASE (mydhcpc.c:161, 530).
SendsRelease(p) ==
  toServer' # << >> /\ Last(toServer').from = p /\ Last(toServer').pkt.type = RELEASE

HangupReleases ==
  [][\A p \in Procs : release_flag[p] /\ p \notin open' => SendsRelease(p)]_vars

\* A client that starts does not wait forever: it gets a lease or is exiting,
\* whichever of its datagrams and of the server's is lost, and also when the
\* server ignores it or has no address left.
Answered ==
  \A p \in Procs : stat[p] = WAIT_OFFER ~> stat[p] \in {IN_USE, EXITING}

\* When the last client is exiting, the server gets every address back,
\* whether it hears of it or not.
AddressesReturn ==
  (\A p \in Procs : stat[p] = EXITING) ~> Len(pool) = Len(PoolConfig)
=============================================================================
