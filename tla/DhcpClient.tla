----------------------------- MODULE DhcpClient -----------------------------
(***************************************************************************)
(* mydhcpc: the main loop of dhcp/mydhcpc.c, one instance per process of   *)
(* Procs.  A second run of the program on a machine is another process on  *)
(* the same host: it has the same source address and another port.         *)
(*                                                                         *)
(* One iteration of the loop is:                                           *)
(*   "top"    wait_event()                                                 *)
(*   "flags"  the tests of ttl_flag and of release_flag                    *)
(*   "recv"   select() with a zero timeout, recvfrom() and the handler     *)
(* wait_event() and the tests are one step when no timeout is due.  Both   *)
(* signals arrive between any two steps.  The program has one struct       *)
(* dhcph, dhcph_packet: what it receives overwrites what it sent, and what *)
(* it sends again or asks to extend is whatever came last.                 *)
(***************************************************************************)
EXTENDS DhcpNet

VARIABLES
  stat,           \* the state of the program, see below
  dhcph_packet,   \* the only packet buffer
  use_ip_time,    \* the lease time of the OFFER, host byte order
  age,            \* seconds since start_time, at most Timeout
  alarm,          \* seconds until the interval timer fires, OFF or 0: now
  ttl_flag,       \* set by SIGALRM
  release_flag,   \* set by SIGHUP
  registered,     \* whether the handlers of SIGHUP and SIGALRM are set
  cpc             \* where the loop is

clientVars == <<stat, dhcph_packet, use_ip_time, age, alarm, ttl_flag,
                release_flag, registered, cpc>>

-----------------------------------------------------------------------------
\* The values of stat; 6 is both "exiting" and, without a socket, exited.
INIT               == 1
WAIT_OFFER         == 2
WAIT_ACK           == 3
IN_USE             == 4
WAIT_EXT_ACK       == 5
EXITING            == 6
WAIT_EXT_ACK_AGAIN == 7
WAIT_OFFER_AGAIN   == 8
WAIT_ACK_AGAIN     == 9

OFF == -1

NoPacket == [type |-> 0, code |-> 0, ttl |-> 0, address |-> Zero, netmask |-> Zero]

ClientTypeOK ==
  /\ stat \in [Procs -> INIT .. WAIT_ACK_AGAIN]
  /\ dhcph_packet \in [Procs -> Packets]
  /\ use_ip_time \in [Procs -> Uint16]
  /\ age \in [Procs -> 0 .. Timeout]
  /\ alarm \in [Procs -> OFF .. 32767]
  /\ ttl_flag \in [Procs -> BOOLEAN]
  /\ release_flag \in [Procs -> BOOLEAN]
  /\ registered \in [Procs -> BOOLEAN]
  /\ cpc \in [Procs -> {"top", "flags", "recv"}]

ClientInit ==
  /\ stat = [p \in Procs |-> INIT]
  /\ dhcph_packet = [p \in Procs |-> NoPacket]
  /\ use_ip_time = [p \in Procs |-> 0]
  /\ age = [p \in Procs |-> 0]
  /\ alarm = [p \in Procs |-> OFF]
  /\ ttl_flag = [p \in Procs |-> FALSE]
  /\ release_flag = [p \in Procs |-> FALSE]
  /\ registered = [p \in Procs |-> FALSE]
  /\ cpc = [p \in Procs |-> "top"]

-----------------------------------------------------------------------------
\* sendto() of m, which stays in dhcph_packet.
Send(p, m) ==
  /\ dhcph_packet' = [dhcph_packet EXCEPT ![p] = m]
  /\ toServer' = Sent(p, m)

\* exit(): the socket is closed, the rest of the state is gone.
Exit(p) ==
  /\ open' = open \ {p}
  /\ toClient' = [toClient EXCEPT ![p] = << >>]
  /\ stat' = [stat EXCEPT ![p] = EXITING]
  /\ dhcph_packet' = [dhcph_packet EXCEPT ![p] = NoPacket]
  /\ use_ip_time' = [use_ip_time EXCEPT ![p] = 0]
  /\ age' = [age EXCEPT ![p] = 0]
  /\ alarm' = [alarm EXCEPT ![p] = OFF]
  /\ ttl_flag' = [ttl_flag EXCEPT ![p] = FALSE]
  /\ release_flag' = [release_flag EXCEPT ![p] = FALSE]
  /\ registered' = [registered EXCEPT ![p] = FALSE]
  /\ cpc' = [cpc EXCEPT ![p] = "top"]

\* main() up to the loop: the socket, DISCOVER and the first timeout.
Discover == [NoPacket EXCEPT !.type = DISCOVER]

Start(p) ==
  /\ stat[p] = INIT
  /\ open' = open \cup {p}
  /\ Send(p, Discover)
  /\ stat' = [stat EXCEPT ![p] = WAIT_OFFER]
  /\ age' = [age EXCEPT ![p] = 0]
  /\ UNCHANGED <<toClient, use_ip_time, alarm, ttl_flag, release_flag,
                 registered, cpc>>

-----------------------------------------------------------------------------
\* The definitions named ...Slip are mistakes, as in DhcpServer.

\* Slip: a repeated REQUEST leaves the state at WAIT_ACK.
AgainOfSlip ==
  [s \in {WAIT_OFFER, WAIT_ACK, WAIT_EXT_ACK} |->
     CASE s = WAIT_OFFER -> WAIT_OFFER_AGAIN
       [] s = WAIT_ACK -> WAIT_ACK
       [] OTHER -> WAIT_EXT_ACK_AGAIN]

\* wait_event(): a datagram without an answer is sent once more, then the
\* program exits.
AgainOf ==
  [s \in {WAIT_OFFER, WAIT_ACK, WAIT_EXT_ACK} |->
     CASE s = WAIT_OFFER -> WAIT_OFFER_AGAIN
       [] s = WAIT_ACK -> WAIT_ACK_AGAIN
       [] OTHER -> WAIT_EXT_ACK_AGAIN]
WaitsFirst(p) == stat[p] \in DOMAIN AgainOf
WaitsAgain(p) == stat[p] \in Range(AgainOf)
TimedOut(p) == age[p] >= Timeout
Due(p) == (WaitsFirst(p) \/ WaitsAgain(p)) /\ TimedOut(p)

Resend(p) ==
  /\ p \in open
  /\ cpc[p] = "top"
  /\ WaitsFirst(p)
  /\ TimedOut(p)
  /\ stat' = [stat EXCEPT ![p] = AgainOf[stat[p]]]
  /\ Send(p, dhcph_packet[p])
  /\ age' = [age EXCEPT ![p] = 0]
  /\ cpc' = [cpc EXCEPT ![p] = "flags"]
  /\ UNCHANGED <<toClient, open, use_ip_time, alarm, ttl_flag, release_flag,
                 registered>>

GiveUp(p) ==
  /\ p \in open
  /\ cpc[p] = "top"
  /\ WaitsAgain(p)
  /\ TimedOut(p)
  /\ Exit(p)
  /\ UNCHANGED toServer

\* The tests of the two flags.  Half of the lease time is over: extend it.
AtFlags(p) == p \in open /\ (cpc[p] = "flags" \/ (cpc[p] = "top" /\ ~Due(p)))
WantsExtension(p) == ttl_flag[p] /\ stat[p] = IN_USE

Extension(p) ==
  [dhcph_packet[p] EXCEPT !.type = REQUEST, !.code = RequestExt]

Extend(p) ==
  /\ AtFlags(p)
  /\ WantsExtension(p)
  /\ ~release_flag[p]
  /\ Send(p, Extension(p))
  /\ stat' = [stat EXCEPT ![p] = WAIT_EXT_ACK]
  /\ age' = [age EXCEPT ![p] = 0]
  /\ ttl_flag' = [ttl_flag EXCEPT ![p] = FALSE]
  /\ cpc' = [cpc EXCEPT ![p] = "recv"]
  /\ UNCHANGED <<toClient, open, use_ip_time, alarm, release_flag, registered>>

\* Both flags are set: ip_extension_msg() leaves IN_USE, so no release().
ExtendAndExit(p) ==
  /\ AtFlags(p)
  /\ WantsExtension(p)
  /\ release_flag[p]
  /\ toServer' = Sent(p, Extension(p))
  /\ Exit(p)

\* release() names the address; ttl and netmask are cleared.
ReleaseMessage(p) ==
  [dhcph_packet[p] EXCEPT !.type = RELEASE, !.code = 0, !.ttl = 0, !.netmask = Zero]

ReleaseAndExit(p) ==
  /\ AtFlags(p)
  /\ ~WantsExtension(p)
  /\ release_flag[p]
  /\ toServer' = IF stat[p] = IN_USE THEN Sent(p, ReleaseMessage(p)) ELSE toServer
  /\ Exit(p)

Proceed(p) ==
  /\ AtFlags(p)
  /\ ~WantsExtension(p)
  /\ ~release_flag[p]
  /\ ttl_flag' = [ttl_flag EXCEPT ![p] = FALSE]
  /\ cpc' = [cpc EXCEPT ![p] = "recv"]
  /\ UNCHANGED <<toServer, toClient, open, stat, dhcph_packet, use_ip_time, age,
                 alarm, release_flag, registered>>

-----------------------------------------------------------------------------
\* recvfrom() and the switch on stat, one action per outcome.  A code that
\* mydhcpd never puts into an OFFER or an ACK has no branch here.
Received(p) == Head(toClient[p])

Takes(p) ==
  /\ p \in open
  /\ cpc[p] = "recv"
  /\ toClient[p] # << >>

\* What every outcome but exit() shares.
Consume(p) ==
  /\ toClient' = [toClient EXCEPT ![p] = Tail(@)]
  /\ cpc' = [cpc EXCEPT ![p] = "top"]
  /\ UNCHANGED <<open, ttl_flag, release_flag>>

WaitsForOffer(p) == stat[p] \in {WAIT_OFFER, WAIT_OFFER_AGAIN}
WaitsForAck(p) == stat[p] \in {WAIT_ACK, WAIT_ACK_AGAIN}
WaitsForExtAck(p) == stat[p] \in {WAIT_EXT_ACK, WAIT_EXT_ACK_AGAIN}

\* Slip: the code of the OFFER is left in the packet.
AcceptSlip(m) == [m EXCEPT !.type = REQUEST]

\* OFFER: the same packet goes back as a REQUEST for the address.
Accept(m) == [m EXCEPT !.type = REQUEST, !.code = RequestAlloc]

RecvOffer(p) ==
  /\ Takes(p)
  /\ WaitsForOffer(p)
  /\ Received(p).type = OFFER
  /\ Received(p).code = OfferOk
  /\ use_ip_time' = [use_ip_time EXCEPT ![p] = Ntohs(Received(p).ttl)]
  /\ Send(p, Accept(Received(p)))
  /\ stat' = [stat EXCEPT ![p] = WAIT_ACK]
  /\ age' = [age EXCEPT ![p] = 0]
  /\ Consume(p)
  /\ UNCHANGED <<alarm, registered>>

\* Slip: the extension is asked for at the end of the lease.
HalfTimeSlip(p) == IF use_ip_time[p] = 0 THEN OFF ELSE use_ip_time[p]

\* setitimer_ttl(use_ip_time / 2); zero seconds disarms the timer.
HalfTime(p) == IF use_ip_time[p] \div 2 = 0 THEN OFF ELSE use_ip_time[p] \div 2

RecvAck(p) ==
  /\ Takes(p)
  /\ WaitsForAck(p) \/ WaitsForExtAck(p)
  /\ Received(p).type = ACK
  /\ Received(p).code = AckOk
  /\ alarm' = [alarm EXCEPT ![p] = HalfTime(p)]
  /\ registered' = [registered EXCEPT ![p] = @ \/ WaitsForAck(p)]
  /\ stat' = [stat EXCEPT ![p] = IN_USE]
  /\ dhcph_packet' = [dhcph_packet EXCEPT ![p] = Received(p)]
  /\ age' = [age EXCEPT ![p] = 0]
  /\ Consume(p)
  /\ UNCHANGED <<toServer, use_ip_time>>

\* OFFER with code 1 or ACK with code 4.
RecvRefusal(p) ==
  /\ Takes(p)
  /\ \/ /\ WaitsForOffer(p)
        /\ Received(p).type = OFFER
        /\ Received(p).code = OfferNone
     \/ /\ WaitsForAck(p) \/ WaitsForExtAck(p)
        /\ Received(p).type = ACK
        /\ Received(p).code = AckRefused
  /\ Exit(p)
  /\ UNCHANGED toServer

\* A message of the wrong type: the state is "exiting", but the loop goes on.
WrongType(p) ==
  \/ WaitsForOffer(p) /\ Received(p).type # OFFER
  \/ (WaitsForAck(p) \/ WaitsForExtAck(p)) /\ Received(p).type # ACK

RecvWrongType(p) ==
  /\ Takes(p)
  /\ WrongType(p)
  /\ stat' = [stat EXCEPT ![p] = EXITING]
  /\ dhcph_packet' = [dhcph_packet EXCEPT ![p] = Received(p)]
  /\ age' = [age EXCEPT ![p] = 0]
  /\ Consume(p)
  /\ UNCHANGED <<toServer, use_ip_time, alarm, registered>>

\* In IN_USE and "exiting" the switch has no case: only the buffer changes.
RecvNoCase(p) ==
  /\ Takes(p)
  /\ stat[p] \in {IN_USE, EXITING}
  /\ dhcph_packet' = [dhcph_packet EXCEPT ![p] = Received(p)]
  /\ Consume(p)
  /\ UNCHANGED <<toServer, stat, use_ip_time, age, alarm, registered>>

NothingToRecv(p) ==
  /\ p \in open
  /\ cpc[p] = "recv"
  /\ toClient[p] = << >>
  /\ cpc' = [cpc EXCEPT ![p] = "top"]
  /\ UNCHANGED <<queueVars, stat, dhcph_packet, use_ip_time, age, alarm,
                 ttl_flag, release_flag, registered>>

ClientStep(p) ==
  \/ Resend(p)
  \/ GiveUp(p)
  \/ Extend(p)
  \/ ExtendAndExit(p)
  \/ ReleaseAndExit(p)
  \/ Proceed(p)
  \/ RecvOffer(p)
  \/ RecvAck(p)
  \/ RecvRefusal(p)
  \/ RecvWrongType(p)
  \/ RecvNoCase(p)
  \/ NothingToRecv(p)

-----------------------------------------------------------------------------
\* SIGHUP after the first ACK: release_flag_set().
Hangup(p) ==
  /\ p \in open
  /\ registered[p]
  /\ stat[p] = IN_USE
  /\ release_flag' = [release_flag EXCEPT ![p] = TRUE]
  /\ UNCHANGED <<queueVars, stat, dhcph_packet, use_ip_time, age, alarm,
                 ttl_flag, registered, cpc>>

\* SIGHUP before it: the default action ends the process.
KilledByHangup(p) ==
  /\ p \in open
  /\ ~registered[p]
  /\ Exit(p)
  /\ UNCHANGED toServer

\* SIGALRM: ttl_count_flag(); the timer is periodic.
ClientAlarm(p) ==
  /\ alarm[p] = 0
  /\ alarm' = [alarm EXCEPT ![p] = HalfTime(p)]
  /\ ttl_flag' = [ttl_flag EXCEPT ![p] = TRUE]
  /\ UNCHANGED <<queueVars, stat, dhcph_packet, use_ip_time, age,
                 release_flag, registered, cpc>>

\* The next second starts.
ClientTick ==
  /\ \A p \in Procs : alarm[p] # 0
  /\ alarm' = [p \in Procs |-> IF alarm[p] = OFF THEN OFF ELSE alarm[p] - 1]
  /\ age' = [p \in Procs |->
               IF (WaitsFirst(p) \/ WaitsAgain(p)) /\ age[p] < Timeout
                 THEN age[p] + 1 ELSE age[p]]
  /\ UNCHANGED <<stat, dhcph_packet, use_ip_time, ttl_flag, release_flag,
                 registered, cpc>>
=============================================================================
