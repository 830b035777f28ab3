------------------------------ MODULE DhcpNet ------------------------------
(***************************************************************************)
(* The datagrams that mydhcpd and mydhcpc exchange and the UDP network     *)
(* between them.  A datagram is a struct dhcph; its ttl field is kept as   *)
(* the raw 16-bit value both programs store and compare, that is, in       *)
(* network byte order on a little-endian machine.                          *)
(*                                                                         *)
(* The network is code outside src/: it is modelled from how the two       *)
(* programs use it.  A datagram to a full socket buffer, or to a port that *)
(* no process has open, is dropped; a datagram in flight may be lost or    *)
(* duplicated.                                                             *)
(***************************************************************************)
EXTENDS Integers, SequencesExt

CONSTANTS
  Procs,      \* the client processes, each with a UDP port of its own
  Hosts,      \* the machines they run on
  HostOf,     \* the machine of each process: a source address, not a port
  Addrs,      \* the IP addresses of the address pool
  Masks,      \* the netmasks that go with them
  Zero,       \* 0.0.0.0
  Timeout,    \* seconds without an answer before a repeat, 10 in both programs
  QueueCap,   \* the datagrams a socket buffer holds
  MaxLost,    \* how many datagrams the network may lose
  MaxDup      \* how many it may duplicate

ASSUME NetAssumption ==
  /\ HostOf \in [Procs -> Hosts]
  /\ Timeout \in Nat \ {0}
  /\ QueueCap \in Nat \ {0}
  /\ MaxLost \in Nat
  /\ MaxDup \in Nat

VARIABLES
  toServer,   \* the server's socket buffer: [from, pkt] in arrival order
  toClient,   \* the socket buffer of each client process
  open,       \* the client processes whose socket exists
  lost,       \* datagrams lost so far
  dup         \* datagrams duplicated so far

queueVars == <<toServer, toClient, open>>
faultVars == <<lost, dup>>
netVars == <<queueVars, faultVars>>

-----------------------------------------------------------------------------
\* The type field and the code field of struct dhcph.
DISCOVER == 1
OFFER    == 2
REQUEST  == 3
ACK      == 4
RELEASE  == 5

OfferOk      == 0
OfferNone    == 1
RequestAlloc == 2
RequestExt   == 3
AckOk        == 0
AckRefused   == 4

MaxUint16 == 65535
Uint8  == 0 .. 255
Uint16 == 0 .. MaxUint16

\* htons and ntohs on a little-endian machine: the two bytes swapped.
Htons(n) == (n % 256) * 256 + n \div 256
Ntohs(n) == Htons(n)

\* struct dhcph
Packets == [type : Uint8, code : Uint8, ttl : Uint16,
            address : Addrs \cup {Zero}, netmask : Masks \cup {Zero}]

Datagrams == [from : Procs, pkt : Packets]

NetTypeOK ==
  /\ toServer \in Seq(Datagrams)
  /\ toClient \in [Procs -> Seq(Packets)]
  /\ open \subseteq Procs
  /\ lost \in 0 .. MaxLost
  /\ dup \in 0 .. MaxDup

NetInit ==
  /\ toServer = << >>
  /\ toClient = [p \in Procs |-> << >>]
  /\ open = {}
  /\ lost = 0
  /\ dup = 0

-----------------------------------------------------------------------------
Enqueue(q, m) == IF Len(q) < QueueCap THEN Append(q, m) ELSE q

\* sendto() of one datagram to each process that mail has an entry for.
Delivered(mail) ==
  [p \in Procs |-> IF p \in DOMAIN mail /\ p \in open
                     THEN Enqueue(toClient[p], mail[p])
                     ELSE toClient[p]]

Mail(p, m) == [q \in {p} |-> m]

\* sendto() from a client process to the server's port.
Sent(p, m) == Enqueue(toServer, [from |-> p, pkt |-> m])

\* A datagram in flight is lost.
LoseRequest ==
  /\ lost < MaxLost
  /\ \E i \in DOMAIN toServer : toServer' = RemoveAt(toServer, i)
  /\ lost' = lost + 1
  /\ UNCHANGED <<toClient, open, dup>>

LoseReply ==
  /\ lost < MaxLost
  /\ \E p \in Procs : \E i \in DOMAIN toClient[p] :
        toClient' = [toClient EXCEPT ![p] = RemoveAt(@, i)]
  /\ lost' = lost + 1
  /\ UNCHANGED <<toServer, open, dup>>

\* A datagram in flight is delivered twice, the copy behind what was sent since.
DuplicateRequest ==
  /\ dup < MaxDup
  /\ \E i \in DOMAIN toServer : toServer' = Enqueue(toServer, toServer[i])
  /\ dup' = dup + 1
  /\ UNCHANGED <<toClient, open, lost>>

DuplicateReply ==
  /\ dup < MaxDup
  /\ \E p \in Procs : \E i \in DOMAIN toClient[p] :
        toClient' = [toClient EXCEPT ![p] = Enqueue(@, toClient[p][i])]
  /\ dup' = dup + 1
  /\ UNCHANGED <<toServer, open, lost>>

Network == LoseRequest \/ LoseReply \/ DuplicateRequest \/ DuplicateReply
=============================================================================
