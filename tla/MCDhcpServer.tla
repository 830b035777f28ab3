---------------------------- MODULE MCDhcpServer ----------------------------
(***************************************************************************)
(* Small instances of DhcpServer.  Htons(n) of a small n is 256 * n, and a *)
(* raw ttl of 1 stands for a request of 256 seconds.                       *)
(***************************************************************************)
EXTENDS DhcpServer

CONSTANTS p1, p2, h1, h2, a1, a2, m1, m2

TwoHosts == [p \in {p1, p2} |-> IF p = p1 THEN h1 ELSE h2]
OneAddress == <<[ip |-> a1, netmask |-> m1]>>
TwoAddresses == <<[ip |-> a1, netmask |-> m1], [ip |-> a2, netmask |-> m2]>>

Message(type, code, ttl, a) ==
  [type |-> type, code |-> code, ttl |-> ttl,
   address |-> a.ip, netmask |-> a.netmask]
Nothing == [ip |-> Zero, netmask |-> Zero]
Pooled == ToSet(PoolConfig)

\* What the clients can send when they ask for the time they were offered.
ClientPackets ==
  {Message(DISCOVER, 0, 0, Nothing)}
    \cup {Message(REQUEST, c, Htons(UseIpTime), a) :
            c \in {RequestAlloc, RequestExt}, a \in Pooled}
    \cup {Message(RELEASE, 0, 0, [a EXCEPT !.netmask = Zero]) : a \in Pooled}

\* The same with REQUESTs for another time, 256 seconds or none.
OtherTimePackets ==
  ClientPackets \cup {Message(REQUEST, c, t, a) :
     c \in {RequestAlloc, RequestExt}, t \in {0, 1}, a \in Pooled}
=============================================================================
