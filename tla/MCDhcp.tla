------------------------------- MODULE MCDhcp -------------------------------
(***************************************************************************)
(* Small instances of Dhcp.  config_file and the programs have 20 seconds  *)
(* of lease and 10 of timeout.  Instances with a loss where the lease must *)
(* survive have a little more, 5 and 2: at exactly twice the timeout the   *)
(* repeated extension and the end of the lease fall into the same second.  *)
(***************************************************************************)
EXTENDS Dhcp

CONSTANTS p1, p2, p3, h1, h2, a1, a2, m1

HostsApart == [p \in {p1, p2} |-> IF p = p1 THEN h1 ELSE h2]
Restarted == [p \in {p1, p2, p3} |-> IF p = p3 THEN h2 ELSE h1]
OneClient == [p \in {p1} |-> h1]
OneAddress == <<[ip |-> a1, netmask |-> m1]>>
=============================================================================
