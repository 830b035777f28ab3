--------------------------- MODULE AddressLeases ---------------------------
(***************************************************************************)
(* What mydhcpd promises, without lists, datagrams, timers or a loop: the  *)
(* state diagram each client goes through at the server, and the address   *)
(* it has on the way.  DhcpServer implements it.                           *)
(*                                                                         *)
(*   NULL --offer--> WAIT_REQ --timeout--> WAIT_REQ_AGAIN                  *)
(*   WAIT_REQ, WAIT_REQ_AGAIN --request--> IN_USE                          *)
(*   any of the three --recall--> NULL                                     *)
(*                                                                         *)
(* A host keeps its address from the offer to the recall, and no address   *)
(* has two hosts.                                                          *)
(***************************************************************************)
EXTENDS Naturals

CONSTANTS Hosts, Pool, NoAddr

VARIABLES
  stat,    \* the state of each host, numbered as in mydhcpd.c; 0 is NULL
  lease    \* the address of each host

vars == <<stat, lease>>

NULL           == 0
WAIT_REQ       == 2
IN_USE         == 3
WAIT_REQ_AGAIN == 4

Init ==
  /\ stat = [h \in Hosts |-> NULL]
  /\ lease = [h \in Hosts |-> NoAddr]

Free == Pool \ {lease[h] : h \in Hosts}

Offer(h) ==
  /\ stat[h] = NULL
  /\ stat' = [stat EXCEPT ![h] = WAIT_REQ]
  /\ \E a \in Free : lease' = [lease EXCEPT ![h] = a]

Grant(h) ==
  /\ stat[h] \in {WAIT_REQ, WAIT_REQ_AGAIN}
  /\ stat' = [stat EXCEPT ![h] = IN_USE]
  /\ UNCHANGED lease

Recall(h) ==
  /\ stat[h] # NULL
  /\ stat' = [stat EXCEPT ![h] = NULL]
  /\ lease' = [lease EXCEPT ![h] = NoAddr]

\* One pass over the hosts: some offers are repeated, and at most one host
\* that did not answer the repeated offer loses its address.
TimeoutPass ==
  \E again, gone \in SUBSET Hosts :
    /\ \A h \in again : stat[h] = WAIT_REQ
    /\ \A h \in gone : stat[h] = WAIT_REQ_AGAIN
    /\ \A g, h \in gone : g = h
    /\ stat' = [h \in Hosts |-> IF h \in again THEN WAIT_REQ_AGAIN
                                ELSE IF h \in gone THEN NULL ELSE stat[h]]
    /\ lease' = [h \in Hosts |-> IF h \in gone THEN NoAddr ELSE lease[h]]

Next ==
  \/ \E h \in Hosts : Offer(h) \/ Grant(h) \/ Recall(h)
  \/ TimeoutPass

Spec == Init /\ [][Next]_vars
=============================================================================
