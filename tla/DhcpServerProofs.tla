-------------------------- MODULE DhcpServerProofs --------------------------
(***************************************************************************)
(* The address lists and the client records of mydhcpd stay consistent,    *)
(* whatever datagrams arrive and however the clocks run: for any set of    *)
(* hosts, any pool, any lease time and any EnvPackets.  On that rest the   *)
(* two other parts: DhcpServer implements AddressLeases, and what each     *)
(* step does to the time that a lease has left.                            *)
(***************************************************************************)
EXTENDS DhcpServer, SeqLemmas

\* The three invariants as conditions on any two lists and any records.
Conserved(p, u) ==
  /\ DistinctIps(p)
  /\ DistinctIps(u)
  /\ \A i \in DOMAIN p, j \in DOMAIN u : p[i].ip # u[j].ip
  /\ ToSet(p) \cup ToSet(u) = ToSet(PoolConfig)

Matches(u, c) ==
  /\ \A i, j \in DOMAIN c : c[i].addr = c[j].addr => i = j
  /\ {AddressOf(c[i]) : i \in DOMAIN c} = ToSet(u)

OnePerHost(c) == \A i, j \in DOMAIN c : c[i].id = c[j].id => i = j

Consistent(p, u, c) == Conserved(p, u) /\ Matches(u, c) /\ OnePerHost(c)

\* What a pass over the records may change of one: not whose it is, nor the
\* address.
SameLease(c, d) == c.id = d.id /\ c.addr = d.addr /\ c.netmask = d.netmask

IInv == TypeOK /\ Consistent(pool, useList, clients)

-----------------------------------------------------------------------------
\* Moving one address between the lists.

LEMMA RecalledAddress ==
  ASSUME NEW p \in Seq(IpMasks), NEW u \in Seq(IpMasks), Conserved(p, u),
         NEW k \in DOMAIN u
  PROVE  Conserved(Append(p, u[k]), RemoveAt(u, k))
<1> DEFINE q == Append(p, u[k])
           v == RemoveAt(u, k)
<1>1. Len(u) \in Nat /\ Len(p) \in Nat /\ k \in 1 .. Len(u) /\ u[k] \in IpMasks
  OBVIOUS
<1>2. /\ v \in Seq(IpMasks)
      /\ Len(v) = Len(u) - 1
      /\ \A j \in 1 .. Len(u) - 1 : v[j] = u[Before(k, j)]
      /\ ToSet(u) = ToSet(v) \cup {u[k]}
  BY <1>1, RemoveAtProperties, RemoveAtElements
<1>3. /\ q \in Seq(IpMasks)
      /\ Len(q) = Len(p) + 1
      /\ \A j \in 1 .. Len(p) : q[j] = p[j]
      /\ q[Len(p) + 1] = u[k]
      /\ ToSet(q) = ToSet(p) \cup {u[k]}
  BY <1>1, AppendElements
<1>4. /\ \A j \in 1 .. Len(u) - 1 : Before(k, j) \in 1 .. Len(u) /\ Before(k, j) # k
      /\ \A i, j \in 1 .. Len(u) - 1 : Before(k, i) = Before(k, j) => i = j
  BY <1>1, BeforeProperties
<1> HIDE DEF q, v
<1>5. /\ DOMAIN p = 1 .. Len(p)
      /\ DOMAIN u = 1 .. Len(u)
      /\ DOMAIN v = 1 .. Len(u) - 1
      /\ DOMAIN q = 1 .. Len(p) + 1
  BY <1>2, <1>3
<1>6. DistinctIps(q)
  BY <1>1, <1>3, <1>5 DEF Conserved, DistinctIps
<1>7. DistinctIps(v)
  <2> SUFFICES ASSUME NEW i \in DOMAIN v, NEW j \in DOMAIN v, v[i].ip = v[j].ip
               PROVE  i = j
    BY DEF DistinctIps
  <2>1. /\ v[i] = u[Before(k, i)] /\ Before(k, i) \in DOMAIN u
        /\ v[j] = u[Before(k, j)] /\ Before(k, j) \in DOMAIN u
    BY <1>2, <1>4, <1>5
  <2>2. Before(k, i) = Before(k, j)
    BY <2>1 DEF Conserved, DistinctIps
  <2> QED
    BY <1>4, <1>5, <2>2
<1>8. \A i \in DOMAIN q, j \in DOMAIN v : q[i].ip # v[j].ip
  <2> SUFFICES ASSUME NEW i \in DOMAIN q, NEW j \in DOMAIN v
               PROVE  q[i].ip # v[j].ip
    OBVIOUS
  <2>1. /\ v[j] = u[Before(k, j)]
        /\ Before(k, j) \in DOMAIN u
        /\ Before(k, j) # k
    BY <1>2, <1>4, <1>5
  <2>2. (i \in DOMAIN p /\ q[i] = p[i]) \/ q[i] = u[k]
    BY <1>1, <1>3, <1>5
  <2> QED
    BY <2>1, <2>2 DEF Conserved, DistinctIps
<1>9. ToSet(q) \cup ToSet(v) = ToSet(PoolConfig)
  BY <1>2, <1>3 DEF Conserved
<1> QED
  BY <1>6, <1>7, <1>8, <1>9 DEF Conserved, q, v

LEMMA OfferedAddress ==
  ASSUME NEW p \in Seq(IpMasks), NEW u \in Seq(IpMasks), Conserved(p, u),
         p # << >>
  PROVE  Conserved(Tail(p), Append(u, Head(p)))
<1> DEFINE q == Tail(p)
           v == Append(u, Head(p))
<1>1. /\ Head(p) \in IpMasks
      /\ Head(p) = p[1]
      /\ 1 \in DOMAIN p
      /\ q \in Seq(IpMasks)
      /\ Len(q) = Len(p) - 1
      /\ \A j \in 1 .. Len(p) - 1 : q[j] = p[j + 1]
      /\ ToSet(p) = ToSet(q) \cup {Head(p)}
  BY TailElements
<1>2. /\ v \in Seq(IpMasks)
      /\ Len(v) = Len(u) + 1
      /\ \A j \in 1 .. Len(u) : v[j] = u[j]
      /\ v[Len(u) + 1] = p[1]
      /\ ToSet(v) = ToSet(u) \cup {Head(p)}
  BY <1>1, AppendElements
<1> HIDE DEF q, v
<1>3. Len(u) \in Nat /\ Len(p) \in Nat \ {0}
  BY <1>1
<1>4. /\ DOMAIN p = 1 .. Len(p)
      /\ DOMAIN u = 1 .. Len(u)
      /\ DOMAIN q = 1 .. Len(p) - 1
      /\ DOMAIN v = 1 .. Len(u) + 1
  BY <1>1, <1>2
<1>5. \A j \in DOMAIN q : j + 1 \in DOMAIN p /\ j + 1 # 1 /\ q[j] = p[j + 1]
  BY <1>1, <1>3, <1>4
<1>6. \A j \in DOMAIN v : (j \in DOMAIN u /\ v[j] = u[j]) \/ (j = Len(u) + 1 /\ v[j] = p[1])
  BY <1>2, <1>3, <1>4
<1>7. DistinctIps(q)
  <2> SUFFICES ASSUME NEW i \in DOMAIN q, NEW j \in DOMAIN q, q[i].ip = q[j].ip
               PROVE  i = j
    BY DEF DistinctIps
  <2>1. i + 1 = j + 1
    BY <1>5 DEF Conserved, DistinctIps
  <2> QED
    BY <1>4, <2>1
<1>8. DistinctIps(v)
  BY <1>1, <1>6 DEF Conserved, DistinctIps
<1>9. \A i \in DOMAIN q, j \in DOMAIN v : q[i].ip # v[j].ip
  BY <1>1, <1>5, <1>6, SMTT(30) DEF Conserved, DistinctIps
<1>10. ToSet(q) \cup ToSet(v) = ToSet(PoolConfig)
  BY <1>1, <1>2 DEF Conserved
<1> QED
  BY <1>7, <1>8, <1>9, <1>10 DEF Conserved, q, v

-----------------------------------------------------------------------------
\* Adding and removing the record that goes with the address.

LEMMA RemovedRecord ==
  ASSUME NEW u \in Seq(IpMasks), NEW c \in Seq(ClientRecords),
         DistinctIps(u), Matches(u, c), OnePerHost(c),
         NEW k \in DOMAIN u, NEW m \in DOMAIN c, u[k].ip = c[m].addr
  PROVE  Matches(RemoveAt(u, k), RemoveAt(c, m)) /\ OnePerHost(RemoveAt(c, m))
<1> DEFINE d == RemoveAt(c, m)
           v == RemoveAt(u, k)
<1>1. /\ Len(c) \in Nat /\ m \in 1 .. Len(c)
      /\ Len(u) \in Nat /\ k \in 1 .. Len(u)
  OBVIOUS
<1>2. /\ d \in Seq(ClientRecords)
      /\ Len(d) = Len(c) - 1
      /\ \A j \in 1 .. Len(c) - 1 : d[j] = c[Before(m, j)]
  BY <1>1, RemoveAtProperties
<1>3. /\ v \in Seq(IpMasks)
      /\ Len(v) = Len(u) - 1
      /\ \A j \in 1 .. Len(u) - 1 : v[j] = u[Before(k, j)]
  BY <1>1, RemoveAtProperties
<1>3a. ToSet(u) = ToSet(v) \cup {u[k]}
  BY <1>1, RemoveAtElements
<1>4. /\ \A j \in 1 .. Len(c) - 1 : Before(m, j) \in 1 .. Len(c) /\ Before(m, j) # m
      /\ \A i, j \in 1 .. Len(c) - 1 : Before(m, i) = Before(m, j) => i = j
      /\ \A i \in 1 .. Len(c) : i # m => \E j \in 1 .. Len(c) - 1 : Before(m, j) = i
  BY <1>1, BeforeProperties
<1>5. \A j \in 1 .. Len(u) - 1 : Before(k, j) \in 1 .. Len(u) /\ Before(k, j) # k
  BY <1>1, BeforeProperties
<1> HIDE DEF d, v
<1>6. /\ DOMAIN c = 1 .. Len(c)
      /\ DOMAIN d = 1 .. Len(c) - 1
      /\ DOMAIN u = 1 .. Len(u)
      /\ DOMAIN v = 1 .. Len(u) - 1
  BY <1>2, <1>3
<1>6a. \A j \in DOMAIN d : d[j] = c[Before(m, j)] /\ Before(m, j) \in DOMAIN c
  BY <1>2, <1>4, <1>6
<1>7. ASSUME NEW i \in DOMAIN d, NEW j \in DOMAIN d,
             d[i].addr = d[j].addr \/ d[i].id = d[j].id
      PROVE  i = j
  <2>1. Before(m, i) = Before(m, j)
    BY <1>6a, <1>7 DEF Matches, OnePerHost
  <2> QED
    BY <1>4, <1>6, <2>1
<1>8. OnePerHost(d)
  BY <1>7 DEF OnePerHost
<1>9. u[k] \notin ToSet(v)
  <2> SUFFICES ASSUME NEW j \in DOMAIN v, v[j] = u[k] PROVE FALSE
    BY DEF ToSet
  <2>1. v[j] = u[Before(k, j)] /\ Before(k, j) \in DOMAIN u /\ Before(k, j) # k
    BY <1>3, <1>5, <1>6
  <2> QED
    BY <2>1 DEF DistinctIps
<1>10. AddressOf(c[m]) = u[k]
  <2>1. AddressOf(c[m]) \in ToSet(u)
    BY DEF Matches
  <2>2. PICK j \in DOMAIN u : u[j] = AddressOf(c[m])
    BY <2>1 DEF ToSet
  <2>3. u[j].ip = u[k].ip
    BY <2>2 DEF AddressOf
  <2> QED
    BY <2>2, <2>3 DEF DistinctIps
<1>11. \A j \in DOMAIN d : AddressOf(d[j]) # u[k] /\ AddressOf(d[j]) \in ToSet(u)
  <2> SUFFICES ASSUME NEW j \in DOMAIN d
               PROVE  AddressOf(d[j]) # u[k] /\ AddressOf(d[j]) \in ToSet(u)
    OBVIOUS
  <2>1. d[j] = c[Before(m, j)] /\ Before(m, j) \in DOMAIN c /\ Before(m, j) # m
    BY <1>2, <1>4, <1>6
  <2>2. AddressOf(d[j]).ip # u[k].ip
    BY <2>1 DEF Matches, AddressOf
  <2> QED
    BY <2>1, <2>2 DEF Matches
<1>12. \A a \in ToSet(v) : \E j \in DOMAIN d : a = AddressOf(d[j])
  <2> SUFFICES ASSUME NEW a \in ToSet(v)
               PROVE  \E j \in DOMAIN d : a = AddressOf(d[j])
    OBVIOUS
  <2>1. a \in {AddressOf(c[i]) : i \in DOMAIN c} /\ a # u[k]
    BY <1>3a, <1>9 DEF Matches
  <2>2. PICK i \in DOMAIN c : a = AddressOf(c[i])
    BY <2>1
  <2>3. i # m
    BY <1>10, <2>1, <2>2
  <2>4. PICK j \in DOMAIN d : Before(m, j) = i
    BY <1>4, <1>6, <2>3
  <2> QED
    BY <1>2, <1>6, <2>2, <2>4
<1>13. {AddressOf(d[j]) : j \in DOMAIN d} = ToSet(v)
  BY <1>3a, <1>11, <1>12
<1> QED
  BY <1>7, <1>8, <1>13 DEF Matches, d, v

LEMMA AddedRecord ==
  ASSUME NEW u \in Seq(IpMasks), NEW c \in Seq(ClientRecords),
         Matches(u, c), OnePerHost(c),
         NEW a \in IpMasks, \A i \in DOMAIN u : u[i].ip # a.ip,
         NEW r \in ClientRecords, AddressOf(r) = a,
         \A i \in DOMAIN c : c[i].id # r.id
  PROVE  Matches(Append(u, a), Append(c, r)) /\ OnePerHost(Append(c, r))
<1> DEFINE d == Append(c, r)
           v == Append(u, a)
<1>1. /\ d \in Seq(ClientRecords)
      /\ Len(d) = Len(c) + 1
      /\ \A j \in 1 .. Len(c) : d[j] = c[j]
      /\ d[Len(c) + 1] = r
  BY AppendElements
<1>2. ToSet(v) = ToSet(u) \cup {a}
  BY AppendElements
<1> HIDE DEF d, v
<1>3. /\ Len(c) \in Nat
      /\ DOMAIN c = 1 .. Len(c)
      /\ DOMAIN d = 1 .. Len(c) + 1
  BY <1>1
<1>4. \A j \in DOMAIN d : (j \in DOMAIN c /\ d[j] = c[j]) \/ (j = Len(c) + 1 /\ d[j] = r)
  BY <1>1, <1>3
<1>5. \A i \in DOMAIN c : i \in DOMAIN d /\ d[i] = c[i]
  BY <1>1, <1>3
<1>6. \A i \in DOMAIN c : c[i].addr # r.addr
  <2> SUFFICES ASSUME NEW i \in DOMAIN c, c[i].addr = r.addr PROVE FALSE
    OBVIOUS
  <2>1. AddressOf(c[i]) \in ToSet(u)
    BY DEF Matches
  <2>2. PICK j \in DOMAIN u : u[j] = AddressOf(c[i])
    BY <2>1 DEF ToSet
  <2>3. u[j].ip = a.ip
    BY <2>2 DEF AddressOf
  <2> QED
    BY <2>3
<1>7. \A i, j \in DOMAIN d : d[i].addr = d[j].addr => i = j
  BY <1>4, <1>6 DEF Matches
<1>8. OnePerHost(d)
  BY <1>4 DEF OnePerHost
<1>9. {AddressOf(d[j]) : j \in DOMAIN d} = {AddressOf(c[j]) : j \in DOMAIN c} \cup {a}
  <2>1. Len(c) + 1 \in DOMAIN d /\ d[Len(c) + 1] = r
    BY <1>1, <1>3
  <2>2. \A j \in DOMAIN d : AddressOf(d[j]) \in {AddressOf(c[i]) : i \in DOMAIN c} \cup {a}
    BY <1>4
  <2>3. \A j \in DOMAIN c : AddressOf(c[j]) \in {AddressOf(d[i]) : i \in DOMAIN d}
    BY <1>5
  <2>4. a \in {AddressOf(d[i]) : i \in DOMAIN d}
    BY <2>1
  <2> QED
    BY <2>2, <2>3, <2>4
<1> QED
  BY <1>2, <1>7, <1>8, <1>9 DEF Matches, d, v

-----------------------------------------------------------------------------
\* remove_ipmask_use_list() and release_client() together, on the records as
\* the pass before them left them.

LEMMA RecallIpEffect ==
  ASSUME useList \in Seq(IpMasks), NEW ip, RecallIp(ip)
  PROVE  \/ /\ \A i \in DOMAIN useList : useList[i].ip # ip
            /\ pool' = pool
            /\ useList' = useList
         \/ \E k \in DOMAIN useList :
              /\ useList[k].ip = ip
              /\ pool' = Append(pool, useList[k])
              /\ useList' = RemoveAt(useList, k)
<1>1. CASE UsedAt(ip) = {}
  BY <1>1 DEF RecallIp, UsedAt
<1>2. CASE UsedAt(ip) # {}
  <2>1. UsedAt(ip) \subseteq Nat
    BY DEF UsedAt
  <2>2. Min(UsedAt(ip)) \in UsedAt(ip)
    BY <1>2, <2>1, MinProperties
  <2> QED
    BY <1>2, <2>2 DEF RecallIp, UsedAt
<1> QED
  BY <1>1, <1>2

LEMMA ReleaseClientEffect ==
  ASSUME NEW c \in Seq(ClientRecords), NEW ip
  PROVE  \/ /\ \A i \in DOMAIN c : c[i].addr # ip
            /\ ReleaseClient(c, ip) = c
         \/ \E m \in DOMAIN c : /\ c[m].addr = ip
                                /\ ReleaseClient(c, ip) = RemoveAt(c, m)
<1>1. CASE HoldersAt(c, ip) = {}
  BY <1>1 DEF ReleaseClient, HoldersAt
<1>2. CASE HoldersAt(c, ip) # {}
  <2>1. HoldersAt(c, ip) \subseteq Nat
    BY DEF HoldersAt
  <2>2. Min(HoldersAt(c, ip)) \in HoldersAt(c, ip)
    BY <1>2, <2>1, MinProperties
  <2> QED
    BY <1>2, <2>2 DEF ReleaseClient, HoldersAt
<1> QED
  BY <1>1, <1>2

\* A pass that keeps every lease keeps the lists consistent.
LEMMA SameLeases ==
  ASSUME NEW p, NEW u, NEW c \in Seq(ClientRecords), Consistent(p, u, c),
         NEW d \in Seq(ClientRecords), Len(d) = Len(c),
         \A i \in DOMAIN c : SameLease(d[i], c[i])
  PROVE  Consistent(p, u, d)
<1>1. DOMAIN d = DOMAIN c
  <2>1. DOMAIN d = 1 .. Len(d) /\ DOMAIN c = 1 .. Len(c)
    OBVIOUS
  <2> QED
    BY <2>1
<1>2. \A i \in DOMAIN c : AddressOf(d[i]) = AddressOf(c[i])
  BY DEF SameLease, AddressOf
<1>3. {AddressOf(d[i]) : i \in DOMAIN d} = {AddressOf(c[i]) : i \in DOMAIN c}
  BY <1>1, <1>2
<1>4. Matches(u, d)
  BY <1>1, <1>3 DEF Consistent, Matches, SameLease
<1>5. OnePerHost(d)
  BY <1>1 DEF Consistent, OnePerHost, SameLease
<1> QED
  BY <1>4, <1>5 DEF Consistent

LEMMA Recalled ==
  ASSUME pool \in Seq(IpMasks), useList \in Seq(IpMasks),
         NEW c \in Seq(ClientRecords), Consistent(pool, useList, c),
         NEW ip, RecallIp(ip)
  PROVE  /\ pool' \in Seq(IpMasks)
         /\ useList' \in Seq(IpMasks)
         /\ ReleaseClient(c, ip) \in Seq(ClientRecords)
         /\ Consistent(pool', useList', ReleaseClient(c, ip))
<1>1. CASE /\ \A i \in DOMAIN useList : useList[i].ip # ip
           /\ pool' = pool
           /\ useList' = useList
  <2>1. \A m \in DOMAIN c : c[m].addr # ip
    <3> SUFFICES ASSUME NEW m \in DOMAIN c, c[m].addr = ip PROVE FALSE
      OBVIOUS
    <3>1. AddressOf(c[m]) \in ToSet(useList)
      BY DEF Consistent, Matches
    <3>2. PICK i \in DOMAIN useList : useList[i] = AddressOf(c[m])
      BY <3>1 DEF ToSet
    <3> QED
      BY <1>1, <3>2 DEF AddressOf
  <2>2. ReleaseClient(c, ip) = c
    BY <2>1, ReleaseClientEffect
  <2> QED
    BY <1>1, <2>2
<1>2. ASSUME NEW k \in DOMAIN useList,
             useList[k].ip = ip,
             pool' = Append(pool, useList[k]),
             useList' = RemoveAt(useList, k)
      PROVE  /\ pool' \in Seq(IpMasks)
             /\ useList' \in Seq(IpMasks)
             /\ ReleaseClient(c, ip) \in Seq(ClientRecords)
             /\ Consistent(pool', useList', ReleaseClient(c, ip))
  <2>1. PICK m \in DOMAIN c : c[m].addr = ip
    <3>1. useList[k] \in {AddressOf(c[i]) : i \in DOMAIN c}
      BY DEF Consistent, Matches, ToSet
    <3> QED
      BY <1>2, <3>1 DEF AddressOf
  <2>2. PICK n \in DOMAIN c : /\ c[n].addr = ip
                              /\ ReleaseClient(c, ip) = RemoveAt(c, n)
    BY <2>1, ReleaseClientEffect
  <2>3. Conserved(pool', useList')
    BY <1>2, RecalledAddress DEF Consistent
  <2>4. Matches(useList', ReleaseClient(c, ip)) /\ OnePerHost(ReleaseClient(c, ip))
    <3>1. DistinctIps(useList)
      BY DEF Consistent, Conserved
    <3> QED
      BY <1>2, <2>2, <3>1, RemovedRecord DEF Consistent
  <2>5. k \in 1 .. Len(useList) /\ n \in 1 .. Len(c) /\ useList[k] \in IpMasks
    OBVIOUS
  <2>6. useList' \in Seq(IpMasks)
    BY <1>2, <2>5, RemoveAtProperties
  <2>7. ReleaseClient(c, ip) \in Seq(ClientRecords)
    BY <2>2, <2>5, RemoveAtProperties
  <2>8. pool' \in Seq(IpMasks)
    BY <1>2, <2>5, AppendElements
  <2> QED
    BY <2>3, <2>4, <2>6, <2>7, <2>8 DEF Consistent
<1> QED
  BY <1>1, <1>2, RecallIpEffect

\* The two loops over the records, whatever they recall.
LEMMA RecallFirstKeeps ==
  ASSUME pool \in Seq(IpMasks), useList \in Seq(IpMasks),
         clients \in Seq(ClientRecords), Consistent(pool, useList, clients),
         NEW swept \in Seq(ClientRecords), Len(swept) = Len(clients),
         \A i \in DOMAIN clients : SameLease(swept[i], clients[i]),
         NEW due, RecallFirst(due, swept)
  PROVE  /\ pool' \in Seq(IpMasks)
         /\ useList' \in Seq(IpMasks)
         /\ clients' \in Seq(ClientRecords)
         /\ Consistent(pool', useList', clients')
<1>1. Consistent(pool, useList, swept)
  BY SameLeases
<1>2. CASE due = {}
  BY <1>1, <1>2 DEF RecallFirst
<1>3. CASE due # {}
  <2> DEFINE ip == clients[Min(due)].addr
  <2>1. clients' = ReleaseClient(swept, ip) /\ RecallIp(ip)
    BY <1>3 DEF RecallFirst
  <2> HIDE DEF ip
  <2> QED
    BY <1>1, <2>1, Recalled
<1> QED
  BY <1>2, <1>3

-----------------------------------------------------------------------------
\* Types of the operators that the actions are built from.

LEMMA HtonsType ==
  ASSUME NEW n \in Uint16
  PROVE  Htons(n) \in Uint16 /\ Ntohs(n) \in Uint16
<1>1. MaxUint16 \in Nat /\ MaxUint16 = 65535
  BY SMTT(30) DEF MaxUint16
<1>2. n \in Nat /\ n <= MaxUint16
  BY <1>1, SMTT(30) DEF Uint16
<1>3. n <= 65535
  BY <1>1, <1>2
<1>4. n % 256 \in Nat /\ n % 256 <= 255
  BY <1>2
<1>5. n \div 256 \in Nat /\ n \div 256 <= 255
  BY <1>2, <1>3
<1>6. ASSUME NEW a \in Nat, NEW b \in Nat, a <= 255, b <= 255
      PROVE  a * 256 + b \in Nat /\ a * 256 + b <= 65535
  BY <1>6
<1>7. Htons(n) \in Nat /\ Htons(n) <= 65535
  BY <1>4, <1>5, <1>6 DEF Htons
<1>8. Htons(n) <= MaxUint16
  BY <1>1, <1>7
<1>9. MaxUint16 \in Nat
  BY <1>1
<1> QED
  BY <1>7, <1>8, <1>9 DEF Ntohs, Uint16

LEMMA EnqueueType ==
  ASSUME NEW S, NEW q \in Seq(S), NEW m \in S
  PROVE  Enqueue(q, m) \in Seq(S)
BY AppendElements DEF Enqueue

LEMMA DeliveredType ==
  ASSUME toClient \in [Procs -> Seq(Packets)],
         NEW mail, \A p \in DOMAIN mail : mail[p] \in Packets
  PROVE  Delivered(mail) \in [Procs -> Seq(Packets)]
<1>1. ASSUME NEW p \in Procs
      PROVE  (IF p \in DOMAIN mail /\ p \in open
                THEN Enqueue(toClient[p], mail[p]) ELSE toClient[p]) \in Seq(Packets)
  <2>1. toClient[p] \in Seq(Packets)
    OBVIOUS
  <2>2. p \in DOMAIN mail => Enqueue(toClient[p], mail[p]) \in Seq(Packets)
    BY <2>1, EnqueueType
  <2> QED
    BY <2>1, <2>2
<1> QED
  BY <1>1 DEF Delivered

LEMMA OfferForType ==
  ASSUME NEW c \in ClientRecords
  PROVE  OfferFor(c) \in Packets
<1>1. UseIpTime \in Uint16 /\ Htons(UseIpTime) \in Uint16
  BY ServerAssumption, HtonsType
<1>2. c.addr \in Addrs /\ c.netmask \in Masks
  BY DEF ClientRecords
<1> QED
  BY <1>1, <1>2 DEF OfferFor, Packets, Uint8, OFFER, OfferOk

LEMMA RecordType ==
  ASSUME clients \in Seq(ClientRecords), NEW d, Known(d)
  PROVE  /\ RecordAt(d) \in DOMAIN clients
         /\ RecordOf(d) \in ClientRecords
<1>1. RecordsOf(HostOf[d.from]) # {}
  BY DEF Known
<1>2. RecordsOf(HostOf[d.from]) \subseteq Nat
  BY DEF RecordsOf
<1>3. RecordAt(d) \in RecordsOf(HostOf[d.from])
  BY <1>1, <1>2, MinProperties DEF RecordAt
<1>4. RecordAt(d) \in DOMAIN clients
  BY <1>3 DEF RecordsOf
<1> QED
  BY <1>4 DEF RecordOf

-----------------------------------------------------------------------------
\* One lemma per action of the loop.

\* Parts of the state that the actions of the loop disturb or do not.
ListsOK ==
  /\ pool \in Seq(IpMasks)
  /\ useList \in Seq(IpMasks)
  /\ clients \in Seq(ClientRecords)
  /\ Consistent(pool, useList, clients)

LoopOK ==
  /\ ttl_flag \in BOOLEAN
  /\ timer \in TimerStates
  /\ spc \in {"top", "clear", "wait", "recv"}

LEMMA IInvParts == IInv <=> NetTypeOK /\ ListsOK /\ LoopOK
BY DEF IInv, TypeOK, ListsOK, LoopOK

LEMMA TickedType ==
  ASSUME NEW c \in ClientRecords, ~Expired(c)
  PROVE  Ticked(c) \in ClientRecords /\ SameLease(Ticked(c), c)
<1>1. c.ttlcounter \in Uint16
  BY DEF ClientRecords
<1>2. ASSUME c.stat = IN_USE
      PROVE  c.ttlcounter - 1 \in Uint16
  <2>1. ~(c.ttlcounter - 1 < 0)
    BY <1>2 DEF Expired
  <2>2. MaxUint16 \in Nat
    BY DEF MaxUint16
  <2>3. \A n \in Uint16 : ~(n - 1 < 0) => n - 1 \in Uint16
    BY <2>2 DEF Uint16
  <2> QED
    BY <1>1, <2>1, <2>3
<1> QED
  BY <1>2 DEF Ticked, ClientRecords, SameLease

LEMMA ReofferedType ==
  ASSUME NEW c \in ClientRecords
  PROVE  Reoffered(c) \in ClientRecords /\ SameLease(Reoffered(c), c)
<1>1. 0 \in 0 .. Timeout
  BY NetAssumption
<1> QED
  BY <1>1 DEF Reoffered, ClientRecords, SameLease, WAIT_REQ_AGAIN

LEMMA TtlDecrementKeeps == IInv /\ TtlDecrement => IInv'
<1> SUFFICES ASSUME IInv, TtlDecrement PROVE IInv'
  OBVIOUS
<1> DEFINE due == {i \in DOMAIN clients : Expired(clients[i])}
           swept == [i \in DOMAIN clients |->
                       IF Reached(due, i) THEN Ticked(clients[i]) ELSE clients[i]]
<1>1. NetTypeOK /\ ListsOK /\ LoopOK
  BY IInvParts
<1>2. ASSUME NEW i \in DOMAIN clients
      PROVE  swept[i] \in ClientRecords /\ SameLease(swept[i], clients[i])
  <2>1. clients[i] \in ClientRecords /\ i \in Nat
    BY <1>1 DEF ListsOK
  <2>2. CASE Reached(due, i)
    <3>1. ~Expired(clients[i])
      BY <2>1, <2>2 DEF Reached
    <3> QED
      BY <2>1, <2>2, <3>1, TickedType
  <2>3. CASE ~Reached(due, i)
    BY <2>1, <2>3 DEF SameLease
  <2> QED
    BY <2>2, <2>3
<1>3. swept \in Seq(ClientRecords) /\ Len(swept) = Len(clients)
  <2>1. Len(clients) \in Nat /\ DOMAIN clients = 1 .. Len(clients)
    BY <1>1 DEF ListsOK
  <2>2. swept \in [1 .. Len(clients) -> ClientRecords]
    BY <1>2, <2>1
  <2> HIDE DEF swept
  <2> QED
    BY <2>1, <2>2, FunctionIsSequence
<1>4. RecallFirst(due, swept)
  BY DEF TtlDecrement
<1> HIDE DEF due, swept
<1>5. ListsOK'
  BY <1>1, <1>2, <1>3, <1>4, RecallFirstKeeps DEF ListsOK
<1>6. NetTypeOK' /\ LoopOK'
  BY <1>1 DEF TtlDecrement, NetTypeOK, LoopOK, netVars, queueVars, faultVars
<1> QED
  BY <1>5, <1>6, IInvParts, PTL

LEMMA WaitEventKeeps == IInv /\ WaitEvent => IInv'
<1> SUFFICES ASSUME IInv, WaitEvent PROVE IInv'
  OBVIOUS
<1> DEFINE due == {i \in DOMAIN clients : GivesUp(clients[i])}
           swept == [i \in DOMAIN clients |->
                       IF Reached(due, i) THEN Reoffered(clients[i])
                                          ELSE clients[i]]
           again == {i \in DOMAIN clients : /\ Reached(due, i)
                                            /\ Reoffered(clients[i]) # clients[i]}
           mail == [p \in {clients[i].again : i \in again} |->
                      OfferFor(clients[Min({i \in again : clients[i].again = p})])]
<1>1. NetTypeOK /\ ListsOK /\ LoopOK
  BY IInvParts
<1>2. ASSUME NEW i \in DOMAIN clients
      PROVE  swept[i] \in ClientRecords /\ SameLease(swept[i], clients[i])
  <2>1. clients[i] \in ClientRecords
    BY <1>1 DEF ListsOK
  <2> QED
    BY <2>1, ReofferedType DEF SameLease
<1>3. swept \in Seq(ClientRecords) /\ Len(swept) = Len(clients)
  <2>1. Len(clients) \in Nat /\ DOMAIN clients = 1 .. Len(clients)
    BY <1>1 DEF ListsOK
  <2>2. swept \in [1 .. Len(clients) -> ClientRecords]
    BY <1>2, <2>1
  <2> HIDE DEF swept
  <2> QED
    BY <2>1, <2>2, FunctionIsSequence
<1>4. ASSUME NEW p \in DOMAIN mail
      PROVE  mail[p] \in Packets
  <2> DEFINE J == {i \in again : clients[i].again = p}
  <2>1. J # {} /\ J \subseteq DOMAIN clients
    OBVIOUS
  <2>2. J \subseteq Nat
    BY <1>1, <2>1 DEF ListsOK
  <2>3. Min(J) \in DOMAIN clients
    BY <2>1, <2>2, MinProperties
  <2>4. clients[Min(J)] \in ClientRecords
    BY <1>1, <2>3 DEF ListsOK
  <2>5. mail[p] = OfferFor(clients[Min(J)])
    OBVIOUS
  <2> QED
    BY <2>4, <2>5, OfferForType
<1>5. /\ RecallFirst(due, swept)
      /\ toClient' = Delivered(mail)
      /\ spc' = "recv"
      /\ UNCHANGED <<ttl_flag, timer, toServer, open, faultVars>>
  BY DEF WaitEvent
<1> HIDE DEF due, swept, again, mail
<1>6. ListsOK'
  BY <1>1, <1>2, <1>3, <1>5, RecallFirstKeeps DEF ListsOK
<1>7. toClient' \in [Procs -> Seq(Packets)]
  BY <1>1, <1>4, <1>5, DeliveredType DEF NetTypeOK
<1>8. NetTypeOK' /\ LoopOK'
  BY <1>1, <1>5, <1>7 DEF NetTypeOK, LoopOK, faultVars
<1> QED
  BY <1>6, <1>8, IInvParts, PTL

-----------------------------------------------------------------------------
\* One lemma per outcome of recvfrom().  Each says that the lists stay
\* consistent and that the answer, if any, is a packet.

RepliesOK == toClient' \in [Procs -> Seq(Packets)]

LEMMA ReplyType ==
  ASSUME toClient \in [Procs -> Seq(Packets)], NEW d \in Datagrams,
         NEW type \in Uint8, NEW code \in Uint8, Reply(d, type, code)
  PROVE  RepliesOK
<1> DEFINE m == [d.pkt EXCEPT !.type = type, !.code = code]
           mail == Mail(d.from, m)
<1>1. m \in Packets
  BY DEF Datagrams, Packets
<1>2. \A p \in DOMAIN mail : mail[p] \in Packets
  BY <1>1 DEF Mail
<1>3. toClient' = Delivered(mail)
  BY DEF Reply
<1> QED
  BY <1>2, <1>3, DeliveredType DEF RepliesOK

LEMMA CodeTypes ==
  /\ OFFER \in Uint8 /\ ACK \in Uint8
  /\ OfferNone \in Uint8 /\ AckOk \in Uint8 /\ AckRefused \in Uint8
BY DEF OFFER, ACK, OfferNone, AckOk, AckRefused, Uint8

LEMMA MakeOfferKeeps ==
  ASSUME ListsOK, NetTypeOK, LoopOK, NEW d \in Datagrams, MakeOffer(d)
  PROVE  ListsOK' /\ RepliesOK /\ timer' \in TimerStates
<1> DEFINE a == Head(pool)
           c == NewClient(d, a)
           mail == Mail(d.from, OfferFor(c))
<1>1. /\ pool # << >>
      /\ clients' = Append(clients, c)
      /\ toClient' = Delivered(mail)
      /\ useList' = Append(useList, a)
      /\ pool' = Tail(pool)
      /\ timer' = timer
  BY DEF MakeOffer
<1>2. /\ a \in IpMasks
      /\ 1 \in DOMAIN pool
      /\ a = pool[1]
      /\ pool' \in Seq(IpMasks)
  BY <1>1, TailElements DEF ListsOK
<1>3. c \in ClientRecords
  <2>1. HostOf[d.from] \in Hosts /\ d.from \in Procs /\ 0 \in 0 .. Timeout
    BY NetAssumption DEF Datagrams
  <2>2. UseIpTime \in Uint16 /\ Htons(UseIpTime) \in Uint16
    BY ServerAssumption, HtonsType
  <2>3. a.ip \in Addrs /\ a.netmask \in Masks
    BY <1>2 DEF IpMasks
  <2> QED
    BY <2>1, <2>2, <2>3 DEF NewClient, ClientRecords
<1>4. AddressOf(c) = a
  <2>1. a = [ip |-> a.ip, netmask |-> a.netmask]
    BY <1>2 DEF IpMasks
  <2> QED
    BY <2>1 DEF AddressOf, NewClient
<1>5. \A i \in DOMAIN clients : clients[i].id # c.id
  BY DEF MakeOffer, AsksNew, Known, RecordsOf, NewClient
<1>6. \A i \in DOMAIN useList : useList[i].ip # a.ip
  BY <1>2 DEF ListsOK, Consistent, Conserved
<1> HIDE DEF a, c, mail
<1>7. Conserved(pool', useList')
  BY <1>1, OfferedAddress DEF ListsOK, Consistent, a
<1>8. Matches(useList', clients') /\ OnePerHost(clients')
  BY <1>1, <1>2, <1>3, <1>4, <1>5, <1>6, AddedRecord DEF ListsOK, Consistent
<1>9. useList' \in Seq(IpMasks) /\ clients' \in Seq(ClientRecords)
  BY <1>1, <1>2, <1>3, AppendElements DEF ListsOK
<1>10. ListsOK'
  BY <1>2, <1>7, <1>8, <1>9 DEF ListsOK, Consistent
<1>11. RepliesOK
  <2>1. \A p \in DOMAIN mail : mail[p] \in Packets
    BY <1>3, OfferForType DEF Mail, mail
  <2> QED
    BY <1>1, <2>1, DeliveredType DEF NetTypeOK, RepliesOK
<1> QED
  BY <1>1, <1>10, <1>11 DEF LoopOK

LEMMA RefuseOfferKeeps ==
  ASSUME ListsOK, NetTypeOK, LoopOK, NEW d \in Datagrams, RefuseOffer(d)
  PROVE  ListsOK' /\ RepliesOK /\ timer' \in TimerStates
<1>1. RepliesOK
  <2>1. toClient \in [Procs -> Seq(Packets)] /\ Reply(d, OFFER, OfferNone)
    BY DEF RefuseOffer, NetTypeOK
  <2> QED
    BY <2>1, CodeTypes, ReplyType
<1> QED
  BY <1>1 DEF RefuseOffer, ListsOK, LoopOK

\* A record that is replaced by one with the same lease.
LEMMA ReplacedRecord ==
  ASSUME ListsOK, NEW k \in DOMAIN clients, NEW r \in ClientRecords,
         SameLease(r, clients[k]),
         clients' = [clients EXCEPT ![k] = r], UNCHANGED <<pool, useList>>
  PROVE  ListsOK'
<1>1. Len(clients) \in Nat /\ DOMAIN clients = 1 .. Len(clients)
  BY DEF ListsOK
<1>2. clients' \in [1 .. Len(clients) -> ClientRecords]
  BY <1>1 DEF ListsOK
<1>3. clients' \in Seq(ClientRecords) /\ Len(clients') = Len(clients)
  BY <1>1, <1>2, FunctionIsSequence
<1>4. \A i \in DOMAIN clients : SameLease(clients'[i], clients[i])
  BY <1>1 DEF SameLease, ListsOK
<1>5. Consistent(pool, useList, clients')
  BY <1>3, <1>4, SameLeases DEF ListsOK
<1> QED
  BY <1>3, <1>5 DEF ListsOK

LEMMA GrantLeaseKeeps ==
  ASSUME ListsOK, NetTypeOK, LoopOK, NEW d \in Datagrams, GrantLease(d)
  PROVE  ListsOK' /\ RepliesOK /\ timer' \in TimerStates
<1> DEFINE r == Leased(RecordOf(d), d.pkt)
<1>1. RecordAt(d) \in DOMAIN clients /\ RecordOf(d) \in ClientRecords
  BY RecordType DEF GrantLease, AsksAlloc, ListsOK
<1>2. d.pkt.ttl \in Uint16 /\ Ntohs(d.pkt.ttl) \in Uint16 /\ 0 \in 0 .. Timeout
  <2>1. d.pkt.ttl \in Uint16
    BY DEF Datagrams, Packets
  <2> QED
    BY <2>1, HtonsType, NetAssumption
<1>3. r \in ClientRecords /\ SameLease(r, RecordOf(d))
  BY <1>1, <1>2 DEF Leased, ClientRecords, SameLease, IN_USE
<1>4. clients' = [clients EXCEPT ![RecordAt(d)] = r]
  BY <1>1 DEF GrantLease, RecordOf, Leased
<1> HIDE DEF r
<1>5. ListsOK'
  BY <1>1, <1>3, <1>4, ReplacedRecord DEF GrantLease, RecordOf
<1>6. RepliesOK
  <2>1. toClient \in [Procs -> Seq(Packets)] /\ Reply(d, ACK, AckOk)
    BY DEF GrantLease, NetTypeOK
  <2> QED
    BY <2>1, CodeTypes, ReplyType
<1> QED
  BY <1>5, <1>6 DEF GrantLease, TimerStates

LEMMA RefuseLeaseKeeps ==
  ASSUME ListsOK, NetTypeOK, LoopOK, NEW d \in Datagrams, RefuseLease(d)
  PROVE  ListsOK' /\ RepliesOK /\ timer' \in TimerStates
<1>1. ListsOK'
  <2> DEFINE ip == RecordOf(d).addr
  <2>1. RecallIp(ip) /\ clients' = ReleaseClient(clients, ip)
    BY DEF RefuseLease
  <2> HIDE DEF ip
  <2> QED
    BY <2>1, Recalled DEF ListsOK
<1>2. RepliesOK
  <2>1. toClient \in [Procs -> Seq(Packets)] /\ Reply(d, ACK, AckRefused)
    BY DEF RefuseLease, NetTypeOK
  <2> QED
    BY <2>1, CodeTypes, ReplyType
<1> QED
  BY <1>1, <1>2 DEF RefuseLease, LoopOK

LEMMA ExtendLeaseKeeps ==
  ASSUME ListsOK, NetTypeOK, LoopOK, NEW d \in Datagrams, ExtendLease(d)
  PROVE  ListsOK' /\ RepliesOK /\ timer' \in TimerStates
<1> DEFINE r == Extended(RecordOf(d), d.pkt)
<1>1. RecordAt(d) \in DOMAIN clients /\ RecordOf(d) \in ClientRecords
  BY RecordType DEF ExtendLease, AsksExtension, ListsOK
<1>2. Ntohs(d.pkt.ttl) \in Uint16
  <2>1. d.pkt.ttl \in Uint16
    BY DEF Datagrams, Packets
  <2> QED
    BY <2>1, HtonsType
<1>3. r \in ClientRecords /\ SameLease(r, RecordOf(d))
  BY <1>1, <1>2 DEF Extended, ClientRecords, SameLease
<1>4. clients' = [clients EXCEPT ![RecordAt(d)] = r]
  BY <1>1 DEF ExtendLease, RecordOf, Extended
<1> HIDE DEF r
<1>5. ListsOK'
  BY <1>1, <1>3, <1>4, ReplacedRecord DEF ExtendLease, RecordOf
<1>6. RepliesOK
  <2>1. toClient \in [Procs -> Seq(Packets)] /\ Reply(d, ACK, AckOk)
    BY DEF ExtendLease, NetTypeOK
  <2> QED
    BY <2>1, CodeTypes, ReplyType
<1> QED
  BY <1>5, <1>6 DEF ExtendLease, LoopOK

LEMMA EndLeaseKeeps ==
  ASSUME ListsOK, NetTypeOK, LoopOK, NEW d \in Datagrams, EndLease(d)
  PROVE  ListsOK' /\ RepliesOK /\ timer' \in TimerStates
<1>1. ListsOK'
  <2> DEFINE ip == d.pkt.address
  <2>1. RecallIp(ip) /\ clients' = ReleaseClient(clients, ip)
    BY DEF EndLease
  <2> HIDE DEF ip
  <2> QED
    BY <2>1, Recalled DEF ListsOK
<1> QED
  BY <1>1 DEF EndLease, LoopOK, NetTypeOK, RepliesOK

LEMMA IgnoreKeeps ==
  ASSUME ListsOK, NetTypeOK, LoopOK, NEW d \in Datagrams, Ignore(d)
  PROVE  ListsOK' /\ RepliesOK /\ timer' \in TimerStates
BY DEF Ignore, ListsOK, LoopOK, NetTypeOK, RepliesOK

LEMMA RecvKeeps == IInv /\ Recv => IInv'
<1> SUFFICES ASSUME IInv, Recv PROVE IInv'
  OBVIOUS
<1> DEFINE d == Head(toServer)
<1>1. NetTypeOK /\ ListsOK /\ LoopOK
  BY IInvParts
<1>2. d \in Datagrams /\ toServer' \in Seq(Datagrams)
  <2>1. toServer \in Seq(Datagrams) /\ toServer # << >> /\ toServer' = Tail(toServer)
    BY <1>1 DEF Recv, NetTypeOK
  <2> QED
    BY <2>1, TailElements
<1>3. Handle(d)
  BY DEF Recv
<1> HIDE DEF d
<1>4. ListsOK' /\ RepliesOK /\ timer' \in TimerStates
  BY <1>1, <1>2, <1>3, MakeOfferKeeps, RefuseOfferKeeps, GrantLeaseKeeps,
     RefuseLeaseKeeps, ExtendLeaseKeeps, EndLeaseKeeps, IgnoreKeeps DEF Handle
<1>5. NetTypeOK' /\ LoopOK'
  BY <1>1, <1>2, <1>4 DEF Recv, NetTypeOK, LoopOK, RepliesOK, faultVars
<1> QED
  BY <1>4, <1>5, IInvParts, PTL

-----------------------------------------------------------------------------
\* The steps that leave the lists alone.

LEMMA LoopStepKeeps == IInv /\ (TtlClear \/ Idle \/ Alarm) => IInv'
<1> SUFFICES ASSUME IInv, TtlClear \/ Idle \/ Alarm PROVE IInv'
  OBVIOUS
<1>1. NetTypeOK /\ ListsOK /\ LoopOK
  BY IInvParts
<1>2. NetTypeOK' /\ ListsOK' /\ LoopOK'
  BY <1>1 DEF TtlClear, Idle, Alarm, NetTypeOK, ListsOK, LoopOK, TimerStates,
              netVars, queueVars, faultVars
<1> QED
  BY <1>2, IInvParts, PTL

LEMMA TickKeeps == IInv /\ Tick => IInv'
<1> SUFFICES ASSUME IInv, Tick PROVE IInv'
  OBVIOUS
<1> DEFINE older == [i \in DOMAIN clients |-> Older(clients[i])]
<1>1. NetTypeOK /\ ListsOK /\ LoopOK
  BY IInvParts
<1>2. ASSUME NEW c \in ClientRecords
      PROVE  Older(c) \in ClientRecords /\ SameLease(Older(c), c)
  <2>1. Timeout \in Nat /\ c.age \in 0 .. Timeout
    BY NetAssumption DEF ClientRecords
  <2>2. c.age < Timeout => c.age + 1 \in 0 .. Timeout
    BY <2>1
  <2> QED
    BY <2>2 DEF Older, ClientRecords, SameLease
<1>3. Len(clients) \in Nat /\ DOMAIN clients = 1 .. Len(clients)
  BY <1>1 DEF ListsOK
<1>4. \A i \in DOMAIN clients : clients[i] \in ClientRecords
  BY <1>1 DEF ListsOK
<1>5. older \in [1 .. Len(clients) -> ClientRecords]
  BY <1>2, <1>3, <1>4
<1>6. \A i \in DOMAIN clients : SameLease(older[i], clients[i])
  BY <1>2, <1>4
<1>7. clients' = older /\ UNCHANGED <<pool, useList, ttl_flag, spc, netVars>>
  BY DEF Tick, ServerTick
<1> HIDE DEF older
<1>8. older \in Seq(ClientRecords) /\ Len(older) = Len(clients)
  BY <1>3, <1>5, FunctionIsSequence
<1>9. Consistent(pool, useList, older)
  BY <1>1, <1>6, <1>8, SameLeases DEF ListsOK
<1>10. ListsOK'
  BY <1>1, <1>7, <1>8, <1>9 DEF ListsOK
<1>11. timer' \in TimerStates
  BY DEF Tick, ServerTick, TimerStates
<1>12. NetTypeOK' /\ LoopOK'
  BY <1>1, <1>7, <1>11 DEF NetTypeOK, LoopOK, netVars, queueVars, faultVars
<1> QED
  BY <1>10, <1>12, IInvParts, PTL

\* The steps of the clients and of the network only move packets.
LEMMA ClientMoveKeeps == IInv /\ ClientMove => IInv'
<1> SUFFICES ASSUME IInv, ClientMove PROVE IInv'
  OBVIOUS
<1>1. NetTypeOK /\ ListsOK /\ LoopOK
  BY IInvParts
<1>2. PICK p \in Procs :
        /\ \/ p \in EnvProcs /\ (OpenSocket(p) \/ TakeReply(p) \/ CloseSocket(p))
           \/ UNCHANGED <<toClient, open>>
        /\ \/ \E m \in EnvPackets : toServer' = Sent(p, m)
           \/ UNCHANGED toServer
  BY DEF ClientMove
<1>3. toServer' \in Seq(Datagrams)
  <2>1. ASSUME NEW m \in EnvPackets, toServer' = Sent(p, m)
        PROVE  toServer' \in Seq(Datagrams)
    <3>1. [from |-> p, pkt |-> m] \in Datagrams
      BY ServerAssumption DEF Datagrams
    <3> QED
      BY <1>1, <2>1, <3>1, EnqueueType DEF Sent, NetTypeOK
  <2> QED
    BY <1>1, <1>2, <2>1 DEF NetTypeOK
<1>4. toClient' \in [Procs -> Seq(Packets)]
  <2>1. CASE TakeReply(p)
    <3>1. toClient[p] \in Seq(Packets) /\ toClient[p] # << >>
      BY <1>1, <2>1 DEF NetTypeOK, TakeReply
    <3>2. Tail(toClient[p]) \in Seq(Packets)
      BY <3>1, TailElements
    <3> QED
      BY <1>1, <2>1, <3>2 DEF NetTypeOK, TakeReply
  <2>2. CASE CloseSocket(p)
    BY <1>1, <2>2 DEF NetTypeOK, CloseSocket
  <2>3. CASE OpenSocket(p) \/ UNCHANGED <<toClient, open>>
    BY <1>1, <2>3 DEF NetTypeOK, OpenSocket
  <2> QED
    BY <1>2, <2>1, <2>2, <2>3
<1>5. open' \subseteq Procs
  BY <1>1, <1>2 DEF NetTypeOK, OpenSocket, TakeReply, CloseSocket
<1>6. NetTypeOK'
  BY <1>1, <1>3, <1>4, <1>5 DEF ClientMove, NetTypeOK, faultVars
<1>7. ListsOK' /\ LoopOK'
  BY <1>1 DEF ClientMove, serverVars, ListsOK, LoopOK
<1> QED
  BY <1>6, <1>7, IInvParts, PTL

LEMMA CountType ==
  ASSUME NEW n \in Nat, NEW k \in 0 .. n, k < n
  PROVE  k + 1 \in 0 .. n
OBVIOUS

LEMMA NetworkKeeps == IInv /\ Network /\ UNCHANGED serverVars => IInv'
<1> SUFFICES ASSUME IInv, Network, UNCHANGED serverVars PROVE IInv'
  OBVIOUS
<1>1. NetTypeOK /\ ListsOK /\ LoopOK
  BY IInvParts
<1>2. ListsOK' /\ LoopOK'
  BY <1>1 DEF serverVars, ListsOK, LoopOK
<1>3. /\ toServer \in Seq(Datagrams)
      /\ toClient \in [Procs -> Seq(Packets)]
      /\ open \subseteq Procs
      /\ lost \in 0 .. MaxLost
      /\ dup \in 0 .. MaxDup
  BY <1>1 DEF NetTypeOK
<1>4. /\ lost < MaxLost => lost + 1 \in 0 .. MaxLost
      /\ dup < MaxDup => dup + 1 \in 0 .. MaxDup
  BY <1>3, CountType, NetAssumption
<1>5. ASSUME LoseRequest PROVE NetTypeOK'
  <2>1. PICK i \in DOMAIN toServer : toServer' = RemoveAt(toServer, i)
    BY <1>5 DEF LoseRequest
  <2>2. i \in 1 .. Len(toServer)
    BY <1>3
  <2>3. toServer' \in Seq(Datagrams)
    BY <1>3, <2>1, <2>2, RemoveAtProperties
  <2>4. lost' \in 0 .. MaxLost /\ UNCHANGED <<toClient, open, dup>>
    BY <1>4, <1>5 DEF LoseRequest
  <2> QED
    BY <1>3, <2>3, <2>4 DEF NetTypeOK
<1>6. ASSUME LoseReply PROVE NetTypeOK'
  <2>1. PICK p \in Procs : \E i \in DOMAIN toClient[p] :
          toClient' = [toClient EXCEPT ![p] = RemoveAt(@, i)]
    BY <1>6 DEF LoseReply
  <2>2. PICK i \in DOMAIN toClient[p] :
          toClient' = [toClient EXCEPT ![p] = RemoveAt(toClient[p], i)]
    BY <2>1
  <2>3. i \in 1 .. Len(toClient[p])
    BY <1>3
  <2>4. RemoveAt(toClient[p], i) \in Seq(Packets)
    BY <1>3, <2>3, RemoveAtProperties
  <2>5. lost' \in 0 .. MaxLost /\ UNCHANGED <<toServer, open, dup>>
    BY <1>4, <1>6 DEF LoseReply
  <2>6. toClient' \in [Procs -> Seq(Packets)]
    BY <1>3, <2>2, <2>4
  <2> QED
    BY <1>3, <2>5, <2>6 DEF NetTypeOK
<1>7. ASSUME DuplicateRequest PROVE NetTypeOK'
  <2>1. PICK i \in DOMAIN toServer : toServer' = Enqueue(toServer, toServer[i])
    BY <1>7 DEF DuplicateRequest
  <2>2. toServer[i] \in Datagrams
    BY <1>3
  <2>3. toServer' \in Seq(Datagrams)
    BY <1>3, <2>1, <2>2, EnqueueType
  <2>4. dup' \in 0 .. MaxDup /\ UNCHANGED <<toClient, open, lost>>
    BY <1>4, <1>7 DEF DuplicateRequest
  <2> QED
    BY <1>3, <2>3, <2>4 DEF NetTypeOK
<1>8. ASSUME DuplicateReply PROVE NetTypeOK'
  <2>1. PICK p \in Procs : \E i \in DOMAIN toClient[p] :
          toClient' = [toClient EXCEPT ![p] = Enqueue(@, toClient[p][i])]
    BY <1>8 DEF DuplicateReply
  <2>2. PICK i \in DOMAIN toClient[p] :
          toClient' = [toClient EXCEPT ![p] = Enqueue(toClient[p], toClient[p][i])]
    BY <2>1
  <2>3. toClient[p][i] \in Packets
    BY <1>3
  <2>4. Enqueue(toClient[p], toClient[p][i]) \in Seq(Packets)
    BY <1>3, <2>3, EnqueueType
  <2>5. dup' \in 0 .. MaxDup /\ UNCHANGED <<toServer, open, lost>>
    BY <1>4, <1>8 DEF DuplicateReply
  <2>6. toClient' \in [Procs -> Seq(Packets)]
    BY <1>3, <2>2, <2>4
  <2> QED
    BY <1>3, <2>5, <2>6 DEF NetTypeOK
<1>9. NetTypeOK'
  BY <1>5, <1>6, <1>7, <1>8 DEF Network
<1> QED
  BY <1>2, <1>9, IInvParts, PTL

-----------------------------------------------------------------------------
LEMMA InitEstablishes == Init => IInv
<1> SUFFICES ASSUME Init PROVE IInv
  OBVIOUS
<1>1. NetTypeOK
  BY NetAssumption DEF Init, NetInit, NetTypeOK
<1>2. LoopOK
  BY DEF Init, ServerInit, LoopOK, TimerStates
<1>3. PoolConfig \in Seq(IpMasks) /\ DistinctIps(PoolConfig)
  BY ServerAssumption DEF DistinctIps
<1>4. pool = PoolConfig /\ useList = << >> /\ clients = << >>
  BY DEF Init, ServerInit
<1>5. Conserved(PoolConfig, << >>)
  BY <1>3 DEF Conserved, DistinctIps, ToSet
<1>6. Matches(<< >>, << >>) /\ OnePerHost(<< >>)
  BY DEF Matches, OnePerHost, ToSet
<1>7. ListsOK
  BY <1>3, <1>4, <1>5, <1>6 DEF ListsOK, Consistent
<1> QED
  BY <1>1, <1>2, <1>7, IInvParts

LEMMA StepKeeps == IInv /\ [Next]_vars => IInv'
<1> SUFFICES ASSUME IInv, [Next]_vars PROVE IInv'
  OBVIOUS
<1>1. CASE ServerStep
  BY <1>1, TtlDecrementKeeps, WaitEventKeeps, RecvKeeps, LoopStepKeeps
     DEF ServerStep
<1>2. CASE Alarm
  BY <1>2, LoopStepKeeps
<1>3. CASE Tick
  BY <1>3, TickKeeps
<1>4. CASE ClientMove
  BY <1>4, ClientMoveKeeps
<1>5. CASE Network /\ UNCHANGED serverVars
  BY <1>5, NetworkKeeps
<1>6. CASE UNCHANGED vars
  <2>1. NetTypeOK' /\ ListsOK' /\ LoopOK'
    BY <1>6, IInvParts DEF vars, serverVars, netVars, queueVars, faultVars,
                           NetTypeOK, ListsOK, LoopOK
  <2> QED
    BY <2>1, IInvParts, PTL
<1> QED
  BY <1>1, <1>2, <1>3, <1>4, <1>5, <1>6 DEF Next

\* Type correctness of the server: no datagram, timeout or tick drives a
\* record out of its states, a counter below zero or an answer out of the
\* values of struct dhcph (the loop of mydhcpd.c:188-564).
THEOREM TypeCorrect == Spec => []TypeOK
<1>1. IInv => TypeOK
  BY DEF IInv
<1> QED
  BY <1>1, InitEstablishes, StepKeeps, PTL DEF Spec

\* No address of config_file is ever lost, doubled or changed by the functions
\* that move it between the two lists (mydhcpd.c:661-676, 767-803).
THEOREM PoolConserved == Spec => []AddressesConserved
<1>1. IInv => AddressesConserved
  BY DEF IInv, Consistent, Conserved, AddressesConserved
<1> QED
  BY <1>1, InitEstablishes, StepKeeps, PTL DEF Spec

\* The use list and the client records always agree, although they are
\* searched and changed by different functions (mydhcpd.c:622-702, 767-796).
THEOREM TablesAgree == Spec => []LeaseTableConsistent
<1>1. IInv => LeaseTableConsistent
  BY DEF IInv, Consistent, Matches, LeaseTableConsistent
<1> QED
  BY <1>1, InitEstablishes, StepKeeps, PTL DEF Spec

\* A host never has two records (mydhcpd.c:227-231, 679-689).
THEOREM HostsDistinct == Spec => []OneRecordPerHost
<1>1. IInv => OneRecordPerHost
  BY DEF IInv, Consistent, OnePerHost, OneRecordPerHost
<1> QED
  BY <1>1, InitEstablishes, StepKeeps, PTL DEF Spec

-----------------------------------------------------------------------------
(***************************************************************************)
(* DhcpServer implements AddressLeases: what a pass over the records or a  *)
(* datagram does to the lists is one edge of the state diagram of one host *)
(* or of several, or nothing that the diagram shows.                       *)
(*                                                                         *)
(* The state and the address of a host are read off its record, so the     *)
(* proof rests on the invariants above: a host has one record, an address  *)
(* has one, and the pool holds no address of a record.                     *)
(***************************************************************************)

\* The refinement mapping on any list of records.
Of(c, h) == {i \in DOMAIN c : c[i].id = h}
StatIn(c, h) == IF Of(c, h) = {} THEN 0 ELSE c[Min(Of(c, h))].stat
LeaseIn(c, h) == {c[i].addr : i \in Of(c, h)}

Stats(c) == [h \in Hosts |-> StatIn(c, h)]
Addresses(c) == [h \in Hosts |-> LeaseIn(c, h)]

LEMMA Mapped ==
  /\ Stats(clients) = [h \in Hosts |-> StatOf(h)]
  /\ Addresses(clients) = [h \in Hosts |-> LeaseOf(h)]
BY DEF Stats, StatIn, Addresses, LeaseIn, Of, StatOf, LeaseOf, RecordsOf

LEMMA MappedNext ==
  /\ Stats(clients') = [h \in Hosts |-> StatOf(h)']
  /\ Addresses(clients') = [h \in Hosts |-> LeaseOf(h)']
BY DEF Stats, StatIn, Addresses, LeaseIn, Of, StatOf, LeaseOf, RecordsOf

\* Both modules number the states alike.
LEMMA Mapping ==
  /\ Leases!NULL = 0 /\ Leases!WAIT_REQ = 2
  /\ Leases!IN_USE = 3 /\ Leases!WAIT_REQ_AGAIN = 4
BY DEF Leases!NULL, Leases!WAIT_REQ, Leases!IN_USE, Leases!WAIT_REQ_AGAIN

-----------------------------------------------------------------------------
\* What the mapping shows of a list.

LEMMA LookUp ==
  ASSUME NEW c \in Seq(ClientRecords), OnePerHost(c), NEW i \in DOMAIN c
  PROVE  /\ c[i].id \in Hosts
         /\ Of(c, c[i].id) = {i}
         /\ StatIn(c, c[i].id) = c[i].stat
         /\ LeaseIn(c, c[i].id) = {c[i].addr}
<1>1. c[i] \in ClientRecords /\ i \in Nat
  OBVIOUS
<1>2. Of(c, c[i].id) = {i}
  BY DEF Of, OnePerHost
<1>3. Min({i}) = i
  <2>1. {i} \subseteq Nat /\ {i} # {}
    BY <1>1
  <2>2. Min({i}) \in {i}
    BY <2>1, MinProperties
  <2>. QED
    BY <2>2
<1>. QED
  BY <1>1, <1>2, <1>3 DEF StatIn, LeaseIn, ClientRecords

LEMMA NoRecord ==
  ASSUME NEW c, NEW h, \A i \in DOMAIN c : c[i].id # h
  PROVE  StatIn(c, h) = 0 /\ LeaseIn(c, h) = {}
BY DEF Of, StatIn, LeaseIn

LEMMA ReleasedLease ==
  ASSUME NEW c \in Seq(ClientRecords), OnePerHost(c), NEW m \in DOMAIN c
  PROVE  /\ Stats(RemoveAt(c, m)) = [Stats(c) EXCEPT ![c[m].id] = 0]
         /\ Addresses(RemoveAt(c, m)) = [Addresses(c) EXCEPT ![c[m].id] = {}]
<1>. DEFINE d == RemoveAt(c, m)
<1>1. m \in 1 .. Len(c) /\ Len(c) \in Nat /\ DOMAIN c = 1 .. Len(c)
  OBVIOUS
<1>2. /\ d \in Seq(ClientRecords)
      /\ Len(d) = Len(c) - 1
      /\ \A j \in 1 .. Len(c) - 1 : d[j] = c[Before(m, j)]
  BY <1>1, RemoveAtProperties
<1>3. /\ \A j \in 1 .. Len(c) - 1 : Before(m, j) \in 1 .. Len(c) /\ Before(m, j) # m
      /\ \A i, j \in 1 .. Len(c) - 1 : Before(m, i) = Before(m, j) => i = j
      /\ \A i \in 1 .. Len(c) : i # m => \E j \in 1 .. Len(c) - 1 : Before(m, j) = i
  BY <1>1, BeforeProperties
<1>. HIDE DEF d
<1>4. DOMAIN d = 1 .. Len(c) - 1
  BY <1>2
<1>5. \A j \in DOMAIN d : d[j] = c[Before(m, j)] /\ Before(m, j) \in DOMAIN c /\ Before(m, j) # m
  BY <1>1, <1>2, <1>3, <1>4
<1>6. OnePerHost(d)
  <2>. SUFFICES ASSUME NEW i \in DOMAIN d, NEW j \in DOMAIN d, d[i].id = d[j].id
                PROVE  i = j
    BY DEF OnePerHost
  <2>1. Before(m, i) = Before(m, j)
    BY <1>5 DEF OnePerHost
  <2>. QED
    BY <1>3, <1>4, <2>1
<1>7. StatIn(d, c[m].id) = 0 /\ LeaseIn(d, c[m].id) = {}
  <2>1. \A j \in DOMAIN d : d[j].id # c[m].id
    BY <1>5 DEF OnePerHost
  <2>. QED
    BY <2>1, NoRecord
<1>8. ASSUME NEW h \in Hosts, h # c[m].id
      PROVE  StatIn(d, h) = StatIn(c, h) /\ LeaseIn(d, h) = LeaseIn(c, h)
  <2>1. CASE \A i \in DOMAIN c : c[i].id # h
    <3>1. \A j \in DOMAIN d : d[j].id # h
      BY <1>5, <2>1
    <3>. QED
      BY <2>1, <3>1, NoRecord
  <2>2. CASE \E i \in DOMAIN c : c[i].id = h
    <3>1. PICK i \in DOMAIN c : c[i].id = h
      BY <2>2
    <3>2. PICK j \in DOMAIN d : Before(m, j) = i
      BY <1>1, <1>3, <1>4, <1>8, <3>1
    <3>3. d[j] = c[i]
      BY <1>5, <3>2
    <3>4. StatIn(d, h) = d[j].stat /\ LeaseIn(d, h) = {d[j].addr}
      <4>1. StatIn(d, d[j].id) = d[j].stat /\ LeaseIn(d, d[j].id) = {d[j].addr}
        BY <1>2, <1>6, LookUp
      <4>. QED
        BY <3>1, <3>3, <4>1
    <3>5. StatIn(c, h) = c[i].stat /\ LeaseIn(c, h) = {c[i].addr}
      BY <3>1, LookUp
    <3>. QED
      BY <3>3, <3>4, <3>5
  <2>. QED
    BY <2>1, <2>2
<1>. QED
  BY <1>7, <1>8 DEF Stats, Addresses, d

LEMMA AddedLease ==
  ASSUME NEW c \in Seq(ClientRecords), OnePerHost(c), NEW r \in ClientRecords,
         \A i \in DOMAIN c : c[i].id # r.id
  PROVE  /\ Stats(Append(c, r)) = [Stats(c) EXCEPT ![r.id] = r.stat]
         /\ Addresses(Append(c, r)) = [Addresses(c) EXCEPT ![r.id] = {r.addr}]
<1>. DEFINE d == Append(c, r)
<1>1. /\ d \in Seq(ClientRecords)
      /\ Len(d) = Len(c) + 1
      /\ \A j \in 1 .. Len(c) : d[j] = c[j]
      /\ d[Len(c) + 1] = r
  BY AppendElements
<1>. HIDE DEF d
<1>2. /\ Len(c) \in Nat
      /\ DOMAIN c = 1 .. Len(c)
      /\ DOMAIN d = 1 .. Len(c) + 1
  BY <1>1
<1>3. /\ \A j \in DOMAIN d : (j \in DOMAIN c /\ d[j] = c[j]) \/ (j = Len(c) + 1 /\ d[j] = r)
      /\ \A i \in DOMAIN c : i \in DOMAIN d /\ d[i] = c[i]
      /\ Len(c) + 1 \in DOMAIN d
  BY <1>1, <1>2
<1>4. OnePerHost(d)
  BY <1>3 DEF OnePerHost
<1>5. StatIn(d, r.id) = r.stat /\ LeaseIn(d, r.id) = {r.addr}
  BY <1>1, <1>3, <1>4, LookUp
<1>6. ASSUME NEW h \in Hosts, h # r.id
      PROVE  StatIn(d, h) = StatIn(c, h) /\ LeaseIn(d, h) = LeaseIn(c, h)
  <2>1. CASE \A i \in DOMAIN c : c[i].id # h
    <3>1. \A j \in DOMAIN d : d[j].id # h
      BY <1>3, <1>6, <2>1
    <3>. QED
      BY <2>1, <3>1, NoRecord
  <2>2. CASE \E i \in DOMAIN c : c[i].id = h
    <3>1. PICK i \in DOMAIN c : c[i].id = h
      BY <2>2
    <3>2. i \in DOMAIN d /\ d[i] = c[i]
      BY <1>3
    <3>3. StatIn(d, h) = d[i].stat /\ LeaseIn(d, h) = {d[i].addr}
      <4>1. StatIn(d, d[i].id) = d[i].stat /\ LeaseIn(d, d[i].id) = {d[i].addr}
        BY <1>1, <1>4, <3>2, LookUp
      <4>. QED
        BY <3>1, <3>2, <4>1
    <3>4. StatIn(c, h) = c[i].stat /\ LeaseIn(c, h) = {c[i].addr}
      BY <3>1, LookUp
    <3>. QED
      BY <3>2, <3>3, <3>4
  <2>. QED
    BY <2>1, <2>2
<1>. QED
  BY <1>5, <1>6 DEF Stats, Addresses, d

\* A pass that keeps every lease may only show in the states.
LEMMA SweptLeases ==
  ASSUME NEW c \in Seq(ClientRecords), OnePerHost(c),
         NEW d \in Seq(ClientRecords), Len(d) = Len(c),
         \A i \in DOMAIN c : SameLease(d[i], c[i])
  PROVE  /\ OnePerHost(d)
         /\ Addresses(d) = Addresses(c)
         /\ \A h \in Hosts : (\A i \in DOMAIN c : c[i].id # h) => StatIn(d, h) = 0
         /\ \A i \in DOMAIN c : StatIn(d, c[i].id) = d[i].stat
<1>1. DOMAIN d = DOMAIN c
  <2>1. DOMAIN d = 1 .. Len(d) /\ DOMAIN c = 1 .. Len(c)
    OBVIOUS
  <2>. QED
    BY <2>1
<1>2. OnePerHost(d)
  BY <1>1 DEF OnePerHost, SameLease
<1>3. \A i \in DOMAIN c : StatIn(d, c[i].id) = d[i].stat
  <2>. SUFFICES ASSUME NEW i \in DOMAIN c PROVE StatIn(d, c[i].id) = d[i].stat
    OBVIOUS
  <2>1. d[i].id = c[i].id
    BY DEF SameLease
  <2>. QED
    BY <1>1, <1>2, <2>1, LookUp
<1>4. \A h \in Hosts : (\A i \in DOMAIN c : c[i].id # h) => StatIn(d, h) = 0
  <2>. SUFFICES ASSUME NEW h \in Hosts, \A i \in DOMAIN c : c[i].id # h
                PROVE  StatIn(d, h) = 0
    OBVIOUS
  <2>1. \A i \in DOMAIN d : d[i].id # h
    BY <1>1 DEF SameLease
  <2>. QED
    BY <2>1, NoRecord
<1>5. ASSUME NEW h \in Hosts PROVE LeaseIn(d, h) = LeaseIn(c, h)
  BY <1>1 DEF LeaseIn, Of, SameLease
<1>. QED
  BY <1>2, <1>3, <1>4, <1>5 DEF Addresses

\* A pass that keeps the states, too, does not show at all.
LEMMA SweptSame ==
  ASSUME NEW c \in Seq(ClientRecords), OnePerHost(c),
         NEW d \in Seq(ClientRecords), Len(d) = Len(c),
         \A i \in DOMAIN c : SameLease(d[i], c[i]) /\ d[i].stat = c[i].stat
  PROVE  OnePerHost(d) /\ Stats(d) = Stats(c) /\ Addresses(d) = Addresses(c)
<1>1. /\ OnePerHost(d)
      /\ Addresses(d) = Addresses(c)
      /\ \A h \in Hosts : (\A i \in DOMAIN c : c[i].id # h) => StatIn(d, h) = 0
      /\ \A i \in DOMAIN c : StatIn(d, c[i].id) = d[i].stat
  BY SweptLeases
<1>2. ASSUME NEW h \in Hosts PROVE StatIn(d, h) = StatIn(c, h)
  <2>1. CASE \A i \in DOMAIN c : c[i].id # h
    BY <1>1, <2>1, NoRecord
  <2>2. CASE \E i \in DOMAIN c : c[i].id = h
    BY <1>1, <2>2, LookUp
  <2>. QED
    BY <2>1, <2>2
<1>. QED
  BY <1>1, <1>2 DEF Stats

-----------------------------------------------------------------------------
\* The steps of the server.  IInv gives the invariants they start from.

LEMMA IInvLists ==
  ASSUME IInv
  PROVE  /\ pool \in Seq(IpMasks) /\ useList \in Seq(IpMasks)
         /\ clients \in Seq(ClientRecords)
         /\ OnePerHost(clients)
         /\ Matches(useList, clients)
         /\ Conserved(pool, useList)
BY DEF IInv, TypeOK, Consistent

LEMMA SameMap ==
  ASSUME Stats(clients') = Stats(clients), Addresses(clients') = Addresses(clients)
  PROVE  UNCHANGED Leases!vars
BY Mapped, MappedNext DEF Leases!vars

\* One record goes: the address of its host is recalled.
LEMMA RemovedMap ==
  ASSUME NEW c \in Seq(ClientRecords), OnePerHost(c),
         Stats(c) = Stats(clients), Addresses(c) = Addresses(clients),
         NEW m \in DOMAIN c, clients' = RemoveAt(c, m)
  PROVE  Leases!Next
<1>1. /\ Stats(clients') = [Stats(clients) EXCEPT ![c[m].id] = 0]
      /\ Addresses(clients') = [Addresses(clients) EXCEPT ![c[m].id] = {}]
  BY ReleasedLease
<1>2. c[m].id \in Hosts /\ StatIn(c, c[m].id) = c[m].stat
  BY LookUp
<1>3. c[m].stat # 0
  <2>1. c[m] \in ClientRecords
    OBVIOUS
  <2>. QED
    BY <2>1 DEF ClientRecords, WAIT_REQ, IN_USE, WAIT_REQ_AGAIN
<1>4. Stats(clients)[c[m].id] # 0
  BY <1>2, <1>3 DEF Stats
<1>5. Leases!Recall(c[m].id)
  BY <1>1, <1>4, Mapped, MappedNext, Mapping DEF Leases!Recall
<1>. QED
  BY <1>2, <1>5 DEF Leases!Next

\* release_client() on records that show the same as those of the state.
LEMMA ReleasedMap ==
  ASSUME NEW c \in Seq(ClientRecords), OnePerHost(c),
         Stats(c) = Stats(clients), Addresses(c) = Addresses(clients),
         NEW ip, clients' = ReleaseClient(c, ip)
  PROVE  [Leases!Next]_(Leases!vars)
<1>1. CASE clients' = c
  BY <1>1, SameMap
<1>2. CASE \E m \in DOMAIN c : clients' = RemoveAt(c, m)
  BY <1>2, RemovedMap
<1>. QED
  BY <1>1, <1>2, ReleaseClientEffect

LEMMA PassType ==
  ASSUME NEW c \in Seq(ClientRecords), NEW d \in [DOMAIN c -> ClientRecords]
  PROVE  d \in Seq(ClientRecords) /\ Len(d) = Len(c)
<1>1. Len(c) \in Nat /\ DOMAIN c = 1 .. Len(c)
  OBVIOUS
<1>. QED
  BY <1>1, FunctionIsSequence

\* ttl_decrement(): counting down does not show, the recall is one edge.
LEMMA TtlDecrementMap ==
  ASSUME IInv, TtlDecrement PROVE [Leases!Next]_(Leases!vars)
<1>. DEFINE due == {i \in DOMAIN clients : Expired(clients[i])}
            swept == [i \in DOMAIN clients |->
                        IF Reached(due, i) THEN Ticked(clients[i]) ELSE clients[i]]
<1>1. clients \in Seq(ClientRecords) /\ OnePerHost(clients)
  BY IInvLists
<1>2. ASSUME NEW i \in DOMAIN clients
      PROVE  /\ swept[i] \in ClientRecords
             /\ SameLease(swept[i], clients[i])
             /\ swept[i].stat = clients[i].stat
  <2>1. clients[i] \in ClientRecords /\ i \in Nat
    BY <1>1
  <2>2. CASE Reached(due, i)
    <3>1. ~Expired(clients[i])
      BY <2>1, <2>2 DEF Reached
    <3>2. Ticked(clients[i]).stat = clients[i].stat
      BY <2>1 DEF Ticked, ClientRecords
    <3>. QED
      BY <2>1, <2>2, <3>1, <3>2, TickedType
  <2>3. CASE ~Reached(due, i)
    BY <2>1, <2>3 DEF SameLease
  <2>. QED
    BY <2>2, <2>3
<1>3. swept \in Seq(ClientRecords) /\ Len(swept) = Len(clients)
  <2>1. swept \in [DOMAIN clients -> ClientRecords]
    BY <1>2
  <2>. HIDE DEF swept
  <2>. QED
    BY <1>1, <2>1, PassType
<1>4. RecallFirst(due, swept)
  BY DEF TtlDecrement
<1>. HIDE DEF due, swept
<1>5. OnePerHost(swept) /\ Stats(swept) = Stats(clients) /\ Addresses(swept) = Addresses(clients)
  BY <1>1, <1>2, <1>3, SweptSame
<1>6. CASE clients' = swept
  BY <1>5, <1>6, SameMap
<1>7. CASE \E ip : clients' = ReleaseClient(swept, ip)
  BY <1>3, <1>5, <1>7, ReleasedMap
<1>. QED
  BY <1>4, <1>6, <1>7 DEF RecallFirst

\* The clock: the records grow older.
LEMMA TickMap ==
  ASSUME IInv, Tick PROVE [Leases!Next]_(Leases!vars)
<1>. DEFINE older == [i \in DOMAIN clients |-> Older(clients[i])]
<1>1. clients \in Seq(ClientRecords) /\ OnePerHost(clients)
  BY IInvLists
<1>2. ASSUME NEW c \in ClientRecords
      PROVE  Older(c) \in ClientRecords /\ SameLease(Older(c), c) /\ Older(c).stat = c.stat
  <2>1. Timeout \in Nat /\ c.age \in 0 .. Timeout
    BY NetAssumption DEF ClientRecords
  <2>2. c.age < Timeout => c.age + 1 \in 0 .. Timeout
    BY <2>1
  <2>. QED
    BY <2>2 DEF Older, ClientRecords, SameLease
<1>3. \A i \in DOMAIN clients : clients[i] \in ClientRecords
  BY <1>1
<1>4. older \in [DOMAIN clients -> ClientRecords]
  BY <1>2, <1>3
<1>5. \A i \in DOMAIN clients : SameLease(older[i], clients[i]) /\ older[i].stat = clients[i].stat
  BY <1>2, <1>3
<1>6. clients' = older
  BY DEF Tick, ServerTick
<1>. HIDE DEF older
<1>7. older \in Seq(ClientRecords) /\ Len(older) = Len(clients)
  BY <1>1, <1>4, PassType
<1>8. Stats(older) = Stats(clients) /\ Addresses(older) = Addresses(clients)
  BY <1>1, <1>5, <1>7, SweptSame
<1>. QED
  BY <1>6, <1>8, SameMap

\* One record is replaced: only the state of its host may change.
LEMMA ReplacedMap ==
  ASSUME NEW c \in Seq(ClientRecords), OnePerHost(c), NEW k \in DOMAIN c,
         NEW r \in ClientRecords, SameLease(r, c[k])
  PROVE  /\ Stats([c EXCEPT ![k] = r]) = [Stats(c) EXCEPT ![c[k].id] = r.stat]
         /\ Addresses([c EXCEPT ![k] = r]) = Addresses(c)
<1>. DEFINE d == [c EXCEPT ![k] = r]
<1>1. d \in [DOMAIN c -> ClientRecords]
  OBVIOUS
<1>2. \A i \in DOMAIN c : SameLease(d[i], c[i]) /\ (i # k => d[i] = c[i])
  BY DEF SameLease
<1>3. d[k] = r
  OBVIOUS
<1>. HIDE DEF d
<1>4. d \in Seq(ClientRecords) /\ Len(d) = Len(c)
  BY <1>1, PassType
<1>5. /\ Addresses(d) = Addresses(c)
      /\ \A h \in Hosts : (\A i \in DOMAIN c : c[i].id # h) => StatIn(d, h) = 0
      /\ \A i \in DOMAIN c : StatIn(d, c[i].id) = d[i].stat
  BY <1>2, <1>4, SweptLeases
<1>6. ASSUME NEW h \in Hosts
      PROVE  StatIn(d, h) = IF h = c[k].id THEN r.stat ELSE StatIn(c, h)
  <2>1. CASE \A i \in DOMAIN c : c[i].id # h
    BY <1>5, <2>1, NoRecord
  <2>2. ASSUME NEW i \in DOMAIN c, c[i].id = h
        PROVE  StatIn(d, h) = IF h = c[k].id THEN r.stat ELSE StatIn(c, h)
    <3>1. StatIn(d, h) = d[i].stat /\ StatIn(c, h) = c[i].stat
      BY <1>5, <2>2, LookUp
    <3>2. h = c[k].id <=> i = k
      BY <2>2 DEF OnePerHost
    <3>. QED
      BY <1>2, <1>3, <3>1, <3>2
  <2>. QED
    BY <2>1, <2>2
<1>. QED
  BY <1>5, <1>6 DEF Stats, d

-----------------------------------------------------------------------------
\* What a datagram does.

LEMMA MakeOfferMap ==
  ASSUME IInv, NEW d \in Datagrams, MakeOffer(d) PROVE Leases!Next
<1>. DEFINE a == Head(pool)
            c == NewClient(d, a)
<1>1. /\ pool \in Seq(IpMasks) /\ useList \in Seq(IpMasks)
      /\ clients \in Seq(ClientRecords)
      /\ OnePerHost(clients)
      /\ Matches(useList, clients)
      /\ Conserved(pool, useList)
  BY IInvLists
<1>2. pool # << >> /\ clients' = Append(clients, c)
  BY DEF MakeOffer
<1>3. a \in IpMasks /\ 1 \in DOMAIN pool /\ a = pool[1]
  BY <1>1, <1>2, TailElements
<1>4. c \in ClientRecords /\ c.stat = 2 /\ c.addr = a.ip
  <2>1. HostOf[d.from] \in Hosts /\ d.from \in Procs /\ 0 \in 0 .. Timeout
    BY NetAssumption DEF Datagrams
  <2>2. UseIpTime \in Uint16 /\ Htons(UseIpTime) \in Uint16
    BY ServerAssumption, HtonsType
  <2>3. a.ip \in Addrs /\ a.netmask \in Masks
    BY <1>3 DEF IpMasks
  <2>. QED
    BY <2>1, <2>2, <2>3 DEF NewClient, ClientRecords, WAIT_REQ
<1>5. \A i \in DOMAIN clients : clients[i].id # c.id
  BY DEF MakeOffer, AsksNew, Known, RecordsOf, NewClient
<1>6. {a.ip} \in {{PoolConfig[i].ip} : i \in DOMAIN PoolConfig}
  <2>1. a \in ToSet(PoolConfig)
    BY <1>1, <1>3 DEF Conserved, ToSet
  <2>2. PICK i \in DOMAIN PoolConfig : a = PoolConfig[i]
    BY <2>1 DEF ToSet
  <2>. QED
    BY <2>2
<1>. HIDE DEF a, c
<1>7. c.id \in Hosts
  BY <1>4 DEF ClientRecords
<1>8. ASSUME NEW h \in Hosts PROVE LeaseIn(clients, h) # {a.ip}
  <2>. SUFFICES ASSUME NEW i \in DOMAIN clients, clients[i].addr = a.ip PROVE FALSE
    BY DEF LeaseIn, Of
  <2>1. AddressOf(clients[i]) \in ToSet(useList)
    BY <1>1 DEF Matches
  <2>2. PICK j \in DOMAIN useList : useList[j] = AddressOf(clients[i])
    BY <2>1 DEF ToSet
  <2>3. useList[j].ip = pool[1].ip
    BY <1>3, <2>2 DEF AddressOf
  <2>. QED
    BY <1>1, <1>3, <2>3 DEF Conserved
<1>9. /\ Stats(clients') = [Stats(clients) EXCEPT ![c.id] = 2]
      /\ Addresses(clients') = [Addresses(clients) EXCEPT ![c.id] = {a.ip}]
  BY <1>1, <1>2, <1>4, <1>5, AddedLease
<1>10. Stats(clients)[c.id] = 0
  BY <1>5, <1>7, NoRecord DEF Stats
<1>11. \A h \in Hosts : Addresses(clients)[h] # {a.ip}
  BY <1>8 DEF Addresses
<1>12. Leases!Offer(c.id)
  <2>1. {a.ip} \in Leases!Free
    <3>1. {a.ip} \notin {Addresses(clients)[h] : h \in Hosts}
      BY <1>11
    <3>. QED
      BY <1>6, <3>1, Mapped DEF Leases!Free
  <2>. QED
    BY <1>9, <1>10, <2>1, Mapped, MappedNext, Mapping DEF Leases!Offer
<1>. QED
  BY <1>7, <1>12 DEF Leases!Next

LEMMA GrantLeaseMap ==
  ASSUME IInv, NEW d \in Datagrams, GrantLease(d) PROVE Leases!Next
<1>. DEFINE k == RecordAt(d)
            h == clients[k].id
            r == Leased(clients[k], d.pkt)
<1>1. clients \in Seq(ClientRecords) /\ OnePerHost(clients)
  BY IInvLists
<1>2. k \in DOMAIN clients /\ clients[k] \in ClientRecords /\ RecordOf(d) = clients[k]
  BY <1>1, RecordType DEF GrantLease, AsksAlloc, RecordOf
<1>3. r \in ClientRecords /\ SameLease(r, clients[k]) /\ r.stat = 3
  <2>1. d.pkt.ttl \in Uint16 /\ 0 \in 0 .. Timeout
    BY NetAssumption DEF Datagrams, Packets
  <2>2. Ntohs(d.pkt.ttl) \in Uint16
    BY <2>1, HtonsType
  <2>. QED
    BY <1>2, <2>1, <2>2 DEF Leased, ClientRecords, SameLease, IN_USE
<1>4. clients' = [clients EXCEPT ![k] = r]
  BY <1>2 DEF GrantLease, Leased
<1>5. clients[k].stat \in {2, 4}
  BY <1>2 DEF GrantLease, AsksAlloc, WAIT_REQ, WAIT_REQ_AGAIN
<1>. HIDE DEF k, r
<1>6. /\ Stats(clients') = [Stats(clients) EXCEPT ![h] = 3]
      /\ Addresses(clients') = Addresses(clients)
  <2>1. /\ Stats([clients EXCEPT ![k] = r]) = [Stats(clients) EXCEPT ![clients[k].id] = r.stat]
        /\ Addresses([clients EXCEPT ![k] = r]) = Addresses(clients)
    BY <1>1, <1>2, <1>3, ReplacedMap
  <2>. QED
    BY <1>3, <1>4, <2>1
<1>7. h \in Hosts /\ Stats(clients)[h] \in {2, 4}
  BY <1>1, <1>2, <1>5, LookUp DEF Stats
<1>8. Leases!Grant(h)
  BY <1>6, <1>7, Mapped, MappedNext, Mapping DEF Leases!Grant
<1>. QED
  BY <1>7, <1>8 DEF Leases!Next

\* An extension starts the counter again, which does not show.
LEMMA ExtendLeaseMap ==
  ASSUME IInv, NEW d \in Datagrams, ExtendLease(d) PROVE UNCHANGED Leases!vars
<1>. DEFINE k == RecordAt(d)
            r == Extended(clients[k], d.pkt)
<1>1. clients \in Seq(ClientRecords) /\ OnePerHost(clients)
  BY IInvLists
<1>2. k \in DOMAIN clients /\ clients[k] \in ClientRecords /\ RecordOf(d) = clients[k]
  BY <1>1, RecordType DEF ExtendLease, AsksExtension, RecordOf
<1>3. r \in ClientRecords /\ SameLease(r, clients[k]) /\ r.stat = clients[k].stat
  <2>1. d.pkt.ttl \in Uint16
    BY DEF Datagrams, Packets
  <2>2. Ntohs(d.pkt.ttl) \in Uint16
    BY <2>1, HtonsType
  <2>. QED
    BY <1>2, <2>2 DEF Extended, ClientRecords, SameLease
<1>4. clients' = [clients EXCEPT ![k] = r]
  BY <1>2 DEF ExtendLease, Extended
<1>. HIDE DEF k, r
<1>5. /\ Stats(clients') = [Stats(clients) EXCEPT ![clients[k].id] = clients[k].stat]
      /\ Addresses(clients') = Addresses(clients)
  <2>1. /\ Stats([clients EXCEPT ![k] = r]) = [Stats(clients) EXCEPT ![clients[k].id] = r.stat]
        /\ Addresses([clients EXCEPT ![k] = r]) = Addresses(clients)
    BY <1>1, <1>2, <1>3, ReplacedMap
  <2>. QED
    BY <1>3, <1>4, <2>1
<1>6. clients[k].id \in Hosts /\ Stats(clients)[clients[k].id] = clients[k].stat
  BY <1>1, <1>2, LookUp DEF Stats
<1>7. Stats(clients') = Stats(clients)
  BY <1>5, <1>6 DEF Stats
<1>. QED
  BY <1>5, <1>7, SameMap

\* A refusal recalls the address of the sender, a RELEASE the one it names.
LEMMA RecvMap ==
  ASSUME IInv, Recv PROVE [Leases!Next]_(Leases!vars)
<1>. DEFINE d == Head(toServer)
<1>1. clients \in Seq(ClientRecords) /\ OnePerHost(clients)
  BY IInvLists
<1>2. d \in Datagrams
  <2>1. toServer \in Seq(Datagrams) /\ toServer # << >>
    BY DEF Recv, IInv, TypeOK, NetTypeOK
  <2>. QED
    BY <2>1, TailElements
<1>3. Handle(d)
  BY DEF Recv
<1>. HIDE DEF d
<1>4. CASE \E ip : clients' = ReleaseClient(clients, ip)
  BY <1>1, <1>4, ReleasedMap
<1>5. CASE RefuseOffer(d) \/ Ignore(d)
  <2>1. clients' = clients
    BY <1>5 DEF RefuseOffer, Ignore
  <2>. QED
    BY <2>1, SameMap
<1>. QED
  BY <1>2, <1>3, <1>4, <1>5, MakeOfferMap, GrantLeaseMap, ExtendLeaseMap
     DEF Handle, RefuseLease, EndLease

-----------------------------------------------------------------------------
LEMMA PassMap ==
  ASSUME NEW A \in SUBSET Hosts, NEW G \in SUBSET Hosts,
         \A h \in A : Stats(clients)[h] = 2,
         \A h \in G : Stats(clients)[h] = 4,
         \A g, h \in G : g = h,
         Stats(clients') = [h \in Hosts |-> IF h \in A THEN 4
                                            ELSE IF h \in G THEN 0 ELSE Stats(clients)[h]],
         Addresses(clients') = [h \in Hosts |-> IF h \in G THEN {} ELSE Addresses(clients)[h]]
  PROVE  Leases!TimeoutPass
<1>. DEFINE s == [h \in Hosts |-> StatOf(h)]
            l == [h \in Hosts |-> LeaseOf(h)]
<1>1. s = Stats(clients) /\ s' = Stats(clients')
  BY Mapped, MappedNext
<1>2. l = Addresses(clients) /\ l' = Addresses(clients')
  BY Mapped, MappedNext
<1>3. Leases!TimeoutPass <=>
        \E again, gone \in SUBSET Hosts :
          /\ \A h \in again : s[h] = 2
          /\ \A h \in gone : s[h] = 4
          /\ \A g, h \in gone : g = h
          /\ s' = [h \in Hosts |-> IF h \in again THEN 4
                                    ELSE IF h \in gone THEN 0 ELSE s[h]]
          /\ l' = [h \in Hosts |-> IF h \in gone THEN {} ELSE l[h]]
  BY Mapping DEF Leases!TimeoutPass
<1>. HIDE DEF s, l
<1>. QED
  BY <1>1, <1>2, <1>3

\* wait_event(): the hosts whose OFFER is repeated, and the one, if any, whose
\* address is recalled because the loop breaks there.
LEMMA WaitEventMap ==
  ASSUME IInv, WaitEvent PROVE [Leases!Next]_(Leases!vars)
<1>. DEFINE due == {i \in DOMAIN clients : GivesUp(clients[i])}
            swept == [i \in DOMAIN clients |->
                        IF Reached(due, i) THEN Reoffered(clients[i])
                                           ELSE clients[i]]
            again == {clients[i].id : i \in {j \in DOMAIN clients :
                        Reached(due, j) /\ clients[j].stat = 2 /\ TimedOut(clients[j])}}
<1>1. clients \in Seq(ClientRecords) /\ OnePerHost(clients) /\ Matches(useList, clients)
  BY IInvLists
<1>2. ASSUME NEW i \in DOMAIN clients
      PROVE  /\ swept[i] \in ClientRecords
             /\ SameLease(swept[i], clients[i])
             /\ swept[i].stat = IF clients[i].id \in again THEN 4 ELSE clients[i].stat
             /\ clients[i].id \in again => clients[i].stat = 2 /\ Reached(due, i)
  <2>1. clients[i] \in ClientRecords
    BY <1>1
  <2>2. swept[i] \in ClientRecords /\ SameLease(swept[i], clients[i])
    BY <2>1, ReofferedType DEF SameLease
  <2>3. clients[i].id \in again
          <=> Reached(due, i) /\ clients[i].stat = 2 /\ TimedOut(clients[i])
    BY <1>1 DEF OnePerHost
  <2>4. Reoffered(clients[i]).stat =
          IF clients[i].stat = 2 /\ TimedOut(clients[i]) THEN 4 ELSE clients[i].stat
    BY <2>1 DEF Reoffered, ClientRecords, WAIT_REQ, WAIT_REQ_AGAIN
  <2>. QED
    BY <2>2, <2>3, <2>4
<1>3. swept \in Seq(ClientRecords) /\ Len(swept) = Len(clients)
  <2>1. swept \in [DOMAIN clients -> ClientRecords]
    BY <1>2
  <2>. HIDE DEF swept
  <2>. QED
    BY <1>1, <2>1, PassType
<1>4. RecallFirst(due, swept)
  BY DEF WaitEvent
<1>5. \A i \in due : i \in DOMAIN clients /\ clients[i].stat = 4 /\ ~Reached(due, i)
  BY <1>1 DEF GivesUp, WAIT_REQ_AGAIN, Reached
<1>6. \A h \in again : \E i \in DOMAIN clients : clients[i].id = h
  OBVIOUS
<1>7. due \subseteq Nat
  BY <1>1
<1>. HIDE DEF due, swept, again
<1>8. /\ OnePerHost(swept)
      /\ Addresses(swept) = Addresses(clients)
      /\ \A h \in Hosts : (\A i \in DOMAIN clients : clients[i].id # h) => StatIn(swept, h) = 0
      /\ \A i \in DOMAIN clients : StatIn(swept, clients[i].id) = swept[i].stat
  BY <1>1, <1>2, <1>3, SweptLeases
<1>9. ASSUME NEW h \in Hosts
      PROVE  /\ StatIn(swept, h) = IF h \in again THEN 4 ELSE StatIn(clients, h)
             /\ h \in again => StatIn(clients, h) = 2
  <2>1. CASE \A i \in DOMAIN clients : clients[i].id # h
    <3>1. h \notin again
      BY <1>6, <2>1
    <3>. QED
      BY <1>8, <2>1, <3>1, NoRecord
  <2>2. ASSUME NEW i \in DOMAIN clients, clients[i].id = h
        PROVE  /\ StatIn(swept, h) = IF h \in again THEN 4 ELSE StatIn(clients, h)
               /\ h \in again => StatIn(clients, h) = 2
    <3>1. StatIn(swept, h) = swept[i].stat /\ StatIn(clients, h) = clients[i].stat
      BY <1>1, <1>8, <2>2, LookUp
    <3>. QED
      BY <1>2, <2>2, <3>1
  <2>. QED
    BY <2>1, <2>2
<1>10. /\ again \subseteq Hosts
       /\ \A h \in again : Stats(clients)[h] = 2
       /\ Stats(swept) = [h \in Hosts |-> IF h \in again THEN 4 ELSE Stats(clients)[h]]
  <2>1. again \subseteq Hosts
    BY <1>1, <1>6, LookUp
  <2>. QED
    BY <1>9, <2>1 DEF Stats
<1>11. CASE due = {}
  <2>1. clients' = swept
    BY <1>4, <1>11 DEF RecallFirst
  <2>2. /\ Stats(clients') = [h \in Hosts |-> IF h \in again THEN 4
                                             ELSE IF h \in {} THEN 0 ELSE Stats(clients)[h]]
        /\ Addresses(clients') = [h \in Hosts |-> IF h \in {} THEN {} ELSE Addresses(clients)[h]]
    BY <1>8, <1>10, <2>1 DEF Addresses
  <2>3. Leases!TimeoutPass
    <3>1. {} \in SUBSET Hosts
      OBVIOUS
    <3>. QED
      BY <1>10, <2>2, <3>1, PassMap
  <2>. QED
    BY <2>3 DEF Leases!Next
<1>12. CASE due # {}
  <2>. DEFINE k == Min(due)
              g == clients[k].id
  <2>1. k \in due
    BY <1>7, <1>12, MinProperties
  <2>2. k \in DOMAIN clients /\ clients[k].stat = 4 /\ g \notin again
    BY <1>2, <1>5, <2>1
  <2>3. clients' = ReleaseClient(swept, clients[k].addr)
    BY <1>4, <1>12 DEF RecallFirst
  <2>. HIDE DEF k
  <2>4. DOMAIN swept = DOMAIN clients
    BY <1>1, <1>3
  <2>5. clients' = RemoveAt(swept, k)
    <3>1. swept[k].addr = clients[k].addr
      BY <1>2, <2>2 DEF SameLease
    <3>2. \A m \in DOMAIN swept : swept[m].addr = clients[k].addr => m = k
      BY <1>1, <1>2, <2>2, <2>4 DEF SameLease, Matches
    <3>. QED
      BY <1>3, <2>2, <2>3, <2>4, <3>1, <3>2, ReleaseClientEffect
  <2>6. swept[k].id = g
    BY <1>2, <2>2 DEF SameLease
  <2>7. /\ Stats(clients') = [Stats(swept) EXCEPT ![g] = 0]
        /\ Addresses(clients') = [Addresses(swept) EXCEPT ![g] = {}]
    BY <1>3, <1>8, <2>2, <2>4, <2>5, <2>6, ReleasedLease
  <2>8. g \in Hosts /\ Stats(clients)[g] = 4
    BY <1>1, <2>2, LookUp DEF Stats
  <2>. HIDE DEF g
  <2>9. /\ Stats(clients') = [h \in Hosts |-> IF h \in again THEN 4
                                             ELSE IF h \in {g} THEN 0 ELSE Stats(clients)[h]]
        /\ Addresses(clients') = [h \in Hosts |-> IF h \in {g} THEN {} ELSE Addresses(clients)[h]]
    <3>1. Addresses(swept) = [h \in Hosts |-> Addresses(clients)[h]]
      BY <1>8 DEF Addresses
    <3>. QED
      BY <1>10, <2>2, <2>7, <2>8, <3>1
  <2>10. Leases!TimeoutPass
    <3>1. /\ \A h \in again : Stats(clients)[h] = 2
          /\ \A h \in {g} : Stats(clients)[h] = 4
          /\ again \subseteq Hosts /\ {g} \subseteq Hosts
      BY <1>10, <2>8
    <3>. QED
      BY <2>9, <3>1, PassMap
  <2>. QED
    BY <2>10 DEF Leases!Next
<1>. QED
  BY <1>11, <1>12

-----------------------------------------------------------------------------
LEMMA InitMap == Init => Leases!Init
<1>. SUFFICES ASSUME Init PROVE Leases!Init
  OBVIOUS
<1>1. clients = << >>
  BY DEF Init, ServerInit
<1>2. \A h : StatIn(clients, h) = 0 /\ LeaseIn(clients, h) = {}
  BY <1>1, NoRecord
<1>. QED
  BY <1>2, Mapped, Mapping DEF Leases!Init, Stats, Addresses

LEMMA StepMap == IInv /\ [Next]_vars => [Leases!Next]_(Leases!vars)
<1>. SUFFICES ASSUME IInv, [Next]_vars PROVE [Leases!Next]_(Leases!vars)
  OBVIOUS
<1>1. CASE ServerStep
  <2>1. CASE TtlClear \/ Idle
    <3>1. clients' = clients
      BY <2>1 DEF TtlClear, Idle
    <3>. QED
      BY <3>1, SameMap
  <2>. QED
    BY <1>1, <2>1, TtlDecrementMap, WaitEventMap, RecvMap DEF ServerStep
<1>2. CASE Tick
  BY <1>2, TickMap
<1>3. CASE Alarm \/ ClientMove \/ (Network /\ UNCHANGED serverVars) \/ UNCHANGED vars
  <2>1. clients' = clients
    BY <1>3 DEF Alarm, ClientMove, serverVars, vars
  <2>. QED
    BY <2>1, SameMap
<1>. QED
  BY <1>1, <1>2, <1>3 DEF Next

\* The loop implements the state diagram of AddressLeases, whatever datagrams
\* arrive and however the clocks run (mydhcpd.c:188-564).
THEOREM LoopImplementsLeases == Spec => ImplementsAddressLeases
BY InitMap, InitEstablishes, StepKeeps, StepMap, PTL
   DEF Spec, ImplementsAddressLeases, Leases!Spec

-----------------------------------------------------------------------------
\* Who holds an address, seen through the mapping.
Holding(lease, ip) == {h \in Hosts : lease[h] = {ip}}

LEMMA HoldersMapped ==
  ASSUME NEW c \in Seq(ClientRecords), OnePerHost(c), NEW ip
  PROVE  {c[i].id : i \in HoldersAt(c, ip)} = Holding(Addresses(c), ip)
<1>1. \A i \in DOMAIN c : c[i].id \in Hosts /\ Addresses(c)[c[i].id] = {c[i].addr}
  BY LookUp DEF Addresses
<1>2. ASSUME NEW h \in Hosts, Addresses(c)[h] = {ip}
      PROVE  \E i \in DOMAIN c : c[i].id = h /\ c[i].addr = ip
  <2>1. \E i \in DOMAIN c : c[i].id = h
    BY <1>2, NoRecord DEF Addresses
  <2>. QED
    BY <1>1, <1>2, <2>1
<1>. QED
  BY <1>1, <1>2 DEF HoldersAt, Holding

\* No address is held twice.
LEMMA OneHolder ==
  ASSUME NEW c \in Seq(ClientRecords), OnePerHost(c),
         \A i, j \in DOMAIN c : c[i].addr = c[j].addr => i = j,
         NEW ip, NEW g \in Holding(Addresses(c), ip)
  PROVE  Holding(Addresses(c), ip) = {g}
<1>1. ASSUME NEW h \in Holding(Addresses(c), ip)
      PROVE  \E i \in DOMAIN c : c[i].id = h /\ c[i].addr = ip
  BY <1>1, HoldersMapped DEF HoldersAt
<1>. QED
  BY <1>1

\* An edge of the state diagram leaves an address with its host or with none.
LEMMA EdgeHandsNothingOver ==
  ASSUME Leases!Next, NEW ip, NEW g,
         Holding(Addresses(clients), ip) = {g}
  PROVE  Holding(Addresses(clients'), ip) \in {{}, {g}}
<1>. DEFINE L == Addresses(clients)
            M == Addresses(clients')
<1>1. L = [h \in Hosts |-> LeaseOf(h)] /\ M = [h \in Hosts |-> LeaseOf(h)']
  BY Mapped, MappedNext
<1>2. g \in Hosts /\ L[g] = {ip} /\ {ip} # {} /\ DOMAIN L = Hosts
  BY DEF Holding, Addresses
<1>. SUFFICES ASSUME NEW h \in Hosts, M[h] = {ip} PROVE h = g
  BY DEF Holding
<1>3. ASSUME NEW k \in Hosts, Leases!Offer(k) PROVE h = g
  <2>1. PICK a \in Leases!Free : M = [L EXCEPT ![k] = a]
    BY <1>1, <1>3 DEF Leases!Offer
  <2>2. a # {ip}
    BY <1>1, <1>2 DEF Leases!Free
  <2>3. L[h] = {ip}
    BY <1>2, <2>1, <2>2
  <2>. QED
    BY <2>3 DEF Holding
<1>4. ASSUME NEW k \in Hosts, Leases!Grant(k) PROVE h = g
  <2>1. M = L
    BY <1>1, <1>4 DEF Leases!Grant
  <2>. QED
    BY <2>1 DEF Holding
<1>5. ASSUME NEW k \in Hosts, Leases!Recall(k) PROVE h = g
  <2>1. M = [L EXCEPT ![k] = {}]
    BY <1>1, <1>5 DEF Leases!Recall
  <2>2. L[h] = {ip}
    BY <1>2, <2>1
  <2>. QED
    BY <2>2 DEF Holding
<1>6. ASSUME Leases!TimeoutPass PROVE h = g
  <2>1. PICK gone \in SUBSET Hosts : M = [k \in Hosts |-> IF k \in gone THEN {} ELSE L[k]]
    BY <1>1, <1>6 DEF Leases!TimeoutPass
  <2>2. L[h] = {ip}
    BY <1>2, <2>1
  <2>. QED
    BY <2>2 DEF Holding
<1>. QED
  BY <1>3, <1>4, <1>5, <1>6 DEF Leases!Next

LEMMA StepHandsNothingOver ==
  ASSUME IInv, IInv', [Next]_vars, NEW ip \in Addrs, HoldersOf(ip) # {}
  PROVE  HoldersOf(ip)' \in {{}, HoldersOf(ip)}
<1>1. /\ clients \in Seq(ClientRecords) /\ OnePerHost(clients)
      /\ clients' \in Seq(ClientRecords) /\ OnePerHost(clients')
      /\ Matches(useList, clients)
  BY IInvLists DEF IInv, TypeOK, Consistent
<1>2. /\ HoldersOf(ip) = Holding(Addresses(clients), ip)
      /\ HoldersOf(ip)' = Holding(Addresses(clients'), ip)
  BY <1>1, HoldersMapped DEF HoldersOf, HoldersAt
<1>3. PICK g : Holding(Addresses(clients), ip) = {g}
  BY <1>1, <1>2, OneHolder DEF Matches
<1>4. CASE Leases!Next
  BY <1>2, <1>3, <1>4, EdgeHandsNothingOver
<1>5. CASE UNCHANGED Leases!vars
  <2>1. Addresses(clients') = Addresses(clients)
    BY <1>5, Mapped, MappedNext DEF Leases!vars
  <2>. QED
    BY <1>2, <2>1
<1>. QED
  BY <1>4, <1>5, StepMap

\* An address that a host has goes back to the pool before another host gets
\* it (mydhcpd.c:188-564).
THEOREM AddressGoesThroughPool == Spec => HandoverThroughPool
<1>. DEFINE Step == \A ip \in Addrs :
              HoldersOf(ip) # {} => HoldersOf(ip)' \in {{}, HoldersOf(ip)}
<1>1. IInv /\ IInv' /\ [Next]_vars => [Step]_vars
  BY StepHandsNothingOver
<1>2. HandoverThroughPool <=> [][Step]_vars
  BY DEF HandoverThroughPool
<1>. HIDE DEF Step
<1>. QED
  BY <1>1, <1>2, InitEstablishes, StepKeeps, PTL DEF Spec

-----------------------------------------------------------------------------
(***************************************************************************)
(* How long a lease lasts, step by step: what each pass of the loop, each  *)
(* handler and each second do to the record of a host that has a lease,    *)
(* and what the server answers.  DhcpSessionProofs needs it to show that a     *)
(* client and the server agree on a lease.                                 *)
(***************************************************************************)

\* Whether the SIGALRM of this second has still to be counted.
Pending == IF timer = "due" \/ (ttl_flag /\ spc # "clear") THEN 1 ELSE 0

\* At most one is: what Prompt gives.
OneTick == (timer = "due" => ~ttl_flag) /\ (spc = "clear" => ttl_flag)

\* Host h holds the address a for k more seconds, this one not counted.
LeaseLasts(h, a, m, k) ==
  \E i \in DOMAIN clients :
    /\ clients[i].id = h
    /\ clients[i].stat = IN_USE
    /\ clients[i].addr = a
    /\ clients[i].netmask = m
    /\ clients[i].ttlcounter >= k + Pending

\* Host h has no record or a lease of an address of A.
OnlyLeases(h, A) ==
  \A i \in DOMAIN clients :
    clients[i].id = h => clients[i].stat = IN_USE /\ clients[i].addr \in A

\* Whom a record belongs to, and for how long.
RecordsOK ==
  \A i \in DOMAIN clients : /\ clients[i].id = HostOf[clients[i].again]
                            /\ clients[i].ttl = Htons(UseIpTime)

LEMMA PendingType == Pending \in {0, 1}
BY DEF Pending

LEMMA HtonsTwice ==
  ASSUME NEW n \in Uint16
  PROVE  Ntohs(Htons(n)) = n
<1>1. MaxUint16 \in Nat /\ MaxUint16 = 65535
  BY DEF MaxUint16
<1>2. n \in Nat /\ n <= 65535
  BY <1>1, SMTT(30) DEF Uint16
<1>3. PICK a \in Nat, b \in Nat : n = a * 256 + b /\ b <= 255 /\ a = n \div 256 /\ b = n % 256
  BY <1>2
<1>4. a <= 255
  BY <1>2, <1>3
<1>5. Htons(n) = b * 256 + a
  BY <1>3 DEF Htons
<1>6. (b * 256 + a) % 256 = a /\ (b * 256 + a) \div 256 = b
  BY <1>3, <1>4
<1>7. Ntohs(b * 256 + a) = a * 256 + b
  BY <1>6 DEF Ntohs, Htons
<1>. QED
  BY <1>3, <1>5, <1>7, SMTT(30)

LEMMA ListsHold ==
  ASSUME IInv
  PROVE  /\ clients \in Seq(ClientRecords)
         /\ \A i \in DOMAIN clients : clients[i] \in ClientRecords /\ i \in Nat
         /\ \A i, j \in DOMAIN clients : clients[i].id = clients[j].id => i = j
         /\ \A i, j \in DOMAIN clients : clients[i].addr = clients[j].addr => i = j
<1>1. clients \in Seq(ClientRecords)
  BY DEF IInv, TypeOK
<1>. QED
  BY <1>1 DEF IInv, Consistent, OnePerHost, Matches

\* release_client() takes away one record and no other.
LEMMA ReleaseClientRecords ==
  ASSUME NEW c \in Seq(ClientRecords), NEW ip
  PROVE  /\ \A i \in DOMAIN ReleaseClient(c, ip) :
               \E j \in DOMAIN c : ReleaseClient(c, ip)[i] = c[j]
         /\ \A j \in DOMAIN c : c[j].addr # ip =>
               \E i \in DOMAIN ReleaseClient(c, ip) : ReleaseClient(c, ip)[i] = c[j]
<1>1. CASE ReleaseClient(c, ip) = c
  BY <1>1
<1>2. ASSUME NEW m \in DOMAIN c, c[m].addr = ip, ReleaseClient(c, ip) = RemoveAt(c, m)
      PROVE  /\ \A i \in DOMAIN RemoveAt(c, m) : \E j \in DOMAIN c : RemoveAt(c, m)[i] = c[j]
             /\ \A j \in DOMAIN c : c[j].addr # ip =>
                  \E i \in DOMAIN RemoveAt(c, m) : RemoveAt(c, m)[i] = c[j]
  <2>1. Len(c) \in Nat /\ m \in 1 .. Len(c) /\ DOMAIN c = 1 .. Len(c)
    OBVIOUS
  <2>2. /\ RemoveAt(c, m) \in Seq(ClientRecords)
        /\ Len(RemoveAt(c, m)) = Len(c) - 1
        /\ \A j \in 1 .. Len(c) - 1 : RemoveAt(c, m)[j] = c[Before(m, j)]
    BY <2>1, RemoveAtProperties
  <2>3. DOMAIN RemoveAt(c, m) = 1 .. Len(c) - 1
    BY <2>2
  <2>4. /\ \A j \in 1 .. Len(c) - 1 : Before(m, j) \in 1 .. Len(c)
        /\ \A i \in 1 .. Len(c) : i # m => \E j \in 1 .. Len(c) - 1 : Before(m, j) = i
    BY <2>1, BeforeProperties
  <2>5. ASSUME NEW j \in DOMAIN c, c[j].addr # ip
        PROVE  \E i \in DOMAIN RemoveAt(c, m) : RemoveAt(c, m)[i] = c[j]
    <3>1. j # m
      BY <1>2, <2>5
    <3>2. PICK i \in 1 .. Len(c) - 1 : Before(m, i) = j
      BY <2>1, <2>4, <3>1
    <3>. QED
      BY <2>2, <2>3, <3>2
  <2>. QED
    BY <2>1, <2>2, <2>3, <2>4, <2>5
<1>. QED
  BY <1>1, <1>2, ReleaseClientEffect

\* The two loops over the records take away the first one that is due.
LEMMA RecallFirstRecords ==
  ASSUME IInv, NEW due, due \subseteq DOMAIN clients,
         NEW swept \in Seq(ClientRecords), DOMAIN swept = DOMAIN clients,
         \A i \in DOMAIN clients : SameLease(swept[i], clients[i]),
         RecallFirst(due, swept)
  PROVE  /\ \A i \in DOMAIN clients' : \E j \in DOMAIN clients : clients'[i] = swept[j]
         /\ \A j \in DOMAIN clients : j \notin due =>
               \E i \in DOMAIN clients' : clients'[i] = swept[j]
<1>1. CASE due = {}
  BY <1>1 DEF RecallFirst
<1>2. CASE due # {}
  <2> DEFINE ip == clients[Min(due)].addr
  <2>1. clients' = ReleaseClient(swept, ip)
    BY <1>2 DEF RecallFirst
  <2>2. Min(due) \in due
    BY <1>2, ListsHold, MinProperties
  <2>3. \A j \in DOMAIN clients : j \notin due => swept[j].addr # ip
    BY <2>2, ListsHold DEF SameLease
  <2> HIDE DEF ip
  <2>. QED
    BY <2>1, <2>3, ReleaseClientRecords
<1>. QED
  BY <1>1, <1>2

-----------------------------------------------------------------------------
\* The two loops over the records.  Each says what a record becomes.

LEMMA TtlDecrementRecords ==
  ASSUME IInv, TtlDecrement
  PROVE  /\ \A i \in DOMAIN clients' : \E j \in DOMAIN clients :
               clients'[i] = clients[j] \/ clients'[i] = Ticked(clients[j])
         /\ \A j \in DOMAIN clients : ~Expired(clients[j]) =>
               \E i \in DOMAIN clients' :
                 clients'[i] = clients[j] \/ clients'[i] = Ticked(clients[j])
<1> DEFINE due == {i \in DOMAIN clients : Expired(clients[i])}
           swept == [i \in DOMAIN clients |->
                       IF Reached(due, i) THEN Ticked(clients[i]) ELSE clients[i]]
<1>1. ASSUME NEW i \in DOMAIN clients
      PROVE  /\ swept[i] \in ClientRecords /\ SameLease(swept[i], clients[i])
             /\ swept[i] = clients[i] \/ swept[i] = Ticked(clients[i])
  <2>1. clients[i] \in ClientRecords /\ i \in Nat
    BY ListsHold
  <2>2. CASE Reached(due, i)
    <3>1. ~Expired(clients[i])
      BY <2>1, <2>2 DEF Reached
    <3>. QED
      BY <2>1, <2>2, <3>1, TickedType
  <2>3. CASE ~Reached(due, i)
    BY <2>1, <2>3 DEF SameLease
  <2>. QED
    BY <2>2, <2>3
<1>2. swept \in Seq(ClientRecords) /\ DOMAIN swept = DOMAIN clients
  <2>1. Len(clients) \in Nat /\ DOMAIN clients = 1 .. Len(clients)
    BY ListsHold
  <2>2. swept \in [1 .. Len(clients) -> ClientRecords]
    BY <1>1, <2>1
  <2> HIDE DEF swept
  <2>. QED
    BY <2>1, <2>2, FunctionIsSequence
<1>3. RecallFirst(due, swept) /\ due \subseteq DOMAIN clients
  BY DEF TtlDecrement
<1>4. \A j \in DOMAIN clients : ~Expired(clients[j]) => j \notin due
  OBVIOUS
<1> HIDE DEF due, swept
<1>5. /\ \A i \in DOMAIN clients' : \E j \in DOMAIN clients : clients'[i] = swept[j]
      /\ \A j \in DOMAIN clients : j \notin due =>
            \E i \in DOMAIN clients' : clients'[i] = swept[j]
  BY <1>1, <1>2, <1>3, RecallFirstRecords
<1>. QED
  BY <1>1, <1>4, <1>5

LEMMA WaitEventRecords ==
  ASSUME IInv, WaitEvent
  PROVE  /\ \A i \in DOMAIN clients' : \E j \in DOMAIN clients :
               clients'[i] = Reoffered(clients[j]) \/ clients'[i] = clients[j]
         /\ \A j \in DOMAIN clients : clients[j].stat = IN_USE =>
               \E i \in DOMAIN clients' : clients'[i] = clients[j]
<1> DEFINE due == {i \in DOMAIN clients : GivesUp(clients[i])}
           swept == [i \in DOMAIN clients |->
                       IF Reached(due, i) THEN Reoffered(clients[i]) ELSE clients[i]]
<1>1. ASSUME NEW i \in DOMAIN clients
      PROVE  /\ swept[i] \in ClientRecords /\ SameLease(swept[i], clients[i])
             /\ swept[i] = Reoffered(clients[i]) \/ swept[i] = clients[i]
  <2>1. clients[i] \in ClientRecords
    BY ListsHold
  <2>. QED
    BY <2>1, ReofferedType DEF SameLease
<1>2. swept \in Seq(ClientRecords) /\ DOMAIN swept = DOMAIN clients
  <2>1. Len(clients) \in Nat /\ DOMAIN clients = 1 .. Len(clients)
    BY ListsHold
  <2>2. swept \in [1 .. Len(clients) -> ClientRecords]
    BY <1>1, <2>1
  <2> HIDE DEF swept
  <2>. QED
    BY <2>1, <2>2, FunctionIsSequence
<1>3. RecallFirst(due, swept) /\ due \subseteq DOMAIN clients
  BY DEF WaitEvent
<1>4. \A j \in DOMAIN clients : clients[j].stat = IN_USE => j \notin due /\ swept[j] = clients[j]
  BY DEF GivesUp, Reoffered, IN_USE, WAIT_REQ, WAIT_REQ_AGAIN
<1> HIDE DEF due, swept
<1>5. /\ \A i \in DOMAIN clients' : \E j \in DOMAIN clients : clients'[i] = swept[j]
      /\ \A j \in DOMAIN clients : j \notin due =>
            \E i \in DOMAIN clients' : clients'[i] = swept[j]
  BY <1>1, <1>2, <1>3, RecallFirstRecords
<1>. QED
  BY <1>1, <1>4, <1>5

\* Leases survive the passes of the loop.
LEMMA LoopKeepsLease ==
  ASSUME IInv, OneTick, TtlDecrement \/ TtlClear \/ WaitEvent \/ Idle \/ Alarm,
         NEW h, NEW a, NEW m, NEW k \in Nat, LeaseLasts(h, a, m, k)
  PROVE  LeaseLasts(h, a, m, k)'
<1>1. PICK j \in DOMAIN clients :
        /\ clients[j].id = h
        /\ clients[j].stat = IN_USE
        /\ clients[j].addr = a
        /\ clients[j].netmask = m
        /\ clients[j].ttlcounter >= k + Pending
  BY DEF LeaseLasts
<1>2. clients[j].ttlcounter \in Nat
  <2>1. MaxUint16 \in Nat
    BY DEF MaxUint16
  <2>. QED
    BY <2>1, ListsHold DEF ClientRecords, Uint16
<1>3. CASE TtlDecrement
  <2>1. Pending = 1 /\ Pending' = 0
    BY <1>3 DEF TtlDecrement, Pending, OneTick
  <2>2. ~Expired(clients[j])
    BY <1>1, <1>2, <2>1 DEF Expired
  <2>3. PICK i \in DOMAIN clients' : clients'[i] = clients[j] \/ clients'[i] = Ticked(clients[j])
    BY <1>3, <2>2, TtlDecrementRecords
  <2>4. clients[j] \in ClientRecords
    BY ListsHold
  <2>5. /\ clients'[i].id = h
        /\ clients'[i].stat = IN_USE
        /\ clients'[i].addr = a
        /\ clients'[i].netmask = m
        /\ clients'[i].ttlcounter \in {clients[j].ttlcounter, clients[j].ttlcounter - 1}
    BY <1>1, <2>3, <2>4 DEF Ticked, ClientRecords
  <2>6. clients'[i].ttlcounter >= k + Pending'
    BY <1>1, <1>2, <2>1, <2>5
  <2>. QED
    BY <2>5, <2>6 DEF LeaseLasts
<1>4. CASE WaitEvent
  <2>1. Pending' = Pending
    BY <1>4 DEF WaitEvent, Pending
  <2>2. PICK i \in DOMAIN clients' : clients'[i] = clients[j]
    BY <1>1, <1>4, WaitEventRecords
  <2>. QED
    BY <1>1, <2>1, <2>2 DEF LeaseLasts
<1>5. CASE TtlClear \/ Idle \/ Alarm
  <2>1. Pending' = Pending /\ clients' = clients
    BY <1>5 DEF TtlClear, Idle, Alarm, Pending, OneTick
  <2>. QED
    BY <1>1, <2>1 DEF LeaseLasts
<1>. QED
  BY <1>3, <1>4, <1>5

\* A second is one less.
LEMMA TickCountsLease ==
  ASSUME IInv, ServerTick, ~ttl_flag,
         NEW h, NEW a, NEW m, NEW k \in Int, LeaseLasts(h, a, m, k + 1)
  PROVE  LeaseLasts(h, a, m, k)'
<1>1. Pending = 0 /\ Pending' \in {0, 1}
  BY DEF ServerTick, Pending
<1>2. PICK j \in DOMAIN clients :
        /\ clients[j].id = h
        /\ clients[j].stat = IN_USE
        /\ clients[j].addr = a
        /\ clients[j].netmask = m
        /\ clients[j].ttlcounter >= (k + 1) + Pending
  BY DEF LeaseLasts
<1>3. clients[j].ttlcounter \in Nat
  <2>1. MaxUint16 \in Nat
    BY DEF MaxUint16
  <2>. QED
    BY <2>1, ListsHold DEF ClientRecords, Uint16
<1>4. j \in DOMAIN clients' /\ clients'[j] = clients[j]
  BY <1>2 DEF ServerTick, Older
<1>5. clients'[j].ttlcounter >= k + Pending'
  BY <1>1, <1>2, <1>3, <1>4
<1>. QED
  BY <1>2, <1>4, <1>5 DEF LeaseLasts

LEMMA OneTickKept ==
  ASSUME OneTick, spc \in {"top", "clear", "wait", "recv"},
         ServerStep \/ Alarm \/ (ServerTick /\ ~ttl_flag)
  PROVE  OneTick'
<1>1. CASE Recv
  <2>1. /\ spc = "recv" /\ spc' = "top" /\ ttl_flag' = ttl_flag
        /\ timer' = timer \/ timer' = "armed"
    BY <1>1 DEF Recv, Handle, MakeOffer, RefuseOffer, GrantLease, RefuseLease, ExtendLease,
                EndLease, Ignore
  <2>. QED
    BY <2>1 DEF OneTick
<1>2. CASE ServerTick /\ ~ttl_flag
  BY <1>2 DEF ServerTick, OneTick
<1>3. CASE TtlDecrement \/ TtlClear \/ WaitEvent \/ Idle \/ Alarm
  BY <1>3 DEF TtlDecrement, TtlClear, WaitEvent, Idle, Alarm, OneTick
<1>. QED
  BY <1>1, <1>2, <1>3 DEF ServerStep

-----------------------------------------------------------------------------
\* What recvfrom() and the handler do to the records.

\* The record that a datagram is about.
LEMMA OwnRecord ==
  ASSUME IInv, NEW d, Known(d)
  PROVE  /\ RecordAt(d) \in DOMAIN clients
         /\ RecordOf(d) = clients[RecordAt(d)]
         /\ RecordOf(d) \in ClientRecords
         /\ RecordOf(d).id = HostOf[d.from]
         /\ \A i \in DOMAIN clients : clients[i].id = HostOf[d.from] => i = RecordAt(d)
<1>1. RecordAt(d) \in RecordsOf(HostOf[d.from])
  <2>1. RecordsOf(HostOf[d.from]) \subseteq Nat
    BY ListsHold DEF RecordsOf
  <2>. QED
    BY <2>1, MinProperties DEF Known, RecordAt
<1>. QED
  BY <1>1, ListsHold DEF RecordsOf, RecordOf

\* A datagram that is answered with an ACK is a REQUEST.
LEMMA RecordsUpdated ==
  ASSUME IInv, NEW d \in Datagrams, Handle(d)
  PROVE  \/ clients' = clients
         \/ /\ MakeOffer(d)
            /\ \A i \in DOMAIN clients : i \in DOMAIN clients' /\ clients'[i] = clients[i]
            /\ \A i \in DOMAIN clients' :
                  (i \in DOMAIN clients /\ clients'[i] = clients[i])
                    \/ clients'[i] = NewClient(d, Head(pool))
         \/ /\ GrantLease(d) \/ ExtendLease(d)
            /\ DOMAIN clients' = DOMAIN clients
            /\ \A i \in DOMAIN clients : i # RecordAt(d) => clients'[i] = clients[i]
            /\ GrantLease(d) => clients'[RecordAt(d)] = Leased(RecordOf(d), d.pkt)
            /\ ExtendLease(d) => clients'[RecordAt(d)] = Extended(RecordOf(d), d.pkt)
         \/ /\ RefuseLease(d) \/ EndLease(d)
            /\ \A i \in DOMAIN clients' : \E j \in DOMAIN clients : clients'[i] = clients[j]
            /\ \A j \in DOMAIN clients :
                  clients[j].addr # (IF RefuseLease(d) THEN RecordOf(d).addr ELSE d.pkt.address) =>
                    \E i \in DOMAIN clients' : clients'[i] = clients[j]
<1>1. CASE RefuseOffer(d) \/ Ignore(d)
  BY <1>1 DEF RefuseOffer, Ignore
<1>2. CASE MakeOffer(d)
  <2> DEFINE c == NewClient(d, Head(pool))
  <2>1. clients' = Append(clients, c)
    BY <1>2 DEF MakeOffer
  <2>2. Len(clients) \in Nat /\ DOMAIN clients = 1 .. Len(clients)
    BY ListsHold
  <2> HIDE DEF c
  <2>3. /\ DOMAIN clients' = 1 .. Len(clients) + 1
        /\ \A i \in 1 .. Len(clients) : clients'[i] = clients[i]
        /\ clients'[Len(clients) + 1] = c
    BY <2>1, <2>2, ListsHold
  <2>4. \A i \in DOMAIN clients : i \in DOMAIN clients' /\ clients'[i] = clients[i]
    BY <2>2, <2>3
  <2>5. \A i \in DOMAIN clients' :
          (i \in DOMAIN clients /\ clients'[i] = clients[i]) \/ clients'[i] = c
    BY <2>2, <2>3
  <2>. QED
    BY <1>2, <2>4, <2>5 DEF c
<1>3. CASE GrantLease(d)
  <2>1. Known(d) /\ clients' = [clients EXCEPT ![RecordAt(d)] = Leased(clients[RecordAt(d)], d.pkt)]
    BY <1>3 DEF GrantLease, AsksAlloc
  <2>2. ~ExtendLease(d)
    BY <1>3 DEF GrantLease, AsksAlloc, ExtendLease, AsksExtension, WAIT_REQ, WAIT_REQ_AGAIN, IN_USE
  <2>. QED
    BY <1>3, <2>1, <2>2, OwnRecord
<1>4. CASE ExtendLease(d)
  <2>1. Known(d) /\ clients' = [clients EXCEPT ![RecordAt(d)] = Extended(clients[RecordAt(d)], d.pkt)]
    BY <1>4 DEF ExtendLease, AsksExtension
  <2>2. ~GrantLease(d)
    BY <1>4 DEF GrantLease, AsksAlloc, ExtendLease, AsksExtension, WAIT_REQ, WAIT_REQ_AGAIN, IN_USE
  <2>. QED
    BY <1>4, <2>1, <2>2, OwnRecord
<1>5. CASE RefuseLease(d)
  <2>1. clients' = ReleaseClient(clients, RecordOf(d).addr)
    BY <1>5 DEF RefuseLease
  <2>. QED
    BY <1>5, <2>1, ListsHold, ReleaseClientRecords
<1>6. CASE EndLease(d)
  <2>1. clients' = ReleaseClient(clients, d.pkt.address)
    BY <1>6 DEF EndLease
  <2>2. ~RefuseLease(d)
    BY <1>6 DEF RefuseLease, EndLease, AsksAlloc, AsksRelease, WAIT_REQ, WAIT_REQ_AGAIN, IN_USE
  <2>. QED
    BY <1>6, <2>1, <2>2, ListsHold, ReleaseClientRecords
<1>. QED
  BY <1>1, <1>2, <1>3, <1>4, <1>5, <1>6 DEF Handle

\* The steps of a reception around the handler.
LEMMA RecvPending ==
  ASSUME Recv PROVE Pending' <= Pending
<1>1. /\ spc = "recv" /\ spc' = "top" /\ ttl_flag' = ttl_flag
      /\ timer' = timer \/ timer' = "armed"
  BY DEF Recv, Handle, MakeOffer, RefuseOffer, GrantLease, RefuseLease, ExtendLease,
         EndLease, Ignore
<1>. QED
  BY <1>1 DEF Pending

\* A REQUEST for all of the lease time starts or restarts a whole lease.
LEMMA RecvStartsLease ==
  ASSUME IInv, Recv, NEW d \in Datagrams, d = Head(toServer),
         GrantLease(d) \/ ExtendLease(d), d.pkt.ttl = Htons(UseIpTime)
  PROVE  LeaseLasts(HostOf[d.from], d.pkt.address, d.pkt.netmask, UseIpTime - 1)'
<1> DEFINE k == RecordAt(d)
<1>1. Known(d) /\ AgreesWithOffer(RecordOf(d), d.pkt)
      /\ (ExtendLease(d) => RecordOf(d).stat = IN_USE)
  BY DEF GrantLease, AsksAlloc, ExtendLease, AsksExtension
<1>2. /\ k \in DOMAIN clients'
      /\ \/ clients'[k] = Leased(RecordOf(d), d.pkt)
         \/ /\ clients'[k] = Extended(RecordOf(d), d.pkt)
            /\ RecordOf(d).stat = IN_USE
  <2>1. CASE GrantLease(d)
    <3>1. clients' = [clients EXCEPT ![k] = Leased(clients[k], d.pkt)]
      BY <2>1 DEF GrantLease
    <3>. QED
      BY <1>1, <3>1, OwnRecord
  <2>2. CASE ExtendLease(d)
    <3>1. clients' = [clients EXCEPT ![k] = Extended(clients[k], d.pkt)]
      BY <2>2 DEF ExtendLease
    <3>. QED
      BY <1>1, <2>2, <3>1, OwnRecord
  <2>. QED
    BY <2>1, <2>2
<1>3. RecordOf(d) \in ClientRecords /\ RecordOf(d).id = HostOf[d.from]
  BY <1>1, OwnRecord
<1> HIDE DEF k
<1>4. Ntohs(d.pkt.ttl) = UseIpTime
  BY ServerAssumption, HtonsTwice
<1>5. /\ clients'[k].id = HostOf[d.from]
      /\ clients'[k].stat = IN_USE
      /\ clients'[k].addr = d.pkt.address
      /\ clients'[k].netmask = d.pkt.netmask
      /\ clients'[k].ttlcounter = UseIpTime
  BY <1>1, <1>2, <1>3, <1>4 DEF Leased, Extended, AgreesWithOffer, ClientRecords
<1>6. UseIpTime \in Nat
  <2>1. MaxUint16 \in Nat
    BY DEF MaxUint16
  <2>. QED
    BY <2>1, ServerAssumption DEF Uint16
<1>7. Pending' \in {0, 1}
  BY DEF Pending
<1>8. clients'[k].ttlcounter >= (UseIpTime - 1) + Pending'
  BY <1>5, <1>6, <1>7
<1>. QED
  BY <1>2, <1>5, <1>8 DEF LeaseLasts

\* The other leases go on, unless their address is released.
LEMMA RecvKeepsLease ==
  ASSUME IInv, Recv, NEW d \in Datagrams, d = Head(toServer), Handle(d),
         d.pkt.type = REQUEST => d.pkt.ttl = Htons(UseIpTime),
         NEW h, NEW a, NEW m, NEW k \in Int, k <= UseIpTime - 1, LeaseLasts(h, a, m, k),
         AsksRelease(d) => d.pkt.address # a
  PROVE  LeaseLasts(h, a, m, k)'
<1>1. PICK j \in DOMAIN clients :
        /\ clients[j].id = h
        /\ clients[j].stat = IN_USE
        /\ clients[j].addr = a
        /\ clients[j].netmask = m
        /\ clients[j].ttlcounter >= k + Pending
  BY DEF LeaseLasts
<1>2. Pending' <= Pending /\ Pending \in {0, 1} /\ Pending' \in {0, 1}
  BY RecvPending DEF Pending
<1>3. clients[j].ttlcounter \in Nat
  <2>1. MaxUint16 \in Nat
    BY DEF MaxUint16
  <2>. QED
    BY <2>1, ListsHold DEF ClientRecords, Uint16
<1>4. clients[j].ttlcounter >= k + Pending'
  BY <1>1, <1>2, <1>3
<1>5. ASSUME NEW i \in DOMAIN clients', clients'[i] = clients[j] PROVE LeaseLasts(h, a, m, k)'
  BY <1>1, <1>4, <1>5 DEF LeaseLasts
<1>6. CASE GrantLease(d) \/ ExtendLease(d)
  <2>1. Known(d) /\ AgreesWithOffer(RecordOf(d), d.pkt) /\ d.pkt.type = REQUEST
    BY <1>6 DEF GrantLease, AsksAlloc, ExtendLease, AsksExtension
  <2>2. CASE j = RecordAt(d)
    <3>1. h = HostOf[d.from] /\ a = d.pkt.address /\ m = d.pkt.netmask
      BY <1>1, <2>1, <2>2, OwnRecord DEF AgreesWithOffer
    <3>2. LeaseLasts(h, a, m, UseIpTime - 1)'
      BY <1>6, <2>1, <3>1, RecvStartsLease
    <3>3. PICK i \in DOMAIN clients' :
            /\ clients'[i].id = h
            /\ clients'[i].stat = IN_USE
            /\ clients'[i].addr = a
            /\ clients'[i].netmask = m
            /\ clients'[i].ttlcounter >= (UseIpTime - 1) + Pending'
      BY <3>2 DEF LeaseLasts
    <3>4. clients'[i].ttlcounter \in Int /\ UseIpTime \in Int
      <4>1. MaxUint16 \in Nat
        BY DEF MaxUint16
      <4>2. IInv'
        <5>1. Next
          BY DEF Next, ServerStep
        <5>. QED
          BY <5>1, StepKeeps
      <4>3. clients'[i] \in ClientRecords
        <5>1. clients' \in Seq(ClientRecords)
          BY <4>2 DEF IInv, TypeOK
        <5>. QED
          BY <5>1
      <4>4. clients'[i].ttlcounter \in Uint16
        BY <4>3 DEF ClientRecords
      <4>. QED
        BY <4>1, <4>4, ServerAssumption DEF Uint16
    <3>5. clients'[i].ttlcounter >= k + Pending'
      BY <1>2, <3>3, <3>4
    <3>. QED
      BY <3>3, <3>5 DEF LeaseLasts
  <2>3. CASE j # RecordAt(d)
    <3>1. clients'[j] = clients[j] /\ j \in DOMAIN clients'
      BY <1>6, <2>3 DEF GrantLease, ExtendLease
    <3>. QED
      BY <1>5, <3>1
  <2>. QED
    BY <2>2, <2>3
<1>7. CASE RefuseLease(d)
  <2>1. Known(d) /\ RecordOf(d).stat # IN_USE
    BY <1>7 DEF RefuseLease, AsksAlloc, WAIT_REQ, WAIT_REQ_AGAIN, IN_USE
  <2>2. j # RecordAt(d)
    BY <1>1, <2>1, OwnRecord
  <2>3. clients[j].addr # RecordOf(d).addr
    BY <2>1, <2>2, OwnRecord, ListsHold
  <2>4. clients' = ReleaseClient(clients, RecordOf(d).addr)
    BY <1>7 DEF RefuseLease
  <2>. QED
    BY <1>5, <2>3, <2>4, ListsHold, ReleaseClientRecords
<1>8. CASE EndLease(d)
  <2>1. clients[j].addr # d.pkt.address
    BY <1>1, <1>8 DEF EndLease
  <2>2. clients' = ReleaseClient(clients, d.pkt.address)
    BY <1>8 DEF EndLease
  <2>. QED
    BY <1>5, <2>1, <2>2, ListsHold, ReleaseClientRecords
<1>9. CASE ~(GrantLease(d) \/ ExtendLease(d) \/ RefuseLease(d) \/ EndLease(d))
  <2>1. \E i \in DOMAIN clients' : clients'[i] = clients[j]
    BY <1>9, RecordsUpdated
  <2>. QED
    BY <1>5, <2>1
<1>. QED
  BY <1>6, <1>7, <1>8, <1>9

-----------------------------------------------------------------------------
\* A host gets no other record but by a DISCOVER.

LEMMA NoOtherRecord ==
  ASSUME IInv, ServerStep \/ Alarm \/ ServerTick, NEW h, NEW A, OnlyLeases(h, A),
         Recv => /\ Head(toServer) \in Datagrams
                 /\ HostOf[Head(toServer).from] # h \/ Head(toServer).pkt.type # DISCOVER
  PROVE  OnlyLeases(h, A)'
<1>1. ASSUME NEW i \in DOMAIN clients', clients'[i].id = h
      PROVE  clients'[i].stat = IN_USE /\ clients'[i].addr \in A
  <2>1. ASSUME NEW j \in DOMAIN clients, clients'[i].id = clients[j].id,
               clients'[i].addr = clients[j].addr,
               clients[j].stat = IN_USE => clients'[i].stat = IN_USE
        PROVE  clients'[i].stat = IN_USE /\ clients'[i].addr \in A
    BY <1>1, <2>1 DEF OnlyLeases
  <2>2. CASE TtlDecrement
    <3>1. PICK j \in DOMAIN clients : clients'[i] = clients[j] \/ clients'[i] = Ticked(clients[j])
      BY <2>2, TtlDecrementRecords
    <3>2. clients[j] \in ClientRecords
      BY ListsHold
    <3>. QED
      BY <2>1, <3>1, <3>2 DEF Ticked, ClientRecords
  <2>3. CASE WaitEvent
    <3>1. PICK j \in DOMAIN clients : clients'[i] = Reoffered(clients[j]) \/ clients'[i] = clients[j]
      BY <2>3, WaitEventRecords
    <3>2. clients[j] \in ClientRecords
      BY ListsHold
    <3>3. clients'[i].id = clients[j].id /\ clients'[i].addr = clients[j].addr
      BY <3>1, <3>2 DEF Reoffered, ClientRecords
    <3>4. clients[j].stat = IN_USE => clients'[i] = clients[j]
      BY <3>1 DEF Reoffered, WAIT_REQ, IN_USE
    <3>. QED
      BY <2>1, <3>3, <3>4
  <2>4. CASE ServerTick
    <3>1. i \in DOMAIN clients /\ clients'[i] = Older(clients[i])
      BY <2>4 DEF ServerTick
    <3>2. clients[i] \in ClientRecords
      BY <3>1, ListsHold
    <3>. QED
      BY <2>1, <3>1, <3>2 DEF Older, ClientRecords
  <2>5. CASE TtlClear \/ Idle \/ Alarm
    <3>1. clients' = clients
      BY <2>5 DEF TtlClear, Idle, Alarm
    <3>. QED
      BY <2>1, <3>1
  <2>6. CASE Recv
    <3> DEFINE d == Head(toServer)
    <3>1. d \in Datagrams /\ Handle(d)
      BY <2>6 DEF Recv
    <3>2. CASE MakeOffer(d)
      <4>1. d.pkt.type = DISCOVER
        BY <3>2 DEF MakeOffer, AsksNew
      <4>2. (i \in DOMAIN clients /\ clients'[i] = clients[i]) \/ clients'[i] = NewClient(d, Head(pool))
        <5>1. ~(GrantLease(d) \/ ExtendLease(d) \/ RefuseLease(d) \/ EndLease(d))
          BY <3>2 DEF MakeOffer, AsksNew, GrantLease, AsksAlloc, ExtendLease, AsksExtension,
                      RefuseLease, EndLease, AsksRelease
        <5>. QED
          BY <3>1, <5>1, RecordsUpdated
      <4>3. NewClient(d, Head(pool)).id = HostOf[d.from]
        BY DEF NewClient
      <4>. QED
        BY <1>1, <2>1, <2>6, <4>1, <4>2, <4>3
    <3>3. CASE GrantLease(d) \/ ExtendLease(d)
      <4>1. Known(d)
        BY <3>3 DEF GrantLease, AsksAlloc, ExtendLease, AsksExtension
      <4>2. /\ i \in DOMAIN clients
            /\ \/ clients'[i] = clients[i]
               \/ clients'[i] = Leased(clients[i], d.pkt)
               \/ clients'[i] = Extended(clients[i], d.pkt)
        BY <3>3, <4>1, OwnRecord DEF GrantLease, ExtendLease
      <4>3. clients[i] \in ClientRecords
        BY <4>2, ListsHold
      <4>. QED
        BY <2>1, <4>2, <4>3 DEF Leased, Extended, ClientRecords
    <3>4. CASE ~(MakeOffer(d) \/ GrantLease(d) \/ ExtendLease(d))
      <4>1. \E j \in DOMAIN clients : clients'[i] = clients[j]
        BY <3>1, <3>4, RecordsUpdated
      <4>. QED
        BY <2>1, <4>1
    <3>. QED
      BY <3>2, <3>3, <3>4
  <2>. QED
    BY <2>2, <2>3, <2>4, <2>5, <2>6 DEF ServerStep
<1>. QED
  BY <1>1 DEF OnlyLeases

\* After an ACK, whatever its code, the host waits for nothing.
LEMMA AnsweredHost ==
  ASSUME IInv, NEW d \in Datagrams, GrantLease(d) \/ RefuseLease(d) \/ ExtendLease(d)
  PROVE  OnlyLeases(HostOf[d.from], Addrs)'
<1> DEFINE k == RecordAt(d)
<1>1. Known(d)
  BY DEF GrantLease, AsksAlloc, ExtendLease, AsksExtension, RefuseLease
<1>2. /\ k \in DOMAIN clients
      /\ RecordOf(d) = clients[k]
      /\ clients[k] \in ClientRecords
      /\ \A i \in DOMAIN clients : clients[i].id = HostOf[d.from] => i = k
  BY <1>1, OwnRecord
<1>3. CASE GrantLease(d)
  <2>1. clients' = [clients EXCEPT ![k] = Leased(clients[k], d.pkt)]
    BY <1>3 DEF GrantLease
  <2>2. Leased(clients[k], d.pkt).stat = IN_USE /\ Leased(clients[k], d.pkt).addr \in Addrs
    BY <1>2 DEF Leased, ClientRecords
  <2>. QED
    BY <1>2, <2>1, <2>2 DEF OnlyLeases
<1>4. CASE ExtendLease(d)
  <2>1. clients' = [clients EXCEPT ![k] = Extended(clients[k], d.pkt)] /\ clients[k].stat = IN_USE
    BY <1>2, <1>4 DEF ExtendLease, AsksExtension
  <2>2. Extended(clients[k], d.pkt).stat = IN_USE /\ Extended(clients[k], d.pkt).addr \in Addrs
    BY <1>2, <2>1 DEF Extended, ClientRecords
  <2>. QED
    BY <1>2, <2>1, <2>2 DEF OnlyLeases
<1>5. CASE RefuseLease(d)
  <2> DEFINE ip == clients[k].addr
  <2>1. clients' = ReleaseClient(clients, ip)
    BY <1>2, <1>5 DEF RefuseLease
  <2>2. HoldersAt(clients, ip) = {k}
    BY <1>2, ListsHold DEF HoldersAt
  <2>3. Min({k}) = k
    <3>1. {k} \subseteq Nat /\ {k} # {}
      BY <1>2, ListsHold
    <3>2. Min({k}) \in {k}
      BY <3>1, MinProperties
    <3>. QED
      BY <3>2
  <2>4. clients' = RemoveAt(clients, k)
    BY <2>1, <2>2, <2>3 DEF ReleaseClient
  <2>5. Len(clients) \in Nat /\ k \in 1 .. Len(clients) /\ DOMAIN clients = 1 .. Len(clients)
    BY <1>2, ListsHold
  <2>6. /\ DOMAIN clients' = 1 .. Len(clients) - 1
        /\ \A j \in 1 .. Len(clients) - 1 : clients'[j] = clients[Before(k, j)]
    <3>1. /\ clients' \in Seq(ClientRecords)
          /\ Len(clients') = Len(clients) - 1
          /\ \A j \in 1 .. Len(clients) - 1 : clients'[j] = clients[Before(k, j)]
      <4>1. clients \in Seq(ClientRecords)
        BY ListsHold
      <4>. QED
        BY <2>4, <2>5, <4>1, RemoveAtProperties
    <3>. QED
      BY <3>1, SMTT(30)
  <2>7. \A j \in 1 .. Len(clients) - 1 : Before(k, j) \in 1 .. Len(clients) /\ Before(k, j) # k
    BY <2>5, BeforeProperties
  <2>. QED
    BY <1>2, <2>5, <2>6, <2>7 DEF OnlyLeases
<1>. QED
  BY <1>3, <1>4, <1>5

\* And no record is of another host or for another time than it was made.
LEMMA RecordsKept ==
  ASSUME IInv, RecordsOK, ServerStep \/ Alarm \/ ServerTick,
         Recv => /\ Head(toServer) \in Datagrams
                 /\ Head(toServer).pkt.type = REQUEST =>
                      Head(toServer).pkt.ttl = Htons(UseIpTime)
  PROVE  RecordsOK'
<1>1. ASSUME NEW i \in DOMAIN clients'
      PROVE  /\ clients'[i].id = HostOf[clients'[i].again]
             /\ clients'[i].ttl = Htons(UseIpTime)
  <2>1. ASSUME NEW j \in DOMAIN clients, clients'[i].id = clients[j].id,
               clients'[i].again = clients[j].again, 
               clients'[i].ttl \in {clients[j].ttl, Htons(UseIpTime)}
        PROVE  /\ clients'[i].id = HostOf[clients'[i].again]
               /\ clients'[i].ttl = Htons(UseIpTime)
    BY <2>1 DEF RecordsOK
  <2>2. CASE TtlDecrement
    <3>1. PICK j \in DOMAIN clients : clients'[i] = clients[j] \/ clients'[i] = Ticked(clients[j])
      BY <2>2, TtlDecrementRecords
    <3>2. clients[j] \in ClientRecords
      BY ListsHold
    <3>. QED
      BY <2>1, <3>1, <3>2 DEF Ticked, ClientRecords
  <2>3. CASE WaitEvent
    <3>1. PICK j \in DOMAIN clients : clients'[i] = Reoffered(clients[j]) \/ clients'[i] = clients[j]
      BY <2>3, WaitEventRecords
    <3>2. clients[j] \in ClientRecords
      BY ListsHold
    <3>. QED
      BY <2>1, <3>1, <3>2 DEF Reoffered, ClientRecords
  <2>4. CASE ServerTick
    <3>1. i \in DOMAIN clients /\ clients'[i] = Older(clients[i])
      BY <2>4 DEF ServerTick
    <3>2. clients[i] \in ClientRecords
      BY <3>1, ListsHold
    <3>. QED
      BY <2>1, <3>1, <3>2 DEF Older, ClientRecords
  <2>5. CASE TtlClear \/ Idle \/ Alarm
    <3>1. clients' = clients
      BY <2>5 DEF TtlClear, Idle, Alarm
    <3>. QED
      BY <2>1, <3>1
  <2>6. CASE Recv
    <3> DEFINE d == Head(toServer)
    <3>1. d \in Datagrams /\ Handle(d)
      BY <2>6 DEF Recv
    <3>2. CASE MakeOffer(d)
      <4>1. (i \in DOMAIN clients /\ clients'[i] = clients[i]) \/ clients'[i] = NewClient(d, Head(pool))
        <5>1. ~(GrantLease(d) \/ ExtendLease(d) \/ RefuseLease(d) \/ EndLease(d))
          BY <3>2 DEF MakeOffer, AsksNew, GrantLease, AsksAlloc, ExtendLease, AsksExtension,
                      RefuseLease, EndLease, AsksRelease
        <5>. QED
          BY <3>1, <5>1, RecordsUpdated
      <4>. QED
        BY <2>1, <4>1 DEF NewClient
    <3>3. CASE GrantLease(d) \/ ExtendLease(d)
      <4>1. Known(d) /\ d.pkt.ttl = Htons(UseIpTime)
        BY <2>6, <3>3 DEF GrantLease, AsksAlloc, ExtendLease, AsksExtension
      <4>2. /\ i \in DOMAIN clients
            /\ \/ clients'[i] = clients[i]
               \/ clients'[i] = Leased(clients[i], d.pkt)
               \/ clients'[i] = Extended(clients[i], d.pkt)
        BY <3>3, <4>1, OwnRecord DEF GrantLease, ExtendLease
      <4>3. clients[i] \in ClientRecords
        BY <4>2, ListsHold
      <4>4. clients'[i].ttl \in {clients[i].ttl, Htons(UseIpTime)}
        BY <4>1, <4>2, <4>3 DEF Leased, Extended, ClientRecords
      <4>5. clients'[i].id = clients[i].id /\ clients'[i].again = clients[i].again
        BY <4>2, <4>3 DEF Leased, Extended, ClientRecords
      <4>. QED
        BY <2>1, <4>2, <4>4, <4>5
    <3>4. CASE ~(MakeOffer(d) \/ GrantLease(d) \/ ExtendLease(d))
      <4>1. \E j \in DOMAIN clients : clients'[i] = clients[j]
        BY <3>1, <3>4, RecordsUpdated
      <4>. QED
        BY <2>1, <4>1
    <3>. QED
      BY <3>2, <3>3, <3>4
  <2>. QED
    BY <2>2, <2>3, <2>4, <2>5, <2>6 DEF ServerStep
<1>. QED
  BY <1>1 DEF RecordsOK

-----------------------------------------------------------------------------
\* What the server sends.

\* m is put behind the other replies to p.
Answer(p, m) == toClient' = Delivered(Mail(p, m))

\* What a handler sends back, and to what.
Replied(d) ==
  \/ toClient' = toClient
  \/ /\ d.pkt.type = DISCOVER
     /\ \E m : /\ Answer(d.from, m)
              /\ m.type = OFFER
              /\ \/ m.code = OfferOk /\ m.ttl = Htons(UseIpTime)
                 \/ m.code = OfferNone
  \/ /\ d.pkt.type = REQUEST
     /\ \E m : /\ Answer(d.from, m)
              /\ m.type = ACK
              /\ \/ m.code = AckOk /\ (GrantLease(d) \/ ExtendLease(d))
                 \/ m.code = AckRefused /\ RefuseLease(d)
              /\ m.ttl = d.pkt.ttl
              /\ m.address = d.pkt.address
              /\ m.netmask = d.pkt.netmask

LEMMA HandlerReplies ==
  ASSUME NEW d \in Datagrams, Handle(d)
  PROVE  Replied(d)
<1> DEFINE Sends(t, c) == [d.pkt EXCEPT !.type = t, !.code = c]
<1>1. ASSUME NEW t, NEW c
      PROVE  /\ Sends(t, c).type = t /\ Sends(t, c).code = c
             /\ Sends(t, c).ttl = d.pkt.ttl
             /\ Sends(t, c).address = d.pkt.address /\ Sends(t, c).netmask = d.pkt.netmask
  BY DEF Datagrams, Packets
<1>2. ASSUME NEW t, NEW c, Reply(d, t, c) PROVE Answer(d.from, Sends(t, c))
  BY <1>2 DEF Answer, Reply
<1> HIDE DEF Sends
<1>3. CASE MakeOffer(d)
  <2> DEFINE m == OfferFor(NewClient(d, Head(pool)))
  <2>1. Answer(d.from, m) /\ d.pkt.type = DISCOVER
    BY <1>3 DEF MakeOffer, AsksNew, Answer
  <2>2. m.type = OFFER /\ m.code = OfferOk /\ m.ttl = Htons(UseIpTime)
    BY DEF OfferFor
  <2> HIDE DEF m
  <2>. QED
    BY <2>1, <2>2 DEF Replied
<1>4. CASE RefuseOffer(d)
  <2>1. Reply(d, OFFER, OfferNone) /\ d.pkt.type = DISCOVER
    BY <1>4 DEF RefuseOffer, AsksNew
  <2>. QED
    BY <1>1, <1>2, <2>1 DEF Replied
<1>5. CASE GrantLease(d) \/ ExtendLease(d)
  <2>1. Reply(d, ACK, AckOk) /\ d.pkt.type = REQUEST
    BY <1>5 DEF GrantLease, ExtendLease, AsksAlloc, AsksExtension
  <2>. QED
    BY <1>1, <1>2, <1>5, <2>1 DEF Replied
<1>6. CASE RefuseLease(d)
  <2>1. Reply(d, ACK, AckRefused) /\ d.pkt.type = REQUEST
    BY <1>6 DEF RefuseLease, AsksAlloc
  <2>. QED
    BY <1>1, <1>2, <1>6, <2>1 DEF Replied
<1>7. CASE EndLease(d) \/ Ignore(d)
  BY <1>7 DEF EndLease, Ignore, Replied
<1>. QED
  BY <1>3, <1>4, <1>5, <1>6, <1>7 DEF Handle

\* wait_event() sends OFFERs to those that wait for nothing else.
LEMMA WaitEventOffers ==
  ASSUME IInv, WaitEvent
  PROVE  \E mail : /\ toClient' = Delivered(mail)
                   /\ \A p \in DOMAIN mail :
                        /\ mail[p].type = OFFER
                        /\ mail[p].code = OfferOk
                        /\ mail[p].ttl = Htons(UseIpTime)
                        /\ \E i \in DOMAIN clients : /\ clients[i].again = p
                                                      /\ clients[i].stat = WAIT_REQ
<1> DEFINE due == {i \in DOMAIN clients : GivesUp(clients[i])}
           again == {i \in DOMAIN clients : /\ Reached(due, i)
                                            /\ Reoffered(clients[i]) # clients[i]}
           mail == [p \in {clients[i].again : i \in again} |->
                      OfferFor(clients[Min({i \in again : clients[i].again = p})])]
<1>1. toClient' = Delivered(mail)
  BY SMTT(30) DEF WaitEvent
<1>2. ASSUME NEW p \in DOMAIN mail
      PROVE  /\ mail[p].type = OFFER
             /\ mail[p].code = OfferOk
             /\ mail[p].ttl = Htons(UseIpTime)
             /\ \E i \in DOMAIN clients : clients[i].again = p /\ clients[i].stat = WAIT_REQ
  <2>1. PICK i \in again : clients[i].again = p
    OBVIOUS
  <2>2. clients[i].stat = WAIT_REQ
    BY DEF Reoffered
  <2>. QED
    BY <2>1, <2>2 DEF OfferFor
<1> HIDE DEF mail
<1>. QED
  BY <1>1, <1>2

\* A host that has a lease is granted the extension of it.
LEMMA ExtensionGranted ==
  ASSUME IInv, RecordsOK, NEW d \in Datagrams, Handle(d),
         d.pkt.type = REQUEST, d.pkt.code = RequestExt, d.pkt.ttl = Htons(UseIpTime),
         NEW k \in Nat, LeaseLasts(HostOf[d.from], d.pkt.address, d.pkt.netmask, k)
  PROVE  ExtendLease(d)
<1>1. PICK i \in DOMAIN clients :
        /\ clients[i].id = HostOf[d.from]
        /\ clients[i].stat = IN_USE
        /\ clients[i].addr = d.pkt.address
        /\ clients[i].netmask = d.pkt.netmask
  BY DEF LeaseLasts
<1>2. Known(d)
  BY <1>1 DEF Known, RecordsOf
<1>3. RecordOf(d) = clients[i] /\ clients[i].ttl = Htons(UseIpTime)
  BY <1>1, <1>2, OwnRecord DEF RecordsOK
<1>4. d.pkt.ttl <= RecordOf(d).ttl
  <2>1. Htons(UseIpTime) \in Uint16 /\ MaxUint16 \in Nat
    BY ServerAssumption, HtonsType DEF MaxUint16
  <2>. QED
    BY <1>3, <2>1 DEF Uint16
<1>5. AsksExtension(d)
  BY <1>1, <1>2, <1>3, <1>4 DEF AsksExtension, AgreesWithOffer
<1>6. ~(MakeOffer(d) \/ RefuseOffer(d) \/ GrantLease(d) \/ RefuseLease(d) \/ EndLease(d) \/ Ignore(d))
  BY <1>2, <1>5 DEF MakeOffer, RefuseOffer, AsksNew, GrantLease, RefuseLease, AsksAlloc, EndLease,
     AsksRelease, Ignore, AsksExtension, WAIT_REQ, WAIT_REQ_AGAIN, IN_USE, REQUEST, RELEASE
<1>. QED
  BY <1>6 DEF Handle
=============================================================================
