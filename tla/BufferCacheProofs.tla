------------------------- MODULE BufferCacheProofs -------------------------
(***************************************************************************)
(* The lists of the buffer cache stay exact, and no wakeup of getblk() and *)
(* brelse() is lost: for any number of buffers, hash queues, blocks and    *)
(* callers, and any flags that the commands are used with.                 *)
(***************************************************************************)
EXTENDS BufferCache, SeqLemmas

Distinct(s) == \A i, j \in DOMAIN s : s[i] = s[j] => i = j
InList(s, e) == \E i \in DOMAIN s : s[i] = e

\* The list s holds the buffers that are not locked in flags, each once.
Exact(s, flags) ==
  Distinct(s) /\ \A b \in Bufs : InList(s, b) <=> "L" \notin flags[b]

IInv == TypeOK /\ FreeListExact /\ UniqueBlocks /\ NoLostWakeup

-----------------------------------------------------------------------------
\* What the list operations do to a list without repetitions.

LEMMA DropElement ==
  ASSUME NEW S, NEW s \in Seq(S), Distinct(s), NEW k \in DOMAIN s
  PROVE  /\ RemoveAt(s, k) \in Seq(S)
         /\ Distinct(RemoveAt(s, k))
         /\ \A e : InList(RemoveAt(s, k), e) <=> InList(s, e) /\ e # s[k]
<1> DEFINE r == RemoveAt(s, k)
<1>1. Len(s) \in Nat /\ k \in 1 .. Len(s) /\ DOMAIN s = 1 .. Len(s)
  OBVIOUS
<1>2. /\ r \in Seq(S)
      /\ Len(r) = Len(s) - 1
      /\ \A j \in 1 .. Len(s) - 1 : r[j] = s[Before(k, j)]
  BY <1>1, RemoveAtProperties
<1>3. /\ \A j \in 1 .. Len(s) - 1 : Before(k, j) \in 1 .. Len(s) /\ Before(k, j) # k
      /\ \A i, j \in 1 .. Len(s) - 1 : Before(k, i) = Before(k, j) => i = j
      /\ \A m \in 1 .. Len(s) : m # k => \E j \in 1 .. Len(s) - 1 : Before(k, j) = m
  BY <1>1, BeforeProperties
<1> HIDE DEF r
<1>4. DOMAIN r = 1 .. Len(s) - 1
  BY <1>2
<1>5. Distinct(r)
  BY <1>1, <1>2, <1>3, <1>4, Zenon DEF Distinct
<1>6. ASSUME NEW e
      PROVE  InList(r, e) <=> InList(s, e) /\ e # s[k]
  BY <1>1, <1>2, <1>3, <1>4, Zenon DEF InList, Distinct
<1> QED
  BY <1>2, <1>5, <1>6 DEF r

LEMMA DropPrefix ==
  ASSUME NEW S, NEW s \in Seq(S), Distinct(s), NEW k \in DOMAIN s
  PROVE  /\ SubSeq(s, k + 1, Len(s)) \in Seq(S)
         /\ Distinct(SubSeq(s, k + 1, Len(s)))
         /\ \A e : InList(SubSeq(s, k + 1, Len(s)), e) <=>
                     \E i \in DOMAIN s : s[i] = e /\ i > k
<1> DEFINE r == SubSeq(s, k + 1, Len(s))
<1>1. Len(s) \in Nat /\ k \in 1 .. Len(s) /\ DOMAIN s = 1 .. Len(s)
  OBVIOUS
<1>2. /\ r \in Seq(S)
      /\ DOMAIN r = 1 .. Len(s) - k
      /\ \A j \in 1 .. Len(s) - k : r[j] = s[k + j]
  BY <1>1
<1> HIDE DEF r
<1>3. Distinct(r)
  <2> SUFFICES ASSUME NEW i \in DOMAIN r, NEW j \in DOMAIN r, r[i] = r[j]
               PROVE  i = j
    BY DEF Distinct
  <2>0. i \in 1 .. Len(s) - k /\ j \in 1 .. Len(s) - k
    BY <1>2
  <2>1. k + i \in DOMAIN s /\ k + j \in DOMAIN s
    BY <2>0, <1>1
  <2>2. s[k + i] = s[k + j]
    BY <2>0, <1>2
  <2>3. k + i = k + j
    BY <2>1, <2>2, Zenon DEF Distinct
  <2> QED
    BY <2>0, <2>3, <1>1
<1>4. ASSUME NEW e, NEW i \in DOMAIN r, r[i] = e
      PROVE  \E m \in DOMAIN s : s[m] = e /\ m > k
  <2>1. k + i \in DOMAIN s /\ s[k + i] = e /\ k + i > k
    BY <1>1, <1>2, <1>4
  <2> QED
    BY <2>1
<1>5. ASSUME NEW e, NEW m \in DOMAIN s, s[m] = e, m > k
      PROVE  \E i \in DOMAIN r : r[i] = e
  <2>1. m - k \in DOMAIN r /\ k + (m - k) = m
    BY <1>1, <1>2, <1>5
  <2>2. r[m - k] = s[m]
    BY <2>1, <1>2
  <2> QED
    BY <2>1, <2>2, <1>5
<1> QED
  BY <1>2, <1>3, <1>4, <1>5 DEF InList, r

LEMMA AddToTail ==
  ASSUME NEW S, NEW s \in Seq(S), Distinct(s), NEW e \in S, ~InList(s, e)
  PROVE  /\ Append(s, e) \in Seq(S)
         /\ Distinct(Append(s, e))
         /\ \A x : InList(Append(s, e), x) <=> InList(s, x) \/ x = e
<1> DEFINE r == Append(s, e)
<1>1. Len(s) \in Nat /\ DOMAIN s = 1 .. Len(s)
  OBVIOUS
<1>2. /\ r \in Seq(S)
      /\ DOMAIN r = 1 .. Len(s) + 1
      /\ \A j \in 1 .. Len(s) : r[j] = s[j]
      /\ r[Len(s) + 1] = e
  BY <1>1
<1> HIDE DEF r
<1>3. Distinct(r)
  BY <1>1, <1>2 DEF Distinct, InList
<1>4. ASSUME NEW x
      PROVE  InList(r, x) <=> InList(s, x) \/ x = e
  BY <1>1, <1>2 DEF InList
<1> QED
  BY <1>2, <1>3, <1>4 DEF r

LEMMA AddToHead ==
  ASSUME NEW S, NEW s \in Seq(S), Distinct(s), NEW e \in S, ~InList(s, e)
  PROVE  /\ <<e>> \o s \in Seq(S)
         /\ Distinct(<<e>> \o s)
         /\ \A x : InList(<<e>> \o s, x) <=> InList(s, x) \/ x = e
<1> DEFINE r == <<e>> \o s
<1>1. Len(s) \in Nat /\ DOMAIN s = 1 .. Len(s)
  OBVIOUS
<1>2. /\ r \in Seq(S)
      /\ DOMAIN r = 1 .. Len(s) + 1
      /\ \A j \in 1 .. Len(s) : r[j + 1] = s[j]
      /\ r[1] = e
  BY <1>1
<1> HIDE DEF r
<1>3. ASSUME NEW j \in DOMAIN r, j # 1
      PROVE  j - 1 \in DOMAIN s /\ r[j] = s[j - 1]
  <2>1. j \in 1 .. Len(s) + 1
    BY <1>2
  <2>2. j - 1 \in 1 .. Len(s) /\ (j - 1) + 1 = j
    BY <2>1, <1>1, <1>3
  <2>3. r[(j - 1) + 1] = s[j - 1]
    BY <2>2, <1>2
  <2> QED
    BY <2>2, <2>3, <1>1
<1>4. Distinct(r)
  <2> SUFFICES ASSUME NEW i \in DOMAIN r, NEW j \in DOMAIN r, r[i] = r[j]
               PROVE  i = j
    BY DEF Distinct
  <2>1. i = 1 <=> j = 1
    BY <1>2, <1>3 DEF InList
  <2>2. CASE i # 1 /\ j # 1
    <3>1. i - 1 = j - 1
      BY <2>2, <1>3 DEF Distinct
    <3> QED
      BY <3>1, <1>1, <1>2
  <2> QED
    BY <2>1, <2>2
<1>5. ASSUME NEW x
      PROVE  InList(r, x) <=> InList(s, x) \/ x = e
  <2>1. ASSUME NEW j \in DOMAIN s
        PROVE  j + 1 \in DOMAIN r /\ r[j + 1] = s[j]
    BY <1>1, <1>2
  <2>2. 1 \in DOMAIN r
    BY <1>1, <1>2
  <2>3. InList(r, x) => InList(s, x) \/ x = e
    BY <1>2, <1>3 DEF InList
  <2>4. InList(s, x) => InList(r, x)
    BY <2>1 DEF InList
  <2>5. x = e => InList(r, x)
    BY <1>2, <2>2, Zenon DEF InList
  <2> QED
    BY <2>3, <2>4, <2>5
<1> QED
  BY <1>2, <1>4, <1>5 DEF r
-----------------------------------------------------------------------------
\* The free list and the locked flags agree.

LEMMA FreeListIsExact == FreeListExact <=> Exact(free, stat)
BY DEF FreeListExact, Exact, Distinct, InList, FreeAt

\* Min(FreeAt(b)) is where a buffer of the free list is.
LEMMA FreeAtMin ==
  ASSUME TypeOK, NEW b, FreeAt(b) # {}
  PROVE  Min(FreeAt(b)) \in DOMAIN free /\ free[Min(FreeAt(b))] = b
<1>1. FreeAt(b) \subseteq Nat
  BY DEF TypeOK, FreeAt
<1>2. Min(FreeAt(b)) \in FreeAt(b)
  BY <1>1, MinProperties
<1> QED
  BY <1>2 DEF FreeAt

\* WithoutFree(b) takes b from the list and nothing else.
LEMMA WithoutFreeProperties ==
  ASSUME TypeOK, FreeListExact, NEW b \in Bufs, "L" \notin stat[b]
  PROVE  /\ WithoutFree(b) \in Seq(Bufs)
         /\ Distinct(WithoutFree(b))
         /\ \A e : InList(WithoutFree(b), e) <=> InList(free, e) /\ e # b
<1>1. FreeAt(b) # {}
  BY DEF FreeListExact
<1>2. Min(FreeAt(b)) \in DOMAIN free /\ free[Min(FreeAt(b))] = b
  BY <1>1, FreeAtMin
<1>3. free \in Seq(Bufs) /\ Distinct(free)
  BY FreeListIsExact DEF TypeOK, Exact
<1> QED
  BY <1>2, <1>3, DropElement DEF WithoutFree

\* The queue that getblk() searches holds every buffer that could be found.
LEMMA QueueIndex ==
  ASSUME NEW n \in Blocks
  PROVE  n % NHASH \in Queues
<1>1. n \in Nat /\ NHASH \in Nat /\ NHASH > 0
  BY CacheAssumption
<1>2. n % NHASH \in 0 .. NHASH - 1
  BY <1>1
<1> QED
  BY <1>2 DEF Queues

LEMMA SearchFinds ==
  ASSUME TypeOK, UniqueBlocks, NEW n \in Blocks
  PROVE  \A b \in Bufs : Has(n, b) <=> blkno[b] = n
BY QueueIndex DEF Has, UniqueBlocks, TypeOK

\* The first clean buffer is one of the free list, and not dirty.
LEMMA FirstClean ==
  ASSUME TypeOK, Clean # {}
  PROVE  /\ Min(Clean) \in DOMAIN free
         /\ "D" \notin stat[free[Min(Clean)]]
         /\ \A j \in Clean : Min(Clean) <= j
<1>1. Clean \subseteq Nat
  BY DEF TypeOK, Clean
<1>2. Min(Clean) \in Clean /\ \A j \in Clean : Min(Clean) <= j
  BY <1>1, MinProperties
<1> QED
  BY <1>2 DEF Clean

-----------------------------------------------------------------------------
\* The state that init_proc() builds.

LEMMA InitialFree ==
  /\ [i \in DOMAIN InitFree |-> BufOf(InitFree[i])] \in Seq(Bufs)
  /\ Exact([i \in DOMAIN InitFree |-> BufOf(InitFree[i])], [b \in Bufs |-> InitStat(b)])
<1> DEFINE f == [i \in DOMAIN InitFree |-> BufOf(InitFree[i])]
           flags == [b \in Bufs |-> InitStat(b)]
<1>1. Len(InitFree) \in Nat /\ DOMAIN InitFree = 1 .. Len(InitFree)
  BY CacheAssumption
<1>2. ASSUME NEW i \in DOMAIN InitFree
      PROVE  f[i] \in Bufs /\ InitBlocks[f[i]] = InitFree[i]
  <2>1. \E b \in Bufs : InitBlocks[b] = InitFree[i]
    BY CacheAssumption DEF Bufs
  <2> QED
    BY <2>1, Zenon DEF BufOf
<1>3. DOMAIN f = DOMAIN InitFree
  OBVIOUS
<1>4. ASSUME NEW b \in Bufs
      PROVE  "L" \notin flags[b] <=> \E i \in DOMAIN InitFree : InitFree[i] = InitBlocks[b]
  BY <1>4 DEF InitStat
<1> HIDE DEF f, flags
<1>5. f \in Seq(Bufs)
  <2>1. f \in [1 .. Len(InitFree) -> Bufs]
    BY <1>1, <1>2, <1>3 DEF f
  <2> QED
    BY <2>1, <1>1, FunctionIsSequence
<1>6. Distinct(f)
  BY <1>2, <1>3, CacheAssumption, Zenon DEF Distinct
<1>7. ASSUME NEW b \in Bufs
      PROVE  InList(f, b) <=> "L" \notin flags[b]
  <2>1. InList(f, b) => \E i \in DOMAIN InitFree : InitFree[i] = InitBlocks[b]
    BY <1>2, <1>3 DEF InList
  <2>2. ASSUME NEW i \in DOMAIN InitFree, InitFree[i] = InitBlocks[b]
        PROVE  InList(f, b)
    <3>1. f[i] = b
      BY <2>2, <1>2, CacheAssumption DEF Bufs
    <3> QED
      BY <3>1, <1>3 DEF InList
  <2> QED
    BY <2>1, <2>2, <1>4
<1> QED
  BY <1>5, <1>6, <1>7 DEF Exact, f, flags

\* An initial state, and a state after the command init, is consistent.
Fresh ==
  /\ hash = [q \in Queues |-> QueueOf(InitBlocks, q)]
  /\ free = [i \in DOMAIN InitFree |-> BufOf(InitFree[i])]
  /\ blkno = InitBlocks
  /\ stat = [b \in Bufs |-> InitStat(b)]
  /\ waitsFor = [p \in Procs |-> NOTHING]
  /\ scenario4 \in {0, 1, 4}

LEMMA FreshState == Fresh => IInv
<1> SUFFICES ASSUME Fresh
             PROVE  IInv
  OBVIOUS
<1> USE DEF Fresh
<1>1. blkno \in [Bufs -> Blocks]
  BY CacheAssumption DEF Bufs
<1>2. TypeOK
  <2>1. free \in Seq(Bufs)
    BY InitialFree
  <2>2. hash \in [Queues -> SUBSET Bufs]
    BY DEF QueueOf
  <2>3. stat \in [Bufs -> SUBSET Flags]
    BY DEF InitStat, Flags
  <2> QED
    BY <1>1, <2>1, <2>2, <2>3 DEF TypeOK
<1>3. FreeListExact
  BY InitialFree, FreeListIsExact
<1>4. UniqueBlocks
  <2>1. \A a, b \in Bufs : blkno[a] = blkno[b] => a = b
    BY CacheAssumption DEF Bufs
  <2> QED
    BY <2>1, Zenon DEF UniqueBlocks, QueueOf
<1>5. NoLostWakeup
  BY CacheAssumption DEF NoLostWakeup, NOTHING, ANY
<1> QED
  BY <1>2, <1>3, <1>4, <1>5 DEF IInv

LEMMA InvInit == Init => IInv
BY FreshState DEF Init, Fresh

LEMMA InvInitProc ==
  ASSUME IInv, InitProc
  PROVE  IInv'
<1>1. Fresh'
  BY DEF IInv, TypeOK, InitProc, Fresh
<1> QED
  BY <1>1, FreshState, PTL

-----------------------------------------------------------------------------
\* The parts of the invariant that a step leaves alone, or that follow from
\* what it does to the locked flags.

LEMMA BlocksKept ==
  ASSUME UniqueBlocks, UNCHANGED <<hash, blkno>>
  PROVE  UniqueBlocks'
BY DEF UniqueBlocks

LEMMA ExactNext ==
  ASSUME Exact(free', stat')
  PROVE  FreeListExact'
BY DEF FreeListExact, Exact, Distinct, InList, FreeAt

\* A step that wakes nobody up and frees no buffer loses no wakeup.
LEMMA SleepersKept ==
  ASSUME TypeOK, NoLostWakeup, UNCHANGED <<waitsFor, scenario4>>,
         \A b \in Bufs : "L" \in stat[b] => blkno'[b] = blkno[b],
         \A b \in Bufs, f \in {"L", "W"} : f \in stat[b] => f \in stat'[b],
         free = << >> => free' = << >>
  PROVE  NoLostWakeup'
<1> SUFFICES ASSUME NEW p \in Procs
             PROVE  /\ waitsFor'[p] \in Blocks =>
                         \E b \in Bufs : /\ blkno'[b] = waitsFor'[p]
                                         /\ {"L", "W"} \subseteq stat'[b]
                    /\ waitsFor'[p] = ANY => scenario4' = 1 /\ free' = << >>
  BY DEF NoLostWakeup
<1>1. waitsFor' = waitsFor /\ scenario4' = scenario4
  OBVIOUS
<1>2. ASSUME waitsFor[p] \in Blocks
      PROVE  \E b \in Bufs : blkno'[b] = waitsFor[p] /\ {"L", "W"} \subseteq stat'[b]
  <2>1. PICK b \in Bufs : blkno[b] = waitsFor[p] /\ {"L", "W"} \subseteq stat[b]
    BY <1>2 DEF NoLostWakeup
  <2>2. blkno'[b] = blkno[b] /\ "L" \in stat'[b] /\ "W" \in stat'[b]
    BY <2>1
  <2> QED
    BY <2>1, <2>2
<1> QED
  BY <1>1, <1>2 DEF NoLostWakeup

-----------------------------------------------------------------------------
\* One lemma per outcome of getblk().

LEMMA InvScenario1 ==
  ASSUME IInv, NEW n \in Blocks, Scenario1(n)
  PROVE  IInv'
<1> USE DEF IInv
<1>1. PICK b \in Bufs : /\ "L" \notin stat[b]
                        /\ stat' = [stat EXCEPT ![b] = @ \cup {"L"}]
                        /\ free' = WithoutFree(b)
                        /\ UNCHANGED <<hash, blkno, scenario4, waitsFor>>
  BY DEF Scenario1
<1>2. /\ free' \in Seq(Bufs)
      /\ Distinct(free')
      /\ \A e : InList(free', e) <=> InList(free, e) /\ e # b
  BY <1>1, WithoutFreeProperties
<1>3. \A c \in Bufs : stat'[c] = IF c = b THEN stat[c] \cup {"L"} ELSE stat[c]
  BY <1>1 DEF TypeOK
<1>4. TypeOK'
  BY <1>1, <1>2 DEF TypeOK, Flags
<1>5. Exact(free', stat')
  BY <1>2, <1>3, FreeListIsExact DEF Exact
<1>6. UniqueBlocks'
  BY <1>1, BlocksKept
<1>7. NoLostWakeup'
  <2>1. free # << >>
    BY <1>1 DEF FreeListExact, FreeAt
  <2> QED
    BY <1>1, <1>3, <2>1, SleepersKept
<1> QED
  BY <1>4, <1>5, <1>6, <1>7, ExactNext

LEMMA InvScenario5 ==
  ASSUME IInv, NEW p \in Procs, NEW n \in Blocks, Scenario5(p, n)
  PROVE  IInv'
<1> USE DEF IInv
<1>1. PICK b \in Bufs : /\ Has(n, b)
                        /\ "L" \in stat[b]
                        /\ stat' = [stat EXCEPT ![b] = @ \cup {"W"}]
                        /\ waitsFor' = [waitsFor EXCEPT ![p] = n]
                        /\ UNCHANGED <<hash, free, blkno, scenario4>>
  BY DEF Scenario5, Sleep
<1>2. \A c \in Bufs : stat'[c] = IF c = b THEN stat[c] \cup {"W"} ELSE stat[c]
  BY <1>1 DEF TypeOK
<1>3. TypeOK'
  BY <1>1 DEF TypeOK, Flags
<1>4. Exact(free', stat')
  <2>1. ASSUME NEW c \in Bufs
        PROVE  "L" \in stat'[c] <=> "L" \in stat[c]
    <3>1. CASE c = b
      BY <1>1, <1>2, <3>1
    <3>2. CASE c # b
      BY <1>2, <3>2
    <3> QED
      BY <3>1, <3>2
  <2> QED
    BY <1>1, <2>1, FreeListIsExact DEF Exact
<1>5. UniqueBlocks'
  BY <1>1, BlocksKept
<1>6. NoLostWakeup'
  <2> SUFFICES ASSUME NEW q \in Procs
               PROVE  /\ waitsFor'[q] \in Blocks =>
                           \E c \in Bufs : /\ blkno'[c] = waitsFor'[q]
                                           /\ {"L", "W"} \subseteq stat'[c]
                      /\ waitsFor'[q] = ANY => scenario4' = 1 /\ free' = << >>
    BY DEF NoLostWakeup
  <2>1. CASE q = p
    <3>1. waitsFor'[q] = n /\ n # ANY
      BY <1>1, <2>1, CacheAssumption DEF TypeOK, ANY
    <3>2. blkno'[b] = n /\ {"L", "W"} \subseteq stat'[b]
      BY <1>1, <1>2 DEF Has
    <3> QED
      BY <3>1, <3>2
  <2>2. CASE q # p
    <3>1. waitsFor'[q] = waitsFor[q]
      BY <1>1, <2>2 DEF TypeOK
    <3>2. \A c \in Bufs : {"L", "W"} \subseteq stat[c] => {"L", "W"} \subseteq stat'[c]
      BY <1>2
    <3> QED
      BY <1>1, <3>1, <3>2 DEF NoLostWakeup
  <2> QED
    BY <2>1, <2>2
<1> QED
  BY <1>3, <1>4, <1>5, <1>6, ExactNext

\* The buffers that leave the free list to be written are the ones before its
\* first clean buffer.
LEMMA WrittenFlags ==
  ASSUME TypeOK
  PROVE  /\ Written \in [Bufs -> SUBSET Flags]
         /\ \A b \in Bufs : /\ "W" \in Written[b] <=> "W" \in stat[b]
                            /\ "L" \in Written[b] <=> "L" \in stat[b] \/ ToWrite(b)
BY DEF Written, Writing, TypeOK, Flags

LEMMA InvScenario4 ==
  ASSUME IInv, NEW p \in Procs, NEW n \in Blocks, Scenario4(p, n)
  PROVE  IInv'
<1> USE DEF IInv
<1>1. /\ Clean = {}
      /\ stat' = Written
      /\ free' = << >>
      /\ scenario4' = 1
      /\ waitsFor' = [waitsFor EXCEPT ![p] = ANY]
      /\ UNCHANGED <<hash, blkno>>
  BY DEF Scenario4, Sleep
<1>2. \A b \in Bufs : ToWrite(b) <=> InList(free, b)
  BY <1>1 DEF ToWrite, InList
<1>3. TypeOK'
  BY <1>1, WrittenFlags DEF TypeOK
<1>4. \A b \in Bufs : "L" \in stat'[b]
  BY <1>1, <1>2, WrittenFlags, FreeListIsExact DEF Exact
<1>5. Exact(free', stat')
  BY <1>1, <1>4 DEF Exact, Distinct, InList
<1>6. UniqueBlocks'
  BY <1>1, BlocksKept
<1>7. NoLostWakeup'
  <2> SUFFICES ASSUME NEW q \in Procs, waitsFor'[q] \in Blocks
               PROVE  \E c \in Bufs : /\ blkno'[c] = waitsFor'[q]
                                      /\ {"L", "W"} \subseteq stat'[c]
    BY <1>1 DEF NoLostWakeup
  <2>1. waitsFor'[q] = waitsFor[q]
    BY <1>1, CacheAssumption DEF TypeOK, ANY
  <2>2. PICK c \in Bufs : blkno[c] = waitsFor[q] /\ {"L", "W"} \subseteq stat[c]
    BY <2>1 DEF NoLostWakeup
  <2>3. "L" \in stat'[c] /\ "W" \in stat'[c]
    BY <2>2, <1>1, WrittenFlags
  <2> QED
    BY <1>1, <2>1, <2>2, <2>3
<1> QED
  BY <1>3, <1>5, <1>6, <1>7, ExactNext

LEMMA InvScenario2 ==
  ASSUME IInv, NEW n \in Blocks, Scenario2(n)
  PROVE  IInv'
<1> USE DEF IInv
<1> DEFINE f == free[Min(Clean)]
<1>1. /\ ~Cached(n)
      /\ Clean # {}
      /\ stat' = [Written EXCEPT ![f] = Reused(@)]
      /\ blkno' = [blkno EXCEPT ![f] = n]
      /\ hash' = [q \in Queues |-> (hash[q] \ {f}) \cup
                                     (IF q = n % NHASH THEN {f} ELSE {})]
      /\ free' = SubSeq(free, Min(Clean) + 1, Len(free))
      /\ UNCHANGED <<scenario4, waitsFor>>
  BY DEF Scenario2
<1>2. /\ Min(Clean) \in DOMAIN free
      /\ \A j \in Clean : Min(Clean) <= j
      /\ Min(Clean) \in Clean
  BY <1>1, FirstClean DEF Clean
<1>3. f \in Bufs /\ InList(free, f)
  BY <1>2 DEF TypeOK, InList
<1>4. /\ free' \in Seq(Bufs)
      /\ Distinct(free')
      /\ \A e : InList(free', e) <=> \E i \in DOMAIN free : free[i] = e /\ i > Min(Clean)
  <2>1. free \in Seq(Bufs) /\ Distinct(free)
    BY FreeListIsExact DEF TypeOK, Exact
  <2> QED
    BY <1>1, <1>2, <2>1, DropPrefix
<1> HIDE DEF f
<1>5. \A b \in Bufs : /\ "W" \in stat'[b] <=> "W" \in stat[b]
                      /\ "L" \in stat'[b] <=> "L" \in stat[b] \/ ToWrite(b) \/ b = f
  BY <1>1, <1>3, WrittenFlags DEF Reused
<1>6. TypeOK'
  <2>1. stat' \in [Bufs -> SUBSET Flags]
    BY <1>1, <1>3, WrittenFlags DEF Reused, Flags
  <2>2. hash' \in [Queues -> SUBSET Bufs]
    BY <1>1, <1>3 DEF TypeOK
  <2>3. blkno' \in [Bufs -> Blocks]
    BY <1>1, <1>3 DEF TypeOK
  <2> QED
    BY <1>1, <1>4, <2>1, <2>2, <2>3 DEF TypeOK
<1>7. Exact(free', stat')
  <2> SUFFICES ASSUME NEW b \in Bufs
               PROVE  InList(free', b) <=> "L" \notin stat'[b]
    BY <1>4 DEF Exact
  <2>1. DOMAIN free \subseteq Nat /\ Clean \subseteq DOMAIN free
    BY DEF TypeOK, Clean
  <2>2. ToWrite(b) <=> \E i \in DOMAIN free : free[i] = b /\ i < Min(Clean)
    BY <1>2, <2>1 DEF ToWrite
  <2>3. b = f <=> \E i \in DOMAIN free : free[i] = b /\ i = Min(Clean)
    BY <1>2 DEF f
  <2>4. \A i, j \in DOMAIN free : free[i] = free[j] => i = j
    BY DEF FreeListExact
  <2>5. InList(free, b) <=> "L" \notin stat[b]
    BY FreeListIsExact DEF Exact
  <2>6. ASSUME InList(free', b)
        PROVE  InList(free, b) /\ ~ToWrite(b) /\ b # f
    <3>1. PICK i \in DOMAIN free : free[i] = b /\ i > Min(Clean)
      BY <2>6, <1>4
    <3>2. \A j \in DOMAIN free : free[j] = b => j = i
      BY <3>1, <2>4
    <3>3. i \in Nat /\ Min(Clean) \in Nat
      BY <1>2, <2>1
    <3> QED
      BY <3>1, <3>2, <3>3, <2>2, <2>3 DEF InList
  <2>7. ASSUME InList(free, b), ~ToWrite(b), b # f
        PROVE  InList(free', b)
    <3>1. PICK i \in DOMAIN free : free[i] = b
      BY <2>7 DEF InList
    <3>2. ~(i < Min(Clean)) /\ i # Min(Clean)
      BY <3>1, <2>2, <2>3, <2>7
    <3>3. i \in Nat /\ Min(Clean) \in Nat
      BY <1>2, <2>1
    <3>4. i > Min(Clean)
      BY <3>2, <3>3
    <3> QED
      BY <3>1, <3>4, <1>4
  <2> QED
    BY <1>5, <2>5, <2>6, <2>7
<1>8. UniqueBlocks'
  <2>1. \A b \in Bufs : blkno[b] # n
    BY <1>1, SearchFinds DEF Cached
  <2>2. \A b \in Bufs : blkno'[b] = IF b = f THEN n ELSE blkno[b]
    BY <1>1, <1>3 DEF TypeOK
  <2>3. \A a, b \in Bufs : blkno'[a] = blkno'[b] => a = b
    BY <2>1, <2>2 DEF UniqueBlocks
  <2>4. ASSUME NEW b \in Bufs, NEW q \in Queues
        PROVE  b \in hash'[q] <=> blkno'[b] % NHASH = q
    <3>1. CASE b = f
      BY <1>1, <2>2, <3>1
    <3>2. CASE b # f
      BY <1>1, <2>2, <3>2 DEF UniqueBlocks
    <3> QED
      BY <3>1, <3>2
  <2> QED
    BY <2>3, <2>4 DEF UniqueBlocks
<1>9. NoLostWakeup'
  <2>1. \A b \in Bufs : "L" \in stat[b] => blkno'[b] = blkno[b]
    BY <1>1, <1>3, FreeListIsExact DEF TypeOK, Exact
  <2>2. free # << >>
    BY <1>3 DEF InList
  <2> QED
    BY <1>1, <1>5, <2>1, <2>2, SleepersKept
<1> QED
  BY <1>6, <1>7, <1>8, <1>9, ExactNext

-----------------------------------------------------------------------------
\* brelse() and the commands.

LEMMA InvBrelse ==
  ASSUME IInv, NEW b \in Bufs, Brelse(b)
  PROVE  IInv'
<1> USE DEF IInv
<1>1. /\ "L" \in stat[b]
      /\ scenario4' = IF scenario4 = 1 THEN 0 ELSE scenario4
      /\ waitsFor' = [p \in Procs |-> IF Woken(b, p) THEN NOTHING ELSE waitsFor[p]]
      /\ free' = IF "O" \in stat[b] THEN <<b>> \o free ELSE Append(free, b)
      /\ stat' = [stat EXCEPT ![b] = @ \ {"W", "O", "L"}]
      /\ UNCHANGED <<hash, blkno>>
  BY DEF Brelse
<1>2. free \in Seq(Bufs) /\ Distinct(free) /\ ~InList(free, b)
  BY <1>1, FreeListIsExact DEF TypeOK, Exact
<1>3. /\ free' \in Seq(Bufs)
      /\ Distinct(free')
      /\ \A e : InList(free', e) <=> InList(free, e) \/ e = b
  <2>1. CASE "O" \in stat[b]
    BY <1>1, <1>2, <2>1, AddToHead
  <2>2. CASE "O" \notin stat[b]
    BY <1>1, <1>2, <2>2, AddToTail
  <2> QED
    BY <2>1, <2>2
<1>4. \A c \in Bufs : stat'[c] = IF c = b THEN stat[c] \ {"W", "O", "L"} ELSE stat[c]
  BY <1>1 DEF TypeOK
<1>5. TypeOK'
  BY <1>1, <1>3 DEF TypeOK
<1>6. Exact(free', stat')
  BY <1>3, <1>4, FreeListIsExact DEF Exact
<1>7. UniqueBlocks'
  BY <1>1, BlocksKept
<1>8. NoLostWakeup'
  <2> SUFFICES ASSUME NEW p \in Procs
               PROVE  /\ waitsFor'[p] \in Blocks =>
                           \E c \in Bufs : /\ blkno'[c] = waitsFor'[p]
                                           /\ {"L", "W"} \subseteq stat'[c]
                      /\ waitsFor'[p] = ANY => scenario4' = 1 /\ free' = << >>
    BY DEF NoLostWakeup
  <2>1. NOTHING \notin Blocks /\ ANY \notin Blocks /\ NOTHING # ANY
    BY CacheAssumption DEF NOTHING, ANY
  <2>2. CASE Woken(b, p)
    <3>1. waitsFor'[p] = NOTHING
      BY <1>1, <2>2
    <3> QED
      BY <2>1, <3>1
  <2>3. CASE ~Woken(b, p)
    <3>1. waitsFor'[p] = waitsFor[p]
      BY <1>1, <2>3
    <3>2. waitsFor[p] # ANY
      BY <2>3 DEF Woken, NoLostWakeup
    <3>3. ASSUME waitsFor[p] \in Blocks
          PROVE  \E c \in Bufs : /\ blkno'[c] = waitsFor[p]
                                 /\ {"L", "W"} \subseteq stat'[c]
      <4>1. PICK c \in Bufs : blkno[c] = waitsFor[p] /\ {"L", "W"} \subseteq stat[c]
        BY <3>3 DEF NoLostWakeup
      <4>2. c # b
        BY <4>1, <2>3 DEF Woken
      <4> QED
        BY <1>1, <1>4, <4>1, <4>2
    <3> QED
      BY <3>1, <3>2, <3>3
  <2> QED
    BY <2>2, <2>3
<1> QED
  BY <1>5, <1>6, <1>7, <1>8, ExactNext

LEMMA InvSet ==
  ASSUME IInv, NEW b \in Bufs, NEW flags \in SUBSET SetFlags, Set(b, flags)
  PROVE  IInv'
<1> USE DEF IInv
<1>1. /\ free' = IF "L" \in flags \ stat[b] /\ FreeAt(b) # {}
                   THEN WithoutFree(b) ELSE free
      /\ stat' = [stat EXCEPT ![b] = @ \cup flags]
      /\ UNCHANGED <<hash, blkno, scenario4, waitsFor>>
  BY DEF Set
<1>2. \A c \in Bufs : stat'[c] = IF c = b THEN stat[c] \cup flags ELSE stat[c]
  BY <1>1 DEF TypeOK
<1>3. stat' \in [Bufs -> SUBSET Flags]
  BY <1>1, CacheAssumption DEF TypeOK
<1>4. UniqueBlocks'
  BY <1>1, BlocksKept
<1>5. CASE "L" \in flags \ stat[b]
  <2>1. FreeAt(b) # {}
    BY <1>5 DEF FreeListExact
  <2>2. free' = WithoutFree(b)
    BY <1>1, <1>5, <2>1
  <2>3. /\ free' \in Seq(Bufs)
        /\ Distinct(free')
        /\ \A e : InList(free', e) <=> InList(free, e) /\ e # b
    BY <1>5, <2>2, WithoutFreeProperties
  <2>4. TypeOK'
    BY <1>1, <1>3, <2>3 DEF TypeOK
  <2>5. Exact(free', stat')
    BY <1>2, <1>5, <2>3, FreeListIsExact DEF Exact
  <2>6. NoLostWakeup'
    <3>1. free # << >>
      BY <2>1 DEF FreeAt
    <3> QED
      BY <1>1, <1>2, <3>1, SleepersKept
  <2> QED
    BY <1>4, <2>4, <2>5, <2>6, ExactNext
<1>6. CASE "L" \notin flags \ stat[b]
  <2>1. free' = free
    BY <1>1, <1>6
  <2>2. TypeOK'
    BY <1>1, <1>3, <2>1 DEF TypeOK
  <2>3. Exact(free', stat')
    BY <1>2, <1>6, <2>1, FreeListIsExact DEF Exact
  <2>4. NoLostWakeup'
    BY <1>1, <1>2, <2>1, SleepersKept
  <2> QED
    BY <1>4, <2>2, <2>3, <2>4, ExactNext
<1> QED
  BY <1>5, <1>6

LEMMA InvReset ==
  ASSUME IInv, NEW b \in Bufs, NEW flags \in SUBSET ResetFlags, Reset(b, flags)
  PROVE  IInv'
<1> USE DEF IInv
<1>1. /\ stat' = [stat EXCEPT ![b] = @ \ flags]
      /\ UNCHANGED <<hash, free, blkno, scenario4, waitsFor>>
  BY DEF Reset
<1>2. \A c \in Bufs : stat'[c] = IF c = b THEN stat[c] \ flags ELSE stat[c]
  BY <1>1 DEF TypeOK
<1>3. "L" \notin flags /\ "W" \notin flags
  BY CacheAssumption
<1>4. \A c \in Bufs : /\ "L" \in stat'[c] <=> "L" \in stat[c]
                      /\ "W" \in stat'[c] <=> "W" \in stat[c]
  BY <1>2, <1>3
<1>5. TypeOK'
  BY <1>1 DEF TypeOK
<1>6. Exact(free', stat')
  BY <1>1, <1>4, FreeListIsExact DEF Exact
<1>7. UniqueBlocks'
  BY <1>1, BlocksKept
<1>8. NoLostWakeup'
  BY <1>1, <1>4, SleepersKept
<1> QED
  BY <1>5, <1>6, <1>7, <1>8, ExactNext

-----------------------------------------------------------------------------
\* IInv is inductive.
LEMMA InvNext == IInv /\ [Next]_vars => IInv'
<1> SUFFICES ASSUME IInv, [Next]_vars
             PROVE  IInv'
  OBVIOUS
<1>1. ASSUME NEW p \in Procs, NEW n \in Blocks, GetBlk(p, n)
      PROVE  IInv'
  BY <1>1, InvScenario1, InvScenario2, InvScenario4, InvScenario5 DEF GetBlk
<1>2. ASSUME NEW b \in Bufs, Brelse(b)
      PROVE  IInv'
  BY <1>2, InvBrelse
<1>3. ASSUME NEW b \in Bufs, NEW flags \in SUBSET SetFlags, Set(b, flags)
      PROVE  IInv'
  BY <1>3, InvSet
<1>4. ASSUME NEW b \in Bufs, NEW flags \in SUBSET ResetFlags, Reset(b, flags)
      PROVE  IInv'
  BY <1>4, InvReset
<1>5. CASE InitProc
  BY <1>5, InvInitProc
<1>6. CASE UNCHANGED vars
  BY <1>6 DEF vars, IInv, TypeOK, FreeListExact, FreeAt, UniqueBlocks, NoLostWakeup
<1> QED
  BY <1>1, <1>2, <1>3, <1>4, <1>5, <1>6 DEF Next

LEMMA Inductive == Spec => []IInv
BY InvInit, InvNext, PTL DEF Spec

\* Every variable keeps its type.
THEOREM CacheTypeCorrect == Spec => []TypeOK
<1>1. IInv => TypeOK
  BY DEF IInv
<1> QED
  BY <1>1, Inductive, PTL

\* The free list is exactly the buffers that are not locked, whatever order
\* of getblk(), brelse() and the commands put them on it and took them off.
THEOREM FreeListCorrect == Spec => []FreeListExact
<1>1. IInv => FreeListExact
  BY DEF IInv
<1> QED
  BY <1>1, Inductive, PTL

\* No block is cached twice, and each is on the queue where getblk() looks.
THEOREM BlocksUnique == Spec => []UniqueBlocks
<1>1. IInv => UniqueBlocks
  BY DEF IInv
<1> QED
  BY <1>1, Inductive, PTL

\* A caller that getblk() put to sleep is one that a brelse() will wake up.
THEOREM WakeupsKept == Spec => []NoLostWakeup
<1>1. IInv => NoLostWakeup
  BY DEF IInv
<1> QED
  BY <1>1, Inductive, PTL

-----------------------------------------------------------------------------
\* A step that gives a buffer to another block finds it free and clean.
LEMMA ReuseStep ==
  ASSUME IInv, [Next]_vars, NEW b \in Bufs, blkno'[b] # blkno[b], ~InitProc
  PROVE  /\ "L" \notin stat[b] /\ "D" \notin stat[b]
         /\ \A p \in Procs : waitsFor[p] # blkno[b]
<1>1. PICK n \in Blocks : Scenario2(n)
  BY DEF Next, vars, GetBlk, Scenario1, Scenario4, Scenario5, Brelse, Set, Reset
<1>2. /\ b = free[Min(Clean)]
      /\ Clean # {}
  BY <1>1 DEF Scenario2, IInv, TypeOK
<1>3. /\ Min(Clean) \in DOMAIN free
      /\ "D" \notin stat[b]
  BY <1>2, FirstClean DEF IInv
<1>4. "L" \notin stat[b]
  BY <1>2, <1>3 DEF IInv, FreeListExact, FreeAt
<1>5. ASSUME NEW p \in Procs, waitsFor[p] = blkno[b]
      PROVE  FALSE
  <2>1. PICK c \in Bufs : blkno[c] = waitsFor[p] /\ "L" \in stat[c]
    BY <1>5 DEF IInv, NoLostWakeup, TypeOK
  <2>2. c = b
    BY <1>5, <2>1 DEF IInv, UniqueBlocks
  <2> QED
    BY <1>4, <2>1, <2>2
<1> QED
  BY <1>3, <1>4, <1>5

\* No step of the cache reuses a buffer somebody has, waits for or has to
\* write.
THEOREM ReuseSafe == Spec => ReuseIsSafe
<1>1. IInv /\ [Next]_vars => SafeReuse
  BY ReuseStep DEF SafeReuse
<1> QED
  BY <1>1, Inductive, PTL DEF Spec, ReuseIsSafe

\* A step that takes the D flag of a buffer starts to write it.
LEMMA WriteStep ==
  ASSUME IInv, [Next]_vars, NEW b \in Bufs, "D" \in stat[b], "D" \notin stat'[b],
         ~InitProc, ~\E flags \in SUBSET ResetFlags : Reset(b, flags)
  PROVE  "L" \in stat'[b] /\ "K" \in stat'[b]
<1> USE DEF IInv, TypeOK
<1>1. ASSUME NEW n \in Blocks, Scenario1(n)
      PROVE  FALSE
  BY <1>1 DEF Scenario1
<1>2. ASSUME NEW p \in Procs, NEW n \in Blocks, Scenario5(p, n)
      PROVE  FALSE
  BY <1>2 DEF Scenario5
<1>3. ASSUME NEW p \in Procs, NEW n \in Blocks, Scenario4(p, n)
      PROVE  "L" \in stat'[b] /\ "K" \in stat'[b]
  BY <1>3 DEF Scenario4, Written, Writing
<1>4. ASSUME NEW n \in Blocks, Scenario2(n)
      PROVE  "L" \in stat'[b] /\ "K" \in stat'[b]
  <2>1. stat' = [Written EXCEPT ![free[Min(Clean)]] = Reused(@)] /\ Clean # {}
    BY <1>4 DEF Scenario2
  <2>2. b # free[Min(Clean)]
    BY <2>1, FirstClean
  <2>3. stat'[b] = Written[b]
    BY <2>1, <2>2 DEF Written
  <2> QED
    BY <2>3 DEF Written, Writing
<1>5. ASSUME NEW c \in Bufs, Brelse(c)
      PROVE  FALSE
  BY <1>5 DEF Brelse
<1>6. ASSUME NEW c \in Bufs, NEW flags \in SUBSET SetFlags, Set(c, flags)
      PROVE  FALSE
  BY <1>6 DEF Set
<1>7. ASSUME NEW c \in Bufs, NEW flags \in SUBSET ResetFlags, Reset(c, flags)
      PROVE  FALSE
  <2>1. c = b
    BY <1>7 DEF Reset
  <2> QED
    BY <1>7, <2>1
<1>8. CASE UNCHANGED vars
  BY <1>8 DEF vars
<1> QED
  BY <1>1, <1>2, <1>3, <1>4, <1>5, <1>6, <1>7, <1>8 DEF Next, GetBlk

\* Data to be written is never dropped.
THEOREM DirtyWritten == Spec => DirtyIsWritten
<1>1. IInv /\ [Next]_vars => WriteStarts
  BY WriteStep DEF WriteStarts
<1> QED
  BY <1>1, Inductive, PTL DEF Spec, DirtyIsWritten
=============================================================================
