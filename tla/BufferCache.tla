---------------------------- MODULE BufferCache ----------------------------
(***************************************************************************)
(* The buffer cache of buffer_cache/: buffer headers on hash queues and on *)
(* a free list, taken by getblk() and given back by brelse(), with the     *)
(* commands set, reset and init of the program that drives it.             *)
(*                                                                         *)
(* A command runs to its end before the next one is read, so each is one   *)
(* step.  Where getblk() prints that the process goes to sleep, the caller *)
(* is in waitsFor until brelse() prints that it wakes it up.               *)
(*                                                                         *)
(* The order on a hash queue decides nothing but the layout of listings:   *)
(* a queue is a set here.  set() and reset() find a buffer by its block    *)
(* number on any queue; UniqueBlocks says that it is the one meant.        *)
(***************************************************************************)
EXTENDS Integers, SequencesExt

CONSTANTS
  Procs,        \* the callers of getblk()
  NHASH,        \* the number of hash queues
  Blocks,       \* the block numbers that callers ask for
  InitBlocks,   \* array[] of init_proc(): the block of each buffer
  InitFree,     \* free[] of init_proc(): the blocks of the free buffers
  SetFlags,     \* the flags that the command set is used with
  ResetFlags    \* the flags that the command reset is used with

Flags == {"L", "V", "D", "K", "W", "O"}

\* C's % is a remainder: the index of a hash queue is negative for a negative
\* block number, which nothing checks.  A user who resets L or W takes the
\* cache's own bookkeeping away from it.
ASSUME CacheAssumption ==
  /\ NHASH \in Nat \ {0}
  /\ Blocks \subseteq Nat
  /\ InitBlocks \in Seq(Blocks)
  /\ InitFree \in Seq(Blocks)
  /\ \A i, j \in DOMAIN InitBlocks : InitBlocks[i] = InitBlocks[j] => i = j
  /\ \A i, j \in DOMAIN InitFree : InitFree[i] = InitFree[j] => i = j
  /\ \A i \in DOMAIN InitFree : \E b \in DOMAIN InitBlocks : InitBlocks[b] = InitFree[i]
  /\ SetFlags \subseteq Flags
  /\ ResetFlags \subseteq Flags \ {"L", "W"}

VARIABLES
  hash,        \* the hash queues
  free,        \* the free list, the buffer to reuse first at its head
  blkno,       \* the block of each buffer
  stat,        \* the flags of each buffer
  scenario4,   \* 1 when a caller waits for any buffer
  waitsFor     \* the block each caller sleeps for, NOTHING or ANY

vars == <<hash, free, blkno, stat, scenario4, waitsFor>>

Bufs == DOMAIN InitBlocks
Queues == 0 .. NHASH - 1

NOTHING == -1   \* the caller is awake
ANY     == -2   \* it sleeps until any buffer is free

TypeOK ==
  /\ hash \in [Queues -> SUBSET Bufs]
  /\ free \in Seq(Bufs)
  /\ blkno \in [Bufs -> Blocks]
  /\ stat \in [Bufs -> SUBSET Flags]
  /\ scenario4 \in {0, 1, 4}
  /\ waitsFor \in [Procs -> Blocks \cup {NOTHING, ANY}]

-----------------------------------------------------------------------------
\* The definitions named ...Slip are not part of the specification: each is
\* one of the definitions after it with a mistake that would be easy to make
\* in the code, and a property has to fail with it.  Slip: counted from one.
BufOfSlip(n) == (CHOOSE b \in Bufs : InitBlocks[b] = n) + 1

\* init_proc(): every buffer is valid, those not on the free list are locked.
\* scenario4 keeps its value.
BufOf(n) == CHOOSE b \in Bufs : InitBlocks[b] = n
InitStat(b) ==
  IF \E i \in DOMAIN InitFree : InitFree[i] = InitBlocks[b] THEN {"V"} ELSE {"V", "L"}
QueueOf(blocks, q) == {b \in Bufs : blocks[b] % NHASH = q}

Init ==
  /\ hash = [q \in Queues |-> QueueOf(InitBlocks, q)]
  /\ free = [i \in DOMAIN InitFree |-> BufOf(InitFree[i])]
  /\ blkno = InitBlocks
  /\ stat = [b \in Bufs |-> InitStat(b)]
  /\ scenario4 = 4
  /\ waitsFor = [p \in Procs |-> NOTHING]

InitProc ==
  /\ hash' = [q \in Queues |-> QueueOf(InitBlocks, q)]
  /\ free' = [i \in DOMAIN InitFree |-> BufOf(InitFree[i])]
  /\ blkno' = InitBlocks
  /\ stat' = [b \in Bufs |-> InitStat(b)]
  /\ waitsFor' = [p \in Procs |-> NOTHING]
  /\ UNCHANGED scenario4

-----------------------------------------------------------------------------
\* Slip: a buffer whose data is not valid is passed over.
HasSlip(n, b) == b \in hash[n % NHASH] /\ blkno[b] = n /\ "V" \in stat[b]

\* The search of getblk(), on the one queue where the block can be.
Has(n, b) == b \in hash[n % NHASH] /\ blkno[b] = n
Cached(n) == \E b \in Bufs : Has(n, b)

\* Slip: the head of the list is taken, whichever buffer was found.
WithoutFreeSlip(b) == Tail(free)

\* remove_free_from_hash(): out of the free list.
FreeAt(b) == {i \in DOMAIN free : free[i] = b}
WithoutFree(b) == RemoveAt(free, Min(FreeAt(b)))

Sleep(p, n) == waitsFor' = [waitsFor EXCEPT ![p] = n]
Awake(p) == waitsFor[p] = NOTHING

\* The block is cached and its buffer is free.
Scenario1(n) ==
  \E b \in Bufs :
    /\ Has(n, b)
    /\ "L" \notin stat[b]
    /\ stat' = [stat EXCEPT ![b] = @ \cup {"L"}]
    /\ free' = WithoutFree(b)
    /\ UNCHANGED <<hash, blkno, scenario4, waitsFor>>

\* The block is cached and its buffer is locked: sleep until it is released.
Scenario5(p, n) ==
  \E b \in Bufs :
    /\ Has(n, b)
    /\ "L" \in stat[b]
    /\ stat' = [stat EXCEPT ![b] = @ \cup {"W"}]
    /\ Sleep(p, n)
    /\ UNCHANGED <<hash, free, blkno, scenario4>>

\* Slip: the D flag is not tested.
CleanSlip == DOMAIN free

\* Slip: the flag of the write that starts is forgotten.
WritingSlip(flags) == (flags \ {"D"}) \cup {"O", "L"}

\* Scenario 3: dirty buffers at the head of the free list leave it, locked,
\* to be written, until a clean one is found.
Clean == {i \in DOMAIN free : "D" \notin stat[free[i]]}
ToWrite(b) == \E i \in DOMAIN free : free[i] = b /\ \A j \in Clean : i < j
Writing(flags) == (flags \ {"D"}) \cup {"K", "O", "L"}
Written == [b \in Bufs |-> IF ToWrite(b) THEN Writing(stat[b]) ELSE stat[b]]

\* The block is not cached and no clean buffer is free: sleep for any buffer.
Scenario4(p, n) ==
  /\ ~Cached(n)
  /\ Clean = {}
  /\ stat' = Written
  /\ free' = << >>
  /\ scenario4' = 1
  /\ Sleep(p, ANY)
  /\ UNCHANGED <<hash, blkno>>

\* The block is not cached: the first clean buffer of the free list gets it.
\* The pointer that getblk() returns is not this buffer but the head of a queue;
\* the command that calls it does not look at it.
Reused(flags) == (flags \cup {"L"}) \ {"V"}

Scenario2(n) ==
  /\ ~Cached(n)
  /\ Clean # {}
  /\ LET f == free[Min(Clean)]
     IN  /\ stat' = [Written EXCEPT ![f] = Reused(@)]
         /\ blkno' = [blkno EXCEPT ![f] = n]
         /\ hash' = [q \in Queues |-> (hash[q] \ {f}) \cup
                                        (IF q = n % NHASH THEN {f} ELSE {})]
  /\ free' = SubSeq(free, Min(Clean) + 1, Len(free))
  /\ UNCHANGED <<scenario4, waitsFor>>

GetBlk(p, n) ==
  /\ Awake(p)
  /\ \/ Scenario1(n)
     \/ Scenario2(n)
     \/ Scenario4(p, n)
     \/ Scenario5(p, n)

-----------------------------------------------------------------------------
\* Slip: else if, so that the callers who wait for this buffer are not woken
\* up when others wait for any buffer.
WokenSlip(b, p) ==
  IF scenario4 = 1 THEN waitsFor[p] = ANY
                   ELSE waitsFor[p] = blkno[b] /\ "W" \in stat[b]

\* brelse() by a caller that has the buffer; the command does not check it.
\* A buffer that was written out goes to the head of the free list.
Woken(b, p) ==
  \/ waitsFor[p] = ANY /\ scenario4 = 1
  \/ waitsFor[p] = blkno[b] /\ "W" \in stat[b]

Brelse(b) ==
  /\ "L" \in stat[b]
  /\ scenario4' = IF scenario4 = 1 THEN 0 ELSE scenario4
  /\ waitsFor' = [p \in Procs |-> IF Woken(b, p) THEN NOTHING ELSE waitsFor[p]]
  /\ free' = IF "O" \in stat[b] THEN <<b>> \o free ELSE Append(free, b)
  /\ stat' = [stat EXCEPT ![b] = @ \ {"W", "O", "L"}]
  /\ UNCHANGED <<hash, blkno>>

\* set n flag...: L takes a free buffer from the free list.
Set(b, flags) ==
  /\ free' = IF "L" \in flags \ stat[b] /\ FreeAt(b) # {} THEN WithoutFree(b) ELSE free
  /\ stat' = [stat EXCEPT ![b] = @ \cup flags]
  /\ UNCHANGED <<hash, blkno, scenario4, waitsFor>>

\* reset n flag...
Reset(b, flags) ==
  /\ stat' = [stat EXCEPT ![b] = @ \ flags]
  /\ UNCHANGED <<hash, free, blkno, scenario4, waitsFor>>

Next ==
  \/ \E p \in Procs, n \in Blocks : GetBlk(p, n)
  \/ \E b \in Bufs : Brelse(b)
  \/ \E b \in Bufs, flags \in SUBSET SetFlags : Set(b, flags)
  \/ \E b \in Bufs, flags \in SUBSET ResetFlags : Reset(b, flags)
  \/ InitProc

Spec == Init /\ [][Next]_vars

-----------------------------------------------------------------------------
\* The free list holds the buffers that are not locked, each once: getblk(),
\* brelse() and set() change the flag and the list in separate statements.
FreeListExact ==
  /\ \A i, j \in DOMAIN free : free[i] = free[j] => i = j
  /\ \A b \in Bufs : FreeAt(b) # {} <=> "L" \notin stat[b]

\* A block is never cached twice, and always where getblk() looks for it.
UniqueBlocks ==
  /\ \A a, b \in Bufs : blkno[a] = blkno[b] => a = b
  /\ \A b \in Bufs : \A q \in Queues : b \in hash[q] <=> blkno[b] % NHASH = q

\* No wakeup is lost: whoever sleeps for a block sleeps for a cached, locked
\* block whose W flag is set, and whoever sleeps for any buffer does so while
\* none is free and scenario4 tells brelse() about it.
NoLostWakeup ==
  \A p \in Procs :
    /\ waitsFor[p] \in Blocks =>
         \E b \in Bufs : blkno[b] = waitsFor[p] /\ {"L", "W"} \subseteq stat[b]
    /\ waitsFor[p] = ANY => scenario4 = 1 /\ free = << >>

\* A buffer is given to another block only when nobody has it, nobody sleeps
\* for its block, and it holds no data that has not been written.
SafeReuse ==
  \A b \in Bufs : blkno'[b] # blkno[b] /\ ~InitProc =>
    /\ "L" \notin stat[b] /\ "D" \notin stat[b]
    /\ \A p \in Procs : waitsFor[p] # blkno[b]

ReuseIsSafe == [][SafeReuse]_vars

\* Nothing that was to be written is forgotten: getblk() takes the D flag of
\* a buffer only to write it, locked until that is done, and brelse() never.
WriteStarts ==
  \A b \in Bufs : "D" \in stat[b] /\ "D" \notin stat'[b] =>
    \/ "L" \in stat'[b] /\ "K" \in stat'[b]
    \/ InitProc
    \/ \E flags \in SUBSET ResetFlags : Reset(b, flags)

DirtyIsWritten == [][WriteStarts]_vars
=============================================================================
