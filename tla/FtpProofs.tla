----------------------------- MODULE FtpProofs -----------------------------
(***************************************************************************)
(* The transfer of files: for any files, names and sizes, whatever is      *)
(* typed and however the words are delayed, get and put copy what they     *)
(* are asked to, and each reply is read to its end.                        *)
(*                                                                         *)
(* The invariant has three parts.  Shape is what holds in sync or not: the *)
(* streams consist of headers with their data, the server finds a header   *)
(* at the head of its own, and a name that is a directory leads there.     *)
(* Conversation says who is to speak: the request is on its way, or the    *)
(* reply is, and nothing else.  Getting and Putting follow the data: what  *)
(* is stored and what is on its way is the file, or what was read of it.   *)
(*                                                                         *)
(* The first part of the module is about streams of words alone, the       *)
(* second has a lemma for each action, the last the theorems.              *)
(***************************************************************************)
EXTENDS Ftp, SeqLemmas, FiniteSetTheorems

LEMMA DataInSteps ==
  ASSUME NEW W, NEW s \in Seq(W)
  PROVE  \E u \in [0 .. Len(s) -> Seq(W)] :
           /\ DataIn(s) = u[Len(s)]
           /\ u[0] = << >>
           /\ \A i \in 1 .. Len(s) :
                u[i] = IF s[i].type = 0 THEN Append(u[i - 1], s[i]) ELSE u[i - 1]
<1>. DEFINE Next2(y, i) == IF s[i].type = 0 THEN Append(y, s[i]) ELSE y
            Is(F) == F = [i \in 0 .. Len(s) |->
                            IF i = 0 THEN << >>
                            ELSE IF s[i].type = 0 THEN Append(F[i - 1], s[i]) ELSE F[i - 1]]
            Chosen == CHOOSE F : Is(F)
<1>1. DataIn(s) = Chosen[Len(s)]
  BY DEF DataIn
<1>2. Len(s) \in Nat /\ \A i \in 1 .. Len(s) : s[i] \in W
  OBVIOUS
<1>3. \E F : Is(F)
  <2>. DEFINE f == [i \in Nat |-> [y \in Seq(W) |->
                      IF i \in 1 .. Len(s) THEN Next2(y, i) ELSE y]]
  <2>1. \A i \in Nat, y \in Seq(W) :
          /\ f[i][y] = IF i \in 1 .. Len(s) THEN Next2(y, i) ELSE y
          /\ f[i][y] \in Seq(W)
    BY <1>2
  <2>2. << >> \in Seq(W) /\ Len(s) \in Nat
    OBVIOUS
  <2>6. f \in [Nat -> [Seq(W) -> Seq(W)]]
    BY <1>2
  <2>. HIDE DEF f
  <2>7. PICK g \in [0 .. Len(s) -> Seq(W)] : Follows(g, Len(s), << >>, f)
    BY <2>2, <2>6, Recursion
  <2>3. g[0] = << >> /\ \A i \in 1 .. Len(s) : g[i] = f[i][g[i - 1]]
    BY <2>7 DEF Follows
  <2>4. ASSUME NEW i \in 1 .. Len(s) PROVE g[i] = Next2(g[i - 1], i)
    <3>1. i \in Nat /\ i - 1 \in 0 .. Len(s)
      BY <1>2
    <3>. QED
      BY <2>1, <2>3, <3>1
  <2>5. ASSUME NEW i \in 0 .. Len(s)
        PROVE  g[i] = IF i = 0 THEN << >> ELSE Next2(g[i - 1], i)
    <3>1. i = 0 \/ i \in 1 .. Len(s)
      BY <1>2
    <3>. QED
      BY <2>3, <2>4, <3>1
  <2>8. g = [i \in 0 .. Len(s) |-> g[i]]
    OBVIOUS
  <2>9. Is(g)
    BY <2>5, <2>8
  <2>. QED
    BY <2>9, Zenon
<1>4. PICK u : u = Chosen /\ Is(u)
  BY <1>3, Zenon
<1>. HIDE DEF Chosen
<1>5. \A i \in 0 .. Len(s) : u[i] = IF i = 0 THEN << >> ELSE Next2(u[i - 1], i)
  BY <1>4
<1>6. u[0] = << >> /\ \A i \in 1 .. Len(s) : u[i] = Next2(u[i - 1], i)
  <2>1. \A i \in 1 .. Len(s) : i \in 0 .. Len(s) /\ i # 0
    BY <1>2
  <2>. QED
    BY <1>2, <1>5, <2>1
<1>7. u = [i \in 0 .. Len(s) |-> u[i]]
  BY <1>4
<1>. HIDE DEF Is
<1>8. \A i \in 0 .. Len(s) : u[i] \in Seq(W)
  <2>. DEFINE I == {i \in Nat : i <= Len(s) => u[i] \in Seq(W)}
  <2>1. 0 \in I
    <3>1. << >> \in Seq(W)
      OBVIOUS
    <3>. QED
      BY <1>6, <3>1
  <2>2. ASSUME NEW i \in I PROVE i + 1 \in I
    <3>. SUFFICES ASSUME i + 1 <= Len(s) PROVE u[i + 1] \in Seq(W)
      OBVIOUS
    <3>1. i \in Nat /\ i + 1 \in 1 .. Len(s) /\ (i + 1) - 1 = i /\ u[i] \in Seq(W)
      BY <1>2
    <3>2. u[i + 1] = Next2(u[i], i + 1) /\ s[i + 1] \in W
      BY <1>2, <1>6, <3>1
    <3>. QED
      BY <3>1, <3>2
  <2>3. I \subseteq Nat
    OBVIOUS
  <2>4. I = Nat
    <3>. HIDE DEF I
    <3>. QED
      BY <2>1, <2>2, <2>3, InductionOverSet
  <2>. QED
    BY <1>2, <2>4
<1>9. u \in [0 .. Len(s) -> Seq(W)]
  BY <1>7, <1>8
<1>. QED
  BY <1>1, <1>4, <1>6, <1>9

LEMMA DataInNothing ==
  ASSUME NEW W, NEW s \in Seq(W), Len(s) = 0
  PROVE  DataIn(s) = << >>
<1>1. PICK u \in [0 .. Len(s) -> Seq(W)] : DataIn(s) = u[Len(s)] /\ u[0] = << >>
  BY DataInSteps
<1>. QED
  BY <1>1

LEMMA DataInEmpty == DataIn(<< >>) = << >>
<1>. DEFINE s == << >>
<1>1. s \in Seq({}) /\ Len(s) = 0
  OBVIOUS
<1>. HIDE DEF s
<1>2. DataIn(s) = << >>
  BY <1>1, DataInNothing
<1>. QED
  BY <1>2 DEF s

LEMMA DataInAppend ==
  ASSUME NEW W, NEW s \in Seq(W), NEW w \in W
  PROVE  /\ DataIn(s) \in Seq(W)
         /\ DataIn(Append(s, w)) =
              IF w.type = 0 THEN Append(DataIn(s), w) ELSE DataIn(s)
<1>. DEFINE t == Append(s, w)
<1>1. /\ t \in Seq(W) /\ Len(t) = Len(s) + 1 /\ Len(s) \in Nat
      /\ \A i \in 1 .. Len(s) : t[i] = s[i]
      /\ t[Len(s) + 1] = w
  BY AppendElements
<1>. HIDE DEF t
<1>2. PICK u \in [0 .. Len(s) -> Seq(W)] :
        /\ DataIn(s) = u[Len(s)]
        /\ u[0] = << >>
        /\ \A i \in 1 .. Len(s) :
             u[i] = IF s[i].type = 0 THEN Append(u[i - 1], s[i]) ELSE u[i - 1]
  BY DataInSteps
<1>3. PICK v \in [0 .. Len(t) -> Seq(W)] :
        /\ DataIn(t) = v[Len(t)]
        /\ v[0] = << >>
        /\ \A i \in 1 .. Len(t) :
             v[i] = IF t[i].type = 0 THEN Append(v[i - 1], t[i]) ELSE v[i - 1]
  BY <1>1, DataInSteps
<1>4. \A i \in 0 .. Len(s) : v[i] = u[i]
  <2>. DEFINE I == {i \in Nat : i <= Len(s) => v[i] = u[i]}
  <2>1. 0 \in I
    BY <1>2, <1>3
  <2>2. ASSUME NEW i \in I PROVE i + 1 \in I
    <3>. SUFFICES ASSUME i + 1 <= Len(s) PROVE v[i + 1] = u[i + 1]
      OBVIOUS
    <3>1. /\ i + 1 \in 1 .. Len(s) /\ i + 1 \in 1 .. Len(t)
          /\ (i + 1) - 1 = i /\ v[i] = u[i]
      BY <1>1
    <3>2. t[i + 1] = s[i + 1]
      BY <1>1, <3>1
    <3>3. u[i + 1] = IF s[i + 1].type = 0 THEN Append(u[i], s[i + 1]) ELSE u[i]
      BY <1>2, <3>1
    <3>4. v[i + 1] = IF t[i + 1].type = 0 THEN Append(v[i], t[i + 1]) ELSE v[i]
      BY <1>3, <3>1
    <3>. QED
      BY <3>1, <3>2, <3>3, <3>4
  <2>3. I \subseteq Nat
    OBVIOUS
  <2>4. I = Nat
    <3>. HIDE DEF I
    <3>. QED
      BY <2>1, <2>2, <2>3, InductionOverSet
  <2>. QED
    BY <1>1, <2>4
<1>5. DataIn(t) = IF w.type = 0 THEN Append(DataIn(s), w) ELSE DataIn(s)
  <2>1. /\ Len(s) + 1 \in 1 .. Len(t) /\ (Len(s) + 1) - 1 = Len(s)
        /\ Len(s) \in 0 .. Len(s)
    BY <1>1
  <2>2. v[Len(s) + 1] = IF t[Len(s) + 1].type = 0
                        THEN Append(v[Len(s)], t[Len(s) + 1]) ELSE v[Len(s)]
    BY <1>3, <2>1
  <2>3. t[Len(s) + 1] = w /\ DataIn(t) = v[Len(s) + 1]
    BY <1>1, <1>3
  <2>4. v[Len(s)] = DataIn(s)
    BY <1>2, <1>4, <2>1
  <2>. QED
    BY <2>2, <2>3, <2>4
<1>6. DataIn(s) \in Seq(W)
  <2>1. Len(s) \in 0 .. Len(s)
    BY <1>1
  <2>2. u[Len(s)] \in Seq(W)
    BY <2>1
  <2>. QED
    BY <1>2, <2>2
<1>. QED
  BY <1>5, <1>6 DEF t

LEMMA DataInType ==
  ASSUME NEW W, NEW s \in Seq(W)
  PROVE  DataIn(s) \in Seq(W)
<1>1. Len(s) \in 0 .. Len(s)
  OBVIOUS
<1>. QED
  BY <1>1, DataInSteps

AppendsAtEnd(W) ==
  \A s, r \in Seq(W), w \in W : Append(s \o r, w) = s \o Append(r, w)

LEMMA AppendAtEnd ==
  ASSUME NEW W
  PROVE  AppendsAtEnd(W)
<1>. SUFFICES ASSUME NEW s \in Seq(W), NEW r \in Seq(W), NEW w \in W
              PROVE  Append(s \o r, w) = s \o Append(r, w)
  BY DEF AppendsAtEnd
<1>1. <<w>> \in Seq(W) /\ s \o r \in Seq(W)
  BY ConcatProperties
<1>2. Append(s \o r, w) = (s \o r) \o <<w>>
  BY <1>1, AppendIsConcat
<1>3. Append(r, w) = r \o <<w>>
  BY AppendIsConcat
<1>4. (s \o r) \o <<w>> = s \o (r \o <<w>>)
  BY <1>1, ConcatAssociative
<1>. QED
  BY <1>2, <1>3, <1>4

LEMMA DataInConcat ==
  ASSUME NEW W, NEW s \in Seq(W), NEW t \in Seq(W)
  PROVE  DataIn(s \o t) = DataIn(s) \o DataIn(t)
<1>0. ASSUME NEW r \in Seq(W), NEW w \in W
      PROVE  /\ s \o Append(r, w) = Append(s \o r, w)
             /\ Append(DataIn(s) \o DataIn(r), w) = DataIn(s) \o Append(DataIn(r), w)
  <2>1. AppendsAtEnd(W)
    BY AppendAtEnd
  <2>2. DataIn(s) \in Seq(W) /\ DataIn(r) \in Seq(W)
    BY DataInType
  <2>. QED
    BY <2>1, <2>2, Zenon DEF AppendsAtEnd
<1>. DEFINE I == {r \in Seq(W) : DataIn(s \o r) = DataIn(s) \o DataIn(r)}
<1>1. << >> \in I
  BY DataInEmpty, DataInType, ConcatEmptySeq, EmptySeq
<1>2. ASSUME NEW r \in I, NEW w \in W PROVE Append(r, w) \in I
  <2>1. r \in Seq(W) /\ DataIn(s \o r) = DataIn(s) \o DataIn(r)
    OBVIOUS
  <2>. HIDE DEF I
  <2>2. s \o r \in Seq(W) /\ Append(r, w) \in Seq(W)
    BY <2>1, ConcatProperties, AppendProperties
  <2>3. s \o Append(r, w) = Append(s \o r, w)
    BY <1>0, <2>1
  <2>4. DataIn(s) \in Seq(W) /\ DataIn(r) \in Seq(W)
    BY <2>1, DataInType
  <2>5. CASE w.type = 0
    <3>1. DataIn(s \o Append(r, w)) = Append(DataIn(s) \o DataIn(r), w)
      BY <2>1, <2>2, <2>3, <2>5, DataInAppend
    <3>2. DataIn(Append(r, w)) = Append(DataIn(r), w)
      BY <2>1, <2>5, DataInAppend
    <3>3. Append(DataIn(s) \o DataIn(r), w) = DataIn(s) \o Append(DataIn(r), w)
      BY <1>0, <2>1
    <3>. QED
      BY <2>2, <3>1, <3>2, <3>3 DEF I
  <2>6. CASE w.type # 0
    <3>1. DataIn(Append(s \o r, w)) = DataIn(s \o r)
      BY <2>2, <2>6, DataInAppend
    <3>2. DataIn(Append(r, w)) = DataIn(r)
      BY <2>1, <2>6, DataInAppend
    <3>. QED
      BY <2>1, <2>2, <2>3, <3>1, <3>2 DEF I
  <2>. QED
    BY <2>5, <2>6
<1>3. I = Seq(W)
  <2>1. I \subseteq Seq(W)
    OBVIOUS
  <2>. HIDE DEF I
  <2>. QED
    BY <1>1, <1>2, <2>1, InductionOverSequences
<1>. QED
  BY <1>3

\* What is all data is left as it is.
LEMMA DataInData ==
  ASSUME NEW W, \A w \in W : w.type = 0, NEW s \in Seq(W)
  PROVE  DataIn(s) = s
<1>. DEFINE I == {r \in Seq(W) : DataIn(r) = r}
<1>1. << >> \in I
  BY DataInEmpty, EmptySeq
<1>2. ASSUME NEW r \in I, NEW w \in W PROVE Append(r, w) \in I
  BY DataInAppend, AppendProperties
<1>3. I = Seq(W)
  <2>1. I \subseteq Seq(W)
    OBVIOUS
  <2>. HIDE DEF I
  <2>. QED
    BY <1>1, <1>2, <2>1, InductionOverSequences
<1>. QED
  BY <1>3

LEMMA DataInHeader ==
  ASSUME NEW h, h.type # 0
  PROVE  DataIn(<<h>>) = << >>
<1>1. << >> \in Seq({h}) /\ h \in {h} /\ Append(<< >>, h) = <<h>>
  OBVIOUS
<1>. QED
  BY <1>1, DataInAppend, DataInEmpty

Stream == Seq(Words \cup Headers)
Requests == {QUIT, PWD, CWD, LIST, RETR, STOR}

IsHeader(w) == w.type # 0

\* Each header has its data behind it.
Framed(s) ==
  \A i \in 1 .. Len(s) : IsHeader(s[i]) =>
    /\ i + s[i].length <= Len(s)
    /\ \A j \in i + 1 .. i + s[i].length : ~IsHeader(s[j])

\* There is nothing but headers with their data.
Aligned(s) ==
  /\ s # << >> => IsHeader(s[1])
  /\ \A i, j \in 1 .. Len(s) :
       IsHeader(s[i]) /\ j = i + s[i].length + 1 => IsHeader(s[j])

\* The headers are requests, with a name or without one, or those of packets.
Asking(s) ==
  \A i \in 1 .. Len(s) : IsHeader(s[i]) =>
    \/ s[i].type = DATA
    \/ s[i].type \in Requests \ {RETR, STOR} /\ s[i].length = 0
    \/ /\ s[i].type \in Requests \ {QUIT, PWD} /\ s[i].length = 1
       /\ \E n \in Names : s[i + 1] = Word(n)

\* There are packets only.
DataOnly(s) == \A i \in 1 .. Len(s) : IsHeader(s[i]) => s[i].type = DATA

\* More packets follow, or the last one is marked 0.
Continued(s) == \A i \in 1 .. Len(s) : IsHeader(s[i]) => s[i].code = 1
Marked(s) ==
  \A i \in 1 .. Len(s) : IsHeader(s[i]) =>
    s[i].code \in {0, 1} /\ (s[i].code = 0 => i + s[i].length = Len(s))

LEMMA HeaderLength ==
  ASSUME NEW w \in Words \cup Headers, IsHeader(w)
  PROVE  w \in Headers /\ w.length \in Nat /\ w.code \in {0, 1, 2, 5}
BY DEF IsHeader, Words, Word, Headers

LEMMA WordsAreData == \A w \in Words : w.type = 0 /\ ~IsHeader(w) /\ w.code = 0
BY DEF Words, Word, IsHeader

\* Words and headers are not both.
LEMMA HeaderTypes ==
  ASSUME NEW w \in Words \cup Headers, w.type \in Requests \cup {OK, FILE_ERR, UNKWN_ERR, DATA}
  PROVE  IsHeader(w) /\ w \in Headers
BY DEF Words, Word, IsHeader, Requests, QUIT, PWD, CWD, LIST, RETR, STOR, OK, FILE_ERR, UNKWN_ERR, DATA

LEMMA Elements ==
  ASSUME NEW s \in Stream
  PROVE  Len(s) \in Nat /\ \A i \in 1 .. Len(s) : s[i] \in Words \cup Headers
BY DEF Stream

LEMMA AfterElements ==
  ASSUME NEW s \in Stream, NEW n \in Nat
  PROVE  /\ After(s, n) \in Stream
         /\ Len(After(s, n)) = IF n <= Len(s) THEN Len(s) - n ELSE 0
         /\ \A i \in 1 .. Len(After(s, n)) : n + i \in 1 .. Len(s) /\ After(s, n)[i] = s[n + i]
<1>1. Len(s) \in Nat /\ \A i \in n + 1 .. Len(s) : s[i] \in Words \cup Headers
  BY Elements
<1>2. n + 1 \in Int /\ Len(s) \in Int
  BY <1>1
<1>3. /\ SubSeq(s, n + 1, Len(s)) \in Seq(Words \cup Headers)
      /\ Len(SubSeq(s, n + 1, Len(s))) = IF n + 1 <= Len(s) THEN Len(s) - (n + 1) + 1 ELSE 0
      /\ \A i \in 1 .. Len(s) - (n + 1) + 1 : SubSeq(s, n + 1, Len(s))[i] = s[(n + 1) + i - 1]
  BY <1>1, <1>2, SubSeqProperties
<1>. DEFINE r == SubSeq(s, n + 1, Len(s))
<1>. HIDE DEF r
<1>4. Len(r) = IF n <= Len(s) THEN Len(s) - n ELSE 0
  BY <1>1, <1>3 DEF r
<1>5. ASSUME NEW i \in 1 .. Len(r) PROVE n + i \in 1 .. Len(s) /\ r[i] = s[n + i]
  <2>1. i \in 1 .. Len(s) - (n + 1) + 1 /\ (n + 1) + i - 1 = n + i /\ n + i \in 1 .. Len(s)
    BY <1>1, <1>4
  <2>. QED
    BY <1>3, <2>1 DEF r
<1>. QED
  BY <1>3, <1>4, <1>5 DEF After, Stream, r

LEMMA JoinElements ==
  ASSUME NEW s \in Stream, NEW t \in Stream
  PROVE  /\ s \o t \in Stream
         /\ Len(s \o t) = Len(s) + Len(t)
         /\ \A i \in 1 .. Len(s) : (s \o t)[i] = s[i]
         /\ \A i \in 1 .. Len(t) : (s \o t)[Len(s) + i] = t[i]
<1>1. /\ s \o t \in Stream
      /\ Len(s \o t) = Len(s) + Len(t)
      /\ \A i \in 1 .. Len(s) + Len(t) :
           (s \o t)[i] = IF i <= Len(s) THEN s[i] ELSE t[i - Len(s)]
  BY ConcatProperties DEF Stream
<1>2. Len(s) \in Nat /\ Len(t) \in Nat
  BY Elements
<1>3. ASSUME NEW i \in 1 .. Len(t) PROVE (s \o t)[Len(s) + i] = t[i]
  <2>1. Len(s) + i \in 1 .. Len(s) + Len(t) /\ ~(Len(s) + i <= Len(s)) /\ (Len(s) + i) - Len(s) = i
    BY <1>2
  <2>. QED
    BY <1>1, <2>1
<1>. QED
  BY <1>1, <1>2, <1>3

\* What is true of a stream is true of the rest of it.
LEMMA RestOfStream ==
  ASSUME NEW s \in Stream, NEW n \in Nat
  PROVE  /\ Framed(s) => Framed(After(s, n))
         /\ Framed(s) /\ Asking(s) => Asking(After(s, n))
         /\ DataOnly(s) => DataOnly(After(s, n))
         /\ Continued(s) => Continued(After(s, n))
         /\ Marked(s) => Marked(After(s, n))
<1>. DEFINE r == After(s, n)
<1>1. /\ r \in Stream
      /\ Len(r) = IF n <= Len(s) THEN Len(s) - n ELSE 0
      /\ \A i \in 1 .. Len(r) : n + i \in 1 .. Len(s) /\ r[i] = s[n + i]
  BY AfterElements
<1>2. Len(s) \in Nat /\ Len(r) \in Nat
  BY <1>1, Elements
<1>. HIDE DEF r
<1>3. ASSUME NEW i \in 1 .. Len(r), IsHeader(r[i])
      PROVE  /\ r[i].length \in Nat
             /\ n + i \in 1 .. Len(s) /\ r[i] = s[n + i] /\ IsHeader(s[n + i])
             /\ Len(s) = n + Len(r)
  <2>1. n + i \in 1 .. Len(s) /\ r[i] = s[n + i]
    BY <1>1
  <2>2. r[i].length \in Nat
    BY <1>1, <1>3, HeaderLength, Elements
  <2>3. Len(s) = n + Len(r)
    BY <1>1, <1>2
  <2>. QED
    BY <1>3, <2>1, <2>2, <2>3
<1>4. ASSUME Framed(s) PROVE Framed(r)
  <2>. SUFFICES ASSUME NEW i \in 1 .. Len(r), IsHeader(r[i])
                PROVE  /\ i + r[i].length <= Len(r)
                       /\ \A j \in i + 1 .. i + r[i].length : ~IsHeader(r[j])
    BY DEF Framed
  <2>1. /\ (n + i) + s[n + i].length <= Len(s)
        /\ \A j \in (n + i) + 1 .. (n + i) + s[n + i].length : ~IsHeader(s[j])
    <3>1. n + i \in 1 .. Len(s) /\ IsHeader(s[n + i])
      BY <1>3
    <3>. QED
      BY <1>4, <3>1 DEF Framed
  <2>2. i + r[i].length <= Len(r)
    <3>. DEFINE l == r[i].length
    <3>1. l \in Nat /\ (n + i) + l <= Len(s) /\ Len(s) = n + Len(r)
      BY <1>3, <2>1
    <3>. HIDE DEF l
    <3>2. i + l <= Len(r)
      BY <1>2, <3>1
    <3>. QED
      BY <3>2 DEF l
  <2>3. ASSUME NEW j \in i + 1 .. i + r[i].length PROVE ~IsHeader(r[j])
    <3>. DEFINE l == r[i].length
    <3>1. l \in Nat /\ s[n + i].length = l /\ i + l <= Len(r) /\ i \in Nat
      BY <1>2, <1>3, <2>2
    <3>. HIDE DEF l
    <3>2. j \in i + 1 .. i + l
      BY DEF l
    <3>3. j \in 1 .. Len(r) /\ n + j \in (n + i) + 1 .. (n + i) + l
      BY <1>2, <3>1, <3>2
    <3>. QED
      BY <1>1, <2>1, <3>1, <3>3
  <2>. QED
    BY <2>2, <2>3
<1>5. ASSUME Asking(s), Framed(s) PROVE Asking(r)
  <2>. SUFFICES ASSUME NEW i \in 1 .. Len(r), IsHeader(r[i]), r[i].length = 1
                PROVE  r[i + 1] = s[n + i + 1]
    BY <1>3, <1>5 DEF Asking
  <2>1. i + 1 <= Len(r)
    BY <1>4, <1>5 DEF Framed
  <2>2. i + 1 \in 1 .. Len(r) /\ n + (i + 1) = n + i + 1
    BY <1>2, <2>1
  <2>. QED
    BY <1>1, <2>2
<1>6. ASSUME Marked(s) PROVE Marked(r)
  <2>. SUFFICES ASSUME NEW i \in 1 .. Len(r), IsHeader(r[i])
                PROVE  /\ r[i].code \in {0, 1}
                       /\ r[i].code = 0 => i + r[i].length = Len(r)
    BY DEF Marked
  <2>1. /\ s[n + i].code \in {0, 1}
        /\ s[n + i].code = 0 => (n + i) + s[n + i].length = Len(s)
    BY <1>3, <1>6 DEF Marked
  <2>. DEFINE l == r[i].length
  <2>2. l \in Nat /\ s[n + i].length = l /\ s[n + i].code = r[i].code
    BY <1>3
  <2>3. s[n + i].code = 0 => (n + i) + l = Len(s)
    BY <2>1, <2>2
  <2>. HIDE DEF l
  <2>4. s[n + i].code = 0 => i + l = Len(r)
    BY <1>2, <1>3, <2>2, <2>3
  <2>. QED
    BY <2>1, <2>2, <2>4 DEF l
<1>7. ASSUME DataOnly(s) PROVE DataOnly(r)
  BY <1>3, <1>7 DEF DataOnly
<1>8. ASSUME Continued(s) PROVE Continued(r)
  BY <1>3, <1>8 DEF Continued
<1>. QED
  BY <1>4, <1>5, <1>6, <1>7, <1>8 DEF r

LEMMA RestAligned ==
  ASSUME NEW s \in Stream, s # << >>, Framed(s), Aligned(s)
  PROVE  /\ s[1] \in Headers /\ s[1].length \in Nat
         /\ 1 + s[1].length <= Len(s)
         /\ \A i \in 2 .. 1 + s[1].length : ~IsHeader(s[i])
         /\ Aligned(After(s, 1 + s[1].length))
<1>1. Len(s) \in Nat \ {0} /\ 1 \in 1 .. Len(s)
  BY EmptySeq DEF Stream
<1>2. IsHeader(s[1]) /\ s[1] \in Headers /\ s[1].length \in Nat
  BY <1>1, Elements, HeaderLength DEF Aligned
<1>. DEFINE l == s[1].length
            r == After(s, 1 + l)
<1>3. 1 + l <= Len(s) /\ \A i \in 2 .. 1 + l : ~IsHeader(s[i])
  BY <1>1, <1>2 DEF Framed
<1>4. l \in Nat /\ 1 + l \in Nat
  BY <1>2
<1>5. /\ r \in Stream
      /\ Len(r) = Len(s) - (1 + l)
      /\ \A i \in 1 .. Len(r) : (1 + l) + i \in 1 .. Len(s) /\ r[i] = s[(1 + l) + i]
  BY <1>3, <1>4, AfterElements
<1>. HIDE DEF r
<1>6. Len(r) \in Nat
  BY <1>5, Elements
<1>7. ASSUME r # << >> PROVE IsHeader(r[1])
  <2>1. 1 \in 1 .. Len(r)
    BY <1>5, <1>6, <1>7, EmptySeq DEF Stream
  <2>2. r[1] = s[(1 + l) + 1] /\ (1 + l) + 1 \in 1 .. Len(s)
    BY <1>5, <2>1
  <2>. QED
    BY <1>1, <1>2, <2>2 DEF Aligned
<1>8. ASSUME NEW i \in 1 .. Len(r), NEW j \in 1 .. Len(r),
             IsHeader(r[i]), j = i + r[i].length + 1
      PROVE  IsHeader(r[j])
  <2>1. /\ (1 + l) + i \in 1 .. Len(s) /\ r[i] = s[(1 + l) + i]
        /\ (1 + l) + j \in 1 .. Len(s) /\ r[j] = s[(1 + l) + j]
        /\ r[i].length \in Nat
    BY <1>5, <1>8, Elements, HeaderLength
  <2>2. (1 + l) + j = ((1 + l) + i) + r[i].length + 1
    <3>. DEFINE k == r[i].length
    <3>1. k \in Nat /\ j = i + k + 1
      BY <1>8, <2>1
    <3>. HIDE DEF k, l
    <3>2. (1 + l) + j = ((1 + l) + i) + k + 1
      BY <1>4, <1>6, <3>1
    <3>. QED
      BY <3>2 DEF k
  <2>3. s[(1 + l) + i].length = r[i].length /\ IsHeader(s[(1 + l) + i])
    BY <1>8, <2>1
  <2>4. (1 + l) + j = ((1 + l) + i) + s[(1 + l) + i].length + 1
    BY <2>2, <2>3
  <2>. HIDE DEF l
  <2>. QED
    BY <2>1, <2>3, <2>4 DEF Aligned
<1>9. Aligned(r)
  BY <1>7, <1>8 DEF Aligned
<1>. QED
  BY <1>2, <1>3, <1>9 DEF r

LEMMA JoinedStream ==
  ASSUME NEW s \in Stream, NEW t \in Stream, Framed(s), Framed(t)
  PROVE  /\ Framed(s \o t)
         /\ Aligned(s) /\ Aligned(t) => Aligned(s \o t)
         /\ Asking(s) /\ Asking(t) => Asking(s \o t)
         /\ DataOnly(s) /\ DataOnly(t) => DataOnly(s \o t)
         /\ Continued(s) /\ Continued(t) => Continued(s \o t)
         /\ Continued(s) /\ Marked(t) => Marked(s \o t)
<1>. DEFINE q == s \o t
            m == Len(s)
            n == Len(t)
<1>1. /\ q \in Stream /\ Len(q) = m + n /\ m \in Nat /\ n \in Nat
      /\ \A i \in 1 .. m : q[i] = s[i]
      /\ \A i \in 1 .. n : q[m + i] = t[i]
  BY JoinElements, Elements
<1>. HIDE DEF q, m, n
<1>2. ASSUME NEW i \in 1 .. m + n
      PROVE  \/ i \in 1 .. m /\ q[i] = s[i]
             \/ \E k \in 1 .. n : i = m + k /\ q[i] = t[k]
  <2>1. i \in 1 .. m \/ (i - m \in 1 .. n /\ i = m + (i - m))
    BY <1>1
  <2>. QED
    BY <1>1, <2>1
<1>3. ASSUME NEW i \in 1 .. m, IsHeader(s[i])
      PROVE  /\ s[i].length \in Nat
             /\ i + s[i].length <= m
             /\ \A j \in i + 1 .. i + s[i].length : ~IsHeader(s[j])
  BY <1>3, Elements, HeaderLength DEF Framed, m
<1>4. ASSUME NEW i \in 1 .. n, IsHeader(t[i])
      PROVE  /\ t[i].length \in Nat
             /\ i + t[i].length <= n
             /\ \A j \in i + 1 .. i + t[i].length : ~IsHeader(t[j])
  BY <1>4, Elements, HeaderLength DEF Framed, n
<1>. HIDE DEF m, n
<1>5. ASSUME NEW i \in 1 .. m + n, IsHeader(q[i])
      PROVE  /\ i + q[i].length <= m + n
             /\ \A j \in i + 1 .. i + q[i].length : ~IsHeader(q[j])
  <2>1. CASE i \in 1 .. m /\ q[i] = s[i]
    <3>. DEFINE l == q[i].length
    <3>1. l \in Nat /\ i + l <= m /\ \A j \in i + 1 .. i + l : ~IsHeader(s[j])
      BY <1>3, <1>5, <2>1
    <3>. HIDE DEF l
    <3>2. i + l <= m + n
      BY <1>1, <3>1
    <3>3. ASSUME NEW j \in i + 1 .. i + l PROVE ~IsHeader(q[j])
      <4>1. j \in 1 .. m
        BY <1>1, <3>1
      <4>. QED
        BY <1>1, <3>1, <4>1
    <3>. QED
      BY <3>2, <3>3 DEF l
  <2>2. ASSUME NEW k \in 1 .. n, i = m + k, q[i] = t[k]
        PROVE  /\ i + q[i].length <= m + n
               /\ \A j \in i + 1 .. i + q[i].length : ~IsHeader(q[j])
    <3>. DEFINE l == q[i].length
    <3>1. l \in Nat /\ k + l <= n /\ \A j \in k + 1 .. k + l : ~IsHeader(t[j])
      BY <1>4, <1>5, <2>2
    <3>. HIDE DEF l
    <3>2. i + l <= m + n
      BY <1>1, <2>2, <3>1
    <3>3. ASSUME NEW j \in i + 1 .. i + l PROVE ~IsHeader(q[j])
      <4>1. j - m \in 1 .. n /\ j - m \in k + 1 .. k + l /\ m + (j - m) = j
        BY <1>1, <2>2, <3>1
      <4>. QED
        BY <1>1, <3>1, <4>1
    <3>. QED
      BY <3>2, <3>3 DEF l
  <2>. QED
    BY <1>2, <2>1, <2>2
<1>6. Framed(q)
  BY <1>1, <1>5 DEF Framed
<1>7. ASSUME DataOnly(s), DataOnly(t) PROVE DataOnly(q)
  <2>1. \A i \in 1 .. m : IsHeader(s[i]) => s[i].type = DATA
    BY <1>7 DEF DataOnly, m
  <2>2. \A i \in 1 .. n : IsHeader(t[i]) => t[i].type = DATA
    BY <1>7 DEF DataOnly, n
  <2>3. ASSUME NEW i \in 1 .. m + n, IsHeader(q[i]) PROVE q[i].type = DATA
    BY <1>2, <2>1, <2>2, <2>3
  <2>. QED
    BY <1>1, <2>3 DEF DataOnly
<1>8. ASSUME Continued(s), Continued(t) PROVE Continued(q)
  <2>1. \A i \in 1 .. m : IsHeader(s[i]) => s[i].code = 1
    BY <1>8 DEF Continued, m
  <2>2. \A i \in 1 .. n : IsHeader(t[i]) => t[i].code = 1
    BY <1>8 DEF Continued, n
  <2>3. ASSUME NEW i \in 1 .. m + n, IsHeader(q[i]) PROVE q[i].code = 1
    BY <1>2, <2>1, <2>2, <2>3
  <2>. QED
    BY <1>1, <2>3 DEF Continued
<1>9. ASSUME Continued(s), Marked(t) PROVE Marked(q)
  <2>. SUFFICES ASSUME NEW i \in 1 .. m + n, IsHeader(q[i])
                PROVE  q[i].code \in {0, 1} /\ (q[i].code = 0 => i + q[i].length = m + n)
    BY <1>1 DEF Marked
  <2>1. CASE i \in 1 .. m /\ q[i] = s[i]
    BY <1>9, <2>1 DEF Continued, m
  <2>2. ASSUME NEW k \in 1 .. n, i = m + k, q[i] = t[k]
        PROVE  q[i].code \in {0, 1} /\ (q[i].code = 0 => i + q[i].length = m + n)
    <3>1. q[i].length \in Nat
      BY <1>4, <2>2
    <3>2. q[i].code \in {0, 1} /\ (q[i].code = 0 => k + q[i].length = n)
      BY <1>9, <2>2 DEF Marked, n
    <3>3. ASSUME NEW l \in Nat, k + l = n PROVE i + l = m + n
      BY <1>1, <2>2, <3>3
    <3>. QED
      BY <3>1, <3>2, <3>3
  <2>. QED
    BY <1>2, <2>1, <2>2
<1>10. ASSUME Asking(s), Asking(t) PROVE Asking(q)
  <2>. SUFFICES ASSUME NEW i \in 1 .. m + n, IsHeader(q[i])
                PROVE  \/ q[i].type = DATA
                       \/ q[i].type \in Requests \ {RETR, STOR} /\ q[i].length = 0
                       \/ /\ q[i].type \in Requests \ {QUIT, PWD} /\ q[i].length = 1
                          /\ \E w \in Names : q[i + 1] = Word(w)
    BY <1>1 DEF Asking
  <2>1. CASE i \in 1 .. m /\ q[i] = s[i]
    <3>1. ASSUME s[i].length = 1 PROVE q[i + 1] = s[i + 1]
      BY <1>1, <1>3, <1>5, <2>1, <3>1
    <3>. QED
      BY <1>5, <1>10, <2>1, <3>1 DEF Asking, m
  <2>2. ASSUME NEW k \in 1 .. n, i = m + k, q[i] = t[k]
        PROVE  \/ q[i].type = DATA
               \/ q[i].type \in Requests \ {RETR, STOR} /\ q[i].length = 0
               \/ /\ q[i].type \in Requests \ {QUIT, PWD} /\ q[i].length = 1
                  /\ \E w \in Names : q[i + 1] = Word(w)
    <3>1. ASSUME t[k].length = 1 PROVE q[i + 1] = t[k + 1]
      <4>0. k + 1 <= n
        BY <1>4, <2>2, <3>1
      <4>1. k + 1 \in 1 .. n /\ m + (k + 1) = i + 1
        BY <1>1, <2>2, <4>0
      <4>. QED
        BY <1>1, <4>1
    <3>. QED
      BY <1>10, <2>2, <3>1 DEF Asking, n
  <2>. QED
    BY <1>2, <2>1, <2>2
<1>11. ASSUME Aligned(s), Aligned(t) PROVE Aligned(q)
  <2>1. ASSUME q # << >> PROVE IsHeader(q[1])
    <3>1. 1 \in 1 .. m + n
      BY <1>1, <2>1, EmptySeq DEF Stream
    <3>2. CASE m = 0
      <4>1. q[1] = t[1] /\ n # 0
        BY <1>1, <3>1, <3>2
      <4>. QED
        BY <1>11, <4>1, EmptySeq DEF Aligned, n
    <3>3. CASE m # 0
      <4>1. q[1] = s[1]
        BY <1>1, <3>3
      <4>. QED
        BY <1>11, <3>3, <4>1, EmptySeq DEF Aligned, m
    <3>. QED
      BY <3>2, <3>3
  <2>2. ASSUME NEW i \in 1 .. m + n, NEW j \in 1 .. m + n,
               IsHeader(q[i]), j = i + q[i].length + 1
        PROVE  IsHeader(q[j])
    <3>. DEFINE l == q[i].length
    <3>1. CASE i \in 1 .. m /\ q[i] = s[i]
      <4>1. l \in Nat /\ i + l <= m
        BY <1>3, <2>2, <3>1
      <4>2. CASE j \in 1 .. m
        <5>1. q[j] = s[j] /\ IsHeader(s[j])
          BY <1>1, <1>11, <2>2, <3>1, <4>2 DEF Aligned, m
        <5>. QED
          BY <5>1
      <4>3. CASE j \notin 1 .. m
        <5>. HIDE DEF l
        <5>1. j = m + 1 /\ n # 0
          <6>1. j = i + l + 1
            BY <2>2 DEF l
          <6>. QED
            BY <1>1, <4>1, <4>3, <6>1
        <5>2. q[j] = t[1] /\ IsHeader(t[1])
          <6>1. 1 \in 1 .. n
            BY <1>1, <5>1
          <6>. QED
            BY <1>1, <1>11, <5>1, <6>1, EmptySeq DEF Aligned, n
        <5>. QED
          BY <5>2
      <4>. QED
        BY <4>2, <4>3
    <3>2. ASSUME NEW k \in 1 .. n, i = m + k, q[i] = t[k]
          PROVE  IsHeader(q[j])
      <4>1. l \in Nat /\ j = i + l + 1 /\ IsHeader(t[k]) /\ t[k].length = l
        BY <1>4, <2>2, <3>2
      <4>. HIDE DEF l
      <4>2. j - m \in 1 .. n /\ m + (j - m) = j /\ j - m = k + l + 1
        BY <1>1, <3>2, <4>1
      <4>3. IsHeader(t[j - m])
        BY <1>11, <4>1, <4>2 DEF Aligned, n
      <4>. QED
        BY <1>1, <4>2, <4>3
    <3>. QED
      BY <1>2, <3>1, <3>2
  <2>. QED
    BY <1>1, <2>1, <2>2 DEF Aligned
<1>. QED
  BY <1>6, <1>7, <1>8, <1>9, <1>10, <1>11 DEF q

LEMMA MinOfTwo ==
  ASSUME NEW m \in Nat, NEW n \in Nat
  PROVE  Min({m, n}) = IF m <= n THEN m ELSE n
<1>1. {m, n} \subseteq Nat /\ {m, n} # {}
  OBVIOUS
<1>2. Min({m, n}) \in {m, n} /\ \A j \in {m, n} : Min({m, n}) <= j
  BY <1>1, MinProperties
<1>. QED
  BY <1>2

LEMMA WordSeqs ==
  ASSUME NEW d \in Seq(Words)
  PROVE  /\ d \in Stream /\ Len(d) \in Nat
         /\ \A i \in 1 .. Len(d) : d[i] \in Words /\ ~IsHeader(d[i])
         /\ Framed(d) /\ DataIn(d) = d
<1>1. d \in Stream
  BY SeqMonotonic DEF Stream
<1>2. Len(d) \in Nat /\ \A i \in 1 .. Len(d) : d[i] \in Words /\ ~IsHeader(d[i])
  BY WordsAreData
<1>3. Framed(d)
  BY <1>2 DEF Framed
<1>4. DataIn(d) = d
  BY WordsAreData, DataInData
<1>. QED
  BY <1>1, <1>2, <1>3, <1>4

LEMMA JunkSeqs ==
  ASSUME NEW n \in Nat
  PROVE  JunkWords(n) \in Seq(Words) /\ Len(JunkWords(n)) = n
<1>1. Word(Junk) \in Words
  BY DEF Words
<1>. DEFINE j == [i \in 1 .. n |-> Word(Junk)]
<1>2. j \in [1 .. n -> Words]
  BY <1>1
<1>. HIDE DEF j
<1>3. j \in Seq(Words) /\ Len(j) = n
  BY <1>2, FunctionIsSequence
<1>. QED
  BY <1>3 DEF JunkWords, j

\* A header and what follows it.
LEMMA MessageElements ==
  ASSUME NEW h \in Headers, NEW d \in Seq(Words)
  PROVE  /\ <<h>> \o d \in Stream
         /\ Len(<<h>> \o d) = 1 + Len(d)
         /\ (<<h>> \o d)[1] = h
         /\ \A i \in 1 .. Len(d) : (<<h>> \o d)[1 + i] = d[i]
         /\ IsHeader(h) /\ h.length \in Nat
         /\ \A i \in 2 .. 1 + Len(d) : ~IsHeader((<<h>> \o d)[i])
<1>1. <<h>> \in Stream /\ Len(<<h>>) = 1 /\ <<h>>[1] = h
  BY DEF Stream
<1>2. d \in Stream /\ Len(d) \in Nat /\ \A i \in 1 .. Len(d) : ~IsHeader(d[i])
  BY WordSeqs
<1>. DEFINE s == <<h>>
<1>. HIDE DEF s
<1>3. /\ s \o d \in Stream
      /\ Len(s \o d) = 1 + Len(d)
      /\ (s \o d)[1] = h
      /\ \A i \in 1 .. Len(d) : (s \o d)[1 + i] = d[i]
  BY <1>1, <1>2, JoinElements DEF s
<1>4. IsHeader(h) /\ h.length \in Nat
  BY DEF Headers, IsHeader, QUIT, PWD, CWD, LIST, RETR, STOR, OK, FILE_ERR, UNKWN_ERR, DATA
<1>5. ASSUME NEW i \in 2 .. 1 + Len(d) PROVE ~IsHeader((s \o d)[i])
  <2>1. i - 1 \in 1 .. Len(d) /\ 1 + (i - 1) = i
    BY <1>2
  <2>. QED
    BY <1>2, <1>3, <2>1
<1>. QED
  BY <1>3, <1>4, <1>5 DEF s

LEMMA Message ==
  ASSUME NEW h \in Headers, NEW d \in Seq(Words), h.length <= Len(d)
  PROVE  /\ Framed(<<h>> \o d)
         /\ h.length = Len(d) => Aligned(<<h>> \o d)
         /\ DataIn(<<h>> \o d) = d
<1>. DEFINE s == <<h>> \o d
<1>1. /\ s \in Stream /\ Len(s) = 1 + Len(d) /\ s[1] = h
      /\ IsHeader(h) /\ h.length \in Nat
      /\ \A i \in 2 .. 1 + Len(d) : ~IsHeader(s[i])
  BY MessageElements
<1>2. Len(d) \in Nat /\ d \in Stream /\ DataIn(d) = d
  BY WordSeqs
<1>3. DataIn(s) = d
  <2>1. <<h>> \in Stream
    BY DEF Stream
  <2>2. DataIn(s) = DataIn(<<h>>) \o DataIn(d)
    BY <1>2, <2>1, DataInConcat DEF Stream
  <2>3. DataIn(<<h>>) = << >>
    BY <1>1, DataInHeader DEF IsHeader
  <2>. QED
    BY <1>2, <2>2, <2>3, ConcatEmptySeq DEF Stream
<1>. HIDE DEF s
<1>4. \A i \in 1 .. Len(s) : IsHeader(s[i]) => i = 1
  BY <1>1, <1>2
<1>5. Framed(s)
  <2>. DEFINE l == h.length
  <2>1. l \in Nat /\ 1 + l <= Len(s)
    BY <1>1, <1>2
  <2>2. \A j \in 1 + 1 .. 1 + l : ~IsHeader(s[j])
    BY <1>1, <1>2, <2>1
  <2>. QED
    BY <1>1, <1>4, <2>1, <2>2 DEF Framed
<1>6. ASSUME h.length = Len(d) PROVE Aligned(s)
  <2>1. ASSUME NEW i \in 1 .. Len(s), NEW j \in 1 .. Len(s),
               IsHeader(s[i]), j = i + s[i].length + 1
        PROVE  FALSE
    <3>1. i = 1 /\ s[i].length = Len(d)
      BY <1>1, <1>4, <1>6, <2>1
    <3>2. j = 1 + Len(d) + 1
      BY <2>1, <3>1
    <3>. QED
      BY <1>1, <1>2, <3>2
  <2>. QED
    BY <1>1, <2>1 DEF Aligned
<1>. QED
  BY <1>3, <1>5, <1>6 DEF s

LEMMA PacketProperties ==
  ASSUME NEW c \in {0, 1, 2, 5}, NEW d \in Seq(Words)
  PROVE  /\ Packet(c, d) \in Stream /\ Packet(c, d) # << >>
         /\ Framed(Packet(c, d)) /\ Aligned(Packet(c, d))
         /\ DataOnly(Packet(c, d)) /\ Asking(Packet(c, d))
         /\ c = 1 => Continued(Packet(c, d))
         /\ c \in {0, 1} => Marked(Packet(c, d))
         /\ DataIn(Packet(c, d)) = d
         /\ Packet(c, d)[1].type = DATA
<1>. DEFINE h == Hdr(DATA, c, Len(d))
            s == <<h>> \o d
<1>1. Packet(c, d) = s
  BY DEF Packet
<1>2. Len(d) \in Nat
  OBVIOUS
<1>3. h \in Headers /\ h.length = Len(d) /\ h.type = DATA /\ h.code = c
  BY <1>2 DEF Hdr, Headers
<1>. HIDE DEF h
<1>4. /\ s \in Stream /\ Len(s) = 1 + Len(d) /\ s[1] = h
      /\ IsHeader(h)
      /\ \A i \in 2 .. 1 + Len(d) : ~IsHeader(s[i])
  BY <1>3, MessageElements
<1>5. Framed(s) /\ Aligned(s) /\ DataIn(s) = d
  BY <1>2, <1>3, Message
<1>. HIDE DEF s
<1>6. \A i \in 1 .. Len(s) : IsHeader(s[i]) => i = 1 /\ s[i] = h
  BY <1>2, <1>4
<1>7. DataOnly(s) /\ Asking(s) /\ (c = 1 => Continued(s))
  BY <1>3, <1>6 DEF DataOnly, Asking, Continued
<1>8. c \in {0, 1} => Marked(s)
  BY <1>2, <1>3, <1>4, <1>6 DEF Marked
<1>9. s # << >>
  BY <1>2, <1>4
<1>. QED
  BY <1>1, <1>3, <1>4, <1>5, <1>7, <1>8, <1>9

\* A header is taken from the stream with the data behind it.
LEMMA TakenPacket ==
  ASSUME NEW s \in Stream, s # << >>, Framed(s), IsHeader(s[1])
  PROVE  /\ Head(s) = s[1] /\ s[1] \in Headers /\ s[1].length \in Nat
         /\ Payload(s) \in Seq(Words)
         /\ DataIn(s) = Payload(s) \o DataIn(After(s, 1 + s[1].length))
<1>. DEFINE l == s[1].length
            r == After(s, 1 + l)
            d == SubSeq(s, 2, 1 + l)
<1>1. Len(s) \in Nat \ {0} /\ 1 \in 1 .. Len(s) /\ Head(s) = s[1]
  BY EmptySeq DEF Stream
<1>2. s[1] \in Headers /\ l \in Nat
  BY <1>1, Elements, HeaderLength
<1>3. 1 + l <= Len(s) /\ \A i \in 2 .. 1 + l : ~IsHeader(s[i])
  BY <1>1, <1>2 DEF Framed
<1>4. Payload(s) = d
  <2>1. Head(s).length = l
    BY <1>1
  <2>2. Min({1 + l, Len(s)}) = 1 + l
    BY <1>1, <1>2, <1>3, MinOfTwo
  <2>. QED
    BY <2>1, <2>2 DEF Payload
<1>5. \A i \in 2 .. 1 + l : s[i] \in Words
  <2>1. \A i \in 2 .. 1 + l : s[i] \in Words \cup Headers
    BY <1>1, <1>2, <1>3, Elements
  <2>2. \A w \in Headers : IsHeader(w)
    BY DEF Headers, IsHeader, QUIT, PWD, CWD, LIST, RETR, STOR, OK, FILE_ERR, UNKWN_ERR, DATA
  <2>. QED
    BY <1>3, <2>1, <2>2
<1>6. d \in Seq(Words)
  BY <1>2, <1>5, SubSeqProperties
<1>7. r \in Stream /\ SubSeq(s, 1, 1) \in Stream /\ SubSeq(s, 1, 1) = <<s[1]>>
  <2>1. 1 + l \in Nat
    BY <1>2
  <2>2. r \in Stream
    BY <2>1, AfterElements
  <2>3. <<s[1]>> \in Stream
    BY <1>2 DEF Stream
  <2>4. SubSeq(s, 1, 1) = <<s[1]>>
    <3>1. SubSeq(s, 1, 1) \in Seq(Words \cup Headers) /\ Len(SubSeq(s, 1, 1)) = 1 /\ SubSeq(s, 1, 1)[1] = s[1]
      <4>1. \A i \in 1 .. 1 : s[i] \in Words \cup Headers
        BY <1>1, Elements
      <4>. QED
        BY <4>1, SubSeqProperties
    <3>2. <<s[1]>> \in Seq(Words \cup Headers) /\ Len(<<s[1]>>) = 1 /\ <<s[1]>>[1] = s[1]
      BY <2>3 DEF Stream
    <3>. DEFINE one == SubSeq(s, 1, 1)
                other == <<s[1]>>
    <3>. HIDE DEF one, other
    <3>3. /\ one \in Seq(Words \cup Headers) /\ other \in Seq(Words \cup Headers)
          /\ Len(one) = Len(other) /\ \A i \in 1 .. Len(one) : one[i] = other[i]
      BY <3>1, <3>2 DEF one, other
    <3>4. one = other
      BY <3>3, SeqEqual
    <3>. QED
      BY <3>4 DEF one, other
  <2>. QED
    BY <2>2, <2>3, <2>4
<1>8. s = <<s[1]>> \o (d \o r)
  <2>1. d \o r = SubSeq(s, 2, Len(s))
    <3>1. 2 \in 1 .. Len(s) + 1 /\ 1 + l \in 2 - 1 .. Len(s) /\ Len(s) \in 1 + l .. Len(s)
      BY <1>1, <1>2, <1>3
    <3>. QED
      BY <3>1, ConcatAdjacentSubSeq DEF Stream, After
  <2>2. SubSeq(s, 1, 1) \o SubSeq(s, 1 + 1, Len(s)) = SubSeq(s, 1, Len(s))
    <3>1. 1 \in 1 .. Len(s) + 1 /\ 1 \in 1 - 1 .. Len(s) /\ Len(s) \in 1 .. Len(s)
      BY <1>1
    <3>. QED
      BY <3>1, ConcatAdjacentSubSeq DEF Stream
  <2>3. SubSeq(s, 1, Len(s)) = s
    BY SubSeqFull DEF Stream
  <2>4. SubSeq(s, 1 + 1, Len(s)) = SubSeq(s, 2, Len(s))
    OBVIOUS
  <2>. QED
    BY <1>7, <2>1, <2>2, <2>3, <2>4
<1>. HIDE DEF d, r, l
<1>9. DataIn(s) = DataIn(<<s[1]>>) \o (DataIn(d) \o DataIn(r))
  <2>1. d \in Stream
    BY <1>6, WordSeqs
  <2>2. d \o r \in Stream
    BY <1>7, <2>1, JoinElements
  <2>3. DataIn(d \o r) = DataIn(d) \o DataIn(r)
    BY <1>7, <2>1, DataInConcat DEF Stream
  <2>4. DataIn(<<s[1]>> \o (d \o r)) = DataIn(<<s[1]>>) \o DataIn(d \o r)
    BY <1>7, <2>2, DataInConcat DEF Stream
  <2>. QED
    BY <1>8, <2>3, <2>4
<1>10. DataIn(<<s[1]>>) = << >> /\ DataIn(d) = d
  BY <1>6, DataInHeader, WordSeqs DEF IsHeader
<1>11. DataIn(s) = d \o DataIn(r)
  <2>1. d \o DataIn(r) \in Stream
    <3>1. DataIn(r) \in Stream /\ d \in Stream
      BY <1>6, <1>7, DataInType, WordSeqs DEF Stream
    <3>. QED
      BY <3>1, JoinElements
  <2>. QED
    BY <1>9, <1>10, <2>1, ConcatEmptySeq DEF Stream
<1>. QED
  BY <1>1, <1>2, <1>4, <1>6, <1>11 DEF l, r

LEMMA FlattenSteps ==
  ASSUME NEW W, NEW ps \in Seq(Seq(W)), ps # << >>
  PROVE  \E u \in [1 .. Len(ps) -> Seq(W)] :
           /\ FlattenSeq(ps) = u[Len(ps)]
           /\ u[1] = ps[1]
           /\ \A i \in 2 .. Len(ps) : u[i] = u[i - 1] \o ps[i]
<1>. DEFINE n == Len(ps)
            Is(F) == F = [i \in 1 .. n |-> IF i = 1 THEN ps[i] ELSE F[i - 1] \o ps[i]]
            Chosen == CHOOSE F : Is(F)
<1>1. n \in Nat \ {0} /\ \A i \in 1 .. n : ps[i] \in Seq(W)
  BY EmptySeq
<1>2. FlattenSeq(ps) = Chosen[n]
  <2>1. ~(Len(ps) = 0)
    BY <1>1
  <2>. QED
    BY <2>1, Zenon DEF FlattenSeq
<1>3. \E F : Is(F)
  <2>. DEFINE Grown(y, i) == IF i = 1 THEN ps[i] ELSE y \o ps[i]
              f == [i \in Nat |-> [y \in Seq(W) |-> IF i \in 1 .. n THEN Grown(y, i) ELSE y]]
  <2>1. \A i \in Nat, y \in Seq(W) :
          /\ f[i][y] = IF i \in 1 .. n THEN Grown(y, i) ELSE y
          /\ f[i][y] \in Seq(W)
    <3>1. ASSUME NEW i \in 1 .. n, NEW y \in Seq(W) PROVE Grown(y, i) \in Seq(W)
      BY <1>1, ConcatProperties
    <3>. QED
      BY <3>1
  <2>2. << >> \in Seq(W) /\ n \in Nat
    BY <1>1
  <2>3. f \in [Nat -> [Seq(W) -> Seq(W)]]
    BY <2>1
  <2>. HIDE DEF f
  <2>4. PICK g \in [0 .. n -> Seq(W)] : Follows(g, n, << >>, f)
    BY <2>2, <2>3, Recursion
  <2>5. ASSUME NEW i \in 1 .. n PROVE g[i] = Grown(g[i - 1], i)
    <3>1. i \in Nat /\ i - 1 \in 0 .. n
      BY <1>1
    <3>. QED
      BY <2>1, <2>4, <3>1 DEF Follows
  <2>. DEFINE F == [i \in 1 .. n |-> g[i]]
  <2>6. ASSUME NEW i \in 1 .. n PROVE F[i] = IF i = 1 THEN ps[i] ELSE F[i - 1] \o ps[i]
    <3>1. CASE i # 1
      <4>1. i - 1 \in 1 .. n
        BY <1>1, <3>1
      <4>. QED
        BY <2>5, <3>1, <4>1
    <3>. QED
      BY <2>5, <3>1
  <2>7. Is(F)
    BY <2>6
  <2>. QED
    BY <2>7, Zenon
<1>4. PICK u : u = Chosen /\ Is(u)
  BY <1>3, Zenon
<1>. HIDE DEF Chosen
<1>5. \A i \in 1 .. n : u[i] = IF i = 1 THEN ps[i] ELSE u[i - 1] \o ps[i]
  BY <1>4
<1>6. u = [i \in 1 .. n |-> u[i]]
  BY <1>4
<1>. HIDE DEF Is
<1>7. u[1] = ps[1] /\ \A i \in 2 .. n : u[i] = u[i - 1] \o ps[i]
  <2>1. 1 \in 1 .. n /\ \A i \in 2 .. n : i \in 1 .. n /\ i # 1
    BY <1>1
  <2>. QED
    BY <1>5, <2>1
<1>8. \A i \in 1 .. n : u[i] \in Seq(W)
  <2>. DEFINE I == {k \in Nat : k + 1 <= n => u[k + 1] \in Seq(W)}
  <2>1. 0 \in I
    <3>1. ps[1] \in Seq(W)
      BY <1>1
    <3>. QED
      BY <1>7, <3>1
  <2>2. ASSUME NEW k \in I PROVE k + 1 \in I
    <3>. SUFFICES ASSUME (k + 1) + 1 <= n PROVE u[(k + 1) + 1] \in Seq(W)
      OBVIOUS
    <3>1. (k + 1) + 1 \in 2 .. n /\ ((k + 1) + 1) - 1 = k + 1 /\ u[k + 1] \in Seq(W)
      BY <1>1
    <3>2. u[(k + 1) + 1] = u[k + 1] \o ps[(k + 1) + 1]
      BY <1>7, <3>1
    <3>3. ps[(k + 1) + 1] \in Seq(W)
      BY <1>1, <3>1
    <3>. QED
      BY <3>1, <3>2, <3>3, ConcatProperties
  <2>3. I \subseteq Nat
    OBVIOUS
  <2>4. I = Nat
    <3>. HIDE DEF I
    <3>. QED
      BY <2>1, <2>2, <2>3, InductionOverSet
  <2>5. ASSUME NEW i \in 1 .. n PROVE u[i] \in Seq(W)
    <3>1. i - 1 \in Nat /\ (i - 1) + 1 = i /\ i <= n
      BY <1>1
    <3>2. i - 1 \in I
      BY <2>4, <3>1
    <3>. QED
      BY <3>1, <3>2
  <2>. QED
    BY <2>5
<1>9. u \in [1 .. n -> Seq(W)]
  BY <1>6, <1>8
<1>. QED
  BY <1>2, <1>4, <1>7, <1>9

\* A file that is larger than a packet is cut into so many that the last one
\* has something in it, and none has more than DATASIZE.
LEMMA Cuts ==
  ASSUME NEW l \in Nat, l > DATASIZE,
         NEW n, n = (l + DATASIZE - 1) \div DATASIZE
  PROVE  /\ n \in Nat \ {0, 1}
         /\ l <= n * DATASIZE
         /\ \A i \in 1 .. n : (i - 1) * DATASIZE < l
         /\ \A i \in 1 .. n - 1 : i * DATASIZE < l
         /\ \A i \in Nat : (i + 1) * DATASIZE = i * DATASIZE + DATASIZE /\ i * DATASIZE \in Nat
<1>1. DATASIZE \in Nat \ {0}
  BY FtpAssumption
<1>2. PICK D \in Nat : D = DATASIZE
  BY <1>1
<1>3. /\ n \in Nat /\ n * D <= l + D - 1 /\ l + D - 1 < (n + 1) * D
  BY <1>1, <1>2
<1>4. \A i \in Nat : (i + 1) * D = i * D + D /\ i * D \in Nat
  BY <1>2
<1>5. \A i, j \in Nat : i <= j => i * D <= j * D
  BY <1>2
<1>6. l <= n * D /\ 1 < n
  <2>1. (n + 1) * D = n * D + D
    BY <1>3, <1>4
  <2>2. l <= n * D
    BY <1>2, <1>3, <1>4, <2>1
  <2>3. ~(n <= 1)
    <3>1. n <= 1 => n * D <= 1 * D
      BY <1>3, <1>5
    <3>2. 1 * D = D
      BY <1>2
    <3>. QED
      BY <1>2, <1>4, <2>2, <3>1, <3>2, <1>3
  <2>. QED
    BY <1>3, <2>2, <2>3
<1>7. ASSUME NEW i \in 1 .. n PROVE (i - 1) * D < l
  <2>1. i - 1 \in Nat /\ n - 1 \in Nat /\ i - 1 <= n - 1 /\ (n - 1) + 1 = n
    BY <1>3
  <2>2. (i - 1) * D <= (n - 1) * D /\ n * D = (n - 1) * D + D
    BY <1>4, <1>5, <2>1
  <2>3. (i - 1) * D \in Nat /\ (n - 1) * D \in Nat
    BY <1>4, <2>1
  <2>. QED
    BY <1>2, <1>3, <1>4, <2>2, <2>3
<1>8. ASSUME NEW i \in 1 .. n - 1 PROVE i * D < l
  <2>1. i + 1 \in 1 .. n /\ (i + 1) - 1 = i
    BY <1>3
  <2>2. ((i + 1) - 1) * D < l
    BY <1>7, <2>1
  <2>. QED
    BY <2>1, <2>2
<1>. QED
  BY <1>2, <1>3, <1>4, <1>6, <1>7, <1>8

\* The packets of a file hold the file.
LEMMA PacketsProperties ==
  ASSUME NEW data \in Seq(Words), NEW small \in {0, 1, 2, 5}
  PROVE  /\ Packets(data, small) \in Stream
         /\ Framed(Packets(data, small)) /\ Aligned(Packets(data, small))
         /\ DataOnly(Packets(data, small))
         /\ small \in {0, 1} => Marked(Packets(data, small))
         /\ DataIn(Packets(data, small)) = data
         /\ LastOf(data, small) \in Headers
<1>1. CASE Len(data) <= DATASIZE
  <2>1. Len(data) \in Nat
    OBVIOUS
  <2>. QED
    BY <1>1, <2>1, PacketProperties DEF Packets, LastOf, Hdr, Headers
<1>2. CASE ~(Len(data) <= DATASIZE)
  <2>. DEFINE l == Len(data)
              n == PacketCount(data)
              Cut(i) == Packet(IF i < n THEN 1 ELSE 0, Chunk(data, i))
              ps == [i \in 1 .. n |-> Cut(i)]
              Until(i) == Min({i * DATASIZE, l})
              Prefix(i) == SubSeq(data, 1, Until(i))
  <2>1. DATASIZE \in Nat \ {0} /\ l \in Nat /\ l > DATASIZE
    BY <1>2, FtpAssumption
  <2>2. n = (l + DATASIZE - 1) \div DATASIZE
    BY DEF PacketCount
  <2>. HIDE DEF n, l
  <2>3. /\ n \in Nat \ {0, 1}
        /\ l <= n * DATASIZE
        /\ \A i \in 1 .. n : (i - 1) * DATASIZE < l
        /\ \A i \in 1 .. n - 1 : i * DATASIZE < l
        /\ \A i \in Nat : (i + 1) * DATASIZE = i * DATASIZE + DATASIZE /\ i * DATASIZE \in Nat
    BY <2>1, <2>2, Cuts
  <2>4. ASSUME NEW i \in 1 .. n
        PROVE  /\ Until(i) \in Nat /\ Until(i) <= l
               /\ (i - 1) * DATASIZE \in Nat /\ (i - 1) * DATASIZE < Until(i)
               /\ i < n => Until(i) = i * DATASIZE
               /\ i = n => Until(i) = l
    <3>1. i - 1 \in Nat /\ i \in Nat /\ (i - 1) + 1 = i
      BY <2>3
    <3>2. i * DATASIZE \in Nat /\ (i - 1) * DATASIZE \in Nat /\ i * DATASIZE = (i - 1) * DATASIZE + DATASIZE
      BY <2>3, <3>1
    <3>3. Until(i) = IF i * DATASIZE <= l THEN i * DATASIZE ELSE l
      BY <2>1, <3>2, MinOfTwo
    <3>4. (i - 1) * DATASIZE < l
      BY <2>3
    <3>5. i < n => i * DATASIZE < l
      <4>1. i < n => i \in 1 .. n - 1
        BY <2>3, <3>1
      <4>. QED
        BY <2>3, <4>1
    <3>6. i = n => l <= i * DATASIZE
      BY <2>3
    <3>. HIDE DEF Until
    <3>. QED
      BY <2>1, <3>2, <3>3, <3>4, <3>5, <3>6
  <2>5. ASSUME NEW i \in 1 .. n PROVE Chunk(data, i) = SubSeq(data, (i - 1) * DATASIZE + 1, Until(i))
    BY DEF Chunk, l
  <2>. HIDE DEF Until
  <2>6. ASSUME NEW i \in 1 .. n
        PROVE  Chunk(data, i) \in Seq(Words) /\ Prefix(i) \in Seq(Words)
    <3>1. /\ (i - 1) * DATASIZE + 1 \in Int /\ Until(i) \in Int
          /\ \A j \in (i - 1) * DATASIZE + 1 .. Until(i) : data[j] \in Words
          /\ \A j \in 1 .. Until(i) : data[j] \in Words
      <4>. DEFINE k == (i - 1) * DATASIZE
      <4>1. k \in Nat /\ Until(i) \in Nat /\ Until(i) <= l
        BY <2>4
      <4>2. \A j \in 1 .. l : data[j] \in Words
        BY DEF l
      <4>. HIDE DEF k
      <4>3. k + 1 \in Int /\ \A j \in k + 1 .. Until(i) : j \in 1 .. l
        BY <2>1, <4>1
      <4>. QED
        BY <2>1, <4>1, <4>2, <4>3 DEF k
    <3>2. SubSeq(data, (i - 1) * DATASIZE + 1, Until(i)) \in Seq(Words)
      BY <3>1, SubSeqProperties
    <3>3. SubSeq(data, 1, Until(i)) \in Seq(Words)
      BY <3>1, SubSeqProperties
    <3>. QED
      BY <2>5, <3>2, <3>3
  <2>7. ASSUME NEW i \in 1 .. n
        PROVE  /\ Cut(i) \in Stream
               /\ Framed(Cut(i)) /\ Aligned(Cut(i)) /\ DataOnly(Cut(i)) /\ Marked(Cut(i))
               /\ i < n => Continued(Cut(i))
               /\ DataIn(Cut(i)) = Chunk(data, i)
    BY <2>6, PacketProperties
  <2>. HIDE DEF Cut
  <2>8. ps \in Seq(Stream) /\ Len(ps) = n /\ ps # << >> /\ \A i \in 1 .. n : ps[i] = Cut(i)
    <3>1. ps \in [1 .. n -> Stream] /\ n \in Nat
      BY <2>3, <2>7
    <3>2. \A i \in 1 .. n : ps[i] = Cut(i)
      OBVIOUS
    <3>. HIDE DEF ps
    <3>3. ps \in Seq(Stream) /\ Len(ps) = n
      BY <3>1, FunctionIsSequence
    <3>. QED
      BY <2>3, <3>2, <3>3, EmptySeq
  <2>9. Packets(data, small) = FlattenSeq(ps)
    BY <1>2 DEF Packets, Cut, n
  <2>. HIDE DEF ps
  <2>10. PICK u \in [1 .. n -> Stream] :
           /\ FlattenSeq(ps) = u[n]
           /\ u[1] = Cut(1)
           /\ \A i \in 2 .. n : u[i] = u[i - 1] \o Cut(i)
    <3>1. PICK u \in [1 .. Len(ps) -> Stream] :
           /\ FlattenSeq(ps) = u[Len(ps)]
           /\ u[1] = ps[1]
           /\ \A i \in 2 .. Len(ps) : u[i] = u[i - 1] \o ps[i]
      BY <2>8, FlattenSteps DEF Stream
    <3>2. 1 \in 1 .. n /\ \A i \in 2 .. n : i \in 1 .. n
      BY <2>3
    <3>. QED
      BY <2>8, <3>1, <3>2
  <2>. DEFINE Good(i) == /\ Framed(u[i]) /\ Aligned(u[i]) /\ DataOnly(u[i]) /\ Marked(u[i])
                         /\ i < n => Continued(u[i])
                         /\ DataIn(u[i]) = Prefix(i)
  <2>11. Good(1)
    <3>1. 1 \in 1 .. n /\ (1 - 1) * DATASIZE + 1 = 1
      BY <2>1, <2>3
    <3>2. Chunk(data, 1) = Prefix(1)
      BY <2>5, <3>1
    <3>. QED
      BY <2>7, <2>10, <3>1, <3>2
  <2>12. ASSUME NEW i \in 2 .. n, Good(i - 1) PROVE Good(i)
    <3>1. i - 1 \in 1 .. n /\ i \in 1 .. n /\ i - 1 < n
      BY <2>3
    <3>2. u[i] = u[i - 1] \o Cut(i) /\ u[i - 1] \in Stream /\ Cut(i) \in Stream
      BY <2>7, <2>10, <3>1
    <3>3. /\ Framed(u[i]) /\ Aligned(u[i]) /\ DataOnly(u[i]) /\ Marked(u[i])
          /\ i < n => Continued(u[i])
      BY <2>7, <2>12, <3>1, <3>2, JoinedStream
    <3>4. DataIn(u[i]) = Prefix(i - 1) \o Chunk(data, i)
      <4>1. DataIn(u[i - 1] \o Cut(i)) = DataIn(u[i - 1]) \o DataIn(Cut(i))
        BY <3>2, DataInConcat DEF Stream
      <4>. QED
        BY <2>7, <2>12, <3>1, <3>2, <4>1
    <3>5. Prefix(i - 1) \o Chunk(data, i) = Prefix(i)
      <4>. DEFINE k == (i - 1) * DATASIZE
      <4>1. Until(i - 1) = k /\ k \in Nat /\ k < Until(i) /\ Until(i) \in Nat /\ Until(i) <= l
        BY <2>4, <3>1
      <4>2. Chunk(data, i) = SubSeq(data, k + 1, Until(i))
        BY <2>5, <3>1
      <4>. HIDE DEF k
      <4>3. 1 \in 1 .. l + 1 /\ k \in 1 - 1 .. l /\ Until(i) \in k .. l
        BY <2>1, <4>1
      <4>4. SubSeq(data, 1, k) \o SubSeq(data, k + 1, Until(i)) = SubSeq(data, 1, Until(i))
        BY <4>3, ConcatAdjacentSubSeq DEF l
      <4>. QED
        BY <4>1, <4>2, <4>4
    <3>. QED
      BY <3>3, <3>4, <3>5
  <2>13. Good(n)
    <3>. DEFINE I == {k \in Nat : k + 1 <= n => Good(k + 1)}
    <3>1. 0 \in I
      BY <2>11
    <3>2. ASSUME NEW k \in I PROVE k + 1 \in I
      <4>. SUFFICES ASSUME (k + 1) + 1 <= n PROVE Good((k + 1) + 1)
        OBVIOUS
      <4>1. (k + 1) + 1 \in 2 .. n /\ ((k + 1) + 1) - 1 = k + 1 /\ k + 1 <= n
        BY <2>3
      <4>2. Good(((k + 1) + 1) - 1)
        BY <4>1
      <4>. HIDE DEF Good
      <4>. QED
        BY <2>12, <4>1, <4>2
    <3>3. I \subseteq Nat
      OBVIOUS
    <3>4. I = Nat
      <4>. HIDE DEF I
      <4>. QED
        BY <3>1, <3>2, <3>3, InductionOverSet
    <3>5. n - 1 \in Nat /\ (n - 1) + 1 = n
      BY <2>3
    <3>6. n - 1 \in I
      BY <3>4, <3>5
    <3>. HIDE DEF Good
    <3>. QED
      BY <2>3, <3>5, <3>6
  <2>14. n \in 1 .. n /\ Prefix(n) = data
    <3>1. n \in 1 .. n
      BY <2>3
    <3>2. Until(n) = l
      BY <2>4, <3>1
    <3>. QED
      BY <3>1, <3>2, SubSeqFull DEF l
  <2>15. u[n] \in Stream
    BY <2>10, <2>14
  <2>16. LastOf(data, small) \in Headers
    <3>1. Chunk(data, n) \in Seq(Words)
      BY <2>6, <2>14
    <3>2. Len(Chunk(data, n)) \in Nat
      BY <3>1
    <3>. QED
      BY <1>2, <3>2 DEF LastOf, Hdr, Headers, n
  <2>. QED
    BY <2>9, <2>10, <2>13, <2>14, <2>15, <2>16
<1>. QED
  BY <1>1, <1>2

-----------------------------------------------------------------------------
\* What the user has asked for, and the header of the request.
Replies == {"quit", "pwd", "cd", "dir", "get", "put"}
TypeOf(w) ==
  CASE w = "quit" -> QUIT [] w = "pwd" -> PWD [] w = "cd" -> CWD
    [] w = "dir" -> LIST [] w = "get" -> RETR [] w = "put" -> STOR
NameSent == IF cmd[1] = "get" THEN cmd[2] ELSE cmd[3]

CommandOK ==
  /\ cpc \in Replies => cmd[1] = cpc
  /\ cpc = "listing" => cmd[1] = "dir"
  /\ cpc = "data" => cmd[1] = "get"
  /\ cpc = "send" => cmd[1] = "put" /\ at \in Nat
  /\ cpc = "put" => at = -1
  /\ cpc = "prompt" => cmd[1] \in {"none", "put"}
  /\ cmd[1] = "put" /\ cpc = "prompt" => at \in Nat
  /\ cmd[1] \in {"get", "put"} => cmd[2] \in Names /\ cmd[3] \in Names

\* What the streams and the files are like, in sync or not.
StreamsOK == Framed(toServer) /\ Aligned(toServer) /\ Asking(toServer) /\ Framed(toClient)
Sized(h) == \A d \in Dirs, n \in Names : Len(files[h][d][n].data) <= MaxSize
FilesOK ==
  /\ \A h \in Hosts, d \in Dirs, n \in Names : files[h][d][n].kind = "dir" => n \in Dirs
  /\ Sized("server")

\* The request is on its way, behind packets of an earlier command.
Asked(s) ==
  \E k \in 1 .. Len(s) :
    /\ s[k].type = TypeOf(cpc)
    /\ k + s[k].length = Len(s)
    /\ \A i \in 1 .. Len(s) : IsHeader(s[i]) => i = k \/ s[i].type = DATA
    /\ cpc \in {"get", "put"} => s[k].length = 1 /\ s[k + 1] = Word(NameSent)
    /\ cpc = "get" => s[k].code \in {0, 1}

\* The packets of a file or of a listing.
Packeted(s) == Framed(s) /\ Aligned(s) /\ DataOnly(s) /\ Marked(s)

\* The reply has come.
Answered(s) ==
  \/ cpc \in {"quit", "cd", "put"} /\ Len(s) = 1
  \/ cpc = "pwd" /\ Len(s) = DATASIZE + 1 /\ s[1].code = 0
  \/ /\ cpc \in {"dir", "get"}
     /\ s # << >> /\ s[1].type = OK /\ s[1].code = 1
     /\ Packeted(After(s, 1))
  \/ cpc \in {"dir", "get"} /\ Len(s) = 1 /\ s[1].type # OK
  \/ cpc = "dir" /\ s # << >> /\ s[1].type = DATA

Synced == ~astray /\ cpc # "gone"
Conversation ==
  Synced =>
    /\ code \in {0, 1}
    /\ cpc \in {"prompt", "send"} => toClient = << >> /\ DataOnly(toServer)
    /\ cpc \in Replies => \/ toClient = << >> /\ Asked(toServer)
                          \/ toServer = << >> /\ Answered(toClient)
    /\ cpc \in {"listing", "data"} => toServer = << >> /\ Packeted(toClient)

\* get: what the client has and what is on its way is the file.
Source == Entry("server", cmd[2])
Fetched(have, s) == IF Source.kind = "file" THEN have \o DataIn(s) = Source.data
                                            ELSE s = << >>
Getting ==
  Synced =>
    /\ cpc = "get" /\ toClient # << >> /\ toClient[1].type = OK =>
         Fetched(<< >>, After(toClient, 1))
    /\ cpc = "data" => Fetched(Entry("client", cmd[3]).data, toClient)

\* put: the file that is open at the server is the one that is sent.
Target == Here("server", cmd[3])
Stores ==
  LET source == Entry("client", cmd[2])
      target == Entry("server", cmd[3])
  IN  source.kind = "file" =>
        /\ at <= Len(source.data)
        /\ target.data \o DataIn(toServer) = SubSeq(source.data, 1, at)
Putting ==
  Synced =>
    /\ Sized("client")
    /\ cpc = "put" /\ toClient # << >> /\ toClient[1].type = OK =>
         Entry("server", cmd[3]).data = << >> /\ fp = Target
    /\ cmd[1] = "put" /\ at \in Nat =>
         /\ Stores
         /\ Marked(toServer)
         /\ cpc = "send" => Continued(toServer)
         /\ cpc = "send" \/ toServer # << >> => fp = Target

Shape == TypeOK /\ CommandOK /\ StreamsOK /\ FilesOK
Inv == Shape /\ Conversation /\ Getting /\ Putting

-----------------------------------------------------------------------------
LEMMA CodesDiffer ==
  /\ QUIT = 1 /\ PWD = 2 /\ CWD = 3 /\ LIST = 4 /\ RETR = 5 /\ STOR = 6
  /\ OK = 16 /\ FILE_ERR = 18 /\ UNKWN_ERR = 19 /\ DATA = 32
  /\ Requests = 1 .. 6
BY DEF QUIT, PWD, CWD, LIST, RETR, STOR, OK, FILE_ERR, UNKWN_ERR, DATA, Requests

LEMMA TypesOfReplies ==
  /\ TypeOf("quit") = 1 /\ TypeOf("pwd") = 2 /\ TypeOf("cd") = 3
  /\ TypeOf("dir") = 4 /\ TypeOf("get") = 5 /\ TypeOf("put") = 6
BY DEF TypeOf, QUIT, PWD, CWD, LIST, RETR, STOR

\* What the server finds when it takes a header.
LEMMA HeadOfRequests ==
  ASSUME Shape, toServer # << >>
  PROVE  /\ toServer \in Stream
         /\ Request1 = toServer[1] /\ Request1 \in Headers /\ IsHeader(Request1)
         /\ Request1.length \in Nat /\ Request1.code \in {0, 1, 2, 5}
         /\ Request1.type \in Requests \cup {DATA}
         /\ 1 + Request1.length <= Len(toServer)
<1>1. /\ toServer \in Stream /\ Framed(toServer) /\ Aligned(toServer) /\ Asking(toServer)
  BY DEF Shape, TypeOK, StreamsOK, Stream
<1>2. Request1 = toServer[1] /\ 1 \in 1 .. Len(toServer)
  BY <1>1, EmptySeq DEF Stream, Request1
<1>3. /\ toServer[1] \in Headers /\ toServer[1].length \in Nat
      /\ 1 + toServer[1].length <= Len(toServer)
  BY <1>1, RestAligned
<1>4. IsHeader(toServer[1])
  BY <1>1 DEF Aligned
<1>5. toServer[1].code \in {0, 1, 2, 5}
  BY <1>3 DEF Headers
<1>6. toServer[1].type \in Requests \cup {DATA}
  BY <1>1, <1>2, <1>4 DEF Asking
<1>. QED
  BY <1>1, <1>2, <1>3, <1>4, <1>5, <1>6

\* What stays of the stream.
LEMMA RestOfRequests ==
  ASSUME Shape, toServer # << >>, TakesAll(Request1.length)
  PROVE  /\ toServer' \in Stream
         /\ Framed(toServer') /\ Aligned(toServer') /\ Asking(toServer')
         /\ toServer' = After(toServer, 1 + Request1.length)
         /\ Len(toServer') = Len(toServer) - (1 + Request1.length)
<1>1. /\ toServer \in Stream /\ Framed(toServer) /\ Aligned(toServer) /\ Asking(toServer)
  BY DEF Shape, TypeOK, StreamsOK, Stream
<1>2. /\ Request1 = toServer[1] /\ Request1.length \in Nat
      /\ 1 + Request1.length <= Len(toServer)
  BY HeadOfRequests
<1>. DEFINE n == 1 + Request1.length
<1>3. n \in Nat /\ n <= Len(toServer)
  BY <1>2
<1>4. toServer' = After(toServer, n) /\ Aligned(After(toServer, n))
  BY <1>1, <1>2, RestAligned DEF TakesAll
<1>. HIDE DEF n
<1>5. toServer' \in Stream /\ Len(toServer') = Len(toServer) - n
  BY <1>1, <1>3, <1>4, AfterElements
<1>6. Framed(toServer') /\ Asking(toServer')
  BY <1>1, <1>3, <1>4, RestOfStream
<1>. QED
  BY <1>4, <1>5, <1>6 DEF n

\* What the server finds when it takes a request.
LEMMA TakenRequest ==
  ASSUME Shape, NEW type \in Requests, Serves(type)
  PROVE  /\ Request1.type = type
         /\ Request1.length \in {0, 1}
         /\ type \in {RETR, STOR} => Request1.length = 1
         /\ type \in {QUIT, PWD} => Request1.length = 0
         /\ Request1.length = 1 => NameIn \in Names /\ toServer[2] = Word(NameIn)
<1>1. toServer # << >> /\ Request1.type = type /\ type # DATA
  BY CodesDiffer DEF Serves, Request1
<1>2. /\ toServer \in Stream /\ Request1 = toServer[1] /\ IsHeader(Request1)
      /\ 1 \in 1 .. Len(toServer) /\ Asking(toServer)
  BY <1>1, HeadOfRequests, EmptySeq DEF Shape, StreamsOK, Stream
<1>3. \/ type \in Requests \ {RETR, STOR} /\ Request1.length = 0
      \/ /\ type \notin {QUIT, PWD} /\ Request1.length = 1
         /\ \E n \in Names : toServer[1 + 1] = Word(n)
  BY <1>1, <1>2 DEF Asking
<1>4. ASSUME NEW n \in Names, toServer[1 + 1] = Word(n)
      PROVE  NameIn \in Names /\ toServer[2] = Word(NameIn)
  BY <1>4 DEF NameIn, Word
<1>. QED
  BY <1>1, <1>3, <1>4, CodesDiffer

\* In sync, the request that the server takes is the last one, and it is the
\* one that the client waits for.
LEMMA SyncedRequest ==
  ASSUME Inv, Synced, NEW type \in Requests, Serves(type), TakesAll(Request1.length)
  PROVE  /\ toClient = << >> /\ toServer' = << >>
         /\ cpc \in Replies /\ TypeOf(cpc) = type
         /\ cpc \in {"get", "put"} => NameIn = NameSent
         /\ cpc = "get" => Request1.code \in {0, 1}
<1>1. /\ toServer # << >> /\ Request1.type = type /\ type # DATA
  BY CodesDiffer DEF Serves, Request1
<1>2. /\ toServer \in Stream /\ Request1 = toServer[1] /\ IsHeader(Request1)
      /\ 1 \in 1 .. Len(toServer) /\ Request1.length \in Nat
  BY <1>1, HeadOfRequests, EmptySeq DEF Inv, Stream
<1>3. ~DataOnly(toServer)
  BY <1>1, <1>2 DEF DataOnly
<1>4. cpc \in Waits /\ cpc # "gone"
  BY DEF Inv, Shape, TypeOK, Synced
<1>5. cpc \in Replies /\ toClient = << >> /\ Asked(toServer)
  BY <1>1, <1>3, <1>4 DEF Inv, Conversation, Replies, Waits
<1>6. PICK k \in 1 .. Len(toServer) :
        /\ toServer[k].type = TypeOf(cpc)
        /\ k + toServer[k].length = Len(toServer)
        /\ \A i \in 1 .. Len(toServer) :
             IsHeader(toServer[i]) => i = k \/ toServer[i].type = DATA
        /\ cpc \in {"get", "put"} => /\ toServer[k].length = 1
                                     /\ toServer[k + 1] = Word(NameSent)
        /\ cpc = "get" => toServer[k].code \in {0, 1}
  BY <1>5 DEF Asked
<1>7. k = 1
  BY <1>1, <1>2, <1>6
<1>8. TypeOf(cpc) = type /\ 1 + Request1.length = Len(toServer)
  BY <1>1, <1>2, <1>6, <1>7
<1>9. toServer' = << >>
  <2>1. /\ toServer' \in Stream
        /\ Len(toServer') = Len(toServer) - (1 + Request1.length)
    BY <1>1, RestOfRequests DEF Inv
  <2>2. Len(toServer') = 0
    BY <1>2, <1>8, <2>1, Elements
  <2>. QED
    BY <2>1, <2>2, EmptySeq DEF Stream
<1>10. cpc \in {"get", "put"} => NameIn = NameSent
  BY <1>6, <1>7 DEF NameIn, Word
<1>. QED
  BY <1>2, <1>5, <1>6, <1>7, <1>8, <1>9, <1>10

-----------------------------------------------------------------------------
\* A file is put in its place, and nothing else changes.
FileTypes == [Hosts -> [Dirs -> [Names -> Entries]]]

LEMMA PutFile ==
  ASSUME NEW fs \in FileTypes, NEW h \in Hosts, NEW d \in Dirs, NEW n \in Names,
         NEW data \in Seq(Words)
  PROVE  /\ Put(fs, h, <<d, n>>, data) \in FileTypes
         /\ Put(fs, h, <<d, n>>, data)[h][d][n] = Holding(data)
         /\ \A h2 \in Hosts, d2 \in Dirs, n2 \in Names :
              ~(h2 = h /\ d2 = d /\ n2 = n) =>
                Put(fs, h, <<d, n>>, data)[h2][d2][n2] = fs[h2][d2][n2]
<1>1. Holding(data) \in Entries /\ Holding(data).kind = "file" /\ Holding(data).data = data
  BY DEF Holding, Entries, Kinds, Plain
<1>. DEFINE e == Holding(data)
<1>2. e \in Entries
  BY <1>1
<1>. HIDE DEF e
<1>. DEFINE r == Put(fs, h, <<d, n>>, data)
<1>3. r = [fs EXCEPT ![h][d][n] = e]
  BY DEF Put, e
<1>. HIDE DEF r
<1>4. [fs EXCEPT ![h][d][n] = e] \in FileTypes
  BY <1>2 DEF FileTypes
<1>5. /\ [fs EXCEPT ![h][d][n] = e][h][d][n] = e
      /\ \A h2 \in Hosts, d2 \in Dirs, n2 \in Names :
           ~(h2 = h /\ d2 = d /\ n2 = n) =>
             [fs EXCEPT ![h][d][n] = e][h2][d2][n2] = fs[h2][d2][n2]
  BY DEF FileTypes
<1>6. e = Holding(data)
  BY DEF e
<1>7. /\ r \in FileTypes
      /\ r[h][d][n] = e
      /\ \A h2 \in Hosts, d2 \in Dirs, n2 \in Names :
           ~(h2 = h /\ d2 = d /\ n2 = n) => r[h2][d2][n2] = fs[h2][d2][n2]
  BY <1>3, <1>4, <1>5
<1>. QED
  BY <1>6, <1>7 DEF r

\* An entry is a kind and data.
LEMMA EntryTypes ==
  ASSUME TypeOK, NEW h \in Hosts, NEW d \in Dirs, NEW n \in Names
  PROVE  /\ files[h][d][n] \in Entries
         /\ files[h][d][n].kind \in Kinds /\ files[h][d][n].data \in Seq(Words)
         /\ Len(files[h][d][n].data) \in Nat
         /\ cwd[h] \in Dirs
         /\ Entry(h, n) = files[h][cwd[h]][n]
<1>1. files[h][d][n] \in Entries /\ cwd[h] \in Dirs
  BY DEF TypeOK
<1>2. files[h][d][n].kind \in Kinds /\ files[h][d][n].data \in Seq(Words)
  BY <1>1 DEF Entries
<1>. QED
  BY <1>1, <1>2 DEF Entry

\* The step that stores a file.
LEMMA FilePut ==
  ASSUME Shape, NEW h \in Hosts, NEW d \in Dirs, NEW n \in Names, NEW data \in Seq(Words),
         files' = Put(files, h, <<d, n>>, data)
  PROVE  /\ files' \in FileTypes
         /\ files'[h][d][n].kind = "file" /\ files'[h][d][n].data = data
         /\ \A h2 \in Hosts, d2 \in Dirs, n2 \in Names :
              ~(h2 = h /\ d2 = d /\ n2 = n) => files'[h2][d2][n2] = files[h2][d2][n2]
         /\ h = "client" \/ Len(data) <= MaxSize => FilesOK'
         /\ Sized(h) /\ Len(data) <= MaxSize => Sized(h)'
         /\ h = "server" /\ Sized("client") => Sized("client")'
<1>1. files \in FileTypes /\ FilesOK
  BY DEF Shape, TypeOK, FileTypes
<1>2. /\ files' \in FileTypes
      /\ files'[h][d][n] = Holding(data)
      /\ \A h2 \in Hosts, d2 \in Dirs, n2 \in Names :
           ~(h2 = h /\ d2 = d /\ n2 = n) => files'[h2][d2][n2] = files[h2][d2][n2]
  BY <1>1, PutFile
<1>3. files'[h][d][n].kind = "file" /\ files'[h][d][n].data = data
  BY <1>2 DEF Holding
<1>4. ASSUME NEW h2 \in Hosts, Sized(h2), h2 = h => Len(data) <= MaxSize
      PROVE  Sized(h2)'
  BY <1>2, <1>3, <1>4 DEF Sized
<1>5. ASSUME NEW h2 \in Hosts, NEW d2 \in Dirs, NEW n2 \in Names,
             files'[h2][d2][n2].kind = "dir"
      PROVE  n2 \in Dirs
  BY <1>1, <1>2, <1>3, <1>5 DEF FilesOK
<1>6. h = "client" \/ Len(data) <= MaxSize => FilesOK'
  <2>1. "server" \in Hosts /\ Sized("server")
    BY <1>1 DEF Hosts, FilesOK
  <2>2. ASSUME h = "client" \/ Len(data) <= MaxSize
        PROVE  Sized("server")'
    BY <1>4, <2>1, <2>2
  <2>. QED
    BY <1>5, <2>2 DEF FilesOK
<1>7. "client" \in Hosts
  BY DEF Hosts
<1>. QED
  BY <1>2, <1>3, <1>4, <1>6, <1>7

\* A reply follows what is on its way.
LEMMA Replied ==
  ASSUME Shape, NEW m \in Stream, Framed(m), Reply(m)
  PROVE  /\ toClient' \in Stream /\ Framed(toClient')
         /\ toClient = << >> => toClient' = m
<1>1. toClient \in Stream /\ Framed(toClient) /\ toClient' = toClient \o m
  BY DEF Shape, TypeOK, Stream, StreamsOK, Reply
<1>2. toClient' \in Stream
  BY <1>1, JoinElements
<1>3. Framed(toClient')
  BY <1>1, JoinedStream
<1>4. << >> \o m = m
  BY DEF Stream
<1>. QED
  BY <1>1, <1>2, <1>3, <1>4

\* A reply of one header.
LEMMA Said ==
  ASSUME Shape, NEW type \in {OK, FILE_ERR, UNKWN_ERR}, NEW c \in {0, 1, 2, 5}, Says(type, c)
  PROVE  /\ toClient' \in Stream /\ Framed(toClient')
         /\ toClient = << >> => /\ toClient' # << >> /\ Len(toClient') = 1
                                /\ toClient'[1].type = type /\ toClient'[1].code = c
<1>. DEFINE h == Hdr(type, c, 0)
            m == <<h>>
<1>1. h \in Headers /\ h.type = type /\ h.code = c /\ h.length = 0
  BY DEF Hdr, Headers
<1>. HIDE DEF h
<1>2. m \in Stream /\ Len(m) = 1 /\ m[1] = h /\ m # << >>
  BY <1>1 DEF Stream
<1>3. Framed(m)
  <2>. DEFINE d == << >>
  <2>1. d \in Seq(Words) /\ Len(d) = 0
    OBVIOUS
  <2>2. h.length <= Len(d)
    BY <1>1, <2>1
  <2>3. <<h>> \o d = m
    OBVIOUS
  <2>. HIDE DEF d, m
  <2>4. Framed(<<h>> \o d)
    BY <1>1, <2>1, <2>2, Message
  <2>. QED
    BY <2>3, <2>4
<1>4. Reply(m)
  BY DEF Says, h
<1>. HIDE DEF m
<1>5. toClient' \in Stream /\ Framed(toClient') /\ (toClient = << >> => toClient' = m)
  BY <1>2, <1>3, <1>4, Replied
<1>. QED
  BY <1>1, <1>2, <1>5

\* What the client takes is gone, and the rest is framed.
LEMMA TakenReply ==
  ASSUME Shape, toClient # << >>, NEW n \in Nat, Took(n)
  PROVE  /\ toClient' \in Stream /\ Framed(toClient')
         /\ toClient' = After(toClient, n)
         /\ Len(toClient) <= n => toClient' = << >>
<1>1. toClient \in Stream /\ Framed(toClient) /\ toClient' = After(toClient, n)
  BY DEF Shape, TypeOK, Stream, StreamsOK, Took
<1>2. /\ toClient' \in Stream
      /\ Len(toClient') = IF n <= Len(toClient) THEN Len(toClient) - n ELSE 0
  BY <1>1, AfterElements
<1>3. Framed(toClient')
  BY <1>1, RestOfStream
<1>4. ASSUME Len(toClient) <= n PROVE toClient' = << >>
  <2>1. Len(toClient) \in Nat
    BY <1>1, Elements
  <2>2. Len(toClient') = 0
    BY <1>2, <1>4, <2>1
  <2>. QED
    BY <1>2, <2>2, EmptySeq DEF Stream
<1>. QED
  BY <1>1, <1>2, <1>3, <1>4

\* What the client finds.
LEMMA HeadOfReplies ==
  ASSUME Shape, toClient # << >>
  PROVE  /\ toClient \in Stream /\ Next1 = toClient[1]
         /\ Next1 \in Words \cup Headers /\ Next1.code \in {0, 1, 2, 5}
         /\ IsHeader(Next1) => Next1.length \in Nat
         /\ Next1.type = DATA => IsHeader(Next1) /\ Next1.length \in Nat
<1>1. toClient \in Stream
  BY DEF Shape, TypeOK, Stream
<1>2. Next1 = toClient[1] /\ 1 \in 1 .. Len(toClient)
  BY <1>1, EmptySeq DEF Stream, Next1
<1>3. Next1 \in Words \cup Headers
  BY <1>1, <1>2, Elements
<1>4. IsHeader(Next1) => Next1.length \in Nat /\ Next1.code \in {0, 1, 2, 5}
  BY <1>3, HeaderLength
<1>5. ~IsHeader(Next1) => Next1.code \in {0, 1, 2, 5}
  BY <1>3, WordsAreData DEF Headers
<1>6. Next1.type = DATA => IsHeader(Next1)
  BY <1>3, HeaderTypes
<1>. QED
  BY <1>1, <1>2, <1>3, <1>4, <1>5, <1>6

\* In a stream of packets, what comes next is one.
LEMMA HeadOfPackets ==
  ASSUME NEW q \in Stream, Packeted(q), q # << >>
  PROVE  /\ Head(q) = q[1] /\ IsHeader(q[1]) /\ q[1].type = DATA /\ q[1].length \in Nat
         /\ q[1].code \in {0, 1}
         /\ q[1].code = 0 => After(q, 1 + q[1].length) = << >>
         /\ Packeted(After(q, 1 + q[1].length))
         /\ DataIn(q) = Payload(q) \o DataIn(After(q, 1 + q[1].length))
         /\ Payload(q) \in Seq(Words)
         /\ After(q, 1 + q[1].length) \in Stream
<1>1. /\ Framed(q) /\ Aligned(q) /\ DataOnly(q) /\ Marked(q)
      /\ 1 \in 1 .. Len(q) /\ Len(q) \in Nat
  BY EmptySeq DEF Packeted, Stream
<1>2. IsHeader(q[1])
  BY <1>1 DEF Aligned
<1>3. q[1].type = DATA /\ q[1].code \in {0, 1} /\ (q[1].code = 0 => 1 + q[1].length = Len(q))
  BY <1>1, <1>2 DEF DataOnly, Marked
<1>4. q[1].length \in Nat /\ Aligned(After(q, 1 + q[1].length))
  BY <1>1, RestAligned
<1>5. PICK n \in Nat : n = 1 + q[1].length
  BY <1>4
<1>6. After(q, n) \in Stream /\ Len(After(q, n)) = IF n <= Len(q) THEN Len(q) - n ELSE 0
  BY AfterElements
<1>7. Framed(After(q, n)) /\ DataOnly(After(q, n)) /\ Marked(After(q, n))
  BY <1>1, RestOfStream
<1>8. q[1].code = 0 => After(q, n) = << >>
  BY <1>1, <1>3, <1>5, <1>6, EmptySeq DEF Stream
<1>9. /\ Head(q) = q[1] /\ Payload(q) \in Seq(Words)
      /\ DataIn(q) = Payload(q) \o DataIn(After(q, 1 + q[1].length))
  BY <1>1, <1>2, TakenPacket
<1>. QED
  BY <1>2, <1>3, <1>4, <1>5, <1>6, <1>7, <1>8, <1>9 DEF Packeted

\* An empty stream is anything.
LEMMA NothingThere ==
  /\ << >> \in Stream /\ Framed(<< >>) /\ Aligned(<< >>) /\ DataOnly(<< >>)
  /\ Marked(<< >>) /\ Continued(<< >>) /\ Asking(<< >>) /\ Packeted(<< >>)
BY DEF Stream, Framed, Aligned, DataOnly, Marked, Continued, Asking, Packeted

-----------------------------------------------------------------------------
\* A request has a name behind it, or none.
ArgumentOf(op, d) ==
  \/ Len(d) = 0 /\ op \notin {"get", "put"}
  \/ Len(d) = 1 /\ op \notin {"quit", "pwd"} /\ \E n \in Names : d[1] = Word(n)

\* A request goes behind what is on its way.
LEMMA RequestSent ==
  ASSUME Shape, NEW op \in Replies, NEW h \in Headers, NEW d \in Seq(Words),
         h.type = TypeOf(op), h.length = Len(d),
         ArgumentOf(op, d),
         toServer' = toServer \o (<<h>> \o d)
  PROVE  /\ toServer' \in Stream
         /\ Framed(toServer') /\ Aligned(toServer') /\ Asking(toServer')
         /\ DataOnly(toServer) =>
              \E k \in 1 .. Len(toServer') :
                /\ toServer'[k] = h
                /\ k + h.length = Len(toServer')
                /\ \A i \in 1 .. Len(toServer') :
                     IsHeader(toServer'[i]) => i = k \/ toServer'[i].type = DATA
                /\ Len(d) = 1 => toServer'[k + 1] = d[1]
<1>. DEFINE m == <<h>> \o d
<1>1. /\ m \in Stream /\ Len(m) = 1 + Len(d) /\ m[1] = h
      /\ \A i \in 1 .. Len(d) : m[1 + i] = d[i]
      /\ IsHeader(h) /\ h.length \in Nat
      /\ \A i \in 2 .. 1 + Len(d) : ~IsHeader(m[i])
  BY MessageElements
<1>2. Framed(m) /\ Aligned(m)
  <2>1. h.length <= Len(d)
    BY <1>1
  <2>. QED
    BY <2>1, Message
<1>. HIDE DEF m
<1>3. toServer \in Stream /\ Framed(toServer) /\ Aligned(toServer) /\ Asking(toServer)
  BY DEF Shape, TypeOK, StreamsOK, Stream
<1>4. op # "get" /\ op # "put" => h.type \in Requests \ {RETR, STOR}
  BY TypesOfReplies, CodesDiffer DEF Replies
<1>5. op # "quit" /\ op # "pwd" => h.type \in Requests \ {QUIT, PWD}
  BY TypesOfReplies, CodesDiffer DEF Replies
<1>6. Len(d) \in Nat
  OBVIOUS
<1>7. Asking(m)
  <2>1. \/ Len(d) = 0 /\ op # "get" /\ op # "put"
        \/ Len(d) = 1 /\ op # "quit" /\ op # "pwd" /\ \E n \in Names : d[1] = Word(n)
    BY DEF ArgumentOf
  <2>2. \A i \in 1 .. Len(m) : IsHeader(m[i]) => i = 1
    BY <1>1, <1>6
  <2>3. CASE Len(d) = 0 /\ op # "get" /\ op # "put"
    BY <1>1, <1>4, <2>2, <2>3 DEF Asking
  <2>4. CASE Len(d) = 1 /\ op # "quit" /\ op # "pwd" /\ \E n \in Names : d[1] = Word(n)
    <3>1. m[1 + 1] = d[1] /\ h.length = 1
      BY <1>1, <2>4
    <3>. QED
      BY <1>1, <1>5, <2>2, <2>4, <3>1 DEF Asking
  <2>. QED
    BY <2>1, <2>3, <2>4
<1>8. toServer' = toServer \o m
  BY DEF m
<1>9. /\ toServer' \in Stream /\ Len(toServer') = Len(toServer) + Len(m)
      /\ \A i \in 1 .. Len(toServer) : toServer'[i] = toServer[i]
      /\ \A i \in 1 .. Len(m) : toServer'[Len(toServer) + i] = m[i]
  <2>1. /\ toServer \o m \in Stream /\ Len(toServer \o m) = Len(toServer) + Len(m)
        /\ \A i \in 1 .. Len(toServer) : (toServer \o m)[i] = toServer[i]
        /\ \A i \in 1 .. Len(m) : (toServer \o m)[Len(toServer) + i] = m[i]
    BY <1>1, <1>3, JoinElements
  <2>. QED
    BY <1>8, <2>1
<1>10. Framed(toServer') /\ Aligned(toServer') /\ Asking(toServer')
  BY <1>1, <1>2, <1>3, <1>7, <1>8, JoinedStream
<1>11. Len(toServer) \in Nat
  BY <1>3, Elements
<1>12. ASSUME DataOnly(toServer)
       PROVE  \E k \in 1 .. Len(toServer') :
                /\ toServer'[k] = h
                /\ k + h.length = Len(toServer')
                /\ \A i \in 1 .. Len(toServer') :
                     IsHeader(toServer'[i]) => i = k \/ toServer'[i].type = DATA
                /\ Len(d) = 1 => toServer'[k + 1] = d[1]
  <2>1. PICK k \in Nat : k = Len(toServer) + 1
    BY <1>11
  <2>2. 1 \in 1 .. Len(m) /\ k \in 1 .. Len(toServer') /\ toServer'[k] = h
    BY <1>1, <1>6, <1>9, <1>11, <2>1
  <2>3. k + h.length = Len(toServer')
    <3>. DEFINE l == h.length
    <3>1. l = Len(d)
      OBVIOUS
    <3>. HIDE DEF l
    <3>2. k + l = Len(toServer')
      BY <1>1, <1>6, <1>9, <1>11, <2>1, <3>1
    <3>. QED
      BY <3>2 DEF l
  <2>4. Len(d) = 1 => toServer'[k + 1] = d[1]
    <3>1. ASSUME Len(d) = 1
          PROVE  2 \in 1 .. Len(m) /\ m[1 + 1] = d[1] /\ k + 1 = Len(toServer) + 2
      BY <1>1, <1>11, <2>1, <3>1
    <3>2. ASSUME Len(d) = 1 PROVE toServer'[Len(toServer) + 2] = m[2]
      BY <1>9, <3>1, <3>2
    <3>3. ASSUME Len(d) = 1 PROVE toServer'[k + 1] = m[1 + 1]
      <4>1. toServer'[k + 1] = toServer'[Len(toServer) + 2]
        BY <3>1, <3>3
      <4>2. 1 + 1 = 2
        OBVIOUS
      <4>3. m[1 + 1] = m[2]
        BY <4>2
      <4>. QED
        BY <3>2, <3>3, <4>1, <4>3
    <3>. QED
      BY <3>1, <3>3
  <2>5. ASSUME NEW i \in 1 .. Len(toServer'), IsHeader(toServer'[i]), i # k
        PROVE  toServer'[i].type = DATA
    <3>1. CASE i <= Len(toServer)
      <4>1. i \in 1 .. Len(toServer) /\ toServer'[i] = toServer[i]
        BY <1>9, <1>11, <3>1
      <4>. QED
        BY <1>12, <2>5, <4>1 DEF DataOnly
    <3>2. CASE i > Len(toServer)
      <4>0. i \in Int
        BY <2>5
      <4>. DEFINE l == Len(toServer)
      <4>1. l \in Nat /\ i > l
        BY <1>11, <3>2
      <4>. HIDE DEF l
      <4>4. PICK j \in Nat : j = i - l
        BY <4>0, <4>1
      <4>. USE DEF l
      <4>2. j \in 2 .. 1 + Len(d) /\ j \in 1 .. Len(m) /\ i = Len(toServer) + j
        BY <1>1, <1>6, <1>9, <1>11, <2>1, <2>5, <3>2, <4>4
      <4>3. toServer'[i] = m[j]
        BY <1>9, <4>2
      <4>. QED
        BY <1>1, <2>5, <4>2, <4>3
    <3>. QED
      BY <1>11, <3>1, <3>2
  <2>. QED
    BY <2>2, <2>3, <2>4, <2>5
<1>. QED
  BY <1>9, <1>10, <1>12

\* What the user types is a request.
LEMMA WhatIsAsked ==
  ASSUME Shape, Ask
  PROVE  \E op \in Replies, from, to \in Names \cup {Junk}, h \in Headers, d \in Seq(Words) :
           /\ Typed(op, from, to, op)
           /\ h.type = TypeOf(op) /\ h.length = Len(d) /\ h.code \in {0, code}
           /\ ArgumentOf(op, d)
           /\ op \in {"get", "put"} => /\ from \in Names /\ to \in Names
                                       /\ Len(d) = 1
                                       /\ d[1] = Word(IF op = "get" THEN from ELSE to)
           /\ toServer' = toServer \o (<<h>> \o d)
<1>. DEFINE Sent(op, from, to, h, d) ==
           /\ Typed(op, from, to, op)
           /\ h.type = TypeOf(op) /\ h.length = Len(d) /\ h.code \in {0, code}
           /\ ArgumentOf(op, d)
           /\ op \in {"get", "put"} => /\ from \in Names /\ to \in Names
                                       /\ Len(d) = 1
                                       /\ d[1] = Word(IF op = "get" THEN from ELSE to)
           /\ toServer' = toServer \o (<<h>> \o d)
<1>. DEFINE Done == \E op \in Replies, from, to \in Names \cup {Junk},
                       h \in Headers, d \in Seq(Words) : Sent(op, from, to, h, d)
<1>. SUFFICES Done
  OBVIOUS
<1>0. toServer \in Seq(Words \cup Headers) /\ code \in {0, 1, 2, 5}
  BY DEF Shape, TypeOK
<1>1. ASSUME NEW op \in Replies \ {"get", "put"}, NEW from \in Names \cup {Junk},
             Typed(op, from, Junk, op), Request(TypeOf(op))
      PROVE  \E h \in Headers, d \in Seq(Words) : Sent(op, from, Junk, h, d)
  <2>. DEFINE h == Hdr(TypeOf(op), 0, 0)
              d == << >>
  <2>1. h \in Headers /\ h.type = TypeOf(op) /\ h.length = 0 /\ h.code = 0
    BY TypesOfReplies, CodesDiffer DEF Hdr, Headers, Replies
  <2>2. d \in Seq(Words) /\ Len(d) = 0 /\ <<h>> \o d = <<h>>
    OBVIOUS
  <2>3. toServer' = Append(toServer, h)
    BY <1>1 DEF Request
  <2>. HIDE DEF h
  <2>4. toServer' = toServer \o <<h>>
    BY <1>0, <2>1, <2>3
  <2>. HIDE DEF d
  <2>6. ArgumentOf(op, d)
    BY <1>1, <2>2 DEF ArgumentOf
  <2>5. Sent(op, from, Junk, h, d)
    BY <1>1, <2>1, <2>2, <2>4, <2>6
  <2>. QED
    BY <2>1, <2>2, <2>5
<1>2. ASSUME NEW op \in Replies \ {"quit", "pwd"}, NEW from \in Names \cup {Junk}, NEW to \in Names \cup {Junk},
             NEW n \in Names, Typed(op, from, to, op), RequestOf(TypeOf(op), n),
             op \in {"get", "put"} => /\ from \in Names /\ to \in Names
                                      /\ n = IF op = "get" THEN from ELSE to
      PROVE  \E h \in Headers, d \in Seq(Words) : Sent(op, from, to, h, d)
  <2>. DEFINE h == Hdr(TypeOf(op), code, 1)
              w == Word(n)
              d == <<w>>
  <2>1. h \in Headers /\ h.type = TypeOf(op) /\ h.length = 1 /\ h.code = code
    BY <1>0, TypesOfReplies, CodesDiffer DEF Hdr, Headers, Replies
  <2>2. w \in Words
    BY DEF Words
  <2>3. toServer' = toServer \o <<h, w>>
    BY <1>2 DEF RequestOf
  <2>. HIDE DEF h
  <2>4. \E k \in Names : w = Word(k)
    OBVIOUS
  <2>5. op \in {"get", "put"} => w = Word(IF op = "get" THEN from ELSE to)
    BY <1>2
  <2>. HIDE DEF w
  <2>6. d \in Seq(Words) /\ Len(d) = 1 /\ d[1] = w
    BY <2>2
  <2>8. <<h>> \o d = <<h, w>>
    <3>. DEFINE u == <<h>> \o d
                v == <<h, w>>
    <3>1. d \in Seq(Words) /\ Len(d) = 1 /\ d[1] = w
      BY <2>2
    <3>2. v \in Stream /\ Len(v) = 2 /\ v[1] = h /\ v[2] = w
      BY <2>1, <2>2 DEF Stream
    <3>. HIDE DEF d, v
    <3>3. /\ u \in Stream /\ Len(u) = 1 + Len(d) /\ u[1] = h
          /\ \A i \in 1 .. Len(d) : u[1 + i] = d[i]
      BY <2>1, <3>1, MessageElements
    <3>. HIDE DEF u
    <3>4. 1 + 1 = 2 /\ 1 \in 1 .. Len(d)
      BY <3>1
    <3>5. u[2] = w
      BY <3>1, <3>3, <3>4
    <3>6. Len(u) = 2 /\ \A i \in 1 .. Len(u) : u[i] = v[i]
      BY <3>1, <3>2, <3>3, <3>5
    <3>7. u = v
      BY <3>2, <3>3, <3>6, SeqEqual DEF Stream
    <3>. QED
      BY <3>7 DEF u, v
  <2>. HIDE DEF d
  <2>9. ArgumentOf(op, d)
    BY <1>2, <2>4, <2>6 DEF ArgumentOf
  <2>7. Sent(op, from, to, h, d)
    BY <1>2, <2>1, <2>3, <2>4, <2>5, <2>6, <2>8, <2>9
  <2>. QED
    BY <2>1, <2>6, <2>7
<1>. HIDE DEF Sent
<1>3. CASE quit_proc
  <2>1. Typed("quit", Junk, Junk, "quit") /\ Request(TypeOf("quit"))
    BY <1>3, TypesOfReplies, CodesDiffer DEF quit_proc
  <2>. QED
    BY <1>1, <2>1 DEF Replies
<1>4. CASE pwd_proc
  <2>1. Typed("pwd", Junk, Junk, "pwd") /\ Request(TypeOf("pwd"))
    BY <1>4, TypesOfReplies, CodesDiffer DEF pwd_proc
  <2>. QED
    BY <1>1, <2>1 DEF Replies
<1>5. CASE cd_proc
  <2>1. TypeOf("cd") = CWD /\ "cd" \in Replies
    BY TypesOfReplies, CodesDiffer DEF Replies
  <2>. QED
    BY <1>1, <1>2, <1>5, <2>1 DEF cd_proc
<1>6. CASE dir_proc
  <2>1. TypeOf("dir") = LIST /\ "dir" \in Replies
    BY TypesOfReplies, CodesDiffer DEF Replies
  <2>. QED
    BY <1>1, <1>2, <1>6, <2>1 DEF dir_proc
<1>7. CASE get_proc
  <2>1. TypeOf("get") = RETR /\ "get" \in Replies
    BY TypesOfReplies, CodesDiffer DEF Replies
  <2>2. PICK pair \in Copied :
          Typed("get", pair[1], pair[2], "get") /\ RequestOf(RETR, pair[1])
    BY <1>7 DEF get_proc
  <2>3. pair[1] \in Names /\ pair[2] \in Names
    BY FtpAssumption
  <2>. QED
    BY <1>2, <2>1, <2>2, <2>3
<1>8. CASE put_proc
  <2>1. TypeOf("put") = STOR /\ "put" \in Replies
    BY TypesOfReplies, CodesDiffer DEF Replies
  <2>2. PICK pair \in Copied :
          Typed("put", pair[1], pair[2], "put") /\ RequestOf(STOR, pair[2])
    BY <1>8 DEF put_proc
  <2>3. pair[1] \in Names /\ pair[2] \in Names
    BY FtpAssumption
  <2>. QED
    BY <1>2, <2>1, <2>2, <2>3
<1>. QED
  BY <1>3, <1>4, <1>5, <1>6, <1>7, <1>8 DEF Ask

-----------------------------------------------------------------------------
LEMMA InvParts ==
  ASSUME Inv
  PROVE  Shape /\ TypeOK /\ CommandOK /\ StreamsOK /\ FilesOK
         /\ Conversation /\ Getting /\ Putting
BY DEF Inv, Shape

LEMMA AskKeeps ==
  ASSUME Inv, Ask
  PROVE  Inv'
<1>1. Shape /\ TypeOK /\ StreamsOK /\ FilesOK /\ Conversation /\ Putting
  BY InvParts
<1>2. UNCHANGED <<toClient, files, cwd, code, astray, serving, hdr, fp>>
  BY DEF Ask, serverVars
<1>3. PICK op \in Replies, from \in Names \cup {Junk}, to \in Names \cup {Junk},
           h \in Headers, d \in Seq(Words) :
        /\ Typed(op, from, to, op)
        /\ h.type = TypeOf(op) /\ h.length = Len(d) /\ h.code \in {0, code}
        /\ ArgumentOf(op, d)
        /\ op \in {"get", "put"} => /\ from \in Names /\ to \in Names
                                    /\ Len(d) = 1
                                    /\ d[1] = Word(IF op = "get" THEN from ELSE to)
        /\ toServer' = toServer \o (<<h>> \o d)
  BY <1>1, WhatIsAsked
<1>4. cpc = "prompt" /\ cpc' = op /\ cmd' = <<op, from, to>> /\ at' = -1
  BY <1>3 DEF Typed
<1>5. /\ toServer' \in Stream
      /\ Framed(toServer') /\ Aligned(toServer') /\ Asking(toServer')
      /\ DataOnly(toServer) =>
           \E k \in 1 .. Len(toServer') :
             /\ toServer'[k] = h
             /\ k + h.length = Len(toServer')
             /\ \A i \in 1 .. Len(toServer') :
                  IsHeader(toServer'[i]) => i = k \/ toServer'[i].type = DATA
             /\ Len(d) = 1 => toServer'[k + 1] = d[1]
  <2>1. /\ Shape /\ h.type = TypeOf(op) /\ h.length = Len(d)
        /\ ArgumentOf(op, d)
        /\ toServer' = toServer \o (<<h>> \o d)
    BY <1>1, <1>3
  <2>. QED
    BY <2>1, RequestSent
<1>6. TypeOK'
  <2>1. op \in Waits /\ op \in Commands
    BY DEF Replies, Waits, Commands
  <2>2. cmd' \in Commands \X (Names \cup {Junk}) \X (Names \cup {Junk})
    BY <1>4, <2>1
  <2>. QED
    BY <1>1, <1>2, <1>4, <1>5, <2>1, <2>2 DEF TypeOK, Stream
<1>7. CommandOK'
  BY <1>3, <1>4 DEF CommandOK, Replies
<1>8. StreamsOK'
  BY <1>1, <1>2, <1>5 DEF StreamsOK
<1>9. FilesOK'
  BY <1>1, <1>2 DEF FilesOK, Sized
<1>10. ASSUME Synced'
       PROVE  /\ Synced /\ toClient' = << >> /\ code \in {0, 1}
              /\ DataOnly(toServer) /\ Sized("client")'
  <2>1. Synced
    BY <1>2, <1>4, <1>10 DEF Synced
  <2>2. toClient = << >> /\ code \in {0, 1} /\ DataOnly(toServer) /\ Sized("client")
    BY <1>1, <1>4, <2>1 DEF Conversation, Putting
  <2>. QED
    BY <1>2, <2>1, <2>2 DEF Sized
<1>11. Conversation'
  <2>1. SUFFICES ASSUME Synced'
                 PROVE  /\ code' \in {0, 1}
                        /\ toClient' = << >> /\ Asked(toServer)'
    BY <1>4, <2>1 DEF Conversation, Replies
  <2>2. PICK k \in 1 .. Len(toServer') :
          /\ toServer'[k] = h
          /\ k + h.length = Len(toServer')
          /\ \A i \in 1 .. Len(toServer') :
               IsHeader(toServer'[i]) => i = k \/ toServer'[i].type = DATA
          /\ Len(d) = 1 => toServer'[k + 1] = d[1]
    BY <1>5, <1>10, <2>1
  <2>3. toServer'[k].type = TypeOf(op) /\ k + toServer'[k].length = Len(toServer')
    BY <1>3, <2>2
  <2>4. ASSUME op \in {"get", "put"}
        PROVE  toServer'[k].length = 1 /\ toServer'[k + 1] = Word(NameSent')
    <3>1. NameSent' = IF op = "get" THEN from ELSE to
      BY <1>4 DEF NameSent
    <3>. QED
      BY <1>3, <2>2, <2>4, <3>1
  <2>5. toServer'[k].code \in {0, 1}
    BY <1>3, <1>10, <2>1, <2>2
  <2>6. Asked(toServer)'
    BY <1>4, <2>2, <2>3, <2>4, <2>5 DEF Asked
  <2>. QED
    BY <1>2, <1>10, <2>1, <2>6
<1>12. Getting'
  BY <1>4, <1>10 DEF Getting, Replies
<1>13. Putting'
  BY <1>4, <1>10 DEF Putting
<1>. QED
  BY <1>6, <1>7, <1>8, <1>9, <1>11, <1>12, <1>13 DEF Inv, Shape

LEMMA LcdKeeps ==
  ASSUME Inv, lcd_proc
  PROVE  Inv'
<1>1. TypeOK /\ CommandOK /\ StreamsOK /\ FilesOK /\ Conversation /\ Putting
  BY InvParts
<1>2. /\ cpc = "prompt" /\ cmd' = NoCommand
      /\ UNCHANGED <<toServer, toClient, files, cpc, code, at, astray, serving, hdr, fp>>
  BY DEF lcd_proc, serverVars
<1>3. cwd' \in [Hosts -> Dirs]
  <2>1. PICK d \in {Home} \cup UNION {Leads("client", n) : n \in Names} :
          cwd' = [cwd EXCEPT !["client"] = d]
    BY DEF lcd_proc
  <2>2. Home \in Dirs /\ \A n \in Names : Leads("client", n) \subseteq Dirs
    BY FtpAssumption DEF Leads
  <2>3. d \in Dirs
    BY <2>2
  <2>. QED
    BY <1>1, <2>1, <2>3 DEF TypeOK
<1>4. TypeOK'
  <2>1. NoCommand \in Commands \X (Names \cup {Junk}) \X (Names \cup {Junk})
    BY DEF NoCommand, Commands
  <2>. QED
    BY <1>1, <1>2, <1>3, <2>1 DEF TypeOK
<1>5. cmd'[1] = "none"
  BY <1>2 DEF NoCommand
<1>6. CommandOK' /\ StreamsOK' /\ FilesOK'
  BY <1>1, <1>2, <1>5 DEF CommandOK, StreamsOK, FilesOK, Sized, Replies
<1>7. Conversation'
  BY <1>1, <1>2 DEF Conversation, Synced, Replies
<1>8. Getting'
  BY <1>2 DEF Getting
<1>9. Putting'
  BY <1>1, <1>2, <1>5 DEF Putting, Sized, Synced
<1>. QED
  BY <1>4, <1>6, <1>7, <1>8, <1>9 DEF Inv, Shape

LEMMA KillKeeps ==
  ASSUME Inv, Kill
  PROVE  Inv'
<1>1. TypeOK /\ CommandOK /\ StreamsOK /\ FilesOK
  BY InvParts
<1>2. /\ cpc' = "gone"
      /\ UNCHANGED <<toServer, toClient, files, cwd, cmd, code, at, astray, serving, hdr, fp>>
  BY DEF Kill, serverVars
<1>3. TypeOK'
  BY <1>1, <1>2 DEF TypeOK, Waits
<1>4. CommandOK'
  BY <1>1, <1>2 DEF CommandOK, Replies
<1>5. StreamsOK' /\ FilesOK'
  BY <1>1, <1>2 DEF StreamsOK, FilesOK, Sized
<1>6. ~Synced'
  BY <1>2 DEF Synced
<1>. QED
  BY <1>3, <1>4, <1>5, <1>6 DEF Inv, Shape, Conversation, Getting, Putting

LEMMA StutterKeeps ==
  ASSUME Inv, UNCHANGED vars
  PROVE  Inv'
<1>1. /\ TypeOK /\ CommandOK /\ StreamsOK /\ FilesOK
      /\ Conversation /\ Getting /\ Putting
  BY InvParts
<1>2. UNCHANGED <<toServer, toClient, files, cwd, cpc, cmd, code, at, astray, serving, hdr, fp>>
  BY DEF vars, clientVars, serverVars
<1>3. TypeOK' /\ CommandOK' /\ StreamsOK' /\ FilesOK'
  BY <1>1, <1>2 DEF TypeOK, CommandOK, StreamsOK, FilesOK, Sized
<1>4. Conversation'
  BY <1>1, <1>2 DEF Conversation, Synced, Asked, Answered, Packeted, NameSent
<1>5. Getting'
  BY <1>1, <1>2, Zenon DEF Getting, Synced, Fetched, Source, Entry
<1>6. Putting'
  BY <1>1, <1>2, Zenon DEF Putting, Synced, Sized, Stores, Target, Entry, Here
<1>. QED
  BY <1>3, <1>4, <1>5, <1>6 DEF Inv, Shape

LEMMA InitInv == Init => Inv
<1>. SUFFICES ASSUME Init PROVE Inv
  OBVIOUS
<1>1. /\ toServer = << >> /\ toClient = << >> /\ files \in InitFiles
      /\ cwd = [h \in Hosts |-> Top] /\ cpc = "prompt" /\ cmd = NoCommand
      /\ code = 0 /\ at = -1 /\ serving = TRUE /\ hdr = Word(Junk)
      /\ fp = NoFile /\ astray = FALSE
  BY DEF Init
<1>2. cmd[1] = "none"
  BY <1>1 DEF NoCommand
<1>3. TypeOK
  <2>1. files \in [Hosts -> [Dirs -> [Names -> Entries]]]
    BY <1>1, FilesAssumption
  <2>2. cmd \in Commands \X (Names \cup {Junk}) \X (Names \cup {Junk})
    BY <1>1 DEF NoCommand, Commands
  <2>3. hdr \in Words \cup Headers
    BY <1>1 DEF Words
  <2>4. cwd \in [Hosts -> Dirs]
    BY <1>1, FtpAssumption
  <2>5. /\ toServer \in Seq(Words \cup Headers) /\ toClient \in Seq(Words \cup Headers)
        /\ cpc \in Waits /\ code \in {0, 1, 2, 5} /\ at \in Nat \cup {-1}
        /\ serving \in BOOLEAN /\ astray \in BOOLEAN
    BY <1>1, EmptySeq DEF Waits
  <2>. QED
    BY <1>1, <2>1, <2>2, <2>3, <2>4, <2>5 DEF TypeOK
<1>4. \A h \in Hosts : Sized(h)
  BY <1>1, FilesAssumption DEF Sized
<1>5. FilesOK
  BY <1>1, <1>4, FilesAssumption DEF FilesOK, Hosts
<1>6. CommandOK /\ StreamsOK
  BY <1>1, <1>2, NothingThere DEF CommandOK, StreamsOK, Replies
<1>7. Conversation
  BY <1>1, NothingThere DEF Conversation, Replies
<1>8. Getting
  BY <1>1 DEF Getting
<1>9. Putting
  BY <1>1, <1>2, <1>4 DEF Putting, Hosts
<1>. QED
  BY <1>3, <1>5, <1>6, <1>7, <1>8, <1>9 DEF Inv, Shape

-----------------------------------------------------------------------------
\* What each step of the client leaves well formed.
Receiving == {"quit", "pwd", "cd", "dir", "listing", "get", "data", "put"}

LEMMA ReplyShape ==
  ASSUME Inv, cpc \in Receiving, ClientKeeps, NEW w, To(w),
         \/ w \in {"prompt", "gone"} \/ w = cpc
         \/ cpc = "dir" /\ w = "listing"
         \/ cpc = "get" /\ w = "data"
         \/ cpc = "put" /\ w = "send",
         toClient' \in Stream, Framed(toClient'),
         at' = IF w = "send" THEN 0 ELSE at,
         code' \in {0, 1, 2, 5}, astray' \in BOOLEAN,
         files' \in FileTypes, FilesOK'
  PROVE  Shape'
<1>1. TypeOK /\ CommandOK /\ StreamsOK
  BY InvParts
<1>2. /\ cpc' = w /\ cmd' = IF w \in {"prompt", "gone"} THEN NoCommand ELSE cmd
      /\ UNCHANGED <<toServer, cwd, serving, hdr, fp>>
  BY DEF To, ClientKeeps, serverVars
<1>3. NoCommand \in Commands \X (Names \cup {Junk}) \X (Names \cup {Junk}) /\ NoCommand[1] = "none"
  BY DEF NoCommand, Commands
<1>4. w \in Waits
  BY DEF Receiving, Waits
<1>5. at \in Nat \cup {-1} /\ cmd \in Commands \X (Names \cup {Junk}) \X (Names \cup {Junk})
  BY <1>1 DEF TypeOK
<1>6. cmd' \in Commands \X (Names \cup {Junk}) \X (Names \cup {Junk}) /\ at' \in Nat \cup {-1}
  BY <1>2, <1>3, <1>5
<1>7. TypeOK'
  BY <1>1, <1>2, <1>4, <1>6 DEF TypeOK, Stream, FileTypes
<1>8. CommandOK'
  <2>1. CASE w \in {"prompt", "gone"}
    BY <1>2, <1>3, <2>1 DEF CommandOK, Replies
  <2>2. CASE w = cpc
    BY <1>1, <1>2, <2>2 DEF CommandOK, Receiving, Replies
  <2>3. CASE \/ cpc = "dir" /\ w = "listing"
             \/ cpc = "get" /\ w = "data"
             \/ cpc = "put" /\ w = "send"
    <3>1. cmd' = cmd /\ cmd[1] = cpc
      BY <1>1, <1>2, <2>3 DEF CommandOK, Replies
    <3>. QED
      BY <1>1, <1>2, <2>3, <3>1 DEF CommandOK, Replies
  <2>. QED
    BY <2>1, <2>2, <2>3
<1>9. StreamsOK'
  BY <1>1, <1>2 DEF StreamsOK
<1>. QED
  BY <1>7, <1>8, <1>9 DEF Shape

\* In sync, the reply is there and nothing else is under way.
LEMMA SyncedReply ==
  ASSUME Inv, Synced, cpc \in Receiving, toClient # << >>
  PROVE  /\ toServer = << >> /\ DataOnly(toServer)
         /\ code \in {0, 1} /\ Sized("client")
         /\ cpc \in Replies => Answered(toClient)
         /\ cpc \in {"listing", "data"} => Packeted(toClient)
<1>1. Conversation /\ Putting
  BY InvParts
<1>2. cpc \in Replies \/ cpc \in {"listing", "data"}
  BY DEF Receiving, Replies
<1>3. toServer = << >>
  BY <1>1, <1>2 DEF Conversation
<1>4. DataOnly(toServer)
  BY <1>3, NothingThere
<1>5. code \in {0, 1} /\ Sized("client")
  BY <1>1 DEF Conversation, Putting
<1>. QED
  BY <1>1, <1>3, <1>4, <1>5 DEF Conversation

\* A step stays in sync, it does not get there.
LEMMA StaysSynced ==
  ASSUME Synced', cpc # "gone", astray => astray'
  PROVE  Synced
BY DEF Synced

\* The client prompts again, with nothing left unread.
LEMMA Prompts ==
  ASSUME cpc' \in {"prompt", "gone"}, cmd' = NoCommand,
         Synced' => /\ toClient' = << >> /\ DataOnly(toServer')
                    /\ code' \in {0, 1} /\ Sized("client")'
  PROVE  Conversation' /\ Getting' /\ Putting'
<1>1. cmd'[1] = "none"
  BY DEF NoCommand
<1>2. Conversation'
  BY DEF Conversation, Synced, Replies
<1>3. Getting'
  BY DEF Getting
<1>4. Putting'
  BY <1>1 DEF Putting
<1>. QED
  BY <1>2, <1>3, <1>4

LEMMA RecvQuitKeeps ==
  ASSUME Inv, RecvQuit
  PROVE  Inv'
<1>. DEFINE w == IF Next1.type = OK THEN "gone" ELSE "prompt"
<1>1. /\ Shape /\ TypeOK /\ FilesOK
      /\ cpc = "quit" /\ toClient # << >> /\ Took(1) /\ To(w) /\ ClientKeeps
      /\ UNCHANGED <<files, code, at, astray>>
  BY InvParts DEF RecvQuit, Reads
<1>2. toClient' \in Stream /\ Framed(toClient') /\ (Len(toClient) <= 1 => toClient' = << >>)
  BY <1>1, TakenReply
<1>3. files' \in FileTypes /\ FilesOK' /\ code' \in {0, 1, 2, 5} /\ astray' \in BOOLEAN
  BY <1>1 DEF TypeOK, FileTypes, FilesOK, Sized
<1>4. /\ w \in {"prompt", "gone"} /\ cpc' = w /\ cmd' = NoCommand
      /\ UNCHANGED toServer
  BY <1>1 DEF To, ClientKeeps
<1>5. Shape'
  <2>1. cpc \in Receiving /\ at' = IF w = "send" THEN 0 ELSE at
    BY <1>1, <1>4 DEF Receiving
  <2>. HIDE DEF w
  <2>. QED
    BY <1>1, <1>2, <1>3, <1>4, <2>1, ReplyShape
<1>. HIDE DEF w
<1>6. ASSUME Synced'
      PROVE  /\ toClient' = << >> /\ DataOnly(toServer')
             /\ code' \in {0, 1} /\ Sized("client")'
  <2>1. Synced /\ cpc \in Receiving /\ cpc \in Replies
    BY <1>1, <1>6, StaysSynced DEF Receiving, Replies
  <2>2. DataOnly(toServer) /\ code \in {0, 1} /\ Sized("client") /\ Answered(toClient)
    BY <1>1, <2>1, SyncedReply
  <2>3. Len(toClient) = 1
    BY <1>1, <2>2 DEF Answered
  <2>. QED
    BY <1>1, <1>2, <1>4, <2>2, <2>3 DEF Sized
<1>7. Conversation' /\ Getting' /\ Putting'
  BY <1>4, <1>6, Prompts
<1>. QED
  BY <1>5, <1>7 DEF Inv

LEMMA RecvPwdKeeps ==
  ASSUME Inv, RecvPwd
  PROVE  Inv'
<1>1. /\ Shape /\ TypeOK /\ FilesOK
      /\ cpc = "pwd" /\ toClient # << >> /\ Took(DATASIZE + 1) /\ To("prompt") /\ ClientKeeps
      /\ code' = Next1.code /\ UNCHANGED <<files, at, astray>>
  BY InvParts DEF RecvPwd, Reads
<1>2. /\ toClient' \in Stream /\ Framed(toClient')
      /\ Len(toClient) <= DATASIZE + 1 => toClient' = << >>
  <2>1. DATASIZE + 1 \in Nat
    BY FtpAssumption
  <2>. QED
    BY <1>1, <2>1, TakenReply
<1>3. code' \in {0, 1, 2, 5} /\ Next1 = toClient[1]
  BY <1>1, HeadOfReplies
<1>4. files' \in FileTypes /\ FilesOK' /\ astray' \in BOOLEAN
  BY <1>1 DEF TypeOK, FileTypes, FilesOK, Sized
<1>5. cpc' = "prompt" /\ cmd' = NoCommand /\ UNCHANGED toServer
  BY <1>1 DEF To, ClientKeeps
<1>6. Shape'
  <2>1. cpc \in Receiving /\ at' = IF "prompt" = "send" THEN 0 ELSE at
    BY <1>1 DEF Receiving
  <2>. QED
    BY <1>1, <1>2, <1>3, <1>4, <2>1, ReplyShape
<1>7. ASSUME Synced'
      PROVE  /\ toClient' = << >> /\ DataOnly(toServer')
             /\ code' \in {0, 1} /\ Sized("client")'
  <2>1. Synced /\ cpc \in Receiving /\ cpc \in Replies
    BY <1>1, <1>7, StaysSynced DEF Receiving, Replies
  <2>2. DataOnly(toServer) /\ Sized("client") /\ Answered(toClient)
    BY <1>1, <2>1, SyncedReply
  <2>3. Len(toClient) = DATASIZE + 1 /\ toClient[1].code = 0
    BY <1>1, <2>2 DEF Answered
  <2>4. Len(toClient) <= DATASIZE + 1
    BY <2>3, FtpAssumption
  <2>. QED
    BY <1>1, <1>2, <1>3, <1>5, <2>2, <2>3, <2>4 DEF Sized
<1>8. Conversation' /\ Getting' /\ Putting'
  BY <1>5, <1>7, Prompts
<1>. QED
  BY <1>6, <1>8 DEF Inv

LEMMA RecvCdKeeps ==
  ASSUME Inv, RecvCd
  PROVE  Inv'
<1>1. /\ Shape /\ TypeOK /\ FilesOK
      /\ cpc = "cd" /\ toClient # << >> /\ Took(1) /\ To("prompt") /\ ClientKeeps
      /\ UNCHANGED <<files, code, at, astray>>
  BY InvParts DEF RecvCd, Reads
<1>2. toClient' \in Stream /\ Framed(toClient') /\ (Len(toClient) <= 1 => toClient' = << >>)
  BY <1>1, TakenReply
<1>3. files' \in FileTypes /\ FilesOK' /\ code' \in {0, 1, 2, 5} /\ astray' \in BOOLEAN
  BY <1>1 DEF TypeOK, FileTypes, FilesOK, Sized
<1>4. cpc' = "prompt" /\ cmd' = NoCommand /\ UNCHANGED toServer
  BY <1>1 DEF To, ClientKeeps
<1>5. Shape'
  <2>1. cpc \in Receiving /\ at' = IF "prompt" = "send" THEN 0 ELSE at
    BY <1>1 DEF Receiving
  <2>. QED
    BY <1>1, <1>2, <1>3, <2>1, ReplyShape
<1>6. ASSUME Synced'
      PROVE  /\ toClient' = << >> /\ DataOnly(toServer')
             /\ code' \in {0, 1} /\ Sized("client")'
  <2>1. Synced /\ cpc \in Receiving /\ cpc \in Replies
    BY <1>1, <1>6, StaysSynced DEF Receiving, Replies
  <2>2. DataOnly(toServer) /\ code \in {0, 1} /\ Sized("client") /\ Answered(toClient)
    BY <1>1, <2>1, SyncedReply
  <2>3. Len(toClient) = 1
    BY <1>1, <2>2 DEF Answered
  <2>. QED
    BY <1>1, <1>2, <1>4, <2>2, <2>3 DEF Sized
<1>7. Conversation' /\ Getting' /\ Putting'
  BY <1>4, <1>6, Prompts
<1>. QED
  BY <1>5, <1>7 DEF Inv

LEMMA RecvDirKeeps ==
  ASSUME Inv, RecvDir
  PROVE  Inv'
<1>. DEFINE w == IF Next1.type = OK /\ Next1.code = 1 THEN "listing" ELSE "prompt"
<1>1. /\ Shape /\ TypeOK /\ FilesOK
      /\ cpc = "dir" /\ toClient # << >> /\ Took(1) /\ To(w) /\ ClientKeeps
      /\ astray' = (astray \/ Next1.type = DATA) /\ UNCHANGED <<files, code, at>>
  BY InvParts DEF RecvDir, Reads
<1>2. /\ toClient' \in Stream /\ Framed(toClient') /\ (Len(toClient) <= 1 => toClient' = << >>)
      /\ toClient' = After(toClient, 1) /\ Next1 = toClient[1]
  BY <1>1, TakenReply, HeadOfReplies
<1>3. files' \in FileTypes /\ FilesOK' /\ code' \in {0, 1, 2, 5} /\ astray' \in BOOLEAN
  BY <1>1 DEF TypeOK, FileTypes, FilesOK, Sized
<1>4. cpc' = w /\ w \in {"prompt", "listing"} /\ (w = "prompt" => cmd' = NoCommand)
  BY <1>1 DEF To
<1>5. UNCHANGED toServer
  BY <1>1 DEF ClientKeeps
<1>6. Shape'
  <2>1. cpc \in Receiving /\ (at' = IF w = "send" THEN 0 ELSE at)
        /\ (w = "prompt" \/ (cpc = "dir" /\ w = "listing"))
    BY <1>1, <1>4 DEF Receiving
  <2>. HIDE DEF w
  <2>. QED
    BY <1>1, <1>2, <1>3, <2>1, ReplyShape
<1>7. ASSUME Synced'
      PROVE  /\ DataOnly(toServer') /\ toServer' = << >>
             /\ code' \in {0, 1} /\ Sized("client")'
             /\ w = "prompt" => toClient' = << >>
             /\ w = "listing" => Packeted(toClient')
  <2>1. Synced /\ cpc \in Receiving /\ cpc \in Replies /\ Next1.type # DATA
    BY <1>1, <1>7, StaysSynced DEF Receiving, Replies, Synced
  <2>2. /\ DataOnly(toServer) /\ toServer = << >> /\ code \in {0, 1} /\ Sized("client")
        /\ Answered(toClient)
    BY <1>1, <2>1, SyncedReply
  <2>3. \/ Len(toClient) = 1 /\ Next1.type # OK
        \/ Next1.type = OK /\ Next1.code = 1 /\ Packeted(After(toClient, 1))
    BY <1>1, <1>2, <2>1, <2>2 DEF Answered
  <2>4. w = "prompt" => toClient' = << >>
    <3>1. w = "prompt" => Len(toClient) = 1
      BY <2>3
    <3>2. Len(toClient) = 1 => Len(toClient) <= 1
      OBVIOUS
    <3>. QED
      BY <1>2, <3>1, <3>2
  <2>5. w = "listing" => Packeted(toClient')
    BY <1>2, <2>3
  <2>6. Sized("client")' /\ code' \in {0, 1}
    BY <1>1, <2>2 DEF Sized
  <2>. QED
    BY <1>5, <2>2, <2>4, <2>5, <2>6
<1>. HIDE DEF w
<1>8. CASE w = "prompt"
  <2>1. Conversation' /\ Getting' /\ Putting'
    BY <1>4, <1>7, <1>8, Prompts
  <2>. QED
    BY <1>6, <2>1 DEF Inv
<1>9. CASE w = "listing"
  <2>1. cpc' = "listing" /\ cmd'[1] = "dir"
    BY <1>4, <1>6, <1>9 DEF Shape, CommandOK
  <2>2. Conversation'
    BY <1>7, <1>9, <2>1 DEF Conversation, Replies
  <2>3. Getting' /\ Putting'
    BY <1>7, <2>1 DEF Getting, Putting
  <2>. QED
    BY <1>6, <2>2, <2>3 DEF Inv
<1>. QED
  BY <1>4, <1>8, <1>9

-----------------------------------------------------------------------------
LEMMA RecvListingKeeps ==
  ASSUME Inv, RecvListing
  PROVE  Inv'
<1>. DEFINE w == IF Next1.type = DATA THEN NextPacket("listing") ELSE "prompt"
            n == IF Next1.type = DATA THEN 1 + Next1.length ELSE 1
<1>1. /\ Shape /\ TypeOK /\ FilesOK
      /\ cpc = "listing" /\ toClient # << >> /\ Took(n) /\ To(w) /\ ClientKeeps
      /\ UNCHANGED <<files, code, at, astray>>
  BY InvParts DEF RecvListing, Reads
<1>2. /\ toClient \in Stream /\ Next1 = toClient[1]
      /\ Next1.type = DATA => Next1.length \in Nat
  BY <1>1, HeadOfReplies
<1>3. n \in Nat
  BY <1>2
<1>4. toClient' \in Stream /\ Framed(toClient') /\ toClient' = After(toClient, n)
  <2>. HIDE DEF n
  <2>. QED
    BY <1>1, <1>3, TakenReply
<1>5. files' \in FileTypes /\ FilesOK' /\ code' \in {0, 1, 2, 5} /\ astray' \in BOOLEAN
  BY <1>1 DEF TypeOK, FileTypes, FilesOK, Sized
<1>6. w \in {"prompt", "listing"}
  BY DEF NextPacket
<1>7. cpc' = w /\ (w = "prompt" => cmd' = NoCommand) /\ UNCHANGED toServer
  BY <1>1 DEF To, ClientKeeps
<1>8. Shape'
  <2>1. cpc \in Receiving /\ (at' = IF w = "send" THEN 0 ELSE at)
        /\ (w = "prompt" \/ w = cpc)
    BY <1>1, <1>6 DEF Receiving
  <2>. HIDE DEF w
  <2>. QED
    BY <1>1, <1>4, <1>5, <2>1, ReplyShape
<1>9. ASSUME Synced'
      PROVE  /\ DataOnly(toServer') /\ toServer' = << >>
             /\ code' \in {0, 1} /\ Sized("client")'
             /\ w = "prompt" => toClient' = << >>
             /\ Packeted(toClient')
  <2>1. Synced /\ cpc \in Receiving
    BY <1>1, <1>9, StaysSynced DEF Receiving
  <2>2. /\ DataOnly(toServer) /\ toServer = << >> /\ code \in {0, 1} /\ Sized("client")
        /\ Packeted(toClient)
    BY <1>1, <2>1, SyncedReply
  <2>3. /\ Next1.type = DATA
        /\ Next1.code = 0 => After(toClient, 1 + Next1.length) = << >>
        /\ Packeted(After(toClient, 1 + Next1.length))
    BY <1>1, <1>2, <2>2, HeadOfPackets
  <2>4. toClient' = After(toClient, 1 + Next1.length)
    BY <1>4, <2>3
  <2>5. w = "prompt" => Next1.code = 0
    BY <2>3 DEF NextPacket
  <2>6. w = "prompt" => toClient' = << >>
    BY <2>3, <2>4, <2>5
  <2>7. Packeted(toClient')
    BY <2>3, <2>4
  <2>8. Sized("client")' /\ code' \in {0, 1}
    BY <1>1, <2>2 DEF Sized
  <2>. QED
    BY <1>7, <2>2, <2>6, <2>7, <2>8
<1>. HIDE DEF w
<1>10. CASE w = "prompt"
  <2>1. Conversation' /\ Getting' /\ Putting'
    BY <1>7, <1>9, <1>10, Prompts
  <2>. QED
    BY <1>8, <2>1 DEF Inv
<1>11. CASE w = "listing"
  <2>1. cpc' = "listing" /\ cmd'[1] = "dir"
    BY <1>7, <1>8, <1>11 DEF Shape, CommandOK
  <2>2. Conversation'
    BY <1>9, <2>1 DEF Conversation, Replies
  <2>3. Getting' /\ Putting'
    BY <1>9, <2>1 DEF Getting, Putting
  <2>. QED
    BY <1>8, <2>2, <2>3 DEF Inv
<1>. QED
  BY <1>6, <1>10, <1>11

LEMMA RecvPutHeadKeeps ==
  ASSUME Inv, RecvPutHead
  PROVE  Inv'
<1>. DEFINE w == IF Next1.type = OK /\ Next1.code = 2 THEN "send" ELSE "prompt"
<1>1. /\ Shape /\ TypeOK /\ FilesOK /\ CommandOK /\ Putting
      /\ cpc = "put" /\ toClient # << >> /\ Took(1) /\ To(w) /\ ClientKeeps
      /\ at' = (IF w = "send" THEN 0 ELSE at)
      /\ UNCHANGED <<files, code, astray>>
  BY InvParts DEF RecvPutHead, Reads
<1>2. /\ toClient' \in Stream /\ Framed(toClient') /\ (Len(toClient) <= 1 => toClient' = << >>)
      /\ Next1 = toClient[1]
  BY <1>1, TakenReply, HeadOfReplies
<1>3. files' \in FileTypes /\ FilesOK' /\ code' \in {0, 1, 2, 5} /\ astray' \in BOOLEAN
  BY <1>1 DEF TypeOK, FileTypes, FilesOK, Sized
<1>4. cpc' = w /\ w \in {"prompt", "send"} /\ cmd' = IF w = "prompt" THEN NoCommand ELSE cmd
  BY <1>1 DEF To
<1>5. UNCHANGED <<toServer, cwd, fp>>
  BY <1>1 DEF ClientKeeps, serverVars
<1>6. Shape'
  <2>1. cpc \in Receiving /\ (w = "prompt" \/ (cpc = "put" /\ w = "send"))
    BY <1>1, <1>4 DEF Receiving
  <2>. HIDE DEF w
  <2>. QED
    BY <1>1, <1>2, <1>3, <2>1, ReplyShape
<1>7. ASSUME Synced'
      PROVE  /\ Synced
             /\ toClient' = << >> /\ DataOnly(toServer') /\ toServer' = << >>
             /\ code' \in {0, 1} /\ Sized("client")'
  <2>1. Synced /\ cpc \in Receiving /\ cpc \in Replies
    BY <1>1, <1>7, StaysSynced DEF Receiving, Replies
  <2>2. /\ DataOnly(toServer) /\ toServer = << >> /\ code \in {0, 1} /\ Sized("client")
        /\ Answered(toClient)
    BY <1>1, <2>1, SyncedReply
  <2>3. Len(toClient) = 1
    BY <1>1, <2>2 DEF Answered
  <2>. QED
    BY <1>1, <1>2, <1>5, <2>1, <2>2, <2>3 DEF Sized
<1>8. CASE w = "prompt"
  <2>. HIDE DEF w
  <2>1. Conversation' /\ Getting' /\ Putting'
    BY <1>4, <1>7, <1>8, Prompts
  <2>. QED
    BY <1>6, <2>1 DEF Inv
<1>9. CASE w = "send"
  <2>1. /\ cpc' = "send" /\ cmd' = cmd /\ cmd[1] = "put" /\ at' = 0 /\ Next1.type = OK
        /\ cmd[2] \in Names /\ cmd[3] \in Names
    BY <1>1, <1>4, <1>9 DEF CommandOK, Replies
  <2>. HIDE DEF w
  <2>2. Conversation'
    BY <1>7, <2>1 DEF Conversation, Replies
  <2>3. Getting'
    BY <2>1 DEF Getting
  <2>4. ASSUME Synced'
        PROVE  Stores' /\ fp' = Target'
    <3>1. Entry("server", cmd[3]).data = << >> /\ fp = Target
      BY <1>1, <1>2, <1>7, <2>1, <2>4 DEF Putting
    <3>2. Entry("client", cmd[2])' = Entry("client", cmd[2])
          /\ Entry("server", cmd[3])' = Entry("server", cmd[3])
      BY <1>1, <1>5, <2>1 DEF Entry
    <3>3. Entry("client", cmd[2]).data \in Seq(Words)
      BY <1>1, <2>1, EntryTypes DEF Hosts, TypeOK
    <3>. DEFINE data == Entry("client", cmd[2]).data
    <3>4. Len(data) \in Nat /\ SubSeq(data, 1, 0) = << >>
      BY <3>3
    <3>5. DataIn(toServer') = << >>
      BY <1>7, <2>4, DataInEmpty
    <3>6. << >> \o << >> = << >>
      OBVIOUS
    <3>7. Stores'
      <4>1. at' <= Len(Entry("client", cmd[2])'.data)
        BY <2>1, <3>2, <3>4
      <4>2. SubSeq(Entry("client", cmd[2])'.data, 1, at') = << >>
        BY <2>1, <3>2, <3>4
      <4>3. Entry("server", cmd[3])'.data \o DataIn(toServer') = << >>
        BY <3>1, <3>2, <3>5, <3>6
      <4>. QED
        BY <4>1, <4>2, <4>3 DEF Stores
    <3>. QED
      BY <1>5, <2>1, <3>1, <3>7 DEF Target, Here
  <2>5. Putting'
    <3>1. ASSUME Synced' PROVE Marked(toServer') /\ Continued(toServer')
      BY <1>7, <3>1, NothingThere
    <3>. QED
      BY <1>7, <2>1, <2>4, <3>1 DEF Putting
  <2>. QED
    BY <1>6, <2>2, <2>3, <2>5 DEF Inv
<1>. QED
  BY <1>4, <1>8, <1>9

LEMMA SendFailsKeeps ==
  ASSUME Inv, SendFails
  PROVE  Inv'
<1>1. /\ TypeOK /\ CommandOK /\ StreamsOK /\ FilesOK /\ Conversation /\ Putting
      /\ cpc = "send" /\ Entry("client", cmd[2]).kind = "dir"
      /\ code' = 1 /\ cpc' = "prompt"
      /\ UNCHANGED <<toServer, toClient, files, cwd, cmd, at, astray, serving, hdr, fp>>
  BY InvParts DEF SendFails, serverVars
<1>2. TypeOK' /\ StreamsOK' /\ FilesOK'
  BY <1>1 DEF TypeOK, StreamsOK, FilesOK, Sized, Waits
<1>3. CommandOK'
  BY <1>1 DEF CommandOK, Replies
<1>4. ASSUME Synced' PROVE Synced
  BY <1>1, <1>4, StaysSynced
<1>5. Conversation'
  BY <1>1, <1>4 DEF Conversation, Replies
<1>6. Getting'
  BY <1>1 DEF Getting
<1>7. Putting'
  <2>1. Stores' /\ (Target' = Target)
    BY <1>1 DEF Stores, Entry, Target, Here
  <2>. QED
    BY <1>1, <1>4, <2>1 DEF Putting, Sized
<1>. QED
  BY <1>2, <1>3, <1>5, <1>6, <1>7 DEF Inv, Shape

-----------------------------------------------------------------------------
LEMMA RecvGetHeadKeeps ==
  ASSUME Inv, RecvGetHead
  PROVE  Inv'
<1>. DEFINE makes == Next1.type = OK /\ Next1.code = 1 /\ CanWrite(Entry("client", cmd[3]))
            w == IF makes THEN "data" ELSE "prompt"
            d == cwd["client"]
            n == cmd[3]
<1>1. /\ Shape /\ TypeOK /\ FilesOK /\ CommandOK /\ Getting
      /\ cpc = "get" /\ toClient # << >> /\ Took(1) /\ To(w) /\ ClientKeeps
      /\ makes => files' = Put(files, "client", <<d, n>>, << >>)
      /\ ~makes => UNCHANGED files
      /\ astray' = (astray \/ (Next1.type = OK /\ ~CanWrite(Entry("client", cmd[3]))))
      /\ UNCHANGED <<code, at>>
  BY InvParts DEF RecvGetHead, Reads, Here
<1>2. /\ toClient' \in Stream /\ Framed(toClient') /\ (Len(toClient) <= 1 => toClient' = << >>)
      /\ toClient' = After(toClient, 1) /\ Next1 = toClient[1]
  BY <1>1, TakenReply, HeadOfReplies
<1>3. cmd[1] = "get" /\ cmd[2] \in Names /\ n \in Names
  BY <1>1 DEF CommandOK, Replies
<1>4. d \in Dirs /\ cwd["server"] \in Dirs /\ files \in FileTypes
      /\ "client" \in Hosts /\ "server" \in Hosts
  BY <1>1 DEF TypeOK, Hosts, FileTypes
<1>5. << >> \in Seq(Words) /\ Len(<< >>) = 0 /\ Len(<< >>) <= MaxSize
  BY FtpAssumption
<1>6. /\ files' \in FileTypes /\ FilesOK'
      /\ Sized("client") => Sized("client")'
      /\ files'["server"] = files["server"]
      /\ makes => files'["client"][d][n].data = << >>
  <2>1. CASE makes
    <3>. HIDE DEF makes, d, n
    <3>1. files' = Put(files, "client", <<d, n>>, << >>)
      BY <1>1, <2>1
    <3>. DEFINE h == "client"
                none == << >>
    <3>0. /\ Shape /\ d \in Dirs /\ n \in Names
          /\ h \in Hosts /\ none \in Seq(Words) /\ Len(none) <= MaxSize /\ h = "client"
          /\ files' = Put(files, h, <<d, n>>, none)
      BY <1>1, <1>3, <1>4, <1>5, <3>1
    <3>. HIDE DEF h, none
    <3>2. /\ files' \in FileTypes /\ files'[h][d][n].data = none
          /\ FilesOK' /\ (Sized(h) => Sized(h)')
      BY <3>0, FilePut
    <3>3. files'["server"] = files["server"]
      BY <1>4, <3>1 DEF Put, FileTypes
    <3>. QED
      BY <3>2, <3>3 DEF h, none
  <2>2. CASE ~makes
    <3>. HIDE DEF makes, d, n
    <3>. QED
      BY <1>1, <1>4, <2>2 DEF FilesOK, Sized
  <2>. QED
    BY <2>1, <2>2
<1>7. code' \in {0, 1, 2, 5} /\ astray' \in BOOLEAN
  BY <1>1 DEF TypeOK
<1>8. cpc' = w /\ w \in {"prompt", "data"} /\ (w = "data" <=> makes)
      /\ cmd' = IF w = "prompt" THEN NoCommand ELSE cmd
  <2>. HIDE DEF makes
  <2>. QED
    BY <1>1 DEF To
<1>9. UNCHANGED <<toServer, cwd>>
  BY <1>1 DEF ClientKeeps
<1>10. Shape'
  <2>1. cpc \in Receiving /\ (at' = IF w = "send" THEN 0 ELSE at)
        /\ (w = "prompt" \/ (cpc = "get" /\ w = "data"))
    BY <1>1, <1>8 DEF Receiving
  <2>. HIDE DEF w, makes
  <2>. QED
    BY <1>1, <1>2, <1>6, <1>7, <2>1, ReplyShape
<1>11. ASSUME Synced'
       PROVE  /\ Synced /\ DataOnly(toServer') /\ toServer' = << >>
              /\ code' \in {0, 1} /\ Sized("client")'
              /\ ~makes => toClient' = << >>
              /\ makes => Packeted(toClient') /\ Next1.type = OK
  <2>1. Synced /\ cpc \in Receiving /\ cpc \in Replies
    <3>. HIDE DEF makes
    <3>. QED
      BY <1>1, <1>11, StaysSynced DEF Receiving, Replies
  <2>2. /\ DataOnly(toServer) /\ toServer = << >> /\ code \in {0, 1} /\ Sized("client")
        /\ Answered(toClient)
    BY <1>1, <2>1, SyncedReply
  <2>3. \/ Len(toClient) = 1 /\ Next1.type # OK
        \/ Next1.type = OK /\ Next1.code = 1 /\ Packeted(After(toClient, 1))
    BY <1>1, <1>2, <2>2 DEF Answered
  <2>4. ~astray'
    BY <1>11 DEF Synced
  <2>5. Next1.type = OK => CanWrite(Entry("client", cmd[3]))
    BY <1>1, <2>4
  <2>6. makes \/ Len(toClient) = 1
    BY <2>3, <2>5
  <2>7. makes => Next1.type = OK /\ Packeted(After(toClient, 1))
    BY <2>3
  <2>8. Len(toClient) = 1 => Len(toClient) <= 1
    OBVIOUS
  <2>. HIDE DEF makes
  <2>. QED
    BY <1>1, <1>2, <1>6, <1>9, <2>1, <2>2, <2>6, <2>7, <2>8
<1>12. CASE ~makes
  <2>. HIDE DEF w, makes
  <2>1. Conversation' /\ Getting' /\ Putting'
    BY <1>8, <1>11, <1>12, Prompts
  <2>. QED
    BY <1>10, <2>1 DEF Inv
<1>13. CASE makes
  <2>. HIDE DEF w, makes
  <2>1. cpc' = "data" /\ cmd' = cmd
    BY <1>8, <1>13
  <2>2. Conversation'
    BY <1>11, <1>13, <2>1 DEF Conversation, Replies
  <2>3. Putting'
    BY <1>3, <1>11, <2>1 DEF Putting
  <2>4. ASSUME Synced'
        PROVE  Fetched(Entry("client", cmd[3]).data, toClient)'
    <3>1. Fetched(<< >>, After(toClient, 1))
      BY <1>1, <1>2, <1>11, <1>13, <2>4 DEF Getting
    <3>2. Entry("client", cmd[3])'.data = << >>
      BY <1>6, <1>9, <1>13, <2>1 DEF Entry
    <3>3. Source' = Source
      BY <1>6, <1>9, <2>1 DEF Source, Entry
    <3>. QED
      BY <1>2, <3>1, <3>2, <3>3 DEF Fetched
  <2>5. Getting'
    BY <2>1, <2>4 DEF Getting
  <2>. QED
    BY <1>10, <2>2, <2>3, <2>5 DEF Inv
<1>. QED
  BY <1>12, <1>13

LEMMA RecvGetDataKeeps ==
  ASSUME Inv, RecvGetData
  PROVE  /\ Inv'
         /\ ~astray /\ cpc' = "prompt" =>
              files'["client"][cwd["client"]][cmd[3]].data = Source.data
<1>. DEFINE isData == Next1.type = DATA
            stored == isData /\ Next1.code \in {0, 1}
            w == IF isData THEN NextPacket("data") ELSE "data"
            m == IF isData THEN 1 + Next1.length ELSE 1
            d == cwd["client"]
            n == cmd[3]
            old == files["client"][d][n].data
            text == old \o Payload(toClient)
<1>1. /\ Shape /\ TypeOK /\ FilesOK /\ CommandOK /\ Getting
      /\ cpc = "data" /\ toClient # << >> /\ Took(m) /\ ClientKeeps
      /\ stored => files' = Put(files, "client", <<d, n>>, text)
      /\ ~stored => UNCHANGED files
      /\ UNCHANGED <<code, at, astray>>
  BY InvParts DEF RecvGetData, Reads, Here, Entry
<1>. HIDE DEF isData, stored, w, m, d, n, old, text
<1>2. /\ toClient \in Stream /\ Next1 = toClient[1] /\ Next1.code \in {0, 1, 2, 5}
      /\ isData => IsHeader(Next1) /\ Next1.length \in Nat
  BY <1>1, HeadOfReplies DEF isData
<1>3. m \in Nat
  BY <1>2 DEF m
<1>4. toClient' \in Stream /\ Framed(toClient') /\ toClient' = After(toClient, m)
  BY <1>1, <1>3, TakenReply
<1>5. cmd[1] = "get" /\ cmd[2] \in Names /\ n \in Names
  BY <1>1 DEF CommandOK, n
<1>6. d \in Dirs /\ cwd["server"] \in Dirs /\ files \in FileTypes
      /\ "client" \in Hosts /\ "server" \in Hosts
  BY <1>1 DEF TypeOK, Hosts, FileTypes, d
<1>7. old \in Seq(Words)
  BY <1>1, <1>5, <1>6, EntryTypes DEF old
<1>8. isData => Payload(toClient) \in Seq(Words) /\ text \in Seq(Words)
  <2>1. Framed(toClient)
    BY <1>1 DEF Shape, StreamsOK
  <2>2. isData => Payload(toClient) \in Seq(Words)
    BY <1>1, <1>2, <2>1, TakenPacket
  <2>. QED
    BY <1>7, <2>2 DEF text
<1>9. /\ files' \in FileTypes /\ FilesOK'
      /\ Sized("client") /\ (stored => Len(text) <= MaxSize) => Sized("client")'
      /\ files'["server"] = files["server"]
      /\ stored => files'["client"][d][n].data = text
  <2>1. CASE stored
    <3>1. files' = Put(files, "client", <<d, n>>, text) /\ text \in Seq(Words)
      BY <1>1, <1>8, <2>1 DEF stored
    <3>. DEFINE h == "client"
    <3>0. /\ Shape /\ d \in Dirs /\ n \in Names /\ text \in Seq(Words)
          /\ h \in Hosts /\ h = "client" /\ files' = Put(files, h, <<d, n>>, text)
      BY <1>1, <1>5, <1>6, <3>1
    <3>. HIDE DEF h
    <3>2. /\ files' \in FileTypes /\ files'[h][d][n].data = text
          /\ FilesOK' /\ (Sized(h) /\ Len(text) <= MaxSize => Sized(h)')
      BY <3>0, FilePut
    <3>3. files'["server"] = files["server"]
      BY <1>6, <3>1 DEF Put, FileTypes
    <3>. QED
      BY <2>1, <3>2, <3>3 DEF h
  <2>2. CASE ~stored
    BY <1>1, <1>6, <2>2 DEF FilesOK, Sized
  <2>. QED
    BY <2>1, <2>2
<1>10. code' \in {0, 1, 2, 5} /\ astray' \in BOOLEAN
  BY <1>1 DEF TypeOK
<1>11. /\ w \in {"prompt", "data"} /\ To(w)
       /\ w = "prompt" => isData /\ Next1.code = 0
       /\ isData /\ Next1.code = 0 => w = "prompt"
  <2>1. isData => To(NextPacket("data"))
    BY DEF RecvGetData, isData
  <2>2. ~isData => UNCHANGED <<cpc, cmd>>
    BY DEF RecvGetData, isData
  <2>3. ~isData => To("data")
    BY <1>1, <2>2 DEF To
  <2>. QED
    BY <2>1, <2>3 DEF NextPacket, w
<1>12. cpc' = w /\ cmd' = IF w = "prompt" THEN NoCommand ELSE cmd
  BY <1>11 DEF To
<1>13. UNCHANGED <<toServer, cwd>>
  BY <1>1 DEF ClientKeeps
<1>14. Shape'
  <2>1. cpc \in Receiving /\ (at' = IF w = "send" THEN 0 ELSE at)
        /\ (w = "prompt" \/ w = cpc)
    BY <1>1, <1>11 DEF Receiving
  <2>. QED
    BY <1>1, <1>4, <1>9, <1>10, <1>11, <2>1, ReplyShape
<1>15. ASSUME Synced'
       PROVE  /\ Synced /\ DataOnly(toServer') /\ toServer' = << >>
              /\ code' \in {0, 1}
              /\ stored /\ toClient' = After(toClient, 1 + Next1.length)
              /\ w = "prompt" => toClient' = << >>
              /\ Packeted(toClient')
              /\ Source.kind = "file" /\ text \o DataIn(toClient') = Source.data
              /\ Sized("client")'
  <2>1. Synced /\ cpc \in Receiving
    BY <1>1, <1>15, StaysSynced DEF Receiving
  <2>2. /\ DataOnly(toServer) /\ toServer = << >> /\ code \in {0, 1} /\ Sized("client")
        /\ Packeted(toClient)
    BY <1>1, <2>1, SyncedReply
  <2>3. /\ isData /\ Next1.code \in {0, 1}
        /\ Next1.code = 0 => After(toClient, 1 + Next1.length) = << >>
        /\ Packeted(After(toClient, 1 + Next1.length))
        /\ DataIn(toClient) = Payload(toClient) \o DataIn(After(toClient, 1 + Next1.length))
    BY <1>1, <1>2, <2>2, HeadOfPackets DEF isData
  <2>4. toClient' = After(toClient, 1 + Next1.length)
    BY <1>4, <2>3 DEF m
  <2>5. w = "prompt" => toClient' = << >>
    BY <1>11, <2>3, <2>4
  <2>6. /\ Packeted(toClient')
        /\ DataIn(toClient) = Payload(toClient) \o DataIn(toClient')
    BY <2>3, <2>4
  <2>7. Fetched(old, toClient)
    BY <1>1, <2>1 DEF Getting, Entry, old, d, n
  <2>8. Source.kind = "file" /\ old \o DataIn(toClient) = Source.data
    BY <1>1, <2>7 DEF Fetched
  <2>9. text \o DataIn(toClient') = Source.data
    <3>. DEFINE p == Payload(toClient)
                q == DataIn(toClient')
    <3>1. p \in Stream /\ q \in Stream /\ old \in Stream
      BY <1>4, <1>7, <1>8, <2>3, DataInType, WordSeqs DEF Stream
    <3>. HIDE DEF p, q
    <3>2. Source.data = old \o (p \o q)
      BY <2>6, <2>8 DEF p, q
    <3>3. old \o (p \o q) = (old \o p) \o q
      BY <3>1, ConcatAssociative DEF Stream
    <3>. QED
      BY <3>2, <3>3 DEF p, q, text
  <2>10. Len(text) <= MaxSize
    <3>. DEFINE q == DataIn(toClient')
    <3>1. text \in Stream /\ q \in Stream
      BY <1>4, <1>8, <2>3, DataInType, WordSeqs DEF Stream
    <3>2. Len(Source.data) <= MaxSize
      BY <1>1, <1>5, <1>6 DEF Source, Entry, FilesOK, Sized
    <3>3. text \o q = Source.data
      BY <2>9
    <3>. HIDE DEF q
    <3>4. Len(text \o q) = Len(text) + Len(q) /\ Len(text) \in Nat /\ Len(q) \in Nat
      BY <3>1, JoinElements, Elements
    <3>. QED
      BY <3>2, <3>3, <3>4, FtpAssumption
  <2>11. Sized("client")'
    BY <1>9, <2>2, <2>10
  <2>12. stored
    BY <2>3 DEF stored
  <2>. QED
    BY <1>1, <1>13, <2>1, <2>2, <2>12, <2>4, <2>5, <2>6, <2>8, <2>9, <2>11
<1>16. ASSUME w = "prompt" PROVE Inv'
  <2>1. Conversation' /\ Getting' /\ Putting'
    BY <1>12, <1>15, <1>16, Prompts
  <2>. QED
    BY <1>14, <2>1 DEF Inv
<1>17. ASSUME w = "data" PROVE Inv'
  <2>1. cpc' = "data" /\ cmd' = cmd
    BY <1>12, <1>17
  <2>2. Conversation'
    BY <1>15, <2>1 DEF Conversation, Replies
  <2>3. Putting'
    BY <1>5, <1>15, <2>1 DEF Putting
  <2>4. ASSUME Synced'
        PROVE  Fetched(Entry("client", cmd[3]).data, toClient)'
    <3>1. Entry("client", cmd[3])'.data = text
      BY <1>9, <1>13, <1>15, <2>1, <2>4 DEF Entry, d, n
    <3>2. Source' = Source
      BY <1>9, <1>13, <2>1 DEF Source, Entry
    <3>. QED
      BY <1>15, <2>4, <3>1, <3>2 DEF Fetched
  <2>5. Getting'
    BY <2>1, <2>4 DEF Getting
  <2>. QED
    BY <1>14, <2>2, <2>3, <2>5 DEF Inv
<1>18. ASSUME ~astray, cpc' = "prompt"
       PROVE  files'["client"][d][n].data = Source.data
  <2>1. Synced' /\ w = "prompt"
    BY <1>1, <1>12, <1>18 DEF Synced
  <2>2. /\ stored /\ toClient' = << >> /\ text \o DataIn(toClient') = Source.data
    BY <1>15, <2>1
  <2>4. text \in Seq(Words)
    BY <1>8, <2>2 DEF stored
  <2>3. text \o << >> = text /\ DataIn(toClient') = << >>
    BY <2>2, <2>4, DataInEmpty
  <2>. QED
    BY <1>9, <2>2, <2>3
<1>. QED
  BY <1>11, <1>16, <1>17, <1>18 DEF d, n

-----------------------------------------------------------------------------
\* The words of a file that go into the next packet.
LEMMA NextCut ==
  ASSUME NEW data \in Seq(Words), NEW k \in Nat,
         NEW cut, cut = SubSeq(data, k + 1, Min({k + DATASIZE, Len(data)}))
  PROVE  /\ cut \in Seq(Words) /\ Len(cut) \in Nat
         /\ k <= Len(data) => /\ k + Len(cut) <= Len(data)
                              /\ SubSeq(data, 1, k) \o cut = SubSeq(data, 1, k + Len(cut))
<1>1. PICK l \in Nat : l = Len(data)
  OBVIOUS
<1>2. PICK n \in Nat : n = Min({k + DATASIZE, l})
  BY <1>1, MinOfTwo, FtpAssumption
<1>3. k + DATASIZE \in Nat /\ n = (IF k + DATASIZE <= l THEN k + DATASIZE ELSE l)
  BY <1>1, <1>2, MinOfTwo, FtpAssumption
<1>4. DATASIZE \in Nat /\ n <= l /\ (k <= l => k <= n)
  BY <1>1, <1>2, <1>3, FtpAssumption
<1>5. cut = SubSeq(data, k + 1, n)
  BY <1>1, <1>2
<1>6. \A j \in k + 1 .. n : data[j] \in Words
  <2>1. \A j \in 1 .. l : data[j] \in Words
    BY <1>1
  <2>2. \A j \in k + 1 .. n : j \in 1 .. l
    BY <1>1, <1>2, <1>4
  <2>. QED
    BY <2>1, <2>2
<1>7. k + 1 \in Int /\ n \in Int
  BY <1>2
<1>8. /\ cut \in Seq(Words)
      /\ Len(cut) = IF k + 1 <= n THEN n - (k + 1) + 1 ELSE 0
  <2>1. cut \in Seq(Words)
    BY <1>5, <1>6, <1>7, SubSeqProperties
  <2>2. Len(cut) = IF k + 1 <= n THEN n - (k + 1) + 1 ELSE 0
    <3>. DEFINE m == k + 1
    <3>1. m \in Int /\ cut = SubSeq(data, m, n) /\ \A j \in m .. n : data[j] \in Words
      BY <1>5, <1>6, <1>7
    <3>. HIDE DEF m
    <3>2. Len(SubSeq(data, m, n)) = IF m <= n THEN n - m + 1 ELSE 0
      BY <1>7, <3>1, SubSeqProperties
    <3>. QED
      BY <3>1, <3>2 DEF m
  <2>. QED
    BY <2>1, <2>2
<1>9. ASSUME k <= l
      PROVE  /\ k + Len(cut) = n
             /\ SubSeq(data, 1, k) \o cut = SubSeq(data, 1, n)
  <2>1. k + Len(cut) = n
    BY <1>2, <1>4, <1>8, <1>9
  <2>2. 1 \in 1 .. l + 1 /\ k \in 1 - 1 .. l /\ n \in k .. l
    BY <1>1, <1>2, <1>4, <1>9
  <2>3. SubSeq(data, 1, k) \o SubSeq(data, k + 1, n) = SubSeq(data, 1, n)
    BY <1>1, <2>2, ConcatAdjacentSubSeq
  <2>. QED
    BY <1>5, <2>1, <2>3
<1>10. Len(cut) \in Nat
  BY <1>8
<1>11. ASSUME k <= Len(data)
       PROVE  /\ k + Len(cut) <= Len(data)
              /\ SubSeq(data, 1, k) \o cut = SubSeq(data, 1, k + Len(cut))
  BY <1>1, <1>4, <1>9, <1>11
<1>. QED
  BY <1>8, <1>10, <1>11

LEMMA SendChunkKeeps ==
  ASSUME Inv, SendChunk
  PROVE  Inv'
<1>. DEFINE text == Entry("client", cmd[2]).data
            last == LastChunk(Len(text), at)
            c == IF last THEN 0 ELSE 1
            cut == SubSeq(text, at + 1, Min({at + DATASIZE, Len(text)}))
            m == Packet(c, cut)
<1>1. /\ TypeOK /\ CommandOK /\ StreamsOK /\ FilesOK /\ Conversation /\ Putting
      /\ cpc = "send" /\ Entry("client", cmd[2]).kind = "file"
      /\ toServer' = toServer \o m /\ code' = c /\ at' = at + Len(cut)
      /\ cpc' = (IF last THEN "prompt" ELSE "send")
      /\ UNCHANGED <<toClient, files, cwd, cmd, astray, serving, hdr, fp>>
  BY InvParts DEF SendChunk, serverVars
<1>2. cmd[1] = "put" /\ at \in Nat /\ cmd[2] \in Names /\ cmd[3] \in Names
  BY <1>1 DEF CommandOK
<1>3. text \in Seq(Words) /\ "client" \in Hosts /\ cwd["client"] \in Dirs
  BY <1>1, <1>2, EntryTypes DEF Hosts, TypeOK
<1>4. c \in {0, 1} /\ (last <=> c = 0)
  OBVIOUS
<1>. HIDE DEF text, last, c
<1>5. /\ cut \in Seq(Words) /\ Len(cut) \in Nat
      /\ at <= Len(text) => /\ at + Len(cut) <= Len(text)
                            /\ SubSeq(text, 1, at) \o cut = SubSeq(text, 1, at + Len(cut))
  BY <1>2, <1>3, NextCut
<1>. HIDE DEF cut
<1>6. /\ m \in Stream /\ Framed(m) /\ Aligned(m) /\ DataOnly(m) /\ Asking(m)
      /\ c = 1 => Continued(m)
      /\ Marked(m) /\ DataIn(m) = cut
  BY <1>4, <1>5, PacketProperties
<1>. HIDE DEF m
<1>7. toServer \in Stream /\ Framed(toServer) /\ Aligned(toServer) /\ Asking(toServer)
  BY <1>1 DEF TypeOK, StreamsOK, Stream
<1>8. toServer' \in Stream
  BY <1>1, <1>6, <1>7, JoinElements
<1>9. Framed(toServer') /\ Aligned(toServer') /\ Asking(toServer')
  BY <1>1, <1>6, <1>7, JoinedStream
<1>10. TypeOK'
  <2>1. cpc' \in Waits /\ at' \in Nat \cup {-1} /\ code' \in {0, 1, 2, 5}
    BY <1>1, <1>2, <1>4, <1>5 DEF Waits
  <2>. QED
    BY <1>1, <1>8, <2>1 DEF TypeOK, Stream
<1>11. CommandOK'
  BY <1>1, <1>2, <1>5 DEF CommandOK, Replies
<1>12. StreamsOK' /\ FilesOK'
  BY <1>1, <1>9 DEF StreamsOK, FilesOK, Sized
<1>13. ASSUME Synced' PROVE Synced
  BY <1>1, <1>13, StaysSynced
<1>14. Conversation'
  <2>1. SUFFICES ASSUME Synced'
                 PROVE  code' \in {0, 1} /\ toClient' = << >> /\ DataOnly(toServer')
    BY <1>1 DEF Conversation, Replies
  <2>2. toClient = << >> /\ DataOnly(toServer)
    BY <1>1, <1>13, <2>1 DEF Conversation
  <2>3. DataOnly(toServer')
    BY <1>1, <1>6, <1>7, <2>2, JoinedStream
  <2>. QED
    BY <1>1, <1>4, <2>2, <2>3
<1>15. Getting'
  BY <1>1, <1>2 DEF Getting
<1>16. Putting'
  <2>1. SUFFICES ASSUME Synced'
                 PROVE  /\ Sized("client")'
                        /\ Stores' /\ Marked(toServer')
                        /\ cpc' = "send" => Continued(toServer')
                        /\ fp' = Target'
    BY <1>1 DEF Putting
  <2>2. Sized("client") /\ Stores /\ Marked(toServer) /\ Continued(toServer) /\ fp = Target
    BY <1>1, <1>2, <1>13, <2>1 DEF Putting
  <2>3. Marked(toServer') /\ (cpc' = "send" => Continued(toServer'))
    <3>1. cpc' = "send" => c = 1
      BY <1>1, <1>4
    <3>. QED
      BY <1>1, <1>6, <1>7, <2>2, <3>1, JoinedStream
  <2>4. /\ at <= Len(text)
        /\ Entry("server", cmd[3]).data \o DataIn(toServer) = SubSeq(text, 1, at)
    BY <1>1, <2>2 DEF Stores, text
  <2>5. DataIn(toServer') = DataIn(toServer) \o cut
    BY <1>1, <1>6, <1>7, DataInConcat DEF Stream
  <2>6. Entry("server", cmd[3]).data \o DataIn(toServer') = SubSeq(text, 1, at + Len(cut))
    <3>. DEFINE p == Entry("server", cmd[3]).data
                q == DataIn(toServer)
    <3>1. p \in Stream /\ q \in Stream /\ cut \in Stream
      <4>1. p \in Seq(Words)
        BY <1>1, <1>2, EntryTypes DEF Hosts, TypeOK
      <4>. QED
        BY <1>5, <1>7, <4>1, DataInType, WordSeqs DEF Stream
    <3>2. p \o q = SubSeq(text, 1, at)
      BY <2>4
    <3>3. (p \o q) \o cut = SubSeq(text, 1, at + Len(cut))
      BY <1>5, <2>4, <3>2
    <3>. HIDE DEF p, q
    <3>4. (p \o q) \o cut = p \o (q \o cut)
      BY <3>1 DEF Stream
    <3>. QED
      BY <2>5, <3>3, <3>4 DEF p, q
  <2>7. Stores'
    <3>1. Entry("client", cmd[2])' = Entry("client", cmd[2])
          /\ Entry("server", cmd[3])' = Entry("server", cmd[3])
      BY <1>1 DEF Entry
    <3>2. at' <= Len(Entry("client", cmd[2])'.data)
      BY <1>1, <1>5, <2>4, <3>1 DEF text
    <3>3. Entry("server", cmd[3])'.data \o DataIn(toServer')
            = SubSeq(Entry("client", cmd[2])'.data, 1, at')
      BY <1>1, <2>6, <3>1 DEF text
    <3>. QED
      BY <3>2, <3>3 DEF Stores
  <2>8. Sized("client")' /\ fp' = Target'
    BY <1>1, <2>2 DEF Sized, Target, Here
  <2>. QED
    BY <2>3, <2>7, <2>8
<1>. QED
  BY <1>10, <1>11, <1>12, <1>14, <1>15, <1>16 DEF Inv, Shape

-----------------------------------------------------------------------------
\* What each step of the server leaves well formed.
LEMMA ServedShape ==
  ASSUME Inv, toServer # << >>, TakesAll(Request1.length), ServerKeeps,
         toClient' \in Stream, Framed(toClient'),
         files' \in FileTypes, FilesOK', cwd' \in [Hosts -> Dirs],
         serving' \in BOOLEAN, hdr' \in Words \cup Headers,
         fp' = NoFile \/ fp' \in Dirs \X Names
  PROVE  Shape'
<1>1. Shape /\ TypeOK /\ CommandOK
  BY InvParts
<1>2. UNCHANGED <<cpc, cmd, code, at, astray>>
  BY DEF ServerKeeps, clientVars
<1>3. /\ toServer' \in Stream
      /\ Framed(toServer') /\ Aligned(toServer') /\ Asking(toServer')
  BY <1>1, RestOfRequests
<1>4. TypeOK'
  BY <1>1, <1>2, <1>3 DEF TypeOK, Stream, FileTypes
<1>5. CommandOK'
  BY <1>1, <1>2 DEF CommandOK
<1>6. StreamsOK'
  BY <1>3 DEF StreamsOK
<1>. QED
  BY <1>4, <1>5, <1>6 DEF Shape

\* What the server takes from the stream.
LEMMA TakesNothingMore ==
  ASSUME Shape, NEW type \in {QUIT, PWD}, Serves(type), TakesAll(0)
  PROVE  TakesAll(Request1.length)
<1>1. type \in Requests
  BY CodesDiffer
<1>2. Request1.length = 0
  BY <1>1, TakenRequest
<1>. QED
  BY <1>2 DEF TakesAll

\* An answer to any command but get and put keeps the client in sync.
LEMMA AnsweredInSync ==
  ASSUME Inv, NEW type \in Requests \ {RETR, STOR}, Serves(type), TakesAll(Request1.length),
         ServerKeeps, UNCHANGED files,
         Synced => Answered(toClient)'
  PROVE  Conversation' /\ Getting' /\ Putting'
<1>1. CommandOK /\ Conversation /\ Putting
  BY InvParts
<1>2. UNCHANGED <<cpc, cmd, code, at, astray>>
  BY DEF ServerKeeps, clientVars
<1>3. Synced' => Synced
  BY <1>2 DEF Synced
<1>4. ASSUME Synced
      PROVE  /\ toServer' = << >> /\ cpc \in Replies \ {"get", "put"} /\ cmd[1] = cpc
             /\ code \in {0, 1} /\ Sized("client")'
  <2>1. toServer' = << >> /\ cpc \in Replies /\ TypeOf(cpc) = type
    BY <1>4, SyncedRequest
  <2>2. cpc # "get" /\ cpc # "put"
    BY <2>1, TypesOfReplies, CodesDiffer
  <2>3. code \in {0, 1} /\ Sized("client")
    BY <1>1, <1>4 DEF Conversation, Putting
  <2>. QED
    BY <1>1, <2>1, <2>2, <2>3 DEF CommandOK, Sized
<1>5. Conversation'
  BY <1>2, <1>3, <1>4 DEF Conversation, Replies
<1>6. Getting'
  BY <1>2, <1>3, <1>4 DEF Getting, Replies
<1>7. Putting'
  BY <1>2, <1>3, <1>4 DEF Putting, Replies
<1>. QED
  BY <1>5, <1>6, <1>7

LEMMA ServeQuitKeeps ==
  ASSUME Inv, ServeQuit
  PROVE  Inv'
<1>1. /\ Shape /\ TypeOK /\ FilesOK
      /\ Serves(QUIT) /\ TakesAll(0) /\ Says(OK, 0) /\ serving' = FALSE /\ hdr' = Request1
      /\ ServerKeeps /\ UNCHANGED <<files, cwd, fp>>
  BY InvParts DEF ServeQuit
<1>2. toServer # << >> /\ QUIT \in Requests \ {RETR, STOR} /\ TakesAll(Request1.length)
  BY <1>1, CodesDiffer, TakesNothingMore DEF Serves
<1>3. /\ toClient' \in Stream /\ Framed(toClient')
      /\ toClient = << >> => Len(toClient') = 1
  BY <1>1, Said
<1>4. Request1 \in Headers
  BY <1>1, <1>2, HeadOfRequests
<1>5. Shape'
  <2>1. /\ files' \in FileTypes /\ FilesOK' /\ cwd' \in [Hosts -> Dirs]
        /\ serving' \in BOOLEAN /\ hdr' \in Words \cup Headers
        /\ fp' = NoFile \/ fp' \in Dirs \X Names
    BY <1>1, <1>4 DEF TypeOK, FileTypes, FilesOK, Sized
  <2>. QED
    BY <1>1, <1>2, <1>3, <2>1, ServedShape
<1>6. ASSUME Synced PROVE Answered(toClient)'
  <2>1. toClient = << >> /\ cpc \in Replies /\ TypeOf(cpc) = QUIT
    BY <1>1, <1>2, <1>6, SyncedRequest
  <2>2. cpc' = "quit"
    BY <1>1, <2>1, TypesOfReplies, CodesDiffer DEF ServerKeeps, clientVars, Replies
  <2>. QED
    BY <1>3, <2>1, <2>2 DEF Answered
<1>7. Conversation' /\ Getting' /\ Putting'
  BY <1>1, <1>2, <1>6, AnsweredInSync
<1>. QED
  BY <1>5, <1>7 DEF Inv

LEMMA ServePwdKeeps ==
  ASSUME Inv, ServePwd
  PROVE  Inv'
<1>. DEFINE h == Hdr(OK, 0, 1)
            d == JunkWords(DATASIZE)
            m == <<h>> \o d
<1>1. /\ Shape /\ TypeOK /\ FilesOK
      /\ Serves(PWD) /\ TakesAll(0) /\ Reply(m) /\ hdr' = h /\ fp' = NoFile
      /\ ServerKeeps /\ UNCHANGED <<files, cwd, serving>>
  BY InvParts DEF ServePwd
<1>2. toServer # << >> /\ PWD \in Requests \ {RETR, STOR} /\ TakesAll(Request1.length)
  BY <1>1, CodesDiffer, TakesNothingMore DEF Serves
<1>3. h \in Headers /\ h.code = 0 /\ h.length = 1
  BY DEF Hdr, Headers
<1>4. d \in Seq(Words) /\ Len(d) = DATASIZE /\ h.length <= Len(d)
  BY <1>3, JunkSeqs, FtpAssumption
<1>. HIDE DEF h, d
<1>5. m \in Stream /\ Framed(m) /\ Len(m) = 1 + DATASIZE /\ m[1] = h
  <2>1. Framed(m)
    BY <1>3, <1>4, Message
  <2>. QED
    BY <1>3, <1>4, <2>1, MessageElements
<1>. HIDE DEF m
<1>6. toClient' \in Stream /\ Framed(toClient') /\ (toClient = << >> => toClient' = m)
  BY <1>1, <1>5, Replied
<1>7. Shape'
  <2>1. /\ files' \in FileTypes /\ FilesOK' /\ cwd' \in [Hosts -> Dirs]
        /\ serving' \in BOOLEAN /\ hdr' \in Words \cup Headers
    BY <1>1, <1>3 DEF TypeOK, FileTypes, FilesOK, Sized
  <2>. QED
    BY <1>1, <1>2, <1>6, <2>1, ServedShape
<1>8. ASSUME Synced PROVE Answered(toClient)'
  <2>1. toClient = << >> /\ cpc \in Replies /\ TypeOf(cpc) = PWD
    BY <1>1, <1>2, <1>8, SyncedRequest
  <2>2. cpc' = "pwd"
    BY <1>1, <2>1, TypesOfReplies, CodesDiffer DEF ServerKeeps, clientVars, Replies
  <2>3. Len(toClient') = DATASIZE + 1 /\ toClient'[1].code = 0
    BY <1>3, <1>5, <1>6, <2>1, FtpAssumption
  <2>. QED
    BY <2>2, <2>3 DEF Answered
<1>9. Conversation' /\ Getting' /\ Putting'
  BY <1>1, <1>2, <1>8, AnsweredInSync
<1>. QED
  BY <1>7, <1>9 DEF Inv

\* A directory that a name leads to.
LEMMA LeadsToDirs ==
  ASSUME TypeOK, NEW n \in Names
  PROVE  /\ Leads("server", n) \subseteq Dirs
         /\ Entry("server", n) \in Entries /\ Entry("server", n).kind \in Kinds
         /\ FilesOK /\ Entry("server", n).kind = "dir" => Leads("server", n) = {n}
         /\ Entry("server", n).kind # "dir" => Leads("server", n) = {}
<1>1. "server" \in Hosts /\ cwd["server"] \in Dirs
  BY DEF TypeOK, Hosts
<1>2. /\ Entry("server", n) = files["server"][cwd["server"]][n]
      /\ Entry("server", n) \in Entries /\ Entry("server", n).kind \in Kinds
  BY <1>1, EntryTypes
<1>3. FilesOK /\ Entry("server", n).kind = "dir" => n \in Dirs
  BY <1>1, <1>2 DEF FilesOK
<1>. QED
  BY <1>2, <1>3 DEF Leads

LEMMA ServeCwdKeeps ==
  ASSUME Inv, ServeCwd
  PROVE  Inv'
<1>1. /\ Shape /\ TypeOK /\ FilesOK
      /\ Serves(CWD) /\ TakesAll(Request1.length) /\ hdr' = Request1
      /\ ServerKeeps /\ UNCHANGED <<files, serving, fp>>
  BY InvParts DEF ServeCwd
<1>2. toServer # << >> /\ CWD \in Requests \ {RETR, STOR} /\ CWD \in Requests
  BY <1>1, CodesDiffer DEF Serves
<1>3. Request1 \in Headers
  BY <1>1, <1>2, HeadOfRequests
<1>4. /\ cwd' \in [Hosts -> Dirs]
      /\ \E type \in {OK, FILE_ERR, UNKWN_ERR}, c \in {0, 1, 2, 5} : Says(type, c)
  <2>1. cwd \in [Hosts -> Dirs] /\ Home \in Dirs
    BY <1>1, FtpAssumption DEF TypeOK
  <2>2. CASE Request1.length = 0
    BY <2>1, <2>2 DEF ServeCwd
  <2>3. CASE Request1.length # 0
    <3>1. NameIn \in Names
      BY <1>1, <1>2, <2>3, TakenRequest
    <3>2. /\ Leads("server", NameIn) \subseteq Dirs
          /\ Entry("server", NameIn).kind \in Kinds
          /\ Entry("server", NameIn).kind = "dir" => Leads("server", NameIn) = {NameIn}
      BY <1>1, <3>1, LeadsToDirs
    <3>3. ASSUME NEW d \in Leads("server", NameIn),
                 cwd' = [cwd EXCEPT !["server"] = d], Says(OK, 0)
          PROVE  cwd' \in [Hosts -> Dirs]
      BY <2>1, <3>2, <3>3
    <3>4. ASSUME Leads("server", NameIn) = {}, CwdError(Entry("server", NameIn).kind)
          PROVE  \E type \in {OK, FILE_ERR, UNKWN_ERR}, c \in {0, 1, 2, 5} : Says(type, c)
      <4>1. Entry("server", NameIn).kind \in Kinds \ {"dir"}
        BY <3>2, <3>4
      <4>2. PICK kind \in Kinds \ {"dir"} : CwdError(kind)
        BY <3>4, <4>1
      <4>3. CASE kind \in {"none", "dangling"}
        BY <4>2, <4>3 DEF CwdError
      <4>4. CASE kind = "closed"
        <5>1. kind \notin {"none", "dangling"}
          BY <4>4
        <5>2. Says(FILE_ERR, 1)
          BY <4>2, <4>4, <5>1 DEF CwdError, Plain
        <5>. QED
          BY <5>2
      <4>5. CASE kind \in Plain
        <5>1. kind \notin {"none", "dangling"} /\ kind # "closed"
          BY <4>5 DEF Plain
        <5>2. Says(UNKWN_ERR, 5)
          BY <4>2, <4>5, <5>1 DEF CwdError
        <5>. QED
          BY <5>2
      <4>. QED
        BY <4>2, <4>3, <4>4, <4>5 DEF Kinds, Plain
    <3>5. \/ \E d \in Leads("server", NameIn) :
               cwd' = [cwd EXCEPT !["server"] = d] /\ Says(OK, 0)
          \/ /\ Leads("server", NameIn) = {}
             /\ CwdError(Entry("server", NameIn).kind)
             /\ UNCHANGED cwd
      BY <2>3 DEF ServeCwd
    <3>. QED
      BY <2>1, <3>3, <3>4, <3>5
  <2>. QED
    BY <2>2, <2>3
<1>5. /\ toClient' \in Stream /\ Framed(toClient')
      /\ toClient = << >> => Len(toClient') = 1
  BY <1>1, <1>4, Said
<1>6. Shape'
  <2>1. /\ files' \in FileTypes /\ FilesOK'
        /\ serving' \in BOOLEAN /\ hdr' \in Words \cup Headers
        /\ fp' = NoFile \/ fp' \in Dirs \X Names
    BY <1>1, <1>3 DEF TypeOK, FileTypes, FilesOK, Sized
  <2>. QED
    BY <1>1, <1>2, <1>4, <1>5, <2>1, ServedShape
<1>7. ASSUME Synced PROVE Answered(toClient)'
  <2>1. toClient = << >> /\ cpc \in Replies /\ TypeOf(cpc) = CWD
    BY <1>1, <1>2, <1>7, SyncedRequest
  <2>2. cpc' = "cd"
    BY <1>1, <2>1, TypesOfReplies, CodesDiffer DEF ServerKeeps, clientVars, Replies
  <2>. QED
    BY <1>5, <2>1, <2>2 DEF Answered
<1>8. Conversation' /\ Getting' /\ Putting'
  BY <1>1, <1>2, <1>7, AnsweredInSync
<1>. QED
  BY <1>6, <1>8 DEF Inv

-----------------------------------------------------------------------------
\* OK 1, with the packets that follow it.
LEMMA Announced ==
  ASSUME NEW p \in Stream, Framed(p), NEW m, m = <<Hdr(OK, 1, 0)>> \o p
  PROVE  /\ m \in Stream /\ Framed(m) /\ m # << >>
         /\ m[1].type = OK /\ m[1].code = 1 /\ After(m, 1) = p
<1>. DEFINE h == Hdr(OK, 1, 0)
            u == <<h>>
<1>1. h \in Headers /\ h.type = OK /\ h.code = 1 /\ h.length = 0
  BY DEF Hdr, Headers
<1>2. u \in Stream /\ Len(u) = 1 /\ u[1] = h
  <2>. HIDE DEF h
  <2>. QED
    BY <1>1 DEF Stream
<1>3. Framed(u)
  <2>. DEFINE d == << >>
  <2>1. d \in Seq(Words) /\ Len(d) = 0
    OBVIOUS
  <2>2. h.length <= Len(d)
    BY <1>1, <2>1
  <2>3. <<h>> \o d = u
    OBVIOUS
  <2>. HIDE DEF d, u, h
  <2>4. Framed(<<h>> \o d)
    BY <1>1, <2>1, <2>2, Message
  <2>. QED
    BY <2>3, <2>4
<1>4. m = u \o p
  OBVIOUS
<1>. HIDE DEF h, u
<1>5. /\ m \in Stream /\ Len(m) = 1 + Len(p)
      /\ m[1] = h /\ \A i \in 1 .. Len(p) : m[1 + i] = p[i]
  <2>1. /\ u \o p \in Stream /\ Len(u \o p) = Len(u) + Len(p)
        /\ \A i \in 1 .. Len(u) : (u \o p)[i] = u[i]
        /\ \A i \in 1 .. Len(p) : (u \o p)[Len(u) + i] = p[i]
    BY <1>2, JoinElements
  <2>2. 1 \in 1 .. Len(u)
    BY <1>2
  <2>3. m \in Stream /\ Len(m) = 1 + Len(p)
    BY <1>2, <1>4, <2>1
  <2>4. m[1] = h
    BY <1>2, <1>4, <2>1, <2>2
  <2>5. ASSUME NEW i \in 1 .. Len(p) PROVE m[1 + i] = p[i]
    BY <1>2, <1>4, <2>1
  <2>. QED
    BY <2>3, <2>4, <2>5
<1>6. Framed(m)
  BY <1>2, <1>3, <1>4, JoinedStream
<1>7. After(m, 1) = p
  <2>1. Len(p) \in Nat
    BY Elements
  <2>2. /\ After(m, 1) \in Stream
        /\ Len(After(m, 1)) = IF 1 <= Len(m) THEN Len(m) - 1 ELSE 0
        /\ \A i \in 1 .. Len(After(m, 1)) : After(m, 1)[i] = m[1 + i]
    <3>1. m \in Stream /\ 1 \in Nat
      BY <1>5
    <3>. QED
      BY <3>1, AfterElements
  <2>3. Len(After(m, 1)) = Len(p)
    BY <1>5, <2>1, <2>2
  <2>4. \A i \in 1 .. Len(After(m, 1)) : After(m, 1)[i] = p[i]
    BY <1>5, <2>2, <2>3
  <2>. QED
    BY <2>2, <2>3, <2>4, SeqEqual DEF Stream
<1>8. m # << >>
  BY <1>5, Elements DEF Stream
<1>. QED
  BY <1>1, <1>5, <1>6, <1>7, <1>8

\* Full packets, of which none is the last one.
LEMMA FullPacketsProperties ==
  ASSUME NEW k \in Nat
  PROVE  FullPackets(k) \in Stream /\ Packeted(FullPackets(k))
<1>. DEFINE c == Packet(1, JunkWords(DATASIZE))
            ps == [i \in 1 .. k |-> c]
            Good(s) == Framed(s) /\ Aligned(s) /\ DataOnly(s) /\ Continued(s) /\ Marked(s)
<1>1. c \in Stream /\ Good(c)
  <2>1. DATASIZE \in Nat /\ JunkWords(DATASIZE) \in Seq(Words)
    BY FtpAssumption, JunkSeqs
  <2>. QED
    BY <2>1, PacketProperties
<1>2. FullPackets(k) = FlattenSeq(ps)
  BY DEF FullPackets
<1>. HIDE DEF c
<1>3. ps \in Seq(Stream) /\ Len(ps) = k /\ \A i \in 1 .. k : ps[i] = c
  BY <1>1, FunctionIsSequence
<1>. HIDE DEF ps
<1>4. CASE k = 0
  <2>1. FlattenSeq(ps) = << >>
    BY <1>3, <1>4 DEF FlattenSeq
  <2>. QED
    BY <1>2, <2>1, NothingThere
<1>5. CASE k # 0
  <2>1. PICK u \in [1 .. k -> Stream] :
          /\ FlattenSeq(ps) = u[k]
          /\ u[1] = c
          /\ \A i \in 2 .. k : u[i] = u[i - 1] \o c
    <3>1. ps # << >> /\ ps \in Seq(Seq(Words \cup Headers))
      BY <1>3, <1>5, EmptySeq DEF Stream
    <3>2. PICK u \in [1 .. Len(ps) -> Stream] :
            /\ FlattenSeq(ps) = u[Len(ps)]
            /\ u[1] = ps[1]
            /\ \A i \in 2 .. Len(ps) : u[i] = u[i - 1] \o ps[i]
      BY <3>1, FlattenSteps DEF Stream
    <3>3. 1 \in 1 .. k /\ \A i \in 2 .. k : i \in 1 .. k
      BY <1>5
    <3>. QED
      BY <1>3, <3>2, <3>3
  <2>. DEFINE I == {j \in Nat : j + 1 <= k => Good(u[j + 1])}
  <2>2. 0 \in I
    BY <1>1, <2>1
  <2>3. ASSUME NEW j \in I PROVE j + 1 \in I
    <3>. SUFFICES ASSUME (j + 1) + 1 <= k PROVE Good(u[(j + 1) + 1])
      OBVIOUS
    <3>1. /\ (j + 1) + 1 \in 2 .. k /\ ((j + 1) + 1) - 1 = j + 1
          /\ j + 1 <= k /\ j + 1 \in 1 .. k
      OBVIOUS
    <3>2. /\ u[(j + 1) + 1] = u[j + 1] \o c
          /\ u[j + 1] \in Stream /\ Good(u[j + 1])
      BY <2>1, <3>1
    <3>. QED
      BY <1>1, <3>2, JoinedStream
  <2>4. I = Nat
    <3>1. I \subseteq Nat
      OBVIOUS
    <3>. HIDE DEF I
    <3>. QED
      BY <2>2, <2>3, <3>1, InductionOverSet
  <2>5. Good(u[k])
    <3>1. k - 1 \in Nat /\ (k - 1) + 1 = k
      BY <1>5
    <3>2. k - 1 \in I
      BY <2>4, <3>1
    <3>3. Good(u[(k - 1) + 1])
      <4>. HIDE DEF Good
      <4>. QED
        BY <3>1, <3>2
    <3>. QED
      BY <3>1, <3>3
  <2>6. Good(u[k]) /\ u[k] \in Stream
    <3>1. k \in 1 .. k
      BY <1>5
    <3>2. u[k] \in Stream
      BY <2>1, <3>1
    <3>. QED
      BY <2>5, <3>2
  <2>. QED
    BY <1>2, <2>1, <2>6 DEF Packeted
<1>. QED
  BY <1>4, <1>5

\* What the server says of a directory.
LEMMA DirListed ==
  ASSUME Inv, NEW d \in Dirs, ListDir(d), Request1 \in Headers
  PROVE  /\ toClient' \in Stream /\ Framed(toClient')
         /\ hdr' \in Headers /\ serving' \in BOOLEAN
         /\ toClient = << >> => /\ toClient' # << >>
                                /\ toClient'[1].type = OK /\ toClient'[1].code = 1
                                /\ Packeted(After(toClient', 1))
<1>1. Shape /\ TypeOK
  BY InvParts
<1>2. CASE Stuck(d)
  <2>1. PICK k \in 0 .. (1 + Cardinality(Shown(d))) \div DATASIZE :
          Reply(<<Hdr(OK, 1, 0)>> \o FullPackets(k))
    BY <1>2 DEF ListDir
  <2>2. k \in Nat /\ serving' = FALSE /\ hdr' = Request1
    BY <1>2 DEF ListDir
  <2>. DEFINE p == FullPackets(k)
              m == <<Hdr(OK, 1, 0)>> \o p
  <2>3. p \in Stream /\ Packeted(p)
    BY <2>2, FullPacketsProperties
  <2>4. Reply(m)
    BY <2>1
  <2>. HIDE DEF p
  <2>5. /\ m \in Stream /\ Framed(m) /\ m # << >>
        /\ m[1].type = OK /\ m[1].code = 1 /\ After(m, 1) = p
    BY <2>3, Announced DEF Packeted
  <2>. HIDE DEF m
  <2>6. toClient' \in Stream /\ Framed(toClient') /\ (toClient = << >> => toClient' = m)
    BY <1>1, <2>4, <2>5, Replied
  <2>. QED
    BY <2>2, <2>3, <2>5, <2>6
<1>3. CASE ~Stuck(d)
  <2>. DEFINE n == 2 + Cardinality(Present(d))
              p == Packets(JunkWords(n), 0)
              m == <<Hdr(OK, 1, 0)>> \o p
  <2>1. Reply(m) /\ hdr' = LastOf(JunkWords(n), 0) /\ UNCHANGED serving
    BY <1>3 DEF ListDir, Listing
  <2>2. n \in Nat
    <3>1. IsFiniteSet(Present(d))
      BY FtpAssumption, FS_Subset DEF Present
    <3>2. Cardinality(Present(d)) \in Nat
      BY <3>1, FS_CardinalityType
    <3>. QED
      BY <3>2
  <2>. HIDE DEF n
  <2>3. JunkWords(n) \in Seq(Words)
    BY <2>2, JunkSeqs
  <2>4. /\ p \in Stream /\ Framed(p) /\ Aligned(p) /\ DataOnly(p) /\ Marked(p)
        /\ LastOf(JunkWords(n), 0) \in Headers
    BY <2>3, PacketsProperties
  <2>. HIDE DEF p
  <2>5. /\ m \in Stream /\ Framed(m) /\ m # << >>
        /\ m[1].type = OK /\ m[1].code = 1 /\ After(m, 1) = p
    BY <2>4, Announced
  <2>. HIDE DEF m
  <2>6. toClient' \in Stream /\ Framed(toClient') /\ (toClient = << >> => toClient' = m)
    BY <1>1, <2>1, <2>5, Replied
  <2>. QED
    BY <1>1, <2>1, <2>4, <2>5, <2>6 DEF TypeOK, Packeted
<1>. QED
  BY <1>2, <1>3

LEMMA ServeListKeeps ==
  ASSUME Inv, ServeList
  PROVE  Inv'
<1>1. /\ Shape /\ TypeOK /\ FilesOK
      /\ Serves(LIST) /\ TakesAll(Request1.length)
      /\ ServerKeeps /\ UNCHANGED <<files, cwd, fp>>
  BY InvParts DEF ServeList
<1>2. toServer # << >> /\ LIST \in Requests \ {RETR, STOR} /\ LIST \in Requests
  BY <1>1, CodesDiffer DEF Serves
<1>3. Request1 \in Headers
  BY <1>1, <1>2, HeadOfRequests
<1>. DEFINE Right(q) ==
              \/ /\ q # << >> /\ q[1].type = OK /\ q[1].code = 1
                 /\ Packeted(After(q, 1))
              \/ Len(q) = 1 /\ q[1].type # OK
              \/ q # << >> /\ q[1].type = DATA
            Listed == /\ toClient' \in Stream /\ Framed(toClient')
                      /\ hdr' \in Words \cup Headers /\ serving' \in BOOLEAN
                      /\ toClient = << >> => Right(toClient')
<1>4. ASSUME NEW d \in Dirs, ListDir(d) PROVE Listed
  BY <1>3, <1>4, DirListed
<1>5. ASSUME NEW c \in {0, 1}, ListError(c) PROVE Listed
  <2>1. Says(FILE_ERR, c) /\ hdr' = Request1 /\ UNCHANGED serving
    BY <1>5 DEF ListError
  <2>2. /\ toClient' \in Stream /\ Framed(toClient')
        /\ toClient = << >> => Len(toClient') = 1 /\ toClient'[1].type = FILE_ERR
    BY <1>1, <2>1, Said
  <2>. QED
    BY <1>1, <1>3, <2>1, <2>2, CodesDiffer DEF TypeOK
<1>6. ASSUME ListPlain PROVE Listed
  <2>1. PICK n \in 0 .. DATASIZE :
          Reply(Packet(0, JunkWords(n))) /\ hdr' = Hdr(DATA, 0, n)
    BY <1>6 DEF ListPlain
  <2>2. n \in Nat /\ hdr' \in Headers
    BY <2>1, FtpAssumption DEF Hdr, Headers
  <2>. DEFINE m == Packet(0, JunkWords(n))
  <2>3. JunkWords(n) \in Seq(Words)
    BY <2>2, JunkSeqs
  <2>4. m \in Stream /\ m # << >> /\ Framed(m) /\ m[1].type = DATA
    BY <2>3, PacketProperties
  <2>5. Reply(m) /\ UNCHANGED serving
    BY <1>6, <2>1 DEF ListPlain
  <2>. HIDE DEF m
  <2>6. toClient' \in Stream /\ Framed(toClient') /\ (toClient = << >> => toClient' = m)
    BY <1>1, <2>4, <2>5, Replied
  <2>. QED
    BY <1>1, <2>2, <2>4, <2>5, <2>6 DEF TypeOK
<1>. HIDE DEF Listed
<1>7. Listed
  <2>1. CASE Request1.length = 0
    <3>1. ListDir(cwd["server"]) /\ cwd["server"] \in Dirs
      BY <1>1, <2>1 DEF ServeList, TypeOK, Hosts
    <3>. QED
      BY <1>4, <3>1
  <2>2. CASE Request1.length # 0
    <3>1. NameIn \in Names
      BY <1>1, <1>2, <2>2, TakenRequest
    <3>2. Leads("server", NameIn) \subseteq Dirs
      BY <1>1, <3>1, LeadsToDirs
    <3>3. \/ ListError(0) \/ ListError(1) \/ ListPlain
          \/ \E d \in Leads("server", NameIn) : ListDir(d)
      BY <2>2 DEF ServeList
    <3>. QED
      BY <1>4, <1>5, <1>6, <3>2, <3>3
  <2>. QED
    BY <2>1, <2>2
<1>8. Shape'
  <2>1. /\ files' \in FileTypes /\ FilesOK' /\ cwd' \in [Hosts -> Dirs]
        /\ fp' = NoFile \/ fp' \in Dirs \X Names
    BY <1>1 DEF TypeOK, FileTypes, FilesOK, Sized
  <2>. QED
    BY <1>1, <1>2, <1>7, <2>1, ServedShape DEF Listed
<1>9. ASSUME Synced PROVE Answered(toClient)'
  <2>1. toClient = << >> /\ cpc \in Replies /\ TypeOf(cpc) = LIST
    BY <1>1, <1>2, <1>9, SyncedRequest
  <2>2. cpc' = "dir"
    BY <1>1, <2>1, TypesOfReplies, CodesDiffer DEF ServerKeeps, clientVars, Replies
  <2>. QED
    BY <1>7, <2>1, <2>2 DEF Answered, Listed
<1>10. Conversation' /\ Getting' /\ Putting'
  BY <1>1, <1>2, <1>9, AnsweredInSync
<1>. QED
  BY <1>8, <1>10 DEF Inv

-----------------------------------------------------------------------------
\* Here has the two parts that a place of a file has.
LEMMA Places ==
  /\ \A d, n : <<d, n>> # NoFile /\ <<d, n>>[1] = d /\ <<d, n>>[2] = n
  /\ TypeOK => \A h \in Hosts, n \in Names : Here(h, n) \in Dirs \X Names /\ Here(h, n) # NoFile
<1>1. ASSUME NEW d, NEW n
      PROVE  <<d, n>> # NoFile /\ <<d, n>>[1] = d /\ <<d, n>>[2] = n
  <2>1. Len(<<d, n>>) = 2 /\ Len(NoFile) = 1
    BY DEF NoFile
  <2>. QED
    BY <2>1
<1>2. ASSUME TypeOK, NEW h \in Hosts, NEW n \in Names
      PROVE  Here(h, n) \in Dirs \X Names
  BY <1>2 DEF TypeOK, Here
<1>. QED
  BY <1>1, <1>2 DEF Here

LEMMA ServeRetrKeeps ==
  ASSUME Inv, ServeRetr
  PROVE  Inv'
<1>. DEFINE e == Entry("server", NameIn)
            c == Request1.code
            p == Packets(e.data, c)
            m == <<Hdr(OK, 1, 0)>> \o p
<1>1. /\ Shape /\ TypeOK /\ FilesOK /\ CommandOK /\ Conversation /\ Putting
      /\ Serves(RETR) /\ TakesAll(Request1.length) /\ fp' = NoFile
      /\ ServerKeeps /\ UNCHANGED <<files, cwd, serving>>
  BY InvParts DEF ServeRetr
<1>2. toServer # << >> /\ RETR \in Requests
  BY <1>1, CodesDiffer DEF Serves
<1>3. /\ Request1 \in Headers /\ c \in {0, 1, 2, 5} /\ Request1.length = 1 /\ NameIn \in Names
  BY <1>1, <1>2, HeadOfRequests, TakenRequest
<1>4. e.kind \in Kinds /\ e.data \in Seq(Words)
  BY <1>1, <1>3, EntryTypes DEF Hosts, TypeOK, Entry
<1>5. UNCHANGED <<cpc, cmd, code, at, astray>>
  BY <1>1 DEF ServerKeeps, clientVars
<1>. DEFINE Right(q) ==
              \/ Len(q) = 1 /\ q[1].type = FILE_ERR
              \/ /\ q # << >> /\ q[1].type = OK /\ q[1].code = 1
                 /\ \/ e.kind = "dir" /\ After(q, 1) = << >>
                    \/ e.kind = "file" /\ After(q, 1) = p
<1>6. /\ toClient' \in Stream /\ Framed(toClient') /\ hdr' \in Headers
      /\ toClient = << >> => Right(toClient')
  <2>1. CASE CanRead(e) /\ e.kind = "dir"
    <3>1. Says(OK, 1) /\ hdr' = Hdr(RETR, 1, Request1.length)
      BY <2>1 DEF ServeRetr, Opened
    <3>2. Hdr(RETR, 1, Request1.length) \in Headers
      BY <1>3 DEF Hdr, Headers
    <3>3. /\ toClient' \in Stream /\ Framed(toClient')
          /\ toClient = << >> => /\ toClient' # << >> /\ Len(toClient') = 1
                                 /\ toClient'[1].type = OK /\ toClient'[1].code = 1
      BY <1>1, <3>1, Said
    <3>4. toClient = << >> => After(toClient', 1) = << >>
      <4>1. /\ After(toClient', 1) \in Stream
            /\ Len(toClient') = 1 => Len(After(toClient', 1)) = 0
        BY <3>3, AfterElements
      <4>. QED
        BY <3>3, <4>1, EmptySeq DEF Stream
    <3>. HIDE DEF e
    <3>. QED
      BY <2>1, <3>1, <3>2, <3>3, <3>4
  <2>2. CASE CanRead(e) /\ e.kind # "dir"
    <3>1. Reply(m) /\ hdr' = LastOf(e.data, c) /\ e.kind = "file"
      BY <2>2 DEF ServeRetr, Opened, CanRead
    <3>. HIDE DEF e, c
    <3>2. p \in Stream /\ Framed(p) /\ LastOf(e.data, c) \in Headers
      BY <1>3, <1>4, PacketsProperties
    <3>. HIDE DEF p
    <3>3. /\ m \in Stream /\ Framed(m) /\ m # << >>
          /\ m[1].type = OK /\ m[1].code = 1 /\ After(m, 1) = p
      BY <3>2, Announced
    <3>. HIDE DEF m
    <3>4. toClient' \in Stream /\ Framed(toClient') /\ (toClient = << >> => toClient' = m)
      BY <1>1, <3>1, <3>3, Replied
    <3>. QED
      BY <3>1, <3>2, <3>3, <3>4
  <2>3. CASE ~CanRead(e)
    <3>1. hdr' = Request1 /\ (Says(FILE_ERR, 1) \/ Says(FILE_ERR, 0))
      BY <2>3 DEF ServeRetr
    <3>2. /\ toClient' \in Stream /\ Framed(toClient')
          /\ toClient = << >> => Len(toClient') = 1 /\ toClient'[1].type = FILE_ERR
      BY <1>1, <3>1, Said
    <3>. QED
      BY <1>3, <3>1, <3>2
  <2>. QED
    BY <2>1, <2>2, <2>3
<1>7. Shape'
  <2>1. /\ files' \in FileTypes /\ FilesOK' /\ cwd' \in [Hosts -> Dirs]
        /\ serving' \in BOOLEAN /\ hdr' \in Words \cup Headers
    BY <1>1, <1>6 DEF TypeOK, FileTypes, FilesOK, Sized
  <2>. HIDE DEF Right
  <2>. QED
    BY <1>1, <1>2, <1>6, <2>1, ServedShape
<1>8. Synced' => Synced
  BY <1>5 DEF Synced
<1>9. ASSUME Synced
      PROVE  /\ toServer' = << >> /\ cpc = "get" /\ cmd[1] = "get"
             /\ code \in {0, 1} /\ Sized("client")'
             /\ c \in {0, 1} /\ e = Source /\ Right(toClient')
  <2>1. /\ toClient = << >> /\ toServer' = << >> /\ cpc \in Replies /\ TypeOf(cpc) = RETR
        /\ cpc = "get" => NameIn = NameSent /\ c \in {0, 1}
    BY <1>1, <1>2, <1>9, SyncedRequest
  <2>2. cpc = "get" /\ cmd[1] = "get"
    BY <1>1, <2>1, TypesOfReplies, CodesDiffer DEF CommandOK, Replies
  <2>3. e = Source
    BY <2>1, <2>2 DEF Source, NameSent
  <2>4. code \in {0, 1} /\ Sized("client")
    BY <1>1, <1>9 DEF Conversation, Putting
  <2>5. Right(toClient')
    BY <1>6, <2>1
  <2>6. Sized("client")'
    BY <1>1, <2>4 DEF Sized
  <2>. HIDE DEF Right, e, c
  <2>. QED
    BY <2>1, <2>2, <2>3, <2>4, <2>5, <2>6
<1>. HIDE DEF e, c
<1>10. c \in {0, 1} => /\ Packeted(p) /\ DataIn(p) = e.data
  BY <1>4, PacketsProperties DEF Packeted
<1>. HIDE DEF p
<1>11. ASSUME Synced PROVE Answered(toClient)'
  <2>1. cpc' = "get"
    BY <1>5, <1>9, <1>11
  <2>2. \/ Len(toClient') = 1 /\ toClient'[1].type # OK
        \/ /\ toClient' # << >> /\ toClient'[1].type = OK /\ toClient'[1].code = 1
           /\ Packeted(After(toClient', 1))
    BY <1>9, <1>10, <1>11, NothingThere, CodesDiffer
  <2>. QED
    BY <2>1, <2>2 DEF Answered
<1>12. Conversation'
  BY <1>5, <1>8, <1>9, <1>11 DEF Conversation, Replies
<1>13. Putting'
  BY <1>5, <1>8, <1>9 DEF Putting
<1>14. Getting'
  <2>1. SUFFICES ASSUME Synced', toClient'[1].type = OK
                 PROVE  Fetched(<< >>, After(toClient, 1))'
    BY <1>5, <1>8, <1>9 DEF Getting
  <2>2. Source' = Source
    BY <1>1, <1>5 DEF Source, Entry
  <2>3. CASE e.kind = "dir" /\ After(toClient', 1) = << >>
    BY <1>8, <1>9, <2>1, <2>2, <2>3 DEF Fetched
  <2>4. CASE e.kind = "file" /\ After(toClient', 1) = p
    <3>1. DataIn(p) = e.data /\ e = Source
      BY <1>8, <1>9, <1>10, <2>1
    <3>2. << >> \o e.data = e.data
      BY <1>4
    <3>. QED
      BY <2>2, <2>4, <3>1, <3>2 DEF Fetched
  <2>. QED
    BY <1>8, <1>9, <2>1, <2>3, <2>4, CodesDiffer
<1>. QED
  BY <1>7, <1>12, <1>13, <1>14 DEF Inv

LEMMA ServeStorKeeps ==
  ASSUME Inv, ServeStor
  PROVE  Inv'
<1>. DEFINE e == Entry("server", NameIn)
            d == cwd["server"]
            n == NameIn
<1>1. /\ Shape /\ TypeOK /\ FilesOK /\ CommandOK /\ Conversation /\ Putting
      /\ Serves(STOR) /\ TakesAll(Request1.length) /\ hdr' = Request1
      /\ ServerKeeps /\ UNCHANGED <<cwd, serving>>
  BY InvParts DEF ServeStor
<1>2. toServer # << >> /\ STOR \in Requests
  BY <1>1, CodesDiffer DEF Serves
<1>3. /\ Request1 \in Headers /\ Request1.length = 1 /\ n \in Names
  BY <1>1, <1>2, HeadOfRequests, TakenRequest
<1>4. d \in Dirs /\ "server" \in Hosts /\ files \in FileTypes
  BY <1>1 DEF TypeOK, Hosts, FileTypes
<1>5. UNCHANGED <<cpc, cmd, code, at, astray>>
  BY <1>1 DEF ServerKeeps, clientVars
<1>6. \/ /\ CanWrite(e) /\ Says(OK, 2)
         /\ files' = Put(files, "server", <<d, n>>, << >>) /\ fp' = <<d, n>>
      \/ /\ ~CanWrite(e) /\ fp' = NoFile /\ UNCHANGED files
         /\ Says(FILE_ERR, 1) \/ Says(UNKWN_ERR, 5)
  BY DEF ServeStor, Here
<1>. HIDE DEF e, d, n
<1>7. /\ toClient' \in Stream /\ Framed(toClient')
      /\ toClient = << >> =>
           /\ Len(toClient') = 1
           /\ ~CanWrite(e) => toClient'[1].type # OK
  BY <1>1, <1>6, Said, CodesDiffer
<1>8. /\ files' \in FileTypes /\ FilesOK'
      /\ Sized("client") => Sized("client")'
      /\ CanWrite(e) => files'["server"][d][n].data = << >> /\ fp' = <<d, n>>
  <2>1. CASE CanWrite(e)
    <3>. DEFINE h == "server"
                none == << >>
    <3>0. /\ Shape /\ d \in Dirs /\ n \in Names
          /\ h \in Hosts /\ none \in Seq(Words) /\ Len(none) <= MaxSize /\ h = "server"
          /\ files' = Put(files, h, <<d, n>>, none)
      BY <1>1, <1>3, <1>4, <1>6, <2>1, FtpAssumption
    <3>. HIDE DEF h, none
    <3>2. /\ files' \in FileTypes /\ files'[h][d][n].data = none
          /\ FilesOK' /\ (Sized("client") => Sized("client")')
      BY <3>0, FilePut
    <3>. QED
      BY <1>6, <2>1, <3>2 DEF h, none
  <2>2. CASE ~CanWrite(e)
    BY <1>1, <1>4, <1>6, <2>2 DEF FilesOK, Sized
  <2>. QED
    BY <2>1, <2>2
<1>9. fp' = NoFile \/ fp' \in Dirs \X Names
  BY <1>3, <1>4, <1>6
<1>10. Shape'
  <2>1. /\ cwd' \in [Hosts -> Dirs]
        /\ serving' \in BOOLEAN /\ hdr' \in Words \cup Headers
    BY <1>1, <1>3 DEF TypeOK
  <2>. QED
    BY <1>1, <1>2, <1>7, <1>8, <1>9, <2>1, ServedShape
<1>11. Synced' => Synced
  BY <1>5 DEF Synced
<1>12. ASSUME Synced
       PROVE  /\ toClient = << >> /\ toServer' = << >> /\ cpc = "put" /\ cmd[1] = "put"
              /\ code \in {0, 1} /\ Sized("client")' /\ n = cmd[3] /\ at = -1
  <2>1. /\ toClient = << >> /\ toServer' = << >> /\ cpc \in Replies /\ TypeOf(cpc) = STOR
        /\ cpc = "put" => n = NameSent
    BY <1>1, <1>2, <1>12, SyncedRequest DEF n
  <2>2. cpc = "put" /\ cmd[1] = "put" /\ at = -1
    BY <1>1, <2>1, TypesOfReplies, CodesDiffer DEF CommandOK, Replies
  <2>3. n = cmd[3]
    BY <2>1, <2>2 DEF NameSent
  <2>4. code \in {0, 1} /\ Sized("client")
    BY <1>1, <1>12 DEF Conversation, Putting
  <2>. QED
    BY <1>8, <2>1, <2>2, <2>3, <2>4
<1>13. ASSUME Synced PROVE Answered(toClient)'
  <2>1. cpc' = "put" /\ Len(toClient') = 1
    BY <1>5, <1>7, <1>12, <1>13
  <2>. QED
    BY <2>1 DEF Answered
<1>14. Conversation'
  BY <1>5, <1>11, <1>12, <1>13 DEF Conversation, Replies
<1>15. Getting'
  BY <1>5, <1>11, <1>12 DEF Getting
<1>16. Putting'
  <2>1. SUFFICES ASSUME Synced', toClient'[1].type = OK
                 PROVE  /\ Entry("server", cmd[3])'.data = << >>
                        /\ fp' = Target'
    BY <1>5, <1>11, <1>12 DEF Putting
  <2>2. CanWrite(e) /\ cmd'[3] = n /\ cwd' = cwd
    BY <1>1, <1>5, <1>7, <1>11, <1>12, <2>1
  <2>. QED
    BY <1>8, <2>2 DEF Entry, Target, Here, d
<1>. QED
  BY <1>10, <1>14, <1>15, <1>16 DEF Inv

-----------------------------------------------------------------------------
\* What the server stores.
LEMMA DataStored ==
  ASSUME Shape, NEW c \in {0, 1, 2, 5}, NEW data \in Seq(Words), Stored(c, data), UNCHANGED cwd
  PROVE  /\ files' \in FileTypes /\ FilesOK' /\ serving' \in BOOLEAN
         /\ fp' = NoFile \/ fp' \in Dirs \X Names
         /\ files'["client"] = files["client"]
         /\ \A n \in Names : fp = Here("server", n) =>
              /\ fp' = IF c = 0 THEN NoFile ELSE Here("server", n)
              /\ LET old == Entry("server", n).data
                 IN  Len(old \o data) <= MaxSize =>
                       files'["server"][cwd["server"]][n].data = old \o data
<1>1. /\ TypeOK /\ FilesOK /\ files \in FileTypes
      /\ "server" \in Hosts /\ "client" \in Hosts /\ MaxSize \in Nat
  BY FtpAssumption DEF Shape, TypeOK, Hosts, FileTypes
<1>2. CASE fp = NoFile
  <2>1. serving' = FALSE /\ UNCHANGED <<files, fp>>
    BY <1>2 DEF Stored
  <2>2. \A n \in Names : fp # Here("server", n)
    BY <1>1, <1>2, Places
  <2>. QED
    BY <1>1, <1>2, <2>1, <2>2 DEF FilesOK, Sized
<1>3. CASE fp # NoFile
  <2>1. fp \in Dirs \X Names
    BY <1>1, <1>3 DEF TypeOK
  <2>2. PICK d \in Dirs, n \in Names : fp = <<d, n>>
    BY <2>1
  <2>3. fp[1] = d /\ fp[2] = n
    BY <2>2
  <2>. DEFINE old == files["server"][d][n].data
              all == old \o data
              size == Min({MaxSize, Len(all)})
              text == SubSeq(all, 1, size)
              h == "server"
  <2>4. /\ files' = Put(files, "server", <<d, n>>, text)
        /\ fp' = IF c = 0 THEN NoFile ELSE Here("server", n)
        /\ UNCHANGED serving
    BY <1>3, <2>2, <2>3 DEF Stored
  <2>5. old \in Seq(Words)
    BY <1>1, EntryTypes
  <2>. HIDE DEF old
  <2>6. all \in Seq(Words) /\ Len(all) \in Nat
    BY <2>5
  <2>. HIDE DEF all
  <2>7. size \in Nat /\ size <= MaxSize /\ size <= Len(all)
        /\ (Len(all) <= MaxSize => size = Len(all))
    BY <1>1, <2>6, MinOfTwo
  <2>. HIDE DEF size
  <2>8. /\ text \in Seq(Words) /\ Len(text) = size
        /\ size = Len(all) => text = all
    <3>1. 1 \in Int /\ size \in Int /\ \A j \in 1 .. size : all[j] \in Words
      BY <2>6, <2>7
    <3>2. /\ SubSeq(all, 1, size) \in Seq(Words)
          /\ Len(SubSeq(all, 1, size)) = IF 1 <= size THEN size - 1 + 1 ELSE 0
      BY <3>1, SubSeqProperties
    <3>3. SubSeq(all, 1, Len(all)) = all
      BY <2>6
    <3>4. Len(text) = size
      BY <2>7, <3>2
    <3>. QED
      BY <3>2, <3>3, <3>4
  <2>. HIDE DEF text
  <2>9. /\ Shape /\ d \in Dirs /\ n \in Names /\ text \in Seq(Words) /\ h \in Hosts /\ files' = Put(files, h, <<d, n>>, text) /\ h = "server"
        /\ Len(text) <= MaxSize
    BY <1>1, <2>4, <2>7, <2>8
  <2>. HIDE DEF h
  <2>10. /\ files' \in FileTypes /\ files'[h][d][n].data = text /\ FilesOK'
    <3>1. files' \in FileTypes /\ files'[h][d][n].data = text
      BY <2>9, FilePut
    <3>2. h = "client" \/ Len(text) <= MaxSize => FilesOK'
      BY <2>9, FilePut
    <3>. QED
      BY <2>9, <3>1, <3>2
  <2>11. files'["client"] = files["client"]
    BY <1>1, <2>4 DEF Put, FileTypes
  <2>12. serving' \in BOOLEAN
    BY <1>1, <2>4 DEF TypeOK
  <2>13. fp' = NoFile \/ fp' \in Dirs \X Names
    BY <1>1, <2>4, Places
  <2>14. ASSUME NEW k \in Names, fp = Here("server", k)
         PROVE  d = cwd["server"] /\ n = k
    BY <2>2, <2>14, Places DEF Here
  <2>15. ASSUME NEW k \in Names, fp = Here("server", k)
         PROVE  /\ fp' = IF c = 0 THEN NoFile ELSE Here("server", k)
                /\ old = Entry("server", k).data
                /\ Len(all) <= MaxSize =>
                     files'["server"][cwd["server"]][k].data = all
    BY <2>4, <2>7, <2>8, <2>9, <2>10, <2>14, <2>15 DEF Entry, old
  <2>. QED
    BY <2>10, <2>11, <2>12, <2>13, <2>15 DEF all
<1>. QED
  BY <1>2, <1>3

LEMMA ServeDataKeeps ==
  ASSUME Inv, ServeData
  PROVE  Inv'
<1>. DEFINE c == Request1.code
            data == Payload(toServer)
            rest == After(toServer, 1 + Request1.length)
<1>1. /\ Shape /\ TypeOK /\ FilesOK /\ CommandOK /\ StreamsOK
      /\ Conversation /\ Getting /\ Putting
      /\ Serves(DATA) /\ TakesAll(Request1.length) /\ Stored(c, data) /\ hdr' = Request1
      /\ ServerKeeps /\ UNCHANGED <<toClient, cwd>>
  BY InvParts DEF ServeData
<1>2. toServer # << >> /\ Request1.type = DATA
  BY <1>1 DEF Serves, Request1
<1>3. /\ toServer \in Stream /\ Request1 = toServer[1] /\ Request1 \in Headers
      /\ IsHeader(Request1) /\ Request1.length \in Nat /\ c \in {0, 1, 2, 5}
      /\ 1 + Request1.length <= Len(toServer)
  BY <1>1, <1>2, HeadOfRequests
<1>4. UNCHANGED <<cpc, cmd, code, at, astray>>
  BY <1>1 DEF ServerKeeps, clientVars
<1>5. Framed(toServer) /\ Aligned(toServer) /\ Asking(toServer)
  BY <1>1 DEF StreamsOK
<1>6. /\ data \in Seq(Words)
      /\ DataIn(toServer) = data \o DataIn(rest)
  BY <1>2, <1>3, <1>5, TakenPacket
<1>7. /\ toServer' = rest /\ rest \in Stream
      /\ Len(rest) = Len(toServer) - (1 + Request1.length)
  BY <1>1, <1>2, RestOfRequests
<1>. HIDE DEF c, data
<1>8. /\ files' \in FileTypes /\ FilesOK' /\ serving' \in BOOLEAN
      /\ fp' = NoFile \/ fp' \in Dirs \X Names
      /\ files'["client"] = files["client"]
      /\ \A n \in Names : fp = Here("server", n) =>
           /\ fp' = IF c = 0 THEN NoFile ELSE Here("server", n)
           /\ LET old == Entry("server", n).data
              IN  Len(old \o data) <= MaxSize =>
                    files'["server"][cwd["server"]][n].data = old \o data
  BY <1>1, <1>3, <1>6, DataStored, Zenon
<1>9. Shape'
  <2>1. /\ cwd' \in [Hosts -> Dirs] /\ hdr' \in Words \cup Headers
        /\ toClient' \in Stream /\ Framed(toClient')
    BY <1>1, <1>3 DEF TypeOK, StreamsOK, Stream
  <2>. QED
    BY <1>1, <1>2, <1>8, <2>1, ServedShape
<1>10. Synced' => Synced
  BY <1>4 DEF Synced
<1>11. ASSUME Synced
       PROVE  cpc \notin {"listing", "data"} /\ (cpc \in Replies => toClient = << >> /\ Asked(toServer))
              /\ code \in {0, 1} /\ Sized("client")'
  <2>1. Sized("client")
    BY <1>1, <1>11 DEF Putting
  <2>. QED
    BY <1>1, <1>2, <1>8, <1>11, <2>1 DEF Conversation, Sized
<1>12. ASSUME Synced, cpc \in Replies
       PROVE  Asked(toServer)'
  <2>1. PICK k \in 1 .. Len(toServer) :
          /\ toServer[k].type = TypeOf(cpc)
          /\ k + toServer[k].length = Len(toServer)
          /\ \A i \in 1 .. Len(toServer) :
               IsHeader(toServer[i]) => i = k \/ toServer[i].type = DATA
          /\ cpc \in {"get", "put"} => /\ toServer[k].length = 1
                                       /\ toServer[k + 1] = Word(NameSent)
          /\ cpc = "get" => toServer[k].code \in {0, 1}
    BY <1>11, <1>12 DEF Asked
  <2>2. TypeOf(cpc) # DATA /\ TypeOf(cpc) # 0
    BY <1>12, TypesOfReplies, CodesDiffer DEF Replies
  <2>3. PICK n \in Nat : n = 1 + Request1.length
    BY <1>3
  <2>4. \A i \in 2 .. n : ~IsHeader(toServer[i])
    BY <1>2, <1>3, <1>5, <2>3, RestAligned
  <2>5. IsHeader(toServer[k]) /\ k # 1
    BY <1>2, <1>3, <2>1, <2>2 DEF IsHeader
  <2>6. k > n
    BY <2>1, <2>3, <2>4, <2>5
  <2>7. PICK j \in Nat : j = k - n
    BY <2>1, <2>3, <2>6
  <2>8. /\ rest = After(toServer, n) /\ Len(rest) = Len(toServer) - n
        /\ \A i \in 1 .. Len(rest) : n + i \in 1 .. Len(toServer) /\ rest[i] = toServer[n + i]
    BY <1>3, <1>7, <2>3, AfterElements
  <2>. HIDE DEF rest
  <2>9. Len(toServer) \in Nat
    BY <1>3, Elements
  <2>10. j \in 1 .. Len(rest) /\ n + j = k
    <3>. DEFINE a == Len(rest)
                b == Len(toServer)
    <3>1. a = b - n /\ b \in Nat /\ k \in 1 .. b
      BY <2>1, <2>8, <2>9
    <3>. HIDE DEF a, b
    <3>2. j \in 1 .. a /\ n + j = k
      BY <2>3, <2>6, <2>7, <3>1
    <3>. QED
      BY <3>2 DEF a
  <2>11. rest[j] = toServer[k]
    BY <2>8, <2>10
  <2>. DEFINE l == toServer[k].length
  <2>12. j + l = Len(rest)
    <3>1. k + l = Len(toServer) /\ l \in Nat
      <4>1. toServer[k] \in Words \cup Headers
        BY <1>3, <2>1, Elements
      <4>2. l \in Nat
        BY <2>5, <4>1, HeaderLength
      <4>. QED
        BY <2>1, <4>2
    <3>. HIDE DEF l
    <3>. DEFINE a == Len(rest)
                b == Len(toServer)
    <3>2. a = b - n /\ b \in Nat /\ k + l = b /\ l \in Nat /\ n + j = k
      BY <2>8, <2>9, <2>10, <3>1
    <3>. HIDE DEF a, b
    <3>3. j + l = a
      BY <3>2
    <3>. QED
      BY <3>3 DEF a
  <2>13. ASSUME NEW i \in 1 .. Len(rest), IsHeader(rest[i])
         PROVE  i = j \/ rest[i].type = DATA
    <3>1. rest[i] = toServer[n + i] /\ n + i \in 1 .. Len(toServer)
      BY <2>8
    <3>2. n + i = k \/ toServer[n + i].type = DATA
      BY <2>1, <2>13, <3>1
    <3>3. n + i = k => i = j
      BY <2>7, <2>10
    <3>. QED
      BY <3>1, <3>2, <3>3
  <2>14. ASSUME cpc \in {"get", "put"}
         PROVE  rest[j].length = 1 /\ rest[j + 1] = Word(NameSent)
    <3>1. l = 1 /\ toServer[k + 1] = Word(NameSent)
      BY <2>1, <2>14
    <3>. HIDE DEF l
    <3>4. j + 1 = Len(rest)
      BY <2>12, <3>1
    <3>5. j \in Nat /\ n \in Nat /\ n + j = k
      BY <2>3, <2>7, <2>10
    <3>6. n + (j + 1) = k + 1
      BY <3>5
    <3>7. j + 1 \in 1 .. j + 1
      BY <3>5
    <3>2. j + 1 \in 1 .. Len(rest) /\ n + (j + 1) = k + 1
      BY <3>4, <3>6, <3>7
    <3>3. rest[j + 1] = toServer[n + (j + 1)]
      BY <2>8, <3>2
    <3>. QED
      BY <2>11, <3>1, <3>2, <3>3 DEF l
  <2>15. NameSent' = NameSent /\ cpc' = cpc /\ toServer' = rest
    BY <1>4, <1>7 DEF NameSent
  <2>16. \E i \in 1 .. Len(rest) :
           /\ rest[i].type = TypeOf(cpc)
           /\ i + rest[i].length = Len(rest)
           /\ \A i2 \in 1 .. Len(rest) : IsHeader(rest[i2]) => i2 = i \/ rest[i2].type = DATA
           /\ cpc \in {"get", "put"} => rest[i].length = 1 /\ rest[i + 1] = Word(NameSent)
           /\ cpc = "get" => rest[i].code \in {0, 1}
    BY <2>1, <2>10, <2>11, <2>12, <2>13, <2>14
  <2>. QED
    BY <2>15, <2>16 DEF Asked
<1>13. Conversation'
  <2>1. ASSUME Synced, cpc \in {"prompt", "send"}
        PROVE  toClient' = << >> /\ DataOnly(toServer')
    <3>1. toClient = << >> /\ DataOnly(toServer)
      BY <1>1, <2>1 DEF Conversation
    <3>2. 1 + Request1.length \in Nat
      BY <1>3
    <3>. QED
      BY <1>1, <1>3, <1>7, <3>1, <3>2, RestOfStream
  <2>. QED
    BY <1>1, <1>4, <1>10, <1>11, <1>12, <2>1 DEF Conversation
<1>14. Getting'
  <2>1. ASSUME Synced PROVE ~(cpc = "get" /\ toClient # << >>) /\ cpc # "data"
    BY <1>11, <2>1 DEF Replies
  <2>. QED
    BY <1>1, <1>4, <1>10, <2>1 DEF Getting
<1>15. ASSUME Synced, cmd[1] = "put", at \in Nat
       PROVE  /\ Stores' /\ Marked(toServer')
              /\ cpc = "send" => Continued(toServer')
              /\ cpc = "send" \/ toServer' # << >> => fp' = Target'
  <2>1. /\ Stores /\ Marked(toServer) /\ (cpc = "send" => Continued(toServer))
        /\ fp = Target /\ cmd[2] \in Names /\ cmd[3] \in Names
    BY <1>1, <1>2, <1>15 DEF Putting, CommandOK
  <2>2. 1 + Request1.length \in Nat
    BY <1>3
  <2>3. Marked(toServer') /\ (cpc = "send" => Continued(toServer'))
    BY <1>3, <1>7, <2>1, <2>2, RestOfStream
  <2>4. 1 \in 1 .. Len(toServer)
    BY <1>2, <1>3, EmptySeq DEF Stream
  <2>5. c = 0 => toServer' = << >> /\ cpc # "send"
    <3>1. c = 0 => 1 + Request1.length = Len(toServer)
      BY <1>3, <2>1, <2>4 DEF Marked, c
    <3>2. c = 0 => cpc # "send"
      BY <1>3, <2>1, <2>4 DEF Continued, c
    <3>3. c = 0 => Len(rest) = 0
      BY <1>3, <1>7, <3>1
    <3>. QED
      BY <1>7, <3>2, <3>3, EmptySeq DEF Stream
  <2>6. fp = Here("server", cmd[3]) /\ Target' = Target
    BY <1>1, <1>4, <2>1 DEF Target, Here
  <2>7. cpc = "send" \/ toServer' # << >> => fp' = Target'
    BY <1>8, <2>1, <2>5, <2>6 DEF Target
  <2>8. Stores'
    <3>. DEFINE source == Entry("client", cmd[2])
                old == Entry("server", cmd[3]).data
                q == DataIn(rest)
    <3>1. Entry("client", cmd[2])' = source
      BY <1>1, <1>4, <1>8, Zenon DEF Entry
    <3>2. SUFFICES ASSUME source.kind = "file"
                   PROVE  /\ at <= Len(source.data)
                          /\ files'["server"][cwd["server"]][cmd[3]].data \o DataIn(toServer')
                               = SubSeq(source.data, 1, at)
      BY <1>1, <1>4, <3>1, Zenon DEF Stores, Entry
    <3>3. /\ at <= Len(source.data)
          /\ old \o DataIn(toServer) = SubSeq(source.data, 1, at)
      BY <2>1, <3>2 DEF Stores
    <3>4. /\ old \in Stream /\ data \in Stream /\ q \in Stream /\ source.data \in Seq(Words)
      <4>1. old \in Seq(Words) /\ source.data \in Seq(Words)
        BY <1>1, <2>1, EntryTypes DEF Hosts, TypeOK
      <4>. QED
        BY <1>6, <1>7, <4>1, DataInType, WordSeqs DEF Stream
    <3>5. old \o (data \o q) = SubSeq(source.data, 1, at)
      BY <1>6, <3>3
    <3>6. Len(source.data) <= MaxSize
      <4>1. Sized("client") /\ cwd["client"] \in Dirs
        BY <1>1, <1>15 DEF Putting, TypeOK, Hosts
      <4>. QED
        BY <2>1, <4>1 DEF Sized, Entry
    <3>. HIDE DEF old, q, source
    <3>7. (old \o data) \o q = SubSeq(source.data, 1, at)
      <4>1. (old \o data) \o q = old \o (data \o q)
        BY <3>4, ConcatAssociative DEF Stream
      <4>. QED
        BY <3>5, <4>1
    <3>8. Len(SubSeq(source.data, 1, at)) = at
      BY <1>15, <3>3, <3>4
    <3>9. Len(old \o data) <= MaxSize
      <4>1. old \o data \in Stream /\ Len(old \o data) \in Nat /\ Len(q) \in Nat
        BY <3>4, JoinElements, Elements
      <4>2. Len((old \o data) \o q) = Len(old \o data) + Len(q)
        BY <3>4, <4>1, JoinElements
      <4>3. Len(source.data) \in Nat /\ MaxSize \in Nat
        BY <3>4, FtpAssumption
      <4>4. Len(old \o data) + Len(q) = at
        BY <3>7, <3>8, <4>2
      <4>. DEFINE a == Len(old \o data)
                  b == Len(q)
                  m == Len(source.data)
      <4>5. a \in Nat /\ b \in Nat /\ m \in Nat /\ a + b = at /\ at <= m /\ m <= MaxSize
        BY <3>3, <3>6, <4>1, <4>3, <4>4
      <4>. HIDE DEF a, b, m
      <4>6. a <= MaxSize
        BY <1>15, <4>3, <4>5
      <4>. QED
        BY <4>6 DEF a
    <3>10. files'["server"][cwd["server"]][cmd[3]].data = old \o data
      BY <1>8, <2>1, <2>6, <3>9 DEF old
    <3>. QED
      BY <1>7, <3>3, <3>7, <3>10, Zenon DEF q
  <2>. QED
    BY <2>3, <2>7, <2>8
<1>16. Putting'
  <2>1. ASSUME Synced PROVE ~(cpc = "put" /\ toClient # << >>)
    BY <1>11, <2>1 DEF Replies
  <2>. QED
    BY <1>1, <1>4, <1>10, <1>11, <1>15, <2>1 DEF Putting
<1>. QED
  BY <1>9, <1>13, <1>14, <1>16 DEF Inv

LEMMA AtEofKeeps ==
  ASSUME Inv, StoreAgain \/ EndsAtEof
  PROVE  Inv'
<1>1. /\ Shape /\ TypeOK /\ FilesOK /\ CommandOK /\ StreamsOK
      /\ cpc = "gone" /\ ServerKeeps /\ UNCHANGED <<toServer, toClient, cwd, hdr>>
  BY InvParts DEF StoreAgain, EndsAtEof, AtEof
<1>2. UNCHANGED <<cpc, cmd, code, at, astray>>
  BY <1>1 DEF ServerKeeps, clientVars
<1>3. /\ files' \in FileTypes /\ FilesOK' /\ serving' \in BOOLEAN
      /\ fp' = NoFile \/ fp' \in Dirs \X Names
  <2>1. CASE StoreAgain
    <3>1. hdr \in Words \cup Headers /\ hdr.type = DATA /\ Stored(hdr.code, JunkWords(hdr.length))
      BY <1>1, <2>1 DEF StoreAgain, TypeOK
    <3>2. hdr \in Headers /\ hdr.length \in Nat /\ hdr.code \in {0, 1, 2, 5}
      BY <3>1, HeaderTypes, HeaderLength
    <3>. DEFINE data == JunkWords(hdr.length)
                c == hdr.code
    <3>3. data \in Seq(Words) /\ c \in {0, 1, 2, 5} /\ Stored(c, data)
      BY <3>1, <3>2, JunkSeqs
    <3>. HIDE DEF data, c
    <3>. QED
      BY <1>1, <3>3, DataStored
  <2>2. CASE EndsAtEof
    BY <1>1, <2>2 DEF EndsAtEof, TypeOK, FileTypes, FilesOK, Sized
  <2>. QED
    BY <2>1, <2>2
<1>4. TypeOK'
  BY <1>1, <1>2, <1>3 DEF TypeOK, FileTypes
<1>5. CommandOK' /\ StreamsOK'
  BY <1>1, <1>2 DEF CommandOK, StreamsOK
<1>6. ~Synced'
  BY <1>1, <1>2 DEF Synced
<1>. QED
  BY <1>3, <1>4, <1>5, <1>6 DEF Inv, Shape, Conversation, Getting, Putting

-----------------------------------------------------------------------------
LEMMA StepKeeps ==
  ASSUME Inv, [Next]_vars
  PROVE  Inv'
<1>1. CASE Ask \/ lcd_proc \/ Kill
  BY <1>1, AskKeeps, LcdKeeps, KillKeeps
<1>2. CASE Receive
  BY <1>2, RecvQuitKeeps, RecvPwdKeeps, RecvCdKeeps, RecvDirKeeps, RecvListingKeeps,
     RecvGetHeadKeeps, RecvGetDataKeeps, RecvPutHeadKeeps DEF Receive
<1>3. CASE SendChunk \/ SendFails
  BY <1>3, SendChunkKeeps, SendFailsKeeps
<1>4. CASE Serve
  BY <1>4, ServeQuitKeeps, ServePwdKeeps, ServeCwdKeeps, ServeListKeeps, ServeRetrKeeps,
     ServeStorKeeps, ServeDataKeeps, AtEofKeeps DEF Serve
<1>5. CASE UNCHANGED vars
  BY <1>5, StutterKeeps
<1>. QED
  BY <1>1, <1>2, <1>3, <1>4, <1>5 DEF Next

\* Shape, Conversation, Getting and Putting hold in every state, whatever is
\* typed and whenever the client, the server and the streams make their steps.
THEOREM Invariance == Spec => []Inv
<1>1. Inv /\ [Next]_vars => Inv'
  BY StepKeeps
<1>. QED
  BY <1>1, InitInv, PTL DEF Spec

\* The variables of the client and of the server stay in their types: no file
\* is ever made under a name that is not one, no stream carries anything but
\* headers and words, and the client is at one of its prompts or receives.
THEOREM FtpTypeCorrect == Spec => []TypeOK
<1>1. Inv => TypeOK
  BY InvParts
<1>. QED
  BY <1>1, Invariance, PTL

\* A client that has not gone astray prompts only when it has read the whole
\* reply to its last command: get, dir and pwd read to the packet that is
\* marked as the last one, put and cd read the one header they wait for.
THEOREM RepliesAreRead == Spec => []InSync
<1>1. Inv => InSync
  <2>1. ASSUME Inv, ~astray, cpc = "prompt" PROVE toClient = << >>
    BY <2>1, InvParts DEF Conversation, Synced
  <2>. QED
    BY <2>1 DEF InSync
<1>. QED
  BY <1>1, Invariance, PTL

\* put: what the server has stored and the data on their way to it are what
\* the client has read of its file, in the order of the file and with no gap,
\* for files and packets of any size.
THEOREM PutsArrive == Spec => []PutArrives
<1>1. Inv => PutArrives
  <2>1. SUFFICES ASSUME Inv, ~astray, cmd[1] = "put", at >= 0, cpc # "gone",
                        Entry("client", cmd[2]).kind = "file"
                 PROVE  Entry("server", cmd[3]).data \o DataIn(toServer)
                          = SubSeq(Entry("client", cmd[2]).data, 1, at)
    BY DEF PutArrives
  <2>2. TypeOK /\ Putting /\ Synced
    BY <2>1, InvParts DEF Synced
  <2>3. at \in Nat
    BY <2>1, <2>2 DEF TypeOK
  <2>. QED
    BY <2>1, <2>2, <2>3 DEF Putting, Stores
<1>. QED
  BY <1>1, Invariance, PTL

\* get: when the client prompts again its file is the file that it asked for,
\* whatever the number of packets it came in and whatever was there before.
THEOREM GetsCopy == Spec => GetCopies
<1>1. Inv /\ [Next]_vars => [Copies]_vars
  <2>1. SUFFICES ASSUME Inv, Next, ~astray, cpc = "data", cpc' = "prompt"
                 PROVE  files'["client"][cwd["client"]][cmd[3]].data = Source.data
    BY DEF Copies, Source
  <2>2. ~(Ask \/ lcd_proc \/ Kill \/ SendChunk \/ SendFails)
    <3>1. ~Ask
      BY <2>1 DEF Ask, quit_proc, pwd_proc, cd_proc, dir_proc, get_proc, put_proc, Typed
    <3>. QED
      BY <2>1, <3>1 DEF lcd_proc, Kill, SendChunk, SendFails
  <2>3. ~Serve
    <3>1. Serve => UNCHANGED cpc
      BY DEF Serve, ServeQuit, ServePwd, ServeCwd, ServeList, ServeRetr, ServeStor, ServeData,
             StoreAgain, EndsAtEof, ServerKeeps, clientVars
    <3>. QED
      BY <2>1, <3>1
  <2>4. Receive => RecvGetData
    BY <2>1 DEF Receive, Reads, RecvQuit, RecvPwd, RecvCd, RecvDir, RecvListing, RecvGetHead,
                RecvPutHead
  <2>5. RecvGetData
    BY <2>1, <2>2, <2>3, <2>4 DEF Next
  <2>. QED
    BY <2>1, <2>5, RecvGetDataKeeps
<1>. QED
  BY <1>1, Invariance, PTL DEF Spec, GetCopies
=============================================================================
