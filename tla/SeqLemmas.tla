------------------------------ MODULE SeqLemmas ------------------------------
(***************************************************************************)
(* What the sequence operators of the models do to positions and elements: *)
(* Append, Tail, RemoveAt and the least member of a set of positions; what *)
(* follows from there being a least one: induction over the naturals, and  *)
(* functions that are defined by recursion on them; and what is true of a  *)
(* sequence after elements have been taken out of it.                      *)
(***************************************************************************)
EXTENDS Integers, SequencesExt, SequenceTheorems, WellFoundedInduction, TLAPS

\* Where position j of RemoveAt(s, k) was in s.
Before(k, j) == IF j < k THEN j ELSE j + 1

\* RemoveAt keeps every other element, in order.
LEMMA RemoveAtProperties ==
  ASSUME NEW S, NEW s \in Seq(S), NEW k \in 1 .. Len(s)
  PROVE  /\ RemoveAt(s, k) \in Seq(S)
         /\ Len(RemoveAt(s, k)) = Len(s) - 1
         /\ \A j \in 1 .. Len(s) - 1 : RemoveAt(s, k)[j] = s[Before(k, j)]
<1> DEFINE l == SubSeq(s, 1, k - 1)
           r == SubSeq(s, k + 1, Len(s))
<1>1. Len(s) \in Nat /\ k \in Int
  OBVIOUS
<1>2. l \in Seq(S) /\ Len(l) = k - 1 /\ \A j \in 1 .. k - 1 : l[j] = s[j]
  <2>1. \A j \in 1 .. k - 1 : j \in 1 .. Len(s)
    BY <1>1
  <2> QED
    BY <1>1, <2>1, SubSeqProperties
<1>3. /\ r \in Seq(S)
      /\ Len(r) = Len(s) - k
      /\ \A j \in 1 .. Len(s) - k : r[j] = s[k + j]
  BY <1>1, SubSeqProperties
<1>4. RemoveAt(s, k) = l \o r
  BY DEF RemoveAt
<1> HIDE DEF l, r
<1>5. /\ l \o r \in Seq(S)
      /\ Len(l \o r) = Len(l) + Len(r)
      /\ \A j \in 1 .. Len(l) + Len(r) :
           (l \o r)[j] = IF j <= Len(l) THEN l[j] ELSE r[j - Len(l)]
  BY <1>2, <1>3, ConcatProperties
<1>6. ASSUME NEW j \in 1 .. Len(s) - 1
      PROVE  RemoveAt(s, k)[j] = s[Before(k, j)]
  <2>1. CASE j < k
    BY <1>1, <1>2, <1>3, <1>4, <1>5, <2>1 DEF Before
  <2>2. CASE ~(j < k)
    <3>1. j - Len(l) \in 1 .. Len(s) - k /\ j \in 1 .. Len(l) + Len(r)
      BY <1>1, <1>2, <1>3, <2>2
    <3>2. r[j - Len(l)] = s[k + (j - Len(l))]
      BY <1>3, <3>1
    <3>3. k + (j - Len(l)) = j + 1 /\ ~(j <= Len(l))
      BY <1>1, <1>2, <2>2
    <3> QED
      BY <1>4, <1>5, <2>2, <3>1, <3>2, <3>3 DEF Before
  <2> QED
    BY <2>1, <2>2
<1>7. RemoveAt(s, k) \in Seq(S) /\ Len(RemoveAt(s, k)) = Len(s) - 1
  BY <1>1, <1>2, <1>3, <1>4, <1>5
<1> QED
  BY <1>6, <1>7

\* Before(k, _) is a bijection from the positions that are left to the
\* positions other than k.
LEMMA BeforeProperties ==
  ASSUME NEW n \in Nat, NEW k \in 1 .. n
  PROVE  /\ \A j \in 1 .. n - 1 : Before(k, j) \in 1 .. n /\ Before(k, j) # k
         /\ \A i, j \in 1 .. n - 1 : Before(k, i) = Before(k, j) => i = j
         /\ \A m \in 1 .. n : m # k => \E j \in 1 .. n - 1 : Before(k, j) = m
<1>1. ASSUME NEW m \in 1 .. n, m # k
      PROVE  \E j \in 1 .. n - 1 : Before(k, j) = m
  <2>1. CASE m < k
    <3>1. m \in 1 .. n - 1 /\ Before(k, m) = m
      BY <2>1 DEF Before
    <3> QED
      BY <3>1
  <2>2. CASE m > k
    <3>1. m - 1 \in 1 .. n - 1 /\ Before(k, m - 1) = m
      BY <2>2 DEF Before
    <3> QED
      BY <3>1
  <2> QED
    BY <1>1, <2>1, <2>2
<1> QED
  BY <1>1 DEF Before

\* The elements of s are those of RemoveAt(s, k) and s[k].
LEMMA RemoveAtElements ==
  ASSUME NEW S, NEW s \in Seq(S), NEW k \in 1 .. Len(s)
  PROVE  ToSet(s) = ToSet(RemoveAt(s, k)) \cup {s[k]}
<1>1. Len(s) \in Nat /\ DOMAIN s = 1 .. Len(s)
  OBVIOUS
<1>2. /\ RemoveAt(s, k) \in Seq(S)
      /\ DOMAIN RemoveAt(s, k) = 1 .. Len(s) - 1
      /\ \A j \in 1 .. Len(s) - 1 : RemoveAt(s, k)[j] = s[Before(k, j)]
  <2>1. /\ RemoveAt(s, k) \in Seq(S)
        /\ Len(RemoveAt(s, k)) = Len(s) - 1
        /\ \A j \in 1 .. Len(s) - 1 : RemoveAt(s, k)[j] = s[Before(k, j)]
    BY RemoveAtProperties
  <2> QED
    BY <2>1
<1>3. /\ \A j \in 1 .. Len(s) - 1 : Before(k, j) \in 1 .. Len(s)
      /\ \A m \in 1 .. Len(s) : m # k => \E j \in 1 .. Len(s) - 1 : Before(k, j) = m
  BY <1>1, BeforeProperties
<1> DEFINE r == RemoveAt(s, k)
<1> HIDE DEF r
<1>4. \A j \in DOMAIN r : r[j] \in {s[m] : m \in DOMAIN s}
  BY <1>1, <1>2, <1>3 DEF r
<1>5. \A m \in DOMAIN s : s[m] \in {r[j] : j \in DOMAIN r} \cup {s[k]}
  BY <1>1, <1>2, <1>3 DEF r
<1> QED
  BY <1>1, <1>4, <1>5 DEF ToSet, r

\* Append adds one element at the end.
LEMMA AppendElements ==
  ASSUME NEW S, NEW s \in Seq(S), NEW e \in S
  PROVE  /\ Append(s, e) \in Seq(S)
         /\ Len(Append(s, e)) = Len(s) + 1
         /\ \A j \in 1 .. Len(s) : Append(s, e)[j] = s[j]
         /\ Append(s, e)[Len(s) + 1] = e
         /\ ToSet(Append(s, e)) = ToSet(s) \cup {e}
<1>1. /\ Append(s, e) \in Seq(S)
      /\ Len(Append(s, e)) = Len(s) + 1
      /\ \A j \in 1 .. Len(s) : Append(s, e)[j] = s[j]
      /\ Append(s, e)[Len(s) + 1] = e
  OBVIOUS
<1>2. /\ Len(s) \in Nat
      /\ DOMAIN s = 1 .. Len(s)
      /\ DOMAIN Append(s, e) = 1 .. Len(s) + 1
  OBVIOUS
<1>3. 1 .. Len(s) + 1 = 1 .. Len(s) \cup {Len(s) + 1}
  BY <1>2
<1> QED
  BY <1>1, <1>2, <1>3 DEF ToSet

\* Tail takes the first element away.
LEMMA TailElements ==
  ASSUME NEW S, NEW s \in Seq(S), s # << >>
  PROVE  /\ Head(s) \in S
         /\ Head(s) = s[1]
         /\ 1 \in DOMAIN s
         /\ Tail(s) \in Seq(S)
         /\ Len(Tail(s)) = Len(s) - 1
         /\ \A j \in 1 .. Len(s) - 1 : Tail(s)[j] = s[j + 1]
         /\ ToSet(s) = ToSet(Tail(s)) \cup {Head(s)}
<1>1. /\ Head(s) \in S
      /\ Head(s) = s[1]
      /\ 1 \in DOMAIN s
      /\ Tail(s) \in Seq(S)
      /\ Len(Tail(s)) = Len(s) - 1
      /\ \A j \in 1 .. Len(s) - 1 : Tail(s)[j] = s[j + 1]
  OBVIOUS
<1>2. /\ Len(s) \in Nat \ {0}
      /\ DOMAIN s = 1 .. Len(s)
      /\ DOMAIN Tail(s) = 1 .. Len(s) - 1
  BY <1>1
<1> DEFINE t == Tail(s)
<1> HIDE DEF t
<1>3. \A j \in DOMAIN t : t[j] \in {s[m] : m \in DOMAIN s}
  <2> SUFFICES ASSUME NEW j \in DOMAIN t PROVE t[j] \in {s[m] : m \in DOMAIN s}
    OBVIOUS
  <2>1. j + 1 \in DOMAIN s /\ t[j] = s[j + 1]
    BY <1>1, <1>2 DEF t
  <2> QED
    BY <2>1
<1>4. \A m \in DOMAIN s : s[m] \in {t[j] : j \in DOMAIN t} \cup {s[1]}
  <2> SUFFICES ASSUME NEW m \in DOMAIN s, m # 1
               PROVE  s[m] \in {t[j] : j \in DOMAIN t}
    OBVIOUS
  <2>1. m - 1 \in DOMAIN t /\ t[m - 1] = s[m]
    BY <1>1, <1>2 DEF t
  <2> QED
    BY <2>1
<1> QED
  BY <1>1, <1>2, <1>3, <1>4 DEF ToSet, t

\* A function on 1 .. n is a sequence of length n.
LEMMA FunctionIsSequence ==
  ASSUME NEW S, NEW n \in Nat, NEW f \in [1 .. n -> S]
  PROVE  f \in Seq(S) /\ Len(f) = n
OBVIOUS

\* Min of a set of naturals is its least member.
LEMMA MinProperties ==
  ASSUME NEW I, I \subseteq Nat, I # {}
  PROVE  Min(I) \in I /\ \A j \in I : Min(I) <= j
<1> DEFINE R == OpToRel(<, Nat)
<1>1. R = {p \in Nat \X Nat : p[1] < p[2]}
  BY Zenon DEF OpToRel
<1>2. IsWellFoundedOn(R, Nat)
  BY NatLessThanWellFounded
<1> HIDE DEF R
<1>3. PICK i \in I : \A j \in I : ~(<<j, i>> \in R)
  BY <1>2, WFMin
<1>4. ASSUME NEW j \in I PROVE i <= j
  <2>1. i \in Nat /\ j \in Nat
    OBVIOUS
  <2>2. <<j, i>> \in Nat \X Nat /\ <<j, i>>[1] = j /\ <<j, i>>[2] = i
    BY <2>1
  <2>3. ~(j < i)
    BY <1>1, <1>3, <2>2
  <2> QED
    BY <2>1, <2>3
<1> QED
  BY <1>4 DEF Min

\* Induction, over a set of the numbers for which something holds.
LEMMA InductionOverSet ==
  ASSUME NEW I, I \subseteq Nat, 0 \in I, \A k \in I : k + 1 \in I
  PROVE  I = Nat
<1>. SUFFICES ASSUME Nat \ I # {} PROVE FALSE
  OBVIOUS
<1>1. PICK m \in Nat \ I : \A j \in Nat \ I : m <= j
  <2>1. Nat \ I \subseteq Nat
    OBVIOUS
  <2>. QED
    BY <2>1, MinProperties
<1>2. m - 1 \in Nat /\ m - 1 \in I
  BY <1>1
<1>. QED
  BY <1>1, <1>2

\* The functions on 0 .. k that start with x and go on with f.
Starts(S, x, f, k) ==
  {h \in [0 .. k -> S] : h[0] = x /\ \A i \in 1 .. k : h[i] = f[h[i - 1]]}

LEMMA StartsExist ==
  ASSUME NEW S, NEW x \in S, NEW f \in [S -> S], NEW k \in Nat
  PROVE  Starts(S, x, f, k) # {}
<1> DEFINE None == {i \in Nat : Starts(S, x, f, i) = {}}
<1>. SUFFICES ASSUME None # {} PROVE FALSE
  OBVIOUS
<1>1. PICK m \in None : \A j \in None : m <= j
  <2>1. None \subseteq Nat
    OBVIOUS
  <2>. QED
    BY <2>1, MinProperties
<1>2. m \in Nat /\ Starts(S, x, f, m) = {}
  BY <1>1
<1>3. m # 0
  <2>1. [i \in 0 .. 0 |-> x] \in Starts(S, x, f, 0)
    BY DEF Starts
  <2>. QED
    BY <1>2, <2>1
<1>4. m - 1 \in Nat /\ m - 1 \notin None
  BY <1>1, <1>2, <1>3
<1>5. PICK h \in Starts(S, x, f, m - 1) : TRUE
  BY <1>4
<1>6. /\ h \in [0 .. m - 1 -> S] /\ h[0] = x
      /\ \A i \in 1 .. m - 1 : h[i] = f[h[i - 1]]
  BY <1>5 DEF Starts
<1>. HIDE DEF None
<1>7. h[m - 1] \in S /\ f[h[m - 1]] \in S
  BY <1>4, <1>6
<1>. DEFINE e == [i \in 0 .. m |-> IF i = m THEN f[h[m - 1]] ELSE h[i]]
<1>8. e \in [0 .. m -> S]
  <2>. SUFFICES ASSUME NEW i \in 0 .. m, i # m PROVE h[i] \in S
    BY <1>7
  <2>1. i \in 0 .. m - 1
    BY <1>2
  <2>. QED
    BY <2>1, <1>6
<1>9. e[0] = x
  BY <1>2, <1>3, <1>6
<1>10. ASSUME NEW i \in 1 .. m PROVE e[i] = f[e[i - 1]]
  <2>1. i - 1 \in 0 .. m /\ i - 1 # m /\ i \in 0 .. m
    BY <1>2
  <2>2. e[i - 1] = h[i - 1]
    BY <2>1
  <2>3. CASE i = m
    BY <2>1, <2>2, <2>3
  <2>4. CASE i # m
    <3>1. i \in 1 .. m - 1
      BY <1>2, <2>4
    <3>. QED
      BY <3>1, <2>1, <2>2, <2>4, <1>6
  <2>. QED
    BY <2>3, <2>4
<1>. HIDE DEF e
<1>. QED
  BY <1>2, <1>8, <1>9, <1>10 DEF Starts

LEMMA StartsAgree ==
  ASSUME NEW S, NEW x \in S, NEW f \in [S -> S],
         NEW k \in Nat, NEW l \in Nat, k <= l,
         NEW g \in Starts(S, x, f, k), NEW h \in Starts(S, x, f, l), NEW i \in 0 .. k
  PROVE  g[i] = h[i]
<1> DEFINE Apart == {j \in 0 .. k : g[j] # h[j]}
<1>. SUFFICES ASSUME Apart # {} PROVE FALSE
  OBVIOUS
<1>1. PICK m \in Apart : \A j \in Apart : m <= j
  <2>1. Apart \subseteq Nat
    OBVIOUS
  <2>. QED
    BY <2>1, MinProperties
<1>2. /\ g[0] = x /\ \A j \in 1 .. k : g[j] = f[g[j - 1]]
      /\ h[0] = x /\ \A j \in 1 .. l : h[j] = f[h[j - 1]]
  BY DEF Starts
<1>3. m \in 0 .. k /\ g[m] # h[m]
  BY <1>1
<1>4. m \in 1 .. k /\ m \in 1 .. l /\ m - 1 \in 0 .. k
  BY <1>2, <1>3
<1>5. m - 1 \notin Apart
  BY <1>1, <1>4
<1>6. g[m - 1] = h[m - 1]
  BY <1>4, <1>5
<1>. QED
  BY <1>2, <1>3, <1>4, <1>6

\* A function on the naturals may be defined by its first value and by each
\* next one from the one before.
LEMMA Iterates ==
  ASSUME NEW S, NEW x \in S, NEW f \in [S -> S]
  PROVE  \E g \in [Nat -> S] : g = [k \in Nat |-> IF k = 0 THEN x ELSE f[g[k - 1]]]
<1>. DEFINE H(k) == CHOOSE h \in Starts(S, x, f, k) : TRUE
            g == [k \in Nat |-> H(k)[k]]
<1>1. ASSUME NEW k \in Nat PROVE H(k) \in Starts(S, x, f, k)
  BY StartsExist
<1>. HIDE DEF H
<1>2. ASSUME NEW k \in Nat PROVE H(k)[k] \in S
  BY <1>1 DEF Starts
<1>3. g \in [Nat -> S]
  BY <1>2
<1>4. ASSUME NEW k \in Nat PROVE g[k] = IF k = 0 THEN x ELSE f[g[k - 1]]
  <2>1. CASE k = 0
    BY <1>1, <2>1 DEF Starts
  <2>2. CASE k # 0
    <3>1. k - 1 \in Nat /\ k - 1 <= k /\ k \in 1 .. k /\ k - 1 \in 0 .. k - 1
      BY <2>2
    <3>2. H(k)[k] = f[H(k)[k - 1]]
      BY <1>1, <3>1 DEF Starts
    <3>3. H(k - 1)[k - 1] = H(k)[k - 1]
      BY <1>1, <3>1, StartsAgree
    <3>. QED
      BY <3>1, <3>2, <3>3, <2>2
  <2>. QED
    BY <2>1, <2>2
<1>5. g = [k \in Nat |-> IF k = 0 THEN x ELSE f[g[k - 1]]]
  BY <1>4
<1>. QED
  BY <1>3, <1>5

\* A function on 0 .. n may be defined by its first value and by each next
\* one from its place and the one before.
Follows(g, n, x, f) == g[0] = x /\ \A i \in 1 .. n : g[i] = f[i][g[i - 1]]

LEMMA Recursion ==
  ASSUME NEW S, NEW x \in S, NEW n \in Nat, NEW f \in [Nat -> [S -> S]]
  PROVE  \E g \in [0 .. n -> S] : Follows(g, n, x, f)
<1>. DEFINE UpTo(k) == {g \in [0 .. k -> S] : Follows(g, k, x, f)}
            I == {k \in Nat : UpTo(k) # {}}
<1>. \A i \in Nat, y \in S : f[i][y] \in S
  OBVIOUS
<1>1. 0 \in I
  <2>1. [i \in 0 .. 0 |-> x] \in UpTo(0)
    BY DEF Follows
  <2>. QED
    BY <2>1 DEF Follows
<1>2. ASSUME NEW k \in I PROVE k + 1 \in I
  <2>1. PICK h \in UpTo(k) : TRUE
    OBVIOUS
  <2>2. /\ k \in Nat /\ h \in [0 .. k -> S] /\ h[0] = x
        /\ \A i \in 1 .. k : h[i] = f[i][h[i - 1]]
    BY <2>1 DEF Follows
  <2>. DEFINE e == [i \in 0 .. k + 1 |-> IF i = k + 1 THEN f[k + 1][h[k]] ELSE h[i]]
  <2>3. e \in [0 .. k + 1 -> S]
    <3>. SUFFICES ASSUME NEW i \in 0 .. k + 1 PROVE e[i] \in S
      OBVIOUS
    <3>1. i = k + 1 \/ i \in 0 .. k
      BY <2>2
    <3>2. h[k] \in S /\ k + 1 \in Nat
      BY <2>2
    <3>. QED
      BY <2>2, <3>1, <3>2
  <2>4. e[0] = x
    BY <2>2
  <2>5. ASSUME NEW i \in 1 .. k + 1 PROVE e[i] = f[i][e[i - 1]]
    <3>1. i - 1 \in 0 .. k + 1 /\ i - 1 # k + 1 /\ i \in 0 .. k + 1
      BY <2>2
    <3>2. e[i - 1] = h[i - 1]
      BY <3>1
    <3>3. CASE i = k + 1
      BY <2>2, <3>1, <3>2, <3>3
    <3>4. CASE i # k + 1
      <4>1. i \in 1 .. k
        BY <2>2, <3>4
      <4>. QED
        BY <2>2, <3>1, <3>2, <3>4, <4>1
    <3>. QED
      BY <3>3, <3>4
  <2>. HIDE DEF e
  <2>6. e \in UpTo(k + 1)
    BY <2>3, <2>4, <2>5 DEF Follows
  <2>. QED
    BY <2>2, <2>6
<1>3. I = Nat
  <2>1. I \subseteq Nat
    OBVIOUS
  <2>. HIDE DEF I
  <2>. QED
    BY <1>1, <1>2, <2>1, InductionOverSet
<1>. QED
  BY <1>3

\* Induction over sequences, from the one before the last element is added.
LEMMA InductionOverSequences ==
  ASSUME NEW S, NEW I, I \subseteq Seq(S), << >> \in I,
         \A s \in I, e \in S : Append(s, e) \in I
  PROVE  I = Seq(S)
<1>. DEFINE J == {k \in Nat : \A s \in Seq(S) : Len(s) = k => s \in I}
<1>1. 0 \in J
  BY EmptySeq
<1>2. ASSUME NEW k \in J PROVE k + 1 \in J
  <2>. SUFFICES ASSUME NEW s \in Seq(S), Len(s) = k + 1 PROVE s \in I
    OBVIOUS
  <2>1. s # << >> /\ k \in Nat
    BY EmptySeq
  <2>2. PICK r \in Seq(S), e \in S : s = Append(r, e)
    BY <2>1, SequenceEmptyOrAppend
  <2>3. Len(r) = k
    BY <2>1, <2>2
  <2>. QED
    BY <2>2, <2>3
<1>3. J = Nat
  <2>1. J \subseteq Nat
    OBVIOUS
  <2>. HIDE DEF J
  <2>. QED
    BY <1>1, <1>2, <2>1, InductionOverSet
<1>. QED
  <2>1. \A s \in Seq(S) : Len(s) \in J
    BY <1>3
  <2>. QED
    BY <2>1

-----------------------------------------------------------------------------
\* t is s without some of its elements.
ThinnedBy(f, t, s) ==
  /\ f \in [DOMAIN t -> DOMAIN s]
  /\ \A i \in DOMAIN t : t[i] = s[f[i]]
  /\ \A i, j \in DOMAIN t : i < j => f[i] < f[j]

Thinned(t, s) == \E f : ThinnedBy(f, t, s)

LEMMA ThinnedTail ==
  ASSUME NEW S, NEW s \in Seq(S), s # << >>
  PROVE  ThinnedBy([i \in DOMAIN Tail(s) |-> i + 1], Tail(s), s)
<1>1. /\ Len(s) \in Nat /\ DOMAIN s = 1 .. Len(s)
      /\ DOMAIN Tail(s) = 1 .. Len(s) - 1
      /\ \A i \in 1 .. Len(s) - 1 : Tail(s)[i] = s[i + 1]
  OBVIOUS
<1>. DEFINE t == Tail(s)
<1>. HIDE DEF t
<1>. QED
  BY <1>1, SMTT(30) DEF ThinnedBy, t

LEMMA ThinnedRemoveAt ==
  ASSUME NEW S, NEW s \in Seq(S), NEW k \in DOMAIN s
  PROVE  Thinned(RemoveAt(s, k), s)
<1>. DEFINE t == RemoveAt(s, k)
            f == [i \in DOMAIN t |-> Before(k, i)]
<1>1. Len(s) \in Nat /\ DOMAIN s = 1 .. Len(s) /\ k \in 1 .. Len(s)
  OBVIOUS
<1>2. /\ t \in Seq(S) /\ Len(t) = Len(s) - 1
      /\ \A i \in 1 .. Len(s) - 1 : t[i] = s[Before(k, i)]
  BY <1>1, RemoveAtProperties
<1>3. DOMAIN t = 1 .. Len(s) - 1
  BY <1>2
<1>. HIDE DEF t
<1>4. \A i \in 1 .. Len(s) - 1 : Before(k, i) \in 1 .. Len(s)
  BY <1>1, BeforeProperties
<1>5. \A i, j \in 1 .. Len(s) - 1 : i < j => Before(k, i) < Before(k, j)
  BY <1>1 DEF Before
<1>6. f \in [DOMAIN t -> DOMAIN s]
  BY <1>1, <1>3, <1>4
<1>7. ThinnedBy(f, t, s)
  BY <1>2, <1>3, <1>5, <1>6 DEF ThinnedBy
<1>. QED
  BY <1>7 DEF Thinned, t

LEMMA ThinnedNot ==
  ASSUME NEW S, NEW s \in Seq(S) PROVE Thinned(s, s)
<1>1. DOMAIN s \subseteq Nat
  OBVIOUS
<1>2. ThinnedBy([i \in DOMAIN s |-> i], s, s)
  BY <1>1 DEF ThinnedBy
<1>. QED
  BY <1>2 DEF Thinned

\* What was last is last.
LEMMA ThinnedLast ==
  ASSUME NEW S, NEW s \in Seq(S), NEW t \in Seq(S), NEW f, ThinnedBy(f, t, s),
         NEW i \in DOMAIN t, f[i] = Len(s)
  PROVE  i = Len(t)
<1>1. /\ DOMAIN t = 1 .. Len(t) /\ Len(t) \in Nat
      /\ DOMAIN s = 1 .. Len(s) /\ Len(s) \in Nat
  OBVIOUS
<1>. SUFFICES ASSUME i # Len(t) PROVE FALSE
  OBVIOUS
<1>2. Len(t) \in DOMAIN t /\ i < Len(t)
  BY <1>1
<1>3. f[i] < f[Len(t)] /\ f[Len(t)] \in DOMAIN s
  BY <1>2 DEF ThinnedBy
<1>. QED
  BY <1>1, <1>3
=============================================================================
