--------------------------- MODULE VcStreamProofs ---------------------------
(***************************************************************************)
(* Proofs about VcStream, for any lengths of packets, headers and buffers, *)
(* and any frames: whatever is lost upstream or for want of memory, what a *)
(* converter hands to its port finds room there, and no network packet is  *)
(* longer than one may be.                                                 *)
(***************************************************************************)
EXTENDS VcStream, FiniteSetTheorems, SequenceTheorems, WellFoundedInduction, TLAPS

LessThan == OpToRel(<, Nat)

\* A set of numbers has a least one: induction by the least counterexample.
LEMMA LeastOf ==
  ASSUME NEW S \in SUBSET Nat, S # {}
  PROVE  \E x \in S : \A y \in S : x <= y
<1>1. IsWellFoundedOn(LessThan, Nat)
  BY NatLessThanWellFounded DEF OpToRel, LessThan
<1>2. PICK x \in S : \A y \in S : << y, x >> \notin LessThan
  BY <1>1, WFMin
<1>3. ASSUME NEW y \in S PROVE x <= y
  <2>1. ~(y < x)
    BY <1>2 DEF OpToRel, LessThan
  <2> QED
    BY <2>1
<1> QED
  BY <1>3

-----------------------------------------------------------------------------
(* Sequences of anything.                                                  *)

IsSeq(s) == \E S : s \in Seq(S)

\* Two sequences are sequences over one set.
LEMMA SeqOfBoth ==
  ASSUME NEW s, NEW r, IsSeq(s), IsSeq(r)
  PROVE  \E S : s \in Seq(S) /\ r \in Seq(S)
<1>1. PICK S : s \in Seq(S)
  BY DEF IsSeq
<1>2. PICK R : r \in Seq(R)
  BY DEF IsSeq
<1>3. PICK T : T = S \cup R
  OBVIOUS
<1>4. S \subseteq T /\ R \subseteq T
  BY <1>3
<1>5. s \in Seq(T) /\ r \in Seq(T)
  BY <1>1, <1>2, <1>4, SeqMonotonic
<1> QED
  BY <1>5

\* A sequence and an element are of one set.
LEMMA SeqWith ==
  ASSUME NEW s, NEW e, IsSeq(s)
  PROVE  \E S : s \in Seq(S) /\ e \in S
<1>1. PICK S : s \in Seq(S)
  BY DEF IsSeq
<1>2. PICK T : T = S \cup {e}
  OBVIOUS
<1>3. S \subseteq T /\ e \in T
  BY <1>2
<1>4. s \in Seq(T)
  BY <1>1, <1>3, SeqMonotonic
<1> QED
  BY <1>3, <1>4

\* Length and domain of a sequence.
LEMMA SeqFacts ==
  ASSUME NEW s, IsSeq(s)
  PROVE  Len(s) \in Nat /\ DOMAIN s = 1 .. Len(s) /\ (Len(s) = 0 <=> s = << >>)
<1>1. PICK S : s \in Seq(S)
  BY DEF IsSeq
<1> QED
  BY <1>1, LenProperties, EmptySeq

\* Append adds one element at the end.
LEMMA AppendFacts ==
  ASSUME NEW s, NEW e, IsSeq(s)
  PROVE  /\ IsSeq(Append(s, e)) /\ Len(Append(s, e)) = Len(s) + 1
         /\ \A i \in 1 .. Len(s) : Append(s, e)[i] = s[i]
         /\ Append(s, e)[Len(s) + 1] = e
<1>1. PICK S : s \in Seq(S) /\ e \in S
  BY SeqWith
<1>2. Append(s, e) \in Seq(S)
  BY <1>1, AppendProperties
<1>3. IsSeq(Append(s, e))
  BY <1>2 DEF IsSeq
<1> QED
  BY <1>1, <1>3, AppendProperties

\* A concatenation is the one and then the other.
LEMMA ConcatFacts ==
  ASSUME NEW s, NEW r, IsSeq(s), IsSeq(r)
  PROVE  /\ IsSeq(s \o r) /\ Len(s \o r) = Len(s) + Len(r)
         /\ \A i \in 1 .. Len(s) : (s \o r)[i] = s[i]
         /\ \A i \in 1 .. Len(r) : (s \o r)[Len(s) + i] = r[i]
<1>1. PICK S : s \in Seq(S) /\ r \in Seq(S)
  BY SeqOfBoth
<1>2. s \o r \in Seq(S) /\ Len(s \o r) = Len(s) + Len(r)
  BY <1>1, ConcatProperties
<1>3. IsSeq(s \o r)
  BY <1>2 DEF IsSeq
<1>4. PICK m \in Nat, n \in Nat : m = Len(s) /\ n = Len(r)
  BY SeqFacts
<1>5. \A i \in 1 .. m + n : (s \o r)[i] = IF i <= m THEN s[i] ELSE r[i - m]
  BY <1>1, <1>4, ConcatProperties
<1>6. \A i \in 1 .. m : i \in 1 .. m + n /\ i <= m
  BY <1>4
<1>7. \A i \in 1 .. n : m + i \in 1 .. m + n /\ ~(m + i <= m) /\ (m + i) - m = i
  BY <1>4
<1> QED
  BY <1>2, <1>3, <1>4, <1>5, <1>6, <1>7

\* A part of any function is a sequence.
LEMMA SubSeqFacts ==
  ASSUME NEW s, NEW m \in Int, NEW n \in Int
  PROVE  /\ IsSeq(SubSeq(s, m, n)) /\ Len(SubSeq(s, m, n)) = IF m <= n THEN n - m + 1 ELSE 0
         /\ \A i \in 1 .. n - m + 1 : SubSeq(s, m, n)[i] = s[m + i - 1]
<1>1. PICK S : S = {s[i] : i \in m .. n}
  OBVIOUS
<1>2. \A i \in m .. n : s[i] \in S
  BY <1>1
<1>3. SubSeq(s, m, n) \in Seq(S)
  BY <1>2, SubSeqProperties
<1>4. IsSeq(SubSeq(s, m, n))
  BY <1>3 DEF IsSeq
<1> QED
  BY <1>2, <1>4, SubSeqProperties

\* Tail drops the first element.
LEMMA TailFacts ==
  ASSUME NEW s, IsSeq(s), s # << >>
  PROVE  /\ IsSeq(Tail(s)) /\ Len(s) = Len(Tail(s)) + 1 /\ Len(Tail(s)) \in Nat
         /\ \A i \in 1 .. Len(Tail(s)) : Tail(s)[i] = s[i + 1]
<1>1. PICK S : s \in Seq(S)
  BY DEF IsSeq
<1>2. Tail(s) \in Seq(S) /\ Len(Tail(s)) = Len(s) - 1
  BY <1>1, HeadTailProperties
<1>3. IsSeq(Tail(s))
  BY <1>2 DEF IsSeq
<1>4. Len(s) \in Nat /\ Len(Tail(s)) \in Nat
  BY <1>3, SeqFacts
<1> QED
  BY <1>1, <1>2, <1>3, <1>4, HeadTailProperties

\* A function on 1 .. n is a sequence of length n.
LEMMA MadeFacts ==
  ASSUME NEW s, NEW n \in Nat, NEW S, s \in [1 .. n -> S]
  PROVE  IsSeq(s) /\ Len(s) = n
<1>1. s \in UNION {[1 .. i -> S] : i \in Nat}
  OBVIOUS
<1>2. s \in Seq(S)
  BY <1>1, SeqDef
<1>3. IsSeq(s)
  BY <1>2 DEF IsSeq
<1>4. PICK k \in Nat : k = Len(s) /\ DOMAIN s = 1 .. k
  BY <1>3, SeqFacts
<1>5. 1 .. k = 1 .. n
  BY <1>4
<1>6. k = n
  BY <1>5
<1> QED
  BY <1>3, <1>4, <1>6

-----------------------------------------------------------------------------
(* Calls that never hold more than there is room for.  a and b are bounds  *)
(* of what is held before and after a call: bytes, in a transport stream   *)
(* packets.                                                                *)

Room(ts) == IF ts THEN TsNetPkts ELSE NetLen
Weight(ts, x) == IF ts THEN 1 ELSE x.len

CallFits(ts, o, a, b) ==
  \/ o.op = "flush"
  \/ /\ o.op = "out" /\ Weight(ts, o.item) \in Nat \ {0} /\ a + Weight(ts, o.item) <= b
     /\ ts => o.item.len = TsPktLen
     /\ o.item.kind = "rtp" => a = 0

Holding(ts, t, ops, h) ==
  /\ h \in [0 .. Len(ops) -> 0 .. Room(ts)]
  /\ \A j \in 1 .. Len(ops) : ops[j].type = t /\ CallFits(ts, ops[j], h[j - 1], h[j])

Paced(ts, t, ops, a, b) ==
  /\ IsSeq(ops)
  /\ \E h : Holding(ts, t, ops, h) /\ h[0] = a /\ h[Len(ops)] = b

\* There is room for a number of bytes or packets,
LEMMA RoomType == ASSUME NEW ts \in BOOLEAN PROVE Room(ts) \in Nat
BY LensAssumption, TsAssumption DEF Room

\* at least none.
LEMMA ZeroRoom == ASSUME NEW ts \in BOOLEAN PROVE 0 \in 0 .. Room(ts)
<1>1. PICK r \in Nat : r = Room(ts)
  BY RoomType
<1>2. 0 \in 0 .. r
  OBVIOUS
<1> QED
  BY <1>1, <1>2

\* No calls change nothing.
LEMMA PacedNone ==
  ASSUME NEW ts \in BOOLEAN, NEW t, NEW ops, IsSeq(ops), Len(ops) = 0, NEW a \in 0 .. Room(ts)
  PROVE  Paced(ts, t, ops, a, a)
<1> DEFINE h == [j \in 0 .. 0 |-> a]
<1>1. h \in [0 .. 0 -> 0 .. Room(ts)] /\ h[0] = a
  OBVIOUS
<1> HIDE DEF h
<1>2. Holding(ts, t, ops, h)
  BY <1>1 DEF Holding
<1> QED
  BY <1>1, <1>2 DEF Paced

\* One call more.
LEMMA PacedOne ==
  ASSUME NEW ts \in BOOLEAN, NEW t, NEW ops, NEW a, NEW b, Paced(ts, t, ops, a, b), NEW o, o.type = t,
         NEW c \in 0 .. Room(ts), CallFits(ts, o, b, c)
  PROVE  Paced(ts, t, Append(ops, o), a, c)
<1>1. PICK h : Holding(ts, t, ops, h) /\ h[0] = a /\ h[Len(ops)] = b
  BY DEF Paced
<1>2. IsSeq(ops)
  BY DEF Paced
<1>3. PICK n \in Nat : n = Len(ops)
  BY <1>2, SeqFacts
<1>4. PICK q : q = Append(ops, o)
  OBVIOUS
<1>5. IsSeq(q) /\ Len(q) = n + 1 /\ (\A i \in 1 .. n : q[i] = ops[i]) /\ q[n + 1] = o
  BY <1>2, <1>3, <1>4, AppendFacts
<1> DEFINE g == [j \in 0 .. n + 1 |-> IF j = n + 1 THEN c ELSE h[j]]
<1>6. g \in [0 .. n + 1 -> 0 .. Room(ts)]
  <2>1. \A j \in 0 .. n + 1 : j # n + 1 => j \in 0 .. n
    BY <1>3
  <2>2. \A j \in 0 .. n : h[j] \in 0 .. Room(ts)
    BY <1>1, <1>3 DEF Holding
  <2> QED
    BY <2>1, <2>2
<1>7. g[n + 1] = c /\ \A j \in 0 .. n : g[j] = h[j]
  <2>1. \A j \in 0 .. n : j \in 0 .. n + 1 /\ j # n + 1
    BY <1>3
  <2> QED
    BY <2>1
<1> HIDE DEF g
<1>8. ASSUME NEW j \in 1 .. n + 1 PROVE q[j].type = t /\ CallFits(ts, q[j], g[j - 1], g[j])
  <2>1. CASE j = n + 1
    <3>1. j - 1 = n /\ n \in 0 .. n
      BY <1>3, <2>1
    <3>2. g[j - 1] = b /\ g[j] = c /\ q[j] = o
      BY <1>1, <1>3, <1>5, <1>7, <2>1, <3>1
    <3> QED
      BY <3>2
  <2>2. CASE j # n + 1
    <3>1. j \in 1 .. n /\ j - 1 \in 0 .. n /\ j \in 0 .. n
      BY <1>3, <2>2
    <3>2. ops[j].type = t /\ CallFits(ts, ops[j], h[j - 1], h[j])
      BY <1>1, <1>3, <3>1 DEF Holding
    <3> QED
      BY <1>5, <1>7, <3>1, <3>2
  <2> QED
    BY <2>1, <2>2
<1>9. Holding(ts, t, q, g)
  BY <1>5, <1>6, <1>8 DEF Holding
<1>10. g[0] = a /\ g[Len(q)] = c
  BY <1>1, <1>3, <1>5, <1>7
<1> QED
  BY <1>4, <1>5, <1>9, <1>10 DEF Paced

\* Calls and then others.
LEMMA PacedBoth ==
  ASSUME NEW ts \in BOOLEAN, NEW t, NEW ops, NEW more, NEW a, NEW b, NEW c,
         Paced(ts, t, ops, a, b), Paced(ts, t, more, b, c)
  PROVE  Paced(ts, t, ops \o more, a, c)
<1>1. PICK h : Holding(ts, t, ops, h) /\ h[0] = a /\ h[Len(ops)] = b
  BY DEF Paced
<1>2. PICK k : Holding(ts, t, more, k) /\ k[0] = b /\ k[Len(more)] = c
  BY DEF Paced
<1>3. IsSeq(ops) /\ IsSeq(more)
  BY DEF Paced
<1>4. PICK n \in Nat, m \in Nat : n = Len(ops) /\ m = Len(more)
  BY <1>3, SeqFacts
<1>5. PICK q : q = ops \o more
  OBVIOUS
<1>6. IsSeq(q) /\ Len(q) = n + m /\ (\A i \in 1 .. n : q[i] = ops[i])
      /\ \A i \in 1 .. m : q[n + i] = more[i]
  BY <1>3, <1>4, <1>5, ConcatFacts
<1> DEFINE g == [j \in 0 .. n + m |-> IF j <= n THEN h[j] ELSE k[j - n]]
<1>7. /\ \A j \in 0 .. n : h[j] \in 0 .. Room(ts)
      /\ \A j \in 0 .. m : k[j] \in 0 .. Room(ts)
  BY <1>1, <1>2, <1>4 DEF Holding
<1>8. g \in [0 .. n + m -> 0 .. Room(ts)]
  <2>1. \A j \in 0 .. n + m : IF j <= n THEN j \in 0 .. n ELSE j - n \in 0 .. m
    BY <1>4
  <2> QED
    BY <1>7, <2>1
<1>9. /\ \A j \in 0 .. n : g[j] = h[j]
      /\ \A j \in 0 .. m : g[n + j] = k[j]
  <2>1. \A j \in 0 .. n : j \in 0 .. n + m /\ j <= n
    BY <1>4
  <2>2. \A j \in 0 .. m : n + j \in 0 .. n + m /\ (j # 0 => ~(n + j <= n)) /\ (n + j) - n = j
    BY <1>4
  <2>3. n \in 0 .. n /\ n + 0 = n /\ h[n] = k[0]
    BY <1>1, <1>2, <1>4
  <2>4. g[n + 0] = k[0]
    BY <2>1, <2>3
  <2>5. ASSUME NEW j \in 0 .. m, j # 0 PROVE g[n + j] = k[j]
    BY <2>2, <2>5
  <2> QED
    BY <2>1, <2>4, <2>5
<1> HIDE DEF g
<1>10. ASSUME NEW j \in 1 .. n + m PROVE q[j].type = t /\ CallFits(ts, q[j], g[j - 1], g[j])
  <2>1. CASE j <= n
    <3>1. j \in 1 .. n /\ j - 1 \in 0 .. n /\ j \in 0 .. n
      BY <1>4, <2>1
    <3>2. ops[j].type = t /\ CallFits(ts, ops[j], h[j - 1], h[j])
      BY <1>1, <1>4, <3>1 DEF Holding
    <3> QED
      BY <1>6, <1>9, <3>1, <3>2
  <2>2. CASE ~(j <= n)
    <3>1. PICK i \in 1 .. m : j = n + i /\ j - 1 = n + (i - 1) /\ i - 1 \in 0 .. m /\ i \in 0 .. m
      <4>1. j - n \in 1 .. m /\ j = n + (j - n) /\ j - 1 = n + ((j - n) - 1)
            /\ (j - n) - 1 \in 0 .. m /\ j - n \in 0 .. m
        BY <1>4, <2>2
      <4> QED
        BY <4>1
    <3>2. more[i].type = t /\ CallFits(ts, more[i], k[i - 1], k[i])
      BY <1>2, <1>4, <3>1 DEF Holding
    <3>3. q[j] = more[i] /\ g[j] = k[i] /\ g[j - 1] = k[i - 1]
      BY <1>6, <1>9, <3>1
    <3> QED
      BY <3>2, <3>3
  <2> QED
    BY <2>1, <2>2
<1>11. Holding(ts, t, q, g)
  BY <1>6, <1>8, <1>10 DEF Holding
<1>12. g[0] = a /\ g[Len(q)] = c
  <2>1. 0 \in 0 .. n /\ m \in 0 .. m
    BY <1>4
  <2> QED
    BY <1>1, <1>2, <1>4, <1>6, <1>9, <2>1
<1> QED
  BY <1>5, <1>6, <1>11, <1>12 DEF Paced

\* The first call, and what is left after it.
LEMMA PacedTail ==
  ASSUME NEW ts \in BOOLEAN, NEW t, NEW ops, NEW a, NEW b, Paced(ts, t, ops, a, b), ops # << >>
  PROVE  /\ ops[1].type = t
         /\ \E c \in 0 .. Room(ts) : CallFits(ts, ops[1], a, c) /\ Paced(ts, t, Tail(ops), c, b)
<1>1. PICK h : Holding(ts, t, ops, h) /\ h[0] = a /\ h[Len(ops)] = b
  BY DEF Paced
<1>2. IsSeq(ops)
  BY DEF Paced
<1>3. PICK q : q = Tail(ops)
  OBVIOUS
<1>4. PICK n \in Nat : n = Len(q) /\ Len(ops) = n + 1 /\ IsSeq(q) /\ \A i \in 1 .. n : q[i] = ops[i + 1]
  BY <1>2, <1>3, TailFacts
<1>5. 1 \in 1 .. n + 1 /\ 1 - 1 = 0 /\ 1 \in 0 .. n + 1
  BY <1>4
<1>6. ops[1].type = t /\ CallFits(ts, ops[1], a, h[1]) /\ h[1] \in 0 .. Room(ts)
  BY <1>1, <1>4, <1>5 DEF Holding
<1> DEFINE g == [j \in 0 .. n |-> h[j + 1]]
<1>7. \A j \in 0 .. n : j + 1 \in 0 .. n + 1
  BY <1>4
<1>8. g \in [0 .. n -> 0 .. Room(ts)] /\ \A j \in 0 .. n : g[j] = h[j + 1]
  BY <1>1, <1>4, <1>7 DEF Holding
<1> HIDE DEF g
<1>9. ASSUME NEW j \in 1 .. n PROVE q[j].type = t /\ CallFits(ts, q[j], g[j - 1], g[j])
  <2>1. j + 1 \in 1 .. n + 1 /\ (j + 1) - 1 = j /\ (j - 1) + 1 = j /\ j - 1 \in 0 .. n /\ j \in 0 .. n
    BY <1>4
  <2>2. ops[j + 1].type = t /\ CallFits(ts, ops[j + 1], h[j], h[j + 1])
    BY <1>1, <1>4, <2>1 DEF Holding
  <2> QED
    BY <1>4, <1>8, <2>1, <2>2
<1>10. Holding(ts, t, q, g)
  BY <1>4, <1>8, <1>9 DEF Holding
<1>11. g[0] = h[1] /\ g[n] = b
  <2>1. 0 \in 0 .. n /\ n \in 0 .. n /\ 0 + 1 = 1
    BY <1>4
  <2> QED
    BY <1>1, <1>4, <1>8, <2>1
<1>12. Paced(ts, t, q, h[1], b)
  BY <1>4, <1>10, <1>11 DEF Paced
<1> QED
  BY <1>3, <1>6, <1>12

(* The runs of a flattened sequence, up to the k-th.                       *)
FlatOf(runs, g, i) == IF i = 1 THEN runs[i] ELSE g[i - 1] \o runs[i]
Flat(runs, g, k) == g = [i \in 1 .. k |-> FlatOf(runs, g, i)]

\* FlattenSeq is recursive: its function exists up to k + 1 if up to k,
LEMMA FlatGrows ==
  ASSUME NEW runs, NEW k \in Nat, NEW f, Flat(runs, f, k)
  PROVE  \E g : Flat(runs, g, k + 1)
<1> DEFINE g == [i \in 1 .. k + 1 |-> IF i = k + 1 THEN FlatOf(runs, f, i) ELSE f[i]]
<1>1. \A i \in 1 .. k : i \in 1 .. k + 1 /\ i # k + 1
  OBVIOUS
<1>2. \A i \in 1 .. k : g[i] = f[i]
  BY <1>1
<1>3. g[k + 1] = FlatOf(runs, f, k + 1) /\ k + 1 \in 1 .. k + 1
  OBVIOUS
<1>4. g = [i \in 1 .. k + 1 |-> g[i]]
  OBVIOUS
<1> HIDE DEF g
<1>5. ASSUME NEW i \in 1 .. k + 1 PROVE g[i] = FlatOf(runs, g, i)
  <2>1. i = 1 \/ i - 1 \in 1 .. k
    OBVIOUS
  <2>2. FlatOf(runs, f, i) = FlatOf(runs, g, i)
    BY <1>2, <2>1 DEF FlatOf
  <2>3. CASE i = k + 1
    BY <1>3, <2>2, <2>3
  <2>4. CASE i # k + 1
    <3>1. i \in 1 .. k
      BY <2>4
    <3>2. f[i] = FlatOf(runs, f, i)
      BY <3>1 DEF Flat
    <3> QED
      BY <1>2, <2>2, <3>1, <3>2
  <2> QED
    BY <2>3, <2>4
<1>6. g = [i \in 1 .. k + 1 |-> FlatOf(runs, g, i)]
  BY <1>4, <1>5
<1> QED
  BY <1>6 DEF Flat

\* and so for every sequence of runs.
LEMMA FlatExists == ASSUME NEW runs, NEW n \in Nat PROVE \E g : Flat(runs, g, n)
<1> DEFINE Bad == {k \in Nat : ~ \E g : Flat(runs, g, k)}
<1> SUFFICES ASSUME Bad # {} PROVE FALSE
  OBVIOUS
<1>1. Bad \in SUBSET Nat
  OBVIOUS
<1>2. PICK k \in Bad : \A m \in Bad : k <= m
  <2> HIDE DEF Bad
  <2> QED
    BY <1>1, LeastOf
<1>3. k # 0
  <2> DEFINE g == [i \in 1 .. 0 |-> 0]
  <2>1. g = [i \in 1 .. 0 |-> FlatOf(runs, g, i)]
    OBVIOUS
  <2> HIDE DEF g
  <2>2. Flat(runs, g, 0)
    BY <2>1 DEF Flat
  <2> QED
    BY <2>2
<1>4. PICK m \in Nat : k = m + 1 /\ ~(k <= m)
  <2>1. k - 1 \in Nat /\ k = (k - 1) + 1 /\ ~(k <= k - 1)
    BY <1>3
  <2> QED
    BY <2>1
<1>5. \E g : Flat(runs, g, m)
  BY <1>2, <1>4
<1>6. \E g : Flat(runs, g, m + 1)
  BY <1>5, FlatGrows
<1> QED
  BY <1>4, <1>6

\* Runs that each begin and end with nothing held, one after the other.
LEMMA PacedFlat ==
  ASSUME NEW ts \in BOOLEAN, NEW t, NEW runs, IsSeq(runs),
         \A i \in 1 .. Len(runs) : Paced(ts, t, runs[i], 0, 0)
  PROVE  Paced(ts, t, FlattenSeq(runs), 0, 0)
<1>1. PICK n \in Nat : n = Len(runs)
  BY SeqFacts
<1>2. CASE n = 0
  <2>1. FlattenSeq(runs) = runs
    BY <1>1, <1>2 DEF FlattenSeq
  <2>2. 0 \in 0 .. Room(ts)
    BY RoomType
  <2> QED
    BY <1>1, <1>2, <2>1, <2>2, PacedNone
<1>3. CASE n # 0
  <2>1. PICK f : f = (CHOOSE g : Flat(runs, g, n))
    OBVIOUS
  <2>2. Flat(runs, f, n)
    BY <2>1, FlatExists
  <2>3. FlattenSeq(runs) = f[n]
    BY <1>1, <1>3, <2>1 DEF FlattenSeq, Flat, FlatOf
  <2> DEFINE Bad == {i \in 1 .. n : ~Paced(ts, t, f[i], 0, 0)}
  <2>4. ASSUME Bad # {} PROVE FALSE
    <3>1. Bad \in SUBSET Nat
      OBVIOUS
    <3>2. PICK i \in Bad : \A m \in Bad : i <= m
      <4> HIDE DEF Bad
      <4> QED
        BY <2>4, <3>1, LeastOf
    <3>3. f[i] = FlatOf(runs, f, i) /\ Paced(ts, t, runs[i], 0, 0)
      BY <1>1, <2>2 DEF Flat
    <3>4. i # 1
      BY <3>3 DEF FlatOf
    <3>5. i - 1 \in 1 .. n /\ ~(i <= i - 1)
      BY <1>1, <3>4
    <3>6. Paced(ts, t, f[i - 1], 0, 0)
      BY <3>2, <3>5
    <3>7. Paced(ts, t, f[i - 1] \o runs[i], 0, 0)
      BY <3>3, <3>6, PacedBoth
    <3> QED
      BY <3>3, <3>4, <3>7 DEF FlatOf
  <2>5. n \in 1 .. n
    BY <1>1, <1>3
  <2> QED
    BY <2>3, <2>4, <2>5
<1> QED
  BY <1>2, <1>3

\* A sequence of one call,
LEMMA PacedSingle ==
  ASSUME NEW ts \in BOOLEAN, NEW t, NEW ops, IsSeq(ops), Len(ops) = 1, ops[1].type = t,
         NEW a \in 0 .. Room(ts), NEW b \in 0 .. Room(ts), CallFits(ts, ops[1], a, b)
  PROVE  Paced(ts, t, ops, a, b)
<1> DEFINE h == [j \in 0 .. 1 |-> IF j = 0 THEN a ELSE b]
<1>1. h \in [0 .. 1 -> 0 .. Room(ts)] /\ h[0] = a /\ h[1] = b
  OBVIOUS
<1> HIDE DEF h
<1>2. \A j \in 1 .. 1 : j = 1 /\ j - 1 = 0
  OBVIOUS
<1>3. Holding(ts, t, ops, h)
  BY <1>1, <1>2 DEF Holding
<1> QED
  BY <1>1, <1>3 DEF Paced

\* and of two.
LEMMA PacedDouble ==
  ASSUME NEW ts \in BOOLEAN, NEW t, NEW ops, IsSeq(ops), Len(ops) = 2,
         ops[1].type = t, ops[2].type = t,
         NEW a \in 0 .. Room(ts), NEW b \in 0 .. Room(ts), NEW c \in 0 .. Room(ts),
         CallFits(ts, ops[1], a, b), CallFits(ts, ops[2], b, c)
  PROVE  Paced(ts, t, ops, a, c)
<1> DEFINE h == [j \in 0 .. 2 |-> IF j = 0 THEN a ELSE IF j = 1 THEN b ELSE c]
<1>1. h \in [0 .. 2 -> 0 .. Room(ts)] /\ h[0] = a /\ h[1] = b /\ h[2] = c
  OBVIOUS
<1> HIDE DEF h
<1>2. \A j \in 1 .. 2 : (j = 1 /\ j - 1 = 0) \/ (j = 2 /\ j - 1 = 1)
  OBVIOUS
<1>3. Holding(ts, t, ops, h)
  BY <1>1, <1>2 DEF Holding
<1> QED
  BY <1>1, <1>3 DEF Paced

-----------------------------------------------------------------------------
(* RTP packets: a header, one or two parts, and the flush.                 *)

\* The lengths of packets are what is left of longer ones.
LEMMA Lens ==
  /\ NetLen \in Nat /\ RtpHdrLen \in Nat \ {0} /\ PesLen \in Nat \ {0} /\ FuLen \in Nat \ {0}
  /\ RtpMaxLen \in Nat \ {0} /\ PsDataLen \in Nat \ {0} /\ FuDataLen \in Nat \ {0}
  /\ RtpMaxLen + RtpHdrLen = NetLen /\ PsDataLen + PesLen = RtpMaxLen
  /\ FuDataLen + FuLen = RtpMaxLen
BY LensAssumption DEF RtpMaxLen, PsDataLen, FuDataLen

IsPart(x) == x.len \in Nat \ {0} /\ x.kind # "rtp"

PartsFit(parts) ==
  /\ IsSeq(parts)
  /\ \/ Len(parts) = 1 /\ IsPart(parts[1]) /\ parts[1].len <= RtpMaxLen
     \/ /\ Len(parts) = 2 /\ IsPart(parts[1]) /\ IsPart(parts[2])
        /\ parts[1].len + parts[2].len <= RtpMaxLen

\* A tuple of one element is a sequence.
LEMMA OneTuple == ASSUME NEW e PROVE IsSeq(<<e>>) /\ Len(<<e>>) = 1 /\ <<e>>[1] = e
<1>1. <<e>> \in Seq({e})
  OBVIOUS
<1>2. IsSeq(<<e>>)
  BY <1>1 DEF IsSeq
<1> QED
  BY <1>2

\* An RTP packet whose parts fit begins and ends with nothing held.
LEMMA PacedRtpPkt ==
  ASSUME NEW t, NEW seq, NEW mark, NEW pt, NEW parts, PartsFit(parts)
  PROVE  Paced(FALSE, t, RtpPkt(t, seq, mark, pt, parts), 0, 0)
<1> DEFINE head == Out(t, Item("rtp", seq % SeqIdMod, mark, pt, << >>, RtpHdrLen))
           body == [i \in 1 .. Len(parts) |-> Out(t, parts[i])]
<1>1. PICK N \in Nat, H \in Nat \ {0}, M \in Nat : N = NetLen /\ H = RtpHdrLen /\ M = RtpMaxLen /\ M + H = N
  BY Lens
<1>2. Room(FALSE) = N /\ 0 \in 0 .. N /\ H \in 0 .. N
  BY <1>1 DEF Room
<1>3. Paced(FALSE, t, <<head>>, 0, H)
  <2>1. head.type = t /\ head.op = "out" /\ head.item.len = RtpHdrLen
    BY DEF Out, Item
  <2> HIDE DEF head
  <2>2. CallFits(FALSE, head, 0, H)
    BY <1>1, <2>1 DEF CallFits, Weight
  <2> QED
    BY <1>2, <2>1, <2>2, OneTuple, PacedSingle
<1>4. \E c \in 0 .. N : Paced(FALSE, t, body, H, c)
  <2>1. PICK n \in Nat : n = Len(parts)
    BY SeqFacts DEF PartsFit
  <2>2. body \in [1 .. n -> {Out(t, parts[i]) : i \in 1 .. n}]
    BY <2>1
  <2>3. IsSeq(body) /\ Len(body) = n
    BY <2>2, MadeFacts
  <2>4. \A i \in 1 .. n : body[i].type = t /\ body[i].op = "out" /\ body[i].item = parts[i]
    BY <2>1 DEF Out
  <2> HIDE DEF body
  <2>5. CASE n = 1
    <3>1. PICK x : x = parts[1]
      OBVIOUS
    <3>2. IsPart(x) /\ x.len <= M
      BY <1>1, <2>1, <2>5, <3>1 DEF PartsFit
    <3>3. body[1].type = t /\ body[1].op = "out" /\ body[1].item = x
      BY <2>4, <2>5, <3>1
    <3>4. PICK l \in Nat \ {0} : l = x.len
      BY <3>2 DEF IsPart
    <3>5. H + l \in 0 .. N
      BY <1>1, <3>2, <3>4
    <3>6. CallFits(FALSE, body[1], H, H + l)
      BY <3>2, <3>3, <3>4 DEF CallFits, Weight, IsPart
    <3>7. Paced(FALSE, t, body, H, H + l)
      BY <1>2, <2>3, <2>5, <3>3, <3>5, <3>6, PacedSingle
    <3> QED
      BY <3>5, <3>7
  <2>6. CASE n = 2
    <3>1. PICK x, y : x = parts[1] /\ y = parts[2]
      OBVIOUS
    <3>2. IsPart(x) /\ IsPart(y) /\ x.len + y.len <= M
      BY <1>1, <2>1, <2>6, <3>1 DEF PartsFit
    <3>3. /\ body[1].type = t /\ body[1].op = "out" /\ body[1].item = x
          /\ body[2].type = t /\ body[2].op = "out" /\ body[2].item = y
      BY <2>4, <2>6, <3>1
    <3>4. PICK l \in Nat \ {0}, m \in Nat \ {0} : l = x.len /\ m = y.len
      BY <3>2 DEF IsPart
    <3>5. H + l \in 0 .. N /\ (H + l) + m \in 0 .. N
      BY <1>1, <3>2, <3>4
    <3>6. CallFits(FALSE, body[1], H, H + l) /\ CallFits(FALSE, body[2], H + l, (H + l) + m)
      BY <3>2, <3>3, <3>4 DEF CallFits, Weight, IsPart
    <3>7. Paced(FALSE, t, body, H, (H + l) + m)
      BY <1>2, <2>3, <2>6, <3>3, <3>5, <3>6, PacedDouble
    <3> QED
      BY <3>5, <3>7
  <2> QED
    BY <2>1, <2>5, <2>6 DEF PartsFit
<1>5. PICK c \in 0 .. N : Paced(FALSE, t, body, H, c)
  BY <1>4
<1>6. Paced(FALSE, t, <<Flush(t)>>, c, 0)
  <2>1. Flush(t).type = t /\ Flush(t).op = "flush"
    BY DEF Flush
  <2>2. PICK f : f = Flush(t)
    OBVIOUS
  <2>3. CallFits(FALSE, f, c, 0)
    BY <2>1, <2>2 DEF CallFits
  <2> QED
    BY <1>2, <2>1, <2>2, <2>3, OneTuple, PacedSingle
<1>7. Paced(FALSE, t, <<head>> \o body, 0, c)
  <2> HIDE DEF head, body
  <2> QED
    BY <1>3, <1>5, PacedBoth
<1>8. Paced(FALSE, t, (<<head>> \o body) \o <<Flush(t)>>, 0, 0)
  <2> HIDE DEF head, body
  <2> QED
    BY <1>6, <1>7, PacedBoth
<1> QED
  BY <1>8 DEF RtpPkt

-----------------------------------------------------------------------------
(* Pieces of data: at least one byte, and not more than max.               *)

\* Division rounds down.
LEMMA DivTimes ==
  ASSUME NEW a \in Nat, NEW m \in Nat \ {0}
  PROVE  a \div m \in Nat /\ (a \div m) * m <= a
<1>1. a = (a \div m) * m + (a % m) /\ a % m \in Nat /\ a \div m \in Nat
  OBVIOUS
<1>2. PICK q \in Nat : q = (a \div m) * m
  BY <1>1
<1> QED
  BY <1>1, <1>2

\* Multiplication keeps the order.
LEMMA TimesMonotonic ==
  ASSUME NEW i \in Nat, NEW n \in Nat, NEW m \in Nat, i <= n
  PROVE  i * m <= n * m
<1>1. PICK d \in Nat : n = i + d
  <2>1. n - i \in Nat /\ n = i + (n - i)
    OBVIOUS
  <2> QED
    BY <2>1
<1>2. n * m = i * m + d * m /\ d * m \in Nat /\ i * m \in Nat
  BY <1>1
<1> QED
  BY <1>2

\* Pieces cuts a sequence into pieces of 1 to m.
LEMMA PiecesFacts ==
  ASSUME NEW d, IsSeq(d), NEW m \in Nat \ {0}
  PROVE  /\ IsSeq(Pieces(d, m)) /\ Len(Pieces(d, m)) \in Nat
         /\ \A i \in 1 .. Len(Pieces(d, m)) :
              IsSeq(Pieces(d, m)[i]) /\ Len(Pieces(d, m)[i]) \in 1 .. m
<1>1. PICK L \in Nat : L = Len(d)
  BY SeqFacts
<1>2. PICK n \in Nat : n = (L + m - 1) \div m /\ n * m <= L + m - 1
  <2>1. L + m - 1 \in Nat
    OBVIOUS
  <2> QED
    BY <2>1, DivTimes
<1> DEFINE to(i) == IF i * m < L THEN i * m ELSE L
           piece(i) == SubSeq(d, (i - 1) * m + 1, to(i))
           P == [i \in 1 .. n |-> piece(i)]
<1>3. Pieces(d, m) = P
  BY <1>1, <1>2 DEF Pieces
<1>4. P \in [1 .. n -> {piece(i) : i \in 1 .. n}] /\ \A i \in 1 .. n : P[i] = piece(i)
  OBVIOUS
<1> HIDE DEF P
<1>5. IsSeq(P) /\ Len(P) = n
  BY <1>4, MadeFacts
<1>6. ASSUME NEW i \in 1 .. n PROVE IsSeq(piece(i)) /\ Len(piece(i)) \in 1 .. m
  <2>1. PICK a \in Nat, b \in Nat : a = (i - 1) * m /\ b = i * m /\ b = a + m
    <3>1. i - 1 \in Nat /\ i \in Nat /\ i = (i - 1) + 1
      BY <1>2
    <3>2. PICK j \in Nat : j = i - 1 /\ i = j + 1
      BY <3>1
    <3>3. (j + 1) * m = j * m + m /\ j * m \in Nat /\ (j + 1) * m \in Nat
      OBVIOUS
    <3> QED
      BY <3>2, <3>3
  <2>2. b <= n * m
    <3>1. i \in Nat /\ i <= n /\ m \in Nat
      BY <1>2
    <3> QED
      BY <1>2, <2>1, <3>1, TimesMonotonic
  <2>3. PICK x \in Nat : x = n * m
    BY <1>2
  <2>4. a < L
    BY <1>1, <1>2, <2>1, <2>2, <2>3
  <2>5. PICK e \in Nat : e = to(i) /\ e = IF b < L THEN b ELSE L
    BY <1>1, <2>1
  <2>6. e - (a + 1) + 1 \in 1 .. m /\ a + 1 <= e /\ a + 1 \in Int
    BY <1>1, <2>1, <2>4, <2>5
  <2>7. piece(i) = SubSeq(d, a + 1, e)
    BY <2>1, <2>5
  <2>8. IsSeq(SubSeq(d, a + 1, e)) /\ Len(SubSeq(d, a + 1, e)) = e - (a + 1) + 1
    BY <2>6, SubSeqFacts
  <2> QED
    BY <2>6, <2>7, <2>8
<1> QED
  BY <1>3, <1>4, <1>5, <1>6

\* A run over pieces that fit behind their leads.
LEMMA PacedRtpRun ==
  ASSUME NEW t, NEW s, NEW pieces, NEW end, NEW leads, IsSeq(pieces),
         \A i \in 1 .. Len(pieces) : PartsFit(leads[i] \o <<Data(pieces[i])>>)
  PROVE  Paced(FALSE, t, RtpRun(t, s, pieces, end, leads), 0, 0)
<1> DEFINE pkt(i) == RtpPkt(t, s.seq + i, MarkAt(i, pieces, end), s.pt,
                            leads[i] \o <<Data(pieces[i])>>)
           R == [i \in 1 .. Len(pieces) |-> pkt(i)]
<1>1. PICK n \in Nat : n = Len(pieces)
  BY SeqFacts
<1>2. R \in [1 .. n -> {pkt(i) : i \in 1 .. n}] /\ \A i \in 1 .. n : R[i] = pkt(i)
  BY <1>1
<1>3. RtpRun(t, s, pieces, end, leads) = FlattenSeq(R)
  BY DEF RtpRun
<1>4. \A i \in 1 .. n : Paced(FALSE, t, pkt(i), 0, 0)
  BY <1>1, PacedRtpPkt
<1> HIDE DEF R
<1>5. IsSeq(R) /\ Len(R) = n
  BY <1>2, MadeFacts
<1>6. Paced(FALSE, t, FlattenSeq(R), 0, 0)
  BY <1>2, <1>4, <1>5, PacedFlat
<1> QED
  BY <1>3, <1>6

\* Data alone, in pieces that are no longer than an RTP packet's room.
LEMMA AloneFits ==
  ASSUME NEW d, IsSeq(d), Len(d) \in 1 .. RtpMaxLen
  PROVE  PartsFit(<< >> \o <<Data(d)>>)
<1>1. PICK x : x = Data(d)
  OBVIOUS
<1>2. x.len = Len(d) /\ x.kind = "data"
  BY <1>1 DEF Data, Item
<1>3. IsSeq(<< >>) /\ Len(<< >>) = 0
  BY EmptySeq DEF IsSeq
<1>4. PICK q : q = << >> \o <<x>>
  OBVIOUS
<1>5. IsSeq(q) /\ Len(q) = 1 /\ q[1] = x
  <2>1. IsSeq(<<x>>) /\ Len(<<x>>) = 1 /\ <<x>>[1] = x
    BY OneTuple
  <2>2. IsSeq(q) /\ Len(q) = Len(<< >>) + Len(<<x>>)
        /\ \A i \in 1 .. Len(<<x>>) : q[Len(<< >>) + i] = <<x>>[i]
    BY <1>3, <1>4, <2>1, ConcatFacts
  <2> HIDE DEF PartsFit
  <2>3. q[0 + 1] = x
    BY <1>3, <2>1, <2>2
  <2> QED
    BY <1>3, <2>1, <2>2, <2>3
<1>6. IsPart(x) /\ x.len <= RtpMaxLen
  BY <1>2, Lens DEF IsPart
<1>7. PartsFit(q)
  BY <1>5, <1>6 DEF PartsFit
<1> QED
  BY <1>1, <1>4, <1>7

\* Data behind a lead.
LEMMA LedFits ==
  ASSUME NEW x, IsPart(x), NEW d, IsSeq(d), Len(d) \in Nat \ {0}, x.len + Len(d) <= RtpMaxLen
  PROVE  PartsFit(<<x>> \o <<Data(d)>>)
<1>1. PICK y : y = Data(d)
  OBVIOUS
<1>2. y.len = Len(d) /\ y.kind = "data"
  BY <1>1 DEF Data, Item
<1>3. PICK q : q = <<x>> \o <<y>>
  OBVIOUS
<1>4. IsSeq(q) /\ Len(q) = 2 /\ q[1] = x /\ q[2] = y
  <2>1. /\ IsSeq(<<x>>) /\ Len(<<x>>) = 1 /\ <<x>>[1] = x
        /\ IsSeq(<<y>>) /\ Len(<<y>>) = 1 /\ <<y>>[1] = y
    BY OneTuple
  <2>2. IsSeq(q) /\ Len(q) = 1 + 1 /\ (\A i \in 1 .. 1 : q[i] = <<x>>[i])
        /\ \A i \in 1 .. 1 : q[1 + i] = <<y>>[i]
    BY <1>3, <2>1, ConcatFacts
  <2>3. q[1] = x /\ q[1 + 1] = y
    BY <2>1, <2>2
  <2> QED
    BY <2>2, <2>3
<1>5. IsPart(y)
  BY <1>2 DEF IsPart
<1>6. PartsFit(q)
  BY <1>2, <1>4, <1>5 DEF PartsFit
<1> QED
  BY <1>1, <1>3, <1>6

\* A run over pieces without leads.
LEMMA PacedAlone ==
  ASSUME NEW t, NEW s, NEW end, NEW pieces, IsSeq(pieces),
         \A i \in 1 .. Len(pieces) : IsSeq(pieces[i]) /\ Len(pieces[i]) \in 1 .. RtpMaxLen
  PROVE  Paced(FALSE, t, RtpRun(t, s, pieces, end, NoLeads(pieces)), 0, 0)
<1>1. DOMAIN pieces = 1 .. Len(pieces)
  BY SeqFacts
<1>2. PICK leads : leads = NoLeads(pieces)
  OBVIOUS
<1>3. \A i \in 1 .. Len(pieces) : leads[i] = << >>
  BY <1>1, <1>2 DEF NoLeads
<1>4. \A i \in 1 .. Len(pieces) : PartsFit(leads[i] \o <<Data(pieces[i])>>)
  BY <1>3, AloneFits
<1>5. Paced(FALSE, t, RtpRun(t, s, pieces, end, leads), 0, 0)
  BY <1>4, PacedRtpRun
<1> QED
  BY <1>2, <1>5

\* VC_ES2RtpConvert makes whole packets, of one stream.
LEMMA RtpPaced ==
  ASSUME NEW was, NEW p, IsSeq(p.data)
  PROVE  Paced(FALSE, RtpType(RtpStreamOf(p)), ES2RtpConvert(was, p).ops, 0, 0)
<1>1. PICK pieces : pieces = Pieces(p.data, RtpMaxLen)
  OBVIOUS
<1>2. IsSeq(pieces) /\ \A i \in 1 .. Len(pieces) : IsSeq(pieces[i]) /\ Len(pieces[i]) \in 1 .. RtpMaxLen
  BY <1>1, Lens, PiecesFacts
<1>3. PICK t, s : t = RtpType(RtpStreamOf(p)) /\ s = was[RtpStreamOf(p)]
  OBVIOUS
<1>4. Paced(FALSE, t, RtpRun(t, s, pieces, p.end, NoLeads(pieces)), 0, 0)
  BY <1>2, PacedAlone
<1>5. ES2RtpConvert(was, p).ops = RtpRun(t, s, pieces, p.end, NoLeads(pieces))
  BY <1>1, <1>3 DEF ES2RtpConvert
<1> QED
  BY <1>3, <1>4, <1>5

-----------------------------------------------------------------------------
(* Program streams.                                                        *)

\* The headers of a program stream fit as parts,
LEMMA PsHdrFits == ASSUME NEW k, k # "rtp" PROVE IsPart(PsHdr(k)) /\ PsHdr(k).len = PesLen
BY Lens DEF PsHdr, Item, IsPart

\* also alone in a packet,
LEMMA HdrAloneFits == ASSUME NEW k, k # "rtp" PROVE PartsFit(<<PsHdr(k)>>)
<1>1. PICK x : x = PsHdr(k)
  OBVIOUS
<1>2. IsPart(x) /\ x.len <= RtpMaxLen
  BY <1>1, PsHdrFits, Lens
<1>3. PartsFit(<<x>>)
  BY <1>2, OneTuple DEF PartsFit
<1> QED
  BY <1>1, <1>3

\* as those in front of a packet are.
LEMMA PsHdrsFit ==
  ASSUME NEW p
  PROVE  IsSeq(PsHdrs(p)) /\ \A i \in 1 .. Len(PsHdrs(p)) : PartsFit(PsHdrs(p)[i])
<1>1. PICK a, b, c : a = <<PsHdr("ps")>> /\ b = <<PsHdr("sys")>> /\ c = <<PsHdr("map")>>
  OBVIOUS
<1>2. PartsFit(a) /\ PartsFit(b) /\ PartsFit(c)
  BY <1>1, HdrAloneFits
<1>3. PsHdrs(p) \in {<< >>, <<a, b, c>>, <<a>>}
  BY <1>1 DEF PsHdrs
<1>4. ASSUME NEW q \in {<< >>, <<a, b, c>>, <<a>>}
      PROVE  IsSeq(q) /\ \A i \in 1 .. Len(q) : PartsFit(q[i])
  <2>1. CASE q = << >>
    <3>1. q \in Seq({a}) /\ Len(q) = 0
      BY <2>1
    <3> QED
      BY <3>1 DEF IsSeq
  <2>2. CASE q = <<a, b, c>>
    <3>1. q \in Seq({a, b, c}) /\ Len(q) = 3 /\ q[1] = a /\ q[2] = b /\ q[3] = c
      BY <2>2
    <3>2. \A i \in 1 .. 3 : i = 1 \/ i = 2 \/ i = 3
      OBVIOUS
    <3>3. \A i \in 1 .. 3 : PartsFit(q[i])
      BY <1>2, <3>1, <3>2
    <3>4. IsSeq(q)
      BY <3>1 DEF IsSeq
    <3> QED
      BY <3>1, <3>3, <3>4
  <2>3. CASE q = <<a>>
    <3>1. IsSeq(q) /\ Len(q) = 1 /\ q[1] = a
      BY <2>3, OneTuple
    <3>2. \A i \in 1 .. 1 : i = 1
      OBVIOUS
    <3> QED
      BY <1>2, <3>1, <3>2
  <2> QED
    BY <2>1, <2>2, <2>3
<1> QED
  BY <1>3, <1>4

\* Pieces behind the same lead, or leads of one length.
LEMMA PacedLed ==
  ASSUME NEW t, NEW s, NEW end, NEW pieces, IsSeq(pieces), NEW leads, NEW l \in Nat, NEW m \in Nat,
         l + m <= RtpMaxLen,
         \A i \in 1 .. Len(pieces) : IsSeq(pieces[i]) /\ Len(pieces[i]) \in 1 .. m,
         \A i \in 1 .. Len(pieces) : \E x : leads[i] = <<x>> /\ IsPart(x) /\ x.len = l
  PROVE  Paced(FALSE, t, RtpRun(t, s, pieces, end, leads), 0, 0)
<1>1. ASSUME NEW i \in 1 .. Len(pieces) PROVE PartsFit(leads[i] \o <<Data(pieces[i])>>)
  <2>1. PICK x : leads[i] = <<x>> /\ IsPart(x) /\ x.len = l
    OBVIOUS
  <2>2. PICK d : d = pieces[i]
    OBVIOUS
  <2>3. PICK k \in 1 .. m : k = Len(d) /\ IsSeq(d)
    BY <2>2
  <2>4. l + k <= RtpMaxLen /\ k \in Nat \ {0}
    BY Lens
  <2>5. PartsFit(<<x>> \o <<Data(d)>>)
    BY <2>1, <2>3, <2>4, LedFits
  <2> QED
    BY <2>1, <2>2, <2>5
<1> QED
  BY <1>1, PacedRtpRun

\* VC_Es2PsOutputPkts makes whole packets,
LEMMA PsOutputPaced ==
  ASSUME NEW was, NEW name, NEW s, NEW p, IsSeq(p.data)
  PROVE  Paced(FALSE, name, Es2PsOutput(was, name, s, p).ops, 0, 0)
<1>1. PICK hdrs, pieces : hdrs = PsHdrs(p) /\ pieces = Pieces(p.data, PsDataLen)
  OBVIOUS
<1>2. IsSeq(hdrs) /\ \A i \in 1 .. Len(hdrs) : PartsFit(hdrs[i])
  BY <1>1, PsHdrsFit
<1>3. IsSeq(pieces) /\ \A i \in 1 .. Len(pieces) : IsSeq(pieces[i]) /\ Len(pieces[i]) \in 1 .. PsDataLen
  BY <1>1, Lens, PiecesFacts
<1>4. PICK leads : leads = [i \in DOMAIN pieces |-> <<PsHdr("pes")>>]
  OBVIOUS
<1>5. PICK t : t = SeqAfter(s, Len(hdrs))
  OBVIOUS
<1> DEFINE pkt(i) == RtpPkt(name, s.seq + i, FALSE, s.pt, hdrs[i])
           R == [i \in 1 .. Len(hdrs) |-> pkt(i)]
<1>6. Es2PsOutput(was, name, s, p).ops = FlattenSeq(R) \o RtpRun(name, t, pieces, p.end, leads)
  BY <1>1, <1>4, <1>5 DEF Es2PsOutput
<1>7. Paced(FALSE, name, FlattenSeq(R), 0, 0)
  <2>1. PICK n \in Nat : n = Len(hdrs)
    BY <1>2, SeqFacts
  <2>2. R \in [1 .. n -> {pkt(i) : i \in 1 .. n}] /\ \A i \in 1 .. n : R[i] = pkt(i)
    BY <2>1
  <2>3. \A i \in 1 .. n : Paced(FALSE, name, pkt(i), 0, 0)
    BY <1>2, <2>1, PacedRtpPkt
  <2> HIDE DEF R
  <2>4. IsSeq(R) /\ Len(R) = n
    BY <2>2, MadeFacts
  <2> QED
    BY <2>2, <2>3, <2>4, PacedFlat
<1>8. Paced(FALSE, name, RtpRun(name, t, pieces, p.end, leads), 0, 0)
  <2>1. PICK x : x = PsHdr("pes")
    OBVIOUS
  <2>2. IsPart(x) /\ x.len = PesLen
    BY <2>1, PsHdrFits
  <2>3. \A i \in 1 .. Len(pieces) : leads[i] = <<x>>
    BY <1>3, <1>4, <2>1, SeqFacts
  <2>4. PesLen \in Nat /\ PsDataLen \in Nat /\ PesLen + PsDataLen <= RtpMaxLen
    BY Lens
  <2> QED
    BY <1>3, <2>2, <2>3, <2>4, PacedLed
<1> QED
  <2> HIDE DEF R
  <2> QED
    BY <1>6, <1>7, <1>8, PacedBoth

\* Nothing to do is paced.
LEMMA EmptyPaced == ASSUME NEW ts \in BOOLEAN, NEW t, NEW a \in 0 .. Room(ts) PROVE Paced(ts, t, << >>, a, a)
<1>1. IsSeq(<< >>) /\ Len(<< >>) = 0
  BY EmptySeq DEF IsSeq
<1> QED
  BY <1>1, PacedNone

\* VC_Es2PsConvert makes whole packets, of one stream.
LEMMA PsPaced ==
  ASSUME NEW was, NEW p, IsSeq(p.data)
  PROVE  \E t \in Types : Paced(FALSE, t, Es2PsConvert(was, p).ops, 0, 0)
<1>1. 0 \in 0 .. Room(FALSE)
  BY ZeroRoom
<1>2. PICK g : g = Gate(was.video, p)
  OBVIOUS
<1>3. PICK s : s = [g.s EXCEPT !.pt = IF g.s.fmt \in {"h264", "h265"} THEN g.s.fmt ELSE @]
  OBVIOUS
<1>4. CASE ~p.video
  BY <1>4, PsOutputPaced DEF Es2PsConvert, Types
<1>5. CASE p.video /\ g.pass
  <2>1. Es2PsConvert(was, p) = Es2PsOutput(was, "video", s, p)
    BY <1>2, <1>3, <1>5 DEF Es2PsConvert
  <2> QED
    BY <2>1, PsOutputPaced DEF Types
<1>6. CASE p.video /\ ~g.pass
  <2>1. Es2PsConvert(was, p).ops = << >>
    BY <1>2, <1>6 DEF Es2PsConvert
  <2> QED
    BY <1>1, <2>1, EmptyPaced DEF Types
<1> QED
  BY <1>4, <1>5, <1>6

-----------------------------------------------------------------------------
(* RFC 3984.  What is before the picture is one parameter set of one byte  *)
(* at most, as a frame's first packet begins (StartsFrame).                *)

StartsFrame(d) == IsSeq(d) /\ CodesIn(d) \in {{}, {1}, {1, 3}}

\* Codes lists the places of the start codes in order.
LEMMA CodesAre ==
  ASSUME NEW d, StartsFrame(d)
  PROVE  /\ IsSeq(Codes(d)) /\ Len(Codes(d)) \in 0 .. 2
         /\ Len(Codes(d)) = 2 => Codes(d)[1] = 1 /\ Codes(d)[2] = 3
         /\ \A j \in 1 .. Len(Codes(d)) : Codes(d)[j] \in CodesIn(d)
<1>1. PICK C : C = CodesIn(d) /\ C \in {{}, {1}, {1, 3}}
  BY DEF StartsFrame
<1> DEFINE below(i) == {c \in C : c <= i}
           nth(j) == CHOOSE i \in C : Cardinality(below(i)) = j
<1>2. PICK n \in 0 .. 2 : n = Cardinality(C)
  <2>1. Cardinality({}) = 0
    BY FS_EmptySet
  <2>2. Cardinality({1}) = 1
    BY FS_Singleton
  <2>3. Cardinality({1, 3}) = 2
    <3>1. IsFiniteSet({1})
      BY FS_Singleton
    <3>2. 3 \notin {1} /\ {1, 3} = {1} \cup {3}
      OBVIOUS
    <3>3. Cardinality({1} \cup {3}) = Cardinality({1}) + 1
      BY <3>1, <3>2, FS_AddElement
    <3> QED
      BY <2>2, <3>2, <3>3
  <2> QED
    BY <1>1, <2>1, <2>2, <2>3
<1> DEFINE K == [j \in 1 .. n |-> nth(j)]
<1>3. Codes(d) = K
  BY <1>1, <1>2 DEF Codes
<1>4. K \in [1 .. n -> {nth(j) : j \in 1 .. n}] /\ \A j \in 1 .. n : K[j] = nth(j)
  OBVIOUS
<1> HIDE DEF K
<1>5. IsSeq(K) /\ Len(K) = n
  <2>1. n \in Nat
    OBVIOUS
  <2> HIDE DEF nth
  <2> QED
    BY <1>4, <2>1, MadeFacts
<1>6. CASE C = {}
  <2>1. n = 0
    BY <1>2, <1>6, FS_EmptySet
  <2> QED
    BY <1>3, <1>5, <2>1
<1>7. CASE C = {1}
  <2>1. n = 1
    BY <1>2, <1>7, FS_Singleton
  <2>2. below(1) = {1}
    BY <1>7
  <2>3. Cardinality(below(1)) = 1
    BY <2>2, FS_Singleton
  <2>4. nth(1) = 1
    BY <1>7, <2>3
  <2> HIDE DEF nth
  <2>5. \A j \in 1 .. 1 : j = 1
    OBVIOUS
  <2>6. K[1] = 1
    BY <1>4, <2>1, <2>4
  <2>7. \A j \in 1 .. n : K[j] \in C
    BY <1>7, <2>1, <2>5, <2>6
  <2> QED
    BY <1>1, <1>3, <1>5, <2>1, <2>7
<1>8. CASE C = {1, 3}
  <2>1. below(1) = {1} /\ below(3) = {1, 3}
    BY <1>8
  <2>2. Cardinality({1}) = 1 /\ Cardinality({1, 3}) = 2 /\ n = 2
    <3>1. IsFiniteSet({1}) /\ Cardinality({1}) = 1
      BY FS_Singleton
    <3>2. 3 \notin {1} /\ {1, 3} = {1} \cup {3}
      OBVIOUS
    <3>3. Cardinality({1, 3}) = 1 + 1
      BY <3>1, <3>2, FS_AddElement
    <3> QED
      BY <1>2, <1>8, <3>1, <3>3
  <2>3. \A i \in C : i = 1 \/ i = 3
    BY <1>8
  <2>4. Cardinality(below(1)) = 1 /\ Cardinality(below(3)) = 2
    BY <2>1, <2>2
  <2> HIDE DEF below
  <2>5. nth(1) = 1
    BY <1>8, <2>3, <2>4
  <2>6. nth(2) = 3
    <3>1. 3 \in C /\ Cardinality(below(3)) = 2 /\ \A i \in C : Cardinality(below(i)) = 2 => i = 3
      BY <1>8, <2>3, <2>4
    <3> QED
      BY <3>1
  <2> HIDE DEF nth
  <2>7. K[1] = 1 /\ K[2] = 3
    BY <1>4, <2>2, <2>5, <2>6
  <2>8. \A j \in 1 .. 2 : j = 1 \/ j = 2
    OBVIOUS
  <2>9. \A j \in 1 .. n : K[j] \in C
    BY <1>8, <2>2, <2>7, <2>8
  <2> QED
    BY <1>1, <1>3, <1>5, <2>2, <2>7, <2>9
<1> QED
  BY <1>1, <1>6, <1>7, <1>8

\* VC_EsTo3984OutputData makes whole packets.
LEMMA FuRunPaced ==
  ASSUME NEW s, NEW fu, NEW d, NEW end, IsSeq(d)
  PROVE  Paced(FALSE, "video", FuRun(s, fu, d, end), 0, 0)
<1>1. PICK pieces : pieces = Pieces(d, FuDataLen)
  OBVIOUS
<1>2. IsSeq(pieces) /\ \A i \in 1 .. Len(pieces) : IsSeq(pieces[i]) /\ Len(pieces[i]) \in 1 .. FuDataLen
  BY <1>1, Lens, PiecesFacts
<1>3. PICK leads : leads = [i \in DOMAIN pieces |-> <<FuHdr(fu, pieces, end, i)>>]
  OBVIOUS
<1>4. \A i : IsPart(FuHdr(fu, pieces, end, i)) /\ FuHdr(fu, pieces, end, i).len = FuLen
  BY Lens DEF FuHdr, Item, IsPart
<1>5. \A i \in 1 .. Len(pieces) : leads[i] = <<FuHdr(fu, pieces, end, i)>>
  BY <1>2, <1>3, SeqFacts
<1>6. \A i \in 1 .. Len(pieces) : \E x : leads[i] = <<x>> /\ IsPart(x) /\ x.len = FuLen
  BY <1>4, <1>5
<1>7. FuLen \in Nat /\ FuDataLen \in Nat /\ FuLen + FuDataLen <= RtpMaxLen
  BY Lens
<1>8. Paced(FALSE, "video", RtpRun("video", s, pieces, end, leads), 0, 0)
  BY <1>2, <1>6, <1>7, PacedLed
<1> QED
  BY <1>1, <1>3, <1>8 DEF FuRun

\* So does the first packet of a frame, with its parameter sets.
LEMMA FirstPaced ==
  ASSUME NEW was, NEW s, NEW p, StartsFrame(p.data)
  PROVE  Paced(FALSE, "video", ESTo3984First(was, s, p).ops, 0, 0)
<1>1. PICK d, codes : d = p.data /\ codes = Codes(d)
  OBVIOUS
<1>2. PICK L \in 0 .. 2 : L = Len(codes)
  BY <1>1, CodesAre
<1>3. /\ L = 2 => codes[1] = 1 /\ codes[2] = 3
      /\ \A j \in 1 .. L : codes[j] \in 1 .. Len(d) - 1
  BY <1>1, <1>2, CodesAre DEF CodesIn
<1>4. L = 0 <=> codes = << >>
  <2>1. IsSeq(codes)
    BY <1>1, CodesAre
  <2> QED
    BY <1>2, <2>1, SeqFacts
<1>5. PICK pict : pict = PictCode(d, codes, p.i)
  OBVIOUS
<1>6. pict \in 0 .. L
  <2> DEFINE I == {i \in 1 .. L : LeadsToPicture(d, codes[i], p.i)}
  <2>1. pict = IF I # {} THEN Min(I) ELSE 0
    BY <1>2, <1>5 DEF PictCode, SelectInSeq
  <2>2. I \in SUBSET Nat
    OBVIOUS
  <2>3. \A i \in I : i \in 0 .. L
    OBVIOUS
  <2> HIDE DEF I
  <2>4. CASE I = {}
    BY <1>2, <2>1, <2>4
  <2>5. CASE I # {}
    <3>1. \E x \in I : \A y \in I : x <= y
      BY <2>2, <2>5, LeastOf
    <3>2. Min(I) \in I
      BY <3>1 DEF Min
    <3> QED
      BY <2>1, <2>3, <2>5, <3>2
  <2> QED
    BY <2>4, <2>5
<1>7. PICK n : n = UnitCnt(codes, pict)
  OBVIOUS
<1>8. n \in 0 .. 1 /\ (n = 1 => L = 2)
  BY <1>2, <1>4, <1>6, <1>7 DEF UnitCnt
<1>9. PICK units, t, slice, fu :
        /\ units = Units(d, codes, n) /\ t = SeqAfter(s, n)
        /\ slice = SubSeq(d, codes[pict] + 2, Len(d))
        /\ fu = [nal |-> d[codes[pict] + 1], s |-> TRUE, e |-> FALSE]
  OBVIOUS
<1>10. IsSeq(units) /\ \A i \in 1 .. Len(units) : IsSeq(units[i]) /\ Len(units[i]) \in 1 .. RtpMaxLen
  <2>1. units = [j \in 1 .. n |-> Unit(d, codes, j)]
    BY <1>9 DEF Units
  <2>2. n \in Nat /\ units \in [1 .. n -> {Unit(d, codes, j) : j \in 1 .. n}]
    BY <1>8, <2>1
  <2>3. IsSeq(units) /\ Len(units) = n
    BY <2>2, MadeFacts
  <2>4. ASSUME NEW i \in 1 .. n PROVE IsSeq(units[i]) /\ Len(units[i]) \in 1 .. RtpMaxLen
    <3>1. i = 1 /\ L = 2
      BY <1>8
    <3>2. codes[1] = 1 /\ codes[1 + 1] = 3
      BY <1>3, <3>1
    <3>3. codes[1] + 1 = 2 /\ codes[1 + 1] - 1 = 2
      BY <3>2
    <3>4. units[i] = SubSeq(d, 2, 2)
      BY <2>1, <3>1, <3>3 DEF Unit
    <3>5. IsSeq(SubSeq(d, 2, 2)) /\ Len(SubSeq(d, 2, 2)) = 1
      BY SubSeqFacts
    <3>6. 1 \in 1 .. RtpMaxLen
      <4>1. PICK m \in Nat \ {0} : m = RtpMaxLen
        BY Lens
      <4> QED
        BY <4>1
    <3> QED
      BY <3>4, <3>5, <3>6
  <2> QED
    BY <2>3, <2>4
<1>11. PICK before : before = RtpRun("video", s, units, FALSE, NoLeads(units))
  OBVIOUS
<1>12. Paced(FALSE, "video", before, 0, 0)
  BY <1>10, <1>11, PacedAlone
<1>13. CASE pict = 0
  <2>1. ESTo3984First(was, s, p).ops = before
    BY <1>1, <1>5, <1>7, <1>9, <1>11, <1>13 DEF ESTo3984First
  <2> QED
    BY <1>12, <2>1
<1>14. CASE pict # 0
  <2>1. ESTo3984First(was, s, p).ops = before \o FuRun(t, fu, slice, p.end)
    BY <1>1, <1>5, <1>7, <1>9, <1>11, <1>14 DEF ESTo3984First
  <2>2. IsSeq(slice)
    <3>1. pict \in 1 .. L
      BY <1>2, <1>6, <1>14
    <3>2. codes[pict] \in Int
      BY <1>3, <3>1
    <3>3. codes[pict] + 2 \in Int /\ Len(d) \in Int
      <4>1. IsSeq(d)
        BY <1>1 DEF StartsFrame
      <4> QED
        BY <3>2, <4>1, SeqFacts
    <3> QED
      BY <1>9, <3>3, SubSeqFacts
  <2>3. Paced(FALSE, "video", FuRun(t, fu, slice, p.end), 0, 0)
    BY <2>2, FuRunPaced
  <2> QED
    BY <1>12, <2>1, <2>3, PacedBoth
<1> QED
  BY <1>13, <1>14

\* VC_ESTo3984Convert makes whole packets, of the video stream.
LEMMA Paced3984 ==
  ASSUME NEW was, NEW p, IsSeq(p.data), p.video /\ p.first => StartsFrame(p.data)
  PROVE  Paced(FALSE, "video", ESTo3984Convert(was, p).ops, 0, 0)
<1>1. CASE ~p.video
  <2>1. PICK s, pieces : s = [was[AudioStream] EXCEPT !.pt = "audio"] /\ pieces = Pieces(p.data, RtpMaxLen)
    OBVIOUS
  <2>2. IsSeq(pieces) /\ \A i \in 1 .. Len(pieces) : IsSeq(pieces[i]) /\ Len(pieces[i]) \in 1 .. RtpMaxLen
    BY <2>1, Lens, PiecesFacts
  <2>3. Paced(FALSE, "video", RtpRun("video", s, pieces, p.end, NoLeads(pieces)), 0, 0)
    BY <2>2, PacedAlone
  <2>4. ESTo3984Convert(was, p) = ESTo3984Audio(was, p)
    BY <1>1 DEF ESTo3984Convert
  <2>5. ESTo3984Audio(was, p).ops = RtpRun("video", s, pieces, p.end, NoLeads(pieces))
    BY <2>1 DEF ESTo3984Audio, AudioStream
  <2> QED
    BY <2>3, <2>4, <2>5
<1>2. CASE p.video
  <2>1. ESTo3984Convert(was, p) = ESTo3984Video(was, p)
    BY <1>2 DEF ESTo3984Convert
  <2>2. PICK s, fu : s = [was.video EXCEPT !.drop = FALSE] /\ fu = [was.fu EXCEPT !.s = FALSE]
    OBVIOUS
  <2>3. CASE was.video.drop /\ ~Starts(p)
    <3>1. ESTo3984Video(was, p).ops = << >>
      BY <2>3 DEF ESTo3984Video
    <3> QED
      BY <2>1, <3>1, EmptyPaced, ZeroRoom
  <2>4. CASE ~(was.video.drop /\ ~Starts(p)) /\ p.first
    <3>1. ESTo3984Video(was, p) = ESTo3984First(was, s, p)
      BY <2>2, <2>4 DEF ESTo3984Video
    <3> QED
      BY <1>2, <2>1, <2>4, <3>1, FirstPaced
  <2>5. CASE ~(was.video.drop /\ ~Starts(p)) /\ ~p.first
    <3>1. ESTo3984Video(was, p).ops = FuRun(s, fu, p.data, p.end)
      BY <2>2, <2>5 DEF ESTo3984Video
    <3> QED
      BY <2>1, <3>1, FuRunPaced
  <2> QED
    BY <2>3, <2>4, <2>5
<1> QED
  BY <1>1, <1>2

-----------------------------------------------------------------------------
(* Transport streams: a stream counts the packets it holds, and a          *)
(* conversion in progress of stream t, begun in state c, has made calls    *)
(* that lead from what was held to what it counts.                         *)

StreamOK(s) ==
  /\ {"outLen", "left", "seq"} \subseteq DOMAIN s
  /\ s.outLen \in 0 .. TsNetPkts - 1 /\ IsSeq(s.left)

TsCbOK(was) ==
  /\ {"video", "audio", "pat", "pmt", "audioCnt"} \subseteq DOMAIN was
  /\ \A t \in Types : StreamOK(was[t])

Underway(w, t, c) ==
  /\ {"cb", "t", "ops"} \subseteq DOMAIN w /\ w.t = t /\ TsCbOK(w.cb)
  /\ Paced(TRUE, t, w.ops, c[t].outLen, w.cb[t].outLen)
  /\ \A u \in Types : u # t => w.cb[u].outLen = c[u].outLen

\* Lengths and counts of a transport stream.
LEMMA TsLens ==
  /\ TsNetPkts \in Nat \ {0} /\ TsPktLen \in Nat \ {0} /\ TsMaxDataLen \in Nat \ {0}
  /\ TsFirstDataLen \in Nat \ {0} /\ Room(TRUE) = TsNetPkts
BY TsAssumption DEF TsMaxDataLen, TsFirstDataLen, Room

\* A flush empties the buffer whatever it held,
LEMMA FlushUnderway ==
  ASSUME NEW t \in Types, NEW c, NEW w, {"cb", "t", "ops"} \subseteq DOMAIN w, w.t = t,
         {"video", "audio", "pat", "pmt", "audioCnt"} \subseteq DOMAIN w.cb,
         \A u \in Types : {"outLen", "left", "seq"} \subseteq DOMAIN w.cb[u] /\ IsSeq(w.cb[u].left),
         \A u \in Types : u # t => StreamOK(w.cb[u]) /\ w.cb[u].outLen = c[u].outLen,
         NEW b, Paced(TRUE, t, w.ops, c[t].outLen, b)
  PROVE  Underway(FlushEsData(w), t, c)
<1>1. PICK v : v = FlushEsData(w)
  OBVIOUS
<1>2. /\ {"cb", "t", "ops"} \subseteq DOMAIN v /\ v.t = t /\ v.ops = Append(w.ops, Flush(t))
      /\ v.cb = [w.cb EXCEPT ![t] = [w.cb[t] EXCEPT !.outLen = 0]]
  BY <1>1 DEF FlushEsData
<1>3. PICK N \in Nat \ {0} : N = TsNetPkts /\ Room(TRUE) = N
  BY TsLens
<1>4. t \in DOMAIN w.cb
  BY DEF Types
<1>5. v.cb[t] = [w.cb[t] EXCEPT !.outLen = 0] /\ \A u \in Types : u # t => v.cb[u] = w.cb[u]
  BY <1>2, <1>4
<1>6. v.cb[t].outLen = 0 /\ v.cb[t].left = w.cb[t].left /\ DOMAIN v.cb[t] = DOMAIN w.cb[t]
  BY <1>5
<1>7. StreamOK(v.cb[t])
  <2>1. 0 \in 0 .. N - 1
    BY <1>3
  <2> QED
    BY <1>3, <1>6, <2>1 DEF StreamOK
<1>8. TsCbOK(v.cb)
  BY <1>2, <1>5, <1>7 DEF TsCbOK
<1>9. Paced(TRUE, t, v.ops, c[t].outLen, 0)
  <2>1. PICK f : f = Flush(t)
    OBVIOUS
  <2>2. f.type = t /\ f.op = "flush"
    BY <2>1 DEF Flush
  <2>3. CallFits(TRUE, f, b, 0)
    BY <2>2 DEF CallFits
  <2>4. Paced(TRUE, t, Append(w.ops, f), c[t].outLen, 0)
    BY <2>2, <2>3, ZeroRoom, PacedOne
  <2> QED
    BY <1>2, <2>1, <2>4
<1>10. \A u \in Types : u # t => v.cb[u].outLen = c[u].outLen
  BY <1>5
<1>11. Underway(v, t, c)
  BY <1>2, <1>6, <1>8, <1>9, <1>10 DEF Underway
<1> QED
  BY <1>1, <1>11

\* also in a conversion in progress.
LEMMA FlushKeeps ==
  ASSUME NEW t \in Types, NEW c, NEW w, Underway(w, t, c)
  PROVE  Underway(FlushEsData(w), t, c)
<1>1. PICK b : b = w.cb[t].outLen
  OBVIOUS
<1>2. /\ {"cb", "t", "ops"} \subseteq DOMAIN w /\ w.t = t
      /\ {"video", "audio", "pat", "pmt", "audioCnt"} \subseteq DOMAIN w.cb
      /\ Paced(TRUE, t, w.ops, c[t].outLen, b)
      /\ \A u \in Types : u # t => StreamOK(w.cb[u]) /\ w.cb[u].outLen = c[u].outLen
  BY <1>1 DEF Underway, TsCbOK
<1>3. \A u \in Types : {"outLen", "left", "seq"} \subseteq DOMAIN w.cb[u] /\ IsSeq(w.cb[u].left)
  BY DEF Underway, TsCbOK, StreamOK
<1> QED
  BY <1>2, <1>3, FlushUnderway

\* VC_Es2TsOutputData flushes before the buffer is too full.
LEMMA OutputKeeps ==
  ASSUME NEW t \in Types, NEW c, NEW w, Underway(w, t, c), NEW x, x.len = TsPktLen, x.kind # "rtp"
  PROVE  Underway(TsOutput(w, x), t, c)
<1>1. PICK v : v = [w EXCEPT !.ops = Append(@, Out(w.t, x)), !.cb[w.t].outLen = @ + 1]
  OBVIOUS
<1>2. PICK N \in Nat \ {0} : N = TsNetPkts /\ Room(TRUE) = N
  BY TsLens
<1>3. /\ {"cb", "t", "ops"} \subseteq DOMAIN w /\ w.t = t
      /\ {"video", "audio", "pat", "pmt", "audioCnt"} \subseteq DOMAIN w.cb
      /\ \A u \in Types : {"outLen", "left", "seq"} \subseteq DOMAIN w.cb[u] /\ IsSeq(w.cb[u].left)
      /\ \A u \in Types : u # t => StreamOK(w.cb[u]) /\ w.cb[u].outLen = c[u].outLen
  BY DEF Underway, TsCbOK, StreamOK
<1>4. PICK k \in 0 .. N - 1 : k = w.cb[t].outLen /\ Paced(TRUE, t, w.ops, c[t].outLen, k)
  BY <1>2 DEF Underway, TsCbOK, StreamOK
<1>5. /\ {"cb", "t", "ops"} \subseteq DOMAIN v /\ v.t = t /\ v.ops = Append(w.ops, Out(t, x))
      /\ v.cb = [w.cb EXCEPT ![t] = [w.cb[t] EXCEPT !.outLen = k + 1]]
  BY <1>1, <1>3, <1>4
<1>6. t \in DOMAIN w.cb
  BY <1>3 DEF Types
<1>7. v.cb[t] = [w.cb[t] EXCEPT !.outLen = k + 1] /\ \A u \in Types : u # t => v.cb[u] = w.cb[u]
  BY <1>5, <1>6
<1>8. v.cb[t].outLen = k + 1 /\ v.cb[t].left = w.cb[t].left /\ DOMAIN v.cb[t] = DOMAIN w.cb[t]
  BY <1>3, <1>7
<1>9. Paced(TRUE, t, v.ops, c[t].outLen, k + 1)
  <2>1. PICK o : o = Out(t, x)
    OBVIOUS
  <2>2. o.type = t /\ o.op = "out" /\ o.item = x
    BY <2>1 DEF Out
  <2>3. k + 1 \in 0 .. N
    BY <1>4
  <2>4. CallFits(TRUE, o, k, k + 1)
    BY <1>4, <2>2 DEF CallFits, Weight
  <2>5. Paced(TRUE, t, Append(w.ops, o), c[t].outLen, k + 1)
    BY <1>2, <1>4, <2>2, <2>3, <2>4, PacedOne
  <2> QED
    BY <1>5, <2>1, <2>5
<1>10. \A u \in Types : u # t => StreamOK(v.cb[u]) /\ v.cb[u].outLen = c[u].outLen
  BY <1>3, <1>7
<1>11. DOMAIN v.cb = DOMAIN w.cb
  BY <1>5
<1>12. TsOutput(w, x) = IF IsNetPkt(v.cb[t].outLen) THEN FlushEsData(v) ELSE v
  BY <1>1, <1>5 DEF TsOutput
<1>13. CASE IsNetPkt(k + 1)
  <2>1. \A u \in Types : {"outLen", "left", "seq"} \subseteq DOMAIN v.cb[u] /\ IsSeq(v.cb[u].left)
    BY <1>3, <1>7, <1>8
  <2>2. Underway(FlushEsData(v), t, c)
    BY <1>3, <1>5, <1>9, <1>10, <1>11, <2>1, FlushUnderway
  <2> QED
    BY <1>8, <1>12, <1>13, <2>2
<1>14. CASE ~IsNetPkt(k + 1)
  <2>1. k + 1 \in 0 .. N - 1
    BY <1>2, <1>4, <1>14 DEF IsNetPkt
  <2>2. StreamOK(v.cb[t])
    BY <1>2, <1>3, <1>8, <2>1 DEF StreamOK
  <2>3. TsCbOK(v.cb)
    BY <1>3, <1>10, <1>11, <2>2 DEF TsCbOK
  <2>4. Underway(v, t, c)
    BY <1>5, <1>8, <1>9, <1>10, <2>3 DEF Underway
  <2> QED
    BY <1>8, <1>12, <1>14, <2>4
<1> QED
  BY <1>13, <1>14

\* A change that leaves the calls and the counts alone.
LEMMA SameCalls ==
  ASSUME NEW t \in Types, NEW c, NEW w, Underway(w, t, c), NEW v, {"cb", "t", "ops"} \subseteq DOMAIN v,
         v.t = t, v.ops = w.ops, {"video", "audio", "pat", "pmt", "audioCnt"} \subseteq DOMAIN v.cb,
         \A u \in Types : /\ {"outLen", "left", "seq"} \subseteq DOMAIN v.cb[u]
                          /\ IsSeq(v.cb[u].left) /\ v.cb[u].outLen = w.cb[u].outLen
  PROVE  Underway(v, t, c)
<1>1. TsCbOK(v.cb)
  BY DEF Underway, TsCbOK, StreamOK
<1> QED
  BY <1>1 DEF Underway

\* The counter of the stream,
LEMMA CountKeeps ==
  ASSUME NEW t \in Types, NEW c, NEW w, Underway(w, t, c)
  PROVE  Underway([w EXCEPT !.cb[w.t].seq = @ + 1], t, c)
<1>1. PICK v : v = [w EXCEPT !.cb[w.t].seq = @ + 1]
  OBVIOUS
<1>2. /\ {"cb", "t", "ops"} \subseteq DOMAIN w /\ w.t = t
      /\ {"video", "audio", "pat", "pmt", "audioCnt"} \subseteq DOMAIN w.cb
      /\ \A u \in Types : {"outLen", "left", "seq"} \subseteq DOMAIN w.cb[u] /\ IsSeq(w.cb[u].left)
  BY DEF Underway, TsCbOK, StreamOK
<1>3. /\ {"cb", "t", "ops"} \subseteq DOMAIN v /\ v.t = t /\ v.ops = w.ops
      /\ v.cb = [w.cb EXCEPT ![t] = [w.cb[t] EXCEPT !.seq = w.cb[t].seq + 1]]
  BY <1>1, <1>2
<1>4. t \in DOMAIN w.cb
  BY <1>2 DEF Types
<1>5. /\ v.cb[t] = [w.cb[t] EXCEPT !.seq = w.cb[t].seq + 1]
      /\ \A u \in Types : u # t => v.cb[u] = w.cb[u]
      /\ DOMAIN v.cb = DOMAIN w.cb
  BY <1>3, <1>4
<1>6. v.cb[t].outLen = w.cb[t].outLen /\ v.cb[t].left = w.cb[t].left /\ DOMAIN v.cb[t] = DOMAIN w.cb[t]
  BY <1>5
<1>7. \A u \in Types : /\ {"outLen", "left", "seq"} \subseteq DOMAIN v.cb[u]
                       /\ IsSeq(v.cb[u].left) /\ v.cb[u].outLen = w.cb[u].outLen
  BY <1>2, <1>5, <1>6
<1>8. Underway(v, t, c)
  BY <1>2, <1>3, <1>5, <1>7, SameCalls
<1> QED
  BY <1>1, <1>8

\* the data that is left over,
LEMMA LeaveKeeps ==
  ASSUME NEW t \in Types, NEW c, NEW w, Underway(w, t, c), NEW d, IsSeq(d)
  PROVE  Underway(LeaveData(w, d), t, c)
<1>1. PICK v : v = LeaveData(w, d)
  OBVIOUS
<1>2. /\ {"cb", "t", "ops"} \subseteq DOMAIN w /\ w.t = t
      /\ {"video", "audio", "pat", "pmt", "audioCnt"} \subseteq DOMAIN w.cb
      /\ \A u \in Types : {"outLen", "left", "seq"} \subseteq DOMAIN w.cb[u] /\ IsSeq(w.cb[u].left)
  BY DEF Underway, TsCbOK, StreamOK
<1>3. /\ {"cb", "t", "ops"} \subseteq DOMAIN v /\ v.t = t /\ v.ops = w.ops
      /\ v.cb = [w.cb EXCEPT ![t] = [w.cb[t] EXCEPT !.left = d]]
  BY <1>1, <1>2 DEF LeaveData
<1>4. t \in DOMAIN w.cb
  BY <1>2 DEF Types
<1>5. /\ v.cb[t] = [w.cb[t] EXCEPT !.left = d]
      /\ \A u \in Types : u # t => v.cb[u] = w.cb[u]
      /\ DOMAIN v.cb = DOMAIN w.cb
  BY <1>3, <1>4
<1>6. v.cb[t].outLen = w.cb[t].outLen /\ v.cb[t].left = d /\ DOMAIN v.cb[t] = DOMAIN w.cb[t]
  BY <1>2, <1>5
<1>7. \A u \in Types : /\ {"outLen", "left", "seq"} \subseteq DOMAIN v.cb[u]
                       /\ IsSeq(v.cb[u].left) /\ v.cb[u].outLen = w.cb[u].outLen
  BY <1>2, <1>5, <1>6
<1>8. Underway(v, t, c)
  BY <1>2, <1>3, <1>5, <1>7, SameCalls
<1> QED
  BY <1>1, <1>8

\* and the counters of the tables are of that kind.
LEMMA TableKeeps ==
  ASSUME NEW t \in Types, NEW c, NEW w, Underway(w, t, c), NEW k \in {"pat", "pmt", "audioCnt"}
  PROVE  Underway([w EXCEPT !.cb[k] = @ + 1], t, c)
<1>1. PICK v : v = [w EXCEPT !.cb[k] = @ + 1]
  OBVIOUS
<1>2. /\ {"cb", "t", "ops"} \subseteq DOMAIN w /\ w.t = t
      /\ {"video", "audio", "pat", "pmt", "audioCnt"} \subseteq DOMAIN w.cb
      /\ \A u \in Types : {"outLen", "left", "seq"} \subseteq DOMAIN w.cb[u] /\ IsSeq(w.cb[u].left)
  BY DEF Underway, TsCbOK, StreamOK
<1>3. /\ {"cb", "t", "ops"} \subseteq DOMAIN v /\ v.t = t /\ v.ops = w.ops
      /\ v.cb = [w.cb EXCEPT ![k] = w.cb[k] + 1]
  BY <1>1, <1>2
<1>4. \A u \in Types : u # k
  BY DEF Types
<1>5. (\A u \in Types : v.cb[u] = w.cb[u]) /\ DOMAIN v.cb = DOMAIN w.cb
  BY <1>2, <1>3, <1>4 DEF Types
<1>6. \A u \in Types : /\ {"outLen", "left", "seq"} \subseteq DOMAIN v.cb[u]
                       /\ IsSeq(v.cb[u].left) /\ v.cb[u].outLen = w.cb[u].outLen
  BY <1>2, <1>5
<1>7. Underway(v, t, c)
  BY <1>2, <1>3, <1>5, <1>6, SameCalls
<1> QED
  BY <1>1, <1>7

\* VC_Es2TsFillOneTsPkt.
LEMMA PktKeeps ==
  ASSUME NEW t \in Types, NEW c, NEW w, Underway(w, t, c), NEW d, NEW last
  PROVE  Underway(TsPkt(w, d, last), t, c)
<1>1. PICK v : v = [w EXCEPT !.cb[w.t].seq = @ + 1]
  OBVIOUS
<1>2. PICK x : x = Item("ts", w.cb[w.t].seq % CounterMod, last, w.t, d, TsPktLen)
  OBVIOUS
<1>3. x.len = TsPktLen /\ x.kind # "rtp"
  BY <1>2 DEF Item
<1>4. Underway(v, t, c)
  BY <1>1, CountKeeps
<1>5. Underway(TsOutput(v, x), t, c)
  BY <1>3, <1>4, OutputKeeps
<1> QED
  BY <1>1, <1>2, <1>5 DEF TsPkt

\* PAT and PMT.
LEMMA TablesKeep ==
  ASSUME NEW t \in Types, NEW c, NEW w, Underway(w, t, c)
  PROVE  Underway(FillTables(w), t, c)
<1>1. ASSUME NEW v, Underway(v, t, c) PROVE Underway(FillPat(v), t, c)
  <2>1. PICK x : x = Item("pat", v.cb.pat % CounterMod, FALSE, "none", << >>, TsPktLen)
    OBVIOUS
  <2>2. x.len = TsPktLen /\ x.kind # "rtp"
    BY <2>1 DEF Item
  <2>3. Underway(TsOutput(v, x), t, c)
    BY <1>1, <2>2, OutputKeeps
  <2>4. PICK u : u = TsOutput(v, x)
    OBVIOUS
  <2>5. Underway([u EXCEPT !.cb["pat"] = @ + 1], t, c)
    BY <2>3, <2>4, TableKeeps
  <2> QED
    BY <2>1, <2>4, <2>5 DEF FillPat
<1>2. ASSUME NEW v, Underway(v, t, c) PROVE Underway(FillPmt(v), t, c)
  <2>1. PICK x : x = Item("pmt", v.cb.pmt % CounterMod, FALSE, "none", << >>, TsPktLen)
    OBVIOUS
  <2>2. x.len = TsPktLen /\ x.kind # "rtp"
    BY <2>1 DEF Item
  <2>3. Underway(TsOutput(v, x), t, c)
    BY <1>2, <2>2, OutputKeeps
  <2>4. PICK u : u = TsOutput(v, x)
    OBVIOUS
  <2>5. Underway([u EXCEPT !.cb["pmt"] = @ + 1], t, c)
    BY <2>3, <2>4, TableKeeps
  <2> QED
    BY <2>1, <2>4, <2>5 DEF FillPmt
<1>3. Underway(FillPat(w), t, c)
  BY <1>1
<1> QED
  BY <1>2, <1>3 DEF FillTables

(* The work after the i-th full packet of FillMiddle.                      *)
FilledOf(w, pieces, last, g, i) ==
  IF i = 0 THEN w ELSE TsPkt(g[i - 1], pieces[i], last /\ i = Len(pieces))
Filled(w, pieces, last, g, n) == g = [i \in 0 .. n |-> FilledOf(w, pieces, last, g, i)]

\* The function of FillMiddle exists up to k + 1 if up to k,
LEMMA FilledGrows ==
  ASSUME NEW w, NEW pieces, NEW last, NEW k \in Nat, NEW f, Filled(w, pieces, last, f, k)
  PROVE  \E g : Filled(w, pieces, last, g, k + 1)
<1> DEFINE g == [i \in 0 .. k + 1 |-> IF i = k + 1 THEN FilledOf(w, pieces, last, f, i) ELSE f[i]]
<1>1. \A i \in 0 .. k : i \in 0 .. k + 1 /\ i # k + 1
  OBVIOUS
<1>2. \A i \in 0 .. k : g[i] = f[i]
  BY <1>1
<1>3. g[k + 1] = FilledOf(w, pieces, last, f, k + 1) /\ k + 1 \in 0 .. k + 1
  OBVIOUS
<1>4. g = [i \in 0 .. k + 1 |-> g[i]]
  OBVIOUS
<1> HIDE DEF g
<1>5. ASSUME NEW i \in 0 .. k + 1 PROVE g[i] = FilledOf(w, pieces, last, g, i)
  <2>1. i = 0 \/ i - 1 \in 0 .. k
    OBVIOUS
  <2>2. FilledOf(w, pieces, last, f, i) = FilledOf(w, pieces, last, g, i)
    BY <1>2, <2>1 DEF FilledOf
  <2>3. CASE i = k + 1
    BY <1>3, <2>2, <2>3
  <2>4. CASE i # k + 1
    <3>1. i \in 0 .. k
      BY <2>4
    <3>2. f[i] = FilledOf(w, pieces, last, f, i)
      BY <3>1 DEF Filled
    <3> QED
      BY <1>2, <2>2, <3>1, <3>2
  <2> QED
    BY <2>3, <2>4
<1>6. g = [i \in 0 .. k + 1 |-> FilledOf(w, pieces, last, g, i)]
  BY <1>4, <1>5
<1> QED
  BY <1>6 DEF Filled

\* and so for every number of pieces.
LEMMA FilledExists ==
  ASSUME NEW w, NEW pieces, NEW last, NEW n \in Nat
  PROVE  \E g : Filled(w, pieces, last, g, n)
<1> DEFINE Bad == {k \in Nat : ~ \E g : Filled(w, pieces, last, g, k)}
<1> SUFFICES ASSUME Bad # {} PROVE FALSE
  OBVIOUS
<1>1. Bad \in SUBSET Nat
  OBVIOUS
<1>2. PICK k \in Bad : \A m \in Bad : k <= m
  <2> HIDE DEF Bad
  <2> QED
    BY <1>1, LeastOf
<1>3. k # 0
  <2> DEFINE g == [i \in 0 .. 0 |-> w]
  <2>1. \A i \in 0 .. 0 : i = 0
    OBVIOUS
  <2>2. g = [i \in 0 .. 0 |-> FilledOf(w, pieces, last, g, i)]
    <3>1. \A i \in 0 .. 0 : FilledOf(w, pieces, last, g, i) = w
      BY <2>1 DEF FilledOf
    <3> QED
      BY <3>1
  <2> HIDE DEF g
  <2>3. Filled(w, pieces, last, g, 0)
    BY <2>2 DEF Filled
  <2> QED
    BY <2>3
<1>4. PICK m \in Nat : k = m + 1 /\ ~(k <= m)
  <2>1. k - 1 \in Nat /\ k = (k - 1) + 1 /\ ~(k <= k - 1)
    BY <1>3
  <2> QED
    BY <2>1
<1>5. \E g : Filled(w, pieces, last, g, m)
  BY <1>2, <1>4
<1>6. \E g : Filled(w, pieces, last, g, m + 1)
  BY <1>5, FilledGrows
<1> QED
  BY <1>4, <1>6

\* Full packets and rest are sequences.
LEMMA SplitFacts == ASSUME NEW d, IsSeq(d) PROVE IsSeq(Whole(d)) /\ IsSeq(Rest(d))
<1>1. PICK L \in Nat, m \in Nat \ {0} : L = Len(d) /\ m = TsMaxDataLen
  BY SeqFacts, TsLens
<1>2. L \div m \in Nat
  BY DivTimes
<1>3. PICK k \in Nat : k = (L \div m) * m
  BY <1>2
<1>4. IsSeq(SubSeq(d, 1, k)) /\ IsSeq(SubSeq(d, k + 1, L))
  BY SubSeqFacts
<1> QED
  BY <1>1, <1>3, <1>4 DEF Whole, Rest, FullPkts

\* The full packets of VC_Es2TsFillData, one after the other.
LEMMA MiddleKeeps ==
  ASSUME NEW t \in Types, NEW c, NEW w, Underway(w, t, c), NEW d, IsSeq(d), NEW end
  PROVE  Underway(FillMiddle(w, d, end), t, c)
<1>1. PICK pieces : pieces = Pieces(Whole(d), TsMaxDataLen)
  OBVIOUS
<1>2. PICK n \in Nat : n = Len(pieces)
  <2>1. IsSeq(Whole(d))
    BY SplitFacts
  <2> QED
    BY <1>1, <2>1, PiecesFacts, TsLens
<1> DEFINE last == end /\ Rest(d) = << >>
<1>3. PICK f : f = (CHOOSE g : Filled(w, pieces, last, g, n))
  OBVIOUS
<1>4. Filled(w, pieces, last, f, n)
  BY <1>3, FilledExists
<1>5. FillMiddle(w, d, end) = f[n]
  BY <1>1, <1>2, <1>3 DEF FillMiddle, Filled, FilledOf
<1> HIDE DEF last
<1> DEFINE Bad == {i \in 0 .. n : ~Underway(f[i], t, c)}
<1>6. ASSUME Bad # {} PROVE FALSE
  <2>1. Bad \in SUBSET Nat
    OBVIOUS
  <2>2. PICK i \in Bad : \A m \in Bad : i <= m
    <3> HIDE DEF Bad
    <3> QED
      BY <1>6, <2>1, LeastOf
  <2>3. f[i] = FilledOf(w, pieces, last, f, i)
    BY <1>4 DEF Filled
  <2>4. i # 0
    BY <2>3 DEF FilledOf
  <2>5. i - 1 \in 0 .. n /\ ~(i <= i - 1)
    BY <2>4
  <2>6. Underway(f[i - 1], t, c)
    BY <2>2, <2>5
  <2>7. Underway(TsPkt(f[i - 1], pieces[i], last /\ i = Len(pieces)), t, c)
    BY <2>6, PktKeeps
  <2> QED
    BY <2>3, <2>4, <2>7 DEF FilledOf
<1>7. n \in 0 .. n
  OBVIOUS
<1> QED
  BY <1>5, <1>6, <1>7

\* VC_Es2TsFillData in all its ways.
LEMMA DataKeeps ==
  ASSUME NEW t \in Types, NEW c, NEW w, Underway(w, t, c), NEW d, IsSeq(d), NEW end
  PROVE  Underway(FillData(w, d, end), t, c)
<1>1. PICK v, r : v = FillMiddle(w, d, end) /\ r = Rest(d)
  OBVIOUS
<1>2. Underway(v, t, c) /\ IsSeq(r)
  BY <1>1, MiddleKeeps, SplitFacts
<1>3. Underway(FlushEsData(v), t, c) /\ Underway(LeaveData(v, r), t, c)
  BY <1>2, FlushKeeps, LeaveKeeps
<1>4. Underway(FlushEsData(TsPkt(v, r, TRUE)), t, c)
  <2>1. PICK u : u = TsPkt(v, r, TRUE)
    OBVIOUS
  <2>2. Underway(u, t, c)
    BY <1>2, <2>1, PktKeeps
  <2> QED
    BY <2>1, <2>2, FlushKeeps
<1>5. CASE r = << >> /\ end
  BY <1>1, <1>3, <1>5 DEF FillData
<1>6. CASE r = << >> /\ ~end
  <2>1. FillData(w, d, end) = v
    BY <1>1, <1>6 DEF FillData
  <2> QED
    BY <1>2, <2>1
<1>7. CASE r # << >> /\ end
  BY <1>1, <1>4, <1>7 DEF FillData
<1>8. CASE r # << >> /\ ~end
  BY <1>1, <1>3, <1>8 DEF FillData
<1> QED
  BY <1>5, <1>6, <1>7, <1>8

\* VC_Es2TsFillFirstVideoData behind the tables, which is that of audio too.
LEMMA FirstKeeps ==
  ASSUME NEW t \in Types, NEW c, NEW w, Underway(w, t, c), NEW p, IsSeq(p.data)
  PROVE  Underway(FillFirst(w, p), t, c)
<1>1. PICK d : d = p.data
  OBVIOUS
<1>2. PICK L \in Nat : L = Len(d)
  BY <1>1, SeqFacts
<1>3. PICK n \in Nat : n = IF L < TsFirstDataLen THEN L ELSE TsFirstDataLen
  BY TsLens
<1>4. PICK v : v = TsPkt(w, SubSeq(d, 1, n), p.end /\ n = L)
  OBVIOUS
<1>5. Underway(v, t, c)
  BY <1>4, PktKeeps
<1>6. IsSeq(SubSeq(d, n + 1, L))
  BY SubSeqFacts
<1>7. Underway(FillData(v, SubSeq(d, n + 1, L), p.end), t, c)
  BY <1>5, <1>6, DataKeeps
<1> QED
  BY <1>1, <1>2, <1>3, <1>4, <1>7 DEF FillFirst

\* VC_Es2TsClearBuf.
LEMMA ClearKeeps ==
  ASSUME NEW t \in Types, NEW c, NEW w, Underway(w, t, c)
  PROVE  Underway(ClearBuf(w), t, c)
<1>1. IsSeq(<< >>)
  BY EmptySeq DEF IsSeq
<1> QED
  BY <1>1, LeaveKeeps DEF ClearBuf

\* VC_Es2TsFillNextVideoData.
LEMMA NextVideoKeeps ==
  ASSUME NEW t \in Types, NEW c, NEW w, Underway(w, t, c), NEW p, IsSeq(p.data)
  PROVE  Underway(FillNextVideoData(w, p), t, c)
<1> DEFINE all == w.cb[w.t].left \o p.data
           n   == IF Len(all) > TsMaxDataLen THEN TsMaxDataLen ELSE Len(all)
           u   == TsPkt(w, SubSeq(all, 1, n), p.end /\ n = Len(all))
           v   == ClearBuf(u)
           rest == FillData(v, SubSeq(all, n + 1, Len(all)), p.end)
<1>1. FillNextVideoData(w, p) = IF ~p.end /\ Len(all) < TsMaxDataLen THEN LeaveData(w, all)
                                ELSE IF n = Len(all) THEN v ELSE rest
  BY DEF FillNextVideoData
<1>2. IsSeq(all)
  <2>1. IsSeq(w.cb[w.t].left)
    BY DEF Underway, TsCbOK, StreamOK
  <2> QED
    BY <2>1, ConcatFacts
<1> HIDE DEF all
<1>3. Len(all) \in Nat
  BY <1>2, SeqFacts
<1>4. n \in Nat
  BY <1>3, TsLens
<1> HIDE DEF n
<1>5. Underway(u, t, c)
  BY PktKeeps
<1> HIDE DEF u
<1>6. Underway(v, t, c)
  BY <1>5, ClearKeeps
<1> HIDE DEF v
<1>7. Underway(rest, t, c)
  <2>1. n + 1 \in Int /\ Len(all) \in Int
    BY <1>3, <1>4
  <2>2. IsSeq(SubSeq(all, n + 1, Len(all)))
    BY <2>1, SubSeqFacts
  <2> QED
    BY <1>6, <2>2, DataKeeps
<1> HIDE DEF rest
<1>8. Underway(LeaveData(w, all), t, c)
  BY <1>2, LeaveKeeps
<1> QED
  BY <1>1, <1>6, <1>7, <1>8

\* VC_Es2TsFillFirstVideoData.
LEMMA FirstVideoKeeps ==
  ASSUME NEW t \in Types, NEW c, NEW w, Underway(w, t, c), NEW p, IsSeq(p.data)
  PROVE  Underway(FillFirstVideoData(w, p), t, c)
<1>1. PICK v, u : v = ClearBuf(w) /\ u = FillTables(v)
  OBVIOUS
<1>2. Underway(v, t, c)
  BY <1>1, ClearKeeps
<1>3. Underway(u, t, c)
  BY <1>1, <1>2, TablesKeep
<1>4. Underway(FillFirst(u, p), t, c) /\ Underway(FillFirst(v, p), t, c)
  BY <1>2, <1>3, FirstKeeps
<1> QED
  BY <1>1, <1>4 DEF FillFirstVideoData

\* What lets a packet in changes neither what a stream holds nor its shape.
Alike(s, r) == DOMAIN r = DOMAIN s /\ r.outLen = s.outLen /\ r.left = s.left

LEMMA GateAlike ==
  ASSUME NEW s, StreamOK(s), NEW p
  PROVE  Alike(s, Gate(s, p).s)
<1>1. "outLen" \in DOMAIN s /\ "left" \in DOMAIN s
  BY DEF StreamOK
<1>2. PICK t, e : t = [s EXCEPT !.fmt = FmtAfter(s, p)] /\ e = Expecting(t, p)
  OBVIOUS
<1>3. Alike(s, t)
  BY <1>1, <1>2 DEF Alike
<1>4. Alike(s, e)
  BY <1>1, <1>2, <1>3 DEF Alike, Expecting
<1>5. PICK a, b, f, g, h :
        /\ a = [s EXCEPT !.drop = TRUE] /\ b = [t EXCEPT !.drop = TRUE]
        /\ f = [t EXCEPT !.drop = FALSE, !.frm = p.frm, !.next = p.seq + 1]
        /\ g = [e EXCEPT !.next = @ + 1] /\ h = [e EXCEPT !.drop = TRUE]
  OBVIOUS
<1>6. Alike(s, a)
  BY <1>1, <1>5 DEF Alike
<1>7. Alike(s, b) /\ Alike(s, f)
  BY <1>1, <1>3, <1>5 DEF Alike
<1>8. Alike(s, g) /\ Alike(s, h)
  BY <1>1, <1>4, <1>5 DEF Alike
<1>9. Gate(s, p).s \in {a, b, f, g, h}
  BY <1>2, <1>5 DEF Gate, Refuse, Pass
<1> QED
  BY <1>6, <1>7, <1>8, <1>9

\* What a conversion to a transport stream is known to do.
Concludes(r, was) ==
  /\ TsCbOK(r.cb)
  /\ \E t \in Types : /\ Paced(TRUE, t, r.ops, was[t].outLen, r.cb[t].outLen)
                      /\ \A u \in Types : u # t => r.cb[u].outLen = was[u].outLen

\* A conversion in progress may end at any time.
LEMMA DoneConcludes ==
  ASSUME NEW t \in Types, NEW c, NEW w, Underway(w, t, c), NEW was,
         \A u \in Types : c[u].outLen = was[u].outLen
  PROVE  Concludes(Done(w), was)
<1>1. PICK r : r = Done(w)
  OBVIOUS
<1>2. r.cb = w.cb /\ r.ops = w.ops
  BY <1>1 DEF Done
<1>3. TsCbOK(r.cb) /\ Paced(TRUE, t, r.ops, c[t].outLen, r.cb[t].outLen)
  BY <1>2 DEF Underway
<1>4. \A u \in Types : u # t => r.cb[u].outLen = c[u].outLen
  BY <1>2 DEF Underway
<1>5. Paced(TRUE, t, r.ops, was[t].outLen, r.cb[t].outLen)
  BY <1>3
<1>6. \A u \in Types : u # t => r.cb[u].outLen = was[u].outLen
  BY <1>4
<1>7. Concludes(r, was)
  BY <1>3, <1>5, <1>6 DEF Concludes
<1> QED
  BY <1>1, <1>7

\* A conversion begins with what its stream counts.
LEMMA WorkBegins ==
  ASSUME NEW t \in Types, NEW was, TsCbOK(was)
  PROVE  Underway(TsWork(was, t, << >>), t, was)
<1>1. PICK w : w = TsWork(was, t, << >>)
  OBVIOUS
<1>2. {"cb", "t", "ops"} \subseteq DOMAIN w /\ w.t = t /\ w.cb = was /\ w.ops = << >>
  BY <1>1 DEF TsWork
<1>3. was[t].outLen \in 0 .. Room(TRUE)
  <2>1. PICK N \in Nat \ {0} : N = TsNetPkts /\ Room(TRUE) = N
    BY TsLens
  <2>2. was[t].outLen \in 0 .. N - 1
    BY <2>1 DEF TsCbOK, StreamOK
  <2>3. was[t].outLen \in 0 .. N
    BY <2>2
  <2> QED
    BY <2>1, <2>3
<1>4. Paced(TRUE, t, w.ops, was[t].outLen, w.cb[t].outLen)
  BY <1>2, <1>3, EmptyPaced
<1>5. Underway(w, t, was)
  BY <1>2, <1>4 DEF Underway
<1> QED
  BY <1>1, <1>5

\* VC_Es2TsVideo.
LEMMA TsVideoPaced ==
  ASSUME NEW was, TsCbOK(was), NEW p, IsSeq(p.data)
  PROVE  Concludes(Es2TsVideo(was, p), was)
<1>1. PICK g : g = Gate(was.video, p)
  OBVIOUS
<1>2. PICK c : c = [was EXCEPT !.video = g.s]
  OBVIOUS
<1>3. "video" \in Types /\ "audio" \in Types /\ \A u \in Types : u = "video" \/ u = "audio"
  BY DEF Types
<1>4. StreamOK(was.video) /\ StreamOK(was.audio)
  BY <1>3 DEF TsCbOK
<1>5. Alike(was.video, g.s)
  BY <1>1, <1>4, GateAlike
<1>6. StreamOK(g.s) /\ g.s.outLen = was.video.outLen
  BY <1>4, <1>5 DEF Alike, StreamOK
<1>7. c.video = g.s /\ c.audio = was.audio /\ DOMAIN c = DOMAIN was
  BY <1>2 DEF TsCbOK
<1>8. TsCbOK(c)
  BY <1>3, <1>4, <1>6, <1>7 DEF TsCbOK
<1>9. \A u \in Types : c[u].outLen = was[u].outLen
  BY <1>3, <1>6, <1>7
<1>10. PICK w : w = TsWork(c, "video", << >>)
  OBVIOUS
<1>11. Underway(w, "video", c)
  BY <1>3, <1>8, <1>10, WorkBegins
<1>12. Concludes(Done(w), was)
  BY <1>3, <1>9, <1>11, DoneConcludes
<1>13. Concludes(Done(FillFirstVideoData(w, p)), was)
  <2>1. PICK v : v = FillFirstVideoData(w, p)
    OBVIOUS
  <2>2. Underway(v, "video", c)
    BY <1>3, <1>11, <2>1, FirstVideoKeeps
  <2> QED
    BY <1>3, <1>9, <2>1, <2>2, DoneConcludes
<1>14. Concludes(Done(FillNextVideoData(w, p)), was)
  <2>1. PICK v : v = FillNextVideoData(w, p)
    OBVIOUS
  <2>2. Underway(v, "video", c)
    BY <1>3, <1>11, <2>1, NextVideoKeeps
  <2> QED
    BY <1>3, <1>9, <2>1, <2>2, DoneConcludes
<1> QED
  BY <1>1, <1>2, <1>10, <1>12, <1>13, <1>14 DEF Es2TsVideo

\* VC_Es2TsAudio.
LEMMA TsAudioPaced ==
  ASSUME NEW was, TsCbOK(was), NEW p, IsSeq(p.data)
  PROVE  Concludes(Es2TsAudio(was, p), was)
<1>1. "audio" \in Types
  BY DEF Types
<1>2. PICK w : w = TsWork(was, "audio", << >>)
  OBVIOUS
<1>3. PICK v : v = [w EXCEPT !.cb["audioCnt"] = @ + 1]
  OBVIOUS
<1>4. Underway(w, "audio", was)
  BY <1>1, <1>2, WorkBegins
<1>5. Underway(v, "audio", was)
  BY <1>1, <1>3, <1>4, TableKeeps
<1>6. ASSUME NEW x, Underway(x, "audio", was) PROVE Concludes(Done(FillFirst(x, p)), was)
  <2>1. PICK y : y = FillFirst(x, p)
    OBVIOUS
  <2>2. Underway(y, "audio", was)
    BY <1>1, <1>6, <2>1, FirstKeeps
  <2> QED
    BY <1>1, <2>1, <2>2, DoneConcludes
<1>7. Concludes(Done(w), was)
  BY <1>1, <1>4, DoneConcludes
<1>8. Concludes(Done(FillFirst(w, p)), was) /\ Concludes(Done(FillFirst(v, p)), was)
  BY <1>4, <1>5, <1>6
<1>9. Concludes(Done(FillFirst(FillTables(v), p)), was)
  <2>1. Underway(FillTables(v), "audio", was)
    BY <1>1, <1>5, TablesKeep
  <2> QED
    BY <1>6, <2>1
<1> QED
  BY <1>2, <1>3, <1>7, <1>8, <1>9 DEF Es2TsAudio

\* VC_Es2TsConvert.
LEMMA TsPaced ==
  ASSUME NEW was, TsCbOK(was), NEW p, IsSeq(p.data)
  PROVE  Concludes(Es2TsConvert(was, p), was)
BY TsVideoPaced, TsAudioPaced DEF Es2TsConvert

-----------------------------------------------------------------------------
(* Upstream: the lengths of the packets add up, and the first packet of a  *)
(* frame begins as StartsFrame says.                                       *)

SummedOf(lens, g, j) == IF j = 0 THEN 0 ELSE g[j - 1] + lens[j]
Summed(lens, g, n) == g = [j \in 0 .. n |-> SummedOf(lens, g, j)]

\* The function of SumLens exists up to k + 1 if up to k,
LEMMA SummedGrows ==
  ASSUME NEW lens, NEW k \in Nat, NEW f, Summed(lens, f, k)
  PROVE  \E g : Summed(lens, g, k + 1)
<1> DEFINE g == [i \in 0 .. k + 1 |-> IF i = k + 1 THEN SummedOf(lens, f, i) ELSE f[i]]
<1>1. \A i \in 0 .. k : i \in 0 .. k + 1 /\ i # k + 1
  OBVIOUS
<1>2. \A i \in 0 .. k : g[i] = f[i]
  BY <1>1
<1>3. g[k + 1] = SummedOf(lens, f, k + 1) /\ k + 1 \in 0 .. k + 1
  OBVIOUS
<1>4. g = [i \in 0 .. k + 1 |-> g[i]]
  OBVIOUS
<1> HIDE DEF g
<1>5. ASSUME NEW i \in 0 .. k + 1 PROVE g[i] = SummedOf(lens, g, i)
  <2>1. i = 0 \/ i - 1 \in 0 .. k
    OBVIOUS
  <2>2. SummedOf(lens, f, i) = SummedOf(lens, g, i)
    BY <1>2, <2>1 DEF SummedOf
  <2>3. CASE i = k + 1
    BY <1>3, <2>2, <2>3
  <2>4. CASE i # k + 1
    <3>1. i \in 0 .. k
      BY <2>4
    <3>2. f[i] = SummedOf(lens, f, i)
      BY <3>1 DEF Summed
    <3> QED
      BY <1>2, <2>2, <3>1, <3>2
  <2> QED
    BY <2>3, <2>4
<1>6. g = [i \in 0 .. k + 1 |-> SummedOf(lens, g, i)]
  BY <1>4, <1>5
<1> QED
  BY <1>6 DEF Summed

\* and so for every number of packets.
LEMMA SummedExists == ASSUME NEW lens, NEW n \in Nat PROVE \E g : Summed(lens, g, n)
<1> DEFINE Bad == {k \in Nat : ~ \E g : Summed(lens, g, k)}
<1> SUFFICES ASSUME Bad # {} PROVE FALSE
  OBVIOUS
<1>1. Bad \in SUBSET Nat
  OBVIOUS
<1>2. PICK k \in Bad : \A m \in Bad : k <= m
  <2> HIDE DEF Bad
  <2> QED
    BY <1>1, LeastOf
<1>3. k # 0
  <2> DEFINE g == [i \in 0 .. 0 |-> 0]
  <2>1. \A i \in 0 .. 0 : i = 0
    OBVIOUS
  <2>2. g = [i \in 0 .. 0 |-> SummedOf(lens, g, i)]
    <3>1. \A i \in 0 .. 0 : SummedOf(lens, g, i) = 0
      BY <2>1 DEF SummedOf
    <3> QED
      BY <3>1
  <2> HIDE DEF g
  <2>3. Summed(lens, g, 0)
    BY <2>2 DEF Summed
  <2> QED
    BY <2>3
<1>4. PICK m \in Nat : k = m + 1 /\ ~(k <= m)
  <2>1. k - 1 \in Nat /\ k = (k - 1) + 1 /\ ~(k <= k - 1)
    BY <1>3
  <2> QED
    BY <2>1
<1>5. \E g : Summed(lens, g, m)
  BY <1>2, <1>4
<1>6. \E g : Summed(lens, g, m + 1)
  BY <1>5, SummedGrows
<1> QED
  BY <1>4, <1>6

\* Sums are numbers, and none is less than the first.
LEMMA SumFacts ==
  ASSUME NEW lens \in Seq(Nat)
  PROVE  /\ \A k \in 0 .. Len(lens) : SumLens(lens, k) \in Nat
         /\ \A k \in 1 .. Len(lens) : SumLens(lens, 1) <= SumLens(lens, k)
<1>1. PICK n \in Nat : n = Len(lens) /\ \A k \in 1 .. n : lens[k] \in Nat
  OBVIOUS
<1>2. PICK f : f = (CHOOSE g : Summed(lens, g, n))
  OBVIOUS
<1>3. Summed(lens, f, n)
  BY <1>2, SummedExists
<1>4. \A k \in 0 .. n : SumLens(lens, k) = f[k]
  BY <1>1, <1>2 DEF SumLens, Summed, SummedOf
<1>5. \A k \in 0 .. n : f[k] = SummedOf(lens, f, k)
  BY <1>3 DEF Summed
<1> DEFINE Right(k) == f[k] \in Nat /\ (k # 0 => f[1] <= f[k])
           Bad == {k \in 0 .. n : ~Right(k)}
<1>6. ASSUME Bad # {} PROVE FALSE
  <2>1. Bad \in SUBSET Nat
    OBVIOUS
  <2>2. PICK k \in Bad : \A m \in Bad : k <= m
    <3> HIDE DEF Bad
    <3> QED
      BY <1>6, <2>1, LeastOf
  <2>3. f[k] = SummedOf(lens, f, k)
    BY <1>5
  <2>4. k # 0
    BY <2>3 DEF SummedOf
  <2>5. k - 1 \in 0 .. n /\ ~(k <= k - 1) /\ k \in 1 .. n
    BY <2>4
  <2>6. Right(k - 1)
    BY <2>2, <2>5
  <2>7. f[k] = f[k - 1] + lens[k] /\ lens[k] \in Nat
    BY <1>1, <2>3, <2>4, <2>5 DEF SummedOf
  <2>8. f[k] \in Nat /\ f[k - 1] <= f[k]
    BY <2>6, <2>7
  <2>9. f[1] <= f[k]
    <3>1. CASE k = 1
      BY <2>8, <3>1
    <3>2. CASE k # 1
      <4>1. 1 \in 0 .. n /\ k - 1 # 0
        BY <2>5, <3>2
      <4>2. f[1] <= f[k - 1]
        BY <2>6, <4>1
      <4>3. f[k - 1] \in Nat
        BY <2>6
      <4>4. f[1] \in Nat
        <5>1. 1 \notin Bad
          BY <2>2, <2>4, <2>5, <3>2
        <5> QED
          BY <4>1, <5>1
      <4> QED
        BY <2>8, <4>2, <4>3, <4>4
    <3> QED
      BY <3>1, <3>2
  <2> QED
    BY <2>8, <2>9
<1>7. \A k \in 0 .. n : Right(k)
  BY <1>6
<1>8. \A k \in 1 .. n : k \in 0 .. n /\ 1 \in 0 .. n /\ k # 0
  BY <1>1
<1> HIDE DEF Bad
<1> QED
  BY <1>1, <1>4, <1>7, <1>8

\* The symbols of a frame, and where its start codes are.
LEMMA PrefixFacts ==
  ASSUME NEW i \in BOOLEAN
  PROVE  /\ IsSeq(Prefix(i)) /\ Len(Prefix(i)) = (IF i THEN 4 ELSE 2)
         /\ \A j \in 1 .. Len(Prefix(i)) : Prefix(i)[j] = "sc" <=> j \in (IF i THEN {1, 3} ELSE {1})
<1>1. CASE i
  <2>1. PICK q : q = <<"sc", "sps", "sc", "idr">>
    OBVIOUS
  <2>2. /\ q \in Seq({"sc", "sps", "idr"}) /\ Len(q) = 4
        /\ q[1] = "sc" /\ q[2] = "sps" /\ q[3] = "sc" /\ q[4] = "idr"
    BY <2>1
  <2>3. \A j \in 1 .. 4 : j = 1 \/ j = 2 \/ j = 3 \/ j = 4
    OBVIOUS
  <2>4. \A j \in 1 .. 4 : q[j] = "sc" <=> j \in {1, 3}
    BY <2>2, <2>3
  <2>5. IsSeq(q)
    BY <2>2 DEF IsSeq
  <2>6. Prefix(i) = q
    BY <1>1, <2>1 DEF Prefix
  <2> QED
    BY <1>1, <2>2, <2>4, <2>5, <2>6
<1>2. CASE ~i
  <2>1. PICK q : q = <<"sc", "slice">>
    OBVIOUS
  <2>2. q \in Seq({"sc", "slice"}) /\ Len(q) = 2 /\ q[1] = "sc" /\ q[2] = "slice"
    BY <2>1
  <2>3. \A j \in 1 .. 2 : j = 1 \/ j = 2
    OBVIOUS
  <2>4. \A j \in 1 .. 2 : q[j] = "sc" <=> j \in {1}
    BY <2>2, <2>3
  <2>5. IsSeq(q)
    BY <2>2 DEF IsSeq
  <2>6. Prefix(i) = q
    BY <1>2, <2>1 DEF Prefix
  <2> QED
    BY <1>2, <2>2, <2>4, <2>5, <2>6
<1> QED
  BY <1>1, <1>2

\* Every packet has data, and the first begins the frame.
LEMMA PktFacts ==
  ASSUME NEW shape, shape.lens \in Seq(Nat), shape.i \in BOOLEAN, NEW n,
         NEW k \in 1 .. Len(shape.lens)
  PROVE  /\ IsSeq(PktOf(shape, n, k).data)
         /\ PktOf(shape, n, k).first => StartsFrame(PktOf(shape, n, k).data)
<1>1. PICK L \in Nat : L = Len(shape.lens)
  OBVIOUS
<1>2. PICK pre : pre = Prefix(shape.i)
  OBVIOUS
<1>3. PICK m \in {2, 4} : m = Len(pre) /\ (shape.i => m = 4)
  BY <1>2, PrefixFacts
<1>4. PICK all : all = FrameData(shape, n)
  OBVIOUS
<1>5. \A j \in 0 .. L : SumLens(shape.lens, j) \in Nat
  BY <1>1, SumFacts
<1>6. PICK b \in Nat, e \in Nat : b = SumLens(shape.lens, k - 1) /\ e = SumLens(shape.lens, k)
  <2>1. k \in 0 .. L /\ k - 1 \in 0 .. L
    BY <1>1
  <2> QED
    BY <1>5, <2>1
<1>7. PICK x \in Int, y \in Nat : x = (IF k = 1 THEN 1 ELSE m + b + 1) /\ y = m + e
  OBVIOUS
<1>8. PktOf(shape, n, k).data = SubSeq(all, x, y) /\ (PktOf(shape, n, k).first => k = 1)
  BY <1>2, <1>3, <1>4, <1>6, <1>7 DEF PktOf
<1>9. IsSeq(SubSeq(all, x, y))
  BY SubSeqFacts
<1>10. ASSUME k = 1 PROVE StartsFrame(SubSeq(all, x, y))
  <2>1. PICK z \in Nat : z = SumLens(shape.lens, L) /\ e <= z
    <3>1. L \in 0 .. L /\ L \in 1 .. L
      BY <1>1
    <3>2. SumLens(shape.lens, 1) <= SumLens(shape.lens, L)
      BY <1>1, <3>1, SumFacts
    <3> QED
      BY <1>5, <1>6, <1>10, <3>1, <3>2
  <2>2. PICK rest : rest = [j \in 1 .. z |-> "d"]
    OBVIOUS
  <2>3. rest \in [1 .. z -> {"d"}] /\ \A j \in 1 .. z : rest[j] = "d"
    BY <2>2
  <2>4. IsSeq(rest) /\ Len(rest) = z
    BY <2>3, MadeFacts
  <2>5. PICK syms : syms = pre \o rest
    OBVIOUS
  <2>6. /\ Len(syms) = m + z /\ (\A j \in 1 .. m : syms[j] = pre[j])
        /\ \A j \in 1 .. z : syms[m + j] = rest[j]
    <3>1. IsSeq(pre)
      BY <1>2, PrefixFacts
    <3>2. /\ Len(syms) = Len(pre) + Len(rest) /\ (\A j \in 1 .. Len(pre) : syms[j] = pre[j])
          /\ \A j \in 1 .. Len(rest) : syms[Len(pre) + j] = rest[j]
      <4>1. IsSeq(rest)
        BY <2>4
      <4> QED
        BY ONLY <2>5, <3>1, <4>1, ConcatFacts
    <3> QED
      BY <1>3, <2>4, <3>2
  <2>7. \A j \in 1 .. m + z : syms[j] = "sc" <=> j \in (IF shape.i THEN {1, 3} ELSE {1})
    <3>1. ASSUME NEW j \in 1 .. m + z, j > m
          PROVE  syms[j] # "sc" /\ j \notin (IF shape.i THEN {1, 3} ELSE {1})
      <4>1. PICK i \in 1 .. z : j = m + i
        <5>1. j - m \in 1 .. z /\ j = m + (j - m)
          BY <3>1
        <5> QED
          BY <5>1
      <4>2. syms[j] = "d"
        BY <2>3, <2>6, <4>1
      <4>3. m \in Nat /\ m >= 2 /\ (shape.i => m >= 4)
        BY <1>3
      <4>4. j # 1 /\ (shape.i => j # 3)
        BY <3>1, <4>3
      <4> QED
        BY <4>2, <4>4
    <3>2. \A j \in 1 .. m + z : j > m \/ j \in 1 .. m
      OBVIOUS
    <3>3. \A j \in 1 .. m : pre[j] = "sc" <=> j \in (IF shape.i THEN {1, 3} ELSE {1})
      BY <1>2, <1>3, PrefixFacts
    <3> QED
      BY <2>6, <3>1, <3>2, <3>3
  <2>8. all = [j \in 1 .. m + z |-> <<syms[j], n, j>>]
    BY <1>1, <1>2, <1>4, <2>1, <2>2, <2>5, <2>6 DEF FrameData
  <2>9. PICK d : d = SubSeq(all, 1, y)
    OBVIOUS
  <2>10. /\ IsSeq(d) /\ Len(d) = y /\ \A j \in 1 .. y : d[j] = all[j]
    <3>1. Len(d) = y /\ \A j \in 1 .. y - 1 + 1 : d[j] = all[1 + j - 1]
      BY <2>9, <1>7, SubSeqFacts
    <3>2. IsSeq(d)
      BY <2>9, SubSeqFacts
    <3>3. \A j \in 1 .. y : j \in 1 .. y - 1 + 1 /\ 1 + j - 1 = j
      OBVIOUS
    <3> QED
      BY <3>1, <3>2, <3>3
  <2>11. \A j \in 1 .. y - 1 : Kind(d[j]) = "sc" <=> j \in (IF shape.i THEN {1, 3} ELSE {1})
    <3>1. \A j \in 1 .. y - 1 : j \in 1 .. y /\ j \in 1 .. m + z
      BY <1>7, <2>1
    <3>2. \A j \in 1 .. m + z : all[j] = <<syms[j], n, j>>
      BY <2>8
    <3>3. \A j \in 1 .. m + z : Kind(all[j]) = syms[j]
      BY <3>2 DEF Kind
    <3> QED
      BY <2>7, <2>10, <3>1, <3>3
  <2>12. CodesIn(d) = IF shape.i THEN {1, 3} ELSE {1}
    <3>1. 1 \in 1 .. y - 1 /\ (shape.i => 3 \in 1 .. y - 1)
      <4>1. m \in Nat /\ m >= 2 /\ (shape.i => m >= 4) /\ y = m + e
        BY <1>3, <1>7
      <4> QED
        BY <4>1
    <3>2. CodesIn(d) = {j \in 1 .. y - 1 : Kind(d[j]) = "sc"}
      BY <2>10 DEF CodesIn
    <3> QED
      BY <2>11, <3>1, <3>2
  <2>13. StartsFrame(d)
    BY <2>10, <2>12 DEF StartsFrame
  <2>14. x = 1
    BY <1>7, <1>10
  <2> QED
    BY <2>9, <2>13, <2>14
<1> QED
  BY <1>8, <1>9, <1>10

\* The packets of both kinds, as the converters want them.
PktOK(p) == IsSeq(p.data) /\ (p.video /\ p.first => StartsFrame(p.data))

\* Those cut from a frame,
LEMMA VideoPktOK ==
  ASSUME NEW shape, shape.lens \in Seq(Nat), shape.i \in BOOLEAN, NEW n,
         NEW k \in 1 .. Len(shape.lens)
  PROVE  PktOK(PktOf(shape, n, k))
BY PktFacts DEF PktOK

\* and those of audio.
LEMMA AudioPktOK == ASSUME NEW n PROVE PktOK(AudioPkt(n, RtpMaxLen + 1))
<1>1. PICK m \in Nat : m = RtpMaxLen + 1
  BY Lens
<1>2. PICK d : d = [j \in 1 .. m |-> <<"a", n, j>>]
  OBVIOUS
<1>3. d \in [1 .. m -> {<<"a", n, j>> : j \in 1 .. m}]
  BY <1>2
<1>4. IsSeq(d)
  BY <1>3, MadeFacts
<1>5. AudioPkt(n, m).data = d /\ AudioPkt(n, m).video = FALSE
  BY <1>2 DEF AudioPkt
<1>6. PktOK(AudioPkt(n, m))
  BY <1>4, <1>5 DEF PktOK
<1> QED
  BY <1>1, <1>6

-----------------------------------------------------------------------------
(* The invariant.  What a buffer holds is never more than what the calls   *)
(* still to be made count on: no data goes missing from that count but     *)
(* what there was no memory for.                                           *)

IsTs(v) == v = "ts"

Load(ts, o) == IF ts THEN Len(o.items) ELSE o.len

Gathered(ts, o) ==
  /\ IsSeq(o.items) /\ Load(ts, o) \in 0 .. Room(ts)
  /\ ts => o.len = Len(o.items) * TsPktLen
  /\ ~ts => /\ o.len = 0 => o.items = << >>
            /\ \A j \in 2 .. Len(o.items) : o.items[j].kind # "rtp"

Ends(ts, c, t) == IF ts THEN c[t].outLen ELSE 0

Leads(ts, t, ops, c, buf) ==
  /\ \E a \in 0 .. Room(ts) : Load(ts, buf[t]) <= a /\ Paced(ts, t, ops, a, Ends(ts, c, t))
  /\ \A u \in Types : u # t => Load(ts, buf[u]) <= Ends(ts, c, u)

GoesOut(ts, n) ==
  IF ts THEN Len(n.items) <= TsNetPkts
  ELSE n.len <= NetLen /\ \A j \in 2 .. Len(n.items) : n.items[j].kind # "rtp"

FrameOK ==
  /\ {"n", "shape", "k", "lost"} \subseteq DOMAIN frame
  /\ frame.k \in Nat /\ frame.shape.lens \in Seq(Nat) /\ frame.shape.i \in BOOLEAN

BuffersOK(v, ops, c, buf) ==
  /\ IsTs(v) => TsCbOK(c)
  /\ DOMAIN buf = Types /\ \A t \in Types : Gathered(IsTs(v), buf[t])
  /\ \E t \in Types : Leads(IsTs(v), t, ops, c, buf)

SentOK(v, s) == IsSeq(s) /\ (s # << >> => GoesOut(IsTs(v), s[Len(s)]))

StreamInv ==
  /\ vcer \in {"rtp", "rfc3984", "ps", "ts"}
  /\ FrameOK /\ BuffersOK(vcer, todo, cb, out) /\ SentOK(vcer, sent)

\* Packets of one length in a buffer.
LEMMA TsTimes ==
  ASSUME NEW n \in Nat
  PROVE  /\ n * TsPktLen \in Nat /\ (n + 1) * TsPktLen = n * TsPktLen + TsPktLen
         /\ n * TsPktLen = 0 => n = 0
         /\ n <= TsNetPkts => n * TsPktLen <= MinBufLen
<1>1. PICK m \in Nat \ {0} : m = TsPktLen
  BY TsLens
<1>2. n * m \in Nat /\ (n + 1) * m = n * m + m
  BY <1>1
<1>3. n * m = 0 => n = 0
  <2>1. ASSUME n # 0 PROVE n * m # 0
    <3>1. 1 * m <= n * m
      BY <2>1, TimesMonotonic
    <3>2. PICK x \in Nat : x = n * m
      BY <1>2
    <3> QED
      BY <1>1, <3>1, <3>2
  <2> QED
    BY <2>1
<1>4. ASSUME n <= TsNetPkts PROVE n * m <= MinBufLen
  <2>1. PICK k \in Nat : k = TsNetPkts
    BY TsLens
  <2>2. n * m <= k * m
    BY <1>1, <1>4, <2>1, TimesMonotonic
  <2>3. PICK x \in Nat, y \in Nat, b \in Nat : x = n * m /\ y = k * m /\ b = MinBufLen /\ b >= y
    BY <1>1, <2>1, StreamAssumption
  <2>4. x <= b
    BY <2>2, <2>3
  <2> QED
    BY <2>3, <2>4
<1> QED
  BY <1>1, <1>2, <1>3, <1>4

\* The call that is due finds room, and nobody gathers more than is counted.
LEMMA AddedOK ==
  ASSUME NEW ts \in BOOLEAN, NEW o, Gathered(ts, o), NEW x, NEW a \in 0 .. Room(ts), Load(ts, o) <= a,
         NEW b \in 0 .. Room(ts), NEW call, call.op = "out", call.item = x, CallFits(ts, call, a, b)
  PROVE  Fits(o, x) /\ Gathered(ts, Added(o, x)) /\ Load(ts, Added(o, x)) <= b
<1>1. Weight(ts, x) \in Nat \ {0} /\ a + Weight(ts, x) <= b /\ (ts => x.len = TsPktLen)
      /\ (x.kind = "rtp" => a = 0)
  BY DEF CallFits
<1>2. PICK y : y = Added(o, x)
  OBVIOUS
<1>3. y.len = o.len + x.len /\ y.items = Append(o.items, x)
  BY <1>2 DEF Added
<1>4. PICK n \in Nat : n = Len(o.items) /\ IsSeq(o.items)
  BY SeqFacts DEF Gathered
<1>5. /\ IsSeq(y.items) /\ Len(y.items) = n + 1
      /\ (\A j \in 1 .. n : y.items[j] = o.items[j]) /\ y.items[n + 1] = x
  BY <1>3, <1>4, AppendFacts
<1>6. CASE ts
  <2>1. PICK N \in Nat \ {0}, L \in Nat \ {0} : N = TsNetPkts /\ Room(ts) = N /\ L = TsPktLen
    BY <1>6, TsLens
  <2>2. n <= a /\ a + 1 <= b /\ x.len = L
    BY <1>1, <1>4, <1>6, <2>1 DEF Load, Weight
  <2>3. n + 1 <= b /\ n + 1 \in 0 .. N /\ n + 1 <= N
    BY <2>1, <2>2
  <2>4. o.len = n * L
    BY <1>4, <1>6, <2>1 DEF Gathered
  <2>5. (n + 1) * L = n * L + L /\ (n + 1) * L <= MinBufLen
    <3>1. (n + 1) * TsPktLen = n * TsPktLen + TsPktLen
      BY TsTimes
    <3>2. PICK k \in Nat : k = n + 1 /\ k <= TsNetPkts
      BY <2>1, <2>3
    <3>3. k * TsPktLen <= MinBufLen
      BY <3>2, TsTimes
    <3> QED
      BY <2>1, <3>1, <3>2, <3>3
  <2>6. y.len = (n + 1) * L
    BY <1>3, <2>2, <2>4, <2>5
  <2>7. Fits(o, x)
    BY <2>2, <2>4, <2>5 DEF Fits
  <2>8. Load(ts, y) = n + 1
    BY <1>5, <1>6 DEF Load
  <2>9. Gathered(ts, y)
    BY <1>5, <1>6, <2>1, <2>3, <2>6, <2>8 DEF Gathered
  <2> QED
    BY <1>2, <2>3, <2>7, <2>8, <2>9
<1>7. CASE ~ts
  <2>1. PICK N \in Nat, M \in Nat : N = NetLen /\ Room(ts) = N /\ M = MinBufLen /\ N <= M
    BY <1>7, Lens, StreamAssumption DEF Room
  <2>2. PICK l \in Nat, w \in Nat \ {0} : l = o.len /\ w = x.len /\ l <= a /\ a + w <= b
    BY <1>1, <1>7, <2>1 DEF Gathered, Load, Weight
  <2>3. l + w <= b /\ l + w \in 0 .. N /\ l + w <= M /\ l + w # 0
    BY <2>1, <2>2
  <2>4. Fits(o, x)
    BY <2>1, <2>2, <2>3 DEF Fits
  <2>5. y.len = l + w
    BY <1>3, <2>2
  <2>6. Load(ts, y) = l + w
    BY <1>7, <2>5 DEF Load
  <2>7. ASSUME NEW j \in 2 .. n + 1 PROVE y.items[j].kind # "rtp"
    <3>1. CASE j # n + 1
      <4>1. j \in 1 .. n /\ j \in 2 .. n
        BY <3>1
      <4>2. o.items[j].kind # "rtp"
        BY <1>4, <1>7, <4>1 DEF Gathered
      <4> QED
        BY <1>5, <4>1, <4>2
    <3>2. CASE j = n + 1
      <4>1. n # 0
        BY <3>2
      <4>2. o.items # << >>
        BY <1>4, <4>1, SeqFacts
      <4>3. l # 0
        BY <1>7, <2>2, <4>2 DEF Gathered
      <4>4. a # 0
        BY <2>1, <2>2, <4>3
      <4> QED
        BY <1>1, <1>5, <3>2, <4>4
    <3> QED
      BY <3>1, <3>2
  <2>8. Gathered(ts, y)
    BY <1>5, <1>7, <2>1, <2>3, <2>5, <2>6, <2>7 DEF Gathered
  <2> QED
    BY <1>2, <2>3, <2>4, <2>6, <2>8
<1> QED
  BY <1>6, <1>7

\* An empty buffer has gathered nothing.
LEMMA EmptiedOK ==
  ASSUME NEW ts \in BOOLEAN, NEW o, NEW left
  PROVE  Gathered(ts, Emptied(o, left)) /\ Load(ts, Emptied(o, left)) = 0
<1>1. PICK y : y = Emptied(o, left)
  OBVIOUS
<1>2. y.len = 0 /\ y.items = << >>
  BY <1>1 DEF Emptied
<1>3. IsSeq(y.items) /\ Len(y.items) = 0
  BY <1>2, EmptySeq DEF IsSeq
<1>4. Load(ts, y) = 0
  BY <1>2, <1>3 DEF Load
<1>5. 0 * TsPktLen = 0
  BY TsLens
<1>6. \A j \in 2 .. 0 : FALSE
  OBVIOUS
<1>7. Gathered(ts, y)
  BY <1>2, <1>3, <1>4, <1>5, <1>6, ZeroRoom DEF Gathered
<1> QED
  BY <1>1, <1>4, <1>7

\* What a buffer has gathered may be sent.
LEMMA GatheredGoesOut ==
  ASSUME NEW ts \in BOOLEAN, NEW o, Gathered(ts, o), NEW n, n.items = o.items, n.len = o.len
  PROVE  GoesOut(ts, n)
<1>1. CASE ts
  <2>1. PICK N \in Nat : N = TsNetPkts /\ Room(ts) = N
    BY <1>1, TsLens
  <2>2. Len(n.items) \in 0 .. N
    BY <1>1, <2>1 DEF Gathered, Load
  <2>3. Len(n.items) <= N
    BY <2>2
  <2> QED
    BY <1>1, <2>1, <2>3 DEF GoesOut
<1>2. CASE ~ts
  <2>1. PICK N \in Nat : N = NetLen /\ Room(ts) = N
    BY <1>2, Lens DEF Room
  <2>2. n.len \in 0 .. N
    BY <1>2, <2>1 DEF Gathered, Load
  <2>3. n.len <= N
    BY <2>2
  <2> QED
    BY <1>2, <2>1, <2>3 DEF GoesOut, Gathered
<1> QED
  BY <1>1, <1>2

\* Without calls the bounds are the same.
LEMMA NoCallsLeft ==
  ASSUME NEW ts \in BOOLEAN, NEW t, NEW a, NEW b, Paced(ts, t, << >>, a, b)
  PROVE  a = b
<1>1. Len(<< >>) = 0
  OBVIOUS
<1> QED
  BY <1>1 DEF Paced

\* Between two conversions every buffer holds at most what is counted.
LEMMA QuietLoads ==
  ASSUME NEW ts \in BOOLEAN, NEW c, NEW buf, NEW t \in Types, Leads(ts, t, << >>, c, buf)
  PROVE  \A u \in Types : Load(ts, buf[u]) <= Ends(ts, c, u)
<1>1. PICK a \in 0 .. Room(ts) : Load(ts, buf[t]) <= a /\ Paced(ts, t, << >>, a, Ends(ts, c, t))
  BY DEF Leads
<1>2. a = Ends(ts, c, t)
  BY <1>1, NoCallsLeft
<1>3. \A u \in Types : u # t => Load(ts, buf[u]) <= Ends(ts, c, u)
  BY DEF Leads
<1> QED
  BY <1>1, <1>2, <1>3

\* The invariant holds when a converter is created,
LEMMA InitInv == ASSUME Init PROVE StreamInv
<1>1. vcer \in {"rtp", "rfc3984", "ps", "ts"}
  BY StreamAssumption DEF Init
<1>2. FrameOK
  <2>1. << >> \in Seq(Nat) /\ 0 \in Nat
    OBVIOUS
  <2> QED
    BY <2>1 DEF Init, FrameOK
<1>3. PICK ts \in BOOLEAN : ts = IsTs(vcer)
  BY DEF IsTs
<1>4. IsSeq(<< >>) /\ Len(<< >>) = 0
  BY EmptySeq DEF IsSeq
<1>5. TsCbOK(cb)
  <2>1. cb = NewCb(vcer)
    BY DEF Init
  <2>2. PICK N \in Nat \ {0} : N = TsNetPkts
    BY TsLens
  <2>3. 0 \in 0 .. N - 1
    BY <2>2
  <2>4. \A pt : StreamOK(NewStream(pt))
    BY <1>4, <2>2, <2>3 DEF StreamOK, NewStream
  <2>5. \A t \in Types : t = "video" \/ t = "audio"
    BY DEF Types
  <2>6. cb.video = NewStream(VideoPt(vcer)) /\ cb.audio = NewStream("audio")
        /\ {"video", "audio", "pat", "pmt", "audioCnt"} \subseteq DOMAIN cb
    BY <2>1 DEF NewCb
  <2>7. StreamOK(cb.video) /\ StreamOK(cb.audio)
    BY <2>4, <2>6
  <2> QED
    BY <2>5, <2>6, <2>7 DEF TsCbOK
<1>6. Ends(ts, cb, "video") = 0 /\ Ends(ts, cb, "audio") = 0
  BY DEF Init, NewCb, NewStream, Ends
<1>7. DOMAIN out = Types /\ \A t \in Types : out[t] = NoOut
  BY DEF Init
<1>8. Gathered(ts, NoOut) /\ Load(ts, NoOut) = 0
  <2>1. NoOut = Emptied(NoOut, FALSE)
    BY DEF NoOut, Emptied
  <2> QED
    BY <2>1, EmptiedOK
<1>9. \A t \in Types : Ends(ts, cb, t) = 0
  BY <1>6 DEF Types
<1>10. Leads(ts, "video", todo, cb, out)
  <2>1. "video" \in Types
    BY DEF Types
  <2>2. todo = << >>
    BY DEF Init
  <2>3. 0 \in 0 .. Room(ts) /\ Paced(ts, "video", << >>, 0, 0)
    BY ZeroRoom, EmptyPaced
  <2>4. \A t \in Types : Load(ts, out[t]) <= 0
    BY <1>7, <1>8
  <2> QED
    BY <1>9, <2>1, <2>2, <2>3, <2>4 DEF Leads
<1>11. BuffersOK(vcer, todo, cb, out)
  BY <1>3, <1>5, <1>7, <1>8, <1>10 DEF BuffersOK, Types
<1>12. SentOK(vcer, sent)
  BY <1>4 DEF SentOK, Init
<1> QED
  BY <1>1, <1>2, <1>11, <1>12 DEF StreamInv

\* A conversion begins with what is held, and makes calls for it.
LEMMA ConvertKeeps ==
  ASSUME StreamInv, NEW p, PktOK(p), ConvertData(p)
  PROVE  BuffersOK(vcer', todo', cb', out') /\ SentOK(vcer', sent')
<1>1. todo = << >> /\ cb' = Converted(p).cb /\ todo' = Converted(p).ops
      /\ UNCHANGED <<vcer, out, sent>>
  BY DEF ConvertData
<1>2. PICK ts \in BOOLEAN : ts = IsTs(vcer) /\ (ts <=> vcer = "ts")
  BY DEF IsTs
<1>3. /\ ts => TsCbOK(cb)
      /\ DOMAIN out = Types /\ \A t \in Types : Gathered(ts, out[t])
      /\ \E t \in Types : Leads(ts, t, << >>, cb, out)
  BY <1>1, <1>2 DEF StreamInv, BuffersOK
<1>4. \A u \in Types : Load(ts, out[u]) <= Ends(ts, cb, u)
  BY <1>3, QuietLoads
<1>5. IsSeq(p.data) /\ (p.video /\ p.first => StartsFrame(p.data))
  BY DEF PktOK
<1>6. CASE ts
  <2>1. Converted(p) = Es2TsConvert(cb, p)
    BY <1>2, <1>6 DEF Converted
  <2>2. Concludes(Es2TsConvert(cb, p), cb)
    BY <1>3, <1>5, <1>6, TsPaced
  <2>3. /\ TsCbOK(cb')
        /\ \E t \in Types : /\ Paced(TRUE, t, todo', cb[t].outLen, cb'[t].outLen)
                            /\ \A u \in Types : u # t => cb'[u].outLen = cb[u].outLen
    BY <1>1, <2>1, <2>2 DEF Concludes
  <2>4. PICK t \in Types : /\ Paced(TRUE, t, todo', cb[t].outLen, cb'[t].outLen)
                           /\ \A u \in Types : u # t => cb'[u].outLen = cb[u].outLen
    BY <2>3
  <2>5. PICK N \in Nat \ {0} : N = TsNetPkts /\ Room(ts) = N
    BY <1>6, TsLens
  <2>6. cb[t].outLen \in 0 .. N - 1
    BY <1>3, <1>6, <2>5 DEF TsCbOK, StreamOK
  <2>7. cb[t].outLen \in 0 .. N
    BY <2>5, <2>6
  <2>8. Load(ts, out[t]) <= cb[t].outLen
    BY <1>4, <1>6 DEF Ends
  <2>9. Paced(ts, t, todo', cb[t].outLen, Ends(ts, cb', t))
    BY <1>6, <2>4 DEF Ends
  <2>10. \A u \in Types : u # t => Load(ts, out[u]) <= Ends(ts, cb', u)
    BY <1>4, <1>6, <2>4 DEF Ends
  <2>11. Leads(ts, t, todo', cb', out)
    BY <2>5, <2>7, <2>8, <2>9, <2>10 DEF Leads
  <2>12. BuffersOK(vcer, todo', cb', out)
    BY <1>2, <1>3, <2>3, <2>11 DEF BuffersOK
  <2> QED
    BY <1>1, <2>12 DEF StreamInv
<1>7. CASE ~ts
  <2>1. \E t \in Types : Paced(FALSE, t, todo', 0, 0)
    <3>1. CASE vcer = "rtp"
      <4>1. Converted(p) = ES2RtpConvert(cb, p)
        BY <3>1 DEF Converted
      <4>2. RtpType(RtpStreamOf(p)) \in Types
        BY DEF RtpType, Types
      <4> QED
        BY <1>1, <1>5, <4>1, <4>2, RtpPaced
    <3>2. CASE vcer = "rfc3984"
      <4>1. Converted(p) = ESTo3984Convert(cb, p)
        BY <3>2 DEF Converted
      <4>2. "video" \in Types
        BY DEF Types
      <4> QED
        BY <1>1, <1>5, <4>1, <4>2, Paced3984
    <3>3. CASE vcer = "ps"
      <4>1. Converted(p) = Es2PsConvert(cb, p)
        BY <3>3 DEF Converted
      <4> QED
        BY <1>1, <1>5, <4>1, PsPaced
    <3> QED
      BY <1>2, <1>7, <3>1, <3>2, <3>3 DEF StreamInv
  <2>2. PICK t \in Types : Paced(FALSE, t, todo', 0, 0)
    BY <2>1
  <2>3. \A c, u : Ends(ts, c, u) = 0
    BY <1>7 DEF Ends
  <2>4. \A u \in Types : Load(ts, out[u]) <= 0
    BY <1>4, <2>3
  <2>5. Paced(ts, t, todo', 0, Ends(ts, cb', t))
    BY <1>7, <2>2, <2>3
  <2>6. Leads(ts, t, todo', cb', out)
    BY <2>3, <2>4, <2>5, ZeroRoom DEF Leads
  <2>7. BuffersOK(vcer, todo', cb', out)
    BY <1>2, <1>3, <1>7, <2>6 DEF BuffersOK
  <2> QED
    BY <1>1, <2>7 DEF StreamInv
<1> QED
  BY <1>6, <1>7

\* The first call of those still to be made, and what it leaves.
LEMMA FirstCall ==
  ASSUME NEW ts \in BOOLEAN, NEW t \in Types, NEW ops, ops # << >>, NEW c, NEW buf, Leads(ts, t, ops, c, buf)
  PROVE  \E a \in 0 .. Room(ts), b \in 0 .. Room(ts) :
           /\ ops[1].type = t /\ CallFits(ts, ops[1], a, b) /\ Load(ts, buf[t]) <= a
           /\ Paced(ts, t, Tail(ops), b, Ends(ts, c, t))
<1>1. PICK a \in 0 .. Room(ts) : Load(ts, buf[t]) <= a /\ Paced(ts, t, ops, a, Ends(ts, c, t))
  BY DEF Leads
<1>2. /\ ops[1].type = t
      /\ \E b \in 0 .. Room(ts) : CallFits(ts, ops[1], a, b) /\ Paced(ts, t, Tail(ops), b, Ends(ts, c, t))
  BY <1>1, PacedTail
<1> QED
  BY <1>1, <1>2

\* A buffer that changes, or none, with the first call done.
LEMMA CallDone ==
  ASSUME NEW v, NEW c, NEW buf, NEW t \in Types, NEW ops, NEW b \in 0 .. Room(IsTs(v)),
         Paced(IsTs(v), t, ops, b, Ends(IsTs(v), c, t)), IsTs(v) => TsCbOK(c),
         DOMAIN buf = Types, \A u \in Types : Gathered(IsTs(v), buf[u]),
         \A u \in Types : u # t => Load(IsTs(v), buf[u]) <= Ends(IsTs(v), c, u),
         Load(IsTs(v), buf[t]) <= b
  PROVE  BuffersOK(v, ops, c, buf)
<1>1. Leads(IsTs(v), t, ops, c, buf)
  BY DEF Leads
<1> QED
  BY <1>1 DEF BuffersOK

\* The call that is due finds room, with memory and without.
LEMMA OutputKeepsInv ==
  ASSUME StreamInv, todo # << >>, Op.op = "out"
  PROVE  /\ Fits(out[Op.type], Op.item)
         /\ OutputData2Vsw => StreamInv'
         /\ OutputNoMem => StreamInv'
<1>1. PICK ts \in BOOLEAN : ts = IsTs(vcer)
  BY DEF IsTs
<1>2. /\ ts => TsCbOK(cb)
      /\ DOMAIN out = Types /\ \A t \in Types : Gathered(ts, out[t])
      /\ \E t \in Types : Leads(ts, t, todo, cb, out)
  BY <1>1 DEF StreamInv, BuffersOK
<1>3. PICK t \in Types : Leads(ts, t, todo, cb, out)
  BY <1>2
<1>4. PICK o : o = todo[1] /\ o.op = "out"
  BY DEF Op
<1>5. PICK a \in 0 .. Room(ts), b \in 0 .. Room(ts) :
        /\ o.type = t /\ CallFits(ts, o, a, b) /\ Load(ts, out[t]) <= a
        /\ Paced(ts, t, Tail(todo), b, Ends(ts, cb, t))
  BY <1>3, <1>4, FirstCall
<1>6. PICK y : y = Added(out[t], o.item)
  OBVIOUS
<1>7. Fits(out[t], o.item) /\ Gathered(ts, y) /\ Load(ts, y) <= b
  BY <1>2, <1>4, <1>5, <1>6, AddedOK
<1>8. \A u \in Types : u # t => Load(ts, out[u]) <= Ends(ts, cb, u)
  BY <1>3 DEF Leads
<1>9. Fits(out[Op.type], Op.item)
  BY <1>4, <1>5, <1>7 DEF Op
<1>10. ASSUME OutputData2Vsw PROVE StreamInv'
  <2>1. todo' = Tail(todo) /\ out' = [out EXCEPT ![t] = y] /\ UNCHANGED <<vcer, cb, sent, frame>>
    BY <1>4, <1>5, <1>6, <1>7, <1>10 DEF OutputData2Vsw, Op
  <2>2. DOMAIN out' = Types /\ out'[t] = y /\ \A u \in Types : u # t => out'[u] = out[u]
    BY <1>2, <2>1
  <2>3. BuffersOK(vcer, todo', cb, out')
    BY <1>1, <1>2, <1>5, <1>7, <1>8, <2>1, <2>2, CallDone
  <2> QED
    BY <2>1, <2>3 DEF StreamInv, FrameOK
<1>11. ASSUME OutputNoMem PROVE StreamInv'
  <2>1. todo' = Tail(todo) /\ UNCHANGED <<vcer, cb, out, sent, frame>>
    BY <1>11 DEF OutputNoMem
  <2>2. Load(ts, out[t]) <= b
    <3>1. PICK w \in Nat : a + w <= b
      BY <1>4, <1>5 DEF CallFits
    <3>2. PICK r \in Nat : r = Room(ts)
      BY RoomType
    <3>3. Load(ts, out[t]) \in 0 .. r /\ a \in 0 .. r /\ b \in 0 .. r
      BY <1>2, <3>2 DEF Gathered
    <3> QED
      BY <1>5, <3>1, <3>3
  <2>3. BuffersOK(vcer, todo', cb, out)
    BY <1>1, <1>2, <1>5, <1>8, <2>1, <2>2, CallDone
  <2> QED
    BY <2>1, <2>3 DEF StreamInv, FrameOK
<1> QED
  BY <1>9, <1>10, <1>11

\* A flush sends what was gathered.
LEMMA FlushKeepsInv ==
  ASSUME StreamInv, FlushData2Vsw
  PROVE  StreamInv'
<1>1. PICK ts \in BOOLEAN : ts = IsTs(vcer)
  BY DEF IsTs
<1>2. /\ ts => TsCbOK(cb)
      /\ DOMAIN out = Types /\ \A t \in Types : Gathered(ts, out[t])
      /\ \E t \in Types : Leads(ts, t, todo, cb, out)
  BY <1>1 DEF StreamInv, BuffersOK
<1>3. PICK t \in Types : Leads(ts, t, todo, cb, out)
  BY <1>2
<1>4. PICK o : o = todo[1] /\ o.op = "flush" /\ todo # << >>
  BY DEF Op, FlushData2Vsw
<1>5. PICK a \in 0 .. Room(ts), b \in 0 .. Room(ts) :
        /\ o.type = t /\ CallFits(ts, o, a, b) /\ Load(ts, out[t]) <= a
        /\ Paced(ts, t, Tail(todo), b, Ends(ts, cb, t))
  BY <1>3, <1>4, FirstCall
<1>6. \A u \in Types : u # t => Load(ts, out[u]) <= Ends(ts, cb, u)
  BY <1>3 DEF Leads
<1>7. todo' = Tail(todo) /\ UNCHANGED <<vcer, cb, frame>>
  BY DEF FlushData2Vsw
<1>8. 0 <= b
  <2>1. PICK r \in Nat : r = Room(ts)
    BY RoomType
  <2> QED
    BY <2>1
<1>9. CASE out[t].len = 0
  <2>1. UNCHANGED <<out, sent>>
    BY <1>4, <1>5, <1>9 DEF FlushData2Vsw, Op
  <2>2. Load(ts, out[t]) = 0
    <3>1. CASE ts
      <4>1. IsSeq(out[t].items) /\ out[t].len = Len(out[t].items) * TsPktLen
        BY <1>2, <3>1 DEF Gathered
      <4>2. PICK n \in Nat : n = Len(out[t].items)
        BY <4>1, SeqFacts
      <4>3. n = 0
        BY <1>9, <4>1, <4>2, TsTimes
      <4> QED
        BY <3>1, <4>2, <4>3 DEF Load
    <3>2. CASE ~ts
      BY <1>9, <3>2 DEF Load
    <3> QED
      BY <3>1, <3>2
  <2>3. BuffersOK(vcer, todo', cb, out)
    BY <1>1, <1>2, <1>5, <1>6, <1>7, <1>8, <2>2, CallDone
  <2> QED
    BY <1>7, <2>1, <2>3 DEF StreamInv, FrameOK
<1>10. CASE out[t].len # 0
  <2>1. PICK n : n = [type |-> t, len |-> out[t].len, items |-> out[t].items]
    OBVIOUS
  <2>2. PICK left \in BOOLEAN : out' = [out EXCEPT ![t] = Emptied(@, left)]
    BY <1>4, <1>5, <1>10 DEF FlushData2Vsw, Op
  <2>3. sent' = Append(sent, n)
    BY <1>4, <1>5, <1>10, <2>1 DEF FlushData2Vsw, Op
  <2>4. PICK y : y = Emptied(out[t], left)
    OBVIOUS
  <2>5. Gathered(ts, y) /\ Load(ts, y) = 0
    BY <2>4, EmptiedOK
  <2>6. DOMAIN out' = Types /\ out'[t] = y /\ \A u \in Types : u # t => out'[u] = out[u]
    BY <1>2, <2>2, <2>4
  <2>7. BuffersOK(vcer, todo', cb, out')
    BY <1>1, <1>2, <1>5, <1>6, <1>7, <1>8, <2>5, <2>6, CallDone
  <2>8. SentOK(vcer, sent')
    <3>1. n.items = out[t].items /\ n.len = out[t].len
      BY <2>1
    <3>2. GoesOut(ts, n)
      BY <1>2, <3>1, GatheredGoesOut
    <3>3. IsSeq(sent)
      BY DEF StreamInv, SentOK
    <3>4. PICK k \in Nat : k = Len(sent)
      BY <3>3, SeqFacts
    <3>5. IsSeq(sent') /\ Len(sent') = k + 1 /\ sent'[k + 1] = n
      BY <2>3, <3>3, <3>4, AppendFacts
    <3> QED
      BY <1>1, <3>2, <3>5 DEF SentOK
  <2> QED
    BY <1>7, <2>7, <2>8 DEF StreamInv, FrameOK
<1> QED
  BY <1>9, <1>10

\* and every step keeps it.
LEMMA NextInv == ASSUME StreamInv, [Next]_vars PROVE StreamInv'
<1>1. CASE NextFrame
  <2>1. PICK shape \in Frames : frame' = [frame EXCEPT !.n = @ + 1, !.shape = shape, !.k = 0]
    BY <1>1, Zenon DEF NextFrame
  <2>2. shape.lens \in Seq(Nat) /\ shape.i \in BOOLEAN
    BY StreamAssumption
  <2>3. FrameOK'
    BY <2>1, <2>2 DEF StreamInv, FrameOK
  <2> QED
    BY <1>1, <2>3 DEF StreamInv, NextFrame
<1>2. CASE Lose
  <2>1. frame' = [frame EXCEPT !.k = @ + 1, !.lost = @ + 1]
    BY <1>2 DEF Lose
  <2>2. FrameOK'
    BY <2>1 DEF StreamInv, FrameOK
  <2> QED
    BY <1>2, <2>2 DEF StreamInv, Lose
<1>3. CASE ConvertVideo
  <2>1. PICK p : p = PktOf(frame.shape, frame.n, frame.k + 1)
    OBVIOUS
  <2>2. ConvertData(p) /\ frame' = [frame EXCEPT !.k = @ + 1] /\ frame.k < Len(frame.shape.lens)
    BY <1>3, <2>1 DEF ConvertVideo
  <2>3. FrameOK
    BY DEF StreamInv
  <2>4. frame.k + 1 \in 1 .. Len(frame.shape.lens)
    BY <2>2, <2>3 DEF FrameOK
  <2>5. PktOK(p)
    BY <2>1, <2>3, <2>4, VideoPktOK DEF FrameOK
  <2>6. BuffersOK(vcer', todo', cb', out') /\ SentOK(vcer', sent')
    BY <2>2, <2>5, ConvertKeeps
  <2>7. FrameOK'
    BY <2>2, <2>3 DEF FrameOK
  <2>8. vcer' = vcer
    BY <2>2 DEF ConvertData
  <2> QED
    BY <2>6, <2>7, <2>8 DEF StreamInv
<1>4. CASE ConvertAudio
  <2>1. PICK p : p = AudioPkt(Len(Audio(given)) + 1, RtpMaxLen + 1)
    OBVIOUS
  <2>2. ConvertData(p) /\ frame' = frame
    BY <1>4, <2>1 DEF ConvertAudio
  <2>3. PktOK(p)
    BY <2>1, AudioPktOK
  <2>4. BuffersOK(vcer', todo', cb', out') /\ SentOK(vcer', sent')
    BY <2>2, <2>3, ConvertKeeps
  <2>5. vcer' = vcer
    BY <2>2 DEF ConvertData
  <2> QED
    BY <2>2, <2>4, <2>5 DEF StreamInv, FrameOK
<1>5. CASE OutputData2Vsw
  <2>1. todo # << >> /\ Op.op = "out"
    BY <1>5 DEF OutputData2Vsw
  <2> QED
    BY <1>5, <2>1, OutputKeepsInv
<1>6. CASE OutputNoMem
  <2>1. todo # << >> /\ Op.op = "out"
    BY <1>6 DEF OutputNoMem
  <2> QED
    BY <1>6, <2>1, OutputKeepsInv
<1>7. CASE FlushData2Vsw
  BY <1>7, FlushKeepsInv
<1>8. CASE UNCHANGED vars
  BY <1>8 DEF vars, StreamInv, FrameOK
<1> QED
  BY <1>1, <1>2, <1>3, <1>4, <1>5, <1>6, <1>7, <1>8 DEF Next

\* It is why packets are whole.
LEMMA InvPackaged == ASSUME StreamInv PROVE Packaged
<1>1. ASSUME todo # << >>, Op.op = "out" PROVE Fits(out[Op.type], Op.item)
  BY <1>1, OutputKeepsInv
<1>2. ASSUME sent # << >>
      PROVE  LET n == sent[Len(sent)]
             IN IF vcer = "ts" THEN Len(n.items) <= TsNetPkts
                ELSE /\ n.len <= NetLen
                     /\ \A j \in 2 .. Len(n.items) : n.items[j].kind # "rtp"
  BY <1>2 DEF StreamInv, SentOK, GoesOut, IsTs
<1> QED
  BY <1>1, <1>2 DEF Packaged

(* Whatever is lost on the way to a converter or for want of memory (the   *)
(* return codes VC_Es2TsOutputData and its like do not look at), data      *)
(* always finds room in the buffer of its stream, no network packet is     *)
(* longer than one may be, and an RTP packet is never sent together with   *)
(* part of another (vc_es2rtp.c, vc_es2_3984.c, vc_es2ps.c, vc_es2ts.c).   *)
THEOREM PacketsAreWhole == Spec => []Packaged
<1>1. Init => StreamInv
  BY InitInv
<1>2. StreamInv /\ [Next]_vars => StreamInv'
  BY NextInv
<1>3. StreamInv => Packaged
  BY InvPackaged
<1> QED
  BY <1>1, <1>2, <1>3, PTL DEF Spec
=============================================================================
