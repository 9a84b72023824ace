------------------------ MODULE StreamManagerProofs -------------------------
(***************************************************************************)
(* Proofs about StreamManager, for all contents, cuts and limits: no byte  *)
(* is lost or repeated, and readers cannot tell the chunks apart.          *)
(***************************************************************************)
EXTENDS StreamManager, SequenceTheorems, TLAPS

-----------------------------------------------------------------------------
(* Segments of sequences: what follows the first a elements, up to b.      *)

LEMMA SegmentType ==
  ASSUME NEW S, NEW s \in Seq(S), NEW n \in Nat, Len(s) = n,
         NEW b \in 0..n, NEW a \in 0..b
  PROVE  /\ SubSeq(s, a + 1, b) \in Seq(S)
         /\ Len(SubSeq(s, a + 1, b)) = b - a
         /\ \A i \in 1..(b - a) : SubSeq(s, a + 1, b)[i] = s[a + i]
<1>1. \A i \in (a + 1)..b : s[i] \in S
  BY ElementOfSeq
<1>2. /\ SubSeq(s, a + 1, b) \in Seq(S)
      /\ Len(SubSeq(s, a + 1, b)) = IF a + 1 <= b THEN b - (a + 1) + 1 ELSE 0
      /\ \A i \in 1..(b - (a + 1) + 1) : SubSeq(s, a + 1, b)[i] = s[(a + 1) + i - 1]
  <2>1. a + 1 \in Int /\ b \in Int
    OBVIOUS
  <2>. QED  BY <1>1, <2>1, SubSeqProperties
<1>3. b - (a + 1) + 1 = b - a /\ \A i \in 1..(b - a) : (a + 1) + i - 1 = a + i
  OBVIOUS
<1>. QED  BY <1>2, <1>3

(* Two adjacent segments make one.                                         *)
LEMMA SegmentsJoin ==
  ASSUME NEW S, NEW s \in Seq(S), NEW n \in Nat, Len(s) = n,
         NEW c \in 0..n, NEW b \in 0..c, NEW a \in 0..b
  PROVE  SubSeq(s, a + 1, b) \o SubSeq(s, b + 1, c) = SubSeq(s, a + 1, c)
<1>1. /\ a + 1 \in 1..(Len(s) + 1)
      /\ b \in ((a + 1) - 1)..Len(s)
      /\ c \in b..Len(s)
  OBVIOUS
<1>. QED  BY <1>1, ConcatAdjacentSubSeq

(* The first m elements of a segment, and what follows them.               *)
LEMMA SegmentSplits ==
  ASSUME NEW S, NEW s \in Seq(S), NEW n \in Nat, Len(s) = n,
         NEW b \in 0..n, NEW a \in 0..b, NEW m \in 0..(b - a)
  PROVE  /\ SubSeq(SubSeq(s, a + 1, b), 1, m) = SubSeq(s, a + 1, a + m)
         /\ SubSeq(SubSeq(s, a + 1, b), m + 1, b - a) = SubSeq(s, (a + m) + 1, b)
<1>. DEFINE t == SubSeq(s, a + 1, b)
<1>1. /\ t \in Seq(S)
      /\ Len(t) = b - a
      /\ \A i \in 1..(b - a) : t[i] = s[a + i]
  BY SegmentType
<1>. HIDE DEF t
<1>2. SubSeq(t, 1, m) = SubSeq(s, a + 1, a + m)
  <2>1. a + m \in 0..n /\ a \in 0..(a + m) /\ (a + m) - a = m
    OBVIOUS
  <2>2. /\ SubSeq(s, a + 1, a + m) \in Seq(S)
        /\ Len(SubSeq(s, a + 1, a + m)) = m
        /\ \A i \in 1..m : SubSeq(s, a + 1, a + m)[i] = s[a + i]
    <3>. DEFINE c == a + m
    <3>1. c \in 0..n /\ a \in 0..c /\ c - a = m
      BY <2>1
    <3>. HIDE DEF c
    <3>2. /\ SubSeq(s, a + 1, c) \in Seq(S)
          /\ Len(SubSeq(s, a + 1, c)) = c - a
          /\ \A i \in 1..(c - a) : SubSeq(s, a + 1, c)[i] = s[a + i]
      BY <3>1, SegmentType
    <3>. QED  BY <3>1, <3>2 DEF c
  <2>3. /\ SubSeq(t, 0 + 1, m) \in Seq(S)
        /\ Len(SubSeq(t, 0 + 1, m)) = m - 0
        /\ \A i \in 1..(m - 0) : SubSeq(t, 0 + 1, m)[i] = t[0 + i]
    <3>1. b - a \in Nat /\ Len(t) = b - a /\ m \in 0..(b - a) /\ 0 \in 0..m
      BY <1>1
    <3>. QED  BY <1>1, <3>1, SegmentType
  <2>4. /\ SubSeq(t, 1, m) \in Seq(S)
        /\ Len(SubSeq(t, 1, m)) = m
        /\ \A i \in 1..m : SubSeq(t, 1, m)[i] = s[a + i]
    <3>1. 0 + 1 = 1 /\ m - 0 = m /\ \A i \in 1..m : i \in 1..(b - a) /\ 0 + i = i
      OBVIOUS
    <3>. QED  BY <1>1, <2>3, <3>1
  <2>. QED  BY <2>2, <2>4, SeqEqual
<1>3. SubSeq(t, m + 1, b - a) = SubSeq(s, (a + m) + 1, b)
  <2>. DEFINE c == a + m
  <2>1. c \in 0..b /\ b - c = (b - a) - m
    OBVIOUS
  <2>. HIDE DEF c
  <2>2. /\ SubSeq(s, c + 1, b) \in Seq(S)
        /\ Len(SubSeq(s, c + 1, b)) = b - c
        /\ \A i \in 1..(b - c) : SubSeq(s, c + 1, b)[i] = s[c + i]
    BY <2>1, SegmentType
  <2>3. /\ SubSeq(t, m + 1, b - a) \in Seq(S)
        /\ Len(SubSeq(t, m + 1, b - a)) = (b - a) - m
        /\ \A i \in 1..((b - a) - m) : SubSeq(t, m + 1, b - a)[i] = t[m + i]
    <3>1. b - a \in Nat /\ b - a \in 0..(b - a)
      OBVIOUS
    <3>. QED  BY <1>1, <3>1, SegmentType
  <2>4. \A i \in 1..(b - c) : /\ m + i \in 1..(b - a)
                              /\ a + (m + i) = c + i
    BY <2>1 DEF c
  <2>5. \A i \in 1..(b - c) : SubSeq(t, m + 1, b - a)[i] = s[c + i]
    BY <1>1, <2>1, <2>3, <2>4
  <2>6. SubSeq(t, m + 1, b - a) = SubSeq(s, c + 1, b)
    BY <2>1, <2>2, <2>3, <2>5, SeqEqual
  <2>. QED  BY <2>6 DEF c
<1>. QED  BY <1>2, <1>3 DEF t

-----------------------------------------------------------------------------
(* What a read does to an entry.                                           *)

(* A stream is done only when all of its chunks were visited.              *)
EntryInv(e) ==
  /\ e \in Entry
  /\ Accounted(e)
  /\ e.done => e.index = Len(e.content.ends)

LEMMA ContentFacts ==
  ASSUME NEW c \in Content
  PROVE  /\ c.bytes \in Seq(Bytes!Byte)
         /\ c.ends \in Seq(0..Len(c.bytes))
         /\ Len(c.bytes) \in Nat
         /\ Len(c.ends) \in Nat
         /\ \A k \in 0..Len(c.ends) : End(c, k) \in 0..Len(c.bytes)
         /\ \A k \in 0..Len(c.ends) : \A j \in 0..k : End(c, j) <= End(c, k)
         /\ End(c, Len(c.ends)) = Len(c.bytes)
<1>1. c.bytes \in Seq(Bytes!Byte) /\ WellCut(c)
  BY ContentAssumption
<1>2. PICK n \in Nat : Len(c.bytes) = n
  BY <1>1, LenProperties
<1>3. c.ends \in Seq(0..n)
  BY <1>1, <1>2 DEF WellCut
<1>4. PICK m \in Nat : Len(c.ends) = m
  BY <1>3, LenProperties
<1>5. \A k \in 1..m : c.ends[k] \in 0..n
  BY <1>3, <1>4, ElementOfSeq
<1>6. \A k \in 0..m : End(c, k) \in 0..n
  BY <1>5 DEF End
<1>7. \A j, k \in 1..m : j <= k => c.ends[j] <= c.ends[k]
  BY <1>1, <1>4 DEF WellCut
<1>8. \A k \in 0..m : \A j \in 0..k : End(c, j) <= End(c, k)
  <2>. SUFFICES ASSUME NEW k \in 0..m, NEW j \in 0..k
                PROVE  End(c, j) <= End(c, k)
    OBVIOUS
  <2>1. CASE j = 0
    BY <2>1, <1>6 DEF End
  <2>2. CASE j # 0
    <3>1. j \in 1..m /\ k \in 1..m /\ j <= k
      BY <2>2
    <3>. QED  BY <3>1, <1>7 DEF End
  <2>. QED  BY <2>1, <2>2
<1>9. End(c, m) = n
  <2>1. CASE c.ends = <<>>
    <3>1. m = 0
      BY <2>1, <1>4, EmptySeq
    <3>2. n = 0
      BY <1>1, <1>2, <2>1, EmptySeq DEF WellCut
    <3>. QED  BY <3>1, <3>2 DEF End
  <2>2. CASE c.ends # <<>>
    <3>1. m # 0
      BY <2>2, <1>3, <1>4, EmptySeq
    <3>2. c.ends[m] = n
      BY <1>1, <1>2, <1>4, <2>2 DEF WellCut
    <3>. QED  BY <3>1, <3>2 DEF End
  <2>. QED  BY <2>1, <2>2
<1>. QED  BY <1>1, <1>2, <1>3, <1>4, <1>6, <1>8, <1>9

(* The buffer of a read is the segment that follows the bytes taken.       *)
LEMMA BufferFacts ==
  ASSUME NEW e, EntryInv(e), NEW k \in e.index..Len(e.content.ends)
  PROVE  /\ k \in 0..Len(e.content.ends)
         /\ e.taken \in 0..End(e.content, k)
         /\ Buffer(e, k) = SubSeq(e.content.bytes, e.taken + 1, End(e.content, k))
         /\ Buffer(e, k) \in Seq(Bytes!Byte)
         /\ Len(Buffer(e, k)) = End(e.content, k) - e.taken
<1>. DEFINE c == e.content
            i == e.index
            a == e.taken
<1>1. c \in Content /\ i \in Nat
  BY DEF EntryInv, Entry
<1>2. PICK m \in Nat : Len(c.ends) = m
  BY <1>1, ContentFacts
<1>3. PICK n \in Nat : Len(c.bytes) = n
  BY <1>1, ContentFacts
<1>4. i \in 0..m /\ a \in 0..End(c, i) /\ e.pending = SubSeq(c.bytes, a + 1, End(c, i))
  BY <1>2 DEF EntryInv, Accounted
<1>. HIDE DEF c, i, a
<1>5. k \in 0..m /\ k \in i..m
  BY <1>1, <1>2, <1>4 DEF c, i
<1>6. PICK p \in 0..n : End(c, i) = p
  BY <1>1, <1>2, <1>3, <1>4, ContentFacts
<1>7. PICK q \in p..n : End(c, k) = q
  <2>1. End(c, k) \in 0..n /\ i \in 0..k
    BY <1>1, <1>2, <1>3, <1>4, <1>5, ContentFacts
  <2>2. End(c, i) <= End(c, k)
    BY <1>1, <1>2, <1>5, <2>1, ContentFacts
  <2>. QED  BY <2>1, <2>2, <1>6
<1>8. c.bytes \in Seq(Bytes!Byte)
  BY <1>1, ContentFacts
<1>9. Buffer(e, k) = SubSeq(c.bytes, a + 1, p) \o SubSeq(c.bytes, p + 1, q)
  BY <1>4, <1>6, <1>7 DEF Buffer, c, i
<1>10. a \in 0..p /\ p \in 0..q /\ q \in 0..n /\ a \in 0..q
  BY <1>4, <1>6
<1>11. Buffer(e, k) = SubSeq(c.bytes, a + 1, q)
  BY <1>3, <1>8, <1>9, <1>10, SegmentsJoin
<1>12. /\ SubSeq(c.bytes, a + 1, q) \in Seq(Bytes!Byte)
       /\ Len(SubSeq(c.bytes, a + 1, q)) = q - a
  BY <1>3, <1>8, <1>10, SegmentType
<1>. QED  BY <1>2, <1>5, <1>7, <1>10, <1>11, <1>12 DEF c, i, a

LEMMA ShareType ==
  ASSUME NEW limit \in Limit, NEW b, NEW n \in Nat, Len(b) = n
  PROVE  /\ Bytes!Share(b, limit) \in 0..n
         /\ Enough(b, limit) => limit \in Nat /\ limit <= n /\ Bytes!Share(b, limit) = limit
<1>1. limit \in Nat \/ limit = NoLimit
  BY LimitAssumption
<1>. QED  BY <1>1 DEF Bytes!Share, Enough

(* After a read, the entry is in order again, and what was read is what    *)
(* followed the bytes taken.                                               *)
LEMMA AfterFacts ==
  ASSUME NEW e, EntryInv(e), NEW limit \in Limit,
         NEW k \in e.index..Len(e.content.ends)
  PROVE  LET n == Bytes!Share(Buffer(e, k), limit)
         IN  /\ EntryInv(After(e, limit, k))
             /\ Bytes!FirstOf(Buffer(e, k), limit)
                  = SubSeq(e.content.bytes, e.taken + 1, e.taken + n)
             /\ n \in Nat
<1>. DEFINE c == e.content
            b == Buffer(e, k)
            a == e.taken
            n == Bytes!Share(b, limit)
<1>1. c \in Content /\ k \in 0..Len(c.ends) /\ e \in Entry
  BY BufferFacts DEF EntryInv, Entry
<1>2. PICK l \in Nat : Len(c.bytes) = l
  BY <1>1, ContentFacts
<1>3. PICK q \in 0..l : End(c, k) = q
  BY <1>1, <1>2, ContentFacts
<1>4. a \in 0..q /\ b = SubSeq(c.bytes, a + 1, q) /\ Len(b) = q - a
  BY <1>3, BufferFacts
<1>5. n \in 0..(q - a)
  <2>1. q - a \in Nat
    BY <1>4
  <2>. QED  BY <1>4, <2>1, ShareType
<1>6. c.bytes \in Seq(Bytes!Byte)
  BY <1>1, ContentFacts
<1>. HIDE DEF c, b, a, n
<1>7. /\ SubSeq(b, 1, n) = SubSeq(c.bytes, a + 1, a + n)
      /\ SubSeq(b, n + 1, q - a) = SubSeq(c.bytes, (a + n) + 1, q)
  BY <1>2, <1>3, <1>4, <1>5, <1>6, SegmentSplits
<1>8. Bytes!FirstOf(b, limit) = SubSeq(c.bytes, a + 1, a + n)
  BY <1>7 DEF Bytes!FirstOf, n
<1>9. Carry(b, limit) = SubSeq(c.bytes, (a + n) + 1, q)
  BY <1>4, <1>7 DEF Carry, Bytes!From, n
<1>10. a + n \in 0..q
  BY <1>4, <1>5
<1>11. Carry(b, limit) \in Seq(Bytes!Byte)
  <2>. DEFINE t == a + n
  <2>1. t \in 0..q
    BY <1>10
  <2>. HIDE DEF t
  <2>2. SubSeq(c.bytes, t + 1, q) \in Seq(Bytes!Byte)
    BY <1>2, <1>3, <1>6, <2>1, SegmentType
  <2>. QED  BY <2>2, <1>9 DEF t
<1>12. PICK m \in Nat : Len(c.ends) = m
  BY <1>1, ContentFacts
<1>13. k \in Nat /\ k \in 0..m
  BY <1>1, <1>12
<1>14. e.done => k = m
  <2>1. e.done => e.index = m
    BY <1>12 DEF EntryInv, c
  <2>2. e.index \in 0..m /\ k \in e.index..m
    BY <1>12 DEF EntryInv, Accounted, c
  <2>. QED  BY <2>1, <2>2
<1>. DEFINE g == After(e, limit, k)
<1>15. /\ g \in Entry
       /\ g.content = c
       /\ g.index = k
       /\ g.taken = a + n
       /\ g.pending = Carry(b, limit)
       /\ g.done = (e.done \/ k = m)
  <2>1. a + n \in Nat
    BY <1>10, <1>3
  <2>. QED  BY <1>1, <1>11, <1>12, <1>13, <2>1 DEF After, Entry, c, b, a, n
<1>16. Accounted(g)
  BY <1>3, <1>9, <1>10, <1>12, <1>13, <1>15 DEF Accounted
<1>17. EntryInv(g)
  BY <1>12, <1>14, <1>15, <1>16 DEF EntryInv
<1>. QED  BY <1>5, <1>8, <1>17, <1>3, <1>4 DEF c, b, a, n

(* A read that found nothing leaves the entry in order, and either the     *)
(* stream is over or nothing was asked for.                                *)
LEMMA NothingFacts ==
  ASSUME NEW e, EntryInv(e), NEW limit \in Limit, NEW k \in 0..Len(e.content.ends),
         FillsUpTo(e, limit, k), Buffer(e, k) = <<>>
  PROVE  /\ EntryInv([e EXCEPT !.index = k, !.pending = <<>>,
                               !.done = (@ \/ k = Len(e.content.ends))])
         /\ Bytes!From(e.content.bytes, e.taken) = <<>> \/ limit = 0
<1>. DEFINE c == e.content
            a == e.taken
            g == [e EXCEPT !.index = k, !.pending = <<>>,
                           !.done = (@ \/ k = Len(e.content.ends))]
<1>1. k \in e.index..Len(c.ends) /\ c \in Content /\ e \in Entry
  BY DEF FillsUpTo, EntryInv, Entry
<1>2. /\ a \in 0..End(c, k)
      /\ SubSeq(c.bytes, a + 1, End(c, k)) = <<>>
      /\ Len(Buffer(e, k)) = End(c, k) - a
  BY <1>1, BufferFacts
<1>3. Len(Buffer(e, k)) = 0
  BY EmptySeq
<1>4. PICK m \in Nat : Len(c.ends) = m
  BY <1>1, ContentFacts
<1>5. End(c, k) \in Nat /\ End(c, m) = Len(c.bytes)
  BY <1>1, <1>4, ContentFacts
<1>6. a = End(c, k)
  BY <1>2, <1>3, <1>5
<1>7. Bytes!From(c.bytes, a) = <<>> \/ limit = 0
  <2>1. CASE k = m
    BY <2>1, <1>2, <1>5 DEF Bytes!From
  <2>2. CASE Enough(Buffer(e, k), limit)
    <3>1. 0 \in Nat /\ limit \in Nat /\ limit <= 0
      BY <2>2, <1>3, ShareType
    <3>. QED  BY <3>1
  <2>. QED  BY <2>1, <2>2, <1>4 DEF FillsUpTo, c
<1>8. /\ g \in Entry
      /\ g.content = c /\ g.index = k /\ g.taken = a /\ g.pending = <<>>
      /\ g.done = (e.done \/ k = m)
  <2>1. <<>> \in Seq(Bytes!Byte) /\ k \in Nat
    BY <1>4, EmptySeq
  <2>. QED  BY <1>1, <1>4, <2>1 DEF Entry
<1>9. e.done => k = m
  <2>1. e.done => e.index = m
    BY <1>4 DEF EntryInv
  <2>2. e.index \in 0..m /\ k \in e.index..m
    BY <1>1, <1>4 DEF EntryInv, Accounted
  <2>. QED  BY <2>1, <2>2
<1>. HIDE DEF c, a, g
<1>10. EntryInv(g)
  <2>1. Accounted(g)
    BY <1>2, <1>4, <1>5, <1>6, <1>8 DEF Accounted, c
  <2>. QED  BY <1>4, <1>8, <1>9, <2>1 DEF EntryInv
<1>. QED  BY <1>7, <1>10 DEF c, a, g

(* A read that found something gets what follows the bytes taken, up to    *)
(* its limit, however the chunks were cut.                                 *)
LEMMA ShareFacts ==
  ASSUME NEW e, EntryInv(e), NEW limit \in Limit, NEW k \in 0..Len(e.content.ends),
         FillsUpTo(e, limit, k), Buffer(e, k) # <<>>
  PROVE  LET left == Bytes!From(e.content.bytes, e.taken)
         IN  /\ left # <<>>
             /\ Bytes!Share(Buffer(e, k), limit) = Bytes!Share(left, limit)
             /\ Bytes!FirstOf(Buffer(e, k), limit) = Bytes!FirstOf(left, limit)
<1>. DEFINE c == e.content
            b == Buffer(e, k)
            a == e.taken
            left == Bytes!From(c.bytes, a)
            n == Bytes!Share(b, limit)
<1>1. k \in e.index..Len(c.ends) /\ c \in Content
  BY DEF FillsUpTo, EntryInv, Entry
<1>2. PICK l \in Nat : Len(c.bytes) = l
  BY <1>1, ContentFacts
<1>3. PICK q \in 0..l : End(c, k) = q
  BY <1>1, <1>2, ContentFacts
<1>4. /\ a \in 0..q /\ b = SubSeq(c.bytes, a + 1, q) /\ Len(b) = q - a
      /\ b \in Seq(Bytes!Byte)
  BY <1>1, <1>3, BufferFacts
<1>5. c.bytes \in Seq(Bytes!Byte)
  BY <1>1, ContentFacts
<1>6. k = Len(c.ends) \/ Enough(b, limit)
  BY DEF FillsUpTo
<1>7. End(c, Len(c.ends)) = l
  BY <1>1, <1>2, ContentFacts
<1>8. b # <<>>
  OBVIOUS
<1>. HIDE DEF c, b, a
<1>9. left = SubSeq(c.bytes, a + 1, l) /\ Len(left) = l - a
  BY <1>2, <1>3, <1>4, <1>5, SegmentType DEF Bytes!From
<1>10. q - a \in Nat /\ l - a \in Nat /\ q - a <= l - a /\ q - a # 0
  BY <1>4, <1>8, EmptySeq
<1>. HIDE DEF left
<1>14. PICK d \in Nat : l - a = d
  BY <1>10
<1>15. Len(left) = d
  BY <1>9, <1>14, Zenon
<1>11. left # <<>>
  <2>1. d # 0
    BY <1>10, <1>14
  <2>. QED  BY <2>1, <1>15, EmptySeq
<1>12. CASE k = Len(c.ends)
  BY <1>12, <1>3, <1>4, <1>7, <1>9, <1>11 DEF c, b, a, left
<1>13. CASE Enough(b, limit)
  <2>1. limit \in Nat /\ limit <= q - a /\ n = limit
    BY <1>4, <1>10, <1>13, ShareType
  <2>2. Bytes!Share(left, limit) = limit
    <3>1. limit <= d
      BY <1>10, <1>14, <2>1
    <3>2. limit # NoLimit
      BY <2>1, LimitAssumption
    <3>. QED  BY <2>1, <1>15, <3>1, <3>2 DEF Bytes!Share
  <2>3. limit \in 0..(q - a) /\ limit \in 0..(l - a) /\ a \in 0..l /\ l \in 0..l
    BY <1>3, <1>4, <1>10, <2>1
  <2>4. SubSeq(b, 1, limit) = SubSeq(c.bytes, a + 1, a + limit)
    BY <1>2, <1>4, <1>5, <2>3, SegmentSplits
  <2>5. SubSeq(left, 1, limit) = SubSeq(c.bytes, a + 1, a + limit)
    BY <1>2, <1>5, <1>9, <2>3, SegmentSplits
  <2>. QED  BY <1>11, <2>1, <2>2, <2>4, <2>5 DEF Bytes!FirstOf, c, b, a, left
<1>. QED  BY <1>6, <1>12, <1>13

-----------------------------------------------------------------------------
(* The invariant.                                                          *)

IInv == TypeOK /\ \A id \in DOMAIN entries : EntryInv(entries[id])

Replies == [kind : {"none", "handle", "released", "done", "chunk", "error"},
            bytes : Seq(Bytes!Byte), seq : Nat, asked : Limit \cup {NoLimit}]

LEMMA EmptyReplies ==
  ASSUME NEW kind \in {"none", "handle", "released", "done", "error"},
         NEW limit \in Limit \cup {NoLimit}
  PROVE  Bytes!Empty(kind, limit) \in Replies
BY EmptySeq DEF Bytes!Empty, Replies

LEMMA PlainReplies ==
  ASSUME NEW kind \in {"none", "handle", "released", "done", "error"}
  PROVE  Bytes!Plain(kind) \in Replies
BY EmptyReplies DEF Bytes!Plain

LEMMA ChunkReplies ==
  ASSUME NEW bytes \in Seq(Bytes!Byte), NEW seq \in Nat, NEW limit \in Limit
  PROVE  Bytes!Chunk(bytes, seq, limit) \in Replies
BY DEF Bytes!Chunk, Replies

(* Putting an entry that is in order under a handle given out.             *)
LEMMA PutKeepsInv ==
  ASSUME IInv, NEW g, EntryInv(g), NEW id \in 1..counter', Put(id, g),
         counter' \in Nat, counter <= counter', reply' \in Replies
  PROVE  IInv'
<1>1. /\ DOMAIN entries \subseteq 1..counter
      /\ entries \in [DOMAIN entries -> Entry]
      /\ counter \in Nat
      /\ \A h \in DOMAIN entries : EntryInv(entries[h])
  BY DEF IInv, TypeOK
<1>2. g \in Entry
  BY DEF EntryInv
<1>3. /\ DOMAIN entries' = DOMAIN entries \cup {id}
      /\ \A h \in DOMAIN entries' : entries'[h] = IF h = id THEN g ELSE entries[h]
      /\ entries' \in [DOMAIN entries' -> Entry]
  BY <1>1, <1>2 DEF Put
<1>4. DOMAIN entries' \subseteq 1..counter'
  BY <1>1, <1>3
<1>5. \A h \in DOMAIN entries' : EntryInv(entries'[h])
  BY <1>1, <1>3
<1>6. \A h \in DOMAIN entries' : EntryInv(entries[h])'
  BY <1>5 DEF EntryInv, Entry, Accounted, End
<1>. QED  BY <1>3, <1>4, <1>6 DEF IInv, TypeOK, Replies, Entry

LEMMA InitInv == Init => IInv
<1>1. Init => entries = <<>> /\ DOMAIN entries = {} /\ entries \in [DOMAIN entries -> Entry]
  BY DEF Init
<1>2. Init => counter \in Nat /\ reply \in Replies
  BY PlainReplies DEF Init
<1>. QED  BY <1>1, <1>2 DEF IInv, TypeOK, Replies

-----------------------------------------------------------------------------
(* Every step keeps the invariant, one lemma per operation.                *)

LEMMA RegisterKeepsInv ==
  ASSUME IInv, NEW content \in Content, NEW encoding \in Bytes!Encoding,
         RegisterChunks(content, encoding)
  PROVE  IInv'
<1>. DEFINE g == [content |-> content, encoding |-> encoding, pending |-> <<>>,
                  index |-> 0, done |-> FALSE, seq |-> 0, taken |-> 0]
<1>1. counter \in Nat /\ counter' = counter + 1 /\ NextId = counter + 1 /\ Put(NextId, g)
  BY DEF IInv, TypeOK, RegisterChunks, NextId
<1>2. g \in Entry
  BY EmptySeq DEF Entry
<1>3. /\ g.content = content /\ g.index = 0 /\ g.taken = 0 /\ g.pending = <<>>
      /\ g.done = FALSE
  OBVIOUS
<1>. HIDE DEF g
<1>4. Accounted(g)
  <2>1. SubSeq(content.bytes, 0 + 1, 0) = <<>>
    BY SubSeqEmpty
  <2>2. 0 \in 0..Len(content.ends)
    <3>1. Len(content.ends) \in Nat
      BY ContentFacts
    <3>. QED  BY <3>1
  <2>. QED  BY <1>3, <2>1, <2>2 DEF Accounted, End
<1>5. EntryInv(g)
  BY <1>2, <1>3, <1>4 DEF EntryInv
<1>6. reply' \in Replies
  BY PlainReplies DEF RegisterChunks
<1>7. NextId \in 1..counter' /\ counter' \in Nat /\ counter <= counter'
  BY <1>1
<1>. QED  BY <1>1, <1>5, <1>6, <1>7, PutKeepsInv

LEMMA CloseKeepsInv ==
  ASSUME IInv, NEW id, Close(id)
  PROVE  IInv'
<1>1. /\ DOMAIN entries' \subseteq DOMAIN entries
      /\ \A h \in DOMAIN entries' : entries'[h] = entries[h]
      /\ entries' \in [DOMAIN entries' -> Entry]
      /\ counter' = counter
  BY DEF Close, IInv, TypeOK
<1>2. reply' \in Replies
  BY PlainReplies DEF Close
<1>3. \A h \in DOMAIN entries' : EntryInv(entries[h])'
  BY <1>1 DEF IInv, EntryInv, Entry, Accounted, End
<1>. QED  BY <1>1, <1>2, <1>3 DEF IInv, TypeOK, Replies, Entry

(* Answers that leave the entries alone.                                   *)
LEMMA AnswerKeepsInv ==
  ASSUME IInv, UNCHANGED <<entries, counter>>, reply' \in Replies
  PROVE  IInv'
BY DEF IInv, TypeOK, EntryInv, Entry, Accounted, End, Replies

LEMMA NothingKeepsInv ==
  ASSUME IInv, NEW id, NEW limit \in Limit, ReadNothing(id, limit)
  PROVE  IInv'
<1>. DEFINE e == entries[id]
            G(k) == [e EXCEPT !.index = k, !.pending = <<>>,
                              !.done = (@ \/ k = Len(e.content.ends))]
<1>1. EntryInv(e) /\ id \in 1..counter /\ counter \in Nat /\ counter' = counter
  BY DEF ReadNothing, IInv, TypeOK
<1>2. PICK k \in 0..Len(e.content.ends) :
        FillsUpTo(e, limit, k) /\ Buffer(e, k) = <<>> /\ Put(id, G(k))
  BY DEF ReadNothing
<1>3. EntryInv(G(k))
  BY <1>1, <1>2, NothingFacts
<1>4. reply' \in Replies
  BY EmptyReplies DEF ReadNothing
<1>5. id \in 1..counter' /\ counter' \in Nat /\ counter <= counter'
  BY <1>1
<1>. HIDE DEF G, e
<1>. QED  BY <1>2, <1>3, <1>4, <1>5, PutKeepsInv

(* Numbering a chunk does not matter to the invariant.                     *)
LEMMA NumberedEntry ==
  ASSUME NEW g, EntryInv(g)
  PROVE  EntryInv([g EXCEPT !.seq = @ + 1])
<1>. DEFINE h == [g EXCEPT !.seq = @ + 1]
<1>1. g \in Entry
  BY DEF EntryInv
<1>2. /\ h \in Entry
      /\ h.content = g.content /\ h.index = g.index /\ h.taken = g.taken
      /\ h.pending = g.pending /\ h.done = g.done
  BY <1>1 DEF Entry
<1>. HIDE DEF h
<1>3. EntryInv(h)
  BY <1>2 DEF EntryInv, Accounted
<1>. QED  BY <1>3 DEF h

(* The two ways a read with bytes ends.                                    *)
Decoded(id, e, limit, encoding, k) ==
  /\ Bytes!Decodes(Bytes!FirstOf(Buffer(e, k), limit), encoding)
  /\ Put(id, [After(e, limit, k) EXCEPT !.seq = @ + 1])
  /\ reply' = Bytes!Chunk(Bytes!FirstOf(Buffer(e, k), limit), e.seq, limit)

Undecoded(id, e, limit, encoding, k) ==
  /\ ~ Bytes!Decodes(Bytes!FirstOf(Buffer(e, k), limit), encoding)
  /\ Put(id, After(e, limit, k))
  /\ reply' = Bytes!Empty("error", limit)

LEMMA BytesStep ==
  ASSUME IInv, NEW id, NEW limit \in Limit, NEW encoding, ReadBytes(id, limit, encoding)
  PROVE  /\ id \in DOMAIN entries
         /\ counter' = counter
         /\ EntryInv(entries[id])
         /\ \E k \in 0..Len(entries[id].content.ends) :
              /\ FillsUpTo(entries[id], limit, k)
              /\ k \in entries[id].index..Len(entries[id].content.ends)
              /\ Buffer(entries[id], k) # <<>>
              /\ \/ Decoded(id, entries[id], limit, encoding, k)
                 \/ Undecoded(id, entries[id], limit, encoding, k)
<1>1. id \in DOMAIN entries /\ counter' = counter /\ EntryInv(entries[id])
  BY DEF ReadBytes, IInv
<1>2. PICK k \in 0..Len(entries[id].content.ends) :
        /\ FillsUpTo(entries[id], limit, k)
        /\ Buffer(entries[id], k) # <<>>
        /\ \/ Decoded(id, entries[id], limit, encoding, k)
           \/ Undecoded(id, entries[id], limit, encoding, k)
  BY Zenon DEF ReadBytes, Decoded, Undecoded
<1>3. k \in entries[id].index..Len(entries[id].content.ends)
  BY <1>2 DEF FillsUpTo
<1>. QED  BY <1>1, <1>2, <1>3

LEMMA BytesKeepInv ==
  ASSUME IInv, NEW id, NEW limit \in Limit, NEW encoding, ReadBytes(id, limit, encoding)
  PROVE  IInv'
<1>. DEFINE e == entries[id]
<1>1. id \in DOMAIN entries /\ counter' = counter /\ EntryInv(e)
  BY BytesStep
<1>2. PICK k \in e.index..Len(e.content.ends) :
        Decoded(id, e, limit, encoding, k) \/ Undecoded(id, e, limit, encoding, k)
  BY BytesStep
<1>3. id \in 1..counter' /\ counter' \in Nat /\ counter <= counter'
  BY <1>1 DEF IInv, TypeOK
<1>4. e \in Entry
  BY <1>1 DEF EntryInv
<1>. HIDE DEF e
<1>5. EntryInv(After(e, limit, k))
  BY <1>1, AfterFacts
<1>6. Bytes!FirstOf(Buffer(e, k), limit) \in Seq(Bytes!Byte)
  <2>1. Buffer(e, k) \in Seq(Bytes!Byte)
    BY <1>1, BufferFacts
  <2>2. PICK n \in Nat : Len(Buffer(e, k)) = n
    BY <2>1, LenProperties
  <2>3. Bytes!Share(Buffer(e, k), limit) \in 0..n
    BY <2>2, ShareType
  <2>4. PICK m \in 0..n : Bytes!Share(Buffer(e, k), limit) = m
    BY <2>3
  <2>5. SubSeq(Buffer(e, k), 0 + 1, m) \in Seq(Bytes!Byte)
    BY <2>1, <2>2, <2>4, SegmentType
  <2>. QED  BY <2>4, <2>5 DEF Bytes!FirstOf
<1>7. CASE Decoded(id, e, limit, encoding, k)
  <2>1. reply' \in Replies
    <3>1. e.seq \in Nat
      BY <1>4 DEF Entry
    <3>. QED  BY <1>6, <1>7, <3>1, ChunkReplies DEF Decoded
  <2>2. EntryInv([After(e, limit, k) EXCEPT !.seq = @ + 1])
    BY <1>5, NumberedEntry
  <2>. QED  BY <1>3, <1>7, <2>1, <2>2, PutKeepsInv DEF Decoded
<1>8. CASE Undecoded(id, e, limit, encoding, k)
  <2>1. reply' \in Replies
    BY <1>8, EmptyReplies DEF Undecoded
  <2>. QED  BY <1>3, <1>5, <1>8, <2>1, PutKeepsInv DEF Undecoded
<1>. QED  BY <1>2, <1>7, <1>8

LEMMA NextKeepsInv == IInv /\ [Next]_vars => IInv'
<1>. SUFFICES ASSUME IInv, [Next]_vars  PROVE IInv'
  OBVIOUS
<1>1. ASSUME NEW content \in Content, NEW encoding \in Bytes!Encoding,
             RegisterChunks(content, encoding)
      PROVE  IInv'
  BY <1>1, RegisterKeepsInv
<1>2. ASSUME NEW id \in 1..MaxStreams, NEW limit \in Limit, Read(id, limit)
      PROVE  IInv'
  <2>1. CASE ReadExhausted(id, limit)
    BY <2>1, EmptyReplies, AnswerKeepsInv DEF ReadExhausted
  <2>2. CASE ReadNothing(id, limit)
    BY <2>2, NothingKeepsInv
  <2>3. ASSUME NEW decode, ReadBytes(id, limit, decode)  PROVE IInv'
    BY <2>3, BytesKeepInv
  <2>. QED  BY <1>2, <2>1, <2>2, <2>3 DEF Read
<1>3. ASSUME NEW id \in 1..MaxStreams, Close(id)  PROVE IInv'
  BY <1>3, CloseKeepsInv
<1>4. ASSUME NEW id \in 1..MaxStreams, UnknownHandle(id)  PROVE IInv'
  BY <1>4, PlainReplies, AnswerKeepsInv DEF UnknownHandle
<1>5. CASE UNCHANGED vars
  <2>1. reply' \in Replies
    BY <1>5 DEF IInv, TypeOK, Replies, vars
  <2>. QED  BY <1>5, <2>1, AnswerKeepsInv DEF vars
<1>. QED  BY <1>1, <1>2, <1>3, <1>4, <1>5 DEF Next

(* The invariant holds of every behaviour of streams.rs.                   *)
THEOREM StreamInvariance == Spec => []IInv
BY InitInv, NextKeepsInv, PTL DEF Spec

(* Entries, handles and replies have the types of StreamEntry and of the   *)
(* values read and close return.                                           *)
THEOREM StreamTypeCorrect == Spec => []TypeOK
<1>1. IInv => TypeOK
  BY DEF IInv
<1>. QED  BY <1>1, StreamInvariance, PTL

(* read never loses, repeats or reorders a byte between the chunks,        *)
(* pending and its callers.                                                *)
THEOREM BytesConserved == Spec => []Conserved
<1>1. IInv => Conserved
  BY DEF IInv, EntryInv, Conserved
<1>. QED  BY <1>1, StreamInvariance, PTL

-----------------------------------------------------------------------------
(* Handles are not used twice.                                             *)

(* A handle that was closed stays unknown: register_chunks never gives its *)
(* number out again.                                                       *)
THEOREM HandlesNeverReused == Spec => HandlesStayClosed
<1>1. IInv /\ [Next]_vars =>
        [\A id \in 1..counter : id \notin DOMAIN entries => id \notin DOMAIN entries']_vars
  <2>. SUFFICES ASSUME IInv, Next, NEW id \in 1..counter, id \notin DOMAIN entries
                PROVE  id \notin DOMAIN entries'
    OBVIOUS
  <2>0. counter \in Nat /\ \A i, g : Put(i, g) => DOMAIN entries' = DOMAIN entries \cup {i}
    BY DEF IInv, TypeOK, Put
  <2>1. ASSUME NEW content, NEW encoding, RegisterChunks(content, encoding)
        PROVE  id \notin DOMAIN entries'
    <3>1. \E g : Put(NextId, g)
      BY <2>1, Zenon DEF RegisterChunks
    <3>2. DOMAIN entries' = DOMAIN entries \cup {NextId}
      BY <2>0, <3>1
    <3>3. id # NextId
      BY <2>0 DEF NextId
    <3>. QED  BY <3>2, <3>3
  <2>2. ASSUME NEW i, NEW limit \in Limit, Read(i, limit)
        PROVE  id \notin DOMAIN entries'
    <3>1. CASE ReadExhausted(i, limit)
      BY <3>1 DEF ReadExhausted
    <3>2. CASE ReadNothing(i, limit)
      <4>1. i \in DOMAIN entries /\ DOMAIN entries' = DOMAIN entries \cup {i}
        BY <2>0, <3>2 DEF ReadNothing
      <4>. QED  BY <4>1
    <3>3. ASSUME NEW decode, ReadBytes(i, limit, decode)
          PROVE  id \notin DOMAIN entries'
      <4>1. i \in DOMAIN entries /\ DOMAIN entries' = DOMAIN entries \cup {i}
        BY <2>0, <3>3, BytesStep DEF Decoded, Undecoded
      <4>. QED  BY <4>1
    <3>. QED  BY <2>2, <3>1, <3>2, <3>3 DEF Read
  <2>3. ASSUME NEW i, Close(i)  PROVE id \notin DOMAIN entries'
    BY <2>3 DEF Close
  <2>4. ASSUME NEW i, UnknownHandle(i)  PROVE id \notin DOMAIN entries'
    BY <2>4 DEF UnknownHandle
  <2>. QED  BY <2>1, <2>2, <2>3, <2>4 DEF Next
<1>. QED  BY <1>1, StreamInvariance, PTL DEF Spec, HandlesStayClosed

-----------------------------------------------------------------------------
(* The chunks are invisible.                                               *)

AbsEntry(e) == [bytes |-> e.content.bytes, at |-> e.taken, seq |-> e.seq]

AbsStreams == [h \in DOMAIN entries |-> AbsEntry(entries[h])]

AbsPut(id, stream) ==
  AbsStreams' = [h \in DOMAIN AbsStreams \cup {id} |->
                   IF h = id THEN stream ELSE AbsStreams[h]]

(* Putting an entry puts what readers see of it.                           *)
LEMMA PutIsPut ==
  ASSUME NEW id, NEW g, Put(id, g)
  PROVE  AbsPut(id, AbsEntry(g))
<1>1. /\ DOMAIN entries' = DOMAIN entries \cup {id}
      /\ \A h \in DOMAIN entries' : entries'[h] = IF h = id THEN g ELSE entries[h]
  BY DEF Put
<1>2. \A h \in DOMAIN entries \cup {id} :
        AbsEntry(entries'[h]) = IF h = id THEN AbsEntry(g) ELSE AbsStreams[h]
  BY <1>1 DEF AbsStreams
<1>3. [h \in DOMAIN entries' |-> AbsEntry(entries'[h])]
        = [h \in DOMAIN AbsStreams \cup {id} |->
             IF h = id THEN AbsEntry(g) ELSE AbsStreams[h]]
  BY <1>1, <1>2 DEF AbsStreams
<1>. QED  BY <1>3 DEF AbsPut, AbsStreams

LEMMA SameWords ==
  /\ \A b, n : Bytes!From(b, n) = ByteStreams!From(b, n)
  /\ \A b, limit : Bytes!Share(b, limit) = ByteStreams!Share(b, limit)
  /\ \A b, limit : Bytes!FirstOf(b, limit) = ByteStreams!FirstOf(b, limit)
  /\ \A b, encoding : Bytes!Decodes(b, encoding) = ByteStreams!Decodes(b, encoding)
  /\ \A kind : Bytes!Plain(kind) = ByteStreams!Plain(kind)
  /\ \A kind, limit : Bytes!Empty(kind, limit) = ByteStreams!Empty(kind, limit)
  /\ \A b, n, limit : Bytes!Chunk(b, n, limit) = ByteStreams!Chunk(b, n, limit)
  /\ Bytes!Encoding = ByteStreams!Encoding
BY DEF Bytes!From, ByteStreams!From, Bytes!Share, ByteStreams!Share, Bytes!FirstOf,
       ByteStreams!FirstOf, Bytes!Decodes, ByteStreams!Decodes, Bytes!IsText,
       ByteStreams!IsText, Bytes!Plain, ByteStreams!Plain, Bytes!Empty, ByteStreams!Empty, Bytes!Chunk,
       ByteStreams!Chunk, Bytes!Encoding, ByteStreams!Encoding

LEMMA AbsUnchanged ==
  ASSUME UNCHANGED entries
  PROVE  UNCHANGED AbsStreams
BY DEF AbsStreams, AbsEntry


LEMMA RegisterIsOpen ==
  ASSUME NEW content \in Content, NEW encoding, RegisterChunks(content, encoding)
  PROVE  ByteStreams!Open(content.bytes)
<1>. DEFINE g == [content |-> content, encoding |-> encoding, pending |-> <<>>,
                  index |-> 0, done |-> FALSE, seq |-> 0, taken |-> 0]
<1>1. Put(counter + 1, g) /\ counter' = counter + 1 /\ reply' = Bytes!Plain("handle")
  BY DEF RegisterChunks, NextId
<1>2. AbsEntry(g) = [bytes |-> content.bytes, at |-> 0, seq |-> 0]
  BY DEF AbsEntry
<1>. HIDE DEF g
<1>3. AbsPut(counter + 1, [bytes |-> content.bytes, at |-> 0, seq |-> 0])
  BY <1>1, <1>2, PutIsPut
<1>. QED  BY <1>1, <1>3, SameWords
     DEF ByteStreams!Open, ByteStreams!Put, AbsPut, AbsStreams, AbsEntry

LEMMA CloseIsRelease ==
  ASSUME NEW id, Close(id)
  PROVE  id \in DOMAIN AbsStreams /\ ByteStreams!Release(id)
<1>1. /\ DOMAIN entries' = DOMAIN entries \ {id}
      /\ \A h \in DOMAIN entries' : entries'[h] = entries[h]
      /\ id \in DOMAIN entries /\ UNCHANGED counter /\ reply' = Bytes!Plain("released")
  BY DEF Close
<1>2. [h \in DOMAIN entries' |-> AbsEntry(entries'[h])]
        = [h \in DOMAIN AbsStreams \ {id} |-> AbsStreams[h]]
  BY <1>1 DEF AbsStreams
<1>. QED  BY <1>1, <1>2, SameWords DEF ByteStreams!Release, AbsStreams, AbsEntry

LEMMA ExhaustedIsEnd ==
  ASSUME IInv, NEW id, NEW limit, ReadExhausted(id, limit)
  PROVE  id \in DOMAIN AbsStreams /\ ByteStreams!End(id, limit)
<1>. DEFINE e == entries[id]
            c == e.content
<1>1. /\ id \in DOMAIN entries /\ EntryInv(e) /\ e.done /\ e.pending = <<>>
      /\ UNCHANGED <<entries, counter>> /\ reply' = Bytes!Empty("done", limit)
  BY DEF ReadExhausted, Exhausted, IInv
<1>2. e.index = Len(c.ends) /\ c \in Content
      /\ SubSeq(c.bytes, e.taken + 1, End(c, e.index)) = <<>>
  BY <1>1 DEF EntryInv, Accounted, Entry
<1>3. End(c, e.index) = Len(c.bytes)
  BY <1>2, ContentFacts
<1>4. ByteStreams!From(c.bytes, e.taken) = <<>>
  BY <1>2, <1>3 DEF ByteStreams!From
<1>5. AbsStreams[id].bytes = c.bytes /\ AbsStreams[id].at = e.taken /\ id \in DOMAIN AbsStreams
  BY <1>1 DEF AbsStreams, AbsEntry
<1>6. ByteStreams!From(AbsStreams[id].bytes, AbsStreams[id].at) = <<>>
  BY <1>4, <1>5
<1>. QED  BY <1>1, <1>5, <1>6, AbsUnchanged, SameWords DEF ByteStreams!End, AbsStreams, AbsEntry

LEMMA NothingIsEnd ==
  ASSUME IInv, NEW id, NEW limit \in Limit, ReadNothing(id, limit)
  PROVE  id \in DOMAIN AbsStreams /\ ByteStreams!End(id, limit)
<1>. DEFINE e == entries[id]
            G(k) == [e EXCEPT !.index = k, !.pending = <<>>,
                              !.done = (@ \/ k = Len(e.content.ends))]
<1>1. /\ id \in DOMAIN entries /\ EntryInv(e)
      /\ UNCHANGED counter /\ reply' = Bytes!Empty("done", limit)
  BY DEF ReadNothing, IInv
<1>2. PICK k \in 0..Len(e.content.ends) :
        FillsUpTo(e, limit, k) /\ Buffer(e, k) = <<>> /\ Put(id, G(k))
  BY DEF ReadNothing
<1>3. Bytes!From(e.content.bytes, e.taken) = <<>> \/ limit = 0
  BY <1>1, <1>2, NothingFacts
<1>4. AbsEntry(G(k)) = AbsEntry(e)
  <2>1. e \in Entry
    BY <1>1 DEF EntryInv
  <2>2. G(k).content = e.content /\ G(k).taken = e.taken /\ G(k).seq = e.seq
    BY <2>1 DEF Entry
  <2>. QED  BY <2>2 DEF AbsEntry
<1>5. AbsStreams[id] = AbsEntry(e) /\ id \in DOMAIN AbsStreams /\ DOMAIN AbsStreams = DOMAIN entries
  BY <1>1 DEF AbsStreams
<1>. HIDE DEF G, e
<1>6. /\ DOMAIN entries' = DOMAIN entries
      /\ \A h \in DOMAIN entries : entries'[h] = IF h = id THEN G(k) ELSE entries[h]
  BY <1>1, <1>2 DEF Put
<1>7. \A h \in DOMAIN entries : AbsEntry(entries'[h]) = AbsEntry(entries[h])
  BY <1>4, <1>6 DEF e
<1>8. [h \in DOMAIN entries' |-> AbsEntry(entries'[h])] = AbsStreams
  BY <1>6, <1>7 DEF AbsStreams
<1>9. AbsStreams[id].bytes = e.content.bytes /\ AbsStreams[id].at = e.taken
  BY <1>5 DEF AbsEntry
<1>10. ByteStreams!From(AbsStreams[id].bytes, AbsStreams[id].at) = <<>> \/ limit = 0
  BY <1>3, <1>9, SameWords
<1>. QED  BY <1>1, <1>5, <1>8, <1>10, SameWords DEF ByteStreams!End, AbsStreams, AbsEntry

(* The action Take, of what readers see of a stream.                       *)
TakeOf(s, id, limit, encoding) ==
  LET left == ByteStreams!From(s.bytes, s.at)
      next == ByteStreams!FirstOf(left, limit)
  IN  /\ left # <<>>
      /\ \/ /\ ByteStreams!Decodes(next, encoding)
            /\ AbsPut(id, [bytes |-> s.bytes, at |-> s.at + ByteStreams!Share(left, limit),
                            seq |-> s.seq + 1])
            /\ reply' = ByteStreams!Chunk(next, s.seq, limit)
         \/ /\ ~ ByteStreams!Decodes(next, encoding)
            /\ AbsPut(id, [s EXCEPT !.at = @ + ByteStreams!Share(left, limit)])
            /\ reply' = ByteStreams!Empty("error", limit)
      /\ UNCHANGED counter

LEMMA TakeOfIsTake ==
  ASSUME NEW id, NEW limit, NEW encoding, TakeOf(AbsStreams[id], id, limit, encoding)
  PROVE  ByteStreams!Take(id, limit, encoding)
BY Zenon DEF TakeOf, AbsPut, AbsStreams, AbsEntry, ByteStreams!Take, ByteStreams!Put

LEMMA BytesIsTake ==
  ASSUME IInv, NEW id, NEW limit \in Limit, NEW encoding, ReadBytes(id, limit, encoding)
  PROVE  id \in DOMAIN AbsStreams /\ ByteStreams!Take(id, limit, encoding)
<1>. DEFINE e == entries[id]
            left == ByteStreams!From(e.content.bytes, e.taken)
            n == ByteStreams!Share(left, limit)
            first == ByteStreams!FirstOf(left, limit)
            s == AbsStreams[id]
<1>1. id \in DOMAIN entries /\ counter' = counter /\ EntryInv(e)
  BY BytesStep
<1>2. PICK k \in e.index..Len(e.content.ends) :
        /\ k \in 0..Len(e.content.ends)
        /\ FillsUpTo(e, limit, k) /\ Buffer(e, k) # <<>>
        /\ Decoded(id, e, limit, encoding, k) \/ Undecoded(id, e, limit, encoding, k)
  BY BytesStep
<1>3. /\ left # <<>>
      /\ Bytes!Share(Buffer(e, k), limit) = n
      /\ Bytes!FirstOf(Buffer(e, k), limit) = first
  BY <1>1, <1>2, ShareFacts, SameWords
<1>4. id \in DOMAIN AbsStreams /\ s = AbsEntry(e)
  BY <1>1 DEF AbsStreams
<1>5. e \in Entry
  BY <1>1 DEF EntryInv
<1>. HIDE DEF e, s
<1>6. s.bytes = e.content.bytes /\ s.at = e.taken /\ s.seq = e.seq
  BY <1>4 DEF AbsEntry
<1>. DEFINE g == After(e, limit, k)
            g2 == [g EXCEPT !.seq = @ + 1]
<1>7. /\ g \in Entry /\ g.content = e.content /\ g.taken = e.taken + n /\ g.seq = e.seq
  <2>1. EntryInv(g)
    BY <1>1, AfterFacts
  <2>2. g.content = e.content /\ g.taken = e.taken + n /\ g.seq = e.seq
    BY <1>3, <1>5 DEF After, Entry
  <2>. QED  BY <2>1, <2>2 DEF EntryInv
<1>. HIDE DEF g, n, left, first
<1>8. AbsEntry(g) = [s EXCEPT !.at = @ + n]
  BY <1>4, <1>6, <1>7 DEF AbsEntry
<1>9. AbsEntry(g2) = [bytes |-> s.bytes, at |-> s.at + n, seq |-> s.seq + 1]
  <2>1. g2.content = e.content /\ g2.taken = e.taken + n /\ g2.seq = e.seq + 1
    BY <1>7 DEF Entry
  <2>. QED  BY <1>6, <2>1 DEF AbsEntry
<1>. HIDE DEF g2
<1>12. left = ByteStreams!From(s.bytes, s.at)
  BY <1>6 DEF left
<1>10. CASE Decoded(id, e, limit, encoding, k)
  <2>1. ByteStreams!Decodes(first, encoding) /\ reply' = ByteStreams!Chunk(first, s.seq, limit)
    BY <1>3, <1>6, <1>10, SameWords DEF Decoded
  <2>2. Put(id, g2)
    BY <1>10, Zenon DEF Decoded, g2, g
  <2>3. AbsPut(id, AbsEntry(g2))
    BY <2>2, PutIsPut
  <2>4. AbsPut(id, [bytes |-> s.bytes, at |-> s.at + n, seq |-> s.seq + 1])
    BY <1>9, <2>3, Zenon
  <2>. QED  BY <1>1, <1>3, <1>4, <1>12, <2>1, <2>4, TakeOfIsTake DEF TakeOf, s, n, first
<1>11. CASE Undecoded(id, e, limit, encoding, k)
  <2>1. ~ ByteStreams!Decodes(first, encoding) /\ reply' = ByteStreams!Empty("error", limit)
    BY <1>3, <1>6, <1>11, SameWords DEF Undecoded
  <2>2. Put(id, g)
    BY <1>11, Zenon DEF Undecoded, g
  <2>3. AbsPut(id, AbsEntry(g))
    BY <2>2, PutIsPut
  <2>4. AbsPut(id, [s EXCEPT !.at = @ + n])
    BY <1>8, <2>3, Zenon
  <2>. QED  BY <1>1, <1>3, <1>4, <1>12, <2>1, <2>4, TakeOfIsTake DEF TakeOf, s, n, first
<1>. QED  BY <1>2, <1>4, <1>10, <1>11

(* streams.rs implements streams of bytes: whatever the chunks are, a read *)
(* with a limit gets exactly the next bytes up to it, and is told of the   *)
(* end only when none is left or none was asked for.                       *)
THEOREM ChunksInvisible == Spec => ChunkingInvisible
<1>1. Init => ByteStreams!StreamsInit
  <2>1. Init => AbsStreams = <<>>
    <3>1. ASSUME entries = <<>>  PROVE AbsStreams = <<>>
      <4>1. DOMAIN entries = {}
        BY <3>1
      <4>2. AbsStreams = [h \in {} |-> h]
        BY <4>1 DEF AbsStreams
      <4>3. <<>> = [h \in {} |-> h]
        OBVIOUS
      <4>. QED  BY <4>2, <4>3
    <3>. QED  BY <3>1 DEF Init
  <2>. QED  BY <2>1, SameWords DEF Init, ByteStreams!StreamsInit, AbsStreams, AbsEntry
<1>2. IInv /\ [Next]_vars => [ByteStreams!StreamsNext]_<<AbsStreams, counter, reply>>
  <2>. SUFFICES ASSUME IInv, [Next]_vars
                PROVE  [ByteStreams!StreamsNext]_<<AbsStreams, counter, reply>>
    OBVIOUS
  <2>1. ASSUME NEW content \in Content, NEW encoding, RegisterChunks(content, encoding)
        PROVE  ByteStreams!StreamsNext
    <3>1. content.bytes \in Offered
      BY DEF Offered
    <3>. QED  BY <2>1, <3>1, RegisterIsOpen DEF ByteStreams!StreamsNext
  <2>2. ASSUME NEW id, NEW limit \in Limit, ReadExhausted(id, limit) \/ ReadNothing(id, limit)
        PROVE  ByteStreams!StreamsNext
    <3>1. id \in DOMAIN AbsStreams /\ ByteStreams!End(id, limit)
      BY <2>2, ExhaustedIsEnd, NothingIsEnd
    <3>2. "utf-8" \in ByteStreams!Encoding
      BY DEF ByteStreams!Encoding
    <3>. QED  BY <3>1, <3>2 DEF ByteStreams!StreamsNext, AbsStreams, AbsEntry
  <2>3. ASSUME NEW id, NEW limit \in Limit, NEW encoding \in Bytes!Encoding,
               ReadBytes(id, limit, encoding)
        PROVE  ByteStreams!StreamsNext
    <3>1. id \in DOMAIN AbsStreams /\ ByteStreams!Take(id, limit, encoding)
      BY <2>3, BytesIsTake
    <3>2. encoding \in ByteStreams!Encoding
      BY SameWords
    <3>. QED  BY <3>1, <3>2 DEF ByteStreams!StreamsNext, AbsStreams, AbsEntry
  <2>4. ASSUME NEW id, NEW limit \in Limit, Read(id, limit)
        PROVE  ByteStreams!StreamsNext
    <3>1. id \in DOMAIN entries => entries[id].encoding \in Bytes!Encoding
      BY DEF IInv, EntryInv, Entry
    <3>. QED  BY <2>2, <2>3, <2>4, <3>1 DEF Read
  <2>5. ASSUME NEW id, Close(id)  PROVE ByteStreams!StreamsNext
    <3>1. id \in DOMAIN AbsStreams /\ ByteStreams!Release(id)
      BY <2>5, CloseIsRelease
    <3>. QED  BY <3>1 DEF ByteStreams!StreamsNext, AbsStreams, AbsEntry
  <2>6. ASSUME NEW id, UnknownHandle(id)  PROVE ByteStreams!StreamsNext
    <3>1. ByteStreams!Refuse
      BY <2>6, AbsUnchanged, SameWords
         DEF UnknownHandle, ByteStreams!Refuse, AbsStreams, AbsEntry
    <3>. QED  BY <3>1 DEF ByteStreams!StreamsNext
  <2>7. CASE UNCHANGED vars
    BY <2>7, AbsUnchanged DEF vars
  <2>. QED  BY <2>1, <2>4, <2>5, <2>6, <2>7 DEF Next
<1>3. IInv /\ [Next]_vars =>
        [ByteStreams!StreamsNext]_<<[id \in DOMAIN entries |->
                                       [bytes |-> entries[id].content.bytes,
                                        at |-> entries[id].taken,
                                        seq |-> entries[id].seq]], counter, reply>>
  BY <1>2 DEF AbsStreams, AbsEntry
<1>. QED  BY <1>1, <1>3, StreamInvariance, PTL
     DEF Spec, ChunkingInvisible, ByteStreams!StreamsSpec
=============================================================================
