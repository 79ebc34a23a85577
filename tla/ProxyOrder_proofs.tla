------------------------- MODULE ProxyOrder_proofs -------------------------
(***************************************************************************)
(* Proofs about what a session relays: that it keeps its order, what of it *)
(* waits for more input, that nothing else is ever in the way of a read,   *)
(* and that a command is not torn from its IAC on the way to the handlers. *)
(***************************************************************************)
EXTENDS ProxyOutput_proofs

-----------------------------------------------------------------------------
(* Places in a stream.                                                     *)

\* The places, in what their sender sent, of the elements of q that a peer sent
Srcs(q) == {q[i].src : i \in DOMAIN q} \ {0}

\* They increase along q, ...
Rising(q) ==
    \A i, j \in DOMAIN q :
        i < j /\ q[i].src > 0 /\ q[j].src > 0 => q[i].src < q[j].src

\* ... from p to q.
Before(p, q) == \A a \in Srcs(p), b \in Srcs(q) : a < b

\* Places are positive.
LEMMA SrcsIn ==
    ASSUME NEW q \in Seq(Element)
    PROVE  \A a \in Srcs(q) : a \in Nat /\ a > 0
<1> SUFFICES ASSUME NEW i \in DOMAIN q, q[i].src # 0
             PROVE  q[i].src \in Nat /\ q[i].src > 0
  BY DEF Srcs
<1>1. q[i] \in Element
  BY LenProperties, ElementOfSeq
<1> QED BY <1>1 DEF Element

\* An element a peer has sent has such a place.
LEMMA SrcOf ==
    ASSUME NEW q \in Seq(Element), NEW i \in DOMAIN q
    PROVE  q[i].src \in Nat /\ (q[i].src > 0 => q[i].src \in Srcs(q))
<1>1. q[i] \in Element
  BY LenProperties, ElementOfSeq
<1>2. q[i].src \in Nat
  BY <1>1 DEF Element
<1> QED BY <1>2 DEF Srcs

\* The places of two sequences, one after the other, ...
LEMMA SrcsConcat ==
    ASSUME NEW p \in Seq(Element), NEW q \in Seq(Element)
    PROVE  Srcs(p \o q) \subseteq Srcs(p) \cup Srcs(q)
<1> DEFINE w == p \o q
<1>1. /\ Len(p) \in Nat /\ Len(q) \in Nat
      /\ DOMAIN p = 1 .. Len(p) /\ DOMAIN q = 1 .. Len(q)
  BY LenProperties
<1>2. /\ w \in Seq(Element) /\ Len(w) = Len(p) + Len(q)
      /\ \A i \in 1 .. Len(p) + Len(q) :
            w[i] = IF i <= Len(p) THEN p[i] ELSE q[i - Len(p)]
  BY ConcatProperties
<1> HIDE DEF w
<1>3. DOMAIN w = 1 .. Len(p) + Len(q)
  BY <1>2, LenProperties
<1>4. ASSUME NEW i \in DOMAIN w, w[i].src # 0
      PROVE  w[i].src \in Srcs(p) \cup Srcs(q)
  <2>1. CASE i <= Len(p)
    <3>1. i \in DOMAIN p /\ w[i] = p[i]
      BY <1>1, <1>2, <1>3, <2>1
    <3> QED BY <1>4, <3>1 DEF Srcs
  <2>2. CASE ~(i <= Len(p))
    <3>1. i - Len(p) \in DOMAIN q /\ w[i] = q[i - Len(p)]
      BY <1>1, <1>2, <1>3, <2>2
    <3> QED BY <1>4, <3>1 DEF Srcs
  <2> QED BY <2>1, <2>2
<1>5. Srcs(w) \subseteq Srcs(p) \cup Srcs(q)
  BY <1>4 DEF Srcs
<1> QED BY <1>5 DEF w

\* ... which keep their order if those of the second come after the first's.
LEMMA RisingConcat ==
    ASSUME NEW p \in Seq(Element), NEW q \in Seq(Element),
           Rising(p), Rising(q), Before(p, q)
    PROVE  Rising(p \o q)
<1> DEFINE w == p \o q
<1>1. /\ Len(p) \in Nat /\ Len(q) \in Nat
      /\ DOMAIN p = 1 .. Len(p) /\ DOMAIN q = 1 .. Len(q)
  BY LenProperties
<1>2. /\ w \in Seq(Element) /\ Len(w) = Len(p) + Len(q)
      /\ \A i \in 1 .. Len(p) + Len(q) :
            w[i] = IF i <= Len(p) THEN p[i] ELSE q[i - Len(p)]
  BY ConcatProperties
<1> HIDE DEF w
<1>3. DOMAIN w = 1 .. Len(p) + Len(q)
  BY <1>2, LenProperties
<1>4. ASSUME NEW i \in DOMAIN w
      PROVE  \/ i \in DOMAIN p /\ w[i] = p[i] /\ i <= Len(p)
             \/ i - Len(p) \in DOMAIN q /\ w[i] = q[i - Len(p)] /\ i > Len(p)
  BY <1>1, <1>2, <1>3
<1>5. ASSUME NEW i \in DOMAIN w, NEW j \in DOMAIN w,
             i < j, w[i].src > 0, w[j].src > 0
      PROVE  w[i].src < w[j].src
  <2>0. i \in Nat /\ j \in Nat
    BY <1>1, <1>3
  <2>1. CASE j <= Len(p)
    <3>1. /\ i \in DOMAIN p /\ w[i] = p[i] /\ j \in DOMAIN p /\ w[j] = p[j]
      BY <1>1, <1>4, <1>5, <2>0, <2>1
    <3> QED BY <1>5, <3>1 DEF Rising
  <2>2. CASE i > Len(p)
    <3>1. /\ i - Len(p) \in DOMAIN q /\ w[i] = q[i - Len(p)]
          /\ j - Len(p) \in DOMAIN q /\ w[j] = q[j - Len(p)]
          /\ i - Len(p) < j - Len(p)
      BY <1>1, <1>4, <1>5, <2>0, <2>2
    <3> QED BY <1>5, <3>1 DEF Rising
  <2>3. CASE i <= Len(p) /\ j > Len(p)
    <3>1. i \in DOMAIN p /\ w[i] = p[i]
      BY <1>1, <1>4, <2>0, <2>3
    <3>2. j - Len(p) \in DOMAIN q /\ w[j] = q[j - Len(p)]
      BY <1>1, <1>4, <2>0, <2>3
    <3>3. w[i].src \in Srcs(p) /\ w[j].src \in Srcs(q)
      BY <1>5, <3>1, <3>2, SrcOf
    <3> QED BY <3>3 DEF Before
  <2> QED BY <1>1, <2>0, <2>1, <2>2, <2>3
<1>6. Rising(w)
  BY <1>5 DEF Rising
<1> QED BY <1>6 DEF w

\* A part of a sequence, with the places as they are
Within(p, q) ==
    \E d \in Nat : \A i \in DOMAIN p : i + d \in DOMAIN q /\ p[i].src = q[i + d].src

\* Its places are some of the whole's, in the same order.
LEMMA WithinKeeps ==
    ASSUME NEW p \in Seq(Element), NEW q \in Seq(Element), Within(p, q)
    PROVE  Srcs(p) \subseteq Srcs(q) /\ (Rising(q) => Rising(p))
<1>1. PICK d \in Nat : \A i \in DOMAIN p :
                          i + d \in DOMAIN q /\ p[i].src = q[i + d].src
  BY DEF Within
<1>2. Srcs(p) \subseteq Srcs(q)
  BY <1>1 DEF Srcs
<1>3. ASSUME Rising(q), NEW i \in DOMAIN p, NEW j \in DOMAIN p,
             i < j, p[i].src > 0, p[j].src > 0
      PROVE  p[i].src < p[j].src
  <2>1. i \in Nat /\ j \in Nat
    BY LenProperties
  <2>2. i + d < j + d
    BY <1>3, <2>1
  <2> QED BY <1>1, <1>3, <2>2 DEF Rising
<1> QED BY <1>2, <1>3 DEF Rising

\* The beginning of a sequence, and what comes after it
LEMMA Parts ==
    ASSUME NEW q \in Seq(Element), NEW m \in 0 .. Len(q), NEW k \in m .. Len(q)
    PROVE  /\ Within(SubSeq(q, 1, m), q) /\ Within(After(q, k), q)
           /\ Rising(q) => Before(SubSeq(q, 1, m), After(q, k))
<1> DEFINE u == SubSeq(q, 1, m)
           v == After(q, k)
<1>1. Len(q) \in Nat /\ DOMAIN q = 1 .. Len(q) /\ m \in Nat /\ k \in Nat
  BY LenProperties
<1>2. u \in Seq(Element) /\ Len(u) = m /\ \A i \in 1 .. m : u[i] = q[i]
  <2>1. \A i \in 1 .. m : q[i] \in Element
    BY <1>1
  <2> QED BY <1>1, <2>1, SubSeqProperties
<1>3. v \in Seq(Element) /\ Len(v) = Len(q) - k
      /\ \A i \in 1 .. Len(q) - k : v[i] = q[i + k]
  <2>1. \A i \in k + 1 .. Len(q) : q[i] \in Element
    BY <1>1
  <2>2. /\ v \in Seq(Element)
        /\ Len(v) = IF k + 1 <= Len(q) THEN Len(q) - (k + 1) + 1 ELSE 0
        /\ \A i \in 1 .. Len(q) - (k + 1) + 1 : v[i] = q[(k + 1) + i - 1]
    BY <1>1, <2>1, SubSeqProperties DEF After
  <2> HIDE DEF v
  <2>3. ASSUME NEW i \in 1 .. Len(q) - k PROVE v[i] = q[i + k]
    <3>1. i \in 1 .. Len(q) - (k + 1) + 1 /\ (k + 1) + i - 1 = i + k
      BY <1>1
    <3> QED BY <2>2, <3>1
  <2>4. Len(v) = Len(q) - k
    <3>1. Len(v) = IF k <= Len(q) THEN Len(q) - k ELSE 0
      BY <1>1, AfterType, Zenon DEF v
    <3>2. k <= Len(q)
      BY <1>1
    <3> QED BY <1>1, <3>1, <3>2
  <2> QED BY <2>2, <2>3, <2>4
<1> HIDE DEF u, v
<1>4. DOMAIN u = 1 .. m /\ DOMAIN v = 1 .. Len(q) - k
  BY <1>2, <1>3, LenProperties
<1>5. Within(u, q)
  <2>1. \A i \in DOMAIN u : i + 0 \in DOMAIN q /\ u[i].src = q[i + 0].src
    BY <1>1, <1>2, <1>4
  <2> QED BY <2>1 DEF Within
<1>6. Within(v, q)
  <2>1. \A i \in DOMAIN v : i + k \in DOMAIN q /\ v[i].src = q[i + k].src
    BY <1>1, <1>3, <1>4
  <2> QED BY <1>1, <2>1 DEF Within
<1>7. ASSUME Rising(q), NEW i \in DOMAIN u, NEW j \in DOMAIN v,
             u[i].src # 0, v[j].src # 0
      PROVE  u[i].src < v[j].src
  <2>1. /\ i \in DOMAIN q /\ j + k \in DOMAIN q /\ i < j + k
        /\ u[i] = q[i] /\ v[j] = q[j + k]
    BY <1>1, <1>2, <1>3, <1>4
  <2>2. q[i].src > 0 /\ q[j + k].src > 0
    BY <1>7, <2>1, SrcOf
  <2> QED BY <1>7, <2>1, <2>2 DEF Rising
<1>8. Rising(q) => Before(u, v)
  BY <1>7 DEF Before, Srcs
<1> QED BY <1>5, <1>6, <1>8 DEF u, v

\* What MUDitM says itself has no place.
LEMMA OwnSrcs ==
    ASSUME NEW q \in Seq(Element), NEW cells \in Seq(Cell), Srcs(q) = {}
    PROVE  Srcs(q \o Own(cells)) = {}
<1>1. Srcs(Own(cells)) = {}
  BY DEF Srcs, Own
<1>2. Own(cells) \in Seq(Element)
  BY OwnType
<1> QED BY <1>1, <1>2, SrcsConcat

\* Where nothing has a place everything is in order.
LEMMA NoSrcs == ASSUME NEW q \in Seq(Element), Srcs(q) = {} PROVE Rising(q)
BY SrcOf DEF Rising

\* A sequence whose elements keep their places
LEMMA SameSrcs ==
    ASSUME NEW p \in Seq(Element), NEW q \in Seq(Element), Len(p) = Len(q),
           \A i \in 1 .. Len(q) : p[i].src = q[i].src
    PROVE  Srcs(p) = Srcs(q) /\ (Rising(q) => Rising(p))
<1>1. DOMAIN p = DOMAIN q /\ DOMAIN q = 1 .. Len(q)
  BY LenProperties
<1> QED BY <1>1 DEF Srcs, Rising

-----------------------------------------------------------------------------
(* The way from a peer to the other.                                       *)

\* Elements are where they are in the order in which they were sent: out on
\* the wire to the other side, in the input buffer, inside zlib, or yet to
\* arrive, the last of them the n-th.
Ordered(out, in, dec, arr, n) ==
    /\ Rising(out) /\ Rising(in) /\ Rising(dec) /\ Rising(arr)
    /\ Before(out, in) /\ Before(out, dec) /\ Before(out, arr)
    /\ Before(in, dec) /\ Before(in, arr) /\ Before(dec, arr)
    /\ \A a \in Srcs(out) \cup Srcs(in) \cup Srcs(dec) \cup Srcs(arr) : a <= n

\* x is some of the first k elements of q, in their order.
Shifted(q, x, k) ==
    \E m \in 0 .. k : Srcs(x) \subseteq Srcs(SubSeq(q, 1, m)) /\ Rising(x)

\* If it moves to the end of p, and the first k elements are dropped from q, p
\* and q are still in order.
LEMMA Shift ==
    ASSUME NEW p \in Seq(Element), NEW q \in Seq(Element), NEW x \in Seq(Element),
           NEW k \in 0 .. Len(q), Shifted(q, x, k),
           Rising(p), Rising(q), Before(p, q)
    PROVE  /\ p \o x \in Seq(Element) /\ After(q, k) \in Seq(Element)
           /\ Rising(p \o x) /\ Rising(After(q, k))
           /\ Before(p \o x, After(q, k))
           /\ Srcs(p \o x) \subseteq Srcs(p) \cup Srcs(q)
           /\ Srcs(After(q, k)) \subseteq Srcs(q)
<1>1. PICK m \in 0 .. k : Srcs(x) \subseteq Srcs(SubSeq(q, 1, m)) /\ Rising(x)
  BY DEF Shifted
<1>2. m \in 0 .. Len(q) /\ k \in m .. Len(q) /\ k \in Nat
  BY LenProperties
<1> DEFINE u == SubSeq(q, 1, m)
           v == After(q, k)
           w == p \o x
<1>3. /\ Within(u, q) /\ Within(v, q) /\ Before(u, v)
  BY <1>2, Parts
<1>4. u \in Seq(Element) /\ v \in Seq(Element)
  BY <1>2, UpToType, AfterType
<1>5. Srcs(x) \subseteq Srcs(u) /\ Rising(x)
  BY <1>1
<1>6. w \in Seq(Element) /\ Srcs(w) \subseteq Srcs(p) \cup Srcs(x)
  BY ConcatProperties, SrcsConcat
<1> HIDE DEF u, v
<1>7. Srcs(u) \subseteq Srcs(q) /\ Srcs(v) \subseteq Srcs(q) /\ Rising(v)
  BY <1>3, <1>4, WithinKeeps
<1>8. Before(p, x)
  BY <1>5, <1>7 DEF Before
<1>9. Rising(w)
  BY <1>5, <1>8, RisingConcat
<1> HIDE DEF w
<1>10. Before(w, v)
  BY <1>3, <1>5, <1>6, <1>7 DEF Before
<1>11. Srcs(w) \subseteq Srcs(p) \cup Srcs(q)
  BY <1>5, <1>6, <1>7
<1> QED BY <1>4, <1>6, <1>7, <1>9, <1>10, <1>11 DEF v, w

\* So what has been read is relayed, or answered, in order,
LEMMA OrderRelay ==
    ASSUME NEW out \in Seq(Element), NEW in \in Seq(Element), NEW dec, NEW arr,
           NEW n, NEW x \in Seq(Element), NEW k \in 0 .. Len(in),
           Ordered(out, in, dec, arr, n), Shifted(in, x, k)
    PROVE  Ordered(out \o x, After(in, k), dec, arr, n)
<1> DEFINE w == out \o x
           v == After(in, k)
<1>1. /\ Rising(w) /\ Rising(v) /\ Before(w, v)
      /\ Srcs(w) \subseteq Srcs(out) \cup Srcs(in) /\ Srcs(v) \subseteq Srcs(in)
  BY Shift DEF Ordered
<1> HIDE DEF w, v
<1>2. Before(w, dec) /\ Before(w, arr) /\ Before(v, dec) /\ Before(v, arr)
  BY <1>1 DEF Ordered, Before
<1>3. Ordered(w, v, dec, arr, n)
  BY <1>1, <1>2 DEF Ordered
<1> QED BY <1>3 DEF w, v

\* what zlib has decoded follows what was decoded before,
LEMMA OrderInflate ==
    ASSUME NEW out, NEW in \in Seq(Element), NEW dec \in Seq(Element), NEW arr,
           NEW n, NEW x \in Seq(Element), NEW k \in 0 .. Len(dec),
           Ordered(out, in, dec, arr, n), Shifted(dec, x, k)
    PROVE  Ordered(out, in \o x, After(dec, k), arr, n)
<1> DEFINE w == in \o x
           v == After(dec, k)
<1>1. /\ Rising(w) /\ Rising(v) /\ Before(w, v)
      /\ Srcs(w) \subseteq Srcs(in) \cup Srcs(dec) /\ Srcs(v) \subseteq Srcs(dec)
  BY Shift DEF Ordered
<1> HIDE DEF w, v
<1>2. Before(out, w) /\ Before(out, v) /\ Before(w, arr) /\ Before(v, arr)
  BY <1>1 DEF Ordered, Before
<1>3. Ordered(out, w, v, arr, n)
  BY <1>1, <1>2 DEF Ordered
<1> QED BY <1>3 DEF w, v

\* what zlib is given follows what it still holds,
LEMMA OrderRefill ==
    ASSUME NEW out, NEW in, NEW dec \in Seq(Element), NEW arr \in Seq(Element),
           NEW n, NEW x \in Seq(Element), NEW k \in 0 .. Len(arr),
           Ordered(out, in, dec, arr, n), Shifted(arr, x, k)
    PROVE  Ordered(out, in, dec \o x, After(arr, k), n)
<1> DEFINE w == dec \o x
           v == After(arr, k)
<1>1. /\ Rising(w) /\ Rising(v) /\ Before(w, v)
      /\ Srcs(w) \subseteq Srcs(dec) \cup Srcs(arr) /\ Srcs(v) \subseteq Srcs(arr)
  BY Shift DEF Ordered
<1> HIDE DEF w, v
<1>2. Before(out, w) /\ Before(out, v) /\ Before(in, w) /\ Before(in, v)
  BY <1>1 DEF Ordered, Before
<1>3. Ordered(out, in, w, v, n)
  BY <1>1, <1>2 DEF Ordered
<1> QED BY <1>3 DEF w, v

\* what is read past zlib follows what was read before,
LEMMA OrderRead ==
    ASSUME NEW out, NEW in \in Seq(Element), NEW arr \in Seq(Element),
           NEW n, NEW x \in Seq(Element), NEW k \in 0 .. Len(arr),
           Ordered(out, in, <<>>, arr, n), Shifted(arr, x, k)
    PROVE  Ordered(out, in \o x, <<>>, After(arr, k), n)
<1> DEFINE w == in \o x
           v == After(arr, k)
<1>1. /\ Rising(w) /\ Rising(v) /\ Before(w, v)
      /\ Srcs(w) \subseteq Srcs(in) \cup Srcs(arr) /\ Srcs(v) \subseteq Srcs(arr)
  BY Shift DEF Ordered
<1> HIDE DEF w, v
<1>2. Srcs(<<>>) = {}
  BY DEF Srcs
<1>3. Before(out, w) /\ Before(out, v)
  BY <1>1 DEF Ordered, Before
<1>4. Before(w, <<>>) /\ Before(<<>>, v) /\ Rising(<<>>) /\ Before(out, <<>>)
  BY <1>2 DEF Before, Ordered
<1>5. Ordered(out, w, <<>>, v, n)
  BY <1>1, <1>2, <1>3, <1>4 DEF Ordered
<1> QED BY <1>5 DEF w, v

\* and what a peer sends next follows all of it.
LEMMA OrderSend ==
    ASSUME NEW out \in Seq(Element), NEW in \in Seq(Element), NEW dec \in Seq(Element),
           NEW arr \in Seq(Element), NEW n \in Nat, NEW l \in Nat, NEW x \in Seq(Element),
           Ordered(out, in, dec, arr, n),
           Len(x) = l, \A i \in 1 .. l : x[i].src = n + i
    PROVE  Ordered(out, in, dec, arr \o x, n + l)
<1> DEFINE w == arr \o x
<1>1. DOMAIN x = 1 .. l
  BY LenProperties
<1>2. Rising(x)
  BY <1>1 DEF Rising
<1>3. \A a \in Srcs(x) : a \in Nat /\ a > n /\ a <= n + l
  BY <1>1 DEF Srcs
<1>4. \A a \in Srcs(out) \cup Srcs(in) \cup Srcs(dec) \cup Srcs(arr) :
         a \in Nat /\ a <= n
  BY SrcsIn DEF Ordered
<1>5. Before(arr, x) /\ Before(out, x) /\ Before(in, x) /\ Before(dec, x)
  <2>1. \A a \in Srcs(out) \cup Srcs(in) \cup Srcs(dec) \cup Srcs(arr), b \in Srcs(x) :
           a < b
    BY <1>3, <1>4
  <2> QED BY <2>1 DEF Before
<1>6. Rising(w) /\ Srcs(w) \subseteq Srcs(arr) \cup Srcs(x)
  BY <1>2, <1>5, RisingConcat, SrcsConcat DEF Ordered
<1> HIDE DEF w
<1>7. Before(out, w) /\ Before(in, w) /\ Before(dec, w)
  BY <1>5, <1>6 DEF Ordered, Before
<1>8. \A a \in Srcs(out) \cup Srcs(in) \cup Srcs(dec) \cup Srcs(w) : a <= n + l
  BY <1>3, <1>4, <1>6
<1>9. Ordered(out, in, dec, w, n + l)
  BY <1>6, <1>7, <1>8 DEF Ordered
<1> QED BY <1>9 DEF w

-----------------------------------------------------------------------------
(* The steps of a session.                                                 *)

OrderedFrom(s) == Ordered(sent[Other(s)], inb[s], Decoding(s), net[s], stamp[s])

OrderInv ==
    /\ \A s \in Side : Srcs(outq[s]) = {}
    /\ ~inflate.on => inflate.held = <<>>
    /\ zfails = 0 => \A s \in Side : OrderedFrom(s)

\* The places a stream consists of
LEMMA StreamType ==
    ASSUME TypeInv, NEW s \in Side
    PROVE  /\ sent[s] \in Seq(Element) /\ sent[Other(s)] \in Seq(Element)
           /\ inb[s] \in Seq(Element) /\ Decoding(s) \in Seq(Element)
           /\ net[s] \in Seq(Element) /\ outq[s] \in Seq(Element)
           /\ stamp[s] \in Nat
           /\ Other(s) \in Side /\ Other(s) # s
<1>1. Other(s) \in Side /\ Other(s) # s
  BY DEF Side, Other
<1>2. inb[s] \in Seq(Input) /\ net[s] \in Seq(Input) /\ inflate.held \in Seq(Input)
  BY DEF TypeInv, InType, PeerType, ZlibType
<1>3. Decoding(s) \in Seq(Element)
  <2>1. <<>> \in Seq(Element)
    BY EmptySeq
  <2> QED BY <1>2, <2>1, InputType DEF Decoding
<1> QED BY <1>1, <1>2, <1>3, InputType DEF TypeInv, OutType, PeerType

\* A write puts out, in their order, elements it was given.
LEMMA PutOrder ==
    ASSUME TypeInv, NEW s \in Side, NEW data \in Seq(Element),
           NEW k \in Takes(s, data), Put(s, data, k)
    PROVE  \E x \in Seq(Element) :
              /\ sent' = [sent EXCEPT ![s] = sent[s] \o x]
              /\ Srcs(x) \subseteq Srcs(data)
              /\ Rising(data) => Rising(x)
<1> DEFINE e == Encode(s, data)
           x == SubSeq(e, 1, k)
<1>1. k \in 0 .. Len(data) /\ Len(data) \in Nat /\ DOMAIN data = 1 .. Len(data)
  BY TakesType, LenProperties
<1>2. e \in Seq(Element) /\ Len(e) = Len(data)
  BY EncodeType DEF TypeInv
<1>3. \A i \in 1 .. Len(data) : e[i].src = data[i].src
  <2>1. ASSUME NEW i \in 1 .. Len(data), Compressed(s)
        PROVE  e[i].src = data[i].src
    <3>1. e[i] = [data[i] EXCEPT !.cell = IF data[i].enc = -1 THEN RawZlib
                                            ELSE data[i].cell,
                                  !.enc = deflate.gen, !.pos = deflate.pos + i]
      BY <1>1, <2>1 DEF Encode
    <3>2. data[i] \in Element
      BY ElementOfSeq
    <3> HIDE DEF e
    <3> QED BY <3>1, <3>2 DEF Element
  <2>2. CASE ~Compressed(s)
    BY <2>2 DEF Encode
  <2> QED BY <2>1, <2>2
<1>4. sent' = [sent EXCEPT ![s] = sent[s] \o x]
  BY DEF Put
<1> HIDE DEF e
<1>5. Srcs(e) = Srcs(data) /\ (Rising(data) => Rising(e))
  BY <1>2, <1>3, SameSrcs
<1>6. x \in Seq(Element)
  BY <1>1, <1>2, UpToType
<1>7. Within(x, e)
  <2>1. k \in 0 .. Len(e) /\ k \in k .. Len(e)
    BY <1>1, <1>2
  <2> QED BY <1>2, <2>1, Parts
<1> HIDE DEF x
<1>8. Srcs(x) \subseteq Srcs(e) /\ (Rising(e) => Rising(x))
  BY <1>2, <1>6, <1>7, WithinKeeps
<1> QED BY <1>4, <1>5, <1>6, <1>8

\* Parts of what MUDitM says itself
LEMMA PartsOwn ==
    ASSUME NEW q \in Seq(Element), Srcs(q) = {}, NEW k \in 0 .. Len(q)
    PROVE  /\ SubSeq(q, 1, k) \in Seq(Element) /\ Srcs(SubSeq(q, 1, k)) = {}
           /\ After(q, k) \in Seq(Element) /\ Srcs(After(q, k)) = {}
<1>1. k \in k .. Len(q) /\ k \in Nat
  BY LenProperties
<1>2. SubSeq(q, 1, k) \in Seq(Element) /\ After(q, k) \in Seq(Element)
  BY <1>1, UpToType, AfterType
<1>3. Within(SubSeq(q, 1, k), q) /\ Within(After(q, k), q)
  BY <1>1, Parts
<1> QED BY <1>2, <1>3, WithinKeeps

\* A flush puts out nothing that has a place.
LEMMA FlushOrder ==
    ASSUME TypeInv, \A t \in Side : Srcs(outq[t]) = {},
           NEW s \in Side, NEW cells \in Seq(Cell), FlushQueue(s, cells)
    PROVE  /\ \A t \in Side : \E x \in Seq(Element) :
                  Srcs(x) = {} /\ sent'[t] = sent[t] \o x
           /\ \A t \in Side : Srcs(outq'[t]) = {}
<1> DEFINE data == outq[s] \o Own(cells)
<1>1. data \in Seq(Element) /\ Srcs(data) = {}
  BY QueueType, OwnSrcs, StreamType DEF TypeInv
<1>2. PICK k \in Takes(s, data) :
        /\ Put(s, data, k)
        /\ outq' = [outq EXCEPT ![s] = IF Compressed(s) THEN data
                                      ELSE After(data, k)]
  BY DEF FlushQueue
<1> HIDE DEF data
<1>3. PICK x \in Seq(Element) :
        /\ sent' = [sent EXCEPT ![s] = sent[s] \o x]
        /\ Srcs(x) \subseteq Srcs(data)
  BY <1>1, <1>2, PutOrder
<1>4. <<>> \in Seq(Element) /\ Srcs(<<>>) = {}
  BY EmptySeq DEF Srcs
<1>5. ASSUME NEW t \in Side
      PROVE  \E y \in Seq(Element) : Srcs(y) = {} /\ sent'[t] = sent[t] \o y
  <2>1. CASE t = s
    BY <1>1, <1>3, <2>1 DEF TypeInv, OutType
  <2>2. CASE t # s
    <3>1. sent'[t] = sent[t] \o <<>>
      BY <1>3, <2>2, StreamType, ConcatEmptySeq DEF TypeInv, OutType
    <3> QED BY <1>4, <3>1
  <2> QED BY <2>1, <2>2
<1>6. ASSUME NEW t \in Side PROVE Srcs(outq'[t]) = {}
  <2>1. k \in 0 .. Len(data)
    BY <1>1, <1>2, TakesType
  <2>2. Srcs(After(data, k)) = {}
    BY <1>1, <2>1, PartsOwn
  <2> QED BY <1>1, <1>2, <2>2 DEF TypeInv, OutType
<1> QED BY <1>5, <1>6

\* Nothing popped, and nothing said
LEMMA Untouched ==
    ASSUME NEW q \in Seq(Element)
    PROVE  /\ 0 \in 0 .. Len(q) /\ After(q, 0) = q
           /\ q \o <<>> = q /\ <<>> \in Seq(Element) /\ Srcs(<<>>) = {}
<1>1. Srcs(<<>>) = {}
  BY DEF Srcs
<1>2. After(q, 0) = q
  BY SubSeqFull DEF After
<1> QED BY <1>1, <1>2, EmptySeq, ConcatEmptySeq, LenProperties

\* What a step that relays nothing does to what has a place
Says ==
    /\ \A t \in Side : \E x \in Seq(Element) :
          Srcs(x) = {} /\ sent'[t] = sent[t] \o x
    /\ \A t \in Side : \E k \in 0 .. Len(inb[t]) : inb'[t] = After(inb[t], k)
    /\ \A t \in Side : Srcs(outq'[t]) = {}
    /\ UNCHANGED <<net, stamp, zfails>>
    /\ UNCHANGED inflate \/ (inflate'.on /\ inflate'.held = <<>>)

\* Such a step keeps the order.
LEMMA SaysKeeps == TypeInv /\ OrderInv /\ Says => OrderInv'
<1> SUFFICES ASSUME TypeInv, OrderInv, Says PROVE OrderInv'
  OBVIOUS
<1>1. ASSUME NEW s \in Side, OrderedFrom(s) PROVE OrderedFrom(s)'
  <2>1. PICK x \in Seq(Element) :
          Srcs(x) = {} /\ sent'[Other(s)] = sent[Other(s)] \o x
    BY StreamType DEF Says
  <2>2. PICK k \in 0 .. Len(inb[s]) : inb'[s] = After(inb[s], k)
    BY DEF Says
  <2>3. Shifted(inb[s], x, k)
    <3>1. 0 \in 0 .. k
      BY StreamType, LenProperties
    <3>2. Rising(x)
      BY <2>1, NoSrcs
    <3> QED BY <2>1, <3>1, <3>2 DEF Shifted
  <2>4. Ordered(sent[Other(s)] \o x, After(inb[s], k), Decoding(s), net[s], stamp[s])
    BY <1>1, <2>3, StreamType, OrderRelay DEF OrderedFrom
  <2>5. Ordered(sent'[Other(s)], inb'[s], Decoding(s), net'[s], stamp'[s])
    BY <2>1, <2>2, <2>4 DEF Says
  <2>6. Decoding(s)' = Decoding(s) \/ Decoding(s)' = <<>>
    BY DEF Decoding, Says
  <2>7. Srcs(<<>>) = {}
    BY DEF Srcs
  <2>8. CASE Decoding(s)' = <<>>
    BY <2>5, <2>7, <2>8 DEF OrderedFrom, Ordered, Before, Rising
  <2> QED BY <2>5, <2>6, <2>8 DEF OrderedFrom
<1> QED BY <1>1 DEF OrderInv, Says

\* What a step that relays does: of the first k elements of the buffer some
\* are written across, and all are popped.
Relays ==
    /\ pc # "done"
    /\ \E m \in 0 .. Len(Buffer), k \in 0 .. Len(Buffer) :
          /\ m <= k
          /\ Write(Other(Cur), SubSeq(Buffer, 1, m))
          /\ inb' = [inb EXCEPT ![Cur] = After(Buffer, k)]
    /\ UNCHANGED <<outq, net, stamp, inflate, zfails>>

\* Such a step keeps the order.
LEMMA RelaysKeeps == TypeInv /\ OrderInv /\ Relays => OrderInv'
<1> SUFFICES ASSUME TypeInv, OrderInv, Relays PROVE OrderInv'
  OBVIOUS
<1>1. PICK m \in 0 .. Len(Buffer), k \in 0 .. Len(Buffer) :
        /\ m <= k
        /\ Write(Other(Cur), SubSeq(Buffer, 1, m))
        /\ inb' = [inb EXCEPT ![Cur] = After(Buffer, k)]
  BY DEF Relays
<1>2. /\ Buffer \in Seq(Element) /\ Len(Buffer) \in Nat
      /\ SubSeq(Buffer, 1, m) \in Seq(Element) /\ Cur \in Side /\ Other(Cur) \in Side
  BY BufferType, CurType
<1> DEFINE data == SubSeq(Buffer, 1, m)
<1>3. PICK x \in Seq(Element) :
        /\ sent' = [sent EXCEPT ![Other(Cur)] = sent[Other(Cur)] \o x]
        /\ Srcs(x) \subseteq Srcs(data)
        /\ Rising(data) => Rising(x)
  <2>1. PICK j \in Takes(Other(Cur), data) : Put(Other(Cur), data, j)
    BY <1>1 DEF Write
  <2> HIDE DEF data
  <2> QED BY <1>2, <2>1, PutOrder DEF data
<1>4. ASSUME NEW s \in Side, s = Cur, OrderedFrom(s) PROVE OrderedFrom(s)'
  <2>1. Within(data, Buffer)
    <3>1. m \in m .. Len(Buffer)
      BY <1>2
    <3> QED BY <1>2, <3>1, Parts
  <2>2. Rising(Buffer)
    BY <1>4 DEF OrderedFrom, Ordered, Buffer
  <2>3. Rising(data)
    BY <1>2, <2>1, <2>2, WithinKeeps
  <2>4. Shifted(Buffer, x, k)
    <3>1. m \in 0 .. k
      BY <1>1, <1>2
    <3> QED BY <1>3, <1>4, <2>3, <3>1 DEF Shifted
  <2>5. Ordered(sent[Other(s)] \o x, After(Buffer, k), Decoding(s), net[s],
                stamp[s])
    <3>1. sent[Other(s)] \in Seq(Element)
      BY StreamType
    <3>2. Ordered(sent[Other(s)], Buffer, Decoding(s), net[s], stamp[s])
      BY <1>4 DEF OrderedFrom, Buffer
    <3> QED BY <1>2, <2>4, <3>1, <3>2, OrderRelay
  <2>6. /\ sent'[Other(s)] = sent[Other(s)] \o x
        /\ inb'[s] = After(Buffer, k)
    BY <1>1, <1>2, <1>3, <1>4 DEF TypeInv, OutType, InType
  <2> QED BY <2>5, <2>6 DEF OrderedFrom, Relays, Decoding
<1>5. ASSUME NEW s \in Side, s # Cur, OrderedFrom(s) PROVE OrderedFrom(s)'
  <2>1. sent'[Other(s)] = sent[Other(s)]
    BY <1>2, <1>3, <1>5 DEF Other, Side, TypeInv, OutType
  <2>2. inb'[s] = inb[s]
    BY <1>1, <1>2, <1>5 DEF TypeInv, InType
  <2> QED BY <1>5, <2>1, <2>2 DEF OrderedFrom, Relays, Decoding
<1>6. zfails' = 0 => \A s \in Side : OrderedFrom(s)'
  BY <1>4, <1>5 DEF OrderInv, Relays
<1> QED BY <1>6 DEF OrderInv, Relays

\* The beginning of what is in order, moved as it is
LEMMA Prefix ==
    ASSUME NEW q \in Seq(Element), NEW k \in 0 .. Len(q), Rising(q)
    PROVE  SubSeq(q, 1, k) \in Seq(Element) /\ Shifted(q, SubSeq(q, 1, k), k)
<1>1. k \in k .. Len(q) /\ k \in 0 .. k /\ k \in Nat
  BY LenProperties
<1>2. SubSeq(q, 1, k) \in Seq(Element)
  BY UpToType
<1>3. Rising(SubSeq(q, 1, k))
  BY <1>1, <1>2, Parts, WithinKeeps
<1> QED BY <1>1, <1>2, <1>3 DEF Shifted

\* Reading past zlib
LEMMA ReadOrder == TypeInv /\ OrderInv /\ Read => OrderInv'
<1> SUFFICES ASSUME TypeInv, OrderInv, Read PROVE OrderInv'
  OBVIOUS
<1>1. PICK n \in 1 .. Len(net[Cur]) :
        /\ inb' = [inb EXCEPT ![Cur] = inb[Cur] \o SubSeq(net[Cur], 1, n)]
        /\ net' = [net EXCEPT ![Cur] = After(net[Cur], n)]
  BY DEF Read
<1>2. UNCHANGED <<sent, outq, stamp, inflate, zfails>> /\ ~Inflating(Cur)
  BY DEF Read, outVars, faultVars
<1>3. ASSUME NEW s \in Side, s = Cur, OrderedFrom(s) PROVE OrderedFrom(s)'
  <2>1. n \in 0 .. Len(net[s])
    BY <1>1, <1>3, StreamType, LenProperties
  <2>2. Decoding(s) = <<>>
    BY <1>2, <1>3 DEF Inflating, Decoding, OrderInv
  <2>3. Rising(net[s])
    BY <1>3 DEF OrderedFrom, Ordered
  <2> DEFINE x == SubSeq(net[s], 1, n)
  <2>4. x \in Seq(Element) /\ Shifted(net[s], x, n)
    BY <2>1, <2>3, StreamType, Prefix
  <2> HIDE DEF x
  <2>5. Ordered(sent[Other(s)], inb[s] \o x, <<>>, After(net[s], n), stamp[s])
    <3>1. Ordered(sent[Other(s)], inb[s], <<>>, net[s], stamp[s])
      BY <1>3, <2>2 DEF OrderedFrom
    <3> QED BY <2>1, <2>4, <3>1, StreamType, OrderRead
  <2>6. inb'[s] = inb[s] \o x /\ net'[s] = After(net[s], n)
    BY <1>1, <1>3 DEF x, TypeInv, InType, PeerType
  <2> QED BY <1>2, <2>2, <2>5, <2>6 DEF OrderedFrom, Decoding
<1>4. ASSUME NEW s \in Side, s # Cur, OrderedFrom(s) PROVE OrderedFrom(s)'
  <2>1. inb'[s] = inb[s] /\ net'[s] = net[s]
    BY <1>1, <1>4, CurType DEF TypeInv, InType, PeerType
  <2> QED BY <1>2, <1>4, <2>1 DEF OrderedFrom, Decoding
<1>5. zfails' = 0 => \A s \in Side : OrderedFrom(s)'
  BY <1>2, <1>3, <1>4 DEF OrderInv
<1> QED BY <1>2, <1>5 DEF OrderInv

\* What zlib holds when it has been given more is in order as well.
LEMMA RefillOrder ==
    ASSUME TypeInv, OrderedFrom("game"), NEW n \in 0 .. Len(net["game"])
    PROVE  /\ ZlibInput(n) \in Seq(Element)
           /\ Ordered(sent["client"], inb["game"], ZlibInput(n),
                      After(net["game"], n), stamp["game"])
<1>1. /\ inb["game"] \in Seq(Element) /\ inflate.held \in Seq(Element)
      /\ net["game"] \in Seq(Element)
  BY StreamType DEF Side, Decoding
<1>2. Ordered(sent["client"], inb["game"], inflate.held, net["game"], stamp["game"])
  BY DEF OrderedFrom, Decoding, Other
<1> DEFINE x == SubSeq(net["game"], 1, n)
<1>3. x \in Seq(Element) /\ Shifted(net["game"], x, n)
  BY <1>1, <1>2, Prefix DEF Ordered
<1> HIDE DEF x
<1>4. Ordered(sent["client"], inb["game"], inflate.held \o x, After(net["game"], n),
              stamp["game"])
  BY <1>1, <1>2, <1>3, OrderRefill
<1>5. inflate.held \o x \in Seq(Element)
  BY <1>1, <1>3, ConcatProperties
<1> QED BY <1>4, <1>5 DEF ZlibInput, x

\* Only the game's side has something inside zlib.
LEMMA ClientOrder ==
    ASSUME TypeInv, OrderedFrom("client"), UNCHANGED <<sent, stamp>>,
           inb'["client"] = inb["client"], net'["client"] = net["client"]
    PROVE  OrderedFrom("client")'
BY DEF OrderedFrom, Decoding

\* Reading through zlib
LEMMA InflateOrder == TypeInv /\ OrderInv /\ ReadInflated => OrderInv'
<1> SUFFICES ASSUME TypeInv, OrderInv, ReadInflated PROVE OrderInv'
  OBVIOUS
<1> DEFINE data(n) == Next_in(n)
           plain(n) == [i \in DOMAIN data(n) |-> [data(n)[i] EXCEPT !.enc = 0, !.pos = 0]]
<1>1. PICK n \in 0 .. Len(net[Cur]) :
        /\ Refill(n)
        /\ inb' = [inb EXCEPT !["game"] = inb["game"] \o plain(n)]
        /\ inflate' = [inflate EXCEPT !.pos = inflate.pos + Len(data(n)),
                                     !.held = After(ZlibInput(n), Len(data(n)))]
        /\ UNCHANGED <<outVars, stamp, faultVars>>
  BY DEF ReadInflated
<1>2. /\ Cur = "game" /\ inflate.on /\ net' = [net EXCEPT !["game"] = After(net["game"], n)]
      /\ UNCHANGED <<sent, outq, stamp, zfails>>
  BY <1>1 DEF Refill, Inflating, outVars, faultVars
<1>3. n \in 0 .. Len(net["game"])
  BY <1>1, <1>2
<1>4. PICK k \in 0 .. Len(ZlibInput(n)) :
        data(n) = SubSeq(ZlibInput(n), 1, k) /\ Len(data(n)) = k
  BY <1>3, NextInType
<1>5. data(n) \in Seq(Input)
  BY <1>3, NextInType
<1> HIDE DEF data
<1>6. Len(data(n)) \in Nat /\ DOMAIN data(n) = 1 .. Len(data(n))
  BY <1>5, LenProperties
<1>7. /\ plain(n) \in Seq(Element) /\ Len(plain(n)) = Len(data(n))
      /\ \A i \in 1 .. Len(data(n)) : plain(n)[i].src = data(n)[i].src
  <2>1. ASSUME NEW i \in 1 .. Len(data(n))
        PROVE  plain(n)[i] \in Input /\ plain(n)[i].src = data(n)[i].src
    <3>1. data(n)[i] \in Input
      BY <1>5, ElementOfSeq
    <3>2. plain(n)[i] = [data(n)[i] EXCEPT !.enc = 0, !.pos = 0]
      BY <1>6
    <3>3. plain(n)[i] \in Input
      BY <3>1, <3>2, DecodedType, Zenon
    <3> HIDE DEF plain
    <3> QED BY <3>1, <3>2, <3>3 DEF Input, Element
  <2>2. plain(n) = [i \in 1 .. Len(data(n)) |-> plain(n)[i]]
    BY <1>6
  <2> HIDE DEF plain
  <2>3. plain(n) \in Seq(Input) /\ Len(plain(n)) = Len(data(n))
    BY <1>6, <2>1, <2>2, SequenceType
  <2> QED BY <2>1, <2>3, InputType
<1> HIDE DEF plain
<1>8. ASSUME OrderedFrom("game") PROVE OrderedFrom("game")'
  <2>1. /\ ZlibInput(n) \in Seq(Element)
        /\ Ordered(sent["client"], inb["game"], ZlibInput(n),
                   After(net["game"], n), stamp["game"])
    BY <1>3, <1>8, RefillOrder
  <2>2. Shifted(ZlibInput(n), plain(n), k)
    <3>1. Shifted(ZlibInput(n), data(n), k)
      BY <1>4, <2>1, Prefix DEF Ordered
    <3>2. Srcs(plain(n)) = Srcs(data(n)) /\ (Rising(data(n)) => Rising(plain(n)))
      BY <1>5, <1>7, InputType, SameSrcs
    <3> QED BY <3>1, <3>2 DEF Shifted
  <2>3. Ordered(sent["client"], inb["game"] \o plain(n), After(ZlibInput(n), k),
                After(net["game"], n), stamp["game"])
    <3>1. inb["game"] \in Seq(Element)
      BY StreamType DEF Side
    <3> QED BY <1>7, <2>1, <2>2, <3>1, OrderInflate
  <2>4. /\ inb'["game"] = inb["game"] \o plain(n)
        /\ net'["game"] = After(net["game"], n)
        /\ inflate'.held = After(ZlibInput(n), k)
    BY <1>1, <1>2, <1>4 DEF TypeInv, InType, PeerType, ZlibType, Side
  <2> QED BY <1>2, <2>3, <2>4 DEF OrderedFrom, Decoding, Other
<1>9. ASSUME OrderedFrom("client") PROVE OrderedFrom("client")'
  BY <1>1, <1>2, <1>9, ClientOrder DEF TypeInv, InType, PeerType, Side
<1>10. inflate'.on
  BY <1>1, <1>2 DEF TypeInv, ZlibType
<1> QED BY <1>2, <1>8, <1>9, <1>10 DEF OrderInv, Side

\* What zlib rejects stays in it.
LEMMA CorruptOrder == TypeInv /\ OrderInv /\ ReadCorrupt => OrderInv'
<1> SUFFICES ASSUME TypeInv, OrderInv, ReadCorrupt PROVE OrderInv'
  OBVIOUS
<1>1. PICK n \in 0 .. Len(net[Cur]) :
        /\ Refill(n)
        /\ \E spent \in SpentOn(Next_in(n), ZlibInput(n)) :
              inflate' = [inflate EXCEPT !.bad = ~Continues(Next_in(n)),
                             !.held = ZlibInput(n), !.spent = spent]
        /\ UNCHANGED <<outVars, stamp, inb, faultVars>>
  BY DEF ReadCorrupt
<1>2. /\ Cur = "game" /\ inflate.on /\ net' = [net EXCEPT !["game"] = After(net["game"], n)]
      /\ UNCHANGED <<sent, outq, stamp, inb, zfails>>
  BY <1>1 DEF Refill, Inflating, outVars, faultVars
<1>3. n \in 0 .. Len(net["game"])
  BY <1>1, <1>2
<1>4. ASSUME OrderedFrom("game") PROVE OrderedFrom("game")'
  <2>1. Ordered(sent["client"], inb["game"], ZlibInput(n),
                After(net["game"], n), stamp["game"])
    BY <1>3, <1>4, RefillOrder
  <2>2. net'["game"] = After(net["game"], n) /\ inflate'.held = ZlibInput(n)
    BY <1>1, <1>2 DEF TypeInv, PeerType, ZlibType, Side
  <2> QED BY <1>2, <2>1, <2>2 DEF OrderedFrom, Decoding, Other
<1>5. ASSUME OrderedFrom("client") PROVE OrderedFrom("client")'
  BY <1>2, <1>5, ClientOrder DEF TypeInv, PeerType, Side
<1>6. inflate'.on
  BY <1>1, <1>2 DEF TypeInv, ZlibType
<1> QED BY <1>2, <1>4, <1>5, <1>6 DEF OrderInv, Side

\* What a peer sends follows what it has sent.
LEMMA SendOrder ==
    ASSUME TypeInv, OrderInv, NEW s \in Side, Sends(s)
    PROVE  OrderInv'
<1>1. UNCHANGED <<sent, outq, inb, inflate, zfails>>
  BY DEF Sends, Send, GameCompresses, GameEndsZlib, outVars, faultVars
<1>2. PICK m \in Seq(Cell), zipped \in BOOLEAN :
        /\ net' = [net EXCEPT ![s] = net[s] \o Fresh(m, stamp[s], zipped, gz.pos)]
        /\ stamp' = [stamp EXCEPT ![s] = stamp[s] + Len(m)]
  BY SendsFresh
<1> DEFINE new == Fresh(m, stamp[s], zipped, gz.pos)
<1>3. /\ new \in Seq(Element) /\ Len(new) = Len(m) /\ Len(m) \in Nat
      /\ \A i \in 1 .. Len(m) : new[i].src = stamp[s] + i
  BY FreshType, InputType DEF TypeInv, PeerType
<1> HIDE DEF new
<1>4. ASSUME OrderedFrom(s) PROVE OrderedFrom(s)'
  <2>1. Ordered(sent[Other(s)], inb[s], Decoding(s), net[s] \o new, stamp[s] + Len(m))
    BY <1>3, <1>4, StreamType, OrderSend DEF OrderedFrom
  <2>2. net'[s] = net[s] \o new /\ stamp'[s] = stamp[s] + Len(m)
    BY <1>2 DEF new, TypeInv, PeerType
  <2> QED BY <1>1, <2>1, <2>2 DEF OrderedFrom, Decoding
<1>5. ASSUME NEW t \in Side, t # s, OrderedFrom(t) PROVE OrderedFrom(t)'
  <2>1. net'[t] = net[t] /\ stamp'[t] = stamp[t]
    BY <1>2, <1>5 DEF TypeInv, PeerType
  <2> QED BY <1>1, <1>5, <2>1 DEF OrderedFrom, Decoding
<1>6. zfails' = 0 => \A t \in Side : OrderedFrom(t)'
  BY <1>1, <1>4, <1>5 DEF OrderInv
<1> QED BY <1>1, <1>6 DEF OrderInv

\* A step that writes nothing says nothing,
LEMMA SilentSays ==
    ASSUME TypeInv, UNCHANGED sent
    PROVE  \A t \in Side : \E x \in Seq(Element) :
              Srcs(x) = {} /\ sent'[t] = sent[t] \o x
<1> SUFFICES ASSUME NEW t \in Side
             PROVE  \E x \in Seq(Element) : Srcs(x) = {} /\ sent'[t] = sent[t] \o x
  OBVIOUS
<1>1. sent[t] \in Seq(Element)
  BY StreamType
<1> WITNESS <<>> \in Seq(Element)
<1> QED BY <1>1, Untouched

\* and one that reads nothing pops some of the buffer, or nothing.
LEMMA Pops ==
    ASSUME TypeInv, UNCHANGED inb \/ (pc = "match" /\ Handled)
    PROVE  \A t \in Side : \E k \in 0 .. Len(inb[t]) : inb'[t] = After(inb[t], k)
<1> SUFFICES ASSUME NEW t \in Side
             PROVE  \E k \in 0 .. Len(inb[t]) : inb'[t] = After(inb[t], k)
  OBVIOUS
<1>1. inb[t] \in Seq(Element) /\ Len(inb[t]) \in Nat
  BY StreamType, LenProperties
<1>2. CASE inb'[t] = inb[t]
  BY <1>1, <1>2, Untouched
<1>3. CASE pc = "match" /\ Handled
  <2>1. inb' = [inb EXCEPT ![Cur] = After(inb[Cur], 2)]
    BY <1>3 DEF Handled, Pop
  <2>2. CASE t = Cur
    <3>1. 2 \in 0 .. Len(inb[t]) /\ inb'[t] = After(inb[t], 2)
      BY <1>1, <1>3, <2>1, <2>2 DEF TypeInv, HeadInv, InType
    <3> QED BY <3>1
  <2>3. CASE t # Cur
    BY <1>2, <2>1, <2>3, CurType DEF TypeInv, InType
  <2> QED BY <2>2, <2>3
<1> QED BY <1>2, <1>3

\* The steps that neither read nor write
LEMMA SilentOrder ==
    ASSUME TypeInv, OrderInv,
           \/ SetNonblocking \/ Poll \/ PollTimeout \/ PollInterrupted
           \/ ReadNothing \/ ReadError \/ ScanPartial
           \/ MnesDoes \/ MnesClientWill \/ MccpIgnore \/ Mccp2SbStart
           \/ Tick \/ UNCHANGED vars \/ \E s \in Side : HangUp(s)
    PROVE  OrderInv'
<1>1. UNCHANGED <<sent, outq, net, stamp, zfails>>
  BY DEF SetNonblocking, Poll, PollTimeout, PollInterrupted, ReadNothing, ReadError,
     ScanPartial, MnesDoes, MnesClientWill, MccpIgnore, Mccp2SbStart, Tick, HangUp,
     vars, outVars, peerVars, faultVars
<1>2. UNCHANGED inb \/ (pc = "match" /\ Handled)
  BY DEF SetNonblocking, Poll, PollTimeout, PollInterrupted, ReadNothing, ReadError,
     ScanPartial, MnesDoes, MnesClientWill, MccpIgnore, Mccp2SbStart, Tick, HangUp,
     vars, NotHandled, Matched
<1>3. UNCHANGED inflate \/ (inflate'.on /\ inflate'.held = <<>>)
  BY DEF SetNonblocking, Poll, PollTimeout, PollInterrupted, ReadNothing, ReadError,
     ScanPartial, MnesDoes, MnesClientWill, MccpIgnore, Mccp2SbStart, Tick, HangUp,
     vars
<1>4. Says
  BY <1>1, <1>2, <1>3, SilentSays, Pops DEF Says, OrderInv
<1> QED BY <1>4, SaysKeeps

\* The steps that relay
LEMMA RelayOrder ==
    ASSUME TypeInv, OrderInv, ScanNoMatch \/ ScanMatch \/ Forward
    PROVE  OrderInv'
<1>1. UNCHANGED <<outq, net, stamp, inflate, zfails>> /\ pc # "done"
  BY DEF ScanNoMatch, ScanMatch, Forward, Scanning, peerVars, faultVars
<1>2. \E m \in 0 .. Len(Buffer), k \in 0 .. Len(Buffer) :
        /\ m <= k
        /\ Write(Other(Cur), SubSeq(Buffer, 1, m))
        /\ inb' = [inb EXCEPT ![Cur] = After(Buffer, k)]
  <2>1. CASE ScanNoMatch
    <3> DEFINE l == Len(Buffer)
    <3>1. SubSeq(Buffer, 1, l) = Buffer /\ After(Buffer, l) = <<>>
          /\ l \in 0 .. Len(Buffer) /\ l <= l
      BY BufferType, SubSeqFull, SubSeqEmpty DEF After
    <3>2. /\ Write(Other(Cur), SubSeq(Buffer, 1, l))
          /\ inb' = [inb EXCEPT ![Cur] = After(Buffer, l)]
      BY <2>1, <3>1 DEF ScanNoMatch
    <3> HIDE DEF l
    <3> QED BY <3>1, <3>2
  <2>2. CASE ScanMatch
    <3> DEFINE at == Least(Hits(Cur, Buffer))
    <3>1. at \in 1 .. Len(Buffer) - 1
      BY <2>2, MatchIn DEF ScanMatch
    <3>2. /\ Write(Other(Cur), SubSeq(Buffer, 1, at - 1))
          /\ inb' = [inb EXCEPT ![Cur] = After(Buffer, at - 1)]
      BY <2>2 DEF ScanMatch, Pop, Buffer
    <3> HIDE DEF at
    <3>3. at - 1 \in 0 .. Len(Buffer) /\ at - 1 <= at - 1
      BY <3>1, BufferType
    <3> QED BY <3>2, <3>3
  <2>3. CASE Forward
    <3>1. 2 \in 0 .. Len(Buffer) /\ 2 <= 2
      BY <2>3, BufferType DEF Forward, TypeInv, HeadInv, Buffer
    <3>2. /\ Write(Other(Cur), SubSeq(Buffer, 1, 2))
          /\ inb' = [inb EXCEPT ![Cur] = After(Buffer, 2)]
      BY <2>3 DEF Forward, Pop, Buffer
    <3> QED BY <3>1, <3>2
  <2> QED BY <2>1, <2>2, <2>3
<1>3. Relays
  BY <1>1, <1>2 DEF Relays
<1> QED BY <1>3, RelaysKeeps

\* When zlib fails to start there is nothing more to keep.
LEMMA FailOrder ==
    ASSUME TypeInv, OrderInv, Mccp2DoFails \/ Mccp2SbStartFails
    PROVE  OrderInv'
<1>1. InitFails
  BY DEF Mccp2DoFails, Mccp2SbStartFails
<1>2. zfails' # 0
  BY <1>1 DEF InitFails, TypeInv, ZlibType
<1> QED BY <1>1, <1>2 DEF OrderInv, InitFails

\* The steps that say something of MUDitM's own
LEMMA SpeakOrder ==
    ASSUME TypeInv, OrderInv,
           \/ CheckFallback \/ MnesRequest \/ MnesClientWont
           \/ RespondDont \/ RespondDo \/ RespondWont \/ Mccp2Dont
    PROVE  OrderInv'
<1>1. UNCHANGED <<net, stamp, inflate, zfails>>
  BY DEF CheckFallback, MnesRequest, MnesClientWont, RespondDont, RespondDo,
     RespondWont, Respond, Mccp2Dont, peerVars, faultVars
<1>2. UNCHANGED inb \/ (pc = "match" /\ Handled)
  BY DEF CheckFallback, MnesRequest, MnesClientWont, RespondDont, RespondDo,
     RespondWont, Respond, Mccp2Dont, DontMatched, Matched, NotHandled
<1>3. \/ UNCHANGED outVars
      \/ \E s \in Side, cells \in Seq(Cell) : FlushQueue(s, cells)
  <2>1. Command("WILL", "NEWENV") \in Seq(Cell)
    BY CommandType DEF Verb, Option
  <2>2. CASE CheckFallback
    BY <2>1, <2>2 DEF CheckFallback, Flush, Side, outVars
  <2>3. CASE MnesRequest
    BY <2>3, RequestType DEF MnesRequest, Flush, Side
  <2>4. CASE MnesClientWont
    BY <2>1, <2>4 DEF MnesClientWont, Flush, Side
  <2>5. CASE RespondDont \/ RespondDo \/ RespondWont
    <3>1. PICK verb \in {"DO", "DONT", "WONT"} : pc = "match" /\ Respond(verb)
      BY <2>5 DEF RespondDont, RespondDo, RespondWont, Matched
    <3>2. Command(verb, Buffer[2].cell[2]) \in Seq(Cell)
      BY <3>1, AnswerType DEF Verb
    <3> QED BY <3>1, <3>2, CurType DEF Respond, Flush
  <2>6. CASE Mccp2Dont
    <3>1. <<Compression(FALSE)>> \in Seq(Cell)
      BY CompressionType, Single
    <3> QED BY <2>6, <3>1 DEF Mccp2Dont, Side
  <2> QED BY <2>2, <2>3, <2>4, <2>5, <2>6
<1>4. CASE UNCHANGED outVars
  <2>1. Says
    BY <1>1, <1>2, <1>4, SilentSays, Pops DEF Says, OrderInv, outVars
  <2> QED BY <2>1, SaysKeeps
<1>5. ASSUME NEW s \in Side, NEW cells \in Seq(Cell), FlushQueue(s, cells)
      PROVE  OrderInv'
  <2>1. Says
    BY <1>1, <1>2, <1>5, FlushOrder, Pops DEF Says, OrderInv
  <2> QED BY <2>1, SaysKeeps
<1> QED BY <1>3, <1>4, <1>5

\* The client's DO, with its two flushes
LEMMA DoOrder == TypeInv /\ OrderInv /\ Mccp2Do => OrderInv'
<1> SUFFICES ASSUME TypeInv, OrderInv, Mccp2Do PROVE OrderInv'
  OBVIOUS
<1>1. UNCHANGED <<net, stamp, inflate, zfails>> /\ pc = "match" /\ Handled
  BY DEF Mccp2Do, DoMatched, Matched, peerVars, faultVars
<1>2. CASE UNCHANGED outVars
  <2>1. Says
    BY <1>1, <1>2, SilentSays, Pops DEF Says, OrderInv, outVars
  <2> QED BY <2>1, SaysKeeps
<1>3. CASE ~UNCHANGED outVars
  <2> PICK marker \in Seq(Element), news \in Seq(Element) :
        \E k \in Takes("client", marker), m \in Takes("game", news) :
          BothFlushed(marker, k, news, m)
    BY <1>3, DoType
  <2>1. PICK k \in Takes("client", marker), m \in Takes("game", news) :
          BothFlushed(marker, k, news, m)
    OBVIOUS
  <2>2. k \in 0 .. Len(marker) /\ m \in 0 .. Len(news)
    BY TakesType
  <2>3. Srcs(marker) = {} /\ Srcs(news) = {}
    <3>1. /\ marker = outq["client"] \o Own(Command("SB", "MCCP2"))
          /\ news = outq["game"] \o Own(<<Compression(TRUE)>>)
      BY <2>1 DEF BothFlushed
    <3>2. /\ Command("SB", "MCCP2") \in Seq(Cell)
          /\ <<Compression(TRUE)>> \in Seq(Cell)
      BY CommandType, CompressionType, Single DEF Verb, Option
    <3>3. /\ outq["client"] \in Seq(Element) /\ Srcs(outq["client"]) = {}
          /\ outq["game"] \in Seq(Element) /\ Srcs(outq["game"]) = {}
      BY StreamType DEF OrderInv, Side
    <3> QED BY <3>1, <3>2, <3>3, OwnSrcs
  <2>4. /\ sent' = [client |-> sent["client"] \o SubSeq(marker, 1, k),
                    game |-> sent["game"] \o SubSeq(news, 1, m)]
        /\ outq' = [client |-> After(marker, k), game |-> After(news, m)]
    BY <2>1 DEF BothFlushed
  <2>5. /\ SubSeq(marker, 1, k) \in Seq(Element) /\ Srcs(SubSeq(marker, 1, k)) = {}
        /\ SubSeq(news, 1, m) \in Seq(Element) /\ Srcs(SubSeq(news, 1, m)) = {}
        /\ Srcs(After(marker, k)) = {} /\ Srcs(After(news, m)) = {}
    BY <2>2, <2>3, PartsOwn
  <2>6. Says
    <3>1. \A t \in Side : \E x \in Seq(Element) :
             Srcs(x) = {} /\ sent'[t] = sent[t] \o x
      <4>1. sent'["client"] = sent["client"] \o SubSeq(marker, 1, k)
        BY <2>4
      <4>2. sent'["game"] = sent["game"] \o SubSeq(news, 1, m)
        BY <2>4
      <4> QED BY <2>5, <4>1, <4>2 DEF Side
    <3>2. \A t \in Side : Srcs(outq'[t]) = {}
      BY <2>4, <2>5 DEF Side
    <3> QED BY <1>1, <3>1, <3>2, Pops DEF Says
  <2> QED BY <2>6, SaysKeeps
<1> QED BY <1>2, <1>3

\* What is said before the loop
LEMMA StartOrder == TypeInv /\ OrderInv /\ Start => OrderInv'
<1> SUFFICES ASSUME TypeInv, OrderInv, Start PROVE OrderInv'
  OBVIOUS
<1>1. UNCHANGED <<outq, inb, net, stamp, inflate, zfails>>
  BY DEF Start, peerVars, faultVars
<1>2. /\ Command("WILL", "MCCP2") \in Seq(Cell) /\ <<>> \in Seq(Cell)
      /\ <<<<"IPADDRESS", "">>>> \in Seq(Cell)
  <2>1. <<"IPADDRESS", "">> \in Cell
    BY DEF Cell, Verb, Option
  <2> QED BY <2>1, CommandType, EmptySeq, Single DEF Verb, Option
<1>3. PICK offer \in Seq(Cell), address \in Seq(Cell) :
        sent' = [client |-> Own(offer), game |-> Own(address)]
  BY <1>2 DEF Start
<1>4. ASSUME NEW s \in Side
      PROVE  Srcs(sent'[s]) = {} /\ Rising(sent'[s])
  <2>1. PICK cells \in Seq(Cell) : sent'[s] = Own(cells)
    BY <1>3 DEF Side
  <2>2. Own(cells) \in Seq(Element) /\ Srcs(Own(cells)) = {}
    BY OwnType DEF Srcs, Own
  <2> QED BY <2>1, <2>2, NoSrcs
<1>5. ASSUME NEW s \in Side, OrderedFrom(s) PROVE OrderedFrom(s)'
  <2>1. Srcs(sent'[Other(s)]) = {} /\ Rising(sent'[Other(s)])
    BY <1>4, StreamType
  <2> QED BY <1>1, <1>5, <2>1 DEF OrderedFrom, Ordered, Before, Decoding
<1> QED BY <1>1, <1>5 DEF OrderInv

\* Everything is in order at first, ...
LEMMA OrderInit == Init => OrderInv
<1> SUFFICES ASSUME Init PROVE OrderInv
  OBVIOUS
<1>1. Srcs(<<>>) = {} /\ Rising(<<>>)
  BY DEF Srcs, Rising
<1>2. \A s \in Side : /\ sent[Other(s)] = <<>> /\ inb[s] = <<>> /\ Decoding(s) = <<>>
                      /\ net[s] = <<>> /\ outq[s] = <<>>
  BY DEF Init, Decoding, Other, Side
<1> QED BY <1>1, <1>2 DEF OrderInv, OrderedFrom, Ordered, Before, Init

\* ... and remains so.
LEMMA OrderNext == TypeInv /\ OrderInv /\ [Next]_vars => OrderInv'
<1> SUFFICES ASSUME TypeInv, OrderInv, [Next]_vars PROVE OrderInv'
  OBVIOUS
<1>1. CASE Loop
  BY <1>1, StartOrder, SilentOrder, SpeakOrder, ReadOrder, InflateOrder, CorruptOrder,
     RelayOrder DEF Loop
<1>2. CASE Handler
  BY <1>2, SilentOrder, SpeakOrder, FailOrder, DoOrder DEF Handler
<1>3. CASE PollInterrupted
  BY <1>3, SilentOrder
<1>4. CASE Peer
  <2>1. (\E s \in Side : Sends(s)) \/ (\E s \in Side : HangUp(s))
    BY <1>4 DEF Peer, Sends, Side
  <2> QED BY <2>1, SilentOrder, SendOrder
<1>5. CASE Tick \/ Terminated \/ UNCHANGED vars
  BY <1>5, SilentOrder DEF Terminated
<1> QED BY <1>1, <1>2, <1>3, <1>4, <1>5 DEF Next

\* So it is always.
LEMMA OrderAlways == Spec => []OrderInv
BY OrderInit, OrderNext, TypeAlways, PTL DEF Spec

-----------------------------------------------------------------------------
(* What is held back.                                                      *)

Busy == pc \in {"scan", "match", "forward"}

\* Nothing but the beginning of a command, and what stands before it, is left in
\* a buffer by those who are done with it.
HeldInv ==
    \A s \in Side : inb[s] = <<>> \/ HeldBack(s) \/ (s = Cur /\ Busy)

\* A step that serves a side, and leaves the other alone
Serves ==
    \A s \in Side :
        IF s = Cur THEN inb'[s] = <<>> \/ HeldBack(s)' \/ (Busy' /\ UNCHANGED revents)
        ELSE inb'[s] = inb[s] /\ matching_enabled'[s] = matching_enabled[s]

\* ... and that goes on with it, or has emptied its buffer
Works ==
    /\ \A s \in Side : s # Cur => /\ inb'[s] = inb[s]
                                  /\ matching_enabled'[s] = matching_enabled[s]
    /\ inb'[Cur] = <<>> \/ (Busy' /\ UNCHANGED revents)

\* Such a step keeps the invariant, ...
LEMMA ServesKeeps == HeldInv /\ (Serves \/ Works) => HeldInv'
<1> SUFFICES ASSUME HeldInv, Serves \/ Works, NEW s \in Side
             PROVE  inb'[s] = <<>> \/ HeldBack(s)' \/ (s = Cur' /\ Busy')
  BY DEF HeldInv
<1>1. CASE s = Cur
  BY <1>1 DEF Serves, Works, Cur
<1>2. CASE s # Cur
  BY <1>2 DEF Serves, Works, HeldInv, HeldBack
<1> QED BY <1>1, <1>2

\* ... and so does one that serves none.
LEMMA NoneServed ==
    ASSUME HeldInv, ~Busy, UNCHANGED inb,
           \A s \in Side : matching_enabled[s] => matching_enabled'[s]
    PROVE  HeldInv'
BY DEF HeldInv, HeldBack

\* The steps outside the matching loop
Outside == \/ Start \/ SetNonblocking \/ CheckFallback \/ Poll \/ PollTimeout
           \/ PollInterrupted \/ ReadCorrupt \/ ReadNothing \/ ReadError
           \/ Peer

\* leave the buffers alone.
LEMMA OutsideRests == Outside => UNCHANGED inb /\ ~Busy
BY DEF Outside, Start, SetNonblocking, CheckFallback, Poll, PollTimeout,
   PollInterrupted, ReadCorrupt, Refill, ReadNothing, ReadError, Peer, GameCompresses,
   GameEndsZlib, Send, HangUp, Waiting, Busy

\* They keep the invariant.
LEMMA OutsideHeld == TypeInv /\ HeldInv /\ Outside => HeldInv'
<1> SUFFICES ASSUME TypeInv, HeldInv, Outside PROVE HeldInv'
  OBVIOUS
<1>1. UNCHANGED inb /\ ~Busy
  BY OutsideRests
<1>2. \A s \in Side : matching_enabled[s] => matching_enabled'[s]
  BY DEF Outside, Start, SetNonblocking, CheckFallback, Poll, PollTimeout,
     PollInterrupted, ReadCorrupt, ReadNothing, ReadError, Peer, GameCompresses,
     GameEndsZlib, Send, HangUp, negoVars
<1> QED BY <1>1, <1>2, NoneServed

\* The clock
LEMMA ClockHeld ==
    ASSUME HeldInv, Tick \/ UNCHANGED vars
    PROVE  HeldInv'
<1>1. UNCHANGED <<inb, matching_enabled, pc, revents>>
  BY DEF Tick, vars, ctlVars, negoVars
<1> QED BY <1>1 DEF HeldInv, HeldBack, Busy, Cur

\* Reading
LEMMA ReadWorks == ASSUME TypeInv, Read \/ ReadInflated PROVE Works
<1>1. CASE Read
  BY <1>1, CurType DEF Read, Busy, negoVars, TypeInv, InType, Works
<1>2. CASE ReadInflated
  <2>1. Cur = "game"
    BY <1>2 DEF ReadInflated, Refill, Inflating
  <2> QED BY <1>2, <2>1 DEF ReadInflated, Busy, negoVars, TypeInv, InType, Works
<1> QED BY <1>1, <1>2

\* What is popped is popped from the side that is served.
LEMMA PopHeld ==
    ASSUME TypeInv, NEW k, Pop(k)
    PROVE  \A s \in Side : s # Cur => inb'[s] = inb[s]
BY CurType DEF Pop, TypeInv, InType

\* The steps that pop something, or relay all of it
LEMMA ScanWorks ==
    ASSUME TypeInv,
           \/ ScanNoMatch \/ ScanMatch \/ Forward
           \/ Mccp2DoFails \/ Mccp2SbStartFails
    PROVE  Works
<1>1. UNCHANGED matching_enabled
  BY DEF ScanNoMatch, ScanMatch, Forward, Mccp2DoFails, Mccp2SbStartFails,
     InitFails, negoVars
<1>2. /\ \A s \in Side : s # Cur => inb'[s] = inb[s]
      /\ inb'[Cur] = <<>> \/ (Busy' /\ UNCHANGED revents)
  <2>1. CASE ScanNoMatch
    BY <2>1, CurType DEF ScanNoMatch, TypeInv, InType
  <2>2. CASE ScanMatch
    BY <2>2, PopHeld DEF ScanMatch, Busy
  <2>3. CASE Forward
    BY <2>3, PopHeld DEF Forward, Rescan, Busy
  <2>4. CASE Mccp2DoFails \/ Mccp2SbStartFails
    BY <2>4, PopHeld DEF Mccp2DoFails, Mccp2SbStartFails, InitFails, Rescan, Busy
  <2> QED BY <2>1, <2>2, <2>3, <2>4
<1> QED BY <1>1, <1>2 DEF Works

\* The handlers
LEMMA HandlerWorks ==
    ASSUME TypeInv,
           \/ MnesRequest \/ MnesDoes \/ MnesClientWill \/ MnesClientWont
           \/ RespondDont \/ RespondDo \/ RespondWont \/ MccpIgnore
           \/ Mccp2Do \/ Mccp2Dont \/ Mccp2SbStart
    PROVE  Works
<1>1. Handled \/ NotHandled
  BY DEF MnesRequest, MnesDoes, MnesClientWill, MnesClientWont, RespondDont, RespondDo,
     RespondWont, Respond, MccpIgnore, Mccp2Do, Mccp2Dont, Mccp2SbStart
<1>2. /\ \A s \in Side : s # Cur => inb'[s] = inb[s]
      /\ inb'[Cur] = <<>> \/ (Busy' /\ UNCHANGED revents)
  <2>1. CASE Handled
    BY <2>1, PopHeld DEF Handled, Rescan, Busy
  <2>2. CASE NotHandled
    BY <2>2 DEF NotHandled, Busy
  <2> QED BY <1>1, <2>1, <2>2
<1>3. \A s \in Side : s # Cur => matching_enabled'[s] = matching_enabled[s]
  <2>1. CASE MccpIgnore
    <3>1. Cur = "game" /\ matching_enabled' = [matching_enabled EXCEPT !["game"] = FALSE]
      BY <2>1 DEF MccpIgnore, Matched
    <3> QED BY <3>1 DEF TypeInv, NegoType
  <2>2. CASE ~MccpIgnore
    BY <2>2 DEF MnesRequest, MnesDoes, MnesClientWill, MnesClientWont, RespondDont,
       RespondDo, RespondWont, Respond, Mccp2Do, Mccp2Dont, Mccp2SbStart, negoVars
  <2> QED BY <2>1, <2>2
<1> QED BY <1>2, <1>3 DEF Works

\* Every step but these serves no side, or is the one that waits for more.
LEMMA NextServes ==
    TypeInv /\ [Next]_vars => Works \/ Outside \/ ScanPartial \/ Tick \/ UNCHANGED vars
<1> SUFFICES ASSUME TypeInv, [Next]_vars
             PROVE  Works \/ Outside \/ ScanPartial \/ Tick \/ UNCHANGED vars
  OBVIOUS
<1>1. CASE Loop
  BY <1>1, ReadWorks, ScanWorks DEF Loop, Outside
<1>2. CASE Handler
  BY <1>2, ScanWorks, HandlerWorks DEF Handler
<1> QED BY <1>1, <1>2 DEF Next, Terminated, Outside

\* What stops the search is the beginning of a command at the end of the buffer.
LEMMA ScanWaits ==
    ASSUME TypeInv, ScanPartial
    PROVE  /\ matching_enabled[Cur]
           /\ \E at \in 1 .. Len(Buffer) :
                 /\ PartialAt(Cur, Buffer, at)
                 /\ at = Len(Buffer) \/ (at = Len(Buffer) - 1 /\ Len(Buffer) > 1)
                 /\ \A i \in DOMAIN Buffer : MatchAt(Cur, Buffer, i) => at <= i
<1> DEFINE at == Least(Hits(Cur, Buffer))
<1>2. /\ Hits(Cur, Buffer) # {} /\ PartialAt(Cur, Buffer, at)
  BY DEF ScanPartial
<1>3. Len(Buffer) \in Nat /\ DOMAIN Buffer = 1 .. Len(Buffer)
  BY BufferType, LenProperties
<1>4. at \in 1 .. Len(Buffer) /\ \A i \in Hits(Cur, Buffer) : at <= i
  <2>1. Hits(Cur, Buffer) \in SUBSET (1 .. Len(Buffer))
    BY <1>3 DEF Hits
  <2>2. Hits(Cur, Buffer) \in SUBSET Nat
    BY <1>3, <2>1
  <2>3. at \in Hits(Cur, Buffer) /\ \A i \in Hits(Cur, Buffer) : at <= i
    BY <1>2, <2>2, LeastIn
  <2> HIDE DEF at
  <2> QED BY <2>1, <2>3
<1> HIDE DEF at
<1>5. at = Len(Buffer) \/ (at = Len(Buffer) - 1 /\ Len(Buffer) > 1)
  <2>1. at = Len(Buffer) \/ at + 1 = Len(Buffer)
    BY <1>2 DEF PartialAt
  <2> DEFINE l == Len(Buffer)
  <2>2. l \in Nat /\ at \in 1 .. l /\ (at = l \/ at + 1 = l)
    BY <1>3, <1>4, <2>1
  <2> HIDE DEF l
  <2>3. at = l \/ (at = l - 1 /\ l > 1)
    BY <2>2
  <2> QED BY <2>3 DEF l
<1>6. matching_enabled[Cur]
  BY <1>2 DEF Hits
<1>7. \A i \in DOMAIN Buffer : MatchAt(Cur, Buffer, i) => at <= i
  BY <1>4, <1>6 DEF Hits
<1> QED BY <1>2, <1>4, <1>5, <1>6, <1>7

\* What is left for more input ends in the beginning of a command.
LEMMA PartialHeld == TypeInv /\ HeldInv /\ ScanPartial => HeldInv'
<1> SUFFICES ASSUME TypeInv, HeldInv, ScanPartial PROVE HeldInv'
  OBVIOUS
<1>1. UNCHANGED <<inb, matching_enabled>>
  BY DEF ScanPartial, negoVars
<1>2. HeldBack(Cur)
  <2>1. PICK at \in 1 .. Len(inb[Cur]) :
          /\ PartialAt(Cur, inb[Cur], at)
          /\ at = Len(inb[Cur]) \/ (at = Len(inb[Cur]) - 1 /\ Len(inb[Cur]) > 1)
    BY ScanWaits DEF Buffer
  <2>2. inb[Cur] # <<>>
    BY <2>1, EmptySeq
  <2> QED BY <2>1, <2>2, ScanWaits DEF HeldBack
<1>3. Serves
  <2> SUFFICES ASSUME NEW s \in Side, s = Cur PROVE HeldBack(s)'
    BY <1>1 DEF Serves
  <2>1. HeldBack(s)
    BY <1>2
  <2> QED BY <1>1, <2>1 DEF HeldBack
<1> QED BY <1>3, ServesKeeps

\* Every step keeps the invariant.
LEMMA HeldNext == TypeInv /\ HeldInv /\ [Next]_vars => HeldInv'
<1> SUFFICES ASSUME TypeInv, HeldInv, [Next]_vars PROVE HeldInv'
  OBVIOUS
<1> QED BY NextServes, ServesKeeps, OutsideHeld, PartialHeld, ClockHeld

-----------------------------------------------------------------------------
\* What is relayed keeps its order and is relayed once: however it is cut into
\* reads, whatever is answered or said in between, whether or not it comes out
\* of a zlib stream or goes into one, and even when writes fall short.
THEOREM OrderCorrect == Spec => []OrderPreserved
<1>1. OrderInv => OrderPreserved
  <2> SUFFICES ASSUME OrderInv, zfails = 0, NEW s \in Side PROVE Rising(sent[s])
    BY DEF OrderPreserved, Rising
  <2>1. Other(s) \in Side /\ Other(Other(s)) = s
    BY DEF Side, Other
  <2> QED BY <2>1 DEF OrderInv, OrderedFrom, Ordered
<1> QED BY <1>1, OrderAlways, PTL

\* A session that waits for input has relayed or answered all it has read, but
\* for what ends in the beginning of a command.
THEOREM HeldCorrect == Spec => []HeldOnlyPartial
<1>1. Init => HeldInv
  BY DEF Init, HeldInv
<1>2. HeldInv => HeldOnlyPartial
  BY DEF HeldInv, Busy, HeldOnlyPartial
<1> QED BY <1>1, <1>2, HeldNext, TypeAlways, PTL DEF Spec

\* A read that returns 0 has found the end of the stream, or a buffer that the
\* handlers have done with and that is full all the same.
LEMMA EndNothing == TypeInv /\ HeldInv /\ ReadNothing => HungUpOrFull'
<1> SUFFICES ASSUME TypeInv, HeldInv, ReadNothing PROVE HungUpOrFull'
  OBVIOUS
<1>1. /\ pc = "serve"
      /\ Room(Cur) = 0 \/ link[Cur] # "open"
      /\ UNCHANGED <<inb, link, matching_enabled>>
  BY DEF ReadNothing, negoVars, peerVars
<1>2. Cur \in Side /\ Len(inb[Cur]) \in Nat
  BY CurType, LenProperties DEF TypeInv, InType
<1>3. CASE link[Cur] # "open"
  BY <1>1, <1>2, <1>3 DEF HungUpOrFull
<1>4. CASE Room(Cur) = 0
  <2>1. PICK s \in Side : s = Cur
    BY <1>2
  <2>2. Len(inb[s]) = BufSize /\ inb[s] # <<>>
    <3>1. Len(inb[s]) = BufSize
      BY <1>2, <1>4, <2>1, BoundAssumption DEF Room
    <3> QED BY <3>1, EmptySeq, BoundAssumption
  <2>3. HeldBack(s)
    <3>1. ~Busy
      BY <1>1 DEF Busy
    <3> QED BY <2>2, <3>1 DEF HeldInv
  <2>4. Len(inb'[s]) = BufSize /\ HeldBack(s)'
    BY <1>1, <2>2, <2>3 DEF HeldBack
  <2> QED BY <2>4 DEF HungUpOrFull
<1> QED BY <1>1, <1>3, <1>4

\* No other step says that a peer has hung up, and nothing happens afterwards.
LEMMA EndNext ==
    TypeInv /\ HeldInv /\ HungUpOrFull /\ [Next]_vars => HungUpOrFull'
<1> SUFFICES ASSUME TypeInv, HeldInv, HungUpOrFull, [Next]_vars PROVE HungUpOrFull'
  OBVIOUS
<1>1. CASE ReadNothing
  BY <1>1, EndNothing
<1>2. CASE (Loop \/ Handler \/ PollInterrupted) /\ ~ReadNothing
  BY <1>2, EndMoves DEF HungUpOrFull
<1>3. CASE Peer
  <2>1. pc # "done" /\ UNCHANGED <<pc, ret>>
    BY <1>3 DEF Peer, GameCompresses, GameEndsZlib, Send, HangUp, Waiting, ctlVars
  <2> QED BY <2>1 DEF TypeInv, ControlType, HungUpOrFull
<1>4. CASE Tick \/ Terminated \/ UNCHANGED vars
  <2>1. UNCHANGED <<ret, inb, link, matching_enabled>>
    BY <1>4 DEF Tick, Terminated, vars, ctlVars, peerVars, negoVars
  <2> QED BY <2>1 DEF HungUpOrFull, HeldBack
<1> QED BY <1>1, <1>2, <1>3, <1>4 DEF Next

\* A session that ends with 1 has a peer that has gone, or an input buffer which
\* the text before a command and the beginning of the command fill to the last
\* byte: with any size of the buffer, however much the peers send and however it
\* is cut into reads, no other text is ever in the way of a read.
THEOREM EndCorrect == Spec => []HungUpOrFull
<1>1. Init => HeldInv /\ HungUpOrFull
  BY DEF Init, HeldInv, HungUpOrFull
<1> QED BY <1>1, HeldNext, EndNext, TypeAlways, PTL DEF Spec

-----------------------------------------------------------------------------
(* Commands in a stream.                                                   *)

\* The places of two sequences, one after the other
LEMMA Joined ==
    ASSUME NEW S, NEW p \in Seq(S), NEW q \in Seq(S)
    PROVE  /\ p \o q \in Seq(S) /\ Len(p \o q) = Len(p) + Len(q)
           /\ Len(p) \in Nat /\ Len(q) \in Nat
           /\ DOMAIN p = 1 .. Len(p) /\ DOMAIN q = 1 .. Len(q)
           /\ DOMAIN (p \o q) = 1 .. Len(p) + Len(q)
           /\ \A i \in 1 .. Len(p) : i \in DOMAIN (p \o q) /\ (p \o q)[i] = p[i]
           /\ \A i \in 1 .. Len(q) : /\ i + Len(p) \in DOMAIN (p \o q)
                                     /\ (p \o q)[i + Len(p)] = q[i]
           /\ \A i \in DOMAIN (p \o q) :
                 \/ i \in 1 .. Len(p) /\ (p \o q)[i] = p[i]
                 \/ /\ i \in Nat /\ i > Len(p) /\ i - Len(p) \in 1 .. Len(q)
                    /\ (p \o q)[i] = q[i - Len(p)]
<1> DEFINE w == p \o q
           m == Len(p)
           n == Len(q)
<1>1. m \in Nat /\ n \in Nat /\ DOMAIN p = 1 .. m /\ DOMAIN q = 1 .. n
  BY LenProperties
<1>2. /\ w \in Seq(S) /\ Len(w) = m + n
      /\ \A i \in 1 .. m + n : w[i] = IF i <= m THEN p[i] ELSE q[i - m]
  BY ConcatProperties
<1> HIDE DEF w, m, n
<1>3. DOMAIN w = 1 .. m + n
  BY <1>2, LenProperties
<1>4. ASSUME NEW i \in 1 .. m PROVE i \in DOMAIN w /\ w[i] = p[i]
  <2>1. i \in 1 .. m + n /\ i <= m
    BY <1>1
  <2> QED BY <1>2, <1>3, <2>1
<1>5. ASSUME NEW i \in 1 .. n PROVE i + m \in DOMAIN w /\ w[i + m] = q[i]
  <2>1. i + m \in 1 .. m + n /\ ~(i + m <= m) /\ (i + m) - m = i
    BY <1>1
  <2> QED BY <1>2, <1>3, <2>1
<1>6. ASSUME NEW i \in DOMAIN w
      PROVE  \/ i \in 1 .. m /\ w[i] = p[i]
             \/ i \in Nat /\ i > m /\ i - m \in 1 .. n /\ w[i] = q[i - m]
  <2>1. i \in 1 .. m + n
    BY <1>3
  <2>2. w[i] = IF i <= m THEN p[i] ELSE q[i - m]
    BY <1>2, <2>1
  <2>3. \/ i \in 1 .. m /\ i <= m
        \/ i \in Nat /\ i > m /\ i - m \in 1 .. n /\ ~(i <= m)
    BY <1>1, <2>1
  <2> QED BY <2>2, <2>3
<1> QED BY <1>1, <1>2, <1>3, <1>4, <1>5, <1>6 DEF w, m, n

\* e is what follows the IAC of a command, ...
IsCommand(e) == e.cell \in CommandCell

\* ... and d is that IAC.
Leads(d, e) == d.cell = IAC /\ d.enc = e.enc /\ e.src = d.src + 1

\* In what has yet to be read every command follows its IAC, but for the first
\* element, whose IAC may have been read before.  No zlib stream starts in the
\* middle of a command.
Led(q) ==
    \A i \in DOMAIN q : IsCommand(q[i]) =>
        /\ (i > 1 => Leads(q[i - 1], q[i]))
        /\ (q[i].enc = -1 => q[i].pos > 1)

\* In what has been read every command that is not compressed does.
LedIn(q) ==
    \A i \in DOMAIN q : IsCommand(q[i]) /\ q[i].enc = 0 =>
        i > 1 /\ Leads(q[i - 1], q[i])

\* IAC is no command.
LEMMA IacNoCommand == ASSUME NEW e, e.cell = IAC PROVE ~IsCommand(e)
<1>1. IAC \notin CommandCell
  BY DEF IAC, CommandCell
<1> QED BY <1>1 DEF IsCommand

\* A part of the stream, and the seam between two parts
LEMMA LedParts ==
    ASSUME NEW p \in Seq(Element), NEW q \in Seq(Element), Led(p \o q)
    PROVE  /\ Led(p) /\ Led(q)
           /\ p # <<>> /\ q # <<>> /\ IsCommand(q[1]) => Leads(p[Len(p)], q[1])
<1> DEFINE w == p \o q
           m == Len(p)
           n == Len(q)
<1>1. /\ m \in Nat /\ n \in Nat /\ DOMAIN p = 1 .. m /\ DOMAIN q = 1 .. n
      /\ \A i \in 1 .. m : i \in DOMAIN w /\ w[i] = p[i]
      /\ \A i \in 1 .. n : i + m \in DOMAIN w /\ w[i + m] = q[i]
  BY Joined
<1>2. Led(w)
  OBVIOUS
<1> HIDE DEF w, m, n
<1>3. ASSUME NEW i \in 1 .. m, IsCommand(p[i])
      PROVE  (i > 1 => Leads(p[i - 1], p[i])) /\ (p[i].enc = -1 => p[i].pos > 1)
  <2>1. i \in DOMAIN w /\ w[i] = p[i]
    BY <1>1
  <2>2. i > 1 => i - 1 \in 1 .. m /\ w[i - 1] = p[i - 1]
    BY <1>1
  <2> QED BY <1>2, <1>3, <2>1, <2>2 DEF Led
<1>4. ASSUME NEW i \in 1 .. n, IsCommand(q[i])
      PROVE  (i > 1 => Leads(q[i - 1], q[i])) /\ (q[i].enc = -1 => q[i].pos > 1)
  <2>1. i + m \in DOMAIN w /\ w[i + m] = q[i]
    BY <1>1
  <2>2. ASSUME i > 1
        PROVE  i + m > 1 /\ w[(i + m) - 1] = q[i - 1]
    <3>1. i - 1 \in 1 .. n /\ (i - 1) + m = (i + m) - 1 /\ i + m > 1
      BY <1>1, <2>2
    <3>2. w[(i - 1) + m] = q[i - 1]
      BY <1>1, <3>1
    <3> QED BY <3>1, <3>2
  <2> QED BY <1>2, <1>4, <2>1, <2>2 DEF Led
<1>5. ASSUME p # <<>>, q # <<>>, IsCommand(q[1]) PROVE Leads(p[m], q[1])
  <2>1. m \in 1 .. m /\ 1 \in 1 .. n
    BY <1>1, <1>5, EmptySeq DEF m, n
  <2>2. w[1 + m] = q[1] /\ 1 + m \in DOMAIN w /\ w[m] = p[m]
    BY <1>1, <2>1
  <2>3. 1 + m > 1 /\ (1 + m) - 1 = m
    BY <2>1
  <2> QED BY <1>2, <1>5, <2>2, <2>3 DEF Led
<1> QED BY <1>1, <1>3, <1>4, <1>5 DEF Led, m, n

\* Two parts, with such a seam, make a stream.
LEMMA LedJoin ==
    ASSUME NEW p \in Seq(Element), NEW q \in Seq(Element), Led(p), Led(q),
           p # <<>> /\ q # <<>> /\ IsCommand(q[1]) => Leads(p[Len(p)], q[1])
    PROVE  Led(p \o q)
<1> DEFINE w == p \o q
           m == Len(p)
           n == Len(q)
<1>1. /\ m \in Nat /\ n \in Nat /\ DOMAIN p = 1 .. m /\ DOMAIN q = 1 .. n
      /\ \A i \in 1 .. m : w[i] = p[i]
      /\ \A i \in DOMAIN w : \/ i \in 1 .. m /\ w[i] = p[i]
                             \/ i \in Nat /\ i > m /\ i - m \in 1 .. n /\ w[i] = q[i - m]
      /\ \A i \in 1 .. n : w[i + m] = q[i]
  BY Joined
<1>0. p # <<>> /\ q # <<>> /\ IsCommand(q[1]) => Leads(p[m], q[1])
  OBVIOUS
<1> HIDE DEF w, m, n
<1>2. ASSUME NEW i \in DOMAIN w, IsCommand(w[i])
      PROVE  (i > 1 => Leads(w[i - 1], w[i])) /\ (w[i].enc = -1 => w[i].pos > 1)
  <2>1. CASE i \in 1 .. m /\ w[i] = p[i]
    <3>1. i > 1 => w[i - 1] = p[i - 1]
      BY <1>1, <2>1
    <3> QED BY <1>1, <1>2, <2>1, <3>1 DEF Led
  <2>2. CASE i \in Nat /\ i > m /\ i - m \in 1 .. n /\ w[i] = q[i - m]
    <3>1. CASE i - m = 1
      <4>1. i > 1 => m \in 1 .. m /\ i - 1 = m
        BY <1>1, <2>2, <3>1
      <4>2. i > 1 => p # <<>> /\ w[i - 1] = p[m]
        <5>1. p = <<>> => m = 0
          BY EmptySeq DEF m
        <5> QED BY <1>1, <4>1, <5>1
      <4>3. q # <<>>
        BY <1>1, <2>2, EmptySeq DEF n
      <4> QED BY <1>0, <1>1, <1>2, <2>2, <3>1, <4>2, <4>3 DEF Led
    <3>2. CASE i - m # 1
      <4>1. /\ i - m > 1 /\ (i - m) - 1 \in 1 .. n
            /\ ((i - m) - 1) + m = i - 1
        <5>1. m \in Nat /\ n \in Nat /\ i \in Nat /\ i - m \in 1 .. n
          BY <1>1, <2>2
        <5>2. i - m > 1 /\ (i - m) - 1 \in 1 .. n
          BY <3>2, <5>1
        <5>3. ((i - m) - 1) + m = i - 1
          BY <5>1
        <5> QED BY <5>2, <5>3
      <4>2. w[i - 1] = q[(i - m) - 1]
        BY <1>1, <4>1
      <4> QED BY <1>1, <1>2, <2>2, <4>1, <4>2 DEF Led
    <3> QED BY <3>1, <3>2
  <2> QED BY <1>1, <2>1, <2>2
<1>3. Led(w)
  BY <1>2 DEF Led
<1> QED BY <1>3 DEF w

\* The same of what has been read: what is left when k elements are popped
\* begins with a whole command if they do not end in an IAC.
LEMMA LedAfter ==
    ASSUME NEW q \in Seq(Element), NEW k \in 0 .. Len(q), LedIn(q),
           \/ k = 0 \/ ~IsIac(q, k)
           \/ k < Len(q) /\ ~IsCommand(q[k + 1])
    PROVE  LedIn(After(q, k))
<1> DEFINE p == SubSeq(q, 1, k)
           r == After(q, k)
           n == Len(r)
<1>0. k \in Nat
  BY LenProperties
<1>1. p \in Seq(Element) /\ r \in Seq(Element) /\ Len(p) = k /\ p \o r = q
  BY <1>0, UpToType, AfterType, PartsJoin
<1> HIDE DEF p, r
<1>2. /\ n \in Nat /\ DOMAIN r = 1 .. n
      /\ \A i \in 1 .. n : i + k \in DOMAIN q /\ q[i + k] = r[i]
  <2>1. /\ n \in Nat /\ DOMAIN r = 1 .. n
        /\ \A i \in 1 .. n : /\ i + Len(p) \in DOMAIN (p \o r)
                              /\ (p \o r)[i + Len(p)] = r[i]
    <3>1. p \in Seq(Element) /\ r \in Seq(Element)
      BY <1>1
    <3> QED BY <3>1, Joined
  <2> QED BY <1>1, <2>1
<1> HIDE DEF n
<1>3. ASSUME NEW i \in 1 .. n, IsCommand(r[i]), r[i].enc = 0
      PROVE  i > 1 /\ Leads(r[i - 1], r[i])
  <2>1. i + k \in DOMAIN q /\ q[i + k] = r[i]
    BY <1>2
  <2>2. i + k > 1 /\ Leads(q[(i + k) - 1], r[i])
    BY <1>3, <2>1 DEF LedIn
  <2>3. CASE i > 1
    <3>1. i - 1 \in 1 .. n /\ (i - 1) + k = (i + k) - 1
      BY <1>1, <1>2, <2>3
    <3>2. q[(i - 1) + k] = r[i - 1]
      BY <1>2, <3>1
    <3> QED BY <2>2, <2>3, <3>1, <3>2
  <2>4. CASE i = 1
    <3>1. k # 0 /\ (i + k) - 1 = k /\ i + k = k + 1
      BY <1>1, <2>2, <2>4
    <3>2. IsIac(q, k)
      BY <1>3, <2>2, <3>1 DEF Leads, IsIac
    <3> QED BY <1>3, <2>1, <3>1, <3>2
  <2> QED BY <1>2, <2>3, <2>4
<1>4. LedIn(r)
  BY <1>2, <1>3 DEF LedIn
<1> QED BY <1>4 DEF r

\* What is read is added to what has been read.
LEMMA LedAdd ==
    ASSUME NEW q \in Seq(Element), NEW x \in Seq(Element), LedIn(q),
           \A i \in DOMAIN x : IsCommand(x[i]) /\ x[i].enc = 0 =>
              IF i > 1 THEN Leads(x[i - 1], x[i])
              ELSE q # <<>> /\ Leads(q[Len(q)], x[i])
    PROVE  LedIn(q \o x)
<1> DEFINE w == q \o x
           m == Len(q)
           n == Len(x)
<1>1. /\ m \in Nat /\ n \in Nat /\ DOMAIN q = 1 .. m /\ DOMAIN x = 1 .. n
      /\ \A i \in 1 .. m : w[i] = q[i]
      /\ \A i \in DOMAIN w : \/ i \in 1 .. m /\ w[i] = q[i]
                             \/ i \in Nat /\ i > m /\ i - m \in 1 .. n /\ w[i] = x[i - m]
      /\ \A i \in 1 .. n : w[i + m] = x[i]
  BY Joined
<1>0. \A i \in DOMAIN x : IsCommand(x[i]) /\ x[i].enc = 0 =>
              IF i > 1 THEN Leads(x[i - 1], x[i])
              ELSE q # <<>> /\ Leads(q[m], x[i])
  OBVIOUS
<1>5. q # <<>> => m # 0
  BY EmptySeq
<1> HIDE DEF w, m, n
<1>2. ASSUME NEW i \in DOMAIN w, IsCommand(w[i]), w[i].enc = 0
      PROVE  i > 1 /\ Leads(w[i - 1], w[i])
  <2>1. CASE i \in 1 .. m /\ w[i] = q[i]
    <3>1. i > 1 => w[i - 1] = q[i - 1]
      BY <1>1, <2>1
    <3> QED BY <1>1, <1>2, <2>1, <3>1 DEF LedIn
  <2>2. CASE i \in Nat /\ i > m /\ i - m \in 1 .. n /\ w[i] = x[i - m]
    <3> DEFINE j == i - m
    <3>1. CASE j = 1
      <4>1. q # <<>> /\ Leads(q[m], x[j])
        BY <1>0, <1>1, <1>2, <2>2, <3>1
      <4>2. m # 0
        BY <1>5, <4>1
      <4>3. i > 1 /\ i - 1 = m /\ m \in 1 .. m
        BY <1>1, <3>1, <4>2
      <4> QED BY <1>1, <2>2, <4>1, <4>3
    <3>2. CASE j # 1
      <4>1. /\ j > 1 /\ j - 1 \in 1 .. n /\ j \in 1 .. n
            /\ (j - 1) + m = i - 1 /\ i > 1
        <5>1. m \in Nat /\ n \in Nat /\ i \in Nat /\ i - m \in 1 .. n
          BY <1>1, <2>2
        <5> QED BY <3>2, <5>1
      <4>2. w[i - 1] = x[j - 1]
        BY <1>1, <4>1
      <4> QED BY <1>0, <1>1, <1>2, <2>2, <4>1, <4>2
    <3> QED BY <3>1, <3>2
  <2> QED BY <1>1, <2>1, <2>2
<1>3. LedIn(w)
  BY <1>2 DEF LedIn
<1> QED BY <1>3 DEF w

-----------------------------------------------------------------------------
(* What has yet to be read.                                                *)

\* What side s has sent and the session has not taken up, inside zlib or not
Arriving(s) == Decoding(s) \o net[s]

\* It is a sequence of elements.
LEMMA ArrivingType ==
    ASSUME TypeInv, NEW s \in Side
    PROVE  Arriving(s) \in Seq(Input) /\ Arriving(s) \in Seq(Element)
<1>1. net[s] \in Seq(Input) /\ inflate.held \in Seq(Input)
  BY DEF TypeInv, PeerType, ZlibType
<1>2. Decoding(s) \in Seq(Input)
  <2>1. <<>> \in Seq(Input)
    BY EmptySeq
  <2> QED BY <1>1, <2>1 DEF Decoding
<1>3. Arriving(s) \in Seq(Input)
  BY <1>1, <1>2, ConcatProperties DEF Arriving
<1> QED BY <1>3, InputType

\* Past zlib the buffer takes the beginning of what arrives as it is.
LEMMA ArriveRead ==
    ASSUME TypeInv, OrderInv, Read
    PROVE  /\ Arriving(Cur)' \in Seq(Input)
           /\ \E x \in Seq(Input) :
                 /\ Arriving(Cur) = x \o Arriving(Cur)'
                 /\ inb'[Cur] = inb[Cur] \o x
           /\ ~Inflating(Cur)
           /\ \A s \in Side : s # Cur => Arriving(s)' = Arriving(s) /\ inb'[s] = inb[s]
<1>1. PICK n \in 1 .. Len(net[Cur]) :
        /\ inb' = [inb EXCEPT ![Cur] = inb[Cur] \o SubSeq(net[Cur], 1, n)]
        /\ net' = [net EXCEPT ![Cur] = After(net[Cur], n)]
  BY DEF Read
<1>2. UNCHANGED inflate /\ ~Inflating(Cur)
  BY DEF Read
<1>3. Cur \in Side /\ net[Cur] \in Seq(Input)
  BY CurType DEF TypeInv, PeerType
<1>4. n \in 0 .. Len(net[Cur]) /\ n \in Nat
  BY <1>1, <1>3, LenProperties
<1> DEFINE x == SubSeq(net[Cur], 1, n)
           r == After(net[Cur], n)
<1>5. x \in Seq(Input) /\ r \in Seq(Input) /\ x \o r = net[Cur]
  BY <1>3, <1>4, UpToType, AfterType, PartsJoin
<1>6. inb'[Cur] = inb[Cur] \o x /\ net'[Cur] = r
  BY <1>1, <1>3 DEF TypeInv, InType, PeerType
<1> HIDE DEF x, r
<1>7. Decoding(Cur) = <<>>
  BY <1>2 DEF Inflating, Decoding, OrderInv
<1>8. Arriving(Cur) = net[Cur]
  BY <1>3, <1>7, ConcatEmptySeq DEF Arriving
<1>9. Arriving(Cur)' = r
  <2>1. Cur' = Cur
    BY DEF Read, Cur
  <2>2. Decoding(Cur)' = <<>>
    BY <1>2, <1>7, <2>1 DEF Decoding
  <2>3. Arriving(Cur)' = <<>> \o r
    BY <1>6, <2>1, <2>2 DEF Arriving
  <2> QED BY <1>5, <2>3, ConcatEmptySeq
<1>10. \A s \in Side : s # Cur => Arriving(s)' = Arriving(s) /\ inb'[s] = inb[s]
  BY <1>1, <1>2, <1>3 DEF Arriving, Decoding, TypeInv, InType, PeerType
<1> QED BY <1>2, <1>5, <1>6, <1>8, <1>9, <1>10

\* What zlib holds and what arrives, when zlib has been given more
LEMMA RefillArriving ==
    ASSUME TypeInv, NEW n \in 0 .. Len(net["game"])
    PROVE  /\ ZlibInput(n) \in Seq(Input) /\ After(net["game"], n) \in Seq(Input)
           /\ ZlibInput(n) \o After(net["game"], n) = Arriving("game")
<1> DEFINE a == net["game"]
           x == SubSeq(a, 1, n)
           r == After(a, n)
<1>1. a \in Seq(Input) /\ inflate.held \in Seq(Input)
  BY DEF TypeInv, PeerType, ZlibType, Side
<1>2. n \in Nat
  BY <1>1, LenProperties
<1>3. x \in Seq(Input) /\ r \in Seq(Input) /\ x \o r = a
  BY <1>1, <1>2, UpToType, AfterType, PartsJoin
<1> HIDE DEF x, r
<1>4. (inflate.held \o x) \o r = inflate.held \o (x \o r)
  <2> DEFINE h == inflate.held
  <2>1. x \in Seq(Input) /\ r \in Seq(Input) /\ h \in Seq(Input)
    BY <1>1, <1>3
  <2> HIDE DEF h
  <2>2. (h \o x) \o r = h \o (x \o r)
    BY SMTT(30), <2>1, ConcatAssociative
  <2> QED BY <2>2 DEF h
<1>5. inflate.held \o x \in Seq(Input)
  BY <1>1, <1>3, ConcatProperties
<1>6. (inflate.held \o x) \o r = Arriving("game")
  BY <1>3, <1>4 DEF Arriving, Decoding
<1> QED BY <1>3, <1>5, <1>6 DEF ZlibInput, x, r

\* plain is what zlib makes of data, when it goes on from position p.
Inflates(data, plain, p) ==
    /\ Len(plain) = Len(data)
    /\ \A i \in 1 .. Len(data) :
          /\ data[i].enc = -1 /\ data[i].pos = p + i
          /\ plain[i] = [data[i] EXCEPT !.enc = 0, !.pos = 0]

\* Through zlib it takes the beginning of what arrives decoded.
LEMMA ArriveInflate ==
    ASSUME TypeInv, ReadInflated
    PROVE  /\ Cur = "game" /\ inflate.on /\ Arriving("game")' \in Seq(Input)
           /\ \E data \in Seq(Input), plain \in Seq(Input) :
                 /\ data # <<>>
                 /\ Arriving("game") = data \o Arriving("game")'
                 /\ inb'["game"] = inb["game"] \o plain
                 /\ Inflates(data, plain, inflate.pos)
                 /\ inflate'.on /\ inflate'.pos = inflate.pos + Len(data)
           /\ Arriving("client")' = Arriving("client") /\ inb'["client"] = inb["client"]
<1> DEFINE data(n) == Next_in(n)
           plain(n) == [i \in DOMAIN data(n) |-> [data(n)[i] EXCEPT !.enc = 0, !.pos = 0]]
<1>1. PICK n \in 0 .. Len(net[Cur]) :
        /\ Refill(n) /\ Continues(data(n)) /\ data(n) # <<>>
        /\ inb' = [inb EXCEPT !["game"] = inb["game"] \o plain(n)]
        /\ inflate' = [inflate EXCEPT !.pos = inflate.pos + Len(data(n)),
                                     !.held = After(ZlibInput(n), Len(data(n)))]
  BY DEF ReadInflated
<1>2. /\ Cur = "game" /\ inflate.on
      /\ net' = [net EXCEPT !["game"] = After(net["game"], n)]
  BY <1>1 DEF Refill, Inflating
<1>3. n \in 0 .. Len(net["game"])
  BY <1>1, <1>2
<1> DEFINE z == ZlibInput(n)
           r == After(net["game"], n)
<1>4. z \in Seq(Input) /\ r \in Seq(Input) /\ z \o r = Arriving("game")
  BY <1>3, RefillArriving
<1>5. PICK k \in 0 .. Len(z) : data(n) = SubSeq(z, 1, k) /\ Len(data(n)) = k
  BY <1>3, NextInType
<1>6. data(n) \in Seq(Input)
  BY <1>3, NextInType
<1>7. \A i \in DOMAIN data(n) : data(n)[i].enc = -1 /\ data(n)[i].pos = inflate.pos + i
  BY <1>1 DEF Continues, Follows
<1> HIDE DEF data, z, r
<1>8. Len(data(n)) \in Nat /\ DOMAIN data(n) = 1 .. Len(data(n)) /\ k \in Nat
  BY <1>4, <1>5, <1>6, LenProperties
<1>9. plain(n) \in Seq(Input) /\ Inflates(data(n), plain(n), inflate.pos)
  <2>1. ASSUME NEW i \in 1 .. Len(data(n))
        PROVE  /\ plain(n)[i] \in Input
               /\ plain(n)[i] = [data(n)[i] EXCEPT !.enc = 0, !.pos = 0]
    <3>1. data(n)[i] \in Input
      BY <1>6, ElementOfSeq
    <3>2. plain(n)[i] = [data(n)[i] EXCEPT !.enc = 0, !.pos = 0]
      BY <1>8
    <3> QED BY <3>1, <3>2, DecodedType, Zenon
  <2>2. plain(n) = [i \in 1 .. Len(data(n)) |-> plain(n)[i]]
    BY <1>8
  <2> HIDE DEF plain
  <2>3. plain(n) \in Seq(Input) /\ Len(plain(n)) = Len(data(n))
    BY <1>8, <2>1, <2>2, SequenceType
  <2> QED BY <1>7, <1>8, <2>1, <2>3 DEF Inflates
<1> HIDE DEF plain
<1> DEFINE h == After(z, k)
<1>10. h \in Seq(Input) /\ data(n) \o h = z
  BY <1>4, <1>5, <1>8, AfterType, PartsJoin
<1>11. inflate'.held = h /\ inflate'.on /\ inflate'.pos = inflate.pos + Len(data(n))
  BY <1>1, <1>2, <1>5 DEF TypeInv, ZlibType, z
<1> HIDE DEF h
<1>12. Arriving("game")' = h \o r
  <2>1. net'["game"] = r
    BY <1>2 DEF TypeInv, PeerType, Side, r
  <2> QED BY <1>11, <2>1 DEF Arriving, Decoding
<1>13. Arriving("game") = data(n) \o Arriving("game")'
  <2>1. (data(n) \o h) \o r = data(n) \o (h \o r)
    <3>1. data(n) \in Seq(Input) /\ h \in Seq(Input) /\ r \in Seq(Input)
      BY <1>4, <1>6, <1>10
    <3> QED BY SMTT(30), <3>1, ConcatAssociative
  <2> QED BY <1>4, <1>10, <1>12, <2>1
<1>16. Arriving("game")' \in Seq(Input)
  BY <1>4, <1>10, <1>12, ConcatProperties
<1>14. inb'["game"] = inb["game"] \o plain(n)
  BY <1>1 DEF TypeInv, InType, Side
<1>15. Arriving("client")' = Arriving("client") /\ inb'["client"] = inb["client"]
  BY <1>1, <1>2 DEF Arriving, Decoding, TypeInv, InType, PeerType, Side
<1> QED BY <1>1, <1>2, <1>6, <1>9, <1>11, <1>13, <1>14, <1>15, <1>16

\* What zlib rejects has still to be read.
LEMMA ArriveCorrupt ==
    ASSUME TypeInv, ReadCorrupt
    PROVE  /\ \A s \in Side : Arriving(s)' = Arriving(s)
           /\ inflate.on /\ inflate'.on /\ inflate'.pos = inflate.pos
           /\ Cur = "game" /\ UNCHANGED inb
<1>1. PICK n \in 0 .. Len(net[Cur]) :
        /\ Refill(n) /\ UNCHANGED inb
        /\ \E spent \in SpentOn(Next_in(n), ZlibInput(n)) :
              inflate' = [inflate EXCEPT !.bad = ~Continues(Next_in(n)),
                             !.held = ZlibInput(n), !.spent = spent]
  BY DEF ReadCorrupt
<1>2. /\ Cur = "game" /\ inflate.on
      /\ net' = [net EXCEPT !["game"] = After(net["game"], n)]
  BY <1>1 DEF Refill, Inflating
<1>3. inflate'.held = ZlibInput(n) /\ inflate'.on /\ inflate'.pos = inflate.pos
  BY <1>1, <1>2 DEF TypeInv, ZlibType
<1>4. net'["game"] = After(net["game"], n) /\ net'["client"] = net["client"]
  BY <1>2 DEF TypeInv, PeerType, Side
<1>5. Arriving("game")' = Arriving("game")
  <2>1. ZlibInput(n) \o After(net["game"], n) = Arriving("game")
    BY <1>1, <1>2, RefillArriving
  <2> QED BY <1>3, <1>4, <2>1 DEF Arriving, Decoding
<1>6. Arriving("client")' = Arriving("client")
  BY <1>4 DEF Arriving, Decoding
<1> QED BY <1>1, <1>2, <1>3, <1>5, <1>6 DEF Side

-----------------------------------------------------------------------------
(* Whole commands.                                                         *)

\* What the patterns look for is commands.
LEMMA WatchedCommand ==
    ASSUME TypeInv, NEW s \in Side, NEW c \in Watched(s)
    PROVE  c \in CommandCell
<1>1. mccp_mode[s] \in Mode
  BY DEF TypeInv, NegoType
<1>2. MccpWatch(s, mccp_mode[s]) \subseteq CommandCell
  BY <1>1 DEF MccpWatch, Mode, Side, CommandCell, MccpOption, Option
<1>3. /\ <<"SEND", "ALL">> \in CommandCell /\ <<"SEND", "">> \in CommandCell
      /\ <<"DO", "NEWENV">> \in CommandCell /\ <<"WILL", "NEWENV">> \in CommandCell
      /\ <<"WONT", "NEWENV">> \in CommandCell
  BY DEF CommandCell, Option
<1> QED BY <1>2, <1>3 DEF Watched

\* A handler finds at the head of the buffer a command, and its IAC.
HeadCommand ==
    pc \in {"match", "forward"} =>
        /\ IsIac(Buffer, 1)
        /\ Buffer[2].enc = 0 /\ Buffer[2].cell \in Watched(Cur)

\* What the matching loop finds
LEMMA ScanFinds ==
    ASSUME TypeInv, ScanMatch
    PROVE  \E at \in 1 .. Len(Buffer) - 1 :
              /\ MatchAt(Cur, Buffer, at)
              /\ \A i \in DOMAIN Buffer :
                    matching_enabled[Cur] /\ MatchAt(Cur, Buffer, i) => at <= i
              /\ Write(Other(Cur), SubSeq(Buffer, 1, at - 1))
              /\ inb' = [inb EXCEPT ![Cur] = After(Buffer, at - 1)]
              /\ inb'[Cur] = After(Buffer, at - 1)
              /\ inb'[Cur][1] = Buffer[at] /\ inb'[Cur][2] = Buffer[at + 1]
              /\ UNCHANGED <<revents, mccp_mode, matching_enabled>>
<1> DEFINE hits == Hits(Cur, Buffer)
           at == Least(hits)
<1>1. Buffer \in Seq(Input) /\ Len(Buffer) \in Nat /\ DOMAIN Buffer = 1 .. Len(Buffer)
  BY BufferType, LenProperties
<1>2. hits \in SUBSET (1 .. Len(Buffer)) /\ hits \in SUBSET Nat /\ hits # {}
  BY <1>1 DEF ScanMatch, Hits
<1>3. at \in hits /\ \A j \in hits : at <= j
  BY <1>2, LeastIn
<1>4. at \in 1 .. Len(Buffer) - 1
  BY MatchIn DEF ScanMatch
<1>5. MatchAt(Cur, Buffer, at)
  <2>1. ~PartialAt(Cur, Buffer, at)
    BY DEF ScanMatch
  <2>2. PartialAt(Cur, Buffer, at) \/ MatchAt(Cur, Buffer, at)
    <3> HIDE DEF at
    <3> QED BY <1>3 DEF Hits
  <2> QED BY <2>1, <2>2
<1>6. /\ Write(Other(Cur), SubSeq(Buffer, 1, at - 1))
      /\ inb' = [inb EXCEPT ![Cur] = After(Buffer, at - 1)]
  BY DEF ScanMatch, Pop, Buffer
<1>7. UNCHANGED <<revents, mccp_mode, matching_enabled>>
  BY DEF ScanMatch, negoVars
<1>8. \A i \in DOMAIN Buffer :
         matching_enabled[Cur] /\ MatchAt(Cur, Buffer, i) => at <= i
  <2> HIDE DEF at
  <2> QED BY <1>3 DEF Hits
<1>9. inb'[Cur] = After(Buffer, at - 1)
  BY <1>6, CurType DEF TypeInv, InType
<1> HIDE DEF at
<1>10. After(Buffer, at - 1)[1] = Buffer[at] /\ After(Buffer, at - 1)[2] = Buffer[at + 1]
  <2> DEFINE k == at - 1
             p == SubSeq(Buffer, 1, k)
             r == After(Buffer, k)
             l == Len(Buffer)
  <2>0. k \in 0 .. l /\ k \in Nat /\ k <= l /\ l - k >= 2 /\ 1 + k = at /\ 2 + k = at + 1
    BY <1>1, <1>4
  <2>1. p \in Seq(Input) /\ r \in Seq(Input) /\ Len(p) = k /\ p \o r = Buffer
        /\ Len(r) = l - k
    BY ZenonT(30), <1>1, <2>0, UpToType, AfterType, PartsJoin
  <2> HIDE DEF p, r, k, l
  <2>2. 1 \in 1 .. Len(r) /\ 2 \in 1 .. Len(r)
    BY <1>1, <2>0, <2>1 DEF l
  <2>3. \A i \in 1 .. Len(r) : (p \o r)[i + Len(p)] = r[i]
    <3>1. p \in Seq(Input) /\ r \in Seq(Input)
      BY <2>1
    <3> QED BY <3>1, Joined
  <2>4. Buffer[1 + k] = r[1] /\ Buffer[2 + k] = r[2]
    BY <2>1, <2>2, <2>3
  <2> QED BY <2>0, <2>4 DEF r, k
<1> QED BY <1>4, <1>5, <1>6, <1>7, <1>8, <1>9, <1>10

\* The settings of compression are the session's.
LEMMA ModeStays == [Next]_vars => UNCHANGED mccp_mode
BY DEF Next, Loop, Handler, Peer, Start, SetNonblocking, CheckFallback, Poll,
   PollTimeout, Read, ReadInflated, ReadCorrupt, ReadNothing, ReadError, ScanNoMatch,
   ScanPartial, ScanMatch, Forward, MnesRequest, MnesDoes, MnesClientWill,
   MnesClientWont, RespondDont, RespondDo, RespondWont, Respond, MccpIgnore, Mccp2Do,
   Mccp2DoFails, Mccp2Dont, Mccp2SbStart, Mccp2SbStartFails, InitFails,
   PollInterrupted, GameCompresses, GameEndsZlib, Send, HangUp, Tick, Terminated,
   vars, negoVars

\* What the patterns look for is the same throughout.
LEMMA WatchedStays == UNCHANGED mccp_mode => \A s : Watched(s)' = Watched(s)
BY DEF Watched

\* The steps after which nothing is matched
LEMMA HeadMoves ==
    ASSUME TypeInv, [Next]_vars
    PROVE  \/ pc' \notin {"match", "forward"}
           \/ ScanMatch
           \/ pc = "match" /\ NotHandled
           \/ UNCHANGED <<pc, revents, inb>>
<1>1. CASE Loop
  <2>1. CASE ScanMatch
    BY <2>1
  <2>2. CASE Start \/ SetNonblocking \/ CheckFallback \/ Poll \/ PollTimeout \/ Read
             \/ ReadInflated \/ ReadCorrupt \/ ReadNothing \/ ReadError \/ ScanNoMatch
             \/ ScanPartial \/ Forward
    BY <2>2 DEF Start, SetNonblocking, CheckFallback, Poll, PollTimeout, Read,
       ReadInflated, ReadCorrupt, ReadNothing, ReadError, ScanNoMatch, ScanPartial,
       Forward, NextSide, Rescan, Return, ReadFailed
  <2> QED BY <1>1, <2>1, <2>2 DEF Loop
<1>2. CASE Handler
  <2>1. CASE Mccp2DoFails \/ Mccp2SbStartFails
    BY <2>1 DEF Mccp2DoFails, Mccp2SbStartFails, InitFails, NextSide, Rescan
  <2>2. CASE ~(Mccp2DoFails \/ Mccp2SbStartFails)
    <3>1. pc = "match" /\ (Handled \/ NotHandled)
      BY <1>2, <2>2 DEF Handler, MnesRequest, MnesDoes, MnesClientWill, MnesClientWont,
         RespondDont, RespondDo, RespondWont, Respond, MccpIgnore, Mccp2Do, Mccp2Dont,
         Mccp2SbStart, DoMatched, DontMatched, Matched
    <3> QED BY <3>1 DEF Handled, Rescan, NextSide
  <2> QED BY <2>1, <2>2
<1>3. CASE PollInterrupted
  BY <1>3 DEF PollInterrupted, Return
<1>4. CASE Peer \/ Tick \/ Terminated \/ UNCHANGED vars
  BY <1>4 DEF Peer, GameCompresses, GameEndsZlib, Send, HangUp, Tick, Terminated, vars,
     ctlVars
<1> QED BY <1>1, <1>2, <1>3, <1>4 DEF Next

\* Every step keeps what a handler finds there.
LEMMA HeadNext == TypeInv /\ HeadCommand /\ [Next]_vars => HeadCommand'
<1> SUFFICES ASSUME TypeInv, HeadCommand, [Next]_vars PROVE HeadCommand'
  OBVIOUS
<1>1. \A s : Watched(s)' = Watched(s)
  BY ModeStays, WatchedStays
<1>2. CASE pc' \notin {"match", "forward"}
  BY <1>2 DEF HeadCommand
<1>3. CASE ScanMatch
  <2>1. PICK at \in 1 .. Len(Buffer) - 1 :
          /\ MatchAt(Cur, Buffer, at)
          /\ inb'[Cur][1] = Buffer[at] /\ inb'[Cur][2] = Buffer[at + 1]
          /\ UNCHANGED revents
    BY <1>3, ScanFinds
  <2>2. Cur' = Cur
    BY <2>1 DEF Cur
  <2>3. Buffer'[1] = Buffer[at] /\ Buffer'[2] = Buffer[at + 1]
    BY <2>1, <2>2 DEF Buffer
  <2>4. Watched(Cur)' = Watched(Cur)
    BY <2>2, ModeStays DEF Watched
  <2> QED BY <2>1, <2>3, <2>4 DEF HeadCommand, MatchAt, IsIac
<1>4. CASE \/ pc = "match" /\ NotHandled
           \/ UNCHANGED <<pc, revents, inb>>
  <2>1. UNCHANGED <<revents, inb>> /\ (pc' \in {"match", "forward"} => pc \in {"match", "forward"})
    BY <1>4 DEF NotHandled
  <2>2. Buffer' = Buffer /\ Cur' = Cur
    BY <2>1 DEF Buffer, Cur
  <2>3. Watched(Cur)' = Watched(Cur)
    BY <2>2, ModeStays DEF Watched
  <2> QED BY <2>1, <2>2, <2>3 DEF HeadCommand, IsIac
<1> QED BY <1>2, <1>3, <1>4, HeadMoves

\* e is what follows the last element of q, an IAC.
AtLastIac(q, e) == q # <<>> /\ IsIac(q, Len(q)) /\ e.src = q[Len(q)].src + 1

\* Can e be the next element read?
Legible(s, e) ==
    IF Inflating(s) THEN e.enc = -1 /\ e.pos = inflate.pos + 1 ELSE e.enc = 0

\* A command whose IAC has been read comes next.
HeadLed(s) ==
    LET d == Arriving(s)
    IN  d # <<>> /\ IsCommand(d[1]) /\ Legible(s, d[1]) => AtLastIac(inb[s], d[1])

\* Where a stream is matched what has been read consists of whole commands, and
\* of at most the beginning of the one that comes next.
WholeInv ==
    zfails = 0 =>
        \A s \in Side : matching_enabled[s] => LedIn(inb[s]) /\ HeadLed(s)

\* Nothing has been sent when muditm_proxy() begins.
QuietInv ==
    pc = "init" =>
        \A s \in Side : inb[s] = <<>> /\ Arriving(s) = <<>> /\ sent[s] = <<>>

StreamInv == /\ \A s \in Side : Led(Arriving(s))
             /\ WholeInv /\ QuietInv /\ HeadCommand

\* Cut after its first k elements q is not cut inside a command.
CleanCut(q, k) == \/ k = 0 \/ ~IsIac(q, k)
                  \/ k < Len(q) /\ ~IsCommand(q[k + 1])

\* The last element is what it was.
LEMMA LastAfter ==
    ASSUME NEW S, NEW q \in Seq(S), NEW k \in 0 .. Len(q), k < Len(q)
    PROVE  After(q, k) # <<>> /\ After(q, k)[Len(After(q, k))] = q[Len(q)]
<1> DEFINE p == SubSeq(q, 1, k)
           r == After(q, k)
           n == Len(r)
<1>0. k \in Nat /\ Len(q) \in Nat
  BY LenProperties
<1>1. p \in Seq(S) /\ r \in Seq(S) /\ Len(p) = k /\ p \o r = q
      /\ Len(r) = Len(q) - k
  <2>1. p \in Seq(S) /\ r \in Seq(S) /\ Len(p) = k /\ p \o r = q
    BY <1>0, UpToType, AfterType, PartsJoin
  <2>2. Len(r) = IF k <= Len(q) THEN Len(q) - k ELSE 0
    BY <1>0, AfterType
  <2> QED BY <1>0, <2>1, <2>2
<1> HIDE DEF p, r
<1>2. \A i \in 1 .. n : (p \o r)[i + Len(p)] = r[i]
  <2>1. p \in Seq(S) /\ r \in Seq(S)
    BY <1>1
  <2> QED BY <2>1, Joined
<1>3. n \in 1 .. n /\ n + Len(p) = Len(q) /\ n # 0
  BY <1>0, <1>1
<1>4. q[Len(q)] = r[n]
  BY <1>1, <1>2, <1>3
<1>5. r # <<>>
  BY <1>3, EmptySeq
<1> QED BY <1>4, <1>5 DEF r

\* What a clean cut leaves is whole.
LEMMA CutKeeps ==
    ASSUME NEW q \in Seq(Element), NEW k \in 0 .. Len(q), CleanCut(q, k), LedIn(q)
    PROVE  /\ LedIn(After(q, k))
           /\ \A e : AtLastIac(q, e) => AtLastIac(After(q, k), e)
<1>1. LedIn(After(q, k))
  BY LedAfter DEF CleanCut
<1>2. ASSUME NEW e, AtLastIac(q, e) PROVE AtLastIac(After(q, k), e)
  <2>1. k < Len(q)
    <3>1. Len(q) \in Nat /\ Len(q) # 0
      BY <1>2, EmptySeq, LenProperties DEF AtLastIac
    <3>2. k = Len(q) => FALSE
      BY <1>2, <3>1 DEF AtLastIac, CleanCut
    <3> QED BY <3>1, <3>2
  <2>2. After(q, k) # <<>> /\ After(q, k)[Len(After(q, k))] = q[Len(q)]
    BY <2>1, LastAfter
  <2> QED BY <1>2, <2>2 DEF AtLastIac, IsIac
<1> QED BY <1>1, <1>2

\* A step that reads nothing, and pops at most whole commands of a stream that
\* is matched
Cuts ==
    /\ UNCHANGED <<net, inflate, zfails>>
    /\ \A s \in Side : matching_enabled'[s] =>
          /\ matching_enabled[s]
          /\ \E k \in 0 .. Len(inb[s]) :
                CleanCut(inb[s], k) /\ inb'[s] = After(inb[s], k)

\* Such a step leaves the commands of the streams whole.
LEMMA CutsKeeps == TypeInv /\ WholeInv /\ Cuts => WholeInv'
<1> SUFFICES ASSUME TypeInv, WholeInv, Cuts, zfails' = 0,
                    NEW s \in Side, matching_enabled'[s]
             PROVE  LedIn(inb'[s]) /\ HeadLed(s)'
  BY DEF WholeInv
<1>1. matching_enabled[s] /\ zfails = 0
  BY DEF Cuts
<1>2. PICK k \in 0 .. Len(inb[s]) : CleanCut(inb[s], k) /\ inb'[s] = After(inb[s], k)
  BY DEF Cuts
<1>3. inb[s] \in Seq(Element) /\ LedIn(inb[s]) /\ HeadLed(s)
  BY <1>1, StreamType DEF WholeInv
<1>4. LedIn(inb'[s]) /\ \A e : AtLastIac(inb[s], e) => AtLastIac(inb'[s], e)
  BY <1>2, <1>3, CutKeeps
<1>5. Arriving(s)' = Arriving(s) /\ (\A e : Legible(s, e)' = Legible(s, e))
  BY DEF Cuts, Arriving, Decoding, Legible, Inflating
<1>6. HeadLed(s)'
  BY <1>3, <1>4, <1>5 DEF HeadLed
<1> QED BY <1>4, <1>6

\* What is handled, or passed on, is a whole command.
LEMMA HeadCut ==
    ASSUME TypeInv, HeadCommand, pc \in {"match", "forward"}
    PROVE  2 \in 0 .. Len(inb[Cur]) /\ CleanCut(inb[Cur], 2)
<1>1. 2 \in 0 .. Len(inb[Cur])
  <2>1. Len(inb[Cur]) \in Nat /\ Len(inb[Cur]) >= 2
    BY BufferType DEF Buffer, TypeInv, HeadInv
  <2> QED BY <2>1
<1>2. IsCommand(inb[Cur][2])
  BY CurType, WatchedCommand DEF HeadCommand, Buffer, IsCommand
<1>3. ~IsIac(inb[Cur], 2)
  BY <1>2, IacNoCommand DEF IsIac
<1> QED BY <1>1, <1>3 DEF CleanCut

\* Nothing popped is a clean cut, ...
LEMMA NoCut ==
    ASSUME TypeInv, NEW s \in Side
    PROVE  /\ 0 \in 0 .. Len(inb[s]) /\ CleanCut(inb[s], 0)
           /\ inb[s] = After(inb[s], 0)
BY StreamType, Untouched DEF CleanCut

\* ... and so is a command.
LEMMA PopCut ==
    ASSUME TypeInv, HeadCommand, pc \in {"match", "forward"}, Pop(2), NEW s \in Side
    PROVE  \E k \in 0 .. Len(inb[s]) : CleanCut(inb[s], k) /\ inb'[s] = After(inb[s], k)
<1>1. inb' = [inb EXCEPT ![Cur] = After(inb[Cur], 2)]
  BY DEF Pop
<1>2. CASE s = Cur
  <2>1. inb'[s] = After(inb[s], 2)
    BY <1>1, <1>2 DEF TypeInv, InType
  <2> QED BY <1>2, <2>1, HeadCut
<1>3. CASE s # Cur
  <2>1. inb'[s] = inb[s]
    BY <1>1, <1>3 DEF TypeInv, InType
  <2> QED BY <2>1, NoCut
<1> QED BY <1>2, <1>3

\* The steps that read nothing
LEMMA CutsAre ==
    ASSUME TypeInv, HeadCommand,
           \/ SetNonblocking \/ CheckFallback \/ Poll \/ PollTimeout \/ PollInterrupted
           \/ ReadNothing \/ ReadError \/ ScanPartial \/ Forward
           \/ ScanNoMatch \/ ScanMatch
           \/ MnesRequest \/ MnesDoes \/ MnesClientWill \/ MnesClientWont
           \/ RespondDont \/ RespondDo \/ RespondWont \/ MccpIgnore
           \/ Mccp2Do \/ Mccp2Dont
           \/ Tick \/ UNCHANGED vars \/ \E s \in Side : HangUp(s)
    PROVE  Cuts
<1>1. UNCHANGED <<net, inflate, zfails>>
  BY DEF SetNonblocking, CheckFallback, Poll, PollTimeout, PollInterrupted,
     ReadNothing, ReadError, ScanPartial, Forward, ScanNoMatch, ScanMatch, MnesRequest,
     MnesDoes, MnesClientWill, MnesClientWont, RespondDont, RespondDo, RespondWont,
     Respond, MccpIgnore, Mccp2Do, Mccp2Dont, Tick, HangUp, vars, peerVars, faultVars
<1>2. \A s \in Side : matching_enabled'[s] => matching_enabled[s]
  BY DEF SetNonblocking, CheckFallback, Poll, PollTimeout, PollInterrupted,
     ReadNothing, ReadError, ScanPartial, Forward, ScanNoMatch, ScanMatch, MnesRequest,
     MnesDoes, MnesClientWill, MnesClientWont, RespondDont, RespondDo, RespondWont,
     Respond, MccpIgnore, Mccp2Do, Mccp2Dont, Tick, HangUp, vars, negoVars,
     TypeInv, NegoType
<1>3. CASE ScanNoMatch
  <2> SUFFICES ASSUME NEW s \in Side, matching_enabled[s]
               PROVE  \E k \in 0 .. Len(inb[s]) :
                         CleanCut(inb[s], k) /\ inb'[s] = After(inb[s], k)
    BY <1>1, <1>2 DEF Cuts
  <2>1. inb' = [inb EXCEPT ![Cur] = <<>>] /\ Hits(Cur, Buffer) = {}
    BY <1>3 DEF ScanNoMatch
  <2>2. CASE s # Cur
    <3>1. inb'[s] = inb[s]
      BY <2>1, <2>2 DEF TypeInv, InType
    <3> QED BY <3>1, NoCut
  <2>3. CASE s = Cur
    <3> DEFINE q == inb[s]
               l == Len(q)
    <3>1. q \in Seq(Element) /\ l \in Nat /\ DOMAIN q = 1 .. l /\ q = Buffer
      BY <2>3, StreamType, LenProperties DEF Buffer
    <3>2. After(q, l) = <<>>
      BY <3>1, SubSeqEmpty DEF After
    <3>3. inb'[s] = <<>>
      BY <2>1, <2>3 DEF TypeInv, InType
    <3>4. l = 0 \/ ~IsIac(q, l)
      <4>1. ASSUME l # 0, IsIac(q, l) PROVE FALSE
        <5>1. PartialAt(Cur, q, l)
          BY <4>1 DEF PartialAt
        <5>2. l \in DOMAIN q
          BY <3>1, <4>1
        <5>3. l \in Hits(Cur, q)
          BY <2>3, <5>1, <5>2 DEF Hits
        <5> QED BY <2>1, <3>1, <5>3
      <4> QED BY <4>1
    <3> QED BY <3>1, <3>2, <3>3, <3>4 DEF CleanCut
  <2> QED BY <2>2, <2>3
<1>4. CASE ScanMatch
  <2> SUFFICES ASSUME NEW s \in Side
               PROVE  \E k \in 0 .. Len(inb[s]) :
                         CleanCut(inb[s], k) /\ inb'[s] = After(inb[s], k)
    BY <1>1, <1>2 DEF Cuts
  <2>1. PICK at \in 1 .. Len(Buffer) - 1 :
          /\ MatchAt(Cur, Buffer, at)
          /\ inb' = [inb EXCEPT ![Cur] = After(Buffer, at - 1)]
          /\ inb'[Cur] = After(Buffer, at - 1)
    BY <1>4, ScanFinds
  <2>2. CASE s # Cur
    <3>1. inb'[s] = inb[s]
      BY <2>1, <2>2 DEF TypeInv, InType
    <3> QED BY <3>1, NoCut
  <2>3. CASE s = Cur
    <3>1. Len(Buffer) \in Nat
      BY BufferType
    <3>2. at - 1 \in 0 .. Len(Buffer) /\ at - 1 < Len(Buffer) /\ (at - 1) + 1 = at
      BY <2>1, <3>1
    <3>3. ~IsCommand(Buffer[at])
      BY <2>1, IacNoCommand DEF MatchAt, IsIac
    <3> QED BY <2>1, <2>3, <3>2, <3>3 DEF CleanCut, Buffer
  <2> QED BY <2>2, <2>3
<1>5. CASE UNCHANGED inb \/ (pc \in {"match", "forward"} /\ Pop(2))
  <2>1. \A s \in Side : \E k \in 0 .. Len(inb[s]) :
           CleanCut(inb[s], k) /\ inb'[s] = After(inb[s], k)
    BY <1>5, NoCut, PopCut
  <2> QED BY <1>1, <1>2, <2>1 DEF Cuts
<1>6. CASE ~(ScanNoMatch \/ ScanMatch)
  <2>1. UNCHANGED inb \/ (pc \in {"match", "forward"} /\ Pop(2))
    BY <1>6 DEF SetNonblocking, CheckFallback, Poll, PollTimeout, PollInterrupted,
       ReadNothing, ReadError, ScanPartial, Forward, MnesRequest, MnesDoes,
       MnesClientWill, MnesClientWont, RespondDont, RespondDo, RespondWont, Respond,
       MccpIgnore, Mccp2Do, Mccp2Dont, Tick, HangUp, vars, Handled, NotHandled,
       Matched, DoMatched, DontMatched
  <2> QED BY <1>5, <2>1
<1> QED BY <1>3, <1>4, <1>6

\* The last of two sequences, one after the other
LEMMA LastJoined ==
    ASSUME NEW S, NEW q \in Seq(S), NEW x \in Seq(S), x # <<>>
    PROVE  q \o x # <<>> /\ (q \o x)[Len(q \o x)] = x[Len(x)]
<1> DEFINE w == q \o x
           m == Len(q)
           n == Len(x)
<1>1. /\ w \in Seq(S) /\ Len(w) = m + n /\ m \in Nat /\ n \in Nat
      /\ \A i \in 1 .. n : w[i + m] = x[i]
  BY Joined
<1>2. n # 0 /\ (w = <<>> => Len(w) = 0)
  BY EmptySeq
<1> HIDE DEF w, m, n
<1>3. n \in 1 .. n /\ n + m = m + n /\ m + n # 0
  BY <1>1, <1>2
<1>4. w[m + n] = x[n] /\ w # <<>>
  BY <1>1, <1>2, <1>3
<1> QED BY <1>1, <1>4 DEF w, n

\* The first of them
LEMMA FirstJoined ==
    ASSUME NEW S, NEW q \in Seq(S), NEW x \in Seq(S), q # <<>>
    PROVE  q \o x # <<>> /\ (q \o x)[1] = q[1]
<1>1. Len(q) \in Nat \ {0}
  BY EmptySeq
<1>2. 1 \in 1 .. Len(q)
  BY <1>1
<1>3. (q \o x)[1] = q[1] /\ Len(q \o x) = Len(q) + Len(x) /\ Len(x) \in Nat
  BY <1>2, Joined
<1>4. q \o x # <<>>
  BY <1>1, <1>3, EmptySeq
<1> QED BY <1>3, <1>4

\* y is what x becomes when it is read: plain, or as it is.
Becomes(x, y) ==
    /\ Len(y) = Len(x)
    /\ \A i \in 1 .. Len(x) : y[i].cell = x[i].cell /\ y[i].src = x[i].src
    /\ y = x \/ \A i \in 1 .. Len(x) : y[i].enc = 0

\* Added to whole commands it leaves them whole, ...
LEMMA ReadWhole ==
    ASSUME NEW q \in Seq(Element), NEW x \in Seq(Element), NEW y \in Seq(Element),
           LedIn(q), Led(x), Becomes(x, y), x # <<>>,
           IsCommand(x[1]) /\ y[1].enc = 0 => AtLastIac(q, x[1])
    PROVE  LedIn(q \o y)
<1>1. /\ Len(x) \in Nat /\ DOMAIN x = 1 .. Len(x) /\ DOMAIN y = 1 .. Len(x)
  BY LenProperties DEF Becomes
<1>2. ASSUME NEW i \in DOMAIN y, IsCommand(y[i]), y[i].enc = 0
      PROVE  IF i > 1 THEN Leads(y[i - 1], y[i])
             ELSE q # <<>> /\ Leads(q[Len(q)], y[i])
  <2>1. i \in DOMAIN x /\ i \in 1 .. Len(x) /\ IsCommand(x[i]) /\ y[i].src = x[i].src
    BY <1>1, <1>2 DEF Becomes, IsCommand
  <2>2. CASE i > 1
    <3>1. i - 1 \in 1 .. Len(x)
      BY <1>1, <2>1, <2>2
    <3>2. Leads(x[i - 1], x[i])
      BY <2>1, <2>2 DEF Led
    <3>3. y[i - 1].cell = x[i - 1].cell /\ y[i - 1].src = x[i - 1].src
      BY <3>1 DEF Becomes
    <3>4. y[i - 1].enc = 0
      BY <1>2, <2>1, <3>1, <3>2 DEF Becomes, Leads
    <3> QED BY <1>2, <2>1, <2>2, <3>2, <3>3, <3>4 DEF Leads
  <2>3. CASE ~(i > 1)
    <3>1. i = 1
      BY <1>1, <2>1, <2>3
    <3>2. AtLastIac(q, x[1])
      BY <1>2, <2>1, <3>1
    <3> QED BY <1>2, <2>1, <2>3, <3>1, <3>2 DEF AtLastIac, IsIac, Leads
  <2> QED BY <2>2, <2>3
<1> QED BY <1>2, LedAdd

\* ... but for the beginning of the one that comes next.
LEMMA ReadHead ==
    ASSUME NEW q \in Seq(Element), NEW x \in Seq(Element), NEW y \in Seq(Element),
           NEW d \in Seq(Element), Led(x \o d), Becomes(x, y), x # <<>>,
           d # <<>>, IsCommand(d[1]), y = x => d[1].enc = 0
    PROVE  AtLastIac(q \o y, d[1])
<1> DEFINE n == Len(x)
<1>1. Leads(x[n], d[1])
  BY LedParts
<1>2. n \in Nat /\ n # 0 /\ Len(y) = n
  BY LenProperties, EmptySeq DEF Becomes
<1>3. y # <<>>
  BY <1>2, EmptySeq
<1> HIDE DEF n
<1>4. n \in 1 .. n
  BY <1>2
<1>5. y[n].cell = x[n].cell /\ y[n].src = x[n].src
  BY <1>4 DEF Becomes, n
<1>6. y[n].enc = 0
  BY <1>1, <1>4 DEF Becomes, n, Leads
<1>7. q \o y # <<>> /\ (q \o y)[Len(q \o y)] = y[n]
  BY <1>2, <1>3, LastJoined
<1> QED BY <1>1, <1>5, <1>6, <1>7 DEF AtLastIac, IsIac, Leads

\* Reading past zlib
LEMMA ReadKeeps ==
    ASSUME TypeInv, OrderInv, WholeInv, \A s \in Side : Led(Arriving(s)), Read
    PROVE  WholeInv' /\ \A s \in Side : Led(Arriving(s))'
<1>1. PICK x \in Seq(Input) :
        Arriving(Cur) = x \o Arriving(Cur)' /\ inb'[Cur] = inb[Cur] \o x
  BY ArriveRead
<1>2. /\ ~Inflating(Cur)
      /\ \A s \in Side : s # Cur => Arriving(s)' = Arriving(s) /\ inb'[s] = inb[s]
  BY ArriveRead
<1>3. UNCHANGED <<inflate, zfails, revents, matching_enabled>> /\ Cur' = Cur
  BY DEF Read, faultVars, negoVars, Cur
<1>4. Cur \in Side /\ x \in Seq(Element) /\ inb[Cur] \in Seq(Element)
  BY CurType, StreamType, InputType
<1> DEFINE d == Arriving(Cur)'
<1>5. d \in Seq(Element)
  BY ArriveRead, InputType
<1>6. Led(x \o d) /\ Arriving(Cur) = x \o d
  BY <1>1, <1>4
<1> HIDE DEF d
<1>7. Led(x) /\ Led(d)
  BY <1>4, <1>5, <1>6, LedParts
<1>8. \A s \in Side : Led(Arriving(s))'
  BY <1>2, <1>3, <1>7 DEF d
<1>9. ASSUME zfails' = 0, NEW s \in Side, matching_enabled'[s], s = Cur
      PROVE  LedIn(inb'[s]) /\ HeadLed(s)'
  <2>1. LedIn(inb[s]) /\ HeadLed(s) /\ inb[s] \in Seq(Element)
    BY <1>3, <1>9, StreamType DEF WholeInv
  <2>2. Arriving(s)' = d /\ inb'[s] = inb[s] \o x
    BY <1>1, <1>3, <1>9 DEF d
  <2>3. Becomes(x, x)
    BY DEF Becomes
  <2>4. CASE x = <<>>
    <3>1. inb'[s] = inb[s] /\ Arriving(s)' = Arriving(s)
      BY <1>5, <1>6, <1>9, <2>1, <2>2, <2>4, ConcatEmptySeq
    <3> QED BY <1>3, <2>1, <3>1 DEF HeadLed, Legible, Inflating
  <2>5. CASE x # <<>>
    <3>1. IsCommand(x[1]) /\ x[1].enc = 0 => AtLastIac(inb[s], x[1])
      <4>1. Arriving(s) # <<>> /\ Arriving(s)[1] = x[1]
        BY <1>4, <1>5, <1>6, <1>9, <2>5, FirstJoined
      <4> QED BY <1>2, <1>9, <2>1, <4>1 DEF HeadLed, Legible
    <3>2. LedIn(inb[s] \o x)
      BY <1>4, <1>7, <2>1, <2>3, <2>5, <3>1, ReadWhole
    <3>3. ASSUME d # <<>>, IsCommand(d[1]), d[1].enc = 0
          PROVE  AtLastIac(inb[s] \o x, d[1])
      BY <1>4, <1>5, <1>6, <2>1, <2>3, <2>5, <3>3, ReadHead
    <3> QED BY <1>2, <1>3, <1>9, <2>2, <3>2, <3>3 DEF HeadLed, Legible, Inflating
  <2> QED BY <2>4, <2>5
<1>10. ASSUME zfails' = 0, NEW s \in Side, matching_enabled'[s], s # Cur
       PROVE  LedIn(inb'[s]) /\ HeadLed(s)'
  BY <1>2, <1>3, <1>10 DEF WholeInv, HeadLed, Legible, Inflating
<1> QED BY <1>8, <1>9, <1>10 DEF WholeInv

\* Reading through zlib
LEMMA InflateKeeps ==
    ASSUME TypeInv, WholeInv, \A s \in Side : Led(Arriving(s)), ReadInflated
    PROVE  WholeInv' /\ \A s \in Side : Led(Arriving(s))'
<1>1. PICK data \in Seq(Input), plain \in Seq(Input) :
        /\ data # <<>>
        /\ Arriving("game") = data \o Arriving("game")'
        /\ inb'["game"] = inb["game"] \o plain
        /\ Inflates(data, plain, inflate.pos)
        /\ inflate'.on /\ inflate'.pos = inflate.pos + Len(data)
  BY ArriveInflate
<1>2. /\ Cur = "game" /\ inflate.on
      /\ Arriving("client")' = Arriving("client") /\ inb'["client"] = inb["client"]
  BY ArriveInflate
<1>3. UNCHANGED <<zfails, matching_enabled>>
  BY DEF ReadInflated, faultVars, negoVars
<1> DEFINE d == Arriving("game")'
           q == inb["game"]
<1>4. data \in Seq(Element) /\ plain \in Seq(Element) /\ q \in Seq(Element)
  BY StreamType, InputType DEF Side
<1>5. d \in Seq(Element)
  BY ArriveInflate, InputType
<1>6. Led(data \o d) /\ Arriving("game") = data \o d /\ inb'["game"] = q \o plain
  BY <1>1 DEF Side
<1> HIDE DEF d, q
<1>7. Led(data) /\ Led(d)
  BY <1>4, <1>5, <1>6, LedParts
<1>8. Becomes(data, plain) /\ plain # data
  <2>2. ASSUME NEW i \in 1 .. Len(data)
        PROVE  /\ plain[i].cell = data[i].cell /\ plain[i].src = data[i].src
               /\ plain[i].enc = 0 /\ data[i].enc = -1
    <3>1. data[i] \in Element
      BY <1>4, ElementOfSeq
    <3>2. plain[i] = [data[i] EXCEPT !.enc = 0, !.pos = 0] /\ data[i].enc = -1
      BY <1>1 DEF Inflates
    <3> QED BY <3>1, <3>2 DEF Element
  <2>3. 1 \in 1 .. Len(data)
    <3>1. Len(data) \in Nat \ {0}
      BY <1>1, <1>4, EmptySeq
    <3> QED BY <3>1
  <2>4. plain # data
    BY <2>2, <2>3
  <2>5. Len(plain) = Len(data)
    BY <1>1 DEF Inflates
  <2> QED BY <2>2, <2>4, <2>5 DEF Becomes
<1>9. ASSUME zfails' = 0, matching_enabled'["game"]
      PROVE  LedIn(inb'["game"]) /\ HeadLed("game")'
  <2>1. LedIn(q) /\ HeadLed("game")
    BY <1>3, <1>9 DEF WholeInv, Side, q
  <2>2. IsCommand(data[1]) => AtLastIac(q, data[1])
    <3>1. Arriving("game") # <<>> /\ Arriving("game")[1] = data[1]
      BY <1>1, <1>4, <1>5, <1>6, FirstJoined
    <3>2. data[1].enc = -1 /\ data[1].pos = inflate.pos + 1
      <4>1. Len(data) \in Nat \ {0}
        BY <1>1, <1>4, EmptySeq
      <4>2. 1 \in 1 .. Len(data)
        BY <4>1
      <4> QED BY <1>1, <4>2 DEF Inflates
    <3> QED BY <1>2, <2>1, <3>1, <3>2 DEF HeadLed, Legible, Inflating, q
  <2>3. LedIn(q \o plain)
    BY <1>1, <1>4, <1>7, <1>8, <2>1, <2>2, ReadWhole
  <2>4. ASSUME d # <<>>, IsCommand(d[1]) PROVE AtLastIac(q \o plain, d[1])
    BY <1>1, <1>4, <1>5, <1>6, <1>8, <2>4, ReadHead
  <2> QED BY <1>6, <2>3, <2>4 DEF HeadLed, d
<1>10. ASSUME zfails' = 0, matching_enabled'["client"]
       PROVE  LedIn(inb'["client"]) /\ HeadLed("client")'
  BY <1>2, <1>3, <1>10 DEF WholeInv, HeadLed, Legible, Inflating, Side
<1> QED BY <1>2, <1>7, <1>9, <1>10 DEF WholeInv, Side, d

\* Being rejected
LEMMA CorruptKeeps ==
    ASSUME TypeInv, WholeInv, \A s \in Side : Led(Arriving(s)), ReadCorrupt
    PROVE  WholeInv' /\ \A s \in Side : Led(Arriving(s))'
<1>1. /\ \A s \in Side : Arriving(s)' = Arriving(s)
      /\ inflate.on /\ inflate'.on /\ inflate'.pos = inflate.pos
      /\ UNCHANGED inb
  BY ArriveCorrupt
<1>2. UNCHANGED <<zfails, matching_enabled>>
  BY DEF ReadCorrupt, faultVars, negoVars
<1> QED BY <1>1, <1>2 DEF WholeInv, HeadLed, Legible, Inflating

\* The start of the game's zlib stream: no command straddles it.
LEMMA SbStartKeeps ==
    ASSUME TypeInv, HeadCommand, WholeInv, \A s \in Side : Led(Arriving(s)), Mccp2SbStart
    PROVE  WholeInv' /\ \A s \in Side : Led(Arriving(s))'
<1>1. /\ UNCHANGED <<net, zfails, matching_enabled>>
      /\ inflate' = [on |-> TRUE, pos |-> 0, bad |-> FALSE, held |-> <<>>,
                     spent |-> FALSE]
      /\ Cur = "game" /\ Pop(2) /\ pc = "match"
  BY DEF Mccp2SbStart, Matched, Handled, peerVars, faultVars, negoVars
<1>2. net["game"] \in Seq(Element) /\ inflate.held \in Seq(Element)
  BY StreamType DEF Side, Decoding
<1>3. Arriving("game")' = net["game"] /\ Arriving("game") = inflate.held \o net["game"]
  <2>1. Arriving("game")' = <<>> \o net["game"]
    BY <1>1 DEF Arriving, Decoding
  <2> QED BY <1>2, <2>1, ConcatEmptySeq DEF Arriving, Decoding
<1>4. Arriving("client")' = Arriving("client") /\ (\A e : Legible("client", e)' = Legible("client", e))
  BY <1>1 DEF Arriving, Decoding, Legible, Inflating
<1>5. Led(net["game"])
  <2>1. Led(inflate.held \o net["game"])
    BY <1>3 DEF Side
  <2> QED BY <1>2, <2>1, LedParts
<1>6. \A s \in Side : Led(Arriving(s))'
  BY <1>3, <1>4, <1>5 DEF Side
<1>7. ASSUME zfails' = 0, NEW s \in Side, matching_enabled'[s]
      PROVE  LedIn(inb'[s]) /\ HeadLed(s)'
  <2>1. LedIn(inb[s]) /\ HeadLed(s) /\ inb[s] \in Seq(Element)
    BY <1>1, <1>7, StreamType DEF WholeInv
  <2>2. PICK k \in 0 .. Len(inb[s]) : CleanCut(inb[s], k) /\ inb'[s] = After(inb[s], k)
    BY <1>1, PopCut
  <2>3. LedIn(inb'[s]) /\ (\A e : AtLastIac(inb[s], e) => AtLastIac(inb'[s], e))
    BY <2>1, <2>2, CutKeeps
  <2>4. CASE s = "client"
    BY <1>4, <2>1, <2>3, <2>4 DEF HeadLed
  <2>5. CASE s = "game"
    <3> DEFINE d == net["game"]
    <3>1. ASSUME d # <<>>, IsCommand(d[1]), d[1].enc = -1, d[1].pos = 0 + 1 PROVE FALSE
      <4>1. 1 \in DOMAIN d
        BY <1>2, <3>1, EmptySeq, LenProperties
      <4> QED BY <1>5, <3>1, <4>1 DEF Led
    <3>2. \A e : Legible(s, e)' => e.enc = -1 /\ e.pos = 0 + 1
      BY <1>1, <2>5 DEF Legible, Inflating
    <3>3. Arriving(s)' = d
      BY <1>3, <2>5
    <3> HIDE DEF d
    <3>4. HeadLed(s)'
      BY <3>1, <3>2, <3>3 DEF HeadLed
    <3> QED BY <2>3, <3>4
  <2> QED BY <2>4, <2>5 DEF Side
<1> QED BY <1>6, <1>7 DEF WholeInv

\* What is sent consists of whole commands.
LEMMA FreshLed ==
    ASSUME NEW m \in Seq(Cell), NEW n \in Nat, NEW g \in Nat, NEW zipped \in BOOLEAN,
           Telnet(m)
    PROVE  LET new == Fresh(m, n, zipped, g)
           IN  Led(new) /\ (new # <<>> => ~IsCommand(new[1]))
<1> DEFINE new == Fresh(m, n, zipped, g)
           l == Len(m)
<1>1. l \in Nat /\ DOMAIN m = 1 .. l /\ DOMAIN new = 1 .. l
  BY LenProperties DEF Fresh
<1>2. ASSUME NEW i \in 1 .. l
      PROVE  /\ new[i].cell = m[i] /\ new[i].src = n + i
             /\ new[i].enc = (IF zipped THEN -1 ELSE 0)
             /\ new[i].pos = (IF zipped THEN g + i ELSE 0)
  BY <1>1 DEF Fresh
<1>3. new # <<>> => 1 \in 1 .. l
  <2>1. new # <<>> => l # 0
    <3>1. new \in Seq(Input) /\ Len(new) = l
      BY FreshType
    <3> QED BY <3>1, EmptySeq
  <2> QED BY <1>1, <2>1
<1> HIDE DEF new, l
<1>4. ASSUME NEW i \in 1 .. l, IsCommand(new[i])
      PROVE  /\ i > 1 /\ Leads(new[i - 1], new[i])
             /\ (new[i].enc = -1 => new[i].pos > 1)
  <2>1. i > 1 /\ m[i - 1] = IAC
    BY <1>1, <1>2, <1>4 DEF IsCommand, Telnet
  <2>2. i - 1 \in 1 .. l /\ i \in Nat
    BY <1>1, <2>1
  <2>3. new[i - 1].cell = IAC /\ new[i - 1].enc = new[i].enc
    BY <1>2, <2>1, <2>2
  <2>4. new[i - 1].src = n + (i - 1) /\ new[i].src = n + i
    BY <1>2, <2>2
  <2>5. n + i = (n + (i - 1)) + 1
    BY <2>2
  <2>6. new[i].enc = -1 => new[i].pos > 1
    <3>1. g + i > 1
      BY <2>1, <2>2
    <3>2. zipped => new[i].pos = g + i
      BY <1>2
    <3>3. ~zipped => new[i].enc = 0
      BY <1>2
    <3> QED BY <3>1, <3>2, <3>3
  <2> QED BY <2>1, <2>3, <2>4, <2>5, <2>6 DEF Leads
<1>5. Led(new)
  BY <1>1, <1>4 DEF Led
<1>6. ASSUME new # <<>> PROVE ~IsCommand(new[1])
  <2>1. 1 \in 1 .. l
    BY <1>3, <1>6
  <2>2. ~(1 > 1)
    OBVIOUS
  <2> QED BY <1>4, <2>1, <2>2
<1> QED BY <1>5, <1>6 DEF new

\* A peer sends.
LEMMA SendKeeps ==
    ASSUME TypeInv, WholeInv, \A s \in Side : Led(Arriving(s)),
           NEW t \in Side, Sends(t)
    PROVE  WholeInv' /\ \A s \in Side : Led(Arriving(s))'
<1>1. PICK m \in Seq(Cell), zipped \in BOOLEAN :
        /\ net' = [net EXCEPT ![t] = net[t] \o Fresh(m, stamp[t], zipped, gz.pos)]
        /\ Telnet(m)
  BY SendsFresh
<1> DEFINE new == Fresh(m, stamp[t], zipped, gz.pos)
<1>2. stamp[t] \in Nat /\ gz.pos \in Nat
  BY DEF TypeInv, PeerType
<1>3. Led(new) /\ (new # <<>> => ~IsCommand(new[1]))
  BY <1>1, <1>2, FreshLed
<1>4. new \in Seq(Element)
  BY <1>1, <1>2, FreshType, InputType
<1> HIDE DEF new
<1>5. UNCHANGED <<inflate, zfails, matching_enabled, inb>>
  BY DEF Sends, Send, GameCompresses, GameEndsZlib, faultVars, negoVars
<1>6. net'[t] = net[t] \o new /\ \A s \in Side : s # t => net'[s] = net[s]
  BY <1>1 DEF new, TypeInv, PeerType
<1>7. \A s \in Side : Decoding(s)' = Decoding(s)
  BY <1>5 DEF Decoding
<1> DEFINE h == Decoding(t)
           a == net[t]
<1>8. h \in Seq(Element) /\ a \in Seq(Element) /\ Arriving(t) = h \o a
  BY StreamType DEF Arriving
<1>9. Arriving(t)' = h \o (a \o new)
  BY <1>6, <1>7 DEF Arriving
<1>10. \A s \in Side : s # t => Arriving(s)' = Arriving(s)
  BY <1>6, <1>7 DEF Arriving
<1> HIDE DEF h, a
<1> DEFINE d == h \o a
<1>11. h \o (a \o new) = d \o new
  BY SMTT(30), <1>4, <1>8, ConcatAssociative
<1>12. d \in Seq(Element) /\ d = Arriving(t)
  BY <1>8, ConcatProperties
<1> HIDE DEF d
<1>13. Led(d \o new)
  BY <1>3, <1>4, <1>12, LedJoin
<1>14. Arriving(t)' = d \o new
  BY <1>9, <1>11
<1>15. \A s \in Side : Led(Arriving(s))'
  BY <1>10, <1>13, <1>14
<1>16. ASSUME NEW s \in Side, HeadLed(s) PROVE HeadLed(s)'
  <2>1. CASE s # t
    BY <1>5, <1>10, <1>16, <2>1 DEF HeadLed, Legible, Inflating
  <2>2. CASE s = t /\ d # <<>>
    <3>1. (d \o new)[1] = d[1]
      BY <1>4, <1>12, <2>2, FirstJoined
    <3> QED BY <1>5, <1>12, <1>14, <1>16, <2>2, <3>1 DEF HeadLed, Legible, Inflating
  <2>3. CASE s = t /\ d = <<>>
    <3>1. d \o new = new
      BY <1>4, <2>3, ConcatEmptySeq
    <3> QED BY <1>3, <1>14, <2>3, <3>1 DEF HeadLed
  <2> QED BY <2>1, <2>2, <2>3
<1> QED BY <1>5, <1>15, <1>16 DEF WholeInv

\* zlib fails to start: nothing is asked of the streams any more.
LEMMA FailKeeps ==
    ASSUME TypeInv, WholeInv, \A s \in Side : Led(Arriving(s)), InitFails
    PROVE  WholeInv' /\ \A s \in Side : Led(Arriving(s))'
<1>1. UNCHANGED <<net, inflate>> /\ zfails' = zfails + 1 /\ zfails \in Nat
  BY DEF InitFails, peerVars, TypeInv, ZlibType
<1>2. zfails' # 0
  BY <1>1
<1>3. \A s \in Side : Arriving(s)' = Arriving(s)
  BY <1>1 DEF Arriving, Decoding
<1> QED BY <1>2, <1>3 DEF WholeInv

\* The patterns are installed: nothing has been sent.
LEMMA StartKeeps ==
    ASSUME TypeInv, QuietInv, \A s \in Side : Led(Arriving(s)), Start
    PROVE  WholeInv' /\ \A s \in Side : Led(Arriving(s))'
<1>1. UNCHANGED <<net, inflate, inb>>
  BY DEF Start, peerVars
<1>2. \A s \in Side : Arriving(s)' = Arriving(s)
  BY <1>1 DEF Arriving, Decoding
<1>3. \A s \in Side : inb'[s] = <<>> /\ Arriving(s)' = <<>>
  BY <1>1, <1>2 DEF Start, QuietInv
<1>4. DOMAIN <<>> = {}
  BY EmptySeq, LenProperties
<1> QED BY <1>2, <1>3, <1>4 DEF WholeInv, LedIn, HeadLed

\* At first
LEMMA StreamInit == Init => StreamInv
<1> SUFFICES ASSUME Init PROVE StreamInv
  OBVIOUS
<1>1. \A s \in Side : inb[s] = <<>> /\ Decoding(s) = <<>> /\ net[s] = <<>> /\ sent[s] = <<>>
  BY DEF Init, Decoding
<1>2. <<>> \o <<>> = <<>> /\ DOMAIN <<>> = {}
  <2>1. <<>> \in Seq(Element)
    BY EmptySeq
  <2> QED BY <2>1, ConcatEmptySeq, EmptySeq, LenProperties
<1>3. \A s \in Side : Arriving(s) = <<>>
  BY <1>1, <1>2 DEF Arriving
<1> QED BY <1>1, <1>2, <1>3
        DEF Init, StreamInv, Led, LedIn, WholeInv, HeadLed, QuietInv, HeadCommand

\* A step
LEMMA StreamNext == TypeInv /\ OrderInv /\ StreamInv /\ [Next]_vars => StreamInv'
<1> SUFFICES ASSUME TypeInv, OrderInv, StreamInv, [Next]_vars PROVE StreamInv'
  OBVIOUS
<1>0. WholeInv /\ QuietInv /\ HeadCommand /\ \A s \in Side : Led(Arriving(s))
  BY DEF StreamInv
<1>1. HeadCommand'
  BY <1>0, HeadNext
<1>2. QuietInv'
  BY <1>0 DEF QuietInv, Next, Loop, Handler, Peer, Start, SetNonblocking,
     CheckFallback, Poll, PollTimeout, Read, ReadInflated, ReadCorrupt, ReadNothing,
     ReadError, ScanNoMatch, ScanPartial, ScanMatch, Forward, MnesRequest, MnesDoes,
     MnesClientWill, MnesClientWont, RespondDont, RespondDo, RespondWont, Respond,
     MccpIgnore, Mccp2Do, Mccp2DoFails, Mccp2Dont, Mccp2SbStart, Mccp2SbStartFails,
     InitFails, PollInterrupted, GameCompresses, GameEndsZlib, Send, HangUp, Tick,
     Terminated, vars, ctlVars, outVars, peerVars, Waiting, Refill, Handled, NotHandled,
     Rescan, NextSide, Return, ReadFailed, Arriving, Decoding, Matched, Scanning
<1>3. CASE Cuts
  <2>1. WholeInv'
    BY <1>0, <1>3, CutsKeeps
  <2>2. \A s \in Side : Arriving(s)' = Arriving(s)
    BY <1>3 DEF Cuts, Arriving, Decoding
  <2> QED BY <1>0, <1>1, <1>2, <2>1, <2>2 DEF StreamInv
<1>4. CASE \/ Start \/ Read \/ ReadInflated \/ ReadCorrupt \/ Mccp2SbStart \/ InitFails
           \/ \E s \in Side : Sends(s)
  <2>1. WholeInv' /\ \A s \in Side : Led(Arriving(s))'
    BY <1>0, <1>4, StartKeeps, ReadKeeps, InflateKeeps, CorruptKeeps, SbStartKeeps,
       FailKeeps, SendKeeps
  <2> QED BY <1>1, <1>2, <2>1 DEF StreamInv
<1>5. \/ Start \/ Read \/ ReadInflated \/ ReadCorrupt \/ Mccp2SbStart \/ InitFails
      \/ \E s \in Side : Sends(s)
      \/ SetNonblocking \/ CheckFallback \/ Poll \/ PollTimeout \/ PollInterrupted
      \/ ReadNothing \/ ReadError \/ ScanPartial \/ Forward
      \/ ScanNoMatch \/ ScanMatch
      \/ MnesRequest \/ MnesDoes \/ MnesClientWill \/ MnesClientWont
      \/ RespondDont \/ RespondDo \/ RespondWont \/ MccpIgnore
      \/ Mccp2Do \/ Mccp2Dont
      \/ Tick \/ UNCHANGED vars \/ \E s \in Side : HangUp(s)
  BY DEF Next, Loop, Handler, Peer, Sends, Mccp2DoFails, Mccp2SbStartFails, Terminated,
     Side
<1> QED BY <1>0, <1>3, <1>4, <1>5, CutsAre

\* Commands arrive, and wait, as their senders meant them.
LEMMA StreamAlways == Spec => []StreamInv
<1>1. Init => StreamInv
  BY StreamInit
<1>2. TypeInv /\ OrderInv /\ StreamInv /\ [Next]_vars => StreamInv'
  BY StreamNext
<1> QED BY <1>1, <1>2, TypeAlways, OrderAlways, PTL DEF Spec
=============================================================================
