------------------------- MODULE ProxyOutput_proofs -------------------------
(***************************************************************************)
(* Proofs about a session: the types of its variables, for any settings,   *)
(* any messages and any failures, which is what the other proofs begin     *)
(* with; the step that says that a peer has hung up; what it has to say,   *)
(* that is its output buffers, the errno by which it tells what became of  *)
(* a read, the compression towards the client, and what the game is told   *)
(* of it; and how far it is from its next poll().                          *)
(***************************************************************************)
EXTENDS ProxyProps, SequenceTheorems, FiniteSetTheorems, WellFoundedInduction, TLAPS

\* What a peer has sent: nothing of MUDitM's own, nor compressed by it.
Input == {e \in Element : e.src > 0 /\ e.enc \in {0, -1} /\ e.cell \in Cell}

ControlType ==
    /\ pc \in {"init", "setup", "top", "poll", "serve", "scan", "match",
               "forward", "done"}
    /\ revents \in SUBSET Side
    /\ ret \in {0, 1, -1} /\ (ret # 0 <=> pc = "done")

NegoType ==
    /\ mccp_mode \in [Side -> Mode]
    /\ mnes_state \in [Side -> {"none", "DO", "WILL", "WONT"}]
    /\ matching_enabled \in [Side -> BOOLEAN]
    /\ mccp_nego \in {"NONE", "OFFERED", "ACCEPTED", "REFUSED"}

OutType ==
    /\ outq \in [Side -> Seq(Element)] /\ sent \in [Side -> Seq(Element)]
    /\ deflate \in [on: BOOLEAN, gen: Nat, pos: Nat]
    /\ shorts \in Nat
    /\ errno \in {"none", "EAGAIN", "EINTR", "EPIPE", "ECONNRESET"}

PeerType ==
    /\ net \in [Side -> Seq(Input)]
    /\ link \in [Side -> {"open", "closed", "reset"}]
    /\ stamp \in [Side -> Nat]
    /\ gz \in [on: BOOLEAN, pos: Nat]

InType ==
    /\ inb \in [Side -> Seq(Input)]
    /\ \A s \in Side : Len(inb[s]) <= BufSize

ZlibType ==
    /\ inflate \in [on: BOOLEAN, pos: Nat, bad: BOOLEAN, held: Seq(Input),
                    spent: BOOLEAN]
    /\ deadline \in {"unset", "armed", "passed"}
    /\ dry \in Nat /\ zfails \in Nat

\* What a handler finds at the head of the buffer is a command.
HeadInv == pc \in {"match", "forward"} => Len(inb[Cur]) >= 2

TypeInv == /\ ControlType /\ NegoType /\ OutType /\ PeerType /\ InType
           /\ ZlibType /\ HeadInv

-----------------------------------------------------------------------------
(* Sequences.                                                              *)

\* What is left of a sequence is a sequence.
LEMMA AfterType ==
    ASSUME NEW S, NEW q \in Seq(S), NEW k \in Nat
    PROVE  /\ After(q, k) \in Seq(S)
           /\ Len(After(q, k)) = IF k <= Len(q) THEN Len(q) - k ELSE 0
<1>1. \A i \in k + 1 .. Len(q) : q[i] \in S
  OBVIOUS
<1>2. k + 1 \in Int /\ Len(q) \in Int
  BY LenProperties
<1>3. /\ SubSeq(q, k + 1, Len(q)) \in Seq(S)
      /\ Len(SubSeq(q, k + 1, Len(q)))
         = IF k + 1 <= Len(q) THEN Len(q) - (k + 1) + 1 ELSE 0
  BY <1>1, <1>2, SubSeqProperties
<1> QED BY <1>2, <1>3 DEF After

\* So is its beginning.
LEMMA UpToType ==
    ASSUME NEW S, NEW q \in Seq(S), NEW k \in 0 .. Len(q)
    PROVE  SubSeq(q, 1, k) \in Seq(S) /\ Len(SubSeq(q, 1, k)) = k
<1>1. \A i \in 1 .. k : q[i] \in S
  OBVIOUS
<1>2. k \in Int /\ k >= 0 /\ 1 \in Int
  OBVIOUS
<1>3. /\ SubSeq(q, 1, k) \in Seq(S)
      /\ Len(SubSeq(q, 1, k)) = IF 1 <= k THEN k - 1 + 1 ELSE 0
  BY <1>1, <1>2, SubSeqProperties
<1> QED BY <1>2, <1>3

\* The two together are the sequence.
LEMMA PartsJoin ==
    ASSUME NEW S, NEW q \in Seq(S), NEW k \in 0 .. Len(q)
    PROVE  SubSeq(q, 1, k) \o After(q, k) = q
<1> DEFINE a == SubSeq(q, 1, k)
           b == After(q, k)
           w == a \o b
<1>1. Len(q) \in Nat /\ k \in Nat /\ k <= Len(q)
  BY LenProperties
<1>2. a \in Seq(S) /\ Len(a) = k /\ \A i \in 1 .. k : a[i] = q[i]
  <2>1. \A i \in 1 .. k : q[i] \in S
    BY <1>1
  <2>2. Len(a) = k /\ a \in Seq(S)
    BY UpToType
  <2> QED BY <1>1, <2>1, <2>2, SubSeqProperties
<1>3. b \in Seq(S) /\ Len(b) = Len(q) - k
      /\ \A i \in 1 .. Len(q) - k : b[i] = q[i + k]
  <2>1. \A i \in k + 1 .. Len(q) : q[i] \in S
    BY <1>1
  <2>2. /\ b \in Seq(S)
        /\ \A i \in 1 .. Len(q) - (k + 1) + 1 : b[i] = q[(k + 1) + i - 1]
    BY <1>1, <2>1, SubSeqProperties DEF After
  <2>3. Len(b) = Len(q) - k
    BY <1>1, AfterType
  <2> HIDE DEF b
  <2>4. ASSUME NEW i \in 1 .. Len(q) - k PROVE b[i] = q[i + k]
    <3>1. i \in 1 .. Len(q) - (k + 1) + 1 /\ (k + 1) + i - 1 = i + k
      BY <1>1
    <3> QED BY <2>2, <3>1
  <2> QED BY <2>2, <2>3, <2>4
<1> HIDE DEF a, b
<1>4. w \in Seq(S) /\ Len(w) = Len(q)
      /\ \A i \in 1 .. Len(q) : w[i] = IF i <= k THEN a[i] ELSE b[i - k]
  BY <1>1, <1>2, <1>3, ConcatProperties
<1> HIDE DEF w
<1>5. ASSUME NEW i \in 1 .. Len(q) PROVE w[i] = q[i]
  <2>1. CASE i <= k
    BY <1>2, <1>4, <2>1
  <2>2. CASE i > k
    <3>1. i - k \in 1 .. Len(q) - k /\ (i - k) + k = i /\ ~(i <= k)
      BY <1>1, <2>2
    <3>2. b[i - k] = q[(i - k) + k]
      BY <1>3, <3>1
    <3> QED BY <1>4, <3>1, <3>2
  <2> QED BY <1>1, <2>1, <2>2
<1>6. w = q
  BY <1>4, <1>5, SeqEqual
<1> QED BY <1>6 DEF w, a, b

\* A sequence of elements made place by place
LEMMA SequenceType ==
    ASSUME NEW S, NEW n \in Nat, NEW f, f = [i \in 1 .. n |-> f[i]],
           \A i \in 1 .. n : f[i] \in S
    PROVE  f \in Seq(S) /\ Len(f) = n
OBVIOUS

\* A set of numbers that is not empty has a least one.
LEMMA LeastIn ==
    ASSUME NEW S \in SUBSET Nat, S # {}
    PROVE  Least(S) \in S /\ \A j \in S : Least(S) <= j
<1> DEFINE Less == OpToRel(<, Nat)
<1>1. IsWellFoundedOn(Less, Nat)
  BY NatLessThanWellFounded
<1>2. \A x, y \in Nat : <<x, y>> \in Less <=> x < y
  BY DEF OpToRel
<1> HIDE DEF Less
<1>3. PICK i \in S : \A j \in S : ~(<<j, i>> \in Less)
  BY <1>1, WFMin
<1>4. \A j \in S : ~(j < i)
  BY <1>2, <1>3, Zenon
<1>5. \A j \in S : i <= j
  BY <1>4
<1> QED BY <1>5 DEF Least

-----------------------------------------------------------------------------
(* Elements, and what is written.                                          *)

\* An element that is compressed, or decoded, is an element.
LEMMA RecodedType ==
    ASSUME NEW e \in Element, NEW n \in Int, NEW p \in Nat
    PROVE  /\ [e EXCEPT !.enc = n, !.pos = p] \in Element
           /\ [e EXCEPT !.cell = IF e.enc = -1 THEN RawZlib ELSE e.cell,
                        !.enc = n, !.pos = p] \in Element
BY DEF Element

\* What is sent and decoded is still what is sent.
LEMMA DecodedType ==
    ASSUME NEW e \in Input
    PROVE  [e EXCEPT !.enc = 0, !.pos = 0] \in Input
<1> DEFINE d == [e EXCEPT !.enc = 0, !.pos = 0]
<1>1. e \in Element /\ e.src > 0 /\ e.cell \in Cell
  BY DEF Input
<1>2. d \in Element
  <2>1. 0 \in Int /\ 0 \in Nat
    OBVIOUS
  <2> QED BY <1>1, <2>1, RecodedType, Zenon
<1>3. d.src = e.src /\ d.enc = 0 /\ d.cell = e.cell
  BY <1>1 DEF Element
<1> HIDE DEF d
<1>4. d \in Input
  BY <1>1, <1>2, <1>3 DEF Input
<1> QED BY <1>4 DEF d

\* What a peer sends it has not sent before.
LEMMA NewInput ==
    ASSUME NEW c \in Cell, NEW n \in Nat, n > 0, NEW p \in Nat
    PROVE  /\ [cell |-> c, src |-> n, enc |-> 0, pos |-> p] \in Input
           /\ [cell |-> c, src |-> n, enc |-> -1, pos |-> p] \in Input
BY DEF Input, Element

\* What peers send consists of elements.
LEMMA InputType == ASSUME NEW q \in Seq(Input) PROVE q \in Seq(Element)
<1>1. \A e \in Input : e \in Element
  BY DEF Input
<1> HIDE DEF Input
<1> QED BY <1>1

\* What MUDitM writes itself consists of elements.
LEMMA OwnType ==
    ASSUME NEW cells \in Seq(Cell)
    PROVE  Own(cells) \in Seq(Element) /\ Len(Own(cells)) = Len(cells)
<1>1. Len(cells) \in Nat /\ DOMAIN cells = 1 .. Len(cells)
  BY LenProperties
<1>2. \A i \in 1 .. Len(cells) :
        [cell |-> cells[i], src |-> 0, enc |-> 0, pos |-> 0] \in Element
  BY DEF Element
<1> QED BY <1>1, <1>2, SequenceType DEF Own

\* One thing makes a sequence.
LEMMA Single == ASSUME NEW S, NEW e \in S PROVE <<e>> \in Seq(S) /\ Len(<<e>>) = 1
OBVIOUS

\* So do two.
LEMMA TwoType ==
    ASSUME NEW S, NEW d \in S, NEW e \in S
    PROVE  /\ <<d, e>> \in Seq(S) /\ Len(<<d, e>>) = 2
           /\ <<d, e>>[1] = d /\ <<d, e>>[2] = e
OBVIOUS

\* A command is two cells.
LEMMA CommandType ==
    ASSUME NEW verb \in Verb, NEW option \in Option
    PROVE  Command(verb, option) \in Seq(Cell) /\ Len(Command(verb, option)) = 2
<1>1. IAC \in Cell /\ <<verb, option>> \in Cell
  BY DEF IAC, Cell, Verb, Option
<1>2. Command(verb, option) = <<IAC, <<verb, option>>>>
  BY DEF Command
<1> QED BY <1>1, <1>2

\* Elements remain elements on the wire.
LEMMA EncodeType ==
    ASSUME OutType, NEW s \in Side, NEW data \in Seq(Element)
    PROVE  Encode(s, data) \in Seq(Element) /\ Len(Encode(s, data)) = Len(data)
<1>1. Len(data) \in Nat /\ DOMAIN data = 1 .. Len(data)
  BY LenProperties
<1>2. CASE Compressed(s)
  <2> DEFINE wire(i) ==
               [data[i] EXCEPT !.cell = IF data[i].enc = -1 THEN RawZlib
                                        ELSE data[i].cell,
                               !.enc = deflate.gen, !.pos = deflate.pos + i]
  <2>1. ASSUME NEW i \in 1 .. Len(data) PROVE wire(i) \in Element
    <3>1. data[i] \in Element
      OBVIOUS
    <3>2. deflate.gen \in Int /\ deflate.pos + i \in Nat
      BY DEF OutType
    <3> QED BY <3>1, <3>2, RecodedType
  <2>2. Encode(s, data) =
          [i \in 1 .. Len(data) |-> wire(i)]
    BY <1>1, <1>2 DEF Encode
  <2> DEFINE f == [i \in 1 .. Len(data) |-> wire(i)]
  <2>3. f = [i \in 1 .. Len(data) |-> f[i]] /\ \A i \in 1 .. Len(data) : f[i] \in Element
    BY <2>1
  <2> HIDE DEF f
  <2>4. f \in Seq(Element) /\ Len(f) = Len(data)
    BY <1>1, <2>3, SequenceType
  <2> QED BY <2>2, <2>4 DEF f
<1>3. CASE ~Compressed(s)
  BY <1>3 DEF Encode
<1> QED BY <1>2, <1>3

\* What a peer takes is a part of a write.
LEMMA TakesType ==
    ASSUME NEW s, NEW data \in Seq(Element), NEW k \in Takes(s, data)
    PROVE  k \in 0 .. Len(data)
BY LenProperties DEF Takes

\* What is on the wire, the short writes and errno keep their types.
LEMMA PutType ==
    ASSUME OutType, NEW s \in Side, NEW data \in Seq(Element),
           NEW k \in 0 .. Len(data), Put(s, data, k)
    PROVE  /\ sent' \in [Side -> Seq(Element)]
           /\ shorts' \in Nat
           /\ errno' \in {"none", "EAGAIN", "EINTR", "EPIPE", "ECONNRESET"}
<1>1. SubSeq(Encode(s, data), 1, k) \in Seq(Element)
  BY EncodeType, UpToType
<1>2. sent[s] \in Seq(Element)
  BY DEF OutType
<1>3. sent[s] \o SubSeq(Encode(s, data), 1, k) \in Seq(Element)
  BY <1>1, <1>2, ConcatProperties
<1>4. sent' = [sent EXCEPT ![s] = sent[s] \o SubSeq(Encode(s, data), 1, k)]
  BY DEF Put
<1>5. sent' \in [Side -> Seq(Element)]
  BY <1>3, <1>4 DEF OutType
<1>6. shorts' \in Nat
  BY DEF Put, Short, OutType
<1>7. errno' \in {"none", "EAGAIN", "EINTR", "EPIPE", "ECONNRESET"}
  BY DEF Put, Error, OutType
<1> QED BY <1>5, <1>6, <1>7

\* So does the zlib stream.
LEMMA DeflatedType ==
    ASSUME OutType, NEW s, NEW n \in Nat
    PROVE  Deflated(s, n) \in [on: BOOLEAN, gen: Nat, pos: Nat]
BY SMTT(30) DEF Deflated, OutType

\* A write keeps all the types of the output.
LEMMA WriteType ==
    ASSUME OutType, NEW s \in Side, NEW data \in Seq(Element),
           Write(s, data), UNCHANGED outq
    PROVE  OutType'
<1>1. PICK k \in Takes(s, data) : Put(s, data, k)
  BY DEF Write
<1>2. k \in 0 .. Len(data)
  BY TakesType
<1>3. /\ sent' \in [Side -> Seq(Element)]
      /\ shorts' \in Nat
      /\ errno' \in {"none", "EAGAIN", "EINTR", "EPIPE", "ECONNRESET"}
  BY <1>1, <1>2, PutType
<1>4. deflate' \in [on: BOOLEAN, gen: Nat, pos: Nat]
  BY DeflatedType, LenProperties DEF Write
<1> QED BY <1>3, <1>4 DEF OutType

\* The output buffer with what is added to it.
LEMMA QueueType ==
    ASSUME OutType, NEW s \in Side, NEW cells \in Seq(Cell)
    PROVE  /\ outq[s] \o Own(cells) \in Seq(Element)
           /\ Len(outq[s] \o Own(cells)) = Len(outq[s]) + Len(cells)
           /\ Len(outq[s]) \in Nat /\ Len(cells) \in Nat
<1>1. outq[s] \in Seq(Element)
  BY DEF OutType
<1>2. Own(cells) \in Seq(Element) /\ Len(Own(cells)) = Len(cells)
  BY OwnType
<1>3. /\ outq[s] \o Own(cells) \in Seq(Element)
      /\ Len(outq[s] \o Own(cells)) = Len(outq[s]) + Len(Own(cells))
  BY <1>1, <1>2, ConcatProperties, Zenon
<1> QED BY <1>1, <1>2, <1>3, LenProperties

\* A flush keeps the types of what it changes ...
LEMMA FlushQueueType ==
    ASSUME OutType, NEW s \in Side, NEW cells \in Seq(Cell),
           FlushQueue(s, cells)
    PROVE  /\ outq' \in [Side -> Seq(Element)] /\ sent' \in [Side -> Seq(Element)]
           /\ shorts' \in Nat
           /\ errno' \in {"none", "EAGAIN", "EINTR", "EPIPE", "ECONNRESET"}
<1> DEFINE data == outq[s] \o Own(cells)
<1>1. data \in Seq(Element)
  BY QueueType
<1>2. PICK k \in Takes(s, data) :
        /\ Put(s, data, k)
        /\ outq' = [outq EXCEPT ![s] = IF Compressed(s) THEN data
                                      ELSE After(data, k)]
  BY DEF FlushQueue
<1> HIDE DEF data
<1>3. k \in 0 .. Len(data)
  BY <1>1, <1>2, TakesType
<1>4. After(data, k) \in Seq(Element)
  BY <1>1, <1>3, AfterType
<1>5. outq' \in [Side -> Seq(Element)]
  BY <1>1, <1>2, <1>4 DEF OutType
<1> QED BY <1>1, <1>2, <1>3, <1>5, PutType

\* ... and the zlib stream's.
LEMMA FlushType ==
    ASSUME OutType, NEW s \in Side, NEW cells \in Seq(Cell), Flush(s, cells)
    PROVE  OutType'
<1>1. deflate' \in [on: BOOLEAN, gen: Nat, pos: Nat]
  <2>1. Len(outq[s]) + Len(cells) \in Nat
    BY QueueType
  <2> QED BY <2>1, DeflatedType DEF Flush
<1> QED BY <1>1, FlushQueueType DEF Flush, OutType

-----------------------------------------------------------------------------
(* Control flow.                                                           *)

Moves(places) == ControlType' /\ pc' \in places

\* The ways to leave a step of the loop, and where they lead.
LEMMA Exits ==
    ASSUME ControlType, pc # "done"
    PROVE  /\ NextSide /\ UNCHANGED ret => Moves({"top", "serve"})
           /\ Rescan /\ UNCHANGED ret => Moves({"top", "serve", "scan"})
           /\ \A r \in {1, -1} : Return(r) => Moves({"done"})
           /\ \A e : ReadFailed(e) => Moves({"top", "serve", "done"})
           /\ NotHandled => Moves({"forward"})
<1> USE DEF ControlType, Moves
<1>1. NextSide /\ UNCHANGED ret => Moves({"top", "serve"})
  BY DEF NextSide
<1>2. Rescan /\ UNCHANGED ret => Moves({"top", "serve", "scan"})
  BY <1>1 DEF Rescan
<1>3. \A r \in {1, -1} : Return(r) => Moves({"done"})
  BY DEF Return
<1>4. \A e : ReadFailed(e) => Moves({"top", "serve", "done"})
  BY <1>1, <1>3 DEF ReadFailed
<1>5. NotHandled => Moves({"forward"})
  BY DEF NotHandled
<1> QED BY <1>1, <1>2, <1>3, <1>4, <1>5

\* The side being served is a side.
LEMMA CurType == Cur \in Side /\ Other(Cur) \in Side
BY DEF Cur, Side, Other

\* What is popped leaves room.
LEMMA PopType ==
    ASSUME InType, NEW k \in Nat, Pop(k)
    PROVE  /\ InType'
           /\ Len(inb'[Cur]) = IF k <= Len(inb[Cur]) THEN Len(inb[Cur]) - k ELSE 0
<1>1. inb[Cur] \in Seq(Input) /\ Len(inb[Cur]) \in Nat
  BY CurType, LenProperties DEF InType
<1>2. /\ After(inb[Cur], k) \in Seq(Input)
      /\ Len(After(inb[Cur], k))
         = IF k <= Len(inb[Cur]) THEN Len(inb[Cur]) - k ELSE 0
  BY <1>1, AfterType
<1>3. inb' = [inb EXCEPT ![Cur] = After(inb[Cur], k)]
  BY DEF Pop
<1>4. inb' \in [Side -> Seq(Input)] /\ inb'[Cur] = After(inb[Cur], k)
  BY <1>2, <1>3, CurType DEF InType
<1>5. ASSUME NEW s \in Side PROVE Len(inb'[s]) <= BufSize
  <2>1. CASE s = Cur
    BY <1>1, <1>2, <1>4, <2>1, BoundAssumption DEF InType
  <2>2. CASE s # Cur
    BY <1>3, <2>2 DEF InType
  <2> QED BY <2>1, <2>2
<1> QED BY <1>2, <1>4, <1>5 DEF InType

\* What is read fits.
LEMMA FillType ==
    ASSUME InType, NEW s \in Side, NEW data \in Seq(Input),
           Len(data) <= Room(s),
           inb' = [inb EXCEPT ![s] = inb[s] \o data]
    PROVE  InType'
<1>1. inb[s] \in Seq(Input) /\ Len(inb[s]) \in Nat /\ Len(data) \in Nat
  BY LenProperties DEF InType
<1>2. /\ inb[s] \o data \in Seq(Input)
      /\ Len(inb[s] \o data) = Len(inb[s]) + Len(data)
  BY <1>1, ConcatProperties
<1>3. inb' \in [Side -> Seq(Input)]
  BY <1>2 DEF InType
<1>4. ASSUME NEW t \in Side PROVE Len(inb'[t]) <= BufSize
  <2>1. CASE t = s
    BY <1>1, <1>2, <2>1, BoundAssumption DEF Room, InType
  <2>2. CASE t # s
    BY <2>2 DEF InType
  <2> QED BY <2>1, <2>2
<1> QED BY <1>3, <1>4 DEF InType

-----------------------------------------------------------------------------
(* The steps.                                                              *)

\* Everything has its type at first ...
LEMMA TypeInit == Init => TypeInv
<1> SUFFICES ASSUME Init PROVE TypeInv
  OBVIOUS
<1>1. <<>> \in Seq(Element) /\ <<>> \in Seq(Input) /\ Len(<<>>) = 0
  BY EmptySeq
<1>2. ControlType /\ HeadInv
  BY DEF Init, ControlType, HeadInv
<1>3. NegoType
  BY ConfigAssumption DEF Init, NegoType
<1>4. OutType
  BY <1>1 DEF Init, OutType
<1>5. PeerType
  BY <1>1 DEF Init, PeerType
<1>6. InType
  BY <1>1, BoundAssumption DEF Init, InType
<1>7. ZlibType
  BY <1>1 DEF Init, ZlibType
<1> QED BY <1>2, <1>3, <1>4, <1>5, <1>6, <1>7 DEF TypeInv

\* The beginning
LEMMA TypeStart == TypeInv /\ Start => TypeInv'
<1> SUFFICES ASSUME TypeInv, Start PROVE TypeInv'
  OBVIOUS
<1>1. ControlType' /\ HeadInv'
  BY DEF TypeInv, ControlType, HeadInv, Start
<1>2. NegoType'
  BY DEF TypeInv, NegoType, Start
<1>3. OutType'
  <2> DEFINE offer == IF mccp_mode["client"] = "enable"
                      THEN Command("WILL", "MCCP2") ELSE <<>>
             address == IF ImmediateIp THEN <<<<"IPADDRESS", "">>>> ELSE <<>>
  <2>1. offer \in Seq(Cell)
    BY CommandType, EmptySeq DEF Verb, Option
  <2>2. address \in Seq(Cell)
    <3>1. <<"IPADDRESS", "">> \in Cell
      BY DEF Cell, Verb, Option
    <3>2. <<<<"IPADDRESS", "">>>> \in Seq(Cell) /\ <<>> \in Seq(Cell)
      BY <3>1, Single, EmptySeq, Zenon
    <3> QED BY <3>2, Zenon
  <2>3. sent' = [client |-> Own(offer), game |-> Own(address)]
    BY DEF Start
  <2> HIDE DEF offer, address
  <2>4. Own(offer) \in Seq(Element) /\ Own(address) \in Seq(Element)
    BY <2>1, <2>2, OwnType
  <2>5. sent' \in [Side -> Seq(Element)]
    BY <2>3, <2>4 DEF Side
  <2> QED BY <2>5 DEF TypeInv, OutType, Start
<1>4. PeerType' /\ InType' /\ ZlibType'
  BY DEF TypeInv, PeerType, InType, ZlibType, Start, peerVars, faultVars
<1> QED BY <1>1, <1>2, <1>3, <1>4 DEF TypeInv

\* The steps that only move on
LEMMA TypeMoves ==
    ASSUME TypeInv,
           SetNonblocking \/ Poll \/ PollTimeout \/ PollInterrupted
           \/ ReadNothing \/ ReadError \/ ScanPartial
    PROVE  TypeInv'
<1>1. Moves({"top", "serve", "done"})
  <2> USE DEF TypeInv, ControlType, Moves
  <2>1. CASE SetNonblocking
    BY <2>1 DEF SetNonblocking, Return
  <2>2. CASE Poll
    BY <2>2 DEF Poll, Readable
  <2>3. CASE PollTimeout \/ PollInterrupted
    BY <2>3 DEF PollTimeout, PollInterrupted, Return
  <2>4. CASE ReadNothing
    BY <2>4, Exits DEF ReadNothing
  <2>5. CASE ReadError
    BY <2>5, Exits DEF ReadError
  <2>6. CASE ScanPartial
    BY <2>6, Exits DEF ScanPartial, Scanning
  <2> QED BY <2>1, <2>2, <2>3, <2>4, <2>5, <2>6
<1>2. NegoType' /\ InType' /\ PeerType'
  BY DEF TypeInv, NegoType, InType, PeerType, SetNonblocking, Poll, PollTimeout,
     PollInterrupted, ReadNothing, ReadError, ScanPartial, negoVars, peerVars
<1>3. OutType'
  BY DEF TypeInv, OutType, SetNonblocking, Poll, PollTimeout, PollInterrupted,
     ReadNothing, ReadError, ScanPartial, outVars
<1>4. ZlibType'
  BY DEF TypeInv, ZlibType, SetNonblocking, Poll, PollTimeout, PollInterrupted,
     ReadNothing, ReadError, ScanPartial, faultVars
<1> QED BY <1>1, <1>2, <1>3, <1>4 DEF TypeInv, Moves, HeadInv

\* Plain input is read.
LEMMA TypeRead == TypeInv /\ Read => TypeInv'
<1> SUFFICES ASSUME TypeInv, Read PROVE TypeInv'
  OBVIOUS
<1>1. ControlType' /\ HeadInv'
  BY DEF TypeInv, ControlType, HeadInv, Read
<1>2. PICK n \in 1 .. Len(net[Cur]) :
        /\ n <= Room(Cur)
        /\ inb' = [inb EXCEPT ![Cur] = inb[Cur] \o SubSeq(net[Cur], 1, n)]
        /\ net' = [net EXCEPT ![Cur] = After(net[Cur], n)]
  BY DEF Read
<1>3. net[Cur] \in Seq(Input)
  BY CurType DEF TypeInv, PeerType
<1>4. /\ SubSeq(net[Cur], 1, n) \in Seq(Input) /\ Len(SubSeq(net[Cur], 1, n)) = n
      /\ After(net[Cur], n) \in Seq(Input)
  <2>1. n \in Nat /\ n \in 0 .. Len(net[Cur])
    BY <1>3, LenProperties
  <2> QED BY <1>3, <2>1, UpToType, AfterType
<1>5. InType'
  BY <1>2, <1>4, CurType, FillType DEF TypeInv
<1>6. PeerType'
  BY <1>2, <1>4, CurType DEF TypeInv, PeerType, Read
<1>7. NegoType' /\ OutType' /\ ZlibType'
  BY DEF TypeInv, NegoType, OutType, ZlibType, Read, negoVars, outVars, faultVars
<1> QED BY <1>1, <1>5, <1>6, <1>7 DEF TypeInv

\* What inflate() gets to see consists of elements, and of no more of them than
\* there is room for but for the mark of the end.
LEMMA NextInType ==
    ASSUME TypeInv, NEW n \in 0 .. Len(net["game"])
    PROVE  /\ ZlibInput(n) \in Seq(Input)
           /\ Next_in(n) \in Seq(Input)
           /\ \E k \in 0 .. Len(ZlibInput(n)) :
                 Next_in(n) = SubSeq(ZlibInput(n), 1, k) /\ Len(Next_in(n)) = k
           /\ Continues(Next_in(n)) => Len(Next_in(n)) <= Room("game")
<1>1. inflate.held \in Seq(Input) /\ net["game"] \in Seq(Input)
  BY DEF TypeInv, ZlibType, PeerType, Side
<1>2. SubSeq(net["game"], 1, n) \in Seq(Input)
  BY <1>1, UpToType
<1>3. ZlibInput(n) \in Seq(Input)
  BY <1>1, <1>2, ConcatProperties DEF ZlibInput
<1> DEFINE input == ZlibInput(n)
           k == Least({Room("game"), Len(input)})
           ends == k < Len(input) /\ input[k + 1].cell = StreamEnd
<1>4. Next_in(n) = SubSeq(input, 1, IF ends THEN k + 1 ELSE k)
  BY DEF Next_in
<1>5. Len(input) \in Nat
  BY <1>3, LenProperties
<1>6. Room("game") \in Nat
  <2>1. inb["game"] \in Seq(Input) /\ Len(inb["game"]) <= BufSize
    BY DEF TypeInv, InType, Side
  <2>2. Len(inb["game"]) \in Nat
    BY <2>1, LenProperties
  <2> QED BY <2>1, <2>2, BoundAssumption DEF Room
<1>7. k \in 0 .. Len(input) /\ k <= Room("game")
  <2> DEFINE S == {Room("game"), Len(input)}
  <2>1. S \in SUBSET Nat /\ S # {}
    BY <1>5, <1>6
  <2>2. Least(S) \in S /\ \A j \in S : Least(S) <= j
    BY <2>1, LeastIn
  <2>3. Least(S) <= Room("game") /\ Least(S) <= Len(input) /\ Least(S) \in Nat
    BY <2>1, <2>2
  <2> HIDE DEF input
  <2> QED BY <1>5, <2>3
<1> HIDE DEF input, k
<1>8. CASE ends
  <2>1. k + 1 \in 0 .. Len(input)
    BY <1>5, <1>7, <1>8
  <2>2. SubSeq(input, 1, k + 1) \in Seq(Input) /\ Len(SubSeq(input, 1, k + 1)) = k + 1
    BY <1>3, <2>1, UpToType DEF input
  <2>3. Next_in(n) = SubSeq(input, 1, k + 1)
    BY <1>4, <1>8
  <2>4. SubSeq(input, 1, k + 1)[k + 1] = input[k + 1]
    BY <1>3, <2>1, <1>7 DEF input
  <2>5. ~Continues(Next_in(n))
    <3>1. k + 1 \in DOMAIN Next_in(n)
      BY <2>2, <2>3, <1>7, LenProperties
    <3> QED BY <3>1, <2>3, <2>4, <1>8 DEF Continues, Follows
  <2> QED BY <1>3, <2>1, <2>2, <2>3, <2>5 DEF input
<1>9. CASE ~ends
  <2>1. SubSeq(input, 1, k) \in Seq(Input) /\ Len(SubSeq(input, 1, k)) = k
    BY <1>3, <1>7, UpToType DEF input
  <2>2. Next_in(n) = SubSeq(input, 1, k)
    BY <1>4, <1>9
  <2> QED BY <1>3, <1>7, <2>1, <2>2 DEF input
<1> QED BY <1>8, <1>9

\* Some input is inflated.
LEMMA TypeReadInflated == TypeInv /\ ReadInflated => TypeInv'
<1> SUFFICES ASSUME TypeInv, ReadInflated PROVE TypeInv'
  OBVIOUS
<1> DEFINE data(n) == Next_in(n)
           plain(n) == [i \in DOMAIN data(n) |-> [data(n)[i] EXCEPT !.enc = 0, !.pos = 0]]
<1>1. PICK n \in 0 .. Len(net[Cur]) :
        /\ Refill(n)
        /\ Continues(data(n))
        /\ inb' = [inb EXCEPT !["game"] = inb["game"] \o plain(n)]
        /\ inflate' = [inflate EXCEPT !.pos = inflate.pos + Len(data(n)),
                                     !.held = After(ZlibInput(n), Len(data(n)))]
        /\ pc' = "scan"
        /\ UNCHANGED <<negoVars, outVars, revents, ret, link, stamp, gz,
                      deadline, faultVars>>
  BY DEF ReadInflated
<1>2. Cur = "game" /\ pc = "serve"
  BY <1>1 DEF Refill, Inflating
<1>3. n \in 0 .. Len(net["game"])
  BY <1>1, <1>2
<1>4. /\ ZlibInput(n) \in Seq(Input) /\ data(n) \in Seq(Input)
      /\ Len(data(n)) <= Room("game")
  BY <1>1, <1>3, NextInType
<1> HIDE DEF data
<1>5. Len(data(n)) \in Nat /\ DOMAIN data(n) = 1 .. Len(data(n))
  BY <1>4, LenProperties
<1>6. plain(n) \in Seq(Input) /\ Len(plain(n)) = Len(data(n))
  <2>1. ASSUME NEW i \in 1 .. Len(data(n))
        PROVE  [data(n)[i] EXCEPT !.enc = 0, !.pos = 0] \in Input
    <3>1. data(n)[i] \in Input
      BY <1>4, ElementOfSeq
    <3> QED BY <3>1, DecodedType, Zenon
  <2>2. plain(n) = [i \in 1 .. Len(data(n)) |-> plain(n)[i]]
        /\ \A i \in 1 .. Len(data(n)) : plain(n)[i] \in Input
    BY <1>5, <2>1
  <2> HIDE DEF plain
  <2> QED BY <1>5, <2>2, SequenceType
<1> HIDE DEF plain
<1>7. InType'
  BY <1>1, <1>4, <1>6, FillType DEF TypeInv, Side
<1>8. ZlibType'
  <2>1. After(ZlibInput(n), Len(data(n))) \in Seq(Input)
    BY <1>4, <1>5, AfterType
  <2>2. inflate.pos + Len(data(n)) \in Nat
    BY <1>5 DEF TypeInv, ZlibType
  <2> QED BY <1>1, <2>1, <2>2 DEF TypeInv, ZlibType, faultVars
<1>9. PeerType'
  <2>1. After(net["game"], n) \in Seq(Input)
    BY <1>3, AfterType DEF TypeInv, PeerType, Side
  <2>2. net' = [net EXCEPT !["game"] = After(net["game"], n)]
    BY <1>1 DEF Refill
  <2> QED BY <1>1, <2>1, <2>2 DEF TypeInv, PeerType
<1>10. ControlType' /\ HeadInv' /\ NegoType' /\ OutType'
  BY <1>1, <1>2 DEF TypeInv, ControlType, HeadInv, NegoType, OutType, negoVars,
     outVars
<1> QED BY <1>7, <1>8, <1>9, <1>10 DEF TypeInv

\* Zlib has taken in what it fails at, or it has not.
LEMMA SpentType == \A data, input : SpentOn(data, input) \subseteq BOOLEAN
BY DEF SpentOn

\* inflate() fails.
LEMMA TypeReadCorrupt == TypeInv /\ ReadCorrupt => TypeInv'
<1> SUFFICES ASSUME TypeInv, ReadCorrupt PROVE TypeInv'
  OBVIOUS
<1>1. PICK n \in 0 .. Len(net[Cur]) :
        /\ Refill(n)
        /\ \E spent \in SpentOn(Next_in(n), ZlibInput(n)) :
              inflate' = [inflate EXCEPT !.bad = ~Continues(Next_in(n)),
                             !.held = ZlibInput(n), !.spent = spent]
        /\ ReadFailed(errno)
        /\ UNCHANGED <<negoVars, outVars, link, stamp, gz, inb, deadline,
                      faultVars>>
  BY DEF ReadCorrupt
<1>2. Cur = "game" /\ pc = "serve"
  BY <1>1 DEF Refill, Inflating
<1>3. n \in 0 .. Len(net["game"])
  BY <1>1, <1>2
<1>4. ZlibInput(n) \in Seq(Input)
  BY <1>3, NextInType
<1>5. ZlibType'
  <2>1. (~Continues(Next_in(n))) \in BOOLEAN
    BY Zenon
  <2>2. PICK spent \in SpentOn(Next_in(n), ZlibInput(n)) :
          inflate' = [inflate EXCEPT !.bad = ~Continues(Next_in(n)),
                         !.held = ZlibInput(n), !.spent = spent]
    BY <1>1
  <2>3. spent \in BOOLEAN
    BY <2>2, SpentType
  <2> QED BY <1>1, <1>4, <2>1, <2>2, <2>3 DEF TypeInv, ZlibType, faultVars
<1>6. PeerType'
  <2>1. After(net["game"], n) \in Seq(Input)
    BY <1>3, AfterType DEF TypeInv, PeerType, Side
  <2>2. net' = [net EXCEPT !["game"] = After(net["game"], n)]
    BY <1>1 DEF Refill
  <2> QED BY <1>1, <2>1, <2>2 DEF TypeInv, PeerType
<1>7. Moves({"top", "serve", "done"})
  BY <1>1, <1>2, Exits DEF TypeInv
<1>8. NegoType' /\ OutType' /\ InType'
  BY <1>1 DEF TypeInv, NegoType, OutType, InType, negoVars, outVars
<1> QED BY <1>5, <1>6, <1>7, <1>8 DEF TypeInv, Moves, HeadInv

\* A match stands before the end of the buffer.
LEMMA MatchIn ==
    ASSUME TypeInv, Hits(Cur, Buffer) # {},
           ~PartialAt(Cur, Buffer, Least(Hits(Cur, Buffer)))
    PROVE  Least(Hits(Cur, Buffer)) \in 1 .. Len(Buffer) - 1
<1>1. Buffer \in Seq(Input)
  BY CurType DEF Buffer, TypeInv, InType
<1>2. Len(Buffer) \in Nat /\ DOMAIN Buffer = 1 .. Len(Buffer)
  BY <1>1, LenProperties
<1>3. Hits(Cur, Buffer) \in SUBSET (DOMAIN Buffer)
  BY DEF Hits
<1>4. Least(Hits(Cur, Buffer)) \in Hits(Cur, Buffer)
  BY <1>2, <1>3, LeastIn
<1> DEFINE at == Least(Hits(Cur, Buffer))
<1>5. at \in DOMAIN Buffer /\ MatchAt(Cur, Buffer, at)
  BY <1>4 DEF Hits
<1> HIDE DEF at
<1>6. at < Len(Buffer)
  BY <1>5 DEF MatchAt
<1>7. at \in 1 .. Len(Buffer) - 1
  BY <1>2, <1>5, <1>6
<1> QED BY <1>7 DEF at

\* The buffer, and the beginning of it that stands before a match.
LEMMA BufferType ==
    ASSUME TypeInv
    PROVE  /\ Buffer \in Seq(Input) /\ Buffer \in Seq(Element)
           /\ Len(Buffer) \in Nat
           /\ \A k \in 0 .. Len(Buffer) : /\ SubSeq(Buffer, 1, k) \in Seq(Input)
                                         /\ SubSeq(Buffer, 1, k) \in Seq(Element)
<1>1. Buffer \in Seq(Input)
  BY CurType DEF Buffer, TypeInv, InType
<1>2. \A k \in 0 .. Len(Buffer) : SubSeq(Buffer, 1, k) \in Seq(Input)
  BY <1>1, UpToType
<1> QED BY <1>1, <1>2, InputType, LenProperties

\* The matching loop
LEMMA TypeScan ==
    ASSUME TypeInv, ScanNoMatch \/ ScanMatch \/ Forward
    PROVE  TypeInv'
<1>1. CASE ScanNoMatch
  <2>1. Moves({"top", "serve"})
    BY <1>1, Exits DEF ScanNoMatch, Scanning, TypeInv
  <2>2. OutType'
    BY <1>1, BufferType, CurType, WriteType DEF ScanNoMatch, TypeInv
  <2>3. InType'
    <3>1. inb' = [inb EXCEPT ![Cur] = <<>>]
      BY <1>1 DEF ScanNoMatch
    <3> QED BY <3>1, EmptySeq, CurType, BoundAssumption DEF TypeInv, InType
  <2>4. NegoType' /\ PeerType' /\ ZlibType'
    BY <1>1 DEF ScanNoMatch, TypeInv, NegoType, PeerType, ZlibType, negoVars,
       peerVars, faultVars
  <2> QED BY <2>1, <2>2, <2>3, <2>4 DEF TypeInv, Moves, HeadInv
<1>2. CASE ScanMatch
  <2> DEFINE at == Least(Hits(Cur, Buffer))
  <2>1. at \in 1 .. Len(Buffer) - 1
    BY <1>2, MatchIn DEF ScanMatch
  <2>2. Write(Other(Cur), SubSeq(Buffer, 1, at - 1)) /\ Pop(at - 1)
    BY <1>2 DEF ScanMatch
  <2> HIDE DEF at
  <2>3. at - 1 \in Nat /\ at - 1 \in 0 .. Len(Buffer)
    BY <2>1, BufferType
  <2>4. SubSeq(Buffer, 1, at - 1) \in Seq(Element)
    BY <2>3, BufferType
  <2>5. OutType'
    BY <1>2, <2>2, <2>4, CurType, WriteType DEF ScanMatch, TypeInv
  <2>6. InType' /\ Len(inb'[Cur]) >= 2
    BY <2>1, <2>2, <2>3, BufferType, PopType DEF TypeInv, Buffer
  <2>7. ControlType' /\ Cur' = Cur
    BY <1>2 DEF ScanMatch, Scanning, TypeInv, ControlType, Cur
  <2>8. HeadInv'
    BY <2>6, <2>7 DEF HeadInv
  <2>9. NegoType' /\ PeerType' /\ ZlibType'
    BY <1>2 DEF ScanMatch, TypeInv, NegoType, PeerType, ZlibType, negoVars,
       peerVars, faultVars
  <2> QED BY <2>5, <2>6, <2>7, <2>8, <2>9 DEF TypeInv
<1>3. CASE Forward
  <2>1. pc = "forward" /\ Len(Buffer) >= 2
    BY <1>3 DEF Forward, TypeInv, HeadInv, Buffer
  <2>2. OutType'
    <3>1. 2 \in 0 .. Len(Buffer)
      BY <2>1, BufferType
    <3>2. SubSeq(Buffer, 1, 2) \in Seq(Element)
      BY <3>1, BufferType
    <3> QED BY <1>3, <3>2, CurType, WriteType DEF Forward, TypeInv
  <2>3. InType'
    BY <1>3, PopType DEF Forward, TypeInv
  <2>4. Moves({"top", "serve", "scan"})
    BY <1>3, <2>1, Exits DEF Forward, TypeInv
  <2>5. NegoType' /\ PeerType' /\ ZlibType'
    BY <1>3 DEF Forward, TypeInv, NegoType, PeerType, ZlibType, negoVars,
       peerVars, faultVars
  <2> QED BY <2>2, <2>3, <2>4, <2>5 DEF TypeInv, Moves, HeadInv
<1> QED BY <1>1, <1>2, <1>3

-----------------------------------------------------------------------------
(* The handlers.                                                           *)

\* What every handler does with the match keeps the types of what it changes.
LEMMA MatchExits ==
    ASSUME TypeInv, pc = "match"
    PROVE  /\ Handled => ControlType' /\ InType' /\ HeadInv'
           /\ NotHandled => ControlType' /\ InType' /\ HeadInv'
<1>1. Handled => ControlType' /\ InType' /\ HeadInv'
  <2> SUFFICES ASSUME Handled PROVE ControlType' /\ InType' /\ HeadInv'
    OBVIOUS
  <2>1. InType'
    BY PopType DEF Handled, TypeInv
  <2>2. Moves({"top", "serve", "scan"})
    BY Exits DEF Handled, TypeInv
  <2> QED BY <2>1, <2>2 DEF Moves, HeadInv
<1>2. NotHandled => ControlType' /\ InType' /\ HeadInv'
  <2> SUFFICES ASSUME NotHandled PROVE ControlType' /\ InType' /\ HeadInv'
    OBVIOUS
  <2>1. ControlType'
    BY Exits DEF TypeInv, Moves
  <2>2. UNCHANGED inb /\ Cur' = Cur
    BY DEF NotHandled, Cur
  <2>3. Len(inb[Cur]) >= 2
    BY DEF TypeInv, HeadInv
  <2> QED BY <2>1, <2>2, <2>3 DEF TypeInv, InType, HeadInv
<1> QED BY <1>1, <1>2

\* What MUDitM says of the client's compression is a cell.
LEMMA CompressionType == \A on \in BOOLEAN : Compression(on) \in Cell
BY DEF Compression, Cell, Verb, Option

\* So is what it answers to a command.
LEMMA AnswerType ==
    ASSUME TypeInv, pc = "match", NEW verb \in Verb
    PROVE  Command(verb, Buffer[2].cell[2]) \in Seq(Cell)
<1>1. Buffer[2] \in Input
  <2>1. 2 \in 1 .. Len(Buffer)
    BY BufferType DEF TypeInv, HeadInv, Buffer
  <2> QED BY <2>1, BufferType, ElementOfSeq
<1>2. Buffer[2].cell \in Cell
  BY <1>1 DEF Input
<1>3. Buffer[2].cell[2] \in Option
  BY <1>2 DEF Cell
<1> QED BY <1>3, CommandType

\* The fallback
LEMMA TypeFallback == TypeInv /\ CheckFallback => TypeInv'
<1> SUFFICES ASSUME TypeInv, CheckFallback PROVE TypeInv'
  OBVIOUS
<1>1. ControlType' /\ HeadInv'
  BY DEF CheckFallback, TypeInv, ControlType, HeadInv
<1>2. OutType'
  <2>1. CASE UNCHANGED outVars
    BY <2>1 DEF TypeInv, OutType, outVars
  <2>2. CASE Flush("game", Command("WILL", "NEWENV"))
    <3>1. Command("WILL", "NEWENV") \in Seq(Cell)
      BY CommandType DEF Verb, Option
    <3> QED BY <2>2, <3>1, FlushType DEF TypeInv, Side
  <2> QED BY <2>1, <2>2 DEF CheckFallback, outVars
<1>3. NegoType' /\ ZlibType'
  BY DEF CheckFallback, TypeInv, NegoType, ZlibType, faultVars
<1>4. PeerType' /\ InType'
  BY DEF CheckFallback, TypeInv, PeerType, InType, peerVars
<1> QED BY <1>1, <1>2, <1>3, <1>4 DEF TypeInv

\* So are the variables MUDitM reports.
LEMMA ReportType == ReportVars \in Seq(Cell)
<1> DEFINE S == {<<"IPADDRESS", "">>}
<1>1. <<"IPADDRESS", "">> \in Cell
  BY DEF Cell, Verb, Option
<1>2. ReportVars \in Seq(S)
  BY CellsAssumption
<1>3. \A e \in S : e \in Cell
  BY <1>1, Zenon
<1> HIDE DEF S
<1>4. \A i \in 1 .. Len(ReportVars) : ReportVars[i] \in S
  BY <1>2, ElementOfSeq
<1>5. /\ Len(ReportVars) \in Nat
      /\ ReportVars = [i \in 1 .. Len(ReportVars) |-> ReportVars[i]]
  BY <1>2
<1> QED BY <1>3, <1>4, <1>5, SequenceType

\* So is what the game is told of the client.
LEMMA RequestType ==
    <<<<"PROXY_NAME", "">>, Compression(mccp_nego = "ACCEPTED")>> \o ReportVars
        \in Seq(Cell)
<1>1. <<"PROXY_NAME", "">> \in Cell
  BY DEF Cell, Verb, Option
<1>2. Compression(mccp_nego = "ACCEPTED") \in Cell
  BY CompressionType
<1>3. <<<<"PROXY_NAME", "">>, Compression(mccp_nego = "ACCEPTED")>> \in Seq(Cell)
  BY <1>1, <1>2, Zenon, TwoType
<1> QED BY <1>3, ReportType, ConcatProperties

\* The handlers of NEW-ENVIRON
LEMMA TypeMnes ==
    ASSUME TypeInv, MnesRequest \/ MnesDoes \/ MnesClientWill \/ MnesClientWont
    PROVE  TypeInv'
<1>1. pc = "match" /\ (Handled \/ NotHandled)
  BY DEF MnesRequest, MnesDoes, MnesClientWill, MnesClientWont, Matched
<1>2. ControlType' /\ InType' /\ HeadInv'
  BY <1>1, MatchExits
<1>3. PeerType'
  BY DEF MnesRequest, MnesDoes, MnesClientWill, MnesClientWont, TypeInv,
     PeerType, peerVars
<1>4. NegoType' /\ ZlibType'
  BY DEF MnesRequest, MnesDoes, MnesClientWill, MnesClientWont, TypeInv,
     NegoType, ZlibType, negoVars, faultVars
<1>5. OutType'
  <2>1. CASE MnesRequest
    BY <2>1, RequestType, FlushType DEF MnesRequest, TypeInv, Side
  <2>2. CASE MnesDoes \/ MnesClientWill
    BY <2>2 DEF MnesDoes, MnesClientWill, TypeInv, OutType, outVars
  <2>3. CASE MnesClientWont
    <3>1. Command("WILL", "NEWENV") \in Seq(Cell)
      BY CommandType DEF Verb, Option
    <3> QED BY <2>3, <3>1, FlushType DEF MnesClientWont, TypeInv, Side
  <2> QED BY <2>1, <2>2, <2>3
<1> QED BY <1>2, <1>3, <1>4, <1>5 DEF TypeInv

\* The answers to offers of compression
LEMMA TypeRespond ==
    ASSUME TypeInv, RespondDont \/ RespondDo \/ RespondWont
    PROVE  TypeInv'
<1>1. PICK verb \in {"DO", "DONT", "WONT"} : pc = "match" /\ Respond(verb)
  BY DEF RespondDont, RespondDo, RespondWont, Matched
<1>2. verb \in Verb
  BY DEF Verb
<1>3. ControlType' /\ InType' /\ HeadInv'
  BY <1>1, MatchExits DEF Respond
<1>4. OutType'
  BY <1>1, <1>2, AnswerType, CurType, FlushType DEF Respond, TypeInv
<1>5. NegoType' /\ PeerType' /\ ZlibType'
  BY <1>1 DEF Respond, TypeInv, NegoType, PeerType, ZlibType, negoVars, peerVars,
     faultVars
<1> QED BY <1>3, <1>4, <1>5 DEF TypeInv

\* The two starts of the game's zlib stream
LEMMA TypeStreams ==
    ASSUME TypeInv, MccpIgnore \/ Mccp2SbStart
    PROVE  TypeInv'
<1>1. pc = "match" /\ (Handled \/ NotHandled)
  BY DEF MccpIgnore, Mccp2SbStart, Matched
<1>2. ControlType' /\ InType' /\ HeadInv'
  BY <1>1, MatchExits
<1>3. OutType' /\ PeerType'
  BY DEF MccpIgnore, Mccp2SbStart, TypeInv, OutType, PeerType, outVars, peerVars
<1>4. NegoType'
  BY DEF MccpIgnore, Mccp2SbStart, TypeInv, NegoType, negoVars
<1>5. ZlibType'
  <2>1. <<>> \in Seq(Input)
    BY EmptySeq
  <2>2. UNCHANGED <<deadline, dry, zfails>>
    BY DEF MccpIgnore, Mccp2SbStart, faultVars
  <2>3. \/ UNCHANGED inflate
        \/ inflate' = [on |-> TRUE, pos |-> 0, bad |-> FALSE, held |-> <<>>,
                        spent |-> FALSE]
    BY DEF MccpIgnore, Mccp2SbStart
  <2>4. inflate' \in [on: BOOLEAN, pos: Nat, bad: BOOLEAN, held: Seq(Input),
                      spent: BOOLEAN]
    <3>1. CASE UNCHANGED inflate
      BY <3>1 DEF TypeInv, ZlibType
    <3>2. CASE inflate' = [on |-> TRUE, pos |-> 0, bad |-> FALSE, held |-> <<>>,
                           spent |-> FALSE]
      BY <2>1, <3>2
    <3> QED BY <2>3, <3>1, <3>2
  <2> QED BY <2>2, <2>4 DEF TypeInv, ZlibType
<1> QED BY <1>2, <1>3, <1>4, <1>5 DEF TypeInv

\* What is written across for a match that has been popped
Spared == [i \in 1 .. 2 |-> IF i <= Len(After(Buffer, 2)) THEN After(Buffer, 2)[i]
                            ELSE Buffer[i]]

\* It consists of what the peer has sent.
LEMMA SparedType ==
    ASSUME TypeInv, pc = "match"
    PROVE  Spared \in Seq(Input) /\ Spared \in Seq(Element)
<1> DEFINE rest == After(Buffer, 2)
<1>1. rest \in Seq(Input) /\ Len(rest) \in Nat
  <2>1. 2 \in Nat
    OBVIOUS
  <2> QED BY <2>1, BufferType, AfterType, LenProperties
<1>2. Spared = [i \in 1 .. 2 |-> IF i <= Len(rest) THEN rest[i] ELSE Buffer[i]]
  BY DEF Spared
<1> HIDE DEF rest
<1>3. ASSUME NEW i \in 1 .. 2
      PROVE  (IF i <= Len(rest) THEN rest[i] ELSE Buffer[i]) \in Input
  <2>1. i \in 1 .. Len(Buffer)
    BY BufferType DEF TypeInv, HeadInv, Buffer
  <2>2. Buffer[i] \in Input
    BY <2>1, BufferType, ElementOfSeq
  <2>3. i <= Len(rest) => rest[i] \in Input
    BY <1>1, ElementOfSeq
  <2> QED BY <2>2, <2>3
<1>4. Spared = [i \in 1 .. 2 |-> Spared[i]] /\ \A i \in 1 .. 2 : Spared[i] \in Input
  BY <1>2, <1>3
<1>5. Spared \in Seq(Input)
  BY <1>4, SequenceType
<1> QED BY <1>5, InputType

\* zlib fails to start.
LEMMA TypeInitFails ==
    ASSUME TypeInv, Mccp2DoFails \/ Mccp2SbStartFails
    PROVE  TypeInv'
<1>1. pc = "match" /\ InitFails
  BY DEF Mccp2DoFails, Mccp2SbStartFails, DoMatched, Matched
<1>2. Write(Other(Cur), Spared)
  BY <1>1 DEF InitFails, Spared
<1>3. Spared \in Seq(Element)
  BY <1>1, SparedType
<1>4. OutType'
  BY <1>1, <1>2, <1>3, CurType, WriteType DEF InitFails, TypeInv
<1>5. InType'
  BY <1>1, PopType DEF InitFails, TypeInv
<1>6. Moves({"top", "serve", "scan"})
  BY <1>1, Exits DEF InitFails, TypeInv
<1>7. NegoType' /\ PeerType' /\ ZlibType'
  BY <1>1 DEF InitFails, TypeInv, NegoType, PeerType, ZlibType, negoVars, peerVars
<1> QED BY <1>4, <1>5, <1>6, <1>7 DEF TypeInv, Moves, HeadInv

\* What the steps that relay write across
LEMMA RelayWrites ==
    ASSUME TypeInv,
           ScanNoMatch \/ ScanMatch \/ Forward \/ Mccp2DoFails \/ Mccp2SbStartFails
    PROVE  \E data \in Seq(Input) : Write(Other(Cur), data)
<1>1. CASE ScanNoMatch
  BY <1>1, BufferType DEF ScanNoMatch
<1>2. CASE ScanMatch
  <2> DEFINE at == Least(Hits(Cur, Buffer))
  <2>1. at \in 1 .. Len(Buffer) - 1
    BY <1>2, MatchIn DEF ScanMatch
  <2>2. Write(Other(Cur), SubSeq(Buffer, 1, at - 1))
    BY <1>2 DEF ScanMatch
  <2> HIDE DEF at
  <2>3. at - 1 \in 0 .. Len(Buffer)
    BY <2>1, BufferType
  <2> QED BY <2>2, <2>3, BufferType
<1>3. CASE Forward
  <2>1. 2 \in 0 .. Len(Buffer)
    BY <1>3, BufferType DEF Forward, TypeInv, HeadInv, Buffer
  <2> QED BY <1>3, <2>1, BufferType DEF Forward
<1>4. CASE Mccp2DoFails \/ Mccp2SbStartFails
  <2>1. pc = "match" /\ InitFails
    BY <1>4 DEF Mccp2DoFails, Mccp2SbStartFails, DoMatched, Matched
  <2> QED BY <2>1, SparedType DEF InitFails, Spared
<1> QED BY <1>1, <1>2, <1>3, <1>4

\* A value for each side
LEMMA BothType ==
    ASSUME NEW S, NEW c \in S, NEW g \in S
    PROVE  [client |-> c, game |-> g] \in [Side -> S]
BY DEF Side

\* What Mccp2Do does with the two output buffers
BothFlushed(marker, k, news, m) ==
    /\ marker = outq["client"] \o Own(Command("SB", "MCCP2"))
    /\ news = outq["game"] \o Own(<<Compression(TRUE)>>)
    /\ shorts' = shorts + Short("client", marker, k) + Short("game", news, m)
    /\ errno' = IF m = 0 THEN Error("game", news, m)
                ELSE Error("client", marker, k)
    /\ sent' = [client |-> sent["client"] \o SubSeq(marker, 1, k),
                game |-> sent["game"] \o SubSeq(news, 1, m)]
    /\ outq' = [client |-> After(marker, k), game |-> After(news, m)]
    /\ deflate' = [on |-> TRUE, gen |-> deflate.gen + 1, pos |-> 0]

\* It does, if it does anything to them.
LEMMA DoType ==
    ASSUME TypeInv, Mccp2Do, ~UNCHANGED outVars
    PROVE  /\ ~deflate.on
           /\ \E marker \in Seq(Element), news \in Seq(Element) :
                \E k \in Takes("client", marker), m \in Takes("game", news) :
                    BothFlushed(marker, k, news, m)
<1> DEFINE marker == outq["client"] \o Own(Command("SB", "MCCP2"))
           news == outq["game"] \o Own(<<Compression(TRUE)>>)
<1>1. marker \in Seq(Element) /\ news \in Seq(Element)
  <2>1. Command("SB", "MCCP2") \in Seq(Cell)
    BY CommandType DEF Verb, Option
  <2>2. <<Compression(TRUE)>> \in Seq(Cell)
    BY CompressionType, Single
  <2> QED BY <2>1, <2>2, QueueType DEF TypeInv, Side
<1>2. PICK k \in Takes("client", marker), m \in Takes("game", news) :
        /\ shorts' = shorts + Short("client", marker, k) + Short("game", news, m)
        /\ errno' = IF m = 0 THEN Error("game", news, m)
                    ELSE Error("client", marker, k)
        /\ sent' = [client |-> sent["client"] \o SubSeq(marker, 1, k),
                    game |-> sent["game"] \o SubSeq(news, 1, m)]
        /\ outq' = [client |-> After(marker, k), game |-> After(news, m)]
        /\ deflate' = [on |-> TRUE, gen |-> deflate.gen + 1, pos |-> 0]
  BY DEF Mccp2Do, outVars
<1>3. BothFlushed(marker, k, news, m)
  BY <1>2 DEF BothFlushed
<1>4. ~deflate.on
  BY DEF Mccp2Do, outVars
<1> HIDE DEF marker, news
<1> QED BY <1>1, <1>3, <1>4

\* The client's DO
LEMMA TypeDo == TypeInv /\ Mccp2Do => TypeInv'
<1> SUFFICES ASSUME TypeInv, Mccp2Do PROVE TypeInv'
  OBVIOUS
<1>1. pc = "match" /\ Handled
  BY DEF Mccp2Do, DoMatched, Matched
<1>2. ControlType' /\ InType' /\ HeadInv'
  BY <1>1, MatchExits
<1>3. NegoType' /\ PeerType' /\ ZlibType'
  BY DEF Mccp2Do, TypeInv, NegoType, PeerType, ZlibType, peerVars, faultVars
<1>4. OutType'
  <2>1. CASE UNCHANGED outVars
    BY <2>1 DEF TypeInv, OutType, outVars
  <2>2. CASE ~UNCHANGED outVars
    <3> PICK marker \in Seq(Element), news \in Seq(Element) :
          \E k \in Takes("client", marker), m \in Takes("game", news) :
            BothFlushed(marker, k, news, m)
      BY <2>2, DoType
    <3>1. PICK k \in Takes("client", marker), m \in Takes("game", news) :
            BothFlushed(marker, k, news, m)
      OBVIOUS
    <3>2. /\ shorts' = shorts + Short("client", marker, k)
                             + Short("game", news, m)
          /\ errno' = IF m = 0 THEN Error("game", news, m)
                      ELSE Error("client", marker, k)
          /\ sent' = [client |-> sent["client"] \o SubSeq(marker, 1, k),
                      game |-> sent["game"] \o SubSeq(news, 1, m)]
          /\ outq' = [client |-> After(marker, k), game |-> After(news, m)]
          /\ deflate' = [on |-> TRUE, gen |-> deflate.gen + 1, pos |-> 0]
      BY <3>1 DEF BothFlushed
    <3>3. k \in 0 .. Len(marker) /\ m \in 0 .. Len(news)
      BY <3>1, <3>2, TakesType
    <3>4. k \in Nat /\ m \in Nat
      BY <3>3
    <3>5. After(marker, k) \in Seq(Element) /\ After(news, m) \in Seq(Element)
      BY <3>1, <3>4, AfterType
    <3>6. /\ sent["client"] \o SubSeq(marker, 1, k) \in Seq(Element)
          /\ sent["game"] \o SubSeq(news, 1, m) \in Seq(Element)
      <4>1. sent["client"] \in Seq(Element) /\ sent["game"] \in Seq(Element)
        BY DEF TypeInv, OutType, Side
      <4>2. SubSeq(marker, 1, k) \in Seq(Element) /\ SubSeq(news, 1, m) \in Seq(Element)
        BY <3>1, <3>3, UpToType
      <4> QED BY <4>1, <4>2, ConcatProperties
    <3>7. sent' \in [Side -> Seq(Element)] /\ outq' \in [Side -> Seq(Element)]
      BY <3>2, <3>5, <3>6, BothType, Zenon
    <3>8. shorts' \in Nat
      <4>1. Short("client", marker, k) \in Nat /\ Short("game", news, m) \in Nat
        BY DEF Short
      <4>2. shorts' = shorts + Short("client", marker, k) + Short("game", news, m)
        BY <3>2
      <4>3. shorts \in Nat
        BY DEF TypeInv, OutType
      <4> QED BY <4>1, <4>2, <4>3
    <3>9. errno' \in {"none", "EAGAIN", "EINTR", "EPIPE", "ECONNRESET"}
      BY <3>2 DEF Error, TypeInv, OutType
    <3>10. deflate' \in [on: BOOLEAN, gen: Nat, pos: Nat]
      <4>1. deflate.gen + 1 \in Nat
        BY DEF TypeInv, OutType
      <4>2. deflate' = [on |-> TRUE, gen |-> deflate.gen + 1, pos |-> 0]
        BY <3>2
      <4> QED BY <4>1, <4>2
    <3> QED BY <3>7, <3>8, <3>9, <3>10 DEF OutType
  <2> QED BY <2>1, <2>2
<1> QED BY <1>2, <1>3, <1>4 DEF TypeInv

\* The client's DONT
LEMMA TypeDont == TypeInv /\ Mccp2Dont => TypeInv'
<1> SUFFICES ASSUME TypeInv, Mccp2Dont PROVE TypeInv'
  OBVIOUS
<1>1. pc = "match" /\ Handled
  BY DEF Mccp2Dont, DontMatched, Matched
<1>2. ControlType' /\ InType' /\ HeadInv'
  BY <1>1, MatchExits
<1>3. NegoType' /\ PeerType' /\ ZlibType'
  BY DEF Mccp2Dont, TypeInv, NegoType, PeerType, ZlibType, peerVars, faultVars
<1>4. OutType'
  <2>1. <<Compression(FALSE)>> \in Seq(Cell)
    BY CompressionType, Single
  <2>2. /\ outq' \in [Side -> Seq(Element)] /\ sent' \in [Side -> Seq(Element)]
        /\ shorts' \in Nat
        /\ errno' \in {"none", "EAGAIN", "EINTR", "EPIPE", "ECONNRESET"}
    BY <2>1, FlushQueueType DEF Mccp2Dont, TypeInv, Side
  <2>3. deflate' \in [on: BOOLEAN, gen: Nat, pos: Nat]
    BY DEF Mccp2Dont, TypeInv, OutType
  <2> QED BY <2>2, <2>3 DEF OutType
<1> QED BY <1>2, <1>3, <1>4 DEF TypeInv

\* The game's zlib stream goes on.
LEMMA ZipType ==
    ASSUME NEW z \in [on: BOOLEAN, pos: Nat], NEW n \in Nat
    PROVE  /\ [z EXCEPT !.on = TRUE] \in [on: BOOLEAN, pos: Nat]
           /\ [z EXCEPT !.pos = n] \in [on: BOOLEAN, pos: Nat]
OBVIOUS

\* What a peer sends at once, after n cells before: the cells of m, inside its
\* zlib stream or not
Fresh(m, n, zipped, g) ==
    [i \in DOMAIN m |->
        [cell |-> m[i], src |-> n + i, enc |-> IF zipped THEN -1 ELSE 0,
         pos |-> IF zipped THEN g + i ELSE 0]]

\* It is what peers may send.
LEMMA FreshType ==
    ASSUME NEW m \in Seq(Cell), NEW n \in Nat, NEW zipped \in BOOLEAN, NEW g \in Nat
    PROVE  /\ Fresh(m, n, zipped, g) \in Seq(Input)
           /\ Len(Fresh(m, n, zipped, g)) = Len(m) /\ Len(m) \in Nat
           /\ \A i \in 1 .. Len(m) : Fresh(m, n, zipped, g)[i].src = n + i
<1> DEFINE new == Fresh(m, n, zipped, g)
<1>1. Len(m) \in Nat /\ DOMAIN m = 1 .. Len(m)
  BY LenProperties
<1>2. ASSUME NEW i \in 1 .. Len(m) PROVE new[i] \in Input /\ new[i].src = n + i
  <2>1. m[i] \in Cell
    BY ElementOfSeq
  <2>2. n + i \in Nat /\ n + i > 0 /\ g + i \in Nat
    OBVIOUS
  <2>3. new[i] = [cell |-> m[i], src |-> n + i, enc |-> IF zipped THEN -1 ELSE 0,
                  pos |-> IF zipped THEN g + i ELSE 0]
    BY <1>1 DEF Fresh
  <2>4. /\ [cell |-> m[i], src |-> n + i, enc |-> -1, pos |-> g + i] \in Input
        /\ [cell |-> m[i], src |-> n + i, enc |-> 0, pos |-> 0] \in Input
    BY <2>1, <2>2, NewInput
  <2> HIDE DEF new
  <2>5. CASE zipped
    BY <2>3, <2>4, <2>5
  <2>6. CASE ~zipped
    BY <2>3, <2>4, <2>6
  <2> QED BY <2>5, <2>6
<1>3. new = [i \in 1 .. Len(m) |-> new[i]]
  BY <1>1 DEF Fresh
<1> HIDE DEF new
<1>4. new \in Seq(Input) /\ Len(new) = Len(m)
  BY <1>1, <1>2, <1>3, SequenceType
<1> QED BY <1>1, <1>2, <1>4 DEF new

\* The steps in which side s sends something
Sends(s) == Send(s) \/ (s = "game" /\ (GameCompresses \/ GameEndsZlib))

\* Every command in it follows its IAC.
Telnet(m) == \A i \in DOMAIN m : m[i] \in CommandCell => i > 1 /\ m[i - 1] = IAC

\* The game begins its zlib stream only when told to, and what it first sends
\* inside it comes alone if nothing may follow the start marker at once.  It
\* sends a message, the end of its zlib stream, or the marker, and that once.
Zips(s, m, zipped) ==
    /\ gz' \in [on: BOOLEAN, pos: Nat]
    /\ gz'.pos = IF zipped THEN gz.pos + Len(m) ELSE gz.pos
    /\ zipped => /\ s = "game" /\ gz.on
                 /\ MayCoalesce \/ gz.pos > 0 \/ net["game"] = <<>>
    /\ gz'.on /\ ~gz.on =>
          /\ s = "game" /\ ~zipped /\ m = Command("SB", "MCCP2")
          /\ \E i \in DOMAIN sent["game"] : sent["game"][i].cell = <<"DO", "MCCP2">>
    /\ \/ m \in Messages[s] /\ gz'.on = gz.on
       \/ m = <<StreamEnd>> /\ gz'.pos > 0
       \/ m = Command("SB", "MCCP2") /\ ~gz.on /\ gz.pos = 0 /\ gz'.on

\* What they send
LEMMA SendsFresh ==
    ASSUME TypeInv, NEW s \in Side, Sends(s)
    PROVE  \E m \in Seq(Cell), zipped \in BOOLEAN :
              /\ net' = [net EXCEPT ![s] = net[s] \o Fresh(m, stamp[s], zipped, gz.pos)]
              /\ stamp' = [stamp EXCEPT ![s] = stamp[s] + Len(m)]
              /\ Telnet(m) /\ Zips(s, m, zipped)
              /\ UNCHANGED link
<1>0. stamp[s] \in Nat /\ gz \in [on: BOOLEAN, pos: Nat] /\ gz.pos \in Nat
  BY DEF TypeInv, PeerType
<1>1. CASE Send(s)
  <2> DEFINE z == s = "game" /\ gz.on
  <2>1. PICK m \in Messages[s] :
          /\ net' = [net EXCEPT ![s] = net[s] \o
                [i \in DOMAIN m |->
                    [cell |-> m[i], src |-> stamp[s] + i,
                     enc |-> IF z THEN -1 ELSE 0, pos |-> IF z THEN gz.pos + i ELSE 0]]]
          /\ stamp' = [stamp EXCEPT ![s] = stamp[s] + Len(m)]
          /\ gz' = IF z THEN [gz EXCEPT !.pos = gz.pos + Len(m)] ELSE gz
          /\ z => MayCoalesce \/ gz.pos > 0 \/ net["game"] = <<>>
          /\ UNCHANGED link
    BY <1>1 DEF Send
  <2>2. m \in Seq(Cell) /\ Telnet(m)
    BY CellsAssumption, TelnetAssumption DEF Telnet
  <2>6. z => s = "game" /\ gz.on
    OBVIOUS
  <2>3. z \in BOOLEAN
    BY Zenon
  <2> HIDE DEF z
  <2>4. net' = [net EXCEPT ![s] = net[s] \o Fresh(m, stamp[s], z, gz.pos)]
    BY <2>1 DEF Fresh
  <2>5. gz' \in [on: BOOLEAN, pos: Nat]
    <3>1. gz.pos + Len(m) \in Nat
      BY <1>0, <2>2, LenProperties
    <3> QED BY <1>0, <2>1, <3>1, ZipType
  <2>7. gz'.on = gz.on /\ gz'.pos = IF z THEN gz.pos + Len(m) ELSE gz.pos
    BY <1>0, <2>1
  <2>8. Zips(s, m, z)
    BY <2>1, <2>5, <2>6, <2>7 DEF Zips
  <2> QED BY <2>1, <2>2, <2>3, <2>4, <2>8
<1>2. CASE s = "game" /\ GameCompresses
  <2> DEFINE m == Command("SB", "MCCP2")
  <2>1. m \in Seq(Cell) /\ Len(m) = 2
    BY CommandType DEF Verb, Option
  <2>2. DOMAIN m = 1 .. 2
    BY <2>1, LenProperties
  <2> HIDE DEF m
  <2>3. Fresh(m, stamp[s], FALSE, gz.pos)
        = [i \in 1 .. 2 |-> [cell |-> m[i], src |-> stamp["game"] + i,
                             enc |-> 0, pos |-> 0]]
    BY <1>2, <2>2 DEF Fresh
  <2>4. /\ net' = [net EXCEPT ![s] = net[s] \o Fresh(m, stamp[s], FALSE, gz.pos)]
        /\ stamp' = [stamp EXCEPT ![s] = stamp[s] + Len(m)]
        /\ UNCHANGED link
    BY <1>2, <2>1, <2>3 DEF GameCompresses, m
  <2>5. gz' \in [on: BOOLEAN, pos: Nat]
    BY <1>0, <1>2, ZipType DEF GameCompresses
  <2>6. Zips(s, m, FALSE)
    BY <1>0, <1>2, <2>5 DEF GameCompresses, Zips, m
  <2>7. m[1] = IAC /\ m[2] = <<"SB", "MCCP2">>
    BY DEF m, Command
  <2>8. Telnet(m)
    <3>1. IAC \notin CommandCell
      BY DEF IAC, CommandCell
    <3>2. \A i \in DOMAIN m : i = 1 \/ (i = 2 /\ i > 1 /\ i - 1 = 1)
      BY <2>2
    <3> QED BY <2>7, <3>1, <3>2 DEF Telnet
  <2> QED BY <2>1, <2>4, <2>6, <2>8
<1>3. CASE s = "game" /\ GameEndsZlib
  <2> DEFINE end == [cell |-> StreamEnd, src |-> stamp["game"] + 1,
                     enc |-> -1, pos |-> gz.pos + 1]
             m == <<StreamEnd>>
  <2>1. m \in Seq(Cell) /\ Len(m) = 1 /\ m[1] = StreamEnd
    <3>1. StreamEnd \in Cell
      BY DEF StreamEnd, Cell, Verb, Option
    <3> QED BY <3>1, Single
  <2>2. DOMAIN m = {1}
    OBVIOUS
  <2> HIDE DEF m
  <2>3. Fresh(m, stamp[s], TRUE, gz.pos) = <<end>>
    BY <1>3, <2>1, <2>2 DEF Fresh
  <2>4. net' = [net EXCEPT ![s] = Append(net[s], end)]
        /\ stamp' = [stamp EXCEPT ![s] = stamp[s] + 1]
        /\ UNCHANGED link
    BY <1>3 DEF GameEndsZlib
  <2>5. Append(net[s], end) = net[s] \o <<end>>
    <3>1. net[s] \in Seq(Input)
      BY DEF TypeInv, PeerType
    <3> HIDE DEF end
    <3> QED BY <3>1
  <2>6. gz' \in [on: BOOLEAN, pos: Nat]
    BY <1>0, <1>3 DEF GameEndsZlib
  <2>9. gz' = [on |-> FALSE, pos |-> gz.pos + 1] /\ gz'.pos > 0
    BY <1>0, <1>3 DEF GameEndsZlib
  <2>7. Zips(s, m, TRUE)
    BY <1>0, <1>3, <2>1, <2>6, <2>9 DEF GameEndsZlib, Zips, m
  <2>8. Telnet(m)
    <3>1. StreamEnd \notin CommandCell
      BY DEF StreamEnd, CommandCell
    <3> QED BY <2>1, <2>2, <3>1 DEF Telnet
  <2> QED BY <2>1, <2>3, <2>4, <2>5, <2>7, <2>8
<1> QED BY <1>1, <1>2, <1>3 DEF Sends

\* The peers and the clock
LEMMA TypeOutside ==
    ASSUME TypeInv, Peer \/ Tick \/ UNCHANGED vars
    PROVE  TypeInv'
<1>1. UNCHANGED <<ctlVars, negoVars, outVars, inb, inflate, faultVars>>
  BY DEF Peer, GameCompresses, GameEndsZlib, Send, HangUp, Tick, vars, ctlVars,
     negoVars, outVars, faultVars
<1>2. ControlType' /\ NegoType' /\ OutType' /\ InType' /\ HeadInv'
  BY <1>1 DEF TypeInv, ControlType, NegoType, OutType, InType, HeadInv, Cur,
     ctlVars, negoVars, outVars
<1>3. ZlibType'
  <2>1. deadline' \in {"unset", "armed", "passed"}
    BY DEF Peer, GameCompresses, GameEndsZlib, Send, HangUp, Tick, vars, TypeInv,
       ZlibType
  <2> QED BY <1>1, <2>1 DEF TypeInv, ZlibType, faultVars
<1>4. PeerType'
  <2> USE DEF TypeInv, PeerType
  <2>1. CASE Tick \/ UNCHANGED vars
    BY <2>1 DEF Tick, vars, peerVars
  <2>2. ASSUME NEW s \in Side, Sends(s) PROVE PeerType'
    <3>1. PICK m \in Seq(Cell), zipped \in BOOLEAN :
            /\ net' = [net EXCEPT ![s] = net[s] \o Fresh(m, stamp[s], zipped, gz.pos)]
            /\ stamp' = [stamp EXCEPT ![s] = stamp[s] + Len(m)]
            /\ gz' \in [on: BOOLEAN, pos: Nat]
            /\ UNCHANGED link
      BY <2>2, SendsFresh DEF Zips
    <3> DEFINE new == Fresh(m, stamp[s], zipped, gz.pos)
    <3>2. new \in Seq(Input) /\ Len(m) \in Nat
      BY FreshType
    <3> HIDE DEF new
    <3>3. net[s] \o new \in Seq(Input)
      BY <3>2, ConcatProperties
    <3>4. net' \in [Side -> Seq(Input)] /\ stamp' \in [Side -> Nat]
      BY <3>1, <3>2, <3>3 DEF new
    <3> QED BY <3>1, <3>4
  <2>3. ASSUME NEW s \in Side, HangUp(s) PROVE PeerType'
    <3>1. PICK how \in HangUps[s] : link' = [link EXCEPT ![s] = how]
      BY <2>3 DEF HangUp
    <3>2. how \in {"open", "closed", "reset"}
      BY ConfigAssumption
    <3> QED BY <2>3, <3>1, <3>2 DEF HangUp
  <2> QED BY <2>1, <2>2, <2>3 DEF Peer, Sends, Side
<1> QED BY <1>2, <1>3, <1>4 DEF TypeInv

\* ... and keeps it.
LEMMA TypeNext == TypeInv /\ [Next]_vars => TypeInv'
<1> SUFFICES ASSUME TypeInv, [Next]_vars PROVE TypeInv'
  OBVIOUS
<1>1. CASE Loop
  BY <1>1, TypeStart, TypeMoves, TypeFallback, TypeRead, TypeReadInflated,
     TypeReadCorrupt, TypeScan DEF Loop
<1>2. CASE Handler
  BY <1>2, TypeMnes, TypeRespond, TypeStreams, TypeInitFails, TypeDo, TypeDont
     DEF Handler
<1>3. CASE PollInterrupted
  BY <1>3, TypeMoves
<1>4. CASE Peer \/ Tick \/ Terminated \/ UNCHANGED vars
  BY <1>4, TypeOutside DEF Terminated
<1> QED BY <1>1, <1>2, <1>3, <1>4 DEF Next

\* So it always has.
LEMMA TypeAlways == Spec => []TypeInv
<1>1. TypeInv /\ UNCHANGED vars => TypeInv'
  BY TypeOutside
<1> QED BY <1>1, TypeInit, TypeNext, PTL DEF Spec

-----------------------------------------------------------------------------
\* Every variable of a session has its type, no input buffer holds more than
\* EP_BUFSIZE, and the session has a result exactly when it is over: for any
\* messages, however they are cut into reads, and with any failures.
THEOREM TypeCorrect == Spec => []TypeOK
<1>1. TypeInv => TypeOK
  <2> SUFFICES ASSUME TypeInv PROVE TypeOK
    OBVIOUS
  <2>1. ASSUME NEW s \in Side
        PROVE  /\ \A i \in DOMAIN inb[s] : inb[s][i] \in Element
               /\ \A i \in DOMAIN outq[s] : outq[s][i] \in Element
               /\ Len(inb[s]) <= BufSize
    <3>1. inb[s] \in Seq(Element) /\ outq[s] \in Seq(Element)
      BY InputType DEF TypeInv, InType, OutType
    <3> QED BY <3>1, LenProperties, ElementOfSeq DEF TypeInv, InType
  <2>2. \A i \in DOMAIN inflate.held : inflate.held[i] \in Element
    <3>1. inflate.held \in Seq(Element)
      BY InputType DEF TypeInv, ZlibType
    <3> QED BY <3>1, LenProperties, ElementOfSeq
  <2>3. /\ inflate.on \in BOOLEAN /\ inflate.bad \in BOOLEAN
        /\ inflate.pos \in Nat /\ inflate.spent \in BOOLEAN
    BY DEF TypeInv, ZlibType
  <2> QED BY <2>1, <2>2, <2>3 DEF TypeOK, TypeInv, ControlType, NegoType, OutType,
       PeerType, InType, ZlibType
<1> QED BY <1>1, TypeAlways, PTL

-----------------------------------------------------------------------------
(* The end of a session.                                                   *)

\* A step other than ReadNothing does not say that a peer has hung up.
LEMMA EndMoves ==
    ASSUME TypeInv, Loop \/ Handler \/ PollInterrupted, ~ReadNothing
    PROVE  ret' # 1
<1>1. CASE Start \/ CheckFallback \/ SetNonblocking \/ Poll \/ PollTimeout \/ PollInterrupted
  <2>1. pc # "done" /\ (ret' = ret \/ ret' = -1)
    BY <1>1 DEF Start, CheckFallback, SetNonblocking, Poll, PollTimeout,
       PollInterrupted, Return
  <2> QED BY <2>1 DEF TypeInv, ControlType
<1>2. CASE Read \/ ReadInflated \/ ReadCorrupt \/ ReadError
  <2>1. pc = "serve" /\ (ret' = ret \/ ret' = -1)
    BY <1>2 DEF Read, ReadInflated, ReadCorrupt, ReadError, Refill, ReadFailed, Return
  <2> QED BY <2>1 DEF TypeInv, ControlType
<1>3. CASE ScanNoMatch \/ ScanPartial \/ ScanMatch \/ Forward
  BY <1>3 DEF ScanNoMatch, ScanPartial, ScanMatch, Forward, Scanning, TypeInv,
     ControlType
<1>4. CASE Handler
  <2>1. pc = "match" /\ ret' = ret
    BY <1>4 DEF Handler, MnesRequest, MnesDoes, MnesClientWill, MnesClientWont,
       RespondDont, RespondDo, RespondWont, Respond, MccpIgnore, Mccp2Do,
       Mccp2DoFails, Mccp2Dont, Mccp2SbStart, Mccp2SbStartFails, InitFails,
       DoMatched, DontMatched, Matched, Handled, NotHandled
  <2> QED BY <2>1 DEF TypeInv, ControlType
<1> QED BY <1>1, <1>2, <1>3, <1>4 DEF Loop

-----------------------------------------------------------------------------
(* The output buffers.                                                     *)

\* A compressed endpoint is the client in mode enable.
ModeInv == deflate.on => mccp_mode["client"] = "enable"

\* What has been queued has been written, but for short writes and peers that
\* have gone.
EmptyInv ==
    shorts = 0 => \A s \in Side : link[s] = "open" => outq[s] = <<>>

\* EAGAIN stands for a fault.
ErrnoInv == errno = "EAGAIN" => dry + shorts > 0

OutputInv == TypeInv /\ ModeInv /\ EmptyInv /\ ErrnoInv /\ BrokenZlibEnds

-----------------------------------------------------------------------------
(* Faults are counted.                                                     *)

\* What every step does to the counters and to errno
Counts ==
    /\ shorts' \in Nat /\ dry' \in Nat
    /\ shorts' >= shorts /\ dry' >= dry
    /\ errno' = "EAGAIN" => errno = "EAGAIN" \/ dry' + shorts' > 0

\* A write that puts out less than it was given counts, if the peer is there.
LEMMA PutCounts ==
    ASSUME TypeInv, NEW s \in Side, NEW data \in Seq(Element),
           NEW k \in 0 .. Len(data), Put(s, data, k), UNCHANGED dry
    PROVE  Counts /\ (shorts' = 0 /\ link[s] = "open" => k = Len(data))
<1>1. shorts \in Nat /\ dry \in Nat /\ Len(data) \in Nat
  BY LenProperties DEF TypeInv, OutType, ZlibType
<1>2. shorts' = shorts + Short(s, data, k) /\ Short(s, data, k) \in {0, 1}
  BY DEF Put, Short
<1>3. link[s] = "open" /\ k < Len(data) => Short(s, data, k) = 1
  BY DEF Short
<1>4. errno' = "EAGAIN" => errno = "EAGAIN" \/ Short(s, data, k) = 1
  <2>1. CASE k > 0 \/ data = <<>>
    BY <2>1 DEF Put, Error
  <2>2. CASE ~(k > 0 \/ data = <<>>) /\ link[s] = "open"
    <3>1. k < Len(data)
      BY <1>1, <2>2, EmptySeq
    <3> QED BY <1>3, <2>2, <3>1
  <2>3. CASE ~(k > 0 \/ data = <<>>) /\ link[s] # "open"
    BY <2>3 DEF Put, Error
  <2> QED BY <2>1, <2>2, <2>3
<1> QED BY <1>1, <1>2, <1>3, <1>4 DEF Counts

\* So does a write of the loop,
LEMMA WriteCounts ==
    ASSUME TypeInv, NEW s \in Side, NEW data \in Seq(Element), Write(s, data),
           UNCHANGED dry
    PROVE  Counts
<1>1. PICK k \in Takes(s, data) : Put(s, data, k)
  BY DEF Write
<1> QED BY <1>1, TakesType, PutCounts

\* and a flush, which leaves nothing behind if it counts nothing.
LEMMA FlushCounts ==
    ASSUME TypeInv, EmptyInv, NEW s \in Side, NEW cells \in Seq(Cell),
           FlushQueue(s, cells), ~Compressed(s), UNCHANGED <<dry, link>>
    PROVE  Counts /\ EmptyInv'
<1> DEFINE data == outq[s] \o Own(cells)
<1>1. data \in Seq(Element)
  BY QueueType DEF TypeInv
<1>2. PICK k \in Takes(s, data) :
        Put(s, data, k) /\ outq' = [outq EXCEPT ![s] = After(data, k)]
  BY DEF FlushQueue
<1> HIDE DEF data
<1>3. k \in 0 .. Len(data) /\ k \in Nat
  BY <1>1, TakesType
<1>4. Counts /\ (shorts' = 0 /\ link[s] = "open" => k = Len(data))
  BY <1>1, <1>2, <1>3, PutCounts
<1>5. EmptyInv'
  <2> SUFFICES ASSUME shorts' = 0, NEW t \in Side, link'[t] = "open"
               PROVE  outq'[t] = <<>>
    BY DEF EmptyInv
  <2>1. shorts = 0
    BY <1>4 DEF Counts, TypeInv, OutType
  <2>2. CASE t # s
    BY <1>2, <2>1, <2>2 DEF EmptyInv
  <2>3. CASE t = s
    <3>1. k = Len(data)
      BY <1>4, <2>3
    <3>2. After(data, k) = <<>>
      BY <1>1, <1>3, <3>1, SubSeqEmpty, LenProperties DEF After
    <3>3. outq'[s] = After(data, k)
      BY <1>2 DEF TypeInv, OutType
    <3> QED BY <2>3, <3>2, <3>3
  <2> QED BY <2>2, <2>3
<1> QED BY <1>4, <1>5

\* A step that leaves the buffers and the peers alone keeps what is empty so.
LEMMA EmptyKept ==
    ASSUME TypeInv, EmptyInv, Counts, UNCHANGED <<outq, link>>
    PROVE  EmptyInv'
<1>1. shorts' = 0 => shorts = 0
  BY DEF Counts, TypeInv, OutType
<1> QED BY <1>1 DEF EmptyInv

\* A step that reads and writes nothing counts nothing.
LEMMA NothingCounts ==
    ASSUME TypeInv, UNCHANGED <<shorts, dry>>, errno' = errno \/ errno' # "EAGAIN"
    PROVE  Counts
BY DEF Counts, TypeInv, OutType, ZlibType

-----------------------------------------------------------------------------
(* What a step leaves alone.                                               *)

Idle == /\ Counts /\ EmptyInv' /\ ModeInv'
        /\ pc # "done"
        /\ inflate'.bad => inflate.bad

\* Two counters that grow
LEMMA Growing ==
    ASSUME NEW a \in Nat, NEW b \in Nat, NEW c \in Nat, NEW d \in Nat,
           c >= a, d >= b, a + b > 0
    PROVE  c + d > 0
OBVIOUS

\* The step after which a zlib stream is broken
BrokenStep == /\ Counts /\ EmptyInv' /\ ModeInv'
              /\ UNCHANGED <<shorts, dry, errno>>
              /\ errno = "EAGAIN" \/ pc' = "done"

\* After such a step the session goes on, if it does, for the same reason.
LEMMA IdleKeeps == OutputInv /\ Idle /\ TypeInv' => OutputInv'
<1> SUFFICES ASSUME OutputInv, Idle, TypeInv' PROVE OutputInv'
  OBVIOUS
<1>1. /\ shorts \in Nat /\ dry \in Nat /\ shorts' \in Nat /\ dry' \in Nat
      /\ shorts' >= shorts /\ dry' >= dry
  BY DEF OutputInv, TypeInv, OutType, ZlibType, Idle, Counts
<1>2. dry + shorts > 0 => dry' + shorts' > 0
  BY <1>1, Growing
<1>3. ErrnoInv'
  BY <1>2 DEF OutputInv, ErrnoInv, Idle, Counts
<1>4. BrokenZlibEnds'
  BY <1>2 DEF OutputInv, BrokenZlibEnds, Idle
<1> QED BY <1>3, <1>4 DEF OutputInv, Idle

\* Zlib does not start by itself.
LEMMA ModeKept ==
    ASSUME OutputInv, UNCHANGED mccp_mode,
           deflate' = deflate \/ \E s, n : deflate' = Deflated(s, n)
    PROVE  ModeInv'
<1>1. deflate'.on = deflate.on
  BY DEF Deflated, OutputInv, TypeInv, OutType
<1> QED BY <1>1 DEF OutputInv, ModeInv

\* The steps that write nothing
LEMMA SilentIdle ==
    ASSUME OutputInv,
           \/ Start \/ SetNonblocking \/ Poll \/ PollTimeout \/ PollInterrupted
           \/ Read \/ ReadInflated \/ ReadNothing \/ ReadError \/ ScanPartial
           \/ MnesDoes \/ MnesClientWill \/ MccpIgnore \/ Mccp2SbStart
    PROVE  Idle
<1> USE DEF OutputInv
<1>1. UNCHANGED <<outq, link, deflate, mccp_mode>> /\ pc # "done"
  BY DEF Start, SetNonblocking, Poll, PollTimeout, PollInterrupted, Read,
     ReadInflated, Refill, ReadNothing, ReadError, ScanPartial, Scanning,
     MnesDoes, MnesClientWill, MccpIgnore, Mccp2SbStart, Matched, outVars,
     negoVars, peerVars
<1>2. inflate'.bad => inflate.bad
  <2>1. CASE ReadInflated
    BY <2>1 DEF ReadInflated, TypeInv, ZlibType
  <2>2. CASE Mccp2SbStart
    BY <2>2 DEF Mccp2SbStart
  <2>3. CASE ~ReadInflated /\ ~Mccp2SbStart
    BY <2>3 DEF Start, SetNonblocking, Poll, PollTimeout, PollInterrupted, Read,
       ReadNothing, ReadError, ScanPartial, MnesDoes, MnesClientWill, MccpIgnore
  <2> QED BY <2>1, <2>2, <2>3
<1>3. Counts
  <2>1. CASE ReadError
    <3>1. dry \in Nat /\ shorts \in Nat /\ UNCHANGED shorts
      BY <2>1 DEF TypeInv, ZlibType, OutType, ReadError
    <3>2. \/ dry' = dry + 1
          \/ errno' = "ECONNRESET" /\ UNCHANGED dry
      BY <2>1 DEF ReadError
    <3> QED BY <3>1, <3>2 DEF Counts
  <2>2. CASE ~ReadError
    <3>1. UNCHANGED <<shorts, dry>> /\ (errno' = errno \/ errno' # "EAGAIN")
      BY <2>2 DEF Start, SetNonblocking, Poll, PollTimeout, PollInterrupted, Read,
         ReadInflated, ReadNothing, ScanPartial, MnesDoes, MnesClientWill,
         MccpIgnore, Mccp2SbStart, outVars, faultVars
    <3> QED BY <3>1, NothingCounts
  <2> QED BY <2>1, <2>2
<1>4. EmptyInv'
  BY <1>1, <1>3, EmptyKept
<1>5. ModeInv'
  BY <1>1, ModeKept
<1> QED BY <1>1, <1>2, <1>3, <1>4, <1>5 DEF Idle

\* The steps that relay
LEMMA RelayIdle ==
    ASSUME OutputInv,
           ScanNoMatch \/ ScanMatch \/ Forward \/ Mccp2DoFails \/ Mccp2SbStartFails
    PROVE  Idle
<1> USE DEF OutputInv
<1>1. \E data \in Seq(Element) : Write(Other(Cur), data)
  BY RelayWrites, InputType
<1>2. /\ UNCHANGED <<outq, link, inflate, mccp_mode, dry>> /\ pc # "done"
  BY DEF ScanNoMatch, ScanMatch, Forward, Mccp2DoFails, Mccp2SbStartFails,
     DoMatched, Matched, InitFails, Scanning, negoVars, peerVars, faultVars
<1>3. Counts
  BY <1>1, <1>2, CurType, WriteCounts
<1>4. EmptyInv'
  BY <1>2, <1>3, EmptyKept
<1>5. ModeInv'
  BY <1>1, <1>2, ModeKept DEF Write
<1> QED BY <1>2, <1>3, <1>4, <1>5 DEF Idle

\* The steps that flush what they have to say to a peer whose stream is plain
LEMMA FlushIdle ==
    ASSUME OutputInv, NEW s \in Side, NEW cells \in Seq(Cell),
           Flush(s, cells), s = "game" \/ mccp_mode["client"] # "enable",
           UNCHANGED <<link, inflate, mccp_mode, dry>>, pc # "done"
    PROVE  Idle
<1> USE DEF OutputInv
<1>1. ~Compressed(s)
  BY DEF Compressed, ModeInv
<1>2. Counts /\ EmptyInv'
  BY <1>1, FlushCounts DEF Flush
<1>3. ModeInv'
  BY ModeKept DEF Flush
<1> QED BY <1>2, <1>3 DEF Idle

\* All of them
LEMMA SpeakIdle ==
    ASSUME OutputInv,
           CheckFallback \/ MnesRequest \/ MnesClientWont
           \/ RespondDont \/ RespondDo \/ RespondWont
    PROVE  Idle
<1> USE DEF OutputInv
<1>1. UNCHANGED <<link, inflate, mccp_mode, dry>> /\ pc # "done"
  BY DEF CheckFallback, MnesRequest, MnesClientWont, RespondDont, RespondDo,
     RespondWont, Respond, Matched, negoVars, peerVars, faultVars
<1>2. Command("WILL", "NEWENV") \in Seq(Cell)
  BY CommandType DEF Verb, Option
<1>3. CASE CheckFallback
  <2>1. CASE UNCHANGED outVars
    <3>1. Counts
      BY <1>1, <2>1, NothingCounts DEF outVars
    <3> QED BY <1>1, <2>1, <3>1, EmptyKept, ModeKept DEF Idle, outVars
  <2>2. CASE Flush("game", Command("WILL", "NEWENV"))
    BY <1>1, <1>2, <2>2, FlushIdle DEF Side
  <2> QED BY <1>3, <2>1, <2>2 DEF CheckFallback, outVars
<1>4. CASE MnesRequest
  BY <1>1, <1>4, RequestType, FlushIdle DEF MnesRequest, Side
<1>5. CASE MnesClientWont
  BY <1>1, <1>2, <1>5, FlushIdle DEF MnesClientWont, Side
<1>6. CASE RespondDont \/ RespondDo \/ RespondWont
  <2>1. PICK verb \in {"DO", "DONT", "WONT"} :
          /\ pc = "match" /\ Respond(verb)
          /\ Cur = "game" \/ mccp_mode["client"] # "enable"
    BY <1>6 DEF RespondDont, RespondDo, RespondWont, Matched
  <2>2. verb \in Verb
    BY DEF Verb
  <2>3. Command(verb, Buffer[2].cell[2]) \in Seq(Cell)
    BY <2>1, <2>2, AnswerType
  <2> QED BY <1>1, <2>1, <2>3, CurType, FlushIdle DEF Respond
<1> QED BY <1>3, <1>4, <1>5, <1>6

\* The client's DONT
LEMMA DontIdle == OutputInv /\ Mccp2Dont => Idle
<1> SUFFICES ASSUME OutputInv, Mccp2Dont PROVE Idle
  OBVIOUS
<1> USE DEF OutputInv
<1>1. UNCHANGED <<link, inflate, mccp_mode, dry>> /\ pc # "done"
  BY DEF Mccp2Dont, DontMatched, Matched, peerVars, faultVars
<1>2. <<Compression(FALSE)>> \in Seq(Cell)
  BY CompressionType, Single
<1>3. ~Compressed("game") /\ FlushQueue("game", <<Compression(FALSE)>>)
  BY DEF Compressed, Mccp2Dont
<1>4. Counts /\ EmptyInv'
  BY <1>1, <1>2, <1>3, FlushCounts DEF Side
<1>5. ModeInv'
  BY DEF Mccp2Dont, ModeInv, TypeInv, OutType
<1> QED BY <1>1, <1>4, <1>5 DEF Idle

\* The client's DO, with its two flushes
LEMMA DoIdle == OutputInv /\ Mccp2Do => Idle
<1> SUFFICES ASSUME OutputInv, Mccp2Do PROVE Idle
  OBVIOUS
<1> USE DEF OutputInv
<1>1. /\ UNCHANGED <<link, inflate, mccp_mode, dry>> /\ pc # "done"
      /\ mccp_mode["client"] = "enable"
  BY DEF Mccp2Do, DoMatched, Matched, peerVars, faultVars
<1>2. ModeInv'
  BY <1>1 DEF ModeInv
<1>3. CASE UNCHANGED outVars
  <2>1. Counts
    BY <1>1, <1>3, NothingCounts DEF outVars
  <2> QED BY <1>1, <1>2, <1>3, <2>1, EmptyKept DEF Idle, outVars
<1>4. CASE ~UNCHANGED outVars
  <2> PICK marker \in Seq(Element), news \in Seq(Element) :
        \E k \in Takes("client", marker), m \in Takes("game", news) :
          BothFlushed(marker, k, news, m)
    BY <1>4, DoType
  <2>1. PICK k \in Takes("client", marker), m \in Takes("game", news) :
          BothFlushed(marker, k, news, m)
    OBVIOUS
  <2>2. k \in 0 .. Len(marker) /\ m \in 0 .. Len(news) /\ k \in Nat /\ m \in Nat
    BY TakesType
  <2>3. /\ shorts \in Nat /\ dry \in Nat
        /\ Short("client", marker, k) \in {0, 1} /\ Short("game", news, m) \in {0, 1}
        /\ shorts' = shorts + Short("client", marker, k) + Short("game", news, m)
    BY <2>1 DEF Short, BothFlushed, TypeInv, OutType, ZlibType
  <2>4. Counts
    <3>1. errno' = "EAGAIN" =>
            \/ errno = "EAGAIN"
            \/ Short("client", marker, k) = 1 \/ Short("game", news, m) = 1
      <4>1. ASSUME NEW s \in Side, NEW data \in Seq(Element), NEW n \in 0 .. Len(data),
                   Error(s, data, n) = "EAGAIN"
            PROVE  errno = "EAGAIN" \/ Short(s, data, n) = 1
        <5>1. data # <<>> => Len(data) > 0
          BY EmptySeq
        <5> QED BY <4>1, <5>1 DEF Error, Short
      <4>2. errno' = Error("client", marker, k) \/ errno' = Error("game", news, m)
        BY <2>1 DEF BothFlushed
      <4> QED BY <2>2, <4>1, <4>2 DEF Side
    <3> QED BY <1>1, <2>3, <3>1 DEF Counts
  <2>5. EmptyInv'
    <3> SUFFICES ASSUME shorts' = 0, NEW t \in Side, link'[t] = "open"
                 PROVE  outq'[t] = <<>>
      BY DEF EmptyInv
    <3>1. Short("client", marker, k) = 0 /\ Short("game", news, m) = 0
      BY <2>3
    <3>2. ASSUME NEW data \in Seq(Element), NEW n \in 0 .. Len(data),
                 Short(t, data, n) = 0
          PROVE  After(data, n) = <<>>
      <4>1. n = Len(data)
        BY <1>1, <3>2, LenProperties DEF Short
      <4> QED BY <4>1, SubSeqEmpty, LenProperties DEF After
    <3>3. CASE t = "client"
      <4>1. outq'[t] = After(marker, k)
        BY <2>1, <3>3 DEF BothFlushed
      <4> QED BY <2>2, <3>1, <3>2, <3>3, <4>1
    <3>4. CASE t = "game"
      <4>1. outq'[t] = After(news, m)
        BY <2>1, <3>4 DEF BothFlushed
      <4> QED BY <2>2, <3>1, <3>2, <3>4, <4>1
    <3> QED BY <3>3, <3>4 DEF Side
  <2> QED BY <1>1, <1>2, <2>4, <2>5 DEF Idle
<1> QED BY <1>3, <1>4

\* What inflate() rejects ends the session, unless errno tells it otherwise.
LEMMA CorruptStep == OutputInv /\ ReadCorrupt => Idle \/ BrokenStep
<1> SUFFICES ASSUME OutputInv, ReadCorrupt PROVE Idle \/ BrokenStep
  OBVIOUS
<1> USE DEF OutputInv
<1>1. /\ UNCHANGED <<outq, link, deflate, mccp_mode, shorts, errno, dry>>
      /\ ReadFailed(errno)
  BY DEF ReadCorrupt, outVars, negoVars, faultVars
<1>2. Counts
  BY <1>1, NothingCounts
<1>3. EmptyInv' /\ ModeInv'
  BY <1>1, <1>2, EmptyKept, ModeKept
<1>4. errno = "EAGAIN" \/ pc' = "done"
  BY <1>1 DEF ReadFailed, Return
<1> QED BY <1>1, <1>2, <1>3, <1>4 DEF BrokenStep

\* A session that then goes on was told to by an errno that stands for a fault.
LEMMA BrokenKeeps == OutputInv /\ BrokenStep /\ TypeInv' => OutputInv'
<1> SUFFICES ASSUME OutputInv, BrokenStep, TypeInv' PROVE OutputInv'
  OBVIOUS
<1>1. ErrnoInv'
  BY DEF OutputInv, ErrnoInv, BrokenStep
<1>2. BrokenZlibEnds'
  BY DEF OutputInv, ErrnoInv, BrokenZlibEnds, BrokenStep
<1> QED BY <1>1, <1>2 DEF OutputInv, BrokenStep

\* The peers and the clock leave the buffers alone, and a peer that has gone
\* does not come back.
LEMMA OutputOutside ==
    ASSUME OutputInv, Peer \/ Tick \/ UNCHANGED vars, TypeInv'
    PROVE  OutputInv'
<1> USE DEF OutputInv
<1>1. UNCHANGED <<outq, deflate, mccp_mode, shorts, dry, errno, inflate, pc>>
  BY DEF Peer, GameCompresses, GameEndsZlib, Send, HangUp, Tick, vars, ctlVars,
     negoVars, outVars, faultVars
<1>2. \A s \in Side : link'[s] = "open" => link[s] = "open"
  <2>1. CASE UNCHANGED link
    BY <2>1
  <2>2. ASSUME NEW s \in Side, HangUp(s)
        PROVE  \A t \in Side : link'[t] = "open" => link[t] = "open"
    BY <2>2 DEF HangUp, TypeInv, PeerType
  <2> QED BY <2>1, <2>2 DEF Peer, GameCompresses, GameEndsZlib, Send, Tick, vars,
       peerVars
<1>3. EmptyInv'
  BY <1>1, <1>2 DEF EmptyInv
<1> QED BY <1>1, <1>3 DEF ModeInv, ErrnoInv, BrokenZlibEnds

\* The invariant holds at the start ...
LEMMA OutputInit == Init => OutputInv
<1> SUFFICES ASSUME Init PROVE OutputInv
  OBVIOUS
<1>1. TypeInv
  BY TypeInit
<1>2. ModeInv /\ ErrnoInv /\ BrokenZlibEnds
  BY DEF Init, ModeInv, ErrnoInv, BrokenZlibEnds
<1>3. EmptyInv
  BY DEF Init, EmptyInv
<1> QED BY <1>1, <1>2, <1>3 DEF OutputInv

\* ... and every step keeps it.
LEMMA OutputNext == OutputInv /\ [Next]_vars => OutputInv'
<1> SUFFICES ASSUME OutputInv, [Next]_vars PROVE OutputInv'
  OBVIOUS
<1>1. TypeInv'
  BY TypeNext DEF OutputInv
<1>2. CASE Loop
  <2>1. Idle \/ BrokenStep
    BY <1>2, SilentIdle, RelayIdle, SpeakIdle, CorruptStep DEF Loop
  <2> QED BY <1>1, <2>1, IdleKeeps, BrokenKeeps
<1>3. CASE Handler
  <2>1. Idle
    BY <1>3, SilentIdle, RelayIdle, SpeakIdle, DoIdle, DontIdle DEF Handler
  <2> QED BY <1>1, <2>1, IdleKeeps
<1>4. CASE PollInterrupted
  BY <1>1, <1>4, SilentIdle, IdleKeeps
<1>5. CASE Peer \/ Tick \/ Terminated \/ UNCHANGED vars
  BY <1>1, <1>5, OutputOutside DEF Terminated
<1> QED BY <1>2, <1>3, <1>4, <1>5 DEF Next

\* So it always holds.
LEMMA OutputAlways == Spec => []OutputInv
BY OutputInit, OutputNext, PTL DEF Spec

-----------------------------------------------------------------------------
\* Whatever the proxy has to say of its own is on its way before it waits
\* again: nothing is left in an output buffer, unless a write fell short or the
\* peer has gone.
THEOREM UnsaidCorrect == Spec => []NothingUnsaid
<1>1. OutputInv => NothingUnsaid
  BY DEF OutputInv, EmptyInv, NothingUnsaid
<1> QED BY <1>1, OutputAlways, PTL

\* Nothing is queued for a client whose stream is compressed, so that
\* flush_endpoint() never has to tell from the 0 that
\* write_endpoint_compressed() returns whether it has been written.
THEOREM QueuedTwiceCorrect == Spec => []NothingQueuedTwice
<1>1. OutputInv => NothingQueuedTwice
  BY DEF OutputInv, EmptyInv, NothingQueuedTwice, Side
<1> QED BY <1>1, OutputAlways, PTL

\* A zlib stream of the game's that is broken ends the session, unless some
\* call before came back with EAGAIN: however long ago, and on either side.
THEOREM BrokenCorrect == Spec => []BrokenZlibEnds
<1>1. OutputInv => BrokenZlibEnds
  BY DEF OutputInv
<1> QED BY <1>1, OutputAlways, PTL

-----------------------------------------------------------------------------
(* The negotiation.                                                        *)

\* A session begins without compression, and begins only once.
StartInv == pc = "init" => ~deflate.on

NegoInv == /\ "on" \in DOMAIN deflate
           /\ StartInv
           /\ NegoMatchesDeflate

-----------------------------------------------------------------------------
\* What a step does that leaves the negotiation of compression alone.
Keeps == /\ pc' # "init"
         /\ UNCHANGED mccp_nego
         /\ "on" \in DOMAIN deflate'
         /\ deflate'.on = deflate.on

\* Such a step keeps the invariant.
LEMMA KeepsInv == NegoInv /\ Keeps => NegoInv'
BY DEF NegoInv, Keeps, StartInv, NegoMatchesDeflate

\* deflate() does not turn itself on or off.
LEMMA DeflatedKeeps ==
    ASSUME "on" \in DOMAIN deflate, NEW s, NEW n
    PROVE  /\ "on" \in DOMAIN Deflated(s, n)
           /\ Deflated(s, n).on = deflate.on
BY DEF Deflated

\* No way to leave a step of the loop leads back to the start.
LEMMA NeverRestarts ==
    /\ NextSide => pc' # "init"
    /\ Rescan => pc' # "init"
    /\ NotHandled => pc' # "init"
    /\ Handled => pc' # "init"
    /\ \A r : Return(r) => pc' # "init"
    /\ \A e : ReadFailed(e) => pc' # "init"
BY DEF NextSide, Rescan, NotHandled, Handled, Return, ReadFailed

\* The steps that write nothing.
LEMMA SilentSteps ==
    ASSUME NegoInv,
           SetNonblocking \/ Poll \/ PollTimeout \/ PollInterrupted
           \/ Read \/ ReadInflated \/ ReadCorrupt \/ ReadNothing \/ ReadError
           \/ ScanPartial \/ MnesDoes \/ MnesClientWill \/ MccpIgnore
           \/ Mccp2SbStart
    PROVE  Keeps
<1> USE NeverRestarts DEF NegoInv, Keeps, negoVars, outVars
<1>1. CASE SetNonblocking \/ Poll \/ PollTimeout \/ PollInterrupted
  BY <1>1 DEF SetNonblocking, Poll, PollTimeout, PollInterrupted
<1>2. CASE Read \/ ReadInflated
  BY <1>2 DEF Read, ReadInflated
<1>3. CASE ReadCorrupt \/ ReadNothing \/ ReadError
  BY <1>3 DEF ReadCorrupt, ReadNothing, ReadError
<1>4. CASE ScanPartial
  BY <1>4 DEF ScanPartial
<1>5. CASE MnesDoes \/ MnesClientWill \/ MccpIgnore \/ Mccp2SbStart
  BY <1>5 DEF MnesDoes, MnesClientWill, MccpIgnore, Mccp2SbStart
<1> QED BY <1>1, <1>2, <1>3, <1>4, <1>5

\* A write, whoever calls for it, goes through zlib or past it as before.
LEMMA WriteKeeps ==
    ASSUME NegoInv, NEW s, NEW data, Write(s, data) \/ Flush(s, data)
    PROVE  "on" \in DOMAIN deflate' /\ deflate'.on = deflate.on
BY DeflatedKeeps DEF NegoInv, Write, Flush

\* The steps of the loop that write.
LEMMA LoopWrites ==
    ASSUME NegoInv,
           CheckFallback \/ ScanNoMatch \/ ScanMatch \/ Forward
    PROVE  Keeps
<1> USE NeverRestarts DEF Keeps, negoVars
<1>1. CASE CheckFallback
  BY <1>1, WriteKeeps DEF CheckFallback, NegoInv, outVars
<1>2. CASE ScanNoMatch
  BY <1>2, WriteKeeps DEF ScanNoMatch
<1>3. CASE ScanMatch
  BY <1>3, WriteKeeps DEF ScanMatch
<1>4. CASE Forward
  BY <1>4, WriteKeeps DEF Forward
<1> QED BY <1>1, <1>2, <1>3, <1>4

\* The handlers that write, and those that zlib fails.
LEMMA HandlerWrites ==
    ASSUME NegoInv,
           MnesRequest \/ MnesClientWont \/ RespondDont \/ RespondDo
           \/ RespondWont \/ Mccp2DoFails \/ Mccp2SbStartFails
    PROVE  Keeps
<1> USE NeverRestarts DEF Keeps, negoVars
<1>1. CASE MnesRequest
  BY <1>1, WriteKeeps DEF MnesRequest
<1>2. CASE MnesClientWont
  BY <1>2, WriteKeeps DEF MnesClientWont
<1>3. CASE RespondDont \/ RespondDo \/ RespondWont
  <2>1. \E verb : Respond(verb)
    BY <1>3 DEF RespondDont, RespondDo, RespondWont
  <2> QED BY <2>1, WriteKeeps DEF Respond
<1>4. CASE Mccp2DoFails \/ Mccp2SbStartFails
  <2>1. InitFails
    BY <1>4 DEF Mccp2DoFails, Mccp2SbStartFails
  <2> QED BY <2>1, WriteKeeps DEF InitFails
<1> QED BY <1>1, <1>2, <1>3, <1>4

\* The peers and the clock have no say in it.
LEMMA OutsideSteps ==
    ASSUME NegoInv, Peer \/ Tick \/ UNCHANGED vars
    PROVE  NegoInv'
<1>1. UNCHANGED <<pc, mccp_nego, deflate>>
  BY DEF Peer, GameCompresses, GameEndsZlib, Send, HangUp, Tick, vars,
     ctlVars, negoVars, outVars
<1> QED BY <1>1 DEF NegoInv, StartInv, NegoMatchesDeflate

\* The offer is made before anything is compressed.
LEMMA StartStep ==
    ASSUME NegoInv, Start
    PROVE  NegoInv'
BY DEF NegoInv, StartInv, NegoMatchesDeflate, Start

\* The client's DO turns both on ...
LEMMA DoStep ==
    ASSUME NegoInv, Mccp2Do
    PROVE  NegoInv'
<1>1. pc' # "init" /\ mccp_nego' = "ACCEPTED"
  BY NeverRestarts DEF Mccp2Do
<1>2. "on" \in DOMAIN deflate' /\ deflate'.on
  <2>1. CASE UNCHANGED deflate /\ deflate.on
    BY <2>1 DEF NegoInv
  <2>2. CASE deflate' = [on |-> TRUE, gen |-> deflate.gen + 1, pos |-> 0]
    BY <2>2
  <2> QED BY <2>1, <2>2 DEF Mccp2Do, outVars
<1> QED BY <1>1, <1>2 DEF NegoInv, StartInv, NegoMatchesDeflate

\* ... and its DONT turns both off.
LEMMA DontStep ==
    ASSUME NegoInv, Mccp2Dont
    PROVE  NegoInv'
<1>1. pc' # "init" /\ mccp_nego' = "REFUSED"
  BY NeverRestarts DEF Mccp2Dont
<1>2. "on" \in DOMAIN deflate' /\ deflate'.on = FALSE
  BY DEF Mccp2Dont, NegoInv
<1> QED BY <1>1, <1>2 DEF NegoInv, StartInv, NegoMatchesDeflate

\* The invariant always holds.
LEMMA NegoAlways == Spec => []NegoInv
<1>1. Init => NegoInv
  BY DEF Init, NegoInv, StartInv, NegoMatchesDeflate
<1>2. NegoInv /\ [Next]_vars => NegoInv'
  <2> SUFFICES ASSUME NegoInv, [Next]_vars PROVE NegoInv'
    OBVIOUS
  <2>1. CASE Loop
    BY <2>1, StartStep, SilentSteps, LoopWrites, KeepsInv DEF Loop
  <2>2. CASE Handler
    BY <2>2, DoStep, DontStep, SilentSteps, HandlerWrites, KeepsInv DEF Handler
  <2>3. CASE PollInterrupted
    BY <2>3, SilentSteps, KeepsInv
  <2>4. CASE Peer \/ Tick \/ Terminated \/ UNCHANGED vars
    BY <2>4, OutsideSteps DEF Terminated
  <2> QED BY <2>1, <2>2, <2>3, <2>4 DEF Next
<1> QED BY <1>1, <1>2, PTL DEF Spec

-----------------------------------------------------------------------------
\* The game is always told of the client's compression as it is: whatever
\* order the peers negotiate in, and whatever they send in between,
\* mccp_nego is ACCEPTED exactly while there is a zlib stream to the client.
THEOREM NegoCorrect == Spec => []NegoMatchesDeflate
<1>1. NegoInv => NegoMatchesDeflate
  BY DEF NegoInv
<1> QED BY <1>1, NegoAlways, PTL

-----------------------------------------------------------------------------
(* The shape of what the client is sent.                                   *)

\* The end of the marker of MUDitM's own zlib stream
Mark(e) == e.src = 0 /\ e.cell = <<"SB", "MCCP2">>

\* Telnet, without the marker
PlainWire(q) == \A i \in 1 .. Len(q) : q[i].enc <= 0 /\ ~Mark(q[i])

\* Telnet, the marker, and the first n elements of one zlib stream
ZipWire(q, n) ==
    \E m \in 1 .. Len(q) :
        /\ Len(q) = m + n
        /\ \A i \in 1 .. Len(q) :
              /\ Mark(q[i]) <=> i = m
              /\ i <= m => q[i].enc <= 0
              /\ i > m => q[i].enc = 1 /\ q[i].pos = i - m

\* Nothing that was meant for the client has been lost.
Intact == shorts = 0 /\ link["client"] = "open"

\* What the client has been sent, before its stream is compressed and while
\* it is for the first time
ClientInv ==
    /\ deflate.on => deflate.gen > 0
    /\ Intact /\ deflate.gen = 0 => PlainWire(sent["client"])
    /\ Intact /\ deflate.on /\ deflate.gen = 1 =>
          ZipWire(sent["client"], deflate.pos)

-----------------------------------------------------------------------------
(* How that shape grows.                                                   *)

\* More telnet
LEMMA PlainGrows ==
    ASSUME NEW q \in Seq(Element), NEW d \in Seq(Element),
           PlainWire(q), PlainWire(d)
    PROVE  PlainWire(q \o d)
<1>1. Len(q \o d) = Len(q) + Len(d) /\ Len(q) \in Nat /\ Len(d) \in Nat
  BY ConcatProperties, LenProperties
<1>2. ASSUME NEW i \in 1 .. Len(q) + Len(d)
      PROVE  (q \o d)[i].enc <= 0 /\ ~Mark((q \o d)[i])
  <2>1. CASE i <= Len(q)
    <3>1. (q \o d)[i] = q[i] /\ i \in 1 .. Len(q)
      BY <1>1, <2>1, ConcatProperties
    <3> QED BY <3>1 DEF PlainWire
  <2>2. CASE i > Len(q)
    <3>1. (q \o d)[i] = d[i - Len(q)] /\ i - Len(q) \in 1 .. Len(d)
      BY <1>1, <2>2, ConcatProperties
    <3> QED BY <3>1 DEF PlainWire
  <2> QED BY <1>1, <2>1, <2>2
<1> QED BY <1>1, <1>2 DEF PlainWire

\* The marker
LEMMA ZipStarts ==
    ASSUME NEW q \in Seq(Element), NEW a \in Element, NEW b \in Element,
           PlainWire(q), a.enc = 0, ~Mark(a), b.enc = 0, Mark(b)
    PROVE  ZipWire(q \o <<a, b>>, 0)
<1> DEFINE d == <<a, b>>
           w == q \o d
<1>1. d \in Seq(Element) /\ Len(d) = 2 /\ d[1] = a /\ d[2] = b
  OBVIOUS
<1> HIDE DEF d
<1>2. Len(w) = Len(q) + 2 /\ Len(q) \in Nat
  <2>1. Len(w) = Len(q) + Len(d) /\ Len(q) \in Nat
    BY <1>1, ConcatProperties, LenProperties
  <2> QED BY <1>1, <2>1
<1>3. /\ \A i \in 1 .. Len(q) : w[i] = q[i]
      /\ w[Len(q) + 1] = a /\ w[Len(q) + 2] = b
  <2>1. \A i \in 1 .. Len(q) + Len(d) :
          w[i] = IF i <= Len(q) THEN q[i] ELSE d[i - Len(q)]
    BY <1>1, ConcatProperties
  <2> HIDE DEF w
  <2> QED BY <1>1, <1>2, <2>1
<1> HIDE DEF w
<1>4. ASSUME NEW i \in 1 .. Len(w)
      PROVE  /\ Mark(w[i]) <=> i = Len(w)
             /\ i <= Len(w) => w[i].enc <= 0
             /\ i > Len(w) => w[i].enc = 1 /\ w[i].pos = i - Len(w)
  <2>1. CASE i <= Len(q)
    BY <1>2, <1>3, <2>1 DEF PlainWire
  <2>2. CASE i = Len(q) + 1
    BY <1>2, <1>3, <2>2
  <2>3. CASE i = Len(q) + 2
    BY <1>2, <1>3, <2>3
  <2> QED BY <1>2, <2>1, <2>2, <2>3
<1>5. Len(w) \in 1 .. Len(w) /\ Len(w) = Len(w) + 0
  BY <1>2
<1>6. ZipWire(w, 0)
  BY <1>4, <1>5 DEF ZipWire
<1> QED BY <1>6 DEF w, d

\* More of the zlib stream
LEMMA ZipGrows ==
    ASSUME NEW q \in Seq(Element), NEW n \in Nat, NEW d \in Seq(Element),
           ZipWire(q, n),
           \A i \in 1 .. Len(d) : ~Mark(d[i]) /\ d[i].enc = 1 /\ d[i].pos = n + i
    PROVE  ZipWire(q \o d, n + Len(d))
<1> DEFINE w == q \o d
<1>1. Len(w) = Len(q) + Len(d) /\ Len(q) \in Nat /\ Len(d) \in Nat
  BY ConcatProperties, LenProperties
<1>2. \A i \in 1 .. Len(q) + Len(d) :
        w[i] = IF i <= Len(q) THEN q[i] ELSE d[i - Len(q)]
  BY ConcatProperties
<1> HIDE DEF w
<1>3. PICK m \in 1 .. Len(q) :
        /\ Len(q) = m + n
        /\ \A i \in 1 .. Len(q) :
              /\ Mark(q[i]) <=> i = m
              /\ i <= m => q[i].enc <= 0
              /\ i > m => q[i].enc = 1 /\ q[i].pos = i - m
  BY DEF ZipWire
<1>4. ASSUME NEW i \in 1 .. Len(w)
      PROVE  /\ Mark(w[i]) <=> i = m
             /\ i <= m => w[i].enc <= 0
             /\ i > m => w[i].enc = 1 /\ w[i].pos = i - m
  <2>1. CASE i <= Len(q)
    <3>1. w[i] = q[i] /\ i \in 1 .. Len(q)
      BY <1>1, <1>2, <2>1
    <3> QED BY <1>3, <3>1
  <2>2. CASE i > Len(q)
    <3>1. w[i] = d[i - Len(q)] /\ i - Len(q) \in 1 .. Len(d)
      BY <1>1, <1>2, <2>2
    <3>2. ~Mark(w[i]) /\ w[i].enc = 1 /\ w[i].pos = n + (i - Len(q))
      BY <3>1
    <3>3. n + (i - Len(q)) = i - m /\ i > m /\ i # m
      BY <1>1, <1>3, <2>2
    <3> QED BY <3>2, <3>3
  <2> QED BY <1>1, <2>1, <2>2
<1>5. m \in 1 .. Len(w) /\ Len(w) = m + (n + Len(d))
  BY <1>1, <1>3
<1>6. ZipWire(w, n + Len(d))
  BY <1>4, <1>5 DEF ZipWire
<1> QED BY <1>6 DEF w

-----------------------------------------------------------------------------
(* What a write to the client does to it.                                  *)

\* A step that has nothing to say to the client
ClientLeft == /\ sent'["client"] = sent["client"]
              /\ deflate'.gen = deflate.gen /\ deflate'.pos = deflate.pos
              /\ deflate'.on => deflate.on
              /\ Intact' => Intact

\* Such a step changes nothing.
LEMMA LeftKeeps == ClientInv /\ ClientLeft => ClientInv'
BY DEF ClientInv, ClientLeft

\* All of a write gets out, or the stream is no longer intact.
LEMMA WholeWrite ==
    ASSUME TypeInv, NEW data \in Seq(Element), NEW k \in Takes("client", data),
           Put("client", data, k), UNCHANGED <<dry, link>>, Intact'
    PROVE  /\ Intact
           /\ k = Len(data)
           /\ sent'["client"] = sent["client"] \o Encode("client", data)
<1>1. k \in 0 .. Len(data)
  BY TakesType
<1>2. Counts /\ (shorts' = 0 /\ link["client"] = "open" => k = Len(data))
  BY <1>1, PutCounts DEF Side
<1>3. Intact /\ k = Len(data)
  BY <1>2 DEF Intact, Counts, TypeInv, OutType
<1>4. Encode("client", data) \in Seq(Element)
      /\ Len(Encode("client", data)) = Len(data)
  BY EncodeType DEF TypeInv, Side
<1>5. SubSeq(Encode("client", data), 1, k) = Encode("client", data)
  <2> DEFINE e == Encode("client", data)
  <2>1. e \in Seq(Element) /\ Len(e) = k
    BY <1>3, <1>4
  <2> HIDE DEF e
  <2>2. SubSeq(e, 1, Len(e)) = e
    BY <2>1, SubSeqFull
  <2>3. SubSeq(e, 1, k) = e
    BY <2>1, <2>2
  <2> QED BY <2>3 DEF e
<1>6. sent' = [sent EXCEPT !["client"] =
                sent["client"] \o SubSeq(Encode("client", data), 1, k)]
  BY DEF Put
<1>7. sent'["client"] = sent["client"] \o SubSeq(Encode("client", data), 1, k)
  BY <1>6 DEF TypeInv, OutType, Side
<1> QED BY <1>3, <1>5, <1>7

\* A write to the game leaves the client alone.
LEMMA GameWrite ==
    ASSUME TypeInv, NEW data \in Seq(Element), NEW k \in Takes("game", data),
           Put("game", data, k), UNCHANGED <<dry, link>>
    PROVE  sent'["client"] = sent["client"] /\ (Intact' => Intact)
<1>1. k \in 0 .. Len(data)
  BY TakesType
<1>2. Counts
  BY <1>1, PutCounts DEF Side
<1>3. Intact' => Intact
  BY <1>2 DEF Intact, Counts, TypeInv, OutType
<1>4. sent'["client"] = sent["client"]
  BY DEF Put, TypeInv, OutType, Side
<1> QED BY <1>3, <1>4

\* What is relayed contains no marker of MUDitM's, and comes out of zlib as
\* one stream goes on.
LEMMA RelayShape ==
    ASSUME TypeInv, NEW data \in Seq(Input)
    PROVE  /\ PlainWire(data)
           /\ deflate.on =>
                \A i \in 1 .. Len(data) :
                    LET e == Encode("client", data)[i]
                    IN  ~Mark(e) /\ e.enc = deflate.gen /\ e.pos = deflate.pos + i
<1>1. ASSUME NEW i \in 1 .. Len(data)
      PROVE  data[i] \in Element /\ data[i].src > 0 /\ data[i].enc <= 0
  <2>1. data[i] \in Input
    BY ElementOfSeq
  <2> QED BY <2>1 DEF Input
<1>2. PlainWire(data)
  BY <1>1 DEF PlainWire, Mark
<1>3. ASSUME deflate.on, NEW i \in 1 .. Len(data)
      PROVE  LET e == Encode("client", data)[i]
             IN  ~Mark(e) /\ e.enc = deflate.gen /\ e.pos = deflate.pos + i
  <2>1. Encode("client", data)[i]
        = [data[i] EXCEPT !.cell = IF data[i].enc = -1 THEN RawZlib
                                   ELSE data[i].cell,
                          !.enc = deflate.gen, !.pos = deflate.pos + i]
    <3>1. DOMAIN data = 1 .. Len(data)
      BY LenProperties
    <3> QED BY <1>3, <3>1 DEF Encode, Compressed
  <2>2. data[i].src > 0 /\ data[i] = [cell |-> data[i].cell, src |-> data[i].src,
                                      enc |-> data[i].enc, pos |-> data[i].pos]
    BY <1>1 DEF Element
  <2> DEFINE e == Encode("client", data)[i]
  <2>3. e.src = data[i].src /\ e.enc = deflate.gen /\ e.pos = deflate.pos + i
    BY <2>1, <2>2
  <2>4. data[i].src # 0
    BY <1>1 DEF Element
  <2> HIDE DEF e
  <2>5. ~Mark(e)
    BY <2>3, <2>4 DEF Mark
  <2> QED BY <2>3, <2>5 DEF e
<1> QED BY <1>2, <1>3

\* So the client's stream goes on when something is relayed.
LEMMA RelayKeeps ==
    ASSUME TypeInv, ClientInv, NEW data \in Seq(Input),
           Write("client", data), UNCHANGED <<dry, link>>
    PROVE  ClientInv'
<1>1. data \in Seq(Element) /\ Len(data) \in Nat
  BY InputType, LenProperties
<1>2. PICK k \in Takes("client", data) : Put("client", data, k)
  BY DEF Write
<1>3. Intact' => /\ Intact
                 /\ sent'["client"] = sent["client"] \o Encode("client", data)
  BY <1>1, <1>2, WholeWrite
<1>4. deflate' = Deflated("client", Len(data))
  BY DEF Write
<1>5. sent["client"] \in Seq(Element) /\ deflate.pos \in Nat
  BY DEF TypeInv, OutType, Side
<1>6. CASE ~deflate.on
  <2>1. Encode("client", data) = data /\ deflate' = deflate
    BY <1>4, <1>6 DEF Encode, Deflated, Compressed
  <2>2. ASSUME Intact', deflate'.gen = 0 PROVE PlainWire(sent'["client"])
    <3>1. PlainWire(sent["client"])
      BY <1>3, <2>1, <2>2 DEF ClientInv
    <3>2. PlainWire(data)
      BY RelayShape
    <3>3. PlainWire(sent["client"] \o data)
      BY <1>1, <1>5, <3>1, <3>2, PlainGrows
    <3>4. sent'["client"] = sent["client"] \o data
      BY <1>3, <2>1, <2>2
    <3> QED BY <3>3, <3>4
  <2> QED BY <1>6, <2>1, <2>2 DEF ClientInv
<1>7. CASE deflate.on
  <2>1. /\ deflate'.on /\ deflate'.gen = deflate.gen
        /\ deflate'.pos = deflate.pos + Len(data)
    BY <1>4, <1>7 DEF Deflated, Compressed, TypeInv, OutType
  <2>2. deflate.gen \in Nat /\ deflate.gen > 0
    BY <1>7 DEF ClientInv, TypeInv, OutType
  <2>3. ASSUME Intact', deflate'.gen = 1
        PROVE  ZipWire(sent'["client"], deflate'.pos)
    <3> DEFINE e == Encode("client", data)
    <3>1. e \in Seq(Element) /\ Len(e) = Len(data)
      BY <1>1, EncodeType DEF TypeInv, Side
    <3>2. \A i \in 1 .. Len(data) :
            ~Mark(e[i]) /\ e[i].enc = 1 /\ e[i].pos = deflate.pos + i
      BY <1>7, <2>1, <2>3, RelayShape
    <3>3. ZipWire(sent["client"], deflate.pos)
      BY <1>3, <1>7, <2>1, <2>3 DEF ClientInv
    <3> HIDE DEF e
    <3>4. ZipWire(sent["client"] \o e, deflate.pos + Len(e))
      BY <1>5, <3>1, <3>2, <3>3, ZipGrows
    <3>5. sent'["client"] = sent["client"] \o e /\ deflate'.pos = deflate.pos + Len(e)
      BY <1>3, <2>1, <2>3, <3>1 DEF e
    <3> QED BY <3>4, <3>5
  <2> QED BY <2>1, <2>2, <2>3 DEF ClientInv
<1> QED BY <1>6, <1>7

\* A flush to the game leaves the client alone.
LEMMA GameFlush ==
    ASSUME TypeInv, NEW cells \in Seq(Cell), FlushQueue("game", cells),
           UNCHANGED <<dry, link>>
    PROVE  sent'["client"] = sent["client"] /\ (Intact' => Intact)
<1> DEFINE data == outq["game"] \o Own(cells)
<1>1. data \in Seq(Element)
  BY QueueType DEF TypeInv, Side
<1>2. PICK k \in Takes("game", data) : Put("game", data, k)
  BY DEF FlushQueue
<1> HIDE DEF data
<1> QED BY <1>1, <1>2, GameWrite

\* A command that MUDitM does not mean as the marker is none.
LEMMA PlainCommand ==
    ASSUME NEW verb, NEW option, verb # "SB"
    PROVE  PlainWire(Own(Command(verb, option)))
<1> DEFINE own == Own(Command(verb, option))
<1>1. Len(own) = 2
  BY DEF Own, Command
<1>2. \A i \in 1 .. 2 : own[i].enc = 0 /\ own[i].cell \in {IAC, <<verb, option>>}
  BY DEF Own, Command
<1> HIDE DEF own
<1>3. ASSUME NEW i \in 1 .. 2
      PROVE  own[i].enc <= 0 /\ ~Mark(own[i])
  <2>1. own[i].enc = 0
    BY <1>2
  <2>2. <<verb, option>> # <<"SB", "MCCP2">> /\ IAC # <<"SB", "MCCP2">>
    BY DEF IAC
  <2>3. ~Mark(own[i])
    BY <1>2, <2>2 DEF Mark
  <2> QED BY <2>1, <2>3
<1>4. PlainWire(own)
  BY <1>1, <1>3 DEF PlainWire
<1> QED BY <1>4 DEF own

\* The client is told WONT only where it will never be sent zlib.
LEMMA WontKeeps ==
    ASSUME OutputInv, ClientInv, NEW option \in Option,
           mccp_mode["client"] # "enable",
           Flush("client", Command("WONT", option)), UNCHANGED <<dry, link>>
    PROVE  ClientInv'
<1> USE DEF OutputInv
<1> DEFINE own == Own(Command("WONT", option))
           data == outq["client"] \o own
<1>1. ~deflate.on /\ ~Compressed("client")
  BY DEF ModeInv, Compressed
<1>2. own \in Seq(Element) /\ data \in Seq(Element)
  <2>1. Command("WONT", option) \in Seq(Cell)
    BY CommandType DEF Verb
  <2> QED BY <2>1, OwnType, QueueType DEF TypeInv, Side
<1>3. PICK k \in Takes("client", data) : Put("client", data, k)
  BY DEF Flush, FlushQueue
<1>4. PlainWire(own)
  BY PlainCommand
<1> HIDE DEF own, data
<1>5. deflate' = deflate
  BY <1>1 DEF Flush, Deflated
<1>6. Intact' => Intact /\ sent'["client"] = sent["client"] \o data
  BY <1>1, <1>2, <1>3, WholeWrite DEF Encode
<1>7. Intact => data = own
  <2>1. Intact => outq["client"] = <<>>
    BY DEF Intact, EmptyInv, Side
  <2> QED BY <1>2, <2>1, ConcatEmptySeq DEF data
<1>8. Intact' /\ deflate'.gen = 0 => PlainWire(sent'["client"])
  <2>1. sent["client"] \in Seq(Element)
    BY DEF TypeInv, OutType, Side
  <2> QED BY <1>2, <1>4, <1>5, <1>6, <1>7, <2>1, PlainGrows DEF ClientInv
<1> QED BY <1>1, <1>5, <1>8 DEF ClientInv

-----------------------------------------------------------------------------
(* The steps of a session.                                                 *)

\* The steps that write nothing, but for the first
LEMMA SilentClient ==
    ASSUME OutputInv, ClientInv,
           \/ SetNonblocking \/ Poll \/ PollTimeout \/ PollInterrupted
           \/ Read \/ ReadInflated \/ ReadCorrupt \/ ReadNothing \/ ReadError
           \/ ScanPartial \/ MnesDoes \/ MnesClientWill \/ MccpIgnore
           \/ Mccp2SbStart
    PROVE  ClientInv'
<1>1. UNCHANGED <<sent, deflate, shorts, link>>
  BY DEF SetNonblocking, Poll, PollTimeout, PollInterrupted, Read, ReadInflated,
     ReadCorrupt, ReadNothing, ReadError, ScanPartial, MnesDoes, MnesClientWill,
     MccpIgnore, Mccp2SbStart, outVars, peerVars
<1>2. ClientLeft
  BY <1>1 DEF ClientLeft, Intact
<1> QED BY <1>2, LeftKeeps

\* The peers and the clock
LEMMA OutsideClient ==
    ASSUME OutputInv, ClientInv, Peer \/ Tick \/ UNCHANGED vars
    PROVE  ClientInv'
<1>1. UNCHANGED <<sent, deflate, shorts>>
  BY DEF Peer, GameCompresses, GameEndsZlib, Send, HangUp, Tick, vars, outVars
<1>2. link'["client"] = "open" => link["client"] = "open"
  <2>1. CASE UNCHANGED link
    BY <2>1
  <2>2. ASSUME NEW s \in Side, HangUp(s)
        PROVE  link'["client"] = "open" => link["client"] = "open"
    BY <2>2 DEF HangUp, OutputInv, TypeInv, PeerType
  <2> QED BY <2>1, <2>2 DEF Peer, GameCompresses, GameEndsZlib, Send, Tick, vars,
       peerVars
<1>3. ClientLeft
  BY <1>1, <1>2 DEF ClientLeft, Intact
<1> QED BY <1>3, LeftKeeps

\* The steps that relay
LEMMA RelayClient ==
    ASSUME OutputInv, ClientInv,
           ScanNoMatch \/ ScanMatch \/ Forward \/ Mccp2DoFails \/ Mccp2SbStartFails
    PROVE  ClientInv'
<1> USE DEF OutputInv
<1>1. UNCHANGED <<dry, link>>
  BY DEF ScanNoMatch, ScanMatch, Forward, Mccp2DoFails, Mccp2SbStartFails,
     InitFails, peerVars, faultVars
<1>2. PICK data \in Seq(Input) : Write(Other(Cur), data)
  BY RelayWrites
<1>3. CASE Other(Cur) = "client"
  BY <1>1, <1>2, <1>3, RelayKeeps
<1>4. CASE Other(Cur) = "game"
  <2>1. PICK k \in Takes("game", data) : Put("game", data, k)
    BY <1>2, <1>4 DEF Write
  <2>2. sent'["client"] = sent["client"] /\ (Intact' => Intact)
    BY <1>1, <2>1, InputType, GameWrite
  <2>3. deflate' = deflate
    BY <1>2, <1>4 DEF Write, Deflated, Compressed
  <2> QED BY <2>2, <2>3, LeftKeeps DEF ClientLeft
<1> QED BY <1>3, <1>4, CurType DEF Side

\* The steps that tell one of the peers something
LEMMA SpeakClient ==
    ASSUME OutputInv, ClientInv,
           CheckFallback \/ MnesRequest \/ MnesClientWont
           \/ RespondDont \/ RespondDo \/ RespondWont
    PROVE  ClientInv'
<1> USE DEF OutputInv
<1>1. UNCHANGED <<dry, link>>
  BY DEF CheckFallback, MnesRequest, MnesClientWont, RespondDont, RespondDo,
     RespondWont, Respond, peerVars, faultVars
<1>2. Command("WILL", "NEWENV") \in Seq(Cell)
  BY CommandType DEF Verb, Option
<1>3. ASSUME NEW cells \in Seq(Cell), Flush("game", cells)
      PROVE  ClientInv'
  <2>1. sent'["client"] = sent["client"] /\ (Intact' => Intact)
    BY <1>1, <1>3, GameFlush DEF Flush
  <2>2. deflate' = deflate
    BY <1>3 DEF Flush, Deflated, Compressed
  <2> QED BY <2>1, <2>2, LeftKeeps DEF ClientLeft
<1>4. CASE CheckFallback
  <2>1. CASE UNCHANGED outVars
    <3>1. ClientLeft
      BY <1>1, <2>1 DEF outVars, ClientLeft, Intact
    <3> QED BY <3>1, LeftKeeps
  <2>2. CASE Flush("game", Command("WILL", "NEWENV"))
    BY <1>2, <1>3, <2>2
  <2> QED BY <1>4, <2>1, <2>2 DEF CheckFallback, outVars
<1>5. CASE MnesRequest
  BY <1>3, <1>5, RequestType DEF MnesRequest
<1>6. CASE MnesClientWont
  BY <1>2, <1>3, <1>6 DEF MnesClientWont
<1>7. CASE RespondDont \/ RespondDo
  <2>1. PICK verb \in {"DO", "DONT"} : pc = "match" /\ Cur = "game" /\ Respond(verb)
    BY <1>7 DEF RespondDont, RespondDo, Matched
  <2>2. Command(verb, Buffer[2].cell[2]) \in Seq(Cell)
    BY <2>1, AnswerType DEF Verb
  <2> QED BY <1>3, <2>1, <2>2 DEF Respond
<1>8. CASE RespondWont
  <2>1. /\ mccp_mode["client"] # "enable"
        /\ Flush("client", Command("WONT", Buffer[2].cell[2]))
    BY <1>8 DEF RespondWont, Respond, Matched
  <2>2. Buffer[2].cell \in {"DO"} \X MccpOption
    BY <1>8 DEF RespondWont, Matched
  <2>3. Buffer[2].cell[2] \in Option
    BY <2>2 DEF MccpOption, Option
  <2> QED BY <1>1, <2>1, <2>3, WontKeeps
<1> QED BY <1>4, <1>5, <1>6, <1>7, <1>8

\* The client's DONT ends the stream.
LEMMA DontClient == OutputInv /\ ClientInv /\ Mccp2Dont => ClientInv'
<1> SUFFICES ASSUME OutputInv, ClientInv, Mccp2Dont PROVE ClientInv'
  OBVIOUS
<1>1. UNCHANGED <<dry, link>> /\ FlushQueue("game", <<Compression(FALSE)>>)
  BY DEF Mccp2Dont, peerVars, faultVars
<1>2. <<Compression(FALSE)>> \in Seq(Cell)
  BY CompressionType, Single
<1>3. sent'["client"] = sent["client"] /\ (Intact' => Intact)
  BY <1>1, <1>2, GameFlush DEF OutputInv
<1>4. /\ deflate'.gen = deflate.gen /\ deflate'.pos = deflate.pos
      /\ deflate'.on = FALSE
  BY DEF Mccp2Dont, OutputInv, TypeInv, OutType
<1> QED BY <1>3, <1>4, LeftKeeps DEF ClientLeft

\* The client's DO starts it, with the marker.
LEMMA DoClient == OutputInv /\ ClientInv /\ Mccp2Do => ClientInv'
<1> SUFFICES ASSUME OutputInv, ClientInv, Mccp2Do PROVE ClientInv'
  OBVIOUS
<1> USE DEF OutputInv
<1>1. UNCHANGED <<dry, link>>
  BY DEF Mccp2Do, peerVars, faultVars
<1>2. CASE UNCHANGED outVars
  <2>1. ClientLeft
    BY <1>1, <1>2 DEF outVars, ClientLeft, Intact
  <2> QED BY <2>1, LeftKeeps
<1>3. CASE ~UNCHANGED outVars
  <2> PICK marker \in Seq(Element), news \in Seq(Element) :
        \E k \in Takes("client", marker), m \in Takes("game", news) :
          BothFlushed(marker, k, news, m)
    BY <1>3, DoType
  <2>1. PICK k \in Takes("client", marker), m \in Takes("game", news) :
          BothFlushed(marker, k, news, m)
    OBVIOUS
  <2>2. deflate' = [on |-> TRUE, gen |-> deflate.gen + 1, pos |-> 0]
        /\ deflate.gen \in Nat
    BY <2>1 DEF BothFlushed, TypeInv, OutType
  <2>3. ASSUME Intact', deflate'.gen = 1
        PROVE  ZipWire(sent'["client"], 0)
    <3>1. Intact /\ k = Len(marker)
      <4>1. k \in 0 .. Len(marker) /\ Len(marker) \in Nat
        BY TakesType, LenProperties
      <4>2. /\ shorts \in Nat /\ shorts' = 0
            /\ Short("client", marker, k) \in {0, 1}
            /\ Short("game", news, m) \in {0, 1}
            /\ shorts' = shorts + Short("client", marker, k)
                                + Short("game", news, m)
        BY <2>1, <2>3 DEF Short, BothFlushed, TypeInv, OutType, Intact
      <4>3. shorts = 0 /\ Short("client", marker, k) = 0
        BY <4>2
      <4>4. link["client"] = "open"
        BY <1>1, <2>3 DEF Intact
      <4> QED BY <4>1, <4>3, <4>4 DEF Intact, Short
    <3>2. PlainWire(sent["client"])
      BY <2>2, <2>3, <3>1 DEF ClientInv
    <3>3. outq["client"] = <<>>
      BY <3>1 DEF EmptyInv, Intact, Side
    <3> DEFINE a == [cell |-> IAC, src |-> 0, enc |-> 0, pos |-> 0]
               b == [cell |-> <<"SB", "MCCP2">>, src |-> 0, enc |-> 0, pos |-> 0]
    <3>4. marker = <<a, b>>
      <4>1. Own(Command("SB", "MCCP2")) = <<a, b>>
        BY DEF Own, Command
      <4>2. marker = <<>> \o Own(Command("SB", "MCCP2"))
        BY <2>1, <3>3 DEF BothFlushed
      <4> HIDE DEF a, b
      <4> QED BY <4>1, <4>2, ConcatEmptySeq
    <3>5. a \in Element /\ b \in Element
      <4>1. IAC \in Cell /\ <<"SB", "MCCP2">> \in Cell
        BY DEF IAC, Cell, Verb, Option
      <4> QED BY <4>1 DEF Element
    <3>6. a.enc = 0 /\ ~Mark(a) /\ b.enc = 0 /\ Mark(b)
      BY DEF Mark, IAC
    <3> HIDE DEF a, b
    <3>7. sent'["client"] = sent["client"] \o marker
      <4>1. SubSeq(marker, 1, k) = marker
        BY <3>1, SubSeqFull
      <4> QED BY <2>1, <4>1 DEF BothFlushed
    <3>8. sent["client"] \in Seq(Element)
      BY DEF TypeInv, OutType, Side
    <3>9. ZipWire(sent["client"] \o <<a, b>>, 0)
      BY <3>2, <3>5, <3>6, <3>8, ZipStarts
    <3> QED BY <3>4, <3>7, <3>9
  <2> QED BY <2>2, <2>3 DEF ClientInv
<1> QED BY <1>2, <1>3

\* The offer is plain.
LEMMA StartClient ==
    ASSUME OutputInv, NegoInv, ClientInv, Start
    PROVE  ClientInv'
<1>1. UNCHANGED <<deflate, shorts, link>> /\ ~deflate.on
  BY DEF Start, NegoInv, StartInv, peerVars
<1> DEFINE offer == IF mccp_mode["client"] = "enable"
                    THEN Command("WILL", "MCCP2") ELSE <<>>
<1>2. sent'["client"] = Own(offer)
  BY DEF Start
<1>3. PlainWire(Own(offer))
  <2>1. PlainWire(Own(<<>>))
    BY DEF PlainWire, Own
  <2>2. PlainWire(Own(Command("WILL", "MCCP2")))
    BY PlainCommand
  <2> QED BY <2>1, <2>2
<1> QED BY <1>1, <1>2, <1>3 DEF ClientInv

\* Every step keeps the invariant.
LEMMA ClientNext ==
    ASSUME OutputInv, NegoInv, ClientInv, [Next]_vars
    PROVE  ClientInv'
<1>1. CASE Loop
  BY <1>1, StartClient, SilentClient, RelayClient, SpeakClient DEF Loop
<1>2. CASE Handler
  BY <1>2, SilentClient, RelayClient, SpeakClient, DoClient, DontClient
  DEF Handler
<1>3. CASE PollInterrupted
  BY <1>3, SilentClient
<1>4. CASE Peer \/ Tick \/ Terminated \/ UNCHANGED vars
  BY <1>4, OutsideClient DEF Terminated
<1> QED BY <1>1, <1>2, <1>3, <1>4 DEF Next

\* A wire of that shape is one a client can inflate.
LEMMA ZipInflates ==
    ASSUME NEW q \in Seq(Element), NEW n \in Nat, ZipWire(q, n)
    PROVE  LET starts == {i \in DOMAIN q :
                              q[i].src = 0 /\ q[i].cell = <<"SB", "MCCP2">>}
           IN  /\ Cardinality(starts) = 1
               /\ \A i \in DOMAIN q, m \in starts :
                     IF i <= m THEN q[i].enc <= 0
                               ELSE q[i].enc = 1 /\ q[i].pos = i - m
<1> DEFINE starts == {i \in DOMAIN q :
                         q[i].src = 0 /\ q[i].cell = <<"SB", "MCCP2">>}
<1>1. DOMAIN q = 1 .. Len(q) /\ Len(q) \in Nat
  BY LenProperties
<1>2. PICK m \in 1 .. Len(q) :
        /\ Len(q) = m + n
        /\ \A i \in 1 .. Len(q) :
              /\ Mark(q[i]) <=> i = m
              /\ i <= m => q[i].enc <= 0
              /\ i > m => q[i].enc = 1 /\ q[i].pos = i - m
  BY DEF ZipWire
<1>3. ASSUME NEW i \in 1 .. Len(q)
      PROVE  /\ Mark(q[i]) <=> i = m
             /\ i <= m => q[i].enc <= 0
             /\ i > m => q[i].enc = 1 /\ q[i].pos = i - m
  BY <1>2
<1>4. ASSUME NEW i \in 1 .. Len(q)
      PROVE  q[i].src = 0 /\ q[i].cell = <<"SB", "MCCP2">> <=> i = m
  BY <1>3 DEF Mark
<1>5. starts = {m}
  BY <1>1, <1>4
<1>6. Cardinality(starts) = 1
  BY <1>5, FS_Singleton
<1> HIDE DEF starts
<1>7. ASSUME NEW i \in DOMAIN q, NEW k \in starts
      PROVE  IF i <= k THEN q[i].enc <= 0 ELSE q[i].enc = 1 /\ q[i].pos = i - k
  <2>1. k = m /\ i \in 1 .. Len(q) /\ m \in Nat /\ i \in Nat
    BY <1>1, <1>5
  <2>2. i <= m \/ (i > m /\ ~(i <= m))
    BY <2>1
  <2>3. CASE i <= m
    BY <1>3, <2>1, <2>3
  <2>4. CASE i > m /\ ~(i <= m)
    BY <1>3, <2>1, <2>4
  <2> QED BY <2>2, <2>3, <2>4
<1> QED BY <1>6, <1>7 DEF starts

-----------------------------------------------------------------------------
\* A client that has taken up the offer once and kept to it can inflate what
\* it receives: telnet up to the one marker, then one unbroken zlib stream, in
\* whatever order it and the game negotiate, and whatever either sends.
THEOREM InflateCorrect == Spec => []ClientCanInflate
<1>1. Init => ClientInv
  BY DEF Init, ClientInv, PlainWire, Side
<1>2. OutputInv /\ NegoInv /\ ClientInv /\ [Next]_vars => ClientInv'
  BY ClientNext
<1>3. OutputInv /\ ClientInv => ClientCanInflate
  <2> SUFFICES ASSUME OutputInv, ClientInv, deflate.on, deflate.gen = 1, Intact
               PROVE  ClientCanInflate
    BY DEF ClientCanInflate, Intact
  <2>1. sent["client"] \in Seq(Element) /\ deflate.pos \in Nat
    BY DEF OutputInv, TypeInv, OutType, Side
  <2>2. ZipWire(sent["client"], deflate.pos)
    BY DEF ClientInv
  <2> QED BY <2>1, <2>2, ZipInflates DEF ClientCanInflate
<1> QED BY <1>1, <1>2, <1>3, OutputAlways, NegoAlways, PTL DEF Spec

-----------------------------------------------------------------------------
(* What the game is told of the client's compression.                      *)

\* Where q tells of it, and whether the last it tells is that it is on or off
Told(q) == {i \in 1 .. Len(q) : q[i].src = 0 /\ q[i].cell[1] = "COMPRESSION"}
LastTold(q, on) ==
    \A i \in Told(q) : (\A j \in Told(q) : j <= i) => q[i].cell = Compression(on)

\* What is queued is so, or what is sent where nothing is queued.
ToldInv == /\ LastTold(outq["game"], deflate.on)
           /\ Told(outq["game"]) = {} => LastTold(sent["game"], deflate.on)

\* The last one of two sequences tells is what the second does, if it does.
LEMMA ToldConcat ==
    ASSUME NEW p \in Seq(Element), NEW q \in Seq(Element), NEW on
    PROVE  /\ Told(p \o q) = {} <=> Told(p) = {} /\ Told(q) = {}
           /\ LastTold(p \o q, on) <=> /\ LastTold(q, on)
                                       /\ Told(q) = {} => LastTold(p, on)
<1> DEFINE w == p \o q
           n == Len(p)
<1>1. Len(w) = n + Len(q) /\ n \in Nat /\ Len(q) \in Nat
  BY ConcatProperties, LenProperties
<1>2. \A i \in 1 .. n + Len(q) : w[i] = IF i <= n THEN p[i] ELSE q[i - n]
  BY ConcatProperties
<1> HIDE DEF w, n
<1>3. ASSUME NEW i \in Int, i <= n
      PROVE  (i \in Told(w) <=> i \in Told(p)) /\ (i \in Told(p) => w[i] = p[i])
  BY <1>1, <1>2, <1>3 DEF Told, n
<1>4. ASSUME NEW i \in Int
      PROVE  /\ i \in Told(q) <=> i + n \in Told(w) /\ i > 0
             /\ i \in Told(q) => w[i + n] = q[i]
  <2>1. i > 0 /\ i <= Len(q) => w[i + n] = q[i]
    <3> SUFFICES ASSUME i > 0, i <= Len(q) PROVE w[i + n] = q[i]
      OBVIOUS
    <3>1. i + n \in 1 .. n + Len(q) /\ ~(i + n <= n) /\ (i + n) - n = i
      BY <1>1
    <3>2. w[i + n] = IF i + n <= n THEN p[i + n] ELSE q[(i + n) - n]
      BY <1>2, <3>1
    <3> QED BY <3>1, <3>2
  <2>2. i + n \in 1 .. Len(w) /\ i > 0 <=> i \in 1 .. Len(q)
    BY <1>1
  <2> QED BY <2>1, <2>2 DEF Told
<1>5. /\ Told(w) \subseteq 1 .. n + Len(q)
      /\ Told(p) \subseteq 1 .. n /\ Told(q) \subseteq 1 .. Len(q)
  BY <1>1 DEF Told, n
<1>6. ASSUME NEW i \in Told(w)
      PROVE  i \in Int /\ (i \in Told(p) \/ (i - n \in Told(q) /\ i = (i - n) + n))
  <2>1. i \in Int /\ i - n \in Int /\ i = (i - n) + n
    BY <1>1, <1>5
  <2>2. CASE i <= n
    BY <1>3, <2>1, <2>2
  <2>3. CASE i > n
    <3>1. i - n > 0
      BY <1>1, <2>1, <2>3
    <3> QED BY <1>4, <2>1, <3>1
  <2> QED BY <1>1, <2>1, <2>2, <2>3
<1>7. ASSUME NEW i \in Told(p) PROVE i \in Told(w) /\ i \in 1 .. n
  BY <1>1, <1>3, <1>5
<1>8. ASSUME NEW i \in Told(q) PROVE i + n \in Told(w) /\ i \in 1 .. Len(q)
  BY <1>1, <1>4, <1>5
<1>9. Told(w) = {} <=> Told(p) = {} /\ Told(q) = {}
  BY <1>6, <1>7, <1>8
<1>10. ASSUME LastTold(w, on) PROVE LastTold(q, on) /\ (Told(q) = {} => LastTold(p, on))
  <2>1. ASSUME NEW i \in Told(q), \A j \in Told(q) : j <= i
        PROVE  q[i].cell = Compression(on)
    <3>1. i + n \in Told(w) /\ w[i + n] = q[i] /\ i \in Int /\ i > 0
      BY <1>4, <1>8
    <3>2. ASSUME NEW j \in Told(w) PROVE j <= i + n
      <4>1. CASE j \in Told(p)
        BY <1>1, <1>7, <3>1, <4>1
      <4>2. CASE j - n \in Told(q)
        <5>1. j - n <= i /\ j \in Int
          BY <1>6, <2>1, <4>2
        <5> QED BY <1>1, <3>1, <5>1
      <4> QED BY <1>6, <4>1, <4>2
    <3> QED BY <1>10, <3>1, <3>2 DEF LastTold
  <2>2. ASSUME Told(q) = {}, NEW i \in Told(p), \A j \in Told(p) : j <= i
        PROVE  p[i].cell = Compression(on)
    <3>1. i \in Told(w) /\ w[i] = p[i]
      BY <1>1, <1>3, <1>7
    <3>2. \A j \in Told(w) : j <= i
      BY <1>6, <2>2
    <3> QED BY <1>10, <3>1, <3>2 DEF LastTold
  <2> QED BY <2>1, <2>2 DEF LastTold
<1>11. ASSUME LastTold(q, on), Told(q) = {} => LastTold(p, on)
       PROVE  LastTold(w, on)
  <2>1. ASSUME NEW i \in Told(w), \A j \in Told(w) : j <= i
        PROVE  w[i].cell = Compression(on)
    <3>1. CASE i \in Told(p)
      <4>1. i \in 1 .. n /\ w[i] = p[i]
        BY <1>1, <1>3, <1>7, <3>1
      <4>2. Told(q) = {}
        <5>1. ASSUME NEW j \in Told(q) PROVE FALSE
          <6>1. j + n <= i /\ j \in 1 .. Len(q)
            BY <1>8, <2>1
          <6> QED BY <1>1, <4>1, <6>1
        <5> QED BY <5>1
      <4>3. \A j \in Told(p) : j <= i
        BY <1>7, <2>1
      <4> QED BY <1>11, <3>1, <4>1, <4>2, <4>3 DEF LastTold
    <3>2. CASE i - n \in Told(q) /\ i = (i - n) + n
      <4>1. i - n \in Int /\ i \in Int /\ w[i] = q[i - n]
        <5>1. i - n \in Int /\ i \in Int
          BY <1>1, <1>6
        <5> QED BY <1>4, <3>2, <5>1
      <4>2. ASSUME NEW j \in Told(q) PROVE j <= i - n
        <5>1. j + n <= i /\ j \in Int
          BY <1>8, <2>1
        <5> QED BY <1>1, <4>1, <5>1
      <4> QED BY <1>11, <3>2, <4>1, <4>2 DEF LastTold
    <3> QED BY <1>6, <3>1, <3>2
  <2> QED BY <2>1 DEF LastTold
<1> QED BY <1>9, <1>10, <1>11 DEF w

\* What is told of nothing is so.
LEMMA NothingTold ==
    ASSUME NEW q, Told(q) = {} PROVE \A on : LastTold(q, on)
BY DEF LastTold

\* What is relayed tells of nothing.
LEMMA RelayTells == ASSUME NEW q \in Seq(Input) PROVE Told(q) = {}
<1>1. ASSUME NEW i \in 1 .. Len(q) PROVE q[i].src # 0
  <2>1. q[i] \in Input
    BY ElementOfSeq
  <2> QED BY <2>1 DEF Input, Element
<1> QED BY <1>1 DEF Told

\* Nor does what MUDitM says of other things.
LEMMA OtherTells ==
    ASSUME NEW cells \in Seq(Cell),
           \A i \in 1 .. Len(cells) : cells[i][1] # "COMPRESSION"
    PROVE  Told(Own(cells)) = {}
<1>1. /\ Len(cells) \in Nat /\ DOMAIN cells = 1 .. Len(cells)
      /\ Len(Own(cells)) = Len(cells)
  BY OwnType, LenProperties
<1>2. ASSUME NEW i \in 1 .. Len(cells) PROVE Own(cells)[i].cell[1] # "COMPRESSION"
  <2>1. Own(cells)[i].cell = cells[i]
    BY <1>1 DEF Own
  <2> QED BY <2>1
<1> QED BY <1>1, <1>2 DEF Told

\* It is said once.
LEMMA NewsTells ==
    ASSUME NEW on \in BOOLEAN
    PROVE  /\ LastTold(Own(<<Compression(on)>>), on)
           /\ Told(Own(<<Compression(on)>>)) # {}
           /\ Own(<<Compression(on)>>) \in Seq(Element)
<1> DEFINE cells == <<Compression(on)>>
           own == Own(cells)
<1>1. cells \in Seq(Cell) /\ Len(cells) = 1 /\ cells[1] = Compression(on)
  BY CompressionType, Single
<1>2. own \in Seq(Element) /\ Len(own) = 1
  BY <1>1, OwnType
<1>3. own[1].cell = Compression(on) /\ own[1].src = 0
  BY <1>1 DEF Own
<1>4. Compression(on)[1] = "COMPRESSION"
  BY DEF Compression
<1> HIDE DEF own
<1>5. Told(own) = {1}
  BY <1>2, <1>3, <1>4 DEF Told
<1> QED BY <1>2, <1>3, <1>5 DEF LastTold, own

\* A step that tells the game nothing
ToldLeft == /\ sent'["game"] = sent["game"] /\ outq'["game"] = outq["game"]
            /\ deflate'.on = deflate.on

\* Such a step keeps the invariant.
LEMMA ToldLeftKeeps == ToldInv /\ ToldLeft => ToldInv'
BY DEF ToldInv, ToldLeft, LastTold, Told

\* A flush of what is queued for the game and what is added to it tells the
\* last of what is added, however much of it gets out.
LEMMA GameHears ==
    ASSUME TypeInv, ToldInv, NEW own \in Seq(Element), NEW data \in Seq(Element),
           data = outq["game"] \o own, NEW k \in 0 .. Len(data),
           sent'["game"] = sent["game"] \o SubSeq(data, 1, k),
           outq'["game"] = After(data, k),
           LastTold(own, deflate'.on),
           Told(own) # {} \/ deflate'.on = deflate.on
    PROVE  ToldInv'
<1> DEFINE on == deflate'.on
           a == SubSeq(data, 1, k)
           b == After(data, k)
<1>1. outq["game"] \in Seq(Element) /\ sent["game"] \in Seq(Element)
  BY DEF TypeInv, OutType, Side
<1>2. a \in Seq(Element) /\ b \in Seq(Element) /\ a \o b = data
  <2>1. k \in Nat
    BY LenProperties
  <2> QED BY <2>1, UpToType, AfterType, PartsJoin
<1> HIDE DEF a, b, on
<1>3. /\ LastTold(data, on)
      /\ Told(data) = {} => LastTold(sent["game"], on)
  <2>1. /\ Told(data) = {} <=> Told(outq["game"]) = {} /\ Told(own) = {}
        /\ LastTold(data, on) <=> /\ LastTold(own, on)
                                  /\ Told(own) = {} => LastTold(outq["game"], on)
    BY <1>1, ToldConcat
  <2> QED BY <2>1 DEF ToldInv, on
<1>4. /\ Told(data) = {} <=> Told(a) = {} /\ Told(b) = {}
      /\ LastTold(data, on) <=> LastTold(b, on) /\ (Told(b) = {} => LastTold(a, on))
  <2>1. /\ Told(a \o b) = {} <=> Told(a) = {} /\ Told(b) = {}
        /\ LastTold(a \o b, on)
           <=> LastTold(b, on) /\ (Told(b) = {} => LastTold(a, on))
    BY <1>2, ToldConcat
  <2> QED BY <1>2, <2>1
<1>5. LastTold(sent["game"] \o a, on)
      <=> LastTold(a, on) /\ (Told(a) = {} => LastTold(sent["game"], on))
  BY <1>1, <1>2, ToldConcat
<1>6. LastTold(b, on) /\ (Told(b) = {} => LastTold(sent["game"] \o a, on))
  BY <1>3, <1>4, <1>5
<1>7. LastTold(outq'["game"], on) /\ (Told(outq'["game"]) = {} => LastTold(sent'["game"], on))
  BY <1>6 DEF a, b
<1> QED BY <1>7 DEF ToldInv, LastTold, Told, on

\* So does flush_endpoint() for the game,
LEMMA FlushTells ==
    ASSUME TypeInv, ToldInv, NEW cells \in Seq(Cell), FlushQueue("game", cells),
           LastTold(Own(cells), deflate'.on),
           Told(Own(cells)) # {} \/ deflate'.on = deflate.on
    PROVE  ToldInv'
<1> DEFINE data == outq["game"] \o Own(cells)
<1>1. data \in Seq(Element) /\ Own(cells) \in Seq(Element)
  BY QueueType, OwnType DEF TypeInv, Side
<1>2. PICK k \in Takes("game", data) :
        Put("game", data, k) /\ outq' = [outq EXCEPT !["game"] = After(data, k)]
  BY DEF FlushQueue, Compressed
<1>3. Encode("game", data) = data
  BY DEF Encode, Compressed
<1>4. data = outq["game"] \o Own(cells)
  OBVIOUS
<1> HIDE DEF data
<1>5. k \in 0 .. Len(data)
  BY <1>1, <1>2, TakesType
<1>6. sent' = [sent EXCEPT !["game"] = sent["game"] \o SubSeq(data, 1, k)]
  BY <1>2, <1>3 DEF Put
<1>7. /\ sent'["game"] = sent["game"] \o SubSeq(data, 1, k)
      /\ outq'["game"] = After(data, k)
  BY <1>2, <1>6 DEF TypeInv, OutType, Side
<1> QED BY <1>1, <1>4, <1>5, <1>7, GameHears

\* and for the client, who is another.
LEMMA ClientFlushTells ==
    ASSUME TypeInv, NEW cells, FlushQueue("client", cells)
    PROVE  sent'["game"] = sent["game"] /\ outq'["game"] = outq["game"]
<1>1. \E x, y : /\ sent' = [sent EXCEPT !["client"] = x]
                /\ outq' = [outq EXCEPT !["client"] = y]
  BY DEF FlushQueue, Put
<1> QED BY <1>1 DEF TypeInv, OutType, Side

\* What is relayed changes nothing of it.
LEMMA RelayToldKeeps ==
    ASSUME TypeInv, ToldInv, NEW s \in Side, NEW data \in Seq(Input),
           Write(s, data), UNCHANGED outq, deflate'.on = deflate.on
    PROVE  ToldInv'
<1>1. PICK k \in Takes(s, data) : Put(s, data, k)
  BY DEF Write
<1>2. sent' = [sent EXCEPT ![s] = sent[s] \o SubSeq(Encode(s, data), 1, k)]
  BY <1>1 DEF Put
<1>3. CASE s = "client"
  <2>1. sent'["game"] = sent["game"]
    BY <1>2, <1>3 DEF TypeInv, OutType, Side
  <2> QED BY <2>1, ToldLeftKeeps DEF ToldLeft
<1>4. CASE s = "game"
  <2> DEFINE x == SubSeq(data, 1, k)
  <2>1. k \in 0 .. Len(data)
    BY <1>1, InputType, TakesType
  <2>2. x \in Seq(Input) /\ x \in Seq(Element)
    BY <2>1, UpToType, InputType
  <2>3. Told(x) = {}
    BY <2>2, RelayTells
  <2>4. sent'["game"] = sent["game"] \o x
    <3>1. Encode(s, data) = data
      BY <1>4 DEF Encode, Compressed
    <3> QED BY <1>2, <1>4, <3>1 DEF TypeInv, OutType, Side
  <2> HIDE DEF x
  <2>5. sent["game"] \in Seq(Element)
    BY DEF TypeInv, OutType, Side
  <2>6. LastTold(sent["game"], deflate.on) => LastTold(sent["game"] \o x, deflate.on)
    BY <2>2, <2>3, <2>5, ToldConcat, NothingTold
  <2>7. /\ LastTold(outq["game"], deflate.on)
        /\ Told(outq["game"]) = {} => LastTold(sent'["game"], deflate.on)
    BY <2>4, <2>6 DEF ToldInv
  <2> QED BY <2>7 DEF ToldInv, LastTold, Told
<1> QED BY <1>3, <1>4 DEF Side

\* The steps that tell the game nothing of it
LEMMA SilentTold ==
    ASSUME OutputInv, NegoInv, ToldInv,
           \/ SetNonblocking \/ Poll \/ PollTimeout \/ PollInterrupted
           \/ Read \/ ReadInflated \/ ReadCorrupt \/ ReadNothing \/ ReadError
           \/ ScanPartial \/ MnesDoes \/ MnesClientWill \/ MccpIgnore
           \/ Mccp2SbStart \/ Peer \/ Tick \/ UNCHANGED vars
    PROVE  ToldInv'
<1>1. UNCHANGED <<sent, outq, deflate>>
  BY DEF SetNonblocking, Poll, PollTimeout, PollInterrupted, Read, ReadInflated,
     ReadCorrupt, ReadNothing, ReadError, ScanPartial, MnesDoes, MnesClientWill,
     MccpIgnore, Mccp2SbStart, Peer, GameCompresses, GameEndsZlib, Send, HangUp,
     Tick, vars, outVars
<1> QED BY <1>1, ToldLeftKeeps DEF ToldLeft

\* The steps that relay
LEMMA RelayTold ==
    ASSUME OutputInv, NegoInv, ToldInv,
           ScanNoMatch \/ ScanMatch \/ Forward \/ Mccp2DoFails \/ Mccp2SbStartFails
    PROVE  ToldInv'
<1>1. UNCHANGED outq
  BY DEF ScanNoMatch, ScanMatch, Forward, Mccp2DoFails, Mccp2SbStartFails, InitFails
<1>2. PICK data \in Seq(Input) : Write(Other(Cur), data)
  BY RelayWrites DEF OutputInv
<1>3. deflate'.on = deflate.on
  BY <1>2, WriteKeeps
<1> QED BY <1>1, <1>2, <1>3, CurType, RelayToldKeeps DEF OutputInv

\* MUDitM's words, among them what it answers the game's request with
LEMMA SpeakTold ==
    ASSUME OutputInv, NegoInv, ToldInv,
           CheckFallback \/ MnesRequest \/ MnesClientWont
           \/ RespondDont \/ RespondDo \/ RespondWont
    PROVE  ToldInv'
<1> USE DEF OutputInv
<1>1. ASSUME NEW verb \in Verb, NEW option \in Option, verb # "COMPRESSION",
             Flush("game", Command(verb, option))
      PROVE  ToldInv'
  <2> DEFINE cells == Command(verb, option)
  <2>1. cells \in Seq(Cell) /\ Len(cells) = 2
    BY CommandType
  <2>2. \A i \in 1 .. 2 : cells[i][1] # "COMPRESSION"
    <3>1. cells[1] = <<"IAC", "">> /\ cells[2] = <<verb, option>>
      BY DEF Command, IAC
    <3>2. <<"IAC", "">>[1] = "IAC" /\ <<verb, option>>[1] = verb
      OBVIOUS
    <3> HIDE DEF cells
    <3>3. cells[1][1] # "COMPRESSION" /\ cells[2][1] # "COMPRESSION"
      BY <1>1, <3>1, <3>2
    <3>4. 1 .. 2 = {1, 2}
      OBVIOUS
    <3> QED BY <3>3, <3>4
  <2>3. FlushQueue("game", cells) /\ deflate'.on = deflate.on
    BY <1>1, WriteKeeps DEF Flush
  <2> HIDE DEF cells
  <2>4. Told(Own(cells)) = {}
    BY <2>1, <2>2, OtherTells
  <2> QED BY <2>1, <2>3, <2>4, NothingTold, FlushTells
<1>2. CASE CheckFallback
  <2>1. CASE UNCHANGED outVars
    BY <2>1, ToldLeftKeeps DEF outVars, ToldLeft
  <2>2. CASE Flush("game", Command("WILL", "NEWENV"))
    BY <1>1, <2>2 DEF Verb, Option
  <2> QED BY <1>2, <2>1, <2>2 DEF CheckFallback, outVars
<1>3. CASE MnesClientWont
  BY <1>1, <1>3 DEF MnesClientWont, Verb, Option
<1>4. CASE MnesRequest
  <2> DEFINE on == deflate.on
             cells == <<<<"PROXY_NAME", "">>, Compression(on)>>
             own == Own(cells \o ReportVars)
  <2>1. on = (mccp_nego = "ACCEPTED") /\ on \in BOOLEAN
    BY DEF NegoInv, NegoMatchesDeflate, TypeInv, OutType
  <2>2. Flush("game", cells \o ReportVars)
    BY <1>4, <2>1 DEF MnesRequest
  <2>3. cells \o ReportVars \in Seq(Cell)
    BY <2>1, RequestType
  <2>4. FlushQueue("game", cells \o ReportVars) /\ deflate'.on = on
    BY <2>2, WriteKeeps DEF Flush
  <2>5. LastTold(own, on)
    <3>1. /\ Len(ReportVars) \in Nat
          /\ \A i \in 1 .. Len(ReportVars) : ReportVars[i] = <<"IPADDRESS", "">>
      <4> DEFINE S == {<<"IPADDRESS", "">>}
      <4>1. ReportVars \in Seq(S)
        BY CellsAssumption
      <4>2. \A e \in S : e = <<"IPADDRESS", "">>
        BY Zenon
      <4> HIDE DEF S
      <4> QED BY <4>1, <4>2, ElementOfSeq, LenProperties
    <3>2. /\ Len(cells) = 2 /\ cells[2] = Compression(on)
          /\ cells[1] = <<"PROXY_NAME", "">> /\ cells \in Seq(Cell)
      <4>1. <<"PROXY_NAME", "">> \in Cell /\ Compression(on) \in Cell
        BY <2>1, CompressionType DEF Cell, Verb, Option
      <4> HIDE DEF on
      <4> QED BY <4>1, TwoType
    <3> HIDE DEF cells
    <3>3. ReportVars \in Seq(Cell)
      BY ReportType
    <3> DEFINE c == cells \o ReportVars
    <3>4. Len(c) = 2 + Len(ReportVars) /\ c \in Seq(Cell)
          /\ \A i \in 1 .. 2 + Len(ReportVars) :
               c[i] = IF i <= 2 THEN cells[i] ELSE ReportVars[i - 2]
      <4>1. /\ Len(c) = Len(cells) + Len(ReportVars) /\ c \in Seq(Cell)
            /\ \A i \in 1 .. Len(cells) + Len(ReportVars) :
                  c[i] = IF i <= Len(cells) THEN cells[i]
                         ELSE ReportVars[i - Len(cells)]
        BY <3>2, <3>3, ConcatProperties
      <4> HIDE DEF c
      <4> QED BY <3>2, <4>1
    <3> HIDE DEF c
    <3>5. Len(own) = Len(c) /\ \A i \in 1 .. Len(c) : own[i].cell = c[i]
      <4>1. DOMAIN c = 1 .. Len(c)
        BY <3>4, LenProperties
      <4> QED BY <3>4, <4>1, OwnType DEF Own, c
    <3> HIDE DEF own
    <3> DEFINE name == <<"PROXY_NAME", "">>
               address == <<"IPADDRESS", "">>
    <3>7. name[1] # "COMPRESSION" /\ address[1] # "COMPRESSION"
      OBVIOUS
    <3>8. /\ cells[1] = name /\ cells[2] = Compression(on)
          /\ \A i \in 1 .. Len(ReportVars) : ReportVars[i] = address
      BY <3>1, <3>2
    <3> HIDE DEF name, address, on
    <3>6. ASSUME NEW i \in Told(own) PROVE own[i].cell = Compression(on)
      <4>1. i \in 1 .. Len(c) /\ c[i][1] = "COMPRESSION"
        BY <3>5 DEF Told
      <4>2. /\ \/ (i = 1 \/ i = 2) /\ i <= 2
               \/ ~(i <= 2) /\ i - 2 \in 1 .. Len(ReportVars)
            /\ c[i] = IF i <= 2 THEN cells[i] ELSE ReportVars[i - 2]
        <5> DEFINE n == Len(ReportVars)
        <5>1. n \in Nat /\ i \in 1 .. 2 + n
          BY <3>1, <3>4, <4>1
        <5>2. c[i] = IF i <= 2 THEN cells[i] ELSE ReportVars[i - 2]
          BY <3>4, <5>1
        <5> HIDE DEF n
        <5>3. \/ (i = 1 \/ i = 2) /\ i <= 2
              \/ ~(i <= 2) /\ i - 2 \in 1 .. n
          BY <5>1
        <5> QED BY <5>2, <5>3 DEF n
      <4>3. CASE i = 1
        <5>1. c[i] = name
          BY <3>8, <4>2, <4>3
        <5> QED BY <3>7, <4>1, <5>1
      <4>4. CASE i = 2
        <5>1. c[i] = Compression(on)
          BY <3>8, <4>2, <4>4
        <5> QED BY <3>5, <4>1, <5>1
      <4>5. CASE ~(i <= 2) /\ i - 2 \in 1 .. Len(ReportVars)
        <5>1. c[i] = address
          BY <3>8, <4>2, <4>5
        <5> QED BY <3>7, <4>1, <5>1
      <4> QED BY <4>2, <4>3, <4>4, <4>5
    <3> QED BY <3>6 DEF LastTold
  <2> QED BY <2>3, <2>4, <2>5, FlushTells
<1>5. CASE RespondDont \/ RespondDo
  <2>1. PICK verb \in {"DO", "DONT"} : pc = "match" /\ Cur = "game" /\ Respond(verb)
    BY <1>5 DEF RespondDont, RespondDo, Matched
  <2>2. Buffer[2].cell[2] \in Option
    <3>1. Buffer[2].cell \in {"WILL"} \X (MccpOption \cup {"MCCP2"})
      BY <1>5 DEF RespondDont, RespondDo, Matched
    <3> QED BY <3>1 DEF MccpOption, Option
  <2>3. Flush("game", Command(verb, Buffer[2].cell[2]))
    BY <2>1 DEF Respond
  <2>4. verb \in Verb /\ verb # "COMPRESSION"
    BY DEF Verb
  <2> QED BY <1>1, <2>2, <2>3, <2>4
<1>6. CASE RespondWont
  <2>1. PICK cells : Flush("client", cells)
    BY <1>6 DEF RespondWont, Respond, Matched
  <2>2. deflate'.on = deflate.on /\ FlushQueue("client", cells)
    BY <2>1, WriteKeeps DEF Flush
  <2> QED BY <2>2, ClientFlushTells, ToldLeftKeeps DEF ToldLeft
<1> QED BY <1>2, <1>3, <1>4, <1>5, <1>6

\* The client's DO and DONT are told.
LEMMA AnswerTold ==
    ASSUME OutputInv, NegoInv, ToldInv, Mccp2Do \/ Mccp2Dont
    PROVE  ToldInv'
<1> USE DEF OutputInv
<1>1. CASE Mccp2Dont
  <2>1. /\ FlushQueue("game", <<Compression(FALSE)>>)
        /\ deflate'.on = FALSE
    BY <1>1 DEF Mccp2Dont, TypeInv, OutType
  <2>2. <<Compression(FALSE)>> \in Seq(Cell)
    BY CompressionType, Single
  <2> QED BY <2>1, <2>2, NewsTells, FlushTells
<1>2. CASE Mccp2Do /\ UNCHANGED outVars
  BY <1>2, ToldLeftKeeps DEF outVars, ToldLeft
<1>3. CASE Mccp2Do /\ ~UNCHANGED outVars
  <2> PICK marker \in Seq(Element), news \in Seq(Element) :
        \E k \in Takes("client", marker), m \in Takes("game", news) :
          BothFlushed(marker, k, news, m)
    BY <1>3, DoType
  <2>1. PICK k \in Takes("client", marker), m \in Takes("game", news) :
          BothFlushed(marker, k, news, m)
    OBVIOUS
  <2>2. /\ news = outq["game"] \o Own(<<Compression(TRUE)>>)
        /\ sent'["game"] = sent["game"] \o SubSeq(news, 1, m)
        /\ outq'["game"] = After(news, m)
        /\ deflate'.on = TRUE
    BY <2>1 DEF BothFlushed
  <2>3. m \in 0 .. Len(news)
    BY TakesType
  <2> QED BY <2>2, <2>3, NewsTells, GameHears
<1> QED BY <1>1, <1>2, <1>3

\* A session begins by telling nothing of it.
LEMMA StartTold ==
    ASSUME OutputInv, ToldInv, Start
    PROVE  ToldInv'
<1> DEFINE address == IF ImmediateIp THEN <<<<"IPADDRESS", "">>>> ELSE <<>>
<1>1. UNCHANGED <<outq, deflate>> /\ sent'["game"] = Own(address)
  BY DEF Start
<1>2. address \in Seq(Cell) /\ \A i \in 1 .. Len(address) : address[i][1] # "COMPRESSION"
  <2>1. <<"IPADDRESS", "">> \in Cell
    BY DEF Cell, Verb, Option
  <2>2. CASE ImmediateIp
    <3> DEFINE c == <<"IPADDRESS", "">>
    <3>1. c[1] # "COMPRESSION" /\ address = <<c>>
      BY <2>2
    <3> HIDE DEF c, address
    <3>2. address \in Seq(Cell) /\ Len(address) = 1 /\ address[1] = c
      BY <2>1, <3>1, Single DEF c
    <3> QED BY <3>1, <3>2
  <2>3. CASE ~ImmediateIp
    <3>1. address = <<>>
      BY <2>3
    <3> HIDE DEF address
    <3> QED BY <3>1
  <2> QED BY <2>2, <2>3, ConfigAssumption
<1> HIDE DEF address
<1>3. Told(Own(address)) = {}
  BY <1>2, OtherTells
<1>4. LastTold(Own(address), deflate.on)
  BY <1>3, NothingTold
<1>5. LastTold(outq["game"], deflate.on) /\ LastTold(sent'["game"], deflate.on)
  BY <1>1, <1>4 DEF ToldInv
<1> QED BY <1>1, <1>5 DEF ToldInv, LastTold, Told

\* So the invariant always holds.
LEMMA ToldAlways == Spec => []ToldInv
<1>1. Init => ToldInv
  BY DEF Init, ToldInv, LastTold, Told, Side
<1>2. OutputInv /\ NegoInv /\ ToldInv /\ [Next]_vars => ToldInv'
  <2> SUFFICES ASSUME OutputInv, NegoInv, ToldInv, [Next]_vars PROVE ToldInv'
    OBVIOUS
  <2>1. CASE Loop
    BY <2>1, StartTold, SilentTold, RelayTold, SpeakTold DEF Loop
  <2>2. CASE Handler
    BY <2>2, SilentTold, RelayTold, SpeakTold, AnswerTold DEF Handler
  <2>3. CASE PollInterrupted \/ Peer \/ Tick \/ Terminated \/ UNCHANGED vars
    BY <2>3, SilentTold DEF Terminated
  <2> QED BY <2>1, <2>2, <2>3 DEF Next
<1> QED BY <1>1, <1>2, OutputAlways, NegoAlways, PTL DEF Spec

-----------------------------------------------------------------------------
\* What the game was last told of the client's compression, or is queued to be
\* told, is so in every state: in whatever order the peers negotiate, whatever
\* the game asks in between, and though writes fall short.
THEOREM ToldCorrect == Spec => []ToldIsTrue
<1>1. TypeInv /\ ToldInv => ToldIsTrue
  <2> SUFFICES ASSUME TypeInv, ToldInv PROVE ToldIsTrue
    OBVIOUS
  <2> DEFINE said == sent["game"] \o outq["game"]
  <2>1. sent["game"] \in Seq(Element) /\ outq["game"] \in Seq(Element)
    BY DEF TypeInv, OutType, Side
  <2>2. LastTold(said, deflate.on)
    BY <2>1, ToldConcat DEF ToldInv
  <2>3. DOMAIN said = 1 .. Len(said)
    BY <2>1, ConcatProperties, LenProperties
  <2> HIDE DEF said
  <2>4. Told(said) = {i \in DOMAIN said : /\ said[i].src = 0
                                          /\ said[i].cell[1] = "COMPRESSION"}
    BY <2>3 DEF Told
  <2>5. \A i \in Told(said) :
          (\A j \in Told(said) : j <= i) => said[i].cell = Compression(deflate.on)
    BY <2>2 DEF LastTold
  <2> QED BY <2>4, <2>5 DEF ToldIsTrue, said
<1> QED BY <1>1, TypeAlways, ToldAlways, PTL

-----------------------------------------------------------------------------
(* Back to poll().                                                         *)

Searching == pc \in {"scan", "match", "forward"}
Serving == pc = "serve" \/ Searching
ServedInv == Serving => revents # {}

\* How much the loop has left to do for the side s before it polls again.
Phase == IF pc = "scan" THEN 2 ELSE IF pc = "match" THEN 1 ELSE 0
Turn(s) == IF s \notin revents THEN 0
           ELSE IF s = Cur /\ Searching THEN 3 * Len(inb[s]) + Phase
           ELSE 3 * BufSize + 3
Rank == Turn("client") + Turn("game")

TurnsBounded == /\ Turn("client") \in 0 .. 3 * BufSize + 3
                /\ Turn("game") \in 0 .. 3 * BufSize + 3

\* While it serves there is something to do, and no more than so much.
RoundBounded == Serving => Rank \in 1 .. 6 * BufSize + 6

\* While it serves, each of its steps leaves less to do, and time none more.
RoundDescends == Serving /\ Serving' => Rank' < Rank \/ (Tick /\ Rank' = Rank)

\* What a step does that serves: it leaves the loop for the top or for good,
\* goes on to the next side, has read, or is done with some of the buffer or
\* with a part of the work on a match.
Advances ==
    \/ ~Serving'
    \/ NextSide
    \/ pc = "serve" /\ pc' = "scan" /\ UNCHANGED revents
    \/ /\ Searching /\ Searching' /\ UNCHANGED revents
       /\ \/ Len(inb'[Cur]) < Len(inb[Cur])
          \/ Len(inb'[Cur]) = Len(inb[Cur]) /\ Phase' < Phase

\* The lengths of the buffers, in numbers.
LEMMA TurnType ==
    ASSUME TypeInv
    PROVE  /\ BufSize \in Nat /\ BufSize >= 1
           /\ \A s \in Side : Len(inb[s]) \in 0 .. BufSize
           /\ revents \in SUBSET {"client", "game"}
           /\ Phase \in 0 .. 2
           /\ pc \in {"match", "forward"} => Len(inb[Cur]) >= 2
<1>1. Side = {"client", "game"}
  BY DEF Side
<1>2. \A s \in Side : Len(inb[s]) \in Nat /\ Len(inb[s]) <= BufSize
  BY LenProperties DEF TypeInv, InType
<1> QED BY <1>1, <1>2, BoundAssumption DEF TypeInv, ControlType, HeadInv, Phase

\* What there is to do is a number.
LEMMA TurnBound == TypeInv => TurnsBounded
<1> SUFFICES ASSUME TypeInv PROVE \A s \in Side : Turn(s) \in 0 .. 3 * BufSize + 3
  BY DEF TurnsBounded, Side
<1> TAKE s \in Side
<1>1. Len(inb[s]) \in 0 .. BufSize /\ Phase \in 0 .. 2 /\ BufSize \in Nat
  BY TurnType
<1> HIDE DEF Phase
<1> QED BY <1>1 DEF Turn

\* There is something to do for the side being served.
LEMMA TurnPositive ==
    ASSUME TypeInv, Serving, Cur \in revents
    PROVE  Turn(Cur) >= 1
<1>1. Len(inb[Cur]) \in 0 .. BufSize /\ Phase \in 0 .. 2 /\ BufSize \in Nat
  BY TurnType, CurType
<1>2. CASE pc = "serve"
  BY <1>1, <1>2 DEF Turn, Searching
<1>3. CASE pc = "scan"
  BY <1>1, <1>3 DEF Turn, Searching, Phase
<1>4. CASE pc \in {"match", "forward"}
  BY <1>1, <1>4, TurnType DEF Turn, Searching
<1> QED BY <1>2, <1>3, <1>4 DEF Serving, Searching

\* There is no more to do than the bound.
LEMMA RankType == TypeInv /\ ServedInv => RoundBounded
<1> SUFFICES ASSUME TypeInv, Serving, revents # {} PROVE Rank \in 1 .. 6 * BufSize + 6
  BY DEF ServedInv, RoundBounded
<1>1. TurnsBounded /\ BufSize \in Nat
  BY TurnBound, TurnType
<1>2. Cur \in revents
  BY TurnType DEF Cur
<1>3. Turn(Cur) >= 1
  BY <1>2, TurnPositive
<1>4. Turn("client") >= 1 \/ Turn("game") >= 1
  BY <1>3, CurType DEF Side
<1> HIDE DEF Turn
<1> QED BY <1>1, <1>4 DEF Rank, TurnsBounded

\* Less to do for one side is less to do.
LEMMA TurnLess ==
    ASSUME TypeInv, TypeInv', NEW s \in Side,
           Turn(s)' < Turn(s), Turn(Other(s))' = Turn(Other(s))
    PROVE  Rank' < Rank
<1>1. TurnsBounded /\ TurnsBounded'
  BY TurnBound, PTL
<1> HIDE DEF Turn
<1>2. /\ Turn("client") \in Int /\ Turn("client")' \in Int
      /\ Turn("game") \in Int /\ Turn("game")' \in Int
  BY <1>1, BoundAssumption DEF TurnsBounded
<1>3. CASE s = "client"
  <2>1. Turn("client")' < Turn("client") /\ Turn("game")' = Turn("game")
    BY <1>3 DEF Other
  <2> QED BY <1>2, <2>1 DEF Rank
<1>4. CASE s = "game"
  <2>1. Turn("game")' < Turn("game") /\ Turn("client")' = Turn("client")
    BY <1>4 DEF Other
  <2> QED BY <1>2, <2>1 DEF Rank
<1> QED BY <1>3, <1>4 DEF Side

\* Whatever it does, there is less to do.
LEMMA AdvanceDescends ==
    ASSUME TypeInv, ServedInv, Serving, Advances, TypeInv'
    PROVE  ServedInv' /\ RoundDescends
<1>1. CASE ~Serving'
  BY <1>1 DEF ServedInv, RoundDescends
<1>2. PICK s \in Side : s = Cur
  BY CurType
<1>3. s \in revents
  BY <1>2, TurnType DEF ServedInv, Cur
<1>4. /\ Len(inb[s]) \in 0 .. BufSize /\ Len(inb'[s]) \in 0 .. BufSize
      /\ BufSize \in Nat
  BY TurnType, LenProperties DEF TypeInv, InType
<1>5. CASE NextSide /\ Serving'
  <2>1. pc' = "serve" /\ revents # {s} /\ revents' = revents \ {s}
    BY <1>2, <1>5 DEF NextSide, Serving, Searching
  <2>2. revents' # {}
    BY <1>3, <2>1
  <2>3. Turn(s) >= 1
    BY <1>2, <1>3, TurnPositive
  <2>4. Turn(s)' = 0
    BY <2>1 DEF Turn
  <2>5. Turn(Other(s))' = Turn(Other(s))
    BY <1>2, <2>1 DEF Turn, Searching, Other, Cur
  <2>6. Turn(s) \in Int
    BY <1>4, TurnType DEF Turn
  <2>7. Rank' < Rank
    <3>1. Turn(s)' < Turn(s)
      <4> HIDE DEF Turn
      <4> QED BY <2>3, <2>4, <2>6
    <3> QED BY <2>5, <3>1, TurnLess
  <2> QED BY <2>2, <2>7 DEF ServedInv, RoundDescends
<1>6. ASSUME UNCHANGED revents
      PROVE  /\ revents' # {} /\ Cur' = s
             /\ Serving' => Turn(Other(s))' = Turn(Other(s))
  BY <1>2, <1>3, <1>6 DEF Turn, Other, Cur
<1>7. CASE pc = "serve" /\ pc' = "scan" /\ UNCHANGED revents
  <2>1. Turn(s)' = 3 * Len(inb'[s]) + 2 /\ Turn(s) = 3 * BufSize + 3
    BY <1>3, <1>6, <1>7 DEF Turn, Searching, Phase
  <2>2. Turn(s)' < Turn(s)
    BY <1>4, <2>1
  <2>3. Rank' < Rank
    BY <1>6, <1>7, <2>2, TurnLess DEF Serving, Searching
  <2> QED BY <1>6, <1>7, <2>3 DEF ServedInv, RoundDescends
<1>8. CASE /\ Searching /\ Searching' /\ UNCHANGED revents
           /\ \/ Len(inb'[Cur]) < Len(inb[Cur])
              \/ Len(inb'[Cur]) = Len(inb[Cur]) /\ Phase' < Phase
  <2>1. /\ Turn(s)' = 3 * Len(inb'[s]) + Phase'
        /\ Turn(s) = 3 * Len(inb[s]) + Phase
    BY <1>2, <1>3, <1>6, <1>8 DEF Turn
  <2>2. Phase \in 0 .. 2 /\ Phase' \in 0 .. 2
    BY DEF Phase
  <2>3. Turn(s)' < Turn(s)
    BY <1>2, <1>4, <1>8, <2>1, <2>2
  <2>4. Rank' < Rank
    BY <1>6, <1>8, <2>3, TurnLess DEF Serving
  <2> QED BY <1>6, <1>8, <2>4 DEF ServedInv, RoundDescends
<1> QED BY <1>1, <1>5, <1>7, <1>8 DEF Advances

\* A match that is popped, or left to be forwarded, is so much done.
LEMMA MatchAdvances ==
    ASSUME TypeInv, pc = "match"
    PROVE  (Handled \/ NotHandled \/ InitFails) => Advances
<1>1. Len(inb[Cur]) >= 2 /\ Len(inb[Cur]) \in 0 .. BufSize /\ BufSize \in Nat
  BY TurnType, CurType
<1>2. ASSUME NEW k \in {2, 4}, Pop(k) PROVE Len(inb'[Cur]) < Len(inb[Cur])
  <2>1. Len(inb'[Cur]) = IF k <= Len(inb[Cur]) THEN Len(inb[Cur]) - k ELSE 0
    BY <1>2, PopType DEF TypeInv
  <2> QED BY <1>1, <2>1
<1>3. ASSUME Rescan, Len(inb'[Cur]) < Len(inb[Cur]) PROVE Advances
  BY <1>3 DEF Rescan, Advances, Searching
<1>4. NotHandled => Advances
  BY DEF NotHandled, Advances, Searching, Phase
<1> QED BY <1>2, <1>3, <1>4 DEF Handled, InitFails

\* Every handler does one of these.
LEMMA HandlerAdvances == TypeInv /\ Handler => Advances
<1> SUFFICES ASSUME TypeInv, Handler PROVE Advances
  OBVIOUS
<1>1. pc = "match"
  BY DEF Handler, MnesRequest, MnesDoes, MnesClientWill, MnesClientWont,
     RespondDont, RespondDo, RespondWont, MccpIgnore, Mccp2Do, Mccp2DoFails,
     Mccp2Dont, Mccp2SbStart, Mccp2SbStartFails, DoMatched, DontMatched, Matched
<1>2. Handled \/ NotHandled \/ InitFails
  BY DEF Handler, MnesRequest, MnesDoes, MnesClientWill, MnesClientWont,
     RespondDont, RespondDo, RespondWont, Respond, MccpIgnore, Mccp2Do,
     Mccp2DoFails, Mccp2Dont, Mccp2SbStart, Mccp2SbStartFails
<1> QED BY <1>1, <1>2, MatchAdvances

\* So does every other step of the loop that serves.
LEMMA LoopAdvances ==
    ASSUME TypeInv,
           \/ Read \/ ReadInflated \/ ReadCorrupt \/ ReadNothing \/ ReadError
           \/ ScanNoMatch \/ ScanPartial \/ ScanMatch \/ Forward
    PROVE  Serving /\ Advances
<1>1. CASE Read \/ ReadInflated
  BY <1>1 DEF Read, ReadInflated, Refill, Serving, Advances
<1>2. \A e : ReadFailed(e) => Advances
  BY DEF ReadFailed, Return, Advances, Serving, Searching
<1>3. CASE ReadCorrupt \/ ReadError
  BY <1>2, <1>3 DEF ReadCorrupt, ReadError, Refill, Serving
<1>4. CASE ReadNothing
  BY <1>4 DEF ReadNothing, Return, Advances, Serving, Searching
<1>5. CASE ScanNoMatch \/ ScanPartial
  BY <1>5 DEF ScanNoMatch, ScanPartial, Scanning, Advances, Serving, Searching
<1>6. CASE ScanMatch
  <2> DEFINE at == Least(Hits(Cur, Buffer))
  <2>1. at \in 1 .. Len(Buffer) - 1
    BY <1>6, MatchIn DEF ScanMatch
  <2>2. Pop(at - 1)
    BY <1>6 DEF ScanMatch
  <2> HIDE DEF at
  <2>3. at - 1 \in Nat /\ at - 1 <= Len(inb[Cur]) /\ Len(inb[Cur]) \in Nat
    BY <2>1, BufferType DEF Buffer
  <2>4. Len(inb'[Cur]) = Len(inb[Cur]) - (at - 1)
    BY <2>2, <2>3, PopType DEF TypeInv
  <2>5. Len(inb'[Cur]) < Len(inb[Cur]) \/ Len(inb'[Cur]) = Len(inb[Cur])
    BY <2>3, <2>4
  <2>6. pc = "scan" /\ pc' = "match" /\ UNCHANGED revents
    BY <1>6 DEF ScanMatch, Scanning
  <2> QED BY <2>5, <2>6 DEF Advances, Serving, Searching, Phase
<1>7. CASE Forward
  <2>1. pc = "forward" /\ Pop(2) /\ Rescan
    BY <1>7 DEF Forward
  <2>2. Len(inb[Cur]) >= 2 /\ Len(inb[Cur]) \in 0 .. BufSize /\ BufSize \in Nat
    BY <2>1, TurnType, CurType
  <2>3. Len(inb'[Cur]) < Len(inb[Cur])
    BY <2>1, <2>2, PopType DEF TypeInv
  <2> QED BY <2>1, <2>3 DEF Rescan, Advances, Serving, Searching
<1> QED BY <1>1, <1>3, <1>4, <1>5, <1>6, <1>7

\* Elsewhere the loop does not serve; poll() finds it somebody to serve.
LEMMA OutsideRound ==
    ASSUME TypeInv, ServedInv,
           \/ Start \/ SetNonblocking \/ CheckFallback \/ Poll \/ PollTimeout
           \/ PollInterrupted \/ Peer \/ Tick \/ Terminated \/ UNCHANGED vars
    PROVE  ServedInv' /\ [RoundDescends]_vars
<1> USE DEF ServedInv, RoundDescends, Serving, Searching
<1>1. CASE Start \/ SetNonblocking \/ CheckFallback
  BY <1>1 DEF Start, SetNonblocking, CheckFallback, Return
<1>2. CASE Poll \/ PollTimeout \/ PollInterrupted
  BY <1>2 DEF Poll, PollTimeout, PollInterrupted, Return
<1>3. CASE Peer
  BY <1>3 DEF Peer, Send, GameCompresses, GameEndsZlib, HangUp, Waiting, ctlVars
<1>4. CASE Tick
  <2>1. Rank' = Rank
    BY <1>4 DEF Tick, ctlVars, Rank, Turn, Phase, Cur
  <2> QED BY <1>4, <2>1 DEF Tick, ctlVars
<1>5. CASE Terminated \/ UNCHANGED vars
  BY <1>5 DEF Terminated, vars, ctlVars
<1> QED BY <1>1, <1>2, <1>3, <1>4, <1>5

\* All steps
LEMMA RoundNext ==
    TypeInv /\ ServedInv /\ [Next]_vars => ServedInv' /\ [RoundDescends]_vars
<1> SUFFICES ASSUME TypeInv, ServedInv, [Next]_vars
             PROVE  ServedInv' /\ [RoundDescends]_vars
  OBVIOUS
<1>1. TypeInv'
  BY TypeNext
<1>2. CASE Handler
  <2>1. Serving
    BY <1>2 DEF Handler, MnesRequest, MnesDoes, MnesClientWill, MnesClientWont,
       RespondDont, RespondDo, RespondWont, MccpIgnore, Mccp2Do, Mccp2DoFails,
       Mccp2Dont, Mccp2SbStart, Mccp2SbStartFails, DoMatched, DontMatched,
       Matched, Serving, Searching
  <2> QED BY <1>1, <1>2, <2>1, HandlerAdvances, AdvanceDescends
<1>3. CASE \/ Read \/ ReadInflated \/ ReadCorrupt \/ ReadNothing \/ ReadError
           \/ ScanNoMatch \/ ScanPartial \/ ScanMatch \/ Forward
  BY <1>1, <1>3, LoopAdvances, AdvanceDescends
<1>4. CASE \/ Start \/ SetNonblocking \/ CheckFallback \/ Poll \/ PollTimeout
           \/ PollInterrupted \/ Peer \/ Tick \/ Terminated \/ UNCHANGED vars
  BY <1>4, OutsideRound
<1> QED BY <1>2, <1>3, <1>4 DEF Next, Loop

\* Between two calls of poll() the loop takes no more than 6 * BufSize + 6
\* steps, whatever it has read and whatever fails: no input keeps it in the
\* matching loop (src/proxy.c, muditm_proxy()).
THEOREM RoundEnds == Spec => []RoundBounded /\ [][RoundDescends]_vars
<1>1. Init => ServedInv
  BY DEF Init, ServedInv, Serving, Searching
<1>2. Spec => []ServedInv
  BY <1>1, RoundNext, TypeAlways, PTL DEF Spec
<1>3. Spec => [][RoundDescends]_vars
  BY <1>2, RoundNext, TypeAlways, PTL DEF Spec
<1> QED BY <1>2, <1>3, RankType, TypeAlways, PTL
=============================================================================
