-------------------------- MODULE Endpoint_proofs --------------------------
(***************************************************************************)
(* Proofs about an endpoint, for any size of its buffers, anything its     *)
(* handlers say and relay, and a peer that takes it as slowly as it likes. *)
(***************************************************************************)
EXTENDS Endpoint, SequenceTheorems, TLAPS

AnyByte == [own: BOOLEAN, at: Nat]

TypeInv ==
    /\ tls \in BOOLEAN /\ zip \in BOOLEAN
    /\ cut \in BOOLEAN /\ short \in BOOLEAN
    /\ pc \in {"loop", "flush", "relay", "zip", "read", "done", "undefined"}
    /\ outb \in Seq(AnyByte) /\ work \in Seq(AnyByte)
    /\ pending \in Seq(AnyByte)
    /\ given \in Seq(AnyByte) /\ wire \in Seq(AnyByte)
    /\ put \in Nat /\ put <= Len(work) /\ (put = 0 \/ (tls /\ Writing))
    /\ unread \in 0 .. SendRoom

\* The buffer does not overflow: what is pushed ends at its end.
FullInv == Len(outb) <= Length

\* Every write has put out all it was given.
Whole == ~short \/ (tls /\ link = "open")

\* While that is so, the output buffer holds nothing but what is being flushed,
\* and has had room for everything.
EmptyInv ==
    Whole => /\ ~cut /\ pc # "undefined"
             /\ IF pc = "flush" THEN outb = work ELSE outb = <<>>

\* What has been given and is not on the wire is in the workspace or in zlib,
\* and there only while it is being written.
SentInv ==
    Whole /\ link = "open" =>
        /\ (wire \o After(work, put)) \o pending = given
        /\ (pc = "zip" /\ Len(work) = Length) \/ pending = <<>>
        /\ Writing \/ work = <<>>

Inv == TypeInv /\ FullInv /\ EmptyInv /\ SentInv

-----------------------------------------------------------------------------
(* Sequences, and the room in the socket.                                  *)

\* What is left of a sequence is a sequence, nothing is left of all of it, and
\* all of it if nothing is taken.
LEMMA Left ==
    ASSUME NEW q \in Seq(AnyByte), NEW k \in Nat
    PROVE  /\ After(q, k) \in Seq(AnyByte)
           /\ Len(After(q, k)) <= Len(q)
           /\ After(q, Len(q)) = <<>>
           /\ After(q, 0) = q
<1>1. After(q, Len(q)) = <<>>
  BY SubSeqEmpty, LenProperties DEF After
<1>2. After(q, 0) = q
  BY SubSeqFull DEF After
<1> QED BY <1>1, <1>2, LenProperties DEF After

\* A sequence cut in two is put together again.
LEMMA Split ==
    ASSUME NEW q \in Seq(AnyByte), NEW p \in Nat, NEW k \in Nat,
           p + k <= Len(q)
    PROVE  /\ SubSeq(q, p + 1, p + k) \in Seq(AnyByte)
           /\ Len(SubSeq(q, p + 1, p + k)) = k
           /\ SubSeq(q, p + 1, p + k) \o After(q, p + k) = After(q, p)
<1>1. Len(q) \in Nat
  BY LenProperties
<1>2. \A i \in p + 1 .. p + k : q[i] \in AnyByte
  BY <1>1, ElementOfSeq
<1>3. /\ SubSeq(q, p + 1, p + k) \in Seq(AnyByte)
      /\ Len(SubSeq(q, p + 1, p + k)) = k
  <2> HIDE DEF AnyByte
  <2> QED BY <1>2, SubSeqProperties
<1>4. \A m \in 1 .. Len(q) + 1 : \A l \in m - 1 .. Len(q) :
         \A n \in l .. Len(q) :
            SubSeq(q, m, l) \o SubSeq(q, l + 1, n) = SubSeq(q, m, n)
  BY ConcatAdjacentSubSeq
<1>5. SubSeq(q, p + 1, p + k) \o SubSeq(q, p + k + 1, Len(q))
      = SubSeq(q, p + 1, Len(q))
  <2>1. /\ p + 1 \in 1 .. Len(q) + 1
        /\ p + k \in (p + 1) - 1 .. Len(q)
        /\ Len(q) \in p + k .. Len(q)
    BY <1>1
  <2> QED BY <1>4, <2>1, Zenon
<1> QED BY <1>3, <1>5 DEF After

\* Concatenation, of bytes.
LEMMA Associative ==
    \A r, s, t \in Seq(AnyByte) : (r \o s) \o t = r \o (s \o t)
<1> HIDE DEF AnyByte
<1> QED BY ConcatAssociative

\* New bytes.
LEMMA New ==
    ASSUME given \in Seq(AnyByte), NEW own \in BOOLEAN, NEW n \in Nat
    PROVE  /\ Bytes(own, n) \in Seq(AnyByte)
           /\ Len(Bytes(own, n)) = n
BY DEF Bytes, AnyByte

\* The socket takes no more than there is, and no more than it has room for.
LEMMA RoomType ==
    ASSUME TypeInv
    PROVE  /\ Room \in Nat
           /\ Room <= SendRoom - unread
           /\ put + Room <= Len(work)
           /\ Room < Len(work) - put => Room = SendRoom - unread
BY SocketAssumption DEF TypeInv, Room, Least

\* There is always as much room in the buffer as it says.
LEMMA AvailType ==
    ASSUME TypeInv, NEW n \in Nat, Len(outb) <= Length
    PROVE  Avail \in Nat /\ Pushed(n) \in Nat /\ Pushed(n) <= Avail
BY LengthAssumption DEF TypeInv, Avail, Pushed, Least

-----------------------------------------------------------------------------
(* Types.                                                                  *)

\* All of it holds at first.
LEMMA InitInv == Init => Inv
<1>1. <<>> \in Seq(AnyByte) /\ Len(<<>>) = 0
  BY EmptySeq
<1> SUFFICES ASSUME Init PROVE Inv
  OBVIOUS
<1>2. TypeInv
  <2>1. tls \in BOOLEAN /\ zip \in BOOLEAN /\ cut \in BOOLEAN
        /\ short \in BOOLEAN
    BY Zenon DEF Init
  <2>2. put \in Nat /\ put <= Len(work) /\ unread \in 0 .. SendRoom
        /\ put = 0
    BY <1>1, SocketAssumption DEF Init
  <2> QED BY <1>1, <2>1, <2>2, Zenon DEF Init, TypeInv
<1>3. FullInv
  BY <1>1, LengthAssumption DEF Init, FullInv
<1>4. EmptyInv
  BY DEF Init, EmptyInv
<1>5. SentInv
  <2>1. After(<<>>, 0) = <<>> /\ (<<>> \o <<>>) \o <<>> = <<>>
    BY <1>1, Left, ConcatEmptySeq, Zenon
  <2> QED BY <2>1 DEF Init, SentInv
<1> QED BY <1>2, <1>3, <1>4, <1>5 DEF Inv

\* deflate() makes sequences of a sequence.
LEMMA DeflateType ==
    ASSUME NEW q \in Seq(AnyByte), Deflate(q)
    PROVE  /\ work' \in Seq(AnyByte) /\ pending' \in Seq(AnyByte)
           /\ work' \o pending' = q
           /\ Len(work') <= Length
           /\ Len(work') < Length => pending' = <<>>
           /\ q # <<>> => work' # <<>>
<1>1. Length \in Nat /\ Length > 0 /\ Len(q) \in Nat
  BY LengthAssumption, LenProperties
<1>2. CASE Len(q) <= Length
  <2>1. work' = q
    BY <1>1, <1>2, SubSeqFull DEF Deflate, Least
  <2>2. pending' = <<>>
    BY <1>1, <1>2, SubSeqEmpty DEF Deflate, After
  <2> QED BY <1>1, <1>2, <2>1, <2>2, ConcatEmptySeq, EmptySeq
<1>3. CASE Len(q) > Length
  <2>1. work' = SubSeq(q, 0 + 1, 0 + Length) /\ pending' = After(q, 0 + Length)
    BY <1>1, <1>3 DEF Deflate, Least
  <2>2. /\ SubSeq(q, 0 + 1, 0 + Length) \in Seq(AnyByte)
        /\ Len(SubSeq(q, 0 + 1, 0 + Length)) = Length
        /\ SubSeq(q, 0 + 1, 0 + Length) \o After(q, 0 + Length) = After(q, 0)
    <3>1. 0 \in Nat /\ 0 + Length <= Len(q)
      BY <1>1, <1>3
    <3> QED BY <1>1, <3>1, Split, Zenon
  <2>3. After(q, 0 + Length) \in Seq(AnyByte) /\ After(q, 0) = q
    BY <1>1, Left
  <2>4. Len(<<>>) = 0
    BY EmptySeq
  <2>5. work' \o pending' = q /\ Len(work') = Length
    BY <2>1, <2>2, <2>3, Zenon
  <2>6. work' \in Seq(AnyByte) /\ pending' \in Seq(AnyByte)
    BY <2>1, <2>2, <2>3, Zenon
  <2>7. work' # <<>>
    BY <1>1, <2>4, <2>5
  <2> QED BY <1>1, <2>5, <2>6, <2>7
<1> QED BY <1>1, <1>2, <1>3
-----------------------------------------------------------------------------
(* The steps.                                                              *)

\* New bytes that are queued to be written, when nothing else was.
LEMMA Queued ==
    ASSUME TypeInv, SentInv, ~Writing, Whole, link = "open",
           NEW b \in Seq(AnyByte),
           given' = given \o b, UNCHANGED <<wire, put>>
    PROVE  /\ work' = b /\ pending' = <<>> =>
                 (wire' \o After(work', put')) \o pending' = given'
           /\ work' \in Seq(AnyByte) /\ pending' \in Seq(AnyByte)
              /\ work' \o pending' = b =>
                 (wire' \o After(work', put')) \o pending' = given'
<1>1. put = 0 /\ work = <<>> /\ pending = <<>>
  BY DEF TypeInv, SentInv, Writing
<1>2. <<>> \in Seq(AnyByte) /\ After(<<>>, 0) = <<>>
  BY EmptySeq, Left, Zenon
<1>3. wire \in Seq(AnyByte) /\ given \in Seq(AnyByte)
  BY DEF TypeInv
<1>4. wire = given
  BY <1>1, <1>2, <1>3, ConcatEmptySeq, Zenon DEF SentInv
<1>5. ASSUME work' \in Seq(AnyByte), pending' \in Seq(AnyByte),
             work' \o pending' = b
      PROVE  (wire' \o After(work', put')) \o pending' = given'
  <2>1. After(work', put') = work'
    BY <1>1, <1>5, Left, Zenon
  <2>2. (wire \o work') \o pending' = wire \o (work' \o pending')
    BY <1>3, <1>5, Associative, ZenonT(30)
  <2> QED BY <1>4, <1>5, <2>1, <2>2, Zenon
<1>6. b \o <<>> = b
  BY ConcatEmptySeq, Zenon
<1> QED BY <1>2, <1>5, <1>6, Zenon

\* A handler's words are added to the buffer, and that is what is written.
LEMMA SayStep ==
    ASSUME Inv, pc = "loop", NEW n \in Nat, n <= Avail, Flush(Bytes(TRUE, n)),
           given' = given \o Bytes(TRUE, n),
           cut' \in BOOLEAN, Whole => ~cut',
           UNCHANGED <<tls, zip, put, pending, wire, unread, link, short>>
    PROVE  Inv'
<1>1. Len(outb) \in Nat /\ Length \in Nat /\ put = 0
  BY LengthAssumption, LenProperties DEF Inv, TypeInv, Writing
<1> DEFINE b == Bytes(TRUE, n)
<1>2. b \in Seq(AnyByte) /\ Len(b) = n
  BY New DEF Inv, TypeInv
<1>3. given' = given \o b /\ outb' = outb \o b /\ work' = outb' /\ pc' = "flush"
  BY DEF Flush
<1>4. outb' \in Seq(AnyByte) /\ given' \in Seq(AnyByte)
      /\ Len(outb') = Len(outb) + n
  <2>1. outb \in Seq(AnyByte) /\ given \in Seq(AnyByte)
    BY DEF Inv, TypeInv
  <2> HIDE DEF b
  <2>2. /\ outb \o b \in Seq(AnyByte) /\ given \o b \in Seq(AnyByte)
        /\ Len(outb \o b) = Len(outb) + Len(b)
    BY <1>2, <2>1, ConcatProperties
  <2> QED BY <1>2, <1>3, <2>2
<1>5. TypeInv'
  <2>1. put' = 0 /\ put' <= Len(work')
    <3>1. put' = 0 /\ work' = outb'
      BY <1>1, <1>3
    <3>2. 0 <= Len(outb) + n
      BY <1>1
    <3> QED BY <1>4, <3>1, <3>2
  <2> QED BY <1>3, <1>4, <2>1 DEF Inv, TypeInv
<1>6. FullInv'
  BY <1>1, <1>4 DEF FullInv, Avail
<1>7. EmptyInv'
  BY <1>3 DEF EmptyInv, Whole
<1>8. SentInv'
  <2> SUFFICES ASSUME Whole, link = "open" PROVE SentInv'
    BY DEF SentInv, Whole
  <2>1. outb = <<>> /\ ~Writing
    BY DEF Inv, EmptyInv, Writing
  <2>2. work' = b /\ pending' = <<>>
    BY <1>2, <1>3, <2>1, ConcatEmptySeq DEF Inv, SentInv
  <2>3. (wire' \o After(work', put')) \o pending' = given'
    BY <1>2, <1>3, <2>1, <2>2, Queued DEF Inv
  <2> QED BY <1>3, <2>2, <2>3 DEF SentInv, Writing
<1> QED BY <1>5, <1>6, <1>7, <1>8 DEF Inv

\* While every write has been whole, all of the buffer is free.
LEMMA AllFree ==
    ASSUME Inv, pc = "loop", Whole
    PROVE  Avail = Length /\ ~cut
<1>1. outb = <<>> /\ ~cut
  BY DEF Inv, EmptyInv
<1> QED BY <1>1, EmptySeq, LengthAssumption DEF Avail

\* A report is cut only where the buffer is not free.
LEMMA ReportStep ==
    ASSUME Inv, Report
    PROVE  Inv'
<1>1. PICK n \in Reports :
         /\ given' = given \o Bytes(TRUE, Pushed(n))
         /\ cut' = (cut \/ n >= Avail)
         /\ Flush(Bytes(TRUE, Pushed(n)))
  BY DEF Report, Give
<1>2. n \in Nat /\ n < Length /\ Length \in Nat
  BY LengthAssumption
<1>3. Pushed(n) \in Nat /\ Pushed(n) <= Avail
  BY <1>2, AvailType DEF Inv, FullInv
<1>4. /\ pc = "loop"
      /\ UNCHANGED <<tls, zip, put, pending, wire, unread, link, short>>
  BY DEF Report, peerVars
<1>5. ASSUME Whole PROVE ~cut'
  <2>1. Avail = Length /\ ~cut
    BY <1>4, <1>5, AllFree
  <2>2. ~(n >= Avail)
    BY <1>2, <2>1
  <2> QED BY <1>1, <2>1, <2>2, Zenon
<1>6. cut' \in BOOLEAN
  BY <1>1, Zenon
<1> QED BY <1>1, <1>3, <1>4, <1>5, <1>6, SayStep

\* Nor is a command copied beyond the end.
LEMMA AnswerStep ==
    ASSUME Inv, Answer
    PROVE  Inv'
<1>1. /\ pc = "loop"
      /\ UNCHANGED <<tls, zip, put, pending, wire, unread, link, cut, short>>
  BY DEF Answer, peerVars
<1>2. cut \in BOOLEAN /\ (Whole => ~cut)
  BY DEF Inv, TypeInv, EmptyInv
<1>3. CASE Copy <= Avail
  <2>1. Flush(Bytes(TRUE, Copy)) /\ given' = given \o Bytes(TRUE, Copy)
    BY <1>3 DEF Answer, Give
  <2>2. Copy \in Nat
    BY LengthAssumption
  <2> QED BY <1>1, <1>2, <1>3, <2>1, <2>2, SayStep
<1>4. CASE ~(Copy <= Avail)
  <2>1. pc' = "undefined" /\ UNCHANGED <<given, outb, work>>
    BY <1>4 DEF Answer
  <2>2. ~Whole /\ ~Whole'
    <3>1. ~Whole
      BY <1>1, <1>4, AllFree, LengthAssumption
    <3> QED BY <1>1, <3>1 DEF Whole
  <2>3. TypeInv'
    BY <1>1, <2>1 DEF Inv, TypeInv, Writing
  <2> QED BY <2>1, <2>2, <2>3 DEF Inv, FullInv, EmptyInv, SentInv
<1> QED BY <1>3, <1>4

\* Input is relayed, in clear or by way of zlib.
LEMMA RelayStep ==
    ASSUME Inv, Relay
    PROVE  Inv'
<1>1. /\ pc = "loop" /\ pc' \in {"zip", "relay"}
      /\ UNCHANGED <<tls, zip, outb, put, wire, unread, link, cut, short>>
  BY DEF Relay, peerVars
<1>2. pending \in Seq(AnyByte) /\ given \in Seq(AnyByte)
      /\ put = 0 /\ Len(outb) \in Nat
  BY <1>1, LenProperties DEF Inv, TypeInv, Writing
<1>3. Whole /\ link = "open" => pending = <<>>
  BY <1>1 DEF Inv, SentInv
<1>4. PICK m \in Nat :
         /\ given' = given \o Bytes(FALSE, m)
         /\ \/ pc' = "zip" /\ Deflate(pending \o Bytes(FALSE, m))
            \/ pc' = "relay" /\ work' = Bytes(FALSE, m) /\ pending' = pending
  <2>1. PICK n \in Relays :
           \/ /\ \E m \in 1 .. n + 1 :
                    /\ given' = given \o Bytes(FALSE, m)
                    /\ Deflate(pending \o Bytes(FALSE, m))
              /\ pc' = "zip"
           \/ /\ given' = given \o Bytes(FALSE, n)
              /\ work' = Bytes(FALSE, n) /\ pending' = pending
              /\ pc' = "relay"
    BY Zenon DEF Relay, Give
  <2>2. n \in Nat /\ \A m \in 1 .. n + 1 : m \in Nat
    BY SocketAssumption
  <2> QED BY <2>1, <2>2, Zenon
<1> DEFINE b == Bytes(FALSE, m)
<1>5. /\ given' = given \o b
      /\ \/ pc' = "zip" /\ Deflate(pending \o b)
         \/ pc' = "relay" /\ work' = b /\ pending' = pending
  BY <1>4
<1>6. b \in Seq(AnyByte)
  BY <1>2, New
<1> HIDE DEF b
<1>7. given' \in Seq(AnyByte) /\ pending \o b \in Seq(AnyByte)
  BY <1>2, <1>5, <1>6, ConcatProperties
<1>8. work' \in Seq(AnyByte) /\ pending' \in Seq(AnyByte)
  BY <1>2, <1>5, <1>6, <1>7, DeflateType
<1>9. TypeInv'
  BY <1>1, <1>2, <1>7, <1>8, LenProperties DEF Inv, TypeInv
<1>10. FullInv' /\ EmptyInv'
  BY <1>1 DEF Inv, FullInv, EmptyInv, Whole
<1>11. SentInv'
  <2> SUFFICES ASSUME Whole, link = "open" PROVE SentInv'
    BY <1>1 DEF SentInv, Whole
  <2>1. pending \o b = b
    BY <1>3, <1>6, ConcatEmptySeq
  <2>2. work' \o pending' = b
    BY <1>3, <1>5, <1>6, <1>7, <2>1, DeflateType, ConcatEmptySeq
  <2>3. (wire' \o After(work', put')) \o pending' = given'
    BY <1>1, <1>5, <1>6, <1>8, <2>2, Queued DEF Inv, Writing
  <2>4. (pc' = "zip" /\ Len(work') = Length) \/ pending' = <<>>
    <3>1. CASE pc' = "relay"
      BY <1>3, <1>5, <3>1
    <3>2. CASE pc' = "zip"
      <4>1. Deflate(pending \o b)
        BY <1>5, <3>2
      <4>2. Len(work') <= Length /\ (Len(work') < Length => pending' = <<>>)
        BY <1>7, <4>1, DeflateType
      <4> QED BY <1>8, <3>2, <4>2, LenProperties, LengthAssumption
    <3> QED BY <1>1, <3>1, <3>2
  <2> QED BY <1>1, <2>3, <2>4 DEF SentInv, Writing
<1> QED BY <1>9, <1>10, <1>11 DEF Inv

\* What the socket takes is put on the wire behind what is there.
LEMMA TakesStep ==
    ASSUME TypeInv, Takes
    PROVE  /\ wire' \in Seq(AnyByte) /\ unread' \in 0 .. SendRoom
           /\ wire' \o After(work, put + Room) = wire \o After(work, put)
<1>1. /\ wire \in Seq(AnyByte) /\ work \in Seq(AnyByte) /\ put \in Nat
      /\ unread \in 0 .. SendRoom /\ SendRoom \in Nat
  BY SocketAssumption DEF TypeInv
<1>2. Room \in Nat /\ Room <= SendRoom - unread /\ put + Room <= Len(work)
  BY RoomType
<1> DEFINE part == SubSeq(work, put + 1, put + Room)
           rest == After(work, put + Room)
<1>3. part \in Seq(AnyByte) /\ part \o rest = After(work, put)
  BY <1>1, <1>2, Split
<1>4. rest \in Seq(AnyByte)
  BY <1>1, <1>2, Left
<1>5. wire' = wire \o part /\ unread' = unread + Room
  BY DEF Takes
<1>6. unread' \in 0 .. SendRoom
  BY <1>1, <1>2, <1>5
<1> HIDE DEF part, rest
<1>7. wire \o part \in Seq(AnyByte)
  BY <1>1, <1>3, ConcatProperties
<1>8. (wire \o part) \o rest = wire \o After(work, put)
  <2>1. wire \in Seq(AnyByte) /\ part \in Seq(AnyByte) /\ rest \in Seq(AnyByte)
    BY <1>1, <1>3, <1>4
  <2>2. (wire \o part) \o rest = wire \o (part \o rest)
    BY <2>1, Associative, Zenon
  <2> QED BY <1>3, <2>2
<1> QED BY <1>5, <1>6, <1>7, <1>8, Zenon DEF rest

\* A write is over, which has put out everything or fallen short.
LEMMA ReturnStep ==
    ASSUME Inv, Writing, NEW r \in Int, Return(r),
           UNCHANGED <<tls, zip, link, cut>>,
           wire' \in Seq(AnyByte), unread' \in 0 .. SendRoom,
           Whole' => r = Len(work) /\ wire' = wire \o After(work, put)
    PROVE  Inv'
<1>1. /\ outb \in Seq(AnyByte) /\ work \in Seq(AnyByte)
      /\ pending \in Seq(AnyByte) /\ given \in Seq(AnyByte)
      /\ put' = 0 /\ Len(work) \in Nat /\ Length \in Nat /\ Length > 0
      /\ short' \in BOOLEAN
  BY LengthAssumption, LenProperties DEF Inv, TypeInv, Return
<1>2. Whole' => Whole
  BY DEF Whole, Return
<1>3. Whole' /\ link = "open" => wire' \o pending = given
  BY <1>2 DEF Inv, SentInv
<1>4. <<>> \in Seq(AnyByte) /\ Len(<<>>) = 0
  BY EmptySeq
<1>5. CASE Filled /\ r > 0
  <2>1. PICK q \in Seq(AnyByte) :
          /\ Deflate(q) /\ given' \in Seq(AnyByte)
          /\ wire' \o pending = given => given' = wire' \o q
    <3>1. CASE pending # <<>>
      BY <1>1, <1>5, <3>1, Zenon DEF Return
    <3>2. CASE pending = <<>>
      <4> DEFINE b == Bytes(FALSE, 1)
      <4>1. Deflate(b) /\ given' = given \o b
        BY <1>5, <3>2 DEF Return, Give
      <4>2. b \in Seq(AnyByte)
        BY <1>1, New
      <4> HIDE DEF b
      <4>3. given \o b \in Seq(AnyByte)
        BY <1>1, <4>2, ConcatProperties
      <4>4. wire' \o pending = wire'
        BY <3>2, ConcatEmptySeq
      <4> QED BY <4>1, <4>2, <4>3, <4>4, Zenon
    <3> QED BY <3>1, <3>2
  <2>2. /\ work' \in Seq(AnyByte) /\ pending' \in Seq(AnyByte)
        /\ work' \o pending' = q /\ Len(work') \in Nat
        /\ Len(work') = Length \/ pending' = <<>>
    BY <1>1, <2>1, DeflateType, LenProperties
  <2>3. pc = "zip" /\ UNCHANGED <<pc, outb>>
    BY <1>5 DEF Filled, Return
  <2>4. TypeInv'
    BY <1>1, <2>1, <2>2, <2>3 DEF Inv, TypeInv
  <2>5. FullInv' /\ EmptyInv'
    BY <1>2, <2>3 DEF Inv, FullInv, EmptyInv
  <2>6. ASSUME Whole', link = "open" PROVE SentInv'
    <3>1. After(work', put') = work'
      BY <1>1, <2>2, Left
    <3>2. (wire' \o work') \o pending' = given'
      BY <1>3, <2>1, <2>2, <2>6, Associative, Zenon
    <3> QED BY <2>2, <2>3, <3>1, <3>2 DEF SentInv, Writing
  <2> QED BY <2>4, <2>5, <2>6 DEF Inv, SentInv
<1>6. CASE ~(Filled /\ r > 0)
  <2>1. /\ pc' = "loop" /\ work' = <<>> /\ given' = given
        /\ pending' = pending \/ pending' = <<>>
        /\ outb' = IF pc = "flush" THEN Popped(r) ELSE outb
    BY <1>6, Zenon DEF Return
  <2>2. outb' \in Seq(AnyByte) /\ Len(outb') <= Len(outb)
    <3>1. CASE outb' = outb
      BY <1>1, <3>1, LenProperties
    <3>2. CASE r > 0 /\ outb' = After(outb, r)
      BY <1>1, <3>2, Left
    <3> QED BY <2>1, <3>1, <3>2 DEF Popped
  <2>3. TypeInv'
    <3>1. put' = 0 /\ put' <= Len(work') /\ work' \in Seq(AnyByte)
      BY <1>1, <1>4, <2>1
    <3>2. pending' \in Seq(AnyByte) /\ given' \in Seq(AnyByte)
      BY <1>1, <1>4, <2>1
    <3> QED BY <1>1, <2>1, <2>2, <3>1, <3>2 DEF Inv, TypeInv
  <2>4. FullInv'
    BY <1>1, <2>2, LenProperties DEF Inv, FullInv
  <2>5. ASSUME Whole' PROVE EmptyInv'
    <3>1. ~cut' /\ (pc # "flush" => outb = <<>>) /\ (pc = "flush" => outb = work)
      BY <1>2, <2>5 DEF Inv, EmptyInv
    <3>2. CASE pc = "flush"
      <4>1. outb = work /\ r = Len(outb)
        BY <2>5, <3>1, <3>2
      <4>2. CASE r > 0
        <5>1. outb' = After(outb, Len(outb))
          BY <2>1, <3>2, <4>1, <4>2 DEF Popped
        <5>2. After(outb, Len(outb)) = <<>>
          BY <1>1, <4>1, Left
        <5> QED BY <2>1, <3>1, <5>1, <5>2 DEF EmptyInv
      <4>3. CASE ~(r > 0)
        <5>1. outb = <<>>
          BY <1>1, <4>1, <4>3, EmptySeq
        <5>2. outb' = outb
          BY <2>1, <3>2, <4>3 DEF Popped
        <5> QED BY <2>1, <3>1, <5>1, <5>2 DEF EmptyInv
      <4> QED BY <4>2, <4>3
    <3>3. CASE pc # "flush"
      BY <2>1, <3>1, <3>3 DEF EmptyInv
    <3> QED BY <3>2, <3>3
  <2>6. ASSUME Whole', link = "open" PROVE SentInv'
    <3>1. pending = <<>>
      <4>1. pc = "zip" /\ Len(work) = Length => Filled /\ r > 0
        BY <1>1, <2>6 DEF Filled
      <4> QED BY <1>2, <1>6, <2>6, <4>1 DEF Inv, SentInv
    <3>2. wire' \o <<>> = wire' /\ After(<<>>, 0) = <<>>
      BY <1>4, Left, ConcatEmptySeq, Zenon
    <3>3. pending' = <<>> /\ work' = <<>> /\ After(work', put') = <<>>
      BY <1>1, <2>1, <3>1, <3>2
    <3>4. wire' = given'
      BY <1>3, <2>1, <2>6, <3>1, <3>2
    <3> QED BY <3>2, <3>3, <3>4 DEF SentInv
  <2> QED BY <2>3, <2>4, <2>5, <2>6 DEF Inv, SentInv, EmptyInv
<1> QED BY <1>5, <1>6

\* write() has put out all or falls short.
LEMMA WritePlainStep ==
    ASSUME Inv, WritePlain
    PROVE  Inv'
<1> DEFINE r == IF Room = 0 THEN -1 ELSE Room
<1>1. /\ Writing /\ ~tls /\ link = "open" /\ Takes /\ Return(r)
      /\ UNCHANGED <<tls, zip, link, cut>>
  BY Zenon DEF WritePlain
<1>2. Room \in Nat /\ Len(work) \in Nat /\ put = 0 /\ work \in Seq(AnyByte)
  BY <1>1, RoomType, LenProperties DEF Inv, TypeInv
<1>3. r \in Int
  BY <1>2
<1>4. /\ wire' \in Seq(AnyByte) /\ unread' \in 0 .. SendRoom
      /\ wire' \o After(work, put + Room) = wire \o After(work, put)
  BY <1>1, TakesStep DEF Inv
<1>5. ASSUME Whole' PROVE r = Len(work) /\ wire' = wire \o After(work, put)
  <2>1. ~(r < Len(work))
    BY <1>1, <1>5 DEF Whole, Return
  <2>2. Room <= Len(work)
    BY <1>2, RoomType DEF Inv
  <2>3. r = Len(work) /\ put + Room = Len(work)
    BY <1>2, <2>1, <2>2
  <2>4. After(work, Len(work)) = <<>>
    BY <1>2, Left
  <2> QED BY <1>4, <2>3, <2>4, ConcatEmptySeq
<1> HIDE DEF r
<1> QED BY <1>1, <1>3, <1>4, <1>5, ReturnStep

\* SSL_write() does not come back before it has put out all.
LEMMA WriteTlsStep ==
    ASSUME Inv, WriteTls
    PROVE  Inv'
<1>1. /\ Writing /\ tls /\ link = "open" /\ Takes
      /\ UNCHANGED <<tls, zip, link, cut>>
  BY DEF WriteTls
<1>2. /\ Room \in Nat /\ Len(work) \in Nat /\ put \in Nat
      /\ work \in Seq(AnyByte) /\ put + Room <= Len(work)
  BY RoomType, LenProperties DEF Inv, TypeInv
<1>3. /\ wire' \in Seq(AnyByte) /\ unread' \in 0 .. SendRoom
      /\ wire' \o After(work, put + Room) = wire \o After(work, put)
  BY <1>1, TakesStep DEF Inv
<1>4. CASE put + Room < Len(work)
  <2>1. /\ put' = put + Room
        /\ UNCHANGED <<pc, outb, work, pending, given, short>>
    BY <1>4 DEF WriteTls
  <2>2. TypeInv'
    BY <1>1, <1>2, <1>3, <2>1 DEF Inv, TypeInv, Writing
  <2>3. FullInv' /\ EmptyInv'
    BY <1>1, <2>1 DEF Inv, FullInv, EmptyInv, Whole
  <2>4. wire' \o After(work', put') = wire \o After(work, put)
    BY <1>3, <2>1
  <2>5. SentInv'
    BY <1>1, <2>1, <2>4 DEF Inv, SentInv, Whole, Writing
  <2> QED BY <2>2, <2>3, <2>5 DEF Inv
<1>5. CASE ~(put + Room < Len(work))
  <2>1. Return(Len(work))
    BY <1>5 DEF WriteTls
  <2>2. put + Room = Len(work) /\ Len(work) \in Int
    BY <1>2, <1>5
  <2>3. After(work, Len(work)) = <<>>
    BY <1>2, Left
  <2>4. wire' = wire \o After(work, put)
    BY <1>3, <2>2, <2>3, ConcatEmptySeq
  <2> QED BY <1>1, <1>3, <2>1, <2>2, <2>4, ReturnStep
<1> QED BY <1>4, <1>5

\* A write to a peer that has gone falls short.
LEMMA WriteFailsStep ==
    ASSUME Inv, WriteFails
    PROVE  Inv'
<1>1. /\ Writing /\ link = "reset" /\ Return(-1)
      /\ UNCHANGED <<tls, zip, link, cut, wire, unread>>
  BY DEF WriteFails, peerVars
<1>2. Len(work) \in Nat /\ wire' \in Seq(AnyByte) /\ unread' \in 0 .. SendRoom
  BY <1>1, LenProperties DEF Inv, TypeInv
<1>3. ~Whole'
  <2>1. -1 < Len(work)
    BY <1>2
  <2> QED BY <1>1, <2>1 DEF Whole, Return
<1> QED BY <1>1, <1>2, <1>3, ReturnStep

\* Reads, and the peer, leave all that is written alone.
LEMMA QuietStep ==
    ASSUME Inv,
           UNCHANGED <<tls, zip, outb, work, put, pending, wire, history>>,
           link' = link \/ link' = "reset",
           unread' \in 0 .. SendRoom,
           \/ pc' = pc
           \/ pc \in {"loop", "read"} /\ pc' \in {"loop", "read", "done"}
    PROVE  Inv'
<1>1. UNCHANGED <<tls, zip, outb, work, put, pending, wire, given, cut, short>>
  BY DEF history
<1>2. TypeInv'
  BY <1>1 DEF Inv, TypeInv, Writing
<1>3. FullInv'
  BY <1>1 DEF Inv, FullInv
<1>4. Whole' => Whole
  BY <1>1 DEF Whole
<1>5. EmptyInv'
  BY <1>1, <1>4 DEF Inv, EmptyInv
<1>6. SentInv'
  BY <1>1, <1>4 DEF Inv, SentInv, Writing
<1> QED BY <1>2, <1>3, <1>5, <1>6 DEF Inv

\* Every step keeps the invariant.
LEMMA NextInv == Inv /\ [Next]_vars => Inv'
<1> SUFFICES ASSUME Inv, [Next]_vars PROVE Inv'
  OBVIOUS
<1>0. unread \in 0 .. SendRoom /\ SendRoom \in Nat
  BY SocketAssumption DEF Inv, TypeInv
<1>1. CASE Report
  BY <1>1, ReportStep
<1>2. CASE Answer
  BY <1>2, AnswerStep
<1>3. CASE Relay
  BY <1>3, RelayStep
<1>4. CASE WritePlain
  BY <1>4, WritePlainStep
<1>5. CASE WriteTls
  BY <1>5, WriteTlsStep
<1>6. CASE WriteFails
  BY <1>6, WriteFailsStep
<1>7. CASE StartRead \/ Read \/ SkipRecord \/ ReadEnds
  BY <1>0, <1>7, QuietStep DEF StartRead, Read, SkipRecord, ReadEnds, peerVars
<1>8. CASE PeerReads
  <2>1. unread' \in 0 .. SendRoom
    BY <1>0, <1>8 DEF PeerReads
  <2>2. /\ UNCHANGED <<tls, zip, outb, work, put, pending, wire, history>>
        /\ link' = link /\ pc' = pc
    BY <1>8 DEF PeerReads
  <2> QED BY <2>1, <2>2, QuietStep, Zenon
<1>9. CASE PeerWrites \/ PeerCompletes \/ PeerLeaves
  <2>1. unread' \in 0 .. SendRoom
    BY <1>0, <1>9 DEF PeerWrites, PeerCompletes, PeerLeaves
  <2>2. /\ UNCHANGED <<tls, zip, outb, work, put, pending, wire, history>>
        /\ (link' = link \/ link' = "reset") /\ pc' = pc
    BY <1>9 DEF PeerWrites, PeerCompletes, PeerLeaves
  <2> QED BY <2>1, <2>2, QuietStep, Zenon
<1>10. CASE Terminated \/ UNCHANGED vars
  <2>1. UNCHANGED vars
    BY <1>10 DEF Terminated
  <2>2. /\ UNCHANGED <<tls, zip, outb, work, put, pending, wire, history>>
        /\ link' = link /\ pc' = pc /\ unread' = unread
    BY <2>1 DEF vars, peerVars
  <2> QED BY <1>0, <2>2, QuietStep, Zenon
<1> QED
  BY <1>1, <1>2, <1>3, <1>4, <1>5, <1>6, <1>7, <1>8, <1>9, <1>10
  DEF Next, Process

\* The invariant holds in every behaviour.
LEMMA Invariant == Spec => []Inv
<1> QED BY InitInv, NextInv, PTL DEF Spec

-----------------------------------------------------------------------------
(* The theorems.                                                           *)

\* The output buffer is never full, and neither is a report cut nor a command
\* copied beyond its end, unless a write has fallen short before: for every
\* size of the buffer that holds what a handler has to say.
THEOREM FitsCorrect == Spec => []FitsUnlessShort
<1>1. Inv => FitsUnlessShort
  <2> SUFFICES ASSUME Inv, ~short PROVE ~cut /\ pc # "undefined"
    BY Zenon DEF Inv, TypeInv, FitsUnlessShort
  <2>1. Whole
    BY DEF Whole
  <2> QED BY <2>1, Zenon DEF Inv, EmptyInv
<1> QED BY <1>1, Invariant, PTL

\* With TLS always, and without as long as no write falls short, all that is
\* given to an endpoint is on the wire when the loop goes on, in its order and
\* once: through the output buffer, the workspace, zlib, and the socket's room.
THEOREM DeliveredCorrect == Spec => []Delivered
<1>1. Inv => Delivered
  <2> SUFFICES ASSUME Inv, pc = "loop", link = "open", tls \/ ~short
               PROVE  wire = given /\ outb = <<>> /\ pending = <<>>
    BY DEF Delivered
  <2>1. Whole
    BY DEF Whole
  <2>2. /\ outb = <<>> /\ work = <<>> /\ pending = <<>> /\ put = 0
        /\ (wire \o After(work, put)) \o pending = given
        /\ wire \in Seq(AnyByte)
    BY <2>1 DEF Inv, EmptyInv, SentInv, TypeInv, Writing
  <2>3. After(work, put) = <<>>
    BY <2>2, EmptySeq, Left, Zenon
  <2> QED BY <2>2, <2>3, ConcatEmptySeq
<1> QED BY <1>1, Invariant, PTL

-----------------------------------------------------------------------------
(* What a handler has queued.                                              *)

\* Every byte of MUDitM's own in p was given before those in q.
Ahead(p, q) == \A a \in Own(p), b \in Own(q) : a.at < b.at

\* What the output buffer still has to put out.
Queue == IF pc = "flush" THEN After(outb, put) ELSE outb

\* MUDitM's own bytes are on the wire or still to be put out, in their order;
\* what is relayed is of others, and what is flushed is the buffer.
OnceInv ==
    link = "open" =>
        /\ InOrder(wire) /\ InOrder(Queue) /\ Ahead(wire, Queue)
        /\ Own(wire) \cup Own(Queue) = Own(given)
        /\ \A b \in Own(given) : b.at <= Len(given)
        /\ Own(pending) = {}
        /\ IF pc = "flush" THEN work = outb ELSE Own(work) = {}

\* Two sequences put together have the bytes of both, and are in order if each
\* is and the one is ahead of the other.
LEMMA Together ==
    ASSUME NEW p \in Seq(AnyByte), NEW q \in Seq(AnyByte)
    PROVE  /\ p \o q \in Seq(AnyByte)
           /\ Own(p \o q) = Own(p) \cup Own(q)
           /\ InOrder(p \o q) <=> InOrder(p) /\ InOrder(q) /\ Ahead(p, q)
<1>1. /\ p \o q \in Seq(AnyByte) /\ Len(p) \in Nat /\ Len(q) \in Nat
      /\ DOMAIN p = 1 .. Len(p) /\ DOMAIN q = 1 .. Len(q)
      /\ DOMAIN (p \o q) = 1 .. Len(p) + Len(q)
      /\ \A i \in 1 .. Len(p) + Len(q) :
            (p \o q)[i] = IF i <= Len(p) THEN p[i] ELSE q[i - Len(p)]
  <2> HIDE DEF AnyByte
  <2> QED BY ConcatProperties, LenProperties
<1>2. \A i \in DOMAIN p : i \in DOMAIN (p \o q) /\ (p \o q)[i] = p[i]
  BY <1>1
<1>3. \A i \in DOMAIN q : /\ i + Len(p) \in DOMAIN (p \o q)
                          /\ (p \o q)[i + Len(p)] = q[i]
  <2> TAKE i \in DOMAIN q
  <2>1. i + Len(p) \in 1 .. Len(p) + Len(q) /\ ~(i + Len(p) <= Len(p))
        /\ (i + Len(p)) - Len(p) = i
    BY <1>1
  <2> QED BY <1>1, <2>1
<1>4. \A i \in DOMAIN (p \o q) :
         \/ i \in DOMAIN p /\ (p \o q)[i] = p[i]
         \/ i - Len(p) \in DOMAIN q /\ (p \o q)[i] = q[i - Len(p)]
  BY <1>1
<1>5. Own(p \o q) = Own(p) \cup Own(q)
  <2>1. ASSUME NEW b \in Own(p \o q) PROVE b \in Own(p) \cup Own(q)
    BY <1>4, <2>1 DEF Own
  <2>2. ASSUME NEW b \in Own(p) PROVE b \in Own(p \o q)
    BY <1>2, <2>2 DEF Own
  <2>3. ASSUME NEW b \in Own(q) PROVE b \in Own(p \o q)
    <3>1. PICK i \in DOMAIN q : b = q[i] /\ q[i].own
      BY <2>3 DEF Own
    <3> QED BY <1>3, <3>1 DEF Own
  <2> QED BY <2>1, <2>2, <2>3
<1>6. ASSUME InOrder(p \o q) PROVE InOrder(p) /\ InOrder(q) /\ Ahead(p, q)
  <2>1. InOrder(p)
    BY <1>2, <1>6 DEF InOrder
  <2>2. InOrder(q)
    <3> SUFFICES ASSUME NEW i \in DOMAIN q, NEW j \in DOMAIN q, i < j,
                        q[i].own, q[j].own
                 PROVE  q[i].at < q[j].at
      BY DEF InOrder
    <3>1. i + Len(p) < j + Len(p)
      BY <1>1
    <3> QED BY <1>3, <1>6, <3>1 DEF InOrder
  <2>3. Ahead(p, q)
    <3> SUFFICES ASSUME NEW a \in Own(p), NEW b \in Own(q) PROVE a.at < b.at
      BY DEF Ahead
    <3>1. PICK i \in DOMAIN p : a = p[i] /\ p[i].own
      BY DEF Own
    <3>2. PICK j \in DOMAIN q : b = q[j] /\ q[j].own
      BY DEF Own
    <3>3. i < j + Len(p)
      BY <1>1
    <3> QED BY <1>2, <1>3, <1>6, <3>1, <3>2, <3>3 DEF InOrder
  <2> QED BY <2>1, <2>2, <2>3
<1>7. ASSUME InOrder(p), InOrder(q), Ahead(p, q) PROVE InOrder(p \o q)
  <2> DEFINE r == p \o q
  <2> SUFFICES ASSUME NEW i \in DOMAIN r, NEW j \in DOMAIN r, i < j,
                      r[i].own, r[j].own
               PROVE  r[i].at < r[j].at
    BY Zenon DEF InOrder
  <2>1. CASE i \in DOMAIN p /\ r[i] = p[i] /\ j \in DOMAIN p /\ r[j] = p[j]
    BY <1>7, <2>1 DEF InOrder
  <2>2. CASE /\ i \in DOMAIN p /\ r[i] = p[i]
             /\ j - Len(p) \in DOMAIN q /\ r[j] = q[j - Len(p)]
    <3>1. r[i] \in Own(p) /\ r[j] \in Own(q)
      BY <2>2 DEF Own
    <3> QED BY <1>7, <3>1 DEF Ahead
  <2>3. CASE i - Len(p) \in DOMAIN q /\ j \in DOMAIN p
    BY <1>1, <2>3
  <2>4. CASE /\ i - Len(p) \in DOMAIN q /\ r[i] = q[i - Len(p)]
             /\ j - Len(p) \in DOMAIN q /\ r[j] = q[j - Len(p)]
    <3>1. i - Len(p) < j - Len(p)
      BY <1>1
    <3> QED BY <1>7, <2>4, <3>1 DEF InOrder
  <2> QED BY <1>4, <2>1, <2>2, <2>3, <2>4
<1> QED BY <1>1, <1>5, <1>6, <1>7

\* A byte has a place.
LEMMA OwnPlaced ==
    ASSUME NEW q \in Seq(AnyByte)
    PROVE  \A b \in Own(q) : b.at \in Nat
<1> SUFFICES ASSUME NEW b \in Own(q) PROVE b.at \in Nat
  OBVIOUS
<1>1. PICK i \in DOMAIN q : b = q[i]
  BY DEF Own
<1>2. q[i] \in AnyByte
  <2> HIDE DEF AnyByte
  <2> QED BY <1>1, LenProperties, ElementOfSeq
<1> QED BY <1>1, <1>2 DEF AnyByte

\* Bytes of others are in order wherever they are.
LEMMA Foreign ==
    ASSUME NEW q, Own(q) = {}
    PROVE  /\ InOrder(q)
           /\ \A p : Ahead(p, q) /\ Ahead(q, p)
<1>1. \A i \in DOMAIN q : ~q[i].own
  BY DEF Own
<1> QED BY <1>1 DEF InOrder, Ahead

\* A part has no bytes but those of the whole.
LEMMA OwnPart ==
    ASSUME NEW q \in Seq(AnyByte), NEW k \in Nat, NEW l \in Nat, k + l <= Len(q),
           Own(q) = {}
    PROVE  Own(SubSeq(q, k + 1, k + l)) = {}
<1>1. Len(q) \in Nat /\ DOMAIN q = 1 .. Len(q) /\ \A i \in DOMAIN q : ~q[i].own
  BY LenProperties DEF Own
<1> DEFINE part == SubSeq(q, k + 1, k + l)
<1>2. /\ DOMAIN part = 1 .. l
      /\ \A i \in 1 .. l : part[i] = q[k + i]
  <2>1. \A i \in k + 1 .. k + l : q[i] \in AnyByte
    BY <1>1, ElementOfSeq
  <2>2. /\ part \in Seq(AnyByte) /\ Len(part) = l
        /\ \A i \in 1 .. l : part[i] = q[k + i]
    <3> HIDE DEF AnyByte
    <3> QED BY <2>1, SubSeqProperties
  <2> QED BY <2>2, LenProperties
<1>3. \A i \in 1 .. l : k + i \in DOMAIN q
  BY <1>1
<1> QED BY <1>1, <1>2, <1>3 DEF Own

\* The bytes that a handler adds come after all that were given before.
LEMMA OwnNew ==
    ASSUME given \in Seq(AnyByte), NEW n \in Nat
    PROVE  /\ InOrder(Bytes(TRUE, n))
           /\ \A b \in Own(Bytes(TRUE, n)) :
                 b.at > Len(given) /\ b.at <= Len(given) + n
           /\ Own(Bytes(FALSE, n)) = {}
<1>1. Len(given) \in Nat
  BY LenProperties
<1>2. ASSUME NEW own \in BOOLEAN
      PROVE  LET b == Bytes(own, n)
             IN  /\ DOMAIN b = 1 .. n
                 /\ \A i \in 1 .. n : b[i].own = own /\ b[i].at = Len(given) + i
  BY <1>2 DEF Bytes
<1>3. Own(Bytes(FALSE, n)) = {}
  BY <1>2 DEF Own
<1> DEFINE b == Bytes(TRUE, n)
<1>4. DOMAIN b = 1 .. n /\ \A i \in 1 .. n : b[i].at = Len(given) + i
  BY <1>2
<1> HIDE DEF b
<1>5. InOrder(b)
  BY <1>1, <1>4 DEF InOrder
<1>6. \A x \in Own(b) : x.at > Len(given) /\ x.at <= Len(given) + n
  <2> TAKE x \in Own(b)
  <2>1. PICK i \in 1 .. n : x = b[i]
    BY <1>4 DEF Own
  <2> QED BY <1>1, <1>4, <2>1
<1> QED BY <1>3, <1>5, <1>6 DEF b

\* Nothing has been queued at first.
LEMMA OnceInit == Init => OnceInv
<1>1. Own(<<>>) = {}
  BY DEF Own
<1>2. InOrder(<<>>) /\ Ahead(<<>>, <<>>)
  BY <1>1, Foreign
<1> QED BY <1>1, <1>2 DEF Init, OnceInv, Queue

\* A handler's words go to the end of the buffer.
LEMMA OnceSays ==
    ASSUME TypeInv, OnceInv, pc = "loop", NEW n \in Nat, Flush(Bytes(TRUE, n)),
           given' = given \o Bytes(TRUE, n),
           UNCHANGED <<put, pending, wire, link>>
    PROVE  OnceInv'
<1> SUFFICES ASSUME link = "open" PROVE OnceInv'
  BY DEF OnceInv
<1> DEFINE b == Bytes(TRUE, n)
<1>1. /\ given \in Seq(AnyByte) /\ outb \in Seq(AnyByte) /\ wire \in Seq(AnyByte)
      /\ put = 0 /\ Len(given) \in Nat
  BY LenProperties DEF TypeInv, Writing
<1>2. /\ InOrder(wire) /\ InOrder(outb) /\ Ahead(wire, outb)
      /\ Own(wire) \cup Own(outb) = Own(given)
      /\ \A x \in Own(given) : x.at <= Len(given)
      /\ Own(pending) = {}
  BY DEF OnceInv, Queue
<1>3. b \in Seq(AnyByte) /\ Len(b) = n
  BY <1>1, New
<1>4. InOrder(b) /\ \A x \in Own(b) : x.at > Len(given) /\ x.at <= Len(given) + n
  BY <1>1, OwnNew
<1>5. given' = given \o b /\ outb' = outb \o b /\ work' = outb' /\ pc' = "flush"
  BY DEF Flush
<1> HIDE DEF b
<1>6. \A x \in Own(given) \cup Own(b) : x.at \in Nat
  BY <1>1, <1>3, OwnPlaced
<1>7. Ahead(wire, b) /\ Ahead(outb, b)
  <2>1. ASSUME NEW x \in Own(given), NEW y \in Own(b) PROVE x.at < y.at
    <3>1. x.at <= Len(given) /\ y.at > Len(given) /\ x.at \in Nat /\ y.at \in Nat
      BY <1>2, <1>4, <1>6
    <3> QED BY <1>1, <3>1
  <2> QED BY <1>2, <2>1 DEF Ahead
<1>8. /\ outb' \in Seq(AnyByte) /\ Own(outb') = Own(outb) \cup Own(b)
      /\ InOrder(outb')
      /\ Own(given') = Own(given) \cup Own(b)
  BY <1>1, <1>2, <1>3, <1>4, <1>5, <1>7, Together
<1>9. Queue' = outb'
  BY <1>1, <1>5, <1>8, Left DEF Queue
<1>10. Ahead(wire', Queue')
  BY <1>2, <1>7, <1>8, <1>9 DEF Ahead
<1>11. \A x \in Own(given') : x.at <= Len(given')
  <2>1. Len(given') = Len(given) + n
    <3> HIDE DEF AnyByte
    <3> QED BY <1>1, <1>3, <1>5, ConcatProperties
  <2>2. ASSUME NEW x \in Own(given') PROVE x.at <= Len(given) + n
    <3>1. CASE x \in Own(b)
      BY <1>4, <3>1
    <3>2. CASE x \in Own(given)
      <4>1. x.at <= Len(given) /\ x.at \in Nat
        BY <1>2, <1>6, <3>2
      <4> QED BY <1>1, <4>1
    <3> QED BY <1>8, <3>1, <3>2
  <2> QED BY <2>1, <2>2
<1> QED BY <1>2, <1>5, <1>8, <1>9, <1>10, <1>11 DEF OnceInv

\* What deflate() makes of bytes of others is such bytes.
LEMMA OnceDeflates ==
    ASSUME NEW q \in Seq(AnyByte), Own(q) = {}, Deflate(q)
    PROVE  Own(work') = {} /\ Own(pending') = {}
<1>1. work' \in Seq(AnyByte) /\ pending' \in Seq(AnyByte) /\ work' \o pending' = q
  BY DeflateType
<1>2. Own(q) = Own(work') \cup Own(pending')
  BY <1>1, Together, Zenon
<1> QED BY <1>2

\* What is given of others leaves MUDitM's own as they are.
LEMMA OnceGives ==
    ASSUME TypeInv, NEW m \in Nat, given' = given \o Bytes(FALSE, m),
           \A b \in Own(given) : b.at <= Len(given)
    PROVE  /\ Own(given') = Own(given)
           /\ \A b \in Own(given') : b.at <= Len(given')
<1> DEFINE f == Bytes(FALSE, m)
<1>1. given \in Seq(AnyByte) /\ Len(given) \in Nat
  BY LenProperties DEF TypeInv
<1>2. f \in Seq(AnyByte) /\ Len(f) = m /\ Own(f) = {} /\ given' = given \o f
  BY <1>1, New, OwnNew
<1> HIDE DEF f
<1>3. Own(given') = Own(given)
  <2>1. Own(given \o f) = Own(given) \cup Own(f)
    BY <1>1, <1>2, Together, Zenon
  <2> QED BY <1>2, <2>1
<1>4. Len(given') = Len(given) + m
  <2> HIDE DEF AnyByte
  <2> QED BY <1>1, <1>2, ConcatProperties
<1>5. \A b \in Own(given) : b.at \in Nat
  BY <1>1, OwnPlaced
<1>6. ASSUME NEW b \in Own(given) PROVE b.at <= Len(given) + m
  <2>1. b.at <= Len(given) /\ b.at \in Nat
    BY <1>5
  <2> QED BY <1>1, <2>1
<1> QED BY <1>3, <1>4, <1>6

\* Relaying does not touch the buffer.
LEMMA OnceRelays ==
    ASSUME TypeInv, OnceInv, Relay
    PROVE  OnceInv'
<1>1. /\ pc = "loop" /\ pc' \in {"zip", "relay"}
      /\ UNCHANGED <<outb, put, wire, link>>
  BY DEF Relay, peerVars
<1> SUFFICES ASSUME link = "open" PROVE OnceInv'
  BY <1>1 DEF OnceInv
<1>2. /\ InOrder(wire) /\ InOrder(outb) /\ Ahead(wire, outb)
      /\ Own(wire) \cup Own(outb) = Own(given)
      /\ \A x \in Own(given) : x.at <= Len(given)
      /\ Own(pending) = {}
  BY <1>1 DEF OnceInv, Queue
<1>3. PICK m \in Nat :
         /\ given' = given \o Bytes(FALSE, m)
         /\ \/ Deflate(pending \o Bytes(FALSE, m))
            \/ work' = Bytes(FALSE, m) /\ pending' = pending
  <2>1. PICK n \in Relays :
           \/ \E m \in 1 .. n + 1 :
                 /\ given' = given \o Bytes(FALSE, m)
                 /\ Deflate(pending \o Bytes(FALSE, m))
           \/ /\ given' = given \o Bytes(FALSE, n)
              /\ work' = Bytes(FALSE, n) /\ pending' = pending
    BY Zenon DEF Relay, Give
  <2>2. n \in Nat /\ \A m \in 1 .. n + 1 : m \in Nat
    BY SocketAssumption
  <2> QED BY <2>1, <2>2, Zenon
<1>4. Own(work') = {} /\ Own(pending') = {}
  <2>1. /\ pending \in Seq(AnyByte) /\ Bytes(FALSE, m) \in Seq(AnyByte)
        /\ Own(Bytes(FALSE, m)) = {}
    BY New, OwnNew DEF TypeInv
  <2>2. /\ pending \o Bytes(FALSE, m) \in Seq(AnyByte)
        /\ Own(pending \o Bytes(FALSE, m)) = Own(pending) \cup Own(Bytes(FALSE, m))
    BY <2>1, Together, Zenon
  <2> QED BY <1>2, <1>3, <2>1, <2>2, OnceDeflates
<1>5. Own(given') = Own(given) /\ \A b \in Own(given') : b.at <= Len(given')
  BY <1>2, <1>3, OnceGives
<1> QED BY <1>1, <1>2, <1>4, <1>5 DEF OnceInv, Queue

\* What the socket takes goes from the buffer to the wire, or is of others.
LEMMA OnceTakes ==
    ASSUME TypeInv, OnceInv, Writing, Takes, link = "open"
    PROVE  /\ wire' \in Seq(AnyByte) /\ InOrder(wire')
           /\ LET rest == IF pc = "flush" THEN After(outb, put + Room) ELSE outb
              IN  /\ InOrder(rest) /\ Ahead(wire', rest)
                  /\ Own(wire') \cup Own(rest) = Own(given)
<1> DEFINE part == SubSeq(work, put + 1, put + Room)
           rest == IF pc = "flush" THEN After(outb, put + Room) ELSE outb
<1>1. /\ wire \in Seq(AnyByte) /\ work \in Seq(AnyByte) /\ outb \in Seq(AnyByte)
      /\ put \in Nat /\ Room \in Nat /\ put + Room <= Len(work)
  BY RoomType DEF TypeInv
<1>2. part \in Seq(AnyByte) /\ part \o After(work, put + Room) = After(work, put)
  BY <1>1, Split
<1>3. wire' = wire \o part
  BY DEF Takes
<1>4. /\ InOrder(wire) /\ InOrder(Queue) /\ Ahead(wire, Queue)
      /\ Own(wire) \cup Own(Queue) = Own(given)
      /\ IF pc = "flush" THEN work = outb ELSE Own(work) = {}
  BY DEF OnceInv
<1>5. After(work, put + Room) \in Seq(AnyByte)
  BY <1>1, Left
<1>6. pc = "flush" \/ Own(part) = {}
  BY <1>1, <1>4, OwnPart
<1>7. CASE pc = "flush"
  <2>1. rest = After(work, put + Room) /\ Queue = part \o rest
    BY <1>2, <1>4, <1>7 DEF Queue
  <2> HIDE DEF part, rest
  <2>2. /\ InOrder(part) /\ InOrder(rest) /\ Ahead(part, rest)
        /\ Own(Queue) = Own(part) \cup Own(rest)
    BY <1>2, <1>4, <1>5, <2>1, Together
  <2>3. Ahead(wire, part) /\ Ahead(wire, rest)
    BY <1>4, <2>2 DEF Ahead
  <2>4. /\ wire' \in Seq(AnyByte) /\ InOrder(wire')
        /\ Own(wire') = Own(wire) \cup Own(part)
    BY <1>1, <1>2, <1>3, <1>4, <2>2, <2>3, Together
  <2>5. Ahead(wire', rest)
    BY <2>2, <2>3, <2>4 DEF Ahead
  <2>6. Own(wire') \cup Own(rest) = Own(given)
    BY <1>4, <2>2, <2>4
  <2> QED BY <2>2, <2>4, <2>5, <2>6 DEF rest
<1>8. CASE pc # "flush"
  <2>1. rest = Queue /\ Own(part) = {}
    BY <1>6, <1>8 DEF Queue
  <2> HIDE DEF part, rest
  <2>2. InOrder(part) /\ Ahead(wire, part)
    BY <2>1, Foreign
  <2>3. /\ wire' \in Seq(AnyByte)
        /\ Own(wire') = Own(wire) \cup Own(part)
        /\ InOrder(wire') <=> InOrder(wire) /\ InOrder(part) /\ Ahead(wire, part)
    BY <1>1, <1>2, <1>3, Together, Zenon
  <2>4. InOrder(wire') /\ Own(wire') = Own(wire)
    BY <1>4, <2>1, <2>2, <2>3
  <2> QED BY <1>4, <2>1, <2>3, <2>4 DEF rest, Ahead
<1> QED BY <1>7, <1>8

\* A write that is over pops what it has put out of the buffer, and no more.
LEMMA OnceReturns ==
    ASSUME TypeInv, OnceInv, Writing, Takes, link = "open", link' = link,
           NEW r \in Int, Return(r),
           r > 0 => r = put + Room, ~(r > 0) => put + Room = 0
    PROVE  OnceInv'
<1>1. /\ pending \in Seq(AnyByte) /\ outb \in Seq(AnyByte)
      /\ put \in Nat /\ Room \in Nat
  BY RoomType DEF TypeInv
<1>2. /\ InOrder(wire')
      /\ pc = "flush" => /\ InOrder(After(outb, put + Room))
                         /\ Ahead(wire', After(outb, put + Room))
                         /\ Own(wire') \cup Own(After(outb, put + Room)) = Own(given)
      /\ pc # "flush" => /\ InOrder(outb) /\ Ahead(wire', outb)
                         /\ Own(wire') \cup Own(outb) = Own(given)
  BY OnceTakes
<1>3. Own(pending) = {} /\ (\A b \in Own(given) : b.at <= Len(given))
  BY DEF OnceInv
<1>4. Own(<<>>) = {}
  BY DEF Own
<1>5. CASE Filled /\ r > 0
  <2>1. pc = "zip" /\ pc' = "zip" /\ outb' = outb
    BY <1>5 DEF Filled, Return
  <2>2. /\ Own(given') = Own(given)
        /\ \A b \in Own(given') : b.at <= Len(given')
        /\ Own(work') = {} /\ Own(pending') = {}
    <3>1. CASE pending # <<>>
      <4>1. Deflate(pending) /\ given' = given
        BY <1>5, <3>1, Zenon DEF Return
      <4> QED BY <1>1, <1>3, <4>1, OnceDeflates
    <3>2. CASE pending = <<>>
      <4>1. Deflate(Bytes(FALSE, 1)) /\ given' = given \o Bytes(FALSE, 1)
        BY <1>5, <3>2 DEF Return, Give
      <4>2. Bytes(FALSE, 1) \in Seq(AnyByte) /\ Own(Bytes(FALSE, 1)) = {}
        BY New, OwnNew DEF TypeInv
      <4> QED BY <1>3, <4>1, <4>2, OnceDeflates, OnceGives
    <3> QED BY <3>1, <3>2
  <2> QED BY <1>2, <2>1, <2>2 DEF OnceInv, Queue
<1>6. CASE ~(Filled /\ r > 0)
  <2>1. /\ pc' = "loop" /\ work' = <<>> /\ given' = given
        /\ pending' = pending \/ pending' = <<>>
        /\ outb' = IF pc = "flush" THEN Popped(r) ELSE outb
    BY <1>6, Zenon DEF Return
  <2>2. pc = "flush" => outb' = After(outb, put + Room)
    <3>1. CASE r > 0
      BY <2>1, <3>1 DEF Popped
    <3>2. CASE ~(r > 0)
      BY <1>1, <2>1, <3>2, Left DEF Popped
    <3> QED BY <3>1, <3>2
  <2> QED BY <1>2, <1>3, <1>4, <2>1, <2>2 DEF OnceInv, Queue
<1> QED BY <1>5, <1>6

\* Every step keeps it.
LEMMA OnceNext == Inv /\ OnceInv /\ [Next]_vars => OnceInv'
<1> SUFFICES ASSUME TypeInv, FullInv, OnceInv, [Next]_vars PROVE OnceInv'
  BY DEF Inv
<1>0. Len(outb) <= Length
  BY DEF FullInv
<1>1. CASE Report
  <2>1. PICK n \in Reports :
          /\ pc = "loop" /\ Flush(Bytes(TRUE, Pushed(n)))
          /\ given' = given \o Bytes(TRUE, Pushed(n))
          /\ UNCHANGED <<put, pending, wire, link>>
    BY <1>1, Zenon DEF Report, Give, peerVars
  <2>2. Pushed(n) \in Nat
    BY <1>0, AvailType, LengthAssumption
  <2> QED BY <2>1, <2>2, OnceSays
<1>2. CASE Answer
  <2>1. pc = "loop" /\ UNCHANGED <<put, pending, wire, link>>
    BY <1>2 DEF Answer, peerVars
  <2>2. CASE Copy <= Avail
    <3>1. Flush(Bytes(TRUE, Copy)) /\ given' = given \o Bytes(TRUE, Copy)
      BY <1>2, <2>2 DEF Answer, Give
    <3>2. Copy \in Nat
      BY LengthAssumption
    <3> QED BY <2>1, <3>1, <3>2, OnceSays
  <2>3. CASE ~(Copy <= Avail)
    <3>1. pc' = "undefined" /\ UNCHANGED <<given, outb, work>>
      BY <1>2, <2>3 DEF Answer
    <3> QED BY <2>1, <3>1 DEF OnceInv, Queue
  <2> QED BY <2>2, <2>3
<1>3. CASE Relay
  BY <1>3, OnceRelays
<1>4. CASE WritePlain
  <2> DEFINE r == IF Room = 0 THEN -1 ELSE Room
  <2>1. /\ Writing /\ ~tls /\ link = "open" /\ link' = link /\ Takes /\ Return(r)
    BY <1>4, Zenon DEF WritePlain
  <2>2. Room \in Nat /\ put = 0
    BY <2>1, RoomType DEF TypeInv
  <2>3. r \in Int /\ (r > 0 => r = put + Room) /\ (~(r > 0) => put + Room = 0)
    BY <2>2
  <2> HIDE DEF r
  <2> QED BY <2>1, <2>3, OnceReturns
<1>5. CASE WriteTls
  <2>1. Writing /\ tls /\ link = "open" /\ link' = link /\ Takes /\ Room > 0
    BY <1>5 DEF WriteTls
  <2>2. /\ Room \in Nat /\ put \in Nat /\ Len(work) \in Nat
        /\ put + Room <= Len(work)
    BY RoomType, LenProperties DEF TypeInv
  <2>3. CASE put + Room < Len(work)
    <3>1. put' = put + Room /\ UNCHANGED <<pc, outb, work, pending, given>>
      BY <1>5, <2>3 DEF WriteTls
    <3>2. /\ InOrder(wire') /\ InOrder(Queue') /\ Ahead(wire', Queue')
          /\ Own(wire') \cup Own(Queue') = Own(given)
      BY <2>1, <3>1, OnceTakes DEF Queue
    <3> QED BY <2>1, <3>1, <3>2 DEF OnceInv
  <2>4. CASE ~(put + Room < Len(work))
    <3>1. Return(Len(work)) /\ Len(work) = put + Room /\ Len(work) \in Int
          /\ Len(work) > 0
      BY <1>5, <2>1, <2>2, <2>4 DEF WriteTls
    <3> QED BY <2>1, <3>1, OnceReturns
  <2> QED BY <2>3, <2>4
<1>6. CASE WriteFails \/ PeerLeaves
  <2>1. link' # "open"
    BY <1>6 DEF WriteFails, PeerLeaves, peerVars
  <2> QED BY <2>1 DEF OnceInv
<1>7. CASE StartRead \/ Read \/ SkipRecord \/ ReadEnds
  BY <1>7 DEF StartRead, Read, SkipRecord, ReadEnds, peerVars, history, OnceInv, Queue
<1>8. CASE PeerReads \/ PeerWrites \/ PeerCompletes
  BY <1>8 DEF PeerReads, PeerWrites, PeerCompletes, history, OnceInv, Queue
<1>9. CASE Terminated \/ UNCHANGED vars
  BY <1>9 DEF Terminated, vars, peerVars, history, OnceInv, Queue
<1> QED
  BY <1>1, <1>2, <1>3, <1>4, <1>5, <1>6, <1>7, <1>8, <1>9 DEF Next, Process

\* What a handler has queued is sent once and in its order, however the socket
\* cuts the writes of flush_endpoint() and whatever is relayed in between, for
\* every size of the buffer, with and without TLS (src/proxy.c, src/iobuf.c).
THEOREM OnceCorrect == Spec => []QueuedOnce
<1>1. TypeInv /\ OnceInv => QueuedOnce
  <2> SUFFICES ASSUME TypeInv, OnceInv, pc = "loop", link = "open"
               PROVE  InOrder(wire \o outb) /\ Own(wire \o outb) = Own(given)
    BY DEF QueuedOnce
  <2>1. wire \in Seq(AnyByte) /\ outb \in Seq(AnyByte) /\ Queue = outb
    BY DEF TypeInv, Queue
  <2> QED BY <2>1, Together DEF OnceInv
<1>2. Inv => TypeInv
  BY DEF Inv
<1> QED BY <1>1, <1>2, OnceInit, OnceNext, Invariant, PTL DEF Spec

-----------------------------------------------------------------------------
(* A write ends.                                                           *)

\* How much there is to write, a full workspace counting for the mark of the
\* flush that deflate() may have to add to it.
ToWrite == Len(pending) + (Len(work) - put) + (IF Len(work) = Length THEN 2 ELSE 0)

PeerStep == PeerReads \/ PeerWrites \/ PeerCompletes \/ PeerLeaves

\* A write that is under way has less to do after each of its steps; the peer,
\* whatever it does meanwhile, gives it no more.
WriteDescends ==
    Writing /\ Writing' => \/ ToWrite' \in Nat /\ ToWrite' < ToWrite
                           \/ PeerStep /\ ToWrite' = ToWrite

\* write_endpoint_sock() has put out something, up to the end or not, and
\* write_endpoint() goes on.
LEMMA GoesOn ==
    ASSUME Length > 1, TypeInv, Writing, NEW r \in Int, Return(r), pc' # "loop",
           Room > 0
    PROVE  ToWrite' \in Nat /\ ToWrite' < ToWrite
<1>1. /\ pending \in Seq(AnyByte) /\ given \in Seq(AnyByte)
      /\ Len(pending) \in Nat /\ Len(work) \in Nat /\ put \in Nat
      /\ Length \in Nat
  BY LengthAssumption, LenProperties DEF TypeInv
<1>2. put + Room <= Len(work) /\ Room \in Nat
  BY RoomType
<1>3. Filled /\ put' = 0
  BY DEF Return
<1>4. ToWrite \in Int /\ ToWrite >= Len(pending) + 3
  BY <1>1, <1>2, <1>3 DEF ToWrite, Filled
<1>5. PICK q \in Seq(AnyByte) :
        /\ Deflate(q)
        /\ q = pending \/ (Len(pending) = 0 /\ Len(q) = 1)
  <2>1. CASE pending # <<>>
    BY <1>1, <1>3, <2>1 DEF Return
  <2>2. CASE pending = <<>>
    <3>1. Deflate(Bytes(FALSE, 1))
      BY <1>3, <2>2 DEF Return
    <3>2. Bytes(FALSE, 1) \in Seq(AnyByte) /\ Len(Bytes(FALSE, 1)) = 1
      BY <1>1, New
    <3> QED BY <2>2, <3>1, <3>2
  <2> QED BY <2>1, <2>2
<1>6. /\ Len(work') \in Nat /\ Len(pending') \in Nat
      /\ Len(work') + Len(pending') = Len(q)
  <2>1. /\ work' \in Seq(AnyByte) /\ pending' \in Seq(AnyByte)
        /\ work' \o pending' = q
    BY <1>5, DeflateType
  <2> HIDE DEF AnyByte
  <2> QED BY <2>1, ConcatProperties, LenProperties
<1>7. ToWrite' = Len(q) + (IF Len(work') = Length THEN 2 ELSE 0)
  BY <1>3, <1>6 DEF ToWrite
<1>8. CASE q = pending
  BY <1>1, <1>4, <1>7, <1>8
<1>9. CASE Len(pending) = 0 /\ Len(q) = 1
  <2>1. Len(work') # Length
    BY <1>1, <1>6, <1>9
  <2> QED BY <1>4, <1>7, <1>9, <2>1
<1> QED BY <1>5, <1>8, <1>9

\* Every step of a write
LEMMA WriteLess ==
    ASSUME Length > 1, TypeInv, Writing, Writing',
           WritePlain \/ WriteTls \/ WriteFails
    PROVE  ToWrite' \in Nat /\ ToWrite' < ToWrite
<1>1. pc' # "loop"
  BY DEF Writing
<1>2. CASE WritePlain
  <2>1. Return(IF Room = 0 THEN -1 ELSE Room)
    BY <1>2 DEF WritePlain
  <2>2. Room \in Nat
    BY RoomType
  <2>3. Room # 0
    <3>1. Return(-1) => pc' = "loop"
      BY DEF Return
    <3> QED BY <1>1, <2>1, <3>1
  <2> QED BY <1>1, <2>1, <2>2, <2>3, GoesOn
<1>3. CASE WriteTls
  <2>1. Room > 0 /\ Room \in Nat /\ put + Room <= Len(work)
    BY <1>3, RoomType DEF WriteTls
  <2>2. Len(work) \in Nat /\ Len(pending) \in Nat /\ put \in Nat
    BY LenProperties DEF TypeInv
  <2>3. CASE put + Room < Len(work)
    <3>1. put' = put + Room /\ work' = work /\ pending' = pending
      BY <1>3, <2>3 DEF WriteTls
    <3> QED BY <2>1, <2>2, <2>3, <3>1 DEF ToWrite
  <2>4. CASE ~(put + Room < Len(work))
    <3>1. Return(Len(work))
      BY <1>3, <2>4 DEF WriteTls
    <3> QED BY <1>1, <2>1, <2>2, <3>1, GoesOn
  <2> QED BY <2>3, <2>4
<1>4. CASE WriteFails
  BY <1>1, <1>4 DEF WriteFails, Return
<1> QED BY <1>2, <1>3, <1>4

\* write_endpoint() ends if the peer takes what it is sent or leaves: neither
\* the retries of SSL_write() nor the calls of deflate() for a workspace that
\* came out full go on for ever (src/proxy.c, write_endpoint_sock();
\* src/mccp.c, write_endpoint_compressed()).
THEOREM WriteEnds == ASSUME Length > 1 PROVE Spec => [][WriteDescends]_vars
<1>1. Inv /\ [Next]_vars => [WriteDescends]_vars
  <2> SUFFICES ASSUME TypeInv, Writing, Writing', Next PROVE WriteDescends
    BY DEF Inv, WriteDescends
  <2>1. CASE WritePlain \/ WriteTls \/ WriteFails
    BY <2>1, WriteLess DEF WriteDescends
  <2>2. CASE PeerStep
    BY <2>2 DEF WriteDescends, PeerStep, PeerReads, PeerWrites, PeerCompletes,
       PeerLeaves, history, ToWrite
  <2>3. CASE \/ Report \/ Answer \/ Relay \/ StartRead \/ Read \/ SkipRecord
             \/ ReadEnds \/ Terminated
    BY <2>3 DEF Report, Answer, Relay, StartRead, Read, SkipRecord, ReadEnds,
       Terminated, Writing
  <2> QED BY <2>1, <2>2, <2>3 DEF Next, Process, PeerStep
<1> QED BY <1>1, Invariant, PTL DEF Spec
=============================================================================
