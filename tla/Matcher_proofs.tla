-------------------------- MODULE Matcher_proofs --------------------------
(***************************************************************************)
(* Proofs about the search for commands, for every endpoint, any stream    *)
(* and any way to cut it into reads: what the loop finds in its buffer is  *)
(* what there is in the stream as a whole, which says all of it.           *)
(***************************************************************************)
EXTENDS Matcher, SequenceTheorems, WellFoundedInduction, TLAPS

Piece == [pattern : Nat, at : Nat, bytes : Seq(Byte)]

\* The buffer is the part of the stream that has been read and is not done
\* with, which begins where the last piece that was found ends.
MatcherInv ==
    /\ endpoint \in Endpoints
    /\ stream \in Seq(Byte) /\ buffer \in Seq(Byte)
    /\ done \in Seq(Piece)
    /\ read \in 0 .. Len(stream) /\ Len(buffer) <= read
    /\ buffer = SubSeq(stream, Gone + 1, read)
    /\ Reached(done, Len(done)) = Gone + 1
    /\ Parses(done)

-----------------------------------------------------------------------------
(* The first of some numbers, and the first of some matches.               *)

\* A set of numbers that is not empty has a least one.
LEMMA LeastOf ==
    ASSUME NEW S, S \subseteq Nat, S # {}
    PROVE  \E i \in S : \A j \in S : i <= j
<1> DEFINE Less == OpToRel(<, Nat)
<1>1. IsWellFoundedOn(Less, Nat)
  BY NatLessThanWellFounded
<1>2. \A x, y \in Nat : <<x, y>> \in Less <=> x < y
  BY DEF OpToRel
<1> HIDE DEF Less
<1>3. PICK i \in S : \A j \in S : ~(<<j, i>> \in Less)
  BY <1>1, WFMin
<1>4. \A j \in S : ~(j < i)
  BY <1>2, <1>3, Zenon
<1>5. \A j \in S : i <= j
  BY <1>4
<1> QED BY <1>5

\* The match that counts is at the leftmost place, and of those there the
\* first alternative.
LEMMA FirstOf ==
    ASSUME NEW found, found # {}, found \subseteq Nat \X Nat
    PROVE  /\ First(found) \in found
           /\ \A g \in found : \/ First(found)[1] < g[1]
                               \/ First(found)[1] = g[1] /\ First(found)[2] <= g[2]
<1> DEFINE places == {g[1] : g \in found}
<1>1. PICK i \in places : \A j \in places : i <= j
  <2>1. places \subseteq Nat /\ places # {}
    OBVIOUS
  <2> HIDE DEF places
  <2> QED BY <2>1, LeastOf
<1> DEFINE there == {g[2] : g \in {h \in found : h[1] = i}}
<1>2. PICK a \in there : \A b \in there : a <= b
  <2>1. there \subseteq Nat /\ there # {}
    BY <1>1
  <2> HIDE DEF there, places
  <2> QED BY <2>1, LeastOf
<1>3. PICK f \in found : f[1] = i /\ f[2] = a
  BY <1>2
<1>4. ASSUME NEW g \in found
      PROVE  f[1] < g[1] \/ (f[1] = g[1] /\ f[2] <= g[2])
  <2>1. g[1] \in places /\ g[1] \in Nat /\ i \in Nat
    BY <1>1
  <2>2. i <= g[1]
    BY <1>1, <2>1
  <2>3. g[1] = i => a <= g[2]
    BY <1>2
  <2>4. i < g[1] \/ g[1] = i
    <3> HIDE DEF places
    <3> QED BY <2>1, <2>2
  <2>5. f[1] = i /\ f[2] = a
    BY <1>3
  <2> HIDE DEF places, there
  <2> QED BY <2>3, <2>4, <2>5
<1> QED BY <1>3, <1>4 DEF First

-----------------------------------------------------------------------------
(* The patterns.                                                           *)

\* Each begins with an IAC, and so is not empty.
Pattern == {p \in Seq(Byte) : Len(p) >= 1 /\ p[1] = "IAC"}

\* What a NUL ends still does.
LEMMA UpToNulType ==
    ASSUME NEW p \in Pattern
    PROVE  UpToNul(p) \in Pattern
<1> DEFINE nuls == {i \in DOMAIN p : p[i] = "NUL"}
<1> DEFINE first == CHOOSE i \in nuls : \A j \in nuls : i <= j
<1>1. p \in Seq(Byte) /\ Len(p) >= 1 /\ p[1] = "IAC"
  BY DEF Pattern
<1>2. CASE nuls = {}
  BY <1>2 DEF UpToNul
<1>3. CASE nuls # {}
  <2>1. DOMAIN p = 1 .. Len(p) /\ Len(p) \in Nat
    BY <1>1, LenProperties
  <2>2. nuls \subseteq Nat
    BY <2>1
  <2>3. \E i \in nuls : \A j \in nuls : i <= j
    <3> HIDE DEF nuls
    <3> QED BY <1>3, <2>2, LeastOf
  <2>4. first \in nuls
    <3> HIDE DEF nuls
    <3> QED BY <2>3
  <2>5. first \in 2 .. Len(p)
    BY <1>1, <2>1, <2>4
  <2> HIDE DEF first
  <2>6. \A i \in 1 .. first - 1 : p[i] \in Byte
    BY <1>1, <2>1, <2>5, ElementOfSeq
  <2>7. /\ SubSeq(p, 1, first - 1) \in Seq(Byte)
        /\ Len(SubSeq(p, 1, first - 1)) = first - 1
        /\ SubSeq(p, 1, first - 1)[1] = p[1]
    <3>1. 1 \in Int /\ first - 1 \in Int /\ 1 <= first - 1 /\ (first - 1) - 1 + 1 = first - 1
      BY <2>1, <2>5
    <3>2. 1 \in 1 .. (first - 1) - 1 + 1 /\ 1 + 1 - 1 = 1
      BY <3>1
    <3> HIDE DEF Byte
    <3> QED BY <2>6, <3>1, <3>2, SubSeqProperties
  <2>8. SubSeq(p, 1, first - 1) \in Pattern
    <3>1. first - 1 >= 1
      BY <2>1, <2>5
    <3> HIDE DEF Byte
    <3> QED BY <1>1, <2>7, <3>1 DEF Pattern
  <2> QED BY <1>3, <2>8 DEF UpToNul, first
<1> QED BY <1>2, <1>3

\* Each endpoint has its alternatives, none of them empty.
LEMMA AlternativesType ==
    ASSUME endpoint \in Endpoints
    PROVE  Alternatives \in Seq(Pattern)
<1>1. PICK side \in {"client", "game"}, mode \in {"ignore", "disable", "enable"} :
        endpoint = <<side, mode>>
  BY EndpointsAssumption
<1>2. MccpPatterns(side, mode) \in Seq(Pattern)
  <2>1. \A verb, option \in Byte : Command(verb, option) \in Pattern
    BY DEF Command, Byte, Pattern
  <2>2. \A option \in Byte : Start(option) \in Pattern
    BY DEF Start, Byte, Pattern
  <2>3. \A i \in 1 .. 3 : Options[i] \in Byte
    BY DEF Options, Byte
  <2>4. {"WILL", "DO", "DONT", "MCCP2"} \subseteq Byte
    BY DEF Byte
  <2>5. CASE side = "game" /\ mode = "ignore"
    <3>1. MccpPatterns(side, mode) = [i \in 1 .. 3 |-> Start(Options[i])]
      BY <2>5 DEF MccpPatterns
    <3> HIDE DEF Pattern
    <3> QED BY <3>1, <2>2, <2>3
  <2>6. CASE side = "game" /\ mode = "disable"
    <3>1. MccpPatterns(side, mode) = [i \in 1 .. 3 |-> Command("WILL", Options[i])]
      BY <2>6 DEF MccpPatterns
    <3> HIDE DEF Pattern
    <3>2. \A i \in 1 .. 3 : Command("WILL", Options[i]) \in Pattern
      BY <2>1, <2>3, <2>4
    <3> QED BY <3>1, <3>2
  <2>7. CASE side = "game" /\ mode = "enable"
    <3>1. MccpPatterns(side, mode) = <<Command("WILL", "MCCP2"), Start("MCCP2")>>
      BY <2>7 DEF MccpPatterns
    <3> HIDE DEF Pattern
    <3> QED BY <3>1, <2>1, <2>2, <2>4
  <2>8. CASE side = "client" /\ mode = "ignore"
    <3>1. MccpPatterns(side, mode) = <<>>
      BY <2>8 DEF MccpPatterns
    <3> HIDE DEF Pattern
    <3> QED BY <3>1, EmptySeq
  <2>9. CASE side = "client" /\ mode = "disable"
    <3>1. MccpPatterns(side, mode) = [i \in 1 .. 3 |-> Command("DO", Options[i])]
      BY <2>9 DEF MccpPatterns
    <3> HIDE DEF Pattern
    <3>2. \A i \in 1 .. 3 : Command("DO", Options[i]) \in Pattern
      BY <2>1, <2>3, <2>4
    <3> QED BY <3>1, <3>2
  <2>10. CASE side = "client" /\ mode = "enable"
    <3>1. MccpPatterns(side, mode) = <<Command("DO", "MCCP2"), Command("DONT", "MCCP2")>>
      BY <2>10 DEF MccpPatterns
    <3> HIDE DEF Pattern
    <3> QED BY <3>1, <2>1, <2>4
  <2> QED BY <2>5, <2>6, <2>7, <2>8, <2>9, <2>10
<1>3. Patterns(side, mode) \in Seq(Pattern)
  <2> DEFINE send == <<"IAC", "SB", "NEW_ENVIRON", "SEND">>
  <2> DEFINE own == IF side = "game"
         THEN <<send \o <<"IAC", "SE">>, send \o <<"NUL", "IAC", "SE">>,
                Command("DO", "NEW_ENVIRON")>>
         ELSE <<Command("WONT", "NEW_ENVIRON"),
                Command("WILL", "NEW_ENVIRON")>>
  <2>1. send \in Seq(Byte) /\ <<"IAC", "SE">> \in Seq(Byte)
        /\ <<"NUL", "IAC", "SE">> \in Seq(Byte)
    BY DEF Byte
  <2>2. \A rest \in Seq(Byte) : send \o rest \in Pattern
    <3> TAKE rest \in Seq(Byte)
    <3>1. send[1] = "IAC" /\ Len(send) = 4 /\ Len(rest) \in Nat
      BY LenProperties
    <3> HIDE DEF send, Byte
    <3>2. send \o rest \in Seq(Byte) /\ Len(send \o rest) = Len(send) + Len(rest)
      BY <2>1, ConcatProperties
    <3>3. 1 \in 1 .. Len(send) + Len(rest) /\ 1 <= Len(send)
      BY <3>1
    <3>4. (send \o rest)[1] = send[1]
      BY <2>1, <3>3, ConcatProperties
    <3>5. Len(send \o rest) >= 1 /\ (send \o rest)[1] = "IAC"
      BY <3>1, <3>2, <3>4
    <3> QED BY <3>2, <3>5, Zenon DEF Pattern
  <2>3. /\ Command("DO", "NEW_ENVIRON") \in Pattern
        /\ Command("WONT", "NEW_ENVIRON") \in Pattern
        /\ Command("WILL", "NEW_ENVIRON") \in Pattern
    BY DEF Command, Byte, Pattern
  <2>4. own \in Seq(Pattern)
    <3>1. send \o <<"IAC", "SE">> \in Pattern /\ send \o <<"NUL", "IAC", "SE">> \in Pattern
      <4> HIDE DEF send, Pattern
      <4> QED BY <2>1, <2>2
    <3> HIDE DEF send, Pattern
    <3> QED BY <2>3, <3>1
  <2>5. own \o MccpPatterns(side, mode) \in Seq(Pattern)
    <3> HIDE DEF own, Pattern
    <3> QED BY <1>2, <2>4, ConcatProperties
  <2>6. Patterns(side, mode) = own \o MccpPatterns(side, mode)
    BY Zenon DEF Patterns
  <2> QED BY <2>5, <2>6
<1>4. Alternatives = [i \in 1 .. Len(Patterns(side, mode)) |-> UpToNul(Patterns(side, mode)[i])]
  BY <1>1, <1>3, LenProperties DEF Alternatives, Compiled
<1>5. \A i \in 1 .. Len(Patterns(side, mode)) : UpToNul(Patterns(side, mode)[i]) \in Pattern
  BY <1>3, ElementOfSeq, UpToNulType
<1>6. Len(Patterns(side, mode)) \in Nat
  BY <1>3, LenProperties
<1> QED BY <1>4, <1>5, <1>6

-----------------------------------------------------------------------------
(* Where a pattern stands.                                                 *)

\* A pattern fits where its bytes stand.
LEMMA FitsAt ==
    ASSUME NEW p \in Seq(Byte), NEW q \in Seq(Byte), NEW i \in 1 .. Len(q)
    PROVE  Fits(p, q, i) <=> /\ Len(p) <= Len(q) - i + 1
                             /\ \A k \in 1 .. Len(p) : q[i + k - 1] = p[k]
<1> DEFINE rest == SubSeq(q, i, Len(q))
<1>1. Len(q) \in Nat /\ Len(p) \in Nat
  BY LenProperties
<1>2. \A j \in i .. Len(q) : q[j] \in Byte
  BY <1>1, ElementOfSeq
<1>3. /\ rest \in Seq(Byte)
      /\ Len(rest) = Len(q) - i + 1
      /\ \A k \in 1 .. Len(q) - i + 1 : rest[k] = q[i + k - 1]
  <2>1. i \in Int /\ Len(q) \in Int /\ i <= Len(q)
    BY <1>1
  <2> HIDE DEF Byte
  <2> QED BY <1>2, <2>1, SubSeqProperties
<1> HIDE DEF rest
<1>4. SubSeq(p, 1, Len(p)) = p
  BY SubSeqFull
<1>5. ASSUME Len(p) <= Len(rest)
      PROVE  /\ SubSeq(rest, 1, Len(p)) \in Seq(Byte)
             /\ Len(SubSeq(rest, 1, Len(p))) = Len(p)
             /\ \A k \in 1 .. Len(p) : SubSeq(rest, 1, Len(p))[k] = rest[k]
  <2>1. \A k \in 1 .. Len(p) : rest[k] \in Byte
    BY <1>1, <1>3, <1>5, ElementOfSeq
  <2> HIDE DEF Byte
  <2>2. /\ SubSeq(rest, 1, Len(p)) \in Seq(Byte)
        /\ Len(SubSeq(rest, 1, Len(p))) = IF 1 <= Len(p) THEN Len(p) - 1 + 1 ELSE 0
        /\ \A k \in 1 .. Len(p) - 1 + 1 : SubSeq(rest, 1, Len(p))[k] = rest[1 + k - 1]
    BY <1>1, <2>1, SubSeqProperties
  <2> QED BY <1>1, <2>2
<1>6. Fits(p, q, i) <=> Len(p) <= Len(rest) /\ p = SubSeq(rest, 1, Len(p))
  BY <1>4 DEF Fits, IsPrefix, rest
<1>7. ASSUME Len(p) <= Len(rest)
      PROVE  p = SubSeq(rest, 1, Len(p)) <=> \A k \in 1 .. Len(p) : p[k] = rest[k]
  <2>1. ASSUME p = SubSeq(rest, 1, Len(p)), NEW k \in 1 .. Len(p) PROVE p[k] = rest[k]
    BY <1>5, <1>7, <2>1
  <2>2. ASSUME \A k \in 1 .. Len(p) : p[k] = rest[k] PROVE p = SubSeq(rest, 1, Len(p))
    <3> HIDE DEF Byte
    <3> QED BY <1>5, <1>7, <2>2, SeqEqual
  <2> QED BY <2>1, <2>2
<1>8. Len(p) <= Len(rest) => \A k \in 1 .. Len(p) : rest[k] = q[i + k - 1]
  BY <1>1, <1>3
<1> QED BY <1>3, <1>6, <1>7, <1>8

\* The end of the input comes inside a pattern where the bytes that are there
\* are the beginning of it.
LEMMA ReachesAt ==
    ASSUME NEW p \in Seq(Byte), NEW q \in Seq(Byte), NEW i \in 1 .. Len(q)
    PROVE  ReachesEnd(p, q, i) <=>
             /\ Len(q) - i + 1 < Len(p)
             /\ \A k \in 1 .. Len(q) - i + 1 : q[i + k - 1] = p[k]
<1> DEFINE rest == SubSeq(q, i, Len(q))
<1>1. Len(q) \in Nat /\ Len(p) \in Nat
  BY LenProperties
<1>2. \A j \in i .. Len(q) : q[j] \in Byte
  BY <1>1, ElementOfSeq
<1>3. /\ rest \in Seq(Byte)
      /\ Len(rest) = Len(q) - i + 1
      /\ \A k \in 1 .. Len(q) - i + 1 : rest[k] = q[i + k - 1]
  <2>1. i \in Int /\ Len(q) \in Int /\ i <= Len(q)
    BY <1>1
  <2> HIDE DEF Byte
  <2> QED BY <1>2, <2>1, SubSeqProperties
<1> HIDE DEF rest
<1>4. SubSeq(rest, 1, Len(rest)) = rest
  BY <1>3, SubSeqFull
<1>5. ASSUME Len(rest) < Len(p)
      PROVE  /\ SubSeq(p, 1, Len(rest)) \in Seq(Byte)
             /\ Len(SubSeq(p, 1, Len(rest))) = Len(rest)
             /\ \A k \in 1 .. Len(rest) : SubSeq(p, 1, Len(rest))[k] = p[k]
  <2>1. \A k \in 1 .. Len(rest) : p[k] \in Byte
    BY <1>1, <1>3, <1>5, ElementOfSeq
  <2>2. Len(rest) \in Nat
    BY <1>1, <1>3
  <2> HIDE DEF Byte
  <2>3. /\ SubSeq(p, 1, Len(rest)) \in Seq(Byte)
        /\ Len(SubSeq(p, 1, Len(rest))) = IF 1 <= Len(rest) THEN Len(rest) - 1 + 1 ELSE 0
        /\ \A k \in 1 .. Len(rest) - 1 + 1 : SubSeq(p, 1, Len(rest))[k] = p[1 + k - 1]
    BY <2>2, <2>1, SubSeqProperties
  <2> QED BY <2>2, <2>3
<1>6. ReachesEnd(p, q, i) <=> Len(rest) < Len(p) /\ rest = SubSeq(p, 1, Len(rest))
  BY <1>1, <1>3, <1>4 DEF ReachesEnd, IsPrefix, rest
<1>7. ASSUME Len(rest) < Len(p)
      PROVE  rest = SubSeq(p, 1, Len(rest)) <=> \A k \in 1 .. Len(rest) : rest[k] = p[k]
  <2>1. ASSUME rest = SubSeq(p, 1, Len(rest)), NEW k \in 1 .. Len(rest) PROVE rest[k] = p[k]
    BY <1>5, <1>7, <2>1
  <2>2. ASSUME \A k \in 1 .. Len(rest) : rest[k] = p[k] PROVE rest = SubSeq(p, 1, Len(rest))
    <3> HIDE DEF Byte
    <3> QED BY <1>3, <1>5, <1>7, <2>2, SeqEqual
  <2> QED BY <2>1, <2>2
<1> QED BY <1>3, <1>6, <1>7

-----------------------------------------------------------------------------
(* What is in the buffer, and what is in the stream.                       *)

\* A pattern that fits in the buffer fits in the stream, and one that fits in
\* the stream fits in the buffer or reaches its end.
LEMMA Window ==
    ASSUME MatcherInv, NEW p \in Seq(Byte), NEW i \in 1 .. Len(buffer)
    PROVE  /\ Gone + i \in 1 .. Len(stream)
           /\ stream[Gone + i] = buffer[i]
           /\ Fits(p, buffer, i) => Fits(p, stream, Gone + i)
           /\ Fits(p, stream, Gone + i) =>
                Fits(p, buffer, i) \/ ReachesEnd(p, buffer, i)
<1>1. /\ Len(stream) \in Nat /\ Len(buffer) \in Nat /\ Len(p) \in Nat
      /\ read \in 0 .. Len(stream) /\ Len(buffer) <= read
      /\ stream \in Seq(Byte) /\ buffer \in Seq(Byte)
  BY LenProperties DEF MatcherInv
<1>2. Gone \in Nat /\ Gone + Len(buffer) = read
  BY <1>1 DEF Gone
<1>3. \A k \in 1 .. Len(buffer) : buffer[k] = stream[Gone + k]
  <2>1. \A j \in Gone + 1 .. read : stream[j] \in Byte
    BY <1>1, <1>2, ElementOfSeq
  <2>2. \A k \in 1 .. read - (Gone + 1) + 1 :
           SubSeq(stream, Gone + 1, read)[k] = stream[Gone + 1 + k - 1]
    <3>1. Gone + 1 \in Int /\ read \in Int
      BY <1>1, <1>2
    <3> HIDE DEF Byte, Gone
    <3> QED BY <2>1, <3>1, SubSeqProperties
  <2>3. buffer = SubSeq(stream, Gone + 1, read)
    BY DEF MatcherInv
  <2> HIDE DEF Gone
  <2> QED BY <1>1, <1>2, <2>2, <2>3
<1> HIDE DEF Gone
<1>4. Gone + i \in 1 .. Len(stream)
  BY <1>1, <1>2
<1>5. Fits(p, buffer, i) <=> /\ Len(p) <= Len(buffer) - i + 1
                             /\ \A k \in 1 .. Len(p) : buffer[i + k - 1] = p[k]
  BY <1>1, FitsAt
<1>6. ReachesEnd(p, buffer, i) <=>
             /\ Len(buffer) - i + 1 < Len(p)
             /\ \A k \in 1 .. Len(buffer) - i + 1 : buffer[i + k - 1] = p[k]
  BY <1>1, ReachesAt
<1>7. Fits(p, stream, Gone + i) <=>
             /\ Len(p) <= Len(stream) - (Gone + i) + 1
             /\ \A k \in 1 .. Len(p) : stream[(Gone + i) + k - 1] = p[k]
  BY <1>1, <1>4, FitsAt
<1>8. ASSUME NEW k \in Nat, i + k - 1 \in 1 .. Len(buffer)
      PROVE  buffer[i + k - 1] = stream[(Gone + i) + k - 1]
  BY <1>1, <1>2, <1>3, <1>8
<1>9. ASSUME Fits(p, buffer, i) PROVE Fits(p, stream, Gone + i)
  <2>1. \A k \in 1 .. Len(p) : i + k - 1 \in 1 .. Len(buffer) /\ k \in Nat
    BY <1>1, <1>5, <1>9
  <2>2. \A k \in 1 .. Len(p) : stream[(Gone + i) + k - 1] = p[k]
    BY <1>5, <1>8, <1>9, <2>1
  <2>3. Len(p) <= Len(stream) - (Gone + i) + 1
    BY <1>1, <1>2, <1>5, <1>9
  <2> QED BY <1>7, <2>2, <2>3
<1>10. ASSUME Fits(p, stream, Gone + i), ~Fits(p, buffer, i)
       PROVE  ReachesEnd(p, buffer, i)
  <2>1. \A k \in 1 .. Len(buffer) - i + 1 : i + k - 1 \in 1 .. Len(buffer) /\ k \in Nat
    BY <1>1
  <2>2. \A k \in 1 .. Len(p) : k <= Len(buffer) - i + 1 => buffer[i + k - 1] = p[k]
    <3> TAKE k \in 1 .. Len(p)
    <3> HAVE k <= Len(buffer) - i + 1
    <3>1. k \in 1 .. Len(buffer) - i + 1
      BY <1>1
    <3>2. stream[(Gone + i) + k - 1] = p[k]
      BY <1>7, <1>10
    <3> QED BY <1>8, <2>1, <3>1, <3>2
  <2>3. CASE Len(p) <= Len(buffer) - i + 1
    BY <1>1, <1>5, <1>10, <2>2, <2>3
  <2>4. CASE Len(buffer) - i + 1 < Len(p)
    BY <1>1, <1>6, <2>2, <2>4
  <2> QED BY <1>1, <2>3, <2>4
<1> QED BY <1>3, <1>4, <1>9, <1>10

\* A place with no match in the buffer is one with none in the stream.
LEMMA NoneHere ==
    ASSUME MatcherInv, NEW i \in 1 .. Len(buffer),
           \A f \in Found(buffer) : f[1] # i
    PROVE  Answer(Gone + i) = [pattern |-> 0, at |-> Gone + i, bytes |-> <<buffer[i]>>]
<1>1. Alternatives \in Seq(Pattern) /\ DOMAIN buffer = 1 .. Len(buffer)
  BY AlternativesType, LenProperties DEF MatcherInv
<1>2. ASSUME NEW a \in DOMAIN Alternatives PROVE ~Fits(Alternatives[a], stream, Gone + i)
  <2>1. Alternatives[a] \in Seq(Byte)
    <3> HIDE DEF Alternatives
    <3> QED BY <1>1, LenProperties, ElementOfSeq DEF Pattern
  <2>2. <<i, a>> \notin Found(buffer)
    OBVIOUS
  <2>3. ~(Fits(Alternatives[a], buffer, i) \/ ReachesEnd(Alternatives[a], buffer, i))
    BY <1>1, <2>2 DEF Found
  <2> QED BY <2>1, <2>3, Window
<1>3. {a \in DOMAIN Alternatives : Fits(Alternatives[a], stream, Gone + i)} = {}
  BY <1>2
<1>4. stream[Gone + i] = buffer[i]
  <2>1. <<>> \in Seq(Byte)
    BY EmptySeq
  <2> QED BY <2>1, Window
<1> QED BY <1>3, <1>4, Zenon DEF Answer

\* Where the first match of the buffer does not reach its end, that is what is
\* there in the stream: an earlier alternative that fits there would have been
\* found, too.
LEMMA MatchHere ==
    ASSUME MatcherInv, Found(buffer) # {}, NEW f, f = First(Found(buffer)),
           ~ReachesEnd(Alternatives[f[2]], buffer, f[1])
    PROVE  /\ f[1] \in 1 .. Len(buffer)
           /\ f[2] \in Nat
           /\ Alternatives[f[2]] \in Seq(Byte) /\ Len(Alternatives[f[2]]) >= 1
           /\ Len(Alternatives[f[2]]) <= Len(buffer) - f[1] + 1
           /\ Answer(Gone + f[1]) = Match(f)
           /\ \A g \in Found(buffer) : f[1] <= g[1]
<1>1. /\ Alternatives \in Seq(Pattern) /\ DOMAIN buffer = 1 .. Len(buffer)
      /\ buffer \in Seq(Byte) /\ Len(buffer) \in Nat
  BY AlternativesType, LenProperties DEF MatcherInv
<1>2. DOMAIN Alternatives = 1 .. Len(Alternatives) /\ Len(Alternatives) \in Nat
  BY <1>1, LenProperties
<1>3. \A a \in DOMAIN Alternatives :
         Alternatives[a] \in Seq(Byte) /\ Len(Alternatives[a]) >= 1
  <2> HIDE DEF Alternatives
  <2> QED BY <1>1, <1>2, ElementOfSeq DEF Pattern
<1>4. Found(buffer) \subseteq Nat \X Nat
  BY <1>1, <1>2 DEF Found
<1>5. /\ f \in Found(buffer)
      /\ \A g \in Found(buffer) : f[1] < g[1] \/ (f[1] = g[1] /\ f[2] <= g[2])
  BY <1>4, FirstOf
<1>6. /\ f[1] \in 1 .. Len(buffer) /\ f[2] \in DOMAIN Alternatives
      /\ Fits(Alternatives[f[2]], buffer, f[1])
  BY <1>1, <1>5 DEF Found
<1>7. /\ Alternatives[f[2]] \in Seq(Byte) /\ Len(Alternatives[f[2]]) >= 1
      /\ f[2] \in Nat
  BY <1>2, <1>3, <1>6
<1>8. Len(Alternatives[f[2]]) <= Len(buffer) - f[1] + 1
  BY <1>1, <1>6, <1>7, FitsAt
<1> DEFINE fitting == {a \in DOMAIN Alternatives : Fits(Alternatives[a], stream, Gone + f[1])}
<1>9. f[2] \in fitting
  BY <1>6, <1>7, Window
<1>10. ASSUME NEW b \in fitting PROVE f[2] <= b
  <2>1. Fits(Alternatives[b], buffer, f[1]) \/ ReachesEnd(Alternatives[b], buffer, f[1])
    BY <1>3, <1>6, Window
  <2>2. <<f[1], b>> \in Found(buffer)
    BY <1>1, <1>6, <2>1 DEF Found
  <2>3. f[1] < f[1] \/ f[2] <= b
    BY <1>5, <2>2
  <2> QED BY <1>6, <2>3
<1>11. fitting \subseteq Nat
  BY <1>2
<1>12. f[2] = CHOOSE b \in fitting : \A c \in fitting : b <= c
  <2> HIDE DEF fitting
  <2>1. \A b \in fitting : (\A c \in fitting : b <= c) => b = f[2]
    <3> TAKE b \in fitting
    <3> HAVE \A c \in fitting : b <= c
    <3>1. b <= f[2] /\ f[2] <= b /\ b \in Nat /\ f[2] \in Nat
      BY <1>9, <1>10, <1>11
    <3> QED BY <3>1
  <2> QED BY <1>9, <1>10, <2>1
<1>13. Answer(Gone + f[1]) = Match(f)
  <2> DEFINE a == CHOOSE b \in fitting : \A c \in fitting : b <= c
  <2>1. Answer(Gone + f[1]) =
          IF fitting = {} THEN [pattern |-> 0, at |-> Gone + f[1], bytes |-> <<stream[Gone + f[1]]>>]
          ELSE [pattern |-> a, at |-> Gone + f[1], bytes |-> Alternatives[a]]
    BY Zenon DEF Answer
  <2>2. f[2] = a
    BY <1>12
  <2> HIDE DEF fitting, a
  <2> QED BY <1>9, <2>1, <2>2 DEF Match
<1>14. \A g \in Found(buffer) : f[1] <= g[1]
  BY <1>4, <1>5, <1>6
<1> QED BY <1>6, <1>7, <1>8, <1>13, <1>14

-----------------------------------------------------------------------------
(* What has been found.                                                    *)

\* Pieces that begin where the ones before them end make one sequence of them.
LEMMA ParsesMore ==
    ASSUME NEW d \in Seq(Piece), NEW e \in Seq(Piece), Parses(d),
           \A k \in 1 .. Len(e) :
              e[k] = Answer(IF k = 1 THEN Reached(d, Len(d)) ELSE Reached(e, k - 1))
    PROVE  /\ Parses(d \o e)
           /\ Reached(d \o e, Len(d \o e)) =
                IF e = <<>> THEN Reached(d, Len(d)) ELSE Reached(e, Len(e))
<1> DEFINE q == d \o e
<1>1. Len(d) \in Nat /\ Len(e) \in Nat /\ DOMAIN d = 1 .. Len(d)
  BY LenProperties
<1>2. /\ q \in Seq(Piece) /\ Len(q) = Len(d) + Len(e)
      /\ \A i \in 1 .. Len(q) : q[i] = IF i <= Len(d) THEN d[i] ELSE e[i - Len(d)]
  <2> HIDE DEF Piece
  <2> QED BY ConcatProperties
<1>3. DOMAIN q = 1 .. Len(d) + Len(e)
  BY <1>2, LenProperties
<1> HIDE DEF q
<1>4. \A k \in 0 .. Len(d) : Reached(q, k) = Reached(d, k)
  BY <1>1, <1>2 DEF Reached
<1>5. \A k \in 1 .. Len(e) : Reached(q, Len(d) + k) = Reached(e, k)
  <2> TAKE k \in 1 .. Len(e)
  <2>1. Len(d) + k \in 1 .. Len(q) /\ ~(Len(d) + k <= Len(d)) /\ (Len(d) + k) - Len(d) = k
    BY <1>1, <1>2
  <2>2. q[Len(d) + k] = e[k]
    BY <1>2, <2>1
  <2>3. Len(d) + k # 0 /\ k # 0
    BY <1>1
  <2> QED BY <2>2, <2>3, Zenon DEF Reached
<1>6. ASSUME NEW k \in DOMAIN q PROVE q[k] = Answer(Reached(q, k - 1))
  <2>1. CASE k <= Len(d)
    <3>1. k \in 1 .. Len(d) /\ k - 1 \in 0 .. Len(d)
      BY <1>1, <1>3, <2>1
    <3>2. q[k] = d[k]
      BY <1>2, <1>3, <2>1
    <3>3. d[k] = Answer(Reached(d, k - 1))
      BY <1>1, <3>1 DEF Parses
    <3> QED BY <1>4, <3>1, <3>2, <3>3
  <2>2. CASE ~(k <= Len(d))
    <3>1. PICK j \in 1 .. Len(e) : k = Len(d) + j
      <4>1. k - Len(d) \in 1 .. Len(e) /\ k = Len(d) + (k - Len(d))
        BY <1>1, <1>3, <2>2
      <4> QED BY <4>1
    <3>2. q[k] = e[j]
      BY <1>1, <1>2, <1>3, <2>2, <3>1
    <3>3. CASE j = 1
      <4>1. k - 1 = Len(d) /\ Len(d) \in 0 .. Len(d)
        BY <1>1, <3>1, <3>3
      <4> QED BY <1>4, <3>2, <3>3, <4>1
    <3>4. CASE j # 1
      <4>1. k - 1 = Len(d) + (j - 1) /\ j - 1 \in 1 .. Len(e)
        BY <1>1, <3>1, <3>4
      <4>2. Reached(q, k - 1) = Reached(e, j - 1)
        BY <1>5, <4>1
      <4> QED BY <3>2, <3>4, <4>2
    <3> QED BY <3>3, <3>4
  <2> QED BY <2>1, <2>2
<1>7. e = <<>> => Len(q) = Len(d)
  <2>1. e = <<>> => Len(e) = 0
    BY EmptySeq
  <2> QED BY <1>1, <1>2, <2>1
<1>8. e # <<>> => Len(e) \in 1 .. Len(e)
  <2>1. e # <<>> => Len(e) # 0
    <3> HIDE DEF Piece
    <3> QED BY EmptySeq
  <2> QED BY <1>1, <2>1
<1>9. Len(d) \in 0 .. Len(d)
  BY <1>1
<1>10. Parses(q)
  BY <1>6 DEF Parses
<1>11. Reached(q, Len(q)) = IF e = <<>> THEN Reached(d, Len(d)) ELSE Reached(e, Len(e))
  BY <1>2, <1>4, <1>5, <1>7, <1>8, <1>9, Zenon
<1> QED BY <1>10, <1>11 DEF q

\* The bytes before the first match are what there is in the stream.
LEMMA PassedOver ==
    ASSUME MatcherInv, NEW n \in 0 .. Len(buffer),
           \A i \in 1 .. n : \A f \in Found(buffer) : f[1] # i
    PROVE  LET d == done \o NoMatch(n)
           IN  d \in Seq(Piece) /\ Parses(d) /\ Reached(d, Len(d)) = Gone + n + 1
<1> DEFINE e == NoMatch(n)
<1>1. /\ buffer \in Seq(Byte) /\ Len(buffer) \in Nat /\ Len(buffer) <= read /\ read \in Nat
      /\ done \in Seq(Piece)
  BY LenProperties DEF MatcherInv
<1>2. Gone \in Nat /\ n \in Nat
  BY <1>1 DEF Gone
<1>3. \A i \in 1 .. n : e[i] = [pattern |-> 0, at |-> Gone + i, bytes |-> <<buffer[i]>>]
  BY DEF NoMatch
<1>14. \A i \in 1 .. n : e[i].at = Gone + i /\ e[i].bytes = <<buffer[i]>>
  BY DEF NoMatch
<1>4. \A i \in 1 .. n : buffer[i] \in Byte
  BY <1>1, ElementOfSeq
<1>5. \A i \in 1 .. n : e[i] \in Piece
  <2> TAKE i \in 1 .. n
  <2>1. <<buffer[i]>> \in Seq(Byte)
    <3>1. buffer[i] \in Byte
      BY <1>4
    <3> HIDE DEF Byte
    <3> QED BY <3>1
  <2>2. Gone + i \in Nat
    <3> HIDE DEF Gone
    <3> QED BY <1>2
  <2>3. e[i] = [pattern |-> 0, at |-> Gone + i, bytes |-> <<buffer[i]>>]
    BY <1>3
  <2> HIDE DEF e, Gone
  <2>4. [pattern |-> 0, at |-> Gone + i, bytes |-> <<buffer[i]>>] \in Piece
    BY <2>1, <2>2 DEF Piece
  <2> QED BY <2>3, <2>4
<1>6. e \in Seq(Piece) /\ Len(e) = n
  <2>1. e = [i \in 1 .. n |-> e[i]]
    BY DEF NoMatch
  <2> HIDE DEF e, Piece
  <2>2. [i \in 1 .. n |-> e[i]] \in Seq(Piece)
    BY <1>2, <1>5, IsASeq
  <2>3. DOMAIN e = 1 .. n
    BY <2>1
  <2>4. e \in Seq(Piece)
    BY <2>1, <2>2, Zenon
  <2> QED BY <1>2, <2>3, <2>4, LenProperties
<1> HIDE DEF e
<1>7. \A i \in 1 .. n : e[i] = Answer(Gone + i)
  <2> TAKE i \in 1 .. n
  <2>1. i \in 1 .. Len(buffer)
    BY <1>1
  <2>2. Answer(Gone + i) = [pattern |-> 0, at |-> Gone + i, bytes |-> <<buffer[i]>>]
    BY <2>1, NoneHere
  <2> QED BY <1>3, <2>2, Zenon
<1>8. \A i \in 1 .. n : Reached(e, i) = Gone + i + 1
  <2> TAKE i \in 1 .. n
  <2>1. e[i].at = Gone + i /\ e[i].bytes = <<buffer[i]>>
    BY <1>14
  <2>2. Len(<<buffer[i]>>) = 1
    OBVIOUS
  <2> HIDE DEF Gone
  <2> QED BY <1>2, <2>1, <2>2 DEF Reached
<1>9. \A k \in 1 .. Len(e) :
         e[k] = Answer(IF k = 1 THEN Reached(done, Len(done)) ELSE Reached(e, k - 1))
  <2> TAKE k \in 1 .. Len(e)
  <2>1. CASE k = 1
    <3>1. Reached(done, Len(done)) = Gone + 1
      BY DEF MatcherInv
    <3> QED BY <1>6, <1>7, <2>1, <3>1
  <2>2. CASE k # 1
    <3>1. k - 1 \in 1 .. n /\ Gone + (k - 1) + 1 = Gone + k
      <4> HIDE DEF Gone
      <4> QED BY <1>2, <1>6, <2>2
    <3>2. Reached(e, k - 1) = Gone + k
      BY <1>8, <3>1
    <3> QED BY <1>6, <1>7, <2>2, <3>2
  <2> QED BY <2>1, <2>2
<1>10. Parses(done)
  BY DEF MatcherInv
<1>11. /\ Parses(done \o e)
       /\ Reached(done \o e, Len(done \o e)) =
            IF e = <<>> THEN Reached(done, Len(done)) ELSE Reached(e, Len(e))
  <2> HIDE DEF Piece
  <2> QED BY <1>1, <1>6, <1>9, <1>10, ParsesMore
<1>12. done \o e \in Seq(Piece)
  <2> HIDE DEF Piece
  <2> QED BY <1>1, <1>6, ConcatProperties
<1>13. Reached(done \o e, Len(done \o e)) = Gone + n + 1
  <2>1. CASE e = <<>>
    <3>1. n = 0
      BY <1>6, <2>1
    <3>2. Reached(done, Len(done)) = Gone + 1
      BY DEF MatcherInv
    <3> HIDE DEF Gone
    <3> QED BY <1>2, <1>11, <2>1, <3>1, <3>2
  <2>2. CASE e # <<>>
    <3>1. n # 0
      <4>1. Len(e) # 0
        <5> HIDE DEF Piece
        <5> QED BY <1>6, <2>2, EmptySeq
      <4> QED BY <1>6, <4>1
    <3>2. n \in 1 .. n
      BY <1>2, <3>1
    <3> QED BY <1>6, <1>8, <1>11, <2>2, <3>2
  <2> QED BY <2>1, <2>2
<1> QED BY <1>11, <1>12, <1>13 DEF e

-----------------------------------------------------------------------------
(* The steps.                                                              *)

\* What the stream says does not change.
LEMMA Same ==
    ASSUME UNCHANGED <<endpoint, stream>>
    PROVE  Parses(done)' <=> Parses(done')
<1>1. \A i : Answer(i)' = Answer(i)
  BY DEF Answer, Alternatives, Fits
<1> QED BY <1>1 DEF Parses, Reached

\* Nothing has been read, and nothing found.
LEMMA InitMatcher == Init => MatcherInv
<1> SUFFICES ASSUME Init PROVE MatcherInv
  OBVIOUS
<1>1. /\ <<>> \in Seq(Byte) /\ <<>> \in Seq(Piece) /\ Len(<<>>) = 0
  BY EmptySeq
<1>2. stream \in Seq(Byte) /\ Len(stream) \in Nat
  BY StreamsAssumption, LenProperties DEF Init
<1>3. Gone = 0
  <2>1. read = 0 /\ Len(buffer) = 0
    BY <1>1 DEF Init
  <2> QED BY <2>1 DEF Gone
<1>4. SubSeq(stream, Gone + 1, read) = <<>>
  BY <1>3, SubSeqEmpty DEF Init
<1>5. Reached(done, Len(done)) = 1
  BY <1>1 DEF Init, Reached
<1>6. Parses(done)
  BY DEF Init, Parses
<1> QED BY <1>1, <1>2, <1>3, <1>4, <1>5, <1>6 DEF Init, MatcherInv

\* A read moves bytes from the rest of the stream to the end of the buffer.
LEMMA ReadMatcher ==
    ASSUME MatcherInv, Read
    PROVE  MatcherInv'
<1>1. /\ Len(stream) \in Nat /\ Len(buffer) \in Nat
      /\ read \in 0 .. Len(stream) /\ Len(buffer) <= read
      /\ stream \in Seq(Byte) /\ buffer \in Seq(Byte)
  BY LenProperties DEF MatcherInv
<1>2. PICK n \in 1 .. Len(stream) - read :
         /\ read' = read + n
         /\ buffer' = buffer \o SubSeq(stream, read + 1, read + n)
  BY DEF Read
<1> DEFINE new == SubSeq(stream, read + 1, read + n)
<1>3. new \in Seq(Byte) /\ Len(new) = n
  <2>1. \A j \in read + 1 .. read + n : stream[j] \in Byte
    BY <1>1, ElementOfSeq
  <2>2. read + 1 \in Int /\ read + n \in Int /\ read + 1 <= read + n
    BY <1>1
  <2>3. (read + n) - (read + 1) + 1 = n
    BY <1>1
  <2> HIDE DEF Byte
  <2> QED BY <2>1, <2>2, <2>3, SubSeqProperties
<1>4. buffer' \in Seq(Byte) /\ Len(buffer') = Len(buffer) + n
  <2> HIDE DEF new, Byte
  <2>1. buffer' = buffer \o new
    BY <1>2 DEF new
  <2> QED BY <1>1, <1>3, <2>1, ConcatProperties
<1>5. Gone' = Gone /\ Gone \in Nat
  BY <1>1, <1>2, <1>4 DEF Gone
<1>6. buffer' = SubSeq(stream, Gone + 1, read + n)
  <2>1. /\ Gone + 1 \in 1 .. Len(stream) + 1
        /\ read \in (Gone + 1) - 1 .. Len(stream)
        /\ read + n \in read .. Len(stream)
    BY <1>1 DEF Gone
  <2>2. \A m \in 1 .. Len(stream) + 1 : \A k \in m - 1 .. Len(stream) : \A l \in k .. Len(stream) :
           SubSeq(stream, m, k) \o SubSeq(stream, k + 1, l) = SubSeq(stream, m, l)
    <3> HIDE DEF Byte
    <3> QED BY <1>1, ConcatAdjacentSubSeq
  <2>3. buffer = SubSeq(stream, Gone + 1, read)
    BY DEF MatcherInv
  <2>4. SubSeq(stream, Gone + 1, read) \o SubSeq(stream, read + 1, read + n)
          = SubSeq(stream, Gone + 1, read + n)
    BY <2>1, <2>2, Zenon
  <2> QED BY <1>2, <2>3, <2>4
<1>7. UNCHANGED <<endpoint, stream, done>>
  BY DEF Read
<1>8. Parses(done)'
  BY <1>7, Same DEF MatcherInv
<1>9. Reached(done, Len(done))' = Gone' + 1
  BY <1>5, <1>7 DEF MatcherInv, Reached
<1>10. read' \in 0 .. Len(stream') /\ Len(buffer') <= read'
  BY <1>1, <1>2, <1>4, <1>7
<1>11. buffer' = SubSeq(stream', Gone' + 1, read')
  BY <1>2, <1>5, <1>6, <1>7
<1> QED BY <1>4, <1>7, <1>8, <1>9, <1>10, <1>11 DEF MatcherInv

\* A buffer in which nothing is found is plain text of the whole stream too.
LEMMA NoMatchMatcher ==
    ASSUME MatcherInv, ScanNoMatch
    PROVE  MatcherInv'
<1> DEFINE d == done \o NoMatch(Len(buffer))
<1>1. /\ Len(stream) \in Nat /\ Len(buffer) \in Nat
      /\ read \in 0 .. Len(stream) /\ Len(buffer) <= read
  BY LenProperties DEF MatcherInv
<1>2. d \in Seq(Piece) /\ Parses(d) /\ Reached(d, Len(d)) = Gone + Len(buffer) + 1
  <2>1. Len(buffer) \in 0 .. Len(buffer)
    BY <1>1
  <2> QED BY <2>1, PassedOver DEF ScanNoMatch
<1> HIDE DEF d
<1>3. /\ UNCHANGED <<endpoint, stream, read>> /\ buffer' = <<>> /\ done' = d
  BY DEF ScanNoMatch, d
<1>4. <<>> \in Seq(Byte) /\ Len(<<>>) = 0
  BY EmptySeq
<1>5. Gone' = read /\ Gone + Len(buffer) = read
  BY <1>1, <1>3, <1>4 DEF Gone
<1>6. SubSeq(stream, read + 1, read) = <<>>
  BY <1>1, SubSeqEmpty
<1>7. Reached(done, Len(done))' = Gone' + 1
  <2>1. Reached(done, Len(done))' = Reached(d, Len(d))
    BY <1>3 DEF Reached
  <2> QED BY <1>2, <1>5, <2>1
<1>8. Parses(done)'
  BY <1>2, <1>3, Same
<1>9. read' \in 0 .. Len(stream') /\ Len(buffer') <= read'
  BY <1>1, <1>3, <1>4
<1>10. buffer' = SubSeq(stream', Gone' + 1, read')
  BY <1>3, <1>5, <1>6
<1> QED BY <1>2, <1>3, <1>4, <1>7, <1>8, <1>9, <1>10 DEF MatcherInv

\* What is found in the buffer is the next that is found in the whole stream.
LEMMA MatchMatcher ==
    ASSUME MatcherInv, ScanMatch
    PROVE  MatcherInv'
<1> DEFINE f == First(Found(buffer))
<1> DEFINE match == Alternatives[f[2]]
<1> DEFINE end == f[1] + Len(match)
<1> DEFINE d == done \o NoMatch(f[1] - 1)
<1>1. /\ Len(stream) \in Nat /\ Len(buffer) \in Nat
      /\ read \in 0 .. Len(stream) /\ Len(buffer) <= read
      /\ stream \in Seq(Byte) /\ buffer \in Seq(Byte)
  BY LenProperties DEF MatcherInv
<1>2. /\ Found(buffer) # {} /\ ~ReachesEnd(Alternatives[f[2]], buffer, f[1])
      /\ done' = done \o NoMatch(f[1] - 1) \o <<Match(f)>>
      /\ buffer' = SubSeq(buffer, end, Len(buffer))
      /\ UNCHANGED <<endpoint, stream, read>>
  BY DEF ScanMatch
<1> HIDE DEF f
<1>3. /\ f[1] \in 1 .. Len(buffer)
      /\ f[2] \in Nat
      /\ match \in Seq(Byte)
      /\ Len(match) <= Len(buffer) - f[1] + 1
      /\ Answer(Gone + f[1]) = Match(f)
      /\ \A g \in Found(buffer) : f[1] <= g[1]
  BY <1>2, MatchHere DEF f
<1> HIDE DEF match
<1>4. Len(match) \in Nat /\ Gone \in Nat /\ Gone + Len(buffer) = read /\ f[1] \in Nat
  BY <1>1, <1>3, LenProperties DEF Gone
<1>5. d \in Seq(Piece) /\ Parses(d) /\ Reached(d, Len(d)) = Gone + f[1]
  <2>1. f[1] - 1 \in 0 .. Len(buffer)
    BY <1>1, <1>3
  <2>2. \A i \in 1 .. f[1] - 1 : \A g \in Found(buffer) : g[1] # i
    <3> SUFFICES ASSUME NEW i \in 1 .. f[1] - 1, NEW g \in Found(buffer), g[1] = i
                 PROVE  FALSE
      OBVIOUS
    <3>1. f[1] <= i
      BY <1>3
    <3> QED BY <1>4, <3>1
  <2>3. d \in Seq(Piece) /\ Parses(d) /\ Reached(d, Len(d)) = Gone + (f[1] - 1) + 1
    BY <2>1, <2>2, PassedOver
  <2>4. Gone + (f[1] - 1) + 1 = Gone + f[1]
    <3> HIDE DEF Gone
    <3> QED BY <1>4
  <2> QED BY <2>3, <2>4
<1> HIDE DEF d
<1> DEFINE e == <<Match(f)>>
<1>6. /\ Match(f) = [pattern |-> f[2], at |-> Gone + f[1], bytes |-> match]
      /\ Match(f) \in Piece
  <2>1. Gone + f[1] \in Nat
    <3> HIDE DEF Gone
    <3> QED BY <1>4
  <2>2. Match(f) = [pattern |-> f[2], at |-> Gone + f[1], bytes |-> match]
    BY DEF Match, match
  <2> HIDE DEF Gone
  <2> QED BY <1>3, <2>1, <2>2 DEF Piece
<1>7. e \in Seq(Piece) /\ Len(e) = 1 /\ e[1] = Match(f) /\ e # <<>>
  <2> HIDE DEF Piece, Match
  <2> QED BY <1>6
<1> HIDE DEF e
<1>8. \A k \in 1 .. Len(e) :
        e[k] = Answer(IF k = 1 THEN Reached(d, Len(d)) ELSE Reached(e, k - 1))
  <2> TAKE k \in 1 .. Len(e)
  <2>1. k = 1
    BY <1>7
  <2> QED BY <1>3, <1>5, <1>7, <2>1
<1>9. Parses(d \o e) /\ Reached(d \o e, Len(d \o e)) = Reached(e, Len(e))
  <2> HIDE DEF Piece
  <2> QED BY <1>5, <1>7, <1>8, ParsesMore
<1>10. d \o e \in Seq(Piece)
  <2> HIDE DEF Piece
  <2> QED BY <1>5, <1>7, ConcatProperties
<1>11. Reached(e, Len(e)) = Gone + end
  <2>0. Match(f).at = Gone + f[1] /\ Match(f).bytes = match /\ 1 # 0
    BY <1>6
  <2>1. Reached(e, Len(e)) = (Gone + f[1]) + Len(match)
    BY <1>7, <2>0, Zenon DEF Reached
  <2> HIDE DEF Gone
  <2> QED BY <1>4, <2>1
<1>12. done' = d \o e
  BY <1>2 DEF d, e
<1>13. end \in 1 .. Len(buffer) + 1
  BY <1>1, <1>3, <1>4
<1>14. /\ buffer' \in Seq(Byte)
       /\ Len(buffer') = Len(buffer) - end + 1
  <2>1. \A j \in end .. Len(buffer) : buffer[j] \in Byte
    BY <1>1, <1>13, ElementOfSeq
  <2>2. end \in Int /\ Len(buffer) \in Int
    BY <1>1, <1>13
  <2> HIDE DEF Byte, end
  <2>3. /\ SubSeq(buffer, end, Len(buffer)) \in Seq(Byte)
        /\ Len(SubSeq(buffer, end, Len(buffer))) =
             IF end <= Len(buffer) THEN Len(buffer) - end + 1 ELSE 0
    BY <2>1, <2>2, SubSeqProperties
  <2> QED BY <1>1, <1>2, <1>13, <2>3
<1>15. Gone' + 1 = Gone + end
  <2>1. Gone' = read - Len(buffer') /\ Gone = read - Len(buffer)
    BY <1>2 DEF Gone
  <2> HIDE DEF end, Gone
  <2> QED BY <1>1, <1>13, <1>14, <2>1
<1>16. buffer' = SubSeq(stream, Gone + end, read)
  <2>1. CASE end = Len(buffer) + 1
    <3>1. SubSeq(buffer, end, Len(buffer)) = <<>>
      <4>1. end \in Int /\ Len(buffer) \in Int /\ Len(buffer) < end
        BY <1>1, <2>1
      <4> HIDE DEF end
      <4> QED BY <4>1, SubSeqEmpty
    <3>2. SubSeq(stream, Gone + end, read) = <<>>
      <4>1. Gone + end \in Int /\ read \in Int /\ read < Gone + end
        <5> HIDE DEF Gone, end
        <5> QED BY <1>1, <1>4, <2>1
      <4> HIDE DEF end, Gone
      <4> QED BY <4>1, SubSeqEmpty
    <3> QED BY <1>2, <3>1, <3>2
  <2>2. CASE end # Len(buffer) + 1
    <3>1. /\ Gone + 1 \in 1 .. Len(stream) /\ read \in 1 .. Len(stream)
          /\ end \in 1 .. read - (Gone + 1) + 1
          /\ Len(buffer) \in 1 .. read - (Gone + 1) + 1
          /\ (Gone + 1) + end - 1 = Gone + end
          /\ (Gone + 1) + Len(buffer) - 1 = read
      <4> HIDE DEF Gone, end
      <4> QED BY <1>1, <1>4, <1>13, <2>2
    <3>2. SubSeq(SubSeq(stream, Gone + 1, read), end, Len(buffer))
            = SubSeq(stream, (Gone + 1) + end - 1, (Gone + 1) + Len(buffer) - 1)
      <4>1. \A i, j \in 1 .. Len(stream) : \A m, n \in 1 .. j - i + 1 :
               SubSeq(SubSeq(stream, i, j), m, n) = SubSeq(stream, i + m - 1, i + n - 1)
        <5> HIDE DEF Byte
        <5> QED BY <1>1, SubSeqOfSubSeq
      <4> HIDE DEF Gone, end
      <4> QED BY <3>1, <4>1, Zenon
    <3>3. buffer = SubSeq(stream, Gone + 1, read)
      BY DEF MatcherInv
    <3> HIDE DEF Gone, end
    <3> QED BY <1>2, <3>1, <3>2, <3>3
  <2> QED BY <2>1, <2>2
<1>17. Parses(done)'
  BY <1>2, <1>9, <1>12, Same
<1>18. Reached(done, Len(done))' = Gone' + 1
  <2>1. Reached(done, Len(done))' = Reached(d \o e, Len(d \o e))
    BY <1>12 DEF Reached
  <2> QED BY <1>9, <1>11, <1>15, <2>1
<1>19. read' \in 0 .. Len(stream') /\ Len(buffer') <= read'
  BY <1>1, <1>2, <1>13, <1>14
<1>20. buffer' = SubSeq(stream', Gone' + 1, read')
  BY <1>2, <1>15, <1>16
<1>21. endpoint' \in Endpoints /\ stream' \in Seq(Byte)
  BY <1>2 DEF MatcherInv
<1> QED BY <1>10, <1>12, <1>14, <1>17, <1>18, <1>19, <1>20, <1>21 DEF MatcherInv

\* No step breaks the invariant.
LEMMA NextMatcher == MatcherInv /\ [Next]_vars => MatcherInv'
<1> SUFFICES ASSUME MatcherInv, [Next]_vars PROVE MatcherInv'
  OBVIOUS
<1>1. ASSUME UNCHANGED <<endpoint, stream, read, buffer, done>> PROVE MatcherInv'
  <2>1. Parses(done)'
    BY <1>1, Same DEF MatcherInv
  <2>2. Gone' = Gone /\ Reached(done, Len(done))' = Reached(done, Len(done))
    BY <1>1 DEF Gone, Reached
  <2> HIDE DEF Byte, Piece
  <2> QED BY <1>1, <2>1, <2>2 DEF MatcherInv
<1>2. CASE Read
  BY <1>2, ReadMatcher
<1>3. CASE ScanNoMatch
  BY <1>3, NoMatchMatcher
<1>4. CASE ScanMatch
  BY <1>4, MatchMatcher
<1>5. CASE ScanPartial \/ Finished \/ UNCHANGED vars
  BY <1>1, <1>5 DEF ScanPartial, Finished, vars
<1> QED BY <1>2, <1>3, <1>4, <1>5 DEF Next

\* The invariant always holds.
LEMMA MatcherAlways == Spec => []MatcherInv
BY InitMatcher, NextMatcher, PTL DEF Spec

\* However the stream is cut into reads, the loop finds what there is in it as
\* a whole (src/proxy.c, the matching loop; src/handlers.c, compile_patterns()).
THEOREM CutCorrect == Spec => []CutIndependent
<1>1. MatcherInv => CutIndependent
  BY DEF MatcherInv, CutIndependent
<1> QED BY <1>1, MatcherAlways, PTL

\* And there is only one thing to find: of two ways to parse a stream, however
\* far, one is the beginning of the other (src/proxy.c, the matching loop).
THEOREM ParseUnique ==
    ASSUME NEW d \in Seq(Piece), NEW e \in Seq(Piece), Parses(d), Parses(e)
    PROVE  \A k \in 1 .. Len(d) : k <= Len(e) => d[k] = e[k]
<1> DEFINE differ == {k \in 1 .. Len(d) : k <= Len(e) /\ d[k] # e[k]}
<1>1. /\ Len(d) \in Nat /\ Len(e) \in Nat
      /\ DOMAIN d = 1 .. Len(d) /\ DOMAIN e = 1 .. Len(e)
  BY LenProperties
<1>2. SUFFICES ASSUME differ # {} PROVE FALSE
  OBVIOUS
<1>3. PICK k \in differ : \A j \in differ : k <= j
  <2>1. differ \subseteq Nat
    BY <1>1
  <2> HIDE DEF differ
  <2> QED BY <1>2, <2>1, LeastOf
<1>4. k \in DOMAIN d /\ k \in DOMAIN e /\ d[k] # e[k]
  BY <1>1
<1>5. Reached(d, k - 1) = Reached(e, k - 1)
  <2>1. CASE k = 1
    BY <2>1 DEF Reached
  <2>2. CASE k # 1
    <3>1. k - 1 \in 1 .. Len(d) /\ k - 1 <= Len(e) /\ ~(k <= k - 1)
      BY <1>1, <1>4, <2>2
    <3>2. k - 1 \notin differ
      BY <1>3, <3>1
    <3>3. d[k - 1] = e[k - 1]
      BY <3>1, <3>2
    <3> QED BY <3>3 DEF Reached
  <2> QED BY <2>1, <2>2
<1> QED BY <1>4, <1>5 DEF Parses

-----------------------------------------------------------------------------
(* The loop ends.                                                          *)

\* A step of the matching loop is its last or leaves less in the buffer.
ScanDescends == scanning => ~scanning' \/ Len(buffer') < Len(buffer)

\* A match is not empty, and is popped with what stands before it.
LEMMA MatchShrinks == MatcherInv /\ ScanMatch => Len(buffer') < Len(buffer)
<1> SUFFICES ASSUME MatcherInv, ScanMatch PROVE Len(buffer') < Len(buffer)
  OBVIOUS
<1> DEFINE f == First(Found(buffer))
<1> DEFINE end == f[1] + Len(Alternatives[f[2]])
<1>1. Found(buffer) # {} /\ ~ReachesEnd(Alternatives[f[2]], buffer, f[1])
  BY DEF ScanMatch
<1>2. buffer' = SubSeq(buffer, end, Len(buffer))
  BY DEF ScanMatch
<1>3. /\ f[1] \in 1 .. Len(buffer)
      /\ Alternatives[f[2]] \in Seq(Byte) /\ Len(Alternatives[f[2]]) >= 1
      /\ Len(Alternatives[f[2]]) <= Len(buffer) - f[1] + 1
  <2> HIDE DEF f
  <2>1. f = First(Found(buffer))
    BY DEF f
  <2> QED BY <1>1, <2>1, MatchHere
<1>4. buffer \in Seq(Byte) /\ Len(buffer) \in Nat /\ Len(Alternatives[f[2]]) \in Nat
  BY <1>3, LenProperties DEF MatcherInv
<1> HIDE DEF f
<1>5. end \in 2 .. Len(buffer) + 1
  BY <1>3, <1>4
<1> HIDE DEF end
<1>6. \A j \in end .. Len(buffer) : buffer[j] \in Byte
  BY <1>4, <1>5, ElementOfSeq
<1>7. end \in Int /\ Len(buffer) \in Int
  BY <1>4, <1>5
<1>8. Len(buffer') = IF end <= Len(buffer) THEN Len(buffer) - end + 1 ELSE 0
  <2> HIDE DEF Byte
  <2> QED BY <1>2, <1>6, <1>7, SubSeqProperties
<1> QED BY <1>4, <1>5, <1>8

\* No pattern matches the empty sequence, not even the one a NUL cuts short:
\* the matching loop comes to an end, whatever the input
\* (src/proxy.c, the matching loop; src/handlers.c, compile_patterns()).
THEOREM ScanEnds == Spec => [][ScanDescends]_vars
<1>1. MatcherInv /\ [Next]_vars => [ScanDescends]_vars
  <2> SUFFICES ASSUME MatcherInv, [Next]_vars PROVE [ScanDescends]_vars
    OBVIOUS
  <2>1. CASE Read \/ ScanNoMatch \/ ScanPartial
    BY <2>1 DEF Read, ScanNoMatch, ScanPartial, ScanDescends
  <2>2. CASE ScanMatch
    BY <2>2, MatchShrinks DEF ScanDescends
  <2>3. CASE Finished \/ UNCHANGED vars
    BY <2>3 DEF Finished
  <2> QED BY <2>1, <2>2, <2>3 DEF Next
<1> QED BY <1>1, MatcherAlways, PTL DEF Spec
=============================================================================
