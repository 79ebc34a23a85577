---------------------------- MODULE Proxy_proofs ----------------------------
(***************************************************************************)
(* Proofs about what reaches the peers of a session: what MUDitM says,     *)
(* what it relays of the commands that it answers itself and of the game's *)
(* zlib stream, and that a session implements Relay.                       *)
(***************************************************************************)
EXTENDS ProxyOrder_proofs

-----------------------------------------------------------------------------
(* What a write is to the peer it reaches.                                 *)

\* The first elements of the data, each as the peer gets it
LEMMA PutGets ==
    ASSUME TypeInv, NEW s \in Side, NEW data \in Seq(Element),
           NEW k \in Takes(s, data), Put(s, data, k)
    PROVE  /\ k \in 0 .. Len(data)
           /\ \E x \in Seq(Element) :
                 /\ Len(x) = k
                 /\ sent' = [sent EXCEPT ![s] = sent[s] \o x]
                 /\ \A i \in 1 .. k : /\ i \in DOMAIN data
                                      /\ x[i].src = data[i].src
                                      /\ Got(x[i]) = Got(data[i])
                                      /\ IF Compressed(s) THEN x[i].enc \in Nat
                                         ELSE x[i] = data[i]
<1> DEFINE e == Encode(s, data)
           x == SubSeq(e, 1, k)
           l == Len(data)
<1>1. k \in 0 .. l /\ l \in Nat /\ DOMAIN data = 1 .. l
  BY TakesType, LenProperties
<1>2. e \in Seq(Element) /\ Len(e) = l
  BY EncodeType DEF TypeInv
<1>3. sent' = [sent EXCEPT ![s] = sent[s] \o x]
  BY DEF Put
<1>4. ASSUME NEW i \in 1 .. l
      PROVE  /\ e[i].src = data[i].src
             /\ Got(e[i]) = Got(data[i])
             /\ IF Compressed(s) THEN e[i].enc \in Nat ELSE e[i] = data[i]
  <2>1. CASE Compressed(s)
    <3>1. e[i] = [data[i] EXCEPT !.cell = IF data[i].enc = -1 THEN RawZlib
                                            ELSE data[i].cell,
                                  !.enc = deflate.gen, !.pos = deflate.pos + i]
      BY <1>1, <2>1 DEF Encode
    <3>2. data[i] \in Element
      BY <1>1, ElementOfSeq
    <3>3. deflate.gen \in Nat
      BY DEF TypeInv, OutType
    <3> HIDE DEF e
    <3>4. /\ e[i].src = data[i].src /\ e[i].enc = deflate.gen
          /\ e[i].cell = IF data[i].enc = -1 THEN RawZlib ELSE data[i].cell
      BY <3>1, <3>2 DEF Element
    <3>5. e[i].enc # -1
      BY <3>3, <3>4
    <3> QED BY <2>1, <3>3, <3>4, <3>5 DEF Got
  <2>2. CASE ~Compressed(s)
    BY <2>2 DEF Encode
  <2> QED BY <2>1, <2>2
<1> HIDE DEF e, l
<1>5. x \in Seq(Element) /\ Len(x) = k /\ \A i \in 1 .. k : x[i] = e[i]
  <2>1. k \in 0 .. Len(e)
    BY <1>1, <1>2
  <2>2. x \in Seq(Element) /\ Len(x) = k
    BY <1>2, <2>1, UpToType
  <2>3. \A i \in 1 .. k : x[i] = e[i]
    BY <1>1, <1>2, SubSeqProperties
  <2> QED BY <2>2, <2>3
<1> HIDE DEF x
<1>6. \A i \in 1 .. k : i \in 1 .. l
  BY <1>1
<1>7. \A i \in 1 .. k : /\ i \in DOMAIN data
                       /\ x[i].src = data[i].src
                       /\ Got(x[i]) = Got(data[i])
                       /\ IF Compressed(s) THEN x[i].enc \in Nat ELSE x[i] = data[i]
  BY <1>1, <1>4, <1>5, <1>6
<1>8. k \in 0 .. Len(data)
  BY <1>1 DEF l
<1> QED BY <1>3, <1>5, <1>7, <1>8

\* q is MUDitM's own, in cells of W.
Spoken(q, W) == \A i \in DOMAIN q : q[i].src = 0 /\ q[i].enc # -1 /\ q[i].cell \in W

\* What is MUDitM's own in q is in cells of W.
Voiced(q, W) == \A i \in DOMAIN q : q[i].src = 0 => q[i].enc # -1 /\ q[i].cell \in W

\* Written by MUDitM
LEMMA OwnSpoken ==
    ASSUME NEW W, NEW cells \in Seq(Cell), \A i \in DOMAIN cells : cells[i] \in W
    PROVE  Spoken(Own(cells), W) /\ Own(cells) \in Seq(Element)
<1>1. \A i \in DOMAIN cells :
         Own(cells)[i] = [cell |-> cells[i], src |-> 0, enc |-> 0, pos |-> 0]
  BY DEF Own
<1>2. DOMAIN Own(cells) = DOMAIN cells
  BY DEF Own
<1>3. 0 # -1
  OBVIOUS
<1> QED BY <1>1, <1>2, <1>3, OwnType DEF Spoken

\* One after the other, ...
LEMMA SpokenJoin ==
    ASSUME NEW W, NEW p \in Seq(Element), NEW q \in Seq(Element)
    PROVE  /\ Spoken(p, W) /\ Spoken(q, W) => Spoken(p \o q, W)
           /\ Voiced(p, W) /\ Voiced(q, W) => Voiced(p \o q, W)
<1> DEFINE w == p \o q
           m == Len(p)
           n == Len(q)
<1>1. /\ DOMAIN p = 1 .. m /\ DOMAIN q = 1 .. n
      /\ \A i \in DOMAIN w : \/ i \in 1 .. m /\ w[i] = p[i]
                             \/ i - m \in 1 .. n /\ w[i] = q[i - m]
  BY Joined
<1> HIDE DEF w, m, n
<1>2. /\ Spoken(p, W) /\ Spoken(q, W) => Spoken(w, W)
      /\ Voiced(p, W) /\ Voiced(q, W) => Voiced(w, W)
  BY <1>1 DEF Spoken, Voiced
<1> QED BY <1>2 DEF w

\* ... and a part
LEMMA SpokenPart ==
    ASSUME NEW W, NEW q \in Seq(Element), NEW k \in 0 .. Len(q), Spoken(q, W)
    PROVE  /\ SubSeq(q, 1, k) \in Seq(Element) /\ Spoken(SubSeq(q, 1, k), W)
           /\ After(q, k) \in Seq(Element) /\ Spoken(After(q, k), W)
<1> DEFINE p == SubSeq(q, 1, k)
           r == After(q, k)
<1>0. k \in Nat
  BY LenProperties
<1>1. p \in Seq(Element) /\ r \in Seq(Element) /\ p \o r = q
  BY <1>0, UpToType, AfterType, PartsJoin
<1> HIDE DEF p, r
<1>2. /\ DOMAIN p = 1 .. Len(p) /\ DOMAIN r = 1 .. Len(r)
      /\ \A i \in 1 .. Len(p) : i \in DOMAIN (p \o r) /\ (p \o r)[i] = p[i]
      /\ \A i \in 1 .. Len(r) : i + Len(p) \in DOMAIN (p \o r) /\ (p \o r)[i + Len(p)] = r[i]
  BY <1>1, Joined
<1>4. Spoken(p \o r, W)
  BY <1>1
<1> DEFINE w == p \o r
<1> HIDE DEF w
<1>3. Spoken(p, W) /\ Spoken(r, W)
  <2>1. Spoken(w, W)
    BY <1>4 DEF w
  <2>2. /\ \A i \in 1 .. Len(p) : i \in DOMAIN w /\ w[i] = p[i]
        /\ \A i \in 1 .. Len(r) : i + Len(p) \in DOMAIN w /\ w[i + Len(p)] = r[i]
    BY <1>2 DEF w
  <2>3. Spoken(p, W)
    BY <1>2, <2>1, <2>2 DEF Spoken
  <2>4. Spoken(r, W)
    BY <1>2, <2>1, <2>2 DEF Spoken
  <2> QED BY <2>3, <2>4
<1> QED BY <1>1, <1>3 DEF p, r

\* A larger vocabulary
LEMMA SpokenIn ==
    ASSUME NEW V, NEW W, V \subseteq W, NEW q
    PROVE  /\ Spoken(q, V) => Spoken(q, W) /\ Voiced(q, W)
           /\ Voiced(q, V) => Voiced(q, W)
BY DEF Spoken, Voiced

\* Flushing
LEMMA FlushSays ==
    ASSUME TypeInv, NEW s \in Side, NEW W, NEW cells \in Seq(Cell),
           \A i \in DOMAIN cells : cells[i] \in W,
           Spoken(outq[s], W), FlushQueue(s, cells)
    PROVE  /\ \E x \in Seq(Element) : sent'[s] = sent[s] \o x /\ Spoken(x, W)
           /\ Spoken(outq'[s], W)
           /\ \A t \in Side : t # s => sent'[t] = sent[t] /\ outq'[t] = outq[t]
<1> DEFINE data == outq[s] \o Own(cells)
<1>1. data \in Seq(Element) /\ Spoken(data, W)
  BY OwnSpoken, SpokenJoin, StreamType, QueueType DEF TypeInv
<1>2. PICK k \in Takes(s, data) :
        /\ Put(s, data, k)
        /\ outq' = [outq EXCEPT ![s] = IF Compressed(s) THEN data
                                      ELSE After(data, k)]
  BY DEF FlushQueue
<1> HIDE DEF data
<1>3. k \in 0 .. Len(data)
  BY <1>1, <1>2, PutGets
<1>4. PICK x \in Seq(Element) :
        /\ Len(x) = k
        /\ sent' = [sent EXCEPT ![s] = sent[s] \o x]
        /\ \A i \in 1 .. k : /\ i \in DOMAIN data
                             /\ x[i].src = data[i].src
                             /\ Got(x[i]) = Got(data[i])
                             /\ IF Compressed(s) THEN x[i].enc \in Nat ELSE x[i] = data[i]
  BY <1>1, <1>2, PutGets
<1>5. Spoken(x, W)
  <2>1. DOMAIN x = 1 .. k
    BY <1>4, LenProperties
  <2>2. ASSUME NEW i \in 1 .. k
        PROVE  x[i].src = 0 /\ x[i].enc # -1 /\ x[i].cell \in W
    <3>1. /\ data[i].src = 0 /\ data[i].enc # -1 /\ data[i].cell \in W
          /\ x[i].src = data[i].src /\ Got(x[i]) = Got(data[i])
      BY <1>1, <1>4 DEF Spoken
    <3>2. x[i].enc # -1
      <4>1. \A n \in Nat : n # -1
        OBVIOUS
      <4> QED BY <1>4, <3>1, <4>1
    <3>3. Got(x[i]).cell = x[i].cell /\ Got(data[i]).cell = data[i].cell
      BY <3>1, <3>2 DEF Got
    <3> QED BY <3>1, <3>2, <3>3
  <2> QED BY <2>1, <2>2 DEF Spoken
<1>6. Spoken(outq'[s], W)
  <2>1. outq'[s] = data \/ outq'[s] = After(data, k)
    BY <1>2 DEF TypeInv, OutType
  <2> QED BY <1>1, <1>3, <2>1, SpokenPart
<1> QED BY <1>2, <1>4, <1>5, <1>6 DEF TypeInv, OutType

-----------------------------------------------------------------------------
(* What MUDitM says.                                                       *)

\* What it may say to t, now: DO MCCP2 only if the game is to compress, and
\* WILL NEW-ENVIRON only once an answer for the client is known.
Voice(t) ==
    IF t = "client"
    THEN {IAC, <<"WILL", "MCCP2">>, <<"SB", "MCCP2">>} \cup ({"WONT"} \X MccpOption)
    ELSE {IAC, <<"PROXY_NAME", "">>, <<"IPADDRESS", "">>, Compression(TRUE),
          Compression(FALSE)}
         \cup ({"DONT"} \X MccpOption)
         \cup (IF mccp_mode["game"] = "enable" THEN {<<"DO", "MCCP2">>} ELSE {})
         \cup (IF mnes_state["client"] = "none" THEN {} ELSE {<<"WILL", "NEWENV">>})

VoiceInv == \A t \in Side : Spoken(outq[t], Voice(t)) /\ Voiced(sent[t], Voice(t))

\* The client's answer, once known, stays known.
LEMMA AnswerStays ==
    TypeInv /\ [Next]_vars /\ mnes_state["client"] # "none"
        => mnes_state'["client"] # "none"
BY DEF TypeInv, NegoType, Side, Next, Loop, Handler, Peer, Start, SetNonblocking, CheckFallback, Poll,
   PollTimeout, Read, ReadInflated, ReadCorrupt, ReadNothing, ReadError, ScanNoMatch,
   ScanPartial, ScanMatch, Forward, MnesRequest, MnesDoes, MnesClientWill,
   MnesClientWont, RespondDont, RespondDo, RespondWont, Respond, MccpIgnore, Mccp2Do,
   Mccp2DoFails, Mccp2Dont, Mccp2SbStart, Mccp2SbStartFails, InitFails,
   PollInterrupted, GameCompresses, GameEndsZlib, Send, HangUp, Tick, Terminated,
   vars, negoVars

\* What MUDitM may say it may go on saying.
LEMMA VoiceGrows == TypeInv /\ [Next]_vars => \A t \in Side : Voice(t) \subseteq Voice(t)'
BY AnswerStays, ModeStays DEF Voice

\* What a step that relays nothing does to the output
Speaks ==
    \A t \in Side :
        /\ \E x \in Seq(Element) : sent'[t] = sent[t] \o x /\ Spoken(x, Voice(t)')
        /\ Spoken(outq'[t], Voice(t)')

\* The steps that flush: each says only what it may.
LEMMA FlushSpeaks ==
    ASSUME TypeInv, VoiceInv, [Next]_vars, NEW s \in Side, NEW cells \in Seq(Cell),
           \A i \in DOMAIN cells : cells[i] \in Voice(s)', FlushQueue(s, cells)
    PROVE  Speaks
<1>1. \A t \in Side : Spoken(outq[t], Voice(t)')
  BY VoiceGrows, SpokenIn DEF VoiceInv
<1>2. /\ \E x \in Seq(Element) : sent'[s] = sent[s] \o x /\ Spoken(x, Voice(s)')
      /\ Spoken(outq'[s], Voice(s)')
      /\ \A t \in Side : t # s => sent'[t] = sent[t] /\ outq'[t] = outq[t]
  <2> DEFINE W == Voice(s)'
  <2>1. Spoken(outq[s], W) /\ \A i \in DOMAIN cells : cells[i] \in W
    BY <1>1
  <2> HIDE DEF W
  <2>2. /\ \E x \in Seq(Element) : sent'[s] = sent[s] \o x /\ Spoken(x, W)
        /\ Spoken(outq'[s], W)
        /\ \A t \in Side : t # s => sent'[t] = sent[t] /\ outq'[t] = outq[t]
    BY <2>1, FlushSays
  <2> QED BY <2>2 DEF W
<1>3. ASSUME NEW t \in Side, t # s
      PROVE  /\ \E x \in Seq(Element) : sent'[t] = sent[t] \o x /\ Spoken(x, Voice(t)')
             /\ Spoken(outq'[t], Voice(t)')
  <2>1. sent'[t] = sent[t] \o <<>> /\ <<>> \in Seq(Element)
    BY <1>2, <1>3, StreamType, Untouched
  <2>2. Spoken(<<>>, Voice(t)')
    BY EmptySeq, LenProperties DEF Spoken
  <2> QED BY <1>1, <1>2, <1>3, <2>1, <2>2
<1> QED BY <1>2, <1>3 DEF Speaks

\* So do those that say nothing.
LEMMA SilentSpeaks ==
    ASSUME TypeInv, VoiceInv, [Next]_vars, UNCHANGED <<sent, outq>>
    PROVE  Speaks
<1> SUFFICES ASSUME NEW t \in Side
             PROVE  /\ \E x \in Seq(Element) :
                          sent'[t] = sent[t] \o x /\ Spoken(x, Voice(t)')
                    /\ Spoken(outq'[t], Voice(t)')
  BY DEF Speaks
<1>1. sent'[t] = sent[t] \o <<>> /\ <<>> \in Seq(Element)
  BY StreamType, Untouched
<1>2. Spoken(<<>>, Voice(t)')
  BY EmptySeq, LenProperties DEF Spoken
<1>3. Spoken(outq'[t], Voice(t)')
  BY VoiceGrows, SpokenIn DEF VoiceInv
<1> QED BY <1>1, <1>2, <1>3

\* The cells of a command
LEMMA CommandCells ==
    ASSUME NEW verb \in Verb, NEW option \in Option, NEW W,
           IAC \in W, <<verb, option>> \in W
    PROVE  /\ Command(verb, option) \in Seq(Cell)
           /\ \A i \in DOMAIN Command(verb, option) : Command(verb, option)[i] \in W
<1>1. Command(verb, option) \in Seq(Cell) /\ Len(Command(verb, option)) = 2
  BY CommandType
<1>2. DOMAIN Command(verb, option) = 1 .. 2
  BY <1>1, LenProperties
<1>3. Command(verb, option)[1] = IAC /\ Command(verb, option)[2] = <<verb, option>>
  BY DEF Command
<1>4. \A i \in 1 .. 2 : i = 1 \/ i = 2
  OBVIOUS
<1> QED BY <1>1, <1>2, <1>3, <1>4

\* and of an answer to the game's request
LEMMA RequestCells ==
    LET cells == <<<<"PROXY_NAME", "">>, Compression(mccp_nego = "ACCEPTED")>> \o ReportVars
    IN  cells \in Seq(Cell) /\ \A i \in DOMAIN cells : cells[i] \in Voice("game")'
<1> DEFINE p == <<<<"PROXY_NAME", "">>, Compression(mccp_nego = "ACCEPTED")>>
           q == ReportVars
           V == Voice("game")'
<1>1. p \o q \in Seq(Cell) /\ q \in Seq(Cell)
  BY RequestType, ReportType
<1>2. <<"PROXY_NAME", "">> \in V /\ <<"IPADDRESS", "">> \in V
      /\ Compression(mccp_nego = "ACCEPTED") \in V
  <2>1. Compression(mccp_nego = "ACCEPTED") \in {Compression(TRUE), Compression(FALSE)}
    BY Zenon
  <2> QED BY <2>1 DEF Voice
<1>3. p \in Seq(Cell) /\ Len(p) = 2 /\ p[1] \in V /\ p[2] \in V
  <2>1. <<"PROXY_NAME", "">> \in Cell
    BY DEF Cell, Verb, Option
  <2>2. Compression(mccp_nego = "ACCEPTED") \in Cell
    BY CompressionType
  <2> HIDE DEF V
  <2> QED BY <1>2, <2>1, <2>2, Zenon, TwoType
<1>4. \A i \in 1 .. Len(q) : q[i] \in V
  <2>1. \A i \in 1 .. Len(q) : q[i] = <<"IPADDRESS", "">>
    <3> DEFINE S == {<<"IPADDRESS", "">>}
    <3>1. q \in Seq(S)
      BY CellsAssumption
    <3> HIDE DEF S, q
    <3>2. \A i \in 1 .. Len(q) : q[i] \in S
      BY <3>1, ElementOfSeq
    <3> QED BY <3>2 DEF S
  <2> HIDE DEF V, q
  <2> QED BY <1>2, <2>1
<1> HIDE DEF p, q, V
<1>5. \A i \in DOMAIN (p \o q) : \/ i \in 1 .. Len(p) /\ (p \o q)[i] = p[i]
                                 \/ /\ i - Len(p) \in 1 .. Len(q)
                                    /\ (p \o q)[i] = q[i - Len(p)]
  <2>1. p \in Seq(Cell) /\ q \in Seq(Cell)
    BY <1>1, <1>3
  <2> QED BY <2>1, Joined
<1>6. \A i \in 1 .. Len(p) : i = 1 \/ i = 2
  BY <1>3
<1>7. \A i \in DOMAIN (p \o q) : (p \o q)[i] \in V
  BY <1>3, <1>4, <1>5, <1>6
<1> QED BY <1>1, <1>7 DEF p, q, V

\* The steps that say something, one thing
LEMMA OneSpeaks ==
    ASSUME TypeInv, VoiceInv, [Next]_vars,
           \/ CheckFallback \/ MnesRequest \/ MnesClientWont
           \/ RespondDont \/ RespondDo \/ RespondWont \/ Mccp2Dont
    PROVE  Speaks
<1>1. CASE UNCHANGED outVars
  BY <1>1, SilentSpeaks DEF outVars
<1>2. CASE ~UNCHANGED outVars
  <2>0. \A t : IAC \in Voice(t)'
    BY DEF Voice
  <2>1. CASE CheckFallback \/ MnesClientWont
    <3>1. FlushQueue("game", Command("WILL", "NEWENV")) /\ mnes_state'["client"] # "none"
      BY <1>2, <2>1 DEF CheckFallback, MnesClientWont, Flush, outVars, TypeInv, NegoType,
         Side
    <3>2. <<"WILL", "NEWENV">> \in Voice("game")'
      BY <3>1 DEF Voice
    <3>3. /\ Command("WILL", "NEWENV") \in Seq(Cell)
          /\ \A i \in DOMAIN Command("WILL", "NEWENV") :
                Command("WILL", "NEWENV")[i] \in Voice("game")'
      BY <2>0, <3>2, CommandCells DEF Verb, Option
    <3> QED BY <3>1, <3>3, FlushSpeaks DEF Side
  <2>2. CASE MnesRequest
    BY <2>2, RequestCells, FlushSpeaks DEF MnesRequest, Flush, Side
  <2>3. CASE RespondDont \/ RespondDo \/ RespondWont
    <3>1. PICK s \in Side : s = Cur
      BY CurType
    <3> DEFINE o == Buffer[2].cell[2]
    <3>2. PICK verb \in {"DO", "DONT", "WONT"} :
            Respond(verb) /\ o \in MccpOption /\ <<verb, o>> \in Voice(s)
      <4>1. \A v, w : w \in {v} \X MccpOption => w[2] \in MccpOption
        OBVIOUS
      <4>2. CASE RespondDont
        <5>1. Respond("DONT") /\ s = "game" /\ Buffer[2].cell \in {"WILL"} \X MccpOption
          BY <3>1, <4>2 DEF RespondDont, Matched
        <5>2. o \in MccpOption
          BY <4>1, <5>1
        <5> HIDE DEF o
        <5>3. <<"DONT", o>> \in {"DONT"} \X MccpOption
          BY <5>2
        <5> QED BY <5>1, <5>2, <5>3 DEF Voice
      <4>3. CASE RespondWont
        <5>1. Respond("WONT") /\ s = "client" /\ Buffer[2].cell \in {"DO"} \X MccpOption
          BY <3>1, <4>3 DEF RespondWont, Matched
        <5>2. o \in MccpOption
          BY <4>1, <5>1
        <5> HIDE DEF o
        <5>3. <<"WONT", o>> \in {"WONT"} \X MccpOption
          BY <5>2
        <5> QED BY <5>1, <5>2, <5>3 DEF Voice
      <4>4. CASE RespondDo
        <5>1. /\ Respond("DO") /\ s = "game" /\ mccp_mode["game"] = "enable"
              /\ Buffer[2].cell = <<"WILL", "MCCP2">>
          BY <3>1, <4>4 DEF RespondDo, Matched
        <5>2. o = "MCCP2" /\ o \in MccpOption
          BY <5>1 DEF MccpOption
        <5> HIDE DEF o
        <5> QED BY <5>1, <5>2 DEF Voice
      <4> QED BY <2>3, <4>2, <4>3, <4>4
    <3>3. <<verb, o>> \in Voice(s)'
      BY <3>2, VoiceGrows
    <3>4. verb \in Verb /\ o \in Option
      BY <3>2 DEF Verb, MccpOption, Option
    <3> DEFINE c == Command(verb, o)
    <3>5. c \in Seq(Cell) /\ \A i \in DOMAIN c : c[i] \in Voice(s)'
      <4> DEFINE W == Voice(s)'
      <4>1. IAC \in W /\ <<verb, o>> \in W
        BY <2>0, <3>3
      <4> HIDE DEF o, W
      <4>2. c \in Seq(Cell) /\ \A i \in DOMAIN c : c[i] \in W
        BY <3>4, <4>1, CommandCells
      <4> QED BY <4>2 DEF W
    <3>6. FlushQueue(s, c)
      BY <3>1, <3>2 DEF Respond, Flush
    <3> HIDE DEF c
    <3> QED BY <3>5, <3>6, FlushSpeaks
  <2>4. CASE Mccp2Dont
    <3>1. <<Compression(FALSE)>> \in Seq(Cell) /\ Len(<<Compression(FALSE)>>) = 1
      BY CompressionType, Single
    <3>2. \A i \in DOMAIN <<Compression(FALSE)>> :
             <<Compression(FALSE)>>[i] \in Voice("game")'
      <4>1. Compression(FALSE) \in Voice("game")'
        BY DEF Voice
      <4>2. DOMAIN <<Compression(FALSE)>> = 1 .. 1
        BY <3>1, LenProperties
      <4>3. <<Compression(FALSE)>>[1] = Compression(FALSE) /\ \A i \in 1 .. 1 : i = 1
        OBVIOUS
      <4> QED BY <4>1, <4>2, <4>3
    <3> QED BY <2>4, <3>1, <3>2, FlushSpeaks DEF Mccp2Dont, Side
  <2> QED BY <2>1, <2>2, <2>3, <2>4
<1> QED BY <1>1, <1>2

\* The client's DO says two things.
LEMMA DoSpeaks ==
    ASSUME TypeInv, VoiceInv, [Next]_vars, Mccp2Do
    PROVE  Speaks
<1>1. CASE UNCHANGED outVars
  BY <1>1, SilentSpeaks DEF outVars
<1>2. CASE ~UNCHANGED outVars
  <2>1. PICK marker \in Seq(Element), news \in Seq(Element) :
          \E k \in Takes("client", marker), m \in Takes("game", news) :
            BothFlushed(marker, k, news, m)
    BY <1>2, DoType
  <2>2. PICK k \in Takes("client", marker), m \in Takes("game", news) :
          BothFlushed(marker, k, news, m)
    BY <2>1
  <2>3. k \in 0 .. Len(marker) /\ m \in 0 .. Len(news)
    BY TakesType
  <2> DEFINE V == Voice("client")'
             W == Voice("game")'
  <2>4. Spoken(marker, V)
    <3>1. marker = outq["client"] \o Own(Command("SB", "MCCP2"))
      BY <2>2 DEF BothFlushed
    <3>2. IAC \in V /\ <<"SB", "MCCP2">> \in V
      BY DEF Voice
    <3>3. outq["client"] \in Seq(Element) /\ Spoken(outq["client"], V)
      BY StreamType, VoiceGrows, SpokenIn DEF VoiceInv, Side
    <3> HIDE DEF V
    <3>4. /\ Command("SB", "MCCP2") \in Seq(Cell)
          /\ \A i \in DOMAIN Command("SB", "MCCP2") : Command("SB", "MCCP2")[i] \in V
      BY <3>2, CommandCells DEF Verb, Option
    <3> DEFINE own == Own(Command("SB", "MCCP2"))
    <3>5. Spoken(own, V) /\ own \in Seq(Element)
      BY <3>4, OwnSpoken
    <3> HIDE DEF own
    <3>6. Spoken(outq["client"] \o own, V)
      BY <3>3, <3>5, SpokenJoin
    <3> QED BY <3>1, <3>6 DEF own
  <2>5. Spoken(news, W)
    <3>1. news = outq["game"] \o Own(<<Compression(TRUE)>>)
      BY <2>2 DEF BothFlushed
    <3>2. Compression(TRUE) \in W
      BY DEF Voice
    <3>3. outq["game"] \in Seq(Element) /\ Spoken(outq["game"], W)
      BY StreamType, VoiceGrows, SpokenIn DEF VoiceInv, Side
    <3> HIDE DEF W
    <3>4. <<Compression(TRUE)>> \in Seq(Cell) /\ Len(<<Compression(TRUE)>>) = 1
      BY CompressionType, Single
    <3>5. DOMAIN <<Compression(TRUE)>> = 1 .. 1
      BY <3>4, LenProperties
    <3>6. <<Compression(TRUE)>>[1] = Compression(TRUE) /\ \A i \in 1 .. 1 : i = 1
      OBVIOUS
    <3> DEFINE own == Own(<<Compression(TRUE)>>)
    <3>7. Spoken(own, W) /\ own \in Seq(Element)
      BY <3>2, <3>4, <3>5, <3>6, OwnSpoken
    <3> HIDE DEF own
    <3>8. Spoken(outq["game"] \o own, W)
      BY <3>3, <3>7, SpokenJoin
    <3> QED BY <3>1, <3>8 DEF own
  <2>6. /\ sent' = [client |-> sent["client"] \o SubSeq(marker, 1, k),
                    game |-> sent["game"] \o SubSeq(news, 1, m)]
        /\ outq' = [client |-> After(marker, k), game |-> After(news, m)]
    BY <2>2 DEF BothFlushed
  <2> HIDE DEF V, W
  <2>7. /\ SubSeq(marker, 1, k) \in Seq(Element) /\ Spoken(SubSeq(marker, 1, k), V)
        /\ SubSeq(news, 1, m) \in Seq(Element) /\ Spoken(SubSeq(news, 1, m), W)
        /\ Spoken(After(marker, k), V) /\ Spoken(After(news, m), W)
    BY <2>3, <2>4, <2>5, SpokenPart
  <2>8. /\ sent'["client"] = sent["client"] \o SubSeq(marker, 1, k)
        /\ sent'["game"] = sent["game"] \o SubSeq(news, 1, m)
        /\ outq'["client"] = After(marker, k) /\ outq'["game"] = After(news, m)
    BY <2>6
  <2>9. /\ \E x \in Seq(Element) : sent'["client"] = sent["client"] \o x /\ Spoken(x, V)
        /\ Spoken(outq'["client"], V)
        /\ \E x \in Seq(Element) : sent'["game"] = sent["game"] \o x /\ Spoken(x, W)
        /\ Spoken(outq'["game"], W)
    BY <2>7, <2>8
  <2> QED BY <2>9 DEF Speaks, Side, V, W
<1> QED BY <1>1, <1>2

\* So does the beginning.
LEMMA StartSpeaks ==
    ASSUME TypeInv, VoiceInv, [Next]_vars, Start, \A s \in Side : sent[s] = <<>>
    PROVE  Speaks
<1> DEFINE V == Voice("client")'
           W == Voice("game")'
<1>1. <<>> \in Seq(Cell) /\ DOMAIN <<>> = {}
  BY EmptySeq, LenProperties
<1>2. PICK offer \in Seq(Cell) :
        sent'["client"] = Own(offer) /\ \A i \in DOMAIN offer : offer[i] \in V
  <2>1. sent'["client"] = Own(IF mccp_mode["client"] = "enable"
                              THEN Command("WILL", "MCCP2") ELSE <<>>)
    BY DEF Start
  <2>2. IAC \in V /\ <<"WILL", "MCCP2">> \in V
    BY DEF Voice
  <2> HIDE DEF V
  <2>3. /\ Command("WILL", "MCCP2") \in Seq(Cell)
        /\ \A i \in DOMAIN Command("WILL", "MCCP2") : Command("WILL", "MCCP2")[i] \in V
    BY <2>2, CommandCells DEF Verb, Option
  <2> QED BY <1>1, <2>1, <2>3
<1>3. PICK address \in Seq(Cell) :
        sent'["game"] = Own(address) /\ \A i \in DOMAIN address : address[i] \in W
  <2> DEFINE a == <<<<"IPADDRESS", "">>>>
  <2>1. sent'["game"] = Own(IF ImmediateIp THEN a ELSE <<>>)
    BY DEF Start
  <2>2. <<"IPADDRESS", "">> \in W /\ <<"IPADDRESS", "">> \in Cell
    BY DEF Voice, Cell, Verb, Option
  <2>3. a \in Seq(Cell) /\ Len(a) = 1 /\ a[1] = <<"IPADDRESS", "">>
    <3> HIDE DEF W
    <3> QED BY <2>2, Single
  <2> HIDE DEF a, W
  <2>4. DOMAIN a = 1 .. 1
    BY <2>3, LenProperties
  <2>5. \A i \in 1 .. 1 : i = 1
    OBVIOUS
  <2> QED BY <1>1, <2>1, <2>2, <2>3, <2>4, <2>5
<1> HIDE DEF V, W
<1>4. /\ Own(offer) \in Seq(Element) /\ Spoken(Own(offer), V)
      /\ Own(address) \in Seq(Element) /\ Spoken(Own(address), W)
  BY <1>2, <1>3, OwnSpoken
<1>5. /\ sent'["client"] = sent["client"] \o Own(offer)
      /\ sent'["game"] = sent["game"] \o Own(address)
  BY <1>2, <1>3, <1>4, ConcatEmptySeq DEF Side
<1>6. Spoken(outq'["client"], V) /\ Spoken(outq'["game"], W)
  BY VoiceGrows, SpokenIn DEF VoiceInv, Start, Side, V, W
<1>7. /\ \E x \in Seq(Element) : sent'["client"] = sent["client"] \o x /\ Spoken(x, V)
      /\ \E x \in Seq(Element) : sent'["game"] = sent["game"] \o x /\ Spoken(x, W)
  BY <1>4, <1>5
<1> QED BY <1>6, <1>7 DEF Speaks, Side, V, W

\* Every step but those that relay
LEMMA StepSpeaks ==
    ASSUME TypeInv, VoiceInv, QuietInv, [Next]_vars,
           ~(ScanNoMatch \/ ScanMatch \/ Forward \/ InitFails)
    PROVE  Speaks
<1>1. CASE UNCHANGED <<sent, outq>>
  BY <1>1, SilentSpeaks
<1>2. CASE \/ CheckFallback \/ MnesRequest \/ MnesClientWont
           \/ RespondDont \/ RespondDo \/ RespondWont \/ Mccp2Dont
  BY <1>2, OneSpeaks
<1>3. CASE Mccp2Do
  BY <1>3, DoSpeaks
<1>4. CASE Start
  <2>1. \A s \in Side : sent[s] = <<>>
    BY <1>4 DEF Start, QuietInv
  <2> QED BY <1>4, <2>1, StartSpeaks
<1> QED BY <1>1, <1>2, <1>3, <1>4 DEF Next, Loop, Handler, Peer, SetNonblocking, Poll,
   PollTimeout, Read, ReadInflated, ReadCorrupt, ReadNothing, ReadError, ScanPartial,
   MnesDoes, MnesClientWill, MccpIgnore, Mccp2DoFails, Mccp2SbStart,
   Mccp2SbStartFails, PollInterrupted, GameCompresses, GameEndsZlib, Send, HangUp,
   Tick, Terminated, vars, outVars

-----------------------------------------------------------------------------
(* What is relayed.                                                        *)

\* Command c of side s may be passed on, now: MUDitM has not answered it
\* itself, and has noted the client's answer to the game.
Passed(s, c) ==
    /\ c \notin MustSwallow[s]
    /\ s = "client" /\ c = <<"WILL", "NEWENV">> => mnes_state["client"] # "none"

\* What of q comes from side s and is a command that is looked for has been
\* passed on, with its IAC.
Clean(s, q) ==
    \A i \in DOMAIN q : q[i].src > 0 /\ q[i].enc # -1 /\ q[i].cell \in Watched(s) =>
        /\ Passed(s, q[i].cell)
        /\ i > 1 /\ q[i - 1].src = q[i].src - 1

\* The matching is on in a session that has begun, until the game's stream is
\* none of MUDitM's business.
ModeMatch ==
    pc # "init" => \A s \in Side : matching_enabled[s]
                                   \/ (s = "game" /\ mccp_mode["game"] = "ignore")

\* What a handler has returned 0 for may be passed on.
FwdInv == pc = "forward" => Passed(Cur, Buffer[2].cell)

\* The client does not compress.
PlainInv ==
    /\ \A i \in DOMAIN net["client"] : net["client"][i].enc = 0
    /\ \A i \in DOMAIN inb["client"] : inb["client"][i].enc = 0

\* Everything that has been written to a peer
SentInv ==
    zfails = 0 =>
        /\ VoiceInv
        /\ \A s \in Side : matching_enabled[s] => Clean(s, sent[Other(s)])
        /\ \A i \in DOMAIN sent["game"] : sent["game"][i].enc # -1

RelayInv == ModeMatch /\ FwdInv /\ PlainInv /\ SentInv

\* What may be passed on may be passed on later.
LEMMA PassedStays ==
    ASSUME TypeInv, [Next]_vars, NEW s \in Side, NEW c
    PROVE  Passed(s, c) => Passed(s, c)'
<1>1. MustSwallow' = MustSwallow
  BY ModeStays DEF MustSwallow
<1> QED BY <1>1, AnswerStays DEF Passed

\* Two clean streams
LEMMA CleanJoin ==
    ASSUME NEW s \in Side, NEW p \in Seq(Element), NEW q \in Seq(Element),
           Clean(s, p), Clean(s, q)
    PROVE  Clean(s, p \o q)
<1> DEFINE w == p \o q
           m == Len(p)
           n == Len(q)
<1>1. /\ m \in Nat /\ n \in Nat /\ DOMAIN p = 1 .. m /\ DOMAIN q = 1 .. n
      /\ \A i \in 1 .. m : w[i] = p[i]
      /\ \A i \in DOMAIN w : \/ i \in 1 .. m /\ w[i] = p[i]
                             \/ i \in Nat /\ i > m /\ i - m \in 1 .. n /\ w[i] = q[i - m]
      /\ \A i \in 1 .. n : w[i + m] = q[i]
  BY Joined
<1> HIDE DEF w, m, n
<1>2. ASSUME NEW i \in DOMAIN w, w[i].src > 0, w[i].enc # -1, w[i].cell \in Watched(s)
      PROVE  Passed(s, w[i].cell) /\ i > 1 /\ w[i - 1].src = w[i].src - 1
  <2>1. CASE i \in 1 .. m /\ w[i] = p[i]
    <3>1. Passed(s, p[i].cell) /\ i > 1 /\ p[i - 1].src = p[i].src - 1
      BY <1>1, <1>2, <2>1 DEF Clean
    <3>2. i - 1 \in 1 .. m
      BY <1>1, <2>1, <3>1
    <3> QED BY <1>1, <2>1, <3>1, <3>2
  <2>2. CASE i \in Nat /\ i > m /\ i - m \in 1 .. n /\ w[i] = q[i - m]
    <3> DEFINE j == i - m
    <3>1. Passed(s, q[j].cell) /\ j > 1 /\ q[j - 1].src = q[j].src - 1
      BY <1>1, <1>2, <2>2 DEF Clean
    <3>2. j - 1 \in 1 .. n /\ (j - 1) + m = i - 1 /\ i > 1
      <4>1. m \in Nat /\ n \in Nat /\ i \in Nat /\ i - m \in 1 .. n /\ i - m > 1
        BY <1>1, <2>2, <3>1
      <4> QED BY <4>1
    <3>3. w[i - 1] = q[j - 1]
      BY <1>1, <3>2
    <3> QED BY <2>2, <3>1, <3>2, <3>3
  <2> QED BY <1>1, <1>2, <2>1, <2>2
<1> QED BY <1>2 DEF Clean, w

\* A clean stream stays clean.
LEMMA CleanStays ==
    ASSUME TypeInv, [Next]_vars, NEW s \in Side, NEW q
    PROVE  Clean(s, q) => Clean(s, q)'
<1>1. \A c : Passed(s, c) => Passed(s, c)'
  BY PassedStays
<1>2. Watched(s)' = Watched(s)
  BY ModeStays, WatchedStays
<1> QED BY <1>1, <1>2 DEF Clean

\* Nothing of MUDitM's own is a relayed command.
LEMMA SpokenClean ==
    ASSUME NEW W, NEW s, NEW q, Spoken(q, W)
    PROVE  Clean(s, q)
<1>1. ~(0 > 0)
  OBVIOUS
<1> QED BY <1>1 DEF Spoken, Clean

\* The data of a relaying step
Relayable(s, data) ==
    \A i \in DOMAIN data : data[i].enc = 0 /\ data[i].cell \in Watched(s) =>
        /\ Passed(s, data[i].cell)
        /\ i > 1 /\ data[i - 1].src = data[i].src - 1

\* What is written across of it
LEMMA WriteClean ==
    ASSUME TypeInv, NEW s \in Side, NEW data \in Seq(Input),
           Write(Other(s), data)
    PROVE  \E x \in Seq(Element) :
              /\ sent' = [sent EXCEPT ![Other(s)] = sent[Other(s)] \o x]
              /\ \A i \in DOMAIN x : x[i].src > 0
              /\ Relayable(s, data) => Clean(s, x)
              /\ (\A i \in DOMAIN data : data[i].enc = 0) =>
                    \A i \in DOMAIN x : x[i].enc # -1 /\ x[i].cell # RawZlib
<1> DEFINE t == Other(s)
<1>1. t \in Side /\ data \in Seq(Element)
  BY StreamType, InputType
<1>2. PICK k \in Takes(t, data) : Put(t, data, k)
  BY DEF Write
<1> HIDE DEF t
<1>3. PICK x \in Seq(Element) :
        /\ Len(x) = k
        /\ sent' = [sent EXCEPT ![t] = sent[t] \o x]
        /\ \A i \in 1 .. k : /\ i \in DOMAIN data
                             /\ x[i].src = data[i].src
                             /\ Got(x[i]) = Got(data[i])
                             /\ IF Compressed(t) THEN x[i].enc \in Nat ELSE x[i] = data[i]
  BY <1>1, <1>2, PutGets
<1>4. k \in 0 .. Len(data) /\ Len(data) \in Nat
  BY <1>1, <1>2, TakesType, LenProperties
<1>5. DOMAIN x = 1 .. k
  BY <1>3, LenProperties
<1>6. \A i \in DOMAIN data : data[i] \in Input /\ data[i].enc \in {0, -1} /\ data[i].src > 0
  BY ElementOfSeq, LenProperties DEF Input
<1>7. ASSUME NEW i \in 1 .. k, x[i].enc # -1, x[i].cell # RawZlib
      PROVE  data[i].enc = 0 /\ data[i].cell = x[i].cell
  <2>1. Got(x[i]) = Got(data[i]) /\ i \in DOMAIN data
    BY <1>3
  <2>2. Got(x[i]).cell = x[i].cell
    BY <1>7 DEF Got
  <2>3. Got(data[i]).cell = IF data[i].enc = -1 THEN RawZlib ELSE data[i].cell
    BY DEF Got
  <2> QED BY <1>6, <1>7, <2>1, <2>2, <2>3
<1>8. RawZlib \notin Watched(s)
  <2>1. RawZlib \notin CommandCell
    BY DEF RawZlib, CommandCell
  <2> QED BY <2>1, WatchedCommand
<1>9. ASSUME Relayable(s, data),
             NEW i \in 1 .. k, x[i].enc # -1, x[i].cell \in Watched(s)
      PROVE  Passed(s, x[i].cell) /\ i > 1 /\ x[i - 1].src = x[i].src - 1
  <2>1. data[i].enc = 0 /\ data[i].cell = x[i].cell
    BY <1>7, <1>8, <1>9
  <2>2. i \in DOMAIN data /\ x[i].src = data[i].src
    BY <1>3
  <2>3. Passed(s, x[i].cell) /\ i > 1 /\ data[i - 1].src = data[i].src - 1
    BY <1>9, <2>1, <2>2 DEF Relayable
  <2>4. i - 1 \in 1 .. k
    BY <1>4, <2>3
  <2>5. x[i - 1].src = data[i - 1].src
    BY <1>3, <2>4
  <2> QED BY <2>2, <2>3, <2>5
<1>10. Relayable(s, data) => Clean(s, x)
  BY <1>5, <1>9 DEF Clean
<1>11. \A i \in DOMAIN x : x[i].src > 0
  BY <1>3, <1>5, <1>6
<1>12. ASSUME \A i \in DOMAIN data : data[i].enc = 0, NEW i \in 1 .. k
       PROVE  x[i].enc # -1 /\ x[i].cell # RawZlib
  <2>1. \A n \in Nat : n # -1
    OBVIOUS
  <2>2. x[i].enc # -1
    BY <1>3, <1>12, <2>1
  <2>3. i \in DOMAIN data /\ Got(x[i]) = Got(data[i]) /\ data[i].enc # -1
    BY <1>3, <1>12
  <2>4. x[i].cell = data[i].cell
    BY <2>2, <2>3 DEF Got
  <2>5. data[i].cell \in Cell
    <3>1. data[i] \in Input
      BY <2>3, <1>6
    <3> QED BY <3>1 DEF Input
  <2>6. RawZlib \notin Cell
    BY DEF RawZlib, Cell, Verb
  <2> QED BY <2>2, <2>4, <2>5, <2>6
<1> QED BY <1>3, <1>5, <1>10, <1>11, <1>12 DEF t

\* What the matching loop writes across
LEMMA ScanRelayable ==
    ASSUME TypeInv, ScanNoMatch \/ ScanMatch
    PROVE  \E data \in Seq(Input) :
              /\ Write(Other(Cur), data)
              /\ matching_enabled[Cur] /\ LedIn(Buffer) => Relayable(Cur, data)
              /\ \A i \in DOMAIN data : i \in DOMAIN Buffer /\ data[i] = Buffer[i]
              /\ data \o inb'[Cur] = Buffer
<1>1. Buffer \in Seq(Input) /\ Len(Buffer) \in Nat /\ DOMAIN Buffer = 1 .. Len(Buffer)
  BY BufferType, LenProperties
<1>2. ASSUME LedIn(Buffer), NEW i \in DOMAIN Buffer, Buffer[i].enc = 0,
             Buffer[i].cell \in Watched(Cur)
      PROVE  i > 1 /\ i - 1 \in DOMAIN Buffer /\ MatchAt(Cur, Buffer, i - 1)
  <2>1. IsCommand(Buffer[i])
    BY <1>2, CurType, WatchedCommand DEF IsCommand
  <2>2. i > 1 /\ Leads(Buffer[i - 1], Buffer[i])
    BY <1>2, <2>1 DEF LedIn
  <2>3. i - 1 \in DOMAIN Buffer /\ i - 1 < Len(Buffer) /\ (i - 1) + 1 = i
    BY <1>1, <2>2
  <2> QED BY <1>2, <2>2, <2>3 DEF MatchAt, IsIac, Leads
<1>3. CASE ScanNoMatch
  <2>1. Write(Other(Cur), Buffer) /\ Hits(Cur, Buffer) = {}
    BY <1>3 DEF ScanNoMatch
  <2>2. matching_enabled[Cur] => \A i \in DOMAIN Buffer : ~MatchAt(Cur, Buffer, i)
    BY <2>1 DEF Hits
  <2>3. matching_enabled[Cur] /\ LedIn(Buffer) => Relayable(Cur, Buffer)
    BY <1>2, <2>2 DEF Relayable
  <2>4. inb'[Cur] = <<>>
    BY <1>3, CurType DEF ScanNoMatch, TypeInv, InType
  <2>5. Buffer \o inb'[Cur] = Buffer
    BY <1>1, <2>4, ConcatEmptySeq
  <2> QED BY <1>1, <2>1, <2>3, <2>5
<1>4. CASE ScanMatch
  <2>1. PICK at \in 1 .. Len(Buffer) - 1 :
          /\ \A i \in DOMAIN Buffer :
                matching_enabled[Cur] /\ MatchAt(Cur, Buffer, i) => at <= i
          /\ Write(Other(Cur), SubSeq(Buffer, 1, at - 1))
          /\ inb'[Cur] = After(Buffer, at - 1)
    BY <1>4, ScanFinds
  <2> DEFINE k == at - 1
             data == SubSeq(Buffer, 1, k)
  <2>2. k \in 0 .. Len(Buffer) /\ k \in Nat
    BY <1>1, <2>1
  <2> HIDE DEF k
  <2>3. data \in Seq(Input) /\ Len(data) = k /\ data \o After(Buffer, k) = Buffer
    BY <1>1, <2>2, UpToType, PartsJoin
  <2>4. \A i \in 1 .. k : data[i] = Buffer[i]
    BY <1>1, <2>2, SubSeqProperties
  <2>5. DOMAIN data = 1 .. k /\ \A i \in 1 .. k : i \in DOMAIN Buffer
    BY <1>1, <2>2, <2>3, LenProperties
  <2> HIDE DEF data
  <2>6. ASSUME matching_enabled[Cur], LedIn(Buffer),
               NEW i \in 1 .. k, data[i].enc = 0, data[i].cell \in Watched(Cur)
        PROVE  FALSE
    <3>1. i > 1 /\ i - 1 \in DOMAIN Buffer /\ MatchAt(Cur, Buffer, i - 1)
      BY <1>2, <2>4, <2>5, <2>6
    <3>2. at <= i - 1
      BY <2>1, <2>6, <3>1
    <3> QED BY <2>1, <2>2, <3>2 DEF k
  <2>7. matching_enabled[Cur] /\ LedIn(Buffer) => Relayable(Cur, data)
    BY <2>5, <2>6 DEF Relayable
  <2>8. data \o inb'[Cur] = Buffer
    BY <2>1, <2>3 DEF k
  <2>9. Write(Other(Cur), data)
    BY <2>1 DEF data, k
  <2> QED BY <2>3, <2>4, <2>5, <2>7, <2>8, <2>9
<1> QED BY <1>3, <1>4

\* A match that is passed on
LEMMA ForwardRelayable ==
    ASSUME TypeInv, HeadCommand, FwdInv, Forward
    PROVE  \E data \in Seq(Input) :
              /\ Write(Other(Cur), data)
              /\ LedIn(Buffer) => Relayable(Cur, data)
              /\ \A i \in DOMAIN data : i \in DOMAIN Buffer /\ data[i] = Buffer[i]
              /\ data \o inb'[Cur] = Buffer
<1>1. Buffer \in Seq(Input) /\ Len(Buffer) \in Nat /\ DOMAIN Buffer = 1 .. Len(Buffer)
  BY BufferType, LenProperties
<1>2. 2 \in 0 .. Len(Buffer) /\ Len(Buffer) >= 2
  BY <1>1 DEF Forward, TypeInv, HeadInv, Buffer
<1> DEFINE data == SubSeq(Buffer, 1, 2)
<1>3. data \in Seq(Input) /\ Len(data) = 2
  BY <1>1, <1>2, UpToType
<1>4. \A i \in 1 .. 2 : data[i] = Buffer[i]
  BY <1>1, <1>2, SubSeqProperties
<1>5. DOMAIN data = 1 .. 2 /\ \A i \in 1 .. 2 : i \in DOMAIN Buffer
  BY <1>1, <1>2, <1>3, LenProperties
<1>6. Write(Other(Cur), data)
  BY DEF Forward
<1>13. data \o inb'[Cur] = Buffer
  <2>1. data \o After(Buffer, 2) = Buffer
    BY <1>1, <1>2, PartsJoin
  <2>2. inb'[Cur] = After(Buffer, 2)
    BY CurType DEF Forward, Pop, Buffer, TypeInv, InType
  <2> QED BY <2>1, <2>2
<1> HIDE DEF data
<1>7. /\ pc = "forward" /\ IsIac(Buffer, 1) /\ Passed(Cur, Buffer[2].cell)
      /\ Buffer[2].enc = 0 /\ Buffer[2].cell \in Watched(Cur)
  BY DEF Forward, HeadCommand, FwdInv
<1>8. LedIn(Buffer) => Leads(Buffer[1], Buffer[2])
  <2>1. IsCommand(Buffer[2]) /\ 2 \in DOMAIN Buffer
    BY <1>5, <1>7, CurType, WatchedCommand DEF IsCommand
  <2> QED BY <1>7, <2>1 DEF LedIn
<1>9. Buffer[1].cell \notin Watched(Cur)
  BY <1>7, CurType, WatchedCommand, IacNoCommand DEF IsIac, IsCommand
<1>10. LedIn(Buffer) => Buffer[1].src = Buffer[2].src - 1
  <2>1. Buffer[1] \in Input
    BY <1>1, <1>2, ElementOfSeq
  <2>2. Buffer[1].src \in Nat
    BY <2>1 DEF Input, Element
  <2> QED BY <1>8, <2>2 DEF Leads
<1>11. \A i \in 1 .. 2 : i = 1 \/ (i = 2 /\ i > 1 /\ i - 1 = 1)
  OBVIOUS
<1>12. LedIn(Buffer) => Relayable(Cur, data)
  <2>1. data[1] = Buffer[1] /\ data[2] = Buffer[2]
    BY <1>4
  <2> QED BY <1>5, <1>7, <1>9, <1>10, <1>11, <2>1 DEF Relayable
<1> QED BY <1>3, <1>4, <1>5, <1>6, <1>12, <1>13

\* What is left when k elements have been popped
LEMMA AfterPart ==
    ASSUME NEW S, NEW q \in Seq(S), NEW k \in Nat
    PROVE  \A i \in DOMAIN After(q, k) : i + k \in DOMAIN q /\ After(q, k)[i] = q[i + k]
<1> DEFINE r == After(q, k)
           l == Len(q)
<1>1. /\ r \in Seq(S) /\ l \in Nat /\ DOMAIN q = 1 .. l
      /\ Len(r) = IF k <= l THEN l - k ELSE 0
  BY AfterType, LenProperties
<1>2. DOMAIN r = 1 .. Len(r)
  BY <1>1, LenProperties
<1>3. CASE k <= l
  <2> DEFINE p == SubSeq(q, 1, k)
  <2>1. k \in 0 .. l
    BY <1>1, <1>3
  <2>2. p \in Seq(S) /\ Len(p) = k /\ p \o r = q
    BY <2>1, UpToType, PartsJoin
  <2> HIDE DEF p, r, l
  <2>3. \A i \in 1 .. Len(r) : /\ i + Len(p) \in DOMAIN (p \o r)
                               /\ (p \o r)[i + Len(p)] = r[i]
    <3>1. p \in Seq(S) /\ r \in Seq(S)
      BY <1>1, <2>2
    <3> QED BY <3>1, Joined
  <2> QED BY <1>2, <2>2, <2>3 DEF r
<1>4. CASE ~(k <= l)
  <2> HIDE DEF r, l
  <2>1. Len(r) = 0
    BY <1>1, <1>4
  <2>2. \A i \in 1 .. 0 : FALSE
    OBVIOUS
  <2> QED BY <1>2, <2>1, <2>2 DEF r
<1> QED BY <1>3, <1>4

\* A step that is not a read takes something off an input buffer, or nothing.
LEMMA TakesOff ==
    ASSUME TypeInv, [Next]_vars, ~(Read \/ ReadInflated)
    PROVE  \A s \in Side : \E k \in Nat : inb'[s] = After(inb[s], k)
<1> SUFFICES ASSUME NEW s \in Side
             PROVE  \E k \in Nat : inb'[s] = After(inb[s], k)
  OBVIOUS
<1>1. inb[s] \in Seq(Element) /\ Cur \in Side
  BY StreamType, CurType
<1>2. CASE UNCHANGED inb
  BY <1>1, <1>2, Untouched
<1>3. ASSUME NEW k \in Nat, inb' = [inb EXCEPT ![Cur] = After(inb[Cur], k)]
      PROVE  \E n \in Nat : inb'[s] = After(inb[s], n)
  <2>1. CASE s = Cur
    BY <1>3, <2>1 DEF TypeInv, InType
  <2>2. CASE s # Cur
    <3>1. inb'[s] = inb[s]
      BY <1>1, <1>3, <2>2 DEF TypeInv, InType
    <3> QED BY <1>1, <3>1, Untouched
  <2> QED BY <2>1, <2>2
<1>4. CASE ScanNoMatch
  <2> DEFINE l == Len(inb[Cur])
  <2>1. l \in Nat /\ After(inb[Cur], l) = <<>>
    BY <1>1, StreamType, LenProperties, SubSeqEmpty DEF After
  <2>2. inb' = [inb EXCEPT ![Cur] = <<>>]
    BY <1>4 DEF ScanNoMatch
  <2> HIDE DEF l
  <2> QED BY <1>3, <2>1, <2>2
<1>5. CASE ScanMatch
  <2>1. PICK at \in 1 .. Len(Buffer) - 1 : inb' = [inb EXCEPT ![Cur] = After(Buffer, at - 1)]
    BY <1>5, ScanFinds
  <2>2. at - 1 \in Nat
    BY <2>1, BufferType
  <2> QED BY <1>3, <2>1, <2>2 DEF Buffer
<1>6. CASE Pop(2) \/ Pop(4)
  <2>1. \E k \in {2, 4} : inb' = [inb EXCEPT ![Cur] = After(inb[Cur], k)]
    BY <1>6 DEF Pop
  <2> QED BY <1>3, <2>1
<1>7. UNCHANGED inb \/ ScanNoMatch \/ ScanMatch \/ Pop(2) \/ Pop(4)
  BY DEF Next, Loop, Handler, Peer, Start, SetNonblocking, CheckFallback, Poll,
     PollTimeout, ReadCorrupt, ReadNothing, ReadError, ScanPartial, Forward,
     MnesRequest, MnesDoes, MnesClientWill, MnesClientWont, RespondDont, RespondDo,
     RespondWont, Respond, MccpIgnore, Mccp2Do, Mccp2DoFails, Mccp2Dont, Mccp2SbStart,
     Mccp2SbStartFails, InitFails, PollInterrupted, GameCompresses, GameEndsZlib, Send,
     HangUp, Tick, Terminated, vars, Handled, NotHandled
<1> QED BY <1>2, <1>4, <1>5, <1>6, <1>7

\* All of q is telnet.
Plain(q) == \A i \in DOMAIN q : q[i].enc = 0

\* So are the parts of what is.
LEMMA PlainParts ==
    ASSUME NEW p \in Seq(Element), NEW q \in Seq(Element)
    PROVE  Plain(p \o q) <=> Plain(p) /\ Plain(q)
<1> DEFINE w == p \o q
           m == Len(p)
           n == Len(q)
<1>1. /\ DOMAIN p = 1 .. m /\ DOMAIN q = 1 .. n
      /\ \A i \in 1 .. m : i \in DOMAIN w /\ w[i] = p[i]
      /\ \A i \in 1 .. n : i + m \in DOMAIN w /\ w[i + m] = q[i]
      /\ \A i \in DOMAIN w : \/ i \in 1 .. m /\ w[i] = p[i]
                             \/ i - m \in 1 .. n /\ w[i] = q[i - m]
  BY Joined
<1> HIDE DEF w, m, n
<1>2. Plain(w) => Plain(p) /\ Plain(q)
  BY <1>1 DEF Plain
<1>3. Plain(p) /\ Plain(q) => Plain(w)
  BY <1>1 DEF Plain
<1> QED BY <1>2, <1>3 DEF w

\* ... nor in what is left of it.
LEMMA PlainAfter ==
    ASSUME NEW q \in Seq(Element), NEW k \in Nat, Plain(q)
    PROVE  Plain(After(q, k))
BY AfterPart DEF Plain

\* The client does not compress.
LEMMA PlainNext == TypeInv /\ OrderInv /\ PlainInv /\ [Next]_vars => PlainInv'
<1> SUFFICES ASSUME TypeInv, OrderInv, PlainInv, [Next]_vars PROVE PlainInv'
  OBVIOUS
<1>0. /\ net["client"] \in Seq(Element) /\ inb["client"] \in Seq(Element)
      /\ Plain(net["client"]) /\ Plain(inb["client"])
      /\ Arriving("client") = net["client"] /\ Arriving("client")' = net'["client"]
  <2>1. net["client"] \in Seq(Element) /\ inb["client"] \in Seq(Element)
    BY StreamType DEF Side
  <2>2. Arriving("client") = <<>> \o net["client"]
    BY DEF Arriving, Decoding
  <2>3. net'["client"] \in Seq(Element) /\ Arriving("client")' = <<>> \o net'["client"]
    <3>1. TypeInv'
      BY TypeNext
    <3>2. net'["client"] \in Seq(Input)
      BY <3>1 DEF TypeInv, PeerType, Side
    <3> QED BY <3>2, InputType DEF Arriving, Decoding
  <2> QED BY <2>1, <2>2, <2>3, ConcatEmptySeq DEF PlainInv, Plain
<1>1. CASE Read
  <2>1. CASE Cur = "client"
    <3>1. PICK x \in Seq(Input) : /\ net["client"] = x \o net'["client"]
                                  /\ inb'["client"] = inb["client"] \o x
      <4>1. Cur' = Cur
        BY <1>1 DEF Read, Cur
      <4> QED BY <1>0, <1>1, <2>1, <4>1, ArriveRead
    <3>2. x \in Seq(Element) /\ net'["client"] \in Seq(Element)
      <4>1. Arriving(Cur)' \in Seq(Input) /\ Cur' = Cur
        BY <1>1, ArriveRead DEF Read, Cur
      <4>2. net'["client"] \in Seq(Input)
        BY <1>0, <2>1, <4>1
      <4> QED BY <3>1, <4>2, InputType
    <3>3. Plain(x) /\ Plain(net'["client"])
      BY <1>0, <3>1, <3>2, PlainParts
    <3>4. Plain(inb'["client"])
      BY <1>0, <3>1, <3>2, <3>3, PlainParts
    <3> QED BY <3>3, <3>4 DEF PlainInv, Plain
  <2>2. CASE Cur # "client"
    <3>1. Arriving("client")' = Arriving("client") /\ inb'["client"] = inb["client"]
      BY <1>1, <2>2, ArriveRead DEF Side
    <3> QED BY <1>0, <3>1 DEF PlainInv
  <2> QED BY <2>1, <2>2
<1>2. CASE ReadInflated
  <2>1. Arriving("client")' = Arriving("client") /\ inb'["client"] = inb["client"]
    BY <1>2, ArriveInflate
  <2> QED BY <1>0, <2>1 DEF PlainInv
<1>3. CASE ~(Read \/ ReadInflated)
  <2>1. Plain(inb'["client"])
    <3>1. PICK k \in Nat : inb'["client"] = After(inb["client"], k)
      BY <1>3, TakesOff DEF Side
    <3> QED BY <1>0, <3>1, PlainAfter
  <2>2. Plain(net'["client"])
    <3>1. CASE Sends("client")
      <4>1. PICK m \in Seq(Cell), zipped \in BOOLEAN :
              /\ net' = [net EXCEPT !["client"] =
                            net["client"] \o Fresh(m, stamp["client"], zipped, gz.pos)]
              /\ Zips("client", m, zipped)
        BY <3>1, SendsFresh DEF Side
      <4> DEFINE new == Fresh(m, stamp["client"], zipped, gz.pos)
      <4>2. ~zipped
        BY <4>1 DEF Zips
      <4>3. Plain(new)
        BY <4>2 DEF Fresh, Plain
      <4>4. new \in Seq(Element)
        BY <4>1, FreshType, InputType DEF TypeInv, PeerType, Side
      <4>5. net'["client"] = net["client"] \o new
        BY <4>1 DEF TypeInv, PeerType, Side
      <4> HIDE DEF new
      <4> QED BY <1>0, <4>3, <4>4, <4>5, PlainParts
    <3>2. CASE Sends("game")
      <4>1. net'["client"] = net["client"]
        BY <3>2, SendsFresh DEF Side, TypeInv, PeerType
      <4> QED BY <1>0, <4>1
    <3>3. CASE ReadCorrupt
      BY <1>0, <3>3, ArriveCorrupt DEF Side
    <3>4. CASE UNCHANGED net
      BY <1>0, <3>4
    <3>5. Sends("client") \/ Sends("game") \/ ReadCorrupt \/ UNCHANGED net
      BY <1>3 DEF Next, Loop, Handler, Peer, Start, SetNonblocking, CheckFallback, Poll,
         PollTimeout, ReadNothing, ReadError, ScanNoMatch, ScanPartial, ScanMatch,
         Forward, MnesRequest, MnesDoes, MnesClientWill, MnesClientWont, RespondDont,
         RespondDo, RespondWont, Respond, MccpIgnore, Mccp2Do, Mccp2DoFails, Mccp2Dont,
         Mccp2SbStart, Mccp2SbStartFails, InitFails, PollInterrupted, HangUp, Tick,
         Terminated, vars, peerVars, Sends, Side
    <3> QED BY <3>1, <3>2, <3>3, <3>4, <3>5
  <2> QED BY <2>1, <2>2 DEF PlainInv, Plain
<1> QED BY <1>1, <1>2, <1>3

\* The matching goes on.
LEMMA MatchNext == TypeInv /\ ModeMatch /\ [Next]_vars => ModeMatch'
<1> SUFFICES ASSUME TypeInv, ModeMatch, [Next]_vars PROVE ModeMatch'
  OBVIOUS
<1>0. UNCHANGED mccp_mode
  BY ModeStays
<1>1. CASE Start
  BY <1>1 DEF Start, ModeMatch
<1>2. CASE MccpIgnore
  <2>1. /\ mccp_mode["game"] = "ignore" /\ pc = "match"
        /\ matching_enabled' = [matching_enabled EXCEPT !["game"] = FALSE]
    BY <1>2 DEF MccpIgnore, Matched
  <2>2. \A s \in Side : s # "game" => matching_enabled'[s] = matching_enabled[s]
    BY <2>1 DEF TypeInv, NegoType
  <2> QED BY <1>0, <2>1, <2>2 DEF ModeMatch
<1>3. CASE ~(Start \/ MccpIgnore)
  <2>1. UNCHANGED matching_enabled
    BY <1>3 DEF Next, Loop, Handler, Peer, SetNonblocking, CheckFallback, Poll,
       PollTimeout, Read, ReadInflated, ReadCorrupt, ReadNothing, ReadError,
       ScanNoMatch, ScanPartial, ScanMatch, Forward, MnesRequest, MnesDoes,
       MnesClientWill, MnesClientWont, RespondDont, RespondDo, RespondWont, Respond,
       Mccp2Do, Mccp2DoFails, Mccp2Dont, Mccp2SbStart, Mccp2SbStartFails, InitFails,
       PollInterrupted, GameCompresses, GameEndsZlib, Send, HangUp, Tick, Terminated,
       vars, negoVars
  <2>2. pc = "init" => pc' = "init"
    BY <1>3 DEF Next, Loop, Handler, Peer, SetNonblocking, CheckFallback, Poll,
       PollTimeout, Read, ReadInflated, ReadCorrupt, ReadNothing, ReadError,
       ScanNoMatch, ScanPartial, ScanMatch, Forward, MnesRequest, MnesDoes,
       MnesClientWill, MnesClientWont, RespondDont, RespondDo, RespondWont, Mccp2Do,
       Mccp2DoFails, Mccp2Dont, Mccp2SbStart, Mccp2SbStartFails, PollInterrupted,
       GameCompresses, GameEndsZlib, Send, HangUp, Tick, Terminated, vars, ctlVars,
       Scanning, Matched, DoMatched, DontMatched, Waiting, Refill
  <2> QED BY <1>0, <2>1, <2>2 DEF ModeMatch
<1> QED BY <1>1, <1>2, <1>3

\* MUDitM answers offers of compression itself, and the client's refusal.
LEMMA SwallowShape ==
    ASSUME TypeInv
    PROVE  /\ \A x \in MustSwallow["game"] : x[1] # "SEND" /\ x[2] # "NEWENV"
           /\ <<"WILL", "NEWENV">> \notin MustSwallow["client"]
<1>1. mccp_mode["game"] \in Mode /\ mccp_mode["client"] \in Mode
  BY DEF TypeInv, NegoType, Side
<1>2. /\ \A x \in {"WILL", "SB"} \X MccpOption : x[1] # "SEND" /\ x[2] # "NEWENV"
      /\ \A x \in {"DO", "DONT"} \X MccpOption : x[1] # "WILL"
  BY DEF MccpOption
<1>3. MccpWatch("game", mccp_mode["game"]) \subseteq {"WILL", "SB"} \X MccpOption
  BY <1>1 DEF MccpWatch, Mode, MccpOption
<1>4. MccpWatch("client", mccp_mode["client"]) \subseteq {"DO", "DONT"} \X MccpOption
  BY <1>1 DEF MccpWatch, Mode, MccpOption
<1>5. MustSwallow["game"] \subseteq MccpWatch("game", mccp_mode["game"])
  BY DEF MustSwallow
<1>6. MustSwallow["client"] = {<<"WONT", "NEWENV">>}
                              \cup MccpWatch("client", mccp_mode["client"])
  BY DEF MustSwallow
<1>7. /\ <<"WILL", "NEWENV">>[1] = "WILL"
      /\ <<"WILL", "NEWENV">> # <<"WONT", "NEWENV">>
  OBVIOUS
<1> QED BY <1>2, <1>3, <1>4, <1>5, <1>6, <1>7

\* What is swallowed is not passed on.
LEMMA ForwardNext == TypeInv /\ HeadCommand /\ FwdInv /\ [Next]_vars => FwdInv'
<1> SUFFICES ASSUME TypeInv, HeadCommand, FwdInv, [Next]_vars, pc' = "forward"
             PROVE  Passed(Cur, Buffer[2].cell)'
  BY DEF FwdInv
<1>1. \/ pc = "match" /\ NotHandled
      \/ UNCHANGED <<pc, revents, inb>>
  BY HeadMoves DEF ScanMatch
<1>2. UNCHANGED <<revents, inb>>
  BY <1>1 DEF NotHandled
<1> DEFINE c == Buffer[2].cell
<1>3. PICK s \in Side : s = Cur
  BY CurType
<1>4. Cur' = s /\ c' = c
  BY <1>2, <1>3 DEF Cur, Buffer
<1>5. CASE UNCHANGED pc
  <2>1. Passed(s, c)
    BY <1>3, <1>5 DEF FwdInv
  <2> DEFINE d == c
  <2>2. Passed(s, d) => mnes_state["client"] # "none" \/ ~(s = "client" /\ d = <<"WILL", "NEWENV">>)
    BY DEF Passed
  <2>3. MustSwallow' = MustSwallow
    BY ModeStays DEF MustSwallow
  <2>4. mnes_state["client"] # "none" => mnes_state'["client"] # "none"
    BY AnswerStays
  <2> QED BY <1>4, <2>1, <2>2, <2>3, <2>4 DEF Passed
<1>6. CASE pc = "match" /\ NotHandled
  <2>1. MnesRequest \/ MnesDoes \/ MnesClientWill \/ MccpIgnore
    <3>1. pc # "serve" /\ pc # "scan" /\ pc # "poll" /\ pc # "top" /\ pc # "forward"
      BY <1>6
    <3>2. ~Loop
      BY <1>6 DEF Loop, Start, SetNonblocking, CheckFallback, Poll, PollTimeout, Read,
         ReadInflated, ReadCorrupt, ReadNothing, ReadError, ScanNoMatch, ScanPartial,
         ScanMatch, Forward, Scanning, Refill
    <3>3. ~(PollInterrupted \/ Peer \/ Tick \/ Terminated \/ UNCHANGED vars)
      BY <1>6 DEF PollInterrupted, Peer, GameCompresses, GameEndsZlib, Send, HangUp,
         Waiting, Tick, Terminated, vars, ctlVars
    <3>4. ~(Mccp2DoFails \/ Mccp2SbStartFails)
      BY DEF Mccp2DoFails, Mccp2SbStartFails, InitFails, Rescan, NextSide
    <3>5. ~(MnesClientWont \/ RespondDont \/ RespondDo \/ RespondWont \/ Mccp2Do
            \/ Mccp2Dont \/ Mccp2SbStart)
      BY DEF MnesClientWont, RespondDont, RespondDo, RespondWont, Respond, Mccp2Do,
         Mccp2Dont, Mccp2SbStart, Handled, Rescan, NextSide
    <3> QED BY <3>2, <3>3, <3>4, <3>5 DEF Next, Handler
  <2>2. mccp_mode' = mccp_mode /\ MustSwallow' = MustSwallow
    BY ModeStays DEF MustSwallow
  <2>3. \A x \in MustSwallow["game"] : x[1] # "SEND" /\ x[2] # "NEWENV"
    BY SwallowShape
  <2>4. mccp_mode["game"] = "ignore" => MustSwallow["game"] = {}
    BY DEF MustSwallow
  <2>5. <<"WILL", "NEWENV">> \notin MustSwallow["client"]
    BY SwallowShape
  <2>6. CASE MnesRequest \/ MnesDoes
    <3>1. s = "game" /\ c \in {<<"SEND", "ALL">>, <<"SEND", "">>, <<"DO", "NEWENV">>}
      BY <1>3, <2>6 DEF MnesRequest, MnesDoes, Matched
    <3>2. c \notin MustSwallow["game"]
      <4>1. \A x \in {<<"SEND", "ALL">>, <<"SEND", "">>, <<"DO", "NEWENV">>} :
               (x[1] = "SEND") \/ (x[2] = "NEWENV")
        <5>1. <<"SEND", "ALL">>[1] = "SEND"
          OBVIOUS
        <5>2. <<"SEND", "">>[1] = "SEND"
          OBVIOUS
        <5>3. <<"DO", "NEWENV">>[2] = "NEWENV"
          OBVIOUS
        <5> QED BY <5>1, <5>2, <5>3
      <4>2. c \in {<<"SEND", "ALL">>, <<"SEND", "">>, <<"DO", "NEWENV">>}
        BY <3>1
      <4> HIDE DEF c
      <4> QED BY <2>3, <4>1, <4>2
    <3> QED BY <1>4, <2>2, <3>1, <3>2 DEF Passed
  <2>7. CASE MnesClientWill
    <3>1. s = "client" /\ c = <<"WILL", "NEWENV">>
      BY <1>3, <2>7 DEF MnesClientWill, Matched
    <3>2. mnes_state'["client"] # "none"
      BY <2>7 DEF MnesClientWill, TypeInv, NegoType, Side
    <3> QED BY <1>4, <2>2, <2>5, <3>1, <3>2 DEF Passed
  <2>8. CASE MccpIgnore
    <3>1. s = "game" /\ mccp_mode["game"] = "ignore"
      BY <1>3, <2>8 DEF MccpIgnore, Matched
    <3> QED BY <1>4, <2>2, <2>4, <3>1 DEF Passed
  <2> QED BY <2>1, <2>6, <2>7, <2>8
<1> QED BY <1>1, <1>5, <1>6

\* A step that says something
LEMMA SpeaksKeeps ==
    ASSUME TypeInv, SentInv, [Next]_vars, Speaks,
           \A s \in Side : matching_enabled'[s] => matching_enabled[s] \/ sent[Other(s)] = <<>>,
           zfails' = 0 => zfails = 0
    PROVE  SentInv'
<1> SUFFICES ASSUME zfails' = 0
             PROVE  /\ VoiceInv'
                    /\ \A s \in Side : matching_enabled'[s] => Clean(s, sent[Other(s)])'
                    /\ \A i \in DOMAIN sent'["game"] : sent'["game"][i].enc # -1
  BY DEF SentInv
<1>1. /\ VoiceInv
      /\ \A s \in Side : matching_enabled[s] => Clean(s, sent[Other(s)])
      /\ \A i \in DOMAIN sent["game"] : sent["game"][i].enc # -1
  BY DEF SentInv
<1>2. VoiceInv'
  <2> SUFFICES ASSUME NEW t \in Side
               PROVE  Spoken(outq'[t], Voice(t)') /\ Voiced(sent'[t], Voice(t)')
    BY DEF VoiceInv, Spoken, Voiced
  <2> DEFINE W == Voice(t)'
  <2>1. PICK x \in Seq(Element) : sent'[t] = sent[t] \o x /\ Spoken(x, W)
    BY DEF Speaks
  <2>2. sent[t] \in Seq(Element) /\ Voiced(sent[t], W)
    BY <1>1, StreamType, VoiceGrows, SpokenIn DEF VoiceInv
  <2>3. Spoken(outq'[t], W)
    BY DEF Speaks
  <2> HIDE DEF W
  <2>4. Voiced(x, W)
    BY <2>1, SpokenIn
  <2>5. Voiced(sent[t] \o x, W)
    BY <2>1, <2>2, <2>4, SpokenJoin
  <2> QED BY <2>1, <2>3, <2>5 DEF W
<1>3. ASSUME NEW s \in Side, matching_enabled'[s] PROVE Clean(s, sent[Other(s)])'
  <2>1. Other(s) \in Side /\ sent[Other(s)] \in Seq(Element)
    BY StreamType
  <2>2. PICK x \in Seq(Element) :
          sent'[Other(s)] = sent[Other(s)] \o x /\ Spoken(x, Voice(Other(s))')
    <3>1. PICK t \in Side : t = Other(s)
      BY <2>1
    <3>2. PICK x \in Seq(Element) : sent'[t] = sent[t] \o x /\ Spoken(x, Voice(t)')
      BY DEF Speaks
    <3>3. Voice(Other(s))' = Voice(t)'
      BY <3>1
    <3> QED BY <3>1, <3>2, <3>3
  <2>3. Clean(s, sent[Other(s)])
    <3>1. DOMAIN <<>> = {}
      BY EmptySeq, LenProperties
    <3>2. Clean(s, <<>>)
      BY <3>1 DEF Clean
    <3> QED BY <1>1, <1>3, <3>2
  <2>4. Clean(s, x)
    BY <2>2, SpokenClean
  <2> DEFINE w == sent[Other(s)] \o x
  <2>5. Clean(s, w)
    BY <2>1, <2>2, <2>3, <2>4, CleanJoin
  <2> HIDE DEF w
  <2>6. PICK y : y = w
    OBVIOUS
  <2>7. Clean(s, y)'
    BY <2>5, <2>6, CleanStays
  <2>8. sent'[Other(s)] = y
    BY <2>2, <2>6 DEF w
  <2> QED BY <2>7, <2>8 DEF Clean
<1>4. \A i \in DOMAIN sent'["game"] : sent'["game"][i].enc # -1
  <2>1. PICK x \in Seq(Element) :
          sent'["game"] = sent["game"] \o x /\ Spoken(x, Voice("game")')
    BY DEF Speaks, Side
  <2>2. sent["game"] \in Seq(Element)
    BY StreamType DEF Side
  <2>3. \A i \in DOMAIN x : x[i].enc # -1
    BY <2>1 DEF Spoken
  <2>4. /\ \A i \in 1 .. Len(sent["game"]) : i \in DOMAIN sent["game"]
        /\ \A i \in 1 .. Len(x) : i \in DOMAIN x
    BY <2>1, <2>2, LenProperties
  <2>5. \A i \in DOMAIN (sent["game"] \o x) :
           \/ i \in 1 .. Len(sent["game"]) /\ (sent["game"] \o x)[i] = sent["game"][i]
           \/ /\ i - Len(sent["game"]) \in 1 .. Len(x)
              /\ (sent["game"] \o x)[i] = x[i - Len(sent["game"])]
    BY <2>1, <2>2, Joined
  <2> QED BY <1>1, <2>1, <2>3, <2>4, <2>5
<1> QED BY <1>2, <1>3, <1>4

\* A step that relays something
LEMMA RelaysClean ==
    ASSUME TypeInv, HeadCommand, WholeInv, RelayInv, [Next]_vars,
           ScanNoMatch \/ ScanMatch \/ Forward
    PROVE  SentInv'
<1> SUFFICES ASSUME zfails' = 0
             PROVE  /\ VoiceInv'
                    /\ \A s \in Side : matching_enabled'[s] => Clean(s, sent[Other(s)])'
                    /\ \A i \in DOMAIN sent'["game"] : sent'["game"][i].enc # -1
  BY DEF SentInv
<1>0. UNCHANGED <<matching_enabled, outq, zfails>>
  BY DEF ScanNoMatch, ScanMatch, Forward, negoVars, faultVars
<1>1. /\ VoiceInv
      /\ \A s \in Side : matching_enabled[s] => Clean(s, sent[Other(s)])
      /\ \A i \in DOMAIN sent["game"] : sent["game"][i].enc # -1
  BY <1>0 DEF RelayInv, SentInv
<1>2. PICK c \in Side : c = Cur
  BY CurType
<1>3. PICK data \in Seq(Input) :
        /\ Write(Other(c), data)
        /\ matching_enabled[c] => Relayable(c, data)
        /\ \A i \in DOMAIN data : i \in DOMAIN inb[c] /\ data[i] = inb[c][i]
  <2>1. matching_enabled[c] => LedIn(Buffer)
    BY <1>0, <1>2 DEF WholeInv, Buffer
  <2> QED BY <1>2, <2>1, ScanRelayable, ForwardRelayable DEF RelayInv, Buffer
<1>4. PICK x \in Seq(Element) :
        /\ sent' = [sent EXCEPT ![Other(c)] = sent[Other(c)] \o x]
        /\ \A i \in DOMAIN x : x[i].src > 0
        /\ Relayable(c, data) => Clean(c, x)
        /\ (\A i \in DOMAIN data : data[i].enc = 0) =>
              \A i \in DOMAIN x : x[i].enc # -1 /\ x[i].cell # RawZlib
  BY <1>3, WriteClean
<1>5. \A t \in Side : sent[t] \in Seq(Element)
  BY StreamType
<1>6. /\ Other(c) \in Side /\ sent'[Other(c)] = sent[Other(c)] \o x
      /\ \A t \in Side : t # Other(c) => sent'[t] = sent[t]
  BY <1>2, <1>4, StreamType DEF TypeInv, OutType
<1>7. VoiceInv'
  <2> SUFFICES ASSUME NEW t \in Side
               PROVE  Spoken(outq'[t], Voice(t)') /\ Voiced(sent'[t], Voice(t)')
    BY DEF VoiceInv, Spoken, Voiced
  <2> DEFINE W == Voice(t)'
  <2>1. Spoken(outq[t], W) /\ Voiced(sent[t], W)
    BY <1>1, VoiceGrows, SpokenIn DEF VoiceInv
  <2> HIDE DEF W
  <2>2. Voiced(x, W)
    <3>1. ~(0 > 0)
      OBVIOUS
    <3> QED BY <1>4, <3>1 DEF Voiced
  <2>3. Voiced(sent[t] \o x, W)
    BY <1>5, <2>1, <2>2, SpokenJoin
  <2>4. Spoken(outq'[t], W) /\ Voiced(sent'[t], W)
    BY <1>0, <1>6, <2>1, <2>3
  <2> QED BY <2>4 DEF W
<1>8. ASSUME NEW s \in Side, matching_enabled'[s] PROVE Clean(s, sent[Other(s)])'
  <2>1. PICK y : y = sent'[Other(s)]
    OBVIOUS
  <2>2. Clean(s, sent[Other(s)])
    BY <1>0, <1>1, <1>8
  <2>3. Clean(s, y)
    <3>1. CASE s = c
      <4>1. Clean(s, x)
        BY <1>0, <1>3, <1>4, <1>8, <3>1
      <4>2. sent[Other(s)] \in Seq(Element)
        BY <1>5, StreamType
      <4>3. Clean(s, sent[Other(s)] \o x)
        BY <2>2, <4>1, <4>2, CleanJoin
      <4> QED BY <1>6, <2>1, <3>1, <4>3
    <3>2. CASE s # c
      <4>1. Other(s) # Other(c) /\ Other(s) \in Side
        BY <3>2 DEF Other, Side
      <4> QED BY <1>6, <2>1, <2>2, <4>1
    <3> QED BY <3>1, <3>2
  <2>4. Clean(s, y)'
    BY <2>3, CleanStays
  <2> QED BY <2>1, <2>4 DEF Clean
<1>9. \A i \in DOMAIN sent'["game"] : sent'["game"][i].enc # -1
  <2>1. CASE c = "client"
    <3>1. \A i \in DOMAIN data : data[i].enc = 0
      BY <1>3, <2>1 DEF RelayInv, PlainInv
    <3>2. \A i \in DOMAIN x : x[i].enc # -1
      BY <1>4, <3>1
    <3>3. sent["game"] \in Seq(Element) /\ sent'["game"] = sent["game"] \o x
      BY <1>5, <1>6, <2>1 DEF Other, Side
    <3>4. /\ \A i \in 1 .. Len(sent["game"]) : i \in DOMAIN sent["game"]
          /\ \A i \in 1 .. Len(x) : i \in DOMAIN x
      BY <3>3, LenProperties
    <3>5. \A i \in DOMAIN (sent["game"] \o x) :
             \/ i \in 1 .. Len(sent["game"]) /\ (sent["game"] \o x)[i] = sent["game"][i]
             \/ /\ i - Len(sent["game"]) \in 1 .. Len(x)
                /\ (sent["game"] \o x)[i] = x[i - Len(sent["game"])]
      BY <3>3, Joined
    <3> QED BY <1>1, <3>2, <3>3, <3>4, <3>5
  <2>2. CASE c = "game"
    <3>1. sent'["game"] = sent["game"]
      BY <1>6, <2>2 DEF Other, Side
    <3> QED BY <1>1, <3>1
  <2> QED BY <2>1, <2>2 DEF Side
<1> QED BY <1>7, <1>8, <1>9

\* At first
LEMMA RelayInit == Init => RelayInv
<1> SUFFICES ASSUME Init PROVE RelayInv
  OBVIOUS
<1>1. \A s \in Side : /\ sent[s] = <<>> /\ inb[s] = <<>> /\ net[s] = <<>> /\ outq[s] = <<>>
                      /\ ~matching_enabled[s]
  BY DEF Init
<1>2. DOMAIN <<>> = {} /\ \A s \in Side : s = "client" \/ s = "game"
  BY EmptySeq, LenProperties DEF Side
<1>3. VoiceInv
  BY <1>1, <1>2 DEF VoiceInv, Spoken, Voiced
<1>4. PlainInv /\ ModeMatch /\ FwdInv
  BY <1>1, <1>2 DEF PlainInv, ModeMatch, FwdInv, Init, Side
<1>5. SentInv
  BY <1>1, <1>2, <1>3 DEF SentInv, Side
<1> QED BY <1>4, <1>5 DEF RelayInv

\* A step
LEMMA RelayNext ==
    TypeInv /\ OrderInv /\ StreamInv /\ RelayInv /\ [Next]_vars => RelayInv'
<1> SUFFICES ASSUME TypeInv, OrderInv, StreamInv, RelayInv, [Next]_vars PROVE RelayInv'
  OBVIOUS
<1>1. ModeMatch' /\ FwdInv' /\ PlainInv'
  BY MatchNext, ForwardNext, PlainNext DEF RelayInv, StreamInv
<1>2. CASE InitFails
  <2>1. zfails' # 0
    BY <1>2 DEF InitFails, TypeInv, ZlibType
  <2> QED BY <1>1, <2>1 DEF RelayInv, SentInv
<1>3. CASE ScanNoMatch \/ ScanMatch \/ Forward
  BY <1>1, <1>3, RelaysClean DEF RelayInv, StreamInv
<1>4. CASE ~(InitFails \/ ScanNoMatch \/ ScanMatch \/ Forward)
  <2>1. UNCHANGED zfails
    BY <1>4 DEF Next, Loop, Handler, Peer, Start, SetNonblocking, CheckFallback, Poll,
       PollTimeout, Read, ReadInflated, ReadCorrupt, ReadNothing, ReadError,
       ScanPartial, MnesRequest, MnesDoes, MnesClientWill, MnesClientWont, RespondDont,
       RespondDo, RespondWont, Respond, MccpIgnore, Mccp2Do, Mccp2DoFails, Mccp2Dont,
       Mccp2SbStart, Mccp2SbStartFails, PollInterrupted, GameCompresses, GameEndsZlib,
       Send, HangUp, Tick, Terminated, vars, faultVars
  <2>2. CASE zfails # 0
    BY <1>1, <2>1, <2>2 DEF RelayInv, SentInv
  <2>3. CASE zfails = 0
    <3>1. Speaks
      BY <1>4, <2>3, StepSpeaks DEF RelayInv, SentInv, StreamInv
    <3>2. \A s \in Side : matching_enabled'[s] => matching_enabled[s] \/ sent[Other(s)] = <<>>
      <4>1. CASE Start
        <5>1. \A s \in Side : sent[s] = <<>>
          BY <4>1 DEF Start, StreamInv, QuietInv
        <5> QED BY <5>1, StreamType
      <4>2. CASE ~Start
        BY <1>4, <4>2 DEF Next, Loop, Handler, Peer, SetNonblocking, CheckFallback,
           Poll, PollTimeout, Read, ReadInflated, ReadCorrupt, ReadNothing, ReadError,
           ScanPartial, MnesRequest, MnesDoes, MnesClientWill, MnesClientWont,
           RespondDont, RespondDo, RespondWont, Respond, MccpIgnore, Mccp2Do,
           Mccp2DoFails, Mccp2Dont, Mccp2SbStart, Mccp2SbStartFails, PollInterrupted,
           GameCompresses, GameEndsZlib, Send, HangUp, Tick, Terminated, vars,
           negoVars, TypeInv, NegoType
      <4> QED BY <4>1, <4>2
    <3>3. SentInv'
      BY <2>1, <3>1, <3>2, SpeaksKeeps DEF RelayInv
    <3> QED BY <1>1, <3>3 DEF RelayInv
  <2> QED BY <2>2, <2>3
<1> QED BY <1>2, <1>3, <1>4

\* A session relays what it may, and nothing else.
LEMMA RelayAlways == Spec => []RelayInv
<1>1. Init => RelayInv
  BY RelayInit
<1>2. TypeInv /\ OrderInv /\ StreamInv /\ RelayInv /\ [Next]_vars => RelayInv'
  BY RelayNext
<1> QED BY <1>1, <1>2, TypeAlways, OrderAlways, StreamAlways, PTL DEF Spec

-----------------------------------------------------------------------------
(* What follows for the peers.                                             *)

\* Before the session begins, nothing has been sent.
LEMMA MatchedOrQuiet ==
    ASSUME TypeInv, StreamInv, RelayInv, zfails = 0, NEW s \in Side,
           s = "client" \/ mccp_mode["game"] # "ignore"
    PROVE  Clean(s, sent[Other(s)])
<1>1. CASE pc = "init"
  <2>1. sent[Other(s)] = <<>> /\ DOMAIN <<>> = {}
    BY <1>1, StreamType, EmptySeq, LenProperties DEF StreamInv, QuietInv
  <2> QED BY <2>1 DEF Clean
<1>2. CASE pc # "init"
  BY <1>2 DEF RelayInv, ModeMatch, SentInv, Side
<1> QED BY <1>1, <1>2

\* A command that MUDitM answers itself never reaches the other side, however
\* the streams are cut into reads, whatever the peers send and however short
\* the writes fall (src/muditm.c, the matching loop of muditm_proxy()).
THEOREM LeakCorrect == Spec => []NoLeak
<1>1. TypeInv /\ StreamInv /\ RelayInv => NoLeak
  <2> SUFFICES ASSUME TypeInv, StreamInv, RelayInv, zfails = 0,
                      NEW s \in Side, NEW i \in DOMAIN sent[Other(s)],
                      sent[Other(s)][i].src > 0, sent[Other(s)][i].enc # -1,
                      sent[Other(s)][i].cell \in MustSwallow[s]
               PROVE  FALSE
    BY DEF NoLeak
  <2>1. s = "client" \/ mccp_mode["game"] # "ignore"
    BY DEF MustSwallow, Side
  <2>2. Clean(s, sent[Other(s)])
    BY <2>1, MatchedOrQuiet
  <2>3. sent[Other(s)][i].cell \in Watched(s)
    <3> DEFINE x == sent[Other(s)][i].cell
    <3>1. x \in MustSwallow[s]
      OBVIOUS
    <3> HIDE DEF x
    <3>2. ASSUME s = "client" PROVE x \in Watched(s)
      <4>1. MustSwallow["client"] \subseteq Watched("client")
        BY DEF MustSwallow, Watched
      <4> QED BY <3>1, <3>2, <4>1
    <3>3. ASSUME s = "game" PROVE x \in Watched(s)
      <4>1. MustSwallow["game"] \subseteq Watched("game")
        BY DEF MustSwallow, Watched
      <4> QED BY <3>1, <3>3, <4>1
    <3>4. x \in Watched(s)
      BY <3>2, <3>3 DEF Side
    <3> QED BY <3>4 DEF x
  <2> QED BY <2>2, <2>3 DEF Clean, Passed
<1> QED BY <1>1, TypeAlways, StreamAlways, RelayAlways, PTL

\* A command that is looked for arrives with its IAC, and nothing of MUDitM's
\* own in between (muditm_proxy() writes a match across in one go).
THEOREM WholeCorrect == Spec => []WatchedStayWhole
<1>1. TypeInv /\ RelayInv => WatchedStayWhole
  <2> SUFFICES ASSUME TypeInv, RelayInv, zfails = 0,
                      NEW s \in Side, matching_enabled[Other(s)],
                      NEW i \in DOMAIN sent[s], sent[s][i].src > 0,
                      sent[s][i].enc # -1, sent[s][i].cell \in Watched(Other(s))
               PROVE  i > 1 /\ sent[s][i - 1].src = sent[s][i].src - 1
    BY DEF WatchedStayWhole
  <2>1. Other(Other(s)) = s /\ Other(s) \in Side
    BY DEF Other, Side
  <2>2. Clean(Other(s), sent[s])
    BY <2>1 DEF RelayInv, SentInv
  <2> QED BY <2>2 DEF Clean
<1> QED BY <1>1, TypeAlways, RelayAlways, PTL

\* The fallback answers a game that has had no answer (src/muditm.c, the
\* newenv_fallback check at the top of the loop).
THEOREM FallbackCorrect == Spec => FallbackOnlyIfSilent
<1>1. TypeInv /\ StreamInv /\ RelayInv /\ [Next]_vars =>
        [pc = "top" /\ zfails = 0 /\ mnes_state'["client"] # mnes_state["client"]
            => ~SaidWill]_vars
  <2> SUFFICES ASSUME TypeInv, StreamInv, RelayInv, [Next]_vars, pc = "top", zfails = 0,
                      mnes_state'["client"] # mnes_state["client"], SaidWill
               PROVE  FALSE
    OBVIOUS
  <2>1. CheckFallback
    BY DEF Next, Loop, Handler, Peer, Start, SetNonblocking, Poll, PollTimeout, Read,
       ReadInflated, ReadCorrupt, ReadNothing, ReadError, ScanNoMatch, ScanPartial,
       ScanMatch, Forward, MnesRequest, MnesDoes, MnesClientWill, MnesClientWont,
       RespondDont, RespondDo, RespondWont, Mccp2Do, Mccp2DoFails, Mccp2Dont,
       Mccp2SbStart, Mccp2SbStartFails, MccpIgnore, PollInterrupted, GameCompresses,
       GameEndsZlib, Send, HangUp, Tick, Terminated, vars, negoVars, Scanning, Matched,
       DoMatched, DontMatched, Waiting, Refill
  <2>2. mnes_state["client"] = "none"
    BY <2>1 DEF CheckFallback
  <2>3. <<"WILL", "NEWENV">> \notin Voice("game")
    BY <2>2 DEF Voice, Compression, IAC, MccpOption
  <2>4. VoiceInv /\ \A i \in DOMAIN sent["game"] : sent["game"][i].enc # -1
    BY DEF RelayInv, SentInv
  <2>5. Clean("client", sent["game"])
    <3>1. Clean("client", sent[Other("client")])
      BY MatchedOrQuiet DEF Side
    <3> QED BY <3>1 DEF Other
  <2>6. ASSUME NEW i \in DOMAIN sent["game"] PROVE sent["game"][i].cell # <<"WILL", "NEWENV">>
    <3>1. sent["game"][i].src \in Nat
      <4>1. sent["game"] \in Seq(Element)
        BY StreamType DEF Side
      <4>2. sent["game"][i] \in Element
        BY <4>1, ElementOfSeq, LenProperties
      <4> QED BY <4>2 DEF Element
    <3>2. sent["game"][i].src = 0 \/ sent["game"][i].src > 0
      BY <3>1
    <3>3. sent["game"][i].src = 0 => sent["game"][i].cell \in Voice("game")
      BY <2>4 DEF VoiceInv, Voiced, Side
    <3>4. <<"WILL", "NEWENV">> \in Watched("client")
      BY DEF Watched
    <3>5. sent["game"][i].src > 0 => sent["game"][i].cell # <<"WILL", "NEWENV">>
      BY <2>2, <2>4, <2>5, <3>4 DEF Clean, Passed
    <3> QED BY <2>3, <3>2, <3>3, <3>5
  <2>7. \A i \in DOMAIN outq["game"] : outq["game"][i].cell # <<"WILL", "NEWENV">>
    BY <2>3, <2>4 DEF VoiceInv, Spoken, Side
  <2>8. \A i \in DOMAIN (sent["game"] \o outq["game"]) :
           (sent["game"] \o outq["game"])[i].cell # <<"WILL", "NEWENV">>
    <3>1. sent["game"] \in Seq(Element) /\ outq["game"] \in Seq(Element)
      BY StreamType DEF Side
    <3> DEFINE p == sent["game"]
               q == outq["game"]
    <3>3. p \in Seq(Element) /\ q \in Seq(Element)
      BY <3>1
    <3>4. /\ \A i \in DOMAIN p : p[i].cell # <<"WILL", "NEWENV">>
          /\ \A i \in DOMAIN q : q[i].cell # <<"WILL", "NEWENV">>
      BY <2>6, <2>7
    <3> HIDE DEF p, q
    <3>2. /\ DOMAIN p = 1 .. Len(p) /\ DOMAIN q = 1 .. Len(q)
          /\ \A i \in DOMAIN (p \o q) :
                \/ i \in 1 .. Len(p) /\ (p \o q)[i] = p[i]
                \/ i - Len(p) \in 1 .. Len(q) /\ (p \o q)[i] = q[i - Len(p)]
      BY <3>3, Joined
    <3>5. \A i \in DOMAIN (p \o q) : (p \o q)[i].cell # <<"WILL", "NEWENV">>
      BY <3>2, <3>4
    <3> QED BY <3>5 DEF p, q
  <2> QED BY <2>8 DEF SaidWill
<1> QED BY <1>1, TypeAlways, StreamAlways, RelayAlways, PTL DEF Spec, FallbackOnlyIfSilent

-----------------------------------------------------------------------------
(* What has been looked at.                                                *)

\* No command is left in the buffer of s, but perhaps the beginning of one.
Answered(s) ==
    \A i \in DOMAIN inb[s] : MatchAt(s, inb[s], i) => PartialAt(s, inb[s], i)

\* So it is for the sides that the loop is done with.
AnsweredInv ==
    \A s \in Side : ~matching_enabled[s] \/ Answered(s) \/ (s = Cur /\ Busy)

\* A buffer that is left alone stays as it is.
LEMMA AnsweredStays ==
    ASSUME [Next]_vars, NEW s \in Side, inb'[s] = inb[s], Answered(s)
    PROVE  Answered(s)'
<1>1. UNCHANGED mccp_mode
  BY ModeStays
<1>2. Watched(s)' = Watched(s)
  BY <1>1, WatchedStays
<1> QED BY <1>2 DEF Answered, MatchAt, PartialAt, IsIac

\* An empty buffer has been looked at.
LEMMA EmptyAnswered ==
    ASSUME NEW s \in Side, inb'[s] = <<>>
    PROVE  Answered(s)'
<1>1. DOMAIN <<>> = {}
  BY EmptySeq, LenProperties
<1> QED BY <1>1 DEF Answered

\* What waits for more input has been looked at, too.
LEMMA PartialAnswered == TypeInv /\ ScanPartial => Answered(Cur)
<1> SUFFICES ASSUME TypeInv, ScanPartial, NEW i \in DOMAIN Buffer,
                    MatchAt(Cur, Buffer, i)
             PROVE  PartialAt(Cur, Buffer, i)
  BY DEF Answered, Buffer
<1>1. PICK at \in 1 .. Len(Buffer) :
        /\ PartialAt(Cur, Buffer, at)
        /\ at = Len(Buffer) \/ (at = Len(Buffer) - 1 /\ Len(Buffer) > 1)
        /\ at <= i
  BY ScanWaits
<1>2. Len(Buffer) \in Nat /\ i \in 1 .. Len(Buffer)
  BY BufferType, LenProperties
<1>3. i < Len(Buffer)
  BY DEF MatchAt
<1>4. i = at
  <2> DEFINE l == Len(Buffer)
  <2>1. l \in Nat /\ i \in 1 .. l /\ i < l /\ at \in 1 .. l /\ at <= i
        /\ (at = l \/ at = l - 1)
    BY <1>1, <1>2, <1>3
  <2> HIDE DEF l
  <2> QED BY <2>1
<1> QED BY <1>1, <1>4

\* Every step keeps it so.
LEMMA AnsweredNext ==
    ASSUME TypeInv, QuietInv, AnsweredInv, [Next]_vars
    PROVE  AnsweredInv'
<1> SUFFICES ASSUME NEW s \in Side, matching_enabled'[s],
                    ~(s = Cur' /\ Busy')
             PROVE  Answered(s)'
  BY DEF AnsweredInv
<1>1. CASE Works
  <2>1. CASE s = Cur
    <3>1. inb'[s] = <<>>
      BY <1>1, <2>1 DEF Works, Cur
    <3> QED BY <3>1, EmptyAnswered
  <2>2. CASE s # Cur
    BY <1>1, <2>2, AnsweredStays DEF Works, AnsweredInv
  <2> QED BY <2>1, <2>2
<1>2. CASE Outside
  <2>1. UNCHANGED inb /\ ~Busy
    BY <1>2, OutsideRests
  <2>2. CASE Start
    <3>1. inb'[s] = <<>>
      BY <2>1, <2>2 DEF Start, QuietInv
    <3> QED BY <3>1, EmptyAnswered
  <2>3. CASE ~Start
    <3>1. matching_enabled[s]
      BY <1>2, <2>3 DEF Outside, SetNonblocking, CheckFallback, Poll, PollTimeout,
         PollInterrupted, ReadCorrupt, ReadNothing, ReadError, Peer, GameCompresses,
         GameEndsZlib, Send, HangUp, negoVars
    <3> QED BY <2>1, <3>1, AnsweredStays DEF AnsweredInv
  <2> QED BY <2>2, <2>3
<1>3. CASE ScanPartial
  <2>1. UNCHANGED <<inb, matching_enabled>>
    BY <1>3 DEF ScanPartial, negoVars
  <2>2. Answered(s)
    BY <1>3, <2>1, PartialAnswered DEF AnsweredInv
  <2> QED BY <2>1, <2>2, AnsweredStays
<1>4. CASE Tick \/ UNCHANGED vars
  <2>1. UNCHANGED <<inb, matching_enabled, pc, revents>>
    BY <1>4 DEF Tick, vars, ctlVars, negoVars
  <2>2. Answered(s)
    BY <2>1 DEF AnsweredInv, Busy, Cur
  <2> QED BY <2>1, <2>2, AnsweredStays
<1> QED BY <1>1, <1>2, <1>3, <1>4, NextServes

-----------------------------------------------------------------------------
(* The game's zlib stream.                                                 *)

\* A start marker of the game's
IsMarker(e) == e.enc = 0 /\ e.cell = <<"SB", "MCCP2">>

Marks(q) == \E i \in DOMAIN q : IsMarker(q[i])

\* Compression is MUDitM's business, on one side or the other.
Minds == mccp_mode["client"] # "ignore" \/ mccp_mode["game"] = "enable"

\* Nothing of the game's zlib stream as such is in q.
RawFree(q) == \A i \in DOMAIN q : q[i].enc # -1 /\ q[i].cell # RawZlib

\* The game compresses only if MUDitM decodes it: the start marker has not
\* been handled, or zlib is ready.  Until then nothing compressed is on its way.
ZipInv ==
    zfails = 0 =>
        /\ gz.pos = 0 => Plain(net["game"])
        /\ Minds /\ mccp_mode["game"] # "enable" => ~gz.on /\ gz.pos = 0
        /\ mccp_mode["game"] = "enable" =>
              /\ gz.pos > 0 => inflate.on
              /\ gz.on => \/ inflate.on
                          \/ Marks(inb["game"]) \/ Marks(net["game"])
        /\ Minds => Plain(inb["game"]) /\ RawFree(sent["client"])

\* The marker in the parts of a sequence
LEMMA MarksParts ==
    ASSUME NEW p \in Seq(Element), NEW q \in Seq(Element)
    PROVE  Marks(p \o q) <=> Marks(p) \/ Marks(q)
<1> DEFINE w == p \o q
           m == Len(p)
           n == Len(q)
<1>1. /\ DOMAIN p = 1 .. m /\ DOMAIN q = 1 .. n
      /\ \A i \in 1 .. m : i \in DOMAIN w /\ w[i] = p[i]
      /\ \A i \in 1 .. n : i + m \in DOMAIN w /\ w[i + m] = q[i]
      /\ \A i \in DOMAIN w : \/ i \in 1 .. m /\ w[i] = p[i]
                             \/ i - m \in 1 .. n /\ w[i] = q[i - m]
  BY Joined
<1> HIDE DEF w, m, n
<1>2. Marks(w) => Marks(p) \/ Marks(q)
  <2> SUFFICES ASSUME NEW i \in DOMAIN w, IsMarker(w[i]) PROVE Marks(p) \/ Marks(q)
    BY DEF Marks
  <2> QED BY <1>1 DEF Marks
<1>3. Marks(p) \/ Marks(q) => Marks(w)
  <2>1. ASSUME NEW i \in DOMAIN p, IsMarker(p[i]) PROVE Marks(w)
    BY <1>1, <2>1 DEF Marks
  <2>2. ASSUME NEW i \in DOMAIN q, IsMarker(q[i]) PROVE Marks(w)
    <3>1. i + m \in DOMAIN w /\ IsMarker(w[i + m])
      BY <1>1, <2>2
    <3> QED BY <3>1 DEF Marks
  <2> QED BY <2>1, <2>2 DEF Marks
<1> QED BY <1>2, <1>3 DEF w

\* Two sequences without zlib
LEMMA RawFreeJoin ==
    ASSUME NEW p \in Seq(Element), NEW q \in Seq(Element), RawFree(p), RawFree(q)
    PROVE  RawFree(p \o q)
<1> DEFINE w == p \o q
           m == Len(p)
           n == Len(q)
<1>1. /\ DOMAIN p = 1 .. m /\ DOMAIN q = 1 .. n
      /\ \A i \in DOMAIN w : \/ i \in 1 .. m /\ w[i] = p[i]
                             \/ i - m \in 1 .. n /\ w[i] = q[i - m]
  BY Joined
<1> HIDE DEF w, m, n
<1>2. RawFree(w)
  BY <1>1 DEF RawFree
<1> QED BY <1>2 DEF w

\* The game is told to compress only by MUDitM, if that watches the client.
LEMMA NotTold ==
    ASSUME TypeInv, StreamInv, RelayInv, zfails = 0,
           Minds, mccp_mode["game"] # "enable"
    PROVE  \A i \in DOMAIN sent["game"] : sent["game"][i].cell # <<"DO", "MCCP2">>
<1> SUFFICES ASSUME NEW i \in DOMAIN sent["game"],
                    sent["game"][i].cell = <<"DO", "MCCP2">>
             PROVE  FALSE
  OBVIOUS
<1>1. mccp_mode["client"] \in {"disable", "enable"}
  BY DEF Minds, TypeInv, NegoType, Mode, Side
<1>2. <<"DO", "MCCP2">> \in MccpWatch("client", mccp_mode["client"])
  BY <1>1 DEF MccpWatch, MccpOption
<1>3. <<"DO", "MCCP2">> \in Watched("client") /\ <<"DO", "MCCP2">> \in MustSwallow["client"]
  BY <1>2 DEF Watched, MustSwallow
<1>4. Clean("client", sent["game"])
  <2>1. Clean("client", sent[Other("client")])
    BY MatchedOrQuiet DEF Side
  <2> QED BY <2>1 DEF Other
<1>5. VoiceInv /\ sent["game"][i].enc # -1
  BY DEF RelayInv, SentInv
<1>6. <<"DO", "MCCP2">> \notin Voice("game")
  BY DEF Voice, Compression, IAC, MccpOption
<1>7. sent["game"][i].src \in Nat
  <2>1. sent["game"] \in Seq(Element)
    BY StreamType DEF Side
  <2>2. sent["game"][i] \in Element
    BY <2>1, ElementOfSeq, LenProperties
  <2> QED BY <2>2 DEF Element
<1>8. sent["game"][i].src # 0
  BY <1>5, <1>6 DEF VoiceInv, Voiced, Side
<1>9. sent["game"][i].src > 0
  BY <1>7, <1>8
<1> QED BY <1>3, <1>4, <1>5, <1>9 DEF Clean, Passed

\* A session that waits has handled the start marker, if it has read one.
LEMMA MarkerHandled ==
    ASSUME TypeInv, StreamInv, RelayInv, AnsweredInv, zfails = 0,
           mccp_mode["game"] = "enable", pc = "poll"
    PROVE  ~Marks(inb["game"])
<1> DEFINE q == inb["game"]
<1>1. matching_enabled["game"] /\ q \in Seq(Element)
  BY StreamType DEF RelayInv, ModeMatch, Side
<1>2. LedIn(q)
  BY <1>1 DEF StreamInv, WholeInv, Side
<1>3. Answered("game")
  BY <1>1 DEF AnsweredInv, Busy, Side
<1>4. Len(q) \in Nat /\ DOMAIN q = 1 .. Len(q)
  BY <1>1, LenProperties
<1>5. <<"SB", "MCCP2">> \in CommandCell /\ <<"SB", "MCCP2">> \in Watched("game")
      /\ <<"SB", "MCCP2">> # <<"SEND", "">>
  BY DEF CommandCell, Option, Watched, MccpWatch
<1>6. ASSUME NEW i \in DOMAIN q, IsMarker(q[i]) PROVE FALSE
  <2>1. i > 1 /\ Leads(q[i - 1], q[i])
    BY <1>2, <1>5, <1>6 DEF LedIn, IsCommand, IsMarker
  <2>2. i - 1 \in DOMAIN q /\ i - 1 < Len(q) /\ (i - 1) + 1 = i /\ i - 1 # Len(q)
    BY <1>4, <2>1
  <2>3. MatchAt("game", q, i - 1)
    BY <1>5, <1>6, <2>1, <2>2 DEF MatchAt, IsIac, Leads, IsMarker
  <2>4. PartialAt("game", q, i - 1)
    BY <1>3, <2>2, <2>3 DEF Answered
  <2> QED BY <1>5, <1>6, <2>2, <2>4 DEF PartialAt, IsMarker
<1> QED BY <1>6 DEF Marks

\* zlib stays ready.
LEMMA ReadyStays == TypeInv /\ [Next]_vars /\ inflate.on => inflate'.on
<1> SUFFICES ASSUME TypeInv, [Next]_vars, inflate.on PROVE inflate'.on
  OBVIOUS
<1>0. inflate \in [on: BOOLEAN, pos: Nat, bad: BOOLEAN, held: Seq(Input),
                   spent: BOOLEAN]
  BY DEF TypeInv, ZlibType
<1>1. CASE ReadInflated
  <2>1. \E p, h : inflate' = [inflate EXCEPT !.pos = p, !.held = h]
    BY <1>1 DEF ReadInflated
  <2> QED BY <1>0, <2>1
<1>2. CASE ReadCorrupt
  <2>1. \E b, h, t : inflate' = [inflate EXCEPT !.bad = b, !.held = h, !.spent = t]
    BY <1>2 DEF ReadCorrupt
  <2> QED BY <1>0, <2>1
<1>3. CASE Mccp2SbStart
  BY <1>3 DEF Mccp2SbStart
<1>4. CASE UNCHANGED inflate
  BY <1>4
<1> QED BY <1>1, <1>2, <1>3, <1>4 DEF Next, Loop, Handler, Peer, Start, SetNonblocking,
   CheckFallback, Poll, PollTimeout, Read, ReadNothing, ReadError, ScanNoMatch,
   ScanPartial, ScanMatch, Forward, MnesRequest, MnesDoes, MnesClientWill,
   MnesClientWont, RespondDont, RespondDo, RespondWont, Respond, MccpIgnore, Mccp2Do,
   Mccp2DoFails, Mccp2Dont, Mccp2SbStartFails, InitFails, PollInterrupted,
   GameCompresses, GameEndsZlib, Send, HangUp, Tick, Terminated, vars

\* What is read past zlib moves from the socket to the buffer.
LEMMA ReadMoves ==
    ASSUME TypeInv, Read
    PROVE  /\ \E x \in Seq(Element) : /\ net[Cur] = x \o net'[Cur]
                                      /\ inb'[Cur] = inb[Cur] \o x
           /\ ~Inflating(Cur)
           /\ \A s \in Side : s # Cur => net'[s] = net[s] /\ inb'[s] = inb[s]
<1>1. PICK n \in 1 .. Len(net[Cur]) :
        /\ inb' = [inb EXCEPT ![Cur] = inb[Cur] \o SubSeq(net[Cur], 1, n)]
        /\ net' = [net EXCEPT ![Cur] = After(net[Cur], n)]
  BY DEF Read
<1>2. Cur \in Side /\ net[Cur] \in Seq(Element)
  BY CurType, InputType DEF TypeInv, PeerType
<1>3. n \in 0 .. Len(net[Cur])
  BY <1>1, <1>2, LenProperties
<1>4. SubSeq(net[Cur], 1, n) \in Seq(Element)
      /\ SubSeq(net[Cur], 1, n) \o After(net[Cur], n) = net[Cur]
  BY <1>2, <1>3, UpToType, PartsJoin
<1>5. net'[Cur] = After(net[Cur], n) /\ inb'[Cur] = inb[Cur] \o SubSeq(net[Cur], 1, n)
  BY <1>1, <1>2 DEF TypeInv, InType, PeerType
<1>6. \A s \in Side : s # Cur => net'[s] = net[s] /\ inb'[s] = inb[s]
  BY <1>1, <1>2 DEF TypeInv, InType, PeerType
<1> QED BY <1>4, <1>5, <1>6 DEF Read

\* Who does not send anything leaves the sockets, or takes something off them.
LEMMA TakesIn ==
    ASSUME TypeInv, [Next]_vars, ~\E s \in Side : Sends(s)
    PROVE  /\ UNCHANGED gz
           /\ \A s \in Side : \E k \in Nat : net'[s] = After(net[s], k)
<1>1. \A s \in Side : net[s] \in Seq(Element)
  BY StreamType
<1> DEFINE Shrinks == \A s \in Side : \E k \in Nat : net'[s] = After(net[s], k)
<1>2. ASSUME UNCHANGED net PROVE Shrinks
  <2>1. \A s \in Side : net'[s] = After(net[s], 0) /\ 0 \in Nat
    BY <1>1, <1>2, Untouched
  <2> QED BY <2>1
<1>3. ASSUME NEW t \in Side, NEW n \in Nat, net' = [net EXCEPT ![t] = After(net[t], n)]
      PROVE  Shrinks
  <2> SUFFICES ASSUME NEW s \in Side PROVE \E k \in Nat : net'[s] = After(net[s], k)
    OBVIOUS
  <2>1. CASE s = t
    BY <1>3, <2>1 DEF TypeInv, PeerType
  <2>2. CASE s # t
    <3>1. net'[s] = net[s]
      BY <1>3, <2>2 DEF TypeInv, PeerType
    <3> QED BY <1>1, <3>1, Untouched
  <2> QED BY <2>1, <2>2
<1>4. ASSUME Read PROVE Shrinks
  <2>1. PICK n \in 1 .. Len(net[Cur]) : net' = [net EXCEPT ![Cur] = After(net[Cur], n)]
    BY <1>4 DEF Read
  <2>2. n \in Nat
    BY <1>1, <2>1, CurType, LenProperties
  <2> QED BY <1>3, <2>1, <2>2, CurType
<1>5. ASSUME ReadInflated \/ ReadCorrupt PROVE Shrinks
  <2>1. PICK n \in 0 .. Len(net[Cur]) : net' = [net EXCEPT !["game"] = After(net["game"], n)]
    BY <1>5 DEF ReadInflated, ReadCorrupt, Refill
  <2>2. n \in Nat
    BY <1>1, <2>1, CurType, LenProperties
  <2> QED BY <1>3, <2>1, <2>2 DEF Side
<1>6. UNCHANGED gz
  BY DEF Next, Loop, Handler, Peer, Start, SetNonblocking, CheckFallback, Poll,
     PollTimeout, Read, ReadInflated, ReadCorrupt, ReadNothing, ReadError, ScanNoMatch,
     ScanPartial, ScanMatch, Forward, MnesRequest, MnesDoes, MnesClientWill,
     MnesClientWont, RespondDont, RespondDo, RespondWont, Respond, MccpIgnore, Mccp2Do,
     Mccp2DoFails, Mccp2Dont, Mccp2SbStart, Mccp2SbStartFails, InitFails,
     PollInterrupted, HangUp, Tick, Terminated, vars, peerVars, Sends, Side
<1>7. UNCHANGED net \/ Read \/ ReadInflated \/ ReadCorrupt
  BY DEF Next, Loop, Handler, Peer, Start, SetNonblocking, CheckFallback, Poll,
     PollTimeout, ReadNothing, ReadError, ScanNoMatch, ScanPartial, ScanMatch, Forward,
     MnesRequest, MnesDoes, MnesClientWill, MnesClientWont, RespondDont, RespondDo,
     RespondWont, Respond, MccpIgnore, Mccp2Do, Mccp2DoFails, Mccp2Dont, Mccp2SbStart,
     Mccp2SbStartFails, InitFails, PollInterrupted, HangUp, Tick, Terminated, vars,
     peerVars, Sends, Side
<1> QED BY <1>2, <1>4, <1>5, <1>6, <1>7

\* A game that is to be decoded waits until the start of its zlib stream has
\* been read.
Waits == MayCoalesce => \A m \in Modes : m["game"] # "enable"

\* The settings are among those that a session may be given.
LEMMA ModesAlways == Spec => [](mccp_mode \in Modes)
<1>1. Init => mccp_mode \in Modes
  BY DEF Init
<1>2. mccp_mode \in Modes /\ [Next]_vars => (mccp_mode \in Modes)'
  BY ModeStays
<1> QED BY <1>1, <1>2, PTL DEF Spec

\* What the game sends
LEMMA ZipSends ==
    ASSUME TypeInv, StreamInv, RelayInv, AnsweredInv, ZipInv, [Next]_vars,
           Waits, mccp_mode \in Modes, zfails = 0, NEW s \in Side, Sends(s)
    PROVE  /\ gz'.pos = 0 => gz.pos = 0 /\ Plain(net'["game"])
           /\ Minds /\ mccp_mode["game"] # "enable" => ~gz'.on /\ gz'.pos = 0
           /\ mccp_mode["game"] = "enable" =>
                 /\ gz'.pos > 0 => inflate.on
                 /\ gz'.on => inflate.on \/ Marks(inb["game"]) \/ Marks(net'["game"])
<1>0. gz \in [on: BOOLEAN, pos: Nat] /\ net["game"] \in Seq(Element)
  BY StreamType DEF TypeInv, PeerType, Side
<1>1. PICK m \in Seq(Cell), zipped \in BOOLEAN :
        /\ net' = [net EXCEPT ![s] = net[s] \o Fresh(m, stamp[s], zipped, gz.pos)]
        /\ Zips(s, m, zipped)
  BY SendsFresh
<1> DEFINE new == Fresh(m, stamp[s], zipped, gz.pos)
<1>2. Len(m) \in Nat /\ DOMAIN m = 1 .. Len(m)
  BY LenProperties
<1>3. /\ gz' \in [on: BOOLEAN, pos: Nat]
      /\ gz'.pos = IF zipped THEN gz.pos + Len(m) ELSE gz.pos
      /\ zipped => /\ s = "game" /\ gz.on
                   /\ mccp_mode["game"] = "enable" => gz.pos > 0 \/ net["game"] = <<>>
      /\ gz'.on /\ ~gz.on =>
            /\ s = "game" /\ ~zipped /\ m = Command("SB", "MCCP2")
            /\ \E i \in DOMAIN sent["game"] : sent["game"][i].cell = <<"DO", "MCCP2">>
  <2>1. mccp_mode["game"] = "enable" => ~MayCoalesce
    BY DEF Waits
  <2> QED BY <1>1, <2>1 DEF Zips
<1>4. new \in Seq(Element)
  BY FreshType, InputType DEF TypeInv, PeerType
<1>5. \/ s = "game" /\ net'["game"] = net["game"] \o new
      \/ s # "game" /\ net'["game"] = net["game"]
  BY <1>1 DEF TypeInv, PeerType, Side
<1>6. ~zipped \/ Len(m) = 0 => Plain(new)
  <2>1. CASE ~zipped
    BY <2>1 DEF Fresh, Plain
  <2>2. CASE Len(m) = 0
    <3>1. DOMAIN m = {}
      BY <1>2, <2>2
    <3> QED BY <3>1 DEF Fresh, Plain
  <2> QED BY <2>1, <2>2
<1>7. s = "game" /\ m = Command("SB", "MCCP2") /\ ~zipped => Marks(new)
  <2> SUFFICES ASSUME m = Command("SB", "MCCP2"), ~zipped PROVE Marks(new)
    OBVIOUS
  <2>1. m[2] = <<"SB", "MCCP2">> /\ DOMAIN m = 1 .. 2
    <3>1. Len(m) = 2
      BY CommandType DEF Verb, Option
    <3>2. m[2] = <<"SB", "MCCP2">>
      BY DEF Command
    <3> QED BY <1>2, <3>1, <3>2
  <2>2. 2 \in DOMAIN new /\ new[2].enc = 0 /\ new[2].cell = <<"SB", "MCCP2">>
    <3>1. 2 \in DOMAIN m
      BY <2>1
    <3> QED BY <2>1, <3>1 DEF Fresh
  <2> QED BY <2>2 DEF Marks, IsMarker
<1> HIDE DEF new
<1>8. gz.pos = 0 => Plain(net["game"])
  BY DEF ZipInv
<1>13. Marks(net["game"] \o new) <=> Marks(net["game"]) \/ Marks(new)
  BY <1>0, <1>4, MarksParts
<1>9. gz'.pos = 0 => gz.pos = 0 /\ Plain(net'["game"])
  <2> SUFFICES ASSUME gz'.pos = 0 PROVE gz.pos = 0 /\ Plain(net'["game"])
    OBVIOUS
  <2>1. gz.pos = 0 /\ (~zipped \/ Len(m) = 0)
    <3>1. gz.pos \in Nat
      BY <1>0
    <3> QED BY <1>2, <1>3, <3>1
  <2>2. Plain(net["game"] \o new)
    BY <1>0, <1>4, <1>6, <1>8, <2>1, PlainParts
  <2> QED BY <1>5, <1>8, <2>1, <2>2
<1>10. ASSUME Minds, mccp_mode["game"] # "enable" PROVE ~gz'.on /\ gz'.pos = 0
  <2>1. ~gz.on /\ gz.pos = 0
    BY <1>10 DEF ZipInv
  <2>2. \A i \in DOMAIN sent["game"] : sent["game"][i].cell # <<"DO", "MCCP2">>
    BY <1>10, NotTold
  <2> QED BY <1>3, <2>1, <2>2
<1>11. ASSUME mccp_mode["game"] = "enable", gz'.pos > 0 PROVE inflate.on
  <2>1. CASE gz.pos > 0
    BY <1>11, <2>1 DEF ZipInv
  <2>2. CASE ~(gz.pos > 0)
    <3>1. zipped
      BY <1>3, <1>11, <2>2
    <3>2. gz.on /\ net["game"] = <<>>
      BY <1>0, <1>3, <1>11, <2>2, <3>1
    <3>3. ~Marks(net["game"])
      <4>1. DOMAIN <<>> = {}
        BY EmptySeq, LenProperties
      <4> QED BY <3>2, <4>1 DEF Marks
    <3>4. ~Marks(inb["game"])
      <4>1. pc = "poll"
        BY DEF Sends, Send, GameCompresses, GameEndsZlib, Waiting
      <4> QED BY <1>11, <4>1, MarkerHandled
    <3> QED BY <1>11, <3>2, <3>3, <3>4 DEF ZipInv
  <2> QED BY <2>1, <2>2
<1>12. ASSUME mccp_mode["game"] = "enable", gz'.on
       PROVE  inflate.on \/ Marks(inb["game"]) \/ Marks(net'["game"])
  <2>1. CASE gz.on
    <3>1. inflate.on \/ Marks(inb["game"]) \/ Marks(net["game"])
      BY <1>12, <2>1 DEF ZipInv
    <3>2. Marks(net["game"]) => Marks(net'["game"])
      BY <1>5, <1>13
    <3> QED BY <3>1, <3>2
  <2>2. CASE ~gz.on
    <3>1. s = "game" /\ Marks(new)
      BY <1>3, <1>7, <1>12, <2>2
    <3>2. Marks(net'["game"])
      BY <1>5, <1>13, <3>1
    <3> QED BY <3>2
  <2> QED BY <2>1, <2>2
<1> QED BY <1>9, <1>10, <1>11, <1>12

\* What is popped from the game's input, with zlib not ready, is no marker.
LEMMA MarkerStays ==
    ASSUME TypeInv, StreamInv, RelayInv, [Next]_vars, ~Read, ~inflate'.on,
           zfails' = 0, mccp_mode["game"] = "enable", Marks(inb["game"])
    PROVE  Marks(inb'["game"])
<1> DEFINE q == inb["game"]
<1>0. (q \in Seq(Element) /\ matching_enabled["game"]) \/ inb["game"] = <<>>
  <2>1. CASE pc = "init"
    BY <2>1 DEF StreamInv, QuietInv, Side
  <2>2. CASE pc # "init"
    BY <2>2, StreamType DEF RelayInv, ModeMatch, Side, TypeInv, NegoType
  <2> QED BY <2>1, <2>2
<1>1. inb["game"] # <<>>
  <2>1. DOMAIN <<>> = {}
    BY EmptySeq, LenProperties
  <2> QED BY <2>1 DEF Marks
<1>2. q \in Seq(Element) /\ matching_enabled["game"]
  BY <1>0, <1>1
<1>3. <<"SB", "MCCP2">> \in Watched("game") /\ <<"SB", "MCCP2">> \in MustSwallow["game"]
  BY DEF Watched, MustSwallow, MccpWatch
<1>4. ~inflate.on
  BY ReadyStays
<1>5. CASE Cur = "game" /\ (ScanNoMatch \/ ScanMatch \/ Forward)
  <2>1. zfails = 0
    BY <1>5 DEF ScanNoMatch, ScanMatch, Forward, faultVars
  <2>2. LedIn(Buffer)
    BY <1>2, <1>5, <2>1 DEF StreamInv, WholeInv, Buffer, Side
  <2>3. PICK data \in Seq(Input) : Relayable(Cur, data) /\ data \o inb'[Cur] = Buffer
    BY <1>2, <1>5, <2>2, ScanRelayable, ForwardRelayable DEF RelayInv, StreamInv
  <2>4. ~Marks(data)
    BY <1>3, <1>5, <2>3 DEF Relayable, Passed, Marks, IsMarker
  <2>5. data \in Seq(Element) /\ inb'[Cur] \in Seq(Element)
    <3>1. TypeInv'
      BY TypeNext
    <3>2. inb'[Cur] \in Seq(Input)
      BY <3>1, CurType DEF TypeInv, InType
    <3> QED BY <3>2, InputType
  <2> QED BY ZenonT(30), <1>5, <2>3, <2>4, <2>5, MarksParts DEF Buffer
<1>6. CASE pc = "match" /\ Cur = "game" /\ Handled /\ ~IsMarker(Buffer[2])
  <2>1. Len(q) \in Nat /\ Len(q) >= 2
    BY <1>2, <1>6, LenProperties DEF TypeInv, HeadInv
  <2>2. 2 \in 0 .. Len(q)
    BY <2>1
  <2> DEFINE p == SubSeq(q, 1, 2)
             r == After(q, 2)
  <2>3. p \in Seq(Element) /\ Len(p) = 2 /\ r \in Seq(Element) /\ p \o r = q
    BY <1>2, <2>2, UpToType, AfterType, PartsJoin
  <2>4. p[1] = q[1] /\ p[2] = q[2]
    <3>1. \A i \in 1 .. 2 : p[i] = q[i]
      BY <1>2, <2>2, SubSeqProperties
    <3> QED BY <3>1
  <2>5. inb'["game"] = r
    BY <1>6 DEF Handled, Pop, TypeInv, InType, Side
  <2>6. ~IsMarker(q[1]) /\ ~IsMarker(q[2])
    <3>1. q[1].cell = IAC
      BY <1>6 DEF StreamInv, HeadCommand, Buffer, IsIac
    <3>2. IAC # <<"SB", "MCCP2">>
      BY DEF IAC
    <3>3. ~IsMarker(q[1])
      BY <3>1, <3>2 DEF IsMarker
    <3> QED BY <1>6, <3>3 DEF Buffer
  <2>7. DOMAIN p = {1, 2}
    BY <2>3, LenProperties
  <2> HIDE DEF p, q, r
  <2>8. ~Marks(p)
    BY <2>4, <2>6, <2>7 DEF Marks
  <2>9. Marks(r)
    BY <2>3, <2>8, MarksParts DEF q
  <2> QED BY <2>5, <2>9
<1>7. CASE inb'["game"] = inb["game"]
  BY <1>7
<1>8. \/ Cur = "game" /\ (ScanNoMatch \/ ScanMatch \/ Forward)
      \/ pc = "match" /\ Cur = "game" /\ Handled /\ ~IsMarker(Buffer[2])
      \/ inb'["game"] = inb["game"]
  <2>1. CASE Works
    <3>1. CASE Cur # "game"
      BY <2>1, <3>1 DEF Works, Side
    <3>2. CASE Cur = "game"
      <4>1. ~ReadInflated
        BY <1>4 DEF ReadInflated, Refill, Inflating
      <4>2. ~Mccp2SbStart
        BY DEF Mccp2SbStart
      <4>3. ~InitFails
        BY DEF InitFails, TypeInv, ZlibType
      <4>4. CASE MnesRequest \/ RespondDont \/ RespondDo
        <5>1. Matched("game", {<<"SEND", "ALL">>, <<"SEND", "">>})
              \/ Matched("game", {"WILL"} \X MccpOption)
              \/ Matched("game", {<<"WILL", "MCCP2">>})
          BY <4>4 DEF MnesRequest, RespondDont, RespondDo
        <5>2. pc = "match" /\ Buffer[2].cell # <<"SB", "MCCP2">>
          <6>1. /\ <<"SB", "MCCP2">> \notin {<<"SEND", "ALL">>, <<"SEND", "">>}
                /\ <<"SB", "MCCP2">> \notin {"WILL"} \X MccpOption
                /\ <<"SB", "MCCP2">> \notin {<<"WILL", "MCCP2">>}
            OBVIOUS
          <6> QED BY <5>1, <6>1 DEF Matched
        <5>3. Handled \/ NotHandled
          BY <4>4 DEF MnesRequest, RespondDont, RespondDo, Respond
        <5> QED BY <3>2, <5>2, <5>3 DEF IsMarker, NotHandled
      <4>5. ~(MnesClientWill \/ MnesClientWont \/ RespondWont \/ Mccp2Do \/ Mccp2Dont)
        BY <3>2 DEF MnesClientWill, MnesClientWont, RespondWont, Mccp2Do, Mccp2Dont,
           DoMatched, DontMatched, Matched
      <4>6. CASE MnesDoes \/ MccpIgnore
        BY <4>6 DEF MnesDoes, MccpIgnore, NotHandled
      <4>7. CASE Outside \/ ScanPartial \/ Tick \/ UNCHANGED vars
        BY <4>7, OutsideRests DEF ScanPartial, Tick, vars
      <4> QED BY <3>2, <4>1, <4>2, <4>3, <4>4, <4>5, <4>6, <4>7 DEF Next, Loop, Handler,
                 Mccp2DoFails, Mccp2SbStartFails, Terminated, Outside
    <3> QED BY <3>1, <3>2
  <2>2. CASE Outside \/ ScanPartial \/ Tick \/ UNCHANGED vars
    BY <2>2, OutsideRests DEF ScanPartial, Tick, vars
  <2> QED BY <2>1, <2>2, NextServes
<1> QED BY <1>5, <1>6, <1>7, <1>8

\* The game's input is telnet, if MUDitM minds.
LEMMA InputPlain ==
    ASSUME TypeInv, ZipInv, [Next]_vars, zfails = 0, Minds
    PROVE  Plain(inb'["game"])
<1>1. /\ inb["game"] \in Seq(Element) /\ net["game"] \in Seq(Element)
      /\ Plain(inb["game"])
  BY StreamType DEF ZipInv, Side
<1>2. CASE Read
  <2>1. CASE Cur = "game"
    <3>1. ~inflate.on
      BY <1>2, <2>1 DEF Read, Inflating
    <3>2. gz.pos = 0
      <4>1. gz.pos \in Nat
        BY DEF TypeInv, PeerType
      <4>2. gz.pos = 0 \/ gz.pos > 0
        BY <4>1
      <4> QED BY <3>1, <4>2 DEF ZipInv
    <3>3. PICK x \in Seq(Element) : /\ net["game"] = x \o net'["game"]
                                    /\ inb'["game"] = inb["game"] \o x
      BY <1>2, <2>1, ReadMoves
    <3>4. Plain(net["game"]) /\ net'["game"] \in Seq(Element)
      <4>1. TypeInv'
        BY TypeNext
      <4>2. net'["game"] \in Seq(Input)
        BY <4>1 DEF TypeInv, PeerType, Side
      <4> QED BY <3>2, <4>2, InputType DEF ZipInv
    <3>5. Plain(x)
      BY <3>3, <3>4, PlainParts
    <3>6. Plain(inb["game"] \o x)
      BY <1>1, <3>5, PlainParts
    <3> QED BY <3>3, <3>6
  <2>2. CASE Cur # "game"
    <3>1. inb'["game"] = inb["game"]
      BY <1>2, <2>2, ReadMoves DEF Side
    <3> QED BY <1>1, <3>1
  <2> QED BY <2>1, <2>2
<1>3. CASE ReadInflated
  <2>1. PICK n \in 0 .. Len(net[Cur]) :
          inb' = [inb EXCEPT !["game"] = inb["game"] \o
             [i \in DOMAIN Next_in(n) |-> [Next_in(n)[i] EXCEPT !.enc = 0, !.pos = 0]]]
    BY <1>3 DEF ReadInflated
  <2>2. Cur = "game"
    BY <1>3 DEF ReadInflated, Refill, Inflating
  <2> DEFINE data == Next_in(n)
             x == [i \in DOMAIN data |-> [data[i] EXCEPT !.enc = 0, !.pos = 0]]
  <2>3. data \in Seq(Input)
    BY <2>1, <2>2, NextInType
  <2>4. x \in Seq(Element) /\ Plain(x)
    <3> HIDE DEF data
    <3>0. data \in [1 .. Len(data) -> Input] /\ Len(data) \in Nat
      BY <2>3, LenProperties
    <3>2. DOMAIN x = DOMAIN data
      OBVIOUS
    <3>4. ASSUME NEW i \in DOMAIN data PROVE x[i] \in Input
      <4>1. data[i] \in Input
        BY <2>3, <3>4, ElementOfSeq, LenProperties
      <4>2. [data[i] EXCEPT !.enc = 0, !.pos = 0] \in Input
        BY <4>1, DecodedType, Zenon
      <4> QED BY <3>4, <4>2
    <3>5. x \in [1 .. Len(data) -> Input]
      BY <3>0, <3>4
    <3>1. x \in Seq(Input)
      BY <3>0, <3>5, SeqDef
    <3>3. ASSUME NEW i \in DOMAIN data PROVE x[i].enc = 0
      <4>1. data[i] \in Element
        BY <2>3, <3>3, ElementOfSeq, LenProperties DEF Input
      <4> QED BY <3>3, <4>1 DEF Element
    <3> QED BY <3>1, <3>2, <3>3, InputType DEF Plain
  <2>5. inb'["game"] = inb["game"] \o x
    BY <2>1 DEF TypeInv, InType, Side
  <2> HIDE DEF x
  <2>6. Plain(inb["game"] \o x)
    BY <1>1, <2>4, PlainParts
  <2> QED BY <2>5, <2>6
<1>4. CASE ~(Read \/ ReadInflated)
  <2>1. PICK k \in Nat : inb'["game"] = After(inb["game"], k)
    BY <1>4, TakesOff DEF Side
  <2> QED BY <1>1, <2>1, PlainAfter
<1> QED BY <1>2, <1>3, <1>4

\* What the client is sent is free of it.
LEMMA ClientSpared ==
    ASSUME TypeInv, StreamInv, RelayInv, ZipInv, [Next]_vars,
           zfails = 0, zfails' = 0, Minds
    PROVE  RawFree(sent'["client"])
<1>1. sent["client"] \in Seq(Element) /\ RawFree(sent["client"])
  BY StreamType DEF ZipInv, Side
<1>2. CASE ~(ScanNoMatch \/ ScanMatch \/ Forward)
  <2>1. ~InitFails
    BY DEF InitFails, TypeInv, ZlibType
  <2>2. Speaks
    BY <1>2, <2>1, StepSpeaks DEF RelayInv, SentInv, StreamInv
  <2>3. PICK x \in Seq(Element) :
          sent'["client"] = sent["client"] \o x /\ Spoken(x, Voice("client")')
    BY <2>2 DEF Speaks, Side
  <2>4. RawZlib \notin Voice("client")'
    BY DEF Voice, RawZlib, IAC, MccpOption
  <2>5. RawFree(x)
    BY <2>3, <2>4 DEF RawFree, Spoken
  <2>6. RawFree(sent["client"] \o x)
    BY <1>1, <2>5, RawFreeJoin
  <2> QED BY <2>3, <2>6
<1>3. CASE (ScanNoMatch \/ ScanMatch \/ Forward) /\ Cur = "game"
  <2>1. PICK data \in Seq(Input) :
          /\ Write(Other(Cur), data)
          /\ \A i \in DOMAIN data : i \in DOMAIN Buffer /\ data[i] = Buffer[i]
    BY <1>3, ScanRelayable, ForwardRelayable DEF RelayInv, StreamInv
  <2>2. Write("client", data) /\ Other("game") = "client" /\ "game" \in Side
    BY <1>3, <2>1 DEF Other, Side
  <2>3. \A i \in DOMAIN data : data[i].enc = 0
    BY <1>3, <2>1 DEF Buffer, ZipInv, Plain
  <2>8. Write(Other("game"), data)
    BY <2>2
  <2>4. PICK x \in Seq(Element) :
          /\ sent' = [sent EXCEPT ![Other("game")] = sent[Other("game")] \o x]
          /\ \A i \in DOMAIN x : x[i].src > 0
          /\ Relayable("game", data) => Clean("game", x)
          /\ (\A i \in DOMAIN data : data[i].enc = 0) =>
                \A i \in DOMAIN x : x[i].enc # -1 /\ x[i].cell # RawZlib
    BY <2>2, <2>8, WriteClean
  <2>5. RawFree(x)
    BY <2>3, <2>4 DEF RawFree
  <2>6. RawFree(sent["client"] \o x)
    BY <1>1, <2>5, RawFreeJoin
  <2>7. sent'["client"] = sent["client"] \o x
    BY <2>2, <2>4 DEF TypeInv, OutType, Side
  <2> QED BY <2>6, <2>7
<1>4. CASE (ScanNoMatch \/ ScanMatch \/ Forward) /\ Cur = "client"
  <2>1. PICK data \in Seq(Input) : Write(Other(Cur), data)
    BY <1>4, ScanRelayable, ForwardRelayable DEF RelayInv, StreamInv
  <2>2. PICK x \in Seq(Element) : sent' = [sent EXCEPT ![Other(Cur)] = sent[Other(Cur)] \o x]
    BY <2>1, CurType, WriteClean
  <2>3. sent'["client"] = sent["client"]
    BY <1>4, <2>2 DEF Other, TypeInv, OutType, Side
  <2> QED BY <1>1, <2>3
<1> QED BY <1>2, <1>3, <1>4, CurType DEF Side

\* At first
LEMMA ZipInit == Init => ZipInv /\ AnsweredInv
<1> SUFFICES ASSUME Init PROVE ZipInv /\ AnsweredInv
  OBVIOUS
<1>1. DOMAIN <<>> = {}
  BY EmptySeq, LenProperties
<1>2. AnsweredInv
  BY DEF Init, AnsweredInv
<1>3. /\ \A s \in Side : net[s] = <<>> /\ inb[s] = <<>> /\ sent[s] = <<>>
      /\ gz.pos = 0 /\ ~gz.on
  BY DEF Init
<1>4. ~(0 > 0)
  OBVIOUS
<1>5. Plain(net["game"]) /\ Plain(inb["game"]) /\ RawFree(sent["client"])
  BY <1>1, <1>3 DEF Plain, RawFree, Side
<1> QED BY <1>2, <1>3, <1>4, <1>5 DEF ZipInv

\* Every step keeps it.
LEMMA ZipNext ==
    ASSUME Waits
    PROVE  TypeInv /\ StreamInv /\ RelayInv /\ AnsweredInv /\ ZipInv
           /\ mccp_mode \in Modes /\ [Next]_vars => ZipInv'
<1> SUFFICES ASSUME TypeInv, StreamInv, RelayInv, AnsweredInv, ZipInv,
                    mccp_mode \in Modes, [Next]_vars
             PROVE  ZipInv'
  OBVIOUS
<1> SUFFICES ASSUME zfails' = 0 PROVE ZipInv'
  BY DEF ZipInv
<1>0. zfails = 0 /\ mccp_mode' = mccp_mode /\ Minds' = Minds
  <2>1. UNCHANGED mccp_mode
    BY ModeStays
  <2>2. zfails \in Nat
    BY DEF TypeInv, ZlibType
  <2>3. zfails' = zfails \/ zfails' = zfails + 1
    BY DEF Next, Loop, Handler, Peer, Start, SetNonblocking, CheckFallback, Poll,
       PollTimeout, Read, ReadInflated, ReadCorrupt, ReadNothing, ReadError, ScanNoMatch,
       ScanPartial, ScanMatch, Forward, MnesRequest, MnesDoes, MnesClientWill,
       MnesClientWont, RespondDont, RespondDo, RespondWont, Respond, MccpIgnore, Mccp2Do,
       Mccp2DoFails, Mccp2Dont, Mccp2SbStart, Mccp2SbStartFails, InitFails,
       PollInterrupted, GameCompresses, GameEndsZlib, Send, HangUp, Tick, Terminated,
       vars, faultVars
  <2>4. zfails = 0
    BY <2>2, <2>3
  <2> QED BY <2>1, <2>4 DEF Minds
<1>1. Minds => Plain(inb'["game"]) /\ RawFree(sent'["client"])
  BY <1>0, InputPlain, ClientSpared
<1>2. /\ gz'.pos = 0 => Plain(net'["game"])
      /\ Minds /\ mccp_mode["game"] # "enable" => ~gz'.on /\ gz'.pos = 0
      /\ mccp_mode["game"] = "enable" =>
            /\ gz'.pos > 0 => inflate'.on
            /\ gz'.on => \/ inflate'.on
                         \/ Marks(inb'["game"]) \/ Marks(net'["game"])
  <2>1. CASE \E s \in Side : Sends(s)
    <3>1. UNCHANGED <<inb, inflate>>
      BY <2>1 DEF Sends, Send, GameCompresses, GameEndsZlib
    <3> QED BY <1>0, <2>1, <3>1, ZipSends
  <2>2. CASE ~\E s \in Side : Sends(s)
    <3>1. UNCHANGED gz /\ net["game"] \in Seq(Element) /\ inb["game"] \in Seq(Element)
      BY <2>2, TakesIn, StreamType DEF Side
    <3>2. gz.pos = 0 => Plain(net'["game"])
      <4>1. PICK k \in Nat : net'["game"] = After(net["game"], k)
        BY <2>2, TakesIn DEF Side
      <4> QED BY <1>0, <3>1, <4>1, PlainAfter DEF ZipInv
    <3>3. ASSUME mccp_mode["game"] = "enable", gz.on, ~inflate'.on
          PROVE  Marks(inb'["game"]) \/ Marks(net'["game"])
      <4>1. ~inflate.on
        BY <3>3, ReadyStays
      <4>2. Marks(inb["game"]) \/ Marks(net["game"])
        BY <1>0, <3>3, <4>1 DEF ZipInv
      <4>3. CASE Read /\ Cur = "game"
        <5>1. PICK x \in Seq(Element) : /\ net["game"] = x \o net'["game"]
                                        /\ inb'["game"] = inb["game"] \o x
          BY <4>3, ReadMoves
        <5>2. net'["game"] \in Seq(Element)
          <6>1. TypeInv'
            BY TypeNext
          <6>2. net'["game"] \in Seq(Input)
            BY <6>1 DEF TypeInv, PeerType, Side
          <6> QED BY <6>2, InputType
        <5>3. Marks(x \o net'["game"]) <=> Marks(x) \/ Marks(net'["game"])
          BY <5>2, MarksParts
        <5>4. Marks(inb["game"] \o x) <=> Marks(inb["game"]) \/ Marks(x)
          BY <3>1, MarksParts
        <5> QED BY <4>2, <5>1, <5>3, <5>4
      <4>4. CASE Read /\ Cur # "game"
        BY <4>2, <4>4, ReadMoves DEF Side
      <4>5. CASE ~Read
        <5>1. net'["game"] = net["game"]
          <6>1. ~ReadInflated /\ ~ReadCorrupt
            BY <4>1 DEF ReadInflated, ReadCorrupt, Refill, Inflating
          <6> QED BY <2>2, <4>5, <6>1 DEF Next, Loop, Handler, Peer, Start, SetNonblocking,
             CheckFallback, Poll, PollTimeout, ReadNothing, ReadError, ScanNoMatch,
             ScanPartial, ScanMatch, Forward, MnesRequest, MnesDoes, MnesClientWill,
             MnesClientWont, RespondDont, RespondDo, RespondWont, Respond, MccpIgnore,
             Mccp2Do, Mccp2DoFails, Mccp2Dont, Mccp2SbStart, Mccp2SbStartFails, InitFails,
             PollInterrupted, HangUp, Tick, Terminated, vars, peerVars, Sends, Side
        <5>2. Marks(inb["game"]) => Marks(inb'["game"])
          BY <3>3, <4>5, MarkerStays
        <5> QED BY <4>2, <5>1, <5>2
      <4> QED BY <4>3, <4>4, <4>5
    <3>4. mccp_mode["game"] = "enable" => (gz.pos > 0 => inflate'.on)
      BY <1>0, ReadyStays DEF ZipInv
    <3>5. Minds /\ mccp_mode["game"] # "enable" => ~gz.on /\ gz.pos = 0
      BY <1>0 DEF ZipInv
    <3> QED BY <3>1, <3>2, <3>3, <3>4, <3>5
  <2> QED BY <2>1, <2>2
<1> QED BY <1>0, <1>1, <1>2 DEF ZipInv

\* It holds all along.
LEMMA ZipAlways == ASSUME Waits PROVE Spec => []ZipInv
<1>1. Init => ZipInv /\ AnsweredInv
  BY ZipInit
<1>2. TypeInv /\ StreamInv /\ AnsweredInv /\ [Next]_vars => AnsweredInv'
  BY AnsweredNext DEF StreamInv
<1>3. TypeInv /\ StreamInv /\ RelayInv /\ AnsweredInv /\ ZipInv
      /\ mccp_mode \in Modes /\ [Next]_vars => ZipInv'
  BY ZipNext
<1> QED BY <1>1, <1>2, <1>3, TypeAlways, StreamAlways, RelayAlways, ModesAlways,
   PTL DEF Spec

\* A game that waits for its marker to be read is decoded whole, or the session
\* ends: nothing compressed is passed on to the client (mccp2_sb_start() and
\* read_endpoint_compressed() in src/mccp.c).  A game that is to be decoded and
\* does not wait is outside what the code can do.
THEOREM RawCorrect == ASSUME Waits PROVE Spec => []NoRawZlib
<1>1. TypeInv /\ ZipInv => NoRawZlib
  BY DEF ZipInv, Minds, RawFree, NoRawZlib
<1> QED BY <1>1, ZipAlways, TypeAlways, PTL


-----------------------------------------------------------------------------
(* The session and the relay.                                              *)

\* An item of a stream, as the relay sees it
Item == [cell: Cell \cup {RawZlib}, src: Nat]

\* The elements of q, each seen through f
Each(f, q) == [i \in DOMAIN q |-> f[q[i]]]

\* It is a sequence as long as q, ...
LEMMA EachType ==
    ASSUME NEW f, \A e \in Element : f[e] \in Item,
           NEW q \in Seq(Element)
    PROVE  /\ Each(f, q) \in Seq(Item) /\ Len(Each(f, q)) = Len(q)
           /\ \A i \in 1 .. Len(q) : Each(f, q)[i] = f[q[i]]
<1> DEFINE x == Each(f, q)
<1>1. Len(q) \in Nat /\ DOMAIN q = 1 .. Len(q)
  BY LenProperties
<1>2. \A i \in 1 .. Len(q) : x[i] = f[q[i]]
  BY <1>1 DEF Each
<1>3. x = [i \in 1 .. Len(q) |-> x[i]]
  BY <1>1 DEF Each
<1>4. ASSUME NEW i \in 1 .. Len(q) PROVE x[i] \in Item
  <2>1. q[i] \in Element
    BY ElementOfSeq
  <2> QED BY <1>2, <2>1
<1> HIDE DEF x
<1>5. x \in Seq(Item) /\ Len(x) = Len(q)
  BY <1>1, <1>3, <1>4, SequenceType
<1> QED BY <1>2, <1>5 DEF x

\* ... and its parts are those of q.
LEMMA EachJoin ==
    ASSUME NEW f, \A e \in Element : f[e] \in Item,
           NEW p \in Seq(Element), NEW q \in Seq(Element)
    PROVE  Each(f, p \o q) = Each(f, p) \o Each(f, q)
<1> DEFINE w == p \o q
           a == Each(f, p)
           b == Each(f, q)
           c == Each(f, w)
           m == Len(p)
           n == Len(q)
<1>1. /\ w \in Seq(Element) /\ Len(w) = m + n /\ m \in Nat /\ n \in Nat
      /\ DOMAIN w = 1 .. m + n
      /\ \A i \in 1 .. m : w[i] = p[i]
      /\ \A i \in 1 .. n : w[i + m] = q[i]
  BY Joined
<1>8. \A e \in Element : f[e] \in Item /\ p \in Seq(Element) /\ q \in Seq(Element)
  OBVIOUS
<1> HIDE DEF w, m, n
<1>2. a \in Seq(Item) /\ Len(a) = m /\ \A i \in 1 .. m : a[i] = f[p[i]]
  BY <1>8, EachType DEF m
<1>3. b \in Seq(Item) /\ Len(b) = n /\ \A i \in 1 .. n : b[i] = f[q[i]]
  BY <1>8, EachType DEF n
<1>4. c \in Seq(Item) /\ Len(c) = m + n /\ \A i \in 1 .. m + n : c[i] = f[w[i]]
  <2>1. c \in Seq(Item) /\ Len(c) = Len(w) /\ \A i \in 1 .. Len(w) : c[i] = f[w[i]]
    BY <1>1, <1>8, EachType
  <2> QED BY <1>1, <2>1
<1> HIDE DEF a, b, c
<1>5. /\ a \o b \in Seq(Item) /\ Len(a \o b) = m + n
      /\ \A i \in 1 .. m : (a \o b)[i] = a[i]
      /\ \A i \in 1 .. n : (a \o b)[i + m] = b[i]
  <2>1. a \in Seq(Item) /\ b \in Seq(Item)
    BY <1>2, <1>3
  <2>2. /\ a \o b \in Seq(Item) /\ Len(a \o b) = Len(a) + Len(b)
        /\ \A i \in 1 .. Len(a) : (a \o b)[i] = a[i]
        /\ \A i \in 1 .. Len(b) : (a \o b)[i + Len(a)] = b[i]
    BY <2>1, Joined
  <2> QED BY <1>2, <1>3, <2>2
<1>6. ASSUME NEW i \in 1 .. m + n PROVE c[i] = (a \o b)[i]
  <2>1. CASE i \in 1 .. m
    <3>1. c[i] = f[w[i]] /\ w[i] = p[i]
      BY <1>1, <1>4, <2>1
    <3>2. (a \o b)[i] = a[i] /\ a[i] = f[p[i]]
      BY <1>2, <1>5, <2>1
    <3> QED BY <3>1, <3>2
  <2>2. CASE i \notin 1 .. m
    <3> DEFINE j == i - m
    <3>1. j \in 1 .. n /\ i = j + m
      BY <1>1, <2>2
    <3> HIDE DEF j
    <3>2. c[i] = f[q[j]]
      BY <1>1, <1>4, <3>1
    <3> QED BY <1>3, <1>5, <3>1, <3>2
  <2> QED BY <2>1, <2>2
<1>7. c = a \o b
  BY <1>4, <1>5, <1>6, SeqEqual
<1> QED BY <1>7 DEF a, b, c, w

\* The two parts that a sequence has been joined from
LEMMA Splits ==
    ASSUME NEW S, NEW p \in Seq(S), NEW q \in Seq(S)
    PROVE  /\ SubSeq(p \o q, 1, Len(p)) = p
           /\ SubSeq(p \o q, Len(p) + 1, Len(p \o q)) = q
<1> DEFINE m == Len(p)
           n == Len(q)
           w == p \o q
<1>1. w \in Seq(S) /\ Len(w) = m + n /\ m \in Nat /\ n \in Nat
  BY Joined
<1>2. \A i \in 1 .. m : w[i] = p[i]
  BY Joined
<1>3. \A i \in 1 .. n : w[i + m] = q[i]
  BY Joined
<1>4. SubSeq(w, 1, m) \in Seq(S) /\ Len(SubSeq(w, 1, m)) = m
  <2>1. m \in 0 .. Len(w)
    BY <1>1
  <2> QED BY <1>1, <2>1, UpToType
<1>5. \A i \in 1 .. m : SubSeq(w, 1, m)[i] = w[i]
  <2>1. m \in 0 .. Len(w)
    BY <1>1
  <2> HIDE DEF w, m, n
  <2>2. \A i \in 1 .. m : w[i] \in S
    BY <1>1, ElementOfSeq
  <2>3. \A i \in 1 .. m - 1 + 1 : SubSeq(w, 1, m)[i] = w[1 + i - 1]
    BY <1>1, <2>1, <2>2, SubSeqProperties
  <2>4. \A i \in 1 .. m : i \in 1 .. m - 1 + 1 /\ 1 + i - 1 = i
    BY <1>1
  <2> QED BY <2>3, <2>4
<1>6. After(w, m) \in Seq(S) /\ Len(After(w, m)) = n
  <2>1. m <= Len(w) /\ Len(w) - m = n
    BY <1>1
  <2> HIDE DEF w, m, n
  <2> QED BY <1>1, <2>1, AfterType
<1>7. \A i \in 1 .. n : After(w, m)[i] = w[i + m]
  <2>1. DOMAIN After(w, m) = 1 .. n
    BY <1>6, LenProperties
  <2> HIDE DEF w, m, n
  <2> QED BY <1>1, <2>1, AfterPart
<1> HIDE DEF w, m, n
<1>8. SubSeq(w, 1, m) = p
  BY <1>1, <1>2, <1>4, <1>5, SeqEqual DEF m
<1>9. After(w, m) = q
  BY <1>1, <1>3, <1>6, <1>7, SeqEqual DEF n
<1> QED BY <1>8, <1>9 DEF After, w, m

\* What a peer gets, and what a sender meant, item by item
LEMMA Translated ==
    ASSUME NEW p \in Seq(Element), NEW q \in Seq(Element)
    PROVE  /\ Gots(p) \in Seq(Item) /\ Len(Gots(p)) = Len(p)
           /\ \A i \in 1 .. Len(p) : Gots(p)[i] = Got(p[i])
           /\ Gots(p \o q) = Gots(p) \o Gots(q)
           /\ Meants(p) \in Seq(Item) /\ Len(Meants(p)) = Len(p)
           /\ \A i \in 1 .. Len(p) : Meants(p)[i] = Meant(p[i])
           /\ Meants(p \o q) = Meants(p) \o Meants(q)
<1> DEFINE f == [e \in Element |-> Got(e)]
           g == [e \in Element |-> Meant(e)]
<1>1. \A e \in Element : Got(e) \in Item /\ Meant(e) \in Item
  BY DEF Got, Meant, Item, Element
<1>2. f \in [Element -> Item] /\ g \in [Element -> Item]
  BY <1>1
<1>3. ASSUME NEW r \in Seq(Element)
      PROVE  Gots(r) = Each(f, r) /\ Meants(r) = Each(g, r)
  <2>1. \A i \in DOMAIN r : r[i] \in Element
    BY ElementOfSeq, LenProperties
  <2> QED BY <2>1 DEF Gots, Meants, Each
<1>4. \A e \in Element : f[e] = Got(e) /\ g[e] = Meant(e)
  OBVIOUS
<1>5. \A i \in 1 .. Len(p) : p[i] \in Element
  BY ElementOfSeq
<1>6. p \o q \in Seq(Element)
  BY ConcatProperties
<1> HIDE DEF f, g
<1>7. /\ Gots(p) = Each(f, p) /\ Gots(q) = Each(f, q) /\ Gots(p \o q) = Each(f, p \o q)
      /\ Meants(p) = Each(g, p) /\ Meants(q) = Each(g, q)
      /\ Meants(p \o q) = Each(g, p \o q)
  BY <1>3, <1>6
<1>12. /\ \A e \in Element : f[e] \in Item
      /\ \A e \in Element : g[e] \in Item
      /\ p \in Seq(Element) /\ q \in Seq(Element)
  BY <1>2, Zenon
<1>8. /\ Each(f, p) \in Seq(Item) /\ Len(Each(f, p)) = Len(p)
      /\ \A i \in 1 .. Len(p) : Each(f, p)[i] = f[p[i]]
  BY <1>12, EachType
<1>9. /\ Each(g, p) \in Seq(Item) /\ Len(Each(g, p)) = Len(p)
      /\ \A i \in 1 .. Len(p) : Each(g, p)[i] = g[p[i]]
  BY <1>12, EachType
<1>10. Each(f, p \o q) = Each(f, p) \o Each(f, q)
  BY <1>12, EachJoin
<1>11. Each(g, p \o q) = Each(g, p) \o Each(g, q)
  BY <1>12, EachJoin
<1> QED BY <1>4, <1>5, <1>7, <1>8, <1>9, <1>10, <1>11
\* It does not matter which parts are joined first.
LEMMA Associates ==
    ASSUME NEW p \in Seq(Element), NEW q \in Seq(Element), NEW r \in Seq(Element)
    PROVE  (p \o q) \o r = p \o (q \o r)
BY ConcatAssociative

\* What side s has sent and the session has not disposed of
Pending(s) == inb[s] \o Arriving(s)

\* The parts of it, before a step and after it
LEMMA TodoParts ==
    ASSUME TypeInv, [Next]_vars, NEW s \in Side
    PROVE  /\ Pending(s) \in Seq(Element) /\ Todo[s] = Meants(Pending(s))
           /\ \E a \in Seq(Element), b \in Seq(Element) :
                 a = inb'[s] /\ b = Arriving(s)' /\ Todo'[s] = Meants(a \o b)
<1>1. /\ inb[s] \in Seq(Element) /\ Decoding(s) \in Seq(Element)
      /\ net[s] \in Seq(Element)
  BY StreamType
<1>2. inb[s] \o Decoding(s) \o net[s] = inb[s] \o Arriving(s)
  BY <1>1, Associates DEF Arriving
<1>3. Pending(s) \in Seq(Element)
  BY <1>1, ConcatProperties DEF Pending, Arriving
<1>4. Todo[s] = Meants(Pending(s))
  BY <1>2 DEF Todo, Pending
<1>5. TypeInv'
  BY TypeNext
<1>6. /\ inb'[s] \in Seq(Element) /\ Decoding(s)' \in Seq(Element)
      /\ net'[s] \in Seq(Element)
  <2>1. inb'[s] \in Seq(Input) /\ net'[s] \in Seq(Input) /\ inflate'.held \in Seq(Input)
    BY <1>5 DEF TypeInv, InType, PeerType, ZlibType
  <2>2. <<>> \in Seq(Element)
    BY EmptySeq
  <2> QED BY <2>1, <2>2, InputType DEF Decoding
<1>7. PICK a \in Seq(Element), d \in Seq(Element), c \in Seq(Element) :
        a = inb'[s] /\ d = Decoding(s)' /\ c = net'[s]
  BY <1>6
<1>8. Todo'[s] = Meants(a \o d \o c)
  <2>1. UNCHANGED mccp_mode
    BY ModeStays
  <2>2. Todo'[s] = [i \in DOMAIN (a \o d \o c) |-> Meant((a \o d \o c)[i])']
    BY <1>7 DEF Todo, Meants
  <2> QED BY <2>1, <2>2 DEF Meants, Meant
<1>9. a \o d \o c = a \o (d \o c) /\ d \o c \in Seq(Element)
  BY <1>7, Associates, ConcatProperties
<1>10. d \o c = Arriving(s)'
  BY <1>7 DEF Arriving
<1> QED BY <1>3, <1>4, <1>7, <1>8, <1>9, <1>10

\* Where nothing is read, sent or popped, it is left as it is.
LEMMA TodoRests ==
    ASSUME TypeInv, [Next]_vars, NEW s \in Side,
           inb'[s] = inb[s], Arriving(s)' = Arriving(s)
    PROVE  Todo'[s] = Todo[s]
BY TodoParts DEF Pending

\* What is popped is the beginning of it.
LEMMA TodoPops ==
    ASSUME TypeInv, [Next]_vars, NEW s \in Side, NEW data \in Seq(Element),
           data \o inb'[s] = inb[s], Arriving(s)' = Arriving(s)
    PROVE  /\ Todo[s] = Meants(data) \o Todo'[s]
           /\ Todo'[s] \in Seq(Item)
<1>1. PICK a \in Seq(Element), b \in Seq(Element) :
        a = inb'[s] /\ b = Arriving(s)' /\ Todo'[s] = Meants(a \o b)
  BY TodoParts
<1>2. Todo[s] = Meants((data \o a) \o b)
  BY <1>1, TodoParts DEF Pending
<1>3. (data \o a) \o b = data \o (a \o b) /\ a \o b \in Seq(Element)
  <2>1. data \in Seq(Element) /\ a \in Seq(Element) /\ b \in Seq(Element)
    BY <1>1
  <2> QED BY <2>1, Associates, ConcatProperties
<1>4. Meants(data \o (a \o b)) = Meants(data) \o Meants(a \o b)
  BY <1>3, Translated
<1>5. Meants(a \o b) \in Seq(Item)
  BY <1>3, Translated
<1> QED BY <1>1, <1>2, <1>3, <1>4, <1>5

\* What is read, decoded or kept for later stays to be disposed of.
LEMMA TodoReads ==
    ASSUME TypeInv, OrderInv, [Next]_vars, Read \/ ReadInflated \/ ReadCorrupt,
           inflate.on => mccp_mode["game"] = "enable", NEW s \in Side
    PROVE  Todo'[s] = Todo[s]
<1>1. CASE Read
  <2>1. CASE s = Cur
    <3>0. PICK y \in Seq(Input) :
            /\ Arriving(Cur) = y \o Arriving(Cur)'
            /\ inb'[Cur] = inb[Cur] \o y
      BY <1>1, ArriveRead
    <3>6. Cur' = Cur
      BY <1>1 DEF Read, Cur
    <3>7. Arriving(s)' = Arriving(Cur)'
      BY <2>1, <3>6 DEF Arriving, Decoding
    <3>1. PICK x \in Seq(Input) :
            /\ Arriving(s) = x \o Arriving(s)'
            /\ inb'[s] = inb[s] \o x
      BY <2>1, <3>0, <3>7
    <3>2. PICK a \in Seq(Element), b \in Seq(Element) :
            a = inb'[s] /\ b = Arriving(s)' /\ Todo'[s] = Meants(a \o b)
      BY TodoParts
    <3>3. Todo[s] = Meants(inb[s] \o (x \o b)) /\ a = inb[s] \o x
      BY <3>1, <3>2, TodoParts DEF Pending
    <3>4. (inb[s] \o x) \o b = inb[s] \o (x \o b)
      <4>1. inb[s] \in Seq(Element) /\ x \in Seq(Element) /\ b \in Seq(Element)
        BY <3>1, <3>2, StreamType, InputType
      <4> QED BY <4>1, Associates
    <3> QED BY <3>2, <3>3, <3>4
  <2>2. CASE s # Cur
    <3>1. Arriving(s)' = Arriving(s) /\ inb'[s] = inb[s]
      BY <1>1, <2>2, ArriveRead
    <3> QED BY <3>1, TodoRests
  <2> QED BY <2>1, <2>2
<1>2. CASE ReadInflated
  <2>1. CASE s = "game"
    <3>1. PICK data \in Seq(Input), plain \in Seq(Input) :
            /\ Arriving(s) = data \o Arriving(s)'
            /\ inb'[s] = inb[s] \o plain
            /\ Inflates(data, plain, inflate.pos)
      BY <1>2, <2>1, ArriveInflate
    <3>2. PICK a \in Seq(Element), b \in Seq(Element) :
            a = inb'[s] /\ b = Arriving(s)' /\ Todo'[s] = Meants(a \o b)
      BY TodoParts
    <3>3. Todo[s] = Meants(inb[s] \o (data \o b)) /\ a = inb[s] \o plain
      BY <3>1, <3>2, TodoParts DEF Pending
    <3>4. /\ inb[s] \in Seq(Element) /\ data \in Seq(Element) /\ plain \in Seq(Element)
          /\ b \in Seq(Element) /\ data \o b \in Seq(Element) /\ plain \o b \in Seq(Element)
      BY <3>1, <3>2, StreamType, InputType, ConcatProperties
    <3>5. (inb[s] \o plain) \o b = inb[s] \o (plain \o b)
      <4>1. inb[s] \in Seq(Element) /\ plain \in Seq(Element) /\ b \in Seq(Element)
        BY <3>4
      <4> QED BY <4>1, Associates
    <3>6. Meants(data) = Meants(plain)
      <4>1. Len(plain) = Len(data)
        BY <3>1 DEF Inflates
      <4>2. /\ Meants(data) \in Seq(Item) /\ Len(Meants(data)) = Len(data)
            /\ \A i \in 1 .. Len(data) : Meants(data)[i] = Meant(data[i])
        BY <3>4, Translated
      <4>3. /\ Meants(plain) \in Seq(Item) /\ Len(Meants(plain)) = Len(data)
            /\ \A i \in 1 .. Len(data) : Meants(plain)[i] = Meant(plain[i])
        BY <3>4, <4>1, Translated
      <4>4. mccp_mode["game"] = "enable"
        BY <1>2, ArriveInflate
      <4>5. ASSUME NEW i \in 1 .. Len(data) PROVE Meant(plain[i]) = Meant(data[i])
        <5>1. plain[i] = [data[i] EXCEPT !.enc = 0, !.pos = 0]
          BY <3>1 DEF Inflates
        <5>2. data[i] \in Element
          BY <3>4, ElementOfSeq
        <5>3. plain[i].cell = data[i].cell /\ plain[i].src = data[i].src
          BY <5>1, <5>2 DEF Element
        <5> QED BY <4>4, <5>3 DEF Meant
      <4> QED BY <4>2, <4>3, <4>5, SeqEqual
    <3>7. /\ Meants(inb[s] \o (data \o b)) = Meants(inb[s]) \o Meants(data \o b)
          /\ Meants(inb[s] \o (plain \o b)) = Meants(inb[s]) \o Meants(plain \o b)
      BY <3>4, Translated
    <3>8. /\ Meants(data \o b) = Meants(data) \o Meants(b)
          /\ Meants(plain \o b) = Meants(plain) \o Meants(b)
      BY <3>4, Translated
    <3> QED BY <3>2, <3>3, <3>5, <3>6, <3>7, <3>8
  <2>2. CASE s = "client"
    <3>1. Arriving(s)' = Arriving(s) /\ inb'[s] = inb[s]
      BY <1>2, <2>2, ArriveInflate
    <3> QED BY <3>1, TodoRests
  <2> QED BY <2>1, <2>2 DEF Side
<1>3. CASE ReadCorrupt
  <2>1. Arriving(s)' = Arriving(s) /\ inb'[s] = inb[s]
    BY <1>3, ArriveCorrupt
  <2> QED BY <2>1, TodoRests
<1> QED BY <1>1, <1>2, <1>3

\* What a peer sends comes last.
LEMMA TodoSends ==
    ASSUME TypeInv, [Next]_vars, NEW s \in Side, Sends(s), NEW t \in Side
    PROVE  IF t = s
           THEN \E m \in Seq(Cell), zipped \in BOOLEAN :
                   LET new == Fresh(m, stamp[s], zipped, gz.pos)
                   IN  /\ new \in Seq(Element)
                       /\ net' = [net EXCEPT ![s] = net[s] \o new]
                       /\ Zips(s, m, zipped)
                       /\ Todo'[s] = Todo[s] \o Meants(new)
           ELSE Todo'[t] = Todo[t]
<1>1. PICK m \in Seq(Cell), zipped \in BOOLEAN :
        /\ net' = [net EXCEPT ![s] = net[s] \o Fresh(m, stamp[s], zipped, gz.pos)]
        /\ Zips(s, m, zipped)
  BY SendsFresh
<1>2. UNCHANGED <<inb, inflate>>
  BY DEF Sends, Send, GameCompresses, GameEndsZlib
<1> DEFINE new == Fresh(m, stamp[s], zipped, gz.pos)
<1>3. new \in Seq(Element)
  BY FreshType, InputType DEF TypeInv, PeerType
<1>4. CASE t = s
  <2>1. PICK a \in Seq(Element), b \in Seq(Element) :
          a = inb'[s] /\ b = Arriving(s)' /\ Todo'[s] = Meants(a \o b)
    BY TodoParts
  <2>2. /\ inb[s] \in Seq(Element) /\ Decoding(s) \in Seq(Element)
        /\ net[s] \in Seq(Element) /\ new \in Seq(Element)
    BY <1>3, StreamType
  <2> HIDE DEF new
  <2>3. b = Arriving(s) \o new
    <3>1. net'[s] = net[s] \o new
      BY <1>1, <2>2 DEF TypeInv, PeerType, new
    <3>2. b = Decoding(s) \o (net[s] \o new)
      BY <1>2, <2>1, <3>1 DEF Arriving, Decoding
    <3>3. Decoding(s) \o (net[s] \o new) = (Decoding(s) \o net[s]) \o new
      <4>1. /\ Decoding(s) \in Seq(Element) /\ net[s] \in Seq(Element)
            /\ new \in Seq(Element)
        BY <2>2
      <4> QED BY <4>1, Associates
    <3> QED BY <3>2, <3>3 DEF Arriving
  <2>4. a = inb[s]
    BY <1>2, <2>1
  <2>5. inb[s] \o (Arriving(s) \o new) = Pending(s) \o new
    <3>1. Arriving(s) \in Seq(Element)
      BY ArrivingType
    <3>2. /\ inb[s] \in Seq(Element) /\ Arriving(s) \in Seq(Element)
          /\ new \in Seq(Element)
      BY <2>2, <3>1
    <3>3. inb[s] \o (Arriving(s) \o new) = (inb[s] \o Arriving(s)) \o new
      BY ZenonT(30), <3>2, Associates
    <3> QED BY <3>3 DEF Pending
  <2>6. Pending(s) \in Seq(Element) /\ Todo[s] = Meants(Pending(s))
    BY TodoParts
  <2>7. Meants(Pending(s) \o new) = Meants(Pending(s)) \o Meants(new)
    BY <2>2, <2>6, Translated
  <2>8. Todo'[s] = Todo[s] \o Meants(new)
    BY <2>1, <2>3, <2>4, <2>5, <2>6, <2>7
  <2> QED BY <1>1, <1>3, <1>4, <2>8 DEF new
<1>5. CASE t # s
  <2>1. net'[t] = net[t]
    BY <1>1, <1>5 DEF TypeInv, PeerType
  <2>2. Arriving(t)' = Arriving(t) /\ inb'[t] = inb[t]
    BY <1>2, <2>1 DEF Arriving, Decoding
  <2> QED BY <1>5, <2>2, TodoRests
<1> QED BY <1>4, <1>5

-----------------------------------------------------------------------------
(* The start of the game's zlib stream, once.                              *)

\* Where in q the game marks the start of a zlib stream
Marked(q) == {i \in DOMAIN q : q[i].cell = <<"SB", "MCCP2">>}

\* There is one such place at most.
OneMark(q) == \A i, j \in Marked(q) : i = j

\* The places in the parts of a sequence
LEMMA MarkedParts ==
    ASSUME NEW p \in Seq(Item), NEW q \in Seq(Item)
    PROVE  /\ Marked(p \o q) = {} <=> Marked(p) = {} /\ Marked(q) = {}
           /\ OneMark(p \o q) <=> /\ OneMark(p) /\ OneMark(q)
                                  /\ Marked(p) = {} \/ Marked(q) = {}
<1> DEFINE w == p \o q
           m == Len(p)
           n == Len(q)
<1>1. /\ DOMAIN p = 1 .. m /\ DOMAIN q = 1 .. n /\ m \in Nat /\ n \in Nat
      /\ \A i \in 1 .. m : i \in DOMAIN w /\ w[i] = p[i]
      /\ \A i \in 1 .. n : i + m \in DOMAIN w /\ w[i + m] = q[i]
      /\ \A i \in DOMAIN w : \/ i \in 1 .. m /\ w[i] = p[i]
                             \/ i - m \in 1 .. n /\ i \in Nat /\ i > m /\ w[i] = q[i - m]
  BY Joined
<1> HIDE DEF w, m, n
<1>2. \A i \in Marked(p) : i \in Marked(w) /\ i \in 1 .. m
  BY <1>1 DEF Marked
<1>3. \A i \in Marked(q) : i + m \in Marked(w) /\ i \in 1 .. n
  BY <1>1 DEF Marked
<1>4. \A i \in Marked(w) : \/ i \in Marked(p)
                           \/ i - m \in Marked(q) /\ i \in Nat
  BY <1>1 DEF Marked
<1>5. Marked(w) = {} <=> Marked(p) = {} /\ Marked(q) = {}
  BY <1>2, <1>3, <1>4
<1>6. ASSUME OneMark(w) PROVE OneMark(p) /\ OneMark(q) /\ (Marked(p) = {} \/ Marked(q) = {})
  <2>1. OneMark(p)
    BY <1>2, <1>6 DEF OneMark
  <2>2. ASSUME NEW i \in Marked(q), NEW j \in Marked(q) PROVE i = j
    <3>1. i + m = j + m /\ i \in Nat /\ j \in Nat
      BY <1>3, <1>6, <2>2 DEF OneMark
    <3> QED BY <1>1, <3>1
  <2>3. ASSUME NEW i \in Marked(p), NEW j \in Marked(q) PROVE FALSE
    <3>1. i = j + m /\ i <= m /\ j >= 1 /\ i \in Nat /\ j \in Nat
      BY <1>1, <1>2, <1>3, <1>6, <2>3 DEF OneMark
    <3> QED BY <1>1, <3>1
  <2> QED BY <2>1, <2>2, <2>3 DEF OneMark
<1>7. ASSUME OneMark(p), OneMark(q), Marked(p) = {} \/ Marked(q) = {} PROVE OneMark(w)
  <2> SUFFICES ASSUME NEW i \in Marked(w), NEW j \in Marked(w) PROVE i = j
    BY DEF OneMark
  <2>1. CASE i \in Marked(p) /\ j \in Marked(p)
    BY <1>7, <2>1 DEF OneMark
  <2>2. CASE i \notin Marked(p) /\ j \notin Marked(p)
    <3>1. i - m = j - m /\ i \in Nat /\ j \in Nat
      BY <1>4, <1>7, <2>2 DEF OneMark
    <3> QED BY <1>1, <3>1
  <2> QED BY <1>4, <1>7, <2>1, <2>2
<1> QED BY <1>5, <1>6, <1>7 DEF w

\* The game marks the start of a zlib stream when it begins one, and only then.
MarksOnce == \A m \in Messages["game"] : \A i \in DOMAIN m : m[i] # <<"SB", "MCCP2">>

\* The marker comes once, before the stream is decoded.
MarkInv ==
    /\ inflate.on => mccp_mode["game"] = "enable" /\ Marked(Todo["game"]) = {}
    /\ ~gz.on /\ gz.pos = 0 => ~inflate.on /\ Marked(Todo["game"]) = {}
    /\ OneMark(Todo["game"])

\* What is popped from a buffer
LEMMA AfterSplits ==
    ASSUME NEW q \in Seq(Element), NEW k \in Nat
    PROVE  \E data \in Seq(Element) : data \o After(q, k) = q
<1>1. CASE k <= Len(q)
  <2>1. k \in 0 .. Len(q)
    BY <1>1, LenProperties
  <2> QED BY <2>1, UpToType, PartsJoin
<1>2. CASE ~(k <= Len(q))
  <2>1. After(q, k) \in Seq(Element) /\ Len(After(q, k)) = 0
    BY <1>2, AfterType
  <2>2. After(q, k) = <<>>
    BY <2>1, EmptySeq
  <2>3. q \o <<>> = q
    BY ConcatEmptySeq
  <2> QED BY <2>2, <2>3
<1> QED BY <1>1, <1>2

\* A handler pops the command at the head of the buffer.
LEMMA CommandPops ==
    ASSUME TypeInv, HeadCommand, pc = "match", Pop(2)
    PROVE  /\ \E data \in Seq(Element) :
                 /\ Len(data) = 2 /\ data[1] = Buffer[1] /\ data[2] = Buffer[2]
                 /\ data \o inb'[Cur] = inb[Cur]
           /\ \A s \in Side : s # Cur => inb'[s] = inb[s]
<1>1. Buffer \in Seq(Element) /\ Len(Buffer) \in Nat /\ Len(Buffer) >= 2
  BY BufferType DEF TypeInv, HeadInv, Buffer
<1>2. 2 \in 0 .. Len(Buffer)
  BY <1>1
<1> DEFINE data == SubSeq(Buffer, 1, 2)
<1>3. data \in Seq(Element) /\ Len(data) = 2 /\ data \o After(Buffer, 2) = Buffer
  BY <1>1, <1>2, UpToType, PartsJoin
<1>4. \A i \in 1 .. 2 : data[i] = Buffer[i]
  BY <1>1, <1>2, SubSeqProperties
<1>5. inb'[Cur] = After(Buffer, 2)
  BY CurType DEF Pop, Buffer, TypeInv, InType
<1>6. \A s \in Side : s # Cur => inb'[s] = inb[s]
  BY CurType DEF Pop, TypeInv, InType
<1> HIDE DEF data
<1>7. data[1] = Buffer[1] /\ data[2] = Buffer[2]
  BY <1>4
<1>8. data \o inb'[Cur] = inb[Cur]
  BY <1>3, <1>5 DEF Buffer
<1> QED BY <1>3, <1>6, <1>7, <1>8

\* When the marker is handled, nothing is inside zlib.
LEMMA MarkFirst ==
    ASSUME TypeInv, OrderInv, HeadCommand, MarkInv, [Next]_vars, Mccp2SbStart
    PROVE  /\ ~inflate.on /\ inflate'.on /\ \A s \in Side : Arriving(s)' = Arriving(s)
           /\ Marked(Todo["game"]) # {} /\ Marked(Todo'["game"]) = {}
<1>1. /\ Cur = "game" /\ pc = "match" /\ Pop(2) /\ mccp_mode["game"] = "enable"
      /\ Buffer[2].cell = <<"SB", "MCCP2">> /\ UNCHANGED net
      /\ inflate' = [on |-> TRUE, pos |-> 0, bad |-> FALSE, held |-> <<>>,
                     spent |-> FALSE]
  BY DEF Mccp2SbStart, Matched, Handled, peerVars
<1>2. PICK data \in Seq(Element) :
        /\ Len(data) = 2 /\ data[1] = Buffer[1] /\ data[2] = Buffer[2]
        /\ data \o inb'[Cur] = inb[Cur]
  BY <1>1, CommandPops
<1>3. Meants(data) \in Seq(Item) /\ Len(Meants(data)) = 2 /\ Meants(data)[2] = Meant(data[2])
  <2>1. /\ Meants(data) \in Seq(Item) /\ Len(Meants(data)) = Len(data)
        /\ \A i \in 1 .. Len(data) : Meants(data)[i] = Meant(data[i])
    BY <1>2, Translated
  <2>2. 2 \in 1 .. Len(data)
    BY <1>2
  <2> QED BY <1>2, <2>1, <2>2
<1>4. Marked(Meants(data)) # {}
  <2>1. Meant(data[2]).cell = <<"SB", "MCCP2">>
    BY <1>1, <1>2 DEF Meant
  <2>2. 2 \in DOMAIN Meants(data)
    BY <1>3, LenProperties
  <2> QED BY <1>3, <2>1, <2>2 DEF Marked
<1>5. PICK a \in Seq(Element), b \in Seq(Element) :
        a = inb["game"] /\ b = Arriving("game")
  BY StreamType, ArrivingType DEF Side
<1>6. Marked(Todo["game"]) # {}
  <2>1. PICK r \in Seq(Element) : r = inb'["game"]
    <3>1. TypeInv'
      BY TypeNext
    <3>2. inb'["game"] \in Seq(Input)
      BY <3>1 DEF TypeInv, InType, Side
    <3> QED BY <3>2, InputType
  <2>2. Todo["game"] = Meants(data) \o (Meants(r) \o Meants(b))
    <3>1. Todo["game"] = Meants((data \o r) \o b)
      BY <1>1, <1>2, <1>5, <2>1, TodoParts DEF Pending, Side
    <3>2. (data \o r) \o b = data \o (r \o b) /\ r \o b \in Seq(Element)
      <4>1. (data \o r) \o b = data \o (r \o b)
        BY Associates, Zenon
      <4>2. r \o b \in Seq(Element)
        BY ConcatProperties
      <4> QED BY <4>1, <4>2
    <3>3. Meants(data \o (r \o b)) = Meants(data) \o Meants(r \o b)
      BY <1>2, <3>2, Translated
    <3>4. Meants(r \o b) = Meants(r) \o Meants(b)
      BY <1>5, <2>1, Translated
    <3> QED BY <3>1, <3>2, <3>3, <3>4
  <2>3. Meants(r) \o Meants(b) \in Seq(Item)
    BY <1>5, <2>1, Translated, ConcatProperties
  <2> QED BY <1>3, <1>4, <2>2, <2>3, MarkedParts
<1>7. ~inflate.on /\ inflate.held = <<>>
  BY <1>6 DEF MarkInv, OrderInv
<1>8. \A s \in Side : Arriving(s)' = Arriving(s)
  BY <1>1, <1>7 DEF Arriving, Decoding
<1>9. Todo["game"] = Meants(data) \o Todo'["game"] /\ Todo'["game"] \in Seq(Item)
  BY <1>1, <1>2, <1>8, TodoPops DEF Side
<1>10. Marked(Todo'["game"]) = {}
  <2>1. OneMark(Meants(data) \o Todo'["game"])
    BY <1>9 DEF MarkInv
  <2> QED BY <1>3, <1>4, <1>9, <2>1, MarkedParts
<1> QED BY <1>1, <1>6, <1>7, <1>8, <1>10

\* Who neither reads nor sends leaves what arrives alone.
LEMMA ArrivingRests ==
    ASSUME TypeInv, OrderInv, HeadCommand, MarkInv, [Next]_vars,
           ~(Read \/ ReadInflated \/ ReadCorrupt), ~\E s \in Side : Sends(s)
    PROVE  \A s \in Side : Arriving(s)' = Arriving(s)
<1>1. CASE Mccp2SbStart
  BY <1>1, MarkFirst
<1>2. CASE UNCHANGED <<net, inflate>>
  BY <1>2 DEF Arriving, Decoding
<1> QED BY <1>1, <1>2 DEF Next, Loop, Handler, Peer, Start, SetNonblocking, CheckFallback,
   Poll, PollTimeout, ReadNothing, ReadError, ScanNoMatch, ScanPartial, ScanMatch,
   Forward, MnesRequest, MnesDoes, MnesClientWill, MnesClientWont, RespondDont,
   RespondDo, RespondWont, Respond, MccpIgnore, Mccp2Do, Mccp2DoFails, Mccp2Dont,
   Mccp2SbStartFails, InitFails, PollInterrupted, HangUp, Tick, Terminated, vars,
   peerVars, Sends, Side

\* Who does not send anything leaves what is to be disposed of, or takes
\* something from its beginning.
LEMMA TodoDrops ==
    ASSUME TypeInv, OrderInv, HeadCommand, MarkInv, [Next]_vars,
           ~\E t \in Side : Sends(t), NEW s \in Side
    PROVE  /\ Todo'[s] \in Seq(Item)
           /\ \E x \in Seq(Item) : Todo[s] = x \o Todo'[s]
<1>1. Todo[s] \in Seq(Item) /\ inb[s] \in Seq(Element)
  BY TodoParts, Translated, StreamType
<1>2. CASE Todo'[s] = Todo[s]
  <2>1. <<>> \in Seq(Item) /\ Todo[s] = <<>> \o Todo[s]
    BY <1>1, EmptySeq, ConcatEmptySeq
  <2> QED BY <1>1, <1>2, <2>1
<1>3. CASE Read \/ ReadInflated \/ ReadCorrupt
  <2>1. Todo'[s] = Todo[s]
    BY <1>3, TodoReads DEF MarkInv
  <2> QED BY <1>2, <2>1
<1>4. CASE ~(Read \/ ReadInflated \/ ReadCorrupt)
  <2>1. Arriving(s)' = Arriving(s)
    BY <1>4, ArrivingRests
  <2>2. PICK k \in Nat : inb'[s] = After(inb[s], k)
    BY <1>4, TakesOff
  <2>3. PICK data \in Seq(Element) : data \o inb'[s] = inb[s]
    BY <1>1, <2>2, AfterSplits
  <2>4. Meants(data) \in Seq(Item)
    BY Translated
  <2> QED BY <2>1, <2>3, <2>4, TodoPops
<1> QED BY <1>3, <1>4

\* Every step keeps the marker single.
LEMMA MarkNext ==
    ASSUME MarksOnce
    PROVE  TypeInv /\ OrderInv /\ HeadCommand /\ MarkInv /\ [Next]_vars => MarkInv'
<1> SUFFICES ASSUME TypeInv, OrderInv, HeadCommand, MarkInv, [Next]_vars
             PROVE  MarkInv'
  OBVIOUS
<1>0. UNCHANGED mccp_mode
  BY ModeStays
<1> DEFINE old == Todo["game"]
<1>1. old \in Seq(Item) /\ gz \in [on: BOOLEAN, pos: Nat]
  BY TodoParts, Translated DEF TypeInv, PeerType, Side
<1>2. PICK now : now = Todo'["game"]
  OBVIOUS
<1>3. SUFFICES /\ inflate'.on => mccp_mode["game"] = "enable" /\ Marked(now) = {}
               /\ ~gz'.on /\ gz'.pos = 0 => ~inflate'.on /\ Marked(now) = {}
               /\ OneMark(now)
  <2>1. Marked(now) = Marked(Todo["game"])' /\ (OneMark(now) <=> OneMark(Todo["game"])')
    BY <1>2 DEF Marked, OneMark
  <2> QED BY <1>0, <2>1 DEF MarkInv
<1> HIDE DEF old
<1>4. CASE \E s \in Side : Sends(s)
  <2>1. UNCHANGED inflate
    BY <1>4 DEF Sends, Send, GameCompresses, GameEndsZlib
  <2>2. CASE Sends("client") /\ ~Sends("game")
    <3>1. now = old /\ UNCHANGED gz
      <4>1. now = old
        BY <1>2, <2>2, TodoSends DEF old, Side
      <4>2. UNCHANGED gz
        BY <2>2 DEF Sends, Send
      <4> QED BY <4>1, <4>2
    <3> QED BY <2>1, <3>1 DEF MarkInv, old
  <2>3. CASE Sends("game")
    <3>1. PICK m \in Seq(Cell), zipped \in BOOLEAN :
            /\ Fresh(m, stamp["game"], zipped, gz.pos) \in Seq(Element)
            /\ Zips("game", m, zipped)
            /\ now = old \o Meants(Fresh(m, stamp["game"], zipped, gz.pos))
      BY <1>2, <2>3, TodoSends DEF old, Side
    <3> DEFINE new == Fresh(m, stamp["game"], zipped, gz.pos)
               x == Meants(new)
    <3>2. Len(m) \in Nat /\ DOMAIN m = 1 .. Len(m)
      BY LenProperties
    <3>3. x \in Seq(Item) /\ DOMAIN x = DOMAIN m /\ \A i \in DOMAIN m : x[i] = Meant(new[i])
      <4>1. x \in Seq(Item)
        BY <3>1, Translated
      <4>2. DOMAIN new = DOMAIN m
        BY DEF Fresh
      <4> HIDE DEF new
      <4>3. DOMAIN x = DOMAIN m /\ \A i \in DOMAIN m : x[i] = Meant(new[i])
        BY <4>2 DEF Meants
      <4> QED BY <4>1, <4>3
    <3>4. \A i \in Marked(x) : i \in DOMAIN m /\ m[i] = <<"SB", "MCCP2">>
      <4>1. \A i \in DOMAIN m : new[i].cell = m[i]
        BY DEF Fresh
      <4>2. RawZlib # <<"SB", "MCCP2">>
        BY DEF RawZlib
      <4> HIDE DEF new, x
      <4>3. \A e : Meant(e).cell \in {RawZlib, e.cell}
        BY DEF Meant
      <4>4. \A i \in DOMAIN m : x[i].cell \in {RawZlib, m[i]}
        BY <3>3, <4>1, <4>3
      <4> QED BY <3>3, <4>2, <4>4 DEF Marked
    <3>5. now = old \o x
      BY <3>1
    <3> HIDE DEF new, x
    <3>6. /\ \/ m \in Messages["game"] /\ gz'.on = gz.on
             \/ m = <<StreamEnd>> /\ gz'.pos > 0
             \/ m = Command("SB", "MCCP2") /\ ~gz.on /\ gz.pos = 0 /\ gz'.on
          /\ gz' \in [on: BOOLEAN, pos: Nat]
          /\ gz'.pos = IF zipped THEN gz.pos + Len(m) ELSE gz.pos
      BY <3>1 DEF Zips
    <3>7. CASE m \in Messages["game"] \/ m = <<StreamEnd>>
      <4>1. Marked(x) = {}
        <5>1. \A i \in DOMAIN m : m[i] # <<"SB", "MCCP2">>
          <6>1. CASE m \in Messages["game"]
            BY <6>1 DEF MarksOnce
          <6>2. CASE m = <<StreamEnd>>
            <7>1. StreamEnd # <<"SB", "MCCP2">>
              BY DEF StreamEnd
            <7> QED BY <6>2, <7>1
          <6> QED BY <3>7, <6>1, <6>2
        <5> QED BY <3>4, <5>1
      <4>2. OneMark(now) /\ (Marked(now) = {} <=> Marked(old) = {})
        <5>1. OneMark(old) /\ OneMark(x)
          BY <4>1 DEF MarkInv, old, OneMark
        <5> QED BY <1>1, <3>3, <3>5, <4>1, <5>1, MarkedParts
      <4>3. ~gz'.on /\ gz'.pos = 0 => ~gz.on /\ gz.pos = 0
        <5> SUFFICES ASSUME ~gz'.on, gz'.pos = 0 PROVE ~gz.on /\ gz.pos = 0
          OBVIOUS
        <5>1. gz.pos \in Nat /\ gz'.pos \in Nat
          BY <1>1, <3>6
        <5> QED BY <3>2, <3>6, <5>1
      <4> QED BY <2>1, <4>2, <4>3 DEF MarkInv, old
    <3>8. CASE m = Command("SB", "MCCP2") /\ ~gz.on /\ gz.pos = 0 /\ gz'.on
      <4>1. Marked(old) = {} /\ ~inflate.on
        BY <3>8 DEF MarkInv, old
      <4>2. \A i \in Marked(x) : i = 2
        <5>1. m[1] = IAC /\ IAC # <<"SB", "MCCP2">>
          BY <3>8 DEF Command, IAC
        <5>2. DOMAIN m = 1 .. 2
          BY <3>8 DEF Command
        <5> QED BY <3>4, <5>1, <5>2
      <4>3. OneMark(now)
        <5>1. OneMark(old) /\ OneMark(x)
          BY <4>1, <4>2 DEF OneMark
        <5> QED BY <1>1, <3>3, <3>5, <4>1, <5>1, MarkedParts
      <4> QED BY <2>1, <3>8, <4>1, <4>3
    <3> QED BY <3>6, <3>7, <3>8
  <2> QED BY <1>4, <2>2, <2>3 DEF Side
<1>5. CASE ~\E s \in Side : Sends(s)
  <2>1. PICK x \in Seq(Item) : old = x \o now
    BY <1>2, <1>5, TodoDrops DEF old, Side
  <2>2. now \in Seq(Item) /\ UNCHANGED gz
    BY <1>2, <1>5, TodoDrops, TakesIn DEF Side
  <2>3. OneMark(now) /\ (Marked(old) = {} => Marked(now) = {})
    <3>1. OneMark(x \o now)
      BY <2>1 DEF MarkInv, old
    <3> QED BY <2>1, <2>2, <3>1, MarkedParts
  <2>4. CASE Mccp2SbStart
    <3>1. Marked(old) # {} /\ Marked(now) = {}
      <4>1. Marked(old) # {} /\ Marked(Todo'["game"]) = {}
        BY <2>4, MarkFirst DEF old
      <4> QED BY <1>2, <4>1
    <3>2. mccp_mode["game"] = "enable"
      BY <2>4 DEF Mccp2SbStart
    <3>3. ~(~gz.on /\ gz.pos = 0)
      BY <3>1 DEF MarkInv, old
    <3> QED BY <2>2, <2>3, <3>1, <3>2, <3>3
  <2>5. CASE ~Mccp2SbStart
    <3>1. inflate'.on => inflate.on
      <4>0. inflate \in [on: BOOLEAN, pos: Nat, bad: BOOLEAN, held: Seq(Input),
                         spent: BOOLEAN]
        BY DEF TypeInv, ZlibType
      <4>1. CASE ReadInflated \/ ReadCorrupt
        BY <4>1 DEF ReadInflated, ReadCorrupt, Refill, Inflating
      <4>2. CASE UNCHANGED inflate
        BY <4>2
      <4> QED BY <2>5, <4>1, <4>2 DEF Next, Loop, Handler, Peer, Start, SetNonblocking,
         CheckFallback, Poll, PollTimeout, Read, ReadNothing, ReadError, ScanNoMatch,
         ScanPartial, ScanMatch, Forward, MnesRequest, MnesDoes, MnesClientWill,
         MnesClientWont, RespondDont, RespondDo, RespondWont, Respond, MccpIgnore, Mccp2Do,
         Mccp2DoFails, Mccp2Dont, Mccp2SbStartFails, InitFails, PollInterrupted,
         GameCompresses, GameEndsZlib, Send, HangUp, Tick, Terminated, vars
    <3>2. Marked(old) = {} => Marked(now) = {}
      BY <2>3
    <3> QED BY <2>2, <2>3, <3>1, <3>2 DEF MarkInv, old
  <2> QED BY <2>4, <2>5
<1> QED BY <1>4, <1>5

-----------------------------------------------------------------------------
(* Steps of the session and steps of the relay.                            *)

\* To the relay the other side is the same one.
LEMMA RelayOther == \A s \in Side : R!Other(s) = Other(s)
<1>1. \E t \in Side : t # "client"
  BY DEF Side
<1>2. R!Other("client") \in Side /\ R!Other("client") # "client"
  BY <1>1, Zenon DEF R!Other
<1>3. \E t \in Side : t # "game"
  BY DEF Side
<1>4. R!Other("game") \in Side /\ R!Other("game") # "game"
  BY <1>3, Zenon DEF R!Other
<1> QED BY <1>2, <1>4 DEF Side, Other

\* What a peer has been sent, before a step and after it
LEMMA OutParts ==
    ASSUME TypeInv, NEW s \in Side, NEW x \in Seq(Element), sent'[s] = sent[s] \o x
    PROVE  /\ Out[s] \in Seq(Item) /\ Out'[s] = Out[s] \o Gots(x)
           /\ Gots(x) \in Seq(Item) /\ Len(Gots(x)) = Len(x)
           /\ \A i \in 1 .. Len(x) : Gots(x)[i] = Got(x[i])
<1>1. sent[s] \in Seq(Element)
  BY StreamType
<1>2. Out[s] = Gots(sent[s]) /\ Gots(sent[s]) \in Seq(Item)
  BY <1>1, Translated DEF Out
<1>3. Out'[s] = Gots(sent[s] \o x)
  <2> DEFINE w == sent[s] \o x
  <2>1. Out'[s] = Gots(sent'[s])
    BY DEF Out, Gots, Got
  <2> QED BY <2>1
<1>4. Gots(sent[s] \o x) = Gots(sent[s]) \o Gots(x)
  BY <1>1, Translated
<1> QED BY <1>2, <1>3, <1>4, Translated

\* All that MUDitM may say to a peer now is among what it ever says.
LEMMA VoiceWords == \A t \in Side : Voice(t) \subseteq Words[t]
<1>1. /\ Words["client"] = {IAC, <<"WILL", "MCCP2">>, <<"SB", "MCCP2">>}
                           \cup ({"WONT"} \X MccpOption)
      /\ Words["game"] = {IAC, <<"WILL", "NEWENV">>, <<"PROXY_NAME", "">>,
                          <<"IPADDRESS", "">>, Compression(TRUE), Compression(FALSE)}
                         \cup ({"DO", "DONT"} \X MccpOption)
                         \cup {ReportVars[i] : i \in DOMAIN ReportVars}
  BY DEF Words
<1>2. <<"DO", "MCCP2">> \in {"DO", "DONT"} \X MccpOption
  BY DEF MccpOption
<1>3. {"DONT"} \X MccpOption \subseteq {"DO", "DONT"} \X MccpOption
  OBVIOUS
<1>4. Voice("client") \subseteq Words["client"]
  BY <1>1 DEF Voice
<1>5. Voice("game") \subseteq Words["game"]
  <2> DEFINE own == {IAC, <<"PROXY_NAME", "">>, <<"IPADDRESS", "">>, Compression(TRUE),
                     Compression(FALSE)}
             donts == {"DONT"} \X MccpOption
             do == IF mccp_mode["game"] = "enable" THEN {<<"DO", "MCCP2">>} ELSE {}
             will == IF mnes_state["client"] = "none" THEN {} ELSE {<<"WILL", "NEWENV">>}
  <2>1. Voice("game") = own \cup donts \cup do \cup will
    BY DEF Voice
  <2>2. own \subseteq Words["game"] /\ will \subseteq Words["game"]
    BY <1>1, Zenon
  <2>3. donts \subseteq Words["game"] /\ do \subseteq Words["game"]
    BY <1>1, <1>2, <1>3, Zenon
  <2> HIDE DEF own, donts, do, will
  <2> QED BY <2>1, <2>2, <2>3
<1> QED BY <1>4, <1>5 DEF Side

\* The same after a step
LEMMA VoiceWordsNext == \A t \in Side : Voice(t)' \subseteq Words[t]
<1>1. (\A t \in Side : Voice(t) \subseteq Words[t])'
  BY VoiceWords, PTL
<1> QED BY <1>1 DEF Words

\* A step that says nothing but what it may is one in which the relay speaks.
LEMMA RelaySpeaks == ASSUME TypeInv, Speaks PROVE R!Speaks
<1> SUFFICES ASSUME NEW s \in Side
             PROVE  /\ R!Extends(Out[s], Out'[s])
                    /\ \A i \in Len(Out[s]) + 1 .. Len(Out'[s]) :
                          Out'[s][i].src = 0 /\ Out'[s][i].cell \in Words[s]
  BY DEF R!Speaks
<1>1. PICK x \in Seq(Element) : sent'[s] = sent[s] \o x /\ Spoken(x, Voice(s)')
  BY DEF Speaks
<1>2. PICK old \in Seq(Item), more \in Seq(Item) :
        /\ old = Out[s] /\ Out'[s] = old \o more /\ Len(more) = Len(x)
        /\ \A i \in 1 .. Len(x) : more[i] = Got(x[i])
  BY <1>1, OutParts
<1>3. ASSUME NEW i \in 1 .. Len(x) PROVE more[i].src = 0 /\ more[i].cell \in Words[s]
  <2>1. x[i].src = 0 /\ x[i].enc # -1 /\ x[i].cell \in Voice(s)'
    BY <1>1, <1>3, LenProperties DEF Spoken
  <2>2. x[i].cell \in Words[s]
    BY <2>1, VoiceWordsNext
  <2>3. more[i] = Got(x[i])
    BY <1>2
  <2>4. Got(x[i]).src = x[i].src /\ (x[i].enc # -1 => Got(x[i]).cell = x[i].cell)
    BY DEF Got
  <2> QED BY <2>1, <2>2, <2>3, <2>4
<1>4. /\ old \o more \in Seq(Item) /\ Len(old \o more) = Len(old) + Len(x)
      /\ Len(old) \in Nat /\ Len(x) \in Nat
      /\ \A i \in 1 .. Len(x) : (old \o more)[i + Len(old)] = more[i]
  <2>1. old \in Seq(Item) /\ more \in Seq(Item)
    BY <1>2
  <2>2. /\ old \o more \in Seq(Item) /\ Len(old \o more) = Len(old) + Len(more)
        /\ Len(old) \in Nat /\ Len(more) \in Nat
        /\ \A i \in 1 .. Len(more) : (old \o more)[i + Len(old)] = more[i]
    BY <2>1, Joined
  <2>3. Len(more) = Len(x)
    BY <1>2
  <2> QED BY <2>2, <2>3
<1>5. SubSeq(old \o more, 1, Len(old)) = old
  BY <1>2, Splits
<1>6. R!Extends(Out[s], Out'[s])
  BY <1>2, <1>4, <1>5 DEF R!Extends
<1>7. ASSUME NEW i \in Len(old) + 1 .. Len(old \o more)
      PROVE  (old \o more)[i].src = 0 /\ (old \o more)[i].cell \in Words[s]
  <2> DEFINE j == i - Len(old)
  <2>1. j \in 1 .. Len(x) /\ i = j + Len(old)
    BY <1>4, <1>7
  <2> HIDE DEF j
  <2> QED BY <1>3, <1>4, <2>1
<1> QED BY <1>2, <1>6, <1>7

\* A step that does not show, or ends the session
LEMMA RelayRests ==
    ASSUME UNCHANGED <<mccp_mode, Todo, Out, link>>, pc = "done" => pc' = "done"
    PROVE  R!Next \/ UNCHANGED R!vars
<1>1. UNCHANGED <<MustSwallow, Todo, Out, Here>>
  BY DEF MustSwallow, Here
<1>2. CASE pc # "done" /\ pc' = "done"
  BY <1>1, <1>2 DEF R!Next, R!Close
<1>3. CASE ~(pc # "done" /\ pc' = "done")
  <2>1. (pc # "done")' = (pc # "done")
    BY <1>3
  <2> QED BY <1>1, <2>1 DEF R!vars
<1> QED BY <1>2, <1>3

\* A step in which MUDitM speaks unasked
LEMMA RelayVolunteers ==
    ASSUME TypeInv, Speaks, UNCHANGED <<mccp_mode, Todo, link>>,
           pc # "done", pc' # "done"
    PROVE  R!Next
<1>1. R!Speaks
  BY RelaySpeaks
<1>2. UNCHANGED <<MustSwallow, Todo, Here>> /\ (pc # "done")' = (pc # "done")
  BY DEF MustSwallow, Here
<1>3. R!Volunteer
  BY <1>1, <1>2 DEF R!Volunteer
<1> QED BY <1>3 DEF R!Next

\* A step in which it answers a command and takes that out of the stream
LEMMA RelayAnswers ==
    ASSUME TypeInv, Speaks, [Next]_vars, NEW s \in Side, NEW data \in Seq(Element),
           Len(data) = 2, data[1].enc = 0, data[1].cell = IAC, data[2].enc = 0,
           data[2].cell \in MustSwallow[s] \cup Optional[s],
           data \o inb'[s] = inb[s], Arriving(s)' = Arriving(s),
           \A t \in Side : t # s => Todo'[t] = Todo[t],
           UNCHANGED link, pc # "done", pc' # "done"
    PROVE  R!Next
<1>1. R!Speaks
  BY RelaySpeaks
<1>2. UNCHANGED <<MustSwallow, Here>> /\ (pc # "done")' = (pc # "done")
  BY ModeStays DEF MustSwallow, Here
<1>3. PICK r \in Seq(Item) : r = Todo'[s] /\ Todo[s] = Meants(data) \o r
  BY TodoPops
<1>4. /\ Meants(data) \in Seq(Item) /\ Len(Meants(data)) = 2
      /\ Meants(data)[1] = Meant(data[1]) /\ Meants(data)[2] = Meant(data[2])
  <2>1. /\ Meants(data) \in Seq(Item) /\ Len(Meants(data)) = Len(data)
        /\ \A i \in 1 .. Len(data) : Meants(data)[i] = Meant(data[i])
    BY Translated
  <2>2. 1 \in 1 .. Len(data) /\ 2 \in 1 .. Len(data)
    OBVIOUS
  <2> QED BY <2>1, <2>2
<1>5. Meant(data[1]).cell = IAC /\ Meant(data[2]).cell = data[2].cell
  BY DEF Meant
<1> DEFINE w == Meants(data) \o r
<1>6. /\ w \in Seq(Item) /\ Len(w) >= 2
      /\ w[1] = Meant(data[1]) /\ w[2] = Meant(data[2])
  <2> DEFINE m == Meants(data)
  <2>1. m \in Seq(Item) /\ r \in Seq(Item)
    BY <1>4
  <2>4. Len(m) = 2
    BY <1>4
  <2> HIDE DEF m
  <2>2. /\ m \o r \in Seq(Item) /\ Len(m \o r) = Len(m) + Len(r) /\ Len(r) \in Nat
        /\ \A i \in 1 .. Len(m) : (m \o r)[i] = m[i]
    BY <2>1, Joined
  <2>3. (m \o r)[1] = m[1] /\ (m \o r)[2] = m[2] /\ Len(m \o r) >= 2
    BY <2>2, <2>4
  <2> QED BY <1>4, <2>2, <2>3 DEF m
<1>7. SubSeq(w, 3, Len(w)) = r
  <2>1. SubSeq(w, Len(Meants(data)) + 1, Len(w)) = r
    BY <1>4, Splits
  <2> QED BY <1>4, <2>1
<1> HIDE DEF w
<1>8. Todo[s] = w
  BY <1>3 DEF w
<1>9. Todo' = [Todo EXCEPT ![s] = SubSeq(Todo[s], 3, Len(Todo[s]))]
  <2>1. Todo' = [t \in Side |-> Todo'[t]] /\ Todo = [t \in Side |-> Todo[t]]
    BY DEF Todo
  <2> QED BY <1>3, <1>7, <1>8, <2>1
<1>10. R!Answer(s)
  BY <1>1, <1>2, <1>5, <1>6, <1>8, <1>9 DEF R!Answer
<1> QED BY <1>10 DEF R!Next

\* A step in which it passes on the first elements of a buffer
LEMMA RelayForwards ==
    ASSUME TypeInv, [Next]_vars, NEW s \in Side, NEW data \in Seq(Element),
           data \o inb'[s] = inb[s], Arriving(s)' = Arriving(s),
           \A t \in Side : t # s => Todo'[t] = Todo[t] /\ Out'[Other(t)] = Out[Other(t)],
           \/ Out'[Other(s)] = Out[Other(s)] \o Meants(data)
           \/ Other(s) \notin Here /\ Out'[Other(s)] = Out[Other(s)],
           R!Clean(s, Todo[s], Len(data)),
           UNCHANGED link, pc # "done", pc' # "done"
    PROVE  R!Next \/ UNCHANGED R!vars
<1>1. UNCHANGED <<MustSwallow, Here>> /\ (pc # "done")' = (pc # "done")
  BY ModeStays DEF MustSwallow, Here
<1>2. PICK r \in Seq(Item) : r = Todo'[s] /\ Todo[s] = Meants(data) \o r
  BY TodoPops
<1>3. Meants(data) \in Seq(Item) /\ Len(Meants(data)) = Len(data) /\ Len(data) \in Nat
  BY Translated, LenProperties
<1>4. /\ Todo' = [t \in Side |-> Todo'[t]] /\ Todo = [t \in Side |-> Todo[t]]
      /\ Out' = [t \in Side |-> Out'[t]] /\ Out = [t \in Side |-> Out[t]]
  BY DEF Todo, Out
<1>5. Other(s) \in Side /\ \A t \in Side : t # Other(s) => \E u \in Side : u # s /\ t = Other(u)
  BY DEF Other, Side
<1>6. Out' = [Out EXCEPT ![Other(s)] = Out'[Other(s)]]
  <2>1. \A t \in Side : t # Other(s) => Out'[t] = Out[t]
    BY <1>5
  <2>2. PICK now : now = Out'
    OBVIOUS
  <2>3. now = [t \in Side |-> now[t]]
    BY <1>4, <2>2
  <2>4. \A t \in Side : now[t] = [Out EXCEPT ![Other(s)] = now[Other(s)]][t]
    BY <1>4, <2>1, <2>2
  <2>5. now = [Out EXCEPT ![Other(s)] = now[Other(s)]]
    BY <1>4, <2>3, <2>4
  <2> QED BY <2>2, <2>5
<1>7. CASE Len(data) = 0
  <2>1. Meants(data) = <<>>
    BY <1>3, <1>7, EmptySeq
  <2>2. Todo'[s] = Todo[s]
    BY <1>2, <2>1, ConcatEmptySeq
  <2>3. Todo' = Todo
    BY <1>4, <2>2
  <2>4. Out[Other(s)] \in Seq(Item)
    BY <1>5, StreamType, Translated DEF Out
  <2>5. Out'[Other(s)] = Out[Other(s)]
    BY <2>1, <2>4, ConcatEmptySeq
  <2>6. Out' = Out
    BY <1>4, <1>6, <2>5
  <2> QED BY <2>3, <2>6, RelayRests, ModeStays
<1>8. CASE Len(data) > 0
  <2> DEFINE w == Meants(data) \o r
             k == Len(data)
  <2>1. /\ w \in Seq(Item) /\ Len(w) = k + Len(r) /\ Len(r) \in Nat
    <3> DEFINE m == Meants(data)
    <3>1. m \in Seq(Item) /\ r \in Seq(Item)
      BY <1>3
    <3>3. Len(m) = k
      BY <1>3
    <3> HIDE DEF m
    <3>2. m \o r \in Seq(Item) /\ Len(m \o r) = Len(m) + Len(r) /\ Len(r) \in Nat
      BY <3>1, Joined
    <3> QED BY <3>2, <3>3 DEF m
  <2>2. k \in 1 .. Len(w)
    BY <1>3, <1>8, <2>1
  <2>3. SubSeq(w, 1, k) = Meants(data) /\ SubSeq(w, k + 1, Len(w)) = r
    <3>1. /\ SubSeq(w, 1, Len(Meants(data))) = Meants(data)
          /\ SubSeq(w, Len(Meants(data)) + 1, Len(w)) = r
      BY <1>2, <1>3, Splits
    <3> QED BY <1>3, <3>1
  <2> HIDE DEF w, k
  <2>4. Todo[s] = w
    BY <1>2 DEF w
  <2>5. Todo' = [Todo EXCEPT ![s] = SubSeq(Todo[s], k + 1, Len(Todo[s]))]
    BY <1>2, <1>4, <2>3, <2>4
  <2>6. \/ Out' = [Out EXCEPT ![Other(s)] = Out[Other(s)] \o SubSeq(Todo[s], 1, k)]
        \/ Other(s) \notin Here /\ Out' = Out
    <3>1. CASE Out'[Other(s)] = Out[Other(s)] \o Meants(data)
      BY <1>6, <2>3, <2>4, <3>1
    <3>2. CASE Other(s) \notin Here /\ Out'[Other(s)] = Out[Other(s)]
      BY <1>4, <1>6, <3>2
    <3> QED BY <3>1, <3>2
  <2>7. R!Clean(s, Todo[s], k) /\ k \in 1 .. Len(Todo[s])
    BY <2>2, <2>4 DEF k
  <2>8. R!Forward(s)
    BY <1>1, <2>5, <2>6, <2>7, RelayOther DEF R!Forward
  <2> QED BY <2>8 DEF R!Next
<1> QED BY <1>3, <1>7, <1>8

-----------------------------------------------------------------------------
(* The refinement, step by step.                                           *)

\* Every write is taken whole, and zlib starts.
NoFault == shorts = 0 /\ zfails = 0

\* It stays so, if the bounds say so.
LEMMA FaultNext ==
    ASSUME MaxShort = 0, MaxInitFail = 0
    PROVE  TypeInv /\ NoFault /\ [Next]_vars => NoFault'
<1> SUFFICES ASSUME TypeInv, NoFault, [Next]_vars PROVE NoFault'
  OBVIOUS
<1>1. shorts' \in Nat /\ zfails' \in Nat
  <2>1. TypeInv'
    BY TypeNext
  <2> QED BY <2>1 DEF TypeInv, OutType, ZlibType
<1>2. \A s, data : Write(s, data) => shorts' <= MaxShort
  BY DEF Write, Put, Bounded
<1>3. \A s, cells : FlushQueue(s, cells) => shorts' <= MaxShort
  BY DEF FlushQueue, Put, Bounded
<1>4. UNCHANGED shorts \/ shorts' <= MaxShort
  BY <1>2, <1>3 DEF Next, Loop, Handler, Peer, Start, SetNonblocking, CheckFallback, Poll,
     PollTimeout, Read, ReadInflated, ReadCorrupt, ReadNothing, ReadError, ScanNoMatch,
     ScanPartial, ScanMatch, Forward, MnesRequest, MnesDoes, MnesClientWill,
     MnesClientWont, RespondDont, RespondDo, RespondWont, Respond, MccpIgnore, Mccp2Do,
     Mccp2DoFails, Mccp2Dont, Mccp2SbStart, Mccp2SbStartFails, InitFails,
     PollInterrupted, GameCompresses, GameEndsZlib, Send, HangUp, Tick, Terminated,
     vars, outVars, Flush, Bounded
<1>5. UNCHANGED zfails \/ zfails' <= MaxInitFail
  BY DEF Next, Loop, Handler, Peer, Start, SetNonblocking, CheckFallback, Poll,
     PollTimeout, Read, ReadInflated, ReadCorrupt, ReadNothing, ReadError, ScanNoMatch,
     ScanPartial, ScanMatch, Forward, MnesRequest, MnesDoes, MnesClientWill,
     MnesClientWont, RespondDont, RespondDo, RespondWont, Respond, MccpIgnore, Mccp2Do,
     Mccp2DoFails, Mccp2Dont, Mccp2SbStart, Mccp2SbStartFails, InitFails,
     PollInterrupted, GameCompresses, GameEndsZlib, Send, HangUp, Tick, Terminated,
     vars, faultVars, Bounded
<1> QED BY <1>1, <1>4, <1>5 DEF NoFault

\* So zlib does not fail to start.
LEMMA NoFailure == ASSUME NoFault, NoFault' PROVE ~InitFails
BY DEF NoFault, InitFails

\* A write gets all of the data to a peer that is there, and all or none to one
\* that has gone.
LEMMA WriteGets ==
    ASSUME TypeInv, NoFault, NoFault', NEW s \in Side, NEW data \in Seq(Element),
           Write(s, data)
    PROVE  /\ \/ Out'[s] = Out[s] \o Gots(data)
              \/ s \notin Here /\ Out'[s] = Out[s]
           /\ \A t \in Side : t # s => Out'[t] = Out[t]
<1>1. PICK k \in Takes(s, data) : Put(s, data, k)
  BY DEF Write
<1>2. /\ k \in 0 .. Len(data) /\ Len(data) \in Nat
      /\ IF s \in Here THEN k = Len(data) ELSE k \in {0, Len(data)}
  <2>1. k \in 0 .. Len(data) /\ Len(data) \in Nat
    BY <1>1, PutGets, LenProperties
  <2>2. CASE link[s] = "open"
    <3>1. 0 + (IF k < Len(data) THEN 1 ELSE 0) = 0
      BY <1>1, <2>2 DEF Put, Short, NoFault
    <3>2. k = Len(data)
      BY <2>1, <3>1
    <3> QED BY <2>1, <2>2, <3>2 DEF Here
  <2>3. CASE link[s] # "open"
    BY <1>1, <2>1, <2>3 DEF Takes, Here
  <2> QED BY <2>2, <2>3
<1>3. PICK x \in Seq(Element) :
        /\ Len(x) = k
        /\ sent' = [sent EXCEPT ![s] = sent[s] \o x]
        /\ \A i \in 1 .. k : Got(x[i]) = Got(data[i])
  BY <1>1, PutGets
<1>4. sent'[s] = sent[s] \o x /\ \A t \in Side : t # s => sent'[t] = sent[t]
  BY <1>3 DEF TypeInv, OutType
<1>5. /\ Out[s] \in Seq(Item) /\ Out'[s] = Out[s] \o Gots(x)
      /\ Gots(x) \in Seq(Item) /\ Len(Gots(x)) = k
      /\ \A i \in 1 .. k : Gots(x)[i] = Got(x[i])
  BY <1>3, <1>4, OutParts
<1>6. \A t \in Side : t # s => Out'[t] = Out[t]
  BY <1>4 DEF Out, Gots, Got
<1>7. CASE k = Len(data)
  <2>1. /\ Gots(data) \in Seq(Item) /\ Len(Gots(data)) = k
        /\ \A i \in 1 .. k : Gots(data)[i] = Got(data[i])
    BY <1>7, Translated
  <2>3. \A i \in 1 .. k : Gots(x)[i] = Gots(data)[i]
    BY <1>3, <1>5, <2>1
  <2>4. /\ Gots(x) \in Seq(Item) /\ Gots(data) \in Seq(Item)
        /\ Len(Gots(x)) = Len(Gots(data))
        /\ \A i \in 1 .. Len(Gots(x)) : Gots(x)[i] = Gots(data)[i]
    BY <1>5, <2>1, <2>3
  <2>2. Gots(x) = Gots(data)
    BY <2>4, SeqEqual
  <2> QED BY <1>5, <1>6, <2>2
<1>8. CASE k = 0 /\ k # Len(data)
  <2>1. s \notin Here
    BY <1>2, <1>8
  <2>2. Gots(x) = <<>>
    BY <1>5, <1>8, EmptySeq
  <2>3. Out[s] \o <<>> = Out[s]
    BY <1>5, ConcatEmptySeq
  <2> QED BY <1>5, <1>6, <2>1, <2>2, <2>3
<1> QED BY <1>2, <1>7, <1>8

\* What is not inside a zlib stream, or is not to be decoded, reaches a peer
\* as its sender meant it.
LEMMA MeantGot ==
    ASSUME NEW data \in Seq(Element),
           \A i \in DOMAIN data : data[i].enc # -1 \/ mccp_mode["game"] # "enable"
    PROVE  Meants(data) = Gots(data)
<1>1. \A i \in DOMAIN data : Meant(data[i]) = Got(data[i])
  BY DEF Meant, Got
<1> QED BY <1>1 DEF Meants, Gots

\* No command that MUDitM answers itself starts in the first k elements of q,
\* as far as q shows, and none may.
Sound(s, q, k) ==
    \A i \in 1 .. k : IsIac(q, i) =>
        i < Len(q) /\ ~(q[i + 1].enc = 0 /\ q[i + 1].cell \in MustSwallow[s])

\* What MUDitM answers itself it looks for.
LEMMA SwallowWatched ==
    ASSUME TypeInv, NEW s \in Side
    PROVE  MustSwallow[s] \subseteq Watched(s)
<1>1. MustSwallow["client"] \subseteq Watched("client")
  BY DEF MustSwallow, Watched
<1>2. MustSwallow["game"] \subseteq Watched("game")
  BY DEF MustSwallow, Watched
<1> QED BY <1>1, <1>2 DEF Side

\* The beginning of an input buffer in which none starts is clean.
LEMMA SoundClean ==
    ASSUME TypeInv, [Next]_vars,
           NEW s \in Side, NEW k \in 0 .. Len(inb[s]), Sound(s, inb[s], k),
           \A i \in DOMAIN inb[s] : inb[s][i].enc = 0 \/ mccp_mode["game"] # "enable"
    PROVE  R!Clean(s, Todo[s], k)
<1> DEFINE p == inb[s]
           a == Arriving(s)
           w == Pending(s)
<1>1. /\ p \in Seq(Input) /\ p \in Seq(Element) /\ a \in Seq(Element)
      /\ w \in Seq(Element) /\ Todo[s] = Meants(w) /\ w = p \o a
  BY StreamType, ArrivingType, TodoParts DEF Pending, TypeInv, InType
<1>2. /\ Len(p) \in Nat /\ DOMAIN p = 1 .. Len(p)
      /\ \A i \in 1 .. Len(p) : w[i] = p[i]
  <2>1. p \in Seq(Element) /\ a \in Seq(Element)
    BY <1>1
  <2> HIDE DEF p, a, w
  <2>2. /\ Len(p) \in Nat /\ DOMAIN p = 1 .. Len(p)
        /\ \A i \in 1 .. Len(p) : (p \o a)[i] = p[i]
    BY <2>1, Joined
  <2> QED BY <1>1, <2>2
<1>3. /\ Meants(w) \in Seq(Item) /\ Len(Meants(w)) = Len(w)
      /\ \A i \in 1 .. Len(w) : Meants(w)[i] = Meant(w[i])
  BY <1>1, Translated
<1>4. RawZlib # IAC /\ RawZlib \notin MustSwallow[s]
  <2>1. \A c \in MustSwallow[s] : c \in CommandCell
    BY SwallowWatched, WatchedCommand
  <2>2. RawZlib \notin CommandCell
    BY DEF RawZlib, CommandCell
  <2> QED BY <2>1, <2>2 DEF RawZlib, IAC
<1>5. ASSUME NEW e \in Input, Meant(e).cell # RawZlib,
             e.enc = 0 \/ mccp_mode["game"] # "enable"
      PROVE  e.enc = 0 /\ Meant(e).cell = e.cell
  BY <1>5 DEF Meant, Input
<1>6. \A i \in 1 .. Len(p) : p[i] \in Input /\ (p[i].enc = 0 \/ mccp_mode["game"] # "enable")
  BY <1>1, <1>2, ElementOfSeq
<1>7. Sound(s, p, k) /\ k \in 0 .. Len(p)
  OBVIOUS
<1>8. Len(w) \in Nat /\ Len(p) <= Len(w)
  <2>1. p \in Seq(Element) /\ a \in Seq(Element)
    BY <1>1
  <2> HIDE DEF p, a, w
  <2>2. Len(p \o a) = Len(p) + Len(a) /\ Len(p) \in Nat /\ Len(a) \in Nat
    BY <2>1, Joined
  <2> QED BY <1>1, <2>2
<1> HIDE DEF p, a, w
<1>9. ASSUME NEW i \in 1 .. k, Meants(w)[i].cell = IAC, i < Len(Meants(w)),
             Meants(w)[i + 1].cell \in MustSwallow[s]
      PROVE  FALSE
  <2>1. i \in 1 .. Len(p) /\ i \in 1 .. Len(w) /\ i + 1 \in 1 .. Len(w)
    BY <1>2, <1>3, <1>7, <1>8, <1>9
  <2>2. Meant(p[i]).cell = IAC
    BY <1>2, <1>3, <1>9, <2>1
  <2>3. p[i].enc = 0 /\ p[i].cell = IAC
    BY <1>4, <1>5, <1>6, <2>1, <2>2
  <2>4. i < Len(p) /\ ~(p[i + 1].enc = 0 /\ p[i + 1].cell \in MustSwallow[s])
    BY <1>7, <2>3 DEF Sound, IsIac
  <2>5. i + 1 \in 1 .. Len(p)
    BY <1>2, <2>1, <2>4
  <2>6. Meant(p[i + 1]).cell \in MustSwallow[s]
    BY <1>2, <1>3, <1>9, <2>1, <2>5
  <2>7. p[i + 1].enc = 0 /\ p[i + 1].cell \in MustSwallow[s]
    BY <1>4, <1>5, <1>6, <2>5, <2>6
  <2> QED BY <2>4, <2>7
<1> QED BY <1>1, <1>9 DEF R!Clean

\* What the matching loop writes across it may.
LEMMA LoopPasses ==
    ASSUME TypeInv, HeadCommand, FwdInv, ScanNoMatch \/ ScanMatch \/ Forward
    PROVE  \E data \in Seq(Element) :
              /\ Write(Other(Cur), data)
              /\ data \o inb'[Cur] = inb[Cur]
              /\ \A i \in DOMAIN data : i \in DOMAIN inb[Cur] /\ data[i] = inb[Cur][i]
              /\ matching_enabled[Cur] => Sound(Cur, inb[Cur], Len(data))
<1>1. /\ Buffer \in Seq(Input) /\ Len(Buffer) \in Nat /\ DOMAIN Buffer = 1 .. Len(Buffer)
      /\ Buffer = inb[Cur]
  BY BufferType, LenProperties DEF Buffer
<1>2. Cur \in Side
  BY CurType
<1>3. ASSUME matching_enabled[Cur], NEW k \in 0 .. Len(Buffer),
             \A i \in 1 .. k : i \notin Hits(Cur, Buffer)
      PROVE  Sound(Cur, Buffer, k)
  <2> SUFFICES ASSUME NEW i \in 1 .. k, IsIac(Buffer, i)
               PROVE  /\ i < Len(Buffer)
                      /\ ~(/\ Buffer[i + 1].enc = 0
                           /\ Buffer[i + 1].cell \in MustSwallow[Cur])
    BY DEF Sound
  <2>1. i \in DOMAIN Buffer
    BY <1>1
  <2>2. ~PartialAt(Cur, Buffer, i) /\ ~MatchAt(Cur, Buffer, i)
    BY <1>3, <2>1 DEF Hits
  <2>3. i < Len(Buffer)
    <3>1. i # Len(Buffer)
      BY <2>2 DEF PartialAt
    <3> QED BY <1>1, <2>1, <3>1
  <2> QED BY <1>2, <2>2, <2>3, SwallowWatched DEF MatchAt
<1>4. CASE ScanNoMatch
  <2>1. Write(Other(Cur), Buffer) /\ Hits(Cur, Buffer) = {}
    BY <1>4 DEF ScanNoMatch
  <2>2. inb'[Cur] = <<>>
    BY <1>4, CurType DEF ScanNoMatch, TypeInv, InType
  <2>3. Buffer \o inb'[Cur] = Buffer
    BY <1>1, <2>2, ConcatEmptySeq
  <2>4. Len(Buffer) \in 0 .. Len(Buffer)
    BY <1>1
  <2>5. matching_enabled[Cur] => Sound(Cur, Buffer, Len(Buffer))
    BY <1>3, <2>1, <2>4
  <2> QED BY <1>1, <2>1, <2>3, <2>5, InputType
<1>5. CASE ScanMatch
  <2> DEFINE hits == Hits(Cur, Buffer)
             at == Least(hits)
             k == at - 1
             data == SubSeq(Buffer, 1, k)
  <2>1. hits \in SUBSET (1 .. Len(Buffer)) /\ hits \in SUBSET Nat /\ hits # {}
    BY <1>1, <1>5 DEF ScanMatch, Hits
  <2>2. at \in hits /\ \A j \in hits : at <= j
    BY <2>1, LeastIn
  <2>3. Write(Other(Cur), data) /\ inb'[Cur] = After(Buffer, k)
    BY <1>5, CurType DEF ScanMatch, Pop, Buffer, TypeInv, InType
  <2> HIDE DEF at, hits
  <2>4. k \in 0 .. Len(Buffer)
    BY <1>1, <2>1, <2>2
  <2>5. \A i \in 1 .. k : i \notin hits
    BY <2>1, <2>2
  <2> HIDE DEF k
  <2>6. data \in Seq(Input) /\ Len(data) = k /\ data \o After(Buffer, k) = Buffer
    <3>1. Buffer \in Seq(Input) /\ k \in 0 .. Len(Buffer)
      BY <1>1, <2>4
    <3>2. data \in Seq(Input) /\ Len(data) = k
      BY <3>1, UpToType
    <3>3. data \o After(Buffer, k) = Buffer
      BY <3>1, PartsJoin
    <3> QED BY <3>2, <3>3
  <2>7. \A i \in 1 .. k : data[i] = Buffer[i]
    BY <1>1, <2>4, SubSeqProperties
  <2>8. DOMAIN data = 1 .. k /\ \A i \in 1 .. k : i \in DOMAIN Buffer
    BY <1>1, <2>4, <2>6, LenProperties
  <2> HIDE DEF data
  <2>9. matching_enabled[Cur] => Sound(Cur, Buffer, Len(data))
    BY <1>3, <2>4, <2>5, <2>6 DEF hits
  <2> QED BY <1>1, <2>3, <2>6, <2>7, <2>8, <2>9, InputType
<1>6. CASE Forward
  <2> DEFINE data == SubSeq(Buffer, 1, 2)
  <2>1. 2 \in 0 .. Len(Buffer) /\ Len(Buffer) >= 2
    BY <1>1, <1>6 DEF Forward, TypeInv, HeadInv, Buffer
  <2>2. data \in Seq(Input) /\ Len(data) = 2 /\ data \o After(Buffer, 2) = Buffer
    <3>1. Buffer \in Seq(Input) /\ 2 \in 0 .. Len(Buffer)
      BY <1>1, <2>1
    <3>2. data \in Seq(Input) /\ Len(data) = 2
      BY <3>1, UpToType
    <3>3. data \o After(Buffer, 2) = Buffer
      BY <3>1, PartsJoin
    <3> QED BY <3>2, <3>3
  <2>3. \A i \in 1 .. 2 : data[i] = Buffer[i]
    BY <1>1, <2>1, SubSeqProperties
  <2>4. DOMAIN data = 1 .. 2 /\ \A i \in 1 .. 2 : i \in DOMAIN Buffer
    BY <1>1, <2>1, <2>2, LenProperties
  <2>5. Write(Other(Cur), data) /\ inb'[Cur] = After(Buffer, 2)
    BY <1>6, CurType DEF Forward, Pop, Buffer, TypeInv, InType
  <2> HIDE DEF data
  <2>6. /\ IsIac(Buffer, 1) /\ Buffer[2].cell \in Watched(Cur)
        /\ Buffer[2].cell \notin MustSwallow[Cur]
    BY <1>6 DEF Forward, HeadCommand, FwdInv, Passed
  <2>7. Buffer[2].cell # IAC
    BY <1>2, <2>6, WatchedCommand, IacNoCommand DEF IsCommand
  <2>8. Sound(Cur, Buffer, 2)
    <3>1. \A i \in 1 .. 2 : i = 1 \/ i = 2
      OBVIOUS
    <3>2. ~IsIac(Buffer, 2)
      BY <2>7 DEF IsIac
    <3>3. 1 < Len(Buffer) /\ 1 + 1 = 2
      BY <1>1, <2>1
    <3> QED BY <2>6, <3>1, <3>2, <3>3 DEF Sound
  <2> QED BY <1>1, <2>2, <2>3, <2>4, <2>5, <2>8, InputType
<1> QED BY <1>4, <1>5, <1>6

\* A game's stream that is to be decoded is decoded before it is matched.
DecodedInv == mccp_mode["game"] = "enable" => Plain(inb["game"])

\* What it writes across the relay forwards.
LEMMA LoopForwards ==
    ASSUME TypeInv, OrderInv, HeadCommand, RelayInv, DecodedInv, MarkInv,
           NoFault, NoFault', [Next]_vars, ScanNoMatch \/ ScanMatch \/ Forward
    PROVE  R!Next \/ UNCHANGED R!vars
<1>0. PICK s \in Side : s = Cur
  BY CurType
<1>1. s \in Side /\ Other(s) \in Side /\ Other(s) # s
  BY DEF Other, Side
<1>2. PICK data \in Seq(Element) :
        /\ Write(Other(s), data)
        /\ data \o inb'[s] = inb[s]
        /\ \A i \in DOMAIN data : i \in DOMAIN inb[s] /\ data[i] = inb[s][i]
        /\ matching_enabled[s] => Sound(s, inb[s], Len(data))
  BY <1>0, LoopPasses DEF RelayInv
<1>3. UNCHANGED <<net, inflate, link>> /\ pc \in {"scan", "forward"}
      /\ pc' # "done"
  BY DEF ScanNoMatch, ScanMatch, Forward, peerVars, Scanning, NextSide, Rescan
<1>4. \A t \in Side : Arriving(t)' = Arriving(t) /\ (t # s => inb'[t] = inb[t])
  <2>1. \A t \in Side : t # s => inb'[t] = inb[t]
    BY <1>0 DEF ScanNoMatch, ScanMatch, Forward, Pop, TypeInv, InType
  <2> QED BY <1>3, <2>1 DEF Arriving, Decoding
<1>5. \A t \in Side : t # s => Todo'[t] = Todo[t]
  BY <1>4, TodoRests
<1>6. \A i \in DOMAIN inb[s] : inb[s][i].enc = 0 \/ mccp_mode["game"] # "enable"
  <2>1. CASE s = "client"
    BY <2>1 DEF RelayInv, PlainInv
  <2>2. CASE s = "game" /\ mccp_mode["game"] = "enable"
    BY <2>2 DEF DecodedInv, Plain
  <2> QED BY <1>1, <2>1, <2>2 DEF Side
<1>7. Meants(data) = Gots(data)
  <2>1. \A i \in DOMAIN data : data[i].enc # -1 \/ mccp_mode["game"] # "enable"
    BY <1>2, <1>6
  <2> QED BY <2>1, MeantGot
<1>8. /\ \/ Out'[Other(s)] = Out[Other(s)] \o Meants(data)
         \/ Other(s) \notin Here /\ Out'[Other(s)] = Out[Other(s)]
      /\ \A t \in Side : t # Other(s) => Out'[t] = Out[t]
  BY <1>1, <1>2, <1>7, WriteGets
<1>9. \A t \in Side : t # s => Out'[Other(t)] = Out[Other(t)]
  BY <1>1, <1>8 DEF Other, Side
<1>10. R!Clean(s, Todo[s], Len(data))
  <2>1. CASE matching_enabled[s]
    <3>1. Len(data) \in 0 .. Len(inb[s])
      <4>1. inb[s] \in Seq(Element) /\ DOMAIN inb[s] = 1 .. Len(inb[s]) /\ Len(inb[s]) \in Nat
        BY <1>1, StreamType, LenProperties
      <4>2. DOMAIN data = 1 .. Len(data) /\ Len(data) \in Nat
        BY LenProperties
      <4>3. Len(data) = 0 \/ Len(data) \in DOMAIN data
        BY <4>2
      <4> QED BY <1>2, <4>1, <4>2, <4>3
    <3> QED BY <1>1, <1>2, <1>6, <2>1, <3>1, SoundClean
  <2>2. CASE ~matching_enabled[s]
    <3>1. s = "game" /\ mccp_mode["game"] = "ignore"
      BY <1>1, <1>3, <2>2 DEF RelayInv, ModeMatch
    <3>2. MustSwallow[s] = {}
      BY <3>1 DEF MustSwallow
    <3> QED BY <3>2 DEF R!Clean
  <2> QED BY <2>1, <2>2
<1>11. Arriving(s)' = Arriving(s) /\ pc # "done" /\ pc' # "done" /\ UNCHANGED link
  <2>1. pc # "done"
    BY <1>3
  <2> QED BY <1>3, <1>4, <2>1
<1> QED BY <1>1, <1>2, <1>5, <1>8, <1>9, <1>10, <1>11, RelayForwards

\* The steps that pop the command they answer, unless they are MnesRequest
Answers == MnesRequest \/ MnesClientWont \/ RespondDont \/ RespondDo \/ RespondWont
           \/ Mccp2Do \/ Mccp2Dont \/ Mccp2SbStart

\* What they answer they may take out of the stream.
LEMMA AnswersMay ==
    ASSUME TypeInv, Answers
    PROVE  /\ pc = "match" /\ Cur \in Side /\ UNCHANGED link
           /\ Buffer[2].cell \in MustSwallow[Cur] \cup Optional[Cur]
           /\ pc' \in {"top", "serve", "scan", "forward"}
           /\ Pop(2) \/ (MnesRequest /\ UNCHANGED inb)
<1>1. pc = "match" /\ Cur \in Side /\ UNCHANGED link
  BY CurType DEF Answers, MnesRequest, MnesClientWont, RespondDont, RespondDo,
     RespondWont, Respond, Mccp2Do, DoMatched, Mccp2Dont, DontMatched, Mccp2SbStart,
     Matched, peerVars
<1>2. pc' \in {"top", "serve", "scan", "forward"}
  BY DEF Answers, MnesRequest, MnesClientWont, RespondDont, RespondDo,
     RespondWont, Respond, Mccp2Do, Mccp2Dont, Mccp2SbStart,
     Handled, NotHandled, Rescan, NextSide
<1>3. Pop(2) \/ (MnesRequest /\ UNCHANGED inb)
  BY DEF Answers, MnesRequest, MnesClientWont, RespondDont, RespondDo,
     RespondWont, Respond, Mccp2Do, Mccp2Dont, Mccp2SbStart,
     Handled, NotHandled
<1>4. /\ MustSwallow["client"] = {<<"WONT", "NEWENV">>}
                                 \cup MccpWatch("client", mccp_mode["client"])
      /\ mccp_mode["game"] # "ignore" =>
            MustSwallow["game"] = MccpWatch("game", mccp_mode["game"])
      /\ Optional["game"] = {"SEND"} \X {"ALL", ""}
  BY DEF MustSwallow, Optional
<1>5. CASE MnesRequest
  <2>1. Cur = "game" /\ Buffer[2].cell \in {<<"SEND", "ALL">>, <<"SEND", "">>}
    BY <1>5 DEF MnesRequest, Matched
  <2>2. Buffer[2].cell \in {"SEND"} \X {"ALL", ""}
    <3>1. /\ <<"SEND", "ALL">> \in {"SEND"} \X {"ALL", ""}
          /\ <<"SEND", "">> \in {"SEND"} \X {"ALL", ""}
      OBVIOUS
    <3> QED BY <2>1, <3>1
  <2> QED BY <1>1, <1>2, <1>3, <1>4, <2>1, <2>2
<1>6. CASE MnesClientWont
  <2>1. Cur = "client" /\ Buffer[2].cell = <<"WONT", "NEWENV">>
    BY <1>6 DEF MnesClientWont, Matched
  <2> QED BY <1>1, <1>2, <1>3, <1>4, <2>1
<1>7. CASE RespondDont
  <2>1. /\ Cur = "game" /\ Buffer[2].cell \in {"WILL"} \X MccpOption
        /\ mccp_mode["game"] = "disable"
    BY <1>7 DEF RespondDont, Matched
  <2>2. MccpWatch("game", "disable") = {"WILL"} \X MccpOption
    BY DEF MccpWatch
  <2>3. Buffer[2].cell \in MustSwallow["game"]
    <3>1. mccp_mode["game"] # "ignore"
      BY <2>1
    <3> QED BY <1>4, <2>1, <2>2, <3>1
  <2> QED BY <1>1, <1>2, <1>3, <2>1, <2>3
<1>8. CASE RespondDo \/ Mccp2SbStart
  <2>1. /\ Cur = "game" /\ Buffer[2].cell \in {<<"WILL", "MCCP2">>, <<"SB", "MCCP2">>}
        /\ mccp_mode["game"] = "enable"
    BY <1>8 DEF RespondDo, Mccp2SbStart, Matched
  <2>2. MccpWatch("game", "enable") = {"WILL", "SB"} \X {"MCCP2"}
    BY DEF MccpWatch
  <2>3. Buffer[2].cell \in {"WILL", "SB"} \X {"MCCP2"}
    BY <2>1
  <2>4. Buffer[2].cell \in MustSwallow["game"]
    <3>1. mccp_mode["game"] # "ignore"
      BY <2>1
    <3> QED BY <1>4, <2>1, <2>2, <2>3, <3>1
  <2> QED BY <1>1, <1>2, <1>3, <2>1, <2>4
<1>9. CASE RespondWont
  <2>1. /\ Cur = "client" /\ Buffer[2].cell \in {"DO"} \X MccpOption
        /\ mccp_mode["client"] = "disable"
    BY <1>9 DEF RespondWont, Matched
  <2>2. MccpWatch("client", "disable") = {"DO"} \X MccpOption
    BY DEF MccpWatch
  <2> QED BY <1>1, <1>2, <1>3, <1>4, <2>1, <2>2
<1>10. CASE Mccp2Do \/ Mccp2Dont
  <2>1. /\ Cur = "client" /\ Buffer[2].cell \in {<<"DO", "MCCP2">>, <<"DONT", "MCCP2">>}
        /\ mccp_mode["client"] = "enable"
    BY <1>10 DEF Mccp2Do, Mccp2Dont, DoMatched, DontMatched, Matched
  <2>2. MccpWatch("client", "enable") = {"DO", "DONT"} \X {"MCCP2"}
    BY DEF MccpWatch
  <2>3. Buffer[2].cell \in {"DO", "DONT"} \X {"MCCP2"}
    BY <2>1
  <2> QED BY <1>1, <1>2, <1>3, <1>4, <2>1, <2>2, <2>3
<1> QED BY <1>5, <1>6, <1>7, <1>8, <1>9, <1>10 DEF Answers

\* Where nothing is read, sent or popped, nothing is disposed of.
LEMMA TodoStays ==
    ASSUME TypeInv, [Next]_vars,
           \A s \in Side : inb'[s] = inb[s] /\ Arriving(s)' = Arriving(s)
    PROVE  UNCHANGED Todo
<1>1. \A s \in Side : Todo'[s] = Todo[s]
  BY TodoRests
<1>2. Todo' = [s \in Side |-> Todo'[s]] /\ Todo = [s \in Side |-> Todo[s]]
  BY DEF Todo
<1> QED BY <1>1, <1>2

\* An answer of MUDitM's own is an answer of the relay.
LEMMA HandlerAnswers ==
    ASSUME TypeInv, OrderInv, HeadCommand, RelayInv, QuietInv, MarkInv,
           NoFault, NoFault', [Next]_vars, Answers
    PROVE  R!Next
<1>0. PICK s \in Side : s = Cur
  BY CurType
<1>1. /\ pc = "match" /\ UNCHANGED link
      /\ Buffer[2].cell \in MustSwallow[s] \cup Optional[s]
      /\ pc' \in {"top", "serve", "scan", "forward"}
      /\ Pop(2) \/ (MnesRequest /\ UNCHANGED inb)
  BY <1>0, AnswersMay
<1>2. /\ ~(ScanNoMatch \/ ScanMatch \/ Forward \/ InitFails)
      /\ ~(Read \/ ReadInflated \/ ReadCorrupt)
      /\ ~\E t \in Side : Sends(t)
  BY <1>1, NoFailure DEF ScanNoMatch, ScanMatch, Scanning, Forward, Read, ReadInflated,
     ReadCorrupt, Refill, Sends, Send, GameCompresses, GameEndsZlib, Waiting
<1>3. Speaks
  BY <1>2, StepSpeaks DEF RelayInv, SentInv, NoFault
<1>4. \A t \in Side : Arriving(t)' = Arriving(t)
  BY <1>2, ArrivingRests
<1>5. pc # "done" /\ pc' # "done"
  BY <1>1
<1>6. CASE Pop(2)
  <2>1. PICK data \in Seq(Element) :
          /\ Len(data) = 2 /\ data[1] = Buffer[1] /\ data[2] = Buffer[2]
          /\ data \o inb'[s] = inb[s]
    BY <1>0, <1>1, <1>6, CommandPops
  <2>2. \A t \in Side : t # s => inb'[t] = inb[t]
    BY <1>0, <1>1, <1>6, CommandPops
  <2>3. \A t \in Side : t # s => Todo'[t] = Todo[t]
    BY <1>4, <2>2, TodoRests
  <2>4. /\ data[1].enc = 0 /\ data[1].cell = IAC /\ data[2].enc = 0
        /\ data[2].cell \in MustSwallow[s] \cup Optional[s]
    BY <1>1, <2>1 DEF HeadCommand, IsIac
  <2> QED BY <1>1, <1>3, <1>4, <1>5, <2>1, <2>3, <2>4, RelayAnswers
<1>7. CASE MnesRequest /\ UNCHANGED inb
  <2>1. UNCHANGED Todo
    BY <1>4, <1>7, TodoStays
  <2>2. UNCHANGED <<mccp_mode, Todo, link>>
    BY <1>1, <2>1, ModeStays
  <2> QED BY <1>3, <1>5, <2>2, RelayVolunteers
<1> QED BY <1>1, <1>6, <1>7

\* So is what it says unasked.
LEMMA UnaskedSpeaks ==
    ASSUME TypeInv, OrderInv, HeadCommand, RelayInv, QuietInv, MarkInv,
           NoFault, NoFault', [Next]_vars, Start \/ CheckFallback
    PROVE  R!Next
<1>1. /\ pc \in {"init", "top"} /\ pc' \in {"setup", "poll"} /\ UNCHANGED <<inb, link>>
  BY DEF Start, CheckFallback, peerVars
<1>2. /\ ~(ScanNoMatch \/ ScanMatch \/ Forward \/ InitFails)
      /\ ~(Read \/ ReadInflated \/ ReadCorrupt)
      /\ ~\E t \in Side : Sends(t)
  BY <1>1, NoFailure DEF ScanNoMatch, ScanMatch, Scanning, Forward, Read, ReadInflated,
     ReadCorrupt, Refill, Sends, Send, GameCompresses, GameEndsZlib, Waiting
<1>3. Speaks
  BY <1>2, StepSpeaks DEF RelayInv, SentInv, NoFault
<1>4. \A t \in Side : Arriving(t)' = Arriving(t)
  BY <1>2, ArrivingRests
<1>5. UNCHANGED Todo
  BY <1>1, <1>4, TodoStays
<1>6. UNCHANGED <<mccp_mode, Todo, link>>
  BY <1>1, <1>5, ModeStays
<1>7. pc # "done" /\ pc' # "done"
  BY <1>1
<1> QED BY <1>3, <1>6, <1>7, RelayVolunteers

\* The steps that neither of the peers sees
Unseen == SetNonblocking \/ Poll \/ PollTimeout \/ Read \/ ReadInflated \/ ReadCorrupt
          \/ ReadNothing \/ ReadError \/ ScanPartial \/ MnesDoes \/ MnesClientWill
          \/ MccpIgnore \/ PollInterrupted \/ Tick \/ Terminated \/ UNCHANGED vars

\* They are none of the relay's, or end the session.
LEMMA UnseenRests ==
    ASSUME TypeInv, OrderInv, HeadCommand, MarkInv, [Next]_vars, Unseen
    PROVE  R!Next \/ UNCHANGED R!vars
<1>1. UNCHANGED <<sent, link>>
  BY DEF Unseen, SetNonblocking, Poll, PollTimeout, Read, ReadInflated, ReadCorrupt,
     ReadNothing, ReadError, ScanPartial, MnesDoes, MnesClientWill, MccpIgnore,
     PollInterrupted, Tick, Terminated, vars, outVars, peerVars
<1>2. pc = "done" => pc' = "done"
  BY DEF Unseen, SetNonblocking, Poll, PollTimeout, Read, ReadInflated, ReadCorrupt,
     Refill, ReadNothing, ReadError, ScanPartial, Scanning, MnesDoes, MnesClientWill,
     MccpIgnore, Matched, PollInterrupted, Tick, Terminated, vars, ctlVars
<1>3. UNCHANGED Out
  BY <1>1 DEF Out, Gots, Got
<1>4. UNCHANGED Todo
  <2>1. CASE Read \/ ReadInflated \/ ReadCorrupt
    <3>1. \A s \in Side : Todo'[s] = Todo[s]
      BY <2>1, TodoReads DEF MarkInv
    <3>2. Todo' = [s \in Side |-> Todo'[s]] /\ Todo = [s \in Side |-> Todo[s]]
      BY DEF Todo
    <3> QED BY <3>1, <3>2
  <2>2. CASE ~(Read \/ ReadInflated \/ ReadCorrupt)
    <3>1. UNCHANGED <<inb, net, inflate>>
      BY <2>2 DEF Unseen, SetNonblocking, Poll, PollTimeout, ReadNothing, ReadError,
         ScanPartial, MnesDoes, MnesClientWill, MccpIgnore, NotHandled,
         PollInterrupted, Tick, Terminated, vars, peerVars
    <3>2. \A s \in Side : inb'[s] = inb[s] /\ Arriving(s)' = Arriving(s)
      BY <3>1 DEF Arriving, Decoding
    <3> QED BY <3>2, TodoStays
  <2> QED BY <2>1, <2>2
<1>5. UNCHANGED <<mccp_mode, Todo, Out, link>>
  BY <1>1, <1>3, <1>4, ModeStays
<1> QED BY <1>2, <1>5, RelayRests

\* What a peer sends is offered to the relay.
LEMMA SendOffers ==
    ASSUME TypeInv, [Next]_vars, NEW s \in Side, Sends(s)
    PROVE  R!Next
<1>1. PICK new \in Seq(Element) : Todo'[s] = Todo[s] \o Meants(new)
  BY TodoSends
<1>2. \A t \in Side : t # s => Todo'[t] = Todo[t]
  BY TodoSends
<1>3. UNCHANGED <<sent, link, pc>> /\ pc # "done"
  BY DEF Sends, Send, GameCompresses, GameEndsZlib, outVars, ctlVars, Waiting
<1>4. UNCHANGED <<MustSwallow, Out, Here>> /\ (pc # "done")' = (pc # "done")
  BY <1>3, ModeStays DEF MustSwallow, Out, Gots, Got, Here
<1>5. PICK old \in Seq(Item), more \in Seq(Item) : old = Todo[s] /\ more = Meants(new)
  BY TodoParts, Translated
<1>6. R!Extends(old, old \o more)
  <2>1. SubSeq(old \o more, 1, Len(old)) = old
    BY Splits
  <2>2. Len(old \o more) = Len(old) + Len(more) /\ Len(old) \in Nat /\ Len(more) \in Nat
    BY Joined
  <2> QED BY <2>1, <2>2 DEF R!Extends
<1>7. Todo' = [Todo EXCEPT ![s] = Todo'[s]]
  <2>1. PICK now : now = Todo'
    OBVIOUS
  <2>2. now = [t \in Side |-> now[t]] /\ Todo = [t \in Side |-> Todo[t]]
    BY <2>1 DEF Todo
  <2>3. \A t \in Side : t # s => now[t] = Todo[t]
    BY <1>2, <2>1
  <2>4. now = [Todo EXCEPT ![s] = now[s]]
    BY <2>2, <2>3
  <2> QED BY <2>1, <2>4
<1>8. R!Offer(s)
  BY <1>1, <1>3, <1>4, <1>5, <1>6, <1>7 DEF R!Offer
<1> QED BY <1>8 DEF R!Next

\* A peer that hangs up leaves the relay.
LEMMA HangUpLeaves ==
    ASSUME TypeInv, OrderInv, HeadCommand, MarkInv, [Next]_vars, NEW s \in Side, HangUp(s)
    PROVE  R!Next
<1>1. /\ UNCHANGED <<sent, pc, inb, net, inflate>> /\ link[s] = "open"
      /\ \E how \in HangUps[s] : link' = [link EXCEPT ![s] = how]
  BY DEF HangUp, outVars, ctlVars
<1>2. \A t \in Side : inb'[t] = inb[t] /\ Arriving(t)' = Arriving(t)
  BY <1>1 DEF Arriving, Decoding
<1>3. UNCHANGED <<MustSwallow, Todo, Out>> /\ (pc # "done")' = (pc # "done")
  <2>1. UNCHANGED Todo
    BY <1>2, TodoStays
  <2> QED BY <1>1, <2>1, ModeStays DEF MustSwallow, Out, Gots, Got
<1>4. s \in Here /\ Here' = Here \ {s}
  <2>1. PICK how : how # "open" /\ link' = [link EXCEPT ![s] = how]
    BY <1>1, ConfigAssumption
  <2>2. \A t \in Side : link'[t] = IF t = s THEN how ELSE link[t]
    BY <2>1 DEF TypeInv, PeerType
  <2> QED BY <1>1, <2>1, <2>2 DEF Here
<1>5. R!Leave(s)
  BY <1>3, <1>4 DEF R!Leave
<1> QED BY <1>5 DEF R!Next

\* Every step of the session is one of the relay's, or none.
LEMMA RelayStep ==
    ASSUME TypeInv, OrderInv, StreamInv, RelayInv, DecodedInv, MarkInv,
           NoFault, NoFault', [Next]_vars
    PROVE  R!Next \/ UNCHANGED R!vars
<1>1. CASE ScanNoMatch \/ ScanMatch \/ Forward
  BY <1>1, LoopForwards DEF StreamInv
<1>2. CASE Answers
  BY <1>2, HandlerAnswers DEF StreamInv
<1>3. CASE Start \/ CheckFallback
  BY <1>3, UnaskedSpeaks DEF StreamInv
<1>4. CASE Unseen
  BY <1>4, UnseenRests DEF StreamInv
<1>5. CASE \E s \in Side : Sends(s)
  BY <1>5, SendOffers
<1>6. CASE \E s \in Side : HangUp(s)
  BY <1>6, HangUpLeaves DEF StreamInv
<1>7. ~Mccp2DoFails /\ ~Mccp2SbStartFails
  BY NoFailure DEF Mccp2DoFails, Mccp2SbStartFails
<1> QED BY <1>1, <1>2, <1>3, <1>4, <1>5, <1>6, <1>7 DEF Next, Loop, Handler, Peer, Answers,
   Unseen, Sends, Side

\* So is its beginning.
LEMMA RelayStarts == Init => R!Init /\ NoFault /\ MarkInv
<1> SUFFICES ASSUME Init PROVE R!Init /\ NoFault /\ MarkInv
  OBVIOUS
<1>1. /\ \A s \in Side : inb[s] = <<>> /\ net[s] = <<>> /\ sent[s] = <<>>
      /\ inflate.held = <<>> /\ ~inflate.on /\ shorts = 0 /\ zfails = 0
      /\ \A s \in Side : link[s] = "open"
      /\ pc = "init"
  BY DEF Init
<1>2. <<>> \o <<>> = <<>> /\ DOMAIN <<>> = {} /\ Meants(<<>>) = <<>> /\ Gots(<<>>) = <<>>
  BY DEF Meants, Gots
<1>3. \A s \in Side : inb[s] \o Decoding(s) \o net[s] = <<>>
  BY <1>1, <1>2 DEF Decoding
<1>4. Todo = [s \in Side |-> <<>>] /\ Out = [s \in Side |-> <<>>]
  BY <1>1, <1>2, <1>3 DEF Todo, Out
<1>5. Here = Side /\ DOMAIN MustSwallow = Side
  BY <1>1 DEF Here, MustSwallow, Side
<1>6. R!Init
  BY <1>1, <1>4, <1>5 DEF R!Init
<1>7. MarkInv
  BY <1>1, <1>2, <1>4 DEF MarkInv, Marked, OneMark, Side
<1> QED BY <1>1, <1>6, <1>7 DEF NoFault

\* What is matched is decoded.
LEMMA DecodedAlways ==
    ASSUME Waits, MaxShort = 0, MaxInitFail = 0 PROVE Spec => [](NoFault /\ DecodedInv)
<1>1. Init => NoFault
  BY RelayStarts
<1>2. TypeInv /\ NoFault /\ [Next]_vars => NoFault'
  BY FaultNext
<1>3. Spec => []NoFault
  BY <1>1, <1>2, TypeAlways, PTL DEF Spec
<1>4. NoFault /\ ZipInv => DecodedInv
  BY DEF NoFault, ZipInv, Minds, DecodedInv
<1> QED BY <1>3, <1>4, ZipAlways, PTL

\* The session is a transparent relay that takes a few whole commands out of
\* each stream and adds words of its own, as long as every write is taken whole
\* and zlib starts, and with a game that marks the start of its zlib stream once
\* and waits until that has been read (muditm_proxy() in src/proxy.c, with the
\* handlers of src/handlers.c and src/mccp.c).
THEOREM RelayCorrect ==
    ASSUME MaxShort = 0, MaxInitFail = 0, MarksOnce, Waits
    PROVE  Spec => RelaySpec
<1>1. Init => R!Init /\ MarkInv
  BY RelayStarts
<1>2. TypeInv /\ OrderInv /\ StreamInv /\ MarkInv /\ [Next]_vars => MarkInv'
  BY MarkNext DEF StreamInv
<1>3. TypeInv /\ OrderInv /\ StreamInv /\ RelayInv /\ DecodedInv /\ MarkInv
      /\ NoFault /\ NoFault' /\ [Next]_vars => [R!Next]_R!vars
  BY RelayStep
<1>4. Spec => [](NoFault /\ DecodedInv)
  BY DecodedAlways
<1> QED BY <1>1, <1>2, <1>3, <1>4, TypeAlways, OrderAlways, StreamAlways, RelayAlways,
   PTL DEF Spec, RelaySpec, R!Spec
=============================================================================
