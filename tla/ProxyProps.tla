----------------------------- MODULE ProxyProps -----------------------------
(***************************************************************************)
(* The properties of a session.                                            *)
(***************************************************************************)
EXTENDS Proxy

Element == [cell: Cell \cup {RawZlib}, src: Nat, enc: Int, pos: Nat]

\* Every variable has its type, input buffers fit EP_BUFSIZE and only a
\* finished session has returned something.
TypeOK ==
    /\ pc \in {"init", "setup", "top", "poll", "serve", "scan", "match",
               "forward", "done"}
    /\ revents \subseteq Side
    /\ ret \in {0, 1, -1} /\ (ret # 0 <=> pc = "done")
    /\ \A s \in Side : /\ \A i \in DOMAIN inb[s] : inb[s][i] \in Element
                       /\ \A i \in DOMAIN outq[s] : outq[s][i] \in Element
                       /\ Len(inb[s]) <= BufSize
    /\ mccp_mode \in [Side -> Mode]
    /\ mnes_state \in [Side -> {"none", "DO", "WILL", "WONT"}]
    /\ matching_enabled \in [Side -> BOOLEAN]
    /\ mccp_nego \in {"NONE", "OFFERED", "ACCEPTED", "REFUSED"}
    /\ deflate \in [on: BOOLEAN, gen: Nat, pos: Nat]
    /\ inflate.on \in BOOLEAN /\ inflate.bad \in BOOLEAN /\ inflate.pos \in Nat
    /\ \A i \in DOMAIN inflate.held : inflate.held[i] \in Element
    /\ inflate.spent \in BOOLEAN
    /\ deadline \in {"unset", "armed", "passed"}
    /\ errno \in {"none", "EAGAIN", "EINTR", "EPIPE", "ECONNRESET"}
    /\ link \in [Side -> {"open", "closed", "reset"}]

-----------------------------------------------------------------------------
(* Compression.                                                            *)

\* mccp_nego, which is what the game is told of the client's compression,
\* says ACCEPTED exactly while a zlib stream to the client exists.
NegoMatchesDeflate == mccp_nego = "ACCEPTED" <=> deflate.on

\* What the game was last told, or is queued to be told, of the client's
\* compression is so: whichever of the client's answer and the game's request
\* came first, and whatever was negotiated in between.
ToldIsTrue ==
    LET said == sent["game"] \o outq["game"]
        told == {i \in DOMAIN said : /\ said[i].src = 0
                                     /\ said[i].cell[1] = "COMPRESSION"}
    IN  \A i \in told : (\A j \in told : j <= i) =>
            said[i].cell = Compression(deflate.on)

\* A client that has taken up the offer and kept to it receives telnet up to
\* and including the one start marker, and from there one unbroken zlib
\* stream: no write overtakes the switch, none escapes the compression.  (A
\* short write breaks the stream for good: mccp2_do() does not wait for the
\* marker, nor write_endpoint_compressed() for what zlib has produced.)
ClientCanInflate ==
    deflate.on /\ deflate.gen = 1 /\ shorts = 0 /\ link["client"] = "open" =>
        LET wire == sent["client"]
            starts == {i \in DOMAIN wire :
                          wire[i].src = 0 /\ wire[i].cell = <<"SB", "MCCP2">>}
        IN  /\ Cardinality(starts) = 1
            /\ \A i \in DOMAIN wire, m \in starts :
                  IF i <= m THEN wire[i].enc <= 0
                            ELSE wire[i].enc = 1 /\ wire[i].pos = i - m

\* flush_endpoint() is never called for a client that is being sent a zlib
\* stream with something queued: write_endpoint_compressed() returns 0 for a
\* success, and what it wrote would stay queued and be sent again.
NothingQueuedTwice ==
    deflate.on /\ shorts = 0 /\ link["client"] = "open" => outq["client"] = <<>>

\* A zlib stream of the game's that ends, or that zlib cannot decode, ends the
\* session; it goes on for nothing only if a call before that came back with
\* EAGAIN, which is then still in errno and passes for the reason.
BrokenZlibEnds == inflate.bad /\ pc # "done" => dry + shorts > 0

\* The game's zlib stream is either decoded whole or the session ends: no
\* compressed byte of it is taken for telnet and passed on, unless zlib fails
\* to start or compression is not MUDitM's concern.
NoRawZlib ==
    /\ zfails = 0
    /\ mccp_mode["client"] # "ignore" \/ mccp_mode["game"] = "enable"
    => \A i \in DOMAIN sent["client"] :
          /\ sent["client"][i].enc # -1
          /\ sent["client"][i].cell # RawZlib

\* What the game has sent does not stay inside zlib while the session waits
\* for more of it.
NothingStuckInZlib ==
    pc = "poll" /\ net["game"] = <<>> => inflate.held = <<>>

-----------------------------------------------------------------------------
(* Relaying.                                                               *)

\* The commands that MUDitM answers itself in each mode, and never relays.
MustSwallow ==
    [client |-> {<<"WONT", "NEWENV">>}
                \cup MccpWatch("client", mccp_mode["client"]),
     game |-> IF mccp_mode["game"] = "ignore" THEN {}
              ELSE MccpWatch("game", mccp_mode["game"])]

\* However the streams are cut into reads, a peer never sees a command of the
\* other that MUDitM answers itself (unless zlib has failed to start).
NoLeak ==
    zfails = 0 => \A s \in Side : \A i \in DOMAIN sent[Other(s)] :
        sent[Other(s)][i].src > 0 /\ sent[Other(s)][i].enc # -1 =>
            sent[Other(s)][i].cell \notin MustSwallow[s]

\* What is relayed keeps its order and is relayed once, even when writes fall
\* short.
OrderPreserved ==
    zfails = 0 => \A s \in Side : \A i, j \in DOMAIN sent[s] :
        /\ i < j /\ sent[s][i].src > 0 /\ sent[s][j].src > 0
        => sent[s][i].src < sent[s][j].src

\* The input buffer of s ends in the beginning of a command.
HeldBack(s) ==
    LET q == inb[s]
    IN  /\ matching_enabled[s]
        /\ \/ q # <<>> /\ PartialAt(s, q, Len(q))
           \/ Len(q) > 1 /\ PartialAt(s, q, Len(q) - 1)

\* When the session waits in poll(), what it holds back from the other side
\* ends in the beginning of a command: nothing else waits for more input.
HeldOnlyPartial ==
    pc = "poll" => \A s \in Side : inb[s] # <<>> => HeldBack(s)

\* While the session waits nothing it has to say is left in an output buffer,
\* unless a write fell short or the peer has gone.
NothingUnsaid ==
    pc = "poll" /\ shorts = 0 =>
        \A s \in Side : link[s] = "open" => outq[s] = <<>>

\* No cell of MUDitM's own separates a command it watches for from its IAC.
WatchedStayWhole ==
    zfails = 0 =>
        \A s \in {t \in Side : matching_enabled[Other(t)]} :
            \A i \in DOMAIN sent[s] :
                LET e == sent[s][i]
                IN  e.src > 0 /\ e.enc # -1 /\ e.cell \in Watched(Other(s)) =>
                        i > 1 /\ sent[s][i - 1].src = e.src - 1

-----------------------------------------------------------------------------
(* NEW-ENVIRON.                                                            *)

SaidWill ==
    \E i \in DOMAIN (sent["game"] \o outq["game"]) :
        (sent["game"] \o outq["game"])[i].cell = <<"WILL", "NEWENV">>

\* The fallback answers for the client only if the game has had no answer at
\* all, from the client or on its behalf (unless zlib has failed to start, and
\* the client's was written across unread).
FallbackOnlyIfSilent ==
    [][ pc = "top" /\ zfails = 0 /\ mnes_state'["client"] # mnes_state["client"]
        => ~SaidWill ]_vars

-----------------------------------------------------------------------------
(* The end of a session.                                                   *)

\* A session ends with 1, for a peer that hung up, only if a peer hung up.
HungUpMeansHungUp == ret = 1 => \E s \in Side : link[s] # "open"

\* The only other reason for it is an input buffer that the text before a
\* command and the beginning of the command have filled to the last byte: no
\* other text, whatever the reads and the handlers leave of it, comes to fill a
\* buffer that is read into again.
HungUpOrFull ==
    ret = 1 => \E s \in Side :
        link[s] # "open" \/ (Len(inb[s]) = BufSize /\ HeldBack(s))

-----------------------------------------------------------------------------
(* Liveness, of a session whose reads and writes return.  Without TLS they *)
(* do; Endpoint!Returns says when they do with TLS.                        *)

\* A session one of whose peers has gone ends: poll() names that side sooner or
\* later, and a read of it does not find anything for ever.
HangUpEnds == (\E s \in Side : link[s] # "open") ~> (pc = "done")

\* A game that asks for NEW-ENVIRON gets an answer, if not from the client
\* then from the fallback.
FallbackAnswers ==
    Fallback /\ mnes_state["game"] = "DO" ~> SaidWill \/ pc = "done"

\* What a peer sends is taken up.
InputTaken == \A s \in Side : net[s] # <<>> ~> net[s] = <<>> \/ pc = "done"

-----------------------------------------------------------------------------
(* The session implements the relay.                                       *)

\* The cell a peer makes of element e, if it does not inflate the game's
\* zlib stream, and the cell the sender of e meant.
Got(e) == [cell |-> IF e.enc = -1 THEN RawZlib ELSE e.cell, src |-> e.src]
Meant(e) == [cell |-> IF e.enc = -1 /\ mccp_mode["game"] # "enable"
                      THEN RawZlib ELSE e.cell,
             src |-> e.src]

Gots(q) == [i \in DOMAIN q |-> Got(q[i])]
Meants(q) == [i \in DOMAIN q |-> Meant(q[i])]

Decoding(s) == IF s = "game" THEN inflate.held ELSE <<>>

\* What side s has sent and the session has not disposed of, what has been
\* delivered to s, and who is there
Todo == [s \in Side |-> Meants(inb[s] \o Decoding(s) \o net[s])]
Out == [s \in Side |-> Gots(sent[s])]
Here == {s \in Side : link[s] = "open"}

\* The commands that may be taken out of a stream, and all that MUDitM says
Optional == [client |-> {}, game |-> {"SEND"} \X {"ALL", ""}]
Words ==
    [client |-> {IAC, <<"WILL", "MCCP2">>, <<"SB", "MCCP2">>}
                \cup ({"WONT"} \X MccpOption),
     game |-> {IAC, <<"WILL", "NEWENV">>, <<"PROXY_NAME", "">>,
               <<"IPADDRESS", "">>, Compression(TRUE), Compression(FALSE)}
              \cup ({"DO", "DONT"} \X MccpOption)
              \cup {ReportVars[i] : i \in DOMAIN ReportVars}]

R == INSTANCE Relay WITH
        Iac <- IAC,
        MaySwallow <- Optional,
        Vocabulary <- Words,
        rules <- MustSwallow,
        todo <- Todo,
        out <- Out,
        here <- Here,
        open <- pc # "done"

RelaySpec == R!Spec
=============================================================================
