------------------------------- MODULE Proxy -------------------------------
(***************************************************************************)
(* One session of MUDitM: the process that main() runs for a connected     *)
(* client, from the call of muditm_proxy() (proxy.c) to its return, with   *)
(* the pattern handlers of handlers.c and mccp.c that it calls.            *)
(*                                                                         *)
(* A byte stream is a sequence of elements.  The cell of an element is a   *)
(* pair of strings: a piece of text, the byte IAC, or all of a telnet      *)
(* command that follows its IAC, so that a command is two elements and a   *)
(* read can end inside it.  `src' is the element's place in what its       *)
(* sender sent, 0 for an element MUDitM wrote itself.  `enc' is 0 for      *)
(* telnet, -1 for an element inside the game's zlib stream, and g >= 1 for *)
(* one inside the g-th zlib stream MUDitM started towards the client;      *)
(* `pos' is its place in that zlib stream.                                 *)
(*                                                                         *)
(* A definition marked "Mistake:" is a wrong version of the one it stands  *)
(* before, and no part of the specification: some property of ProxyProps   *)
(* fails with it.                                                          *)
(***************************************************************************)
EXTENDS Integers, Sequences, FiniteSets

CONSTANTS
    Modes,         \* the settings of compression a session may be given, each
                   \* a function [Side -> Mode]
    Fallback,      \* newenv_fallback
    ImmediateIp,   \* newenv_immediate_ip
    ReportVars,    \* newenv_ipaddress, as a sequence of the cells it adds
    BufSize,       \* EP_BUFSIZE, in cells
    Messages,      \* [Side -> what a peer may send, each a sequence of cells]
    MaxCells,      \* [Side -> bound on the number of cells a peer sends]
    MaxShort,      \* bound on the writes the kernel accepts only in part
    MaxDry,        \* bound on the reads that find nothing after all
    MaxInitFail,   \* bound on the failures of deflateInit() and inflateInit()
    MaxFaults,     \* bound on all of these together
    HangUps,       \* [Side -> the ways it may leave: "closed", "reset"]
    MayCoalesce,   \* may the game's first compressed bytes follow the start
                   \* marker before MUDitM has read it?
    MayEnd         \* may the game end its zlib stream and go back to telnet?

Side == {"client", "game"}
Mode == {"ignore", "disable", "enable"}

\* What a cell may be: the commands that the patterns and handlers know, and
\* all else.
Verb == {"IAC", "WILL", "WONT", "DO", "DONT", "SB", "SEND", "PROXY_NAME",
         "COMPRESSION", "IPADDRESS", "VAR", "text", "Z_STREAM_END"}
Option == {"", "NEWENV", "MCCP", "MCCP2", "MCCP3", "ALL", "none"}
Cell == Verb \X Option

ASSUME ConfigAssumption ==
    /\ Modes \subseteq [Side -> Mode]
    /\ Fallback \in BOOLEAN /\ ImmediateIp \in BOOLEAN
    /\ HangUps \in [Side -> SUBSET {"closed", "reset"}]
    /\ MayCoalesce \in BOOLEAN /\ MayEnd \in BOOLEAN

ASSUME CellsAssumption ==
    /\ ReportVars \in Seq({<<"IPADDRESS", "">>})
    /\ Messages \in [Side -> SUBSET Seq(Cell)]

ASSUME BoundAssumption ==
    /\ BufSize \in Nat \ {0}
    /\ MaxShort \in Nat /\ MaxDry \in Nat /\ MaxInitFail \in Nat
    /\ MaxFaults \in Nat /\ MaxCells \in [Side -> Nat]

VARIABLES
    pc,        \* where muditm_proxy() is
    revents,   \* the sides poll() found readable and the loop has yet to serve
    ret,       \* the value muditm_proxy() returns: 1 hung up, -1 error
    inb,       \* iobuf[EP_INPUT] of each endpoint
    outq,      \* iobuf[EP_OUTPUT] of each endpoint
    mccp_mode,         \* of each endpoint
    mnes_state,        \* of each endpoint, "none" for 0
    matching_enabled,  \* of each endpoint
    mccp_nego,         \* of the client
    deflate,   \* client->mccp[EP_OUTPUT]: is it set, its number, its output
    inflate,   \* game->mccp[EP_INPUT]: is it set, how far it has decoded, is it
               \* corrupt, what it holds undecoded, and had it taken all of that
               \* in (avail_in = 0) when it failed
    deadline,  \* mnes_deadline: "unset", "armed", or "passed" by the clock
    errno,
    net,       \* net[s]: sent by s, not yet read
    link,      \* link[s]: has s kept, closed or reset its connection?
    stamp,     \* stamp[s]: number of cells sent by s
    gz,        \* the game's zlib stream: has it begun, its output
    sent,      \* sent[s]: all that MUDitM has written to s
    shorts,    \* number of short writes so far
    dry,       \* number of dry reads so far
    zfails     \* number of times zlib has failed to start

ctlVars == <<pc, revents, ret>>
negoVars == <<mccp_mode, mnes_state, matching_enabled, mccp_nego>>
outVars == <<outq, sent, deflate, shorts, errno>>  \* what a write changes
peerVars == <<net, link, stamp, gz>>
faultVars == <<dry, zfails>>
vars == <<ctlVars, negoVars, outVars, peerVars, inb, inflate, deadline,
          faultVars>>

-----------------------------------------------------------------------------
(* Cells and elements.                                                     *)

IAC == <<"IAC", "">>
StreamEnd == <<"Z_STREAM_END", "">>  \* the end of a zlib stream
RawZlib == <<"zlib", "">>            \* zlib, to one who does not inflate it
MccpOption == {"MCCP", "MCCP2", "MCCP3"}

Command(verb, option) == <<IAC, <<verb, option>>>>

\* A cell that is what follows the IAC of a command follows one.
CommandCell == {"WILL", "WONT", "DO", "DONT", "SB", "SEND"} \X Option

ASSUME TelnetAssumption ==
    \A s \in Side : \A m \in Messages[s] : \A i \in DOMAIN m :
        m[i] \in CommandCell => i > 1 /\ m[i - 1] = IAC

\* cells, as MUDitM itself writes them
Own(cells) ==
    [i \in DOMAIN cells |->
        [cell |-> cells[i], src |-> 0, enc |-> 0, pos |-> 0]]

Other(s) == IF s = "client" THEN "game" ELSE "client"
Least(S) == CHOOSE i \in S : \A j \in S : i <= j
After(q, k) == SubSeq(q, k + 1, Len(q))

\* The commands a side's patterns trigger on: add_game_patterns(),
\* add_client_patterns() and the two add_mccp_..._patterns().  The pattern
\* for a SEND request that lists variables holds a NUL byte, where the format
\* "%.*s" ends it: it stops after SEND, and that much is the match.
MccpWatch(s, mode) ==
    CASE s = "game" /\ mode = "ignore" -> {"SB"} \X MccpOption
      [] s = "game" /\ mode = "disable" -> {"WILL"} \X MccpOption
      [] s = "game" /\ mode = "enable" -> {"WILL", "SB"} \X {"MCCP2"}
      [] s = "client" /\ mode = "ignore" -> {}
      [] s = "client" /\ mode = "disable" -> {"DO"} \X MccpOption
      [] s = "client" /\ mode = "enable" -> {"DO", "DONT"} \X {"MCCP2"}

Watched(s) ==
    MccpWatch(s, mccp_mode[s]) \cup
    (IF s = "game"
     THEN {<<"SEND", "ALL">>, <<"SEND", "">>, <<"DO", "NEWENV">>}
     ELSE {<<"WILL", "NEWENV">>, <<"WONT", "NEWENV">>})

\* What pcre2_match() finds at the i-th element of buffer q.  Under
\* PCRE2_PARTIAL_HARD a pattern that reaches the end of the buffer wins, and
\* SEND could still turn out to be the SEND that lists no variable.
IsIac(q, i) == q[i].enc = 0 /\ q[i].cell = IAC

\* Mistake: PCRE2_PARTIAL_HARD is left out.
NeverPartial(s, q, i) == FALSE

PartialAt(s, q, i) ==
    /\ IsIac(q, i)
    /\ \/ i = Len(q)
       \/ i + 1 = Len(q) /\ s = "game" /\ q[i + 1].cell = <<"SEND", "">>

MatchAt(s, q, i) ==
    /\ IsIac(q, i)
    /\ i < Len(q)
    /\ q[i + 1].enc = 0 /\ q[i + 1].cell \in Watched(s)

Hits(s, q) == IF matching_enabled[s]
              THEN {i \in DOMAIN q : PartialAt(s, q, i) \/ MatchAt(s, q, i)}
              ELSE {}

-----------------------------------------------------------------------------
(* Writing.                                                                *)

Compressed(s) == s = "client" /\ deflate.on

\* write_endpoint(): what the elements of data are on the wire to s.  Who
\* inflates them still has zlib before him where that has been relayed.
Encode(s, data) ==
    IF Compressed(s)
    THEN [i \in DOMAIN data |->
             [data[i] EXCEPT !.cell = IF data[i].enc = -1 THEN RawZlib ELSE @,
                             !.enc = deflate.gen, !.pos = deflate.pos + i]]
    ELSE data

\* The sockets do not block.  A peer that is there takes the first k elements
\* of a write, all of them unless the socket's buffer is full; one that has
\* gone takes all or none.
Takes(s, data) == IF link[s] = "open" THEN 0 .. Len(data) ELSE {0, Len(data)}

Short(s, data, k) == IF link[s] = "open" /\ k < Len(data) THEN 1 ELSE 0

Error(s, data, k) == IF k > 0 \/ data = <<>> THEN errno
                     ELSE IF link[s] = "open" THEN "EAGAIN" ELSE "EPIPE"

\* so many faults are within the bounds
Bounded(short, empty, fail) ==
    /\ short <= MaxShort /\ empty <= MaxDry /\ fail <= MaxInitFail
    /\ short + empty + fail <= MaxFaults

\* The first k elements of data get onto the wire to s.
Put(s, data, k) ==
    /\ shorts' = shorts + Short(s, data, k) /\ Bounded(shorts', dry, zfails)
    /\ errno' = Error(s, data, k)
    /\ sent' = [sent EXCEPT ![s] = @ \o SubSeq(Encode(s, data), 1, k)]

\* deflate() has consumed n elements for s, whether or not they got out
Deflated(s, n) ==
    IF Compressed(s) THEN [deflate EXCEPT !.pos = @ + n] ELSE deflate

\* write_endpoint(), by a caller that does not look at what it returns
Write(s, data) ==
    /\ \E k \in Takes(s, data) : Put(s, data, k)
    /\ deflate' = Deflated(s, Len(data))

\* Mistake: what has been written is not popped.
FlushKeeps(s, cells) ==
    LET data == outq[s] \o Own(cells)
    IN  /\ Put(s, data, Len(data))
        /\ outq' = [outq EXCEPT ![s] = data]

\* flush_endpoint(): write the output buffer of s, to which the given cells
\* have been added.  A compressed write returns 0 and so pops nothing.
FlushQueue(s, cells) ==
    LET data == outq[s] \o Own(cells)
    IN  \E k \in Takes(s, data) :
           /\ Put(s, data, k)
           /\ outq' = [outq EXCEPT ![s] = IF Compressed(s)
                                          THEN data ELSE After(data, k)]

Flush(s, cells) ==
    /\ FlushQueue(s, cells)
    /\ deflate' = Deflated(s, Len(outq[s]) + Len(cells))

-----------------------------------------------------------------------------
(* Control flow of muditm_proxy().                                         *)

\* the side being served: pollster[0] is the client
Cur == IF "client" \in revents THEN "client" ELSE "game"

\* done with this side, go on to the next one or back to the top of the loop
NextSide == /\ revents' = revents \ {Cur}
            /\ pc' = IF revents = {Cur} THEN "top" ELSE "serve"

\* Mistake: the matching loop ends after one match.
ScanOnce == NextSide

\* leave the matching loop if the input buffer has become empty
Rescan == IF inb'[Cur] = <<>>
          THEN NextSide
          ELSE pc' = "scan" /\ UNCHANGED revents

\* Mistake: "goto cleanup" with ret not set.
ReturnUnset(r) == pc' = "done" /\ UNCHANGED <<ret, revents>>

Return(r) == pc' = "done" /\ ret' = r /\ UNCHANGED revents

\* Mistake: every error is taken for "try again".
ReadFailedSkips(e) == NextSide /\ UNCHANGED ret

\* What a failed read does: an errno that says "try again" skips the side,
\* any other ends the session.
ReadFailed(e) == IF e = "EAGAIN"
                 THEN NextSide /\ UNCHANGED ret
                 ELSE Return(-1)

Pop(k) == inb' = [inb EXCEPT ![Cur] = After(@, k)]

Init == /\ pc = "init" /\ revents = {} /\ ret = 0
        /\ inb = [s \in Side |-> <<>>]
        /\ outq = [s \in Side |-> <<>>]
        /\ mccp_mode \in Modes
        /\ mnes_state = [s \in Side |-> "none"]
        /\ matching_enabled = [s \in Side |-> FALSE]
        /\ mccp_nego = "NONE"
        /\ deflate = [on |-> FALSE, gen |-> 0, pos |-> 0]
        /\ inflate = [on |-> FALSE, pos |-> 0, bad |-> FALSE, held |-> <<>>,
                      spent |-> FALSE]
        /\ deadline = "unset"
        /\ errno = "none"
        /\ net = [s \in Side |-> <<>>]
        /\ link = [s \in Side |-> "open"]
        /\ stamp = [s \in Side |-> 0]
        /\ gz = [on |-> FALSE, pos |-> 0]
        /\ sent = [s \in Side |-> <<>>]
        /\ shorts = 0 /\ dry = 0 /\ zfails = 0

\* Install the patterns, offer compression, report the client's address; the
\* sockets still block, so all of it is written.
Start ==
    LET offers == mccp_mode["client"] = "enable"
        offer == IF offers THEN Command("WILL", "MCCP2") ELSE <<>>
        address == IF ImmediateIp THEN <<<<"IPADDRESS", "">>>> ELSE <<>>
    IN  /\ pc = "init"
        /\ pc' = "setup"
        /\ matching_enabled' = [s \in Side |-> TRUE]
        /\ sent' = [client |-> Own(offer), game |-> Own(address)]
        /\ mccp_nego' = IF offers THEN "OFFERED" ELSE mccp_nego
        /\ UNCHANGED <<peerVars, revents, ret, mccp_mode, mnes_state, outq,
                       deflate, shorts, errno, inb, inflate, deadline,
                       faultVars>>

\* Make the sockets non-blocking.
SetNonblocking ==
    /\ pc = "setup"
    /\ \/ pc' = "top" /\ UNCHANGED <<revents, ret>>
       \/ Return(-1)
    /\ UNCHANGED <<negoVars, outVars, peerVars, inb, inflate, deadline,
                   faultVars>>

\* The top of the loop: answer a DO NEW-ENVIRON that the client leaves
\* unanswered.
CheckFallback ==
    /\ pc = "top"
    /\ pc' = "poll"
    /\ LET silent == /\ Fallback
                     /\ mnes_state["game"] = "DO"
                     /\ mnes_state["client"] = "none"
       IN  \/ /\ silent /\ deadline = "unset"
              /\ deadline' = "armed"
              /\ UNCHANGED <<outVars, mnes_state>>
           \/ /\ silent /\ deadline = "passed"
              /\ mnes_state' = [mnes_state EXCEPT !["client"] = "WONT"]
              /\ Flush("game", Command("WILL", "NEWENV"))
              /\ UNCHANGED deadline
           \/ /\ ~silent \/ deadline = "armed"
              /\ UNCHANGED <<outVars, mnes_state, deadline>>
    /\ UNCHANGED <<peerVars, revents, ret, mccp_mode, matching_enabled,
                   mccp_nego, inb, inflate, faultVars>>

\* Mistakes: a hang-up is not noticed; one side only is polled.
ReadableInput == {s \in Side : net[s] # <<>>}
ReadableClient == {s \in {"client"} : net[s] # <<>> \/ link[s] # "open"}

\* The sides that have input, or the end of it.  What comes in while the loop
\* serves one side is not reported before the next poll(): the peers move
\* only in Waiting, so Poll leaves out a side that moves as late as that.
Readable == {s \in Side : net[s] # <<>> \/ link[s] # "open"}

Poll == /\ pc = "poll"
        /\ revents' \in (SUBSET Readable) \ {{}}
        /\ pc' = "serve"
        /\ UNCHANGED <<negoVars, outVars, peerVars, ret, inb, inflate,
                       deadline, faultVars>>

\* Mistake: a polltimeout of -1.
PollForever == FALSE /\ UNCHANGED vars

\* poll() times out.
PollTimeout == /\ pc = "poll"
               /\ Readable = {}
               /\ pc' = "top"
               /\ UNCHANGED <<negoVars, outVars, peerVars, revents, ret, inb,
                              inflate, deadline, faultVars>>

\* A signal interrupts poll(), and the session ends.
PollInterrupted == /\ pc = "poll"
                   /\ Return(-1)
                   /\ errno' = "EINTR"
                   /\ UNCHANGED <<negoVars, peerVars, outq, sent, deflate,
                                  shorts, inb, inflate, deadline, faultVars>>

-----------------------------------------------------------------------------
(* Reading: read_endpoint().                                               *)

Room(s) == BufSize - Len(inb[s])

\* Mistake: the game's stream is inflated only if the client's is deflated.
InflatingBoth(s) == s = "game" /\ inflate.on /\ deflate.on

Inflating(s) == s = "game" /\ inflate.on

\* Some of what has arrived is read and added to the input buffer.
Read ==
    /\ pc = "serve"
    /\ ~Inflating(Cur)
    /\ \E n \in 1 .. Len(net[Cur]) :
          /\ n <= Room(Cur)
          /\ inb' = [inb EXCEPT ![Cur] = @ \o SubSeq(net[Cur], 1, n)]
          /\ net' = [net EXCEPT ![Cur] = After(@, n)]
    /\ pc' = "scan"
    /\ UNCHANGED <<negoVars, outVars, revents, ret, link, stamp, gz, inflate,
                   deadline, faultVars>>

\* Has zlib taken in all that was read for it?
Drained == inflate.held = <<>> \/ inflate.spent

\* read_endpoint_compressed() reads only when the input of zlib is used up.
\* inflate() takes as much of that input as the input buffer has room for ...
Refill(n) ==
    /\ pc = "serve"
    /\ Inflating(Cur)
    /\ n > 0 <=> Drained
    /\ net' = [net EXCEPT !["game"] = After(@, n)]

ZlibInput(n) == inflate.held \o SubSeq(net["game"], 1, n)

Next_in(n) ==
    LET input == ZlibInput(n)
        k == Least({Room("game"), Len(input)})
        ends == k < Len(input) /\ input[k + 1].cell = StreamEnd
    IN  SubSeq(input, 1, IF ends THEN k + 1 ELSE k)

\* ... if that continues the zlib stream.  At the end of the stream inflate()
\* returns Z_STREAM_END, which is not Z_OK.
Follows(data, i) == data[i].enc = -1 /\ data[i].pos = inflate.pos + i

Continues(data) ==
    /\ ~inflate.bad
    /\ \A i \in DOMAIN data : Follows(data, i) /\ data[i].cell # StreamEnd

ReadInflated ==
    \E n \in 0 .. Len(net[Cur]) :
       LET data == Next_in(n)
       IN  /\ Refill(n)
           /\ data # <<>> /\ Continues(data)
           /\ inb' = [inb EXCEPT !["game"] = @ \o
                 [i \in DOMAIN data |-> [data[i] EXCEPT !.enc = 0, !.pos = 0]]]
           /\ inflate' = [inflate EXCEPT
                 !.pos = @ + Len(data), !.held = After(ZlibInput(n), Len(data))]
           /\ pc' = "scan"
           /\ UNCHANGED <<negoVars, outVars, revents, ret, link, stamp, gz,
                          deadline, faultVars>>

\* Failing, inflate() leaves what stands behind the element it fails at; a
\* stream that ends has been taken in to its end, of an element that does not
\* follow it may have taken any part.  When it has failed before, or has no
\* room to write to, it takes nothing.
SpentOn(data, input) ==
    LET fails == {i \in DOMAIN data :
                     ~Follows(data, i) \/ data[i].cell = StreamEnd}
    IN  IF inflate.bad \/ data = <<>> \/ Least(fails) < Len(input) THEN {FALSE}
        ELSE IF Follows(data, Len(data)) THEN {TRUE} ELSE BOOLEAN

\* inflate() rejects its input, this time and ever after, or has no room to
\* write to.  errno is whatever an earlier call left in it.
ReadCorrupt ==
    \E n \in 0 .. Len(net[Cur]) :
       LET data == Next_in(n)
       IN  /\ Refill(n)
           /\ data = <<>> \/ ~Continues(data)
           /\ \E spent \in SpentOn(data, ZlibInput(n)) :
                 inflate' = [inflate EXCEPT !.bad = ~Continues(data),
                                !.held = ZlibInput(n), !.spent = spent]
           /\ ReadFailed(errno)
           /\ UNCHANGED <<negoVars, outVars, link, stamp, gz, inb, deadline,
                          faultVars>>

\* Does a read of s get as far as the socket?
Reads(s) == Inflating(s) => Drained

\* A read with no room to read into returns 0, just as the end of the stream
\* does: "He hung up."  After a reset it is the end of the stream, too, if a
\* write that failed has been told of the reset.
ReadNothing ==
    /\ pc = "serve"
    /\ Reads(Cur)
    /\ \/ Room(Cur) = 0 /\ ~Inflating(Cur)
       \/ net[Cur] = <<>> /\ link[Cur] # "open"
    /\ Return(1)
    /\ UNCHANGED <<negoVars, outVars, peerVars, inb, inflate, deadline,
                   faultVars>>

\* read() fails: there was nothing to read after all, or it is the first to be
\* told of a reset.
ReadError ==
    /\ pc = "serve"
    /\ Reads(Cur)
    /\ Room(Cur) > 0 \/ Inflating(Cur)
    /\ \/ /\ net[Cur] # <<>>
          /\ dry' = dry + 1 /\ Bounded(shorts, dry', zfails)
          /\ errno' = "EAGAIN"
       \/ /\ net[Cur] = <<>> /\ link[Cur] = "reset"
          /\ errno' = "ECONNRESET" /\ UNCHANGED dry
    /\ ReadFailed(errno')
    /\ UNCHANGED <<negoVars, peerVars, outq, sent, deflate, shorts, inb,
                   inflate, deadline, zfails>>

-----------------------------------------------------------------------------
(* The matching loop.                                                      *)

Scanning == pc = "scan"
Buffer == inb[Cur]

\* Mistake: popall_iobuf() is forgotten.
ScanNoMatchKeeps ==
    /\ Scanning
    /\ Hits(Cur, Buffer) = {}
    /\ Write(Other(Cur), Buffer)
    /\ NextSide
    /\ UNCHANGED <<negoVars, peerVars, ret, inb, outq, inflate, deadline,
                   faultVars>>

\* No match: the whole buffer is written across.
ScanNoMatch ==
    /\ Scanning
    /\ Hits(Cur, Buffer) = {}
    /\ Write(Other(Cur), Buffer)
    /\ inb' = [inb EXCEPT ![Cur] = <<>>]
    /\ NextSide
    /\ UNCHANGED <<negoVars, peerVars, ret, outq, inflate, deadline,
                   faultVars>>

\* A partial match: the whole buffer waits for more input.
ScanPartial ==
    /\ Scanning
    /\ Hits(Cur, Buffer) # {}
    /\ PartialAt(Cur, Buffer, Least(Hits(Cur, Buffer)))
    /\ NextSide
    /\ UNCHANGED <<negoVars, outVars, peerVars, ret, inb, inflate, deadline,
                   faultVars>>

\* A match: what stands before it is written across, and the match is then at
\* the head of the buffer.
ScanMatch ==
    /\ Scanning
    /\ Hits(Cur, Buffer) # {}
    /\ LET at == Least(Hits(Cur, Buffer))
       IN  /\ ~PartialAt(Cur, Buffer, at)
           /\ Write(Other(Cur), SubSeq(Buffer, 1, at - 1))
           /\ Pop(at - 1)
    /\ pc' = "match"
    /\ UNCHANGED <<negoVars, peerVars, revents, ret, outq, inflate, deadline,
                   faultVars>>

\* The command at the head of the buffer, for the handlers below.
Matched(s, commands) ==
    /\ pc = "match"
    /\ Cur = s
    /\ Buffer[2].cell \in commands \cap Watched(s)

\* A handler that returns 1 has popped the match.
Handled == Pop(2) /\ Rescan /\ UNCHANGED ret

\* A handler that returns 0 leaves the match to its caller ...
NotHandled == pc' = "forward" /\ UNCHANGED <<revents, ret, inb>>

\* ... which writes it across and pops it.
Forward ==
    /\ pc = "forward"
    /\ Write(Other(Cur), SubSeq(Buffer, 1, 2))
    /\ Pop(2)
    /\ Rescan
    /\ UNCHANGED <<negoVars, peerVars, ret, outq, inflate, deadline,
                   faultVars>>

-----------------------------------------------------------------------------
(* The NEW-ENVIRON handlers.                                               *)

Compression(on) == <<"COMPRESSION", IF on THEN "MCCP2" ELSE "none">>

\* The game asks for variables: it gets MUDitM's, and the client is asked too
\* unless it has refused to be.
MnesRequest ==
    /\ Matched("game", {<<"SEND", "ALL">>, <<"SEND", "">>})
    /\ Flush("game", <<<<"PROXY_NAME", "">>,
                       Compression(mccp_nego = "ACCEPTED")>> \o ReportVars)
    /\ IF mnes_state["client"] = "WONT" THEN Handled ELSE NotHandled
    /\ UNCHANGED <<negoVars, peerVars, inflate, deadline, faultVars>>

MnesDoes ==
    /\ Matched("game", {<<"DO", "NEWENV">>})
    /\ mnes_state' = [mnes_state EXCEPT !["game"] = "DO"]
    /\ NotHandled
    /\ UNCHANGED <<outVars, peerVars, mccp_mode, matching_enabled, mccp_nego,
                   inflate, deadline, faultVars>>

\* Mistake: the client's WILL is not recorded.
MnesClientWillForgets ==
    /\ Matched("client", {<<"WILL", "NEWENV">>})
    /\ NotHandled
    /\ UNCHANGED <<negoVars, outVars, peerVars, inflate, deadline, faultVars>>

MnesClientWill ==
    /\ Matched("client", {<<"WILL", "NEWENV">>})
    /\ mnes_state' = [mnes_state EXCEPT !["client"] = "WILL"]
    /\ NotHandled
    /\ UNCHANGED <<outVars, peerVars, mccp_mode, matching_enabled, mccp_nego,
                   inflate, deadline, faultVars>>

\* The client refuses; the game is told that it will.
MnesClientWont ==
    /\ Matched("client", {<<"WONT", "NEWENV">>})
    /\ mnes_state' = [mnes_state EXCEPT !["client"] = "WONT"]
    /\ Flush("game", Command("WILL", "NEWENV"))
    /\ Handled
    /\ UNCHANGED <<peerVars, mccp_mode, matching_enabled, mccp_nego, inflate,
                   deadline, faultVars>>

-----------------------------------------------------------------------------
(* The compression handlers.                                               *)

\* Mistake: the match is answered and passed on.
RespondAndPass(verb) ==
    /\ Flush(Cur, Command(verb, Buffer[2].cell[2]))
    /\ NotHandled
    /\ UNCHANGED <<negoVars, peerVars, inflate, deadline, faultVars>>

\* respond_X(): answer the side the match came from, and swallow the match.
Respond(verb) ==
    /\ Flush(Cur, Command(verb, Buffer[2].cell[2]))
    /\ Handled
    /\ UNCHANGED <<negoVars, peerVars, inflate, deadline, faultVars>>

RespondDont == /\ mccp_mode["game"] = "disable"
               /\ Matched("game", {"WILL"} \X MccpOption)
               /\ Respond("DONT")

RespondDo == /\ mccp_mode["game"] = "enable"
             /\ Matched("game", {<<"WILL", "MCCP2">>})
             /\ Respond("DO")

RespondWont == /\ mccp_mode["client"] = "disable"
               /\ Matched("client", {"DO"} \X MccpOption)
               /\ Respond("WONT")

\* Mistake: the start of the zlib stream is swallowed.
MccpIgnoreSwallows ==
    /\ mccp_mode["game"] = "ignore"
    /\ Matched("game", {"SB"} \X MccpOption)
    /\ matching_enabled' = [matching_enabled EXCEPT !["game"] = FALSE]
    /\ Handled
    /\ UNCHANGED <<outVars, peerVars, mccp_mode, mnes_state, mccp_nego,
                   inflate, deadline, faultVars>>

\* The game's stream stops being telnet: stop matching it.
MccpIgnore ==
    /\ mccp_mode["game"] = "ignore"
    /\ Matched("game", {"SB"} \X MccpOption)
    /\ matching_enabled' = [matching_enabled EXCEPT !["game"] = FALSE]
    /\ NotHandled
    /\ UNCHANGED <<outVars, peerVars, mccp_mode, mnes_state, mccp_nego,
                   inflate, deadline, faultVars>>

\* zlib fails to start: the handler returns 0 though it has popped the match,
\* and its caller writes across, and pops, as many bytes as the match had of
\* what now stands at the head of the buffer.  Behind the tail of the buffer
\* are still the bytes that stood there before.
InitFails ==
    /\ LET rest == After(Buffer, 2)
           head == [i \in 1 .. 2 |-> IF i <= Len(rest) THEN rest[i]
                                     ELSE Buffer[i]]
       IN  Write(Other(Cur), head)
    /\ zfails' = zfails + 1 /\ Bounded(shorts', dry, zfails')
    /\ Pop(4)
    /\ Rescan
    /\ UNCHANGED <<negoVars, peerVars, ret, outq, inflate, deadline, dry>>

DoMatched == /\ mccp_mode["client"] = "enable"
             /\ Matched("client", {<<"DO", "MCCP2">>})

DontMatched == /\ mccp_mode["client"] = "enable"
               /\ Matched("client", {<<"DONT", "MCCP2">>})

\* Mistake: the switch is made before the marker is flushed, which is then
\* compressed itself and, as flush_endpoint() sees a 0, not popped.
Mccp2DoEarly ==
    LET marker == Own(Command("SB", "MCCP2"))
    IN  /\ DoMatched
        /\ ~deflate.on
        /\ deflate' = [on |-> TRUE, gen |-> deflate.gen + 1, pos |-> 2]
        /\ mccp_nego' = "ACCEPTED"
        /\ outq' = [outq EXCEPT !["client"] = marker]
        /\ sent' = [client |-> sent["client"] \o
                        [i \in 1 .. 2 |-> [marker[i] EXCEPT
                            !.enc = deflate.gen + 1, !.pos = i]],
                    game |-> sent["game"] \o Own(<<Compression(TRUE)>>)]
        /\ Handled
        /\ UNCHANGED <<peerVars, mccp_mode, mnes_state, matching_enabled,
                       inflate, deadline, faultVars, shorts, errno>>

\* The client agrees to be sent a zlib stream: mark its start, switch to it,
\* and tell the game.
Mccp2Do ==
    /\ DoMatched
    /\ \/ /\ deflate.on
          /\ mccp_nego' = "ACCEPTED"
          /\ Handled
          /\ UNCHANGED <<outVars>>
       \/ /\ ~deflate.on
          /\ LET marker == outq["client"] \o Own(Command("SB", "MCCP2"))
                 news == outq["game"] \o Own(<<Compression(TRUE)>>)
             IN  \E k \in Takes("client", marker), m \in Takes("game", news) :
                    /\ shorts' = shorts + Short("client", marker, k)
                                       + Short("game", news, m)
                    /\ Bounded(shorts', dry, zfails)
                    /\ errno' = IF m = 0 THEN Error("game", news, m)
                                ELSE Error("client", marker, k)
                    /\ sent' = [client |-> sent["client"] \o SubSeq(marker, 1, k),
                                game |-> sent["game"] \o SubSeq(news, 1, m)]
                    /\ outq' = [client |-> After(marker, k),
                                game |-> After(news, m)]
          /\ deflate' = [on |-> TRUE, gen |-> deflate.gen + 1, pos |-> 0]
          /\ mccp_nego' = "ACCEPTED"
          /\ Handled
    /\ UNCHANGED <<peerVars, mccp_mode, mnes_state, matching_enabled, inflate,
                   deadline, faultVars>>

Mccp2DoFails == /\ DoMatched
                /\ ~deflate.on
                /\ InitFails

\* Mistakes: the game is not told; mccp_nego is left as it is.
Mccp2DontSilent ==
    /\ DontMatched
    /\ deflate' = [deflate EXCEPT !.on = FALSE]
    /\ mccp_nego' = "REFUSED"
    /\ Handled
    /\ UNCHANGED <<peerVars, mccp_mode, mnes_state, matching_enabled, inflate,
                   deadline, faultVars, outq, sent, shorts, errno>>
Mccp2DontForgets ==
    /\ DontMatched
    /\ deflate' = [deflate EXCEPT !.on = FALSE]
    /\ FlushQueue("game", <<Compression(FALSE)>>)
    /\ Handled
    /\ UNCHANGED <<peerVars, negoVars, inflate, deadline, faultVars>>

\* The client refuses compression, or wants no more of it.
Mccp2Dont ==
    /\ DontMatched
    /\ deflate' = [deflate EXCEPT !.on = FALSE]
    /\ mccp_nego' = "REFUSED"
    /\ FlushQueue("game", <<Compression(FALSE)>>)
    /\ Handled
    /\ UNCHANGED <<peerVars, mccp_mode, mnes_state, matching_enabled, inflate,
                   deadline, faultVars>>

\* The game's zlib stream starts with the next byte read.
Mccp2SbStart ==
    /\ mccp_mode["game"] = "enable"
    /\ Matched("game", {<<"SB", "MCCP2">>})
    /\ inflate' = [on |-> TRUE, pos |-> 0, bad |-> FALSE, held |-> <<>>,
                   spent |-> FALSE]
    /\ Handled
    /\ UNCHANGED <<negoVars, outVars, peerVars, deadline, faultVars>>

Mccp2SbStartFails == /\ mccp_mode["game"] = "enable"
                     /\ Matched("game", {<<"SB", "MCCP2">>})
                     /\ InitFails

-----------------------------------------------------------------------------
(* The peers, the clock, and the specification.                            *)

\* What reaches a socket between two calls of poll() might as well have come
\* in just before the second: nothing looks at it in between, except a read,
\* which takes any part of what is there.  So the peers move while the proxy
\* is in poll().
Waiting == pc = "poll"

\* A peer sends one of its messages, the game inside its zlib stream once it
\* has begun one.
Send(s) ==
    /\ Waiting /\ link[s] = "open"
    /\ \E m \in Messages[s] :
          LET zipped == s = "game" /\ gz.on
          IN  /\ stamp[s] + Len(m) <= MaxCells[s]
              /\ net' = [net EXCEPT ![s] = @ \o
                    [i \in DOMAIN m |->
                        [cell |-> m[i], src |-> stamp[s] + i,
                         enc |-> IF zipped THEN -1 ELSE 0,
                         pos |-> IF zipped THEN gz.pos + i ELSE 0]]]
              /\ stamp' = [stamp EXCEPT ![s] = @ + Len(m)]
              /\ gz' = IF zipped THEN [gz EXCEPT !.pos = @ + Len(m)] ELSE gz
              /\ zipped => MayCoalesce \/ gz.pos > 0 \/ net["game"] = <<>>
    /\ UNCHANGED <<ctlVars, negoVars, outVars, link, inb, inflate, deadline,
                   faultVars>>

\* The game, told to DO MCCP2, marks the start of its zlib stream.
GameCompresses ==
    /\ Waiting /\ link["game"] = "open"
    /\ ~gz.on /\ gz.pos = 0
    /\ \E i \in DOMAIN sent["game"] : sent["game"][i].cell = <<"DO", "MCCP2">>
    /\ stamp["game"] + 2 <= MaxCells["game"]
    /\ net' = [net EXCEPT !["game"] = @ \o
          [i \in 1 .. 2 |-> [cell |-> Command("SB", "MCCP2")[i],
                             src |-> stamp["game"] + i, enc |-> 0, pos |-> 0]]]
    /\ stamp' = [stamp EXCEPT !["game"] = @ + 2]
    /\ gz' = [gz EXCEPT !.on = TRUE]
    /\ UNCHANGED <<ctlVars, negoVars, outVars, link, inb, inflate, deadline,
                   faultVars>>

\* The game ends its zlib stream and goes on in plain telnet.
GameEndsZlib ==
    /\ Waiting /\ link["game"] = "open"
    /\ MayEnd /\ gz.on
    /\ stamp["game"] < MaxCells["game"]
    /\ net' = [net EXCEPT !["game"] = Append(@,
          [cell |-> StreamEnd, src |-> stamp["game"] + 1,
           enc |-> -1, pos |-> gz.pos + 1])]
    /\ stamp' = [stamp EXCEPT !["game"] = @ + 1]
    /\ gz' = [on |-> FALSE, pos |-> gz.pos + 1]
    /\ MayCoalesce \/ gz.pos > 0 \/ net["game"] = <<>>
    /\ UNCHANGED <<ctlVars, negoVars, outVars, link, inb, inflate, deadline,
                   faultVars>>

HangUp(s) ==
    /\ Waiting /\ link[s] = "open"
    /\ \E how \in HangUps[s] : link' = [link EXCEPT ![s] = how]
    /\ UNCHANGED <<ctlVars, negoVars, outVars, net, stamp, gz, inb, inflate,
                   deadline, faultVars>>

\* The time newenv_fallback_ms has passed.
Tick == /\ deadline = "armed"
        /\ deadline' = "passed"
        /\ UNCHANGED <<ctlVars, negoVars, outVars, peerVars, inb, inflate,
                       faultVars>>

Terminated == pc = "done" /\ UNCHANGED vars

Loop == Start \/ SetNonblocking \/ CheckFallback \/ Poll \/ PollTimeout
        \/ Read \/ ReadInflated \/ ReadCorrupt \/ ReadNothing \/ ReadError
        \/ ScanNoMatch \/ ScanPartial \/ ScanMatch \/ Forward

Handler == MnesRequest \/ MnesDoes \/ MnesClientWill \/ MnesClientWont
           \/ RespondDont \/ RespondDo \/ RespondWont \/ MccpIgnore
           \/ Mccp2Do \/ Mccp2DoFails \/ Mccp2Dont
           \/ Mccp2SbStart \/ Mccp2SbStartFails

Peer == GameCompresses \/ GameEndsZlib \/ \E s \in Side : Send(s) \/ HangUp(s)

Next == Loop \/ Handler \/ PollInterrupted \/ Peer \/ Tick \/ Terminated

Spec == Init /\ [][Next]_vars

\* The process runs, poll() times out after at most a second, and time passes.
\* Nothing is asked of the peers.
Fairness == WF_vars(Loop \/ Handler) /\ WF_vars(Tick)

FairSpec == Spec /\ Fairness
=============================================================================
