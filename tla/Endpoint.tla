------------------------------ MODULE Endpoint ------------------------------
(***************************************************************************)
(* One endpoint of a session, byte by byte: its output buffer (iobuf.c),   *)
(* what write_endpoint(), flush_endpoint() and read_endpoint() make of a   *)
(* socket that does not block, with and without TLS (proxy.c), and the     *)
(* workspace a compressed write goes through (mccp.c).  Module Proxy takes *)
(* a write for one step; here it is a loop that the peer can hold up.      *)
(*                                                                         *)
(* A definition marked "Mistake:" is a wrong version of the one it stands  *)
(* before, and no part of the specification.                               *)
(***************************************************************************)
EXTENDS Integers, Sequences

CONSTANTS
    Length,    \* EP_BUFSIZE: the size of the output buffer and the workspace
    Reports,   \* how many bytes a handler may print into the output buffer
    Copy,      \* the length of the command a handler copies into it, 3
    Relays,    \* how many bytes may be relayed with one write
    SendRoom,  \* how many bytes the socket holds that the peer has not taken
    MaxBytes   \* bound on the number of bytes given to the endpoint

\* What a handler has to say fits an empty buffer, with the NUL that
\* g_snprintf() adds.
ASSUME LengthAssumption ==
    /\ Length \in Nat /\ Copy \in 1 .. Length
    /\ Reports \subseteq 1 .. Length - 1
ASSUME SocketAssumption ==
    /\ Relays \subseteq Nat \ {0}
    /\ SendRoom \in Nat \ {0}
    /\ MaxBytes \in Nat

VARIABLES
    tls,      \* is the ssl field set?
    zip,      \* is the mccp[EP_OUTPUT] field set?
    pc,       \* the call that is under way
    outb,     \* iobuf[EP_OUTPUT]
    work,     \* what write_endpoint_sock() has to write
    put,      \* how much of that SSL_write() has put out
    pending,  \* what deflate() still has to put out
    given,    \* all bytes queued or relayed, or what deflate() made of them
    wire,     \* all bytes the socket has accepted
    unread,   \* how many of them the peer has not taken
    arrived,  \* what there is to read
    link,     \* has the peer kept or reset its connection?
    cut,      \* has anything been cut for want of room in the output buffer?
    short     \* has a write put out less than it was given?

peerVars == <<unread, arrived, link>>
history == <<given, cut, short>>
vars == <<tls, zip, pc, outb, work, put, pending, wire, peerVars, history>>

\* A compressed endpoint has nothing to flush (ProxyProps!NothingQueuedTwice):
\* it is only relayed to.
Init == /\ tls \in BOOLEAN /\ zip \in BOOLEAN
        /\ pc = "loop"
        /\ outb = <<>> /\ work = <<>> /\ put = 0 /\ pending = <<>>
        /\ given = <<>> /\ wire = <<>>
        /\ unread = 0 /\ arrived = "nothing" /\ link = "open"
        /\ cut = FALSE /\ short = FALSE

Least(a, b) == IF a <= b THEN a ELSE b
After(q, k) == SubSeq(q, k + 1, Len(q))

\* n new bytes, of MUDitM's own or not; a byte is known by its place in given.
Bytes(own, n) == [i \in 1 .. n |-> [own |-> own, at |-> Len(given) + i]]

Give(bytes) == given' = given \o bytes

\* The bound; the marks of a flush come on top of it.
InBounds == Len(given') <= MaxBytes

-----------------------------------------------------------------------------
(* The output buffer.                                                      *)

Avail == Length - Len(outb)

\* How far push_iobuf() moves the tail for n bytes: no further than the end.
Pushed(n) == Least(n, Avail)

\* Mistake: the buffer is not flushed.
ReportUnflushed ==
    /\ pc = "loop" /\ ~zip
    /\ \E n \in Reports :
          LET kept == Bytes(TRUE, Pushed(n))
          IN  /\ Give(kept)
              /\ cut' = (cut \/ n >= Avail)
              /\ outb' = outb \o kept
    /\ InBounds
    /\ UNCHANGED <<tls, zip, pc, work, put, pending, wire, peerVars, short>>

\* flush_endpoint() of the buffer with what has just been added to it.
Flush(bytes) == /\ outb' = outb \o bytes
                /\ work' = outb'
                /\ pc' = "flush"

\* A handler prints something to the buffer, as far as it and a NUL fit, and
\* flushes it.  g_snprintf() returns what it would have liked to print.
Report ==
    /\ pc = "loop" /\ ~zip
    /\ \E n \in Reports :
          LET kept == Bytes(TRUE, Pushed(n))
          IN  /\ Give(kept)
              /\ cut' = (cut \/ n >= Avail)
              /\ Flush(kept)
    /\ InBounds
    /\ UNCHANGED <<tls, zip, put, pending, wire, peerVars, short>>

\* A handler copies a command to the tail of the buffer.  If that is beyond
\* the end, C does not say what becomes of the process.
Answer ==
    /\ pc = "loop" /\ ~zip
    /\ IF Copy <= Avail
       THEN Give(Bytes(TRUE, Copy)) /\ Flush(Bytes(TRUE, Copy))
       ELSE pc' = "undefined" /\ UNCHANGED <<given, outb, work>>
    /\ InBounds
    /\ UNCHANGED <<tls, zip, put, pending, wire, peerVars, cut, short>>

-----------------------------------------------------------------------------
(* Writing.                                                                *)

\* deflate() fills the workspace with the first of the given bytes.
Deflate(bytes) == /\ work' = SubSeq(bytes, 1, Least(Length, Len(bytes)))
                  /\ pending' = After(bytes, Length)

\* Relay some input: as it is, or as the one byte or more that zlib makes of
\* it, which may be more than it was.
Relay ==
    /\ pc = "loop"
    /\ \E n \in Relays :
          \/ /\ zip
             /\ \E m \in 1 .. n + 1 :
                   Give(Bytes(FALSE, m)) /\ Deflate(pending \o Bytes(FALSE, m))
             /\ pc' = "zip"
          \/ /\ ~zip
             /\ Give(Bytes(FALSE, n))
             /\ work' = Bytes(FALSE, n) /\ UNCHANGED pending
             /\ pc' = "relay"
    /\ InBounds
    /\ UNCHANGED <<tls, zip, outb, put, wire, peerVars, cut, short>>

\* Mistake: -1 is taken for a size_t, and pops everything.
PopsOnError(r) == IF r < 0 THEN <<>> ELSE After(outb, r)

\* flush_endpoint() pops what has been written, if anything.
Popped(r) == IF r > 0 THEN After(outb, r) ELSE outb

\* Has deflate() filled the workspace?  Then there may be more.
Filled == pc = "zip" /\ Len(work) = Length

\* write_endpoint_sock() returns r.  If it is to go on, deflate() puts out
\* what is pending, or just the mark of another flush; after an error the
\* rest is with zlib or lost.
Return(r) ==
    /\ short' = (short \/ r < Len(work))
    /\ put' = 0
    /\ IF Filled /\ r > 0
       THEN /\ IF pending # <<>>
               THEN Deflate(pending) /\ UNCHANGED given
               ELSE Give(Bytes(FALSE, 1)) /\ Deflate(Bytes(FALSE, 1))
            /\ UNCHANGED <<pc, outb>>
       ELSE /\ pc' = "loop"
            /\ outb' = IF pc = "flush" THEN Popped(r) ELSE outb
            /\ work' = <<>>
            /\ pending' \in {pending, <<>>}
            /\ UNCHANGED given

Writing == pc \in {"flush", "relay", "zip"}

\* The socket takes as much as there is room for.
Room == Least(SendRoom - unread, Len(work) - put)

Takes == /\ wire' = wire \o SubSeq(work, put + 1, put + Room)
         /\ unread' = unread + Room

\* write(): without any room, -1 and EAGAIN.
WritePlain ==
    /\ Writing /\ ~tls /\ link = "open"
    /\ Takes
    /\ Return(IF Room = 0 THEN -1 ELSE Room)
    /\ UNCHANGED <<tls, zip, arrived, link, cut>>

\* Mistake: SSL_ERROR_WANT_WRITE is an error like any other.
WriteTlsOnce ==
    /\ Writing /\ tls /\ link = "open"
    /\ Takes
    /\ Return(IF Room = Len(work) THEN Room ELSE -1)
    /\ UNCHANGED <<tls, zip, arrived, link, cut>>

\* SSL_write(), again and again: -1 and SSL_ERROR_WANT_WRITE until the last
\* byte has been taken.
WriteTls ==
    /\ Writing /\ tls /\ link = "open"
    /\ Room > 0
    /\ Takes
    /\ IF put + Room < Len(work)
       THEN /\ put' = put + Room
            /\ UNCHANGED <<pc, outb, work, pending, given, short>>
       ELSE Return(Len(work))
    /\ UNCHANGED <<tls, zip, arrived, link, cut>>

\* Mistake: with TLS every error is tried again.
WriteFailsPlain ==
    /\ Writing /\ ~tls /\ link = "reset"
    /\ Return(-1)
    /\ UNCHANGED <<tls, zip, wire, peerVars, cut>>

\* The peer has gone: -1, or SSL_ERROR_SYSCALL, which is not tried again.
WriteFails ==
    /\ Writing /\ link = "reset"
    /\ Return(-1)
    /\ UNCHANGED <<tls, zip, wire, peerVars, cut>>

-----------------------------------------------------------------------------
(* Reading.                                                                *)

\* poll() has seen something.  With TLS that may be a part of a record, or a
\* record that carries no data, such as a session ticket.
StartRead ==
    /\ pc = "loop"
    /\ arrived # "nothing" \/ link = "reset"
    /\ pc' = "read"
    /\ UNCHANGED <<tls, zip, outb, work, put, pending, wire, peerVars, history>>

\* read(), or SSL_read() of a whole record, returns data.
Read ==
    /\ pc = "read"
    /\ arrived = "data"
    /\ pc' = "loop"
    /\ arrived' = "nothing"
    /\ UNCHANGED <<tls, zip, outb, work, put, pending, wire, unread, link,
                   history>>

\* SSL_read() deals with a record that carries no data, and then, by the loop
\* around it, waits for the next.
SkipRecord ==
    /\ pc = "read"
    /\ arrived = "no data"
    /\ arrived' = "nothing"
    /\ UNCHANGED <<tls, zip, pc, outb, work, put, pending, wire, unread, link,
                   history>>

\* The end of the stream, and of the session.
ReadEnds ==
    /\ pc = "read"
    /\ link = "reset" /\ arrived \in {"nothing", "part"}
    /\ pc' = "done"
    /\ UNCHANGED <<tls, zip, outb, work, put, pending, wire, peerVars, history>>

-----------------------------------------------------------------------------
(* The peer.                                                               *)

\* The peer takes some of what it has been sent.
PeerReads == /\ link = "open"
             /\ \E n \in 0 .. unread - 1 : unread' = n
             /\ UNCHANGED <<tls, zip, pc, outb, work, put, pending, wire,
                            arrived, link, history>>

Record == {"data", "no data"}

PeerWrites == /\ link = "open" /\ arrived = "nothing"
              /\ arrived' \in IF tls THEN Record \cup {"part"} ELSE {"data"}
              /\ UNCHANGED <<tls, zip, pc, outb, work, put, pending, wire,
                             unread, link, history>>

\* The rest of a record comes in.
PeerCompletes == /\ link = "open" /\ arrived = "part"
                 /\ arrived' \in Record
                 /\ UNCHANGED <<tls, zip, pc, outb, work, put, pending, wire,
                                unread, link, history>>

PeerLeaves == /\ link = "open"
              /\ link' = "reset"
              /\ UNCHANGED <<tls, zip, pc, outb, work, put, pending, wire,
                             unread, arrived, history>>

Terminated == pc \in {"done", "undefined"} /\ UNCHANGED vars

Process == Report \/ Answer \/ Relay \/ WritePlain \/ WriteTls \/ WriteFails
           \/ StartRead \/ Read \/ SkipRecord \/ ReadEnds

Next == Process \/ PeerReads \/ PeerWrites \/ PeerCompletes \/ PeerLeaves
        \/ Terminated

Spec == Init /\ [][Next]_vars

\* The process runs, and a peer that stays reads what it is sent and completes
\* a record it has begun.
Fairness == WF_vars(Process) /\ WF_vars(PeerReads) /\ WF_vars(PeerCompletes)

FairSpec == Spec /\ Fairness

-----------------------------------------------------------------------------
(* Properties.                                                             *)

\* The bytes of MUDitM's own in a sequence, and do they come in the order in
\* which they were given, and none of them twice?
Own(bytes) == {bytes[i] : i \in {j \in DOMAIN bytes : bytes[j].own}}
InOrder(bytes) == \A i, j \in DOMAIN bytes :
                     i < j /\ bytes[i].own /\ bytes[j].own =>
                        bytes[i].at < bytes[j].at

\* What a handler has queued is sent once and in its order, however little of
\* it the writes in between put out: it is on the wire or in the buffer.
QueuedOnce ==
    pc = "loop" /\ link = "open" =>
        InOrder(wire \o outb) /\ Own(wire \o outb) = Own(given)

\* All that is given to an endpoint is on the wire by the time the loop goes
\* on, in its order and whatever room the socket has: with TLS always, without
\* unless a write fell short.  Nothing is left in the buffer, in the workspace
\* or inside zlib.
Delivered ==
    pc = "loop" /\ link = "open" /\ (tls \/ ~short) =>
        wire = given /\ outb = <<>> /\ pending = <<>>

\* The output buffer is never full unless a write has fallen short before:
\* that is all that keeps a report from being cut, and a copied command from
\* being written beyond the end.
FitsUnlessShort == cut \/ pc = "undefined" => short

\* A read or a write comes back, as does the loop, with the other side to
\* serve and the fallback's clock to look at.  Only a TLS peer that has sent
\* a record without data and then nothing can hold up a read for ever.
Returns ==
    pc \in {"flush", "relay", "zip", "read"} ~>
        \/ pc \in {"loop", "done"}
        \/ pc = "read" /\ tls /\ arrived = "nothing"
=============================================================================
