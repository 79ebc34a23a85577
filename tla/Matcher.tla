------------------------------ MODULE Matcher ------------------------------
(***************************************************************************)
(* How muditm_proxy() finds telnet commands in a stream of bytes: the      *)
(* patterns of an endpoint, what compile_patterns() (handlers.c) makes of  *)
(* them, and the matching loop (proxy.c) that pcre2_match() drives.  Module *)
(* Proxy takes a command for two elements of a stream; here it is made of  *)
(* bytes, and a read may end at any of them.  What the handlers do with a  *)
(* match is module Proxy's.                                                *)
(*                                                                         *)
(* A definition marked "Mistake:" is a wrong version of the one it stands  *)
(* before, and no part of the specification.                               *)
(***************************************************************************)
EXTENDS Naturals, Sequences, SequencesExt

CONSTANTS
    Endpoints,   \* the endpoints looked at, each a pair of side and mode
    Streams      \* what a peer may send, sequences of bytes

Byte == {"IAC", "SB", "SE", "WILL", "WONT", "DO", "DONT",
         "NEW_ENVIRON", "MCCP", "MCCP2", "MCCP3", "SEND", "NUL", "text"}

ASSUME EndpointsAssumption ==
    Endpoints \subseteq {"client", "game"} \X {"ignore", "disable", "enable"}
ASSUME StreamsAssumption == Streams \subseteq Seq(Byte)

VARIABLES
    endpoint,
    stream,   \* all that the peer sends
    read,     \* how much of it has been read
    buffer,   \* iobuf[EP_INPUT]
    scanning, \* is the matching loop at work?
    done      \* what the loop has found: matches, each with the number of its
              \* pattern and its place in the stream, and with number 0 the
              \* bytes that belong to none

vars == <<endpoint, stream, read, buffer, scanning, done>>

-----------------------------------------------------------------------------
(* The patterns.                                                           *)

Command(verb, option) == <<"IAC", verb, option>>
Start(option) == <<"IAC", "SB", option, "IAC", "SE">>
Options == <<"MCCP", "MCCP2", "MCCP3">>

\* add_mccp_game_patterns() and add_mccp_client_patterns()
MccpPatterns(side, mode) ==
    CASE side = "game" /\ mode = "ignore" -> [i \in 1 .. 3 |-> Start(Options[i])]
      [] side = "game" /\ mode = "disable" ->
            [i \in 1 .. 3 |-> Command("WILL", Options[i])]
      [] side = "game" /\ mode = "enable" ->
            <<Command("WILL", "MCCP2"), Start("MCCP2")>>
      [] side = "client" /\ mode = "ignore" -> <<>>
      [] side = "client" /\ mode = "disable" ->
            [i \in 1 .. 3 |-> Command("DO", Options[i])]
      [] side = "client" /\ mode = "enable" ->
            <<Command("DO", "MCCP2"), Command("DONT", "MCCP2")>>

\* add_game_patterns() and add_client_patterns().  NEW_ENV_VAR is a NUL byte.
Patterns(side, mode) ==
    LET send == <<"IAC", "SB", "NEW_ENVIRON", "SEND">>
    IN  (IF side = "game"
         THEN <<send \o <<"IAC", "SE">>, send \o <<"NUL", "IAC", "SE">>,
                Command("DO", "NEW_ENVIRON")>>
         ELSE <<Command("WONT", "NEW_ENVIRON"),
                Command("WILL", "NEW_ENVIRON")>>)
        \o MccpPatterns(side, mode)

\* compile_patterns() makes an alternative of each pattern, in their order.
\* The format "%.*s" ends a pattern that holds a NUL there.
UpToNul(pattern) ==
    LET nuls == {i \in DOMAIN pattern : pattern[i] = "NUL"}
    IN  IF nuls = {} THEN pattern
        ELSE SubSeq(pattern, 1, (CHOOSE i \in nuls : \A j \in nuls : i <= j) - 1)

Compiled(e) == LET patterns == Patterns(e[1], e[2])
               IN  [i \in DOMAIN patterns |-> UpToNul(patterns[i])]
Alternatives == Compiled(endpoint)

-----------------------------------------------------------------------------
(* pcre2_match().                                                          *)

\* Mistake: PCRE2_PARTIAL_HARD is left out.
ReachesEndNever(pattern, q, i) == FALSE

\* Does the end of q come before the end of a pattern that begins at i?
ReachesEnd(pattern, q, i) ==
    LET rest == SubSeq(q, i, Len(q))
    IN  Len(rest) < Len(pattern) /\ IsPrefix(rest, pattern)

Fits(pattern, q, i) == IsPrefix(pattern, SubSeq(q, i, Len(q)))

\* The alternatives are tried from each byte on, one after the other.  Under
\* PCRE2_PARTIAL_HARD one that reaches the end of the buffer is the result,
\* and those behind it are not tried.
Found(q) ==
    {f \in (DOMAIN q) \X (DOMAIN Alternatives) :
        \/ Fits(Alternatives[f[2]], q, f[1])
        \/ ReachesEnd(Alternatives[f[2]], q, f[1])}

First(found) ==
    CHOOSE f \in found :
        \A g \in found : \/ f[1] < g[1]
                         \/ f[1] = g[1] /\ f[2] <= g[2]

-----------------------------------------------------------------------------
(* The loop.                                                               *)

\* How many bytes the loop is done with.
Gone == read - Len(buffer)

\* The first n bytes of the buffer belong to no match.
NoMatch(n) == [i \in 1 .. n |->
                  [pattern |-> 0, at |-> Gone + i, bytes |-> <<buffer[i]>>]]

Match(f) == [pattern |-> f[2], at |-> Gone + f[1], bytes |-> Alternatives[f[2]]]

Init == /\ endpoint \in Endpoints
        /\ stream \in Streams
        /\ read = 0 /\ buffer = <<>> /\ done = <<>>
        /\ scanning = FALSE

\* One read, which may end anywhere.
Read == /\ ~scanning
        /\ \E n \in 1 .. Len(stream) - read :
              /\ read' = read + n
              /\ buffer' = buffer \o SubSeq(stream, read + 1, read + n)
        /\ scanning' = TRUE
        /\ UNCHANGED <<endpoint, stream, done>>

ScanNoMatch == /\ scanning
               /\ Found(buffer) = {}
               /\ done' = done \o NoMatch(Len(buffer))
               /\ buffer' = <<>>
               /\ scanning' = FALSE
               /\ UNCHANGED <<endpoint, stream, read>>

\* The buffer waits for more input.
ScanPartial == /\ scanning
               /\ Found(buffer) # {}
               /\ LET f == First(Found(buffer))
                  IN  ReachesEnd(Alternatives[f[2]], buffer, f[1])
               /\ scanning' = FALSE
               /\ UNCHANGED <<endpoint, stream, read, buffer, done>>

\* What stands before the match is relayed, and the match handled.
ScanMatch ==
    /\ scanning
    /\ Found(buffer) # {}
    /\ LET f == First(Found(buffer))
           end == f[1] + Len(Alternatives[f[2]])
       IN  /\ ~ReachesEnd(Alternatives[f[2]], buffer, f[1])
           /\ done' = done \o NoMatch(f[1] - 1) \o <<Match(f)>>
           /\ buffer' = SubSeq(buffer, end, Len(buffer))
    /\ scanning' = (buffer' # <<>>)
    /\ UNCHANGED <<endpoint, stream, read>>

Finished == ~scanning /\ read = Len(stream) /\ UNCHANGED vars

Next == Read \/ ScanNoMatch \/ ScanPartial \/ ScanMatch \/ Finished

Spec == Init /\ [][Next]_vars

-----------------------------------------------------------------------------
(* The reference.                                                          *)

\* What is at place i of the stream as a whole: the first pattern, in their
\* order, that stands there, or a byte that belongs to none.
Answer(i) ==
    LET fitting == {a \in DOMAIN Alternatives : Fits(Alternatives[a], stream, i)}
        a == CHOOSE b \in fitting : \A c \in fitting : b <= c
    IN  IF fitting = {}
        THEN [pattern |-> 0, at |-> i, bytes |-> <<stream[i]>>]
        ELSE [pattern |-> a, at |-> i, bytes |-> Alternatives[a]]

\* Where what comes after the first k of d begins.
Reached(d, k) == IF k = 0 THEN 1 ELSE d[k].at + Len(d[k].bytes)

\* d is what there is to be found in the stream from its beginning on, one
\* after the other.
Parses(d) == \A k \in DOMAIN d : d[k] = Answer(Reached(d, k - 1))

\* However a stream is cut into reads, the same commands are found in it, by
\* the same patterns and at the same places, and the same bytes are relayed:
\* although one pattern is the beginning of another, once a NUL has ended it.
CutIndependent ==
    /\ Parses(done)
    /\ buffer = SubSeq(stream, Reached(done, Len(done)), read)
=============================================================================
