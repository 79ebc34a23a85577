------------------------------ MODULE Session ------------------------------
(***************************************************************************)
(* The life of a session: main() (muditm.c) from its start to its end,     *)
(* with the opening of the two endpoints and what it releases on every way *)
(* out.  demonize() is module Supervisor, muditm_proxy() module Proxy; of  *)
(* both only the interface to main() is here.  exit() and a signal that    *)
(* kills leave the release to the kernel.                                  *)
(*                                                                         *)
(* A definition marked "Mistake:" is a wrong version of the one it stands  *)
(* before, and no part of the specification.                               *)
(***************************************************************************)
EXTENDS Naturals, Sequences

CONSTANTS Addresses,  \* the number of addresses the game's host name has
          MaxWords    \* bound on the number of words written to a peer

ASSUME AddressesAssumption == Addresses \in Nat
ASSUME MaxWordsAssumption == MaxWords \in Nat

Side == {"client", "game"}
Other(s) == IF s = "client" THEN "game" ELSE "client"

\* What main() has to release.
Endpoint(s) == <<"endpoint", s>>
Ssl(s) == <<"SSL", s>>
Context == <<"SSL_CTX", 0>>
Listener == <<"listener", 0>>   \* mother_sock
Caller == <<"accepted", 0>>     \* the client's socket
Attempt(i) == <<"socket", i>>   \* game_connect()'s socket for the i-th address
None == <<"none", 0>>

Socket == {Listener, Caller} \cup {Attempt(i) : i \in 1 .. Addresses}
Object == Socket \cup {Context}
          \cup {Endpoint(s) : s \in Side} \cup {Ssl(s) : s \in Side}

VARIABLES
    pc,        \* where main() is
    config,    \* the settings that matter here
    made,      \* the objects that have been allocated or opened
    released,  \* how often each has been freed or closed
    socket,    \* the socket field of each endpoint, None for -1
    secured,   \* is the ssl field of the endpoint set?
    tried,     \* the number of addresses of the game tried
    outq,      \* the game's output buffer
    wire,      \* wire[s]: the words written to s, each in TLS or in clear
    link,      \* link[s]: has s kept, closed or reset its connection?
    answer,    \* answer[s]: what s has made of the TLS handshake so far
    waits,     \* the read or write that muditm_proxy() repeats, None for none
    served     \* has muditm_proxy() been called?

objVars == <<made, released, socket, secured>>
netVars == <<outq, wire>>
peerVars == <<link, answer, waits>>
vars == <<pc, config, objVars, tried, netVars, peerVars, served>>

Tls(s) == config[s] = "SSL"
SomeTls == \E s \in Side : Tls(s)

Init == /\ pc = "start"
        /\ config \in [client: {"none", "SSL"}, game: {"none", "SSL"},
                       stunnelproxy: BOOLEAN]
        /\ made = {}
        /\ released = [o \in Object |-> 0]
        /\ socket = [s \in Side |-> None]
        /\ secured = [s \in Side |-> FALSE]
        /\ tried = 0
        /\ outq = <<>>
        /\ wire = [s \in Side |-> <<>>]
        /\ link = [s \in Side |-> "open"]
        /\ answer = [s \in Side |-> "none"]
        /\ waits = None
        /\ served = FALSE

Running == pc \notin {"exited", "returned", "handler", "hung", "killed"}
Over == pc \in {"exited", "returned", "killed"}

-----------------------------------------------------------------------------
(* Up to the connection of a client.                                       *)

\* exit(): the options, the configuration, the certificate, the keys or the
\* listening socket are no good.
Exit == /\ \/ pc \in {"start", "listen"}
           \/ pc = "context" /\ SomeTls
           \/ pc = "game_tls" /\ Tls("game")
        /\ pc' = "exited"
        /\ UNCHANGED <<config, objVars, tried, netVars, peerVars, served>>

Configure == /\ pc = "start"
             /\ pc' = "listen"
             /\ UNCHANGED <<config, objVars, tried, netVars, peerVars, served>>

\* new_mommie(), and the endpoint of the client
Listen == /\ pc = "listen"
          /\ pc' = "accept"
          /\ made' = made \cup {Listener, Endpoint("client")}
          /\ UNCHANGED <<config, released, socket, secured, tried, netVars,
                         peerVars, served>>

\* demonize() returns a connection, in the process that is to serve it ...
Accept == /\ pc = "accept"
          /\ pc' = "context"
          /\ made' = made \cup {Caller}
          /\ socket' = [socket EXCEPT !["client"] = Caller]
          /\ released' = [released EXCEPT ![Listener] = @ + 1]
          /\ UNCHANGED <<config, secured, tried, netVars, peerVars, served>>

\* ... or -1, in the listening process: it is to stop, or accept() has failed.
Stop == /\ pc = "accept"
        /\ pc' = "free_client"
        /\ UNCHANGED <<config, objVars, tried, netVars, peerVars, served>>

\* Load the keys, anew for each session.
MakeContext == /\ pc = "context"
               /\ pc' = "client_tls"
               /\ made' = IF SomeTls THEN made \cup {Context} ELSE made
               /\ UNCHANGED <<config, released, socket, secured, tried, netVars,
                              peerVars, served>>

-----------------------------------------------------------------------------
(* Writing, and the TLS handshakes.                                        *)

\* write_endpoint(): through ssl if the endpoint has one.  A connection that
\* has been reset takes nothing.  The sockets are fresh, or the write is one of
\* muditm_proxy(), whose short writes are module Proxy's.
Write(s, words) ==
    wire' = [wire EXCEPT ![s] = IF link[s] = "reset" THEN @ ELSE
                @ \o [i \in DOMAIN words |->
                         [word |-> words[i], tls |-> secured[s]]]]

\* Mistake: the wrong side's setting is looked at.
SecuresOther(s) == Tls(Other(s))

\* Does main() call ssl_start_endpoint() for s?
Secures(s) == Tls(s)

\* ssl_start_endpoint() makes an SSL object, whatever becomes of it ...
StartTls(s) == /\ made' = made \cup {Ssl(s)}
               /\ secured' = [secured EXCEPT ![s] = TRUE]
               /\ UNCHANGED <<released, socket>>

\* ... in SSL_accept() or SSL_connect(), which wait for s.
Agreed(s) == answer[s] = "good"
Refused(s) == answer[s] = "bad" \/ link[s] # "open"

\* The client is secure, or need not be; on to the game, whose endpoint is
\* made before there is a socket for it.
ClientTls ==
    /\ pc = "client_tls"
    /\ Secures("client") => Agreed("client")
    /\ pc' = "connect"
    /\ made' = made \cup {Endpoint("game")}
                    \cup (IF Secures("client") THEN {Ssl("client")} ELSE {})
    /\ secured' = [secured EXCEPT !["client"] = Secures("client")]
    /\ UNCHANGED <<config, released, socket, tried, netVars, peerVars, served>>

\* Mistake: goto cleanup_game, where there is no game yet.
CleanupGame == "free_game"

\* The label that main() goes to when the client's handshake has failed.
CleanupClient == "free_client"

ClientGivesUp ==
    /\ pc = "client_tls"
    /\ Secures("client")
    /\ pc' = CleanupClient
    /\ StartTls("client")
    /\ UNCHANGED <<config, tried, netVars, peerVars, served>>


ClientTlsFails == Refused("client") /\ ClientGivesUp

-----------------------------------------------------------------------------
(* The game.                                                               *)

\* game_connect() tries the next address: there is no socket to be had for
\* it, or it does not connect, or it does.
SocketFails ==
    /\ pc = "connect" /\ tried < Addresses
    /\ tried' = tried + 1
    /\ UNCHANGED <<pc, config, objVars, netVars, peerVars, served>>

ConnectFails ==
    /\ pc = "connect" /\ tried < Addresses
    /\ tried' = tried + 1
    /\ made' = made \cup {Attempt(tried')}
    /\ released' = [released EXCEPT ![Attempt(tried')] = @ + 1]
    /\ UNCHANGED <<pc, config, socket, secured, netVars, peerVars, served>>

Connect ==
    /\ pc = "connect" /\ tried < Addresses
    /\ tried' = tried + 1
    /\ made' = made \cup {Attempt(tried')}
    /\ socket' = [socket EXCEPT !["game"] = Attempt(tried')]
    /\ pc' = "game_tls"
    /\ UNCHANGED <<config, released, secured, netVars, peerVars, served>>

\* The name of the game has no address (getaddrinfo() has failed), or none
\* that connects: "Couldn't connect to server!"
Unreachable ==
    /\ pc = "connect" /\ tried \in {0, Addresses}
    /\ Write("client", <<"sorry">>)
    /\ pc' = "free_game"
    /\ UNCHANGED <<config, objVars, tried, outq, peerVars, served>>

GameTls ==
    /\ pc = "game_tls"
    /\ pc' = "header"
    /\ IF Secures("game")
       THEN Agreed("game") /\ StartTls("game")
       ELSE UNCHANGED objVars
    /\ UNCHANGED <<config, tried, netVars, peerVars, served>>

\* Mistake: the client is not told.
GameGivesUpSilently ==
    /\ pc = "game_tls"
    /\ Secures("game")
    /\ StartTls("game")
    /\ pc' = "free_game"
    /\ UNCHANGED <<config, tried, netVars, peerVars, served>>

\* "Couldn't ssl to to server!"
GameGivesUp ==
    /\ pc = "game_tls"
    /\ Secures("game")
    /\ StartTls("game")
    /\ Write("client", <<"sorry">>)
    /\ pc' = "free_game"
    /\ UNCHANGED <<config, tried, outq, peerVars, served>>

GameTlsFails == Refused("game") /\ GameGivesUp

\* The handler of SIGTERM makes a handshake fail that waits for its peer.
Interrupted == ClientGivesUp \/ GameGivesUp

\* flush_endpoint() of the game, with the given words pushed before
Flush(words) == /\ Write("game", outq \o words)
                /\ outq' = IF link["game"] = "reset" THEN outq \o words
                           ELSE <<>>

\* Mistake: the header is left in the output buffer.
HeaderUnflushed ==
    /\ pc = "header"
    /\ outq' = IF config.stunnelproxy THEN <<"PROXY">> ELSE <<>>
    /\ pc' = "proxy" /\ served' = TRUE
    /\ UNCHANGED <<config, objVars, tried, wire, peerVars>>

\* The header of the stunnel PROXY protocol, empty if the client has reset its
\* connection so that getpeername() has no address to give; the game is told
\* nothing then, and the session goes on.
Header ==
    /\ pc = "header"
    /\ IF config.stunnelproxy /\ link["client"] # "reset"
       THEN Flush(<<"PROXY">>)
       ELSE UNCHANGED netVars
    /\ pc' = "proxy" /\ served' = TRUE
    /\ UNCHANGED <<config, objVars, tried, peerVars>>

-----------------------------------------------------------------------------
(* muditm_proxy(), as far as main() can tell.                              *)

Spoken(s) == Len(wire[s])

InLoop == pc = "proxy" /\ waits = None

\* Can s keep such a call waiting?  To read from it ends when it has closed
\* the connection, to write to it when it has reset it.
Keeps(s, call) ==
    link[s] = "open" \/ (link[s] = "closed" /\ call = "write")

KeptBy(s) == \E call \in {"read", "write"} : waits = <<call, s>> /\ Keeps(s, call)

\* It says something of its own to the game, through the output buffer.
ProxySpeaks ==
    /\ InLoop /\ Spoken("game") + Len(outq) < MaxWords
    /\ Flush(<<"own">>)
    /\ UNCHANGED <<pc, config, objVars, tried, peerVars, served>>

\* What a peer has sent is read and written across, also when the peer has
\* gone since: what came before its reset can still be read.
ProxyRelays(s) ==
    /\ InLoop /\ Spoken(Other(s)) < MaxWords
    /\ Write(Other(s), <<"text">>)
    /\ UNCHANGED <<pc, config, objVars, tried, outq, peerVars, served>>

\* A TLS read finds a record without data, or a TLS write no room: it is tried
\* again and again, until s sends or takes something ...
ProxyWaits(s) ==
    /\ InLoop /\ Tls(s)
    /\ \E call \in {"read", "write"} : Keeps(s, call) /\ waits' = <<call, s>>
    /\ UNCHANGED <<pc, config, objVars, tried, netVars, link, answer, served>>

ProxyResumes ==
    /\ pc = "proxy" /\ waits # None
    /\ waits' = None
    /\ UNCHANGED <<pc, config, objVars, tried, netVars, link, answer, served>>

\* ... or it fails.
ProxyLetGo == ~KeptBy("client") /\ ~KeptBy("game") /\ ProxyResumes

\* It returns when a peer has gone ...
ProxyHangUp ==
    /\ InLoop /\ \E s \in Side : link[s] # "open"
    /\ pc' = "free_game"
    /\ UNCHANGED <<config, objVars, tried, netVars, peerVars, served>>

\* ... or when fcntl() or poll() fails.
ProxyFails ==
    /\ InLoop
    /\ pc' = "free_game"
    /\ UNCHANGED <<config, objVars, tried, netVars, peerVars, served>>

-----------------------------------------------------------------------------
(* The ways out.                                                           *)

\* free_endpoint(), which closes the endpoint first
FreeEndpoint(s) ==
    LET freed == {Endpoint(s)} \cup (IF secured[s] THEN {Ssl(s)} ELSE {})
                 \cup (IF socket[s] # None THEN {socket[s]} ELSE {})
    IN  /\ released' = [o \in Object |-> IF o \in freed THEN released[o] + 1
                                         ELSE released[o]]
        /\ secured' = [secured EXCEPT ![s] = FALSE]
        /\ socket' = [socket EXCEPT ![s] = None]
        /\ UNCHANGED made

FreeGame == /\ pc = "free_game"
            /\ pc' = "free_client"
            /\ FreeEndpoint("game")
            /\ UNCHANGED <<config, tried, netVars, peerVars, served>>

FreeClient == /\ pc = "free_client"
              /\ pc' = "free_context"
              /\ FreeEndpoint("client")
              /\ UNCHANGED <<config, tried, netVars, peerVars, served>>

FreeContext ==
    /\ pc = "free_context"
    /\ pc' = "returned"
    /\ released' = IF Context \in made
                   THEN [released EXCEPT ![Context] = @ + 1] ELSE released
    /\ UNCHANGED <<config, made, socket, secured, tried, netVars, peerVars,
                   served>>

\* A crash.  Once its handler is installed it writes a line and a trace, for
\* which it calls what may wait for a lock that the crash has left locked.
Crash == /\ Running
         /\ pc' = IF pc = "start" THEN "killed" ELSE "handler"
         /\ waits' = None
         /\ UNCHANGED <<config, objVars, tried, netVars, link, answer, served>>

Trace == /\ pc = "handler"
         /\ pc' \in {"hung", "killed"}
         /\ UNCHANGED <<config, objVars, tried, netVars, peerVars, served>>

\* Mistake: the alarm is not set.
NoAlarm == FALSE /\ UNCHANGED vars

Alarm == /\ pc = "hung"
         /\ pc' = "killed"
         /\ UNCHANGED <<config, objVars, tried, netVars, peerVars, served>>

-----------------------------------------------------------------------------
(* The peers, and the specification.                                       *)

Shake(s) == /\ socket[s] # None /\ link[s] = "open" /\ answer[s] = "none"
            /\ \E a \in {"good", "bad"} : answer' = [answer EXCEPT ![s] = a]
            /\ UNCHANGED <<pc, config, objVars, tried, netVars, link, waits,
                           served>>

Leave(s) == /\ socket[s] # None /\ link[s] # "reset"
            /\ \E how \in {"closed", "reset"} \ {link[s]} :
                  link' = [link EXCEPT ![s] = how]
            /\ UNCHANGED <<pc, config, objVars, tried, netVars, answer, waits,
                           served>>

\* main() goes on, if it does not wait for a peer.
Main == \/ Configure \/ Listen \/ MakeContext
        \/ ClientTls \/ ClientTlsFails
        \/ SocketFails \/ ConnectFails \/ Connect \/ Unreachable
        \/ GameTls \/ GameTlsFails \/ Header
        \/ FreeGame \/ FreeClient \/ FreeContext
        \/ Trace \/ Alarm

\* A connection or a signal comes, something fails.
Chance == Exit \/ Accept \/ Stop \/ Interrupted \/ ProxyFails \/ Crash

Relaying == \/ ProxySpeaks \/ ProxyResumes
            \/ \E s \in Side : ProxyRelays(s) \/ ProxyWaits(s)

Peer == \E s \in Side : Shake(s) \/ Leave(s)

Terminated == Over /\ UNCHANGED vars

Next == Main \/ Chance \/ Relaying \/ ProxyHangUp \/ Peer \/ Terminated

Spec == Init /\ [][Next]_vars

\* The process runs; connect() and every write outside of muditm_proxy()
\* return at last.  That loop looks at both sides in every round, so that a
\* hang-up, which is there to be read again and again, is read at last, though
\* calls for the other side may have to be repeated meanwhile.  The peers need
\* not answer, send, take what is sent, nor leave.
FairSpec == Spec /\ WF_vars(Main) /\ WF_vars(ProxyLetGo) /\ SF_vars(ProxyHangUp)

-----------------------------------------------------------------------------
(* Properties.                                                             *)

\* Whatever way main() takes out, every endpoint, socket, SSL object and
\* context it has made is released once; what it has not made is not, though
\* a label further up would do so.  (The listening process leaves its socket
\* to the kernel.)
ReleasedOnce ==
    /\ \A o \in Object : released[o] \in IF o \in made THEN {0, 1} ELSE {0}
    /\ pc = "returned" => \A o \in made \ {Listener} : released[o] = 1

\* A side set to SSL is told nothing before it has completed its handshake,
\* and nothing in clear.
NoClearText ==
    \A s \in Side : Tls(s) /\ wire[s] # <<>> =>
        answer[s] = "good" /\ \A i \in DOMAIN wire[s] : wire[s][i].tls

\* A game that expects the PROXY header gets it once, and before anything of
\* the client; if it gets none at all, though the client is heard, the client
\* has reset its connection, and so had no address to give.
HeaderFirst ==
    \A i \in DOMAIN wire["game"] :
        /\ wire["game"][i].word = "text" /\ config.stunnelproxy =>
              \/ \E j \in 1 .. i : wire["game"][j].word = "PROXY"
              \/ link["client"] = "reset"
        /\ wire["game"][i].word = "PROXY" => i = 1 /\ config.stunnelproxy

\* A client that has been let in learns why its session is over, if the game
\* has never been reached.
ToldWhy ==
    pc = "returned" /\ Endpoint("game") \in made /\ ~served =>
        wire["client"] # <<>> \/ link["client"] = "reset"

\* A peer that has TLS keeps main() waiting: in its handshake, or in a read or
\* write of muditm_proxy() that is repeated.
Stuck(s) ==
    \/ /\ pc = IF s = "client" THEN "client_tls" ELSE "game_tls"
       /\ Tls(s) /\ answer[s] = "none" /\ link[s] = "open"
    \/ pc = "proxy" /\ KeptBy(s)


\* A process that crashes ends, even if its handler hangs.
CrashEnds == pc = "handler" ~> Over
=============================================================================
