--------------------------- MODULE Session_proofs ---------------------------
(***************************************************************************)
(* Proofs about the life of a session, for any settings, any number of     *)
(* addresses and any behaviour of the peers.                               *)
(***************************************************************************)
EXTENDS Session, Integers, TLAPS

Said == {"sorry", "PROXY", "own", "text"}
Word == [word: Said, tls: BOOLEAN]

TypeInv ==
    /\ config \in [client: {"none", "SSL"}, game: {"none", "SSL"},
                   stunnelproxy: BOOLEAN]
    /\ made \in SUBSET Object
    /\ released \in [Object -> Nat]
    /\ socket \in [Side -> Socket \cup {None}]
    /\ secured \in [Side -> BOOLEAN]
    /\ tried \in 0 .. Addresses
    /\ outq \in Seq(Said)
    /\ wire \in [Side -> Seq(Word)]
    /\ link \in [Side -> {"open", "closed", "reset"}]
    /\ answer \in [Side -> {"none", "good", "bad"}]
    /\ waits \in ({"read", "write"} \X Side) \cup {None}
    /\ served \in BOOLEAN

-----------------------------------------------------------------------------
(* The objects of main() differ from each other.                           *)

\* Everything that is named is an object.
LEMMA Objects ==
    /\ \A s \in Side : Endpoint(s) \in Object /\ Ssl(s) \in Object
    /\ Context \in Object /\ Listener \in Socket /\ Caller \in Socket
    /\ \A i \in 1 .. Addresses : Attempt(i) \in Socket
    /\ Socket \subseteq Object
BY DEF Object, Socket

\* Objects with different names are different.
LEMMA Distinct ==
    /\ \A s, t \in Side : /\ Endpoint(s) # Ssl(t)
                          /\ s # t => Endpoint(s) # Endpoint(t)
                          /\ s # t => Ssl(s) # Ssl(t)
    /\ \A s \in Side, o \in Socket \cup {Context} :
          o # Endpoint(s) /\ o # Ssl(s)
    /\ Context \notin Socket /\ None \notin Socket /\ Listener # Caller
    /\ \A i \in 1 .. Addresses : Attempt(i) # Listener /\ Attempt(i) # Caller
    /\ \A i, j \in 1 .. Addresses : i # j => Attempt(i) # Attempt(j)
BY DEF Side, Endpoint, Ssl, Context, Listener, Caller, Attempt, None, Socket

-----------------------------------------------------------------------------
(* What a write adds to the wire.                                          *)

\* A write adds a sequence of words ...
LEMMA Wording ==
    ASSUME NEW words \in Seq(Said), NEW t \in BOOLEAN
    PROVE  [i \in DOMAIN words |-> [word |-> words[i], tls |-> t]] \in Seq(Word)
<1>1. \A i \in 1 .. Len(words) : [word |-> words[i], tls |-> t] \in Word
  BY DEF Word
<1>2. DOMAIN words = 1 .. Len(words) /\ Len(words) \in Nat
  OBVIOUS
<1> QED BY <1>1, <1>2

\* ... and a write of one word adds one.
LEMMA OneWord ==
    ASSUME NEW w, NEW t
    PROVE  [i \in DOMAIN <<w>> |-> [word |-> <<w>>[i], tls |-> t]]
           = <<[word |-> w, tls |-> t]>>
OBVIOUS

\* One thing makes a sequence.
LEMMA Single == ASSUME NEW S, NEW w \in S PROVE <<w>> \in Seq(S)
OBVIOUS

\* The words there are to say.
LEMMA Sayings ==
    /\ "sorry" \in Said /\ "PROXY" \in Said
    /\ "own" \in Said /\ "text" \in Said
BY DEF Said

\* What has been written consists of words.
LEMMA WriteType ==
    ASSUME TypeInv, NEW s \in Side, NEW words \in Seq(Said), Write(s, words)
    PROVE  wire' \in [Side -> Seq(Word)]
<1>1. [i \in DOMAIN words |-> [word |-> words[i], tls |-> secured[s]]] \in Seq(Word)
  BY Wording DEF TypeInv
<1> QED BY <1>1 DEF TypeInv, Write

-----------------------------------------------------------------------------
(* Types.                                                                  *)

\* Every variable has its type at first ...
LEMMA TypeInit == Init => TypeInv
<1> SUFFICES ASSUME Init PROVE TypeInv
  OBVIOUS
<1>1. wire \in [Side -> Seq(Word)] /\ outq \in Seq(Said)
  BY DEF Init
<1>2. socket \in [Side -> Socket \cup {None}] /\ secured \in [Side -> BOOLEAN]
  BY DEF Init
<1>3. tried \in 0 .. Addresses /\ released \in [Object -> Nat]
  BY AddressesAssumption DEF Init
<1>4. /\ link \in [Side -> {"open", "closed", "reset"}]
      /\ answer \in [Side -> {"none", "good", "bad"}]
  BY DEF Init
<1> QED BY <1>1, <1>2, <1>3, <1>4 DEF Init, TypeInv

\* The steps that neither make nor release anything
LEMMA TypeQuiet ==
    ASSUME TypeInv,
           \/ Exit \/ Configure \/ Stop \/ SocketFails \/ ProxyHangUp
           \/ ProxyFails \/ Crash \/ Trace \/ Alarm \/ Peer \/ UNCHANGED vars
    PROVE  TypeInv'
<1> USE AddressesAssumption
     DEF TypeInv, objVars, netVars, peerVars, vars
<1>1. CASE Exit \/ Configure \/ Stop
  BY <1>1 DEF Exit, Configure, Stop
<1>2. CASE SocketFails
  BY <1>2 DEF SocketFails
<1>3. CASE ProxyHangUp \/ ProxyFails \/ Crash \/ Trace \/ Alarm
  BY <1>3 DEF ProxyHangUp, ProxyFails, InLoop, Crash, Trace, Alarm
<1>4. CASE Peer
  <2>1. PICK s \in Side : Shake(s) \/ Leave(s)
    BY <1>4 DEF Peer
  <2>2. CASE Shake(s)
    BY <2>2 DEF Shake
  <2>3. CASE Leave(s)
    <3>1. link' \in [Side -> {"open", "closed", "reset"}]
      BY <2>3 DEF Leave
    <3> QED BY <2>3, <3>1 DEF Leave
  <2> QED BY <2>1, <2>2, <2>3
<1> QED BY <1>1, <1>2, <1>3, <1>4

\* The steps that make or release something
LEMMA TypeMakes ==
    ASSUME TypeInv,
           \/ Listen \/ Accept \/ MakeContext \/ ClientTls \/ ClientGivesUp
           \/ ConnectFails \/ Connect \/ GameTls
           \/ FreeGame \/ FreeClient \/ FreeContext
    PROVE  TypeInv'
<1> USE AddressesAssumption, Objects
     DEF TypeInv, objVars, netVars, peerVars, Side
<1>1. CASE Listen \/ MakeContext
  BY <1>1 DEF Listen, MakeContext
<1>a. CASE Accept
  <2>1. /\ made' \in SUBSET Object /\ released' \in [Object -> Nat]
        /\ socket' \in [Side -> Socket \cup {None}]
    BY <1>a DEF Accept
  <2> QED BY <1>a, <2>1 DEF Accept
<1>2. CASE ClientTls
  BY <1>2 DEF ClientTls, Secures, Tls
<1>3. CASE ClientGivesUp
  BY <1>3 DEF ClientGivesUp, StartTls
<1>4. CASE ConnectFails \/ Connect
  <2>1. tried' \in 1 .. Addresses
    BY SMTT(30), <1>4 DEF ConnectFails, Connect
  <2>2. Attempt(tried') \in Socket
    BY <2>1
  <2>3. /\ made' \in SUBSET Object /\ released' \in [Object -> Nat]
        /\ socket' \in [Side -> Socket \cup {None}]
    BY SMTT(30), <1>4, <2>2 DEF ConnectFails, Connect
  <2>4. /\ tried' \in 0 .. Addresses /\ secured' = secured
        /\ UNCHANGED <<config, netVars, peerVars, served>>
    BY <1>4, <2>1 DEF ConnectFails, Connect
  <2> QED BY <2>3, <2>4
<1>5. CASE GameTls
  <2>1. made' \in SUBSET Object /\ secured' \in [Side -> BOOLEAN]
    <3>1. made \in SUBSET Object /\ secured \in [Side -> BOOLEAN]
      OBVIOUS
    <3>2. Ssl("game") \in Object
      OBVIOUS
    <3> HIDE DEF TypeInv
    <3> QED BY <1>5, <3>1, <3>2 DEF GameTls, StartTls
  <2>2. UNCHANGED <<config, released, socket, tried, outq, wire, link, answer,
                    waits, served>>
    BY <1>5 DEF GameTls, StartTls
  <2> QED BY <2>1, <2>2
<1>6. ASSUME NEW s \in Side, FreeEndpoint(s)
      PROVE  /\ released' \in [Object -> Nat] /\ secured' \in [Side -> BOOLEAN]
             /\ socket' \in [Side -> Socket \cup {None}] /\ made' = made
  BY <1>6 DEF FreeEndpoint
<1>7. CASE FreeGame \/ FreeClient
  BY <1>6, <1>7 DEF FreeGame, FreeClient
<1>8. CASE FreeContext
  BY SMTT(30), <1>8 DEF FreeContext
<1> QED BY <1>1, <1>a, <1>2, <1>3, <1>4, <1>5, <1>7, <1>8

\* The steps that write
LEMMA TypeWrites ==
    ASSUME TypeInv,
           Unreachable \/ GameGivesUp \/ Header \/ Relaying
    PROVE  TypeInv'
<1>a. "client" \in Side /\ "game" \in Side
  BY DEF Side
<1>b. ASSUME NEW s \in Side, NEW w \in Said, Write(s, <<w>>)
      PROVE  wire' \in [Side -> Seq(Word)]
  BY <1>b, WriteType, Single
<1>c. ASSUME NEW w \in Said, Flush(<<w>>)
      PROVE  outq' \in Seq(Said) /\ wire' \in [Side -> Seq(Word)]
  <2>1. outq \o <<w>> \in Seq(Said)
    BY Single DEF TypeInv
  <2>2. wire' \in [Side -> Seq(Word)]
    BY <1>a, <1>c, <2>1, WriteType DEF Flush
  <2> QED BY <1>c, <2>1, <2>2 DEF Flush
<1>1. CASE Unreachable
  <2>1. wire' \in [Side -> Seq(Word)]
    BY <1>1, <1>a, <1>b, Sayings DEF Unreachable
  <2> QED BY <1>1, <2>1 DEF Unreachable, TypeInv, objVars, peerVars
<1>2. CASE GameGivesUp
  <2>1. wire' \in [Side -> Seq(Word)]
    BY <1>2, <1>a, <1>b, Sayings DEF GameGivesUp
  <2>2. made' \in SUBSET Object /\ secured' \in [Side -> BOOLEAN]
    BY <1>2, <1>a, Objects DEF GameGivesUp, StartTls, TypeInv
  <2> QED BY <1>2, <2>1, <2>2 DEF GameGivesUp, StartTls, TypeInv, peerVars
<1>3. CASE Header
  <2>1. outq' \in Seq(Said) /\ wire' \in [Side -> Seq(Word)]
    BY <1>3, <1>c, Sayings DEF Header, netVars, TypeInv
  <2> QED BY <1>3, <2>1 DEF Header, TypeInv, objVars, peerVars
<1>4. CASE ProxySpeaks
  <2>1. outq' \in Seq(Said) /\ wire' \in [Side -> Seq(Word)]
    BY <1>4, <1>c, Sayings DEF ProxySpeaks
  <2> QED BY <1>4, <2>1 DEF ProxySpeaks, TypeInv, objVars, peerVars
<1>5. ASSUME NEW s \in Side, ProxyRelays(s)
      PROVE  TypeInv'
  <2>1. wire' \in [Side -> Seq(Word)]
    BY <1>5, <1>a, <1>b, Sayings DEF ProxyRelays, Other
  <2> QED BY <1>5, <2>1 DEF ProxyRelays, TypeInv, objVars, peerVars
<1>6. ASSUME ProxyResumes \/ \E s \in Side : ProxyWaits(s)
      PROVE  TypeInv'
  BY <1>6 DEF ProxyResumes, ProxyWaits, TypeInv, objVars, netVars
<1> QED BY <1>1, <1>2, <1>3, <1>4, <1>5, <1>6 DEF Relaying

\* Every step is one of these.
LEMMA Steps ==
    [Next]_vars <=>
       \/ Exit \/ Configure \/ Stop \/ SocketFails \/ ProxyHangUp
       \/ ProxyFails \/ Crash \/ Trace \/ Alarm \/ Peer \/ UNCHANGED vars
       \/ Listen \/ Accept \/ MakeContext \/ ClientTls \/ ClientGivesUp
       \/ ConnectFails \/ Connect \/ GameTls
       \/ FreeGame \/ FreeClient \/ FreeContext
       \/ Unreachable \/ GameGivesUp \/ Header \/ Relaying
BY DEF Next, Main, Chance, Interrupted, ClientTlsFails, GameTlsFails, Terminated

\* ... and keeps it.
LEMMA TypeNext == TypeInv /\ [Next]_vars => TypeInv'
BY Steps, TypeQuiet, TypeMakes, TypeWrites

-----------------------------------------------------------------------------
(* What is made is released once.                                          *)

\* what free_endpoint() would release
Owned(s) == {Endpoint(s)} \cup (IF secured[s] THEN {Ssl(s)} ELSE {})
            \cup (IF socket[s] # None THEN {socket[s]} ELSE {})

\* where main() has yet to come to free_endpoint()
Early == pc \in {"start", "listen", "accept", "context", "client_tls"}
GameUp == pc \in {"connect", "game_tls", "header", "proxy", "free_game"}
ClientUp == pc \in {"accept", "context", "client_tls", "free_client"} \/ GameUp

CountInv == \A o \in Object : released[o] \in IF o \in made THEN {0, 1} ELSE {0}

\* What has not been made yet, so that it is made once.
FreshInv ==
    /\ pc \in {"start", "listen"} => made = {}
    /\ pc = "accept" => /\ made = {Listener, Endpoint("client")}
                        /\ released[Listener] = 0
    /\ pc = "context" => Context \notin made
    /\ Early => /\ Endpoint("game") \notin made /\ Ssl("client") \notin made
                /\ secured["client"] = FALSE
    /\ Early \/ pc \in {"connect", "game_tls"} =>
          Ssl("game") \notin made /\ secured["game"] = FALSE
    /\ Early \/ pc = "connect" => socket["game"] = None
    /\ \A i \in 1 .. Addresses : i > tried => Attempt(i) \notin made

SocketInv == /\ socket["client"] \in {None, Caller}
             /\ socket["game"] \in {None} \cup {Attempt(i) : i \in 1 .. Addresses}
             /\ pc \in {"start", "listen", "accept"} => socket["client"] = None

\* An endpoint and what it owns are there until they are freed ...
LiveInv ==
    /\ ClientUp => \A o \in Owned("client") : o \in made /\ released[o] = 0
    /\ GameUp => \A o \in Owned("game") : o \in made /\ released[o] = 0

\* ... and nothing else is.
LeakInv ==
    Running \/ pc = "returned" =>
        \A o \in made : released[o] = 0 =>
            \/ o = Listener
            \/ o = Context /\ pc # "returned"
            \/ ClientUp /\ o \in Owned("client")
            \/ GameUp /\ o \in Owned("game")

ContextInv == Running /\ Context \in made => released[Context] = 0

ReleaseInv == /\ TypeInv /\ CountInv /\ FreshInv /\ SocketInv
              /\ LiveInv /\ LeakInv /\ ContextInv

\* The accounts are in order at first ...
LEMMA ReleaseInit == Init => ReleaseInv
<1> SUFFICES ASSUME Init PROVE ReleaseInv
  OBVIOUS
<1>1. TypeInv
  BY TypeInit
<1>2. CountInv /\ SocketInv /\ LiveInv /\ LeakInv /\ ContextInv
  BY DEF Init, CountInv, SocketInv, LiveInv, LeakInv, ContextInv, ClientUp,
     GameUp, Side
<1>3. FreshInv
  BY DEF Init, FreshInv, Early, Side
<1> QED BY <1>1, <1>2, <1>3 DEF ReleaseInv

\* A step that makes and releases nothing, and changes pc only so that the
\* endpoints remain to be freed as they were.
LEMMA ReleaseQuiet ==
    ASSUME ReleaseInv, TypeInv', UNCHANGED objVars, tried <= tried',
           \/ pc' \in {"exited", "handler", "hung", "killed"}
           \/ pc' = pc
           \/ pc = "start" /\ pc' = "listen"
           \/ pc = "accept" /\ pc' = "free_client"
           \/ pc \in {"connect", "proxy"} /\ pc' = "free_game"
           \/ pc \in {"game_tls", "header"} /\ pc' \in {"header", "proxy"}
    PROVE  ReleaseInv'
<1> USE DEF ReleaseInv, objVars
<1>1. CountInv' /\ SocketInv'
  BY DEF CountInv, SocketInv
<1>2. FreshInv'
  BY DEF FreshInv, Early, TypeInv
<1>3. LiveInv' /\ LeakInv' /\ ContextInv'
  BY DEF LiveInv, LeakInv, ContextInv, ClientUp, GameUp, Owned, Running,
     SocketInv, FreshInv, Early
<1> QED BY <1>1, <1>2, <1>3

\* The steps that neither make nor release anything, one by one
LEMMA QuietSteps ==
    ASSUME ReleaseInv, TypeInv',
           \/ Exit \/ Configure \/ Stop \/ SocketFails \/ ProxyHangUp
           \/ ProxyFails \/ Crash \/ Trace \/ Alarm \/ Peer \/ UNCHANGED vars
           \/ Unreachable \/ Header \/ Relaying
    PROVE  ReleaseInv'
<1> USE ReleaseQuiet DEF ReleaseInv, TypeInv, vars
<1>1. CASE Exit \/ Configure \/ Stop
  BY <1>1 DEF Exit, Configure, Stop
<1>2. CASE SocketFails
  BY <1>2 DEF SocketFails
<1>3. CASE ProxyHangUp \/ ProxyFails \/ Crash \/ Trace \/ Alarm
  BY SMTT(30), <1>3 DEF ProxyHangUp, ProxyFails, InLoop, Crash, Trace, Alarm
<1>4. CASE Peer \/ UNCHANGED vars
  <2>1. UNCHANGED <<pc, objVars, tried>>
    BY <1>4 DEF Peer, Shake, Leave
  <2> QED BY <2>1
<1>5. CASE Unreachable \/ Header
  BY <1>5 DEF Unreachable, Header
<1>6. CASE Relaying
  BY <1>6 DEF Relaying, ProxySpeaks, ProxyRelays, ProxyResumes, ProxyWaits
<1> QED BY <1>1, <1>2, <1>3, <1>4, <1>5, <1>6

\* The steps that make something
LEMMA MakingSteps ==
    ASSUME ReleaseInv, TypeInv',
           \/ Listen \/ Accept \/ MakeContext \/ ClientTls \/ ClientGivesUp
           \/ ConnectFails \/ Connect \/ GameTls \/ GameGivesUp
    PROVE  ReleaseInv'
<1> USE Objects, Distinct
     DEF ReleaseInv, TypeInv, CountInv, FreshInv, SocketInv, LiveInv, LeakInv,
         ContextInv, ClientUp, GameUp, Early, Owned, Running, Side, objVars
<1>1. CASE Listen
  <2>1. made' = {Listener, Endpoint("client")}
    BY <1>1 DEF Listen
  <2>2. /\ pc' = "accept" /\ made = {}
        /\ UNCHANGED <<released, socket, secured, tried>>
    BY <1>1 DEF Listen
  <2>3. \A o \in Object : released[o] = 0
    BY <2>2
  <2>4. CountInv'
    BY <2>1, <2>2, <2>3
  <2>5. FreshInv'
    BY <1>1, <2>1, <2>2 DEF Listen
  <2>6. SocketInv'
    BY <1>1, <2>2 DEF Listen
  <2>7. LiveInv'
    BY <1>1, <2>1, <2>2, <2>3 DEF Listen
  <2>8. LeakInv' /\ ContextInv'
    BY <1>1, <2>1, <2>2, <2>3 DEF Listen
  <2> QED BY <2>4, <2>5, <2>6, <2>7, <2>8
<1>2. CASE Accept
  <2>0. released[Listener] = 0
    BY <1>2 DEF Accept
  <2>1. CountInv'
    BY <1>2, <2>0 DEF Accept
  <2>2. FreshInv'
    BY <1>2 DEF Accept
  <2>3. SocketInv'
    BY <1>2 DEF Accept
  <2>4. LiveInv'
    BY <1>2 DEF Accept
  <2>5. LeakInv' /\ ContextInv'
    BY <1>2 DEF Accept
  <2> QED BY <2>1, <2>2, <2>3, <2>4, <2>5
<1>3. CASE MakeContext
  BY <1>3 DEF MakeContext
<1>4. CASE ClientTls
  BY <1>4 DEF ClientTls
<1>5. CASE ClientGivesUp
  BY <1>5 DEF ClientGivesUp, StartTls, CleanupClient
<1>6. CASE ConnectFails
  BY SMTT(30), <1>6 DEF ConnectFails
<1>7. CASE Connect
  BY SMTT(30), <1>7 DEF Connect
<1>8. CASE GameTls
  <2>1. CASE Secures("game")
    <3>1. StartTls("game") /\ pc = "game_tls" /\ pc' = "header" /\ tried' = tried
      BY <1>8, <2>1 DEF GameTls
    <3> QED BY SMTT(30), <3>1 DEF StartTls
  <2>2. CASE ~Secures("game")
    <3>1. UNCHANGED objVars /\ pc = "game_tls" /\ pc' = "header" /\ tried' = tried
      BY <1>8, <2>2 DEF GameTls
    <3> QED BY <3>1, ReleaseQuiet
  <2> QED BY <2>1, <2>2
<1>9. CASE GameGivesUp
  BY <1>9 DEF GameGivesUp, StartTls
<1> QED BY <1>1, <1>2, <1>3, <1>4, <1>5, <1>6, <1>7, <1>8, <1>9

\* The steps that release something
LEMMA ReleasingSteps ==
    ASSUME ReleaseInv, TypeInv', FreeGame \/ FreeClient \/ FreeContext
    PROVE  ReleaseInv'
<1> USE Objects, Distinct
     DEF ReleaseInv, TypeInv, CountInv, FreshInv, SocketInv, LiveInv, LeakInv,
         ContextInv, ClientUp, GameUp, Early, Owned, Running, Side
<1>1. CASE FreeGame
  BY SMTT(30), <1>1 DEF FreeGame, FreeEndpoint
<1>2. CASE FreeClient
  BY SMTT(30), <1>2 DEF FreeClient, FreeEndpoint
<1>3. CASE FreeContext
  BY SMTT(30), <1>3 DEF FreeContext
<1> QED BY <1>1, <1>2, <1>3

\* ... and every step keeps them so.
LEMMA ReleaseNext == ReleaseInv /\ [Next]_vars => ReleaseInv'
<1> SUFFICES ASSUME ReleaseInv, [Next]_vars PROVE ReleaseInv'
  OBVIOUS
<1>1. TypeInv'
  BY TypeNext DEF ReleaseInv
<1> QED BY <1>1, Steps, QuietSteps, MakingSteps, ReleasingSteps

\* Whatever way main() takes out, it releases once what it has made, and
\* nothing else.
THEOREM ReleaseCorrect == Spec => []ReleasedOnce
<1>1. ReleaseInv => ReleasedOnce
  <2> SUFFICES ASSUME ReleaseInv PROVE ReleasedOnce
    OBVIOUS
  <2>1. pc = "returned" => ~ClientUp /\ ~GameUp
    BY DEF ClientUp, GameUp
  <2>2. ASSUME pc = "returned", NEW o \in made \ {Listener}
        PROVE  released[o] = 1
    BY <2>1, <2>2 DEF ReleaseInv, CountInv, LeakInv, TypeInv
  <2> QED BY <2>2 DEF ReleaseInv, CountInv, ReleasedOnce
<1> QED BY <1>1, ReleaseInit, ReleaseNext, PTL DEF Spec

-----------------------------------------------------------------------------
(* Nothing is said in clear.                                               *)

Assured(s) == Tls(s) => secured[s] = TRUE /\ answer[s] = "good"

SecureInv ==
    /\ TypeInv
    /\ pc \in {"connect", "game_tls", "header", "proxy"} => Assured("client")
    /\ pc \in {"header", "proxy"} => Assured("game")
    /\ NoClearText

\* A write to an assured side keeps it.
LEMMA AssuredWrite ==
    ASSUME TypeInv, NoClearText, NEW s \in Side, NEW w \in Seq(Said),
           Write(s, w), Assured(s), UNCHANGED <<config, answer>>
    PROVE  NoClearText'
<1>1. ASSUME NEW t \in Side, Tls(t)', wire'[t] # <<>>, t # s
      PROVE  /\ answer'[t] = "good"
             /\ \A i \in DOMAIN wire'[t] : wire'[t][i].tls
  BY <1>1 DEF Write, NoClearText, TypeInv, Tls
<1>2. ASSUME Tls(s)'
      PROVE  /\ answer'[s] = "good"
             /\ \A i \in DOMAIN wire'[s] : wire'[s][i].tls
  <2> DEFINE new == [i \in DOMAIN w |-> [word |-> w[i], tls |-> secured[s]]]
  <2>1. new \in Seq(Word) /\ wire[s] \in Seq(Word)
    BY Wording DEF TypeInv
  <2>2. secured[s] = TRUE /\ answer[s] = "good"
    BY <1>2 DEF Assured, Tls
  <2>3. \A i \in DOMAIN new : new[i].tls
    BY <2>2
  <2>4. \A i \in DOMAIN wire[s] : wire[s][i].tls
    BY <1>2, <2>1 DEF NoClearText, Tls
  <2>5. wire'[s] \in {wire[s], wire[s] \o new}
    BY DEF Write, TypeInv
  <2> HIDE DEF new
  <2>6. \A i \in DOMAIN (wire[s] \o new) : (wire[s] \o new)[i].tls
    BY <2>1, <2>3, <2>4
  <2> QED BY <2>2, <2>4, <2>5, <2>6
<1> QED BY <1>1, <1>2 DEF NoClearText

\* The steps that write nothing
LEMMA SecureQuiet ==
    ASSUME SecureInv, TypeInv',
           \/ Exit \/ Configure \/ Stop \/ SocketFails \/ ProxyHangUp
           \/ ProxyFails \/ Crash \/ Trace \/ Alarm \/ Peer \/ UNCHANGED vars
           \/ Listen \/ Accept \/ MakeContext \/ ClientTls \/ ClientGivesUp
           \/ ConnectFails \/ Connect \/ GameTls
           \/ FreeGame \/ FreeClient \/ FreeContext
    PROVE  SecureInv'
<1> USE DEF SecureInv, NoClearText, Assured, Tls, objVars, netVars, peerVars,
            vars
<1>1. CASE Exit \/ Configure \/ Stop \/ SocketFails
  BY <1>1 DEF Exit, Configure, Stop, SocketFails
<1>2. CASE ProxyHangUp \/ ProxyFails \/ Crash \/ Trace \/ Alarm
  BY <1>2 DEF ProxyHangUp, ProxyFails, InLoop, Crash, Trace, Alarm
<1>3. CASE Peer
  <2>1. PICK s \in Side : Shake(s) \/ Leave(s)
    BY <1>3 DEF Peer
  <2>2. /\ UNCHANGED <<pc, config, secured, wire>>
        /\ \A t \in Side : answer[t] = "good" => answer'[t] = "good"
    BY <2>1 DEF Shake, Leave, TypeInv
  <2> QED BY <2>2 DEF Side
<1>4. CASE UNCHANGED vars
  BY <1>4
<1>5. CASE Listen \/ Accept \/ MakeContext
  BY <1>5 DEF Listen, Accept, MakeContext
<1>6. CASE ClientTls
  BY <1>6 DEF ClientTls, Secures, Agreed, TypeInv, Side
<1>7. CASE ClientGivesUp
  BY <1>7 DEF ClientGivesUp, CleanupClient
<1>8. CASE ConnectFails \/ Connect
  BY <1>8 DEF ConnectFails, Connect
<1>9. CASE GameTls
  BY <1>9 DEF GameTls, Secures, Agreed, StartTls, TypeInv, Side
<1>10. CASE FreeGame \/ FreeClient \/ FreeContext
  BY <1>10 DEF FreeGame, FreeClient, FreeContext
<1> QED BY <1>1, <1>2, <1>3, <1>4, <1>5, <1>6, <1>7, <1>8, <1>9, <1>10

\* The steps that write
LEMMA SecureWrites ==
    ASSUME SecureInv, TypeInv',
           Unreachable \/ GameGivesUp \/ Header \/ Relaying
    PROVE  SecureInv'
<1>a. "client" \in Side /\ "game" \in Side
  BY DEF Side
<1>b. ASSUME NEW s \in Side, NEW w \in Said, Write(s, <<w>>), Assured(s),
             UNCHANGED <<config, answer>>
      PROVE  NoClearText'
  BY <1>b, AssuredWrite, Single DEF SecureInv
<1>c. ASSUME NEW w \in Said, Flush(<<w>>), Assured("game"),
             UNCHANGED <<config, answer>>
      PROVE  NoClearText'
  <2>1. outq \o <<w>> \in Seq(Said)
    BY Single DEF SecureInv, TypeInv
  <2> QED BY <1>a, <1>c, <2>1, AssuredWrite DEF Flush, SecureInv
<1>1. CASE Unreachable
  <2>1. NoClearText'
    BY <1>1, <1>a, <1>b, Sayings DEF Unreachable, SecureInv, peerVars
  <2> QED BY <1>1, <2>1 DEF Unreachable, SecureInv
<1>2. CASE GameGivesUp
  <2>1. NoClearText'
    BY <1>2, <1>a, <1>b, Sayings DEF GameGivesUp, SecureInv, peerVars
  <2> QED BY <1>2, <2>1 DEF GameGivesUp, SecureInv
<1>3. CASE Header
  <2>1. Assured("client") /\ Assured("game")
    BY <1>3 DEF Header, SecureInv
  <2>2. Assured("client")' /\ Assured("game")'
    BY <1>3, <2>1 DEF Header, Assured, Tls, objVars, peerVars
  <2>3. CASE config.stunnelproxy /\ link["client"] # "reset"
    BY <1>3, <1>c, <2>1, <2>2, <2>3, Sayings DEF Header, SecureInv, peerVars
  <2>4. CASE UNCHANGED netVars
    BY <1>3, <2>2, <2>4
    DEF Header, SecureInv, NoClearText, Tls, netVars, peerVars
  <2> QED BY <1>3, <2>3, <2>4 DEF Header
<1>4. CASE Relaying
  <2>1. Assured("client") /\ Assured("game") /\ pc = "proxy" /\ pc' = "proxy"
    BY <1>4 DEF Relaying, InLoop, ProxySpeaks, ProxyRelays, ProxyResumes,
       ProxyWaits, SecureInv
  <2>2. Assured("client")' /\ Assured("game")'
    BY <1>4, <2>1
    DEF Relaying, ProxySpeaks, ProxyRelays, ProxyResumes, ProxyWaits, Assured,
        Tls, objVars, peerVars
  <2>3. CASE ProxySpeaks
    BY <1>c, <2>1, <2>2, <2>3, Sayings DEF ProxySpeaks, SecureInv, peerVars
  <2>4. ASSUME NEW s \in Side, ProxyRelays(s)
        PROVE  SecureInv'
    <3>1. Other(s) \in Side /\ Assured(Other(s))
      BY <2>1 DEF Other, Side
    <3>2. NoClearText'
      BY <1>b, <2>4, <3>1, Sayings DEF ProxyRelays, peerVars
    <3> QED BY <2>1, <2>2, <3>2 DEF SecureInv
  <2>5. ASSUME ProxyResumes \/ \E s \in Side : ProxyWaits(s)
        PROVE  SecureInv'
    <3>1. NoClearText'
      BY <2>5 DEF ProxyResumes, ProxyWaits, netVars, SecureInv, NoClearText, Tls
    <3> QED BY <2>1, <2>2, <3>1 DEF SecureInv
  <2> QED BY <1>4, <2>3, <2>4, <2>5 DEF Relaying
<1> QED BY <1>1, <1>2, <1>3, <1>4

\* A side set to TLS hears nothing in clear, and nothing before it has
\* completed its handshake.
THEOREM SecureCorrect == Spec => []NoClearText
<1>1. Init => SecureInv
  BY TypeInit DEF Init, SecureInv, NoClearText
<1>2. SecureInv /\ [Next]_vars => SecureInv'
  <2> SUFFICES ASSUME SecureInv, [Next]_vars PROVE SecureInv'
    OBVIOUS
  <2>1. TypeInv'
    BY TypeNext DEF SecureInv
  <2> QED BY <2>1, Steps, SecureQuiet, SecureWrites
<1>3. SecureInv => NoClearText
  BY DEF SecureInv
<1> QED BY <1>1, <1>2, <1>3, PTL DEF Spec

-----------------------------------------------------------------------------
(* The PROXY header.                                                       *)

Before == {"start", "listen", "accept", "context", "client_tls", "connect",
           "game_tls", "header"}

Announced == Len(wire["game"]) > 0 /\ wire["game"][1].word = "PROXY"

HeaderInv ==
    /\ TypeInv
    /\ pc \in Before => wire["game"] = <<>> /\ outq = <<>>
    /\ link["game"] # "reset" => outq = <<>>
    /\ pc = "proxy" /\ config.stunnelproxy =>
          Announced \/ link["client"] = "reset" \/ link["game"] = "reset"
    /\ HeaderFirst

\* What the game hears one word more of
LEMMA HeaderWord ==
    ASSUME HeaderInv, TypeInv', NEW w \in Said,
           UNCHANGED <<pc, config, link>>,
           \/ wire'["game"] = wire["game"]
           \/ \E t \in BOOLEAN : wire'["game"]
                = wire["game"] \o <<[word |-> w, tls |-> t]>>,
           link["game"] # "reset" => outq' = <<>>,
           pc = "proxy",
           w # "PROXY",
           link["game"] = "reset" => wire'["game"] = wire["game"]
    PROVE  HeaderInv'
<1>1. wire["game"] \in Seq(Word) /\ pc \notin Before
  BY DEF HeaderInv, TypeInv, Side, Before
<1>2. CASE wire'["game"] = wire["game"]
  BY <1>1, <1>2 DEF HeaderInv, HeaderFirst, Announced
<1>3. CASE wire'["game"] # wire["game"]
  <2>1. PICK t \in BOOLEAN : wire'["game"]
                = wire["game"] \o <<[word |-> w, tls |-> t]>>
    BY <1>3
  <2> DEFINE n == Len(wire["game"])
  <2>2. /\ n \in Nat
        /\ DOMAIN wire["game"] = 1 .. n
        /\ DOMAIN wire'["game"] = 1 .. n + 1
        /\ \A i \in 1 .. n : wire'["game"][i] = wire["game"][i]
        /\ wire'["game"][n + 1].word = w
        /\ Len(wire'["game"]) = n + 1
    BY <1>1, <2>1
  <2>3. w # "PROXY"
    OBVIOUS
  <2>4. Announced => Announced'
    BY <2>2 DEF Announced
  <2>5. w = "text" /\ config.stunnelproxy =>
           Announced \/ link'["client"] = "reset"
    BY <1>3 DEF HeaderInv
  <2>6. ASSUME NEW i \in 1 .. n + 1
        PROVE  /\ wire'["game"][i].word = "text" /\ config.stunnelproxy =>
                     \/ \E j \in 1 .. i : wire'["game"][j].word = "PROXY"
                     \/ link'["client"] = "reset"
               /\ wire'["game"][i].word = "PROXY" =>
                     i = 1 /\ config.stunnelproxy
    <3>1. CASE i \in 1 .. n
      <4>1. \A j \in 1 .. i : wire'["game"][j] = wire["game"][j]
        BY <2>2, <3>1
      <4>2. /\ wire["game"][i].word = "text" /\ config.stunnelproxy =>
                  \/ \E j \in 1 .. i : wire["game"][j].word = "PROXY"
                  \/ link["client"] = "reset"
            /\ wire["game"][i].word = "PROXY" => i = 1 /\ config.stunnelproxy
        BY <2>2, <3>1 DEF HeaderInv, HeaderFirst
      <4> QED BY <2>2, <3>1, <4>1, <4>2
    <3>2. CASE i = n + 1
      <4>1. Announced => wire'["game"][1].word = "PROXY" /\ 1 \in 1 .. i
        BY <2>2, <3>2 DEF Announced
      <4> QED BY <2>2, <2>3, <2>5, <3>2, <4>1
    <3> QED BY <2>2, <3>1, <3>2
  <2>7. HeaderFirst'
    BY <2>2, <2>6 DEF HeaderFirst
  <2> QED BY <1>1, <2>4, <2>7 DEF HeaderInv
<1> QED BY <1>2, <1>3

\* A step in which the game hears nothing
LEMMA HeaderQuiet ==
    ASSUME HeaderInv, TypeInv', UNCHANGED <<config, outq>>,
           wire'["game"] = wire["game"],
           pc' \in Before => pc \in Before,
           pc' = "proxy" => pc = "proxy",
           \A s \in Side : link[s] = "reset" => link'[s] = "reset"
    PROVE  HeaderInv'
BY DEF HeaderInv, HeaderFirst, Announced, Side

\* Every step keeps the order of what the game hears.
LEMMA HeaderSteps ==
    ASSUME HeaderInv, TypeInv', [Next]_vars
    PROVE  HeaderInv'
<1> USE DEF objVars, netVars, peerVars
<1>1. CASE \/ Exit \/ Configure \/ Stop \/ SocketFails \/ ProxyHangUp
           \/ ProxyFails \/ Crash \/ Trace \/ Alarm \/ UNCHANGED vars
           \/ Listen \/ Accept \/ MakeContext \/ ClientTls \/ ClientGivesUp
           \/ ConnectFails \/ Connect \/ GameTls
           \/ FreeGame \/ FreeClient \/ FreeContext
  <2>1. UNCHANGED <<config, outq, wire, link>>
    BY <1>1 DEF Exit, Configure, Stop, SocketFails, ProxyHangUp, ProxyFails,
       Crash, Trace, Alarm, vars, Listen, Accept, MakeContext, ClientTls,
       ClientGivesUp, ConnectFails, Connect, GameTls, FreeGame, FreeClient,
       FreeContext
  <2>2. /\ pc' \in Before => pc \in Before
        /\ pc' = "proxy" => pc = "proxy"
    BY <1>1 DEF Before, Exit, Configure, Stop, SocketFails, ProxyHangUp,
       ProxyFails, Crash, Trace, Alarm, vars, Listen, Accept, MakeContext,
       ClientTls, ClientGivesUp, CleanupClient, ConnectFails, Connect,
       GameTls, FreeGame, FreeClient, FreeContext
  <2> QED BY <2>1, <2>2, HeaderQuiet
<1>2. CASE Peer
  <2>1. PICK s \in Side : Shake(s) \/ Leave(s)
    BY <1>2 DEF Peer
  <2>2. \A t \in Side : link[t] = "reset" => link'[t] = "reset"
    BY <2>1 DEF Shake, Leave, HeaderInv, TypeInv
  <2>3. UNCHANGED <<pc, config, outq, wire>>
    BY <2>1 DEF Shake, Leave
  <2> QED BY <2>2, <2>3, HeaderQuiet
<1>3. CASE Unreachable \/ GameGivesUp
  <2>1. Write("client", <<"sorry">>)
    BY <1>3 DEF Unreachable, GameGivesUp
  <2>2. wire'["game"] = wire["game"]
    BY <2>1 DEF Write, HeaderInv, TypeInv, Side
  <2> QED BY <1>3, <2>2, HeaderQuiet DEF Unreachable, GameGivesUp, Before
<1>4. CASE Header
  <2>0. /\ wire["game"] = <<>> /\ outq = <<>> /\ pc' = "proxy"
        /\ UNCHANGED <<config, link>>
    BY <1>4 DEF Header, HeaderInv, Before
  <2>1. CASE config.stunnelproxy /\ link["client"] # "reset"
    <3>1. Flush(<<"PROXY">>)
      BY <1>4, <2>1 DEF Header
    <3>2. outq \o <<"PROXY">> = <<"PROXY">>
      BY <2>0
    <3>3. CASE link["game"] = "reset"
      <4>1. wire'["game"] = <<>>
        BY <2>0, <3>1, <3>3 DEF Flush, Write, HeaderInv, TypeInv, Side
      <4> QED BY <2>0, <3>3, <4>1 DEF HeaderInv, HeaderFirst, Before
    <3>4. CASE link["game"] # "reset"
      <4>1. wire'["game"] = <<>> \o <<[word |-> "PROXY", tls |-> secured["game"]]>>
        BY <2>0, <3>1, <3>2, <3>4, OneWord DEF Flush, Write, HeaderInv, TypeInv, Side
      <4>2. outq' = <<>>
        BY <3>1, <3>4 DEF Flush
      <4>3. wire'["game"] = <<[word |-> "PROXY", tls |-> secured["game"]]>>
        BY <4>1
      <4>4. Announced' /\ Len(wire'["game"]) = 1
        BY <4>3 DEF Announced
      <4>5. HeaderFirst'
        BY <2>0, <2>1, <4>3, <4>4 DEF HeaderFirst
      <4> QED BY <2>0, <4>2, <4>4, <4>5 DEF HeaderInv, Before
    <3> QED BY <3>3, <3>4
  <2>2. CASE ~(config.stunnelproxy /\ link["client"] # "reset")
    <3>1. UNCHANGED netVars
      BY <1>4, <2>2 DEF Header
    <3> QED BY <2>0, <2>2, <3>1 DEF HeaderInv, HeaderFirst, Before
  <2> QED BY <2>1, <2>2
<1>5. CASE ProxySpeaks
  <2>0. Write("game", outq \o <<"own">>)
    BY <1>5 DEF ProxySpeaks, Flush
  <2>1. /\ pc = "proxy" /\ UNCHANGED <<pc, config, link>>
        /\ link["game"] # "reset" => outq' = <<>>
    BY <1>5 DEF ProxySpeaks, InLoop, Flush
  <2>2. CASE link["game"] = "reset"
    <3>1. wire'["game"] = wire["game"]
      BY <2>0, <2>2 DEF Write, HeaderInv, TypeInv, Side
    <3> QED BY <2>1, <2>2, <3>1, HeaderWord, Sayings
  <2>3. CASE link["game"] # "reset"
    <3>0. outq = <<>>
      BY <2>3 DEF HeaderInv
    <3>1. outq \o <<"own">> = <<"own">>
      BY <3>0
    <3>2. wire'["game"] = wire["game"] \o <<[word |-> "own", tls |-> secured["game"]]>>
      BY <2>0, <2>3, <3>1, OneWord DEF Write, HeaderInv, TypeInv, Side
    <3>3. secured["game"] \in BOOLEAN
      BY DEF HeaderInv, TypeInv, Side
    <3> QED BY <2>1, <2>3, <3>2, <3>3, HeaderWord, Sayings
  <2> QED BY <2>2, <2>3
<1>6. ASSUME NEW s \in Side, ProxyRelays(s)
      PROVE  HeaderInv'
  <2>1. /\ pc = "proxy" /\ UNCHANGED <<pc, config, link, outq>>
        /\ Write(Other(s), <<"text">>)
    BY <1>6 DEF ProxyRelays, InLoop
  <2>2. CASE s = "game"
    <3>1. wire'["game"] = wire["game"]
      BY <2>1, <2>2 DEF Write, Other, HeaderInv, TypeInv, Side
    <3> QED BY <2>1, <3>1, HeaderQuiet
  <2>3. CASE s = "client"
    <3>0. /\ Write("game", <<"text">>)
          /\ link["game"] # "reset" => outq' = <<>>
      BY <2>1, <2>3 DEF Other, HeaderInv
    <3>1. CASE link["game"] = "reset"
      <4>1. wire'["game"] = wire["game"]
        BY <3>0, <3>1 DEF Write, HeaderInv, TypeInv, Side
      <4> QED BY <2>1, <2>3, <3>1, <4>1, HeaderWord, Sayings
    <3>2. CASE link["game"] # "reset"
      <4>1. wire'["game"] = wire["game"] \o <<[word |-> "text", tls |-> secured["game"]]>>
        BY <3>0, <3>2, OneWord DEF Write, HeaderInv, TypeInv, Side
      <4>2. secured["game"] \in BOOLEAN
        BY DEF HeaderInv, TypeInv, Side
      <4> QED BY <2>1, <2>3, <3>0, <3>2, <4>1, <4>2, HeaderWord, Sayings
    <3> QED BY <3>1, <3>2
  <2> QED BY <2>2, <2>3 DEF Side
<1>7. ASSUME ProxyResumes \/ \E s \in Side : ProxyWaits(s)
      PROVE  HeaderInv'
  <2>1. UNCHANGED <<pc, config, outq, wire, link>>
    BY <1>7 DEF ProxyResumes, ProxyWaits
  <2> QED BY <2>1, HeaderQuiet
<1> QED BY <1>1, <1>2, <1>3, <1>4, <1>5, <1>6, <1>7, Steps DEF Relaying

\* A game that expects the PROXY header hears it once and before anything of
\* the client, unless the client has reset its connection.
THEOREM HeaderCorrect == Spec => []HeaderFirst
<1>1. Init => HeaderInv
  BY TypeInit DEF Init, HeaderInv, HeaderFirst, Side
<1>2. HeaderInv /\ [Next]_vars => HeaderInv'
  BY TypeNext, HeaderSteps DEF HeaderInv
<1>3. HeaderInv => HeaderFirst
  BY DEF HeaderInv
<1> QED BY <1>1, <1>2, <1>3, PTL DEF Spec

-----------------------------------------------------------------------------
(* The client is told.                                                     *)

Unserved == /\ pc \in {"free_game", "free_client", "free_context", "returned"}
            /\ Endpoint("game") \in made
            /\ ~served

ToldInv == /\ ReleaseInv
           /\ pc = "proxy" => served
           /\ Unserved => wire["client"] # <<>> \/ link["client"] = "reset"

\* The word that the client is told
LEMMA Sorry ==
    ASSUME TypeInv, Write("client", <<"sorry">>)
    PROVE  wire'["client"] # <<>> \/ link["client"] = "reset"
<1>1. wire["client"] \in Seq(Word)
  BY DEF TypeInv, Side
<1>2. CASE link["client"] # "reset"
  <2>1. wire'["client"] = wire["client"]
                          \o <<[word |-> "sorry", tls |-> secured["client"]]>>
    BY <1>2, OneWord DEF Write, TypeInv, Side
  <2>2. wire'["client"][Len(wire["client"]) + 1]
           = [word |-> "sorry", tls |-> secured["client"]]
        /\ Len(wire'["client"]) = Len(wire["client"]) + 1
        /\ Len(wire["client"]) \in Nat
    BY <1>1, <2>1
  <2>3. Len(wire'["client"]) # 0
    BY <2>2
  <2> QED BY <2>3
<1> QED BY <1>2

\* Every step keeps the promise to the client.
LEMMA ToldSteps ==
    ASSUME ToldInv, ReleaseInv', [Next]_vars
    PROVE  ToldInv'
<1> USE DEF ToldInv, Unserved, objVars, netVars, peerVars
<1>1. CASE Exit \/ Configure \/ Listen \/ Accept \/ MakeContext \/ ClientTls
  BY <1>1 DEF Exit, Configure, Listen, Accept, MakeContext, ClientTls
<1>2. CASE Stop \/ ClientGivesUp
  <2>1. pc \in {"accept", "client_tls"} /\ Endpoint("game") \notin made
    BY <1>2 DEF Stop, ClientGivesUp, ReleaseInv, FreshInv, Early
  <2>2. Endpoint("game") # Ssl("client")
    BY Distinct DEF Side
  <2> QED BY <1>2, <2>1, <2>2 DEF Stop, ClientGivesUp, StartTls, CleanupClient
<1>3. CASE SocketFails \/ ConnectFails \/ Connect \/ GameTls
  BY <1>3 DEF SocketFails, ConnectFails, Connect, GameTls
<1>4. CASE Unreachable \/ GameGivesUp
  <2>1. /\ Write("client", <<"sorry">>) /\ link' = link /\ pc' = "free_game"
    BY <1>4 DEF Unreachable, GameGivesUp
  <2> QED BY <2>1, Sorry DEF ReleaseInv
<1>5. CASE Header \/ Relaying
  BY <1>5 DEF Header, Relaying, InLoop, ProxySpeaks, ProxyRelays,
     ProxyResumes, ProxyWaits
<1>6. CASE ProxyHangUp \/ ProxyFails
  BY <1>6 DEF ProxyHangUp, ProxyFails, InLoop
<1>7. CASE FreeGame \/ FreeClient \/ FreeContext
  BY <1>7 DEF FreeGame, FreeClient, FreeContext, FreeEndpoint
<1>8. CASE Crash \/ Trace \/ Alarm \/ UNCHANGED vars
  BY <1>8 DEF Crash, Trace, Alarm, vars
<1>9. CASE Peer
  <2>1. PICK s \in Side : Shake(s) \/ Leave(s)
    BY <1>9 DEF Peer
  <2>2. link["client"] = "reset" => link'["client"] = "reset"
    BY <2>1 DEF Shake, Leave, ReleaseInv, TypeInv, Side
  <2> QED BY <2>1, <2>2 DEF Shake, Leave
<1> QED BY <1>1, <1>2, <1>3, <1>4, <1>5, <1>6, <1>7, <1>8, <1>9, Steps

\* A client that has been let in and whose game was never reached is told so.
THEOREM ToldCorrect == Spec => []ToldWhy
<1>1. Init => ToldInv
  BY ReleaseInit DEF Init, ToldInv, Unserved
<1>2. ToldInv /\ [Next]_vars => ToldInv'
  BY ReleaseNext, ToldSteps DEF ToldInv
<1>3. ToldInv => ToldWhy
  BY DEF ToldInv, Unserved, ToldWhy
<1> QED BY <1>1, <1>2, <1>3, PTL DEF Spec

-----------------------------------------------------------------------------
(* The process ends.                                                       *)

\* The places of main() and of the handler of a crash, each before those it
\* may still come to.
Ahead ==
    [start |-> 14, listen |-> 13, accept |-> 12, context |-> 11,
     client_tls |-> 10, connect |-> 9, game_tls |-> 8, header |-> 7,
     proxy |-> 6, free_game |-> 5, free_client |-> 4, free_context |-> 3,
     handler |-> 2, hung |-> 1, killed |-> 0, exited |-> 0, returned |-> 0]

\* The most steps the process has left to do, outside of muditm_proxy().
Left == Ahead[pc] + (Addresses - tried)

PlaceInv == pc \in DOMAIN Ahead

LifeBounded == Left \in 0 .. 14 + Addresses

\* No step, whichever way it fails, leads back to an earlier one; while
\* muditm_proxy() relays, and the peers do something, nothing is added.
LifeDescends == Left' < Left \/ ((Relaying \/ Peer) /\ Left' = Left)

\* Every step goes on.
LEMMA LifeSteps ==
    ASSUME TypeInv, PlaceInv, [Next]_vars, TypeInv'
    PROVE  PlaceInv' /\ [LifeDescends]_vars
<1>1. /\ tried \in Int /\ tried' \in Int /\ Addresses \in Int
      /\ tried <= Addresses /\ tried' <= Addresses
  <2>1. tried \in 0 .. Addresses /\ tried' \in 0 .. Addresses
    BY DEF TypeInv
  <2> QED BY <2>1, AddressesAssumption
<1> USE DEF PlaceInv, LifeDescends, Left, Ahead
<1>2. CASE Exit
  BY <1>1, <1>2 DEF Exit
<1>3. CASE Configure \/ Listen \/ Stop
  BY <1>1, <1>3 DEF Configure, Listen, Stop
<1>4. CASE Accept \/ MakeContext \/ ClientTls \/ ClientGivesUp
  BY <1>1, <1>4 DEF Accept, MakeContext, ClientTls, ClientGivesUp, CleanupClient
<1>5. CASE SocketFails \/ ConnectFails \/ Connect
  BY <1>1, <1>5 DEF SocketFails, ConnectFails, Connect
<1>6. CASE Unreachable \/ GameTls \/ GameGivesUp \/ Header
  BY <1>1, <1>6 DEF Unreachable, GameTls, GameGivesUp, Header
<1>7. CASE ProxyHangUp \/ ProxyFails
  BY <1>1, <1>7 DEF ProxyHangUp, ProxyFails, InLoop
<1>8. CASE FreeGame \/ FreeClient \/ FreeContext
  BY <1>1, <1>8 DEF FreeGame, FreeClient, FreeContext
<1>9. CASE Crash \/ Trace \/ Alarm
  BY <1>1, <1>9 DEF Crash, Trace, Alarm, Running
<1>10. CASE Relaying \/ Peer
  BY <1>10 DEF Relaying, InLoop, ProxySpeaks, ProxyRelays, ProxyResumes,
     ProxyWaits, Peer, Shake, Leave
<1>11. CASE UNCHANGED vars
  BY <1>11 DEF vars
<1> QED BY <1>2, <1>3, <1>4, <1>5, <1>6, <1>7, <1>8, <1>9, <1>10, <1>11, Steps

\* Apart from what it relays, a process takes no more than 14 + Addresses
\* steps to its end, on any of the ways that main() or a crash takes out
\* (src/muditm.c, main(), game_connect()).
THEOREM LifeEnds == Spec => []LifeBounded /\ [][LifeDescends]_vars
<1>1. Init => TypeInv /\ PlaceInv
  BY TypeInit DEF Init, PlaceInv, Ahead
<1>2. TypeInv /\ PlaceInv /\ [Next]_vars
        => TypeInv' /\ PlaceInv' /\ [LifeDescends]_vars
  BY TypeNext, LifeSteps
<1>3. TypeInv /\ PlaceInv => LifeBounded
  <2> SUFFICES ASSUME TypeInv, PlaceInv PROVE LifeBounded
    OBVIOUS
  <2>1. Ahead[pc] \in 0 .. 14
    BY DEF PlaceInv, Ahead
  <2>2. tried \in 0 .. Addresses
    BY DEF TypeInv
  <2> QED BY <2>1, <2>2, AddressesAssumption DEF Left, LifeBounded
<1> QED BY <1>1, <1>2, <1>3, PTL DEF Spec
=============================================================================
