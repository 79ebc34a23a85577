----------------------------- MODULE MCMatcher -----------------------------
(***************************************************************************)
(* Values for the constants of Matcher: what the commands it looks for can *)
(* be put together from, begun, broken off and begun again.                *)
(***************************************************************************)
EXTENDS Matcher

CONSTANT MaxFragments   \* bound on the pieces of a stream

SomeEndpoints == {<<"game", "enable">>, <<"game", "ignore">>,
                  <<"client", "enable">>}

SomeFragments ==
    {<<"text">>, <<"IAC">>, <<"NUL">>, <<"IAC", "SE">>,
     <<"IAC", "SB", "NEW_ENVIRON", "SEND">>, <<"IAC", "SB", "MCCP2">>,
     Command("DO", "MCCP2"), <<"WILL", "NEW_ENVIRON">>}

SomeStreams == {FlattenSeq(pieces) :
                   pieces \in UNION {[1 .. n -> SomeFragments] : n \in 0 .. MaxFragments}}
=============================================================================
