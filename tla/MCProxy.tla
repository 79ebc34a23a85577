------------------------------ MODULE MCProxy ------------------------------
(***************************************************************************)
(* Values for the constants of Proxy that a configuration file cannot      *)
(* write down: the settings of compression and what the peers may say.     *)
(***************************************************************************)
EXTENDS ProxyProps

\* README.txt wants "ignore" on both sides or on neither.
Setting(c, g) == [client |-> c, game |-> g]
EnableModes == {Setting("enable", "enable")}
DecodeModes == {Setting("enable", "enable"), Setting("disable", "enable"),
                Setting("enable", "disable")}
DisableModes == {Setting("disable", "disable")}
OtherModes == DisableModes \cup {Setting("ignore", "ignore")}

Text == <<<<"text", "">>>>
WillMccp2 == Command("WILL", "MCCP2")
SendAll == Command("SEND", "ALL")
SendSome == Command("SEND", "") \o <<<<"VAR", "">>>>
DoNewenv == Command("DO", "NEWENV")

EnableMessages ==
    [client |-> {Text, Command("DO", "MCCP2"), Command("DONT", "MCCP2")},
     game |-> {Text, WillMccp2, SendAll}]
EnableCells == [client |-> 4, game |-> 5]
DecodeCells == [client |-> 3, game |-> 5]

OtherMessages ==
    [client |-> {Text, Command("DO", "MCCP2"), Command("WILL", "NEWENV"),
                 Command("WONT", "NEWENV")},
     game |-> {Text, WillMccp2, DoNewenv, SendSome}]
OtherCells == [client |-> 2, game |-> 3]

FaultMessages == [EnableMessages EXCEPT !["game"] = {Text, WillMccp2}]
FaultCells == [client |-> 4, game |-> 5]

\* Long enough for text and the beginning of a command to fill the buffer
FullMessages == [client |-> {}, game |-> {Text, WillMccp2}]
FullCells == [client |-> 0, game |-> 3]

\* Long enough for the game to begin its zlib stream and fill the buffer
StallMessages == [client |-> {}, game |-> {Text, WillMccp2}]
StallCells == [client |-> 0, game |-> 7]

Nobody == [client |-> {}, game |-> {}]
Either == [client |-> {"closed"}, game |-> {"reset"}]

IpVars == <<<<"IPADDRESS", "">>>>
=============================================================================
