--------------------------- MODULE ConnectionPool ---------------------------
(***************************************************************************)
(* What the listening process promises: connections wait, some are turned  *)
(* away, the others are served, no more than Max of them at a time (no     *)
(* bound if Max is not positive), until the pool closes.  A session that   *)
(* is being served goes on when the pool has closed.                       *)
(***************************************************************************)
EXTENDS Integers, FiniteSets

CONSTANTS Conn, Max

VARIABLES waiting, active, open

vars == <<waiting, active, open>>

Init == waiting = {} /\ active = {} /\ open = TRUE

Arrive(c) == /\ open
             /\ c \notin waiting \cup active
             /\ waiting' = waiting \cup {c}
             /\ UNCHANGED <<active, open>>

Admit(c) == /\ open
            /\ c \in waiting
            /\ Max > 0 => Cardinality(active) < Max
            /\ waiting' = waiting \ {c}
            /\ active' = active \cup {c}
            /\ UNCHANGED open

TurnAway(c) == /\ open
               /\ c \in waiting
               /\ waiting' = waiting \ {c}
               /\ UNCHANGED <<active, open>>

Leave(c) == /\ c \in active
            /\ active' = active \ {c}
            /\ UNCHANGED <<waiting, open>>

Shut == /\ open
        /\ open' = FALSE
        /\ UNCHANGED <<waiting, active>>

Next == Shut \/ \E c \in Conn : Arrive(c) \/ Admit(c) \/ TurnAway(c) \/ Leave(c)

Spec == Init /\ [][Next]_vars
=============================================================================
