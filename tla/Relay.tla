------------------------------- MODULE Relay -------------------------------
(***************************************************************************)
(* What MUDitM promises to the two peers of a session: a transparent relay *)
(* that may take a few whole telnet commands out of each stream and put    *)
(* words of its own vocabulary into it, and does nothing else.             *)
(*                                                                         *)
(* A peer's stream is a sequence of items [cell, src]: `cell' is a piece   *)
(* of text, the byte IAC or the rest of a telnet command, and `src' is the *)
(* position of the cell in what its sender sent, 0 for a cell of the       *)
(* relay's own.  Module Proxy implements this specification.               *)
(***************************************************************************)
EXTENDS Naturals, Sequences

CONSTANTS Side,         \* the two peers of the session
          Iac,          \* the cell a telnet command starts with
          MaySwallow,   \* [Side -> set of commands that may be answered here]
          Vocabulary    \* [Side -> set of cells the relay may say to a peer]

VARIABLES rules, \* rules[s]: the commands of s that never cross
          todo,  \* todo[s]: what s has sent and the relay has not disposed of
          out,   \* out[s]: what has been delivered to s
          here,  \* the peers that have not left
          open   \* is the session on?

vars == <<rules, todo, out, here, open>>

Other(s) == CHOOSE t \in Side : t # s

\* new is old with something added at its end
Extends(old, new) ==
    Len(old) <= Len(new) /\ SubSeq(new, 1, Len(old)) = old

Init == /\ DOMAIN rules = Side
        /\ todo = [s \in Side |-> <<>>]
        /\ out = [s \in Side |-> <<>>]
        /\ here = Side
        /\ open = TRUE

-----------------------------------------------------------------------------
\* Peer s sends some more.
Offer(s) == /\ open
            /\ Extends(todo[s], todo'[s])
            /\ todo' = [todo EXCEPT ![s] = todo'[s]]
            /\ UNCHANGED <<rules, out, here, open>>

\* No command that must be swallowed starts in the first k items of q: one
\* that starts at the k-th item would be cut in two.
Clean(s, q, k) ==
    \A i \in 1 .. k :
        ~ (q[i].cell = Iac /\ i < Len(q) /\ q[i + 1].cell \in rules[s])

\* The relay delivers the first k items of what s sent, in vain if the other
\* peer has left.
Forward(s) ==
    /\ open
    /\ \E k \in 1 .. Len(todo[s]) :
          /\ Clean(s, todo[s], k)
          /\ \/ out' = [out EXCEPT ![Other(s)] = @ \o SubSeq(todo[s], 1, k)]
             \/ Other(s) \notin here /\ UNCHANGED out
          /\ todo' = [todo EXCEPT ![s] = SubSeq(@, k + 1, Len(@))]
    /\ UNCHANGED <<rules, here, open>>

\* What is added to out in this step is the relay's own.
Speaks ==
    \A s \in Side :
        /\ Extends(out[s], out'[s])
        /\ \A i \in Len(out[s]) + 1 .. Len(out'[s]) :
              out'[s][i].src = 0 /\ out'[s][i].cell \in Vocabulary[s]

\* The relay answers the command at the head of what s sent, and takes it out
\* of the stream if it is one of those it may take.
Answer(s) ==
    /\ open
    /\ Len(todo[s]) >= 2
    /\ todo[s][1].cell = Iac
    /\ \/ UNCHANGED todo
       \/ /\ todo[s][2].cell \in rules[s] \cup MaySwallow[s]
          /\ todo' = [todo EXCEPT ![s] = SubSeq(@, 3, Len(@))]
    /\ Speaks
    /\ UNCHANGED <<rules, here, open>>

\* The relay speaks unasked: its first words, and its answer on behalf of a
\* silent client.
Volunteer == open /\ Speaks /\ UNCHANGED <<rules, todo, here, open>>

Leave(s) == s \in here /\ here' = here \ {s} /\ UNCHANGED <<rules, todo, out, open>>

\* The session ends; what has not been delivered is lost.
Close == open /\ open' = FALSE /\ UNCHANGED <<rules, todo, out, here>>

Next == \/ \E s \in Side : Offer(s) \/ Forward(s) \/ Answer(s) \/ Leave(s)
        \/ Volunteer
        \/ Close

Spec == Init /\ [][Next]_vars
=============================================================================
