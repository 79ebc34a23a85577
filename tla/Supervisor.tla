----------------------------- MODULE Supervisor -----------------------------
(***************************************************************************)
(* The listening process: demonize() of muditm.c, which accepts            *)
(* connections and forks a child for each, with its signal handlers        *)
(* zombie_killer() and shutdown_handler(), and the kernel's part in it:    *)
(* the listen queue, the pending bit of SIGCHLD, zombies.                  *)
(*                                                                         *)
(* A definition marked "Mistake:" is a wrong version of the one it stands  *)
(* before, and no part of the specification: some property fails with it.  *)
(***************************************************************************)
EXTENDS Integers, FiniteSets

CONSTANTS
    Conn,           \* the connections that clients may make
    None,           \* no connection
    max_children,   \* the limit of the configuration file, none if not > 0
    Forking,        \* "demon" of the configuration file
    Backlog,        \* bound on the connections in the listen queue
    AcceptMayFail,  \* may accept() fail with an error other than EINTR?
    ForkMayFail     \* may fork() fail?

ASSUME ConnAssumption == IsFiniteSet(Conn) /\ None \notin Conn
ASSUME LimitAssumption == max_children \in Int /\ Backlog \in Nat
ASSUME FlagAssumption ==
    Forking \in BOOLEAN /\ AcceptMayFail \in BOOLEAN /\ ForkMayFail \in BOOLEAN

VARIABLES
    pc,            \* where demonize() is
    client_sock,   \* the connection accepted last, None if closed
    child_count,
    register,      \* child_count as child_count++ has read it
    at_capacity,
    shutdown_requested,
    masked,        \* is SIGCHLD blocked?
    pending,       \* is SIGCHLD pending?  One bit, however many children died
    reaping,       \* is zombie_killer() running?
    conn           \* of each connection, how far it has come

vars == <<pc, client_sock, child_count, register, at_capacity,
          shutdown_requested, masked, pending, reaping, conn>>

\* "none", "queued" to be accepted, "accepted", "running" in a child,
\* "zombie" once that has exited, "gone"
In(state) == {c \in Conn : conn[c] = state}
Unreaped == In("running") \cup In("zombie")

Init == /\ pc = "check"
        /\ client_sock = None
        /\ child_count = 0
        /\ register = 0
        /\ at_capacity = FALSE
        /\ shutdown_requested = FALSE
        /\ masked = FALSE
        /\ pending = FALSE
        /\ reaping = FALSE
        /\ conn = [c \in Conn |-> "none"]

-----------------------------------------------------------------------------
(* demonize().  A signal handler that runs suspends it.                    *)

At(label) == pc = label /\ ~reaping

\* Mistake: the request is not looked at.
IgnoreShutdown ==
    /\ At("check")
    /\ pc' = "capacity"
    /\ UNCHANGED <<client_sock, child_count, register, at_capacity,
                   shutdown_requested, masked, pending, reaping, conn>>

\* The top of the loop.
CheckShutdown ==
    /\ At("check")
    /\ pc' = IF shutdown_requested THEN "stopped" ELSE "capacity"
    /\ UNCHANGED <<client_sock, child_count, register, at_capacity,
                   shutdown_requested, masked, pending, reaping, conn>>

\* Mistake: one child too many.
FullTooLate == Forking /\ max_children > 0 /\ child_count > max_children

Full == Forking /\ max_children > 0 /\ child_count >= max_children

\* Mistake: once at the limit, always at the limit.
StickyCapacity ==
    /\ At("capacity")
    /\ at_capacity' = (Full \/ at_capacity)
    /\ pc' = IF Full \/ at_capacity THEN "check" ELSE "accept"
    /\ UNCHANGED <<client_sock, child_count, register, shutdown_requested,
                   masked, pending, reaping, conn>>

\* At the limit, poll() waits for 100ms at most and the loop starts over.
CheckCapacity ==
    /\ At("capacity")
    /\ at_capacity' = Full
    /\ pc' = IF Full THEN "check" ELSE "accept"
    /\ UNCHANGED <<client_sock, child_count, register, shutdown_requested,
                   masked, pending, reaping, conn>>

\* accept() finds nothing and sleeps.
Block == /\ At("accept")
         /\ In("queued") = {}
         /\ pc' = "blocked"
         /\ UNCHANGED <<client_sock, child_count, register, at_capacity,
                        shutdown_requested, masked, pending, reaping, conn>>

\* accept() returns a connection.  Without forking the process goes on to
\* serve it, having closed the listening socket.
Accept(c) ==
    /\ At("accept") \/ At("blocked")
    /\ conn[c] = "queued"
    /\ client_sock' = c
    /\ IF Forking
       THEN pc' = "fork" /\ conn' = [conn EXCEPT ![c] = "accepted"]
       ELSE pc' = "serving" /\ conn' = [conn EXCEPT ![c] = "running"]
    /\ UNCHANGED <<child_count, register, at_capacity, shutdown_requested,
                   masked, pending, reaping>>

\* accept() fails, and with it the whole daemon.
AcceptFails ==
    /\ AcceptMayFail
    /\ At("accept") \/ At("blocked")
    /\ pc' = "stopped"
    /\ UNCHANGED <<client_sock, child_count, register, at_capacity,
                   shutdown_requested, masked, pending, reaping, conn>>

\* Mistake: SIGCHLD is not blocked.
ForkUnmasked ==
    /\ At("fork")
    /\ conn' = [conn EXCEPT ![client_sock] = "running"]
    /\ pc' = "load"
    /\ UNCHANGED <<client_sock, child_count, register, at_capacity,
                   shutdown_requested, masked, pending, reaping>>

\* Block SIGCHLD and fork.
Fork ==
    /\ At("fork")
    /\ masked' = TRUE
    /\ conn' = [conn EXCEPT ![client_sock] = "running"]
    /\ pc' = "load"
    /\ UNCHANGED <<client_sock, child_count, register, at_capacity,
                   shutdown_requested, pending, reaping>>

\* Mistake: the variable is reset to 0, which is no "none".
ForkFailsZero ==
    /\ At("fork")
    /\ conn' = [conn EXCEPT ![client_sock] = "gone"]
    /\ client_sock' = 0
    /\ pc' = "check"
    /\ UNCHANGED <<child_count, register, at_capacity, shutdown_requested,
                   masked, pending, reaping>>

\* fork() fails: SIGCHLD is unblocked and the connection closed.
ForkFails ==
    /\ ForkMayFail
    /\ At("fork")
    /\ conn' = [conn EXCEPT ![client_sock] = "gone"]
    /\ client_sock' = None
    /\ pc' = "check"
    /\ UNCHANGED <<child_count, register, at_capacity, shutdown_requested,
                   masked, pending, reaping>>

\* child_count++ is a load and a store.
Load == /\ At("load")
        /\ register' = child_count
        /\ pc' = "store"
        /\ UNCHANGED <<client_sock, child_count, at_capacity,
                       shutdown_requested, masked, pending, reaping, conn>>

Store == /\ At("store")
         /\ child_count' = register + 1
         /\ pc' = "unmask"
         /\ UNCHANGED <<client_sock, register, at_capacity, shutdown_requested,
                        masked, pending, reaping, conn>>

\* Mistake: SIGCHLD is left blocked.
UnmaskForgets ==
    /\ At("unmask")
    /\ client_sock' = None
    /\ pc' = "check"
    /\ UNCHANGED <<child_count, register, at_capacity, shutdown_requested,
                   masked, pending, reaping, conn>>

\* Unblock SIGCHLD and close the connection, which the child has.
Unmask == /\ At("unmask")
          /\ masked' = FALSE
          /\ client_sock' = None
          /\ pc' = "check"
          /\ UNCHANGED <<child_count, register, at_capacity,
                         shutdown_requested, pending, reaping, conn>>

-----------------------------------------------------------------------------
(* Signals.                                                                *)

Alive == pc \notin {"stopped", "serving"}

\* zombie_killer() interrupts demonize().  accept() is restarted after it.
Interrupt ==
    /\ Alive /\ Forking
    /\ pending /\ ~masked /\ ~reaping
    /\ reaping' = TRUE
    /\ pending' = FALSE
    /\ UNCHANGED <<pc, client_sock, child_count, register, at_capacity,
                   shutdown_requested, masked, conn>>

\* Mistake: a child is counted out twice.
ReapTwice(c) ==
    /\ reaping
    /\ conn[c] = "zombie"
    /\ conn' = [conn EXCEPT ![c] = "gone"]
    /\ child_count' = child_count - 2
    /\ UNCHANGED <<pc, client_sock, register, at_capacity, shutdown_requested,
                   masked, pending, reaping>>

\* One turn of its loop: waitpid() finds a zombie ...
Reap(c) ==
    /\ reaping
    /\ conn[c] = "zombie"
    /\ conn' = [conn EXCEPT ![c] = "gone"]
    /\ child_count' = child_count - 1
    /\ UNCHANGED <<pc, client_sock, register, at_capacity, shutdown_requested,
                   masked, pending, reaping>>

\* Mistake: the handler may return with zombies left.
ReapSome ==
    /\ reaping
    /\ reaping' = FALSE
    /\ UNCHANGED <<pc, client_sock, child_count, register, at_capacity,
                   shutdown_requested, masked, pending, conn>>

\* ... or none, and the handler returns.
ReapNone ==
    /\ reaping
    /\ In("zombie") = {}
    /\ reaping' = FALSE
    /\ UNCHANGED <<pc, client_sock, child_count, register, at_capacity,
                   shutdown_requested, masked, pending, conn>>

\* SIGTERM or SIGINT: shutdown_handler() sets the flag.  Only if the process
\* sleeps in accept() does that return, with EINTR, and the loop start over;
\* a sleep that zombie_killer() has interrupted will be resumed.
Shutdown ==
    /\ Alive
    /\ ~shutdown_requested
    /\ shutdown_requested' = TRUE
    /\ pc' = IF At("blocked") THEN "check" ELSE pc
    /\ UNCHANGED <<client_sock, child_count, register, at_capacity, masked,
                   pending, reaping, conn>>

-----------------------------------------------------------------------------
(* Clients and children.                                                   *)

Connect(c) ==
    /\ Alive
    /\ conn[c] = "none"
    /\ Cardinality(In("queued")) < Backlog
    /\ conn' = [conn EXCEPT ![c] = "queued"]
    /\ UNCHANGED <<pc, client_sock, child_count, register, at_capacity,
                   shutdown_requested, masked, pending, reaping>>

\* The session of c ends and its process exits.
Exit(c) ==
    /\ conn[c] = "running"
    /\ conn' = [conn EXCEPT ![c] = IF Forking THEN "zombie" ELSE "gone"]
    /\ pending' = Forking
    /\ UNCHANGED <<pc, client_sock, child_count, register, at_capacity,
                   shutdown_requested, masked, reaping>>

Idle == ~Alive /\ UNCHANGED vars

Loop == \/ CheckShutdown \/ CheckCapacity \/ Block
        \/ Fork \/ Load \/ Store \/ Unmask
        \/ \E c \in Conn : Accept(c)

Handler == Interrupt \/ ReapNone \/ \E c \in Conn : Reap(c)

World == Shutdown \/ AcceptFails \/ ForkFails
         \/ \E c \in Conn : Connect(c) \/ Exit(c)

Next == Loop \/ Handler \/ World \/ Idle

Spec == Init /\ [][Next]_vars

\* The process runs and the kernel delivers signals; clients and children
\* need not do anything.
FairSpec == Spec /\ WF_vars(Loop) /\ WF_vars(Handler)

-----------------------------------------------------------------------------
(* Properties.                                                             *)

\* Every variable has its type.
TypeOK ==
    /\ pc \in {"check", "capacity", "accept", "blocked", "fork", "load",
               "store", "unmask", "serving", "stopped"}
    /\ client_sock \in Conn \cup {None}
    /\ child_count \in Int /\ register \in Int
    /\ at_capacity \in BOOLEAN /\ shutdown_requested \in BOOLEAN
    /\ masked \in BOOLEAN /\ pending \in BOOLEAN /\ reaping \in BOOLEAN
    /\ conn \in [Conn -> {"none", "queued", "accepted", "running", "zombie",
                          "gone"}]

\* child_count counts the children that have not been waited for, but for the
\* one that has just been forked: no increment overwrites a decrement made by
\* the handler, no child is reaped before it has been counted.
CountExact ==
    Forking =>
        child_count = Cardinality(Unreaped)
                      - (IF pc \in {"load", "store"} THEN 1 ELSE 0)

\* Never more than max_children children, zombies included.
CapRespected ==
    Forking /\ max_children > 0 => Cardinality(Unreaped) <= max_children

\* A child that has exited will be reaped: its SIGCHLD is pending, or the
\* handler has yet to find no zombie left.  SIGCHLDs that coalesce lose none.
NoZombieForgotten ==
    Forking /\ Alive => (In("zombie") # {} => pending \/ reaping)

\* The daemon is a connection pool that serves max_children at a time.
Pool == INSTANCE ConnectionPool WITH
            Max <- IF Forking THEN max_children ELSE 1,
            waiting <- In("queued") \cup In("accepted"),
            active <- In("running"),
            open <- pc # "stopped"

PoolSpec == Pool!Spec

\* Every child that exits is waited for, as long as the daemon runs.
ZombiesReaped ==
    \A c \in Conn : conn[c] = "zombie" ~> conn[c] = "gone" \/ ~Alive

\* A connection in the listen queue is taken, unless the limit is reached.
QueueMoves ==
    \A c \in Conn : conn[c] = "queued" ~>
        \/ conn[c] # "queued" \/ ~Alive
        \/ max_children > 0 /\ Cardinality(In("running")) >= max_children

\* A request to shut down is honoured as soon as a connection has arrived: the
\* daemon serves that one at most.
ShutdownHonoured == shutdown_requested /\ In("queued") # {} ~> ~Alive

\* A request to shut down stops the daemon: accept() returns EINTR.
ShutdownStops == shutdown_requested ~> ~Alive
=============================================================================
