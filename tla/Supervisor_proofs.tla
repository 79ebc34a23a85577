------------------------- MODULE Supervisor_proofs -------------------------
(***************************************************************************)
(* Proofs about the listening process, for any set of connections, any     *)
(* limit and both ways of running it.                                      *)
(***************************************************************************)
EXTENDS Supervisor, FiniteSetTheorems, TLAPS

\* SIGCHLD is blocked from the fork until the child has been counted, so the
\* handler does not run in between and the value loaded is not stale.
MaskInv ==
    /\ pc \in {"load", "store"} => masked
    /\ masked => ~reaping
    /\ pc = "store" => register = child_count

\* Each position of the loop says how the process came there.
LoopInv ==
    /\ pc \in {"fork", "load", "store", "unmask"} => Forking
    /\ pc = "fork" => client_sock \in Conn /\ conn[client_sock] = "accepted"
    /\ reaping => Forking /\ Alive

\* Without forking there is one session, which ends the listening.
SingleInv ==
    ~Forking => /\ In("zombie") = {} /\ In("accepted") = {}
                /\ pc \notin {"serving", "stopped"} => In("running") = {}

\* The limit leaves room for the child that accept() may lead to.
RoomInv ==
    Forking /\ max_children > 0 =>
        /\ Cardinality(Unreaped) <= max_children
        /\ pc \in {"accept", "blocked", "fork"} =>
              Cardinality(Unreaped) < max_children

IInv == /\ TypeOK /\ MaskInv /\ LoopInv /\ SingleInv
        /\ CountExact /\ RoomInv /\ NoZombieForgotten

-----------------------------------------------------------------------------
\* The sets of connections are finite, and children that run are unreaped.
LEMMA ConnSets ==
    /\ IsFiniteSet(Unreaped) /\ Cardinality(Unreaped) \in Nat
    /\ IsFiniteSet(In("running")) /\ Cardinality(In("running")) \in Nat
    /\ Cardinality(In("running")) <= Cardinality(Unreaped)
<1>1. Unreaped \subseteq Conn /\ In("running") \subseteq Unreaped
  BY DEF Unreaped, In
<1>2. IsFiniteSet(Unreaped)
  BY <1>1, ConnAssumption, FS_Subset
<1> QED BY <1>1, <1>2, FS_Subset, FS_CardinalityType

\* TypeOK in two parts: what takes arithmetic to prove and what does not.
FlagsOK ==
    /\ at_capacity \in BOOLEAN /\ shutdown_requested \in BOOLEAN
    /\ masked \in BOOLEAN /\ pending \in BOOLEAN /\ reaping \in BOOLEAN

DataOK ==
    /\ pc \in {"check", "capacity", "accept", "blocked", "fork", "load",
               "store", "unmask", "serving", "stopped"}
    /\ client_sock \in Conn \cup {None}
    /\ child_count \in Int /\ register \in Int
    /\ conn \in [Conn -> {"none", "queued", "accepted", "running", "zombie",
                          "gone"}]

\* The two parts are TypeOK.
LEMMA TypeParts == (TypeOK <=> FlagsOK /\ DataOK) /\ (TypeOK' <=> FlagsOK' /\ DataOK')
BY DEF TypeOK, FlagsOK, DataOK

\* The invariant holds initially.
LEMMA InitInv == Init => IInv
<1> SUFFICES ASSUME Init PROVE IInv
  OBVIOUS
<1>1. In("running") = {} /\ In("zombie") = {} /\ In("accepted") = {}
  BY DEF Init, In
<1>2. Cardinality(Unreaped) = 0 /\ Cardinality(Unreaped) \in Nat
  BY <1>1, FS_EmptySet DEF Unreaped
<1>3. TypeOK
  <2>1. FlagsOK
    BY DEF Init, FlagsOK
  <2>2. DataOK
    BY DEF Init, DataOK
  <2> QED BY <2>1, <2>2, TypeParts
<1>4. MaskInv /\ LoopInv
  BY DEF Init, MaskInv, LoopInv
<1>5. SingleInv /\ NoZombieForgotten
  BY <1>1 DEF SingleInv, NoZombieForgotten
<1>6. CountExact
  <2>1. child_count = Cardinality(Unreaped) /\ pc \notin {"load", "store"}
    BY <1>2 DEF Init
  <2> QED BY <2>1, ConnSets DEF CountExact
<1>7. RoomInv
  BY <1>2, LimitAssumption DEF RoomInv
<1> QED BY <1>3, <1>4, <1>5, <1>6, <1>7 DEF IInv

\* A step keeps every flag Boolean ...
LEMMA FlagsStep == FlagsOK /\ [Next]_vars => FlagsOK'
<1> SUFFICES ASSUME FlagsOK, [Next]_vars PROVE FlagsOK'
  OBVIOUS
<1> USE DEF FlagsOK
<1>1. CASE UNCHANGED vars
  BY <1>1 DEF vars
<1>2. CASE Loop
  <2>1. CASE CheckCapacity
    BY <2>1, FlagAssumption DEF CheckCapacity, Full
  <2>2. CASE CheckShutdown \/ Block \/ Fork \/ Load \/ Store \/ Unmask
    BY <2>2 DEF CheckShutdown, Block, Fork, Load, Store, Unmask
  <2>3. ASSUME NEW c \in Conn, Accept(c) PROVE FlagsOK'
    BY <2>3 DEF Accept
  <2> QED BY <1>2, <2>1, <2>2, <2>3 DEF Loop
<1>3. CASE Handler
  BY <1>3 DEF Handler, Interrupt, ReapNone, Reap
<1>4. CASE World
  BY <1>4, FlagAssumption
     DEF World, Shutdown, AcceptFails, ForkFails, Connect, Exit
<1> QED BY <1>1, <1>2, <1>3, <1>4 DEF Next, Idle

\* ... and everything else in its range.
LEMMA DataStep == DataOK /\ [Next]_vars => DataOK'
<1> SUFFICES ASSUME DataOK, [Next]_vars PROVE DataOK'
  OBVIOUS
<1> USE DEF DataOK
<1>1. CASE UNCHANGED vars
  BY <1>1 DEF vars
<1>2. CASE Loop
  <2>1. CASE CheckShutdown \/ CheckCapacity \/ Block
    BY <2>1 DEF CheckShutdown, CheckCapacity, Block
  <2>2. CASE Fork \/ Load \/ Store \/ Unmask
    BY <2>2 DEF Fork, Load, Store, Unmask
  <2>3. ASSUME NEW c \in Conn, Accept(c) PROVE DataOK'
    BY <2>3 DEF Accept
  <2> QED BY <1>2, <2>1, <2>2, <2>3 DEF Loop
<1>3. CASE Handler
  BY <1>3 DEF Handler, Interrupt, ReapNone, Reap
<1>4. CASE World
  BY <1>4 DEF World, Shutdown, AcceptFails, ForkFails, Connect, Exit
<1> QED BY <1>1, <1>2, <1>3, <1>4 DEF Next, Idle

\* TypeOK is preserved by every step.
LEMMA TypeStep == TypeOK /\ [Next]_vars => TypeOK'
BY FlagsStep, DataStep, TypeParts

\* A step of demonize() or of a signal handler that leaves the connections
\* alone leaves alone the sets they are counted in.
LEMMA SameSets ==
    ASSUME UNCHANGED conn
    PROVE  /\ Unreaped' = Unreaped
           /\ \A state : In(state)' = In(state)
BY DEF Unreaped, In

\* The steps of demonize() that touch neither connections nor their count.
LEMMA QuietSteps ==
    ASSUME IInv, CheckShutdown \/ CheckCapacity \/ Block \/ Unmask
                 \/ AcceptFails \/ Shutdown
    PROVE  IInv'
<1> USE DEF IInv
<1>1. TypeOK'
  BY TypeStep DEF Next, Loop, World
<1>2. UNCHANGED <<conn, child_count, register, reaping, pending>>
  BY DEF CheckShutdown, CheckCapacity, Block, Unmask, AcceptFails, Shutdown
<1>3. Unreaped' = Unreaped /\ \A state : In(state)' = In(state)
  BY <1>2, SameSets
<1>4. pc' \notin {"fork", "load", "store"} \/ (pc' = pc /\ UNCHANGED masked)
  BY DEF CheckShutdown, CheckCapacity, Block, Unmask, AcceptFails, Shutdown
<1>5. MaskInv'
  BY <1>2, <1>4 DEF MaskInv, CheckShutdown, CheckCapacity, Block, Unmask,
     AcceptFails, Shutdown
<1>6. LoopInv'
  BY <1>2, <1>4 DEF LoopInv, CheckShutdown, CheckCapacity, Block, Unmask,
     AcceptFails, Shutdown, At, Alive
<1>7. SingleInv'
  BY <1>3 DEF SingleInv, CheckShutdown, CheckCapacity, Block, Unmask,
     AcceptFails, Shutdown, At, Alive
<1>8. CountExact'
  BY <1>2, <1>3, <1>4 DEF CountExact, CheckShutdown, CheckCapacity, Block,
     Unmask, AcceptFails, Shutdown, At
<1>9. RoomInv'
  <2>1. Cardinality(Unreaped) \in Nat
    BY ConnSets
  <2>2. CASE CheckCapacity
    BY <1>3, <2>1, <2>2, LimitAssumption
       DEF RoomInv, CountExact, CheckCapacity, Full, At, TypeOK
  <2>3. CASE ~CheckCapacity
    BY <1>3, <2>1, <2>3 DEF RoomInv, CheckShutdown, Block, Unmask,
       AcceptFails, Shutdown, At
  <2> QED BY <2>2, <2>3
<1>10. NoZombieForgotten'
  BY <1>2, <1>3 DEF NoZombieForgotten, CheckShutdown, CheckCapacity, Block,
     Unmask, AcceptFails, Shutdown, At, Alive
<1> QED BY <1>1, <1>5, <1>6, <1>7, <1>8, <1>9, <1>10

\* child_count++ takes effect: the value loaded was still the count.
LEMMA IncrementSteps ==
    ASSUME IInv, Load \/ Store
    PROVE  IInv'
<1> USE DEF IInv
<1>1. TypeOK'
  BY TypeStep DEF Next, Loop
<1>2. UNCHANGED <<conn, reaping, pending, masked>>
  BY DEF Load, Store
<1>3. Unreaped' = Unreaped /\ \A state : In(state)' = In(state)
  BY <1>2, SameSets
<1>4. MaskInv' /\ LoopInv'
  BY DEF MaskInv, LoopInv, Load, Store, At, Alive
<1>5. SingleInv' /\ NoZombieForgotten'
  BY <1>3 DEF SingleInv, NoZombieForgotten, Load, Store, At, Alive
<1>6. CountExact'
  <2>1. Cardinality(Unreaped) \in Nat
    BY ConnSets
  <2> QED BY <1>3, <2>1 DEF CountExact, MaskInv, Load, Store, At, TypeOK
<1>7. RoomInv'
  BY <1>3 DEF RoomInv, Load, Store, At
<1> QED BY <1>1, <1>4, <1>5, <1>6, <1>7

\* A connection accepted: it is not yet a child, unless there is no forking.
LEMMA AcceptStep ==
    ASSUME IInv, NEW c \in Conn, Accept(c)
    PROVE  IInv'
<1> USE DEF IInv
<1>1. TypeOK'
  BY TypeStep DEF Next, Loop
<1>2. MaskInv' /\ LoopInv'
  BY DEF MaskInv, LoopInv, Accept, At, Alive, TypeOK
<1>3. CASE Forking
  <2>1. Unreaped' = Unreaped /\ In("zombie")' = In("zombie")
    BY <1>3 DEF Accept, Unreaped, In, TypeOK
  <2>2. SingleInv' /\ CountExact' /\ RoomInv' /\ NoZombieForgotten'
    BY <1>3, <2>1 DEF SingleInv, CountExact, RoomInv, NoZombieForgotten,
       Accept, At, Alive
  <2> QED BY <1>1, <1>2, <2>2
<1>4. CASE ~Forking
  <2>1. In("zombie")' = {} /\ In("accepted")' = {}
    BY <1>4 DEF Accept, SingleInv, In, TypeOK
  <2>2. SingleInv' /\ CountExact' /\ RoomInv' /\ NoZombieForgotten'
    BY <1>4, <2>1 DEF SingleInv, CountExact, RoomInv, NoZombieForgotten, Accept
  <2> QED BY <1>1, <1>2, <2>2
<1> QED BY <1>3, <1>4

\* A child is forked while there is room for it, and is not counted yet.
LEMMA ForkStep ==
    ASSUME IInv, Fork
    PROVE  IInv'
<1> USE DEF IInv
<1>1. TypeOK'
  BY TypeStep DEF Next, Loop
<1>2. Forking /\ client_sock \in Conn /\ client_sock \notin Unreaped
  BY DEF LoopInv, Fork, At, Unreaped, In
<1>3. Unreaped' = Unreaped \cup {client_sock} /\ In("zombie")' = In("zombie")
  BY <1>2 DEF Fork, LoopInv, At, Unreaped, In, TypeOK
<1>4. Cardinality(Unreaped)' = Cardinality(Unreaped) + 1
  BY <1>2, <1>3, ConnSets, FS_AddElement
<1>5. MaskInv' /\ LoopInv'
  BY <1>2 DEF MaskInv, LoopInv, Fork, At, Alive
<1>6. SingleInv' /\ NoZombieForgotten'
  BY <1>2, <1>3 DEF SingleInv, NoZombieForgotten, Fork, At, Alive
<1>7. CountExact' /\ RoomInv'
  <2>1. Cardinality(Unreaped) \in Nat
    BY ConnSets
  <2> QED BY <1>4, <2>1, LimitAssumption
          DEF CountExact, RoomInv, Fork, At, TypeOK
<1> QED BY <1>1, <1>5, <1>6, <1>7

\* zombie_killer() starts, or has found the last zombie.
LEMMA HandlerSteps ==
    ASSUME IInv, Interrupt \/ ReapNone
    PROVE  IInv'
<1> USE DEF IInv
<1>1. TypeOK'
  BY TypeStep DEF Next, Handler
<1>2. UNCHANGED <<pc, conn, child_count, register, client_sock, masked>>
  BY DEF Interrupt, ReapNone
<1>3. Unreaped' = Unreaped /\ \A state : In(state)' = In(state)
  BY <1>2, SameSets
<1>4. MaskInv' /\ LoopInv'
  BY <1>2 DEF MaskInv, LoopInv, Interrupt, ReapNone, Alive
<1>5. SingleInv' /\ CountExact' /\ RoomInv'
  BY <1>2, <1>3 DEF SingleInv, CountExact, RoomInv
<1>6. NoZombieForgotten'
  BY <1>2, <1>3 DEF NoZombieForgotten, Interrupt, ReapNone, Alive
<1> QED BY <1>1, <1>4, <1>5, <1>6

\* A child is reaped and counted out in one turn of the handler.
LEMMA ReapStep ==
    ASSUME IInv, NEW c \in Conn, Reap(c)
    PROVE  IInv'
<1> USE DEF IInv
<1>1. TypeOK'
  BY TypeStep DEF Next, Handler
<1>2. Forking /\ ~masked /\ pc \notin {"load", "store"}
  BY DEF Reap, MaskInv, LoopInv
<1>3. c \in Unreaped /\ Unreaped' = Unreaped \ {c}
  BY DEF Reap, Unreaped, In, TypeOK
<1>4. Cardinality(Unreaped)' = Cardinality(Unreaped) - 1
  BY <1>3, ConnSets, FS_RemoveElement
<1>5. MaskInv' /\ LoopInv'
  BY <1>2 DEF MaskInv, LoopInv, Reap, Alive, TypeOK
<1>6. SingleInv' /\ NoZombieForgotten'
  BY <1>2 DEF SingleInv, NoZombieForgotten, Reap
<1>7. CountExact' /\ RoomInv'
  <2>1. Cardinality(Unreaped) \in Nat
    BY ConnSets
  <2> QED BY <1>2, <1>4, <2>1, LimitAssumption
          DEF CountExact, RoomInv, Reap, TypeOK
<1> QED BY <1>1, <1>5, <1>6, <1>7

\* fork() fails, and the connection accepted is given up.
LEMMA ForkFailsStep ==
    ASSUME IInv, ForkFails
    PROVE  IInv'
<1> USE DEF IInv
<1>1. TypeOK'
  BY TypeStep DEF Next, World
<1>2. Forking /\ client_sock \in Conn /\ conn[client_sock] = "accepted"
  BY DEF LoopInv, ForkFails, At
<1>3. Unreaped' = Unreaped /\ In("zombie")' = In("zombie")
  BY <1>2 DEF ForkFails, Unreaped, In, TypeOK
<1>4. MaskInv' /\ LoopInv'
  BY DEF MaskInv, LoopInv, ForkFails, At, Alive
<1>5. SingleInv' /\ CountExact' /\ RoomInv' /\ NoZombieForgotten'
  BY <1>2, <1>3 DEF SingleInv, CountExact, RoomInv, NoZombieForgotten,
     ForkFails, At, Alive
<1> QED BY <1>1, <1>4, <1>5

\* A client connects.
LEMMA ConnectStep ==
    ASSUME IInv, NEW c \in Conn, Connect(c)
    PROVE  IInv'
<1> USE DEF IInv
<1>1. TypeOK'
  BY TypeStep DEF Next, World
<1>2. /\ Unreaped' = Unreaped /\ In("zombie")' = In("zombie")
      /\ In("running")' = In("running") /\ In("accepted")' = In("accepted")
  BY DEF Connect, Unreaped, In, TypeOK
<1>3. MaskInv' /\ LoopInv'
  BY DEF MaskInv, LoopInv, Connect, Alive, TypeOK
<1>4. SingleInv' /\ CountExact' /\ RoomInv' /\ NoZombieForgotten'
  BY <1>2 DEF SingleInv, CountExact, RoomInv, NoZombieForgotten, Connect, Alive
<1> QED BY <1>1, <1>3, <1>4

\* A session ends: its process is a zombie, and SIGCHLD is pending.
LEMMA ExitStep ==
    ASSUME IInv, NEW c \in Conn, Exit(c)
    PROVE  IInv'
<1> USE DEF IInv
<1>1. TypeOK'
  BY TypeStep DEF Next, World
<1>2. MaskInv' /\ LoopInv'
  BY DEF MaskInv, LoopInv, Exit, Alive, TypeOK
<1>3. CASE Forking
  <2>1. Unreaped' = Unreaped
    BY <1>3 DEF Exit, Unreaped, In, TypeOK
  <2>2. SingleInv' /\ CountExact' /\ RoomInv'
    BY <1>3, <2>1 DEF SingleInv, CountExact, RoomInv, Exit
  <2>3. NoZombieForgotten'
    BY <1>3 DEF NoZombieForgotten, Exit
  <2> QED BY <1>1, <1>2, <2>2, <2>3
<1>4. CASE ~Forking
  <2>1. SingleInv'
    BY <1>4 DEF SingleInv, Exit, In, TypeOK
  <2> QED BY <1>1, <1>2, <1>4, <2>1
          DEF CountExact, RoomInv, NoZombieForgotten
<1> QED BY <1>3, <1>4

-----------------------------------------------------------------------------
\* The invariant is inductive.
LEMMA NextInv == IInv /\ [Next]_vars => IInv'
<1> SUFFICES ASSUME IInv, [Next]_vars PROVE IInv'
  OBVIOUS
<1>1. CASE UNCHANGED vars
  <2>1. Unreaped' = Unreaped /\ \A state : In(state)' = In(state)
    BY <1>1, SameSets DEF vars
  <2> QED BY <1>1, <2>1 DEF vars, IInv, TypeOK, MaskInv, LoopInv, SingleInv,
          CountExact, RoomInv, NoZombieForgotten, Alive
<1>2. CASE Loop
  BY <1>2, QuietSteps, IncrementSteps, AcceptStep, ForkStep DEF Loop
<1>3. CASE Handler
  BY <1>3, HandlerSteps, ReapStep DEF Handler
<1>4. CASE World
  BY <1>4, QuietSteps, ForkFailsStep, ConnectStep, ExitStep DEF World
<1> QED BY <1>1, <1>2, <1>3, <1>4 DEF Next, Idle

\* Every variable of the listening process always has its type.
THEOREM TypeCorrect == Spec => []TypeOK
<1>1. IInv => TypeOK
  BY DEF IInv
<1> QED BY <1>1, InitInv, NextInv, PTL DEF Spec

\* child_count is always the number of children not waited for, whatever the
\* handler and the loop do to it at the same time.
THEOREM CountCorrect == Spec => []CountExact
<1>1. IInv => CountExact
  BY DEF IInv
<1> QED BY <1>1, InitInv, NextInv, PTL DEF Spec

\* There are never more than max_children children.
THEOREM CapCorrect == Spec => []CapRespected
<1>1. IInv => CapRespected
  BY DEF IInv, RoomInv, CapRespected
<1> QED BY <1>1, InitInv, NextInv, PTL DEF Spec

\* No zombie is left without a SIGCHLD on its way or a handler at work.
THEOREM ReapCorrect == Spec => []NoZombieForgotten
<1>1. IInv => NoZombieForgotten
  BY DEF IInv
<1> QED BY <1>1, InitInv, NextInv, PTL DEF Spec

-----------------------------------------------------------------------------
(* The listening process implements the connection pool.                   *)

Waiting == In("queued") \cup In("accepted")
Open == pc # "stopped"

\* The pool counts as the listening process does.
LEMMA PoolSize == \A S : Pool!Cardinality(S) = Cardinality(S)
BY DEF Pool!Cardinality, Cardinality

\* A step that keeps the pool's variables is a stuttering step of it.
LEMMA PoolStutter ==
    ASSUME In("queued")' \cup In("accepted")' = Waiting,
           In("running")' = In("running"), Open' = Open
    PROVE  [Pool!Next]_(Pool!vars)
BY DEF Pool!vars, Waiting, Open

\* A connection that arrives begins to wait.
LEMMA PoolConnect ==
    ASSUME IInv, NEW c \in Conn, Connect(c)
    PROVE  Pool!Arrive(c)
<1>1. /\ In("queued")' = In("queued") \cup {c}
      /\ In("accepted")' = In("accepted") /\ In("running")' = In("running")
  BY DEF Connect, In, IInv, TypeOK
<1>2. c \notin Waiting \cup In("running")
  BY DEF Connect, In, Waiting
<1> QED BY <1>1, <1>2 DEF Pool!Arrive, Connect, Alive, Waiting

\* One that is served without forking is the only one.
LEMMA PoolAccept ==
    ASSUME IInv, NEW c \in Conn, Accept(c)
    PROVE  [Pool!Next]_(Pool!vars)
<1>1. CASE Forking
  <2>1. /\ In("queued")' = In("queued") \ {c}
        /\ In("accepted")' = In("accepted") \cup {c}
        /\ In("running")' = In("running") /\ c \in In("queued")
    BY <1>1 DEF Accept, In, IInv, TypeOK
  <2>2. Open' = Open
    BY <1>1 DEF Accept, At, Open
  <2> QED BY <2>1, <2>2, PoolStutter DEF Waiting
<1>2. CASE ~Forking
  <2>1. /\ In("queued")' = In("queued") \ {c}
        /\ In("accepted")' = In("accepted")
        /\ In("running")' = In("running") \cup {c} /\ c \in In("queued")
    BY <1>2 DEF Accept, In, IInv, TypeOK
  <2>2. In("accepted") = {} /\ In("running") = {}
    BY <1>2 DEF Accept, At, IInv, SingleInv
  <2>3. Cardinality(In("running")) = 0
    BY <2>2, FS_EmptySet
  <2>4. pc # "stopped" /\ pc' # "stopped"
    BY <1>2 DEF Accept, At
  <2>5. Pool!Admit(c)
    BY <1>2, <2>1, <2>2, <2>3, <2>4, PoolSize DEF Pool!Admit
  <2> QED BY <2>5 DEF Pool!Next
<1> QED BY <1>1, <1>2

\* A child is forked only if fewer than the limit are running.
LEMMA PoolFork ==
    ASSUME IInv, Fork
    PROVE  [Pool!Next]_(Pool!vars)
<1>1. Forking /\ client_sock \in Conn /\ conn[client_sock] = "accepted"
  BY DEF IInv, LoopInv, Fork, At
<1>2. /\ In("queued")' = In("queued") /\ client_sock \notin In("queued")
      /\ In("accepted")' = In("accepted") \ {client_sock}
      /\ client_sock \in In("accepted")
      /\ In("running")' = In("running") \cup {client_sock}
  BY <1>1 DEF Fork, In, IInv, TypeOK
<1>3. max_children > 0 => Cardinality(In("running")) < max_children
  BY <1>1, ConnSets, LimitAssumption DEF IInv, RoomInv, Fork, At
<1>4. pc # "stopped" /\ pc' # "stopped"
  BY DEF Fork, At
<1>5. Pool!Admit(client_sock)
  BY <1>1, <1>2, <1>3, <1>4, PoolSize DEF Pool!Admit
<1> QED BY <1>1, <1>5 DEF Pool!Next

\* A connection for which there is no child is turned away.
LEMMA PoolForkFails ==
    ASSUME IInv, ForkFails
    PROVE  [Pool!Next]_(Pool!vars)
<1>1. Forking /\ client_sock \in Conn /\ conn[client_sock] = "accepted"
  BY DEF IInv, LoopInv, ForkFails, At
<1>2. /\ In("queued")' = In("queued") /\ client_sock \notin In("queued")
      /\ In("accepted")' = In("accepted") \ {client_sock}
      /\ client_sock \in In("accepted")
      /\ In("running")' = In("running")
  BY <1>1 DEF ForkFails, In, IInv, TypeOK
<1>3. pc # "stopped" /\ pc' # "stopped"
  BY DEF ForkFails, At
<1>4. Pool!TurnAway(client_sock)
  BY <1>2, <1>3 DEF Pool!TurnAway
<1> QED BY <1>1, <1>4 DEF Pool!Next

\* A session that ends leaves the pool, open or shut.
LEMMA PoolExit ==
    ASSUME IInv, NEW c \in Conn, Exit(c)
    PROVE  Pool!Leave(c)
<1>1. /\ In("queued")' = In("queued") /\ In("accepted")' = In("accepted")
      /\ In("running")' = In("running") \ {c} /\ c \in In("running")
  BY DEF Exit, In, IInv, TypeOK
<1> QED BY <1>1 DEF Pool!Leave, Exit

\* A child is reaped without the pool's noticing.
LEMMA PoolReap ==
    ASSUME IInv, NEW c \in Conn, Reap(c)
    PROVE  [Pool!Next]_(Pool!vars)
<1>1. /\ In("queued")' = In("queued") /\ In("accepted")' = In("accepted")
      /\ In("running")' = In("running")
  BY DEF Reap, In, IInv, TypeOK
<1>2. Open' = Open
  BY DEF Reap, Open
<1> QED BY <1>1, <1>2, PoolStutter DEF Waiting

\* A step that leaves the connections alone closes the pool, or does nothing
\* to it.
LEMMA PoolQuiet ==
    ASSUME UNCHANGED conn, pc = "stopped" => pc' = "stopped"
    PROVE  [Pool!Next]_(Pool!vars)
<1>1. \A state : In(state)' = In(state)
  BY SameSets
<1>2. CASE Open' = Open
  BY <1>1, <1>2, PoolStutter DEF Waiting
<1>3. CASE Open' # Open
  <2>1. Pool!Shut
    BY <1>1, <1>3 DEF Pool!Shut, Open
  <2> QED BY <2>1 DEF Pool!Next
<1> QED BY <1>2, <1>3

\* Every step is one of the pool's, or none of its business.
LEMMA PoolStep == IInv /\ [Next]_vars => [Pool!Next]_(Pool!vars)
<1> SUFFICES ASSUME IInv, [Next]_vars PROVE [Pool!Next]_(Pool!vars)
  OBVIOUS
<1>1. CASE UNCHANGED vars
  BY <1>1, PoolQuiet DEF vars
<1>2. CASE CheckShutdown \/ CheckCapacity \/ Block \/ Load \/ Store \/ Unmask
  BY <1>2, PoolQuiet
     DEF CheckShutdown, CheckCapacity, Block, Load, Store, Unmask, At
<1>3. CASE Interrupt \/ ReapNone \/ Shutdown \/ AcceptFails
  BY <1>3, PoolQuiet DEF Interrupt, ReapNone, Shutdown, AcceptFails, At, Alive
<1>4. CASE Loop
  BY <1>2, <1>4, PoolFork, PoolAccept DEF Loop
<1>5. CASE Handler
  BY <1>3, <1>5, PoolReap DEF Handler
<1>6. CASE World
  <2>1. ASSUME NEW c \in Conn, Connect(c) PROVE [Pool!Next]_(Pool!vars)
    BY <2>1, PoolConnect DEF Pool!Next
  <2>2. ASSUME NEW c \in Conn, Exit(c) PROVE [Pool!Next]_(Pool!vars)
    BY <2>2, PoolExit DEF Pool!Next
  <2> QED BY <1>3, <1>6, <2>1, <2>2, PoolForkFails DEF World
<1> QED BY <1>1, <1>4, <1>5, <1>6 DEF Next, Idle

\* Initially the pool is open and empty.
LEMMA PoolInit == Init => Pool!Init
<1> SUFFICES ASSUME Init PROVE Pool!Init
  OBVIOUS
<1>1. In("running") = {} /\ In("queued") = {} /\ In("accepted") = {}
  BY DEF Init, In
<1> QED BY <1>1 DEF Init, Pool!Init

\* The listening process is a connection pool: it serves a connection only
\* if fewer than the limit are being served, loses none of those that wait,
\* and goes on serving those it serves when it stops to listen.
THEOREM PoolCorrect == Spec => PoolSpec
BY InitInv, NextInv, PoolInit, PoolStep, PTL DEF Spec, PoolSpec, Pool!Spec

-----------------------------------------------------------------------------
(* The handler returns, and the loop stops when it is told to.             *)

\* While zombie_killer() is at work each turn of its loop leaves one child
\* less, and nothing adds one: it suspends the loop that would fork.
ReapDescends ==
    reaping /\ reaping' =>
        IF \E c \in Conn : Reap(c)
        THEN Cardinality(Unreaped)' < Cardinality(Unreaped)
        ELSE Unreaped' = Unreaped

\* The positions of the loop, in the order in which it may still come to them
\* once it has been told to stop.
Later == [capacity |-> 8, accept |-> 7, blocked |-> 6, fork |-> 5, load |-> 4,
          store |-> 3, unmask |-> 2, check |-> 1, serving |-> 0, stopped |-> 0]

\* Nothing takes the request back, and each step of the loop goes on to a later
\* position.
StopDescends ==
    shutdown_requested =>
        /\ shutdown_requested'
        /\ \/ Later[pc]' < Later[pc]
           \/ (Handler \/ World) /\ UNCHANGED pc

\* The loop of zombie_killer() turns no more often than there are children
\* (src/muditm.c, zombie_killer()).
THEOREM HandlerEnds == Spec => [][ReapDescends]_vars
<1>1. IInv /\ [Next]_vars => [ReapDescends]_vars
  <2> SUFFICES ASSUME IInv, Next, reaping, reaping' PROVE ReapDescends
    BY DEF ReapDescends
  <2>1. Forking /\ conn \in [Conn -> {"none", "queued", "accepted", "running",
                                      "zombie", "gone"}]
    BY DEF IInv, LoopInv, TypeOK
  <2>2. ASSUME NEW c \in Conn, Reap(c)
        PROVE  Cardinality(Unreaped)' < Cardinality(Unreaped)
    <3>1. c \in Unreaped /\ Unreaped' = Unreaped \ {c}
      BY <2>1, <2>2 DEF Reap, Unreaped, In
    <3>2. Cardinality(Unreaped)' = Cardinality(Unreaped) - 1
      BY <3>1, ConnSets, FS_RemoveElement
    <3> QED BY <3>2, ConnSets
  <2>3. ASSUME ~ \E c \in Conn : Reap(c) PROVE Unreaped' = Unreaped
    <3>1. CASE Loop
      BY <3>1 DEF Loop, CheckShutdown, CheckCapacity, Block, Fork, Load, Store,
         Unmask, Accept, At
    <3>2. CASE Interrupt \/ ReapNone
      BY <3>2 DEF Interrupt, ReapNone
    <3>3. CASE Shutdown \/ AcceptFails \/ ForkFails
      BY <3>3, SameSets DEF Shutdown, AcceptFails, ForkFails, At
    <3>4. ASSUME NEW c \in Conn, Connect(c) \/ Exit(c) PROVE Unreaped' = Unreaped
      BY <2>1, <3>4 DEF Connect, Exit, Unreaped, In
    <3>5. CASE Idle
      BY <3>5, SameSets DEF Idle, vars
    <3> QED BY <2>3, <3>1, <3>2, <3>3, <3>4, <3>5 DEF Next, Handler, World
  <2> QED BY <2>2, <2>3 DEF ReapDescends
<1> QED BY <1>1, InitInv, NextInv, PTL DEF Spec

\* A listening process that has been told to stop accepts one connection more
\* at the most: there is no way back to accept() but by the test at the top of
\* the loop (src/muditm.c, demonize(), shutdown_handler()).
THEOREM StopEnds == Spec => [][StopDescends]_vars
<1>1. [Next]_vars => [StopDescends]_vars
  <2> SUFFICES ASSUME Next, shutdown_requested, ~Idle PROVE StopDescends
    BY DEF StopDescends, Idle
  <2> USE DEF Later, StopDescends, At
  <2>1. CASE CheckShutdown \/ CheckCapacity \/ Block
    <3>1. shutdown_requested'
      BY <2>1, Zenon DEF CheckShutdown, CheckCapacity, Block
    <3>2. CASE CheckShutdown
      BY <3>1, <3>2 DEF CheckShutdown
    <3>3. CASE CheckCapacity
      BY <3>1, <3>3 DEF CheckCapacity
    <3>4. CASE Block
      BY <3>1, <3>4 DEF Block
    <3> QED BY <2>1, <3>2, <3>3, <3>4
  <2>2. CASE Fork \/ Load \/ Store \/ Unmask
    <3>1. shutdown_requested'
      BY <2>2, Zenon DEF Fork, Load, Store, Unmask
    <3>2. CASE Fork \/ Load
      BY <3>1, <3>2 DEF Fork, Load
    <3>3. CASE Store \/ Unmask
      BY <3>1, <3>3 DEF Store, Unmask
    <3> QED BY <2>2, <3>2, <3>3
  <2>3. ASSUME NEW c \in Conn, Accept(c) PROVE StopDescends
    BY <2>3 DEF Accept
  <2>4. CASE AcceptFails \/ ForkFails
    <3>1. shutdown_requested'
      BY <2>4, Zenon DEF AcceptFails, ForkFails
    <3> QED BY <2>4, <3>1 DEF AcceptFails, ForkFails
  <2>5. CASE Handler
    BY <2>5 DEF Handler, Interrupt, ReapNone, Reap
  <2>6. CASE Shutdown
    BY <2>6 DEF Shutdown
  <2>7. ASSUME NEW c \in Conn, Connect(c) \/ Exit(c) PROVE StopDescends
    BY <2>7 DEF Connect, Exit, World
  <2> QED BY <2>1, <2>2, <2>3, <2>4, <2>5, <2>6, <2>7 DEF Next, Loop, World
<1> QED BY <1>1, PTL DEF Spec
=============================================================================
