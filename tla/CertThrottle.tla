---------------------------- MODULE CertThrottle ----------------------------
(***************************************************************************)
(* certcheck.c: the warnings that a certificate is about to expire, and    *)
(* the stamp file, its lock and its modification time, by which the        *)
(* processes of all sessions keep from repeating them.  The certificate is *)
(* one that all of them find due for a warning.                            *)
(*                                                                         *)
(* A definition marked "Mistake:" is a wrong version of the one it stands  *)
(* before, and no part of the specification: some property fails with it.  *)
(***************************************************************************)
EXTENDS Integers, Sequences, FiniteSets

CONSTANTS
    Child,      \* processes that serve a session: check_cert_expiry_throttled()
    Starter,    \* processes that start to listen: check_cert_expiry()
    NoOne,      \* the holder of a lock that is free
    Expired,    \* has the certificate expired?
    interval,   \* what must pass between two warnings
    MaxTicks,   \* bound on the time that passes
    MaxTrouble  \* bound on crashes, failed calls and steps of the clock

ASSUME ProcessAssumption ==
    /\ Child \cap Starter = {} /\ NoOne \notin Child \cup Starter
    /\ IsFiniteSet(Starter)
ASSUME TimeAssumption ==
    /\ Expired \in BOOLEAN
    /\ interval \in Nat \ {0} /\ MaxTicks \in Nat /\ MaxTrouble \in Nat

VARIABLES
    pc,      \* of each process
    now,     \* of each child, the time it has read
    size,    \* st_size of the stamp file
    mtime,   \* its st_mtime
    lock,    \* the process that holds the lock on the stamp file
    clock,   \* the time of day
    ticks,   \* the time that has really passed
    told,    \* when warnings were given, by `ticks'
    trouble  \* number of crashes, failed calls and steps of the clock

stampVars == <<size, mtime>>
timeVars == <<clock, ticks>>
vars == <<pc, now, stampVars, lock, timeVars, told, trouble>>

Process == Child \cup Starter

\* The stamp file may be missing, which comes to its being empty.
Init == /\ pc = [p \in Process |-> "new"]
        /\ now = [p \in Child |-> 0]
        /\ size = 0
        /\ mtime = 0
        /\ lock = NoOne
        /\ clock = MaxTrouble
        /\ ticks = 0
        /\ told = <<>>
        /\ trouble = 0

Goto(p, label) == pc' = [pc EXCEPT ![p] = label]

Mishap == trouble < MaxTrouble /\ trouble' = trouble + 1

\* muditm_notify()
Notify(p, next) == /\ told' = Append(told, ticks)
                   /\ Goto(p, next)
                   /\ UNCHANGED <<now, stampVars, lock, timeVars, trouble>>

\* ftruncate() or O_TRUNC
Truncate(p, next) == /\ size' = 0
                     /\ mtime' = clock
                     /\ Goto(p, next)
                     /\ UNCHANGED <<now, lock, timeVars, told, trouble>>

\* Write "x" to the stamp file; a failure is only logged.
Write(p, next) ==
    /\ \/ size' = 1 /\ mtime' = clock /\ UNCHANGED trouble
       \/ Mishap /\ UNCHANGED stampVars
    /\ Goto(p, next)
    /\ UNCHANGED <<now, lock, timeVars, told>>

-----------------------------------------------------------------------------
(* check_cert_expiry_throttled()                                           *)

\* Mistake: the lock is not asked for.
NoFlock(c) ==
    /\ pc[c] = "new"
    /\ Goto(c, "time")
    /\ UNCHANGED <<now, stampVars, lock, timeVars, told, trouble>>

\* flock(LOCK_NB): a child that does not get the lock leaves it at that.
Flock(c) ==
    /\ pc[c] = "new"
    /\ IF lock = NoOne THEN lock' = c /\ Goto(c, "time")
                       ELSE Goto(c, "done") /\ UNCHANGED lock
    /\ UNCHANGED <<now, stampVars, timeVars, told, trouble>>

\* The certificate cannot be read, or the stamp file cannot be opened or
\* locked: no word is said.
GivesUp(p) ==
    /\ pc[p] = "new"
    /\ Mishap
    /\ Goto(p, "done")
    /\ UNCHANGED <<now, stampVars, lock, timeVars, told>>

ReadTime(c) ==
    /\ pc[c] = "time"
    /\ now' = [now EXCEPT ![c] = clock]
    /\ Goto(c, "stat")
    /\ UNCHANGED <<stampVars, lock, timeVars, told, trouble>>

\* Mistake: any file that is there is taken for a warning given.
AnyStamp(c) == now[c] - mtime \in 0 .. interval - 1

\* An empty stamp, or one from the future, does not count.
Fresh(c) == size > 0 /\ now[c] - mtime \in 0 .. interval - 1

Stat(c) ==
    /\ pc[c] = "stat"
    /\ Goto(c, IF Fresh(c) THEN "unlock" ELSE "notify")
    /\ UNCHANGED <<now, stampVars, lock, timeVars, told, trouble>>

\* fstat() fails, which comes to there being no stamp.
StatFails(c) ==
    /\ pc[c] = "stat"
    /\ Mishap
    /\ Goto(c, "notify")
    /\ UNCHANGED <<now, stampVars, lock, timeVars, told>>

ChildNotify(c) == pc[c] = "notify" /\ Notify(c, "truncate")
ChildTruncate(c) == pc[c] = "truncate" /\ Truncate(c, "write")

\* The failure of ftruncate() or, in cert_throttle_touch(), of open(): a child
\* goes on to write, a process that starts does not.
TruncateFails(p) ==
    /\ pc[p] = "truncate"
    /\ Mishap
    /\ Goto(p, IF p \in Child THEN "write" ELSE "done")
    /\ UNCHANGED <<now, stampVars, lock, timeVars, told>>

ChildWrite(c) == pc[c] = "write" /\ Write(c, "unlock")

Unlock(c) ==
    /\ pc[c] = "unlock"
    /\ lock' = NoOne
    /\ Goto(c, "done")
    /\ UNCHANGED <<now, stampVars, timeVars, told, trouble>>

-----------------------------------------------------------------------------
(* check_cert_expiry() and cert_throttle_touch(), which take no lock        *)

StarterNotify(s) ==
    pc[s] = "new" /\ Notify(s, IF Expired THEN "done" ELSE "truncate")

StarterTruncate(s) ==
    s \in Starter /\ pc[s] = "truncate" /\ Truncate(s, "write")

StarterWrite(s) == s \in Starter /\ pc[s] = "write" /\ Write(s, "done")

-----------------------------------------------------------------------------
\* A process dies on the way; the kernel releases its lock.
Crash(p) ==
    /\ pc[p] \notin {"new", "done"}
    /\ Mishap
    /\ Goto(p, "done")
    /\ lock' = IF lock = p THEN NoOne ELSE lock
    /\ UNCHANGED <<now, stampVars, timeVars, told>>

\* Time passes, and the clock with it ...
Tick == /\ ticks < MaxTicks
        /\ ticks' = ticks + 1
        /\ clock' = clock + 1
        /\ UNCHANGED <<pc, now, stampVars, lock, told, trouble>>

\* ... or the clock is set back.
StepBack == /\ Mishap
            /\ clock' = clock - 1
            /\ UNCHANGED <<pc, now, stampVars, lock, ticks, told>>

ChildStep(c) == \/ Flock(c) \/ GivesUp(c) \/ ReadTime(c) \/ Stat(c)
                \/ StatFails(c) \/ ChildNotify(c) \/ ChildTruncate(c)
                \/ TruncateFails(c) \/ ChildWrite(c) \/ Unlock(c)

StarterStep(s) == \/ StarterNotify(s) \/ GivesUp(s) \/ StarterTruncate(s)
                  \/ TruncateFails(s) \/ StarterWrite(s)

Idle == (\A p \in Process : pc[p] = "done") /\ UNCHANGED vars

Next == \/ \E c \in Child : ChildStep(c)
        \/ \E s \in Starter : StarterStep(s)
        \/ \E p \in Process : Crash(p)
        \/ Tick \/ StepBack \/ Idle

Spec == Init /\ [][Next]_vars

-----------------------------------------------------------------------------
(* Properties.                                                             *)

\* How many warnings there may be beyond the first.  A process that starts
\* gives one itself; and as it takes no lock it may have two more given, by a
\* child that finds the stamp empty and by one that finds it later than the
\* time it has read.
Excused == trouble + 3 * Cardinality({s \in Starter : pc[s] # "new"})

\* Within an interval one warning is given, however many sessions start: each
\* crash, failed call, step of the clock adds at most one, each start three.
WarnedOnce ==
    \A i, j \in DOMAIN told :
        i < j /\ told[j] - told[i] < interval => j - i <= Excused

\* A child that said nothing because another had the lock, or because it found
\* a stamp, was not the only one to know: somebody has warned or is about to.
\* What may be in the way is a crash, a clock set back, and a call that fails,
\* after which the code is silent: open(), as there are no descriptors left or
\* the directory may not be written to, keeps every session silent.
SomebodyWarns ==
    (\E c \in Child : pc[c] = "done") /\ trouble = 0 =>
        told # <<>> \/ \E p \in Process : pc[p] \in {"time", "stat", "notify"}
=============================================================================
