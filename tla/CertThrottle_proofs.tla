------------------------ MODULE CertThrottle_proofs ------------------------
(***************************************************************************)
(* Proofs about the warnings, for any sessions, any starting processes,    *)
(* any interval and any mishaps.                                           *)
(***************************************************************************)
EXTENDS CertThrottle, SequenceTheorems, FiniteSetTheorems, TLAPS

\* Where a child is while it has the lock
Held == {"time", "stat", "notify", "truncate", "write", "unlock"}

TypeInv ==
    /\ pc \in [Process -> {"new", "done"} \cup Held]
    /\ \A s \in Starter : pc[s] \in {"new", "truncate", "write", "done"}
    /\ now \in [Child -> Int]
    /\ size \in {0, 1}
    /\ mtime \in Int
    /\ lock \in Child \cup {NoOne}
    /\ clock \in Int
    /\ ticks \in Nat
    /\ told \in Seq(Nat)
    /\ trouble \in Nat

\* The lock is with the child that has asked for it.
LockInv == \A c \in Child : pc[c] \in Held <=> lock = c

IInv == TypeInv /\ LockInv

\* A child takes the lock, and only a child that holds it goes on.
LEMMA LockNext == IInv /\ [Next]_vars => IInv'
<1> SUFFICES ASSUME IInv, [Next]_vars PROVE IInv'
  OBVIOUS
<1> USE ProcessAssumption DEF IInv, TypeInv, LockInv, Process, Held
<1> USE DEF stampVars, timeVars
<1>1. ASSUME NEW c \in Child, ChildStep(c) PROVE IInv'
  <2>1. CASE Flock(c)
    BY <2>1 DEF Flock, Goto
  <2>2. CASE ReadTime(c)
    BY <2>2 DEF ReadTime, Goto
  <2>3. CASE Stat(c)
    BY <2>3 DEF Stat, Goto
  <2>4. CASE ChildNotify(c)
    <3>1. told' \in Seq(Nat)
      BY <2>4 DEF ChildNotify, Notify
    <3> QED BY <2>4, <3>1 DEF ChildNotify, Notify, Goto
  <2>5. CASE ChildTruncate(c)
    BY <2>5 DEF ChildTruncate, Truncate, Goto
  <2>6. CASE ChildWrite(c)
    BY <2>6 DEF ChildWrite, Write, Mishap, Goto
  <2>7. CASE Unlock(c)
    BY <2>7 DEF Unlock, Goto
  <2>8. CASE GivesUp(c)
    BY <2>8 DEF GivesUp, Mishap, Goto
  <2>9. CASE StatFails(c)
    BY <2>9 DEF StatFails, Mishap, Goto
  <2>10. CASE TruncateFails(c)
    BY <2>10 DEF TruncateFails, Mishap, Goto
  <2> QED BY <1>1, <2>1, <2>2, <2>3, <2>4, <2>5, <2>6, <2>7, <2>8, <2>9, <2>10
          DEF ChildStep
<1>2. ASSUME NEW s \in Starter, StarterStep(s) PROVE IInv'
  <2>1. CASE StarterNotify(s)
    <3>1. told' \in Seq(Nat)
      BY <2>1 DEF StarterNotify, Notify
    <3> QED BY <2>1, <3>1 DEF StarterNotify, Notify, Goto
  <2>2. CASE StarterTruncate(s)
    BY <2>2 DEF StarterTruncate, Truncate, Goto
  <2>3. CASE StarterWrite(s)
    BY <2>3 DEF StarterWrite, Write, Mishap, Goto
  <2>4. CASE GivesUp(s)
    BY <2>4 DEF GivesUp, Mishap, Goto
  <2>5. CASE TruncateFails(s)
    BY <2>5 DEF TruncateFails, Mishap, Goto
  <2> QED BY <1>2, <2>1, <2>2, <2>3, <2>4, <2>5 DEF StarterStep
<1>3. ASSUME NEW p \in Process, Crash(p) PROVE IInv'
  BY <1>3 DEF Crash, Mishap, Goto
<1>4. CASE Tick
  BY <1>4 DEF Tick
<1>5. CASE StepBack
  BY <1>5 DEF StepBack, Mishap
<1>6. CASE Idle \/ UNCHANGED vars
  BY <1>6 DEF Idle, vars
<1> QED BY <1>1, <1>2, <1>3, <1>4, <1>5, <1>6 DEF Next

\* Both always hold.
LEMMA LockAlways == Spec => []IInv
<1>1. Init => IInv
  BY ProcessAssumption, TimeAssumption
     DEF Init, IInv, TypeInv, LockInv, Process, Held
<1> QED BY <1>1, LockNext, PTL DEF Spec

-----------------------------------------------------------------------------
(* Somebody warns.                                                         *)

\* Without a mishap, a stamp stands for a warning, and whoever makes one has
\* warned.
StampInv ==
    trouble = 0 =>
        /\ size > 0 => told # <<>>
        /\ \A p \in Process :
              pc[p] \in {"truncate", "write", "unlock"} => told # <<>>

\* After each step somebody has warned, or is still about to.
LEMMA StampNext ==
    ASSUME IInv, StampInv, SomebodyWarns, [Next]_vars
    PROVE  StampInv' /\ SomebodyWarns'
<1> USE ProcessAssumption DEF IInv, TypeInv, LockInv, Process, Held,
        StampInv, SomebodyWarns, stampVars, timeVars
<1>1. ASSUME NEW c \in Child, ChildStep(c) PROVE StampInv' /\ SomebodyWarns'
  <2>1. CASE Flock(c)
    <3>1. CASE lock = NoOne
      BY <2>1, <3>1 DEF Flock, Goto
    <3>2. CASE lock # NoOne
      <4>1. lock \in Child /\ pc[lock] \in Held /\ lock # c
        BY <2>1, <3>2 DEF Flock
      <4> QED BY <2>1, <3>2, <4>1 DEF Flock, Goto
    <3> QED BY <3>1, <3>2
  <2>2. CASE ReadTime(c)
    BY <2>2 DEF ReadTime, Goto
  <2>3. CASE Stat(c)
    BY <2>3 DEF Stat, Fresh, Goto
  <2>4. CASE ChildNotify(c)
    <3>1. told' # <<>>
      BY <2>4 DEF ChildNotify, Notify
    <3> QED BY <3>1
  <2>5. CASE ChildTruncate(c)
    BY <2>5 DEF ChildTruncate, Truncate, Goto
  <2>6. CASE ChildWrite(c)
    BY <2>6 DEF ChildWrite, Write, Mishap, Goto
  <2>7. CASE Unlock(c)
    BY <2>7 DEF Unlock, Goto
  <2>8. CASE GivesUp(c)
    BY <2>8 DEF GivesUp, Mishap, Goto
  <2>9. CASE StatFails(c)
    BY <2>9 DEF StatFails, Mishap, Goto
  <2>10. CASE TruncateFails(c)
    BY <2>10 DEF TruncateFails, Mishap, Goto
  <2> QED BY <1>1, <2>1, <2>2, <2>3, <2>4, <2>5, <2>6, <2>7, <2>8, <2>9, <2>10
          DEF ChildStep
<1>2. ASSUME NEW s \in Starter, StarterStep(s)
      PROVE  StampInv' /\ SomebodyWarns'
  <2>1. CASE StarterNotify(s)
    <3>1. told' # <<>>
      BY <2>1 DEF StarterNotify, Notify
    <3> QED BY <3>1
  <2>2. CASE StarterTruncate(s)
    BY <2>2 DEF StarterTruncate, Truncate, Goto
  <2>3. CASE StarterWrite(s)
    BY <2>3 DEF StarterWrite, Write, Mishap, Goto
  <2>4. CASE GivesUp(s)
    BY <2>4 DEF GivesUp, Mishap, Goto
  <2>5. CASE TruncateFails(s)
    BY <2>5 DEF TruncateFails, Mishap, Goto
  <2> QED BY <1>2, <2>1, <2>2, <2>3, <2>4, <2>5 DEF StarterStep
<1>3. ASSUME NEW p \in Process, Crash(p) PROVE StampInv' /\ SomebodyWarns'
  BY <1>3 DEF Crash, Mishap
<1>4. CASE Tick
  BY <1>4 DEF Tick
<1>5. CASE StepBack
  BY <1>5 DEF StepBack, Mishap
<1>6. CASE Idle \/ UNCHANGED vars
  BY <1>6 DEF Idle, vars
<1> QED BY <1>1, <1>2, <1>3, <1>4, <1>5, <1>6 DEF Next

\* However many sessions begin at once and find the lock taken, somebody gives
\* the warning, unless one has crashed, a call has failed, which the code takes
\* for a reason to be silent, or the clock has been set back.
THEOREM WarnsCorrect == Spec => []SomebodyWarns
<1>1. Init => StampInv /\ SomebodyWarns
  BY DEF Init, StampInv, SomebodyWarns, Process
<1> QED BY <1>1, LockAlways, StampNext, PTL DEF Spec

-----------------------------------------------------------------------------
(* What is excused, and what of it is still to come.                       *)

Started(q) == {s \in Starter : q[s] # "new"}

\* Those that have yet to write to the stamp, ...
Writing(q) == {s \in Starter : q[s] \in {"truncate", "write"}}

\* ... and those that have yet to empty it first.
Emptying(q) == {s \in Starter : q[s] = "truncate"}

\* The warnings that are excused, without those that such a process may yet
\* cause: one when it empties the stamp, one when it writes to it
Owed(q) == 3 * Cardinality(Started(q)) - Cardinality(Writing(q))
                                       - Cardinality(Emptying(q))
Credit == trouble + Owed(pc)

\* All of these are finite sets, ...
LEMMA Counts ==
    ASSUME NEW q
    PROVE  /\ IsFiniteSet(Started(q)) /\ IsFiniteSet(Writing(q))
           /\ IsFiniteSet(Emptying(q))
           /\ Cardinality(Started(q)) \in Nat /\ Cardinality(Writing(q)) \in Nat
           /\ Cardinality(Emptying(q)) \in Nat
<1>1. /\ Started(q) \in SUBSET Starter /\ Writing(q) \in SUBSET Starter
      /\ Emptying(q) \in SUBSET Starter
  BY DEF Started, Writing, Emptying
<1>2. /\ IsFiniteSet(Started(q)) /\ IsFiniteSet(Writing(q))
      /\ IsFiniteSet(Emptying(q))
  BY <1>1, ProcessAssumption, FS_Subset
<1> QED BY <1>2, FS_CardinalityType

\* ... and nobody owes more than a start is excused for.
LEMMA OwedBound ==
    ASSUME NEW q
    PROVE  Owed(q) \in Int /\ Owed(q) <= 3 * Cardinality(Started(q))
<1> DEFINE n == Cardinality(Started(q))
           w == Cardinality(Writing(q))
           e == Cardinality(Emptying(q))
<1>1. n \in Nat /\ w \in Nat /\ e \in Nat
  BY Counts
<1>2. Owed(q) = 3 * n - w - e
  BY DEF Owed
<1> HIDE DEF n, w, e
<1>3. Owed(q) \in Int /\ Owed(q) <= 3 * n
  BY <1>1, <1>2
<1> QED BY <1>3 DEF n

\* Those that have started are excused for all that they may yet cause.
LEMMA CreditEnough ==
    TypeInv => Credit \in Nat /\ Excused \in Nat /\ Credit <= Excused
<1> SUFFICES ASSUME TypeInv
             PROVE  Credit \in Nat /\ Excused \in Nat /\ Credit <= Excused
  OBVIOUS
<1> DEFINE n == Cardinality(Started(pc))
           w == Cardinality(Writing(pc))
           e == Cardinality(Emptying(pc))
<1>1. n \in Nat /\ w \in Nat /\ e \in Nat
  BY Counts
<1>2. w <= n /\ e <= n
  <2>1. Writing(pc) \in SUBSET Started(pc) /\ Emptying(pc) \in SUBSET Started(pc)
    BY DEF Started, Writing, Emptying
  <2> QED BY <2>1, Counts, FS_Subset
<1>3. Excused = trouble + 3 * n /\ Credit = trouble + (3 * n - w - e)
  BY DEF Excused, Started, Credit, Owed
<1>4. trouble \in Nat
  BY DEF TypeInv
<1> HIDE DEF n, w, e
<1> QED BY <1>1, <1>2, <1>3, <1>4

\* What the starting processes do to it.
LEMMA OwedChanges ==
    ASSUME NEW q, NEW r, NEW s \in Starter,
           \A p \in Starter \ {s} : r[p] = q[p]
    PROVE  /\ Owed(q) \in Int /\ Owed(r) \in Int
           /\ r[s] = q[s] => Owed(r) = Owed(q)
           /\ q[s] = "new" /\ r[s] \in {"truncate", "done"} =>
                 Owed(r) >= Owed(q) + 1
           /\ q[s] = "truncate" /\ r[s] = "write" => Owed(r) >= Owed(q) + 1
           /\ q[s] \in {"truncate", "write"} /\ r[s] = "done" =>
                 Owed(r) >= Owed(q) + 1
           /\ q[s] # "new" /\ r[s] = "done" => Owed(r) >= Owed(q)
<1> DEFINE n == Cardinality(Started(q))
           w == Cardinality(Writing(q))
           e == Cardinality(Emptying(q))
           n2 == Cardinality(Started(r))
           w2 == Cardinality(Writing(r))
           e2 == Cardinality(Emptying(r))
<1>1. /\ n \in Nat /\ w \in Nat /\ e \in Nat
      /\ n2 \in Nat /\ w2 \in Nat /\ e2 \in Nat
  BY Counts
<1>2. Owed(q) = 3 * n - w - e /\ Owed(r) = 3 * n2 - w2 - e2
  BY DEF Owed
<1>3. (q[s] = "new") = (r[s] = "new") => n2 = n
  <2>1. SUFFICES ASSUME (q[s] = "new") = (r[s] = "new")
                 PROVE  Started(r) = Started(q)
    OBVIOUS
  <2> QED BY <2>1 DEF Started
<1>4. q[s] = "new" /\ r[s] # "new" => n2 = n + 1
  <2> SUFFICES ASSUME q[s] = "new", r[s] # "new" PROVE n2 = n + 1
    OBVIOUS
  <2>1. Started(r) = Started(q) \cup {s} /\ s \notin Started(q)
    BY DEF Started
  <2> QED BY <2>1, Counts, FS_AddElement
<1>5. /\ s \in Writing(r) /\ s \in Writing(q) => w2 = w
      /\ s \notin Writing(r) /\ s \notin Writing(q) => w2 = w
      /\ s \in Writing(r) /\ s \notin Writing(q) => w2 = w + 1
      /\ s \notin Writing(r) /\ s \in Writing(q) => w2 = w - 1
  <2>1. /\ s \in Writing(r) => Writing(r) = Writing(q) \cup {s}
        /\ s \notin Writing(r) => Writing(r) = Writing(q) \ {s}
    BY DEF Writing
  <2>2. /\ IsFiniteSet(Writing(q))
        /\ s \in Writing(q) => Writing(q) \cup {s} = Writing(q)
        /\ s \notin Writing(q) => Writing(q) \ {s} = Writing(q)
    BY Counts
  <2> QED BY <2>1, <2>2, FS_AddElement, FS_RemoveElement
<1>6. /\ s \in Emptying(r) /\ s \in Emptying(q) => e2 = e
      /\ s \notin Emptying(r) /\ s \notin Emptying(q) => e2 = e
      /\ s \in Emptying(r) /\ s \notin Emptying(q) => e2 = e + 1
      /\ s \notin Emptying(r) /\ s \in Emptying(q) => e2 = e - 1
  <2>1. /\ s \in Emptying(r) => Emptying(r) = Emptying(q) \cup {s}
        /\ s \notin Emptying(r) => Emptying(r) = Emptying(q) \ {s}
    BY DEF Emptying
  <2>2. /\ IsFiniteSet(Emptying(q))
        /\ s \in Emptying(q) => Emptying(q) \cup {s} = Emptying(q)
        /\ s \notin Emptying(q) => Emptying(q) \ {s} = Emptying(q)
    BY Counts
  <2> QED BY <2>1, <2>2, FS_AddElement, FS_RemoveElement
<1>7. /\ s \in Writing(q) <=> q[s] \in {"truncate", "write"}
      /\ s \in Writing(r) <=> r[s] \in {"truncate", "write"}
      /\ s \in Emptying(q) <=> q[s] = "truncate"
      /\ s \in Emptying(r) <=> r[s] = "truncate"
  BY DEF Writing, Emptying
<1> HIDE DEF n, w, e, n2, w2, e2
<1> QED BY <1>1, <1>2, <1>3, <1>4, <1>5, <1>6, <1>7

\* Children do nothing to it.
LEMMA OwedStays ==
    ASSUME NEW q, NEW r, \A s \in Starter : r[s] = q[s]
    PROVE  Owed(r) = Owed(q) /\ Owed(q) \in Int
<1>1. Started(r) = Started(q) /\ Writing(r) = Writing(q) /\ Emptying(r) = Emptying(q)
  BY DEF Started, Writing, Emptying
<1> DEFINE n == Cardinality(Started(q))
           w == Cardinality(Writing(q))
           e == Cardinality(Emptying(q))
<1>2. n \in Nat /\ w \in Nat /\ e \in Nat
  BY Counts
<1>3. Owed(q) = 3 * n - w - e /\ Owed(r) = 3 * n - w - e
  BY <1>1 DEF Owed
<1> HIDE DEF n, w, e
<1> QED BY <1>2, <1>3

-----------------------------------------------------------------------------
(* One warning in an interval.                                             *)

\* A warning is settled if, as things are, no child gives another within the
\* interval: whoever gave one is about to write the stamp, or the stamp is
\* not older than the warning and will not be taken for one from the future.
Settled(i) ==
    \/ lock \in Child /\ pc[lock] \in {"truncate", "write"}
    \/ /\ size > 0 /\ mtime <= clock /\ told[i] <= mtime - clock + ticks
       /\ lock \in Child => /\ pc[lock] # "notify"
                            /\ pc[lock] = "stat" => Fresh(lock)

\* As long as the interval of a warning lasts, there is credit for those
\* after it, and for one more if it is not settled.
CreditInv ==
    \A i \in 1 .. Len(told) :
        /\ told[i] <= ticks
        /\ ticks - told[i] < interval =>
              /\ Len(told) - i <= Credit
              /\ ~Settled(i) => Len(told) - i < Credit

\* A step that gives no warning keeps it by what it adds to the credit ...
LEMMA CreditGrows ==
    ASSUME TypeInv, CreditInv, Credit' \in Int, ticks' \in Nat, ticks' >= ticks,
           told' = told, Credit' >= Credit + 1
    PROVE  CreditInv'
<1> SUFFICES ASSUME NEW i \in 1 .. Len(told)
             PROVE  /\ told[i] <= ticks'
                    /\ ticks' - told[i] < interval => Len(told) - i < Credit'
  BY DEF CreditInv
<1>1. told[i] \in Nat /\ Len(told) \in Nat /\ ticks \in Nat
  BY DEF TypeInv
<1> QED BY <1>1, CreditEnough, TimeAssumption DEF CreditInv

\* ... or by leaving settled what was.
LEMMA CreditStands ==
    ASSUME TypeInv, CreditInv, ticks' \in Nat, ticks' >= ticks,
           told' = told, Credit' = Credit,
           \A i \in 1 .. Len(told) :
               ticks - told[i] < interval /\ ticks' - told[i] < interval
               /\ Settled(i) => Settled(i)'
    PROVE  CreditInv'
<1> SUFFICES ASSUME NEW i \in 1 .. Len(told)
             PROVE  /\ told[i] <= ticks'
                    /\ ticks' - told[i] < interval =>
                          /\ Len(told) - i <= Credit
                          /\ ~Settled(i)' => Len(told) - i < Credit
  BY DEF CreditInv
<1>1. told[i] \in Nat /\ Len(told) \in Nat /\ ticks \in Nat
  BY DEF TypeInv
<1> QED BY <1>1, CreditEnough, TimeAssumption DEF CreditInv

\* A process that starts has credit for its warning and for two more.
LEMMA StarterCredit ==
    ASSUME IInv, IInv', CreditInv, NEW s \in Starter, StarterStep(s)
    PROVE  CreditInv'
<1> USE DEF IInv, TypeInv, Process
<1>1. /\ \A p \in Starter \ {s} : pc'[p] = pc[p]
      /\ s \in Process
  BY DEF StarterStep, StarterNotify, StarterTruncate, StarterWrite, GivesUp,
         TruncateFails, Notify, Truncate, Write, Goto
<1>2. Credit = trouble + Owed(pc) /\ Credit' = trouble' + Owed(pc')
  BY DEF Credit
<1>3. CASE \/ GivesUp(s) \/ StarterTruncate(s) \/ TruncateFails(s)
           \/ StarterWrite(s)
  <2>1. /\ trouble' >= trouble /\ told' = told /\ ticks' = ticks
        /\ \/ pc[s] \in {"new", "truncate", "write"} /\ pc'[s] = "done"
           \/ pc[s] = "truncate" /\ pc'[s] = "write"
    BY <1>1, <1>3, ProcessAssumption
       DEF GivesUp, StarterTruncate, TruncateFails, StarterWrite, Truncate,
           Write, Mishap, Goto, timeVars
  <2>2. Owed(pc) \in Int /\ Owed(pc') \in Int /\ Owed(pc') >= Owed(pc) + 1
    BY <1>1, <2>1, OwedChanges
  <2>3. Credit' \in Int /\ Credit' >= Credit + 1
    BY SMTT(30), <1>2, <2>1, <2>2
  <2> QED BY <2>1, <2>3, CreditGrows
<1>4. CASE StarterNotify(s)
  <2>1. /\ pc[s] = "new" /\ pc'[s] \in {"truncate", "done"}
        /\ trouble' = trouble /\ told' = Append(told, ticks)
        /\ UNCHANGED <<size, mtime, lock, clock, ticks, now>>
    BY <1>1, <1>4 DEF StarterNotify, Notify, Goto, timeVars, stampVars
  <2>2. Credit' \in Int /\ Credit \in Nat /\ Credit' >= Credit + 1
    <3>1. Owed(pc) \in Int /\ Owed(pc') \in Int /\ Owed(pc') >= Owed(pc) + 1
      BY <1>1, <2>1, OwedChanges
    <3> QED BY <1>2, <2>1, <3>1, CreditEnough
  <2>3. /\ Len(told') = Len(told) + 1 /\ Len(told) \in Nat
        /\ told'[Len(told) + 1] = ticks
        /\ \A i \in 1 .. Len(told) : told'[i] = told[i]
    BY <2>1
  <2>4. \A i \in 1 .. Len(told) : Settled(i)' <=> Settled(i)
    <3>1. lock \in Child => pc'[lock] = pc[lock]
      BY <1>4, ProcessAssumption DEF StarterNotify, Notify, Goto
    <3> QED BY <2>1, <2>3, <3>1 DEF Settled, Fresh
  <2>5. ASSUME NEW i \in 1 .. Len(told)
        PROVE  /\ told[i] <= ticks
               /\ ticks - told[i] < interval =>
                     /\ Len(told) + 1 - i <= Credit'
                     /\ ~Settled(i) => Len(told) + 1 - i < Credit'
    <3>1. /\ told[i] <= ticks
          /\ ticks - told[i] < interval =>
                /\ Len(told) - i <= Credit
                /\ ~Settled(i) => Len(told) - i < Credit
      BY DEF CreditInv
    <3> HIDE DEF IInv, TypeInv
    <3> QED BY <2>2, <2>3, <3>1
  <2> QED BY <2>1, <2>2, <2>3, <2>4, <2>5 DEF CreditInv
<1> QED BY <1>3, <1>4 DEF StarterStep

\* A child that warns uses up the credit for one more.
LEMMA ChildCredit ==
    ASSUME IInv, IInv', CreditInv, NEW c \in Child, ChildStep(c)
    PROVE  CreditInv'
<1> USE DEF IInv, TypeInv, Process, stampVars, timeVars
<1>1. /\ c \in Process /\ c \notin Starter /\ c # NoOne
      /\ \A p \in Process \ {c} : pc'[p] = pc[p]
      /\ trouble' \in Nat /\ ticks' = ticks
  BY ProcessAssumption
     DEF ChildStep, Flock, GivesUp, ReadTime, Stat, StatFails, ChildNotify,
         ChildTruncate, TruncateFails, ChildWrite, Unlock, Notify, Truncate,
         Write, Mishap, Goto
<1>2. Credit' = Credit + (trouble' - trouble) /\ Credit \in Nat
  <2>1. Owed(pc') = Owed(pc) /\ Owed(pc) \in Int
    BY <1>1, OwedStays, ProcessAssumption
  <2>2. Credit = trouble + Owed(pc) /\ Credit' = trouble' + Owed(pc')
    BY DEF Credit
  <2> QED BY SMTT(30), <1>1, <2>1, <2>2, CreditEnough
<1>3. pc[c] \in Held => lock = c
  BY DEF LockInv
<1>4. ASSUME told' = told, trouble' = trouble,
             \A i \in 1 .. Len(told) :
                 ticks - told[i] < interval /\ Settled(i) => Settled(i)'
      PROVE  CreditInv'
  <2>1. Credit' = Credit
    BY <1>2, <1>4
  <2> QED BY <1>1, <1>4, <2>1, CreditStands
<1>5. CASE Flock(c)
  <2>1. lock' = lock \/ (lock = NoOne /\ lock' = c /\ pc'[c] = "time")
    <3>1. pc \in [Process -> {"new", "done"} \cup Held]
      OBVIOUS
    <3> HIDE DEF IInv, TypeInv, Process
    <3> QED BY <1>1, <1>5, <3>1 DEF Flock, Goto
  <2>2. pc[c] = "new" /\ pc'[c] \in {"time", "done"}
    BY <1>1, <1>5 DEF Flock, Goto
  <2>3. lock # c
    BY <2>2 DEF LockInv, Held
  <2>4. ASSUME NEW i \in 1 .. Len(told), Settled(i) PROVE Settled(i)'
    BY <1>1, <1>5, <2>1, <2>2, <2>3, <2>4, ProcessAssumption
       DEF Flock, Settled, Fresh
  <2> QED BY <1>4, <1>5, <2>4 DEF Flock
<1>6. CASE ReadTime(c)
  <2>1. lock = c /\ pc[c] = "time" /\ pc'[c] = "stat" /\ now'[c] = clock
    BY <1>1, <1>3, <1>6 DEF ReadTime, Goto, Held
  <2>2. ASSUME NEW i \in 1 .. Len(told), ticks - told[i] < interval, Settled(i)
        PROVE  Settled(i)'
    <3>1. /\ size > 0 /\ mtime <= clock
          /\ told[i] <= mtime - clock + ticks
      BY <2>1, <2>2 DEF Settled
    <3>2. told[i] \in Nat
      OBVIOUS
    <3>3. clock - mtime \in 0 .. interval - 1
      BY SMTT(30), <2>2, <3>1, <3>2, TimeAssumption
    <3> QED BY <1>6, <2>1, <3>1, <3>3 DEF ReadTime, Settled, Fresh
  <2> QED BY <1>4, <1>6, <2>2 DEF ReadTime
<1>7. CASE Stat(c)
  <2>1. /\ lock = c /\ pc[c] = "stat"
        /\ pc'[c] = IF Fresh(c) THEN "unlock" ELSE "notify"
    BY <1>1, <1>3, <1>7 DEF Stat, Goto, Held
  <2>2. ASSUME NEW i \in 1 .. Len(told), Settled(i) PROVE Settled(i)'
    BY <1>7, <2>1, <2>2 DEF Stat, Settled
  <2> QED BY <1>4, <1>7, <2>2 DEF Stat
<1>8. CASE ChildNotify(c)
  <2>1. /\ lock = c /\ pc[c] = "notify" /\ pc'[c] = "truncate"
        /\ told' = Append(told, ticks) /\ trouble' = trouble /\ lock' = lock
    BY <1>1, <1>3, <1>8 DEF ChildNotify, Notify, Goto, Held
  <2>2. /\ Len(told') = Len(told) + 1 /\ Len(told) \in Nat
        /\ told'[Len(told) + 1] = ticks
        /\ \A i \in 1 .. Len(told) : told'[i] = told[i]
    BY <2>1
  <2>3. \A i \in 1 .. Len(told) : ~Settled(i)
    BY <2>1 DEF Settled
  <2>4. \A i \in 1 .. Len(told') : Settled(i)'
    BY <2>1 DEF Settled
  <2>5. ASSUME NEW i \in 1 .. Len(told)
        PROVE  /\ told[i] <= ticks
               /\ ticks - told[i] < interval => Len(told) + 1 - i <= Credit
    <3>1. /\ told[i] <= ticks
          /\ ticks - told[i] < interval => Len(told) - i < Credit
      BY <2>3 DEF CreditInv
    <3> QED BY <1>2, <2>2, <3>1
  <2>6. Credit' = Credit
    BY <1>2, <2>1
  <2>7. ASSUME NEW i \in 1 .. Len(told')
        PROVE  /\ told'[i] <= ticks'
               /\ ticks' - told'[i] < interval => Len(told') - i <= Credit'
    <3>0. ticks \in Nat
      OBVIOUS
    <3> HIDE DEF IInv, TypeInv
    <3>1. CASE i \in 1 .. Len(told)
      BY <1>1, <2>2, <2>5, <2>6, <3>1
    <3>2. CASE i = Len(told) + 1
      BY <1>1, <1>2, <2>2, <2>6, <3>0, <3>2
    <3> QED BY <2>2, <3>1, <3>2
  <2> QED BY <2>4, <2>7 DEF CreditInv
<1>9. CASE ChildTruncate(c)
  <2>1. lock = c /\ lock' = c /\ pc'[c] = "write"
    BY <1>1, <1>3, <1>9 DEF ChildTruncate, Truncate, Goto, Held
  <2>2. \A i \in 1 .. Len(told) : Settled(i)'
    BY <2>1 DEF Settled
  <2> QED BY <1>4, <1>9, <2>2 DEF ChildTruncate, Truncate
<1>10. CASE ChildWrite(c)
  <2>1. lock = c /\ lock' = c /\ pc'[c] = "unlock" /\ told' = told
    BY <1>1, <1>3, <1>10 DEF ChildWrite, Write, Goto, Held
  <2>2. CASE size' = 1 /\ mtime' = clock /\ UNCHANGED trouble
    <3>1. ASSUME NEW i \in 1 .. Len(told) PROVE Settled(i)'
      <4>1. told[i] <= ticks /\ told[i] \in Nat /\ clock' = clock
        BY <1>10 DEF CreditInv, ChildWrite, Write
      <4> QED BY <1>1, <2>1, <2>2, <4>1 DEF Settled
    <3> QED BY <1>4, <2>1, <2>2, <3>1
  <2>3. CASE trouble' = trouble + 1
    <3>1. Credit' \in Int /\ Credit' >= Credit + 1
      BY <1>2, <2>3
    <3> QED BY <1>1, <2>1, <3>1, CreditGrows
  <2> QED BY <1>10, <2>2, <2>3 DEF ChildWrite, Write, Mishap
<1>11. CASE Unlock(c)
  <2>1. lock = c /\ pc[c] = "unlock" /\ lock' = NoOne
    BY <1>1, <1>3, <1>11 DEF Unlock, Goto, Held
  <2>2. ASSUME NEW i \in 1 .. Len(told), Settled(i) PROVE Settled(i)'
    BY <1>11, <2>1, <2>2, ProcessAssumption DEF Unlock, Settled
  <2> QED BY <1>4, <1>11, <2>2 DEF Unlock
<1>12. CASE GivesUp(c) \/ StatFails(c) \/ TruncateFails(c)
  <2>1. trouble' = trouble + 1 /\ told' = told
    BY <1>12 DEF GivesUp, StatFails, TruncateFails, Mishap
  <2>2. Credit' \in Int /\ Credit' >= Credit + 1
    BY <1>2, <2>1
  <2> QED BY <1>1, <2>1, <2>2, CreditGrows
<1> QED BY <1>5, <1>6, <1>7, <1>8, <1>9, <1>10, <1>11, <1>12 DEF ChildStep

\* Mishaps pay for what they cause, and time settles nothing anew.
LEMMA OutsideCredit ==
    ASSUME IInv, IInv', CreditInv,
           (\E p \in Process : Crash(p)) \/ Tick \/ StepBack \/ Idle
           \/ UNCHANGED vars
    PROVE  CreditInv'
<1> USE DEF IInv, TypeInv, Process, stampVars, timeVars
<1>1. Credit = trouble + Owed(pc) /\ Credit' = trouble' + Owed(pc')
  BY DEF Credit
<1>2. CASE \E p \in Process : Crash(p)
  <2>1. PICK p \in Process : Crash(p)
    BY <1>2
  <2>2. /\ \A q \in Process \ {p} : pc'[q] = pc[q]
        /\ pc[p] # "new" /\ pc'[p] = "done"
        /\ trouble' = trouble + 1 /\ told' = told /\ ticks' = ticks
    BY <2>1 DEF Crash, Mishap, Goto
  <2>3. Owed(pc') >= Owed(pc) /\ Owed(pc') \in Int /\ Owed(pc) \in Int
    <3>1. CASE p \in Starter
      BY <2>2, <3>1, OwedChanges
    <3>2. CASE p \notin Starter
      BY SMTT(30), <2>2, <3>2, OwedStays
    <3> QED BY <3>1, <3>2
  <2>4. Credit' \in Int /\ Credit' >= Credit + 1
    BY SMTT(30), <1>1, <2>2, <2>3
  <2> QED BY <2>2, <2>4, CreditGrows
<1>3. ASSUME pc' = pc PROVE Owed(pc') = Owed(pc) /\ Owed(pc) \in Int
  BY <1>3, OwedStays
<1>4. CASE Tick
  <2>1. /\ ticks' = ticks + 1 /\ clock' = clock + 1 /\ Credit' = Credit
        /\ UNCHANGED <<pc, now, size, mtime, lock, told>>
    BY <1>1, <1>3, <1>4 DEF Tick
  <2>2. ASSUME NEW i \in 1 .. Len(told), Settled(i) PROVE Settled(i)'
    <3>1. told[i] \in Nat
      OBVIOUS
    <3> QED BY <2>1, <2>2, <3>1 DEF Settled, Fresh
  <2> QED BY <2>1, <2>2, CreditStands
<1>5. CASE StepBack
  <2>1. Credit' = Credit + 1 /\ told' = told /\ ticks' = ticks
    BY <1>1, <1>3, <1>5 DEF StepBack, Mishap
  <2>2. Credit \in Nat
    BY CreditEnough
  <2> QED BY <2>1, <2>2, CreditGrows
<1>6. CASE Idle \/ UNCHANGED vars
  <2>1. UNCHANGED vars
    BY <1>6 DEF Idle
  <2>2. /\ told' = told /\ ticks' = ticks /\ Credit' = Credit
        /\ \A i \in 1 .. Len(told) : Settled(i)' <=> Settled(i)
    BY <1>1, <1>3, <2>1 DEF vars, Settled, Fresh
  <2> QED BY <2>2, CreditStands
<1> QED BY <1>2, <1>4, <1>5, <1>6

\* A new warning is excused by the credit there is, the others as before.
LEMMA WarnedNext ==
    ASSUME IInv, IInv', CreditInv', WarnedOnce, [Next]_vars
    PROVE  WarnedOnce'
<1> USE DEF IInv, TypeInv
<1>1. /\ Excused \in Nat /\ Excused' \in Nat /\ Excused' >= Excused
      /\ Credit' <= Excused'
  <2>1. trouble' \in Nat /\ trouble' >= trouble
    BY DEF Next, ChildStep, Flock, GivesUp, ReadTime, Stat, StatFails,
       ChildNotify, ChildTruncate, TruncateFails, ChildWrite, Unlock,
       StarterStep, StarterNotify, StarterTruncate, StarterWrite, Notify,
       Truncate, Write, Mishap, Crash, Tick, StepBack, Idle, vars
  <2>2. Started(pc) \in SUBSET Started(pc')
    BY DEF Next, ChildStep, Flock, GivesUp, ReadTime, Stat, StatFails,
       ChildNotify, ChildTruncate, TruncateFails, ChildWrite, Unlock,
       StarterStep, StarterNotify, StarterTruncate, StarterWrite, Notify,
       Truncate, Write, Crash, Tick, StepBack, Idle, vars, Goto, Started, Process
  <2>3. Cardinality(Started(pc)) <= Cardinality(Started(pc'))
    BY <2>2, Counts, FS_Subset
  <2>4. /\ Cardinality(Started(pc)) \in Nat
        /\ Cardinality(Started(pc')) \in Nat
        /\ Owed(pc') \in Int /\ Owed(pc') <= 3 * Cardinality(Started(pc'))
    BY Counts, OwedBound
  <2>5. /\ Excused = trouble + 3 * Cardinality(Started(pc))
        /\ Excused' = trouble' + 3 * Cardinality(Started(pc'))
        /\ Credit' = trouble' + Owed(pc')
    BY DEF Excused, Started, Credit
  <2>6. trouble \in Nat
    OBVIOUS
  <2> HIDE DEF IInv, TypeInv
  <2> QED BY <2>1, <2>3, <2>4, <2>5, <2>6
<1>2. told' = told \/ (told' = Append(told, ticks) /\ ticks' = ticks)
  <2> HIDE DEF IInv, TypeInv
  <2>1. CASE \E c \in Child : ChildStep(c)
    BY <2>1 DEF ChildStep, Flock, GivesUp, ReadTime, Stat, StatFails,
       ChildNotify, ChildTruncate, TruncateFails, ChildWrite, Unlock, Notify,
       Truncate, Write, timeVars
  <2>2. CASE \E s \in Starter : StarterStep(s)
    BY <2>2 DEF StarterStep, StarterNotify, GivesUp, StarterTruncate,
       TruncateFails, StarterWrite, Notify, Truncate, Write, timeVars
  <2> QED BY <2>1, <2>2 DEF Next, Crash, Tick, StepBack, Idle, vars
<1>3. DOMAIN told = 1 .. Len(told) /\ Len(told) \in Nat
  BY LenProperties
<1>4. CASE told' = told
  BY <1>1, <1>3, <1>4 DEF WarnedOnce
<1>5. CASE told' = Append(told, ticks) /\ ticks' = ticks
  <2>1. /\ DOMAIN told' = 1 .. Len(told) + 1 /\ Len(told') = Len(told) + 1
        /\ told'[Len(told) + 1] = ticks
        /\ \A i \in 1 .. Len(told) : told'[i] = told[i]
    BY <1>3, <1>5
  <2>2. ASSUME NEW i \in DOMAIN told', NEW j \in DOMAIN told',
               i < j, told'[j] - told'[i] < interval
        PROVE  j - i <= Excused'
    <3>1. CASE j = Len(told) + 1
      <4>1. Len(told') - i <= Credit'
        BY <1>5, <2>1, <2>2, <3>1 DEF CreditInv
      <4>2. Credit' \in Int
        <5>1. Owed(pc') \in Int /\ trouble' \in Nat
          BY OwedStays
        <5>2. Credit' = trouble' + Owed(pc')
          BY DEF Credit
        <5> QED BY <5>1, <5>2
      <4> QED BY SMTT(30), <1>1, <1>3, <2>1, <3>1, <4>1, <4>2
    <3>2. CASE j # Len(told) + 1
      <4>1. j \in DOMAIN told /\ i \in DOMAIN told
        <5> HIDE DEF IInv, TypeInv
        <5> QED BY <1>3, <2>1, <2>2, <3>2
      <4>2. j - i <= Excused
        BY <1>3, <2>1, <2>2, <4>1 DEF WarnedOnce
      <4> QED BY <1>1, <1>3, <4>1, <4>2
    <3> QED BY <3>1, <3>2
  <2> QED BY <2>2 DEF WarnedOnce
<1> QED BY <1>2, <1>4, <1>5

\* Within an interval there is one warning, however many sessions there are and
\* in whatever order they read the clock and the stamp; each mishap adds at
\* most one, each process that starts, and takes no lock, at most three.
THEOREM OnceCorrect == Spec => []WarnedOnce
<1>1. Init => CreditInv /\ WarnedOnce
  BY DEF Init, CreditInv, WarnedOnce
<1>2. ASSUME IInv, IInv', CreditInv, WarnedOnce, [Next]_vars
      PROVE  CreditInv' /\ WarnedOnce'
  <2>1. CreditInv'
    BY <1>2, ChildCredit, StarterCredit, OutsideCredit DEF Next
  <2> QED BY <1>2, <2>1, WarnedNext
<1> QED BY <1>1, <1>2, LockAlways, PTL DEF Spec
=============================================================================
