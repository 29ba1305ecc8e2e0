----------------------------- MODULE TimerList ------------------------------
(***************************************************************************)
(* The timer list of lab8 (kern/schedule/sched.c: add_timer, del_timer,    *)
(* run_timer_list).  timer_list is ordered by time, and a timer keeps only *)
(* the number of ticks by which it fires later than the timer before it,   *)
(* so that a tick touches the head alone.                                  *)
(*                                                                         *)
(* The three functions run with interrupts off.  run_timer_list and        *)
(* del_timer are one action each; add_timer walks through the list, a      *)
(* round of its loop a step.  A timer is named by the process that sleeps  *)
(* on it, in do_sleep.                                                     *)
(***************************************************************************)
EXTENDS Naturals, SequencesExt

CONSTANTS Procs, MaxTime, NoProc

ASSUME TimeAssumption == MaxTime \in Nat
ASSUME NoProcAssumption == NoProc \notin Procs

VARIABLES timer_list,  \* the processes with a timer, in the order of the list
          expires,     \* timer->expires
          adding,      \* the process for which add_timer walks, or NoProc
          le,          \* the position add_timer has reached in timer_list
          woken,       \* the processes the last run_timer_list has woken
          left         \* history: the ticks until a timer has to fire (Timers)

vars == <<timer_list, expires, adding, le, woken, left>>

TypeOK ==
    /\ timer_list \in Seq(Procs)
    /\ expires \in [Procs -> 0 .. MaxTime]
    /\ adding \in Procs \cup {NoProc}
    /\ le \in 1 .. Len(timer_list) + 1
    /\ woken \subseteq Procs
    /\ left \in [Procs -> 0 .. MaxTime]

Init ==
    /\ timer_list = <<>>
    /\ expires = [p \in Procs |-> 0]
    /\ adding = NoProc
    /\ le = 1
    /\ woken = {}
    /\ left = [p \in Procs |-> 0]

Listed(p) == \E i \in 1 .. Len(timer_list) : timer_list[i] = p

-----------------------------------------------------------------------------
\* timer_init and add_timer: start at the head of the list.
AddTimer(p, n) ==
    /\ adding = NoProc
    /\ ~Listed(p)
    /\ adding' = p
    /\ expires' = [expires EXCEPT ![p] = n]
    /\ le' = 1
    /\ woken' = {}
    /\ left' = [left EXCEPT ![p] = n]
    /\ UNCHANGED timer_list

\* The test that ends the walk: adding fires before the timer of q.
Before(q) == expires[adding] < expires[q]

\* Go on behind the timer at le.
Walk ==
    /\ adding # NoProc
    /\ le <= Len(timer_list)
    /\ ~Before(timer_list[le])
    /\ expires' = [expires EXCEPT ![adding] = @ - expires[timer_list[le]]]
    /\ le' = le + 1
    /\ UNCHANGED <<timer_list, adding, woken, left>>

\* Link adding before the timer at le, or at the end of the list.
\* Mutant: the timer behind keeps its distance to the one before.
Shortened_Not == expires
Shortened ==
    IF le <= Len(timer_list)
      THEN [expires EXCEPT ![timer_list[le]] = @ - expires[adding]]
      ELSE expires

Link ==
    /\ adding # NoProc
    /\ le <= Len(timer_list) => Before(timer_list[le])
    /\ expires' = Shortened
    /\ timer_list' = InsertAt(timer_list, le, adding)
    /\ adding' = NoProc
    /\ le' = 1
    /\ UNCHANGED <<woken, left>>

\* del_timer of a timer that is linked at i: the one behind it inherits its
\* ticks.
Lengthened(i) ==
    IF i < Len(timer_list)
      THEN [expires EXCEPT ![timer_list[i + 1]] = @ + expires[timer_list[i]]]
      ELSE expires

\* del_timer: a process woken by do_kill deletes its timer; after an expired
\* timer there is nothing to delete.
DelTimer(p) ==
    /\ adding = NoProc
    /\ \/ \E i \in 1 .. Len(timer_list) :
              /\ timer_list[i] = p
              /\ expires' = Lengthened(i)
              /\ timer_list' = RemoveAt(timer_list, i)
       \/ ~Listed(p) /\ UNCHANGED <<expires, timer_list>>
    /\ woken' = {}
    /\ left' = [left EXCEPT ![p] = 0]
    /\ UNCHANGED <<adding, le>>

\* expires after the head has lost a tick.
Decremented ==
    IF timer_list = <<>> THEN expires ELSE [expires EXCEPT ![timer_list[1]] = @ - 1]

\* run_timer_list wakes the head, and those behind it, as long as their time
\* is up.
Expired ==
    {i \in 1 .. Len(timer_list) :
        \A j \in 1 .. i : Decremented[timer_list[j]] = 0}

\* run_timer_list, called at every clock interrupt.
RunTimerList ==
    /\ adding = NoProc
    /\ expires' = Decremented
    /\ \E k \in 0 .. Len(timer_list) :
           /\ Expired = 1 .. k
           /\ timer_list' = SubSeq(timer_list, k + 1, Len(timer_list))
    /\ woken' = {timer_list[i] : i \in Expired}
    /\ left' = [p \in Procs |-> IF left[p] = 0 THEN 0 ELSE left[p] - 1]
    /\ UNCHANGED <<adding, le>>

Next ==
    \/ \E p \in Procs : DelTimer(p) \/ \E n \in 1 .. MaxTime : AddTimer(p, n)
    \/ Walk
    \/ Link
    \/ RunTimerList

Spec == Init /\ [][Next]_vars
-----------------------------------------------------------------------------
T == INSTANCE Timers

\* A process is woken exactly at the tick its timer is set for, however many
\* timers have been added before and after it or deleted meanwhile.
FiresOnTime == T!Spec

\* The assertion of run_timer_list: the timer at the head has a tick left,
\* since run_timer_list removes every timer whose time is up.
HeadNotExpired ==
    timer_list # <<>> /\ adding = NoProc => expires[timer_list[1]] # 0
=============================================================================
