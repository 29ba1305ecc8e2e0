------------------------------- MODULE Stdin --------------------------------
(***************************************************************************)
(* The keyboard device of lab8 (kern/fs/devs/dev_stdin.c): a ring buffer   *)
(* that the clock interrupt fills and user processes read, asleep in       *)
(* WT_KBD while it is empty; and do_kill of a reader.                      *)
(*                                                                         *)
(* dev_stdin_read runs in a system call, with interrupts off: what it does *)
(* up to schedule() is one action.  A process that does not read does      *)
(* nothing here but use its time slice, and exits when it is killed.       *)
(***************************************************************************)
EXTENDS Sched, SequencesExt

CONSTANTS STDIN_BUFSIZE,   \* the size of the ring buffer
          MaxLen,          \* bound on the length a process asks for
          MaxTyped         \* bound on the characters typed

ASSUME SizeAssumption == STDIN_BUFSIZE \in Nat \ {0} /\ MaxLen \in Nat /\ MaxTyped \in Nat

VARIABLES buffer,      \* stdin_buffer; the n-th character typed is n
          rpos, wpos,  \* p_rpos, p_wpos
          waitQueue,   \* wait_queue: the processes, in order
          flags,       \* wakeup_flags in the wait_t of a process
          pc,          \* where a process continues
          want,        \* the characters its dev_stdin_read has yet to deliver
          exiting,     \* proc->flags & PF_EXITING
          typed,       \* how many characters have been typed
          read         \* history: the characters delivered, in order

devVars == <<buffer, rpos, wpos, waitQueue, flags>>
vars == <<schedVars, devVars, pc, want, exiting, typed, read>>

TypeOK ==
    /\ SchedTypeOK
    /\ buffer \in [0 .. STDIN_BUFSIZE - 1 -> 0 .. MaxTyped]
    /\ rpos \in Nat /\ wpos \in Nat
    /\ wpos - rpos \in 0 .. STDIN_BUFSIZE
    /\ waitQueue \in Seq(Procs)
    /\ flags \in [Procs -> {"INTERRUPTED", "KBD"}]
    /\ pc \in [Procs -> {"user", "trapret", "reading", "readWait", "exited"}]
    /\ want \in [Procs -> 0 .. MaxLen]
    /\ exiting \in [Procs -> BOOLEAN]
    /\ typed \in 0 .. MaxTyped
    /\ read \in Seq(1 .. MaxTyped)

Init ==
    /\ state = [p \in Threads |-> "RUNNABLE"]
    /\ waitState = [p \in Threads |-> "NONE"]
    /\ rq = [p \in Threads |-> IF p = idle THEN 0 ELSE 1]
    /\ current = idle
    /\ inSched = FALSE
    /\ needResched = [p \in Threads |-> p = idle]
    /\ buffer = [i \in 0 .. STDIN_BUFSIZE - 1 |-> 0]
    /\ rpos = 0 /\ wpos = 0
    /\ waitQueue = <<>>
    /\ flags = [p \in Procs |-> "INTERRUPTED"]
    /\ pc = [p \in Procs |-> "user"]
    /\ want = [p \in Procs |-> 0]
    /\ exiting = [p \in Procs |-> FALSE]
    /\ typed = 0
    /\ read = <<>>

-----------------------------------------------------------------------------
\* Where dev_stdin_write stands after one more character.
Advanced == IF wpos - rpos < STDIN_BUFSIZE THEN wpos + 1 ELSE wpos

\* How many processes wakeup_queue takes from the front of the wait queue and
\* wakes: all.  Mutant: one.
WokenCount_First == IF waitQueue = <<>> THEN 0 ELSE 1
WokenCount == Len(waitQueue)

Woken == {waitQueue[i] : i \in 1 .. WokenCount}

\* dev_stdin_write: store the character, in a full buffer over the oldest one,
\* and wake the readers.
StdinWrite(c) ==
    /\ buffer' = [buffer EXCEPT ![wpos % STDIN_BUFSIZE] = c]
    /\ wpos' = Advanced
    /\ flags' = [p \in Procs |-> IF p \in Woken THEN "KBD" ELSE flags[p]]
    /\ waitQueue' = SubSeq(waitQueue, WokenCount + 1, Len(waitQueue))
    /\ state' = WokenState(state, Woken)
    /\ waitState' = WokenWait(waitState, state, Woken)
    /\ rq' = WokenQueue(rq, state, Woken)
    /\ UNCHANGED rpos

\* The clock interrupt, in user mode or in idleproc: deliver a character if one
\* has come, and look at the time slice.
Tick(sliceEnds) ==
    /\ current # idle => ~inSched /\ pc[current] = "user"
    /\ \/ /\ typed < MaxTyped
          /\ typed' = typed + 1
          /\ StdinWrite(typed')
       \/ UNCHANGED <<typed, devVars, state, waitState, rq>>
    /\ ProcTick(sliceEnds)
    /\ pc' = IF current = idle THEN pc ELSE [pc EXCEPT ![current] = "trapret"]
    /\ UNCHANGED <<current, inSched, want, exiting, read>>

-----------------------------------------------------------------------------
\* sys_read of n characters.
Read(p, n) ==
    /\ Running(p)
    /\ pc[p] = "user"
    /\ want' = [want EXCEPT ![p] = n]
    /\ pc' = [pc EXCEPT ![p] = "reading"]
    /\ UNCHANGED <<schedVars, devVars, exiting, typed, read>>

\* The n characters in the buffer from p_rpos on.
Buffered(n) == [i \in 1 .. n |-> buffer[(rpos + i - 1) % STDIN_BUFSIZE]]

\* dev_stdin_read takes n characters.  Mutant: p_rpos is left behind by one
\* when the buffer becomes empty.
Consumed_Behind(n) == IF rpos + n = wpos /\ n > 1 THEN rpos + n - 1 ELSE rpos + n
Consumed(n) == rpos + n

Take(n) ==
    /\ rpos' = Consumed(n)
    /\ read' = read \o Buffered(n)

\* There are as many characters as wanted.
ReadReturns(p) ==
    /\ Running(p)
    /\ pc[p] = "reading"
    /\ want[p] <= wpos - rpos
    /\ Take(want[p])
    /\ want' = [want EXCEPT ![p] = 0]
    /\ pc' = [pc EXCEPT ![p] = "trapret"]
    /\ UNCHANGED <<schedVars, buffer, wpos, waitQueue, flags, exiting, typed>>

\* There are not: take them all, and sleep.
ReadSleeps(p) ==
    /\ Running(p)
    /\ pc[p] = "reading"
    /\ want[p] > wpos - rpos
    /\ Take(wpos - rpos)
    /\ want' = [want EXCEPT ![p] = @ - (wpos - rpos)]
    /\ pc' = [pc EXCEPT ![p] = "readWait"]
    /\ state' = [state EXCEPT ![p] = "SLEEPING"]
    /\ waitState' = [waitState EXCEPT ![p] = "KBD"]
    /\ flags' = [flags EXCEPT ![p] = "INTERRUPTED"]
    /\ waitQueue' = Append(waitQueue, p)
    /\ inSched' = TRUE
    /\ UNCHANGED <<rq, current, needResched, buffer, wpos, exiting, typed>>

\* wait_current_del, if the wait_t is still linked.  Mutant: it is left out.
Unqueued_Not(p) == waitQueue
Unqueued(p) == RemoveFirst(waitQueue, p)

\* Back from schedule(): try again if a character has come, else return what
\* there is.
ReadWoken(p) ==
    /\ Running(p)
    /\ pc[p] = "readWait"
    /\ waitQueue' = Unqueued(p)
    /\ \/ /\ flags[p] = "KBD"
          /\ pc' = [pc EXCEPT ![p] = "reading"]
          /\ UNCHANGED want
       \/ /\ flags[p] # "KBD"
          /\ pc' = [pc EXCEPT ![p] = "trapret"]
          /\ want' = [want EXCEPT ![p] = 0]
    /\ UNCHANGED <<schedVars, buffer, rpos, wpos, flags, exiting, typed, read>>

-----------------------------------------------------------------------------
\* do_kill(t): wake it from an interruptible sleep, once.
Kill(p, t) ==
    /\ Running(p)
    /\ pc[p] = "user"
    /\ exiting' = [exiting EXCEPT ![t] = TRUE]
    /\ LET wake == {q \in {t} : ~exiting[q] /\ Interruptible(waitState[q])}
       IN /\ state' = WokenState(state, wake)
          /\ waitState' = WokenWait(waitState, state, wake)
          /\ rq' = WokenQueue(rq, state, wake)
    /\ pc' = [pc EXCEPT ![p] = "trapret"]
    /\ UNCHANGED <<current, inSched, needResched, devVars, want, typed, read>>

\* The end of trap(): exit if killed, and call schedule() if asked to.
TrapReturn(p) ==
    /\ Running(p)
    /\ pc[p] = "trapret"
    /\ \/ /\ exiting[p]
          /\ state' = [state EXCEPT ![p] = "ZOMBIE"]
          /\ pc' = [pc EXCEPT ![p] = "exited"]
          /\ inSched' = TRUE
       \/ /\ ~exiting[p]
          /\ pc' = [pc EXCEPT ![p] = "user"]
          /\ inSched' = needResched[p]
          /\ UNCHANGED state
    /\ UNCHANGED <<waitState, rq, current, needResched, devVars, want, exiting, typed, read>>

others == <<devVars, pc, want, exiting, typed, read>>
Switch == Schedule /\ UNCHANGED others
Idle == CpuIdle /\ UNCHANGED others

KernelStep ==
    \/ Switch
    \/ Idle
    \/ \E p \in Procs : ReadReturns(p) \/ ReadSleeps(p) \/ ReadWoken(p) \/ TrapReturn(p)

Next ==
    \/ KernelStep
    \/ \E p \in Procs : \E t \in Procs : Kill(p, t)
    \/ \E p \in Procs, n \in 1 .. MaxLen : Read(p, n)
    \/ \E sliceEnds \in BOOLEAN : Tick(sliceEnds)

Spec == Init /\ [][Next]_vars

\* Kernel code goes on, time slices end, and every queued process is picked.
Fairness ==
    /\ WF_vars(KernelStep)
    /\ SF_vars(Tick(TRUE))
    /\ \A p \in Procs : SF_vars(Switch /\ current' = p)

FairSpec == Spec /\ Fairness
-----------------------------------------------------------------------------
\* No lost wakeup: a reader sleeps only while the buffer is empty.
NoLostChar == \A p \in Procs : waitState[p] = "KBD" => rpos = wpos

\* A process is in the wait queue at most once, and only inside the sleep of
\* dev_stdin_read -- the wait_t is on its stack -- and is in it as long as it
\* sleeps there.  (And every variable has its type.)
QueueExact ==
    /\ TypeOK
    /\ IsInjective(waitQueue)
    /\ \A p \in Procs :
           /\ Contains(waitQueue, p) => pc[p] = "readWait"
           /\ waitState[p] = "KBD" => Contains(waitQueue, p)

L == INSTANCE LineBuffer WITH
        SIZE <- STDIN_BUFSIZE, Chars <- 1 .. MaxTyped, line <- Buffered(wpos - rpos)

\* The ring buffer delivers the characters once each and in order, but for the
\* one it drops when it is full.
RingIsLine == L!Spec

\* A character wakes the readers: one of them reads it.
CharIsRead ==
    (\E p \in Procs : pc[p] \in {"reading", "readWait"} /\ wpos > rpos)
        ~> (wpos = rpos \/ \A p \in Procs : pc[p] \notin {"reading", "readWait"})
=============================================================================
