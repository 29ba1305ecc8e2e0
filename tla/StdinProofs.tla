----------------------------- MODULE StdinProofs ----------------------------
(***************************************************************************)
(* The keyboard device of lab8 loses no wakeup and keeps its wait queue    *)
(* exact, and its ring buffer is the line that LineBuffer describes, for   *)
(* any processes, any size of the buffer and any number of characters.     *)
(***************************************************************************)
EXTENDS Stdin, SchedProofs, SequenceTheorems

\* A reader that waits is in the queue, once, and nobody else is.
QueueInv ==
    /\ IsInjective(waitQueue)
    /\ \A p \in Procs :
           /\ Contains(waitQueue, p) => pc[p] = "readWait"
           /\ waitState[p] = "KBD" => Contains(waitQueue, p)
           /\ waitState[p] \in {"NONE", "KBD"}

\* What lies between p_rpos and p_wpos has been typed.
BufferedTyped ==
    \A i \in 1 .. wpos - rpos : buffer[(rpos + i - 1) % STDIN_BUFSIZE] \in 1 .. MaxTyped

Inv ==
    /\ TypeOK
    /\ SchedExact
    /\ QueueInv
    /\ NoLostChar
    /\ BufferedTyped
-----------------------------------------------------------------------------
(* Positions in the ring *)

\* A remainder is the only one.
LEMMA ModUnique ==
    ASSUME NEW S \in Nat \ {0}, NEW q \in Int, NEW r \in 0 .. S - 1
    PROVE  (S * q + r) % S = r
  OBVIOUS

\* The quotient and the remainder by their names.
LEMMA ModQuotient ==
    ASSUME NEW S \in Nat \ {0}, NEW a \in Nat
    PROVE  \E q \in Int, r \in 0 .. S - 1 : a = S * q + r /\ a % S = r
  <1>1. a = S * (a \div S) + (a % S) /\ a % S \in 0 .. S - 1 /\ a \div S \in Int
    OBVIOUS
  <1> QED
    BY <1>1

\* A position comes back after STDIN_BUFSIZE steps.
LEMMA ModPeriod ==
    ASSUME NEW S \in Nat \ {0}, NEW a \in Nat
    PROVE  (a + S) % S = a % S
  <1>1. PICK q \in Int, r \in 0 .. S - 1 : a = S * q + r /\ a % S = r
    BY ModQuotient
  <1>2. a + S = S * (q + 1) + r /\ q + 1 \in Int
    BY <1>1
  <1>3. (S * (q + 1) + r) % S = r
    BY <1>2, ModUnique
  <1> QED
    BY <1>1, <1>2, <1>3

\* And not before.
LEMMA ModDistinct ==
    ASSUME NEW S \in Nat \ {0}, NEW a \in Nat, NEW d \in 1 .. S - 1
    PROVE  (a + d) % S # a % S
  <1>1. PICK q \in Int, r \in 0 .. S - 1 : a = S * q + r /\ a % S = r
    BY ModQuotient
  <1>2. CASE r + d < S
    <2>1. (S * q + (r + d)) % S = r + d
      BY <1>1, <1>2, ModUnique
    <2> QED
      BY <1>1, <2>1
  <1>3. CASE r + d >= S
    <2>1. q + 1 \in Int /\ r + d - S \in 0 .. S - 1
      BY <1>3
    <2>2. (S * (q + 1) + (r + d - S)) % S = r + d - S
      BY <2>1, ModUnique
    <2>3. S * (q + 1) + (r + d - S) = a + d
      BY <1>1
    <2> QED
      BY <1>1, <2>2, <2>3
  <1> QED
    BY <1>1, <1>2, <1>3

\* What TypeOK says of the numbers.
LEMMA Ring ==
    ASSUME TypeOK
    PROVE  /\ STDIN_BUFSIZE \in Nat \ {0} /\ MaxTyped \in Nat /\ MaxLen \in Nat
           /\ rpos \in Nat /\ wpos \in Nat /\ wpos - rpos \in Nat
           /\ wpos - rpos <= STDIN_BUFSIZE
           /\ \A p \in Procs : want[p] \in Nat /\ want[p] <= MaxLen
  BY SizeAssumption DEF TypeOK

\* Every position has a place in the ring.
LEMMA Place ==
    ASSUME NEW a \in Nat
    PROVE  a % STDIN_BUFSIZE \in 0 .. STDIN_BUFSIZE - 1
  BY SizeAssumption

\* Buffered(n) is a sequence of n elements, the i-th at its place in the ring.
LEMMA BufferedIs ==
    ASSUME TypeOK, NEW n \in Nat
    PROVE  /\ Buffered(n) \in Seq(0 .. MaxTyped)
           /\ Len(Buffered(n)) = n
           /\ \A i \in 1 .. n : Buffered(n)[i] = buffer[(rpos + i - 1) % STDIN_BUFSIZE]
           /\ BufferedTyped /\ n <= wpos - rpos => Buffered(n) \in Seq(1 .. MaxTyped)
  <1>1. \A i \in 1 .. n : rpos + i - 1 \in Nat
    BY Ring
  <1>2. \A i \in 1 .. n : buffer[(rpos + i - 1) % STDIN_BUFSIZE] \in 0 .. MaxTyped
    BY <1>1, Place DEF TypeOK
  <1>3. Buffered(n) \in Seq(0 .. MaxTyped) /\ Len(Buffered(n)) = n
    BY <1>2 DEF Buffered
  <1>4. ASSUME BufferedTyped, n <= wpos - rpos PROVE Buffered(n) \in Seq(1 .. MaxTyped)
    <2>1. \A i \in 1 .. n : buffer[(rpos + i - 1) % STDIN_BUFSIZE] \in 1 .. MaxTyped
      <3>1. \A i \in 1 .. n : i \in 1 .. wpos - rpos
        BY <1>4, Ring
      <3> QED
        BY <1>4, <3>1 DEF BufferedTyped
    <2> QED
      BY <2>1 DEF Buffered
  <1> QED
    BY <1>3, <1>4 DEF Buffered

-----------------------------------------------------------------------------
(* The wait queue *)

\* wait_current_del takes a process out, and nobody else.
LEMMA RemoveFirstIs ==
    ASSUME NEW q \in Seq(Procs), NEW p \in Procs, IsInjective(q)
    PROVE  /\ RemoveFirst(q, p) \in Seq(Procs)
           /\ IsInjective(RemoveFirst(q, p))
           /\ \A x \in Procs : Contains(RemoveFirst(q, p), x) <=> Contains(q, x) /\ x # p
  <1>1. CASE ~Contains(q, p)
    <2>1. RemoveFirst(q, p) = q
      BY <1>1 DEF RemoveFirst, Contains
    <2> QED
      BY <1>1, <2>1
  <1>2. CASE Contains(q, p)
    <2>1. PICK k \in 1 .. Len(q) : q[k] = p
      BY <1>2 DEF Contains
    <2>2. {i \in 1 .. Len(q) : q[i] = p} = {k}
      BY <2>1 DEF IsInjective
    <2>3. SelectInSeq(q, LAMBDA v : v = p) = k
      <3>1. Min({k}) = k
        BY DEF Min
      <3> QED
        BY <2>2, <3>1 DEF SelectInSeq
    <2> DEFINE a == SubSeq(q, 1, k - 1)
               c == SubSeq(q, k + 1, Len(q))
               r == a \o c
    <2>4. RemoveFirst(q, p) = r
      BY <1>2, <2>3 DEF RemoveFirst, RemoveAt, Contains
    <2>5. /\ a \in Seq(Procs) /\ Len(a) = k - 1
          /\ \A j \in 1 .. k - 1 : a[j] = q[j]
      BY SubSeqProperties
    <2>6. /\ c \in Seq(Procs) /\ Len(c) = Len(q) - k
          /\ \A j \in 1 .. Len(q) - k : c[j] = q[k + j]
      BY SubSeqProperties
    <2> HIDE DEF a, c
    <2>7. /\ r \in Seq(Procs) /\ Len(r) = Len(q) - 1
          /\ \A j \in 1 .. Len(q) - 1 :
                 r[j] = IF j <= k - 1 THEN a[j] ELSE c[j - (k - 1)]
      <3>1. /\ r \in Seq(Procs) /\ Len(r) = Len(a) + Len(c)
            /\ \A j \in 1 .. Len(a) + Len(c) :
                   r[j] = IF j <= Len(a) THEN a[j] ELSE c[j - Len(a)]
        BY <2>5, <2>6, ConcatProperties, Zenon
      <3> HIDE DEF r
      <3> QED
        BY <2>5, <2>6, <3>1
    <2> HIDE DEF r
    <2>8. /\ Len(r) = Len(q) - 1 /\ DOMAIN r = 1 .. Len(q) - 1 /\ DOMAIN q = 1 .. Len(q)
          /\ \A j \in 1 .. Len(q) - 1 :
                 \E m \in 1 .. Len(q) : r[j] = q[m] /\ m = IF j < k THEN j ELSE j + 1
      <3>1. Len(r) = Len(q) - 1 /\ DOMAIN r = 1 .. Len(q) - 1 /\ DOMAIN q = 1 .. Len(q)
        BY <2>5, <2>6, <2>7
      <3>2. ASSUME NEW j \in 1 .. Len(q) - 1, j < k PROVE r[j] = q[j]
        <4>1. j \in 1 .. k - 1 /\ j <= k - 1
          BY <3>2
        <4>2. r[j] = a[j]
          BY <2>7, <4>1
        <4> QED
          BY <2>5, <4>1, <4>2
      <3>3. ASSUME NEW j \in 1 .. Len(q) - 1, ~(j < k) PROVE r[j] = q[j + 1]
        <4>1. j - (k - 1) \in 1 .. Len(q) - k /\ k + (j - (k - 1)) = j + 1 /\ ~(j <= k - 1)
          BY <3>3
        <4>2. r[j] = c[j - (k - 1)]
          BY <2>7, <4>1
        <4> QED
          BY <2>6, <4>1, <4>2
      <3> QED
        BY <3>1, <3>2, <3>3
    <2>9. IsInjective(r)
      BY <2>8 DEF IsInjective
    <2>10. ASSUME NEW x \in Procs, Contains(r, x) PROVE Contains(q, x) /\ x # p
      <3>1. PICK j \in 1 .. Len(q) - 1 : r[j] = x
        BY <2>8, <2>10 DEF Contains
      <3>2. PICK m \in 1 .. Len(q) : x = q[m] /\ m = IF j < k THEN j ELSE j + 1
        BY <2>8, <3>1
      <3>3. m # k
        BY <3>2
      <3> QED
        BY <2>1, <2>8, <3>2, <3>3 DEF Contains, IsInjective
    <2>11. ASSUME NEW x \in Procs, Contains(q, x), x # p PROVE Contains(r, x)
      <3>1. PICK m \in 1 .. Len(q) : q[m] = x /\ m # k
        BY <2>1, <2>11 DEF Contains
      <3>2. CASE m < k
        BY <2>8, <3>1, <3>2 DEF Contains
      <3>3. CASE m > k
        <4>1. m - 1 \in 1 .. Len(q) - 1 /\ ~(m - 1 < k) /\ m - 1 + 1 = m
          BY <3>3
        <4>2. r[m - 1] = x
          BY <2>8, <3>1, <4>1
        <4> QED
          BY <2>8, <4>1, <4>2 DEF Contains
      <3> QED
        BY <3>1, <3>2, <3>3
    <2> QED
      BY <2>4, <2>7, <2>9, <2>10, <2>11
  <1> QED
    BY <1>1, <1>2

\* wait_queue_add puts a process that is not in the queue at its end.
LEMMA AppendIs ==
    ASSUME NEW q \in Seq(Procs), NEW p \in Procs, IsInjective(q), ~Contains(q, p)
    PROVE  /\ Append(q, p) \in Seq(Procs)
           /\ IsInjective(Append(q, p))
           /\ \A x \in Procs : Contains(Append(q, p), x) <=> Contains(q, x) \/ x = p
  BY DEF IsInjective, Contains

\* dev_stdin_write wakes all that wait.
LEMMA WokenIs ==
    ASSUME TypeOK
    PROVE  /\ Woken \in SUBSET Procs /\ Woken \in SUBSET Threads
           /\ \A p \in Procs : p \in Woken <=> Contains(waitQueue, p)
           /\ SubSeq(waitQueue, WokenCount + 1, Len(waitQueue)) = <<>>
  <1>1. waitQueue \in Seq(Procs) /\ Len(waitQueue) \in Nat
    BY DEF TypeOK
  <1>2. SubSeq(waitQueue, WokenCount + 1, Len(waitQueue)) = <<>>
    BY <1>1, SubSeqEmpty DEF WokenCount
  <1> QED
    BY <1>1, <1>2 DEF Woken, WokenCount, Contains, Threads
-----------------------------------------------------------------------------
(* Inv is inductive *)

\* The buffer and the queue start empty, and nobody sleeps.
LEMMA InitInv == Init => Inv
  <1> SUFFICES ASSUME Init PROVE Inv
    OBVIOUS
  <1>1. SchedTypeOK
    BY DEF Init, SchedTypeOK, Threads, PState, WState
  <1>2. SchedExact
    BY <1>1 DEF Init, SchedExact, RunQueueExact, SleepHasReason, CurrentCanRun, Threads
  <1>3. TypeOK
    BY <1>1, SizeAssumption DEF Init, TypeOK
  <1>4. QueueInv /\ NoLostChar /\ BufferedTyped
    BY DEF Init, QueueInv, NoLostChar, BufferedTyped, IsInjective, Contains, Threads
  <1> QED
    BY <1>2, <1>3, <1>4 DEF Inv

\* The process that owns the CPU sleeps for nothing.
LEMMA RunningIsAwake ==
    ASSUME Inv, NEW p \in Procs, Running(p)
    PROVE  p \in Threads /\ waitState[p] = "NONE"
  BY DEF Inv, SchedExact, CurrentCanRun, SleepHasReason, Running, Threads

\* dev_stdin_write wakes every reader: none is left asleep beside a character.
LEMMA WriteInv ==
    ASSUME Inv, NEW sliceEnds \in BOOLEAN, Tick(sliceEnds),
           typed' = typed + 1, typed < MaxTyped, StdinWrite(typed')
    PROVE  Inv'
  <1>1. /\ Woken \in SUBSET Procs /\ Woken \in SUBSET Threads
        /\ \A p \in Procs : p \in Woken <=> Contains(waitQueue, p)
        /\ waitQueue' = <<>>
    BY WokenIs DEF StdinWrite, Inv
  <1>2. /\ waitState' = WokenWait(waitState, state, Woken)
        /\ buffer' = [buffer EXCEPT ![wpos % STDIN_BUFSIZE] = typed']
        /\ wpos' = Advanced /\ rpos' = rpos
        /\ flags' = [p \in Procs |-> IF p \in Woken THEN "KBD" ELSE flags[p]]
        /\ UNCHANGED <<want, exiting, read>>
        /\ pc' = IF current = idle THEN pc ELSE [pc EXCEPT ![current] = "trapret"]
        /\ current # idle => pc[current] = "user"
    BY DEF StdinWrite, Tick
  <1>3. SchedExact'
    BY <1>1, WakeKeeps, ProcTickTypes DEF Tick, StdinWrite, Inv, SchedExact
  <1>4. typed' \in 1 .. MaxTyped
    BY Ring DEF Inv, TypeOK
  <1>5. wpos' \in Nat /\ wpos' - rpos' \in 0 .. STDIN_BUFSIZE
    BY <1>2, Ring DEF Inv, Advanced
  <1>6. TypeOK'
    <2>1. pc' \in [Procs -> {"user", "trapret", "reading", "readWait", "exited"}]
      BY <1>2 DEF Inv, TypeOK
    <2>2. buffer' \in [0 .. STDIN_BUFSIZE - 1 -> 0 .. MaxTyped]
      <3>1. typed' \in 0 .. MaxTyped /\ buffer \in [0 .. STDIN_BUFSIZE - 1 -> 0 .. MaxTyped]
        BY <1>4 DEF Inv, TypeOK
      <3> QED
        BY <1>2, <3>1, Zenon
    <2>3. flags' \in [Procs -> {"INTERRUPTED", "KBD"}] /\ waitQueue' \in Seq(Procs)
      BY <1>1, <1>2 DEF Inv, TypeOK
    <2>4. /\ want \in [Procs -> 0 .. MaxLen] /\ exiting \in [Procs -> BOOLEAN]
          /\ read \in Seq(1 .. MaxTyped) /\ rpos \in Nat
      BY DEF Inv, TypeOK
    <2>5. UNCHANGED <<want, exiting, read, rpos>>
      BY <1>2
    <2>6. SchedTypeOK' /\ typed' \in 0 .. MaxTyped
      BY <1>3, <1>4 DEF SchedExact
    <2> QED
      BY <1>5, <2>1, <2>2, <2>3, <2>4, <2>5, <2>6 DEF TypeOK
  <1>7. \A p \in Procs : waitState'[p] = "NONE"
    <2>1. ASSUME NEW p \in Procs, waitState[p] = "KBD" PROVE p \in Asleep(state, Woken)
      BY <1>1, <2>1 DEF Inv, QueueInv, SchedExact, SleepHasReason, Asleep, Threads
    <2> QED
      BY <1>2, <2>1 DEF Inv, QueueInv, WokenWait, Threads
  <1>8. QueueInv' /\ NoLostChar'
    BY <1>1, <1>7 DEF QueueInv, NoLostChar, IsInjective, Contains
  <1>9. BufferedTyped'
    <2> SUFFICES ASSUME NEW i \in 1 .. wpos' - rpos
                 PROVE  buffer'[(rpos + i - 1) % STDIN_BUFSIZE] \in 1 .. MaxTyped
      BY <1>2 DEF BufferedTyped
    <2> DEFINE k == (rpos + i - 1) % STDIN_BUFSIZE
    <2>1. k \in 0 .. STDIN_BUFSIZE - 1 /\ DOMAIN buffer = 0 .. STDIN_BUFSIZE - 1
      <3>1. rpos \in Nat /\ wpos' \in Nat /\ rpos + i - 1 \in Nat
        BY <1>5, Ring DEF Inv
      <3>2. DOMAIN buffer = 0 .. STDIN_BUFSIZE - 1
        BY DEF Inv, TypeOK
      <3> QED
        BY <3>1, <3>2, Place
    <2>2. CASE i \in 1 .. wpos - rpos
      <3>1. buffer[k] \in 1 .. MaxTyped
        BY <2>2 DEF Inv, BufferedTyped
      <3> HIDE DEF k
      <3>2. buffer'[k] = buffer[k] \/ buffer'[k] = typed'
        BY <1>2, <2>1
      <3> QED
        BY <1>4, <3>1, <3>2 DEF k
    <2>3. CASE i \notin 1 .. wpos - rpos
      <3>1. rpos + i - 1 = wpos
        BY <1>2, <2>3, Ring DEF Advanced, Inv
      <3>2. k = wpos % STDIN_BUFSIZE
        BY <3>1
      <3> HIDE DEF k
      <3>3. buffer'[k] = typed'
        BY <1>2, <2>1, <3>2
      <3> QED
        BY <1>4, <3>3 DEF k
    <2> QED
      BY <2>2, <2>3
  <1> QED
    BY <1>3, <1>6, <1>8, <1>9 DEF Inv

\* A clock interrupt keeps Inv, with a character or without.
LEMMA TickInv ==
    ASSUME Inv, NEW sliceEnds \in BOOLEAN, Tick(sliceEnds)
    PROVE  Inv'
  <1>1. CASE typed < MaxTyped /\ typed' = typed + 1 /\ StdinWrite(typed')
    BY <1>1, WriteInv
  <1>2. CASE UNCHANGED <<typed, devVars, state, waitState, rq>>
    <2>1. /\ UNCHANGED <<typed, buffer, rpos, wpos, waitQueue, flags, waitState, want,
                         exiting, read>>
          /\ pc' = IF current = idle THEN pc ELSE [pc EXCEPT ![current] = "trapret"]
          /\ current # idle => pc[current] = "user"
      BY <1>2 DEF devVars, Tick
    <2>2. SchedExact'
      BY <1>2, CallKeeps, ProcTickTypes DEF Tick, Inv, SchedExact, SchedTypeOK
    <2>3. TypeOK'
      BY <2>1, <2>2 DEF Inv, TypeOK, SchedExact
    <2>4. QueueInv'
      BY <2>1 DEF Inv, TypeOK, QueueInv
    <2>5. NoLostChar' /\ BufferedTyped'
      BY <2>1 DEF Inv, NoLostChar, BufferedTyped
    <2> QED
      BY <2>2, <2>3, <2>4, <2>5 DEF Inv
  <1> QED
    BY <1>1, <1>2 DEF Tick

\* Taking n of the characters in the buffer leaves the others in it.
LEMMA TakeKeeps ==
    ASSUME Inv, NEW n \in Nat, n <= wpos - rpos, Take(n), UNCHANGED <<buffer, wpos>>
    PROVE  /\ rpos' \in Nat /\ rpos' = rpos + n /\ wpos - rpos' \in 0 .. STDIN_BUFSIZE
           /\ read' \in Seq(1 .. MaxTyped)
           /\ BufferedTyped'
  <1>1. rpos' = rpos + n /\ rpos' \in Nat /\ wpos - rpos' \in 0 .. STDIN_BUFSIZE
    <2>1. rpos' = rpos + n
      BY DEF Take, Consumed
    <2>2. rpos \in Nat /\ wpos \in Nat /\ wpos - rpos <= STDIN_BUFSIZE /\ STDIN_BUFSIZE \in Nat
      BY Ring DEF Inv
    <2> QED
      BY <2>1, <2>2
  <1>2. Buffered(n) \in Seq(1 .. MaxTyped) /\ read \in Seq(1 .. MaxTyped)
    BY BufferedIs DEF Inv, TypeOK
  <1>3. read' \in Seq(1 .. MaxTyped)
    BY <1>2, ConcatProperties, Zenon DEF Take
  <1>4. ASSUME NEW i \in 1 .. wpos - rpos'
        PROVE  buffer[(rpos' + i - 1) % STDIN_BUFSIZE] \in 1 .. MaxTyped
    <2>1. i + n \in 1 .. wpos - rpos /\ rpos' + i - 1 = rpos + (i + n) - 1
      BY <1>1, Ring DEF Inv
    <2>2. buffer[(rpos + (i + n) - 1) % STDIN_BUFSIZE] \in 1 .. MaxTyped
      BY <2>1 DEF Inv, BufferedTyped
    <2> QED
      BY <2>1, <2>2
  <1> QED
    BY <1>1, <1>3, <1>4 DEF BufferedTyped

\* dev_stdin_read with as many characters as wanted.
LEMMA ReadReturnsInv ==
    ASSUME Inv, NEW p \in Procs, ReadReturns(p)
    PROVE  Inv'
  <1>1. /\ Take(want[p]) /\ want[p] <= wpos - rpos /\ pc[p] = "reading"
        /\ UNCHANGED <<buffer, wpos, waitQueue, flags, exiting, typed, schedVars, waitState>>
        /\ pc' = [pc EXCEPT ![p] = "trapret"] /\ want' = [want EXCEPT ![p] = 0]
    BY DEF ReadReturns, schedVars
  <1>2. want[p] \in Nat /\ rpos \in Nat /\ wpos \in Nat /\ MaxLen \in Nat
    BY Ring DEF Inv
  <1>3. /\ rpos' \in Nat /\ rpos' = rpos + want[p] /\ wpos - rpos' \in 0 .. STDIN_BUFSIZE
        /\ read' \in Seq(1 .. MaxTyped)
        /\ BufferedTyped'
    BY <1>1, <1>2, TakeKeeps
  <1>4. SchedExact'
    BY <1>1, RestKeeps DEF Inv
  <1>5. TypeOK'
    <2>1. /\ want' \in [Procs -> 0 .. MaxLen]
          /\ pc' \in [Procs -> {"user", "trapret", "reading", "readWait", "exited"}]
      BY <1>1, <1>2 DEF Inv, TypeOK
    <2> QED
      BY <1>1, <1>2, <1>3, <1>4, <2>1 DEF Inv, TypeOK, SchedExact
  <1>6. QueueInv'
    BY <1>1 DEF Inv, TypeOK, QueueInv
  <1>7. NoLostChar'
    <2> SUFFICES ASSUME NEW r \in Procs, waitState[r] = "KBD" PROVE rpos' = wpos
      BY <1>1 DEF NoLostChar
    <2>1. rpos = wpos
      BY DEF Inv, NoLostChar
    <2> QED
      BY <1>1, <1>2, <1>3, <2>1
  <1> QED
    BY <1>3, <1>4, <1>5, <1>6, <1>7 DEF Inv

\* dev_stdin_read that must wait has emptied the buffer.
LEMMA ReadSleepsInv ==
    ASSUME Inv, NEW p \in Procs, ReadSleeps(p)
    PROVE  Inv'
  <1>1. /\ Take(wpos - rpos) /\ want[p] > wpos - rpos /\ pc[p] = "reading" /\ Running(p)
        /\ UNCHANGED <<buffer, wpos, exiting, typed>>
        /\ pc' = [pc EXCEPT ![p] = "readWait"]
        /\ want' = [want EXCEPT ![p] = @ - (wpos - rpos)]
        /\ flags' = [flags EXCEPT ![p] = "INTERRUPTED"]
        /\ waitQueue' = Append(waitQueue, p)
        /\ waitState' = [waitState EXCEPT ![p] = "KBD"]
    BY DEF ReadSleeps
  <1>2. /\ rpos' \in Nat /\ rpos' = wpos /\ wpos - rpos' \in 0 .. STDIN_BUFSIZE
        /\ read' \in Seq(1 .. MaxTyped)
        /\ BufferedTyped'
    <2>1. wpos - rpos \in Nat /\ wpos - rpos <= wpos - rpos /\ rpos + (wpos - rpos) = wpos
      BY Ring DEF Inv
    <2> QED
      BY <1>1, <2>1, TakeKeeps
  <1>3. SchedExact'
    <2>1. "KBD" \in WState
      BY DEF WState
    <2> QED
      BY <1>1, <2>1, StopKeeps DEF ReadSleeps, Inv
  <1>4. /\ waitQueue' \in Seq(Procs) /\ IsInjective(waitQueue')
        /\ \A x \in Procs : Contains(waitQueue', x) <=> Contains(waitQueue, x) \/ x = p
    <2>1. waitQueue \in Seq(Procs) /\ IsInjective(waitQueue) /\ ~Contains(waitQueue, p)
      BY <1>1 DEF Inv, TypeOK, QueueInv
    <2> QED
      BY <1>1, <2>1, AppendIs
  <1>5. want' \in [Procs -> 0 .. MaxLen]
    <2>1. want[p] - (wpos - rpos) \in 0 .. MaxLen
      <3>1. /\ want[p] \in Nat /\ want[p] <= MaxLen /\ MaxLen \in Nat
            /\ wpos - rpos \in Nat /\ want[p] > wpos - rpos
        BY <1>1, Ring DEF Inv
      <3> QED
        BY <3>1
    <2> QED
      BY <1>1, <2>1 DEF Inv, TypeOK
  <1>6. TypeOK'
    BY <1>1, <1>2, <1>3, <1>4, <1>5 DEF Inv, TypeOK, SchedExact
  <1>7. QueueInv'
    BY <1>1, <1>4 DEF Inv, TypeOK, QueueInv, SchedTypeOK, Threads
  <1>8. NoLostChar'
    BY <1>1, <1>2 DEF NoLostChar
  <1> QED
    BY <1>2, <1>3, <1>6, <1>7, <1>8 DEF Inv

\* Back from schedule(), the reader leaves the queue if nobody has taken it out.
LEMMA ReadWokenInv ==
    ASSUME Inv, NEW p \in Procs, ReadWoken(p)
    PROVE  Inv'
  <1>1. /\ waitQueue' = RemoveFirst(waitQueue, p)
        /\ UNCHANGED <<schedVars, waitState, buffer, rpos, wpos, flags, exiting, typed, read>>
        /\ \/ pc' = [pc EXCEPT ![p] = "reading"] /\ want' = want
           \/ pc' = [pc EXCEPT ![p] = "trapret"] /\ want' = [want EXCEPT ![p] = 0]
        /\ waitState[p] = "NONE"
    BY RunningIsAwake DEF ReadWoken, Unqueued, schedVars
  <1>2. SchedExact'
    BY <1>1, RestKeeps DEF Inv
  <1>3. /\ waitQueue' \in Seq(Procs) /\ IsInjective(waitQueue')
        /\ \A x \in Procs : Contains(waitQueue', x) <=> Contains(waitQueue, x) /\ x # p
    BY <1>1, RemoveFirstIs DEF Inv, TypeOK, QueueInv
  <1>4. TypeOK'
    <2>1. 0 \in 0 .. MaxLen
      BY SizeAssumption
    <2>2. /\ want' \in [Procs -> 0 .. MaxLen]
          /\ pc' \in [Procs -> {"user", "trapret", "reading", "readWait", "exited"}]
      BY <1>1, <2>1 DEF Inv, TypeOK
    <2> QED
      BY <1>1, <1>2, <1>3, <2>2 DEF Inv, TypeOK, SchedExact
  <1>5. QueueInv'
    BY <1>1, <1>3 DEF Inv, TypeOK, QueueInv
  <1>6. NoLostChar' /\ BufferedTyped'
    BY <1>1 DEF Inv, NoLostChar, BufferedTyped
  <1> QED
    BY <1>2, <1>4, <1>5, <1>6 DEF Inv

\* The call of sys_read.
LEMMA ReadInv ==
    ASSUME Inv, NEW p \in Procs, NEW n \in 1 .. MaxLen, Read(p, n)
    PROVE  Inv'
  <1>1. /\ UNCHANGED <<schedVars, waitState, buffer, rpos, wpos, waitQueue, flags, exiting,
                       typed, read>>
        /\ pc[p] = "user" /\ pc' = [pc EXCEPT ![p] = "reading"]
        /\ want' = [want EXCEPT ![p] = n]
    BY DEF Read, schedVars, devVars
  <1>2. SchedExact'
    BY <1>1, RestKeeps DEF Inv
  <1>3. TypeOK'
    <2>1. n \in 0 .. MaxLen
      BY SizeAssumption
    <2> QED
      BY <1>1, <1>2, <2>1 DEF Inv, TypeOK, SchedExact
  <1>4. QueueInv'
    BY <1>1 DEF Inv, TypeOK, QueueInv
  <1>5. NoLostChar' /\ BufferedTyped'
    BY <1>1 DEF Inv, NoLostChar, BufferedTyped
  <1> QED
    BY <1>2, <1>3, <1>4, <1>5 DEF Inv

\* do_kill may wake a reader and leaves it in the queue.
LEMMA KillInv ==
    ASSUME Inv, NEW p \in Procs, NEW t \in Procs, Kill(p, t)
    PROVE  Inv'
  <1> PICK wake \in SUBSET {t} :
          /\ state' = WokenState(state, wake)
          /\ waitState' = WokenWait(waitState, state, wake)
          /\ rq' = WokenQueue(rq, state, wake)
    BY DEF Kill
  <1>1. /\ UNCHANGED <<current, inSched, needResched, buffer, rpos, wpos, waitQueue, flags,
                       want, typed, read>>
        /\ pc[p] = "user" /\ pc' = [pc EXCEPT ![p] = "trapret"]
        /\ exiting' = [exiting EXCEPT ![t] = TRUE]
        /\ wake \in SUBSET Threads
    BY DEF Kill, devVars, Threads
  <1>2. SchedExact'
    <2>1. needResched' \in [Threads -> BOOLEAN]
      BY <1>1 DEF Inv, SchedExact, SchedTypeOK
    <2> QED
      BY <1>1, <2>1, WakeKeeps DEF Inv
  <1>3. TypeOK'
    BY <1>1, <1>2 DEF Inv, TypeOK, SchedExact
  <1>4. \A r \in Procs : waitState'[r] \in {waitState[r], "NONE"}
    BY DEF WokenWait, Threads
  <1>5. QueueInv'
    BY <1>1, <1>4 DEF Inv, TypeOK, QueueInv
  <1>6. NoLostChar' /\ BufferedTyped'
    BY <1>1, <1>4 DEF Inv, NoLostChar, BufferedTyped
  <1> QED
    BY <1>2, <1>3, <1>5, <1>6 DEF Inv

\* The end of trap(): exit, schedule() or go on.
LEMMA TrapReturnInv ==
    ASSUME Inv, NEW p \in Procs, TrapReturn(p)
    PROVE  Inv'
  <1>1. /\ UNCHANGED <<waitState, buffer, rpos, wpos, waitQueue, flags, want, exiting, typed,
                       read>>
        /\ pc[p] = "trapret" /\ Running(p)
        /\ pc' = [pc EXCEPT ![p] = "exited"] \/ pc' = [pc EXCEPT ![p] = "user"]
    BY DEF TrapReturn, devVars
  <1>2. SchedExact'
    <2>1. CASE exiting[p] /\ state' = [state EXCEPT ![p] = "ZOMBIE"] /\ inSched' = TRUE
      <3>1. "NONE" \in WState
        BY DEF WState
      <3> QED
        BY <1>1, <2>1, <3>1, StopKeeps DEF TrapReturn, Inv
    <2>2. CASE inSched' = needResched[p] /\ UNCHANGED state
      <3>1. inSched' \in BOOLEAN /\ ~inSched /\ needResched' \in [Threads -> BOOLEAN]
        BY <1>1, <2>2 DEF TrapReturn, Running, Inv, SchedExact, SchedTypeOK, Threads
      <3> QED
        BY <2>2, <3>1, CallKeeps DEF TrapReturn, Inv
    <2> QED
      BY <2>1, <2>2 DEF TrapReturn
  <1>3. TypeOK'
    BY <1>1, <1>2 DEF Inv, TypeOK, SchedExact
  <1>4. QueueInv'
    BY <1>1 DEF Inv, TypeOK, QueueInv
  <1>5. NoLostChar' /\ BufferedTyped'
    BY <1>1 DEF Inv, NoLostChar, BufferedTyped
  <1> QED
    BY <1>2, <1>3, <1>4, <1>5 DEF Inv

\* A switch, or a call of schedule() by idleproc, touches the scheduler only.
LEMMA SchedInv ==
    ASSUME Inv, Switch \/ Idle \/ UNCHANGED vars
    PROVE  Inv'
  <1>1. UNCHANGED <<waitState, buffer, rpos, wpos, waitQueue, flags, pc, want, exiting, typed,
                    read>>
    BY DEF Switch, Schedule, Idle, CpuIdle, others, devVars, vars, schedVars
  <1>2. SchedExact'
    <2>1. CASE Switch
      BY <2>1, SwitchKeeps DEF Switch, Inv
    <2>2. CASE Idle
      BY <2>2, CallKeeps DEF Idle, CpuIdle, Inv, SchedExact, SchedTypeOK
    <2>3. CASE UNCHANGED vars
      BY <2>3, RestKeeps DEF vars, Inv
    <2> QED
      BY <2>1, <2>2, <2>3
  <1> QED
    BY <1>1, <1>2 DEF Inv, TypeOK, SchedExact, QueueInv, NoLostChar, BufferedTyped

\* Every step of the specification keeps Inv.
LEMMA NextInv == Inv /\ [Next]_vars => Inv'
  <1> SUFFICES ASSUME Inv, [Next]_vars PROVE Inv'
    OBVIOUS
  <1>1. CASE KernelStep
    BY <1>1, SchedInv, ReadReturnsInv, ReadSleepsInv, ReadWokenInv, TrapReturnInv
    DEF KernelStep
  <1>2. CASE \E p \in Procs : \E t \in Procs : Kill(p, t)
    BY <1>2, KillInv
  <1>3. CASE \E p \in Procs, n \in 1 .. MaxLen : Read(p, n)
    BY <1>3, ReadInv
  <1>4. CASE \E sliceEnds \in BOOLEAN : Tick(sliceEnds)
    BY <1>4, TickInv
  <1>5. CASE UNCHANGED vars
    BY <1>5, SchedInv
  <1> QED
    BY <1>1, <1>2, <1>3, <1>4, <1>5 DEF Next

\* Inv holds in every reachable state.
THEOREM Invariant == Spec => []Inv
  BY InitInv, NextInv, PTL DEF Spec

-----------------------------------------------------------------------------
(* What follows from Inv *)

\* No lost wakeup: a reader sleeps only while the buffer is empty, however
\* clock interrupts, kills and other readers come between.
THEOREM NoCharLost == Spec => []NoLostChar
  <1>1. Inv => NoLostChar
    BY DEF Inv
  <1> QED
    BY <1>1, Invariant, PTL

\* The wait queue holds the sleeping readers, once each, and nobody who has
\* left dev_stdin_read, killed readers included.
THEOREM WaitQueueExact == Spec => []QueueExact
  <1>1. Inv => QueueExact
    BY DEF Inv, QueueInv, QueueExact
  <1> QED
    BY <1>1, Invariant, PTL

-----------------------------------------------------------------------------
(* The ring buffer implements LineBuffer *)

\* The characters that wait, in their order.
Line == Buffered(wpos - rpos)

\* A sequence is the function of its elements.
LEMMA SeqIsFunction ==
    ASSUME NEW T, NEW s \in Seq(T)
    PROVE  DOMAIN s = 1 .. Len(s) /\ s = [i \in 1 .. Len(s) |-> s[i]]
  OBVIOUS

\* dev_stdin_write puts the character behind those that wait, or over the
\* oldest one when SIZE wait.
LEMMA WriteIs ==
    ASSUME Inv, NEW c \in 1 .. MaxTyped, StdinWrite(c), UNCHANGED read
    PROVE  L!Type(c)
  <1> DEFINE S == STDIN_BUFSIZE
             n == wpos - rpos
  <1>1. /\ S \in Nat \ {0} /\ rpos \in Nat /\ wpos \in Nat /\ n \in Nat /\ n <= S
        /\ rpos + n = wpos
    BY Ring DEF Inv
  <1>2. /\ rpos' = rpos /\ buffer' = [buffer EXCEPT ![wpos % S] = c]
        /\ wpos' = IF n < S THEN wpos + 1 ELSE wpos
    BY DEF StdinWrite, Advanced
  <1>3. DOMAIN buffer = 0 .. S - 1 /\ \A a \in Nat : a % S \in 0 .. S - 1
    BY Place DEF Inv, TypeOK
  <1>4. \A a \in Nat : buffer'[a % S] = IF a % S = wpos % S THEN c ELSE buffer[a % S]
    BY <1>2, <1>3, Zenon
  <1>5. Line \in Seq(0 .. MaxTyped) /\ Len(Line) = n
        /\ \A i \in 1 .. n : Line[i] = buffer[(rpos + i - 1) % S]
    BY <1>1, BufferedIs DEF Line, Inv
  <1> HIDE DEF S, n
  <1>6. ASSUME NEW i \in 1 .. n, n < S \/ i > 1
        PROVE  (rpos + i - 1) % S # wpos % S
    <2>1. /\ rpos + i - 1 \in Nat /\ n - i + 1 \in 1 .. S - 1
          /\ (rpos + i - 1) + (n - i + 1) = wpos
      BY <1>1, <1>6
    <2> QED
      BY <1>1, <2>1, ModDistinct
  <1>7. CASE n < S
    <2>1. wpos' - rpos' = n + 1
      BY <1>1, <1>2, <1>7
    <2>2. Line' = [i \in 1 .. n + 1 |-> buffer'[(rpos + i - 1) % S]]
      BY <1>2, <2>1 DEF Line, Buffered, S
    <2>3. \A i \in 1 .. n : buffer'[(rpos + i - 1) % S] = Line[i]
      <3>1. ASSUME NEW i \in 1 .. n PROVE buffer'[(rpos + i - 1) % S] = Line[i]
        <4>1. rpos + i - 1 \in Nat
          BY <1>1
        <4>2. (rpos + i - 1) % S # wpos % S
          BY <1>6, <1>7, Zenon
        <4>3. buffer'[(rpos + i - 1) % S] = buffer[(rpos + i - 1) % S]
          BY <1>4, <4>1, <4>2, Zenon
        <4> QED
          BY <1>5, <4>3
      <3> QED
        BY <3>1
    <2>4. buffer'[(rpos + (n + 1) - 1) % S] = c
      <3>1. rpos + (n + 1) - 1 = wpos
        BY <1>1
      <3>2. buffer'[wpos % S] = c
        BY <1>1, <1>4, Zenon
      <3> QED
        BY <3>1, <3>2
    <2> DEFINE f == [i \in 1 .. n + 1 |-> buffer'[(rpos + i - 1) % S]]
    <2>5. /\ \A i \in 1 .. n : f[i] = Line[i]
          /\ f[n + 1] = c
          /\ DOMAIN f = 1 .. n + 1
          /\ f = [i \in 1 .. n + 1 |-> f[i]]
      BY <1>1, <2>3, <2>4
    <2>6. /\ c \in 0 .. MaxTyped
          /\ Append(Line, c) \in Seq(0 .. MaxTyped) /\ Len(Append(Line, c)) = n + 1
          /\ \A i \in 1 .. n : Append(Line, c)[i] = Line[i]
          /\ Append(Line, c)[n + 1] = c
      BY <1>5, AppendProperties
    <2> HIDE DEF f
    <2>7. f = Append(Line, c)
      <3> DEFINE g == Append(Line, c)
      <3>1. DOMAIN g = 1 .. n + 1 /\ g = [i \in 1 .. n + 1 |-> g[i]]
        <4>1. g \in Seq(0 .. MaxTyped) /\ Len(g) = n + 1
          BY <2>6
        <4> HIDE DEF g
        <4> QED
          BY <4>1, SeqIsFunction
      <3>2. \A i \in 1 .. n + 1 : f[i] = g[i]
        <4>1. \A i \in 1 .. n + 1 : i \in 1 .. n \/ i = n + 1
          BY <1>1
        <4> QED
          BY <2>5, <2>6, <4>1
      <3> HIDE DEF g
      <3>3. f = g
        BY <2>5, <3>1, <3>2
      <3> QED
        BY <3>3 DEF g
    <2> QED
      BY <1>5, <1>7, <2>2, <2>7 DEF L!Type, Line, S, f
  <1>8. CASE ~(n < S)
    <2>1. wpos' - rpos' = n /\ n = S /\ wpos = rpos + S
      BY <1>1, <1>2, <1>8
    <2> DEFINE f == [i \in 1 .. n |-> buffer'[(rpos + i - 1) % S]]
    <2>2. Line' = f
      BY <1>2, <2>1 DEF Line, Buffered, S
    <2>3. rpos + 1 - 1 = rpos /\ rpos % S = wpos % S
      <3>1. (rpos + S) % S = rpos % S
        BY <1>1, ModPeriod
      <3> QED
        BY <1>1, <2>1, <3>1
    <2>4. f[1] = c
      <3>1. buffer'[rpos % S] = c
        BY <1>1, <1>4, <2>3, Zenon
      <3> QED
        BY <1>1, <2>1, <2>3, <3>1
    <2>5. ASSUME NEW i \in 1 .. n, i # 1 PROVE f[i] = Line[i]
      <3>1. rpos + i - 1 \in Nat /\ (rpos + i - 1) % S # wpos % S
        BY <1>1, <1>6, <2>5
      <3>2. buffer'[(rpos + i - 1) % S] = buffer[(rpos + i - 1) % S]
        BY <1>4, <3>1, Zenon
      <3> QED
        BY <1>5, <3>2
    <2>6. DOMAIN f = 1 .. n /\ f = [i \in 1 .. n |-> f[i]]
      OBVIOUS
    <2>7. DOMAIN Line = 1 .. n /\ Line = [i \in 1 .. n |-> Line[i]]
      BY <1>5
    <2> HIDE DEF f
    <2>8. f = [Line EXCEPT ![1] = c]
      BY <1>1, <2>4, <2>5, <2>6, <2>7
    <2> QED
      BY <1>5, <1>8, <2>2, <2>8 DEF L!Type, Line, S
  <1> QED
    BY <1>7, <1>8

\* The front of a sequence.
LEMMA FrontIs ==
    ASSUME NEW T, NEW s \in Seq(T), NEW n \in Nat, n <= Len(s)
    PROVE  /\ SubSeq(s, 1, n) \in Seq(T)
           /\ Len(SubSeq(s, 1, n)) = n
           /\ \A i \in 1 .. n : SubSeq(s, 1, n)[i] = s[i]
  <1>1. 1 \in Int /\ n \in Int /\ n - 1 + 1 = n /\ \A i \in 1 .. n : s[i] \in T
    OBVIOUS
  <1> DEFINE part == SubSeq(s, 1, n)
  <1>2. /\ part \in Seq(T)
        /\ Len(part) = IF 1 <= n THEN n - 1 + 1 ELSE 0
        /\ \A i \in 1 .. n - 1 + 1 : part[i] = s[1 + i - 1]
    BY <1>1, SubSeqProperties
  <1> HIDE DEF part
  <1>3. \A i \in 1 .. n : 1 + i - 1 = i
    OBVIOUS
  <1>4. part \in Seq(T) /\ Len(part) = n /\ \A i \in 1 .. n : part[i] = s[i]
    BY <1>1, <1>2, <1>3
  <1> QED
    BY <1>4 DEF part

\* A part of a sequence.
LEMMA PartIs ==
    ASSUME NEW T, NEW s \in Seq(T), NEW a \in Nat, NEW b \in Nat, a <= b, b <= Len(s)
    PROVE  /\ SubSeq(s, a + 1, b) \in Seq(T)
           /\ Len(SubSeq(s, a + 1, b)) = b - a
           /\ \A i \in 1 .. b - a : SubSeq(s, a + 1, b)[i] = s[a + i]
  <1>1. Len(s) \in Nat /\ a + 1 \in Int /\ b \in Int /\ b - (a + 1) + 1 = b - a
    OBVIOUS
  <1>2. \A i \in 1 .. Len(s) : s[i] \in T
    OBVIOUS
  <1>3. \A i \in a + 1 .. b : s[i] \in T
    BY <1>1, <1>2
  <1> DEFINE part == SubSeq(s, a + 1, b)
  <1>4. /\ part \in Seq(T)
        /\ Len(part) = IF a + 1 <= b THEN b - (a + 1) + 1 ELSE 0
        /\ \A i \in 1 .. b - (a + 1) + 1 : part[i] = s[(a + 1) + i - 1]
    BY <1>1, <1>3, SubSeqProperties
  <1> HIDE DEF part
  <1>5. \A i \in 1 .. b - a : (a + 1) + i - 1 = a + i
    OBVIOUS
  <1>6. part \in Seq(T) /\ Len(part) = b - a /\ \A i \in 1 .. b - a : part[i] = s[a + i]
    BY <1>1, <1>4, <1>5
  <1> QED
    BY <1>6 DEF part

\* dev_stdin_read takes n characters from the front of the line.
LEMMA TakeIs ==
    ASSUME Inv, NEW n \in Nat, n <= wpos - rpos, Take(n), UNCHANGED <<buffer, wpos>>
    PROVE  [L!Next]_<<Line, read>>
  <1> DEFINE S == STDIN_BUFSIZE
             m == wpos - rpos
             rest == [i \in 1 .. m - n |-> buffer[(rpos + n + i - 1) % S]]
  <1>1. /\ S \in Nat \ {0} /\ rpos \in Nat /\ wpos \in Nat /\ m \in Nat /\ m <= S
        /\ n <= m /\ m - n \in Nat
    BY Ring DEF Inv
  <1>2. rpos' = rpos + n /\ read' = read \o Buffered(n) /\ buffer' = buffer /\ wpos' = wpos
    BY DEF Take, Consumed
  <1>3. Line \in Seq(0 .. MaxTyped) /\ Len(Line) = m
        /\ \A i \in 1 .. m : Line[i] = buffer[(rpos + i - 1) % S]
    BY <1>1, BufferedIs DEF Line, Inv
  <1>4. Buffered(n) \in Seq(0 .. MaxTyped) /\ Len(Buffered(n)) = n
        /\ \A i \in 1 .. n : Buffered(n)[i] = buffer[(rpos + i - 1) % S]
    BY <1>1, BufferedIs DEF Inv
  <1>5. Line' = rest
    <2>1. wpos' - rpos' = m - n
      BY <1>1, <1>2
    <2> QED
      BY <1>2, <2>1 DEF Line, Buffered
  <1>6. read \in Seq(1 .. MaxTyped)
    BY DEF Inv, TypeOK
  <1> HIDE DEF S, m
  <1>7. CASE n = 0
    <2>1. Buffered(n) = <<>>
      BY <1>4, <1>7
    <2>2. read' = read
      BY <1>2, <1>6, <2>1
    <2>3. rpos' = rpos
      BY <1>1, <1>2, <1>7
    <2>4. Line' = Line
      BY <1>2, <2>3 DEF Line, Buffered
    <2> QED
      BY <2>2, <2>4
  <1>8. CASE n # 0
    <2>1. n \in 1 .. S /\ n <= Len(Line)
      BY <1>1, <1>3, <1>8
    <2>2. Buffered(n) = SubSeq(Line, 1, n)
      <3> DEFINE front == SubSeq(Line, 1, n)
      <3>1. /\ front \in Seq(0 .. MaxTyped) /\ Len(front) = n
            /\ \A i \in 1 .. n : front[i] = Line[i]
        <4>1. n <= Len(Line) /\ Line \in Seq(0 .. MaxTyped)
          BY <1>1, <1>3
        <4> QED
          BY <4>1, FrontIs, Zenon
      <3>2. \A i \in 1 .. n : Line[i] = Buffered(n)[i]
        BY <1>1, <1>3, <1>4
      <3> HIDE DEF front
      <3>3. Buffered(n) = front
        BY <1>4, <3>1, <3>2, SeqEqual
      <3> QED
        BY <3>3 DEF front
    <2>3. rest = SubSeq(Line, n + 1, Len(Line))
      <3> DEFINE back == SubSeq(Line, n + 1, m)
      <3>1. /\ back \in Seq(0 .. MaxTyped) /\ Len(back) = m - n
            /\ \A i \in 1 .. m - n : back[i] = Line[n + i]
        <4>1. m \in Nat /\ n <= m /\ m <= Len(Line) /\ Line \in Seq(0 .. MaxTyped)
          BY <1>1, <1>3
        <4> QED
          BY <4>1, PartIs, Zenon
      <3>2. \A i \in 1 .. m - n : Line[n + i] = buffer[(rpos + n + i - 1) % S]
        <4>1. ASSUME NEW i \in 1 .. m - n PROVE Line[n + i] = buffer[(rpos + n + i - 1) % S]
          <5>1. n + i \in 1 .. m /\ rpos + (n + i) - 1 = rpos + n + i - 1
            BY <1>1
          <5>2. Line[n + i] = buffer[(rpos + (n + i) - 1) % S]
            BY <1>3, <5>1, Zenon
          <5> QED
            BY <5>1, <5>2
        <4> QED
          BY <4>1
      <3>3. DOMAIN rest = 1 .. m - n /\ rest = [i \in 1 .. m - n |-> rest[i]]
            /\ \A i \in 1 .. m - n : rest[i] = buffer[(rpos + n + i - 1) % S]
        OBVIOUS
      <3> HIDE DEF back, rest
      <3>4. DOMAIN back = 1 .. m - n /\ back = [i \in 1 .. m - n |-> back[i]]
        BY <3>1, SeqIsFunction
      <3>5. rest = back
        <4>1. \A i \in 1 .. m - n : rest[i] = back[i]
          BY <3>1, <3>2, <3>3
        <4> QED
          BY <3>3, <3>4, <4>1
      <3> QED
        BY <1>3, <3>5 DEF back
    <2> HIDE DEF rest
    <2>4. L!Read(n)
      BY <1>2, <1>5, <2>1, <2>2, <2>3 DEF L!Read, Line
    <2> QED
      BY <2>1, <2>4 DEF L!Next, S
  <1> QED
    BY <1>7, <1>8

\* A step that leaves the buffer and what has been read alone leaves the line
\* alone.
LEMMA LineRests ==
    ASSUME UNCHANGED <<buffer, rpos, wpos, read>>
    PROVE  UNCHANGED <<Line, read>>
  BY DEF Line, Buffered

\* Every step types a character, reads some, or is none of the line's.
LEMMA StepIs ==
    ASSUME Inv, [Next]_vars
    PROVE  [L!Next]_<<Line, read>>
  <1>1. CASE \E sliceEnds \in BOOLEAN : Tick(sliceEnds)
    <2>1. PICK sliceEnds \in BOOLEAN : Tick(sliceEnds)
      BY <1>1
    <2>2. CASE typed < MaxTyped /\ typed' = typed + 1 /\ StdinWrite(typed')
      <3>1. typed + 1 \in 1 .. MaxTyped
        BY <2>2, SizeAssumption DEF Inv, TypeOK
      <3>2. L!Type(typed + 1)
        BY <2>1, <2>2, <3>1, WriteIs DEF Tick
      <3> QED
        BY <3>1, <3>2 DEF L!Next
    <2>3. CASE UNCHANGED <<typed, devVars, state, waitState, rq>>
      BY <2>1, <2>3, LineRests DEF Tick, devVars
    <2> QED
      BY <2>1, <2>2, <2>3 DEF Tick
  <1>2. ASSUME NEW p \in Procs, ReadReturns(p) \/ ReadSleeps(p)
        PROVE  [L!Next]_<<Line, read>>
    <2>1. CASE ReadReturns(p)
      <3>1. want[p] \in Nat
        BY Ring DEF Inv
      <3> QED
        BY <2>1, <3>1, TakeIs DEF ReadReturns
    <2>2. CASE ReadSleeps(p)
      <3>1. wpos - rpos \in Nat /\ wpos - rpos <= wpos - rpos
        BY Ring DEF Inv
      <3> QED
        BY <2>2, <3>1, TakeIs DEF ReadSleeps
    <2> QED
      BY <1>2, <2>1, <2>2
  <1>3. ASSUME NEW p \in Procs, ReadWoken(p) \/ TrapReturn(p)
        PROVE  [L!Next]_<<Line, read>>
    BY <1>3, LineRests DEF ReadWoken, TrapReturn, devVars
  <1>4. CASE Switch \/ Idle \/ UNCHANGED vars
    BY <1>4, LineRests DEF Switch, Idle, others, devVars, vars
  <1>5. ASSUME NEW p \in Procs, NEW t \in Procs, Kill(p, t)
        PROVE  [L!Next]_<<Line, read>>
    BY <1>5, LineRests DEF Kill, devVars
  <1>6. ASSUME NEW p \in Procs, NEW n \in 1 .. MaxLen, Read(p, n)
        PROVE  [L!Next]_<<Line, read>>
    BY <1>6, LineRests DEF Read, devVars
  <1> QED
    BY <1>1, <1>2, <1>3, <1>4, <1>5, <1>6 DEF Next, KernelStep

\* The characters are delivered once each and in the order in which they were
\* typed, but for the oldest ones of a full buffer: dev_stdin_write and
\* dev_stdin_read implement LineBuffer.
THEOREM RingImplemented == Spec => RingIsLine
  <1>1. Init => L!Init
    BY SizeAssumption DEF Init, L!Init, Buffered
  <1>2. Inv /\ [Next]_vars => [L!Next]_<<Line, read>>
    BY StepIs
  <1> QED
    BY <1>1, <1>2, Invariant, PTL DEF Spec, RingIsLine, L!Spec, Line
=============================================================================
