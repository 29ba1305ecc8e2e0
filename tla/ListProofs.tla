----------------------------- MODULE ListProofs -----------------------------
(***************************************************************************)
(* Lists that are kept in an order, for lists of any length.               *)
(*                                                                         *)
(* Timers: every timer fires at the tick it is set for, so that TimerList  *)
(* implements Timers, for any number of processes and any times.  The      *)
(* differences kept in the list add up to the ticks that are left.  Deltas *)
(* says so without a sum: the ticks of a timer are those it has left       *)
(* beyond the timer before it.                                             *)
(*                                                                         *)
(* The links of the family agree with one another, and do_wait finds       *)
(* along them the children of a process (ProcLinks implements Family).     *)
(*                                                                         *)
(* Pages leave memory in the order in which they came, and nothing that    *)
(* was stored in them is lost (Swap).                                      *)
(*                                                                         *)
(* The free list has the maximal runs of free pages, and a request gets    *)
(* the lowest pages that fit (PageAlloc).                                  *)
(*                                                                         *)
(* The ring of the kernel heap and the blocks in use cover its pages       *)
(* exactly, and no two callers have the same memory (Kmalloc).             *)
(***************************************************************************)
EXTENDS Lists, FiniteSetTheorems, SequenceTheorems, WellFoundedInduction, TLAPS

\* The list is in the order in which its timers fire, and has none twice.
Ordered ==
    \A i, j \in 1 .. Len(timer_list) :
        i < j => /\ timer_list[i] # timer_list[j]
                 /\ left[timer_list[i]] <= left[timer_list[j]]

\* A timer keeps the ticks by which it fires later than the one before it.
Deltas ==
    \A i \in 1 .. Len(timer_list) :
        /\ left[timer_list[i]] > 0
        /\ i = 1 => expires[timer_list[i]] = left[timer_list[i]]
        /\ i > 1 => expires[timer_list[i]] = left[timer_list[i]] - left[timer_list[i - 1]]

\* A process without a timer has no ticks left.
Absent == \A p \in Procs : ~Listed(p) /\ p # adding => left[p] = 0

\* The timer add_timer walks with has passed timers that fire no later.
Walking ==
    /\ adding = NoProc => le = 1
    /\ adding # NoProc =>
           /\ ~Listed(adding)
           /\ left[adding] > 0
           /\ le = 1 => expires[adding] = left[adding]
           /\ le > 1 => expires[adding] = left[adding] - left[timer_list[le - 1]]

\* What is inductive for the timers.
Inv == TypeOK /\ Ordered /\ Deltas /\ Absent /\ Walking

-----------------------------------------------------------------------------
(* Sequences and numbers *)

\* t is s with e inserted at position i.
Inserted(S, s, i, e, t) ==
    /\ t \in Seq(S)
    /\ Len(t) = Len(s) + 1
    /\ \A j \in 1 .. Len(s) + 1 :
           /\ j < i => t[j] = s[j]
           /\ j = i => t[j] = e
           /\ j > i => t[j] = s[j - 1]

\* t is s without the element at position i.
Removed(S, s, i, t) ==
    /\ t \in Seq(S)
    /\ Len(t) = Len(s) - 1
    /\ \A j \in 1 .. Len(s) - 1 : j < i => t[j] = s[j]
    /\ \A j \in 1 .. Len(s) - 1 : j >= i => t[j] = s[j + 1]

\* InsertAt shifts the elements from position i on.
LEMMA InsertAtIs ==
    ASSUME NEW S, NEW s \in Seq(S), NEW i \in 1 .. Len(s) + 1, NEW e \in S
    PROVE  Inserted(S, s, i, e, InsertAt(s, i, e))
  <1> DEFINE a == SubSeq(s, 1, i - 1)
             b == <<e>>
             c == SubSeq(s, i, Len(s))
  <1>1. /\ a \in Seq(S) /\ Len(a) = i - 1
        /\ \A j \in 1 .. i - 1 : a[j] = s[j]
    BY SubSeqProperties
  <1>2. /\ c \in Seq(S) /\ Len(c) = Len(s) - i + 1
        /\ \A j \in 1 .. Len(s) - i + 1 : c[j] = s[i + j - 1]
    BY SubSeqProperties
  <1>3. b \in Seq(S) /\ Len(b) = 1 /\ b[1] = e
    OBVIOUS
  <1>6. InsertAt(s, i, e) = (a \o b) \o c
    BY DEF InsertAt, a, b, c
  <1>7. i \in Nat /\ i - 1 \in Nat /\ i - 1 + 1 = i
    OBVIOUS
  <1> HIDE DEF a, b, c
  <1>4. a \o b \in Seq(S) /\ Len(a \o b) = i
    <2>1. a \in Seq(S) /\ b \in Seq(S)
      BY <1>1, <1>3
    <2>2. a \o b \in Seq(S) /\ Len(a \o b) = Len(a) + Len(b)
      BY <2>1, ConcatProperties, Zenon
    <2> QED
      BY <1>1, <1>3, <1>7, <2>2
  <1>41. /\ \A j \in 1 .. i - 1 : (a \o b)[j] = a[j]
    BY <1>1, <1>3, SMT
  <1>42. (a \o b)[i] = e
    <2>1. a \in Seq(S) /\ b \in Seq(S) /\ Len(a) + Len(b) = i
      BY <1>1, <1>3, <1>7
    <2>2. \A j \in 1 .. Len(a) + Len(b) : (a \o b)[j] = IF j <= Len(a) THEN a[j] ELSE b[j - Len(a)]
      BY <2>1, ConcatProperties, Zenon
    <2>3. i \in 1 .. Len(a) + Len(b) /\ ~(i <= Len(a)) /\ i - Len(a) = 1
      BY <1>1, <2>1, <1>7
    <2> QED
      BY <1>3, <2>2, <2>3
  <1>5. /\ (a \o b) \o c \in Seq(S)
        /\ Len((a \o b) \o c) = i + Len(c)
        /\ \A j \in 1 .. i : ((a \o b) \o c)[j] = (a \o b)[j]
        /\ \A j \in i + 1 .. i + Len(c) : ((a \o b) \o c)[j] = c[j - i]
    <2> DEFINE d == a \o b
    <2> HIDE DEF d
    <2>1. d \in Seq(S) /\ Len(d) = i
      BY <1>4 DEF d
    <2>2. /\ d \o c \in Seq(S)
          /\ Len(d \o c) = i + Len(c)
          /\ \A j \in 1 .. i : (d \o c)[j] = d[j]
          /\ \A j \in i + 1 .. i + Len(c) : (d \o c)[j] = c[j - i]
      BY <1>2, <2>1, <1>7,  SMT
    <2> QED
      BY <2>2 DEF d
  <1> QED
    <2> HIDE DEF a, b, c
    <2>1. InsertAt(s, i, e) \in Seq(S) /\ Len(InsertAt(s, i, e)) = Len(s) + 1
       BY  <1>2, <1>5, <1>6
    <2>2. ASSUME NEW j \in 1 .. Len(s) + 1, j < i PROVE InsertAt(s, i, e)[j] = s[j]
       BY  <1>1, <1>41, <1>5, <1>6, <2>2
    <2>3. InsertAt(s, i, e)[i] = e
       BY  <1>42, <1>5, <1>6
    <2>4. ASSUME NEW j \in 1 .. Len(s) + 1, j > i PROVE InsertAt(s, i, e)[j] = s[j-1]
       <3>1. j \in i + 1 .. i + Len(c) /\ j - i \in 1 .. Len(s) - i + 1
          BY <2>4, <1>2
       <3>2. InsertAt(s, i, e)[j] = c[j - i]
           BY <3>1, <1>5, <1>6
       <3>3. c[j - i] = s[i + (j - i) - 1]
           BY <3>1, <1>2
       <3>4. i + (j - i) - 1 = j - 1
           OBVIOUS
       <3> QED BY <3>2, <3>3, <3>4
    <2> QED BY <2>1, <2>2, <2>3, <2>4 DEF Inserted

\* RemoveAt shifts the elements behind position i.
LEMMA RemoveAtIs ==
    ASSUME NEW S, NEW s \in Seq(S), NEW i \in 1 .. Len(s)
    PROVE  Removed(S, s, i, RemoveAt(s, i))
  <1> DEFINE a == SubSeq(s, 1, i - 1)
             c == SubSeq(s, i + 1, Len(s))
  <1>1. /\ a \in Seq(S) /\ Len(a) = i - 1
        /\ \A j \in 1 .. i - 1 : a[j] = s[j]
    BY SubSeqProperties
  <1>2. /\ c \in Seq(S) /\ Len(c) = Len(s) - i
        /\ \A j \in 1 .. Len(s) - i : c[j] = s[i + j]
    BY SubSeqProperties
  <1>3. RemoveAt(s, i) = a \o c
    BY DEF RemoveAt
  <1> HIDE DEF a, c
  <1>4. /\ a \o c \in Seq(S) /\ Len(a \o c) = Len(s) - 1
        /\ \A j \in 1 .. Len(s) - 1 :
               (a \o c)[j] = IF j <= i - 1 THEN a[j] ELSE c[j - (i - 1)]
    <2>1. /\ a \o c \in Seq(S) /\ Len(a \o c) = Len(a) + Len(c)
          /\ \A j \in 1 .. Len(a) + Len(c) :
                 (a \o c)[j] = IF j <= Len(a) THEN a[j] ELSE c[j - Len(a)]
      BY <1>1, <1>2, ConcatProperties, Zenon
    <2>2. Len(a) = i - 1 /\ Len(a) + Len(c) = Len(s) - 1
      BY <1>1, <1>2
    <2> QED
      BY <2>1, <2>2
  <1>5. RemoveAt(s, i) \in Seq(S) /\ Len(RemoveAt(s, i)) = Len(s) - 1
    BY <1>3, <1>4
  <1>6. ASSUME NEW j \in 1 .. Len(s) - 1, j < i
        PROVE  RemoveAt(s, i)[j] = s[j]
    BY <1>1, <1>3, <1>4, <1>6
  <1>7. ASSUME NEW j \in 1 .. Len(s) - 1, j >= i
        PROVE  RemoveAt(s, i)[j] = s[j + 1]
    <2>1. j - (i - 1) \in 1 .. Len(s) - i /\ i + (j - (i - 1)) = j + 1 /\ ~(j <= i - 1)
      BY <1>7
    <2>2. RemoveAt(s, i)[j] = c[j - (i - 1)]
      BY <1>3, <1>4, <2>1
    <2> QED
      BY <1>2, <2>1, <2>2
  <1> QED
    BY <1>5, <1>6, <1>7 DEF Removed

\* A set of natural numbers that is not empty has a smallest element: the form
\* in which the proofs below argue by induction.
LEMMA SmallestElement ==
    ASSUME NEW X, X \subseteq Nat, X # {}
    PROVE  \E x \in X : \A y \in X : x <= y
  <1> DEFINE R == OpToRel(<, Nat)
  <1>1. IsWellFoundedOn(R, Nat)
    BY NatLessThanWellFounded
  <1>2. PICK x \in X : \A y \in X : ~(<<y, x>> \in R)
    <2> HIDE DEF R
    <2> QED
      BY <1>1, WFMin
  <1>3. \A y \in X : ~(y < x)
    BY <1>2 DEF OpToRel
  <1> QED
    BY <1>3

\* f has the values of step applied again and again, M times, to a.
Iteration(f, A, a, step, M) ==
    f \in [0 .. M -> A] /\ f[0] = a /\ \A k \in 1 .. M : f[k] = step[f[k - 1]]

\* What is applied again and again gives a sequence of values.
LEMMA Iterates ==
    ASSUME NEW A, NEW a \in A, NEW step \in [A -> A], NEW M \in Nat
    PROVE  \E f : Iteration(f, A, a, step, M)
  <1> DEFINE P(m) == \E f : Iteration(f, A, a, step, m)
             X == {m \in Nat : ~P(m)}
  <1>1. SUFFICES ASSUME X # {} PROVE FALSE
    <2>1. X = {} => P(M)
      OBVIOUS
    <2> QED
      BY <2>1
  <1>2. PICK m \in X : \A y \in X : m <= y
    <2>1. X \subseteq Nat
      OBVIOUS
    <2> HIDE DEF X
    <2> QED
      BY <1>1, <2>1, SmallestElement
  <1>3. m \in Nat /\ ~P(m)
    BY <1>2
  <1>4. P(0)
    <2> DEFINE f == [k \in 0 .. 0 |-> a]
    <2>1. f \in [0 .. 0 -> A] /\ f[0] = a /\ \A k \in 1 .. 0 : f[k] = step[f[k - 1]]
      OBVIOUS
    <2> HIDE DEF f
    <2> QED
      BY <2>1 DEF Iteration
  <1>5. m # 0
    BY <1>3, <1>4
  <1>6. P(m - 1)
    <2>1. m - 1 \in Nat /\ ~(m <= m - 1)
      BY <1>3, <1>5
    <2>2. m - 1 \notin X
      BY <1>2, <2>1
    <2> QED
      BY <2>1, <2>2
  <1>7. PICK f \in [0 .. m - 1 -> A] :
            f[0] = a /\ \A k \in 1 .. m - 1 : f[k] = step[f[k - 1]]
    BY <1>6 DEF Iteration
  <1> DEFINE g == [k \in 0 .. m |-> IF k = m THEN step[f[m - 1]] ELSE f[k]]
  <1>8. g \in [0 .. m -> A]
    BY <1>3, <1>5, <1>7
  <1>9. g[0] = a /\ \A k \in 1 .. m : g[k] = step[g[k - 1]]
    <2>1. g[0] = a
      BY <1>3, <1>5, <1>7
    <2>2. ASSUME NEW k \in 1 .. m PROVE g[k] = step[g[k - 1]]
      <3>1. k \in 0 .. m /\ k - 1 \in 0 .. m /\ k - 1 # m
        BY <1>3
      <3>2. g[k - 1] = f[k - 1]
        BY <3>1
      <3>3. CASE k = m
        BY <3>1, <3>2, <3>3
      <3>4. CASE k # m
        <4>1. k \in 1 .. m - 1
          BY <1>3, <3>4
        <4>2. g[k] = f[k]
          BY <3>1, <3>4
        <4> QED
          BY <1>7, <3>2, <4>1, <4>2
      <3> QED
        BY <3>3, <3>4
    <2> QED
      BY <2>1, <2>2
  <1> HIDE DEF g
  <1>10. P(m)
    BY <1>8, <1>9 DEF Iteration
  <1> QED
    BY <1>3, <1>10
-----------------------------------------------------------------------------
(* Inv is inductive *)

\* What TypeOK says of the members of the list.
LEMMA Members ==
    ASSUME TypeOK
    PROVE  /\ Len(timer_list) \in Nat
           /\ \A i \in 1 .. Len(timer_list) :
                  /\ timer_list[i] \in Procs
                  /\ left[timer_list[i]] \in Nat
                  /\ expires[timer_list[i]] \in Nat
           /\ \A p \in Procs : left[p] \in Nat /\ expires[p] \in Nat
  BY DEF TypeOK

\* At first there is no timer.
LEMMA InitInv == Init => Inv
  BY TimeAssumption DEF Init, Inv, TypeOK, Ordered, Deltas, Absent, Walking, Listed

\* add_timer starts at the head of the list.
LEMMA AddTimerInv ==
    ASSUME Inv, NEW p \in Procs, NEW n \in 1 .. MaxTime, AddTimer(p, n)
    PROVE  Inv'
  <1> USE NoProcAssumption, TimeAssumption
  <1>1. /\ timer_list' = timer_list /\ adding' = p /\ le' = 1
        /\ left'[p] = n /\ expires'[p] = n
        /\ \A q \in Procs \ {p} : left'[q] = left[q] /\ expires'[q] = expires[q]
    BY DEF AddTimer, Inv, TypeOK
  <1>2. TypeOK'
    BY DEF AddTimer, Inv, TypeOK
  <1>3. \A i \in 1 .. Len(timer_list) : timer_list[i] \in Procs \ {p}
    BY Members DEF AddTimer, Inv, Listed
  <1>4. Ordered'
    BY <1>1, <1>3 DEF Inv, Ordered
  <1>5. Deltas'
    <2>1. \A i \in 1 .. Len(timer_list) :
              /\ left'[timer_list[i]] = left[timer_list[i]]
              /\ expires'[timer_list[i]] = expires[timer_list[i]]
      BY <1>1, <1>3
    <2>2. \A i \in 1 .. Len(timer_list) : i > 1 => i - 1 \in 1 .. Len(timer_list)
      BY Members DEF Inv
    <2> QED
      BY <1>1, <2>1, <2>2 DEF Inv, Deltas
  <1>6. Absent'
    BY <1>1 DEF Inv, AddTimer, Absent, Listed
  <1>7. Walking'
    BY <1>1 DEF Inv, AddTimer, Walking, Listed
  <1> QED
    BY <1>2, <1>4, <1>5, <1>6, <1>7 DEF Inv

\* A round of its loop passes a timer, by whose ticks its own are fewer.
LEMMA WalkInv ==
    ASSUME Inv, Walk
    PROVE  Inv'
  <1> DEFINE q == timer_list[le]
  <1>1. /\ adding \in Procs /\ le \in 1 .. Len(timer_list) /\ q \in Procs
        /\ \A i \in 1 .. Len(timer_list) : timer_list[i] # adding
    <2>1. adding \in Procs
      BY DEF Inv, Walk, TypeOK
    <2>2. /\ Len(timer_list) \in Nat
          /\ \A i \in 1 .. Len(timer_list) : timer_list[i] \in Procs
      BY Members DEF Inv
    <2>3. le \in 1 .. Len(timer_list)
      BY <2>2 DEF Inv, Walk, TypeOK
    <2>4. \A i \in 1 .. Len(timer_list) : timer_list[i] # adding
      BY <2>1, NoProcAssumption DEF Inv, Walk, Walking, Listed
    <2> QED
      BY <2>1, <2>2, <2>3, <2>4
  <1>2. /\ timer_list' = timer_list /\ adding' = adding /\ le' = le + 1 /\ left' = left
        /\ expires'[adding] = expires[adding] - expires[q]
        /\ \A i \in 1 .. Len(timer_list) : expires'[timer_list[i]] = expires[timer_list[i]]
    BY <1>1, Members DEF Inv, Walk, TypeOK
  <1>3. TypeOK'
    <2>1. expires[adding] - expires[q] \in 0 .. MaxTime
      <3>1. expires[adding] \in 0 .. MaxTime /\ expires[q] \in 0 .. MaxTime
        BY <1>1 DEF Inv, TypeOK
      <3>2. ~(expires[adding] < expires[q])
        BY DEF Walk, Before
      <3> QED
        BY <3>1, <3>2, TimeAssumption
    <2>2. expires' \in [Procs -> 0 .. MaxTime]
      BY <1>1, <2>1 DEF Inv, Walk, TypeOK
    <2>3. le' \in 1 .. Len(timer_list) + 1
      BY <1>1, Members DEF Inv, Walk
    <2> QED
      BY <2>2, <2>3 DEF Inv, Walk, TypeOK
  <1>4. Ordered' /\ Absent'
    BY <1>2 DEF Inv, Ordered, Absent, Listed
  <1>5. Deltas'
    BY <1>2 DEF Inv, Deltas
  <1>6. expires'[adding] = left[adding] - left[q]
    <2>1. le = 1 => expires[adding] = left[adding] /\ expires[q] = left[q]
      BY <1>1 DEF Inv, Walk, Walking, Deltas
    <2>2. le > 1 => /\ expires[adding] = left[adding] - left[timer_list[le - 1]]
                    /\ expires[q] = left[q] - left[timer_list[le - 1]]
                    /\ left[timer_list[le - 1]] \in Nat
      BY <1>1, Members DEF Inv, Walk, Walking, Deltas
    <2> QED
      BY <1>1, <1>2, <2>1, <2>2, Members DEF Inv
  <1>7. Walking'
    BY <1>1, <1>2, <1>6, NoProcAssumption DEF Inv, Walking, Listed, Walk
  <1> QED
    BY <1>3, <1>4, <1>5, <1>7 DEF Inv
\* At its place, it shortens the timer after it by as much.
LEMMA LinkInv ==
    ASSUME Inv, Link
    PROVE  Inv'
  <1> DEFINE L == timer_list
             M == timer_list'
             n == Len(timer_list)
  <1>1. /\ adding \in Procs /\ le \in 1 .. n + 1 /\ n \in Nat
        /\ \A i \in 1 .. n : L[i] \in Procs \ {adding}
    <2>1. adding \in Procs /\ le \in 1 .. n + 1
      BY DEF Inv, Link, TypeOK
    <2>2. n \in Nat /\ \A i \in 1 .. n : L[i] \in Procs
      BY Members DEF Inv
    <2>3. \A i \in 1 .. n : L[i] # adding
      BY <2>1, NoProcAssumption DEF Inv, Link, Walking, Listed
    <2> QED
      BY <2>1, <2>2, <2>3
  <1>2. /\ M \in Seq(Procs) /\ Len(M) = n + 1
        /\ \A i \in 1 .. n + 1 :
               /\ i < le => M[i] = L[i]
               /\ i = le => M[i] = adding
               /\ i > le => M[i] = L[i - 1]
    <2>1. /\ timer_list \in Seq(Procs) /\ adding \in Procs
          /\ le \in 1 .. Len(timer_list) + 1
          /\ timer_list' = InsertAt(timer_list, le, adding)
      BY <1>1 DEF Inv, Link, TypeOK
    <2>2. Inserted(Procs, timer_list, le, adding, InsertAt(timer_list, le, adding))
      BY <2>1, InsertAtIs, Zenon
    <2>3. Inserted(Procs, timer_list, le, adding, timer_list')
      BY <2>1, <2>2
    <2> QED
      BY <2>3 DEF Inserted
  <1>3. \* the ticks left put adding between its two neighbours
        /\ le > 1 => left[L[le - 1]] <= left[adding]
        /\ le <= n => left[adding] < left[L[le]]
    <2>1. CASE le = 1
      <3>1. le <= n => expires[L[le]] = left[L[le]] /\ expires[adding] = left[adding]
        BY <1>1, <2>1 DEF Inv, Link, Walking, Deltas
      <3> QED
        BY <2>1, <3>1 DEF Link, Before
    <2>2. CASE le > 1
      <3>1. /\ expires[adding] = left[adding] - left[L[le - 1]]
            /\ left[L[le - 1]] \in Nat /\ left[adding] \in Nat /\ expires[adding] \in Nat
        BY <1>1, <2>2, Members DEF Inv, Link, Walking
      <3>2. le <= n => /\ expires[L[le]] = left[L[le]] - left[L[le - 1]]
                       /\ left[L[le]] \in Nat
        BY <1>1, <2>2, Members DEF Inv, Link, Deltas
      <3> QED
        BY <3>1, <3>2 DEF Link, Before
    <2> QED
      BY <1>1, <2>1, <2>2
  <1>4. /\ left' = left /\ adding' = NoProc /\ le' = 1 /\ woken' = woken
        /\ expires' = Shortened
    BY DEF Link
  <1>5. /\ \A i \in 1 .. n : i # le => expires'[L[i]] = expires[L[i]]
        /\ le <= n => expires'[L[le]] = expires[L[le]] - expires[adding]
        /\ expires'[adding] = expires[adding]
        /\ expires' \in [Procs -> 0 .. MaxTime]
    <2>1. \A i \in 1 .. n : i # le /\ le <= n => L[i] # L[le]
      BY <1>1 DEF Inv, Ordered
    <2>2. CASE le <= n
      <3>1. expires[L[le]] - expires[adding] \in 0 .. MaxTime
        <4>1. expires[L[le]] \in 0 .. MaxTime /\ expires[adding] \in 0 .. MaxTime
          BY <1>1, <2>2 DEF Inv, TypeOK
        <4>2. expires[adding] < expires[L[le]]
          BY <2>2 DEF Link, Before
        <4> QED
          BY <4>1, <4>2, TimeAssumption
      <3>2. expires' = [expires EXCEPT ![L[le]] = expires[L[le]] - expires[adding]]
        BY <1>4, <2>2 DEF Shortened
      <3> QED
        BY <1>1, <2>1, <2>2, <3>1, <3>2 DEF Inv, TypeOK
    <2>3. CASE ~(le <= n)
      BY <1>1, <1>4, <2>3 DEF Shortened, Inv, TypeOK
    <2> QED
      BY <2>2, <2>3
  <1>6. TypeOK'
    BY <1>1, <1>2, <1>4, <1>5 DEF Inv, TypeOK
  <1>7. Ordered'
    <2> SUFFICES ASSUME NEW i \in 1 .. n + 1, NEW j \in 1 .. n + 1, i < j
                 PROVE  M[i] # M[j] /\ left[M[i]] <= left[M[j]]
      BY <1>2, <1>4 DEF Ordered
    <2>0. /\ \A k, m \in 1 .. n : k < m => L[k] # L[m] /\ left[L[k]] <= left[L[m]]
          /\ \A k \in 1 .. n : left[L[k]] \in Nat
          /\ left[adding] \in Nat
      BY <1>1, Members DEF Inv, Ordered
    <2>1. CASE j < le
      BY <1>1, <1>2, <2>0, <2>1
    <2>2. CASE j = le
      <3>1. M[i] = L[i] /\ M[j] = adding /\ i \in 1 .. n /\ le - 1 \in 1 .. n
        BY <1>1, <1>2, <2>2
      <3>2. left[L[i]] <= left[L[le - 1]]
        BY <1>1, <2>0, <2>2, <3>1
      <3> QED
        BY <1>1, <1>3, <2>0, <2>2, <3>1, <3>2
    <2>3. CASE j > le /\ i < le
      BY <1>1, <1>2, <2>0, <2>3
    <2>4. CASE j > le /\ i = le
      <3>1. M[i] = adding /\ M[j] = L[j - 1] /\ j - 1 \in 1 .. n /\ le \in 1 .. n
        BY <1>1, <1>2, <2>4
      <3>2. left[L[le]] <= left[L[j - 1]]
        BY <1>1, <2>0, <2>4, <3>1
      <3> QED
        BY <1>1, <1>3, <2>0, <2>4, <3>1, <3>2
    <2>5. CASE j > le /\ i > le
      <3>1. /\ M[i] = L[i - 1] /\ M[j] = L[j - 1]
            /\ i - 1 \in 1 .. n /\ j - 1 \in 1 .. n /\ i - 1 < j - 1
        BY <1>1, <1>2, <2>5
      <3> QED
        BY <2>0, <3>1
    <2> QED
      BY <1>1, <2>1, <2>2, <2>3, <2>4, <2>5
  <1>8. Deltas'
    <2> SUFFICES ASSUME NEW i \in 1 .. n + 1
                 PROVE  /\ left[M[i]] > 0
                        /\ i = 1 => expires'[M[i]] = left[M[i]]
                        /\ i > 1 => expires'[M[i]] = left[M[i]] - left[M[i - 1]]
      BY <1>2, <1>4 DEF Deltas
    <2>0. /\ \A k \in 1 .. n :
                 /\ left[L[k]] > 0 /\ left[L[k]] \in Nat /\ expires[L[k]] \in Nat
                 /\ k = 1 => expires[L[k]] = left[L[k]]
                 /\ k > 1 => expires[L[k]] = left[L[k]] - left[L[k - 1]]
          /\ left[adding] > 0 /\ left[adding] \in Nat /\ expires[adding] \in Nat
          /\ le = 1 => expires[adding] = left[adding]
          /\ le > 1 => expires[adding] = left[adding] - left[L[le - 1]]
      BY <1>1, Members DEF Inv, Deltas, Walking, Link
    <2>1. CASE i < le
      <3>1. M[i] = L[i] /\ i \in 1 .. n /\ (i > 1 => M[i - 1] = L[i - 1])
        BY <1>1, <1>2, <2>1
      <3> QED
        BY <1>5, <2>0, <2>1, <3>1
    <2>2. CASE i = le
      <3>1. M[i] = adding /\ (i > 1 => M[i - 1] = L[i - 1])
        BY <1>1, <1>2, <2>2
      <3> QED
        BY <1>5, <2>0, <2>2, <3>1
    <2>3. CASE i = le + 1
      <3>1. M[i] = L[le] /\ M[i - 1] = adding /\ le \in 1 .. n /\ i > 1
        BY <1>1, <1>2, <2>3
      <3>2. expires'[L[le]] = expires[L[le]] - expires[adding]
        BY <1>5, <3>1
      <3>3. le > 1 => left[L[le - 1]] \in Nat
        BY <1>1, <2>0, <3>1
      <3>4. expires[L[le]] - expires[adding] = left[L[le]] - left[adding]
        <4>1. CASE le = 1
          BY <2>0, <3>1, <4>1
        <4>2. CASE le > 1
          <5>1. /\ expires[L[le]] = left[L[le]] - left[L[le - 1]]
                /\ expires[adding] = left[adding] - left[L[le - 1]]
            BY <2>0, <3>1, <4>2
          <5>2. left[L[le]] \in Nat /\ left[adding] \in Nat /\ left[L[le - 1]] \in Nat
            BY <2>0, <3>1, <3>3, <4>2
          <5> QED
            BY <5>1, <5>2
        <4> QED
          BY <3>1, <4>1, <4>2
      <3> QED
        BY <2>0, <2>3, <3>1, <3>2, <3>4
    <2>4. CASE i > le + 1
      <3>1. /\ M[i] = L[i - 1] /\ M[i - 1] = L[i - 2] /\ i - 1 \in 1 .. n
            /\ i - 1 > 1 /\ i - 1 # le /\ i - 1 - 1 = i - 2
        BY <1>1, <1>2, <2>4
      <3> QED
        BY <1>5, <2>0, <2>4, <3>1
    <2> QED
      BY <1>1, <2>1, <2>2, <2>3, <2>4
  <1>9. Absent'
    <2> SUFFICES ASSUME NEW p \in Procs, ~Listed(p)'
                 PROVE  left[p] = 0
      BY <1>4 DEF Absent
    <2>1. p # adding
      BY <1>1, <1>2 DEF Listed
    <2>2. ASSUME NEW i \in 1 .. n, L[i] = p
          PROVE  FALSE
      <3>1. i < le => M[i] = p /\ i \in 1 .. n + 1
        BY <1>1, <1>2, <2>2
      <3>2. i >= le => M[i + 1] = p /\ i + 1 \in 1 .. n + 1
        BY <1>1, <1>2, <2>2
      <3>3. \E j \in 1 .. n + 1 : M[j] = p
        BY <1>1, <2>2, <3>1, <3>2
      <3> QED
        BY <1>2, <3>3 DEF Listed
    <2> QED
      BY <2>1, <2>2 DEF Inv, Absent, Listed
  <1>10. Walking'
    BY <1>4 DEF Walking
  <1> QED
    BY <1>6, <1>7, <1>8, <1>9, <1>10 DEF Inv
\* del_timer gives the ticks back to the timer after it.
LEMMA DelTimerInv ==
    ASSUME Inv, NEW p \in Procs, DelTimer(p)
    PROVE  Inv'
  <1> DEFINE L == timer_list
             M == timer_list'
             n == Len(timer_list)
  <1>1. /\ adding = NoProc /\ adding' = NoProc /\ le' = 1 /\ n \in Nat
        /\ left'[p] = 0 /\ left' \in [Procs -> 0 .. MaxTime]
        /\ \A q \in Procs \ {p} : left'[q] = left[q]
    BY Members, TimeAssumption DEF Inv, DelTimer, TypeOK, Walking
  <1>2. CASE ~Listed(p)
    <2>1. timer_list' = timer_list /\ expires' = expires
      BY <1>2 DEF DelTimer, Listed
    <2>2. left' = left
      BY <1>1, <1>2, NoProcAssumption DEF Inv, Absent, TypeOK
    <2>3. TypeOK'
      BY <1>1, <2>1 DEF Inv, TypeOK, DelTimer
    <2>4. Ordered' /\ Deltas'
      BY <2>1, <2>2 DEF Inv, Ordered, Deltas
    <2>5. Absent'
      BY <1>1, <2>1, <2>2 DEF Inv, Absent, Listed
    <2> QED
      BY <1>1, <2>3, <2>4, <2>5 DEF Inv, Walking
  <1>3. ASSUME NEW i \in 1 .. n, L[i] = p,
               expires' = Lengthened(i), timer_list' = RemoveAt(timer_list, i)
        PROVE  Inv'
    <2>1. /\ M \in Seq(Procs) /\ Len(M) = n - 1
          /\ \A j \in 1 .. n - 1 : j < i => M[j] = L[j]
          /\ \A j \in 1 .. n - 1 : j >= i => M[j] = L[j + 1]
      <3>1. timer_list \in Seq(Procs) /\ i \in 1 .. Len(timer_list)
        BY <1>3 DEF Inv, TypeOK
      <3>2. Removed(Procs, timer_list, i, RemoveAt(timer_list, i))
        BY <3>1, RemoveAtIs, Zenon
      <3>3. Removed(Procs, timer_list, i, timer_list')
        BY <1>3, <3>2
      <3> QED
        BY <3>3 DEF Removed
    <2>2. /\ \A j \in 1 .. n : /\ L[j] \in Procs /\ left[L[j]] \in Nat /\ left[L[j]] > 0
                              /\ left[L[j]] <= MaxTime /\ expires[L[j]] \in Nat
          /\ \A j, k \in 1 .. n : j < k => L[j] # L[k] /\ left[L[j]] <= left[L[k]]
      <3>1. \A j, k \in 1 .. n : j < k => L[j] # L[k] /\ left[L[j]] <= left[L[k]]
        BY DEF Inv, Ordered
      <3>2. \A j \in 1 .. n : left[L[j]] > 0
        BY DEF Inv, Deltas
      <3>3. TypeOK
        BY DEF Inv
      <3>4. \A j \in 1 .. n : L[j] \in Procs /\ left[L[j]] \in Nat /\ expires[L[j]] \in Nat
        BY <3>3, Members
      <3>5. \A q \in Procs : left[q] <= MaxTime
        BY <3>3, TimeAssumption DEF TypeOK
      <3> QED
        BY <3>1, <3>2, <3>4, <3>5
    <2>3. /\ \A j \in 1 .. n : j # i => L[j] # p /\ left'[L[j]] = left[L[j]]
          /\ left'[L[i]] = 0
      BY <1>1, <1>3, <2>2
    <2>4. \* the timer behind p inherits its ticks
          /\ \A j \in 1 .. n : j # i + 1 => expires'[L[j]] = expires[L[j]]
          /\ i < n => expires'[L[i + 1]] = expires[L[i + 1]] + expires[L[i]]
          /\ expires' \in [Procs -> 0 .. MaxTime]
      <3>1. CASE i < n
        <4>1. /\ i + 1 \in 1 .. n /\ i + 1 > 1 /\ i + 1 - 1 = i
              /\ \A j \in 1 .. n : j # i + 1 => L[j] # L[i + 1]
          BY <1>3, <2>2, <3>1
        <4>2. expires[L[i + 1]] = left[L[i + 1]] - left[L[i]]
          BY <4>1 DEF Inv, Deltas
        <4>3. expires[L[i]] <= left[L[i]]
          <5>1. left[L[i]] \in Nat /\ expires[L[i]] \in Nat
            BY <2>2
          <5>2. CASE i = 1
            BY <5>1, <5>2 DEF Inv, Deltas
          <5>3. CASE i > 1
            <6>1. i - 1 \in 1 .. n
              BY <5>3
            <6>2. left[L[i - 1]] \in Nat
              BY <2>2, <6>1
            <6>3. expires[L[i]] = left[L[i]] - left[L[i - 1]]
              BY <5>3 DEF Inv, Deltas
            <6> QED
              BY <5>1, <6>2, <6>3
          <5> QED
            BY <5>2, <5>3
        <4>4. expires[L[i + 1]] + expires[L[i]] \in 0 .. MaxTime
          BY <2>2, <4>1, <4>2, <4>3, TimeAssumption
        <4>5. expires' = [expires EXCEPT ![L[i + 1]] = expires[L[i + 1]] + expires[L[i]]]
          BY <1>3, <3>1 DEF Lengthened
        <4> QED
          BY <2>2, <4>1, <4>4, <4>5 DEF Inv, TypeOK
      <3>2. CASE ~(i < n)
        BY <1>1, <1>3, <3>2 DEF Lengthened, Inv, TypeOK
      <3> QED
        BY <3>1, <3>2
    <2>5. TypeOK'
      <3>1. adding' \in Procs \cup {NoProc} /\ woken' \subseteq Procs
        BY <1>1 DEF DelTimer
      <3>2. le' \in 1 .. Len(timer_list') + 1
        BY <1>1, <1>3, <2>1
      <3> QED
        BY <1>1, <2>1, <2>4, <3>1, <3>2 DEF TypeOK
    <2>a. /\ \A j \in 1 .. n : j = 1 => expires[L[j]] = left[L[j]]
          /\ \A j \in 1 .. n : j > 1 => expires[L[j]] = left[L[j]] - left[L[j - 1]]
          /\ i \in 1 .. n
      BY <1>3 DEF Inv, Deltas
    <2>6. Ordered'
      <3> SUFFICES ASSUME NEW j \in 1 .. n - 1, NEW k \in 1 .. n - 1, j < k
                   PROVE  M[j] # M[k] /\ left'[M[j]] <= left'[M[k]]
        BY <1>1, <2>1 DEF Ordered
      <3> HIDE DEF L, M, n
      <3> DEFINE up(x) == IF x < i THEN x ELSE x + 1
      <3>1. /\ up(j) \in 1 .. n /\ up(k) \in 1 .. n /\ up(j) < up(k) /\ up(j) # i /\ up(k) # i
            /\ M[j] = L[up(j)] /\ M[k] = L[up(k)]
        <4>1. \A x \in 1 .. n - 1 :
                 /\ up(x) \in 1 .. n /\ up(x) # i
                 /\ x < i => up(x) = x
                 /\ x >= i => up(x) = x + 1
          BY <1>1, <2>a
        <4> HIDE DEF up
        <4>2. ASSUME NEW x \in 1 .. n - 1 PROVE M[x] = L[up(x)]
          <5>1. CASE x < i
            BY <2>1, <4>1, <5>1
          <5>2. CASE x >= i
            BY <2>1, <4>1, <5>2
          <5> QED
            BY <1>1, <2>a, <5>1, <5>2
        <4>3. up(j) < up(k)
          BY <1>1, <2>a, <4>1
        <4> QED
          BY <4>1, <4>2, <4>3
      <3> HIDE DEF up
      <3> QED
        BY <2>2, <2>3, <3>1
    <2>7. Deltas'
      <3> SUFFICES ASSUME NEW j \in 1 .. n - 1
                   PROVE  /\ left'[M[j]] > 0
                          /\ j = 1 => expires'[M[j]] = left'[M[j]]
                          /\ j > 1 => expires'[M[j]] = left'[M[j]] - left'[M[j - 1]]
        BY <1>1, <2>1 DEF Deltas
      <3> HIDE DEF L, M, n
      <3>1. CASE j < i
        <4>1. /\ M[j] = L[j] /\ j \in 1 .. n /\ j # i /\ j # i + 1
              /\ j > 1 => M[j - 1] = L[j - 1] /\ j - 1 \in 1 .. n /\ j - 1 # i
          <5>1. /\ j \in 1 .. n /\ j # i /\ j # i + 1
                /\ j > 1 => /\ j - 1 \in 1 .. n - 1 /\ j - 1 \in 1 .. n
                            /\ j - 1 < i /\ j - 1 # i
            BY <1>1, <2>a, <3>1
          <5> QED
            BY <2>1, <3>1, <5>1
        <4> QED
          BY <2>2, <2>3, <2>4, <2>a, <4>1
      <3>2. CASE j = i
        <4>1. /\ M[j] = L[i + 1] /\ i + 1 \in 1 .. n /\ i + 1 # i /\ i < n
              /\ i + 1 > 1 /\ i + 1 - 1 = i
              /\ j > 1 => M[j - 1] = L[i - 1] /\ i - 1 \in 1 .. n /\ i - 1 # i
          BY <1>1, <2>a, <2>1, <3>2
        <4>2. expires'[L[i + 1]] = left[L[i + 1]] - left[L[i]] + expires[L[i]]
          BY <2>2, <2>4, <2>a, <4>1
        <4> QED
          BY <2>2, <2>3, <2>a, <3>2, <4>1, <4>2
      <3>3. CASE j > i
        <4>1. /\ M[j] = L[j + 1] /\ j + 1 \in 1 .. n /\ j + 1 # i /\ j + 1 # i + 1
              /\ j > 1 /\ M[j - 1] = L[j] /\ j \in 1 .. n /\ j # i
              /\ j + 1 > 1 /\ j + 1 - 1 = j
          <5>1. /\ j + 1 \in 1 .. n /\ j + 1 # i /\ j + 1 # i + 1 /\ j >= i
                /\ j > 1 /\ j \in 1 .. n /\ j # i /\ j + 1 > 1 /\ j + 1 - 1 = j
                /\ j - 1 \in 1 .. n - 1 /\ j - 1 >= i /\ j - 1 + 1 = j
            BY <1>1, <2>a, <3>3
          <5>2. M[j] = L[j + 1]
            BY <2>1, <5>1
          <5>3. M[j - 1] = L[j - 1 + 1]
            BY <2>1, <5>1
          <5> QED
            BY <5>1, <5>2, <5>3
        <4> QED
          BY <2>2, <2>3, <2>4, <2>a, <3>3, <4>1
      <3> QED
        BY <1>1, <2>a, <3>1, <3>2, <3>3
    <2>8. Absent'
      <3> SUFFICES ASSUME NEW q \in Procs, ~Listed(q)', q # p
                   PROVE  left[q] = 0
        BY <1>1 DEF Absent
      <3>1. ASSUME NEW j \in 1 .. n, L[j] = q
            PROVE  FALSE
        <4>1. j < i => M[j] = q /\ j \in 1 .. n - 1
          BY <1>1, <2>a, <2>1, <3>1
        <4>2. j > i => M[j - 1] = q /\ j - 1 \in 1 .. n - 1
          BY <1>1, <2>a, <2>1, <3>1
        <4> QED
          BY <1>1, <1>3, <2>1, <3>1, <4>1, <4>2 DEF Listed
      <3> QED
        BY <1>1, <3>1, NoProcAssumption DEF Inv, Absent, Listed
    <2> QED
      BY <1>1, <2>5, <2>6, <2>7, <2>8 DEF Inv, Walking
  <1> QED
    BY <1>2, <1>3 DEF DelTimer

\* The timers whose time is up are those that have one tick left, and they are
\* the first ones of the list.
LEMMA ExpiredIs ==
    ASSUME Inv, adding = NoProc
    PROVE  Expired = {i \in 1 .. Len(timer_list) : left[timer_list[i]] = 1}
  <1> DEFINE L == timer_list
             n == Len(timer_list)
             D == Decremented
             E == Expired
             late == {j \in 1 .. n : j \in E /\ left[L[j]] # 1}
  <1>1. /\ n \in Nat
        /\ \A j \in 1 .. n : L[j] \in Procs /\ left[L[j]] \in Nat /\ left[L[j]] > 0
        /\ \A j \in 1 .. n : j = 1 => expires[L[j]] = left[L[j]]
        /\ \A j \in 1 .. n : j > 1 => expires[L[j]] = left[L[j]] - left[L[j - 1]]
        /\ \A j, k \in 1 .. n : j < k => L[j] # L[k] /\ left[L[j]] <= left[L[k]]
    BY Members DEF Inv, Deltas, Ordered
  <1>2. /\ n > 0 => D = [expires EXCEPT ![L[1]] = expires[L[1]] - 1]
        /\ expires \in [Procs -> 0 .. MaxTime]
    BY DEF Decremented, Inv, TypeOK
  <1>3. /\ E \subseteq 1 .. n
        /\ \A i \in 1 .. n : i \in E <=> \A j \in 1 .. i : D[L[j]] = 0
    BY DEF Expired
  <1> HIDE DEF L, n, D, E
  <1>4. /\ \A j \in 1 .. n : j = 1 => D[L[j]] = left[L[j]] - 1
        /\ \A j \in 1 .. n : j > 1 => D[L[j]] = left[L[j]] - left[L[j - 1]]
    <2> SUFFICES ASSUME NEW j \in 1 .. n
                 PROVE  /\ j = 1 => D[L[j]] = left[L[j]] - 1
                        /\ j > 1 => D[L[j]] = left[L[j]] - left[L[j - 1]]
      OBVIOUS
    <2>1. 1 \in 1 .. n /\ n > 0 /\ (j > 1 => L[j] # L[1])
      BY <1>1
    <2>2. /\ L[1] \in Procs /\ L[j] \in Procs
          /\ expires[L[1]] = left[L[1]]
          /\ j > 1 => expires[L[j]] = left[L[j]] - left[L[j - 1]]
      BY <1>1, <2>1
    <2>3. /\ D[L[1]] = expires[L[1]] - 1
          /\ j > 1 => D[L[j]] = expires[L[j]]
      BY <1>2, <2>1, <2>2
    <2> QED
      BY <2>2, <2>3
  <1>5. late = {}
    <2> SUFFICES ASSUME late # {}
                 PROVE  FALSE
      OBVIOUS
    <2>1. PICK j \in late : \A k \in late : j <= k
      <3>1. late \subseteq Nat
        OBVIOUS
      <3> HIDE DEF late
      <3> QED
        BY <3>1, SmallestElement, Zenon
    <2>2. j \in 1 .. n /\ j \in E /\ left[L[j]] # 1
      OBVIOUS
    <2>3. \A k \in 1 .. j : D[L[k]] = 0 /\ k \in 1 .. n
      BY <1>1, <1>3, <2>2
    <2>a. j \in 1 .. j /\ left[L[j]] \in Nat
      BY <1>1, <2>2
    <2>b. D[L[j]] = 0
      BY <2>3, <2>a
    <2>4. CASE j = 1
      <3>1. D[L[j]] = left[L[j]] - 1
        BY <1>4, <2>2, <2>4
      <3> QED
        BY <2>2, <2>a, <2>b, <3>1
    <2>5. CASE j > 1
      <3>1. j - 1 \in 1 .. n /\ j - 1 \in 1 .. j /\ ~(j <= j - 1)
        BY <1>1, <2>2, <2>5
      <3>2. j - 1 \in E
        <4>1. \A k \in 1 .. j - 1 : D[L[k]] = 0
          BY <2>2, <2>3
        <4> QED
          BY <1>3, <3>1, <4>1
      <3>3. left[L[j - 1]] = 1
        BY <2>1, <3>1, <3>2
      <3>4. D[L[j]] = left[L[j]] - left[L[j - 1]]
        BY <1>4, <2>2, <2>5
      <3> QED
        BY <2>2, <2>a, <2>b, <3>3, <3>4
    <2> QED
      BY <2>2, <2>4, <2>5
  <1>6. ASSUME NEW i \in 1 .. n, left[L[i]] = 1
        PROVE  i \in E
    <2>1. \A k \in 1 .. i : k \in 1 .. n /\ left[L[k]] = 1
      <3> SUFFICES ASSUME NEW k \in 1 .. i
                   PROVE  k \in 1 .. n /\ left[L[k]] = 1
        OBVIOUS
      <3>1. k \in 1 .. n
        BY <1>1
      <3>2. k < i => left[L[k]] <= left[L[i]]
        BY <1>1, <3>1
      <3>3. left[L[k]] \in Nat /\ left[L[k]] > 0
        BY <1>1, <3>1
      <3>4. k = i \/ k < i
        OBVIOUS
      <3> QED
        BY <1>6, <3>1, <3>2, <3>3, <3>4
    <2>2. ASSUME NEW j \in 1 .. i
          PROVE  D[L[j]] = 0
      <3>1. j \in 1 .. n /\ left[L[j]] = 1
        BY <2>1
      <3>2. j > 1 => left[L[j - 1]] = 1
        <4>1. j > 1 => j - 1 \in 1 .. i
          OBVIOUS
        <4> QED
          BY <2>1, <4>1
      <3>3. j = 1 \/ j > 1
        OBVIOUS
      <3>4. /\ j = 1 => D[L[j]] = left[L[j]] - 1
            /\ j > 1 => D[L[j]] = left[L[j]] - left[L[j - 1]]
        BY <1>4, <3>1
      <3> QED
        BY <3>1, <3>2, <3>3, <3>4
    <2> QED
      BY <1>3, <2>2
  <1>7. E = {i \in 1 .. n : left[L[i]] = 1}
    BY <1>3, <1>5, <1>6
  <1> QED
    BY <1>7 DEF E, L, n
\* A tick removes the first k timers of the list, those with one tick left.
LEMMA RunTimerListInv ==
    ASSUME Inv, RunTimerList
    PROVE  Inv' /\ woken' = {p \in Procs : left[p] = 1}
  <1> DEFINE L == timer_list
             M == timer_list'
             n == Len(timer_list)
             D == Decremented
  <1>1. PICK k \in 0 .. n : Expired = 1 .. k /\ M = SubSeq(timer_list, k + 1, n)
    BY DEF RunTimerList
  <1>2. /\ adding = NoProc /\ adding' = NoProc /\ le = 1 /\ le' = 1 /\ n \in Nat
        /\ expires' = D
        /\ woken' = {L[i] : i \in Expired}
        /\ left' = [p \in Procs |-> IF left[p] = 0 THEN 0 ELSE left[p] - 1]
        /\ left \in [Procs -> 0 .. MaxTime] /\ expires \in [Procs -> 0 .. MaxTime]
    BY Members DEF Inv, RunTimerList, TypeOK, Walking
  <1>3. Expired = {i \in 1 .. n : left[L[i]] = 1}
    BY <1>2, ExpiredIs
  <1>4. /\ \A i \in 1 .. n : L[i] \in Procs /\ left[L[i]] \in Nat /\ left[L[i]] > 0
        /\ \A i \in 1 .. n : i = 1 => expires[L[i]] = left[L[i]]
        /\ \A i \in 1 .. n : i > 1 => expires[L[i]] = left[L[i]] - left[L[i - 1]]
        /\ \A i, j \in 1 .. n : i < j => L[i] # L[j] /\ left[L[i]] <= left[L[j]]
    BY Members DEF Inv, Deltas, Ordered
  <1>5. /\ M \in Seq(Procs) /\ Len(M) = n - k
        /\ \A i \in 1 .. n - k : M[i] = L[k + i]
    BY <1>1, <1>2, <1>4, SubSeqProperties
  <1>6. \A p \in Procs : ~Listed(p) => left[p] = 0
    BY <1>2, NoProcAssumption DEF Inv, Absent
  <1>7. D = IF n = 0 THEN expires ELSE [expires EXCEPT ![L[1]] = expires[L[1]] - 1]
    BY DEF Decremented, Inv, TypeOK
  <1>8. woken' = {p \in Procs : left[p] = 1}
    <2>1. ASSUME NEW p \in Procs, left[p] = 1
          PROVE  p \in woken'
      <3>1. PICK i \in 1 .. n : L[i] = p
        BY <1>6, <2>1 DEF Listed
      <3> QED
        BY <1>2, <1>3, <2>1, <3>1
    <2>2. ASSUME NEW i \in Expired
          PROVE  L[i] \in Procs /\ left[L[i]] = 1
      BY <1>3, <1>4
    <2> QED
      BY <1>2, <2>1, <2>2
  <1>9. \A p : Listed(p)' <=> \E i \in 1 .. n - k : M[i] = p
    BY <1>2, <1>5 DEF Listed
  <1>a. /\ \A i \in 1 .. n : i <= k => left[L[i]] = 1
        /\ \A i \in 1 .. n : i > k => left[L[i]] # 1
    BY <1>1, <1>3
  <1>b. \A p : Listed(p) <=> \E i \in 1 .. n : L[i] = p
    BY DEF Listed
  <1>c. /\ Ordered' <=> \A i, j \in 1 .. n - k :
                           i < j => M[i] # M[j] /\ left'[M[i]] <= left'[M[j]]
        /\ Deltas' <=> \A i \in 1 .. n - k :
                          /\ left'[M[i]] > 0
                          /\ i = 1 => expires'[M[i]] = left'[M[i]]
                          /\ i > 1 => expires'[M[i]] = left'[M[i]] - left'[M[i - 1]]
    BY <1>5 DEF Ordered, Deltas
  <1>d. woken' \subseteq Procs
    BY <1>8
  <1>e. ASSUME expires' \in [Procs -> 0 .. MaxTime], left' \in [Procs -> 0 .. MaxTime]
        PROVE  TypeOK'
    BY <1>2, <1>5, <1>d, <1>e DEF TypeOK
  <1> HIDE DEF L, M, n, D
  <1>f. \A i \in 1 .. n - k : /\ k + i \in 1 .. n /\ M[i] = L[k + i]
                            /\ left'[M[i]] = left[L[k + i]] - 1
                            /\ left[L[k + i]] > 1 /\ left[L[k + i]] \in Nat
    <2> SUFFICES ASSUME NEW i \in 1 .. n - k
                 PROVE  /\ k + i \in 1 .. n /\ M[i] = L[k + i]
                        /\ left'[M[i]] = left[L[k + i]] - 1
                        /\ left[L[k + i]] > 1 /\ left[L[k + i]] \in Nat
      OBVIOUS
    <2>1. k + i \in 1 .. n /\ k + i > k /\ M[i] = L[k + i]
      BY <1>2, <1>5
    <2>2. /\ L[k + i] \in Procs /\ left[L[k + i]] \in Nat /\ left[L[k + i]] > 0
          /\ left[L[k + i]] # 1
      BY <1>4, <1>a, <2>1
    <2> QED
      BY <1>2, <2>1, <2>2
  <1>10. TypeOK'
    <2>1. left' \in [Procs -> 0 .. MaxTime]
      BY <1>2, TimeAssumption
    <2>2. D \in [Procs -> 0 .. MaxTime]
      <3>1. CASE n = 0
        BY <1>2, <1>7, <3>1
      <3>2. CASE n # 0
        <4>1. 1 \in 1 .. n
          BY <1>2, <3>2
        <4>2. L[1] \in Procs /\ expires[L[1]] = left[L[1]] /\ left[L[1]] > 0 /\ left[L[1]] \in Nat
          BY <1>4, <4>1
        <4>3. expires[L[1]] - 1 \in 0 .. MaxTime
          BY <1>2, <4>2, TimeAssumption
        <4> QED
          BY <1>2, <1>7, <3>2, <4>3
      <3> QED
        BY <3>1, <3>2
    <2> QED
      BY <1>2, <1>e, <2>1, <2>2
  <1>11. Ordered'
    <2> SUFFICES ASSUME NEW i \in 1 .. n - k, NEW j \in 1 .. n - k, i < j
                 PROVE  M[i] # M[j] /\ left'[M[i]] <= left'[M[j]]
      BY <1>c
    <2>1. /\ k + i \in 1 .. n /\ k + j \in 1 .. n /\ M[i] = L[k + i] /\ M[j] = L[k + j]
          /\ left'[M[i]] = left[L[k + i]] - 1 /\ left'[M[j]] = left[L[k + j]] - 1
          /\ left[L[k + i]] \in Nat /\ left[L[k + j]] \in Nat
      BY <1>f
    <2>2. k + i < k + j
      OBVIOUS
    <2>3. L[k + i] # L[k + j] /\ left[L[k + i]] <= left[L[k + j]]
      BY <1>4, <2>1, <2>2
    <2> QED
      BY <2>1, <2>3
  <1>12. Deltas'
    <2> SUFFICES ASSUME NEW i \in 1 .. n - k
                 PROVE  /\ left'[M[i]] > 0
                        /\ i = 1 => expires'[M[i]] = left'[M[i]]
                        /\ i > 1 => expires'[M[i]] = left'[M[i]] - left'[M[i - 1]]
      BY <1>c
    <2>1. /\ k + i \in 1 .. n /\ M[i] = L[k + i]
          /\ left'[M[i]] = left[L[k + i]] - 1
          /\ left[L[k + i]] > 1 /\ left[L[k + i]] \in Nat
      BY <1>f
    <2>2. 1 \in 1 .. n /\ n # 0
      BY <1>2, <2>1
    <2>3. /\ L[1] \in Procs /\ L[k + i] \in Procs
          /\ expires[L[1]] = left[L[1]] /\ left[L[1]] \in Nat
          /\ k + i > 1 => L[k + i] # L[1]
      BY <1>4, <2>1, <2>2
    <2>4. /\ D[L[1]] = expires[L[1]] - 1
          /\ k + i > 1 => D[L[k + i]] = expires[L[k + i]]
      BY <1>2, <1>7, <2>2, <2>3
    <2>5. k + i > 1 => expires[L[k + i]] = left[L[k + i]] - left[L[k + i - 1]]
      BY <1>4, <2>1
    <2>6. CASE i = 1 /\ k = 0
      BY <1>2, <2>1, <2>3, <2>4, <2>6
    <2>7. CASE i = 1 /\ k > 0
      <3>1. k \in 1 .. n /\ k + i - 1 = k /\ k + i > 1
        BY <1>2, <2>7
      <3>2. left[L[k]] = 1
        BY <1>a, <3>1
      <3>3. expires'[M[i]] = left[L[k + i]] - 1
        BY <1>2, <2>1, <2>4, <2>5, <3>1, <3>2
      <3> QED
        BY <2>1, <2>7, <3>3
    <2>8. CASE i > 1
      <3>1. i - 1 \in 1 .. n - k /\ k + i - 1 = k + (i - 1) /\ k + i > 1 /\ i # 1
        BY <1>2, <2>8
      <3>2. /\ left'[M[i - 1]] = left[L[k + (i - 1)]] - 1
            /\ left[L[k + (i - 1)]] \in Nat
        BY <1>f, <3>1
      <3>3. expires'[M[i]] = left[L[k + i]] - left[L[k + (i - 1)]]
        BY <1>2, <2>1, <2>4, <2>5, <3>1
      <3> QED
        BY <2>1, <3>1, <3>2, <3>3
    <2> QED
      BY <2>6, <2>7, <2>8
  <1>13. Absent'
    <2> SUFFICES ASSUME NEW p \in Procs, ~Listed(p)'
                 PROVE  left'[p] = 0
      BY DEF Absent
    <2>1. CASE ~Listed(p)
      BY <1>2, <1>6, <2>1
    <2>2. ASSUME NEW i \in 1 .. n, L[i] = p
          PROVE  left'[p] = 0
      <3>1. CASE i <= k
        <4>1. left[p] = 1
          BY <1>a, <2>2, <3>1
        <4> QED
          BY <1>2, <4>1
      <3>2. CASE i > k
        <4>1. i - k \in 1 .. n - k /\ k + (i - k) = i
          BY <1>2, <3>2
        <4>2. M[i - k] = p
          BY <1>5, <2>2, <4>1
        <4> QED
          BY <1>9, <4>1, <4>2
      <3> QED
        BY <3>1, <3>2
    <2> QED
      BY <1>b, <2>1, <2>2
  <1>14. Walking'
    BY <1>2 DEF Walking
  <1> QED
    BY <1>8, <1>10, <1>11, <1>12, <1>13, <1>14 DEF Inv

\* All steps together.
LEMMA InductiveStep == Inv /\ [Next]_vars => Inv'
  <1> SUFFICES ASSUME Inv, [Next]_vars
               PROVE  Inv'
    OBVIOUS
  <1>1. ASSUME NEW p \in Procs, DelTimer(p)
        PROVE  Inv'
    BY <1>1, DelTimerInv
  <1>2. ASSUME NEW p \in Procs, NEW n \in 1 .. MaxTime, AddTimer(p, n)
        PROVE  Inv'
    BY <1>2, AddTimerInv
  <1>3. CASE Walk
    BY <1>3, WalkInv
  <1>4. CASE Link
    BY <1>4, LinkInv
  <1>5. CASE RunTimerList
    BY <1>5, RunTimerListInv
  <1>6. CASE UNCHANGED vars
    BY <1>6 DEF vars, Inv, TypeOK, Ordered, Deltas, Absent, Walking, Listed
  <1> QED
    BY <1>1, <1>2, <1>3, <1>4, <1>5, <1>6 DEF Next

-----------------------------------------------------------------------------
(* The theorems *)

\* The differences in the list are those between the ticks that are left, in
\* every state add_timer, del_timer and run_timer_list can produce.
THEOREM Inductive == Spec => []Inv
  BY InitInv, InductiveStep, PTL DEF Spec

\* The variables have their types: the subtraction in run_timer_list never takes
\* expires below 0.
THEOREM TypeCorrect == Spec => []TypeOK
  <1>1. Inv => TypeOK
    BY DEF Inv
  <1> QED
    BY <1>1, Inductive, PTL

\* run_timer_list finds a tick left at the head, as it asserts.
THEOREM HeadCorrect == Spec => []HeadNotExpired
  <1>1. Inv => HeadNotExpired
    <2> SUFFICES ASSUME Inv, timer_list # <<>>
                 PROVE  expires[timer_list[1]] # 0
      BY DEF HeadNotExpired
    <2>1. 1 \in 1 .. Len(timer_list)
      BY DEF Inv, TypeOK
    <2> QED
      BY <2>1, Members DEF Inv, Deltas
  <1> QED
    BY <1>1, Inductive, PTL

\* Every timer fires at the tick it is set for: add_timer sets the ticks that
\* are left, its walk and the link leave them, and run_timer_list wakes those
\* that have one left.
THEOREM TimersFireOnTime == Spec => FiresOnTime
  <1>1. Init => T!Init
    BY DEF Init, T!Init
  <1>2. Inv /\ [Next]_vars => [T!Next]_(T!vars)
    <2> SUFFICES ASSUME Inv, [Next]_vars
                 PROVE  [T!Next]_(T!vars)
      OBVIOUS
    <2>1. ASSUME NEW p \in Procs, DelTimer(p)
          PROVE  T!Next
      BY <2>1 DEF DelTimer, T!Next, T!Del
    <2>2. ASSUME NEW p \in Procs, NEW n \in 1 .. MaxTime, AddTimer(p, n)
          PROVE  T!Next
      <3>1. left[p] = 0
        BY <2>2, NoProcAssumption DEF Inv, Absent, AddTimer
      <3> QED
        BY <2>2, <3>1 DEF AddTimer, T!Next, T!Add
    <2>3. CASE Walk \/ Link \/ UNCHANGED vars
      BY <2>3 DEF Walk, Link, vars, T!vars
    <2>4. CASE RunTimerList
      <3>1. woken' = {p \in Procs : left[p] = 1}
        BY <2>4, RunTimerListInv
      <3> QED
        BY <2>4, <3>1 DEF RunTimerList, T!Next, T!Tick
    <2> QED
      BY <2>1, <2>2, <2>3, <2>4 DEF Next
  <1> QED
    BY <1>1, <1>2, Inductive, PTL DEF Spec, FiresOnTime, T!Spec
-----------------------------------------------------------------------------
(* The links of the family agree with one another.                         *)

\* A process in the tree.
Live(c) == state[c] # "UNUSED"

\* Only a zombie other than init is in the loop of do_exit, and init is there
\* as long as any process is.
Leaver ==
    /\ leaving # NULL => leaving \in Relatives \ {init} /\ state[leaving] = "ZOMBIE"
    /\ state[init] # "ZOMBIE"
    /\ \A c \in Relatives : Live(c) => Live(init)

\* Who has been freed, or has left do_exit, has no children.
Childless == \A p \in Relatives : state[p] # "ALIVE" /\ p # leaving => cptr[p] = NULL

\* cptr leads to a child without a younger sibling.  In the loop of do_exit the
\* yptr of that child may still lead to the one init has just adopted.
YoungestExact ==
    \A p \in Links!Threads : cptr[p] # NULL =>
        /\ cptr[p] \in Relatives /\ Live(cptr[p]) /\ parent[cptr[p]] = p
        /\ \/ yptr[cptr[p]] = NULL
           \/ p = leaving /\ parent[yptr[cptr[p]]] # p

\* optr leads to a sibling, and its yptr back.
OlderExact(c) ==
    optr[c] # NULL =>
        /\ optr[c] \in Relatives /\ Live(optr[c])
        /\ parent[optr[c]] = parent[c]
        /\ yptr[optr[c]] = c

\* yptr leads to a sibling, and its optr back, but for the youngest child.
YoungerExact(c) ==
    /\ yptr[c] # NULL => yptr[c] \in Relatives /\ Live(yptr[c])
    /\ \/ cptr[parent[c]] = c
       \/ yptr[c] # NULL /\ optr[yptr[c]] = c /\ parent[yptr[c]] = parent[c]

\* A process in the tree is linked to its siblings.
SiblingExact(c) == parent[c] \in Links!Threads /\ OlderExact(c) /\ YoungerExact(c)

\* The inductive invariant.
LinksInv ==
    /\ Links!TypeOK
    /\ Leaver
    /\ Childless
    /\ YoungestExact
    /\ \A c \in Relatives : Live(c) => SiblingExact(c)

-----------------------------------------------------------------------------
\* Nobody is related to anybody at first.
LEMMA LinksInit ==
    ASSUME Links!Init
    PROVE  LinksInv
  BY RelativesAssumption
  DEF Links!LinksAssumption, Links!Init, LinksInv, Links!TypeOK, Links!Threads, Links!Pointer,
         Leaver, Childless, YoungestExact, SiblingExact, Live

\* The types, written out.
LEMMA LinksTypes ==
    ASSUME LinksInv
    PROVE  /\ state \in [Relatives -> {"UNUSED", "ALIVE", "ZOMBIE"}]
           /\ parent \in [Relatives -> Links!Pointer] /\ optr \in [Relatives -> Links!Pointer]
           /\ yptr \in [Relatives -> Links!Pointer] /\ cptr \in [Links!Threads -> Links!Pointer]
           /\ leaving \in Links!Pointer
           /\ init \in Relatives /\ idle \notin Relatives /\ NULL \notin Relatives /\ NULL # idle
           /\ Links!Threads = Relatives \cup {idle} /\ Links!Pointer = Relatives \cup {idle, NULL}
           /\ NULL \notin Links!Threads
  BY RelativesAssumption DEF Links!LinksAssumption, LinksInv, Links!TypeOK, Links!Threads,
                             Links!Pointer

\* Nothing leads to a process that is free.
LEMMA NothingToFree ==
    ASSUME LinksInv, NEW c \in Relatives, ~Live(c)
    PROVE  /\ \A x \in Relatives : Live(x) => optr[x] # c /\ yptr[x] # c
           /\ \A p \in Links!Threads : cptr[p] # c
  BY LinksTypes DEF LinksInv, SiblingExact, OlderExact, YoungerExact, YoungestExact

\* do_fork makes c the youngest child of p.
LEMMA SetLinksInv ==
    ASSUME LinksInv, NEW p \in Links!Threads, NEW c \in Relatives,
           Links!SetLinks(p, c)
    PROVE  LinksInv'
  <1> DEFINE o == cptr[p]
  <1>1. /\ leaving = NULL /\ leaving' = NULL /\ state[c] = "UNUSED" /\ p # c
        /\ p = idle \/ state[p] = "ALIVE"
        /\ p = idle <=> c = init
        /\ state' = [state EXCEPT ![c] = "ALIVE"]
        /\ parent' = [parent EXCEPT ![c] = p]
        /\ optr' = [optr EXCEPT ![c] = o]
        /\ cptr' = [cptr EXCEPT ![p] = c, ![c] = NULL]
    BY LinksTypes DEF Links!SetLinks, Links!Alive
  <1>2. yptr' = IF o = NULL THEN [yptr EXCEPT ![c] = NULL]
                ELSE [yptr EXCEPT ![o] = c, ![c] = NULL]
    BY DEF Links!SetLinks, Links!Younger, Links!Set
  <1>3. /\ o # c
        /\ o # NULL => o \in Relatives /\ Live(o) /\ parent[o] = p /\ yptr[o] = NULL
    BY <1>1, LinksTypes, NothingToFree DEF LinksInv, YoungestExact, Live
  <1>4. /\ state'[c] = "ALIVE" /\ parent'[c] = p /\ optr'[c] = o /\ yptr'[c] = NULL
        /\ cptr'[p] = c /\ cptr'[c] = NULL
        /\ o # NULL => yptr'[o] = c
        /\ \A x \in Relatives : x # c =>
               state'[x] = state[x] /\ parent'[x] = parent[x] /\ optr'[x] = optr[x]
        /\ \A x \in Relatives : x # c /\ x # o => yptr'[x] = yptr[x]
        /\ \A x \in Links!Threads : x # c /\ x # p => cptr'[x] = cptr[x]
    BY <1>1, <1>2, <1>3, LinksTypes
  <1> HIDE DEF o
  <1>5. Links!TypeOK'
    BY <1>1, <1>2, <1>3, LinksTypes DEF Links!TypeOK
  <1>6. Leaver' /\ Childless'
    BY <1>1, <1>4, LinksTypes DEF LinksInv, Leaver, Childless, Live
  <1>7. YoungestExact'
    BY <1>1, <1>3, <1>4, LinksTypes, NothingToFree DEF LinksInv, YoungestExact, Live
  <1>8. ASSUME NEW x \in Relatives, Live(x)'
        PROVE  SiblingExact(x)'
    <2>1. CASE x = c
      BY <1>1, <1>3, <1>4, <2>1, LinksTypes DEF SiblingExact, OlderExact, YoungerExact, Live
    <2>2. CASE x # c
      <3>1. Live(x) /\ SiblingExact(x) /\ optr[x] # c /\ yptr[x] # c
        BY <1>1, <1>4, <1>8, <2>2, NothingToFree DEF LinksInv, Live
      <3>2. parent'[x] \in Links!Threads
        BY <1>4, <2>2, <3>1 DEF SiblingExact
      <3>3. OlderExact(x)'
        <4>1. optr'[x] = optr[x] /\ optr[x] # c
          BY <1>4, <2>2, <3>1
        <4>2. optr[x] # NULL => optr[x] # o
          BY <1>3, <3>1, LinksTypes DEF SiblingExact, OlderExact
        <4> QED
          BY <1>4, <2>2, <3>1, <4>1, <4>2 DEF SiblingExact, OlderExact, Live
      <3>4. YoungerExact(x)'
        <4>1. CASE x = o
          BY <1>1, <1>3, <1>4, <2>2, <3>1, <4>1, LinksTypes DEF YoungerExact, Live
        <4>2. CASE x # o
          <5>1. yptr'[x] = yptr[x] /\ parent'[x] = parent[x]
            BY <1>4, <2>2, <4>2
          <5>2. cptr[parent[x]] = x => cptr'[parent[x]] = x
            BY <1>1, <1>4, <3>1, <4>2, LinksTypes DEF SiblingExact, LinksInv, YoungestExact, o,
               Childless
          <5> QED
            BY <1>4, <2>2, <3>1, <5>1, <5>2, LinksTypes DEF SiblingExact, YoungerExact, Live
        <4> QED
          BY <4>1, <4>2
      <3> QED
        BY <3>2, <3>3, <3>4 DEF SiblingExact
    <2> QED
      BY <2>1, <2>2
  <1> QED
    BY <1>5, <1>6, <1>7, <1>8 DEF LinksInv

\* do_wait takes c out from between its siblings.
LEMMA RemoveLinksInv ==
    ASSUME LinksInv, NEW p \in Links!Threads, NEW c \in Relatives,
           Links!RemoveLinks(p, c)
    PROVE  LinksInv'
  <1> DEFINE o == optr[c]
             y == yptr[c]
  <1>1. /\ leaving = NULL /\ leaving' = NULL /\ state[c] = "ZOMBIE" /\ parent[c] = p
        /\ c # init /\ cptr[c] = NULL
        /\ state' = [state EXCEPT ![c] = "UNUSED"]
        /\ parent' = parent
        /\ cptr' = IF y = NULL THEN [cptr EXCEPT ![p] = o] ELSE cptr
        /\ yptr' = IF o = NULL THEN yptr ELSE [yptr EXCEPT ![o] = y]
        /\ optr' = IF y = NULL THEN optr ELSE [optr EXCEPT ![y] = o]
    BY LinksTypes DEF Links!RemoveLinks, Links!Eldest, Links!Set, LinksInv, Leaver, Childless
  <1>2. /\ Live(c) /\ SiblingExact(c) /\ c # p
        /\ o # NULL => o \in Relatives /\ Live(o) /\ parent[o] = p /\ yptr[o] = c
        /\ y # NULL => y \in Relatives /\ Live(y) /\ parent[y] = p /\ optr[y] = c /\ cptr[p] # c
        /\ y = NULL => cptr[p] = c
    BY <1>1, LinksTypes DEF LinksInv, Live, SiblingExact, OlderExact, YoungerExact,
       YoungestExact, Links!RemoveLinks, Links!Alive
  <1>3. /\ state'[c] = "UNUSED"
        /\ \A x \in Relatives : x # c => state'[x] = state[x]
        /\ o # NULL => yptr'[o] = y
        /\ y # NULL => optr'[y] = o
        /\ \A x \in Relatives : x # o => yptr'[x] = yptr[x]
        /\ \A x \in Relatives : x # y => optr'[x] = optr[x]
        /\ \A x \in Links!Threads : x # p => cptr'[x] = cptr[x]
        /\ cptr'[p] = IF y = NULL THEN o ELSE cptr[p]
    BY <1>1, <1>2, LinksTypes
  <1> HIDE DEF o, y
  <1>4. Links!TypeOK'
    BY <1>1, <1>2, LinksTypes DEF Links!TypeOK
  <1>5. Leaver' /\ Childless'
    BY <1>1, <1>2, <1>3, LinksTypes DEF LinksInv, Leaver, Childless, Live, Links!RemoveLinks,
       Links!Alive
  <1>6. YoungestExact'
    BY <1>1, <1>2, <1>3, LinksTypes DEF LinksInv, YoungestExact, Live
  <1>7. ASSUME NEW x \in Relatives, Live(x)'
        PROVE  SiblingExact(x)'
    <2>1. x # c /\ Live(x) /\ SiblingExact(x) /\ parent'[x] = parent[x]
      BY <1>1, <1>3, <1>7 DEF LinksInv, Live
    <2>2. OlderExact(x)'
      <3>1. CASE x = y
        <4>1. y # NULL /\ optr'[x] = o /\ o # c
          BY <1>2, <1>3, <2>1, <3>1, LinksTypes DEF y
        <4> QED
          BY <1>1, <1>2, <1>3, <2>1, <3>1, <4>1, LinksTypes DEF OlderExact, Live
      <3>2. CASE x # y
        <4>1. optr[x] # NULL => optr[x] # c /\ optr[x] # o
          BY <1>2, <2>1, <3>2, LinksTypes DEF SiblingExact, OlderExact, y
        <4> QED
          BY <1>1, <1>3, <2>1, <3>2, <4>1 DEF SiblingExact, OlderExact, Live
      <3> QED
        BY <3>1, <3>2
    <2>3. YoungerExact(x)'
      <3>1. CASE x = o
        <4>1. o # NULL /\ yptr'[x] = y /\ y # c
          BY <1>2, <1>3, <2>1, <3>1, LinksTypes DEF o
        <4> QED
          BY <1>1, <1>2, <1>3, <2>1, <3>1, <4>1, LinksTypes DEF YoungerExact, Live
      <3>2. CASE x # o
        <4>1. yptr'[x] = yptr[x] /\ yptr[x] # c
          <5>1. ASSUME yptr[x] = c PROVE cptr[parent[x]] # x
            BY <1>1, <2>1, <5>1, LinksTypes DEF LinksInv, YoungestExact, SiblingExact
          <5>2. ASSUME yptr[x] = c PROVE x = o
            BY <2>1, <5>1, <5>2 DEF SiblingExact, YoungerExact, o
          <5> QED
            BY <1>3, <3>2, <5>2
        <4>2. cptr[parent[x]] = x => cptr'[parent[x]] = x
          BY <1>2, <1>3, <2>1 DEF SiblingExact
        <4>3. yptr[x] # NULL /\ optr[yptr[x]] = x => optr'[yptr[x]] = x
          BY <1>2, <1>3, <2>1 DEF SiblingExact, YoungerExact
        <4> QED
          BY <1>1, <1>3, <2>1, <4>1, <4>2, <4>3 DEF SiblingExact, YoungerExact, Live
      <3> QED
        BY <3>1, <3>2
    <2> QED
      BY <2>1, <2>2, <2>3 DEF SiblingExact
  <1> QED
    BY <1>4, <1>5, <1>6, <1>7 DEF LinksInv

\* init adopts the youngest child of the process that exits.  The next child
\* becomes the youngest, with a yptr that leads to a child of init.
LEMMA AdoptInv ==
    ASSUME LinksInv, Links!Adopt
    PROVE  LinksInv'
  <1> DEFINE l == leaving
             c == cptr[l]
             n == optr[c]
             i == cptr[init]
  <1>1. /\ l # NULL /\ c # NULL /\ l \in Relatives /\ l # init /\ state[l] = "ZOMBIE"
        /\ l \in Links!Threads
    BY LinksTypes DEF Links!Adopt, LinksInv, Leaver
  <1>2. /\ state' = state /\ leaving' = leaving
        /\ parent' = [parent EXCEPT ![c] = init]
        /\ optr' = [optr EXCEPT ![c] = i]
        /\ cptr' = [cptr EXCEPT ![l] = n, ![init] = c]
        /\ yptr' = IF i = NULL THEN [yptr EXCEPT ![c] = NULL]
                    ELSE [yptr EXCEPT ![i] = c, ![c] = NULL]
    BY DEF Links!Adopt, Links!Older, Links!Set
  <1> HIDE DEF l
  <1>3. /\ c \in Relatives /\ Live(c) /\ parent[c] = l /\ SiblingExact(c)
        /\ yptr[c] = NULL \/ parent[yptr[c]] # l
        /\ Live(init) /\ state[init] = "ALIVE"
    BY <1>1, LinksTypes DEF LinksInv, YoungestExact, Leaver, Live
  <1>4. /\ i # NULL => i \in Relatives /\ Live(i) /\ parent[i] = init /\ yptr[i] = NULL
        /\ i # c
    BY <1>1, <1>3, LinksTypes DEF LinksInv, YoungestExact, l
  <1>5. n # NULL => n \in Relatives /\ Live(n) /\ parent[n] = l /\ yptr[n] = c /\ n # c
    BY <1>3, LinksTypes DEF SiblingExact, OlderExact
  <1>6. /\ parent'[c] = init /\ optr'[c] = i /\ yptr'[c] = NULL
        /\ cptr'[l] = n /\ cptr'[init] = c
        /\ i # NULL => yptr'[i] = c
        /\ \A x \in Relatives : x # c => parent'[x] = parent[x] /\ optr'[x] = optr[x]
        /\ \A x \in Relatives : x # c /\ x # i => yptr'[x] = yptr[x]
        /\ \A x \in Links!Threads : x # l /\ x # init => cptr'[x] = cptr[x]
    BY <1>1, <1>2, <1>3, <1>4, LinksTypes
  <1> HIDE DEF c, n, i
  <1>7. Links!TypeOK'
    BY <1>1, <1>2, <1>3, <1>4, <1>5, LinksTypes DEF Links!TypeOK
  <1>8. Leaver' /\ Childless'
    BY <1>1, <1>2, <1>3, <1>6, LinksTypes DEF LinksInv, Leaver, Childless, Live, l
  <1>9. YoungestExact'
    <2>1. ASSUME NEW p \in Links!Threads, cptr'[p] # NULL
          PROVE  /\ cptr'[p] \in Relatives /\ state'[cptr'[p]] # "UNUSED" /\ parent'[cptr'[p]] = p
                 /\ \/ yptr'[cptr'[p]] = NULL
                    \/ p = leaving' /\ parent'[yptr'[cptr'[p]]] # p
      <3>1. CASE p = init
        BY <1>2, <1>3, <1>6, <3>1 DEF Live
      <3>2. CASE p = l
        <4>1. n # NULL /\ n # i
          BY <1>1, <1>4, <1>5, <1>6, <2>1, <3>2
        <4>2. yptr'[n] = c /\ parent'[n] = l /\ parent'[c] = init /\ state'[n] # "UNUSED"
          BY <1>2, <1>5, <1>6, <4>1 DEF Live
        <4> QED
          BY <1>1, <1>2, <1>5, <1>6, <3>2, <4>1, <4>2 DEF l
      <3>3. CASE p # init /\ p # l
        <4>1. cptr'[p] = cptr[p] /\ cptr[p] # NULL
          BY <1>6, <2>1, <3>3
        <4>2. cptr[p] \in Relatives /\ Live(cptr[p]) /\ parent[cptr[p]] = p
              /\ yptr[cptr[p]] = NULL
          BY <3>3, <4>1 DEF LinksInv, YoungestExact, l
        <4>3. cptr[p] # c /\ cptr[p] # i
          BY <1>3, <1>4, <3>3, <4>1, <4>2
        <4> QED
          BY <1>2, <1>6, <4>1, <4>2, <4>3 DEF Live
      <3> QED
        BY <3>1, <3>2, <3>3
    <2> QED
      BY <2>1 DEF YoungestExact, Live
  <1>10. ASSUME NEW x \in Relatives, Live(x)'
         PROVE  SiblingExact(x)'
    <2>1. Live(x) /\ SiblingExact(x)
      BY <1>2, <1>10 DEF LinksInv, Live
    <2>2. CASE x = c
      BY <1>2, <1>3, <1>4, <1>6, <2>2, LinksTypes DEF SiblingExact, OlderExact, YoungerExact, Live
    <2>3. CASE x # c
      <3>1. parent'[x] = parent[x] /\ optr'[x] = optr[x]
        BY <1>6, <2>3
      <3>2. OlderExact(x)'
        <4>1. optr[x] # NULL => optr[x] # i
          BY <1>4, <2>1, LinksTypes DEF SiblingExact, OlderExact
        <4>2. optr[x] # c
          <5>1. ASSUME optr[x] = c PROVE yptr[c] = x /\ parent[x] = l
            BY <1>3, <2>1, <5>1, LinksTypes DEF SiblingExact, OlderExact
          <5> QED
            BY <1>3, <5>1, LinksTypes
        <4> QED
          BY <1>2, <1>6, <2>1, <3>1, <4>1, <4>2 DEF SiblingExact, OlderExact, Live
      <3>3. YoungerExact(x)'
        <4>1. CASE x = i
          BY <1>2, <1>3, <1>4, <1>6, <2>1, <2>3, <3>1, <4>1, LinksTypes DEF YoungerExact, Live
        <4>2. CASE x # i
          <5>1. yptr'[x] = yptr[x]
            BY <1>6, <2>3, <4>2
          <5>2. CASE cptr[parent[x]] = x
            <6>1. parent[x] # l /\ parent[x] # init
              BY <2>3, <4>2, <5>2 DEF c, i
            <6>2. cptr'[parent[x]] = x
              BY <1>6, <2>1, <5>2, <6>1 DEF SiblingExact
            <6> QED
              BY <1>2, <2>1, <3>1, <5>1, <6>2 DEF SiblingExact, YoungerExact, Live
          <5>3. CASE yptr[x] # NULL /\ optr[yptr[x]] = x /\ parent[yptr[x]] = parent[x]
            <6>1. CASE yptr[x] = c
              BY <1>2, <1>3, <1>6, <2>1, <3>1, <5>1, <5>3, <6>1 DEF SiblingExact, YoungerExact,
                 Live, n
            <6>2. CASE yptr[x] # c
              BY <1>2, <1>6, <2>1, <3>1, <5>1, <5>3, <6>2 DEF SiblingExact, YoungerExact, Live
            <6> QED
              BY <6>1, <6>2
          <5> QED
            BY <2>1, <5>2, <5>3 DEF SiblingExact, YoungerExact
        <4> QED
          BY <4>1, <4>2
      <3> QED
        BY <2>1, <3>1, <3>2, <3>3 DEF SiblingExact
    <2> QED
      BY <2>2, <2>3
  <1> QED
    BY <1>7, <1>8, <1>9, <1>10 DEF LinksInv

\* The two ends of the loop of do_exit.
LEMMA LoopEndsInv ==
    ASSUME LinksInv,
           Links!Left \/ \E p \in Relatives : Links!Exit(p)
    PROVE  LinksInv'
  <1>1. CASE Links!Left
    <2>1. /\ leaving # NULL /\ cptr[leaving] = NULL /\ leaving' = NULL
          /\ UNCHANGED <<state, parent, cptr, optr, yptr>>
      BY <1>1 DEF Links!Left
    <2>2. Links!TypeOK' /\ Leaver' /\ Childless' /\ YoungestExact'
      BY <2>1, LinksTypes DEF Links!TypeOK, LinksInv, Leaver, Childless, YoungestExact, Live
    <2>3. \A x \in Relatives : Live(x)' => SiblingExact(x)'
      BY <2>1 DEF LinksInv, Live, SiblingExact, OlderExact, YoungerExact
    <2> QED
      BY <2>2, <2>3 DEF LinksInv
  <1>2. ASSUME NEW p \in Relatives, Links!Exit(p) PROVE LinksInv'
    <2>1. /\ leaving = NULL /\ state[p] = "ALIVE" /\ p # init
          /\ state' = [state EXCEPT ![p] = "ZOMBIE"] /\ leaving' = p
          /\ UNCHANGED <<parent, cptr, optr, yptr>>
      BY <1>2 DEF Links!Exit
    <2>2. \A x \in Relatives : (Live(x)' <=> Live(x)) /\ (x # p => state'[x] = state[x])
          /\ state'[p] = "ZOMBIE"
      BY <2>1, LinksTypes DEF Live
    <2>3. Links!TypeOK' /\ Leaver' /\ Childless'
      BY <2>1, <2>2, LinksTypes DEF Links!TypeOK, LinksInv, Leaver, Childless
    <2>4. YoungestExact'
      BY <2>1, <2>2, LinksTypes DEF LinksInv, YoungestExact, Live
    <2>5. \A x \in Relatives : Live(x)' => SiblingExact(x)'
      BY <2>1, <2>2 DEF LinksInv, Live, SiblingExact, OlderExact, YoungerExact
    <2> QED
      BY <2>3, <2>4, <2>5 DEF LinksInv
  <1> QED
    BY <1>1, <1>2

\* LinksInv is inductive.
LEMMA LinksNext ==
    ASSUME LinksInv, [Links!Next]_Links!vars
    PROVE  LinksInv'
  <1>1. ASSUME UNCHANGED Links!vars PROVE LinksInv'
    BY <1>1 DEF Links!vars, LinksInv, Links!TypeOK, Leaver, Childless, YoungestExact,
                SiblingExact, OlderExact, YoungerExact, Live
  <1> QED
    BY <1>1, SetLinksInv, RemoveLinksInv, AdoptInv, LoopEndsInv DEF Links!Next

\* The links of the family agree with one another, whatever the order of
\* forks, exits and waits.
THEOREM LinksCorrect == Links!Spec => []LinksAgree
  <1>1. Links!Init => LinksInv
    BY LinksInit
  <1>2. LinksInv /\ [Links!Next]_Links!vars => LinksInv'
    BY LinksNext
  <1>3. LinksInv => LinksAgree
    <2> SUFFICES ASSUME LinksInv PROVE LinksAgree
      OBVIOUS
    <2>1. Links!TypeOK
      BY DEF LinksInv
    <2>2. ASSUME NEW c \in Relatives, state[c] = "UNUSED", NEW p \in Relatives, state[p] # "UNUSED"
          PROVE  c \notin {optr[p], yptr[p], cptr[p]}
      BY <2>2, NothingToFree, LinksTypes DEF Live
    <2>3. ASSUME NEW c \in Relatives, state[c] # "UNUSED", parent[c] # leaving
          PROVE  /\ yptr[c] = NULL => cptr[parent[c]] = c
                 /\ yptr[c] # NULL => optr[yptr[c]] = c /\ parent[yptr[c]] = parent[c]
                 /\ optr[c] # NULL => yptr[optr[c]] = c
      <3>1. SiblingExact(c) /\ (cptr[parent[c]] = c => yptr[c] = NULL)
        BY <2>3, LinksTypes DEF LinksInv, Live, SiblingExact, YoungestExact
      <3> QED
        BY <3>1 DEF SiblingExact, OlderExact, YoungerExact
    <2>4. ASSUME NEW c \in Relatives, state[c] = "ZOMBIE", leaving # c PROVE cptr[c] = NULL
      BY <2>4 DEF LinksInv, Childless
    <2> QED
      BY <2>1, <2>2, <2>3, <2>4 DEF LinksAgree, Links!LinksAgree
  <1> QED
    BY <1>1, <1>2, <1>3, PTL DEF Links!Spec

-----------------------------------------------------------------------------
(* The links are a family tree: do_wait, which goes along optr from cptr,  *)
(* finds the children of a process, the youngest first.  That each link    *)
(* agrees with its neighbours does not yet say so: siblings might go round *)
(* in a circle that cptr does not lead to.  The invariant adds that there  *)
(* are lines of the children along the links (Lines); each step gives the  *)
(* next lines, and as a line is what the walk finds (WalkOfChain), they    *)
(* are the children of Family.                                             *)

\* p is in the list q.
InList(q, p) == \E i \in 1 .. Len(q) : q[i] = p

\* s has the processes that the links op lead to from the process start, each once.
Chain(s, start, op) ==
    /\ s \in Seq(Relatives)
    /\ \A i, j \in 1 .. Len(s) : s[i] = s[j] => i = j
    /\ start = IF Len(s) = 0 THEN NULL ELSE s[1]
    /\ \A i \in 1 .. Len(s) : op[s[i]] = IF i = Len(s) THEN NULL ELSE s[i + 1]

\* l has for each process the line of its children.
Lines(l) ==
    /\ l \in [Links!Threads -> Seq(Relatives)]
    /\ \A p \in Links!Threads : Chain(l[p], cptr[p], optr)
    /\ \A p \in Links!Threads, c \in Relatives :
           InList(l[p], c) <=> Live(c) /\ parent[c] = p

\* The inductive invariant.
FamilyInv == LinksInv /\ \E l : Lines(l)

\* The rest of a chain is the chain from the second.
LEMMA ChainTail ==
    ASSUME NEW op, NEW s, NEW start, Chain(s, start, op), Len(s) > 0
    PROVE  /\ start = s[1] /\ s[1] \in Relatives
           /\ Chain(Tail(s), op[s[1]], op)
           /\ Len(Tail(s)) = Len(s) - 1
           /\ s = <<s[1]>> \o Tail(s)
           /\ \A x : InList(Tail(s), x) <=> InList(s, x) /\ x # s[1]
  <1>1. s \in Seq(Relatives) /\ Len(s) \in Nat /\ s # <<>> /\ 1 \in 1 .. Len(s)
        /\ \A i \in 1 .. Len(s) : s[i] \in Relatives
    BY DEF Chain
  <1> DEFINE t == Tail(s)
  <1>2. t \in Seq(Relatives) /\ Len(t) = Len(s) - 1 /\ \A i \in 1 .. Len(s) - 1 : t[i] = s[i + 1]
    BY <1>1, HeadTailProperties
  <1> HIDE DEF t
  <1>3. Chain(t, op[s[1]], op)
    <2>1. ASSUME NEW i \in 1 .. Len(t), NEW j \in 1 .. Len(t), t[i] = t[j] PROVE i = j
      <3>1. i + 1 \in 1 .. Len(s) /\ j + 1 \in 1 .. Len(s) /\ s[i + 1] = s[j + 1]
        BY <1>1, <1>2, <2>1
      <3>2. i + 1 = j + 1
        BY <3>1 DEF Chain
      <3> QED
        BY <3>2
    <2>2. op[s[1]] = IF Len(t) = 0 THEN NULL ELSE t[1]
      <3>1. op[s[1]] = IF 1 = Len(s) THEN NULL ELSE s[1 + 1]
        BY <1>1 DEF Chain
      <3> QED
        BY <1>1, <1>2, <3>1
    <2>3. ASSUME NEW i \in 1 .. Len(t) PROVE op[t[i]] = IF i = Len(t) THEN NULL ELSE t[i + 1]
      <3>1. i + 1 \in 1 .. Len(s) /\ t[i] = s[i + 1]
        BY <1>1, <1>2
      <3>2. op[s[i + 1]] = IF i + 1 = Len(s) THEN NULL ELSE s[i + 1 + 1]
        BY <3>1 DEF Chain
      <3>3. i # Len(t) => i + 1 \in 1 .. Len(s) - 1
        BY <1>1, <1>2
      <3>4. i # Len(t) => t[i + 1] = s[i + 1 + 1]
        BY <1>2, <3>3
      <3>5. i = Len(t) <=> i + 1 = Len(s)
        BY <1>1, <1>2
      <3> QED
        BY <3>1, <3>2, <3>4, <3>5
    <2> QED
      BY <1>2, <2>1, <2>2, <2>3 DEF Chain
  <1>4. s = <<s[1]>> \o t
    <2>1. s = <<Head(s)>> \o Tail(s) /\ Head(s) = s[1]
      BY <1>1, HeadTailProperties
    <2> QED
      BY <2>1 DEF t
  <1>5. ASSUME NEW x PROVE InList(t, x) <=> InList(s, x) /\ x # s[1]
    <2>1. ASSUME InList(t, x) PROVE InList(s, x) /\ x # s[1]
      <3>1. PICK i \in 1 .. Len(t) : t[i] = x
        BY <2>1 DEF InList
      <3>2. i + 1 \in 1 .. Len(s) /\ s[i + 1] = x /\ i + 1 # 1
        BY <1>1, <1>2, <3>1
      <3>3. s[i + 1] # s[1]
        BY <1>1, <3>2 DEF Chain
      <3> QED
        BY <3>2, <3>3 DEF InList
    <2>2. ASSUME InList(s, x), x # s[1] PROVE InList(t, x)
      <3>1. PICK i \in 1 .. Len(s) : s[i] = x
        BY <2>2 DEF InList
      <3>2. i # 1
        BY <2>2, <3>1
      <3>3. i - 1 \in 1 .. Len(s) - 1 /\ i - 1 + 1 = i
        BY <1>1, <3>2
      <3>4. t[i - 1] = x
        BY <1>2, <3>1, <3>3
      <3> QED
        BY <1>2, <3>3, <3>4 DEF InList
    <2> QED
      BY <2>1, <2>2
  <1>6. start = s[1]
    BY <1>1 DEF Chain
  <1> QED
    BY <1>1, <1>2, <1>3, <1>4, <1>5, <1>6 DEF t

\* A chain gets a new first process.
LEMMA ChainPush ==
    ASSUME NEW op, NEW s, NEW start, Chain(s, start, op), NEW c \in Relatives, ~InList(s, c),
           op[c] = start
    PROVE  /\ Chain(<<c>> \o s, c, op)
           /\ \A x : InList(<<c>> \o s, x) <=> InList(s, x) \/ x = c
  <1> DEFINE t == <<c>> \o s
  <1>1. s \in Seq(Relatives) /\ Len(s) \in Nat /\ \A i \in 1 .. Len(s) : s[i] \in Relatives
    BY DEF Chain
  <1>2. /\ t \in Seq(Relatives) /\ Len(t) = Len(s) + 1 /\ t[1] = c
        /\ \A i \in 1 .. Len(s) : t[i + 1] = s[i]
    <2> DEFINE a == <<c>>
    <2>1. a \in Seq(Relatives) /\ Len(a) = 1 /\ a[1] = c
      OBVIOUS
    <2>2. t = a \o s
      OBVIOUS
    <2> HIDE DEF a, t
    <2>3. /\ t \in Seq(Relatives) /\ Len(t) = Len(a) + Len(s)
          /\ \A i \in 1 .. Len(a) + Len(s) : t[i] = IF i <= Len(a) THEN a[i] ELSE s[i - Len(a)]
      BY <1>1, <2>1, <2>2, ConcatProperties, Zenon
    <2>4. t[1] = c
      BY <1>1, <2>1, <2>3
    <2>5. ASSUME NEW i \in 1 .. Len(s) PROVE t[i + 1] = s[i]
      <3>1. i + 1 \in 1 .. Len(a) + Len(s) /\ ~(i + 1 <= Len(a)) /\ i + 1 - Len(a) = i
        BY <1>1, <2>1
      <3> QED
        BY <2>3, <3>1
    <2> QED
      BY <1>1, <2>1, <2>3, <2>4, <2>5
  <1> HIDE DEF t
  <1>3. \A i \in 1 .. Len(t) : i # 1 => i - 1 \in 1 .. Len(s) /\ t[i] = s[i - 1]
    <2>1. ASSUME NEW i \in 1 .. Len(t), i # 1 PROVE i - 1 \in 1 .. Len(s) /\ t[i] = s[i - 1]
      <3>1. i - 1 \in 1 .. Len(s) /\ i - 1 + 1 = i
        BY <1>1, <1>2, <2>1
      <3> QED
        BY <1>2, <3>1
    <2> QED
      BY <2>1
  <1>4. ASSUME NEW i \in 1 .. Len(t), NEW j \in 1 .. Len(t), t[i] = t[j] PROVE i = j
    <2>1. CASE i = 1 \/ j = 1
      BY <1>2, <1>3, <1>4, <2>1 DEF InList
    <2>2. CASE i # 1 /\ j # 1
      <3>1. i - 1 \in 1 .. Len(s) /\ j - 1 \in 1 .. Len(s) /\ s[i - 1] = s[j - 1]
        BY <1>3, <1>4, <2>2
      <3>2. i - 1 = j - 1
        BY <3>1 DEF Chain
      <3>3. i \in Nat /\ j \in Nat
        BY <1>1, <1>2
      <3> QED
        BY <3>2, <3>3
    <2> QED
      BY <2>1, <2>2
  <1>5. ASSUME NEW i \in 1 .. Len(t) PROVE op[t[i]] = IF i = Len(t) THEN NULL ELSE t[i + 1]
    <2>1. CASE i = 1
      <3>1. op[t[i]] = IF Len(s) = 0 THEN NULL ELSE s[1]
        BY <1>2, <2>1 DEF Chain
      <3>2. i = Len(t) <=> Len(s) = 0
        BY <1>1, <1>2, <2>1
      <3>3. Len(s) # 0 => t[i + 1] = s[1]
        BY <1>1, <1>2, <2>1
      <3> QED
        BY <3>1, <3>2, <3>3
    <2>2. CASE i # 1
      <3>1. i - 1 \in 1 .. Len(s) /\ t[i] = s[i - 1] /\ i \in Nat
        BY <1>1, <1>2, <1>3, <2>2
      <3>2. op[s[i - 1]] = IF i - 1 = Len(s) THEN NULL ELSE s[i - 1 + 1]
        BY <3>1 DEF Chain
      <3>3. i = Len(t) <=> i - 1 = Len(s)
        BY <1>1, <1>2, <3>1
      <3>4. i # Len(t) => i \in 1 .. Len(s)
        BY <1>1, <1>2, <3>1
      <3>5. i # Len(t) => t[i + 1] = s[i]
        BY <1>2, <3>4
      <3>6. i - 1 + 1 = i
        BY <3>1
      <3> QED
        BY <3>1, <3>2, <3>3, <3>5, <3>6
    <2> QED
      BY <2>1, <2>2
  <1>6. Chain(t, c, op)
    <2>1. Len(t) # 0
      BY <1>1, <1>2
    <2> QED
      BY <1>2, <1>4, <1>5, <2>1 DEF Chain
  <1>7. ASSUME NEW x PROVE InList(t, x) <=> InList(s, x) \/ x = c
    <2>1. ASSUME InList(t, x) PROVE InList(s, x) \/ x = c
      BY <1>2, <1>3, <2>1 DEF InList
    <2>2. ASSUME InList(s, x) PROVE InList(t, x)
      <3>1. PICK i \in 1 .. Len(s) : s[i] = x
        BY <2>2 DEF InList
      <3>2. i + 1 \in 1 .. Len(t) /\ t[i + 1] = x
        BY <1>1, <1>2, <3>1
      <3> QED
        BY <3>2 DEF InList
    <2>3. InList(t, c)
      <3>1. 1 \in 1 .. Len(t)
        BY <1>1, <1>2
      <3> QED
        BY <1>2, <3>1 DEF InList
    <2> QED
      BY <2>1, <2>2, <2>3
  <1> QED
    BY <1>6, <1>7 DEF t

\* A chain does not depend on the links of processes that are not in it.
LEMMA ChainKept ==
    ASSUME NEW op, NEW s, NEW start, Chain(s, start, op), NEW oq,
           \A x \in Relatives : InList(s, x) => oq[x] = op[x]
    PROVE  Chain(s, start, oq)
  <1>1. \A i \in 1 .. Len(s) : s[i] \in Relatives /\ InList(s, s[i])
    BY DEF Chain, InList
  <1> QED
    BY <1>1 DEF Chain

\* Process i of a chain is taken out.
LEMMA ChainWithout ==
    ASSUME NEW op, NEW s, NEW start, Chain(s, start, op), NEW i \in 1 .. Len(s), NEW oq,
           \A j \in 1 .. Len(s) : j # i => oq[s[j]] = IF j = i - 1 THEN op[s[i]] ELSE op[s[j]]
    PROVE  /\ Chain(RemoveAt(s, i), IF i = 1 THEN op[s[1]] ELSE start, oq)
           /\ \A x : InList(RemoveAt(s, i), x) <=> InList(s, x) /\ x # s[i]
  <1> DEFINE t == RemoveAt(s, i)
  <1>1. s \in Seq(Relatives) /\ Len(s) \in Nat /\ i \in Nat
    BY DEF Chain
  <1>2. Removed(Relatives, s, i, t)
    BY <1>1, RemoveAtIs
  <1> HIDE DEF t
  <1>3. /\ t \in Seq(Relatives) /\ Len(t) = Len(s) - 1
        /\ \A j \in 1 .. Len(s) - 1 : j < i => t[j] = s[j]
        /\ \A j \in 1 .. Len(s) - 1 : j >= i => t[j] = s[j + 1]
    BY <1>2 DEF Removed
  <1> DEFINE at(j) == IF j < i THEN j ELSE j + 1
  <1>4. ASSUME NEW j \in 1 .. Len(t)
        PROVE  at(j) \in 1 .. Len(s) /\ at(j) # i /\ t[j] = s[at(j)]
    BY <1>1, <1>3, <1>4
  <1>5. ASSUME NEW j \in 1 .. Len(t), NEW k \in 1 .. Len(t), t[j] = t[k] PROVE j = k
    <2>1. at(j) = at(k)
      <3>1. at(j) \in 1 .. Len(s) /\ at(k) \in 1 .. Len(s) /\ s[at(j)] = s[at(k)]
        BY <1>4, <1>5
      <3> HIDE DEF at
      <3> QED
        BY <3>1 DEF Chain
    <2> QED
      BY <1>1, <1>3, <2>1
  <1>6. ASSUME NEW j \in 1 .. Len(t) PROVE oq[t[j]] = IF j = Len(t) THEN NULL ELSE t[j + 1]
    <2>1. at(j) \in 1 .. Len(s) /\ at(j) # i /\ t[j] = s[at(j)] /\ j \in Nat
      BY <1>1, <1>3, <1>4
    <2>2. op[s[at(j)]] = IF at(j) = Len(s) THEN NULL ELSE s[at(j) + 1]
      <3> HIDE DEF at
      <3> QED
        BY <2>1 DEF Chain
    <2>3. op[s[i]] = IF i = Len(s) THEN NULL ELSE s[i + 1]
      BY DEF Chain
    <2>4. oq[s[at(j)]] = IF at(j) = i - 1 THEN op[s[i]] ELSE op[s[at(j)]]
      <3> HIDE DEF at
      <3> QED
        BY <2>1
    <2>5. CASE j = i - 1
      <3>1. at(j) = j
        BY <1>1, <2>1, <2>5
      <3>2. oq[t[j]] = IF i = Len(s) THEN NULL ELSE s[i + 1]
        BY <2>1, <2>3, <2>4, <2>5, <3>1
      <3>3. (j = Len(t) <=> i = Len(s)) /\ j + 1 = i
        BY <1>1, <1>3, <2>1, <2>5
      <3>4. i # Len(s) => i \in 1 .. Len(s) - 1
        BY <1>1
      <3>5. i # Len(s) => t[j + 1] = s[i + 1]
        BY <1>1, <1>3, <3>3, <3>4
      <3> QED
        BY <3>2, <3>3, <3>5
    <2>6. CASE j # i - 1
      <3>1. at(j) # i - 1
        BY <1>1, <2>1, <2>6
      <3>2. oq[t[j]] = IF at(j) = Len(s) THEN NULL ELSE s[at(j) + 1]
        BY <2>1, <2>2, <2>4, <3>1
      <3>3. at(j) = Len(s) <=> j = Len(t)
        BY <1>1, <1>3, <2>1, <2>6
      <3>4. j # Len(t) => t[j + 1] = s[at(j) + 1]
        <4>1. j # Len(t) => j + 1 \in 1 .. Len(t)
          BY <1>1, <1>3, <2>1
        <4>2. j # Len(t) => t[j + 1] = s[at(j + 1)]
          BY <1>4, <4>1
        <4>3. at(j + 1) = at(j) + 1
          BY <1>1, <2>1, <2>6
        <4> QED
          BY <4>2, <4>3
      <3> QED
        BY <3>2, <3>3, <3>4
    <2> QED
      BY <2>5, <2>6
  <1>7. (IF i = 1 THEN op[s[1]] ELSE start) = IF Len(t) = 0 THEN NULL ELSE t[1]
    <2>1. CASE i = 1
      <3>1. op[s[1]] = IF 1 = Len(s) THEN NULL ELSE s[1 + 1]
        BY <2>1 DEF Chain
      <3>2. Len(t) # 0 => t[1] = s[1 + 1]
        BY <1>1, <1>3, <2>1
      <3> QED
        BY <1>1, <1>3, <2>1, <3>1, <3>2
    <2>2. CASE i # 1
      <3>1. start = s[1]
        BY <1>1 DEF Chain
      <3>2. Len(t) # 0 /\ t[1] = s[1]
        BY <1>1, <1>3, <2>2
      <3> QED
        BY <2>2, <3>1, <3>2
    <2> QED
      BY <2>1, <2>2
  <1>8. Chain(t, IF i = 1 THEN op[s[1]] ELSE start, oq)
    BY <1>3, <1>5, <1>6, <1>7 DEF Chain
  <1>9. ASSUME NEW x PROVE InList(t, x) <=> InList(s, x) /\ x # s[i]
    <2>1. ASSUME InList(t, x) PROVE InList(s, x) /\ x # s[i]
      <3>1. PICK j \in 1 .. Len(t) : t[j] = x
        BY <2>1 DEF InList
      <3>2. at(j) \in 1 .. Len(s) /\ at(j) # i /\ x = s[at(j)]
        BY <1>4, <3>1
      <3> HIDE DEF at
      <3>3. s[at(j)] # s[i]
        BY <3>2 DEF Chain
      <3> QED
        BY <3>2, <3>3 DEF InList
    <2>2. ASSUME InList(s, x), x # s[i] PROVE InList(t, x)
      <3>1. PICK j \in 1 .. Len(s) : s[j] = x
        BY <2>2 DEF InList
      <3>2. j # i
        BY <2>2, <3>1
      <3>3. CASE j < i
        <4>1. j \in 1 .. Len(s) - 1
          BY <1>1, <3>3
        <4>2. t[j] = x
          BY <1>3, <3>1, <3>3, <4>1
        <4> QED
          BY <1>3, <4>1, <4>2 DEF InList
      <3>4. CASE j > i
        <4>1. j - 1 \in 1 .. Len(s) - 1 /\ j - 1 >= i /\ j - 1 + 1 = j
          BY <1>1, <3>4
        <4>2. t[j - 1] = x
          BY <1>3, <3>1, <4>1
        <4> QED
          BY <1>3, <4>1, <4>2 DEF InList
      <3> QED
        BY <1>1, <3>2, <3>3, <3>4
    <2> QED
      BY <2>1, <2>2
  <1> QED
    BY <1>8, <1>9 DEF t

\* Line as a function of the links, so that it can be taken before and after a step.
WalkLine(op) ==
    CHOOSE w : w = [n \in 0 .. Cardinality(Relatives) + 1 |->
        [p \in Links!Pointer |->
            IF n = 0 \/ p \notin Relatives THEN <<>> ELSE <<p>> \o w[n - 1][op[p]]]]

\* There are only so many processes.
LEMMA RelativesFinite == IsFiniteSet(Relatives) /\ Cardinality(Relatives) \in Nat
  <1>1. IsFiniteSet(Relatives)
    BY RelativesAssumption DEF Links!LinksAssumption, Links!IsFiniteSet, IsFiniteSet
  <1> QED
    BY <1>1, FS_CardinalityType

\* The walk exists and goes along the links.
LEMMA WalkIs ==
    ASSUME NEW op \in [Relatives -> Links!Pointer]
    PROVE  \A n \in 0 .. Cardinality(Relatives) + 1, p \in Links!Pointer :
               WalkLine(op)[n][p] =
                   IF n = 0 \/ p \notin Relatives THEN <<>> ELSE <<p>> \o WalkLine(op)[n - 1][op[p]]
  <1> DEFINE M == Cardinality(Relatives) + 1
             A == [Links!Pointer -> Seq(Relatives)]
             further(g) == [p \in Links!Pointer |->
                               IF p \notin Relatives THEN <<>> ELSE <<p>> \o g[op[p]]]
             step == [g \in A |-> further(g)]
             a == [p \in Links!Pointer |-> <<>>]
             body(w) == [n \in 0 .. M |->
                            [p \in Links!Pointer |->
                                IF n = 0 \/ p \notin Relatives THEN <<>>
                                ELSE <<p>> \o w[n - 1][op[p]]]]
  <1>1. M \in Nat
    BY RelativesFinite
  <1>2. a \in A
    OBVIOUS
  <1>3. step \in [A -> A]
    <2>1. ASSUME NEW g \in A PROVE further(g) \in A
      <3>1. ASSUME NEW p \in Links!Pointer, p \in Relatives
            PROVE  <<p>> \o g[op[p]] \in Seq(Relatives)
        <4>1. g[op[p]] \in Seq(Relatives)
          BY <3>1
        <4>2. <<p>> \in Seq(Relatives)
          BY <3>1
        <4> QED
          BY <4>1, <4>2, ConcatProperties, Zenon
      <3>2. <<>> \in Seq(Relatives)
        OBVIOUS
      <3> QED
        BY <3>1, <3>2
    <2> HIDE DEF further, A
    <2> QED
      BY <2>1
  <1>4. PICK f : Iteration(f, A, a, step, M)
    <2> HIDE DEF A, a, step, M
    <2> QED
      BY <1>1, <1>2, <1>3, Iterates
  <1>5. f = body(f)
    <2>1. f \in [0 .. M -> A] /\ f[0] = a /\ \A k \in 1 .. M : f[k] = step[f[k - 1]]
      BY <1>4 DEF Iteration
    <2>2. ASSUME NEW n \in 0 .. M PROVE f[n] = body(f)[n]
      <3>1. CASE n = 0
        BY <2>1, <3>1
      <3>2. CASE n # 0
        <4>1. n \in 1 .. M /\ n - 1 \in 0 .. M
          BY <1>1, <3>2
        <4>2. f[n - 1] \in A
          BY <2>1, <4>1
        <4>3. f[n] = further(f[n - 1])
          BY <2>1, <4>1, <4>2
        <4>4. body(f)[n] = further(f[n - 1])
          BY <3>2, <4>1
        <4> QED
          BY <4>3, <4>4
      <3> QED
        BY <3>1, <3>2
    <2>3. DOMAIN f = 0 .. M /\ f = [n \in 0 .. M |-> f[n]]
      BY <2>1
    <2>4. body(f) = [n \in 0 .. M |-> body(f)[n]]
      OBVIOUS
    <2> HIDE DEF body, M
    <2> QED
      BY <2>2, <2>3, <2>4
  <1>6. WalkLine(op) = CHOOSE w : w = body(w)
    BY DEF WalkLine
  <1>7. WalkLine(op) = body(WalkLine(op))
    <2> HIDE DEF body
    <2> QED
      BY <1>5, <1>6
  <1> DEFINE w == WalkLine(op)
  <1>8. w = body(w)
    BY <1>7
  <1> HIDE DEF w
  <1>9. ASSUME NEW n \in 0 .. M, NEW p \in Links!Pointer
        PROVE  w[n][p] = IF n = 0 \/ p \notin Relatives THEN <<>> ELSE <<p>> \o w[n - 1][op[p]]
    <2>1. w[n] = body(w)[n]
      BY <1>8
    <2>2. body(w)[n] = [q \in Links!Pointer |->
                            IF n = 0 \/ q \notin Relatives THEN <<>>
                            ELSE <<q>> \o w[n - 1][op[q]]]
      OBVIOUS
    <2> HIDE DEF body
    <2> QED
      BY <2>1, <2>2
  <1> QED
    BY <1>9 DEF w

\* A chain is no longer than there are processes.
LEMMA ChainLength ==
    ASSUME NEW op, NEW s, NEW start, Chain(s, start, op)
    PROVE  Len(s) <= Cardinality(Relatives)
  <1> DEFINE n == Len(s)
  <1>1. s \in [1 .. n -> Relatives] /\ n \in Nat
    BY DEF Chain
  <1>2. s \in Injection(1 .. n, Relatives)
    BY <1>1 DEF Chain, Injection, IsInjective
  <1>3. IsFiniteSet(Relatives)
    BY RelativesFinite
  <1>4. IsFiniteSet(1 .. n) /\ Cardinality(1 .. n) = n
    <2> HIDE DEF n
    <2>1. IsFiniteSet(1 .. n) /\ Cardinality(1 .. n) = IF 1 > n THEN 0 ELSE n - 1 + 1
      BY <1>1, FS_Interval
    <2> QED
      BY <1>1, <2>1
  <1> HIDE DEF n
  <1>5. Cardinality(1 .. n) <= Cardinality(Relatives)
    BY <1>2, <1>3, <1>4, FS_Injection
  <1> QED
    BY <1>4, <1>5 DEF n

\* The walk from the start of a chain meets the processes of the chain.
LEMMA WalkOfChain ==
    ASSUME NEW op \in [Relatives -> Links!Pointer], NULL \notin Relatives, NULL \in Links!Pointer,
           Relatives \subseteq Links!Pointer,
           NEW s, NEW start, Chain(s, start, op)
    PROVE  WalkLine(op)[Cardinality(Relatives) + 1][start] = s
  <1> DEFINE M == Cardinality(Relatives) + 1
             w == WalkLine(op)
             P(m) == \A t, p : Chain(t, p, op) /\ Len(t) = m =>
                         \A n \in m .. M : w[n][p] = t
             X == {m \in Nat : ~P(m)}
  <1>1. M \in Nat
    BY RelativesFinite
  <1>2. \A n \in 0 .. M, p \in Links!Pointer :
            w[n][p] = IF n = 0 \/ p \notin Relatives THEN <<>> ELSE <<p>> \o w[n - 1][op[p]]
    BY WalkIs
  <1> HIDE DEF w, M
  <1>3. X = {}
    <2>1. SUFFICES ASSUME X # {} PROVE FALSE
      OBVIOUS
    <2>2. PICK m \in X : \A y \in X : m <= y
      <3>1. X \subseteq Nat
        OBVIOUS
      <3> HIDE DEF X
      <3> QED
        BY <2>1, <3>1, SmallestElement
    <2>3. m \in Nat /\ ~P(m) /\ \A y \in Nat : y < m => P(y)
      <3>1. m \in Nat /\ ~P(m)
        BY <2>2
      <3>2. ASSUME NEW y \in Nat, y < m, ~P(y) PROVE FALSE
        <4>1. y \in X
          BY <3>2
        <4> HIDE DEF P, X
        <4> QED
          BY <2>2, <3>1, <3>2, <4>1
      <3> HIDE DEF P, X
      <3> QED
        BY <3>1, <3>2
    <2>4. PICK t, p : Chain(t, p, op) /\ Len(t) = m /\ ~(\A n \in m .. M : w[n][p] = t)
      BY <2>3
    <2>5. PICK n \in m .. M : w[n][p] # t
      BY <2>4
    <2>6. CASE m = 0
      <3>1. p = NULL /\ t = <<>>
        BY <2>4, <2>6 DEF Chain
      <3>2. n \in 0 .. M
        BY <2>6
      <3> QED
        BY <1>2, <2>5, <3>1, <3>2
    <2>7. CASE m # 0
      <3>1. Len(t) > 0 /\ m - 1 \in Nat /\ m - 1 < m /\ n \in 0 .. M /\ n # 0
            /\ n - 1 \in m - 1 .. M
        BY <1>1, <2>3, <2>4, <2>7
      <3>2. /\ p = t[1] /\ p \in Relatives
            /\ Chain(Tail(t), op[p], op)
            /\ Len(Tail(t)) = m - 1
            /\ t = <<p>> \o Tail(t)
        BY <2>4, <3>1, ChainTail
      <3>3. w[n - 1][op[p]] = Tail(t)
        <4>1. P(m - 1)
          BY <2>3, <3>1
        <4> QED
          BY <3>1, <3>2, <4>1
      <3>4. w[n][p] = <<p>> \o w[n - 1][op[p]]
        BY <1>2, <3>1, <3>2
      <3> QED
        BY <2>5, <3>2, <3>3, <3>4
    <2> QED
      BY <2>6, <2>7
  <1>4. Len(s) \in Nat /\ Len(s) <= M /\ M \in Len(s) .. M
    <2>1. Len(s) <= Cardinality(Relatives) /\ Cardinality(Relatives) \in Nat
      BY ChainLength, RelativesFinite
    <2>2. Len(s) \in Nat
      BY DEF Chain
    <2> QED
      BY <2>1, <2>2 DEF M
  <1>5. P(Len(s))
    BY <1>3, <1>4
  <1>6. w[M][start] = s
    BY <1>4, <1>5
  <1> QED
    BY <1>6 DEF w, M

\* The lines of Family, from the links op and the youngest children cp.
LEMMA ChildrenAre ==
    ASSUME NEW op \in [Relatives -> Links!Pointer], NEW cp,
           NEW l \in [Links!Threads -> Seq(Relatives)],
           \A p \in Links!Threads : Chain(l[p], cp[p], op)
    PROVE  [p \in Links!Threads |-> WalkLine(op)[Cardinality(Relatives) + 1][cp[p]]] = l
  <1>1. NULL \notin Relatives /\ NULL \in Links!Pointer /\ Relatives \subseteq Links!Pointer
    BY RelativesAssumption DEF Links!LinksAssumption, Links!Pointer, Links!Threads
  <1>2. \A p \in Links!Threads : WalkLine(op)[Cardinality(Relatives) + 1][cp[p]] = l[p]
    BY <1>1, WalkOfChain
  <1> QED
    BY <1>2

\* Family's children are the lines.
LEMMA LinesAreChildren ==
    /\ \A l : LinksInv /\ Lines(l) => Links!children = l
    /\ \A l : LinksInv' /\ Lines(l)' => Links!children' = l
  <1> DEFINE M == Cardinality(Relatives) + 1
  <1>1. Links!children = [p \in Links!Threads |-> WalkLine(optr)[M][cptr[p]]]
    <2>1. Links!Line = WalkLine(optr)
      BY DEF Links!Line, WalkLine, Links!Cardinality, Cardinality
    <2>2. Links!children = [p \in Links!Threads |-> Links!Line[M][cptr[p]]]
      BY DEF Links!children, Links!Cardinality, Cardinality
    <2> QED
      BY <2>1, <2>2
  <1>2. Links!children' = [p \in Links!Threads |-> WalkLine(optr')[M][cptr'[p]]]
    <2>1. Links!Line' = WalkLine(optr')
      BY DEF Links!Line, WalkLine, Links!Cardinality, Cardinality
    <2>2. Links!children' = [p \in Links!Threads |-> (Links!Line')[M][cptr'[p]]]
      BY DEF Links!children, Links!Cardinality, Cardinality
    <2> QED
      BY <2>1, <2>2
  <1> HIDE DEF M
  <1>3. ASSUME NEW l, LinksInv, Lines(l) PROVE Links!children = l
    <2>1. optr \in [Relatives -> Links!Pointer]
      BY <1>3, LinksTypes
    <2>2. l \in [Links!Threads -> Seq(Relatives)]
          /\ \A p \in Links!Threads : Chain(l[p], cptr[p], optr)
      BY <1>3 DEF Lines
    <2>3. [p \in Links!Threads |-> WalkLine(optr)[M][cptr[p]]] = l
      BY <2>1, <2>2, ChildrenAre DEF M
    <2> QED
      BY <1>1, <2>3
  <1>4. ASSUME NEW l, LinksInv', Lines(l)' PROVE Links!children' = l
    <2>1. optr' \in [Relatives -> Links!Pointer]
      BY <1>4 DEF LinksInv, Links!TypeOK
    <2>2. l \in [Links!Threads -> Seq(Relatives)]
          /\ \A p \in Links!Threads : Chain(l[p], cptr'[p], optr')
      BY <1>4 DEF Lines
    <2>3. [p \in Links!Threads |-> WalkLine(optr')[M][cptr'[p]]] = l
      BY <2>1, <2>2, ChildrenAre DEF M
    <2> QED
      BY <1>2, <2>3
  <1> QED
    BY <1>3, <1>4

\* Nobody is related to anybody at first.
LEMMA FamilyInit ==
    ASSUME Links!Init
    PROVE  Lines([p \in Links!Threads |-> <<>>])
  <1> DEFINE l == [p \in Links!Threads |-> <<>>]
  <1>1. l \in [Links!Threads -> Seq(Relatives)]
    OBVIOUS
  <1>2. ASSUME NEW p \in Links!Threads PROVE Chain(l[p], cptr[p], optr)
    <2>1. cptr[p] = NULL /\ l[p] = <<>>
      BY DEF Links!Init
    <2> QED
      BY <2>1 DEF Chain
  <1>3. ASSUME NEW p \in Links!Threads, NEW c \in Relatives
        PROVE  ~InList(l[p], c) /\ ~Live(c)
    BY DEF Links!Init, InList, Live
  <1> QED
    BY <1>1, <1>2, <1>3 DEF Lines

\* do_fork puts the new child in front.
LEMMA SetLinksLines ==
    ASSUME LinksInv, NEW l, Lines(l), NEW p \in Links!Threads, NEW c \in Relatives,
           Links!SetLinks(p, c)
    PROVE  /\ Lines([l EXCEPT ![p] = <<c>> \o @])'
           /\ \A q \in Links!Threads : ~InList(l[q], c)
  <1> DEFINE m == [l EXCEPT ![p] = <<c>> \o @]
  <1>1. /\ state[c] = "UNUSED" /\ p # c /\ leaving = NULL
        /\ state' = [state EXCEPT ![c] = "ALIVE"]
        /\ parent' = [parent EXCEPT ![c] = p]
        /\ optr' = [optr EXCEPT ![c] = cptr[p]]
        /\ cptr' = [cptr EXCEPT ![p] = c, ![c] = NULL]
    BY LinksTypes DEF Links!SetLinks, Links!Alive
  <1>2. /\ Live(c)' /\ parent'[c] = p /\ optr'[c] = cptr[p] /\ cptr'[p] = c /\ cptr'[c] = NULL
        /\ \A x \in Relatives : x # c => (Live(x)' <=> Live(x)) /\ parent'[x] = parent[x]
                                         /\ optr'[x] = optr[x]
        /\ \A q \in Links!Threads : q # p /\ q # c => cptr'[q] = cptr[q]
    BY <1>1, LinksTypes DEF Live
  <1>3. \A q \in Links!Threads : ~InList(l[q], c)
    BY <1>1 DEF Lines, Live
  <1>4. cptr[c] = NULL /\ c \in Links!Threads
    BY <1>1, LinksTypes DEF LinksInv, Childless
  <1>5. ASSUME NEW q \in Links!Threads PROVE Chain(l[q], cptr[q], optr')
    <2>1. Chain(l[q], cptr[q], optr)
      BY DEF Lines
    <2>2. \A x \in Relatives : InList(l[q], x) => optr'[x] = optr[x]
      BY <1>2, <1>3
    <2> QED
      BY <2>1, <2>2, ChainKept
  <1>6. /\ Chain(<<c>> \o l[p], c, optr')
        /\ \A x : InList(<<c>> \o l[p], x) <=> InList(l[p], x) \/ x = c
    BY <1>2, <1>3, <1>5, ChainPush
  <1>7. /\ l \in [Links!Threads -> Seq(Relatives)]
        /\ m[p] = <<c>> \o l[p] /\ \A q \in Links!Threads : q # p => m[q] = l[q]
    BY DEF Lines
  <1>8. m \in [Links!Threads -> Seq(Relatives)]
    <2>1. <<c>> \o l[p] \in Seq(Relatives)
      BY <1>6 DEF Chain
    <2> QED
      BY <1>7, <2>1
  <1> HIDE DEF m
  <1>9. ASSUME NEW q \in Links!Threads PROVE Chain(m[q], cptr'[q], optr')
    <2>1. CASE q = p
      BY <1>2, <1>6, <1>7, <2>1
    <2>2. CASE q # p
      <3>1. cptr'[q] = cptr[q]
        BY <1>2, <1>4, <2>2
      <3> QED
        BY <1>5, <1>7, <2>2, <3>1
    <2> QED
      BY <2>1, <2>2
  <1>10. ASSUME NEW q \in Links!Threads, NEW x \in Relatives
         PROVE  InList(m[q], x) <=> Live(x)' /\ parent'[x] = q
    <2>1. InList(l[q], x) <=> Live(x) /\ parent[x] = q
      BY DEF Lines
    <2>2. CASE x = c
      <3>1. InList(m[q], c) <=> q = p
        BY <1>3, <1>6, <1>7
      <3>2. Live(x)' /\ parent'[x] = p
        BY <1>2, <2>2
      <3> QED
        BY <2>2, <3>1, <3>2
    <2>3. CASE x # c
      BY <1>2, <1>6, <1>7, <2>1, <2>3
    <2> QED
      BY <2>2, <2>3
  <1>11. Lines(m)'
    BY <1>8, <1>9, <1>10 DEF Lines
  <1> QED
    BY <1>3, <1>11 DEF m

\* init takes the youngest child of the process that exits as its own youngest.
LEMMA AdoptLines ==
    ASSUME LinksInv, NEW l, Lines(l), Links!Adopt, NEW z, z = leaving
    PROVE  /\ z \in Links!Threads /\ z # init /\ l[z] # <<>>
           /\ Lines([l EXCEPT ![z] = Tail(@), ![init] = <<Head(l[z])>> \o @])'
  <1> DEFINE c == cptr[z]
             m == [l EXCEPT ![z] = Tail(@), ![init] = <<Head(l[z])>> \o @]
  <1>1. /\ z \in Links!Threads /\ z # init /\ init \in Links!Threads
        /\ c # NULL /\ c \in Relatives /\ Live(c) /\ parent[c] = z
    BY LinksTypes DEF Links!Adopt, LinksInv, Leaver, YoungestExact
  <1>2. /\ state' = state
        /\ parent' = [parent EXCEPT ![c] = init]
        /\ optr' = [optr EXCEPT ![c] = cptr[init]]
        /\ cptr' = [cptr EXCEPT ![z] = optr[c], ![init] = c]
    BY DEF Links!Adopt, Links!Older
  <1> HIDE DEF c
  <1>3. /\ parent'[c] = init /\ optr'[c] = cptr[init] /\ cptr'[z] = optr[c] /\ cptr'[init] = c
        /\ \A x \in Relatives : Live(x)' <=> Live(x)
        /\ \A x \in Relatives : x # c => parent'[x] = parent[x] /\ optr'[x] = optr[x]
        /\ \A q \in Links!Threads : q # z /\ q # init => cptr'[q] = cptr[q]
    BY <1>1, <1>2, LinksTypes DEF Live
  <1>4. /\ l \in [Links!Threads -> Seq(Relatives)]
        /\ \A q \in Links!Threads : Chain(l[q], cptr[q], optr)
    BY DEF Lines
  <1>5. InList(l[z], c) /\ Len(l[z]) > 0 /\ l[z] # <<>>
    <2>1. InList(l[z], c)
      BY <1>1 DEF Lines
    <2>2. Len(l[z]) \in Nat
      BY <1>1, <1>4
    <2> QED
      BY <2>1, <2>2 DEF InList
  <1>6. /\ l[z][1] = c
        /\ Chain(Tail(l[z]), optr[c], optr)
        /\ \A x : InList(Tail(l[z]), x) <=> InList(l[z], x) /\ x # c
    <2> DEFINE s == l[z]
    <2>1. Chain(s, c, optr) /\ Len(s) > 0
      BY <1>1, <1>4, <1>5 DEF c
    <2> HIDE DEF s
    <2>2. /\ c = s[1]
          /\ Chain(Tail(s), optr[s[1]], optr)
          /\ \A x : InList(Tail(s), x) <=> InList(s, x) /\ x # s[1]
      BY <2>1, ChainTail
    <2>3. /\ s[1] = c
          /\ Chain(Tail(s), optr[c], optr)
          /\ \A x : InList(Tail(s), x) <=> InList(s, x) /\ x # c
      BY <2>2
    <2> QED
      BY <2>3 DEF s
  <1>7. Head(l[z]) = c
    BY <1>1, <1>4, <1>5, <1>6, HeadTailProperties
  <1>8. ASSUME NEW q \in Links!Threads, q # z PROVE ~InList(l[q], c)
    BY <1>1, <1>8 DEF Lines
  <1>9. ASSUME NEW q \in Links!Threads, q # z PROVE Chain(l[q], cptr[q], optr')
    <2>1. \A x \in Relatives : InList(l[q], x) => optr'[x] = optr[x]
      BY <1>3, <1>8, <1>9
    <2> QED
      BY <1>4, <2>1, ChainKept
  <1>10. Chain(Tail(l[z]), optr[c], optr')
    <2>1. \A x \in Relatives : InList(Tail(l[z]), x) => optr'[x] = optr[x]
      BY <1>3, <1>6
    <2> QED
      BY <1>6, <2>1, ChainKept
  <1>11. /\ Chain(<<c>> \o l[init], c, optr')
         /\ \A x : InList(<<c>> \o l[init], x) <=> InList(l[init], x) \/ x = c
    <2>1. Chain(l[init], cptr[init], optr') /\ ~InList(l[init], c) /\ optr'[c] = cptr[init]
      BY <1>1, <1>3, <1>8, <1>9
    <2> QED
      BY <1>1, <2>1, ChainPush
  <1>12. /\ m[z] = Tail(l[z]) /\ m[init] = <<c>> \o l[init]
         /\ \A q \in Links!Threads : q # z /\ q # init => m[q] = l[q]
    BY <1>1, <1>4, <1>7
  <1>13. m \in [Links!Threads -> Seq(Relatives)]
    <2>1. Tail(l[z]) \in Seq(Relatives)
      BY <1>6 DEF Chain
    <2>2. <<Head(l[z])>> \o l[init] \in Seq(Relatives)
      BY <1>7, <1>11 DEF Chain
    <2> QED
      BY <1>1, <1>4, <2>1, <2>2
  <1> HIDE DEF m
  <1>14. ASSUME NEW q \in Links!Threads PROVE Chain(m[q], cptr'[q], optr')
    <2>1. CASE q = z
      BY <1>3, <1>10, <1>12, <2>1
    <2>2. CASE q = init
      BY <1>3, <1>11, <1>12, <2>2
    <2>3. CASE q # z /\ q # init
      BY <1>3, <1>9, <1>12, <2>3
    <2> QED
      BY <2>1, <2>2, <2>3
  <1>15. ASSUME NEW q \in Links!Threads, NEW x \in Relatives
         PROVE  InList(m[q], x) <=> Live(x)' /\ parent'[x] = q
    <2>1. InList(l[q], x) <=> Live(x) /\ parent[x] = q
      BY DEF Lines
    <2>2. CASE q = z
      BY <1>1, <1>3, <1>6, <1>12, <2>1, <2>2
    <2>3. CASE q = init
      BY <1>1, <1>3, <1>11, <1>12, <2>1, <2>3
    <2>4. CASE q # z /\ q # init
      BY <1>1, <1>3, <1>12, <2>1, <2>4
    <2> QED
      BY <2>2, <2>3, <2>4
  <1>16. Lines(m)'
    BY <1>13, <1>14, <1>15 DEF Lines
  <1> QED
    BY <1>1, <1>5, <1>16 DEF m

\* do_wait takes a child out of its parent's line.
LEMMA RemoveLinksLines ==
    ASSUME LinksInv, NEW l, Lines(l), NEW p \in Links!Threads, NEW c \in Relatives,
           Links!RemoveLinks(p, c)
    PROVE  \E i \in 1 .. Len(l[p]) : /\ l[p][i] = c
                                     /\ Lines([l EXCEPT ![p] = RemoveAt(@, i)])'
  <1> DEFINE o == optr[c]
             y == yptr[c]
             s == l[p]
  <1>1. /\ state[c] = "ZOMBIE" /\ parent[c] = p /\ leaving = NULL
        /\ state' = [state EXCEPT ![c] = "UNUSED"]
        /\ parent' = parent
        /\ cptr' = IF y = NULL THEN [cptr EXCEPT ![p] = o] ELSE cptr
        /\ optr' = IF y = NULL THEN optr ELSE [optr EXCEPT ![y] = o]
    BY LinksTypes DEF Links!RemoveLinks, Links!Eldest, Links!Set
  <1>2. /\ Live(c)
        /\ y # NULL => y \in Relatives /\ parent[y] = p /\ optr[y] = c /\ cptr[p] # c
        /\ y = NULL => cptr[p] = c
    BY <1>1, LinksTypes DEF LinksInv, Live, SiblingExact, OlderExact, YoungerExact, YoungestExact
  <1>3. /\ \A x \in Relatives : x # c => (Live(x)' <=> Live(x))
        /\ ~Live(c)'
        /\ y # NULL => optr'[y] = o
        /\ \A x \in Relatives : x # y => optr'[x] = optr[x]
        /\ \A q \in Links!Threads : q # p => cptr'[q] = cptr[q]
        /\ cptr'[p] = IF y = NULL THEN o ELSE cptr[p]
    BY <1>1, <1>2, LinksTypes DEF Live
  <1> HIDE DEF o, y
  <1>4. /\ l \in [Links!Threads -> Seq(Relatives)]
        /\ \A q \in Links!Threads : Chain(l[q], cptr[q], optr)
        /\ \A q \in Links!Threads, x \in Relatives : InList(l[q], x) <=> Live(x) /\ parent[x] = q
    BY DEF Lines
  <1>5. Chain(s, cptr[p], optr) /\ s \in Seq(Relatives) /\ Len(s) \in Nat
    BY <1>4
  <1>6. PICK i \in 1 .. Len(s) : s[i] = c
    <2>1. InList(s, c)
      BY <1>1, <1>2, <1>4
    <2> QED
      BY <2>1 DEF InList
  <1> HIDE DEF s
  <1>7. i = 1 => y = NULL
    <2>1. cptr[p] = s[1]
      <3>1. Len(s) # 0
        BY <1>5, <1>6
      <3> QED
        BY <1>5, <3>1 DEF Chain
    <2> QED
      BY <1>2, <1>6, <2>1
  <1>8. i # 1 => y = s[i - 1] /\ y # NULL
    <2> SUFFICES ASSUME i # 1 PROVE y = s[i - 1] /\ y # NULL
      OBVIOUS
    <2>1. i - 1 \in 1 .. Len(s) /\ i - 1 # Len(s) /\ i - 1 + 1 = i
      BY <1>5
    <2>2. s[i - 1] \in Relatives /\ InList(s, s[i - 1])
      BY <1>5, <2>1 DEF InList
    <2>3. Live(s[i - 1])
      BY <1>4, <2>2 DEF s
    <2>4. optr[s[i - 1]] = c
      <3>1. optr[s[i - 1]] = IF i - 1 = Len(s) THEN NULL ELSE s[i - 1 + 1]
        BY <1>5, <2>1 DEF Chain
      <3> QED
        BY <1>6, <2>1, <3>1
    <2>5. yptr[c] = s[i - 1]
      BY <2>2, <2>3, <2>4, LinksTypes DEF LinksInv, SiblingExact, OlderExact
    <2> QED
      BY <2>2, <2>5, LinksTypes DEF y
  <1>9. ASSUME NEW j \in 1 .. Len(s), j # i
        PROVE  optr'[s[j]] = IF j = i - 1 THEN optr[s[i]] ELSE optr[s[j]]
    <2>1. s[j] \in Relatives
      BY <1>5
    <2>2. CASE j = i - 1
      <3>1. i # 1
        BY <1>5, <2>2
      <3> QED
        BY <1>3, <1>6, <1>8, <2>2, <3>1 DEF o
    <2>3. CASE j # i - 1
      <3>1. s[j] # y
        <4>1. i = 1 => s[j] # y
          BY <1>7, <2>1, LinksTypes
        <4>2. i # 1 => s[j] # y
          <5> SUFFICES ASSUME i # 1 PROVE s[j] # s[i - 1]
            BY <1>8
          <5>1. i - 1 \in 1 .. Len(s)
            BY <1>5
          <5> QED
            BY <1>5, <2>3, <5>1 DEF Chain
        <4> QED
          BY <4>1, <4>2
      <3> QED
        BY <1>3, <2>1, <2>3, <3>1
    <2> QED
      BY <2>2, <2>3
  <1>10. /\ Chain(RemoveAt(s, i), IF i = 1 THEN optr[s[1]] ELSE cptr[p], optr')
         /\ \A x : InList(RemoveAt(s, i), x) <=> InList(s, x) /\ x # s[i]
    BY <1>5, <1>9, ChainWithout
  <1>11. cptr'[p] = IF i = 1 THEN optr[s[1]] ELSE cptr[p]
    BY <1>3, <1>6, <1>7, <1>8 DEF o
  <1> DEFINE m == [l EXCEPT ![p] = RemoveAt(@, i)]
  <1>12. m[p] = RemoveAt(s, i) /\ \A q \in Links!Threads : q # p => m[q] = l[q]
    BY <1>4 DEF s
  <1>13. m \in [Links!Threads -> Seq(Relatives)]
    <2>1. RemoveAt(l[p], i) \in Seq(Relatives)
      BY <1>10 DEF Chain, s
    <2> QED
      BY <1>4, <2>1
  <1> HIDE DEF m
  <1>14. ASSUME NEW q \in Links!Threads PROVE Chain(m[q], cptr'[q], optr')
    <2>1. CASE q = p
      BY <1>10, <1>11, <1>12, <2>1
    <2>2. CASE q # p
      <3>1. \A x \in Relatives : InList(l[q], x) => optr'[x] = optr[x]
        BY <1>2, <1>3, <1>4, <2>2, LinksTypes
      <3>2. Chain(l[q], cptr[q], optr')
        BY <1>4, <3>1, ChainKept
      <3> QED
        BY <1>3, <1>12, <2>2, <3>2
    <2> QED
      BY <2>1, <2>2
  <1>15. ASSUME NEW q \in Links!Threads, NEW x \in Relatives
         PROVE  InList(m[q], x) <=> Live(x)' /\ parent'[x] = q
    <2>1. (InList(l[q], x) <=> Live(x) /\ parent[x] = q) /\ parent'[x] = parent[x]
      BY <1>1, <1>4
    <2>2. CASE q = p
      BY <1>3, <1>6, <1>10, <1>12, <2>1, <2>2 DEF s
    <2>3. CASE q # p
      <3>1. x = c => parent[x] = p
        BY <1>1
      <3> QED
        BY <1>3, <1>12, <2>1, <2>3, <3>1
    <2> QED
      BY <2>2, <2>3
  <1>16. Lines(m)'
    BY <1>13, <1>14, <1>15 DEF Lines
  <1> QED
    BY <1>6, <1>16 DEF m, s

\* The other steps of do_exit leave the lines alone.
LEMMA SameLines ==
    ASSUME LinksInv, NEW l, Lines(l),
           Links!Left \/ (\E p \in Relatives : Links!Exit(p)) \/ UNCHANGED Links!vars
    PROVE  Lines(l)'
  <1>1. parent' = parent /\ cptr' = cptr /\ optr' = optr
    BY DEF Links!Left, Links!Exit, Links!vars
  <1>2. \A c \in Relatives : Live(c)' <=> Live(c)
    BY LinksTypes DEF Live, Links!Left, Links!Exit, Links!vars
  <1> QED
    BY <1>1, <1>2 DEF Lines

\* A step of the links is a step of the family or changes nothing there.
LEMMA FamilyNext ==
    ASSUME FamilyInv, [Links!Next]_Links!vars, LinksInv'
    PROVE  FamilyInv' /\ [Links!F!Next]_Links!children
  <1>1. PICK l : Lines(l)
    BY DEF FamilyInv
  <1>2. Links!children = l /\ DOMAIN l = Links!Threads
    BY <1>1, LinesAreChildren DEF FamilyInv, Lines
  <1>3. ASSUME NEW p \in Links!Threads, NEW c \in Relatives, Links!SetLinks(p, c)
        PROVE  FamilyInv' /\ Links!F!Next
    <2> DEFINE m == [l EXCEPT ![p] = <<c>> \o @]
    <2>1. Lines(m)' /\ \A q \in Links!Threads : ~InList(l[q], c)
      BY <1>1, <1>3, SetLinksLines DEF FamilyInv
    <2>2. Links!children' = m
      <3> HIDE DEF m
      <3> QED
        BY <2>1, LinesAreChildren
    <2>3. Links!F!Born(p, c)
      <3>1. ~Links!F!Member(c)
        <4>1. ASSUME NEW q \in Links!Threads, NEW i \in DOMAIN l[q] PROVE l[q][i] # c
          BY <1>1, <2>1 DEF InList, Lines
        <4> QED
          BY <1>2, <4>1 DEF Links!F!Member
      <3> QED
        BY <1>2, <2>2, <3>1 DEF Links!F!Born
    <2>4. c \in Links!Threads
      BY DEF Links!Threads
    <2> HIDE DEF m
    <2> QED
      BY <2>1, <2>3, <2>4 DEF FamilyInv, Links!F!Next
  <1>4. ASSUME NEW p \in Links!Threads, NEW c \in Relatives, Links!RemoveLinks(p, c)
        PROVE  FamilyInv' /\ Links!F!Next
    <2>1. PICK i \in 1 .. Len(l[p]) : l[p][i] = c /\ Lines([l EXCEPT ![p] = RemoveAt(@, i)])'
      BY <1>1, <1>4, RemoveLinksLines DEF FamilyInv
    <2> DEFINE m == [l EXCEPT ![p] = RemoveAt(@, i)]
    <2>2. Lines(m)'
      BY <2>1
    <2>3. Links!children' = m
      <3> HIDE DEF m
      <3> QED
        BY <2>2, LinesAreChildren
    <2>4. Links!F!Buried(p, c)
      <3>1. i \in DOMAIN l[p]
        BY <1>1, <2>1 DEF Lines
      <3>2. m = [l EXCEPT ![p] = Links!F!RemoveAt(@, i)]
        BY DEF Links!F!RemoveAt, RemoveAt
      <3> QED
        BY <1>2, <2>1, <2>3, <3>1, <3>2 DEF Links!F!Buried
    <2>5. c \in Links!Threads
      BY DEF Links!Threads
    <2> HIDE DEF m
    <2> QED
      BY <2>2, <2>4, <2>5 DEF FamilyInv, Links!F!Next
  <1>5. CASE Links!Adopt
    <2>0. PICK z : z = leaving
      OBVIOUS
    <2> DEFINE m == [l EXCEPT ![z] = Tail(@), ![init] = <<Head(l[z])>> \o @]
    <2>1. z \in Links!Threads /\ z # init /\ l[z] # <<>> /\ Lines(m)'
      BY <1>1, <1>5, <2>0, AdoptLines DEF FamilyInv
    <2>2. Links!children' = m
      <3> HIDE DEF m
      <3> QED
        BY <2>1, LinesAreChildren
    <2>3. Links!F!Adopted(z)
      BY <1>2, <2>1, <2>2 DEF Links!F!Adopted
    <2> HIDE DEF m
    <2> QED
      BY <2>1, <2>3 DEF FamilyInv, Links!F!Next
  <1>6. CASE Links!Left \/ (\E p \in Relatives : Links!Exit(p)) \/ UNCHANGED Links!vars
    <2>1. Lines(l)'
      BY <1>1, <1>6, SameLines DEF FamilyInv
    <2>2. Links!children' = l
      BY <2>1, LinesAreChildren
    <2> QED
      BY <1>2, <2>1, <2>2 DEF FamilyInv
  <1> QED
    BY <1>3, <1>4, <1>5, <1>6 DEF Links!Next

\* do_wait finds the children of a process, all of them and no other: the links
\* that do_fork, do_exit and do_wait maintain are a family tree.
THEOREM FamilyImplemented == Links!Spec => LinksAreFamily
  <1>1. Links!Init => FamilyInv /\ Links!F!Init
    <2> SUFFICES ASSUME Links!Init PROVE FamilyInv /\ Links!F!Init
      OBVIOUS
    <2> DEFINE l == [p \in Links!Threads |-> <<>>]
    <2>1. LinksInv /\ Lines(l)
      BY LinksInit, FamilyInit
    <2> HIDE DEF l
    <2>2. Links!children = l
      BY <2>1, LinesAreChildren
    <2>3. Links!F!Init
      BY <2>2 DEF Links!F!Init, l
    <2> QED
      BY <2>1, <2>3 DEF FamilyInv
  <1>2. FamilyInv /\ [Links!Next]_Links!vars => FamilyInv' /\ [Links!F!Next]_Links!children
    <2> SUFFICES ASSUME FamilyInv, [Links!Next]_Links!vars
                 PROVE  FamilyInv' /\ [Links!F!Next]_Links!children
      OBVIOUS
    <2>1. LinksInv'
      BY LinksNext DEF FamilyInv
    <2> QED
      BY <2>1, FamilyNext
  <1> QED
    BY <1>1, <1>2, PTL DEF Links!Spec, LinksAreFamily, Links!LinksAreFamily, Links!F!Spec

-----------------------------------------------------------------------------
(* Whatever is swapped out, a program finds what it stored, and the page   *)
(* that goes has been there longest, be the manager FIFO or the clock      *)
(* (Swap).  The clock starts at the oldest page, and no visited page is    *)
(* older than one that is not (HandExact): if the first is visited they    *)
(* all are, and the clock comes round to it again.                         *)

\* Swap's pages of memory, and its addresses.
Frames == Paging!Pages
Vma == Paging!Vma
Slots == 1 .. MAX_SWAP_OFFSET - 1
Entries == {Paging!None} \cup {Paging!Mapped(p) : p \in Frames}
                         \cup {Paging!Entry(n) : n \in Slots}

\* What a page fault works on.
PagingState ==
    [pte : [Vma -> Entries], pra : Seq(Frames), curr_ptr : {Paging!ListHead} \cup Frames,
     visited : [Frames -> BOOLEAN], pra_vaddr : [Frames -> Vma], content : [Frames -> Values],
     ide : [Slots -> Values], free : SUBSET Frames, victim : {Paging!ListHead} \cup Frames]

\* The i-th oldest page in the list q: the FIFO takes in pages at the front.
Oldest(q, i) == IF sm = "fifo" THEN q[Len(q) - i + 1] ELSE q[i]

\* The hand of the clock is at the oldest page, and no visited page is older than one
\* that is not.
HandExact(s) ==
    /\ s.curr_ptr # Paging!ListHead =>
           sm = "clock" /\ s.pra # <<>> /\ s.curr_ptr = s.pra[1]
    /\ sm = "clock" => \A i, j \in 1 .. Len(s.pra) :
                           i < j /\ s.visited[s.pra[i]] => s.visited[s.pra[j]]

\* No page is in the list twice, and those that are not in it are free.
ListExact(s) ==
    /\ \A i, j \in 1 .. Len(s.pra) : s.pra[i] = s.pra[j] => i = j
    /\ \A p \in Frames : p \in s.free <=> ~InList(s.pra, p)

\* The page table leads to the pages in the list, and they lead back.
TableExact(s) ==
    /\ \A p \in Frames : InList(s.pra, p) => s.pte[s.pra_vaddr[p]] = Paging!Mapped(p)
    /\ \A v \in Vma :
           \/ s.pte[v] = Paging!None
           \/ s.pte[v] = Paging!Entry(v + 1)
           \/ \E p \in Frames : InList(s.pra, p) /\ s.pra_vaddr[p] = v
                                /\ s.pte[v] = Paging!Mapped(p)

\* The list, the page table and the hand of a state agree.
Consistent(s) == s \in PagingState /\ HandExact(s) /\ ListExact(s) /\ TableExact(s)

\* Memory and ByAge of a state in a page fault.
MemoryOf(s) ==
    [v \in {u \in Vma : s.pte[u] # Paging!None} |->
        IF s.pte[v][1] = "page" THEN s.content[s.pte[v][2]] ELSE s.ide[s.pte[v][2]]]

\* The addresses of the pages in memory, the oldest first.
AgeOf(s) == [i \in 1 .. Len(s.pra) |-> s.pra_vaddr[Oldest(s.pra, i)]]

\* What is inductive for paging.
PagingInv == sm \in {"fifo", "clock"} /\ Consistent(Paging!state)

-----------------------------------------------------------------------------
\* Every address is a number and has a place on the disk.
LEMMA PagingConstants ==
    /\ PPAGES \in Nat \ {0} /\ Frames = 1 .. PPAGES /\ Paging!ListHead \notin Frames
    /\ Vma # {} /\ \A v \in Vma : v \in Nat /\ v + 1 \in Slots
    /\ VFIRST \in Vma
  BY PagingAssumption DEF Paging!SwapAssumption, Frames, Paging!Pages, Paging!ListHead, Vma,
                          Paging!Vma, Slots

\* The three kinds of page table entries are told apart by their first element.
LEMMA Kinds ==
    /\ Paging!None # Paging!Mapped(1)
    /\ \A p : Paging!Mapped(p) # Paging!None /\ Paging!Mapped(p)[1] = "page"
              /\ Paging!Mapped(p)[2] = p
    /\ \A n : Paging!Entry(n) # Paging!None /\ Paging!Entry(n)[1] = "swap"
              /\ Paging!Entry(n)[2] = n
    /\ Paging!None[1] = "none"
  BY DEF Paging!None, Paging!Mapped, Paging!Entry

\* So a page is not an entry of the disk, and leads to one page only.
LEMMA KindsApart ==
    /\ \A p, n : Paging!Mapped(p) # Paging!Entry(n)
    /\ \A p, q : Paging!Mapped(p) = Paging!Mapped(q) => p = q
  BY Kinds

\* All frames are in use exactly if the list is as long as memory.
LEMMA FullList ==
    ASSUME NEW s, Consistent(s)
    PROVE  /\ Len(s.pra) \in Nat
           /\ s.free = {} <=> Len(s.pra) = PPAGES
  <1> DEFINE n == Len(s.pra)
  <1>1. s.pra \in Seq(Frames) /\ s.pra \in [1 .. n -> Frames] /\ n \in Nat
    BY DEF Consistent, PagingState
  <1>2. s.pra \in Injection(1 .. n, Frames)
    BY <1>1 DEF Consistent, ListExact, Injection, IsInjective
  <1>3. IsFiniteSet(1 .. n) /\ Cardinality(1 .. n) = n
        /\ IsFiniteSet(Frames) /\ Cardinality(Frames) = PPAGES
    <2> HIDE DEF n
    <2>1. IsFiniteSet(1 .. n) /\ Cardinality(1 .. n) = IF 1 > n THEN 0 ELSE n - 1 + 1
      BY <1>1, FS_Interval
    <2>2. Frames = 1 .. PPAGES /\ PPAGES \in Nat \ {0}
      BY PagingConstants
    <2>3. IsFiniteSet(1 .. PPAGES) /\ Cardinality(1 .. PPAGES) = PPAGES
      BY <2>2, FS_Interval
    <2> QED
      BY <1>1, <2>1, <2>2, <2>3
  <1>4. Cardinality(1 .. n) = Cardinality(Frames) <=> s.pra \in Surjection(1 .. n, Frames)
    BY <1>2, <1>3, FS_Injection
  <1>5. s.pra \in Surjection(1 .. n, Frames) <=> \A p \in Frames : InList(s.pra, p)
    BY <1>1 DEF Surjection, InList
  <1>6. s.free = {} <=> \A p \in Frames : InList(s.pra, p)
    BY DEF Consistent, ListExact, PagingState
  <1> QED
    BY <1>1, <1>3, <1>4, <1>5, <1>6

\* What a victim's departure from the list does to the list, the hand and the flags.
Departed(s, t) ==
    /\ t \in PagingState
    /\ t.pte = s.pte /\ t.pra_vaddr = s.pra_vaddr /\ t.content = s.content /\ t.ide = s.ide
    /\ t.free = s.free /\ t.victim = Oldest(s.pra, 1)
    /\ Len(t.pra) = Len(s.pra) - 1
    /\ \A i \in 1 .. Len(t.pra) : t.pra[i] = IF sm = "fifo" THEN s.pra[i] ELSE s.pra[i + 1]
    /\ HandExact(t)

\* The FIFO takes the page at the end of the list.
LEMMA FifoDeparts ==
    ASSUME NEW s, Consistent(s), s.pra # <<>>, sm = "fifo"
    PROVE  Departed(s, Paging!FifoVictim(s))
  <1> DEFINE t == Paging!FifoVictim(s)
             n == Len(s.pra)
  <1>1. s \in PagingState /\ s.pra \in Seq(Frames) /\ n \in Nat /\ n > 0
    BY DEF Consistent, PagingState
  <1>2. t = [s EXCEPT !.pra = SubSeq(s.pra, 1, n - 1), !.victim = s.pra[n]]
    BY DEF Paging!FifoVictim, Paging!Front, Paging!Last
  <1>3. /\ SubSeq(s.pra, 1, n - 1) \in Seq(Frames)
        /\ Len(SubSeq(s.pra, 1, n - 1)) = n - 1
        /\ \A i \in 1 .. n - 1 : SubSeq(s.pra, 1, n - 1)[i] = s.pra[i]
    BY <1>1
  <1>4. s.pra[n] \in Frames
    BY <1>1
  <1> HIDE DEF t
  <1>5. /\ t \in PagingState
        /\ t.pra = SubSeq(s.pra, 1, n - 1) /\ t.victim = s.pra[n]
        /\ t.pte = s.pte /\ t.pra_vaddr = s.pra_vaddr /\ t.content = s.content
        /\ t.ide = s.ide /\ t.free = s.free /\ t.curr_ptr = s.curr_ptr
    BY <1>1, <1>2, <1>3, <1>4 DEF PagingState
  <1>6. HandExact(t)
    BY <1>5 DEF Consistent, HandExact
  <1>7. Oldest(s.pra, 1) = s.pra[n]
    BY <1>1 DEF Oldest
  <1> QED
    BY <1>1, <1>3, <1>5, <1>6, <1>7 DEF Departed, t

\* A place in a round of n, and the end of the round.
LEMMA Rotation ==
    ASSUME NEW n \in Nat \ {0}
    PROVE  n % n = 0 /\ \A k \in 0 .. n - 1 : k % n = k
  <1>1. n % n = 0
    <2>1. n = n * 1 + 0
      OBVIOUS
    <2> QED
      BY <2>1
  <1>2. ASSUME NEW k \in 0 .. n - 1 PROVE k % n = k
    OBVIOUS
  <1> QED
    BY <1>1, <1>2

\* The clock, too, takes the oldest page: its hand is there, and it goes round a
\* list of visited pages once and takes the one it has started at.
LEMMA ClockDeparts ==
    ASSUME NEW s, Consistent(s), s.pra # <<>>, sm = "clock"
    PROVE  Departed(s, Paging!ClockVictim(s))
  <1> DEFINE t == Paging!ClockVictim(s)
             n == Len(s.pra)
             start == IF s.curr_ptr = Paging!ListHead THEN 1
                      ELSE CHOOSE i \in 1 .. n : s.pra[i] = s.curr_ptr
             At(k) == ((start + k - 1) % n) + 1
             Passes(k) == /\ k = n \/ ~s.visited[s.pra[At(k)]]
                          /\ \A j \in 0 .. k - 1 : s.visited[s.pra[At(j)]]
             passed == CHOOSE k \in 0 .. n : Passes(k)
             rest == Paging!RemoveAt(s.pra, 1)
             cleared == [p \in Paging!Pages |->
                            s.visited[p] /\ \A j \in 0 .. passed - 1 : p # s.pra[At(j)]]
             hand == IF n = 1 THEN Paging!ListHead ELSE s.pra[2]
  <1>1. s \in PagingState /\ s.pra \in Seq(Frames) /\ n \in Nat /\ n > 0
    BY DEF Consistent, PagingState
  <1>2. start = 1
    <2>1. CASE s.curr_ptr = Paging!ListHead
      BY <2>1
    <2>2. CASE s.curr_ptr # Paging!ListHead
      <3>1. s.curr_ptr = s.pra[1] /\ 1 \in 1 .. n
        BY <1>1, <2>2 DEF Consistent, HandExact
      <3>2. \A i \in 1 .. n : s.pra[i] = s.curr_ptr <=> i = 1
        BY <1>1, <3>1 DEF Consistent, ListExact
      <3> QED
        BY <2>2, <3>1, <3>2
    <2> QED
      BY <2>1, <2>2
  <1> HIDE DEF start
  <1>3. /\ \A k \in 0 .. n - 1 : At(k) = k + 1
        /\ At(n) = 1
    <2> HIDE DEF n
    <2>1. ASSUME NEW k \in 0 .. n - 1 PROVE At(k) = k + 1
      <3>1. start + k - 1 = k
        BY <1>2
      <3> QED
        BY <1>1, <3>1, Rotation
    <2>2. At(n) = 1
      <3>1. start + n - 1 = n
        BY <1>1, <1>2
      <3> QED
        BY <1>1, <3>1, Rotation
    <2> QED
      BY <2>1, <2>2
  <1>4. \A i \in 1 .. n : s.visited[s.pra[1]] => s.visited[s.pra[i]]
    BY <1>1 DEF Consistent, HandExact
  <1> HIDE DEF At
  <1>5. Passes(passed) /\ passed \in {0, n}
    <2> HIDE DEF n
    <2>1. CASE s.visited[s.pra[1]]
      <3>1. \A k \in 0 .. n - 1 : s.visited[s.pra[At(k)]]
        BY <1>1, <1>3, <1>4, <2>1
      <3>2. \A k \in 0 .. n : Passes(k) <=> k = n
        BY <1>1, <3>1
      <3>3. n \in 0 .. n
        BY <1>1
      <3> HIDE DEF Passes
      <3> QED
        BY <3>2, <3>3
    <2>2. CASE ~s.visited[s.pra[1]]
      <3>1. ~s.visited[s.pra[At(0)]] /\ 0 \in 0 .. n
        BY <1>1, <1>3, <2>2
      <3>2. \A k \in 0 .. n : Passes(k) <=> k = 0
        BY <1>1, <3>1
      <3> HIDE DEF Passes
      <3> QED
        BY <3>1, <3>2
    <2> QED
      BY <2>1, <2>2
  <1> HIDE DEF passed
  <1>6. At(passed) = 1
    <2>1. At(0) = 0 + 1
      BY <1>1, <1>3
    <2> QED
      BY <1>3, <1>5, <2>1
  <1>7. t = [s EXCEPT !.visited = cleared, !.curr_ptr = hand, !.victim = s.pra[1],
                      !.pra = rest]
    <2>1. t = [s EXCEPT !.visited = cleared,
                        !.curr_ptr = IF At(passed) = n THEN Paging!ListHead
                                     ELSE s.pra[At(passed) + 1],
                        !.victim = s.pra[At(passed)],
                        !.pra = Paging!RemoveAt(@, At(passed))]
      BY DEF Paging!ClockVictim, At, start, passed
    <2> HIDE DEF cleared
    <2> QED
      BY <1>1, <1>6, <2>1
  <1>8. /\ rest \in Seq(Frames) /\ Len(rest) = n - 1
        /\ \A i \in 1 .. n - 1 : rest[i] = s.pra[i + 1]
    <2>1. SubSeq(s.pra, 1, 1 - 1) = <<>>
      BY <1>1
    <2>2. /\ SubSeq(s.pra, 1 + 1, n) \in Seq(Frames)
          /\ Len(SubSeq(s.pra, 1 + 1, n)) = n - 1
          /\ \A i \in 1 .. n - 1 : SubSeq(s.pra, 1 + 1, n)[i] = s.pra[i + 1]
      BY <1>1
    <2>3. rest = SubSeq(s.pra, 1 + 1, n)
      BY <2>1, <2>2, ConcatEmptySeq DEF Paging!RemoveAt
    <2> QED
      BY <2>2, <2>3
  <1>9. cleared \in [Frames -> BOOLEAN]
    BY <1>1 DEF PagingState, Frames
  <1>10. hand \in {Paging!ListHead} \cup Frames /\ s.pra[1] \in Frames
    <2>1. \A i \in 1 .. n : s.pra[i] \in Frames
      BY <1>1
    <2>2. 1 \in 1 .. n /\ (n # 1 => 2 \in 1 .. n)
      <3> HIDE DEF n
      <3> QED
        BY <1>1
    <2> QED
      BY <2>1, <2>2
  <1> HIDE DEF cleared, hand, rest, t, passed
  <1>11. /\ t \in PagingState
         /\ t.pra = rest /\ t.victim = s.pra[1] /\ t.curr_ptr = hand /\ t.visited = cleared
         /\ t.pte = s.pte /\ t.pra_vaddr = s.pra_vaddr /\ t.content = s.content
         /\ t.ide = s.ide /\ t.free = s.free
    BY <1>1, <1>7, <1>8, <1>9, <1>10 DEF PagingState
  <1>12. hand # Paging!ListHead => rest # <<>> /\ hand = rest[1]
    <2>1. ASSUME n # 1 PROVE rest # <<>> /\ s.pra[2] = rest[1]
      <3>1. 1 \in 1 .. n - 1 /\ Len(rest) # 0
        <4> HIDE DEF n
        <4> QED
          BY <1>1, <1>8, <2>1
      <3> QED
        BY <1>8, <3>1
    <2> QED
      BY <2>1 DEF hand
  <1>13. \A i, j \in 1 .. n - 1 : i < j /\ cleared[rest[i]] => cleared[rest[j]]
    <2>1. CASE passed = 0
      <3>1. \A p \in Frames : cleared[p] = s.visited[p]
        BY <2>1 DEF cleared, Frames, PagingState, Consistent
      <3>2. \A i \in 1 .. n : s.pra[i] \in Frames
        BY <1>1
      <3>3. ASSUME NEW i \in 1 .. n - 1, NEW j \in 1 .. n - 1, i < j, cleared[rest[i]]
            PROVE  cleared[rest[j]]
        <4>1. rest[i] = s.pra[i + 1] /\ rest[j] = s.pra[j + 1]
              /\ i + 1 \in 1 .. n /\ j + 1 \in 1 .. n /\ i + 1 < j + 1
          BY <1>1, <1>8, <3>3
        <4>2. s.visited[s.pra[i + 1]]
          BY <3>1, <3>2, <3>3, <4>1
        <4>3. s.visited[s.pra[j + 1]]
          BY <4>1, <4>2 DEF Consistent, HandExact
        <4> QED
          BY <3>1, <3>2, <4>1, <4>3
      <3> QED
        BY <3>3
    <2>2. CASE passed = n
      <3>1. ASSUME NEW i \in 1 .. n - 1 PROVE ~cleared[rest[i]]
        <4>1. rest[i] = s.pra[i + 1] /\ i \in 0 .. n - 1 /\ At(i) = i + 1 /\ rest[i] \in Frames
          BY <1>1, <1>3, <1>8
        <4> QED
          BY <1>1, <2>2, <4>1 DEF cleared, Frames
      <3> QED
        BY <3>1
    <2> QED
      BY <1>5, <2>1, <2>2
  <1>14. HandExact(t)
    BY <1>8, <1>11, <1>12, <1>13 DEF HandExact
  <1>15. Oldest(s.pra, 1) = s.pra[1]
    BY DEF Oldest
  <1> QED
    BY <1>1, <1>8, <1>11, <1>14, <1>15 DEF Departed, t

\* A page that is in the list has an address whose entry leads to it.
LEMMA InListIs ==
    ASSUME NEW s, Consistent(s), NEW p \in Frames, InList(s.pra, p)
    PROVE  s.pra_vaddr[p] \in Vma /\ s.pte[s.pra_vaddr[p]] = Paging!Mapped(p)
  BY DEF Consistent, PagingState, TableExact

\* Who is in the list after the departure, and who is the i-th oldest.
LEMMA DepartedList ==
    ASSUME NEW s, Consistent(s), s.pra # <<>>, NEW t, Departed(s, t), sm \in {"fifo", "clock"}
    PROVE  /\ t.victim \in Frames /\ InList(s.pra, t.victim)
           /\ \A p \in Frames : InList(t.pra, p) <=> InList(s.pra, p) /\ p # t.victim
           /\ \A i, j \in 1 .. Len(t.pra) : t.pra[i] = t.pra[j] => i = j
           /\ \A i \in 1 .. Len(t.pra) : Oldest(t.pra, i) = Oldest(s.pra, i + 1)
  <1> DEFINE n == Len(s.pra)
             o == IF sm = "fifo" THEN n ELSE 1
             From(i) == IF sm = "fifo" THEN i ELSE i + 1
  <1>1. s.pra \in Seq(Frames) /\ n \in Nat /\ n > 0 /\ Len(t.pra) = n - 1
    BY DEF Consistent, PagingState, Departed
  <1>2. \A i \in 1 .. n : s.pra[i] \in Frames
    BY <1>1
  <1> HIDE DEF n
  <1>3. o \in 1 .. n /\ t.victim = s.pra[o]
    BY <1>1 DEF Departed, Oldest, n
  <1>4. \A i \in 1 .. n - 1 : From(i) \in 1 .. n /\ From(i) # o /\ t.pra[i] = s.pra[From(i)]
    BY <1>1 DEF Departed
  <1>5. ASSUME NEW k \in 1 .. n, k # o PROVE \E i \in 1 .. n - 1 : From(i) = k
    <2>1. CASE sm = "fifo"
      <3>1. k \in 1 .. n - 1 /\ From(k) = k
        BY <1>1, <1>5, <2>1
      <3> QED
        BY <3>1
    <2>2. CASE sm = "clock"
      <3>1. k - 1 \in 1 .. n - 1 /\ From(k - 1) = k
        BY <1>1, <1>5, <2>2
      <3> QED
        BY <3>1
    <2> QED
      BY <2>1, <2>2
  <1>6. \A i, j \in 1 .. n : s.pra[i] = s.pra[j] => i = j
    BY DEF Consistent, ListExact, n
  <1>7. \A i, j \in 1 .. n - 1 : From(i) = From(j) => i = j
    BY <1>1
  <1> HIDE DEF o, From
  <1>8. t.victim \in Frames /\ InList(s.pra, t.victim)
    BY <1>2, <1>3 DEF InList, n
  <1>9. ASSUME NEW p \in Frames
        PROVE  InList(t.pra, p) <=> InList(s.pra, p) /\ p # t.victim
    <2>1. ASSUME InList(t.pra, p) PROVE InList(s.pra, p) /\ p # t.victim
      <3>1. PICK i \in 1 .. n - 1 : t.pra[i] = p
        BY <1>1, <2>1 DEF InList
      <3> QED
        BY <1>3, <1>4, <1>6, <3>1 DEF InList, n
    <2>2. ASSUME InList(s.pra, p), p # t.victim PROVE InList(t.pra, p)
      <3>1. PICK k \in 1 .. n : s.pra[k] = p
        BY <2>2 DEF InList, n
      <3>2. PICK i \in 1 .. n - 1 : From(i) = k
        BY <1>3, <1>5, <2>2, <3>1
      <3> QED
        BY <1>1, <1>4, <3>1, <3>2 DEF InList
    <2> QED
      BY <2>1, <2>2
  <1>10. \A i, j \in 1 .. n - 1 : t.pra[i] = t.pra[j] => i = j
    BY <1>4, <1>6, <1>7
  <1>11. ASSUME NEW i \in 1 .. n - 1 PROVE Oldest(t.pra, i) = Oldest(s.pra, i + 1)
    <2>1. CASE sm = "fifo"
      <3>1. (n - 1) - i + 1 \in 1 .. n - 1 /\ (n - 1) - i + 1 = n - (i + 1) + 1
        BY <1>1
      <3>2. t.pra[(n - 1) - i + 1] = s.pra[n - (i + 1) + 1]
        BY <1>4, <2>1, <3>1 DEF From
      <3> QED
        BY <1>1, <2>1, <3>2 DEF Oldest, n
    <2>2. CASE sm = "clock"
      BY <1>4, <2>2 DEF Oldest, From
    <2> QED
      BY <2>1, <2>2
  <1> QED
    BY <1>1, <1>8, <1>9, <1>10, <1>11

\* swap_out writes the page to the place on the disk that its address has: the
\* memory of the program stays as it is.
LEMMA WriteOutKeeps ==
    ASSUME NEW s, Consistent(s), s.pra # <<>>, NEW t, Departed(s, t), sm \in {"fifo", "clock"},
           NEW w, w = Paging!WriteOut(t)
    PROVE  /\ Consistent(w) /\ w.free # {}
           /\ MemoryOf(w) = MemoryOf(s)
           /\ Len(w.pra) = Len(s.pra) - 1
           /\ \A i \in 1 .. Len(w.pra) :
                  w.pra_vaddr[Oldest(w.pra, i)] = s.pra_vaddr[Oldest(s.pra, i + 1)]
           /\ \A v \in Vma : s.pte[v][1] # "page" => w.pte[v] = s.pte[v]
  <1> DEFINE o == t.victim
             v == s.pra_vaddr[o]
  <1>1. /\ s \in PagingState /\ t \in PagingState
        /\ t.pte = s.pte /\ t.pra_vaddr = s.pra_vaddr /\ t.content = s.content /\ t.ide = s.ide
        /\ t.free = s.free /\ HandExact(t)
    BY DEF Consistent, Departed
  <1>2. o \in Frames /\ v \in Vma /\ s.pte[v] = Paging!Mapped(o) /\ v \in Nat /\ v + 1 \in Slots
    BY DepartedList, InListIs, PagingConstants
  <1>3. w = [t EXCEPT !.ide[v + 1] = s.content[o], !.pte[v] = Paging!Entry(v + 1),
                      !.free = @ \cup {o}]
    BY <1>1 DEF Paging!WriteOut, Paging!swap_entry
  <1> HIDE DEF o, v
  <1>4. Paging!Entry(v + 1) \in Entries /\ s.content[o] \in Values
    BY <1>1, <1>2 DEF Entries, PagingState
  <1>5. /\ w \in PagingState
        /\ w.pra = t.pra /\ w.curr_ptr = t.curr_ptr /\ w.visited = t.visited
        /\ w.pra_vaddr = s.pra_vaddr /\ w.content = s.content
        /\ w.ide = [s.ide EXCEPT ![v + 1] = s.content[o]]
        /\ w.pte = [s.pte EXCEPT ![v] = Paging!Entry(v + 1)]
        /\ w.free = s.free \cup {o}
    <2> DEFINE disk == [s.ide EXCEPT ![v + 1] = s.content[o]]
               table == [s.pte EXCEPT ![v] = Paging!Entry(v + 1)]
               frames == s.free \cup {o}
    <2>1. disk \in [Slots -> Values] /\ table \in [Vma -> Entries] /\ frames \in SUBSET Frames
      BY <1>1, <1>2, <1>4 DEF PagingState
    <2>2. w = [t EXCEPT !.ide = disk, !.pte = table, !.free = frames]
      BY <1>1, <1>3 DEF PagingState
    <2> HIDE DEF disk, table, frames
    <2>3. /\ w \in PagingState
          /\ w.pra = t.pra /\ w.curr_ptr = t.curr_ptr /\ w.visited = t.visited
          /\ w.pra_vaddr = t.pra_vaddr /\ w.content = t.content
          /\ w.ide = disk /\ w.pte = table /\ w.free = frames
      BY <1>1, <2>1, <2>2 DEF PagingState
    <2> QED
      BY <1>1, <2>3 DEF disk, table, frames
  <1>6. /\ \A u \in Vma : w.pte[u] = IF u = v THEN Paging!Entry(v + 1) ELSE s.pte[u]
        /\ \A k \in Slots : w.ide[k] = IF k = v + 1 THEN s.content[o] ELSE s.ide[k]
    BY <1>1, <1>2, <1>5 DEF PagingState
  <1>7. HandExact(w)
    BY <1>1, <1>5 DEF HandExact
  <1>8. /\ \A p \in Frames : InList(w.pra, p) <=> InList(s.pra, p) /\ p # o
        /\ \A i, j \in 1 .. Len(w.pra) : w.pra[i] = w.pra[j] => i = j
        /\ \A i \in 1 .. Len(w.pra) : Oldest(w.pra, i) = Oldest(s.pra, i + 1)
    BY <1>5, DepartedList DEF o
  <1>9. ListExact(w)
    BY <1>2, <1>5, <1>8 DEF Consistent, ListExact
  <1>10. \A p \in Frames : InList(s.pra, p) /\ p # o =>
             s.pra_vaddr[p] \in Vma /\ s.pra_vaddr[p] # v
    BY <1>2, InListIs, KindsApart
  <1>11. TableExact(w)
    <2>1. ASSUME NEW p \in Frames, InList(w.pra, p)
          PROVE  w.pte[w.pra_vaddr[p]] = Paging!Mapped(p)
      BY <1>5, <1>6, <1>8, <1>10, <2>1, InListIs
    <2>2. ASSUME NEW u \in Vma
          PROVE  \/ w.pte[u] = Paging!None
                 \/ w.pte[u] = Paging!Entry(u + 1)
                 \/ \E p \in Frames : InList(w.pra, p) /\ w.pra_vaddr[p] = u
                                      /\ w.pte[u] = Paging!Mapped(p)
      <3>1. CASE u = v
        BY <1>6, <3>1
      <3>2. CASE u # v
        <4>1. w.pte[u] = s.pte[u]
          BY <1>6, <3>2
        <4>2. \/ s.pte[u] = Paging!None
              \/ s.pte[u] = Paging!Entry(u + 1)
              \/ \E p \in Frames : InList(s.pra, p) /\ s.pra_vaddr[p] = u
                                   /\ s.pte[u] = Paging!Mapped(p)
          BY DEF Consistent, TableExact
        <4>3. ASSUME NEW p \in Frames, InList(s.pra, p), s.pra_vaddr[p] = u PROVE p # o
          BY <3>2, <4>3 DEF v
        <4> QED
          BY <1>5, <1>8, <4>1, <4>2, <4>3
      <3> QED
        BY <3>1, <3>2
    <2> QED
      BY <2>1, <2>2 DEF TableExact
  <1>12. MemoryOf(w) = MemoryOf(s)
    <2>1. {u \in Vma : w.pte[u] # Paging!None} = {u \in Vma : s.pte[u] # Paging!None}
      BY <1>2, <1>6, Kinds
    <2>2. ASSUME NEW u \in Vma, s.pte[u] # Paging!None
          PROVE  (IF w.pte[u][1] = "page" THEN w.content[w.pte[u][2]] ELSE w.ide[w.pte[u][2]]) =
                 (IF s.pte[u][1] = "page" THEN s.content[s.pte[u][2]] ELSE s.ide[s.pte[u][2]])
      <3>1. CASE u = v
        BY <1>2, <1>5, <1>6, <3>1, Kinds
      <3>2. CASE u # v
        <4>1. w.pte[u] = s.pte[u] /\ w.content = s.content
          BY <1>5, <1>6, <3>2
        <4>2. s.pte[u][1] # "page" => s.pte[u] = Paging!Entry(u + 1)
          BY <2>2, Kinds DEF Consistent, TableExact
        <4>3. u + 1 \in Slots /\ u + 1 # v + 1
          BY <1>2, <3>2, PagingConstants
        <4>4. s.pte[u][1] # "page" => s.pte[u][2] = u + 1
          BY <4>2, Kinds
        <4>5. w.ide[u + 1] = s.ide[u + 1]
          BY <1>6, <4>3
        <4> QED
          BY <4>1, <4>4, <4>5
      <3> QED
        BY <3>1, <3>2
    <2> QED
      BY <2>1, <2>2 DEF MemoryOf
  <1>13. Len(w.pra) = Len(s.pra) - 1
    BY <1>5 DEF Departed
  <1>14. \A u \in Vma : s.pte[u][1] # "page" => w.pte[u] = s.pte[u]
    BY <1>2, <1>6, Kinds
  <1> QED
    BY <1>2, <1>5, <1>7, <1>8, <1>9, <1>11, <1>12, <1>13, <1>14 DEF Consistent

\* The ages are a sequence of the addresses that have a page.
LEMMA Ages ==
    ASSUME NEW s, Consistent(s), sm \in {"fifo", "clock"}
    PROVE  /\ \A i \in 1 .. Len(s.pra) : Oldest(s.pra, i) \in Frames
                                         /\ InList(s.pra, Oldest(s.pra, i))
           /\ AgeOf(s) \in Seq(Vma) /\ Len(AgeOf(s)) = Len(s.pra) /\ Len(s.pra) \in Nat
           /\ \A i \in 1 .. Len(s.pra) : AgeOf(s)[i] = s.pra_vaddr[Oldest(s.pra, i)]
           /\ \A v \in Vma : s.pte[v][1] = "page" <=>
                                 \E i \in 1 .. Len(AgeOf(s)) : AgeOf(s)[i] = v
  <1> DEFINE n == Len(s.pra)
             Place(i) == IF sm = "fifo" THEN n - i + 1 ELSE i
  <1>1. s \in PagingState /\ s.pra \in Seq(Frames) /\ n \in Nat
    BY DEF Consistent, PagingState
  <1>2. \A i \in 1 .. n : s.pra[i] \in Frames
    BY <1>1
  <1>3. \A i \in 1 .. n : Oldest(s.pra, i) = s.pra[Place(i)]
    BY DEF Oldest
  <1> HIDE DEF n
  <1>4. /\ \A i \in 1 .. n : Place(i) \in 1 .. n
        /\ \A i \in 1 .. n : Place(Place(i)) = i
    BY <1>1
  <1> HIDE DEF Place
  <1>5. \A i \in 1 .. n : Oldest(s.pra, i) \in Frames /\ InList(s.pra, Oldest(s.pra, i))
    BY <1>2, <1>3, <1>4 DEF InList, n
  <1>6. \A i \in 1 .. n : s.pra_vaddr[Oldest(s.pra, i)] \in Vma
    BY <1>1, <1>5 DEF PagingState
  <1>7. AgeOf(s) \in [1 .. n -> Vma]
        /\ \A i \in 1 .. n : AgeOf(s)[i] = s.pra_vaddr[Oldest(s.pra, i)]
    BY <1>6 DEF AgeOf, n
  <1>8. AgeOf(s) \in Seq(Vma) /\ Len(AgeOf(s)) = n
    BY <1>1, <1>7
  <1>9. ASSUME NEW v \in Vma
        PROVE  s.pte[v][1] = "page" <=> \E i \in 1 .. n : AgeOf(s)[i] = v
    <2>1. ASSUME s.pte[v][1] = "page" PROVE \E i \in 1 .. n : AgeOf(s)[i] = v
      <3>1. PICK p \in Frames : InList(s.pra, p) /\ s.pra_vaddr[p] = v
        BY <2>1, Kinds DEF Consistent, TableExact
      <3>2. PICK i \in 1 .. n : s.pra[i] = p
        BY <3>1 DEF InList, n
      <3>3. Place(i) \in 1 .. n /\ Oldest(s.pra, Place(i)) = p
        BY <1>3, <1>4, <3>2
      <3> QED
        BY <1>7, <3>1, <3>3
    <2>2. ASSUME NEW i \in 1 .. n, AgeOf(s)[i] = v PROVE s.pte[v][1] = "page"
      BY <1>5, <1>7, <2>2, InListIs, Kinds
    <2> QED
      BY <2>1, <2>2
  <1> QED
    BY <1>1, <1>5, <1>7, <1>8, <1>9 DEF n

\* A page fault takes a free page, or swaps out first.
LEMMA FreePage ==
    ASSUME NEW s, Consistent(s), sm \in {"fifo", "clock"},
           NEW w, w = Paging!WithFreePage(s)
    PROVE  /\ Consistent(w) /\ w.free # {}
           /\ MemoryOf(w) = MemoryOf(s)
           /\ AgeOf(w) = IF Len(AgeOf(s)) = PPAGES THEN Tail(AgeOf(s)) ELSE AgeOf(s)
           /\ \A v \in Vma : s.pte[v][1] # "page" => w.pte[v] = s.pte[v]
  <1>1. CASE s.free # {}
    <2>1. w = s /\ Len(AgeOf(s)) # PPAGES
      BY <1>1, FullList, Ages DEF Paging!WithFreePage
    <2> QED
      BY <1>1, <2>1
  <1>2. CASE s.free = {}
    <2> DEFINE t == IF sm = "fifo" THEN Paging!FifoVictim(s) ELSE Paging!ClockVictim(s)
    <2>1. Len(s.pra) = PPAGES /\ s.pra # <<>> /\ Len(AgeOf(s)) = PPAGES
      BY <1>2, FullList, Ages, PagingConstants, EmptySeq DEF Consistent, PagingState
    <2>2. Departed(s, t)
      BY <2>1, FifoDeparts, ClockDeparts
    <2>3. w = Paging!WriteOut(t)
      BY <1>2 DEF Paging!WithFreePage, Paging!swap_out
    <2> HIDE DEF t
    <2>4. /\ Consistent(w) /\ w.free # {}
          /\ MemoryOf(w) = MemoryOf(s)
          /\ Len(w.pra) = Len(s.pra) - 1
          /\ \A i \in 1 .. Len(w.pra) :
                 w.pra_vaddr[Oldest(w.pra, i)] = s.pra_vaddr[Oldest(s.pra, i + 1)]
          /\ \A v \in Vma : s.pte[v][1] # "page" => w.pte[v] = s.pte[v]
      BY <2>1, <2>2, <2>3, WriteOutKeeps
    <2>5. AgeOf(w) = Tail(AgeOf(s))
      <3> DEFINE a == AgeOf(s)
                 b == AgeOf(w)
                 n == Len(a)
      <3>1. /\ a \in Seq(Vma) /\ n = Len(s.pra) /\ n \in Nat
            /\ \A i \in 1 .. n : a[i] = s.pra_vaddr[Oldest(s.pra, i)]
        BY Ages
      <3>2. /\ b \in Seq(Vma) /\ Len(b) = n - 1
            /\ \A i \in 1 .. n - 1 : b[i] = w.pra_vaddr[Oldest(w.pra, i)]
        BY <2>4, <3>1, Ages
      <3> HIDE DEF a, b
      <3>3. \A i \in 1 .. n - 1 : i + 1 \in 1 .. n
        BY <3>1
      <3>4. \A i \in 1 .. n - 1 : b[i] = a[i + 1]
        BY <2>4, <3>1, <3>2, <3>3
      <3>5. n > 0 /\ a # <<>>
        BY <2>1, <3>1, PagingConstants DEF a
      <3>6. Tail(a) \in Seq(Vma) /\ Len(Tail(a)) = n - 1
            /\ \A i \in 1 .. n - 1 : Tail(a)[i] = a[i + 1]
        BY <3>1, <3>5
      <3>7. b = Tail(a)
        BY <3>2, <3>4, <3>6, SeqEqual
      <3> QED
        BY <3>7 DEF a, b
    <2> QED
      BY <2>1, <2>4, <2>5
  <1> QED
    BY <1>1, <1>2

\* A memory in which v has x.
Having(m, v, x) == [b \in DOMAIN m \cup {v} |-> IF b = v THEN x ELSE m[b]]

\* What has been written to, or read into, a page.
Filled(s, p, x) == [s EXCEPT !.content[p] = x]

\* The page that arrives is the youngest, and its address has the value it holds.
LEMMA Arrives ==
    ASSUME NEW s, Consistent(s), sm \in {"fifo", "clock"},
           NEW p \in s.free, NEW v \in Vma, s.pte[v][1] # "page", NEW x \in Values,
           NEW w, w = Paging!Arrived(Filled(s, p, x), p, v)
    PROVE  /\ Consistent(w)
           /\ AgeOf(w) = Append(AgeOf(s), v)
           /\ MemoryOf(w) = Having(MemoryOf(s), v, x)
  <1> DEFINE n == Len(s.pra)
             list == IF sm = "fifo" THEN <<p>> \o s.pra ELSE Append(s.pra, p)
             marks == IF sm = "fifo" THEN s.visited ELSE [s.visited EXCEPT ![p] = TRUE]
             table == [s.pte EXCEPT ![v] = Paging!Mapped(p)]
             addrs == [s.pra_vaddr EXCEPT ![p] = v]
             filled == [s.content EXCEPT ![p] = x]
             rest == s.free \ {p}
  <1>1. s \in PagingState /\ s.pra \in Seq(Frames) /\ n \in Nat /\ p \in Frames
    BY DEF Consistent, PagingState
  <1>2. w = [s EXCEPT !.pra = list, !.visited = marks, !.pte = table, !.pra_vaddr = addrs,
                      !.content = filled, !.free = rest]
    <2>1. CASE sm = "fifo"
      <3> DEFINE r == [s EXCEPT !.content[p] = x, !.free = @ \ {p},
                                !.pte[v] = Paging!Mapped(p), !.pra_vaddr[p] = v]
      <3>1. w = [r EXCEPT !.pra = <<p>> \o @]
        BY <1>1, <2>1 DEF Paging!Arrived, Paging!map_swappable, PagingState, Filled
      <3> QED
        BY <1>1, <2>1, <3>1 DEF PagingState
    <2>2. CASE sm # "fifo"
      <3> DEFINE r == [s EXCEPT !.content[p] = x, !.free = @ \ {p},
                                !.pte[v] = Paging!Mapped(p), !.pra_vaddr[p] = v]
      <3>1. w = [r EXCEPT !.pra = Append(@, p), !.visited[p] = TRUE]
        BY <1>1, <2>2 DEF Paging!Arrived, Paging!map_swappable, PagingState, Filled
      <3> QED
        BY <1>1, <2>2, <3>1 DEF PagingState
    <2> QED
      BY <2>1, <2>2
  <1>3. /\ list \in Seq(Frames) /\ Len(list) = n + 1
        /\ sm = "fifo" => list[1] = p /\ \A i \in 1 .. n : list[i + 1] = s.pra[i]
        /\ sm = "fifo" => \A i \in 1 .. n + 1 : i # 1 => i - 1 \in 1 .. n /\ list[i] = s.pra[i - 1]
        /\ sm = "clock" => list[n + 1] = p /\ \A i \in 1 .. n : list[i] = s.pra[i]
    <2>1. CASE sm = "fifo"
      <3>1. <<p>> \in Seq(Frames) /\ Len(<<p>>) = 1
        BY <1>1
      <3>2. /\ <<p>> \o s.pra \in Seq(Frames) /\ Len(<<p>> \o s.pra) = 1 + n
            /\ \A i \in 1 .. 1 + n : (<<p>> \o s.pra)[i] = IF i <= 1 THEN <<p>>[i] ELSE s.pra[i - 1]
        BY <1>1, <3>1, ConcatProperties
      <3>3. list = <<p>> \o s.pra /\ sm # "clock" /\ <<p>>[1] = p
        BY <2>1
      <3> HIDE DEF n, list
      <3>4. list[1] = p
        <4>1. 1 \in 1 .. 1 + n
          BY <1>1
        <4> QED
          BY <3>2, <3>3, <4>1
      <3>5. ASSUME NEW i \in 1 .. n PROVE list[i + 1] = s.pra[i]
        <4>1. i + 1 \in 1 .. 1 + n /\ ~(i + 1 <= 1) /\ (i + 1) - 1 = i
          BY <1>1
        <4> QED
          BY <3>2, <3>3, <4>1
      <3>6. ASSUME NEW i \in 1 .. n + 1, i # 1 PROVE i - 1 \in 1 .. n /\ list[i] = s.pra[i - 1]
        <4>1. i - 1 \in 1 .. n /\ (i - 1) + 1 = i
          BY <1>1, <3>6
        <4> QED
          BY <3>5, <4>1
      <3>7. list \in Seq(Frames) /\ Len(list) = n + 1
        BY <1>1, <3>2, <3>3
      <3> QED
        BY <3>3, <3>4, <3>5, <3>6, <3>7
    <2>2. CASE sm = "clock"
      BY <1>1, <2>2
    <2> QED
      BY <2>1, <2>2
  <1>4. /\ marks \in [Frames -> BOOLEAN] /\ table \in [Vma -> Entries]
        /\ addrs \in [Frames -> Vma] /\ filled \in [Frames -> Values] /\ rest \in SUBSET Frames
    <2>1. Paging!Mapped(p) \in Entries
      BY <1>1 DEF Entries
    <2> QED
      BY <1>1, <2>1 DEF PagingState
  <1>5. /\ \A u \in Vma : table[u] = IF u = v THEN Paging!Mapped(p) ELSE s.pte[u]
        /\ \A q \in Frames : addrs[q] = IF q = p THEN v ELSE s.pra_vaddr[q]
        /\ \A q \in Frames : filled[q] = IF q = p THEN x ELSE s.content[q]
        /\ \A q \in Frames : marks[q] = IF sm = "clock" /\ q = p THEN TRUE ELSE s.visited[q]
        /\ \A q \in Frames : q \in rest <=> q \in s.free /\ q # p
    BY <1>1 DEF PagingState
  <1> HIDE DEF list, marks, table, addrs, filled, rest
  <1>6. /\ w \in PagingState
        /\ w.pra = list /\ w.visited = marks /\ w.pte = table /\ w.pra_vaddr = addrs
        /\ w.content = filled /\ w.free = rest /\ w.ide = s.ide /\ w.curr_ptr = s.curr_ptr
    BY <1>1, <1>2, <1>3, <1>4 DEF PagingState
  <1> HIDE DEF n
  <1>7. \A i \in 1 .. n : s.pra[i] \in Frames /\ s.pra[i] # p /\ InList(s.pra, s.pra[i])
    BY <1>1 DEF Consistent, ListExact, InList, n
  <1>8. \A q \in Frames : InList(list, q) <=> InList(s.pra, q) \/ q = p
    <2>1. CASE sm = "fifo"
      <3>1. \A i \in 1 .. n + 1 : i = 1 \/ (i - 1 \in 1 .. n /\ list[i] = s.pra[i - 1])
        BY <1>3, <2>1
      <3>2. 1 \in 1 .. n + 1 /\ \A i \in 1 .. n : i + 1 \in 1 .. n + 1
        BY <1>1
      <3>3. ASSUME NEW q \in Frames, InList(list, q) PROVE InList(s.pra, q) \/ q = p
        <4>1. PICK i \in 1 .. n + 1 : list[i] = q
          BY <1>3, <3>3 DEF InList
        <4>2. i = 1 \/ (i - 1 \in 1 .. n /\ list[i] = s.pra[i - 1])
          BY <3>1
        <4> QED
          BY <1>3, <2>1, <4>1, <4>2 DEF InList, n
      <3>4. ASSUME NEW q \in Frames, InList(s.pra, q) PROVE InList(list, q)
        <4>1. PICK i \in 1 .. n : s.pra[i] = q
          BY <3>4 DEF InList, n
        <4>2. list[i + 1] = q /\ i + 1 \in 1 .. Len(list)
          BY <1>3, <2>1, <3>2, <4>1
        <4> QED
          BY <4>2 DEF InList
      <3>5. InList(list, p)
        BY <1>3, <2>1, <3>2 DEF InList
      <3> QED
        BY <3>3, <3>4, <3>5
    <2>2. CASE sm = "clock"
      <3>1. \A i \in 1 .. n + 1 : i = n + 1 \/ i \in 1 .. n
        BY <1>1
      <3>2. n + 1 \in 1 .. n + 1 /\ \A i \in 1 .. n : i \in 1 .. n + 1
        BY <1>1
      <3> QED
        BY <1>3, <2>2, <3>1, <3>2 DEF InList, n
    <2> QED
      BY <2>1, <2>2
  <1>9. \A i, j \in 1 .. n + 1 : list[i] = list[j] => i = j
    <2>1. \A i, j \in 1 .. n : s.pra[i] = s.pra[j] => i = j
      BY DEF Consistent, ListExact, n
    <2>2. CASE sm = "fifo"
      <3>1. ASSUME NEW i \in 1 .. n + 1, NEW j \in 1 .. n + 1, list[i] = list[j] PROVE i = j
        <4>1. /\ i = 1 \/ (i - 1 \in 1 .. n /\ list[i] = s.pra[i - 1])
              /\ j = 1 \/ (j - 1 \in 1 .. n /\ list[j] = s.pra[j - 1])
          BY <1>3, <2>2
        <4>2. CASE i = 1 \/ j = 1
          BY <1>3, <1>7, <2>2, <3>1, <4>1, <4>2
        <4>3. CASE i # 1 /\ j # 1
          <5>1. i - 1 = j - 1
            BY <2>1, <3>1, <4>1, <4>3
          <5> QED
            BY <1>1, <5>1
        <4> QED
          BY <4>2, <4>3
      <3> QED
        BY <3>1
    <2>3. CASE sm = "clock"
      <3>1. \A i \in 1 .. n + 1 : i = n + 1 \/ i \in 1 .. n
        BY <1>1
      <3> QED
        BY <1>3, <1>7, <2>1, <2>3, <3>1
    <2> QED
      BY <2>2, <2>3
  <1>10. ListExact(w)
    <2>1. \A q \in Frames : q \in s.free <=> ~InList(s.pra, q)
      BY DEF Consistent, ListExact
    <2>2. \A q \in Frames : q \in rest <=> ~InList(list, q)
      BY <1>5, <1>8, <2>1
    <2> QED
      BY <1>3, <1>6, <1>9, <2>2 DEF ListExact
  <1>11. HandExact(w)
    <2>1. s.curr_ptr # Paging!ListHead => sm = "clock" /\ list # <<>> /\ s.curr_ptr = list[1]
      <3>1. ASSUME s.curr_ptr # Paging!ListHead
            PROVE  sm = "clock" /\ s.pra # <<>> /\ s.curr_ptr = s.pra[1]
        BY <3>1 DEF Consistent, HandExact
      <3>2. s.pra # <<>> => 1 \in 1 .. n
        BY <1>1 DEF n
      <3>3. list # <<>>
        BY <1>1, <1>3
      <3> QED
        BY <1>3, <3>1, <3>2, <3>3
    <2>2. ASSUME sm = "clock", NEW i \in 1 .. n + 1, NEW j \in 1 .. n + 1, i < j, marks[list[i]]
          PROVE  marks[list[j]]
      <3>1. i \in 1 .. n
        BY <1>1, <2>2
      <3>2. CASE j = n + 1
        <4>1. list[j] = p
          BY <1>3, <2>2, <3>2
        <4>2. marks[p] = TRUE
          BY <1>1, <1>5, <2>2
        <4> QED
          BY <4>1, <4>2
      <3>3. CASE j \in 1 .. n
        <4>1. list[i] = s.pra[i] /\ list[j] = s.pra[j]
          BY <1>3, <2>2, <3>1, <3>3
        <4>2. s.visited[s.pra[i]] => s.visited[s.pra[j]]
          BY <2>2, <3>1, <3>3 DEF Consistent, HandExact, n
        <4> QED
          BY <1>5, <1>7, <2>2, <3>1, <3>3, <4>1, <4>2
      <3> QED
        BY <1>1, <3>2, <3>3
    <2> QED
      BY <1>3, <1>6, <2>1, <2>2 DEF HandExact
  <1>12. TableExact(w)
    <2>1. ASSUME NEW q \in Frames, InList(list, q)
          PROVE  table[addrs[q]] = Paging!Mapped(q)
      <3>1. CASE q = p
        BY <1>5, <3>1
      <3>2. CASE q # p
        <4>1. s.pra_vaddr[q] \in Vma /\ s.pte[s.pra_vaddr[q]] = Paging!Mapped(q)
          BY <1>8, <2>1, <3>2, InListIs
        <4>2. s.pra_vaddr[q] # v
          BY <4>1, Kinds
        <4> QED
          BY <1>5, <3>2, <4>1, <4>2
      <3> QED
        BY <3>1, <3>2
    <2>2. ASSUME NEW u \in Vma
          PROVE  \/ table[u] = Paging!None
                 \/ table[u] = Paging!Entry(u + 1)
                 \/ \E q \in Frames : InList(list, q) /\ addrs[q] = u
                                      /\ table[u] = Paging!Mapped(q)
      <3>1. CASE u = v
        BY <1>1, <1>5, <1>8, <3>1
      <3>2. CASE u # v
        <4>1. \/ s.pte[u] = Paging!None
              \/ s.pte[u] = Paging!Entry(u + 1)
              \/ \E q \in Frames : InList(s.pra, q) /\ s.pra_vaddr[q] = u
                                   /\ s.pte[u] = Paging!Mapped(q)
          BY DEF Consistent, TableExact
        <4>2. \A q \in Frames : InList(s.pra, q) => q # p
          BY <1>7 DEF InList, n
        <4> QED
          BY <1>5, <1>8, <3>2, <4>1, <4>2
      <3> QED
        BY <3>1, <3>2
    <2> QED
      BY <1>6, <2>1, <2>2 DEF TableExact
  <1>13. Consistent(w)
    BY <1>6, <1>10, <1>11, <1>12 DEF Consistent
  <1>14. AgeOf(w) = Append(AgeOf(s), v)
    <2> DEFINE a == AgeOf(s)
               b == AgeOf(w)
    <2>1. /\ a \in Seq(Vma) /\ Len(a) = n
          /\ \A i \in 1 .. n : a[i] = s.pra_vaddr[Oldest(s.pra, i)]
                               /\ Oldest(s.pra, i) \in Frames /\ InList(s.pra, Oldest(s.pra, i))
      BY Ages DEF n
    <2>2. /\ b \in Seq(Vma) /\ Len(b) = n + 1
          /\ \A i \in 1 .. n + 1 : b[i] = addrs[Oldest(list, i)]
      <3>1. b \in Seq(Vma) /\ Len(b) = Len(w.pra)
            /\ \A i \in 1 .. Len(w.pra) : b[i] = w.pra_vaddr[Oldest(w.pra, i)]
        BY <1>13, Ages
      <3> HIDE DEF b
      <3> QED
        BY <1>3, <1>6, <3>1
    <2> HIDE DEF a, b
    <2>3. ASSUME NEW i \in 1 .. n PROVE Oldest(list, i) = Oldest(s.pra, i) /\ i \in 1 .. n + 1
      <3>1. CASE sm = "fifo"
        <4>1. n - i + 1 \in 1 .. n /\ (n + 1) - i + 1 = (n - i + 1) + 1
          BY <1>1
        <4>2. list[(n + 1) - i + 1] = s.pra[n - i + 1]
          BY <1>3, <3>1, <4>1
        <4> QED
          BY <1>1, <1>3, <3>1, <4>2 DEF Oldest, n
      <3>2. CASE sm = "clock"
        BY <1>1, <1>3, <3>2 DEF Oldest
      <3> QED
        BY <3>1, <3>2
    <2>4. Oldest(list, n + 1) = p /\ n + 1 \in 1 .. n + 1
      <3>1. (n + 1) - (n + 1) + 1 = 1 /\ n + 1 \in 1 .. n + 1
        BY <1>1
      <3> QED
        BY <1>3, <3>1 DEF Oldest
    <2>5. \A i \in 1 .. n : b[i] = a[i]
      <3>1. \A i \in 1 .. n : Oldest(s.pra, i) # p
        BY <2>1, <1>7 DEF InList, n
      <3> QED
        BY <1>5, <2>1, <2>2, <2>3, <3>1
    <2>6. b[n + 1] = v
      BY <1>1, <1>5, <2>2, <2>4
    <2>7. /\ Append(a, v) \in Seq(Vma) /\ Len(Append(a, v)) = n + 1
          /\ \A i \in 1 .. n + 1 : Append(a, v)[i] = IF i = n + 1 THEN v ELSE a[i]
      BY <1>1, <2>1
    <2>8. \A i \in 1 .. n + 1 : b[i] = Append(a, v)[i]
      <3>1. \A i \in 1 .. n + 1 : i = n + 1 \/ i \in 1 .. n
        BY <1>1
      <3> QED
        BY <2>5, <2>6, <2>7, <3>1
    <2>9. b = Append(a, v)
      BY <2>2, <2>7, <2>8, SeqEqual
    <2> QED
      BY <2>9 DEF a, b
  <1>15. MemoryOf(w) = Having(MemoryOf(s), v, x)
    <2> DEFINE in == {u \in Vma : s.pte[u] # Paging!None}
               m(u) == IF s.pte[u][1] = "page" THEN s.content[s.pte[u][2]]
                       ELSE s.ide[s.pte[u][2]]
    <2>1. MemoryOf(s) = [u \in in |-> m(u)] /\ DOMAIN MemoryOf(s) = in
      BY DEF MemoryOf
    <2>2. {u \in Vma : table[u] # Paging!None} = in \cup {v}
      BY <1>5, Kinds
    <2>3. ASSUME NEW u \in in \cup {v}
          PROVE  (IF table[u][1] = "page" THEN filled[table[u][2]] ELSE s.ide[table[u][2]]) =
                 (IF u = v THEN x ELSE MemoryOf(s)[u])
      <3>1. CASE u = v
        BY <1>1, <1>5, <3>1, Kinds
      <3>2. CASE u # v
        <4>1. u \in in /\ table[u] = s.pte[u] /\ MemoryOf(s)[u] = m(u)
          BY <1>5, <2>1, <3>2
        <4>2. CASE s.pte[u][1] = "page"
          <5>1. PICK q \in Frames : InList(s.pra, q) /\ s.pte[u] = Paging!Mapped(q)
            BY <4>1, <4>2, Kinds DEF Consistent, TableExact
          <5>2. q # p /\ s.pte[u][2] = q
            BY <1>7, <5>1, Kinds DEF InList, n
          <5> QED
            BY <1>5, <3>2, <4>1, <4>2, <5>2
        <4>3. CASE s.pte[u][1] # "page"
          BY <3>2, <4>1, <4>3
        <4> QED
          BY <4>2, <4>3
      <3> QED
        BY <3>1, <3>2
    <2>4. MemoryOf(w) = [u \in in \cup {v} |->
                            IF table[u][1] = "page" THEN filled[table[u][2]]
                            ELSE s.ide[table[u][2]]]
      BY <1>6, <2>2 DEF MemoryOf
    <2> HIDE DEF in
    <2> QED
      BY <2>1, <2>3, <2>4 DEF Having
  <1> QED
    BY <1>13, <1>14, <1>15

\* The victim of a page fault is forgotten when it is over.
Settled(w) == [w EXCEPT !.victim = Paging!ListHead]

\* That is nothing the invariant or the properties look at.
LEMMA SettledKeeps ==
    ASSUME NEW w, Consistent(w)
    PROVE  /\ Consistent(Settled(w))
           /\ MemoryOf(Settled(w)) = MemoryOf(w) /\ AgeOf(Settled(w)) = AgeOf(w)
  <1> DEFINE z == Settled(w)
  <1>1. w \in PagingState
    BY DEF Consistent
  <1>2. /\ z \in PagingState
        /\ z.pra = w.pra /\ z.visited = w.visited /\ z.pte = w.pte /\ z.pra_vaddr = w.pra_vaddr
        /\ z.content = w.content /\ z.free = w.free /\ z.ide = w.ide /\ z.curr_ptr = w.curr_ptr
    BY <1>1 DEF PagingState, Settled
  <1> HIDE DEF z
  <1>3. HandExact(z) /\ ListExact(z) /\ TableExact(z)
    BY <1>2 DEF Consistent, HandExact, ListExact, TableExact
  <1>4. MemoryOf(z) = MemoryOf(w) /\ AgeOf(z) = AgeOf(w)
    BY <1>2 DEF MemoryOf, AgeOf
  <1> QED
    BY <1>2, <1>3, <1>4 DEF Consistent, z

\* The youngest page of a list whose oldest is the last.
LEMMA Reversed ==
    ASSUME NEW q
    PROVE  \A i \in 1 .. Len(q) : Paging!Reverse(q)[i] = q[Len(q) - i + 1]
  BY DEF Paging!Reverse

\* The properties' view of the variables is that of the state a fault works on.
LEMMA Views ==
    ASSUME sm \in {"fifo", "clock"}, Consistent(Paging!state)
    PROVE  Paging!Memory = MemoryOf(Paging!state) /\ Paging!ByAge = AgeOf(Paging!state)
  <1>1. Paging!Memory = MemoryOf(Paging!state)
    BY DEF Paging!Memory, Paging!state, MemoryOf, Vma
  <1>2. Paging!ByAge = AgeOf(Paging!state)
    <2>1. pra = Paging!state.pra /\ pra_vaddr = Paging!state.pra_vaddr
      BY DEF Paging!state
    <2>2. Len(pra) \in Nat
      BY <2>1 DEF Consistent, PagingState
    <2>3. CASE sm = "fifo"
      <3>1. \A i \in 1 .. Len(pra) : Paging!Reverse(pra)[i] = pra[Len(pra) - i + 1]
        BY Reversed
      <3> QED
        BY <2>1, <2>3, <3>1 DEF Paging!ByAge, AgeOf, Oldest
    <2>4. CASE sm = "clock"
      BY <2>1, <2>4 DEF Paging!ByAge, AgeOf, Oldest
    <2> QED
      BY <2>3, <2>4
  <1> QED
    BY <1>1, <1>2

\* A fault as a whole: the address comes last, the oldest has gone if memory was full.
LEMMA Fault ==
    ASSUME NEW s, Consistent(s), sm \in {"fifo", "clock"},
           NEW v \in Vma, s.pte[v][1] # "page", NEW f, f = Paging!WithFreePage(s),
           NEW p \in f.free, NEW x \in Values,
           NEW w, w = Paging!Arrived(Filled(f, p, x), p, v)
    PROVE  /\ Consistent(w)
           /\ AgeOf(w) =
                 Append(IF Len(AgeOf(s)) = PPAGES THEN Tail(AgeOf(s)) ELSE AgeOf(s), v)
           /\ MemoryOf(w) = Having(MemoryOf(s), v, x)
  <1>1. /\ Consistent(f) /\ MemoryOf(f) = MemoryOf(s)
        /\ AgeOf(f) = IF Len(AgeOf(s)) = PPAGES THEN Tail(AgeOf(s)) ELSE AgeOf(s)
        /\ f.pte[v] = s.pte[v]
    BY FreePage
  <1>2. /\ Consistent(w)
        /\ AgeOf(w) = Append(AgeOf(f), v)
        /\ MemoryOf(w) = Having(MemoryOf(f), v, x)
    <2>1. Consistent(f) /\ f.pte[v][1] # "page"
      BY <1>1
    <2> QED
      BY <2>1, Arrives
  <1> QED
    BY <1>1, <1>2

-----------------------------------------------------------------------------
\* At first nothing is in the list and every page is free.
LEMMA PagingInit == Paging!Init => PagingInv /\ Paging!M!Init
  <1> SUFFICES ASSUME Paging!Init PROVE PagingInv /\ Paging!M!Init
    OBVIOUS
  <1> DEFINE s == Paging!state
  <1>1. /\ s.pte = [v \in Vma |-> Paging!None] /\ s.pra = <<>>
        /\ s.curr_ptr = Paging!ListHead /\ s.visited = [p \in Frames |-> FALSE]
        /\ s.pra_vaddr = [p \in Frames |-> VFIRST] /\ s.free = Frames
        /\ s.victim = Paging!ListHead
    BY DEF Paging!Init, Paging!state, Vma, Frames
  <1>2. s.content \in [Frames -> Values] /\ s.ide \in [Slots -> Values]
    BY DEF Paging!Init, Paging!state, Slots, Frames
  <1>3. s \in PagingState
    <2>1. Paging!None \in Entries
      BY DEF Entries
    <2>2. /\ s.pte \in [Vma -> Entries] /\ s.pra \in Seq(Frames)
          /\ s.visited \in [Frames -> BOOLEAN] /\ s.pra_vaddr \in [Frames -> Vma]
      BY <1>1, <2>1, PagingConstants
    <2> QED
      BY <1>1, <1>2, <2>2 DEF Paging!state, PagingState
  <1> HIDE DEF s
  <1>4. HandExact(s) /\ ListExact(s) /\ TableExact(s)
    <2>1. \A i \in 1 .. Len(s.pra) : FALSE
      BY <1>1
    <2>2. \A p : ~InList(s.pra, p)
      BY <2>1 DEF InList
    <2> QED
      BY <1>1, <2>1, <2>2 DEF HandExact, ListExact, TableExact
  <1>5. sm \in {"fifo", "clock"}
    BY DEF Paging!Init
  <1>6. Consistent(s)
    BY <1>3, <1>4 DEF Consistent
  <1>7. Paging!Memory = MemoryOf(s) /\ Paging!ByAge = AgeOf(s)
    BY <1>5, <1>6, Views DEF s
  <1>8. MemoryOf(s) = <<>>
    <2>1. {u \in Vma : s.pte[u] # Paging!None} = {}
      BY <1>1
    <2> QED
      BY <2>1 DEF MemoryOf
  <1>9. AgeOf(s) = <<>>
    BY <1>1, <1>5, <1>6, Ages
  <1> QED
    BY <1>5, <1>6, <1>7, <1>8, <1>9 DEF PagingInv, Paging!M!Init, s

\* What a fault leaves is what the primed variables have.
LEMMA Became ==
    ASSUME NEW w, Consistent(w), sm \in {"fifo", "clock"}, Paging!Becomes(w)
    PROVE  /\ PagingInv'
           /\ Paging!Memory' = MemoryOf(w) /\ Paging!ByAge' = AgeOf(w)
  <1> DEFINE z == Settled(w)
  <1>1. w \in PagingState /\ sm' = sm
    BY DEF Consistent, Paging!Becomes
  <1>2. Paging!state' = z
    <2>1. z = [pte |-> w.pte, pra |-> w.pra, curr_ptr |-> w.curr_ptr, visited |-> w.visited,
               pra_vaddr |-> w.pra_vaddr, content |-> w.content, ide |-> w.ide,
               free |-> w.free, victim |-> Paging!ListHead]
      BY <1>1 DEF Settled, PagingState
    <2> QED
      BY <2>1 DEF Paging!state, Paging!Becomes
  <1>3. Consistent(z) /\ MemoryOf(z) = MemoryOf(w) /\ AgeOf(z) = AgeOf(w)
    BY SettledKeeps
  <1> HIDE DEF z
  <1>4. Consistent(Paging!state)'
    BY <1>1, <1>2, <1>3 DEF Consistent, HandExact, ListExact, TableExact
  <1>5. (sm \in {"fifo", "clock"})'
    BY <1>1
  <1>6. Paging!Memory' = MemoryOf(Paging!state)' /\ Paging!ByAge' = AgeOf(Paging!state)'
    <2>1. Paging!Memory' = MemoryOf(Paging!state)'
      BY DEF Paging!Memory, Paging!state, MemoryOf, Vma
    <2>2. pra' = Paging!state'.pra /\ pra_vaddr' = Paging!state'.pra_vaddr
      BY DEF Paging!state
    <2>3. CASE sm' = "fifo"
      <3>1. \A i \in 1 .. Len(pra') : Paging!Reverse(pra')[i] = pra'[Len(pra') - i + 1]
        BY Reversed
      <3> QED
        BY <2>1, <2>2, <2>3, <3>1 DEF Paging!ByAge, AgeOf, Oldest
    <2>4. CASE sm' = "clock"
      BY <2>1, <2>2, <2>4 DEF Paging!ByAge, AgeOf, Oldest
    <2> QED
      BY <1>5, <2>3, <2>4
  <1>7. MemoryOf(Paging!state)' = MemoryOf(z) /\ AgeOf(Paging!state)' = AgeOf(z)
    BY <1>1, <1>2 DEF MemoryOf, AgeOf, Oldest
  <1> QED
    BY <1>3, <1>4, <1>5, <1>6, <1>7 DEF PagingInv

\* The memory of the program has the addresses that have been touched; a value that
\* is on the disk is where the entry says.
LEMMA OnDisk ==
    ASSUME NEW s, Consistent(s), NEW v \in Vma
    PROVE  /\ DOMAIN MemoryOf(s) = {u \in Vma : s.pte[u] # Paging!None}
           /\ s.pte[v] # Paging!None => MemoryOf(s)[v] \in Values
           /\ s.pte[v][1] = "swap" =>
                  /\ s.pte[v] # Paging!None /\ s.pte[v][1] # "page"
                  /\ MemoryOf(s)[v] = s.ide[s.pte[v][2]]
  <1>1. s \in PagingState
    BY DEF Consistent
  <1>2. DOMAIN MemoryOf(s) = {u \in Vma : s.pte[u] # Paging!None}
        /\ \A u \in Vma : s.pte[u] # Paging!None =>
              MemoryOf(s)[u] = IF s.pte[u][1] = "page" THEN s.content[s.pte[u][2]]
                               ELSE s.ide[s.pte[u][2]]
    BY DEF MemoryOf
  <1>3. \/ s.pte[v] = Paging!None
        \/ s.pte[v] = Paging!Entry(v + 1)
        \/ \E p \in Frames : s.pte[v] = Paging!Mapped(p)
    BY DEF Consistent, TableExact
  <1>4. s.pte[v] # Paging!None => MemoryOf(s)[v] \in Values
    <2>1. CASE s.pte[v] = Paging!Entry(v + 1)
      <3>1. v + 1 \in Slots /\ s.pte[v][1] # "page" /\ s.pte[v][2] = v + 1
        BY <2>1, Kinds, PagingConstants
      <3> QED
        BY <1>1, <1>2, <3>1 DEF PagingState
    <2>2. ASSUME NEW p \in Frames, s.pte[v] = Paging!Mapped(p)
          PROVE  s.pte[v] # Paging!None => MemoryOf(s)[v] \in Values
      <3>1. s.pte[v][1] = "page" /\ s.pte[v][2] = p
        BY <2>2, Kinds
      <3> QED
        BY <1>1, <1>2, <3>1 DEF PagingState
    <2> QED
      BY <1>3, <2>1, <2>2
  <1>5. s.pte[v][1] = "swap" => s.pte[v] # Paging!None
    BY Kinds
  <1> QED
    BY <1>2, <1>4, <1>5

\* A first access touches an address.
LEMMA FirstFaultStep ==
    ASSUME PagingInv, NEW v \in Vma, Paging!FirstFault(v)
    PROVE  PagingInv' /\ Paging!M!Touch(v)
  <1> DEFINE s == Paging!state
             f == Paging!WithFreePage(s)
  <1>1. sm \in {"fifo", "clock"} /\ Consistent(s)
        /\ Paging!Memory = MemoryOf(s) /\ Paging!ByAge = AgeOf(s)
    BY Views DEF PagingInv
  <1>2. s.pte[v] = Paging!None /\ s.pte[v][1] # "page"
    BY Kinds DEF Paging!FirstFault, Paging!state
  <1>3. PICK p \in f.free, x \in Values : Paging!Becomes(Paging!Arrived(Filled(f, p, x), p, v))
    BY DEF Paging!FirstFault, Filled
  <1> DEFINE w == Paging!Arrived(Filled(f, p, x), p, v)
  <1> HIDE DEF s
  <1>4. /\ Consistent(w)
        /\ AgeOf(w) = Append(IF Len(AgeOf(s)) = PPAGES THEN Tail(AgeOf(s)) ELSE AgeOf(s), v)
        /\ MemoryOf(w) = Having(MemoryOf(s), v, x)
    BY <1>1, <1>2, Fault
  <1> HIDE DEF w, f
  <1>5. PagingInv' /\ Paging!Memory' = MemoryOf(w) /\ Paging!ByAge' = AgeOf(w)
    BY <1>1, <1>3, <1>4, Became DEF w
  <1>6. v \notin DOMAIN Paging!Memory
    BY <1>1, <1>2, OnDisk
  <1>7. Paging!M!Arrive(v)
    BY <1>1, <1>4, <1>5 DEF Paging!M!Arrive
  <1>8. Paging!Memory' = [b \in DOMAIN Paging!Memory \cup {v} |->
                             IF b = v THEN x ELSE Paging!Memory[b]]
    BY <1>1, <1>4, <1>5 DEF Having
  <1> QED
    BY <1>5, <1>6, <1>7, <1>8 DEF Paging!M!Touch

\* A page that comes back from the disk has what it left with.
LEMMA SwapInFaultStep ==
    ASSUME PagingInv, NEW v \in Vma, Paging!SwapInFault(v)
    PROVE  PagingInv' /\ Paging!M!Fetch(v)
  <1> DEFINE s == Paging!state
             f == Paging!WithFreePage(s)
             x == f.ide[f.pte[v][2]]
  <1>1. sm \in {"fifo", "clock"} /\ Consistent(s)
        /\ Paging!Memory = MemoryOf(s) /\ Paging!ByAge = AgeOf(s)
    BY Views DEF PagingInv
  <1>2. s.pte[v][1] = "swap"
    BY DEF Paging!SwapInFault, Paging!state
  <1>3. PICK p \in f.free : Paging!Becomes(Paging!Arrived(Filled(f, p, x), p, v))
    BY DEF Paging!SwapInFault, Filled
  <1> DEFINE w == Paging!Arrived(Filled(f, p, x), p, v)
  <1> HIDE DEF s
  <1>4. Consistent(f) /\ MemoryOf(f) = MemoryOf(s) /\ f.pte[v] = s.pte[v]
    BY <1>1, <1>2, FreePage
  <1> HIDE DEF f
  <1>5. x = MemoryOf(s)[v] /\ x \in Values /\ v \in DOMAIN MemoryOf(s)
    BY <1>2, <1>4, OnDisk
  <1> HIDE DEF x
  <1>6. /\ Consistent(w)
        /\ AgeOf(w) = Append(IF Len(AgeOf(s)) = PPAGES THEN Tail(AgeOf(s)) ELSE AgeOf(s), v)
        /\ MemoryOf(w) = Having(MemoryOf(s), v, x)
    BY <1>1, <1>2, <1>5, Fault DEF f
  <1> HIDE DEF w
  <1>7. PagingInv' /\ Paging!Memory' = MemoryOf(w) /\ Paging!ByAge' = AgeOf(w)
    BY <1>1, <1>3, <1>6, Became DEF w
  <1>8. MemoryOf(w) = MemoryOf(s)
    <2>1. DOMAIN MemoryOf(s) \cup {v} = DOMAIN MemoryOf(s)
      BY <1>5
    <2>2. MemoryOf(s) = [b \in DOMAIN MemoryOf(s) |-> MemoryOf(s)[b]]
      BY DEF MemoryOf
    <2> QED
      BY <1>5, <1>6, <2>1, <2>2 DEF Having
  <1>9. ~Paging!M!Resident(v)
    BY <1>1, <1>2, Ages DEF Paging!M!Resident
  <1>10. Paging!M!Arrive(v)
    BY <1>1, <1>6, <1>7 DEF Paging!M!Arrive
  <1> QED
    BY <1>1, <1>5, <1>7, <1>8, <1>9, <1>10 DEF Paging!M!Fetch

\* A store that finds its page changes one address, since no other leads to the page.
LEMMA StoreStep ==
    ASSUME PagingInv, NEW v \in Vma, NEW x \in Values, Paging!Store(v, x)
    PROVE  PagingInv' /\ Paging!M!Store(v, x)
  <1> DEFINE s == Paging!state
             q == s.pte[v][2]
             filled == [s.content EXCEPT ![q] = x]
             w == [s EXCEPT !.content = filled]
  <1>1. sm \in {"fifo", "clock"} /\ Consistent(s) /\ s \in PagingState
        /\ Paging!Memory = MemoryOf(s) /\ Paging!ByAge = AgeOf(s)
    BY Views DEF PagingInv, Consistent
  <1>2. s.pte[v][1] = "page" /\ Paging!Becomes(w)
    <2>1. /\ w.pte = pte /\ w.pra = pra /\ w.curr_ptr = curr_ptr /\ w.visited = visited
          /\ w.pra_vaddr = pra_vaddr /\ w.content = [content EXCEPT ![pte[v][2]] = x]
          /\ w.ide = ide /\ w.free = free
      BY DEF Paging!state
    <2> HIDE DEF w
    <2> QED
      BY <2>1 DEF Paging!Store, Paging!state, Paging!Becomes
  <1>3. s.victim = Paging!ListHead
    BY DEF Paging!state
  <1> HIDE DEF s
  <1>4. PICK p \in Frames : InList(s.pra, p) /\ s.pra_vaddr[p] = v /\ s.pte[v] = Paging!Mapped(p)
    BY <1>1, <1>2, Kinds DEF Consistent, TableExact
  <1>5. q = p /\ q \in Frames
    BY <1>4, Kinds
  <1>6. /\ filled \in [Frames -> Values]
        /\ \A r \in Frames : filled[r] = IF r = p THEN x ELSE s.content[r]
    BY <1>1, <1>5 DEF PagingState
  <1> HIDE DEF filled, q
  <1>7. /\ w \in PagingState
        /\ w.pra = s.pra /\ w.visited = s.visited /\ w.pte = s.pte /\ w.pra_vaddr = s.pra_vaddr
        /\ w.content = filled /\ w.free = s.free /\ w.ide = s.ide /\ w.curr_ptr = s.curr_ptr
    BY <1>1, <1>6 DEF PagingState
  <1> HIDE DEF w
  <1>8. HandExact(w) /\ ListExact(w) /\ TableExact(w)
    BY <1>1, <1>7 DEF Consistent, HandExact, ListExact, TableExact
  <1>9. Consistent(w)
    BY <1>7, <1>8 DEF Consistent
  <1>10. PagingInv' /\ Paging!Memory' = MemoryOf(w) /\ Paging!ByAge' = AgeOf(w)
    BY <1>1, <1>2, <1>9, Became
  <1>11. AgeOf(w) = AgeOf(s)
    BY <1>7 DEF AgeOf
  <1>12. MemoryOf(w) = [MemoryOf(s) EXCEPT ![v] = x]
    <2> DEFINE in == {u \in Vma : s.pte[u] # Paging!None}
               m(u) == IF s.pte[u][1] = "page" THEN s.content[s.pte[u][2]]
                       ELSE s.ide[s.pte[u][2]]
    <2>1. MemoryOf(s) = [u \in in |-> m(u)]
      BY DEF MemoryOf
    <2>2. MemoryOf(w) = [u \in in |-> IF s.pte[u][1] = "page" THEN filled[s.pte[u][2]]
                                      ELSE s.ide[s.pte[u][2]]]
      BY <1>7 DEF MemoryOf
    <2>3. ASSUME NEW u \in in
          PROVE  (IF s.pte[u][1] = "page" THEN filled[s.pte[u][2]] ELSE s.ide[s.pte[u][2]]) =
                 (IF u = v THEN x ELSE m(u))
      <3>1. CASE u = v
        BY <1>4, <1>6, <3>1, Kinds
      <3>2. CASE u # v
        <4>1. CASE s.pte[u][1] = "page"
          <5>1. PICK r \in Frames : s.pra_vaddr[r] = u /\ s.pte[u] = Paging!Mapped(r)
            BY <1>1, <4>1, Kinds DEF Consistent, TableExact
          <5>2. r # p /\ s.pte[u][2] = r
            BY <1>4, <3>2, <5>1, Kinds
          <5> QED
            BY <1>6, <3>2, <4>1, <5>2
        <4>2. CASE s.pte[u][1] # "page"
          BY <3>2, <4>2
        <4> QED
          BY <4>1, <4>2
      <3> QED
        BY <3>1, <3>2
    <2> HIDE DEF in, m
    <2>4. MemoryOf(w) = [u \in in |-> IF u = v THEN x ELSE m(u)]
      BY <2>2, <2>3 DEF m
    <2> QED
      BY <2>1, <2>4
  <1>13. Paging!M!Resident(v)
    BY <1>1, <1>2, Ages DEF Paging!M!Resident
  <1> QED
    BY <1>1, <1>10, <1>11, <1>12, <1>13 DEF Paging!M!Store

\* Every step keeps the invariant, and is one of PagedMemory or changes nothing there.
LEMMA PagingNext ==
    PagingInv /\ [Paging!Next]_swapVars =>
        PagingInv' /\ [Paging!M!Next]_<<Paging!Memory, Paging!ByAge>>
  <1> SUFFICES ASSUME PagingInv, [Paging!Next]_swapVars
               PROVE  PagingInv' /\ [Paging!M!Next]_<<Paging!Memory, Paging!ByAge>>
    OBVIOUS
  <1>1. ASSUME NEW v \in Vma, Paging!FirstFault(v) PROVE PagingInv' /\ Paging!M!Touch(v)
    BY <1>1, FirstFaultStep
  <1>2. ASSUME NEW v \in Vma, Paging!SwapInFault(v) PROVE PagingInv' /\ Paging!M!Fetch(v)
    BY <1>2, SwapInFaultStep
  <1>3. ASSUME NEW v \in Vma, NEW x \in Values, Paging!Store(v, x)
        PROVE  PagingInv' /\ Paging!M!Store(v, x)
    BY <1>3, StoreStep
  <1>4. CASE UNCHANGED swapVars
    <2>1. Paging!state' = Paging!state /\ sm' = sm
      BY <1>4 DEF swapVars, Paging!state
    <2>2. PagingInv'
      BY <2>1 DEF PagingInv, Consistent, HandExact, ListExact, TableExact
    <2>3. UNCHANGED <<Paging!Memory, Paging!ByAge>>
      BY <1>4 DEF swapVars, Paging!Memory, Paging!ByAge
    <2> QED
      BY <2>2, <2>3
  <1> QED
    BY <1>1, <1>2, <1>3, <1>4 DEF Paging!Next, Paging!M!Next, Vma

\* The variables have their types, and who has a page is in the manager's list.
LEMMA PagingInvSuffices ==
    PagingInv => Paging!TypeOK
                 /\ \A v \in Paging!Vma : pte[v][1] = "page" <=> v \in Paging!ToSet(Paging!ByAge)
  <1> SUFFICES ASSUME PagingInv
               PROVE  Paging!TypeOK
                      /\ \A v \in Paging!Vma :
                            pte[v][1] = "page" <=> v \in Paging!ToSet(Paging!ByAge)
    OBVIOUS
  <1> DEFINE s == Paging!state
  <1>1. sm \in {"fifo", "clock"} /\ Consistent(s) /\ s \in PagingState /\ Paging!ByAge = AgeOf(s)
    BY Views DEF PagingInv, Consistent
  <1>2. /\ s.pra = pra /\ s.visited = visited /\ s.pte = pte /\ s.pra_vaddr = pra_vaddr
        /\ s.content = content /\ s.free = free /\ s.ide = ide /\ s.curr_ptr = curr_ptr
    BY DEF Paging!state
  <1> HIDE DEF s
  <1>3. /\ pte \in [Vma -> Entries] /\ pra \in Seq(Frames) /\ visited \in [Frames -> BOOLEAN]
        /\ pra_vaddr \in [Frames -> Vma] /\ content \in [Frames -> Values]
        /\ ide \in [Slots -> Values] /\ free \in SUBSET Frames
    BY <1>1, <1>2 DEF PagingState
  <1>4. Paging!IsInjective(pra)
    BY <1>1, <1>2, <1>3 DEF Consistent, ListExact, Paging!IsInjective
  <1>5. curr_ptr \in {Paging!ListHead} \cup Paging!ToSet(pra)
    <2>1. curr_ptr # Paging!ListHead => pra # <<>> /\ curr_ptr = pra[1]
      BY <1>1, <1>2 DEF Consistent, HandExact
    <2>2. pra # <<>> => 1 \in DOMAIN pra
      BY <1>3
    <2> QED
      BY <2>1, <2>2 DEF Paging!ToSet
  <1>6. Paging!TypeOK
    BY <1>1, <1>3, <1>4, <1>5 DEF Paging!TypeOK, Vma, Entries, Slots, Frames
  <1>7. ASSUME NEW v \in Vma
        PROVE  pte[v][1] = "page" <=> v \in Paging!ToSet(Paging!ByAge)
    <2>1. /\ AgeOf(s) \in Seq(Vma)
          /\ pte[v][1] = "page" <=> \E i \in 1 .. Len(AgeOf(s)) : AgeOf(s)[i] = v
      BY <1>1, <1>2, Ages
    <2>2. DOMAIN AgeOf(s) = 1 .. Len(AgeOf(s))
      BY <2>1
    <2> QED
      BY <1>1, <2>1, <2>2 DEF Paging!ToSet
  <1> QED
    BY <1>6, <1>7 DEF Vma

\* FifoPaging, for any number of pages and addresses, under either manager: the page
\* table, the list and the disk agree, and the program's memory is as PagedMemory has it.
THEOREM PagingIsFifo == Paging!Spec => FifoPaging
  <1>1. Paging!Init => PagingInv /\ Paging!M!Init
    BY PagingInit
  <1>2. PagingInv /\ [Paging!Next]_Paging!vars =>
            PagingInv' /\ [Paging!M!Next]_<<Paging!Memory, Paging!ByAge>>
    BY PagingNext DEF Paging!vars, swapVars
  <1>3. Paging!Spec => []PagingInv
    BY <1>1, <1>2, PTL DEF Paging!Spec
  <1>4. Paging!Spec => Paging!M!Spec
    BY <1>1, <1>2, <1>3, PTL DEF Paging!Spec, Paging!M!Spec
  <1> QED
    BY <1>3, <1>4, PagingInvSuffices, PTL DEF FifoPaging, Paging!FifoPaging

-----------------------------------------------------------------------------
(* The free list has the maximal runs of free pages, in the order of their *)
(* addresses, as long as the requests leave the highest page free          *)
(* (PageAlloc).                                                            *)

\* Where a node lies: free_list is below every page as the start of the list, and
\* above as its end.
Low(x) == IF x = free_list THEN -1 ELSE x
High(x) == IF x = free_list THEN N ELSE x

\* The list l links the pages in S, in the order of their addresses and back.
Sorted(l, S) ==
    /\ l.next \in [FreeList!Nodes -> FreeList!Nodes]
    /\ l.prev \in [FreeList!Nodes -> FreeList!Nodes]
    /\ S \subseteq FreeList!Pages
    /\ \A x \in S \cup {free_list} :
           /\ l.next[x] \in S \cup {free_list} /\ l.prev[l.next[x]] = x
           /\ l.prev[x] \in S \cup {free_list} /\ l.next[l.prev[x]] = x
           /\ Low(x) < High(l.next[x])
           /\ \A h \in S : h <= Low(x) \/ h >= High(l.next[x])

\* The blocks with these heads and sizes are the pages in F, each once.
Tiled(heads, size, F) ==
    /\ heads \subseteq F
    /\ size \in [FreeList!Pages -> 0 .. N]
    /\ \A h \in heads :
           /\ size[h] > 0
           /\ h .. h + size[h] - 1 \subseteq F
           /\ \A g \in heads : g <= h \/ g >= h + size[h]
    /\ \A x \in F : \E h \in heads : h <= x /\ x < h + size[h]

\* The blocks in S end where no other block begins.
Apart(S, heads, size) == \A h \in S : h + size[h] \notin heads

\* The pages nobody holds.
Unused == FreeList!Pages \ used

\* Pages are numbers, free_list is none, and both lie somewhere.
LEMMA PageConstants ==
    /\ N \in Nat \ {0} /\ free_list \notin Int /\ NULL \notin Int
    /\ FreeList!Pages = 0 .. N - 1 /\ FreeList!Pages \subseteq Int
    /\ FreeList!Nodes = FreeList!Pages \cup {free_list}
    /\ \A p \in FreeList!Pages : p \in Int /\ p # free_list /\ Low(p) = p /\ High(p) = p
    /\ Low(free_list) = -1 /\ High(free_list) = N
    /\ \A x \in FreeList!Nodes : Low(x) \in Int /\ High(x) \in Int
  <1>1. /\ N \in Nat \ {0} /\ free_list \notin Int /\ NULL \notin Int
        /\ FreeList!Pages = 0 .. N - 1 /\ FreeList!Nodes = FreeList!Pages \cup {free_list}
    BY FreeListAssumption DEF FreeList!PageAssumption, FreeList!Pages, FreeList!Nodes
  <1>2. FreeList!Pages \subseteq Int
    BY <1>1
  <1>3. \A p \in FreeList!Pages : p \in Int /\ p # free_list /\ Low(p) = p /\ High(p) = p
    BY <1>1, <1>2 DEF Low, High
  <1>4. Low(free_list) = -1 /\ High(free_list) = N
    BY DEF Low, High
  <1> QED
    BY <1>1, <1>2, <1>3, <1>4

\* list_del of a page that is in the list.
LEMMA ListDelSorted ==
    ASSUME NEW l, NEW S, Sorted(l, S), NEW h \in S
    PROVE  Sorted(FreeList!ListDel(l, h), S \ {h})
  <1> DEFINE a == l.prev[h]
             c == l.next[h]
             m == FreeList!ListDel(l, h)
             L == S \cup {free_list}
  <1>1. /\ N \in Nat /\ free_list \notin Int /\ S \subseteq 0 .. N - 1
        /\ FreeList!Nodes = FreeList!Pages \cup {free_list} /\ FreeList!Pages = 0 .. N - 1
    BY FreeListAssumption DEF Sorted, FreeList!PageAssumption, FreeList!Pages, FreeList!Nodes
  <1>2. /\ m.next = [l.next EXCEPT ![a] = c]
        /\ m.prev = [l.prev EXCEPT ![c] = a]
    BY DEF FreeList!ListDel
  <1>3. /\ l.next \in [FreeList!Nodes -> FreeList!Nodes]
        /\ l.prev \in [FreeList!Nodes -> FreeList!Nodes]
        /\ \A x \in L :
           /\ l.next[x] \in L /\ l.prev[l.next[x]] = x
           /\ l.prev[x] \in L /\ l.next[l.prev[x]] = x
           /\ Low(x) < High(l.next[x])
           /\ \A g \in S : g <= Low(x) \/ g >= High(l.next[x])
    BY DEF Sorted
  <1>4. /\ L \subseteq FreeList!Nodes /\ h \in L /\ h \in Int /\ h # free_list
        /\ Low(h) = h /\ High(h) = h
    BY <1>1, PageConstants
  <1>5. \A x \in L : Low(x) \in Int /\ High(x) \in Int
    BY <1>1 DEF Low, High
  <1>6. a \in L /\ c \in L /\ a # h /\ c # h /\ l.next[a] = h /\ l.prev[c] = h
    BY <1>3, <1>4, <1>5
  <1>7. /\ m.next \in [FreeList!Nodes -> FreeList!Nodes]
        /\ m.prev \in [FreeList!Nodes -> FreeList!Nodes]
    BY <1>2, <1>3, <1>4, <1>6
  <1>8. \A x \in L : /\ m.next[x] = IF x = a THEN c ELSE l.next[x]
                     /\ m.prev[x] = IF x = c THEN a ELSE l.prev[x]
    BY <1>2, <1>3, <1>4
  <1> HIDE DEF a, c, m, L
  <1>9. ASSUME NEW x \in L \ {h}
        PROVE  /\ m.next[x] \in L \ {h} /\ m.prev[m.next[x]] = x
               /\ m.prev[x] \in L \ {h} /\ m.next[m.prev[x]] = x
    <2>1. x # a => l.next[x] # h /\ l.next[x] # c
      BY <1>3, <1>6, <1>9 DEF a
    <2>2. x # c => l.prev[x] # h /\ l.prev[x] # a
      BY <1>3, <1>6, <1>9 DEF c
    <2> QED
      BY <1>3, <1>6, <1>8, <1>9, <2>1, <2>2
  <1>10. ASSUME NEW x \in L \ {h}
         PROVE  /\ Low(x) < High(m.next[x])
                /\ \A g \in S \ {h} : g <= Low(x) \/ g >= High(m.next[x])
    <2>1. CASE x = a
      <3>1. /\ Low(a) < h /\ h < High(c)
            /\ \A g \in S : g <= Low(a) \/ g >= h
            /\ \A g \in S : g <= h \/ g >= High(c)
        BY <1>3, <1>4, <1>6 DEF c
      <3>2. m.next[x] = c
        BY <1>8, <2>1
      <3> QED
        BY <1>1, <1>5, <1>6, <2>1, <3>1, <3>2, <1>4
    <2>2. CASE x # a
      BY <1>3, <1>8, <2>2
    <2> QED
      BY <2>1, <2>2
  <1>11. (S \ {h}) \cup {free_list} = L \ {h} /\ S \ {h} \subseteq FreeList!Pages
    BY <1>1, <1>4 DEF L
  <1> QED
    BY <1>7, <1>9, <1>10, <1>11 DEF Sorted, m

\* __list_add of a page at its place in the list.
LEMMA ListAddSorted ==
    ASSUME NEW l, NEW S, Sorted(l, S), NEW e \in FreeList!Pages \ S,
           NEW x \in S \cup {free_list}, Low(x) < e, e < High(l.next[x])
    PROVE  Sorted(FreeList!ListAdd(l, e, x, l.next[x]), S \cup {e})
  <1> DEFINE y == l.next[x]
             m == FreeList!ListAdd(l, e, x, y)
             L == S \cup {free_list}
  <1>1. /\ N \in Nat /\ free_list \notin Int /\ S \subseteq 0 .. N - 1
        /\ FreeList!Nodes = FreeList!Pages \cup {free_list} /\ FreeList!Pages = 0 .. N - 1
    BY FreeListAssumption DEF Sorted, FreeList!PageAssumption, FreeList!Pages, FreeList!Nodes
  <1>2. /\ m.next = [l.next EXCEPT ![x] = e, ![e] = y]
        /\ m.prev = [l.prev EXCEPT ![y] = e, ![e] = x]
    BY DEF FreeList!ListAdd
  <1>3. /\ l.next \in [FreeList!Nodes -> FreeList!Nodes]
        /\ l.prev \in [FreeList!Nodes -> FreeList!Nodes]
        /\ \A z \in L :
           /\ l.next[z] \in L /\ l.prev[l.next[z]] = z
           /\ l.prev[z] \in L /\ l.next[l.prev[z]] = z
           /\ Low(z) < High(l.next[z])
           /\ \A g \in S : g <= Low(z) \/ g >= High(l.next[z])
    BY DEF Sorted
  <1>4. /\ L \subseteq FreeList!Nodes /\ e \in FreeList!Nodes /\ e \notin L /\ e \in Int
        /\ Low(e) = e /\ High(e) = e /\ x \in L /\ y \in L /\ l.prev[y] = x
        /\ Low(x) < e /\ e < High(y)
    <2>1. e \in FreeList!Pages /\ e \notin S
      OBVIOUS
    <2>2. e \in Int /\ e # free_list /\ Low(e) = e /\ High(e) = e
      BY <2>1, PageConstants
    <2> QED
      BY <1>1, <1>3, <2>1, <2>2
  <1>5. \A z \in L : Low(z) \in Int /\ High(z) \in Int
    BY <1>1 DEF Low, High
  <1>7. /\ m.next \in [FreeList!Nodes -> FreeList!Nodes]
        /\ m.prev \in [FreeList!Nodes -> FreeList!Nodes]
    BY <1>2, <1>3, <1>4
  <1>8. \A z \in L \cup {e} :
            /\ m.next[z] = IF z = e THEN y ELSE IF z = x THEN e ELSE l.next[z]
            /\ m.prev[z] = IF z = e THEN x ELSE IF z = y THEN e ELSE l.prev[z]
    BY <1>2, <1>3, <1>4
  <1> HIDE DEF y, m, L
  <1>9. ASSUME NEW z \in L \cup {e}
        PROVE  /\ m.next[z] \in L \cup {e} /\ m.prev[m.next[z]] = z
               /\ m.prev[z] \in L \cup {e} /\ m.next[m.prev[z]] = z
    <2>1. z \in L /\ z # x => l.next[z] # y
      BY <1>3, <1>4
    <2>2. z \in L /\ z # y => l.prev[z] # x
      BY <1>3, <1>4 DEF y
    <2> QED
      BY <1>3, <1>4, <1>8, <1>9, <2>1, <2>2
  <1>10. \A g \in S : g <= Low(x) \/ g >= High(y)
    BY <1>3, <1>4 DEF y
  <1>11. ASSUME NEW z \in L \cup {e}
         PROVE  /\ Low(z) < High(m.next[z])
                /\ \A g \in S \cup {e} : g <= Low(z) \/ g >= High(m.next[z])
    <2>1. CASE z = e
      <3>1. m.next[z] = y
        BY <1>8, <2>1
      <3> QED
        BY <1>1, <1>4, <1>5, <1>10, <2>1, <3>1
    <2>2. CASE z = x
      <3>1. m.next[z] = e
        BY <1>4, <1>8, <2>2
      <3> QED
        BY <1>1, <1>4, <1>5, <1>10, <2>2, <3>1
    <2>3. CASE z \in L /\ z # x
      <3>1. m.next[z] = l.next[z] /\ l.next[z] \in L
        BY <1>3, <1>4, <1>8, <2>3
      <3>2. /\ Low(z) < High(l.next[z])
            /\ \A g \in S : g <= Low(z) \/ g >= High(l.next[z])
        BY <1>3, <2>3
      <3>3. e <= Low(z) \/ e >= High(l.next[z])
        <4>1. z = free_list \/ z \in S
          BY <2>3 DEF L
        <4>2. l.next[z] = free_list \/ l.next[z] \in S
          BY <3>1 DEF L
        <4>3. x = free_list \/ x \in S
          BY <1>4 DEF L
        <4>4. z \in S => z <= Low(x) \/ z >= High(y)
          BY <1>10
        <4>5. x \in S => x <= Low(z) \/ x >= High(l.next[z])
          BY <3>2
        <4>6. CASE z \in S /\ z >= High(y)
          BY <1>1, <1>4, <1>5, <4>6 DEF Low
        <4>7. CASE (z \in S /\ z <= Low(x)) \/ z = free_list
          <5>1. x # free_list /\ x \in S /\ Low(x) = x /\ x \in Int
            BY <1>1, <1>4, <1>5, <2>3, <4>7, <4>3 DEF Low
          <5>2. z \in S => Low(z) = z /\ z < x
            BY <1>1, <2>3, <4>7, <5>1 DEF Low
          <5>3. Low(z) < x
            BY <1>1, <4>1, <5>1, <5>2 DEF Low
          <5>4. x >= High(l.next[z])
            BY <1>5, <2>3, <4>5, <5>1, <5>3
          <5>5. High(l.next[z]) \in Int /\ e \in Int /\ x < e
            BY <1>4, <1>5, <3>1, <5>1
          <5> QED
            BY <5>1, <5>4, <5>5
        <4> QED
          BY <4>1, <4>4, <4>6, <4>7
      <3> QED
        BY <3>1, <3>2, <3>3
    <2> QED
      BY <1>11, <2>1, <2>2, <2>3
  <1>12. (S \cup {e}) \cup {free_list} = L \cup {e} /\ S \cup {e} \subseteq FreeList!Pages
    BY <1>1 DEF L
  <1> QED
    BY <1>7, <1>9, <1>11, <1>12 DEF Sorted, m, y

\* The scan exists and follows the pointers.
LEMMA ScanIs ==
    ASSUME NEW l, NEW S, Sorted(l, S)
    PROVE  /\ FreeList!Scan(l) \in [0 .. N -> FreeList!Nodes]
           /\ FreeList!Scan(l)[0] = l.next[free_list]
           /\ \A k \in 1 .. N : FreeList!Scan(l)[k] = l.next[FreeList!Scan(l)[k - 1]]
  <1> DEFINE body(f) == [k \in 0 .. N |-> IF k = 0 THEN l.next[free_list] ELSE l.next[f[k - 1]]]
  <1>1. N \in Nat /\ l.next \in [FreeList!Nodes -> FreeList!Nodes] /\ free_list \in FreeList!Nodes
    BY PageConstants DEF Sorted
  <1>2. PICK f \in [0 .. N -> FreeList!Nodes] :
            f[0] = l.next[free_list] /\ \A k \in 1 .. N : f[k] = l.next[f[k - 1]]
    <2> DEFINE step == l.next
               a == step[free_list]
    <2>1. a \in FreeList!Nodes /\ step \in [FreeList!Nodes -> FreeList!Nodes]
      BY <1>1
    <2>2. N \in Nat
      BY <1>1
    <2> HIDE DEF step, a
    <2>3. \E f : Iteration(f, FreeList!Nodes, a, step, N)
      BY <2>1, <2>2, Iterates
    <2> QED
      BY <2>3 DEF Iteration, step, a
  <1>3. f = body(f)
    <2>1. \A k \in 0 .. N : f[k] = IF k = 0 THEN l.next[free_list] ELSE l.next[f[k - 1]]
      BY <1>1, <1>2
    <2> QED
      BY <1>2, <2>1
  <1>4. FreeList!Scan(l) = CHOOSE g : g = body(g)
    BY DEF FreeList!Scan
  <1>5. FreeList!Scan(l) = body(FreeList!Scan(l))
    <2> HIDE DEF body
    <2> QED
      BY <1>3, <1>4
  <1> DEFINE s == FreeList!Scan(l)
  <1>6. DOMAIN s = 0 .. N
        /\ \A k \in 0 .. N : s[k] = IF k = 0 THEN l.next[free_list] ELSE l.next[s[k - 1]]
    BY <1>5
  <1> HIDE DEF s, body
  <1>7. s[0] = l.next[free_list] /\ \A k \in 1 .. N : s[k] = l.next[s[k - 1]]
    BY <1>1, <1>6
  <1>8. \A k \in 0 .. N : s[k] \in FreeList!Nodes
    <2> DEFINE X == {k \in 0 .. N : s[k] \notin FreeList!Nodes}
    <2>1. SUFFICES ASSUME X # {} PROVE FALSE
      OBVIOUS
    <2>2. X \subseteq Nat
      OBVIOUS
    <2>3. PICK k \in X : \A y \in X : k <= y
      <3> HIDE DEF X
      <3> QED
        BY <2>1, <2>2, SmallestElement
    <2>4. k \in 0 .. N /\ s[k] \notin FreeList!Nodes
      BY <2>3
    <2>5. k # 0
      BY <1>1, <1>7, <2>4
    <2>6. k \in 1 .. N /\ k - 1 \in 0 .. N /\ ~(k <= k - 1)
      BY <1>1, <2>4, <2>5
    <2>7. s[k - 1] \in FreeList!Nodes
      BY <2>3, <2>6
    <2> QED
      BY <1>1, <1>7, <2>4, <2>6, <2>7
  <1>9. s \in [0 .. N -> FreeList!Nodes]
    <2>1. s = [k \in 0 .. N |-> s[k]]
      BY <1>5 DEF body, s
    <2> QED
      BY <1>8, <2>1
  <1> QED
    BY <1>7, <1>9 DEF s

\* From free_list and pages that have been reached, pointers reach pages of the list.
LEMMA LinkedIs ==
    ASSUME NEW l, NEW S, Sorted(l, S)
    PROVE  S \cup {free_list} \subseteq FreeList!Linked(l)
  <1> DEFINE around == [Y \in SUBSET FreeList!Nodes |->
                            UNION {{x, l.next[x], l.prev[x]} : x \in Y}]
             body(f) == [k \in 0 .. N |->
                             IF k = 0 THEN {free_list}
                             ELSE UNION {{x, l.next[x], l.prev[x]} : x \in f[k - 1]}]
  <1>1. /\ N \in Nat /\ l.next \in [FreeList!Nodes -> FreeList!Nodes]
        /\ l.prev \in [FreeList!Nodes -> FreeList!Nodes]
        /\ S \subseteq 0 .. N - 1 /\ S \subseteq FreeList!Nodes
        /\ free_list \in FreeList!Nodes /\ free_list \notin Int
    BY PageConstants DEF Sorted
  <1>2. around \in [SUBSET FreeList!Nodes -> SUBSET FreeList!Nodes]
    BY <1>1
  <1>3. {free_list} \in SUBSET FreeList!Nodes
    BY <1>1
  <1>4. PICK f \in [0 .. N -> SUBSET FreeList!Nodes] :
            f[0] = {free_list} /\ \A k \in 1 .. N : f[k] = around[f[k - 1]]
    <2> HIDE DEF around
    <2>1. \E f : Iteration(f, SUBSET FreeList!Nodes, {free_list}, around, N)
      BY <1>1, <1>2, <1>3, Iterates
    <2> QED
      BY <2>1 DEF Iteration
  <1>5. f = body(f)
    <2>1. ASSUME NEW k \in 0 .. N
          PROVE  f[k] = IF k = 0 THEN {free_list}
                        ELSE UNION {{x, l.next[x], l.prev[x]} : x \in f[k - 1]}
      <3>1. CASE k = 0
        BY <1>4, <3>1
      <3>2. CASE k # 0
        <4>1. k \in 1 .. N /\ f[k - 1] \in SUBSET FreeList!Nodes
          BY <1>1, <1>4, <3>2
        <4> QED
          BY <1>4, <3>2, <4>1
      <3> QED
        BY <3>1, <3>2
    <2> QED
      BY <1>4, <2>1
  <1> DEFINE near == CHOOSE g : g = body(g)
  <1>6. near = body(near)
    <2> HIDE DEF body
    <2> QED
      BY <1>5
  <1>7. FreeList!Linked(l) = near[N]
    BY DEF FreeList!Linked
  <1> HIDE DEF near
  <1>8. /\ near[0] = {free_list}
        /\ \A k \in 1 .. N : near[k] = UNION {{x, l.next[x], l.prev[x]} : x \in near[k - 1]}
    BY <1>1, <1>6
  <1> HIDE DEF body
  <1>9. ASSUME NEW k \in 1 .. N, NEW x \in near[k - 1]
        PROVE  x \in near[k] /\ l.next[x] \in near[k]
    BY <1>8
  <1>10. ASSUME NEW j \in 0 .. N, NEW x \in near[j]
         PROVE  \A k \in j .. N : x \in near[k]
    <2> DEFINE X == {k \in j .. N : x \notin near[k]}
    <2>1. SUFFICES ASSUME X # {} PROVE FALSE
      OBVIOUS
    <2>2. X \subseteq Nat
      BY <1>1
    <2>3. PICK k \in X : \A y \in X : k <= y
      <3> HIDE DEF X
      <3> QED
        BY <2>1, <2>2, SmallestElement
    <2>4. k \in j .. N /\ x \notin near[k] /\ k # j
      BY <1>10, <2>3
    <2>5. k \in 1 .. N /\ k - 1 \in j .. N /\ ~(k <= k - 1)
      BY <1>1, <2>4
    <2>6. x \in near[k - 1]
      BY <2>3, <2>5
    <2> QED
      BY <1>9, <2>4, <2>5, <2>6
  <1>11. free_list \in near[N]
    BY <1>1, <1>8, <1>10
  <1>12. \A h \in S : h \in near[h + 1]
    <2> DEFINE X == {h \in S : h \notin near[h + 1]}
    <2>1. SUFFICES ASSUME X # {} PROVE FALSE
      OBVIOUS
    <2>2. X \subseteq Nat
      BY <1>1
    <2>3. PICK h \in X : \A y \in X : h <= y
      <3> HIDE DEF X
      <3> QED
        BY <2>1, <2>2, SmallestElement
    <2>4. /\ h \in S /\ h \in 0 .. N - 1 /\ h \notin near[h + 1]
          /\ h + 1 \in 1 .. N /\ (h + 1) - 1 = h /\ 0 \in 0 .. N
      BY <1>1, <2>3
    <2> DEFINE g == l.prev[h]
    <2>5. g \in S \cup {free_list} /\ l.next[g] = h /\ Low(g) < High(h)
      <3>1. /\ g \in S \cup {free_list} /\ l.next[g] = h
        BY <2>4 DEF Sorted
      <3>2. Low(g) < High(l.next[g])
        BY <3>1 DEF Sorted
      <3> QED
        BY <3>1, <3>2
    <2>6. g \in near[h]
      <3>1. CASE g = free_list
        <4>1. free_list \in near[0] /\ h \in 0 .. N
          BY <1>1, <1>8, <2>4
        <4>2. \A k \in 0 .. N : free_list \in near[k]
          BY <1>10, <2>4, <4>1
        <4> QED
          BY <3>1, <4>1, <4>2
      <3>2. CASE g \in S
        <4>1. g \in FreeList!Pages /\ h \in FreeList!Pages
          BY <2>4, <3>2 DEF Sorted
        <4>2. g < h /\ g \in 0 .. N - 1
          BY <1>1, <2>5, <3>2, <4>1, PageConstants
        <4>3. g \in near[g + 1]
          <5>1. ~(h <= g)
            BY <2>4, <4>2
          <5> QED
            BY <2>3, <3>2, <5>1
        <4>4. g + 1 \in 0 .. N /\ h \in g + 1 .. N
          BY <1>1, <2>4, <4>2
        <4> QED
          BY <1>10, <4>3, <4>4
      <3> QED
        BY <2>5, <3>1, <3>2
    <2> HIDE DEF g
    <2>7. l.next[g] \in near[h + 1]
      BY <1>9, <2>4, <2>6
    <2> QED
      BY <2>4, <2>5, <2>7
  <1>13. ASSUME NEW h \in S PROVE h \in near[N]
    <2>1. h + 1 \in 0 .. N /\ N \in h + 1 .. N
      BY <1>1
    <2> QED
      BY <1>10, <1>12, <2>1
  <1> QED
    BY <1>7, <1>11, <1>13

\* s is a scan that meets the pages of S in the order of their addresses.
InOrder(s, P, l, S) ==
    /\ P \subseteq 0 .. N
    /\ \A k \in P :
           /\ s[k] \in S
           /\ k = 0 => l.prev[s[k]] = free_list
           /\ k > 0 => k - 1 \in P /\ s[k - 1] < s[k] /\ l.prev[s[k]] = s[k - 1]
    /\ \A i, j \in P : i < j => s[i] < s[j]
    /\ \A h \in S : \E k \in P : s[k] = h

\* A scan of the list meets every block once, from low to high address.
LEMMA ScanInOrder ==
    ASSUME NEW l, NEW S, Sorted(l, S)
    PROVE  InOrder(FreeList!Scan(l), FreeList!Positions(l), l, S)
  <1> DEFINE s == FreeList!Scan(l)
             P == FreeList!Positions(l)
  <1>1. /\ P = {k \in 0 .. N : \A j \in 0 .. k : s[j] # free_list}
        /\ s \in [0 .. N -> FreeList!Nodes]
        /\ s[0] = l.next[free_list]
        /\ \A k \in 1 .. N : s[k] = l.next[s[k - 1]]
    BY ScanIs DEF FreeList!Positions
  <1> HIDE DEF s, P
  <1>2. /\ N \in Nat /\ S \subseteq 0 .. N - 1 /\ S \subseteq FreeList!Pages
        /\ free_list \notin S
        /\ \A x \in S : x \in Nat /\ x \in 0 .. N - 1
    <2>1. /\ N \in Nat /\ S \subseteq 0 .. N - 1 /\ S \subseteq FreeList!Pages
          /\ free_list \notin S
      BY PageConstants DEF Sorted
    <2> QED
      BY <2>1
  <1>3. \A x \in S \cup {free_list} :
           /\ l.next[x] \in S \cup {free_list} /\ l.prev[l.next[x]] = x
           /\ l.prev[x] \in S \cup {free_list} /\ l.next[l.prev[x]] = x
           /\ Low(x) < High(l.next[x])
    BY DEF Sorted
  <1>4. \A k \in P : k \in 0 .. N /\ s[k] # free_list /\ (k > 0 => k - 1 \in P)
    <2>1. ASSUME NEW k \in P PROVE k \in 0 .. N /\ \A j \in 0 .. k : s[j] # free_list
      BY <1>1
    <2>2. ASSUME NEW k \in P, k > 0 PROVE k - 1 \in P
      <3>1. k - 1 \in 0 .. N /\ \A j \in 0 .. k - 1 : j \in 0 .. k
        BY <1>2, <2>1, <2>2
      <3> QED
        BY <1>1, <2>1, <3>1
    <2> QED
      BY <2>1, <2>2
  <1>5. \A k \in P : s[k] \in S
    <2> DEFINE X == {k \in P : s[k] \notin S}
    <2>1. SUFFICES ASSUME X # {} PROVE FALSE
      OBVIOUS
    <2>2. X \subseteq Nat
      BY <1>4
    <2>3. PICK k \in X : \A y \in X : k <= y
      <3> HIDE DEF X
      <3> QED
        BY <2>1, <2>2, SmallestElement
    <2>4. k \in P /\ k \in 0 .. N /\ s[k] \notin S /\ s[k] # free_list
      BY <1>4, <2>3
    <2>5. CASE k = 0
      BY <1>1, <1>3, <2>4, <2>5
    <2>6. CASE k # 0
      <3>1. k \in 1 .. N /\ k - 1 \in P /\ ~(k <= k - 1)
        BY <1>2, <1>4, <2>4, <2>6
      <3>2. s[k - 1] \in S
        BY <2>3, <3>1
      <3>3. s[k] = l.next[s[k - 1]]
        BY <1>1, <3>1
      <3> QED
        BY <1>3, <2>4, <3>2, <3>3
    <2> QED
      BY <2>5, <2>6
  <1>12. \A k \in P : s[k] \in Nat /\ s[k] \in 0 .. N - 1
    BY <1>2, <1>5
  <1>6. \A k \in P : k = 0 => l.prev[s[k]] = free_list
    BY <1>1, <1>3
  <1>7. ASSUME NEW k \in P, k > 0
        PROVE  k - 1 \in P /\ s[k - 1] < s[k] /\ l.prev[s[k]] = s[k - 1]
    <2>1. k - 1 \in P /\ k \in 1 .. N
      BY <1>2, <1>4, <1>7
    <2>2. s[k] = l.next[s[k - 1]] /\ s[k] \in S /\ s[k - 1] \in S
      BY <1>1, <1>5, <2>1
    <2>3. Low(s[k - 1]) < High(s[k]) /\ l.prev[s[k]] = s[k - 1]
      BY <1>3, <2>2
    <2>4. Low(s[k - 1]) = s[k - 1] /\ High(s[k]) = s[k]
      BY <1>2, <2>2, PageConstants
    <2> QED
      BY <2>1, <2>3, <2>4
  <1>8. ASSUME NEW i \in P PROVE \A j \in P : i < j => s[i] < s[j]
    <2> DEFINE X == {j \in P : i < j /\ ~(s[i] < s[j])}
    <2>1. SUFFICES ASSUME X # {} PROVE FALSE
      OBVIOUS
    <2>2. X \subseteq Nat
      BY <1>4
    <2>3. PICK j \in X : \A y \in X : j <= y
      <3> HIDE DEF X
      <3> QED
        BY <2>1, <2>2, SmallestElement
    <2>4. j \in P /\ j \in 0 .. N /\ i \in 0 .. N /\ i < j /\ ~(s[i] < s[j]) /\ j > 0
      BY <1>2, <1>4, <2>3
    <2>5. j - 1 \in P /\ s[j - 1] < s[j] /\ ~(j <= j - 1)
      BY <1>7, <2>4
    <2>6. i = j - 1 \/ i < j - 1
      BY <2>4
    <2>7. i < j - 1 => s[i] < s[j - 1]
      BY <2>3, <2>5
    <2>8. s[i] \in Int /\ s[j] \in Int /\ s[j - 1] \in Int
      BY <1>12, <2>4, <2>5
    <2> QED
      BY <2>4, <2>5, <2>6, <2>7, <2>8
  <1>9. \A k \in P : k <= s[k]
    <2> DEFINE X == {k \in P : ~(k <= s[k])}
    <2>1. SUFFICES ASSUME X # {} PROVE FALSE
      OBVIOUS
    <2>2. X \subseteq Nat
      BY <1>4
    <2>3. PICK k \in X : \A y \in X : k <= y
      <3> HIDE DEF X
      <3> QED
        BY <2>1, <2>2, SmallestElement
    <2>4. k \in P /\ ~(k <= s[k])
      BY <2>3
    <2>5. k \in 0 .. N /\ s[k] \in Nat /\ k > 0
      <3>1. k \in 0 .. N /\ s[k] \in Nat
        BY <1>4, <1>12, <2>4
      <3>2. k \in Nat /\ s[k] < k
        BY <2>4, <3>1
      <3> QED
        BY <3>1, <3>2
    <2>8. k - 1 \in P /\ s[k - 1] < s[k] /\ s[k - 1] \in Nat
      BY <1>12, <1>7, <2>4, <2>5
    <2>9. ~(k <= k - 1)
      BY <2>5
    <2>6. k - 1 <= s[k - 1]
      BY <2>3, <2>8, <2>9
    <2> QED
      BY <2>4, <2>5, <2>6, <2>8
  <1>10. \A h \in S : \E k \in P : s[k] = h
    <2> DEFINE X == {h \in S : \A k \in P : s[k] # h}
    <2>1. SUFFICES ASSUME X # {} PROVE FALSE
      OBVIOUS
    <2>2. X \subseteq Nat
      BY <1>2
    <2>3. PICK h \in X : \A y \in X : h <= y
      <3> HIDE DEF X
      <3> QED
        BY <2>1, <2>2, SmallestElement
    <2>4. h \in S /\ (\A k \in P : s[k] # h) /\ h # free_list
      BY <1>2, <2>3
    <2> DEFINE g == l.prev[h]
    <2>5. g \in S \cup {free_list} /\ l.next[g] = h
      BY <1>3, <2>4
    <2>6. CASE g = free_list
      <3>1. s[0] = h /\ 0 \in 0 .. N
        BY <1>1, <1>2, <2>5, <2>6
      <3>2. \A j \in 0 .. 0 : s[j] # free_list
        BY <2>4, <3>1
      <3>3. 0 \in P
        BY <1>1, <3>1, <3>2
      <3> QED
        BY <2>4, <3>1, <3>3
    <2>7. CASE g \in S
      <3>1. Low(g) < High(h)
        BY <1>3, <2>5
      <3>2. g < h /\ g \in Int /\ h \in Int
        BY <1>2, <2>4, <2>7, <3>1, PageConstants
      <3>3. PICK k \in P : s[k] = g
        <4>1. ~(h <= g)
          BY <3>2
        <4> QED
          BY <2>3, <2>7, <4>1
      <3>4. k \in 0 .. N - 1 /\ k + 1 \in 1 .. N /\ (k + 1) - 1 = k
        <4>1. k \in 0 .. N /\ k <= g /\ g \in 0 .. N - 1
          BY <1>2, <1>4, <1>9, <2>7, <3>3
        <4> QED
          BY <1>2, <4>1
      <3>5. s[k + 1] = h
        BY <1>1, <2>5, <3>3, <3>4
      <3>6. k + 1 \in P
        <4>1. \A j \in 0 .. k : s[j] # free_list
          BY <1>1
        <4>2. \A j \in 0 .. k + 1 : j \in 0 .. k \/ j = k + 1
          BY <3>4
        <4>3. \A j \in 0 .. k + 1 : s[j] # free_list
          BY <2>4, <3>5, <4>1, <4>2
        <4>4. k + 1 \in 0 .. N
          BY <3>4
        <4> QED
          BY <1>1, <4>3, <4>4
      <3> QED
        BY <2>4, <3>5, <3>6
    <2> QED
      BY <2>5, <2>6, <2>7
  <1>11. P \subseteq 0 .. N
    BY <1>4
  <1> QED
    BY <1>5, <1>6, <1>7, <1>8, <1>10, <1>11 DEF InOrder, s, P

\* The first of some places of a scan.
LEMMA MinIs ==
    ASSUME NEW X, X \subseteq Nat, X # {}
    PROVE  FreeList!Min(X) \in X /\ \A y \in X : FreeList!Min(X) <= y
  <1>1. \E x \in X : \A y \in X : x <= y
    BY SmallestElement
  <1> QED
    BY <1>1 DEF FreeList!Min

\* FirstFit finds the lowest block that is large enough.
LEMMA FirstFitIs ==
    ASSUME NEW n \in Nat, Sorted(FreeList!list, PageProperty),
           property \in [FreeList!Pages -> 0 .. N]
    PROVE  /\ FreeList!FirstFit(n) = NULL => \A h \in PageProperty : property[h] < n
           /\ FreeList!FirstFit(n) # NULL =>
                  /\ FreeList!FirstFit(n) \in PageProperty
                  /\ property[FreeList!FirstFit(n)] >= n
                  /\ \A h \in PageProperty : h < FreeList!FirstFit(n) => property[h] < n
  <1> DEFINE s == FreeList!Scan(FreeList!list)
             P == FreeList!Positions(FreeList!list)
             fitting == {k \in P : property[s[k]] >= n}
  <1>1. InOrder(s, P, FreeList!list, PageProperty)
    BY ScanInOrder
  <1>2. FreeList!FirstFit(n) = IF fitting = {} THEN NULL ELSE s[FreeList!Min(fitting)]
    BY DEF FreeList!FirstFit
  <1> HIDE DEF s, P
  <1>3. /\ P \subseteq Nat /\ \A k \in P : s[k] \in PageProperty
        /\ \A i, j \in P : i < j => s[i] < s[j]
        /\ \A h \in PageProperty : \E k \in P : s[k] = h
    BY PageConstants, <1>1 DEF InOrder
  <1>4. \A h \in PageProperty : h \in Int /\ h \in FreeList!Pages /\ property[h] \in Int /\ h # NULL
    BY PageConstants DEF Sorted
  <1>5. CASE fitting = {}
    <2>1. ASSUME NEW h \in PageProperty PROVE property[h] < n
      <3>1. PICK k \in P : s[k] = h
        BY <1>3
      <3>2. ~(property[h] >= n)
        BY <1>5, <3>1
      <3> QED
        BY <1>4, <3>2
    <2> QED
      BY <1>2, <1>5, <2>1
  <1>6. CASE fitting # {}
    <2> DEFINE k == FreeList!Min(fitting)
    <2>1. fitting \subseteq Nat
      BY <1>3
    <2>2. k \in fitting /\ \A y \in fitting : k <= y
      <3> HIDE DEF fitting
      <3> QED
        BY <1>6, <2>1, MinIs
    <2>3. FreeList!FirstFit(n) = s[k]
      BY <1>2, <1>6
    <2>4. k \in P /\ k \in Nat /\ property[s[k]] >= n
      BY <1>3, <2>2
    <2> HIDE DEF k
    <2>5. ASSUME NEW h \in PageProperty, h < s[k] PROVE property[h] < n
      <3>1. PICK j \in P : s[j] = h
        BY <1>3
      <3>2. j \in Nat /\ s[k] \in Int /\ h \in Int
        BY <1>3, <1>4, <2>4
      <3>3. j < k
        <4>1. k < j => s[k] < s[j]
          BY <1>3, <2>4
        <4> QED
          BY <2>4, <2>5, <3>1, <3>2, <4>1
      <3>4. j \notin fitting
        BY <2>2, <2>4, <3>2, <3>3
      <3>5. ~(property[h] >= n)
        BY <3>1, <3>4
      <3> QED
        BY <1>4, <3>5
    <2> QED
      BY <1>3, <1>4, <2>3, <2>4, <2>5
  <1> QED
    BY <1>5, <1>6

\* A free list with its blocks, which are the pages in F.
BlocksOf(b, F) ==
    /\ F \subseteq FreeList!Pages
    /\ Sorted(b.list, b.heads)
    /\ Tiled(b.heads, b.size, F)

\* What that says of a block and of a page of F.
LEMMA BlockFacts ==
    ASSUME NEW b, NEW F, BlocksOf(b, F)
    PROVE  /\ N \in Nat
           /\ \A h \in b.heads :
                  /\ h \in Nat /\ h \in FreeList!Pages /\ h \in F /\ h # free_list
                  /\ b.size[h] \in Nat /\ b.size[h] > 0 /\ h + b.size[h] <= N
                  /\ \A x \in h .. h + b.size[h] - 1 : x \in F
                  /\ \A g \in b.heads : g <= h \/ g >= h + b.size[h]
           /\ \A x \in F : x \in Nat /\ x < N /\ \E h \in b.heads : h <= x /\ x < h + b.size[h]
           /\ b.size \in [FreeList!Pages -> 0 .. N]
  <1>1. /\ N \in Nat /\ F \subseteq 0 .. N - 1 /\ F \subseteq FreeList!Pages /\ free_list \notin F
        /\ b.heads \subseteq F /\ b.size \in [FreeList!Pages -> 0 .. N]
    BY PageConstants DEF BlocksOf, Tiled
  <1>2. ASSUME NEW h \in b.heads
        PROVE  /\ h \in Nat /\ h \in FreeList!Pages /\ h \in F /\ h # free_list
               /\ b.size[h] \in Nat /\ b.size[h] > 0 /\ h + b.size[h] <= N
               /\ \A x \in h .. h + b.size[h] - 1 : x \in F
               /\ \A g \in b.heads : g <= h \/ g >= h + b.size[h]
    <2>1. h \in Nat /\ h \in FreeList!Pages /\ h \in F /\ h # free_list
      <3>1. h \in F
        BY <1>1
      <3>2. h \in 0 .. N - 1
        BY <1>1, <3>1
      <3> QED
        BY <1>1, <3>1, <3>2
    <2>2. b.size[h] \in Nat
      BY <1>1, <2>1
    <2>3. /\ b.size[h] > 0
          /\ h .. h + b.size[h] - 1 \subseteq F
          /\ \A g \in b.heads : g <= h \/ g >= h + b.size[h]
      BY DEF BlocksOf, Tiled
    <2>4. h + b.size[h] - 1 \in h .. h + b.size[h] - 1
      BY <2>1, <2>2, <2>3
    <2>5. h + b.size[h] - 1 \in 0 .. N - 1
      BY <1>1, <2>3, <2>4
    <2> QED
      BY <1>1, <2>1, <2>2, <2>3, <2>5
  <1>3. ASSUME NEW x \in F
        PROVE  x \in Nat /\ x < N /\ \E h \in b.heads : h <= x /\ x < h + b.size[h]
    <2>1. x \in 0 .. N - 1
      BY <1>1
    <2> QED
      BY <1>1, <2>1 DEF BlocksOf, Tiled
  <1> QED
    BY <1>1, <1>2, <1>3

\* A block that begins where another ends is next to it in the list.
LEMMA NextBlock ==
    ASSUME NEW b, NEW F, BlocksOf(b, F), NEW h \in b.heads, NEW g \in b.heads, h + b.size[h] = g
    PROVE  b.list.next[h] = g /\ b.list.prev[g] = h
  <1> DEFINE y == b.list.next[h]
  <1>1. /\ N \in Nat /\ h \in Nat /\ g \in Nat /\ b.size[h] \in Nat /\ b.size[h] > 0
        /\ h \in FreeList!Pages /\ g \in FreeList!Pages
        /\ \A x \in b.heads : x <= h \/ x >= g
    BY BlockFacts
  <1>2. /\ y \in b.heads \cup {free_list} /\ b.list.prev[y] = h
        /\ Low(h) < High(y) /\ (g <= Low(h) \/ g >= High(y))
    BY DEF BlocksOf, Sorted
  <1>3. Low(h) = h /\ High(free_list) = N /\ g < N
    <2>1. g \in 0 .. N - 1
      BY <1>1, PageConstants
    <2> QED
      BY <1>1, <2>1, PageConstants
  <1>4. y \in b.heads => High(y) = y /\ y \in Nat
    BY BlockFacts, PageConstants
  <1> HIDE DEF y
  <1>5. y = g
    <2>1. y # free_list
      BY <1>1, <1>2, <1>3
    <2>2. y \in b.heads
      BY <1>2, <2>1
    <2>3. High(y) = y /\ y \in Nat /\ (y <= h \/ y >= g)
      BY <1>1, <1>4, <2>2
    <2> QED
      BY <1>1, <1>2, <1>3, <2>3
  <1> QED
    BY <1>2, <1>5 DEF y

\* Two blocks become one.
LEMMA JoinedIs ==
    ASSUME NEW b, NEW F, BlocksOf(b, F), NEW low \in b.heads, NEW high \in b.heads,
           low + b.size[low] = high
    PROVE  LET c == FreeList!Joined(b, low, high)
           IN  /\ BlocksOf(c, F)
               /\ c.heads = b.heads \ {high} /\ low \in c.heads
               /\ low + c.size[low] = high + b.size[high]
               /\ \A h \in c.heads : h # low => c.size[h] = b.size[h]
  <1> DEFINE c == FreeList!Joined(b, low, high)
             t == b.size[low] + b.size[high]
  <1>1. /\ c.list = FreeList!ListDel(b.list, high)
        /\ c.size = [b.size EXCEPT ![low] = t]
        /\ c.heads = b.heads \ {high}
    BY DEF FreeList!Joined, FreeList!Blocks
  <1>2. /\ N \in Nat
        /\ low \in Nat /\ low \in FreeList!Pages /\ b.size[low] \in Nat /\ b.size[low] > 0
        /\ high \in Nat /\ high \in FreeList!Pages /\ b.size[high] \in Nat /\ b.size[high] > 0
        /\ high + b.size[high] <= N
        /\ b.size \in [FreeList!Pages -> 0 .. N]
    BY BlockFacts
  <1>3. low # high /\ t \in 0 .. N /\ low + t = high + b.size[high]
    BY <1>2
  <1>4. /\ c.size \in [FreeList!Pages -> 0 .. N] /\ c.size[low] = t
        /\ \A h \in FreeList!Pages : h # low => c.size[h] = b.size[h]
    BY <1>1, <1>2, <1>3
  <1>5. Sorted(c.list, c.heads)
    BY <1>1, ListDelSorted DEF BlocksOf
  <1> HIDE DEF c, t
  <1>6. \A h \in c.heads : h \in b.heads /\ h # high /\ h \in Nat /\ h \in FreeList!Pages
    BY <1>1, BlockFacts
  <1>7. ASSUME NEW h \in c.heads
        PROVE  /\ c.size[h] > 0
               /\ h .. h + c.size[h] - 1 \subseteq F
               /\ \A g \in c.heads : g <= h \/ g >= h + c.size[h]
    <2>1. CASE h # low
      <3>1. c.size[h] = b.size[h] /\ h \in b.heads
        BY <1>4, <1>6, <2>1
      <3> QED
        BY <1>6, <3>1, BlockFacts
    <2>2. CASE h = low
      <3>1. c.size[h] > 0
        BY <1>2, <1>3, <1>4, <2>2
      <3>2. ASSUME NEW x \in h .. h + c.size[h] - 1 PROVE x \in F
        <4>1. x \in low .. low + b.size[low] - 1 \/ x \in high .. high + b.size[high] - 1
          BY <1>2, <1>3, <1>4, <2>2
        <4> QED
          BY <4>1, BlockFacts
      <3>3. ASSUME NEW g \in c.heads PROVE g <= h \/ g >= h + c.size[h]
        <4>1. /\ g \in Nat /\ g # high /\ (g <= low \/ g >= high)
              /\ (g <= high \/ g >= high + b.size[high])
          BY <1>6, BlockFacts
        <4> QED
          BY <1>2, <1>3, <1>4, <2>2, <4>1
      <3> QED
        BY <3>1, <3>2, <3>3
    <2> QED
      BY <2>1, <2>2
  <1>8. ASSUME NEW x \in F PROVE \E h \in c.heads : h <= x /\ x < h + c.size[h]
    <2>1. PICK h \in b.heads : h <= x /\ x < h + b.size[h]
      BY BlockFacts
    <2>2. x \in Nat /\ h \in Nat /\ h \in FreeList!Pages /\ b.size[h] \in Nat
      BY BlockFacts
    <2>3. low \in c.heads
      BY <1>1, <1>3
    <2>4. CASE h = high \/ h = low
      <3>1. low <= x /\ x < low + t
        BY <1>2, <1>3, <2>1, <2>2, <2>4
      <3> QED
        BY <1>4, <2>3, <3>1
    <2>5. CASE h # high /\ h # low
      <3>1. h \in c.heads /\ c.size[h] = b.size[h]
        BY <1>1, <1>4, <2>2, <2>5
      <3> QED
        BY <2>1, <3>1
    <2> QED
      BY <2>4, <2>5
  <1>9. c.heads \subseteq F
    BY <1>6, BlockFacts
  <1>10. BlocksOf(c, F)
    <2>1. F \subseteq FreeList!Pages
      BY DEF BlocksOf
    <2> QED
      BY <1>4, <1>5, <1>7, <1>8, <1>9, <2>1 DEF BlocksOf, Tiled
  <1>11. low \in c.heads /\ low + c.size[low] = high + b.size[high]
    BY <1>1, <1>3, <1>4
  <1>12. \A h \in c.heads : h # low => c.size[h] = b.size[h]
    BY <1>4, <1>6
  <1> QED
    BY <1>1, <1>10, <1>11, <1>12 DEF c

\* The block base is merged with those around it, so that no two touch.
LEMMA MergedIs ==
    ASSUME NEW b, NEW F, BlocksOf(b, F), NEW base \in b.heads,
           Apart(b.heads \ {base}, b.heads \ {base}, b.size)
    PROVE  LET c == FreeList!Merged(b, base)
           IN  BlocksOf(c, F) /\ Apart(c.heads, c.heads, c.size)
  <1> DEFINE below == b.list.prev[base]
             joins == FreeList!Adjacent(b, below, base)
             b1 == IF joins THEN FreeList!Joined(b, below, base) ELSE b
             base1 == IF joins THEN below ELSE base
             above == b1.list.next[base1]
             c == FreeList!Merged(b, base)
  <1>1. c = IF FreeList!Adjacent(b1, base1, above) THEN FreeList!Joined(b1, base1, above) ELSE b1
    BY DEF FreeList!Merged
  <1>2. base # free_list /\ below \in b.heads \cup {free_list}
    BY BlockFacts DEF BlocksOf, Sorted
  <1> HIDE DEF c
  <1>3. BlocksOf(b1, F) /\ base1 \in b1.heads /\ Apart(b1.heads \ {base1}, b1.heads, b1.size)
    <2>1. CASE joins
      <3>1. /\ below \in b.heads /\ below + b.size[below] = base
            /\ b1 = FreeList!Joined(b, below, base) /\ base1 = below
        BY <1>2, <2>1 DEF FreeList!Adjacent
      <3> HIDE DEF b1, base1, below
      <3>2. /\ BlocksOf(b1, F) /\ b1.heads = b.heads \ {base} /\ below \in b1.heads
            /\ \A h \in b1.heads : h # below => b1.size[h] = b.size[h]
        BY <3>1, JoinedIs
      <3>3. ASSUME NEW h \in b1.heads \ {base1} PROVE h + b1.size[h] \notin b1.heads
        <4>1. h \in b.heads \ {base} /\ b1.size[h] = b.size[h]
          BY <3>1, <3>2
        <4> QED
          BY <3>2, <4>1 DEF Apart
      <3> QED
        BY <3>1, <3>2, <3>3 DEF Apart
    <2>2. CASE ~joins
      <3>1. b1 = b /\ base1 = base
        BY <2>2
      <3>2. ASSUME NEW h \in b.heads \ {base} PROVE h + b.size[h] \notin b.heads
        <4>1. h + b.size[h] \notin b.heads \ {base}
          BY DEF Apart
        <4>2. ASSUME h + b.size[h] = base PROVE FALSE
          <5>1. below = h
            BY <4>2, NextBlock
          <5>2. h # free_list
            BY BlockFacts
          <5> QED
            BY <1>2, <2>2, <4>2, <5>1, <5>2 DEF FreeList!Adjacent
        <4> QED
          BY <4>1, <4>2
      <3> QED
        BY <3>1, <3>2 DEF Apart
    <2> QED
      BY <2>1, <2>2
  <1> HIDE DEF b1, base1
  <1>4. base1 # free_list /\ above \in b1.heads \cup {free_list}
    <2>1. base1 # free_list
      BY <1>3, BlockFacts
    <2>2. base1 \in b1.heads /\ Sorted(b1.list, b1.heads)
      BY <1>3 DEF BlocksOf
    <2> QED
      BY <2>1, <2>2 DEF Sorted
  <1>5. CASE FreeList!Adjacent(b1, base1, above)
    <2>1. /\ above \in b1.heads /\ base1 + b1.size[base1] = above
          /\ c = FreeList!Joined(b1, base1, above)
      BY <1>1, <1>4, <1>5 DEF FreeList!Adjacent
    <2> HIDE DEF above
    <2>2. /\ BlocksOf(c, F) /\ c.heads = b1.heads \ {above}
          /\ base1 + c.size[base1] = above + b1.size[above]
          /\ \A h \in c.heads : h # base1 => c.size[h] = b1.size[h]
      BY <1>3, <2>1, JoinedIs
    <2>3. above # base1
      BY <1>3, <2>1, BlockFacts
    <2>4. ASSUME NEW h \in c.heads PROVE h + c.size[h] \notin c.heads
      <3>1. CASE h = base1
        <4>1. above + b1.size[above] \notin b1.heads
          BY <1>3, <2>1, <2>3 DEF Apart
        <4> QED
          BY <2>2, <3>1, <4>1
      <3>2. CASE h # base1
        <4>1. h \in b1.heads \ {base1} /\ c.size[h] = b1.size[h]
          BY <2>2, <3>2
        <4>2. h + b1.size[h] \notin b1.heads
          BY <1>3, <4>1 DEF Apart
        <4> QED
          BY <2>2, <4>1, <4>2
      <3> QED
        BY <3>1, <3>2
    <2> QED
      BY <2>2, <2>4 DEF Apart, c
  <1>6. CASE ~FreeList!Adjacent(b1, base1, above)
    <2>1. c = b1
      BY <1>1, <1>6
    <2>2. base1 + b1.size[base1] \notin b1.heads
      <3>1. SUFFICES ASSUME NEW g \in b1.heads, base1 + b1.size[base1] = g PROVE FALSE
        OBVIOUS
      <3>2. above = g
        BY <1>3, <3>1, NextBlock
      <3>3. g # free_list
        BY <1>3, BlockFacts
      <3> QED
        BY <1>4, <1>6, <3>1, <3>2, <3>3 DEF FreeList!Adjacent
    <2> QED
      BY <1>3, <2>1, <2>2 DEF Apart, c
  <1> QED
    BY <1>5, <1>6

\* The block goes to its place: there is one above it.
LEMMA InsertedIs ==
    ASSUME NEW l, NEW S, Sorted(l, S), NEW base \in FreeList!Pages \ S,
           NEW top \in S, base < top
    PROVE  Sorted(FreeList!Inserted(l, base), S \cup {base})
  <1> DEFINE s == FreeList!Scan(l)
             P == FreeList!Positions(l)
             above == {k \in P : base < s[k]}
             k == FreeList!Min(above)
             y == s[k]
             x == l.prev[y]
  <1>1. InOrder(s, P, l, S)
    BY ScanInOrder
  <1>2. FreeList!Inserted(l, base) =
            IF P = {} THEN FreeList!ListAddAfter(l, free_list, base)
            ELSE IF above # {} THEN FreeList!ListAddBefore(l, y, base)
            ELSE FreeList!ListAddAfter(
                     FreeList!ListAddAfter(l, s[FreeList!Max(P)], base), base, base)
    BY DEF FreeList!Inserted
  <1> HIDE DEF s, P
  <1>3. /\ P \subseteq Nat /\ \A j \in P : s[j] \in S
        /\ \A j \in P : j = 0 => l.prev[s[j]] = free_list
        /\ \A j \in P : j > 0 => j - 1 \in P /\ l.prev[s[j]] = s[j - 1]
        /\ \A h \in S : \E j \in P : s[j] = h
    BY PageConstants, <1>1 DEF InOrder
  <1>4. above # {} /\ P # {} /\ above \subseteq Nat
    <2>1. PICK j \in P : s[j] = top
      BY <1>3
    <2>2. j \in above
      BY <2>1
    <2> QED
      BY <1>3, <2>1, <2>2
  <1>5. k \in above /\ \A j \in above : k <= j
    <2> HIDE DEF above
    <2> QED
      BY <1>4, MinIs
  <1>6. k \in P /\ k \in Nat /\ base < y /\ y \in S
    BY <1>3, <1>5
  <1> HIDE DEF k
  <1>7. \A h \in S : h \in Int /\ Low(h) = h /\ High(h) = h
    BY PageConstants DEF Sorted
  <1>8. base \in Int /\ base \in Nat /\ Low(free_list) = -1 /\ base \notin S
    BY PageConstants
  <1>9. x \in S \cup {free_list} /\ l.next[x] = y
    BY <1>6 DEF Sorted
  <1>10. Low(x) < base
    <2>1. CASE k = 0
      BY <1>3, <1>6, <1>8, <2>1
    <2>2. CASE k # 0
      <3>1. k - 1 \in P /\ x = s[k - 1] /\ ~(k <= k - 1)
        BY <1>3, <1>6, <2>2
      <3>2. k - 1 \notin above
        BY <1>5, <3>1
      <3>3. ~(base < x) /\ x \in S
        BY <1>3, <3>1, <3>2
      <3> QED
        BY <1>7, <1>8, <3>3
    <2> QED
      BY <2>1, <2>2
  <1>11. base < High(y)
    BY <1>6, <1>7
  <1>12. FreeList!Inserted(l, base) = FreeList!ListAdd(l, base, x, y)
    BY <1>2, <1>4 DEF FreeList!ListAddBefore
  <1> HIDE DEF x, y, above
  <1>13. Sorted(FreeList!ListAdd(l, base, x, l.next[x]), S \cup {base})
    BY <1>9, <1>10, <1>11, ListAddSorted
  <1> QED
    BY <1>9, <1>12, <1>13

\* No block begins where another ends.
AllApart(b) == Apart(b.heads, b.heads, b.size)

\* Free pages in a row lie in one block, since no two blocks touch.
LEMMA RunInBlock ==
    ASSUME NEW b, NEW F, BlocksOf(b, F), AllApart(b),
           NEW x \in Int, NEW n \in Nat \ {0}, x .. x + n - 1 \subseteq F
    PROVE  \E h \in b.heads : h <= x /\ x + n <= h + b.size[h]
  <1>1. x \in F /\ x \in Nat
    <2>1. x \in x .. x + n - 1
      OBVIOUS
    <2>2. x \in F
      BY <2>1
    <2> QED
      BY <2>2, BlockFacts
  <1>2. PICK h \in b.heads : h <= x /\ x < h + b.size[h]
    BY <1>1, BlockFacts
  <1> DEFINE e == h + b.size[h]
  <1>3. h \in Nat /\ b.size[h] \in Nat /\ b.size[h] > 0 /\ e \in Nat /\ h < e /\ x < e
    BY <1>2, BlockFacts
  <1>4. e \notin F
    <2>1. SUFFICES ASSUME e \in F PROVE FALSE
      OBVIOUS
    <2>2. PICK g \in b.heads : g <= e /\ e < g + b.size[g]
      BY <2>1, BlockFacts
    <2>3. /\ g \in Nat /\ b.size[g] \in Nat
          /\ g <= h \/ g >= e
          /\ h <= g \/ h >= g + b.size[g]
      BY BlockFacts
    <2>4. g # e
      BY DEF AllApart, Apart
    <2>5. g # h
      BY <1>3, <2>2
    <2> HIDE DEF e
    <2> QED
      BY <1>3, <2>2, <2>3, <2>4, <2>5
  <1> HIDE DEF e
  <1>5. x + n <= e
    <2>1. SUFFICES ASSUME x + n > e PROVE FALSE
      BY <1>1, <1>3
    <2>2. e \in x .. x + n - 1
      BY <1>1, <1>3, <2>1
    <2> QED
      BY <1>4, <2>2
  <1> QED
    BY <1>2, <1>5 DEF e

\* What is left of b when the first n pages of the block p are taken.
Shrunk(b, p, n) ==
    IF b.size[p] > n
    THEN FreeList!Blocks(
             FreeList!ListAddAfter(FreeList!ListDel(b.list, p), b.list.prev[p], p + n),
             [b.size EXCEPT ![p + n] = b.size[p] - n],
             (b.heads \cup {p + n}) \ {p})
    ELSE FreeList!Blocks(FreeList!ListDel(b.list, p), b.size, b.heads \ {p})

\* It has all but the pages that were taken.
LEMMA ShrunkIs ==
    ASSUME NEW b, NEW F, BlocksOf(b, F), AllApart(b), NEW p \in b.heads,
           NEW n \in Nat \ {0}, b.size[p] >= n
    PROVE  /\ BlocksOf(Shrunk(b, p, n), F \ p .. p + n - 1)
           /\ AllApart(Shrunk(b, p, n))
           /\ p .. p + n - 1 \subseteq F
  <1> DEFINE c == Shrunk(b, p, n)
             G == F \ p .. p + n - 1
             l1 == FreeList!ListDel(b.list, p)
             S1 == b.heads \ {p}
             q == b.size[p]
             x == b.list.prev[p]
             y == b.list.next[p]
  <1>1. /\ N \in Nat /\ p \in Nat /\ p \in FreeList!Pages /\ p # free_list
        /\ q \in Nat /\ q > 0 /\ p + q <= N
        /\ \A z \in p .. p + q - 1 : z \in F
        /\ b.size \in [FreeList!Pages -> 0 .. N]
        /\ \A g \in b.heads : g \in Nat /\ g \in FreeList!Pages /\ (g <= p \/ g >= p + q)
    BY BlockFacts
  <1>2. p .. p + n - 1 \subseteq F
    BY <1>1
  <1>3. Sorted(b.list, b.heads) /\ Sorted(l1, S1)
    BY ListDelSorted DEF BlocksOf
  \* The blocks other than p are not touched.
  <1>4. ASSUME NEW h \in S1
        PROVE  /\ h \in Nat /\ h \in G /\ b.size[h] \in Nat /\ b.size[h] > 0
               /\ h .. h + b.size[h] - 1 \subseteq G
               /\ \A g \in b.heads : g <= h \/ g >= h + b.size[h]
               /\ h + b.size[h] \notin b.heads
               /\ p <= h \/ p >= h + b.size[h]
    <2>1. /\ h \in Nat /\ h \in F /\ b.size[h] \in Nat /\ b.size[h] > 0
          /\ h <= p \/ h >= p + q
          /\ \A z \in h .. h + b.size[h] - 1 : z \in F
          /\ \A g \in b.heads : g <= h \/ g >= h + b.size[h]
      BY BlockFacts
    <2>2. p <= h \/ p >= h + b.size[h]
      BY <2>1
    <2>3. h # p
      OBVIOUS
    <2>4. ASSUME NEW z \in h .. h + b.size[h] - 1 PROVE z \notin p .. p + n - 1
      BY <1>1, <2>1, <2>2, <2>3, <2>4
    <2>5. h \in h .. h + b.size[h] - 1
      BY <2>1
    <2>6. h + b.size[h] \notin b.heads
      BY DEF AllApart, Apart
    <2> QED
      BY <2>1, <2>2, <2>4, <2>5, <2>6
  <1>5. ASSUME NEW z \in G
        PROVE  z \in Nat /\ ((p + n <= z /\ z < p + q)
                             \/ \E h \in S1 : h <= z /\ z < h + b.size[h])
    <2>1. PICK h \in b.heads : h <= z /\ z < h + b.size[h]
      BY BlockFacts
    <2>2. z \in Nat
      BY BlockFacts
    <2>3. CASE h = p
      BY <1>1, <2>1, <2>2, <2>3
    <2>4. CASE h # p
      BY <2>1, <2>2, <2>4
    <2> QED
      BY <2>3, <2>4
  <1>6. CASE q > n
    <2> DEFINE e == p + n
               size == [b.size EXCEPT ![e] = q - n]
               l2 == FreeList!ListAddAfter(l1, x, e)
    <2>1. c = FreeList!Blocks(l2, size, (b.heads \cup {e}) \ {p})
      BY <1>6 DEF Shrunk
    <2>2. e \in Nat /\ e \in FreeList!Pages /\ e # p /\ e < p + q /\ e \in 0 .. N - 1
      <3>1. e \in 0 .. N - 1
        BY <1>1, <1>6
      <3> QED
        BY <1>1, <1>6, <3>1, PageConstants
    <2>3. e \notin b.heads /\ (b.heads \cup {e}) \ {p} = S1 \cup {e}
      BY <1>1, <1>6, <2>2
    <2>4. c.list = l2 /\ c.size = size /\ c.heads = S1 \cup {e}
      BY <2>1, <2>3 DEF FreeList!Blocks
    <2>5. size \in [FreeList!Pages -> 0 .. N] /\ size[e] = q - n
          /\ \A h \in S1 : size[h] = b.size[h]
      <3>1. q - n \in 0 .. N
        BY <1>1, <1>6
      <3>2. \A h \in S1 : h \in FreeList!Pages /\ h # e
        BY <1>1, <2>3
      <3> QED
        BY <1>1, <2>2, <3>1, <3>2
    <2>6. Sorted(l2, S1 \cup {e})
      <3>1. /\ x \in b.heads \cup {free_list} /\ b.list.next[x] = p
            /\ y \in b.heads \cup {free_list} /\ b.list.prev[y] = p
            /\ Low(x) < High(p) /\ Low(p) < High(y)
            /\ b.list.next \in [FreeList!Nodes -> FreeList!Nodes]
        BY <1>3 DEF Sorted
      <3>2. Low(p) = p /\ High(p) = p
        BY <1>1, PageConstants
      <3>3. /\ x \in FreeList!Nodes /\ Low(x) \in Int
            /\ y \in FreeList!Nodes /\ High(y) \in Int /\ High(free_list) = N
            /\ y \in b.heads => High(y) = y
        BY <1>1, <3>1, PageConstants
      <3>4. x # p
        BY <1>1, <3>1, <3>2
      <3>5. l1.next[x] = y
        BY <3>1, <3>3 DEF FreeList!ListDel
      <3>6. Low(x) < e
        BY <1>1, <2>2, <3>1, <3>2, <3>3
      <3>7. e < High(y)
        <4>1. CASE y = free_list
          BY <1>1, <2>2, <3>3, <4>1
        <4>2. CASE y \in b.heads
          <5>1. y >= p + q
            BY <1>1, <3>1, <3>2, <3>3, <4>2
          <5> QED
            BY <1>1, <2>2, <3>3, <4>2, <5>1
        <4> QED
          BY <3>1, <4>1, <4>2
      <3>8. x \in S1 \cup {free_list} /\ e \in FreeList!Pages \ S1
        BY <2>2, <2>3, <3>1, <3>4
      <3>9. l2 = FreeList!ListAdd(l1, e, x, l1.next[x])
        BY DEF FreeList!ListAddAfter
      <3> HIDE DEF l1, l2, x, y, e, S1
      <3>10. Sorted(FreeList!ListAdd(l1, e, x, l1.next[x]), S1 \cup {e})
        BY <1>3, <3>5, <3>6, <3>7, <3>8, ListAddSorted
      <3> QED
        BY <3>9, <3>10
    <2> HIDE DEF c, size, l2, l1, x, y
    <2>7. e \in G /\ e .. e + (q - n) - 1 \subseteq G
      BY <1>1, <1>6, <2>2
    <2>8. ASSUME NEW h \in S1 \cup {e}
          PROVE  /\ size[h] > 0 /\ h \in G /\ h .. h + size[h] - 1 \subseteq G
                 /\ \A g \in S1 \cup {e} : g <= h \/ g >= h + size[h]
                 /\ h + size[h] \notin S1 \cup {e}
      <3>1. CASE h = e
        <4>1. size[h] = q - n /\ q - n > 0 /\ e + (q - n) = p + q
          BY <1>1, <1>6, <2>5, <3>1
        <4>2. \A g \in S1 \cup {e} : g <= e \/ g >= p + q
          BY <1>1, <2>2
        <4>3. p + q \notin S1 \cup {e}
          <5>1. p + q \notin b.heads
            BY DEF AllApart, Apart
          <5> QED
            BY <2>2, <5>1
        <4> HIDE DEF e, q, S1, G
        <4> QED
          BY <2>7, <3>1, <4>1, <4>2, <4>3
      <3>2. CASE h \in S1
        <4>1. size[h] = b.size[h]
          BY <2>5, <3>2
        <4>2. /\ h \in Nat /\ b.size[h] \in Nat /\ b.size[h] > 0 /\ h \in G
              /\ h .. h + b.size[h] - 1 \subseteq G
              /\ \A g \in b.heads : g <= h \/ g >= h + b.size[h]
              /\ h + b.size[h] \notin b.heads
              /\ p <= h \/ p >= h + b.size[h]
              /\ h <= p \/ h >= p + q
              /\ h # p
          BY <1>1, <1>4, <3>2
        <4>3. e <= h \/ e > h + b.size[h]
          BY <1>1, <1>6, <2>2, <4>2
        <4>4. S1 \subseteq b.heads /\ e \in Nat
          BY <2>2
        <4> HIDE DEF e, S1, G
        <4>5. h + b.size[h] # e
          BY <4>2, <4>3, <4>4
        <4>6. \A g \in S1 \cup {e} : g <= h \/ g >= h + b.size[h]
          BY <4>2, <4>3, <4>4
        <4> QED
          BY <4>1, <4>2, <4>4, <4>5, <4>6
      <3> QED
        BY <3>1, <3>2
    <2>9. ASSUME NEW z \in G PROVE \E h \in S1 \cup {e} : h <= z /\ z < h + size[h]
      <3>1. CASE p + n <= z /\ z < p + q
        <4>1. e <= z /\ z < e + size[e]
          BY <1>1, <1>5, <1>6, <2>5, <3>1
        <4> QED
          BY <4>1
      <3>2. CASE \E h \in S1 : h <= z /\ z < h + b.size[h]
        BY <2>5, <3>2
      <3> QED
        BY <1>5, <3>1, <3>2
    <2>10. G \subseteq FreeList!Pages
      BY DEF BlocksOf
    <2> HIDE DEF G, S1, e, q
    <2>11. Tiled(c.heads, c.size, G)
      BY <2>4, <2>5, <2>8, <2>9 DEF Tiled
    <2>12. BlocksOf(c, G)
      BY <2>4, <2>6, <2>10, <2>11 DEF BlocksOf
    <2>13. AllApart(c)
      BY <2>4, <2>8 DEF AllApart, Apart
    <2> QED
      BY <1>2, <2>12, <2>13 DEF c, G
  <1>7. CASE ~(q > n)
    <2>1. q = n
      BY <1>1, <1>7
    <2>2. c.list = l1 /\ c.size = b.size /\ c.heads = S1
      BY <1>7 DEF Shrunk, FreeList!Blocks
    <2>3. G \subseteq FreeList!Pages
      BY DEF BlocksOf
    <2>4. \A z \in G : \E h \in S1 : h <= z /\ z < h + b.size[h]
      BY <1>1, <1>5, <2>1
    <2>5. S1 \subseteq b.heads
      OBVIOUS
    <2> HIDE DEF c, l1, G, S1, q
    <2>6. Tiled(c.heads, c.size, G)
      BY <1>1, <1>4, <2>2, <2>4, <2>5 DEF Tiled
    <2>7. BlocksOf(c, G)
      BY <1>3, <2>2, <2>3, <2>6 DEF BlocksOf
    <2>8. AllApart(c)
      BY <1>4, <2>2, <2>5 DEF AllApart, Apart
    <2> QED
      BY <1>2, <2>7, <2>8 DEF c, G
  <1> QED
    BY <1>6, <1>7

\* A block of pages that were in use, put into the list before it is merged.
Grown(b, base, n) ==
    FreeList!Blocks(FreeList!Inserted(b.list, base), [b.size EXCEPT ![base] = n],
                    b.heads \cup {base})

\* The pages that come back are merged with the blocks on both sides.  The highest page
\* is free, so that there is a block above them.
LEMMA GrownIs ==
    ASSUME NEW b, NEW F, BlocksOf(b, F), AllApart(b), NEW base \in FreeList!Pages,
           NEW n \in Nat \ {0}, base .. base + n - 1 \subseteq FreeList!Pages \ F, N - 1 \in F
    PROVE  LET c == FreeList!Merged(Grown(b, base, n), base)
           IN  BlocksOf(c, F \cup base .. base + n - 1) /\ AllApart(c)
  <1> DEFINE g == Grown(b, base, n)
             G == F \cup base .. base + n - 1
             size == [b.size EXCEPT ![base] = n]
             S == b.heads \cup {base}
  <1>1. /\ g.list = FreeList!Inserted(b.list, base) /\ g.size = size /\ g.heads = S
    BY DEF Grown, FreeList!Blocks
  <1>2. N \in Nat \ {0} /\ base \in 0 .. N - 1 /\ base \in Nat /\ base + n - 1 < N
        /\ base \in base .. base + n - 1 /\ base \notin F
    <2>1. base \in 0 .. N - 1 /\ N \in Nat \ {0}
      BY PageConstants
    <2>2. base \in base .. base + n - 1 /\ base + n - 1 \in base .. base + n - 1
      BY <2>1
    <2>3. base + n - 1 \in 0 .. N - 1
      BY <2>2, PageConstants
    <2> QED
      BY <2>1, <2>2, <2>3
  <1>3. \A x \in base .. base + n - 1 : x \notin F
    OBVIOUS
  <1>4. base \notin b.heads
    BY <1>2, BlockFacts
  <1>5. PICK top \in b.heads : base < top
    <2>1. PICK h \in b.heads : h <= N - 1 /\ N - 1 < h + b.size[h]
      BY BlockFacts
    <2>2. h \in Nat /\ b.size[h] \in Nat /\ (\A x \in h .. h + b.size[h] - 1 : x \in F)
      BY BlockFacts
    <2>3. ~(h <= base)
      <3>1. SUFFICES ASSUME h <= base PROVE FALSE
        OBVIOUS
      <3>2. base \in h .. h + b.size[h] - 1
        BY <1>2, <2>1, <2>2, <3>1
      <3> QED
        BY <1>2, <2>2, <3>2
    <2> QED
      BY <1>2, <2>2, <2>3
  <1>6. Sorted(g.list, g.heads)
    <2>1. base \in FreeList!Pages \ b.heads /\ Sorted(b.list, b.heads)
      BY <1>4 DEF BlocksOf
    <2>2. Sorted(FreeList!Inserted(b.list, base), S)
      BY <1>5, <2>1, InsertedIs
    <2> QED
      BY <1>1, <2>2
  <1>7. /\ size \in [FreeList!Pages -> 0 .. N] /\ size[base] = n
        /\ \A h \in b.heads : size[h] = b.size[h]
    <2>1. b.size \in [FreeList!Pages -> 0 .. N] /\ \A h \in b.heads : h \in FreeList!Pages
      BY BlockFacts
    <2>2. n \in 0 .. N
      BY <1>2
    <2> QED
      BY <1>4, <2>1, <2>2
  <1> HIDE DEF g, size
  <1>8. ASSUME NEW h \in b.heads
        PROVE  /\ h \in Nat /\ b.size[h] \in Nat /\ b.size[h] > 0
               /\ h .. h + b.size[h] - 1 \subseteq F
               /\ \A f \in b.heads : f <= h \/ f >= h + b.size[h]
               /\ base <= h \/ base >= h + b.size[h]
               /\ h <= base \/ h >= base + n
               /\ h + b.size[h] \notin b.heads
    <2>1. /\ h \in Nat /\ h \in F /\ b.size[h] \in Nat /\ b.size[h] > 0
          /\ \A z \in h .. h + b.size[h] - 1 : z \in F
          /\ \A f \in b.heads : f <= h \/ f >= h + b.size[h]
      BY BlockFacts
    <2>2. base <= h \/ base >= h + b.size[h]
      <3>1. base \notin h .. h + b.size[h] - 1
        BY <1>2, <2>1
      <3> QED
        BY <1>2, <2>1, <3>1
    <2>3. h <= base \/ h >= base + n
      <3>1. h \notin base .. base + n - 1
        BY <1>3, <2>1
      <3> QED
        BY <1>2, <2>1, <3>1
    <2>4. h + b.size[h] \notin b.heads
      BY DEF AllApart, Apart
    <2> QED
      BY <2>1, <2>2, <2>3, <2>4
  <1>9. ASSUME NEW h \in S
        PROVE  /\ size[h] > 0 /\ h \in G /\ h .. h + size[h] - 1 \subseteq G
               /\ \A f \in S : f <= h \/ f >= h + size[h]
    <2>1. CASE h = base
      <3>1. \A f \in S : f <= base \/ f >= base + n
        BY <1>2, <1>8
      <3> QED
        BY <1>2, <1>7, <2>1, <3>1
    <2>2. CASE h \in b.heads
      <3>1. size[h] = b.size[h] /\ h \in F
        BY <1>7, <2>2, BlockFacts
      <3>2. \A f \in S : f <= h \/ f >= h + b.size[h]
        BY <1>8, <2>2
      <3> QED
        BY <1>8, <2>2, <3>1, <3>2
    <2> QED
      BY <2>1, <2>2
  <1>10. ASSUME NEW z \in G PROVE \E h \in S : h <= z /\ z < h + size[h]
    <2>1. CASE z \in base .. base + n - 1
      <3>1. base <= z /\ z < base + n
        BY <1>2, <2>1
      <3> QED
        BY <1>7, <3>1
    <2>2. CASE z \in F
      <3>1. PICK h \in b.heads : h <= z /\ z < h + b.size[h]
        BY <2>2, BlockFacts
      <3> QED
        BY <1>7, <3>1
    <2> QED
      BY <2>1, <2>2
  <1>11. G \subseteq FreeList!Pages
    BY DEF BlocksOf
  <1>12. Apart(g.heads \ {base}, g.heads \ {base}, g.size)
    <2>1. g.heads \ {base} = b.heads
      BY <1>1, <1>4
    <2> QED
      BY <1>1, <1>7, <1>8, <2>1 DEF Apart
  <1>13. base \in g.heads
    BY <1>1
  <1> HIDE DEF G, S
  <1>14. Tiled(g.heads, g.size, G)
    BY <1>1, <1>7, <1>9, <1>10 DEF Tiled
  <1>15. BlocksOf(g, G)
    BY <1>6, <1>11, <1>14 DEF BlocksOf
  <1>16. LET c == FreeList!Merged(g, base)
         IN  BlocksOf(c, G) /\ Apart(c.heads, c.heads, c.size)
    BY <1>12, <1>13, <1>15, MergedIs
  <1> QED
    BY <1>16 DEF g, G, AllApart

\* The free list of the state.
Now == FreeList!Blocks(FreeList!list, property, PageProperty)

\* What is inductive: the list has the free pages in blocks that do not touch.  The
\* highest page is free, which keeps default_free_pages from the end of the list.
FreeBlocks ==
    /\ used \subseteq FreeList!Pages /\ N - 1 \notin used
    /\ page \in FreeList!Pages \cup {NULL}
    /\ nr_free = Cardinality(Unused)
    /\ BlocksOf(Now, Unused)
    /\ AllApart(Now)

\* Its parts.
LEMMA NowIs ==
    Now.list = FreeList!list /\ Now.size = property /\ Now.heads = PageProperty
  BY DEF Now, FreeList!Blocks

\* Keep loses nothing of a free list.
LEMMA KeepIs ==
    ASSUME NEW b, NEW F, BlocksOf(b, F), AllApart(b), FreeList!Keep(b)
    PROVE  BlocksOf(Now', F) /\ AllApart(Now')
  <1> DEFINE kept == FreeList!Linked(b.list)
             H == b.heads
  <1>1. Sorted(b.list, H) /\ Tiled(H, b.size, F) /\ F \subseteq FreeList!Pages
    BY DEF BlocksOf
  <1>2. H \cup {free_list} \subseteq kept
    BY <1>1, LinkedIs
  <1>3. /\ next' = [x \in FreeList!Nodes |-> IF x \in kept THEN b.list.next[x] ELSE x]
        /\ prev' = [x \in FreeList!Nodes |-> IF x \in kept THEN b.list.prev[x] ELSE x]
        /\ property' = [p \in FreeList!Pages |-> IF p \in kept THEN b.size[p] ELSE 0]
        /\ PageProperty' = H
    BY DEF FreeList!Keep
  <1>4. /\ Now'.list.next = next' /\ Now'.list.prev = prev'
        /\ Now'.size = property' /\ Now'.heads = H
    BY <1>3 DEF Now, FreeList!Blocks, FreeList!list
  <1> HIDE DEF kept, H
  <1>5. /\ N \in Nat /\ H \subseteq FreeList!Pages /\ H \cup {free_list} \subseteq FreeList!Nodes
        /\ b.size \in [FreeList!Pages -> 0 .. N]
        /\ b.list.next \in [FreeList!Nodes -> FreeList!Nodes]
        /\ b.list.prev \in [FreeList!Nodes -> FreeList!Nodes]
    BY <1>1, PageConstants DEF Sorted, Tiled
  <1>6. /\ next' \in [FreeList!Nodes -> FreeList!Nodes]
        /\ prev' \in [FreeList!Nodes -> FreeList!Nodes]
        /\ property' \in [FreeList!Pages -> 0 .. N]
        /\ \A x \in H \cup {free_list} : next'[x] = b.list.next[x] /\ prev'[x] = b.list.prev[x]
        /\ \A h \in H : property'[h] = b.size[h]
    BY <1>2, <1>3, <1>5
  <1> DEFINE m == Now'
  <1>7. /\ m.list.next = next' /\ m.list.prev = prev' /\ m.size = property' /\ m.heads = H
    BY <1>4
  <1> HIDE DEF m
  <1>8. Sorted(m.list, m.heads)
    <2> DEFINE L == H \cup {free_list}
    <2>1. \A x \in L :
              /\ b.list.next[x] \in L /\ b.list.prev[b.list.next[x]] = x
              /\ b.list.prev[x] \in L /\ b.list.next[b.list.prev[x]] = x
              /\ Low(x) < High(b.list.next[x])
              /\ \A h \in H : h <= Low(x) \/ h >= High(b.list.next[x])
      BY <1>1 DEF Sorted
    <2>2. \A x \in L : m.list.next[x] = b.list.next[x] /\ m.list.prev[x] = b.list.prev[x]
      BY <1>6, <1>7
    <2> HIDE DEF L
    <2>3. \A x \in L :
              /\ m.list.next[x] \in L /\ m.list.prev[m.list.next[x]] = x
              /\ m.list.prev[x] \in L /\ m.list.next[m.list.prev[x]] = x
              /\ Low(x) < High(m.list.next[x])
              /\ \A h \in H : h <= Low(x) \/ h >= High(m.list.next[x])
      BY <2>1, <2>2
    <2> QED
      BY <1>5, <1>6, <1>7, <2>3 DEF Sorted, L
  <1>9. Tiled(m.heads, m.size, F)
    BY <1>1, <1>6, <1>7 DEF Tiled
  <1>10. Apart(m.heads, m.heads, m.size)
    <2>1. \A h \in H : h + b.size[h] \notin H
      BY DEF AllApart, Apart, H
    <2> QED
      BY <1>6, <1>7, <2>1 DEF Apart
  <1>11. BlocksOf(m, F) /\ AllApart(m)
    BY <1>1, <1>8, <1>9, <1>10 DEF BlocksOf, AllApart
  <1> QED
    BY <1>11 DEF m

-----------------------------------------------------------------------------
\* At first there is one block.
LEMMA BlocksInit == FreeList!Init => FreeBlocks
  <1> SUFFICES ASSUME FreeList!Init PROVE FreeBlocks
    OBVIOUS
  <1>1. /\ N \in Nat \ {0} /\ free_list \notin Int
        /\ FreeList!Pages = 0 .. N - 1
        /\ FreeList!Nodes = FreeList!Pages \cup {free_list}
        /\ 0 \in FreeList!Pages /\ 0 # free_list
    BY PageConstants
  <1>2. /\ next = [x \in FreeList!Nodes |->
                       IF x = free_list THEN 0 ELSE IF x = 0 THEN free_list ELSE x]
        /\ prev = next
        /\ property = [p \in FreeList!Pages |-> IF p = 0 THEN N ELSE 0]
        /\ PageProperty = {0} /\ nr_free = N /\ used = {} /\ page = NULL
    BY DEF FreeList!Init
  <1>3. /\ Now.list.next = next /\ Now.list.prev = prev /\ Now.size = property /\ Now.heads = {0}
    BY <1>2, NowIs DEF FreeList!list
  <1> DEFINE m == Now
  <1> HIDE DEF m
  <1>4. Sorted(m.list, m.heads)
    <2>1. m.list.next = next /\ m.list.prev = next /\ m.heads = {0}
      BY <1>2, <1>3 DEF m
    <2>2. next \in [FreeList!Nodes -> FreeList!Nodes] /\ next[free_list] = 0 /\ next[0] = free_list
      BY <1>1, <1>2
    <2>3. Low(0) = 0 /\ High(0) = 0 /\ Low(free_list) = -1 /\ High(free_list) = N
      BY <1>1, PageConstants
    <2> QED
      BY <1>1, <2>1, <2>2, <2>3 DEF Sorted
  <1>5. Unused = 0 .. N - 1 /\ Unused \subseteq FreeList!Pages
    BY <1>1, <1>2 DEF Unused
  <1>6. Tiled(m.heads, m.size, Unused)
    <2>1. m.size = property /\ m.heads = {0}
      BY <1>3 DEF m
    <2>2. property \in [FreeList!Pages -> 0 .. N] /\ property[0] = N
      BY <1>1, <1>2
    <2> QED
      BY <1>1, <1>5, <2>1, <2>2 DEF Tiled
  <1>7. AllApart(m)
    <2>1. m.size[0] = N /\ m.heads = {0}
      BY <1>1, <1>2, <1>3 DEF m
    <2> QED
      BY <1>1, <2>1 DEF AllApart, Apart
  <1>8. Cardinality(Unused) = N
    <2>1. Cardinality(0 .. N - 1) = (N - 1) - 0 + 1
      BY <1>1, FS_Interval
    <2> QED
      BY <1>1, <1>5, <2>1
  <1> QED
    BY <1>2, <1>4, <1>5, <1>6, <1>7, <1>8 DEF FreeBlocks, BlocksOf, m

\* The free pages are finitely many, and not more than there are.
LEMMA UnusedFinite ==
    ASSUME FreeBlocks
    PROVE  IsFiniteSet(Unused) /\ Cardinality(Unused) \in 0 .. N
  <1>1. N \in Nat \ {0} /\ Unused \subseteq 0 .. N - 1
    BY PageConstants DEF Unused
  <1>2. IsFiniteSet(0 .. N - 1) /\ Cardinality(0 .. N - 1) = (N - 1) - 0 + 1
    BY <1>1, FS_Interval
  <1>3. IsFiniteSet(Unused) /\ Cardinality(Unused) <= Cardinality(0 .. N - 1)
    BY <1>1, <1>2, FS_Subset
  <1>4. Cardinality(Unused) \in Nat
    BY <1>3, FS_CardinalityType
  <1> QED
    BY <1>1, <1>2, <1>3, <1>4

\* Taking n pages leaves n fewer.
LEMMA Without ==
    ASSUME NEW F, IsFiniteSet(F), NEW x \in Int, NEW n \in Nat \ {0}, x .. x + n - 1 \subseteq F
    PROVE  /\ Cardinality(F \ (x .. x + n - 1)) = Cardinality(F) - n
           /\ n <= Cardinality(F)
  <1> DEFINE B == x .. x + n - 1
  <1>1. IsFiniteSet(B) /\ Cardinality(B) = n
    <2>1. IsFiniteSet(B) /\ Cardinality(B) = IF x > x + n - 1 THEN 0 ELSE (x + n - 1) - x + 1
      BY FS_Interval
    <2> QED
      BY <2>1
  <1>2. B \subseteq F
    OBVIOUS
  <1> HIDE DEF B
  <1>3. /\ IsFiniteSet(F \ B) /\ Cardinality(F \ B) = Cardinality(F) - Cardinality(F \cap B)
        /\ F \cap B = B
    BY <1>2, FS_Difference
  <1>4. Cardinality(F \ B) \in Nat /\ Cardinality(F) \in Nat
    BY <1>3, FS_CardinalityType
  <1>5. Cardinality(F \ B) = Cardinality(F) - n
    BY <1>1, <1>3
  <1>6. n <= Cardinality(F)
    BY <1>4, <1>5
  <1> QED
    BY <1>5, <1>6 DEF B

\* A request takes the lowest pages that fit.
LEMMA AllocStep ==
    ASSUME FreeBlocks, TopStaysFree, NEW n \in 1 .. N, FreeList!AllocPages(n)
    PROVE  FreeBlocks' /\ FreeList!P!Alloc(n)
  <1> DEFINE p == FreeList!FirstFit(n)
             B == p .. p + n - 1
             b == Now
  <1>1. /\ BlocksOf(b, Unused) /\ AllApart(b) /\ used \subseteq FreeList!Pages /\ N - 1 \notin used
        /\ nr_free = Cardinality(Unused) /\ N \in Nat \ {0} /\ n \in Nat \ {0} /\ NULL \notin Int
        /\ FreeList!Pages = 0 .. N - 1
    BY PageConstants DEF FreeBlocks
  <1>2. b.list = FreeList!list /\ b.size = property /\ b.heads = PageProperty
    BY NowIs
  <1>3. /\ p # NULL /\ p + n < N /\ page' = p /\ used' = used \cup B
        /\ FreeList!Keep(Shrunk(b, p, n)) /\ nr_free' = nr_free - n
    BY <1>2 DEF FreeList!AllocPages, Shrunk, FreeList!list
  <1> HIDE DEF b
  <1>4. /\ p \in b.heads /\ b.size[p] >= n
        /\ \A h \in b.heads : h < p => b.size[h] < n
    <2>1. Sorted(FreeList!list, PageProperty) /\ property \in [FreeList!Pages -> 0 .. N]
      BY <1>1, <1>2 DEF BlocksOf, Tiled
    <2> QED
      BY <1>1, <1>2, <1>3, <2>1, FirstFitIs
  <1> HIDE DEF p
  <1>5. /\ BlocksOf(Shrunk(b, p, n), Unused \ B) /\ AllApart(Shrunk(b, p, n)) /\ B \subseteq Unused
    BY <1>1, <1>4, ShrunkIs
  <1>6. BlocksOf(Now', Unused \ B) /\ AllApart(Now')
    BY <1>3, <1>5, KeepIs
  <1>7. p \in Nat /\ p \in FreeList!Pages
    BY <1>1, <1>4, BlockFacts
  <1>8. Unused' = Unused \ B
    BY <1>3 DEF Unused, FreeList!Pages
  <1>9. Cardinality(Unused \ B) = Cardinality(Unused) - n
    BY <1>1, <1>5, <1>7, UnusedFinite, Without
  <1>10. used' \subseteq FreeList!Pages /\ N - 1 \notin used'
    <2>1. N - 1 \notin B
      BY <1>1, <1>3, <1>7
    <2> QED
      BY <1>1, <1>3, <1>5, <2>1 DEF Unused
  <1>11. FreeBlocks'
    BY <1>1, <1>3, <1>6, <1>7, <1>8, <1>9, <1>10 DEF FreeBlocks, FreeList!Pages
  <1>12. FreeList!P!Fits(p, n)
    BY <1>1, <1>3, <1>5, <1>7 DEF FreeList!P!Fits, Unused, FreeList!Pages, FreeList!P!Pages
  <1>13. ASSUME NEW c \in 0 .. p - 1 PROVE ~FreeList!P!Fits(c, n)
    <2>1. SUFFICES ASSUME FreeList!P!Fits(c, n) PROVE FALSE
      OBVIOUS
    <2>2. c \in Int /\ c .. c + n - 1 \subseteq Unused
      BY <2>1 DEF FreeList!P!Fits, Unused, FreeList!Pages, FreeList!P!Pages
    <2>3. PICK h \in b.heads : h <= c /\ c + n <= h + b.size[h]
      BY <1>1, <2>2, RunInBlock
    <2>4. h \in Nat /\ b.size[h] \in Nat
      BY <1>1, BlockFacts
    <2>5. h < p => b.size[h] < n
      BY <1>4
    <2> QED
      BY <1>1, <1>7, <2>3, <2>4, <2>5
  <1>14. p \in FreeList!P!Pages
    BY <1>7 DEF FreeList!Pages, FreeList!P!Pages
  <1>15. FreeList!P!Alloc(n)
    BY <1>3, <1>12, <1>13, <1>14 DEF FreeList!P!Alloc
  <1> QED
    BY <1>11, <1>15

\* A request fails only if nothing fits.
LEMMA AllocFailsStep ==
    ASSUME FreeBlocks, NEW n \in 1 .. N, FreeList!AllocFails(n)
    PROVE  FreeBlocks' /\ FreeList!P!Alloc(n)
  <1> DEFINE b == Now
  <1>1. /\ BlocksOf(b, Unused) /\ AllApart(b)
        /\ nr_free = Cardinality(Unused) /\ N \in Nat \ {0} /\ n \in Nat \ {0}
    BY PageConstants DEF FreeBlocks
  <1>2. b.list = FreeList!list /\ b.size = property /\ b.heads = PageProperty
    BY NowIs
  <1>3. /\ n > nr_free \/ FreeList!FirstFit(n) = NULL
        /\ page' = NULL
        /\ UNCHANGED <<next, prev, property, PageProperty, nr_free, used>>
    BY DEF FreeList!AllocFails
  <1>4. FreeBlocks'
    BY <1>3 DEF FreeBlocks, Now, FreeList!list, Unused
  <1> HIDE DEF b
  <1>5. ASSUME NEW c \in FreeList!P!Pages PROVE ~FreeList!P!Fits(c, n)
    <2>1. SUFFICES ASSUME FreeList!P!Fits(c, n) PROVE FALSE
      OBVIOUS
    <2>2. c \in Int /\ c .. c + n - 1 \subseteq Unused
      BY <1>1, <2>1 DEF FreeList!P!Fits, Unused, FreeList!Pages, FreeList!P!Pages
    <2>3. PICK h \in b.heads : h <= c /\ c + n <= h + b.size[h]
      BY <1>1, <2>2, RunInBlock
    <2>4. h \in Nat /\ b.size[h] \in Nat
      BY <1>1, BlockFacts
    <2>5. ~(n > nr_free)
      <3>1. IsFiniteSet(Unused) /\ Cardinality(Unused) \in 0 .. N
        BY UnusedFinite
      <3>2. n <= Cardinality(Unused)
        BY <1>1, <2>2, <3>1, Without
      <3> QED
        BY <1>1, <3>1, <3>2
    <2>6. b.size[h] < n
      <3>1. Sorted(FreeList!list, PageProperty) /\ property \in [FreeList!Pages -> 0 .. N]
        BY <1>1, <1>2 DEF BlocksOf, Tiled
      <3> QED
        BY <1>1, <1>2, <1>3, <2>5, <3>1, FirstFitIs
    <2> QED
      BY <1>1, <2>2, <2>3, <2>4, <2>6
  <1>6. FreeList!P!Alloc(n)
    BY <1>3, <1>5 DEF FreeList!P!Alloc
  <1> QED
    BY <1>4, <1>6

\* Pages that are given back become free pages.
LEMMA FreeStep ==
    ASSUME FreeBlocks, NEW n \in 1 .. N, NEW base \in FreeList!Pages, FreeList!FreePages(base, n)
    PROVE  FreeBlocks' /\ FreeList!P!Free(base, n)
  <1> DEFINE B == base .. base + n - 1
             b == Now
             c == FreeList!Merged(Grown(b, base, n), base)
  <1>1. /\ BlocksOf(b, Unused) /\ AllApart(b) /\ used \subseteq FreeList!Pages /\ N - 1 \notin used
        /\ nr_free = Cardinality(Unused) /\ N \in Nat \ {0} /\ n \in Nat \ {0}
        /\ page \in FreeList!Pages \cup {NULL}
        /\ base \in Int /\ N - 1 \in FreeList!Pages
    BY PageConstants DEF FreeBlocks
  <1>2. b.list = FreeList!list /\ b.size = property /\ b.heads = PageProperty
    BY NowIs
  <1>3. /\ B \subseteq used /\ used' = used \ B /\ FreeList!Keep(c)
        /\ nr_free' = nr_free + n /\ page' = page
    BY <1>2 DEF FreeList!FreePages, Grown
  <1> HIDE DEF b
  <1>4. BlocksOf(c, Unused \cup B) /\ AllApart(c)
    <2>1. B \subseteq FreeList!Pages \ Unused /\ N - 1 \in Unused
      BY <1>1, <1>3 DEF Unused
    <2> QED
      BY <1>1, <2>1, GrownIs
  <1> HIDE DEF c
  <1>5. BlocksOf(Now', Unused \cup B) /\ AllApart(Now')
    BY <1>3, <1>4, KeepIs
  <1>6. Unused' = Unused \cup B
    BY <1>1, <1>3 DEF Unused, FreeList!Pages
  <1>7. Cardinality(Unused') = nr_free + n
    <2>1. IsFiniteSet(Unused) /\ Cardinality(Unused) \in 0 .. N
      BY UnusedFinite
    <2>2. IsFiniteSet(Unused') /\ Unused = Unused' \ B /\ B \subseteq Unused'
      <3>1. IsFiniteSet(B)
        BY <1>1, FS_Interval
      <3>2. IsFiniteSet(Unused \cup B)
        BY <2>1, <3>1, FS_Union
      <3>3. \A x \in B : x \notin Unused
        BY <1>3 DEF Unused
      <3> QED
        BY <1>6, <3>2, <3>3
    <2> DEFINE G == Unused'
    <2>3. IsFiniteSet(G) /\ B \subseteq G /\ Unused = G \ B
      BY <2>2
    <2> HIDE DEF G
    <2>4. Cardinality(G \ B) = Cardinality(G) - n
      BY <1>1, <2>3, Without
    <2>5. Cardinality(G) \in Nat
      BY <2>3, FS_CardinalityType
    <2> QED
      BY <1>1, <2>3, <2>4, <2>5 DEF G
  <1>8. used' \subseteq FreeList!Pages /\ N - 1 \notin used'
    BY <1>1, <1>3
  <1>9. FreeBlocks'
    BY <1>1, <1>3, <1>5, <1>6, <1>7, <1>8 DEF FreeBlocks, FreeList!Pages
  <1>10. FreeList!P!Free(base, n)
    BY <1>3 DEF FreeList!P!Free
  <1> QED
    BY <1>9, <1>10

\* Every step keeps the list exact, and is a step of PagePool.
LEMMA BlocksNext ==
    ASSUME FreeBlocks, TopStaysFree, [FreeList!Next]_pageVars
    PROVE  FreeBlocks' /\ [FreeList!P!Next]_<<used, page>>
  <1>1. CASE FreeList!Next
    <2>1. PICK n \in 1 .. N :
              \/ FreeList!AllocPages(n)
              \/ FreeList!AllocFails(n)
              \/ \E base \in FreeList!Pages : FreeList!FreePages(base, n)
      BY <1>1 DEF FreeList!Next
    <2>2. CASE FreeList!AllocPages(n)
      BY <2>2, AllocStep DEF FreeList!P!Next
    <2>3. CASE FreeList!AllocFails(n)
      BY <2>3, AllocFailsStep DEF FreeList!P!Next
    <2>4. CASE \E base \in FreeList!Pages : FreeList!FreePages(base, n)
      <3>1. PICK base \in FreeList!Pages : FreeList!FreePages(base, n)
        BY <2>4
      <3>2. FreeBlocks' /\ FreeList!P!Free(base, n)
        BY <3>1, FreeStep
      <3>3. base \in FreeList!P!Pages
        BY DEF FreeList!Pages, FreeList!P!Pages
      <3> QED
        BY <3>2, <3>3 DEF FreeList!P!Next
    <2> QED
      BY <2>1, <2>2, <2>3, <2>4
  <1>2. CASE UNCHANGED pageVars
    BY <1>2 DEF pageVars, FreeBlocks, Now, FreeList!list, Unused
  <1> QED
    BY <1>1, <1>2

\* The blocks are the maximal runs of free pages.
LEMMA RunsAreBlocks ==
    ASSUME FreeBlocks
    PROVE  FreeList!RunHeads = PageProperty
           /\ \A h \in PageProperty : property[h] = FreeList!RunLength(h)
  <1> DEFINE b == Now
             F == Unused
  <1>1. BlocksOf(b, F) /\ AllApart(b) /\ b.size = property /\ b.heads = PageProperty
    BY NowIs DEF FreeBlocks
  <1>2. /\ F = FreeList!Pages \ used
        /\ FreeList!RunHeads = {p \in F : p - 1 \notin F}
        /\ \A p : FreeList!RunLength(p) = FreeList!Max({n \in 1 .. N : p .. p + n - 1 \subseteq F})
    BY DEF FreeList!RunHeads, FreeList!RunLength, Unused
  <1> HIDE DEF b, F
  <1>3. ASSUME NEW h \in b.heads PROVE h \in FreeList!RunHeads
    <2>1. h \in F /\ h \in Nat
      BY <1>1, BlockFacts
    <2>2. h - 1 \notin F
      <3>1. SUFFICES ASSUME h - 1 \in F PROVE FALSE
        OBVIOUS
      <3>2. (h - 1) .. (h - 1) + 2 - 1 \subseteq F
        <4>1. \A x \in (h - 1) .. (h - 1) + 2 - 1 : x = h - 1 \/ x = h
          BY <2>1
        <4> QED
          BY <2>1, <3>1, <4>1
      <3>3. PICK g \in b.heads : g <= h - 1 /\ (h - 1) + 2 <= g + b.size[g]
        <4>1. h - 1 \in Int /\ 2 \in Nat \ {0}
          BY <2>1
        <4> QED
          BY <1>1, <3>2, <4>1, RunInBlock
      <3>4. g \in Nat /\ b.size[g] \in Nat /\ (h <= g \/ h >= g + b.size[g])
        BY <1>1, BlockFacts
      <3> QED
        BY <2>1, <3>3, <3>4
    <2> QED
      BY <1>2, <2>1, <2>2
  <1>4. ASSUME NEW p \in FreeList!RunHeads PROVE p \in b.heads
    <2>1. p \in F /\ p - 1 \notin F
      BY <1>2
    <2>2. PICK h \in b.heads : h <= p /\ p < h + b.size[h]
      BY <1>1, <2>1, BlockFacts
    <2>3. /\ p \in Nat /\ h \in Nat /\ b.size[h] \in Nat
          /\ \A x \in h .. h + b.size[h] - 1 : x \in F
      BY <1>1, <2>1, BlockFacts
    <2>4. h = p
      <3>1. SUFFICES ASSUME h # p PROVE FALSE
        OBVIOUS
      <3>2. p - 1 \in h .. h + b.size[h] - 1
        BY <2>2, <2>3, <3>1
      <3> QED
        BY <2>1, <2>3, <3>2
    <2> QED
      BY <2>4
  <1>5. ASSUME NEW h \in b.heads PROVE b.size[h] = FreeList!RunLength(h)
    <2> DEFINE X == {n \in 1 .. N : h .. h + n - 1 \subseteq F}
    <2>1. /\ N \in Nat /\ h \in Nat /\ b.size[h] \in Nat /\ b.size[h] > 0 /\ h + b.size[h] <= N
          /\ \A x \in h .. h + b.size[h] - 1 : x \in F
      BY <1>1, BlockFacts
    <2>2. b.size[h] \in X
      BY <2>1
    <2>3. ASSUME NEW n \in X PROVE n <= b.size[h]
      <3>1. h \in Int /\ n \in Nat \ {0} /\ h .. h + n - 1 \subseteq F
        BY <2>1
      <3>2. PICK g \in b.heads : g <= h /\ h + n <= g + b.size[g]
        BY <1>1, <3>1, RunInBlock
      <3>3. g \in Nat /\ b.size[g] \in Nat /\ (h <= g \/ h >= g + b.size[g])
        BY <1>1, BlockFacts
      <3> QED
        BY <2>1, <3>1, <3>2, <3>3
    <2>4. FreeList!RunLength(h) = FreeList!Max(X)
      BY <1>2
    <2>5. \A n \in X : n \in Int
      OBVIOUS
    <2> HIDE DEF X
    <2>6. FreeList!Max(X) \in X /\ \A n \in X : FreeList!Max(X) >= n
      <3>1. \E x \in X : \A y \in X : x >= y
        BY <2>1, <2>2, <2>3, <2>5
      <3> QED
        BY <3>1 DEF FreeList!Max
    <2> QED
      BY <2>1, <2>2, <2>3, <2>4, <2>5, <2>6
  <1> QED
    BY <1>1, <1>3, <1>4, <1>5

\* FreeBlocks says of the pointers what FreeListExact says of a scan.
LEMMA BlocksSuffice == FreeBlocks => FreeListExact
  <1> SUFFICES ASSUME FreeBlocks PROVE FreeListExact
    OBVIOUS
  <1> DEFINE l == FreeList!list
             s == FreeList!Scan(l)
             P == FreeList!Positions(l)
  <1>1. /\ Sorted(l, PageProperty) /\ Tiled(PageProperty, property, Unused)
        /\ Unused \subseteq FreeList!Pages
        /\ used \subseteq FreeList!Pages /\ page \in FreeList!Pages \cup {NULL}
        /\ nr_free = Cardinality(Unused)
    BY NowIs DEF FreeBlocks, BlocksOf
  <1>2. l.next = next /\ l.prev = prev
    BY DEF FreeList!list
  <1>3. InOrder(s, P, l, PageProperty)
    BY <1>1, ScanInOrder
  <1> HIDE DEF l, s, P
  <1>4. /\ FreeList!RunHeads = PageProperty
        /\ \A h \in PageProperty : property[h] = FreeList!RunLength(h)
    BY RunsAreBlocks
  <1>5. FreeList!TypeOK
    BY <1>1, <1>2, UnusedFinite DEF FreeList!TypeOK, Sorted, Tiled
  <1>6. {s[k] : k \in P} = FreeList!RunHeads
    BY <1>3, <1>4 DEF InOrder
  <1>7. \A k \in P : /\ property[s[k]] = FreeList!RunLength(s[k])
                     /\ k > 0 => s[k - 1] < s[k] /\ prev[s[k]] = s[k - 1]
    BY <1>2, <1>3, <1>4 DEF InOrder
  <1>8. \A x \in FreeList!RunHeads \cup {free_list} : prev[next[x]] = x
    BY <1>1, <1>2, <1>4 DEF Sorted
  <1>9. FreeList!Cardinality(Unused) = Cardinality(Unused)
    BY DEF FreeList!Cardinality, Cardinality
  <1> QED
    BY <1>1, <1>4, <1>5, <1>6, <1>7, <1>8, <1>9
    DEF FreeListExact, FreeList!FreeListExact, Unused, l, s, P

\* FreeListExact, for any number of pages and any requests that leave the highest one
\* free: default_free_pages goes wrong when there is no block above the one it inserts.
THEOREM FreeListCorrect ==
    ASSUME TopStaysFree
    PROVE  FreeList!Spec => []FreeListExact
  <1>1. FreeBlocks /\ [FreeList!Next]_FreeList!vars => FreeBlocks'
    BY BlocksNext DEF FreeList!vars, pageVars
  <1> QED
    BY BlocksInit, BlocksSuffice, <1>1, PTL DEF FreeList!Spec

\* FirstFitPool, under the same condition: default_alloc_pages finds the lowest pages
\* that fit, if there are any.
THEOREM FirstFitImplemented ==
    ASSUME TopStaysFree
    PROVE  FreeList!Spec => FirstFitPool
  <1>1. FreeBlocks /\ [FreeList!Next]_FreeList!vars =>
            FreeBlocks' /\ [FreeList!P!Next]_<<used, page>>
    BY BlocksNext DEF FreeList!vars, pageVars
  <1>2. FreeList!Init => FreeList!P!Init
    BY DEF FreeList!Init, FreeList!P!Init
  <1> QED
    BY BlocksInit, <1>1, <1>2, PTL
    DEF FreeList!Spec, FirstFitPool, FreeList!FirstFitPool, FreeList!P!Spec

-----------------------------------------------------------------------------
(* The ring of the kernel heap leads through its free blocks by their      *)
(* addresses, and every unit of its pages belongs to one block (Kmalloc).  *)

\* Addresses are numbers, 0 the arena's; the next of a block that is not in the ring
\* is -1.
LEMMA AddressFacts ==
    /\ Slob!arena = 0 /\ Slob!Dead = -1
    /\ Slob!PageUnits \in Nat /\ Slob!PageUnits >= 2
    /\ PAGE_SIZE = Slob!PageUnits * SLOB_UNIT
    /\ SLOB_UNIT \in Nat /\ SLOB_UNIT > 0 /\ HEAPPAGES \in Nat
    /\ \A g \in Slob!Pages : Slob!Start(g) \in Nat /\ Slob!Start(g) > 1
    /\ Slob!Addresses \subseteq Nat /\ 0 \in Slob!Addresses
    /\ 1 \notin Slob!Addresses /\ -1 \notin Slob!Addresses
    /\ IsFiniteSet(Slob!Addresses)
  <1> DEFINE P == Slob!PageUnits
  <1>1. /\ SLOB_UNIT \in Nat /\ SLOB_UNIT > 0 /\ PAGE_SIZE \in Nat
        /\ PAGE_SIZE % SLOB_UNIT = 0 /\ HEAPPAGES \in Nat
        /\ SLOB_UNIT < PAGE_SIZE
    BY SlobAssumption DEF Slob!KmallocAssumption
  <1>2. P \in Nat /\ PAGE_SIZE = P * SLOB_UNIT
    BY <1>1 DEF Slob!PageUnits
  <1>3. P >= 2
    <2>1. P = 0 \/ P = 1 \/ P >= 2
      BY <1>2
    <2>2. P # 0 /\ P # 1
      BY <1>1, <1>2
    <2> QED
      BY <2>1, <2>2
  <1> HIDE DEF P
  <1>4. ASSUME NEW g \in Nat, g > 0 PROVE g * P \in Nat /\ g * P >= 2
    <2>1. g * P \in Nat
      BY <1>2
    <2>2. g * P = (g - 1) * P + P /\ g - 1 \in Nat
      BY <1>2, <1>4
    <2>3. (g - 1) * P \in Nat
      BY <1>2, <2>2
    <2> QED
      BY <1>2, <1>3, <2>1, <2>2, <2>3
  <1>5. \A g \in Slob!Pages : Slob!Start(g) \in Nat /\ Slob!Start(g) > 1
    BY <1>4 DEF Slob!Start, Slob!Pages, P
  <1>6. Slob!Start(1) \in Nat /\ Slob!Start(1) >= 2 /\ Slob!Start(HEAPPAGES + 1) \in Nat
    BY <1>1, <1>4 DEF Slob!Start, P
  <1>7. Slob!Addresses = {0} \cup Slob!Start(1) .. Slob!Start(HEAPPAGES + 1) - 1
    BY DEF Slob!Addresses, Slob!arena
  <1>8. IsFiniteSet(Slob!Addresses)
    <2>1. IsFiniteSet(Slob!Start(1) .. Slob!Start(HEAPPAGES + 1) - 1)
      BY <1>6, FS_Interval
    <2>2. IsFiniteSet((Slob!Start(1) .. Slob!Start(HEAPPAGES + 1) - 1) \cup {0})
      BY <2>1, FS_AddElement
    <2>3. (Slob!Start(1) .. Slob!Start(HEAPPAGES + 1) - 1) \cup {0} = Slob!Addresses
      BY <1>7
    <2> QED
      BY <2>2, <2>3
  <1> QED
    BY <1>1, <1>2, <1>3, <1>5, <1>6, <1>7, <1>8 DEF Slob!arena, Slob!Dead, P

\* The blocks that are in the ring.
InRing(nx) == {a \in Slob!Addresses : nx[a] # -1}

\* The ring leads from each block to the next one above, and from the last to the arena.
Ringed(nx) ==
    /\ nx \in [Slob!Addresses -> Slob!Addresses \cup {-1}]
    /\ 0 \in InRing(nx)
    /\ \A a \in InRing(nx) :
           /\ nx[a] \in InRing(nx)
           /\ nx[a] # 0 => a < nx[a]
           /\ \A b \in InRing(nx) : a < b => nx[a] # 0 /\ nx[a] <= b

\* The blocks in S, of so many units, are the memory in W, each once.
Tiles(S, us, W) ==
    /\ us \in [Slob!Addresses -> Nat]
    /\ W \subseteq Slob!Addresses \ {0}
    /\ S \subseteq W
    /\ \A a \in S : us[a] > 0 /\ a .. a + us[a] - 1 \subseteq W
    /\ \A a, b \in S : a < b => a + us[a] <= b
    /\ \A w \in W : \E a \in S : a <= w /\ w < a + us[a]

\* A block is put into the ring after c, below the one that followed c.
LEMMA PutRing ==
    ASSUME NEW nx, Ringed(nx), NEW c \in InRing(nx), NEW b \in Slob!Addresses \ InRing(nx),
           c < b, nx[c] # 0 => b < nx[c],
           NEW r, r = [nx EXCEPT ![b] = nx[c], ![c] = b]
    PROVE  Ringed(r) /\ InRing(r) = InRing(nx) \cup {b}
  <1> DEFINE A == Slob!Addresses
             S == InRing(nx)
  <1>1. /\ A \subseteq Nat /\ 0 \in A /\ -1 \notin A
        /\ nx \in [A -> A \cup {-1}] /\ 0 \in S /\ S \subseteq A
        /\ \A a \in A : a \in S <=> nx[a] # -1
        /\ \A a \in S : /\ nx[a] \in S
                        /\ nx[a] # 0 => a < nx[a]
                        /\ \A d \in S : a < d => nx[a] # 0 /\ nx[a] <= d
    BY AddressFacts DEF Ringed, InRing
  <1>2. c \in S /\ b \in A /\ b \notin S /\ InRing(r) = {a \in A : r[a] # -1}
    BY DEF InRing
  <1> HIDE DEF A, S
  <1>3. /\ \A d \in S \cup {b} : d \in Nat
        /\ b # c /\ c \in A /\ nx[c] \in S /\ b # -1 /\ b > 0
    BY <1>1, <1>2
  <1>4. /\ r \in [A -> A \cup {-1}] /\ r[b] = nx[c] /\ r[c] = b
        /\ \A a \in A \ {b, c} : r[a] = nx[a]
    BY <1>1, <1>2, <1>3
  <1>5. InRing(r) = S \cup {b}
    <2>1. ASSUME NEW a \in A PROVE r[a] # -1 <=> a \in S \cup {b}
      <3>1. CASE a = b
        BY <1>1, <1>3, <1>4, <3>1
      <3>2. CASE a = c
        BY <1>2, <1>3, <1>4, <3>2
      <3>3. CASE a # b /\ a # c
        BY <1>1, <1>4, <3>3
      <3> QED
        BY <3>1, <3>2, <3>3
    <2>2. S \cup {b} \subseteq A
      BY <1>1, <1>2
    <2> QED
      BY <1>2, <2>1, <2>2
  <1>6. ASSUME NEW a \in S \cup {b}
        PROVE  /\ r[a] \in S \cup {b}
               /\ r[a] # 0 => a < r[a]
               /\ \A d \in S \cup {b} : a < d => r[a] # 0 /\ r[a] <= d
    <2>1. CASE a = b
      <3>1. r[a] = nx[c] /\ (nx[c] # 0 => b < nx[c])
        BY <1>4, <2>1
      <3>2. ASSUME NEW d \in S \cup {b}, b < d PROVE nx[c] # 0 /\ nx[c] <= d
        <4>1. d \in S /\ c < d
          BY <1>2, <1>3, <3>2
        <4> QED
          BY <1>1, <1>2, <4>1
      <3> QED
        BY <1>3, <2>1, <3>1, <3>2
    <2>2. CASE a = c
      <3>1. r[a] = b
        BY <1>4, <2>2
      <3>2. ASSUME NEW d \in S \cup {b}, c < d PROVE b <= d
        <4>1. d \in S => nx[c] # 0 /\ nx[c] <= d
          BY <1>1, <1>2, <3>2
        <4>2. d \in Nat /\ nx[c] \in Nat
          BY <1>3
        <4> QED
          BY <1>3, <4>1, <4>2
      <3>3. b \in S \cup {b} /\ b # 0
        BY <1>3
      <3>4. r[a] \in S \cup {b} /\ a < r[a] /\ r[a] # 0
        BY <2>2, <3>1, <3>3
      <3> QED
        BY <2>2, <3>1, <3>2, <3>4
    <2>3. CASE a \in S \ {c}
      <3>1. r[a] = nx[a] /\ a \in Nat
        BY <1>1, <1>2, <1>3, <1>4, <2>3
      <3>2. a < b => nx[a] # 0 /\ nx[a] <= b
        <4>1. a < c \/ c < a
          BY <1>2, <1>3, <2>3
        <4>2. ASSUME c < a PROVE ~(a < b)
          <5>1. nx[c] # 0 /\ nx[c] <= a /\ b < nx[c]
            BY <1>1, <1>2, <2>3, <4>2
          <5> QED
            BY <1>3, <3>1, <5>1
        <4>3. ASSUME a < c PROVE nx[a] # 0 /\ nx[a] <= b
          <5>1. nx[a] # 0 /\ nx[a] <= c /\ nx[a] \in Nat
            BY <1>1, <1>2, <1>3, <2>3, <4>3
          <5> QED
            BY <1>2, <1>3, <5>1
        <4> QED
          BY <4>1, <4>2, <4>3
      <3> QED
        BY <1>1, <2>3, <3>1, <3>2
    <2> QED
      BY <2>1, <2>2, <2>3
  <1>7. Ringed(r)
    BY <1>1, <1>4, <1>5, <1>6 DEF Ringed, A
  <1> QED
    BY <1>5, <1>7 DEF S

\* The block that follows p is taken out of the ring.
LEMMA DropRing ==
    ASSUME NEW nx, Ringed(nx), NEW p \in InRing(nx), NEW c, c = nx[p], c # 0,
           NEW r, r = [nx EXCEPT ![p] = nx[c], ![c] = -1]
    PROVE  Ringed(r) /\ InRing(r) = InRing(nx) \ {c}
  <1> DEFINE A == Slob!Addresses
             S == InRing(nx)
  <1>1. /\ A \subseteq Nat /\ 0 \in A /\ -1 \notin A
        /\ nx \in [A -> A \cup {-1}] /\ 0 \in S /\ S \subseteq A
        /\ \A a \in A : a \in S <=> nx[a] # -1
        /\ \A a \in S : /\ nx[a] \in S
                        /\ nx[a] # 0 => a < nx[a]
                        /\ \A d \in S : a < d => nx[a] # 0 /\ nx[a] <= d
    BY AddressFacts DEF Ringed, InRing
  <1>2. p \in S /\ InRing(r) = {a \in A : r[a] # -1}
    BY DEF InRing
  <1> HIDE DEF A, S
  <1>3. /\ \A d \in S : d \in Nat
        /\ c \in S /\ p < c /\ p \in A /\ c \in A /\ nx[c] \in S
    BY <1>1, <1>2
  <1>4. nx[c] # c /\ (nx[c] # 0 => p < nx[c])
    <2>1. nx[c] # 0 => c < nx[c]
      BY <1>1, <1>3
    <2>2. p \in Nat /\ c \in Nat /\ nx[c] \in Nat
      BY <1>2, <1>3
    <2> QED
      BY <1>3, <2>1, <2>2
  <1>5. /\ r \in [A -> A \cup {-1}] /\ r[p] = nx[c] /\ r[c] = -1
        /\ \A a \in A \ {p, c} : r[a] = nx[a]
    BY <1>1, <1>2, <1>3
  <1>6. InRing(r) = S \ {c}
    <2>1. ASSUME NEW a \in A PROVE r[a] # -1 <=> a \in S \ {c}
      <3>1. CASE a = c
        BY <1>5, <3>1
      <3>2. CASE a = p
        BY <1>1, <1>2, <1>3, <1>5, <3>2
      <3>3. CASE a # c /\ a # p
        BY <1>1, <1>5, <3>3
      <3> QED
        BY <3>1, <3>2, <3>3
    <2> QED
      BY <1>1, <1>2, <2>1
  <1>7. ASSUME NEW a \in S \ {c}
        PROVE  /\ r[a] \in S \ {c}
               /\ r[a] # 0 => a < r[a]
               /\ \A d \in S \ {c} : a < d => r[a] # 0 /\ r[a] <= d
    <2>1. CASE a = p
      <3>1. r[a] = nx[c]
        BY <1>5, <2>1
      <3>2. ASSUME NEW d \in S \ {c}, p < d PROVE nx[c] # 0 /\ nx[c] <= d
        <4>1. c <= d
          BY <1>1, <1>2, <3>2
        <4>2. c < d
          BY <1>3, <4>1
        <4> QED
          BY <1>1, <1>3, <4>2
      <3> QED
        BY <1>3, <1>4, <2>1, <3>1, <3>2
    <2>2. CASE a # p
      <3>1. r[a] = nx[a]
        BY <1>1, <1>5, <2>2
      <3>2. nx[a] # c
        <4>1. a \in Nat /\ p \in Nat /\ c \in Nat /\ nx[a] \in Nat
          BY <1>1, <1>2, <1>3
        <4>2. a < p \/ p < a
          BY <2>2, <4>1
        <4>3. a < p => nx[a] <= p
          BY <1>1, <1>2
        <4>4. p < a => c <= a
          BY <1>1, <1>2
        <4>5. nx[a] # 0 => a < nx[a]
          BY <1>1
        <4> QED
          BY <1>3, <4>1, <4>2, <4>3, <4>4, <4>5
      <3> QED
        BY <1>1, <3>1, <3>2
    <2> QED
      BY <2>1, <2>2
  <1>8. Ringed(r)
    <2>1. 0 \in S \ {c}
      BY <1>1
    <2> QED
      BY <1>1, <1>5, <1>6, <1>7, <2>1 DEF Ringed, A
  <1> QED
    BY <1>6, <1>8 DEF S

\* Two blocks of which one ends where the other begins become one.
LEMMA FuseTiles ==
    ASSUME NEW S, NEW us, NEW W, Tiles(S, us, W), NEW a \in S, NEW c \in S,
           a + us[a] = c, NEW v, v = [us EXCEPT ![a] = us[a] + us[c], ![c] = 0]
    PROVE  Tiles(S \ {c}, v, W)
  <1> DEFINE A == Slob!Addresses
  <1>1. /\ A \subseteq Nat /\ us \in [A -> Nat] /\ W \subseteq A \ {0} /\ S \subseteq W
        /\ \A x \in S : us[x] > 0 /\ x .. x + us[x] - 1 \subseteq W
        /\ \A x, y \in S : x < y => x + us[x] <= y
        /\ \A w \in W : \E x \in S : x <= w /\ w < x + us[x]
    BY AddressFacts DEF Tiles
  <1>2. \A x \in S : x \in A /\ x \in Nat /\ us[x] \in Nat
    BY <1>1
  <1>3. a \in A /\ c \in A /\ a \in Nat /\ c \in Nat /\ us[a] \in Nat /\ us[c] \in Nat /\ a < c
    BY <1>1, <1>2
  <1>4. /\ v \in [A -> Nat] /\ v[a] = us[a] + us[c]
        /\ \A x \in A \ {a, c} : v[x] = us[x]
    BY <1>1, <1>3
  <1> HIDE DEF A
  <1>5. ASSUME NEW x \in S \ {c} PROVE v[x] > 0 /\ x .. x + v[x] - 1 \subseteq W
    <2>1. CASE x = a
      <3>1. \A w \in a .. a + v[a] - 1 : w \in a .. a + us[a] - 1 \/ w \in c .. c + us[c] - 1
        BY <1>3, <1>4
      <3> QED
        BY <1>1, <1>3, <1>4, <2>1, <3>1
    <2>2. CASE x # a
      BY <1>1, <1>2, <1>4, <2>2
    <2> QED
      BY <2>1, <2>2
  <1>6. ASSUME NEW x \in S \ {c}, NEW y \in S \ {c}, x < y PROVE x + v[x] <= y
    <2>1. CASE x = a
      <3>1. c < y
        BY <1>1, <1>2, <1>3, <1>6, <2>1
      <3>2. c + us[c] <= y
        BY <1>1, <3>1
      <3> QED
        BY <1>2, <1>3, <1>4, <2>1, <3>2
    <2>2. CASE x # a
      BY <1>1, <1>2, <1>4, <1>6, <2>2
    <2> QED
      BY <2>1, <2>2
  <1>7. ASSUME NEW w \in W PROVE \E x \in S \ {c} : x <= w /\ w < x + v[x]
    <2>1. PICK x \in S : x <= w /\ w < x + us[x]
      BY <1>1
    <2>2. w \in Nat
      BY <1>1
    <2>3. CASE x = c \/ x = a
      BY <1>2, <1>3, <1>4, <2>1, <2>2, <2>3
    <2>4. CASE x # c /\ x # a
      BY <1>2, <1>4, <2>1, <2>4
    <2> QED
      BY <2>3, <2>4
  <1> QED
    BY <1>1, <1>4, <1>5, <1>6, <1>7 DEF Tiles, A

\* A block of which n units have been cut off.
Cut(us, a, n) == [us EXCEPT ![a + n] = us[a] - n, ![a] = n]

\* A block is cut in two.
LEMMA CutTiles ==
    ASSUME NEW S, NEW us, NEW W, Tiles(S, us, W), NEW a \in S, NEW n \in Nat,
           0 < n, n < us[a]
    PROVE  a + n \in W \ S /\ Tiles(S \cup {a + n}, Cut(us, a, n), W)
  <1> DEFINE A == Slob!Addresses
             c == a + n
             v == [us EXCEPT ![c] = us[a] - n, ![a] = n]
  <1>0. c = a + n
    OBVIOUS
  <1> HIDE DEF c
  <1>1. /\ A \subseteq Nat /\ us \in [A -> Nat] /\ W \subseteq A \ {0} /\ S \subseteq W
        /\ \A x \in S : us[x] > 0 /\ x .. x + us[x] - 1 \subseteq W
        /\ \A x, y \in S : x < y => x + us[x] <= y
        /\ \A w \in W : \E x \in S : x <= w /\ w < x + us[x]
    BY AddressFacts DEF Tiles
  <1>2. \A x \in S : x \in A /\ x \in Nat /\ us[x] \in Nat
    BY <1>1
  <1>3. a \in A /\ a \in Nat /\ us[a] \in Nat /\ c \in Nat /\ a < c /\ c < a + us[a]
        /\ c = a + n
    BY <1>0, <1>1, <1>2
  <1>4. c \in W /\ c \in A
    BY <1>1, <1>3
  <1>5. c \notin S
    BY <1>1, <1>3
  <1>6. /\ v \in [A -> Nat] /\ v[a] = n /\ v[c] = us[a] - n
        /\ \A x \in A \ {a, c} : v[x] = us[x]
    <2>1. us[a] - n \in Nat /\ a # c
      BY <1>3
    <2>2. v \in [A -> Nat] /\ \A x \in A \ {a, c} : v[x] = us[x]
      BY <1>1, <1>3, <1>4, <2>1
    <2>3. v[a] = n /\ v[c] = us[a] - n
      BY <1>1, <1>3, <1>4, <2>1
    <2> QED
      BY <2>2, <2>3
  <1> HIDE DEF A, v
  <1>7. ASSUME NEW x \in S \cup {c} PROVE v[x] > 0 /\ x .. x + v[x] - 1 \subseteq W
    <2>1. CASE x = a \/ x = c
      <3>1. x .. x + v[x] - 1 \subseteq a .. a + us[a] - 1
        BY <1>3, <1>6, <2>1
      <3> QED
        BY <1>1, <1>3, <1>6, <2>1, <3>1
    <2>2. CASE x # a /\ x # c
      BY <1>1, <1>2, <1>6, <2>2
    <2> QED
      BY <2>1, <2>2
  <1>8. ASSUME NEW x \in S \cup {c}, NEW y \in S \cup {c}, x < y PROVE x + v[x] <= y
    <2>1. CASE x = a /\ y = c
      BY <1>3, <1>6, <2>1
    <2>2. CASE x = a /\ y # c
      <3>1. a + us[a] <= y /\ y \in Nat
        BY <1>1, <1>2, <1>8, <2>2
      <3> QED
        BY <1>3, <1>6, <2>2, <3>1
    <2>3. CASE x = c
      <3>1. y \in S /\ a < y /\ y \in Nat
        BY <1>2, <1>3, <1>8, <2>3
      <3>2. a + us[a] <= y
        BY <1>1, <3>1
      <3> QED
        BY <1>3, <1>6, <2>3, <3>1, <3>2
    <2>4. CASE x # a /\ x # c /\ y = c
      <3>1. x \in S /\ x \in Nat /\ us[x] \in Nat /\ v[x] = us[x]
        BY <1>2, <1>6, <2>4
      <3>2. x < a \/ a < x
        BY <1>3, <2>4, <3>1
      <3>3. a < x => a + us[a] <= x
        BY <1>1, <3>1
      <3>4. x < a => x + us[x] <= a
        BY <1>1, <3>1
      <3> QED
        BY <1>3, <1>8, <2>4, <3>1, <3>2, <3>3, <3>4
    <2>5. CASE x # a /\ x # c /\ y # c
      BY <1>1, <1>2, <1>6, <1>8, <2>5
    <2> QED
      BY <2>1, <2>2, <2>3, <2>4, <2>5
  <1>9. ASSUME NEW w \in W PROVE \E x \in S \cup {c} : x <= w /\ w < x + v[x]
    <2>1. PICK x \in S : x <= w /\ w < x + us[x]
      BY <1>1
    <2>2. w \in Nat
      BY <1>1
    <2>3. CASE x = a /\ w < c
      BY <1>3, <1>6, <2>1, <2>2, <2>3
    <2>4. CASE x = a /\ ~(w < c)
      <3>1. c <= w /\ w < c + v[c]
        BY <1>3, <1>6, <2>1, <2>2, <2>4
      <3> QED
        BY <3>1
    <2>5. CASE x # a
      <3>1. v[x] = us[x]
        BY <1>2, <1>5, <1>6, <2>5
      <3> QED
        BY <2>1, <3>1
    <2> QED
      BY <2>3, <2>4, <2>5
  <1>10. Tiles(S \cup {c}, v, W)
    BY <1>1, <1>4, <1>6, <1>7, <1>8, <1>9 DEF Tiles, A
  <1> QED
    BY <1>4, <1>5, <1>10 DEF Cut, v, c

\* A page comes to the memory, as one block.
LEMMA AddTile ==
    ASSUME NEW S, NEW us, NEW W, Tiles(S, us, W), NEW s \in Nat, NEW m \in Nat, m > 0,
           s .. s + m - 1 \subseteq Slob!Addresses \ ({0} \cup W),
           NEW v, v = [us EXCEPT ![s] = m]
    PROVE  Tiles(S \cup {s}, v, W \cup s .. s + m - 1)
  <1> DEFINE A == Slob!Addresses
             V == s .. s + m - 1
  <1>1. /\ A \subseteq Nat /\ us \in [A -> Nat] /\ W \subseteq A \ {0} /\ S \subseteq W
        /\ \A x \in S : us[x] > 0 /\ x .. x + us[x] - 1 \subseteq W
        /\ \A x, y \in S : x < y => x + us[x] <= y
        /\ \A w \in W : \E x \in S : x <= w /\ w < x + us[x]
    BY AddressFacts DEF Tiles
  <1>2. \A x \in S : x \in A /\ x \in Nat /\ us[x] \in Nat
    BY <1>1
  <1>3. s \in V /\ s \in A /\ s \notin W
    OBVIOUS
  <1>4. v \in [A -> Nat] /\ v[s] = m /\ \A x \in S : v[x] = us[x]
    BY <1>1, <1>2, <1>3
  <1> HIDE DEF A
  <1>5. ASSUME NEW x \in S, x < s PROVE x + us[x] <= s
    <2>1. x + us[x] > s => s \in x .. x + us[x] - 1
      BY <1>2, <1>5
    <2> QED
      BY <1>1, <1>2, <1>3, <2>1
  <1>6. ASSUME NEW x \in S, s < x PROVE s + m <= x
    <2>1. s + m > x => x \in V
      BY <1>2, <1>6
    <2>2. x \notin V
      BY <1>1
    <2> QED
      BY <1>2, <2>1, <2>2
  <1>7. \A x \in S \cup {s} : v[x] > 0 /\ x .. x + v[x] - 1 \subseteq W \cup V
    BY <1>1, <1>4
  <1>8. \A x, y \in S \cup {s} : x < y => x + v[x] <= y
    BY <1>1, <1>2, <1>4, <1>5, <1>6
  <1>9. \A w \in W \cup V : \E x \in S \cup {s} : x <= w /\ w < x + v[x]
    BY <1>1, <1>4
  <1>10. W \cup V \subseteq A \ {0}
    BY <1>1 DEF A
  <1> QED
    BY <1>1, <1>3, <1>4, <1>7, <1>8, <1>9, <1>10 DEF Tiles, A

\* A set of natural numbers that has a bound and is not empty has a largest element.
LEMMA LargestElement ==
    ASSUME NEW X, X \subseteq Nat, X # {}, NEW t \in Nat, \A x \in X : x <= t
    PROVE  \E x \in X : \A y \in X : y <= x
  <1> DEFINE Y == {t - x : x \in X}
  <1>1. Y \subseteq Nat /\ Y # {}
    <2>1. \A x \in X : t - x \in Nat
      OBVIOUS
    <2>2. PICK x \in X : TRUE
      OBVIOUS
    <2>3. t - x \in Y
      BY <2>2
    <2> QED
      BY <2>1, <2>3
  <1>2. PICK z \in Y : \A y \in Y : z <= y
    <2> HIDE DEF Y
    <2> QED
      BY <1>1, SmallestElement
  <1>3. PICK x \in X : z = t - x
    OBVIOUS
  <1>4. ASSUME NEW y \in X PROVE y <= x
    <2>1. z <= t - y
      BY <1>2
    <2>2. x \in Nat /\ y \in Nat
      OBVIOUS
    <2> QED
      BY <1>3, <2>1, <2>2
  <1> QED
    BY <1>4

\* The ring of a block that is not the arena, or of some blocks, has a last one below it.
LEMMA LastBelow ==
    ASSUME NEW nx, Ringed(nx), NEW b \in Slob!Addresses, b # 0
    PROVE  \E c \in InRing(nx) : c < b /\ \A a \in InRing(nx) : a < b => a <= c
  <1> DEFINE X == {a \in InRing(nx) : a < b}
  <1>1. InRing(nx) \subseteq Nat /\ 0 \in InRing(nx) /\ b \in Nat
    BY AddressFacts DEF Ringed, InRing
  <1>2. X \subseteq Nat /\ X # {} /\ \A x \in X : x <= b
    BY <1>1
  <1>3. PICK c \in X : \A a \in X : a <= c
    <2> HIDE DEF X
    <2> QED
      BY <1>1, <1>2, LargestElement
  <1> QED
    BY <1>3

\* What the ring leads to from blocks of it is all of it.
LEMMA ClosedIsRing ==
    ASSUME NEW nx, Ringed(nx), NEW R, R \subseteq InRing(nx), R # {}, \A a \in R : nx[a] \in R
    PROVE  R = InRing(nx)
  <1> DEFINE S == InRing(nx)
  <1>1. /\ S \subseteq Nat /\ S \subseteq Slob!Addresses /\ 0 \in S
        /\ \A a \in S : /\ nx[a] \in S
                        /\ nx[a] # 0 => a < nx[a]
                        /\ \A d \in S : a < d => nx[a] # 0 /\ nx[a] <= d
    BY AddressFacts DEF Ringed, InRing
  <1>2. PICK t \in Nat : \A a \in Slob!Addresses : a <= t
    <2> DEFINE top == Slob!Start(HEAPPAGES + 1)
    <2>1. top \in Nat
      BY AddressFacts DEF Slob!Start
    <2>2. ASSUME NEW a \in Slob!Addresses PROVE a <= top
      <3>1. a = 0 \/ a \in Slob!Start(1) .. top - 1
        BY AddressFacts DEF Slob!Addresses
      <3>2. a \in Nat
        BY AddressFacts
      <3> HIDE DEF top
      <3> QED
        BY <2>1, <3>1, <3>2
    <2> QED
      BY <2>1, <2>2
  <1> HIDE DEF S
  <1>3. 0 \in R
    <2>1. R \subseteq Nat /\ \A a \in R : a <= t
      BY <1>1, <1>2 DEF S
    <2>2. PICK m \in R : \A a \in R : a <= m
      BY <2>1, LargestElement
    <2>3. nx[m] \in R /\ nx[m] <= m /\ m \in Nat /\ nx[m] \in Nat
      BY <2>1, <2>2
    <2>4. nx[m] = 0
      BY <1>1, <2>3 DEF S
    <2> QED
      BY <2>3, <2>4
  <1>4. SUFFICES ASSUME S \ R # {} PROVE FALSE
    BY DEF S
  <1>5. S \ R \subseteq Nat
    BY <1>1
  <1>6. PICK x \in S \ R : \A y \in S \ R : x <= y
    BY <1>4, <1>5, SmallestElement
  <1>7. x \in Slob!Addresses /\ x # 0 /\ x \in Nat
    BY <1>1, <1>3
  <1>8. PICK p \in S : p < x /\ \A a \in S : a < x => a <= p
    BY <1>7, LastBelow DEF S
  <1>9. p \in R
    <2>1. ~(x <= p)
      BY <1>1, <1>7, <1>8
    <2> QED
      BY <1>6, <2>1
  <1>10. nx[p] # 0 /\ nx[p] <= x /\ p < nx[p] /\ nx[p] \in S /\ p \in Nat /\ nx[p] \in Nat
    BY <1>1, <1>6, <1>8
  <1>11. ~(nx[p] < x)
    BY <1>8, <1>10
  <1>12. nx[p] = x
    BY <1>7, <1>10, <1>11
  <1> QED
    BY <1>6, <1>9, <1>12

\* The blocks that w comes to, step by step along the ring.
Follows(w, nx, n) ==
    w \in [0 .. n -> InRing(nx)] /\ \A k \in 1 .. n : w[k] = nx[w[k - 1]]

\* Who follows the ring for as many steps as it has blocks comes to each of them.
LEMMA RingCovers ==
    ASSUME NEW nx, Ringed(nx), NEW n, n = Cardinality(InRing(nx)), NEW w, Follows(w, nx, n)
    PROVE  \A b \in InRing(nx) : \E k \in 1 .. n : w[k] = b
  <1>0. w \in [0 .. n -> InRing(nx)] /\ \A k \in 1 .. n : w[k] = nx[w[k - 1]]
    BY DEF Follows
  <1> DEFINE S == InRing(nx)
             R(k) == {w[i] : i \in 1 .. k}
  <1>1. IsFiniteSet(S) /\ n \in Nat /\ 0 \in S
    <2>1. S \in SUBSET Slob!Addresses /\ 0 \in S
      BY DEF InRing, Ringed
    <2>2. IsFiniteSet(S)
      BY <2>1, AddressFacts, FS_Subset
    <2> QED
      BY <2>1, <2>2, FS_CardinalityType
  <1>2. n # 0
    <2>1. S # {}
      BY <1>0, <1>1
    <2> HIDE DEF S
    <2>2. Cardinality(S) # 0
      BY <1>0, <1>1, <2>1, FS_EmptySet
    <2> QED
      BY <2>2 DEF S
  <1> HIDE DEF S
  <1>3. ASSUME NEW k \in 1 .. n - 1, w[k + 1] \in R(k) PROVE R(k) = S
    <2>1. R(k) \subseteq S
      BY <1>0, <1>1 DEF S
    <2>2. w[1] \in R(k)
      BY <1>0, <1>1
    <2>3. ASSUME NEW a \in R(k) PROVE nx[a] \in R(k)
      <3>1. PICK i \in 1 .. k : a = w[i]
        OBVIOUS
      <3>2. nx[a] = w[i + 1]
        <4>1. i + 1 \in 1 .. n /\ (i + 1) - 1 = i
          BY <1>0, <1>1
        <4> QED
          BY <1>0, <3>1, <4>1
      <3>3. i = k \/ i + 1 \in 1 .. k
        BY <1>0, <1>1
      <3> QED
        BY <1>0, <1>3, <3>2, <3>3
    <2> HIDE DEF R
    <2> QED
      BY <2>1, <2>2, <2>3, ClosedIsRing DEF S
  <1>4. CASE \E k \in 1 .. n - 1 : w[k + 1] \in R(k)
    <2>1. PICK k \in 1 .. n - 1 : w[k + 1] \in R(k)
      BY <1>4
    <2>2. R(k) = S
      BY <1>3, <2>1
    <2>3. \A i \in 1 .. k : i \in 1 .. n
      BY <1>0, <1>1
    <2> QED
      BY <2>2, <2>3 DEF S
  <1>5. CASE ~\E k \in 1 .. n - 1 : w[k + 1] \in R(k)
    <2> DEFINE v == [k \in 1 .. n |-> w[k]]
    <2>1. v \in [1 .. n -> S]
      BY <1>0, <1>1 DEF S
    <2>2. ASSUME NEW i \in 1 .. n, NEW j \in 1 .. n, i < j PROVE v[i] # v[j]
      <3>1. j - 1 \in 1 .. n - 1 /\ i \in 1 .. j - 1 /\ (j - 1) + 1 = j
        BY <1>0, <1>1, <2>2
      <3>2. w[(j - 1) + 1] \notin R(j - 1)
        BY <1>5, <3>1
      <3>3. w[i] \in R(j - 1)
        BY <3>1
      <3> QED
        BY <3>1, <3>2, <3>3
    <2> HIDE DEF v
    <2>3. ASSUME NEW i \in 1 .. n, NEW j \in 1 .. n, v[i] = v[j] PROVE i = j
      <3>1. i \in Nat /\ j \in Nat
        OBVIOUS
      <3> QED
        BY <2>2, <2>3, <3>1
    <2>4. v \in Injection(1 .. n, S)
      BY <2>1, <2>3 DEF Injection, IsInjective
    <2>5. Cardinality(1 .. n) = n
      BY <1>0, <1>1, <1>2, FS_Interval
    <2>6. v \in Surjection(1 .. n, S)
      BY <1>0, <1>1, <2>4, <2>5, FS_Injection DEF S
    <2> QED
      BY <2>6 DEF Surjection, v, S
  <1> QED
    BY <1>4, <1>5

\* What a search finds on its way, from slobfree on: the blocks of the ring, each.
LEMMA RingIs ==
    ASSUME NEW h, Ringed(h.next), h.slobfree \in InRing(h.next)
    PROVE  LET n == Cardinality(InRing(h.next)) IN
           /\ n \in Nat
           /\ Slob!Ring(h) \in [0 .. n -> InRing(h.next)]
           /\ Slob!Ring(h)[0] = h.slobfree
           /\ \A k \in 1 .. n : Slob!Ring(h)[k] = h.next[Slob!Ring(h)[k - 1]]
           /\ \A b \in InRing(h.next) : \E k \in 1 .. n : Slob!Ring(h)[k] = b
  <1> DEFINE nx == h.next
             S == InRing(nx)
             n == Cardinality(S)
             body(f) == [k \in 0 .. n |-> IF k = 0 THEN h.slobfree ELSE h.next[f[k - 1]]]
             step == [a \in S |-> nx[a]]
  <1>1. IsFiniteSet(S) /\ n \in Nat
    <2>1. S \in SUBSET Slob!Addresses
      BY DEF InRing
    <2>2. IsFiniteSet(S)
      BY <2>1, AddressFacts, FS_Subset
    <2> QED
      BY <2>2, FS_CardinalityType
  <1>2. step \in [S -> S] /\ h.slobfree \in S
    BY DEF Ringed
  <1>3. PICK f \in [0 .. n -> S] : f[0] = h.slobfree /\ \A k \in 1 .. n : f[k] = step[f[k - 1]]
    <2> DEFINE a == h.slobfree
    <2>1. a \in S
      BY <1>2
    <2> HIDE DEF step, n, S, a
    <2>2. \E f : Iteration(f, S, a, step, n)
      BY <1>1, <1>2, <2>1, Iterates
    <2> QED
      BY <2>2 DEF Iteration, a
  <1>4. \A k \in 1 .. n : f[k] = nx[f[k - 1]]
    <2>1. ASSUME NEW k \in 1 .. n PROVE f[k - 1] \in S
      <3>1. k - 1 \in 0 .. n
        BY <1>1
      <3> QED
        BY <1>3, <3>1
    <2> QED
      BY <1>3, <2>1
  <1>5. f = body(f)
    <2>1. ASSUME NEW k \in 0 .. n
          PROVE  f[k] = IF k = 0 THEN h.slobfree ELSE h.next[f[k - 1]]
      <3>1. k = 0 \/ k \in 1 .. n
        BY <1>1
      <3>2. CASE k = 0
        BY <1>3, <3>2
      <3>3. CASE k # 0
        BY <1>4, <3>1, <3>3
      <3> QED
        BY <3>2, <3>3
    <2> HIDE DEF n
    <2> QED
      BY <1>3, <2>1
  <1>6. Slob!Ring(h) = CHOOSE g : g = body(g)
    <2>1. {a \in Slob!Addresses : h.next[a] # Slob!Dead} = S
      BY AddressFacts DEF InRing
    <2>2. Slob!Cardinality({a \in Slob!Addresses : h.next[a] # Slob!Dead}) = n
      BY <2>1 DEF Slob!Cardinality, Cardinality
    <2> HIDE DEF n
    <2> QED
      BY <2>2 DEF Slob!Ring
  <1>7. Slob!Ring(h) = body(Slob!Ring(h))
    <2> HIDE DEF body
    <2> QED
      BY <1>5, <1>6
  <1> DEFINE w == Slob!Ring(h)
  <1>8. w = [k \in 0 .. n |-> w[k]]
    BY <1>7
  <1>9. \A k \in 0 .. n : w[k] = IF k = 0 THEN h.slobfree ELSE h.next[w[k - 1]]
    BY <1>7
  <1> HIDE DEF w, body, n
  <1>10. w[0] = h.slobfree /\ \A k \in 1 .. n : w[k] = nx[w[k - 1]]
    BY <1>1, <1>9
  <1>11. \A k \in 0 .. n : w[k] \in S
    <2> DEFINE X == {k \in 0 .. n : w[k] \notin S}
    <2>1. SUFFICES ASSUME X # {} PROVE FALSE
      OBVIOUS
    <2>2. X \subseteq Nat
      OBVIOUS
    <2>3. PICK k \in X : \A y \in X : k <= y
      <3> HIDE DEF X
      <3> QED
        BY <2>1, <2>2, SmallestElement
    <2>4. k \in 0 .. n /\ w[k] \notin S
      BY <2>3
    <2>5. k # 0
      BY <1>2, <1>10, <2>4
    <2>6. k \in 1 .. n /\ k - 1 \in 0 .. n /\ ~(k <= k - 1)
      BY <1>1, <2>4, <2>5
    <2>7. w[k - 1] \in S
      BY <2>3, <2>6
    <2>8. nx[w[k - 1]] \in S
      BY <1>2, <2>7
    <2> QED
      BY <1>10, <2>4, <2>6, <2>8
  <1>12. w \in [0 .. n -> S]
    BY <1>8, <1>11
  <1>13. \A b \in S : \E k \in 1 .. n : w[k] = b
    <2>1. n = Cardinality(InRing(nx)) /\ Ringed(nx)
      BY DEF n
    <2>2. Follows(w, nx, n)
      BY <1>10, <1>12 DEF Follows
    <2> HIDE DEF nx
    <2>3. \A b \in InRing(nx) : \E k \in 1 .. n : w[k] = b
      BY <2>1, <2>2, RingCovers
    <2> QED
      BY <2>3 DEF nx
  <1> QED
    BY <1>1, <1>10, <1>12, <1>13 DEF w, n

\* The first of some places of a search.
LEMMA LeastIs ==
    ASSUME NEW X, X \subseteq Nat, X # {}
    PROVE  Slob!Min(X) \in X /\ \A y \in X : Slob!Min(X) <= y
  <1>1. \E x \in X : \A y \in X : x <= y
    BY SmallestElement
  <1> QED
    BY <1>1 DEF Slob!Min

\* slob_free finds the place of a block: the last one of the ring that is below it.
LEMMA PointIs ==
    ASSUME NEW h, Ringed(h.next), h.slobfree \in InRing(h.next),
           NEW b \in Slob!Addresses \ InRing(h.next)
    PROVE  LET c == Slob!InsertionPoint(h, b) IN
           c \in InRing(h.next) /\ c < b /\ (h.next[c] # 0 => b < h.next[c])
  <1> DEFINE nx == h.next
             S == InRing(nx)
             n == Cardinality(S)
             w == Slob!Ring(h)
             X == {i \in DOMAIN w : Slob!Between(h, b, w[i])}
  <1>1. /\ S \subseteq Nat /\ S \subseteq Slob!Addresses /\ 0 \in S
        /\ b \in Nat /\ b # 0
        /\ \A a \in S : /\ nx[a] \in S
                        /\ nx[a] # 0 => a < nx[a]
                        /\ \A d \in S : a < d => nx[a] # 0 /\ nx[a] <= d
    BY AddressFacts DEF Ringed, InRing
  <1>2. n \in Nat /\ w \in [0 .. n -> S] /\ \A a \in S : \E k \in 1 .. n : w[k] = a
    BY RingIs
  <1>3. PICK p \in S : p < b /\ \A a \in S : a < b => a <= p
    BY <1>1, LastBelow
  <1> HIDE DEF S, n, w
  <1>4. Slob!Between(h, b, p)
    <2>1. nx[p] \in S /\ nx[p] \in Nat /\ p \in Nat /\ nx[p] # b
      BY <1>1 DEF S
    <2>2. nx[p] < b => nx[p] <= p
      BY <1>3, <2>1
    <2> QED
      BY <1>1, <1>3, <2>1, <2>2 DEF Slob!Between
  <1>5. X # {} /\ X \subseteq Nat
    BY <1>2, <1>4
  <1>6. Slob!Min(X) \in X
    <2> HIDE DEF X
    <2> QED
      BY <1>5, LeastIs
  <1> DEFINE c == w[Slob!Min(X)]
  <1>7. Slob!InsertionPoint(h, b) = c
    BY DEF Slob!InsertionPoint, w
  <1>8. c \in S /\ Slob!Between(h, b, c)
    BY <1>2, <1>6
  <1> HIDE DEF c, X
  <1>9. c \in Nat /\ nx[c] \in Nat /\ (nx[c] # 0 => c < nx[c])
    BY <1>1, <1>8
  <1>10. c < b /\ (nx[c] # 0 => b < nx[c])
    <2>1. \/ c < b /\ b < nx[c]
          \/ nx[c] <= c /\ (c < b \/ b < nx[c])
      BY <1>8 DEF Slob!Between
    <2> QED
      BY <1>1, <1>9, <2>1
  <1> QED
    BY <1>7, <1>8, <1>10 DEF S

-----------------------------------------------------------------------------
(* slob_free and slob_alloc *)

\* The blocks of the ring nx and those in X, of so many units, are the memory in W; the
\* end of a block in the ring is not the next one, unless it is that of c.
Nearly(nx, us, X, W, c) ==
    /\ Ringed(nx)
    /\ us[0] = 1
    /\ X \cap InRing(nx) = {}
    /\ Tiles((InRing(nx) \ {0}) \cup X, us, W)
    /\ \A a \in InRing(nx) \ {c} : a + us[a] # nx[a]

HeapStates == [next : [Slob!Addresses -> Slob!Addresses \cup {-1}],
               units : [Slob!Addresses -> Nat], slobfree : Slob!Addresses,
               free : SUBSET Slob!Pages, got : Slob!Addresses \cup {-1}]

\* The state h of the heap has the blocks in X in use, and all the memory in W.
Heaped(h, X, W) ==
    /\ h \in HeapStates
    /\ h.slobfree \in InRing(h.next)
    /\ Nearly(h.next, h.units, X, W, -1)

\* The blocks in Y are the same in both states, as are the free pages and what was got.
Keeps(h, k, Y) ==
    k.free = h.free /\ k.got = h.got /\ \A x \in Y : k.units[x] = h.units[x]

\* A block that goes into the ring after c is merged with the one above it.
LEMMA AboveIs ==
    ASSUME NEW h \in HeapStates, NEW X, NEW W, Nearly(h.next, h.units, X, W, -1), NEW b \in X,
           NEW c \in InRing(h.next), c < b, h.next[c] # 0 => b < h.next[c]
    PROVE  LET v == Slob!Above(h, b, h.next[c])
               r == [v.next EXCEPT ![c] = b]
           IN /\ v \in HeapStates
              /\ Nearly(r, v.units, X \ {b}, W, c)
              /\ c \in InRing(r) /\ b \in InRing(r)
              /\ v.units[b] >= h.units[b]
              /\ Keeps(h, v, X \ {b})
  <1> DEFINE A == Slob!Addresses
             nx == h.next
             us == h.units
             S == InRing(nx)
             o == nx[c]
             Z == (S \ {0}) \cup X
             v == Slob!Above(h, b, o)
             r == [v.next EXCEPT ![c] = b]
             r1 == [nx EXCEPT ![b] = nx[c], ![c] = b]
  <1>1. /\ A \subseteq Nat /\ 0 \in A /\ -1 \notin A /\ S \subseteq A /\ 0 \in S
        /\ nx \in [A -> A \cup {-1}] /\ us \in [A -> Nat]
        /\ \A a \in S : nx[a] \in S /\ (nx[a] # 0 => a < nx[a])
        /\ Ringed(nx) /\ us[0] = 1 /\ X \cap S = {} /\ Tiles(Z, us, W)
        /\ Z \subseteq A \ {0}
        /\ \A a \in S : a + us[a] # nx[a]
    BY AddressFacts DEF Nearly, Ringed, InRing, Tiles, HeapStates
  <1>2. /\ c \in S /\ c \in A /\ b \in Z /\ b \in A /\ b \notin S /\ o \in S /\ o \in A
        /\ b \in Nat /\ c \in Nat /\ o \in Nat /\ b > 0 /\ b # c /\ o # b
        /\ us[b] \in Nat /\ us[o] \in Nat
    <2>1. c \in S /\ b \in Z /\ b \notin S /\ o \in S
      BY <1>1
    <2>2. c \in A /\ b \in A /\ b # 0 /\ o \in A
      BY <1>1, <2>1
    <2> HIDE DEF A, S, Z, o, us, nx
    <2> QED
      BY <1>1, <2>1, <2>2
  <1>3. Ringed(r1) /\ InRing(r1) = S \cup {b}
    <2>1. b \in A \ InRing(nx) /\ (nx[c] # 0 => b < nx[c])
      BY <1>2
    <2> HIDE DEF nx, r1
    <2> QED
      BY <1>1, <1>2, <2>1, PutRing DEF r1
  <1>4. r1[b] = o /\ r1[c] = b /\ \A a \in A \ {b, c} : r1[a] = nx[a]
    BY <1>1, <1>2
  <1>5. CASE b + us[b] = o
    <2> DEFINE r2 == [r1 EXCEPT ![b] = r1[o], ![o] = -1]
               vs == [us EXCEPT ![b] = us[b] + us[o], ![o] = 0]
    <2>1. o # 0 /\ o # c /\ o \in Z /\ o \notin X
      BY <1>1, <1>2, <1>5
    <2>2. Ringed(r2) /\ InRing(r2) = (S \cup {b}) \ {o}
      <3>1. b \in InRing(r1) /\ o = r1[b]
        BY <1>3, <1>4
      <3> HIDE DEF r1, o, S
      <3> QED
        BY <1>3, <2>1, <3>1, DropRing
    <2>3. Tiles(Z \ {o}, vs, W)
      <3> HIDE DEF Z, us, o
      <3> QED
        BY <1>1, <1>2, <1>5, <2>1, FuseTiles
    <2>4. v = [h EXCEPT !.next = [nx EXCEPT ![b] = nx[o], ![o] = -1], !.units = vs]
      <3>1. v = [h EXCEPT !.next[b] = h.next[o], !.next[o] = Slob!Dead,
                          !.units[b] = @ + h.units[o], !.units[o] = 0]
        BY <1>5 DEF Slob!Above
      <3> QED
        BY <1>1, <1>2, <3>1, AddressFacts DEF HeapStates
    <2>5. /\ v.next = [nx EXCEPT ![b] = nx[o], ![o] = -1] /\ v.units = vs
          /\ v.slobfree = h.slobfree /\ v.free = h.free /\ v.got = h.got
      BY <2>4 DEF HeapStates
    <2> HIDE DEF v
    <2>6. /\ vs \in [A -> Nat] /\ vs[b] = us[b] + us[o] /\ vs[0] = 1
          /\ \A a \in A \ {b, o} : vs[a] = us[a]
      BY <1>1, <1>2, <2>1
    <2>7. v \in HeapStates
      <3>1. v.next \in [A -> A \cup {-1}]
        BY <1>1, <1>2, <2>5
      <3> HIDE DEF vs
      <3>2. v = [next |-> v.next, units |-> vs, slobfree |-> h.slobfree, free |-> h.free,
                 got |-> h.got]
        BY <2>4, <2>5 DEF HeapStates
      <3> QED
        BY <2>6, <3>1, <3>2 DEF HeapStates
    <2>8. r = r2
      <3>1. r \in [A -> A \cup {-1}] /\ r2 \in [A -> A \cup {-1}]
        BY <1>1, <1>2, <2>5
      <3>2. ASSUME NEW a \in A PROVE r[a] = r2[a]
        <4>1. r1[o] = nx[o]
          BY <1>2, <1>4, <2>1
        <4>2. CASE a = b \/ a = c \/ a = o
          BY <1>1, <1>2, <1>4, <2>1, <2>5, <4>1, <4>2
        <4>3. CASE a # b /\ a # c /\ a # o
          BY <1>1, <1>2, <1>4, <2>1, <2>5, <4>1, <4>3
        <4> QED
          BY <4>2, <4>3
      <3> HIDE DEF r, r2
      <3> QED
        BY <3>1, <3>2
    <2>9. r[b] = nx[o] /\ r[c] = b /\ \A a \in S \ {c, o} : r[a] = nx[a]
      BY <1>1, <1>2, <1>4, <2>1, <2>5
    <2> HIDE DEF r, r2, vs, r1
    <2>10. ASSUME NEW a \in InRing(r) \ {c} PROVE a + vs[a] # r[a]
      <3>1. CASE a = b
        <4>1. o + us[o] # nx[o]
          BY <1>1, <1>2
        <4> QED
          BY <1>2, <1>5, <2>6, <2>9, <3>1, <4>1
      <3>2. CASE a # b
        <4>1. a \in S \ {c, o}
          BY <2>2, <2>8, <3>2
        <4>2. a \in A \ {b, o}
          BY <1>1, <3>2, <4>1
        <4>3. vs[a] = us[a] /\ r[a] = nx[a] /\ a + us[a] # nx[a]
          BY <1>1, <2>6, <2>9, <4>1, <4>2
        <4> QED
          BY <4>3
      <3> QED
        BY <3>1, <3>2
    <2>11. (InRing(r) \ {0}) \cup (X \ {b}) = Z \ {o}
      BY <1>1, <1>2, <2>1, <2>2, <2>8
    <2>12. (X \ {b}) \cap InRing(r) = {}
      BY <1>1, <2>2, <2>8
    <2>13. Nearly(r, v.units, X \ {b}, W, c)
      BY <2>2, <2>3, <2>5, <2>6, <2>8, <2>10, <2>11, <2>12 DEF Nearly
    <2>14. c \in InRing(r) /\ b \in InRing(r)
      BY <1>2, <2>1, <2>2, <2>8
    <2>15. \A x \in X \ {b} : vs[x] = us[x]
      BY <1>1, <2>1, <2>6
    <2>16. v.units[b] >= us[b]
      BY <1>2, <2>5, <2>6
    <2>17. Keeps(h, v, X \ {b})
      BY <2>5, <2>15 DEF Keeps
    <2> QED
      BY <2>7, <2>13, <2>14, <2>16, <2>17 DEF v, r
  <1>6. CASE b + us[b] # o
    <2>1. v = [h EXCEPT !.next = [nx EXCEPT ![b] = o]]
      BY <1>6 DEF Slob!Above
    <2>2. /\ v.next = [nx EXCEPT ![b] = o] /\ v.units = us
          /\ v.slobfree = h.slobfree /\ v.free = h.free /\ v.got = h.got
      BY <2>1 DEF HeapStates
    <2>3. v \in HeapStates
      <3>1. v.next \in [A -> A \cup {-1}]
        BY <1>1, <1>2, <2>2
      <3>2. v = [next |-> v.next, units |-> us, slobfree |-> h.slobfree, free |-> h.free,
                 got |-> h.got]
        BY <2>1, <2>2 DEF HeapStates
      <3> HIDE DEF v
      <3> QED
        BY <1>1, <3>1, <3>2 DEF HeapStates
    <2> HIDE DEF v
    <2>4. r = r1
      BY <1>1, <1>2, <2>2
    <2> HIDE DEF r, r1
    <2>5. ASSUME NEW a \in InRing(r) \ {c} PROVE a + us[a] # r[a]
      <3>1. CASE a = b
        BY <1>4, <1>6, <2>4, <3>1
      <3>2. CASE a # b
        <4>1. a \in S \ {c} /\ a \in A \ {b, c}
          BY <1>1, <1>3, <2>4, <3>2
        <4> QED
          BY <1>1, <1>4, <2>4, <4>1
      <3> QED
        BY <3>1, <3>2
    <2>6. (InRing(r) \ {0}) \cup (X \ {b}) = Z
      BY <1>2, <1>3, <2>4
    <2>7. (X \ {b}) \cap InRing(r) = {}
      BY <1>1, <1>3, <2>4
    <2>8. Nearly(r, v.units, X \ {b}, W, c)
      BY <1>1, <1>3, <2>2, <2>4, <2>5, <2>6, <2>7 DEF Nearly
    <2>9. c \in InRing(r) /\ b \in InRing(r)
      BY <1>2, <1>3, <2>4
    <2> QED
      BY <1>2, <2>2, <2>3, <2>8, <2>9 DEF Keeps, v, r
  <1> QED
    BY <1>5, <1>6

\* It is merged with the block c below it.
LEMMA BelowIs ==
    ASSUME NEW h \in HeapStates, NEW Y, NEW W, NEW b \in Slob!Addresses,
           NEW c \in Slob!Addresses, c < b,
           NEW r, r = [h.next EXCEPT ![c] = b], Nearly(r, h.units, Y, W, c),
           c \in InRing(r), b \in InRing(r)
    PROVE  LET k == Slob!Below(h, b, c)
           IN /\ Heaped(k, Y, W)
              /\ Keeps(h, k, Y)
              /\ \E a \in InRing(k.next) : k.units[a] >= h.units[b]
  <1> DEFINE A == Slob!Addresses
             nx == h.next
             us == h.units
             S == InRing(r)
             Z == (S \ {0}) \cup Y
             k == Slob!Below(h, b, c)
  <1>1. /\ A \subseteq Nat /\ 0 \in A /\ 1 \notin A /\ -1 \notin A /\ S \subseteq A /\ 0 \in S
        /\ nx \in [A -> A \cup {-1}] /\ us \in [A -> Nat]
        /\ \A a \in S : r[a] \in S
        /\ Ringed(r) /\ us[0] = 1 /\ Y \cap S = {} /\ Tiles(Z, us, W)
        /\ Z \subseteq A \ {0}
        /\ \A a \in S \ {c} : a + us[a] # r[a]
    BY AddressFacts DEF Nearly, Ringed, InRing, Tiles, HeapStates
  <1>2. /\ c \in S /\ b \in S /\ b \in Nat /\ c \in Nat /\ b > 0 /\ b # c
        /\ us[b] \in Nat /\ us[c] \in Nat /\ r[c] = b /\ r[b] = nx[b]
    BY <1>1
  <1>3. CASE c + us[c] = b
    <2> DEFINE r2 == [r EXCEPT ![c] = r[b], ![b] = -1]
               vs == [us EXCEPT ![c] = us[c] + us[b], ![b] = 0]
    <2>1. c # 0 /\ c \in Z /\ b \in Z
      BY <1>1, <1>2, <1>3
    <2>2. Ringed(r2) /\ InRing(r2) = S \ {b}
      <3>1. b = r[c] /\ b # 0
        BY <1>2
      <3> HIDE DEF r2
      <3> QED
        BY <1>1, <1>2, <3>1, DropRing DEF r2
    <2>3. Tiles(Z \ {b}, vs, W)
      <3> HIDE DEF Z, us
      <3> QED
        BY <1>1, <1>2, <1>3, <2>1, FuseTiles
    <2>4. k = [h EXCEPT !.next = [nx EXCEPT ![c] = nx[b], ![b] = -1], !.units = vs,
                        !.slobfree = c]
      <3>1. k = [h EXCEPT !.next[c] = h.next[b], !.next[b] = Slob!Dead,
                          !.units[c] = @ + h.units[b], !.units[b] = 0, !.slobfree = c]
        BY <1>3 DEF Slob!Below
      <3> QED
        BY <1>1, <1>2, <3>1, AddressFacts DEF HeapStates
    <2>5. /\ k.next = [nx EXCEPT ![c] = nx[b], ![b] = -1] /\ k.units = vs
          /\ k.slobfree = c /\ k.free = h.free /\ k.got = h.got
      BY <2>4 DEF HeapStates
    <2>6. /\ vs \in [A -> Nat] /\ vs[c] = us[c] + us[b] /\ vs[0] = 1
          /\ \A a \in A \ {b, c} : vs[a] = us[a]
      BY <1>1, <1>2, <2>1
    <2> HIDE DEF k
    <2>7. k \in HeapStates
      <3>1. k.next \in [A -> A \cup {-1}]
        BY <1>1, <1>2, <2>5
      <3> HIDE DEF vs
      <3>2. k = [next |-> k.next, units |-> vs, slobfree |-> c, free |-> h.free,
                 got |-> h.got]
        BY <2>4, <2>5 DEF HeapStates
      <3> QED
        BY <2>6, <3>1, <3>2 DEF HeapStates
    <2>8. k.next = r2
      <3>1. k.next \in [A -> A \cup {-1}] /\ r2 \in [A -> A \cup {-1}]
        BY <1>1, <1>2, <2>5
      <3>2. ASSUME NEW a \in A PROVE k.next[a] = r2[a]
        <4>1. CASE a = b \/ a = c
          BY <1>1, <1>2, <2>5, <4>1
        <4>2. CASE a # b /\ a # c
          BY <1>1, <1>2, <2>5, <4>2
        <4> QED
          BY <4>1, <4>2
      <3> HIDE DEF r2
      <3> QED
        BY <3>1, <3>2
    <2>9. r2[c] = r[b] /\ \A a \in S \ {b, c} : r2[a] = r[a]
      BY <1>1, <1>2
    <2> HIDE DEF r2, vs
    <2>10. ASSUME NEW a \in InRing(r2) \ {-1} PROVE a + vs[a] # r2[a]
      <3>1. CASE a = c
        <4>1. b + us[b] # r[b]
          BY <1>1, <1>2
        <4> QED
          BY <1>2, <1>3, <2>6, <2>9, <3>1, <4>1
      <3>2. CASE a # c
        <4>1. a \in S \ {b, c}
          BY <2>2, <3>2
        <4>2. a \in A \ {b, c}
          BY <1>1, <4>1
        <4>3. vs[a] = us[a] /\ r2[a] = r[a] /\ a + us[a] # r[a]
          BY <1>1, <2>6, <2>9, <4>1, <4>2
        <4> QED
          BY <4>3
      <3> QED
        BY <3>1, <3>2
    <2>11. (InRing(r2) \ {0}) \cup Y = Z \ {b}
      BY <1>1, <1>2, <2>2
    <2>12. Y \cap InRing(r2) = {}
      BY <1>1, <2>2
    <2>13. Nearly(k.next, k.units, Y, W, -1)
      BY <2>2, <2>3, <2>5, <2>6, <2>8, <2>10, <2>11, <2>12 DEF Nearly
    <2>14. c \in InRing(k.next) /\ k.units[c] >= us[b]
      BY <1>2, <2>2, <2>5, <2>6, <2>8
    <2>15. ASSUME NEW x \in Y PROVE vs[x] = us[x]
      <3>1. x \in A /\ x \notin S
        BY <1>1
      <3> QED
        BY <1>2, <2>6, <3>1
    <2> QED
      BY <2>5, <2>7, <2>13, <2>14, <2>15 DEF Keeps, Heaped, k
  <1>4. CASE c + us[c] # b
    <2>1. k = [h EXCEPT !.next = [nx EXCEPT ![c] = b], !.slobfree = c]
      BY <1>4 DEF Slob!Below
    <2>2. /\ k.next = r /\ k.units = us /\ k.slobfree = c /\ k.free = h.free /\ k.got = h.got
      BY <2>1 DEF HeapStates
    <2>3. k \in HeapStates
      <3>1. r \in [A -> A \cup {-1}]
        BY <1>1
      <3>2. k = [next |-> r, units |-> us, slobfree |-> c, free |-> h.free, got |-> h.got]
        BY <2>1, <2>2 DEF HeapStates
      <3> HIDE DEF k
      <3> QED
        BY <1>1, <3>1, <3>2 DEF HeapStates
    <2> HIDE DEF k
    <2>4. \A a \in S \ {-1} : a + us[a] # r[a]
      BY <1>1, <1>2, <1>4
    <2>5. Nearly(k.next, k.units, Y, W, -1)
      BY <1>1, <2>2, <2>4 DEF Nearly
    <2>6. k.units[b] >= us[b]
      BY <1>2, <2>2
    <2> QED
      BY <1>2, <2>2, <2>3, <2>5, <2>6 DEF Keeps, Heaped, k
  <1> QED
    BY <1>3, <1>4

\* slob_free puts a block that is in use into the ring.
LEMMA InsertIs ==
    ASSUME NEW h, NEW X, NEW W, Heaped(h, X, W), NEW b \in X
    PROVE  LET k == Slob!Insert(h, b, Slob!InsertionPoint(h, b))
           IN /\ Heaped(k, X \ {b}, W)
              /\ Keeps(h, k, X \ {b})
              /\ \E a \in InRing(k.next) : k.units[a] >= h.units[b]
  <1> DEFINE c == Slob!InsertionPoint(h, b)
             v == Slob!Above(h, b, h.next[c])
             k == Slob!Below(v, b, c)
             r == [v.next EXCEPT ![c] = b]
  <1>1. /\ h \in HeapStates /\ Ringed(h.next) /\ h.slobfree \in InRing(h.next)
        /\ Nearly(h.next, h.units, X, W, -1) /\ b \in Slob!Addresses \ InRing(h.next)
    BY DEF Heaped, Nearly, Tiles
  <1>2. /\ c \in InRing(h.next) /\ c < b /\ (h.next[c] # 0 => b < h.next[c])
        /\ c \in Slob!Addresses
    BY <1>1, PointIs DEF InRing
  <1>3. Slob!Insert(h, b, c) = k
    BY DEF Slob!Insert
  <1> HIDE DEF c
  <1>4. /\ v \in HeapStates /\ Nearly(r, v.units, X \ {b}, W, c)
        /\ c \in InRing(r) /\ b \in InRing(r)
        /\ v.units[b] >= h.units[b] /\ Keeps(h, v, X \ {b})
    BY <1>1, <1>2, AboveIs
  <1> HIDE DEF v
  <1>5. /\ Heaped(k, X \ {b}, W) /\ Keeps(v, k, X \ {b})
        /\ \E a \in InRing(k.next) : k.units[a] >= v.units[b]
    BY <1>1, <1>2, <1>4, BelowIs
  <1> HIDE DEF k
  <1>6. PICK a \in InRing(k.next) : k.units[a] >= v.units[b]
    BY <1>5
  <1>7. k.units[a] \in Nat /\ v.units[b] \in Nat /\ h.units[b] \in Nat
    BY <1>1, <1>4, <1>5, <1>6 DEF Heaped, HeapStates, InRing
  <1>8. k.units[a] >= h.units[b]
    BY <1>4, <1>6, <1>7
  <1>9. Keeps(h, k, X \ {b})
    BY <1>4, <1>5 DEF Keeps
  <1> QED
    BY <1>3, <1>5, <1>8, <1>9 DEF c

\* From h, a block of n units has been taken into use.
Taken(h, k, X, W, n) ==
    /\ Heaped(k, X \cup {k.got}, W)
    /\ k.got \in Slob!Addresses \ {0} /\ k.got \notin X
    /\ k.units[k.got] = n
    /\ k.free = h.free
    /\ \A x \in X : k.units[x] = h.units[x]

\* slob_alloc takes the block that follows p in the ring, or n units of it.
LEMMA TakeIs ==
    ASSUME NEW h, NEW X, NEW W, Heaped(h, X, W), NEW n \in Nat, n > 0,
           NEW p \in InRing(h.next), NEW q, q = h.next[p], q # 0, h.units[q] >= n
    PROVE  Taken(h, Slob!Take(h, p, q, n), X, W, n)
  <1> DEFINE A == Slob!Addresses
             nx == h.next
             us == h.units
             S == InRing(nx)
             Z == (S \ {0}) \cup X
             e == nx[q]
             d == [nx EXCEPT ![p] = e, ![q] = -1]
             k == Slob!Take(h, p, q, n)
  <1>0. h \in HeapStates /\ Ringed(nx)
    BY DEF Heaped, Nearly
  <1>1. /\ A \subseteq Nat /\ 0 \in A /\ -1 \notin A /\ S \subseteq A /\ 0 \in S
        /\ nx \in [A -> A \cup {-1}] /\ us \in [A -> Nat]
        /\ \A a \in S : nx[a] \in S /\ (nx[a] # 0 => a < nx[a])
        /\ us[0] = 1 /\ X \cap S = {} /\ Tiles(Z, us, W) /\ Z \subseteq A \ {0}
        /\ W \subseteq A \ {0}
        /\ \A a, b \in Z : a < b => a + us[a] <= b
        /\ \A a \in Z : us[a] > 0
        /\ \A a \in S : a + us[a] # nx[a]
    BY <1>0, AddressFacts DEF Heaped, Nearly, Ringed, InRing, Tiles, HeapStates
  <1>2. p \in S /\ q \in S /\ e \in S /\ p < q /\ (e # 0 => q < e) /\ q \in Z /\ q \notin X
    BY <1>1
  <1>3. p \in Nat /\ q \in Nat /\ e \in Nat /\ us[p] \in Nat /\ us[q] \in Nat
        /\ p \in A /\ q \in A /\ e \in A /\ p # q /\ e # q
    <2>1. p \in A /\ q \in A /\ e \in A
      BY <1>1, <1>2
    <2> HIDE DEF A, S, Z, e, us, nx
    <2> QED
      BY <1>1, <1>2, <2>1
  <1>4. p + us[p] <= q /\ us[p] > 0
    <2>1. CASE p = 0
      BY <1>1, <1>2, <1>3, <2>1
    <2>2. CASE p # 0
      <3>1. p \in Z
        BY <1>2, <2>2
      <3> HIDE DEF Z, S, A, us
      <3> QED
        BY <1>1, <1>2, <3>1
    <2> QED
      BY <2>1, <2>2
  <1>5. e # 0 => q + us[q] <= e
    <2>1. e # 0 => e \in Z
      BY <1>2
    <2> HIDE DEF Z, S, A, us, e
    <2> QED
      BY <1>1, <1>2, <2>1
  <1>6. Ringed(d) /\ InRing(d) = S \ {q}
    <2> HIDE DEF d, nx
    <2> QED
      BY <1>0, <1>2, DropRing DEF d, nx
  <1>7. /\ d \in [A -> A \cup {-1}] /\ d[p] = e /\ d[q] = -1
        /\ \A a \in A \ {p, q} : d[a] = nx[a]
    BY <1>1, <1>3
  <1>8. CASE us[q] = n
    <2>1. k = [h EXCEPT !.next = d, !.slobfree = p, !.got = q]
      <3>1. k = [[h EXCEPT !.next = [@ EXCEPT ![p] = h.next[q], ![q] = Slob!Dead]]
                    EXCEPT !.slobfree = p, !.got = q]
        BY <1>8 DEF Slob!Take, Slob!Unlink
      <3>2. [h EXCEPT !.next = [@ EXCEPT ![p] = h.next[q], ![q] = Slob!Dead]]
                = [h EXCEPT !.next = d]
        BY AddressFacts, <1>0 DEF HeapStates
      <3> HIDE DEF d
      <3> QED
        BY <1>0, <3>1, <3>2 DEF HeapStates
    <2>2. k.next = d /\ k.units = us /\ k.slobfree = p /\ k.free = h.free /\ k.got = q
      BY <1>0, <2>1 DEF HeapStates
    <2>3. k \in HeapStates
      <3> HIDE DEF d, k
      <3>1. k = [next |-> d, units |-> us, slobfree |-> p, free |-> h.free, got |-> q]
        BY <1>0, <2>1 DEF HeapStates
      <3> QED
        BY <1>0, <1>1, <1>3, <1>7, <3>1 DEF HeapStates
    <2> HIDE DEF k, d
    <2>4. ASSUME NEW a \in InRing(d) \ {-1} PROVE a + us[a] # d[a]
      <3>1. CASE a = p
        <4>1. p + us[p] # e
          BY <1>2, <1>3, <1>4
        <4> QED
          BY <1>7, <3>1, <4>1
      <3>2. CASE a # p
        <4>1. a \in S /\ a \in A \ {p, q}
          BY <1>1, <1>6, <3>2
        <4> QED
          BY <1>1, <1>7, <4>1
      <3> QED
        BY <3>1, <3>2
    <2>5. (InRing(d) \ {0}) \cup (X \cup {q}) = Z
      BY <1>2, <1>6
    <2>6. (X \cup {q}) \cap InRing(d) = {}
      BY <1>1, <1>6
    <2>7. Nearly(k.next, k.units, X \cup {q}, W, -1)
      <3> HIDE DEF Z
      <3> QED
        BY <1>1, <1>6, <2>2, <2>4, <2>5, <2>6 DEF Nearly
    <2>8. k.slobfree \in InRing(k.next)
      BY <1>2, <1>3, <1>6, <2>2
    <2>9. Heaped(k, X \cup {k.got}, W)
      BY <2>2, <2>3, <2>7, <2>8 DEF Heaped
    <2>10. Taken(h, k, X, W, n)
      BY <1>2, <1>3, <1>8, <2>2, <2>9 DEF Taken
    <2> QED
      BY <2>10 DEF k
  <1>9. CASE us[q] # n
    <2> DEFINE m == q + n
               vs == [us EXCEPT ![m] = us[q] - n, ![q] = n]
               r == [d EXCEPT ![m] = d[p], ![p] = m]
    <2>1. n < us[q]
      BY <1>3, <1>9
    <2>2. m \in W \ Z /\ Tiles(Z \cup {m}, vs, W)
      <3>1. m = q + n
        OBVIOUS
      <3>2. Tiles(Z, us, W) /\ q \in Z /\ 0 < n
        BY <1>1, <1>2
      <3>3. vs = Cut(us, q, n)
        BY DEF Cut
      <3> HIDE DEF Z, us, m, vs
      <3>4. q + n \in W \ Z /\ Tiles(Z \cup {q + n}, Cut(us, q, n), W)
        BY <2>1, <3>2, CutTiles
      <3> QED
        BY <3>1, <3>3, <3>4
    <2>3. m \in A /\ m # 0 /\ m \notin S /\ m \notin X /\ m \in Nat /\ q < m /\ p < m
      <3>1. m \in A /\ m # 0 /\ m \notin S /\ m \notin X
        BY <1>1, <2>2
      <3> QED
        BY <1>2, <1>3, <3>1
    <2>4. Ringed(r) /\ InRing(r) = (S \ {q}) \cup {m}
      <3>1. p \in InRing(d) /\ m \in A \ InRing(d)
        BY <1>2, <1>3, <1>6, <2>3
      <3>2. d[p] # 0 => m < d[p]
        BY <1>3, <1>5, <1>7, <2>1
      <3> HIDE DEF d, m, r
      <3> QED
        BY <1>6, <2>3, <3>1, <3>2, PutRing DEF r
    <2>5. k = [h EXCEPT !.next = [nx EXCEPT ![p] = m, ![m] = e, ![q] = -1], !.units = vs,
                        !.slobfree = p, !.got = q]
      <3>1. k = [[h EXCEPT !.next = [@ EXCEPT ![p] = q + n, ![q + n] = h.next[q],
                                              ![q] = Slob!Dead],
                           !.units = [@ EXCEPT ![q + n] = h.units[q] - n, ![q] = n]]
                    EXCEPT !.slobfree = p, !.got = q]
        BY <1>9 DEF Slob!Take, Slob!Fragment
      <3> DEFINE y == [nx EXCEPT ![p] = m, ![m] = e, ![q] = -1]
      <3>2. [h EXCEPT !.next = [@ EXCEPT ![p] = q + n, ![q + n] = h.next[q],
                                         ![q] = Slob!Dead],
                      !.units = [@ EXCEPT ![q + n] = h.units[q] - n, ![q] = n]]
                = [h EXCEPT !.next = y, !.units = vs]
        BY AddressFacts, <1>0 DEF HeapStates
      <3>3. k = [[h EXCEPT !.next = y, !.units = vs] EXCEPT !.slobfree = p, !.got = q]
        BY <3>1, <3>2
      <3> HIDE DEF y, vs
      <3>4. k = [h EXCEPT !.next = y, !.units = vs, !.slobfree = p, !.got = q]
        BY <1>0, <3>3 DEF HeapStates
      <3> QED
        BY <3>4 DEF y
    <2>6. /\ k.next = [nx EXCEPT ![p] = m, ![m] = e, ![q] = -1] /\ k.units = vs
          /\ k.slobfree = p /\ k.free = h.free /\ k.got = q
      <3> HIDE DEF vs, m
      <3> QED
        BY <1>0, <2>5 DEF HeapStates
    <2> HIDE DEF k
    <2>7. /\ vs \in [A -> Nat] /\ vs[m] = us[q] - n /\ vs[q] = n
          /\ \A a \in A \ {q, m} : vs[a] = us[a]
      <3>1. us[q] - n \in Nat
        BY <1>3, <2>1
      <3> HIDE DEF m
      <3> QED
        BY <1>1, <1>3, <2>3, <3>1
    <2> HIDE DEF vs
    <2>8. k \in HeapStates
      <3>1. k.next \in [A -> A \cup {-1}]
        <4> HIDE DEF m
        <4> QED
          BY <1>1, <1>3, <2>3, <2>6
      <3>2. k = [next |-> k.next, units |-> vs, slobfree |-> p, free |-> h.free, got |-> q]
        BY <1>0, <2>5, <2>6 DEF HeapStates
      <3> QED
        BY <1>0, <1>3, <2>7, <3>1, <3>2 DEF HeapStates
    <2> HIDE DEF m
    <2>9. k.next = r
      <3>1. k.next \in [A -> A \cup {-1}] /\ r \in [A -> A \cup {-1}]
        BY <1>1, <1>3, <1>7, <2>3, <2>6
      <3>2. ASSUME NEW a \in A PROVE k.next[a] = r[a]
        <4>1. CASE a = p \/ a = q \/ a = m
          BY <1>1, <1>3, <1>7, <2>3, <2>6, <4>1
        <4>2. CASE a # p /\ a # q /\ a # m
          BY <1>1, <1>3, <1>7, <2>3, <2>6, <4>2
        <4> QED
          BY <4>1, <4>2
      <3> HIDE DEF r
      <3> QED
        BY <3>1, <3>2
    <2>10. r[m] = e /\ r[p] = m /\ \A a \in S \ {p, q} : r[a] = nx[a]
      BY <1>1, <1>3, <1>7, <2>3
    <2> HIDE DEF r, d
    <2>11. ASSUME NEW a \in InRing(r) \ {-1} PROVE a + vs[a] # r[a]
      <3>1. CASE a = p
        <4>1. vs[p] = us[p]
          BY <1>3, <2>3, <2>7
        <4>2. p + us[p] # m
          BY <1>3, <1>4, <2>3
        <4> QED
          BY <2>10, <3>1, <4>1, <4>2
      <3>2. CASE a = m
        <4>1. m + (us[q] - n) = q + us[q]
          BY <1>3 DEF m
        <4>2. q + us[q] # e
          BY <1>1, <1>2
        <4> QED
          BY <2>7, <2>10, <3>2, <4>1, <4>2
      <3>3. CASE a # p /\ a # m
        <4>1. a \in S \ {p, q} /\ a \in A \ {q, m}
          BY <1>1, <2>4, <3>3
        <4> QED
          BY <1>1, <2>7, <2>10, <4>1
      <3> QED
        BY <3>1, <3>2, <3>3
    <2>12. (InRing(r) \ {0}) \cup (X \cup {q}) = Z \cup {m}
      BY <1>2, <2>3, <2>4
    <2>13. (X \cup {q}) \cap InRing(r) = {}
      BY <1>1, <2>3, <2>4
    <2>14. vs[0] = 1
      BY <1>1, <1>2, <2>3, <2>7
    <2>15. Nearly(k.next, k.units, X \cup {q}, W, -1)
      <3> HIDE DEF Z
      <3> QED
        BY <2>2, <2>4, <2>6, <2>9, <2>11, <2>12, <2>13, <2>14 DEF Nearly
    <2>16. k.slobfree \in InRing(k.next)
      BY <1>2, <1>3, <2>4, <2>6, <2>9
    <2>17. Heaped(k, X \cup {k.got}, W)
      BY <2>6, <2>8, <2>15, <2>16 DEF Heaped
    <2>18. ASSUME NEW x \in X PROVE vs[x] = us[x]
      <3>1. x \in A /\ x # q /\ x # m
        BY <1>1, <1>2, <2>3
      <3> QED
        BY <2>7, <3>1
    <2>19. Taken(h, k, X, W, n)
      BY <1>2, <1>3, <2>6, <2>7, <2>17, <2>18 DEF Taken
    <2> QED
      BY <2>19 DEF k
  <1> QED
    BY <1>8, <1>9

\* slob_alloc takes the first block that is large enough, and never the arena.
LEMMA FirstFitTakes ==
    ASSUME NEW h, NEW X, NEW W, Heaped(h, X, W), NEW n \in Nat, n > 1,
           Slob!Enough(h, n) # {}
    PROVE  Taken(h, Slob!FirstFit(h, n), X, W, n)
  <1> DEFINE S == InRing(h.next)
             c == Cardinality(S)
             w == Slob!Ring(h)
             i == Slob!Min(Slob!Enough(h, n))
  <1>1. Ringed(h.next) /\ h.slobfree \in S /\ h.units[0] = 1
    BY DEF Heaped, Nearly
  <1>2. /\ c \in Nat /\ w \in [0 .. c -> S] /\ \A k \in 1 .. c : w[k] = h.next[w[k - 1]]
    BY <1>1, RingIs
  <1> HIDE DEF c, w, S
  <1>3. Slob!Enough(h, n) = {j \in (0 .. c) \ {0} : h.units[w[j]] >= n}
    BY <1>2 DEF Slob!Enough, w
  <1>4. Slob!Enough(h, n) \subseteq Nat
    BY <1>2, <1>3
  <1>5. i \in Slob!Enough(h, n)
    BY <1>4, LeastIs
  <1> HIDE DEF i
  <1>6. i \in 1 .. c /\ i - 1 \in 0 .. c /\ i \in 0 .. c /\ h.units[w[i]] >= n
    BY <1>2, <1>3, <1>5
  <1>7. w[i - 1] \in S /\ w[i] = h.next[w[i - 1]] /\ w[i] # 0
    BY <1>1, <1>2, <1>6
  <1>8. Taken(h, Slob!Take(h, w[i - 1], w[i], n), X, W, n)
    BY <1>6, <1>7, TakeIs DEF S
  <1>9. Slob!FirstFit(h, n) = Slob!Take(h, w[i - 1], w[i], n)
    BY DEF Slob!FirstFit, w, i
  <1> QED
    BY <1>8, <1>9

\* So many bytes need so many units.
LEMMA UnitsIs ==
    ASSUME NEW size \in Nat
    PROVE  /\ Slob!SLOB_UNITS(size) \in Nat
           /\ \A m \in Nat : Slob!SLOB_UNITS(size) <= m <=> size <= m * SLOB_UNIT
  <1> DEFINE s == size + SLOB_UNIT - 1
  <1>1. s \in Nat /\ SLOB_UNIT \in Nat /\ SLOB_UNIT > 0
    BY AddressFacts
  <1>2. s \div SLOB_UNIT \in Nat
    <2> HIDE DEF s
    <2> QED
      BY <1>1
  <1>3. ASSUME NEW m \in Nat PROVE s \div SLOB_UNIT <= m <=> size <= m * SLOB_UNIT
    <2>1. s \div SLOB_UNIT <= m <=> s < (m + 1) * SLOB_UNIT
      <3> HIDE DEF s
      <3> QED
        BY <1>1
    <2>2. (m + 1) * SLOB_UNIT = m * SLOB_UNIT + SLOB_UNIT /\ m * SLOB_UNIT \in Nat
      BY <1>1
    <2> QED
      BY <1>1, <2>1, <2>2
  <1> QED
    BY <1>2, <1>3 DEF Slob!SLOB_UNITS

\* A page has PageUnits, what is longer than a header and no longer than a page at least
\* two, and a header adds one.
LEMMA UnitsFacts ==
    /\ Slob!SLOB_UNITS(PAGE_SIZE) = Slob!PageUnits
    /\ \A size \in Nat : SLOB_UNIT < size /\ size <= PAGE_SIZE =>
           Slob!SLOB_UNITS(size) > 1 /\ Slob!SLOB_UNITS(size) <= Slob!PageUnits
    /\ \A size \in Nat : Slob!SLOB_UNITS(size + SLOB_UNIT) = Slob!SLOB_UNITS(size) + 1
  <1> DEFINE P == Slob!PageUnits
             B == SLOB_UNIT
             u(size) == Slob!SLOB_UNITS(size)
  <1>1. P \in Nat /\ P >= 2 /\ PAGE_SIZE = P * B /\ B \in Nat /\ B > 0
    BY AddressFacts
  <1> HIDE DEF P, B, u
  <1>2. PAGE_SIZE \in Nat
    BY <1>1
  <1>3. \A size \in Nat : u(size) \in Nat /\ \A m \in Nat : u(size) <= m <=> size <= m * B
    BY UnitsIs DEF u, B
  <1>4. u(PAGE_SIZE) = P
    <2>1. u(PAGE_SIZE) <= P
      BY <1>1, <1>2, <1>3
    <2>2. P - 1 \in Nat /\ ~(PAGE_SIZE <= (P - 1) * B)
      <3>1. (P - 1) * B = P * B - B
        BY <1>1
      <3> QED
        BY <1>1, <1>2, <3>1
    <2>3. ~(u(PAGE_SIZE) <= P - 1)
      BY <1>2, <1>3, <2>2
    <2> QED
      BY <1>1, <1>2, <1>3, <2>1, <2>3
  <1>5. ASSUME NEW size \in Nat, B < size, size <= PAGE_SIZE PROVE u(size) > 1 /\ u(size) <= P
    <2>1. u(size) <= P
      BY <1>1, <1>3, <1>5
    <2>2. u(size) <= 1 <=> size <= 1 * B
      BY <1>3
    <2>3. 1 * B = B
      BY <1>1
    <2>4. u(size) \in Nat
      BY <1>3
    <2> QED
      BY <1>1, <1>5, <2>1, <2>2, <2>3, <2>4
  <1>6. ASSUME NEW size \in Nat PROVE u(size + B) = u(size) + 1
    <2>1. size + B \in Nat /\ u(size) \in Nat /\ u(size + B) \in Nat
      BY <1>1, <1>3
    <2>2. ASSUME NEW m \in Nat PROVE u(size + B) <= m + 1 <=> u(size) <= m
      <3>1. (m + 1) * B = m * B + B /\ m * B \in Nat
        BY <1>1
      <3>2. u(size + B) <= m + 1 <=> size + B <= (m + 1) * B
        BY <1>3, <2>1
      <3>3. u(size) <= m <=> size <= m * B
        BY <1>3
      <3> QED
        BY <1>1, <3>1, <3>2, <3>3
    <2>3. u(size + B) <= u(size) + 1
      BY <2>1, <2>2
    <2>4. u(size + B) # 0
      <3>1. u(size + B) <= 0 <=> size + B <= 0 * B
        BY <1>3, <2>1
      <3>2. 0 * B = 0
        BY <1>1
      <3> QED
        BY <1>1, <2>1, <3>1, <3>2
    <2>5. u(size + B) - 1 \in Nat
      BY <2>1, <2>4
    <2>6. u(size) <= u(size + B) - 1
      BY <2>1, <2>2, <2>5
    <2> QED
      BY <2>1, <2>3, <2>6
  <1> QED
    BY <1>4, <1>5, <1>6 DEF P, B, u

\* Pages lie one after the other.
LEMMA StartOrder ==
    ASSUME NEW f \in Nat, NEW g \in Nat
    PROVE  /\ Slob!Start(f) \in Nat
           /\ Slob!Start(f + 1) = Slob!Start(f) + Slob!PageUnits
           /\ f < g => Slob!Start(f) + Slob!PageUnits <= Slob!Start(g)
  <1> DEFINE P == Slob!PageUnits
  <1>1. P \in Nat
    BY AddressFacts
  <1> HIDE DEF P
  <1>2. f * P \in Nat /\ (f + 1) * P = f * P + P
    BY <1>1
  <1>3. f < g => (f + 1) * P <= g * P
    BY <1>1
  <1> QED
    BY <1>2, <1>3 DEF Slob!Start, P

\* The memory of the pages in G.
Heaps(G) == UNION {Slob!Start(g) .. Slob!Start(g + 1) - 1 : g \in G}

\* A page is memory, and no part of other pages.
LEMMA PageFacts ==
    ASSUME NEW g \in Slob!Pages
    PROVE  /\ Slob!Start(g) \in Nat /\ Slob!Start(g) > 0
           /\ Slob!Start(g + 1) = Slob!Start(g) + Slob!PageUnits
           /\ Slob!Start(g) .. Slob!Start(g + 1) - 1 \subseteq Slob!Addresses \ {0}
           /\ \A G \in SUBSET Slob!Pages : g \notin G =>
                  Slob!Start(g) .. Slob!Start(g + 1) - 1 \cap Heaps(G) = {}
  <1> DEFINE P == Slob!PageUnits
             s(f) == Slob!Start(f)
             span(f) == s(f) .. s(f + 1) - 1
  <1>1. P \in Nat /\ P >= 2 /\ HEAPPAGES \in Nat
    BY AddressFacts
  <1>2. ASSUME NEW f \in Slob!Pages
        PROVE  f \in Nat /\ 1 <= f /\ f <= HEAPPAGES /\ s(f) \in Nat /\ s(f + 1) = s(f) + P
    BY <1>1, StartOrder DEF Slob!Pages
  <1>3. ASSUME NEW f \in Slob!Pages, NEW e \in Slob!Pages, f < e PROVE s(f) + P <= s(e)
    BY <1>2, <1>3, StartOrder
  <1>4. span(g) \subseteq Slob!Addresses \ {0}
    <2>1. s(1) = P /\ s(1) \in Nat
      BY <1>1 DEF Slob!Start
    <2>2. P <= s(g)
      <3>1. 1 \in Slob!Pages
        BY <1>1, <1>2 DEF Slob!Pages
      <3>2. g = 1 \/ 1 < g
        BY <1>2
      <3> QED
        BY <1>1, <1>2, <1>3, <2>1, <3>1, <3>2
    <2>3. s(g + 1) <= s(HEAPPAGES + 1) /\ s(HEAPPAGES + 1) \in Nat
      <3>1. g < HEAPPAGES + 1 /\ HEAPPAGES + 1 \in Nat /\ g \in Nat
        BY <1>1, <1>2
      <3> QED
        BY <1>2, <3>1, StartOrder
    <2>4. Slob!Addresses = {0} \cup s(1) .. s(HEAPPAGES + 1) - 1
      BY AddressFacts DEF Slob!Addresses
    <2> HIDE DEF s
    <2> QED
      BY <1>1, <1>2, <2>1, <2>2, <2>3, <2>4
  <1> HIDE DEF s
  <1>5. ASSUME NEW f \in Slob!Pages, f # g PROVE span(g) \cap span(f) = {}
    <2>1. f < g \/ g < f
      BY <1>2, <1>5
    <2>2. f < g => s(f) + P <= s(g)
      BY <1>3
    <2>3. g < f => s(g) + P <= s(f)
      BY <1>3
    <2>4. s(f) \in Nat /\ s(g) \in Nat /\ s(f + 1) = s(f) + P /\ s(g + 1) = s(g) + P
      BY <1>2
    <2> QED
      BY <1>1, <2>1, <2>2, <2>3, <2>4
  <1>6. ASSUME NEW G \in SUBSET Slob!Pages, g \notin G PROVE span(g) \cap Heaps(G) = {}
    BY <1>5, <1>6 DEF Heaps, s
  <1>7. s(g) > 0
    BY <1>1, <1>2, <1>4
  <1> QED
    BY <1>2, <1>4, <1>6, <1>7 DEF s

\* The heap that has got the page g.
WithPage(h, g) ==
    [h EXCEPT !.free = @ \ {g}, !.units = [@ EXCEPT ![Slob!Start(g)] = Slob!PageUnits]]

\* A page that slob_alloc gets is a block in use, until it is freed.
LEMMA GrowIs ==
    ASSUME NEW h, NEW X, NEW G \in SUBSET Slob!Pages, Heaped(h, X, Heaps(G)),
           NEW g \in Slob!Pages, g \notin G
    PROVE  LET s == Slob!Start(g)
               t == WithPage(h, g)
           IN /\ Heaped(t, X \cup {s}, Heaps(G \cup {g}))
              /\ s \notin X /\ t.units[s] = Slob!PageUnits
              /\ t.free = h.free \ {g} /\ t.got = h.got
              /\ \A x \in X : t.units[x] = h.units[x]
  <1> DEFINE A == Slob!Addresses
             s == Slob!Start(g)
             P == Slob!PageUnits
             S == InRing(h.next)
             us == h.units
             vs == [us EXCEPT ![s] = P]
             t == WithPage(h, g)
             W == Heaps(G)
             Z == (S \ {0}) \cup X
  <1>1. /\ h \in HeapStates /\ h.slobfree \in S /\ Ringed(h.next)
        /\ us[0] = 1 /\ X \cap S = {} /\ Tiles(Z, us, W)
        /\ Z \subseteq W /\ us \in [A -> Nat] /\ 0 \in S
        /\ \A a \in S \ {-1} : a + us[a] # h.next[a]
    BY DEF Heaped, Nearly, Tiles, Ringed
  <1>2. P \in Nat /\ P > 0 /\ S \subseteq A
    BY AddressFacts DEF InRing
  <1>3. /\ s \in Nat /\ s > 0 /\ Slob!Start(g + 1) = s + P
        /\ s .. s + P - 1 \subseteq A \ {0} /\ s .. s + P - 1 \cap W = {}
        /\ Slob!Start(g + 1) - 1 = s + P - 1
    <2>1. Slob!Start(g + 1) = s + P /\ s \in Nat /\ s > 0
          /\ s .. Slob!Start(g + 1) - 1 \subseteq A \ {0}
          /\ s .. Slob!Start(g + 1) - 1 \cap W = {}
      BY PageFacts
    <2> HIDE DEF s, P, W
    <2>2. Slob!Start(g + 1) - 1 = s + P - 1
      BY <1>2, <2>1
    <2> QED
      BY <2>1, <2>2
  <1> HIDE DEF s, P, W
  <1>4. s \in A /\ s \notin Z /\ s # 0 /\ s \notin S
    <2>1. s \in s .. s + P - 1
      BY <1>2, <1>3
    <2> QED
      BY <1>1, <1>3, <2>1
  <1>5. Heaps(G \cup {g}) = W \cup s .. s + P - 1
    <2> DEFINE span(f) == Slob!Start(f) .. Slob!Start(f + 1) - 1
    <2>1. span(g) = s .. s + P - 1
      BY <1>3 DEF s
    <2>2. Heaps(G \cup {g}) = UNION {span(f) : f \in G \cup {g}} /\ W = UNION {span(f) : f \in G}
      BY DEF Heaps, W
    <2> HIDE DEF span
    <2>3. ASSUME NEW x
          PROVE  x \in UNION {span(f) : f \in G \cup {g}}
                     <=> x \in UNION {span(f) : f \in G} \/ x \in span(g)
      OBVIOUS
    <2> QED
      BY <2>1, <2>2, <2>3
  <1>6. Tiles(Z \cup {s}, vs, W \cup s .. s + P - 1)
    <2>1. s .. s + P - 1 \subseteq Slob!Addresses \ ({0} \cup W)
      BY <1>3
    <2>2. Tiles(Z, us, W)
      BY <1>1
    <2> HIDE DEF Z, us
    <2> QED
      BY <1>2, <1>3, <2>1, <2>2, AddTile
  <1>7. t = [h EXCEPT !.free = h.free \ {g}, !.units = vs]
    BY DEF WithPage, s, P
  <1>8. t.next = h.next /\ t.units = vs /\ t.slobfree = h.slobfree /\ t.free = h.free \ {g}
        /\ t.got = h.got
    BY <1>1, <1>7 DEF HeapStates
  <1>9. vs \in [A -> Nat] /\ vs[s] = P /\ \A a \in A \ {s} : vs[a] = us[a]
    BY <1>1, <1>2, <1>4
  <1> HIDE DEF t, vs
  <1>10. t \in HeapStates
    <2>1. t = [next |-> h.next, units |-> vs, slobfree |-> h.slobfree, free |-> h.free \ {g},
               got |-> h.got]
      BY <1>1, <1>7 DEF HeapStates
    <2> QED
      BY <1>1, <1>9, <2>1 DEF HeapStates
  <1>11. Nearly(t.next, t.units, X \cup {s}, Heaps(G \cup {g}), -1)
    <2>1. (InRing(h.next) \ {0}) \cup (X \cup {s}) = Z \cup {s}
      OBVIOUS
    <2>2. \A a \in S \ {-1} : a + vs[a] # h.next[a]
      BY <1>1, <1>2, <1>4, <1>9
    <2>3. vs[0] = 1
      BY <1>1, <1>2, <1>4, <1>9
    <2>4. (X \cup {s}) \cap InRing(h.next) = {}
      BY <1>1, <1>4
    <2> HIDE DEF Z
    <2> QED
      BY <1>1, <1>5, <1>6, <1>8, <2>1, <2>2, <2>3, <2>4 DEF Nearly
  <1>12. \A x \in X : vs[x] = us[x]
    <2>1. X \subseteq A \ {s}
      <3>1. X \subseteq W /\ W \subseteq A
        BY <1>1 DEF Tiles
      <3> QED
        BY <1>4, <3>1
    <2> QED
      BY <1>9, <2>1
  <1>13. Heaped(t, X \cup {s}, Heaps(G \cup {g}))
    BY <1>1, <1>8, <1>10, <1>11 DEF Heaped
  <1>14. s \notin X
    BY <1>4
  <1> QED
    BY <1>8, <1>9, <1>12, <1>13, <1>14 DEF t, s, P

\* slob_alloc has found n units in the pages of G, or in one that it has got.
Allocated(h, k, X, G, n) ==
    /\ k.free \subseteq h.free
    /\ Heaped(k, X \cup {k.got}, Heaps(G \cup (h.free \ k.free)))
    /\ k.got \in Slob!Addresses \ {0} /\ k.got \notin X
    /\ k.units[k.got] = n
    /\ \A x \in X : k.units[x] = h.units[x]

\* slob_alloc, with g the page that the page allocator has for it, or 0.
LEMMA AllocIs ==
    ASSUME NEW h, NEW X, NEW G \in SUBSET Slob!Pages, Heaped(h, X, Heaps(G)),
           G \cap h.free = {}, NEW g \in h.free \cup {0}, NEW size,
           NEW n \in Nat, n = Slob!SLOB_UNITS(size), n > 1, n <= Slob!PageUnits
    PROVE  \/ Slob!SlobAlloc(h, size, g) = h
           \/ Allocated(h, Slob!SlobAlloc(h, size, g), X, G, n)
  <1> DEFINE s == Slob!Start(g)
             t == WithPage(h, g)
             y == Slob!Insert(t, s, Slob!InsertionPoint(t, s))
             k == Slob!SlobAlloc(h, size, g)
  <1>1. CASE Slob!Enough(h, n) # {}
    <2>1. k = Slob!FirstFit(h, n)
      BY <1>1 DEF Slob!SlobAlloc
    <2> HIDE DEF k
    <2>2. Taken(h, k, X, Heaps(G), n)
      BY <1>1, <2>1, FirstFitTakes
    <2>3. G \cup (h.free \ k.free) = G
      BY <2>2 DEF Taken
    <2>4. Allocated(h, k, X, G, n)
      BY <2>2, <2>3 DEF Taken, Allocated
    <2> QED
      BY <2>4 DEF k
  <1>2. CASE Slob!Enough(h, n) = {} /\ g = 0
    BY <1>2 DEF Slob!SlobAlloc
  <1>3. CASE Slob!Enough(h, n) = {} /\ g # 0
    <2>1. g \in h.free /\ g \in Slob!Pages /\ g \notin G /\ h \in HeapStates
      BY <1>3 DEF Heaped, HeapStates
    <2>2. k = Slob!FirstFit(y, n)
      <3>1. PAGE_SIZE # 0
        BY SlobAssumption DEF Slob!KmallocAssumption
      <3>2. [[h EXCEPT !.free = @ \ {g}] EXCEPT !.units[s] = Slob!SLOB_UNITS(PAGE_SIZE)] = t
        BY <2>1, UnitsFacts DEF HeapStates, WithPage
      <3> HIDE DEF t, s
      <3>3. Slob!SlobFree([h EXCEPT !.free = @ \ {g}], s, PAGE_SIZE) = y
        BY <3>1, <3>2 DEF Slob!SlobFree
      <3> HIDE DEF y
      <3> QED
        BY <1>3, <3>3 DEF Slob!SlobAlloc, s
    <2>3. /\ Heaped(t, X \cup {s}, Heaps(G \cup {g}))
          /\ s \notin X /\ t.units[s] = Slob!PageUnits
          /\ t.free = h.free \ {g}
          /\ \A x \in X : t.units[x] = h.units[x]
      <3>1. g \in Slob!Pages /\ g \notin G
        BY <2>1
      <3> HIDE DEF k, y
      <3> QED
        BY <3>1, GrowIs
    <2> HIDE DEF t, s
    <2>4. /\ Heaped(y, (X \cup {s}) \ {s}, Heaps(G \cup {g}))
          /\ Keeps(t, y, (X \cup {s}) \ {s})
          /\ \E a \in InRing(y.next) : y.units[a] >= t.units[s]
      BY <2>3, InsertIs
    <2> HIDE DEF y
    <2>5. (X \cup {s}) \ {s} = X
      BY <2>3
    <2>6. Heaped(y, X, Heaps(G \cup {g})) /\ Keeps(t, y, X)
      BY <2>4, <2>5
    <2>7. PICK a \in InRing(y.next) : y.units[a] >= t.units[s]
      BY <2>4
    <2>8. Slob!Enough(y, n) # {}
      <3> DEFINE c == Cardinality(InRing(y.next))
                 w == Slob!Ring(y)
      <3>1. Ringed(y.next) /\ y.slobfree \in InRing(y.next) /\ y \in HeapStates
        BY <2>6 DEF Heaped, Nearly
      <3>2. /\ c \in Nat /\ w \in [0 .. c -> InRing(y.next)]
            /\ \A b \in InRing(y.next) : \E j \in 1 .. c : w[j] = b
        BY <3>1, RingIs
      <3> HIDE DEF c, w
      <3>3. PICK j \in 1 .. c : w[j] = a
        BY <3>2
      <3>4. y.units[a] >= n
        <4>1. y.units[a] \in Nat
          BY <3>1 DEF HeapStates, InRing
        <4> QED
          BY <2>3, <2>7, <4>1, AddressFacts
      <3>5. j \in (DOMAIN w) \ {0}
        BY <3>2
      <3> QED
        BY <3>3, <3>4, <3>5 DEF Slob!Enough, w
    <2> HIDE DEF k
    <2>9. Taken(y, k, X, Heaps(G \cup {g}), n)
      BY <2>2, <2>6, <2>8, FirstFitTakes
    <2>10. k.free = h.free \ {g} /\ h.free \ k.free = {g}
      BY <2>1, <2>3, <2>6, <2>9 DEF Taken, Keeps
    <2>11. \A x \in X : k.units[x] = h.units[x]
      BY <2>3, <2>6, <2>9 DEF Taken, Keeps
    <2>12. Allocated(h, k, X, G, n)
      BY <2>9, <2>10, <2>11 DEF Taken, Allocated
    <2> QED
      BY <2>12 DEF k
  <1> QED
    BY <1>1, <1>2, <1>3

\* slob_free of so many bytes, as many as the block has units for.
LEMMA FreeIs ==
    ASSUME NEW h, NEW X, NEW W, Heaped(h, X, W), NEW b \in X, NEW size,
           size # 0 => h.units[b] = Slob!SLOB_UNITS(size)
    PROVE  LET k == Slob!SlobFree(h, b, size)
           IN Heaped(k, X \ {b}, W) /\ Keeps(h, k, X \ {b})
  <1>1. h \in HeapStates /\ b \in Slob!Addresses
    BY DEF Heaped, Nearly, Tiles
  <1>2. (IF size = 0 THEN h ELSE [h EXCEPT !.units[b] = Slob!SLOB_UNITS(size)]) = h
    <2>1. CASE size = 0
      BY <2>1
    <2>2. CASE size # 0
      <3>1. [h.units EXCEPT ![b] = Slob!SLOB_UNITS(size)] = h.units
        BY <1>1, <2>2 DEF HeapStates
      <3>2. [h EXCEPT !.units[b] = Slob!SLOB_UNITS(size)]
                = [h EXCEPT !.units = [h.units EXCEPT ![b] = Slob!SLOB_UNITS(size)]]
        BY <1>1 DEF HeapStates
      <3>3. [h EXCEPT !.units = h.units] = h
        BY <1>1 DEF HeapStates
      <3> QED
        BY <2>2, <3>1, <3>2, <3>3
    <2> QED
      BY <2>1, <2>2
  <1>3. Slob!SlobFree(h, b, size) = Slob!Insert(h, b, Slob!InsertionPoint(h, b))
    BY <1>2 DEF Slob!SlobFree
  <1> QED
    BY <1>3, InsertIs

\* Powers of two.
LEMMA TwoPower ==
    ASSUME NEW k \in Nat
    PROVE  2 ^ k \in Nat /\ 2 ^ k > k
  <1> DEFINE S == 1 .. k
             f == [i \in 0 .. k |-> 1 .. i]
  <1>1. IsFiniteSet(S) /\ Cardinality(S) = k
    BY FS_Interval
  <1>2. IsFiniteSet(SUBSET S) /\ Cardinality(SUBSET S) = 2 ^ k
    <2> HIDE DEF S
    <2> QED
      BY <1>1, FS_SUBSET
  <1>3. IsFiniteSet(0 .. k) /\ Cardinality(0 .. k) = k + 1
    BY FS_Interval
  <1>4. f \in Injection(0 .. k, SUBSET S)
    <2>1. f \in [0 .. k -> SUBSET S]
      OBVIOUS
    <2>2. ASSUME NEW i \in 0 .. k, NEW j \in 0 .. k, f[i] = f[j] PROVE i = j
      <3>1. 1 .. i = 1 .. j
        BY <2>2
      <3>2. ASSUME i < j PROVE FALSE
        <4>1. j \in 1 .. j /\ j \notin 1 .. i
          BY <3>2
        <4> QED
          BY <3>1, <4>1
      <3>3. ASSUME j < i PROVE FALSE
        <4>1. i \in 1 .. i /\ i \notin 1 .. j
          BY <3>3
        <4> QED
          BY <3>1, <4>1
      <3> QED
        BY <3>2, <3>3
    <2> HIDE DEF f
    <2> QED
      BY <2>1, <2>2 DEF Injection, IsInjective
  <1>5. Cardinality(0 .. k) <= Cardinality(SUBSET S)
    <2> HIDE DEF f, S
    <2> QED
      BY <1>2, <1>4, FS_Injection
  <1>6. Cardinality(SUBSET S) \in Nat
    BY <1>2, FS_CardinalityType
  <1> QED
    BY <1>2, <1>3, <1>5, <1>6

\* find_order finds an order.
LEMMA OrderIs ==
    ASSUME NEW size \in Nat
    PROVE  /\ Slob!FindOrder(size) \in 0 .. size
           /\ size \div 2 ^ Slob!FindOrder(size) <= PAGE_SIZE
  <1> DEFINE X == {k \in 0 .. size : size \div 2 ^ k <= PAGE_SIZE}
  <1>1. size \div 2 ^ size = 0
    <2> DEFINE m == 2 ^ size
    <2>1. m \in Nat /\ m > size
      BY TwoPower
    <2> HIDE DEF m
    <2>2. size \div m = 0
      BY <2>1
    <2> QED
      BY <2>2 DEF m
  <1>2. PAGE_SIZE \in Nat
    BY SlobAssumption DEF Slob!KmallocAssumption
  <1>3. size \in X
    <2>1. size \in 0 .. size /\ 0 <= PAGE_SIZE
      BY <1>2
    <2> QED
      BY <1>1, <2>1
  <1>4. X \subseteq Nat
    OBVIOUS
  <1>5. Slob!Min(X) \in X
    <2> HIDE DEF X
    <2> QED
      BY <1>3, <1>4, LeastIs
  <1> QED
    BY <1>5 DEF Slob!FindOrder

-----------------------------------------------------------------------------
(* What callers have *)

\* The pages that are no block of pages are free, or part of the heap.
HeapOf(bigs, avail) == Slob!Pages \ (avail \cup UNION {Slob!PagesOf(b) : b \in bigs})

\* A block begins a page and is in the list of big blocks.
Big(bigs, x) == \E b \in bigs : Slob!Start(b.pages) = x.block

Used(own, bigs) == {x.block - 1 : x \in {y \in own : ~Big(bigs, y)}} \cup {b.at : b \in bigs}

\* What callers have, the big blocks and the units of blocks agree.
Users(own, bigs, avail, us) ==
    /\ own \subseteq [block : Slob!Addresses, size : Requests]
    /\ bigs \subseteq [at : Slob!Addresses, pages : Slob!Pages, order : Nat]
    /\ \A b \in bigs :
           /\ Slob!PagesOf(b) \subseteq Slob!Pages \ avail
           /\ us[b.at] = Slob!SLOB_UNITS(BIGBLOCK)
    /\ \A b, c \in bigs : b # c => b.at # c.at /\ Slob!PagesOf(b) \cap Slob!PagesOf(c) = {}
    /\ \A x, y \in own : x # y => x.block # y.block
    /\ \A x \in own : ~Big(bigs, x) =>
           /\ us[x.block - 1] = Slob!SLOB_UNITS(x.size + SLOB_UNIT)
           /\ \A b \in bigs : b.at # x.block - 1
    /\ \A x \in own, b \in bigs :
           Slob!Start(b.pages) = x.block => b.order = Slob!FindOrder(x.size)

\* The inductive invariant of the kernel heap.
Sound(h, own, bigs) ==
    /\ Heaped(h, Used(own, bigs), Heaps(HeapOf(bigs, h.free)))
    /\ Users(own, bigs, h.free, h.units)

HeapInv == Sound(Slob!heap, owned, bigblocks)

\* Sizes of blocks.
LEMMA SizeFacts ==
    /\ SLOB_UNIT \in Nat /\ PAGE_SIZE \in Nat
    /\ \A size \in Requests : size \in Nat /\ size > 0
    /\ BIGBLOCK \in Nat
    /\ Slob!SLOB_UNITS(BIGBLOCK) \in Nat /\ Slob!SLOB_UNITS(BIGBLOCK) > 1
    /\ Slob!SLOB_UNITS(BIGBLOCK) <= Slob!PageUnits
    /\ \A size \in Nat : size > 0 =>
           Slob!SLOB_UNITS(size + SLOB_UNIT) \in Nat /\ Slob!SLOB_UNITS(size + SLOB_UNIT) > 1
  <1>1. /\ SLOB_UNIT \in Nat /\ SLOB_UNIT > 0 /\ PAGE_SIZE \in Nat
        /\ \A size \in Requests : size \in Nat /\ size > 0
        /\ BIGBLOCK \in Nat /\ SLOB_UNIT < BIGBLOCK /\ BIGBLOCK <= PAGE_SIZE
    BY SlobAssumption DEF Slob!KmallocAssumption
  <1>2. ASSUME NEW size \in Nat, size > 0
        PROVE  /\ Slob!SLOB_UNITS(size + SLOB_UNIT) \in Nat
               /\ Slob!SLOB_UNITS(size + SLOB_UNIT) > 1
    <2> DEFINE s == size + SLOB_UNIT
    <2>1. s \in Nat /\ s > SLOB_UNIT
      BY <1>1, <1>2
    <2> HIDE DEF s
    <2>2. Slob!SLOB_UNITS(s) \in Nat /\ (Slob!SLOB_UNITS(s) <= 1 <=> s <= 1 * SLOB_UNIT)
      BY <2>1, UnitsIs
    <2>3. Slob!SLOB_UNITS(s) > 1
      BY <1>1, <2>1, <2>2
    <2> QED
      BY <2>2, <2>3 DEF s
  <1> QED
    BY <1>1, <1>2, UnitsIs, UnitsFacts

\* A block of pages has its first page.
LEMMA FirstPage ==
    ASSUME NEW b \in [at : Slob!Addresses, pages : Slob!Pages, order : Nat]
    PROVE  b.pages \in Slob!PagesOf(b) /\ b.pages \in Slob!Pages
  <1>1. 2 ^ b.order \in Nat /\ 2 ^ b.order > 0 /\ b.pages \in Nat
    BY TwoPower, AddressFacts DEF Slob!Pages
  <1> QED
    BY <1>1 DEF Slob!PagesOf

\* No two pages begin at the same address.
LEMMA StartsDiffer ==
    ASSUME NEW f \in Slob!Pages, NEW g \in Slob!Pages, Slob!Start(f) = Slob!Start(g)
    PROVE  f = g
  <1>1. f \in Nat /\ g \in Nat
    BY AddressFacts DEF Slob!Pages
  <1>2. Slob!PageUnits \in Nat /\ Slob!PageUnits > 0 /\ Slob!Start(f) \in Nat
    BY AddressFacts
  <1>3. ~(f < g)
    BY <1>1, <1>2, StartOrder
  <1>4. ~(g < f)
    BY <1>1, <1>2, StartOrder
  <1> QED
    BY <1>1, <1>3, <1>4

\* A block of pages begins outside the heap, as does a free page.
LEMMA OutsideHeap ==
    ASSUME NEW bigs, NEW avail, avail \subseteq Slob!Pages,
           NEW g \in Slob!Pages, g \in avail \/ \E b \in bigs : g \in Slob!PagesOf(b)
    PROVE  Slob!Start(g) \notin Heaps(HeapOf(bigs, avail))
  <1>1. g \notin HeapOf(bigs, avail) /\ HeapOf(bigs, avail) \subseteq Slob!Pages
    BY DEF HeapOf
  <1>2. Slob!Start(g) \in Slob!Start(g) .. Slob!Start(g + 1) - 1
    BY PageFacts, AddressFacts
  <1>3. Slob!Start(g) .. Slob!Start(g + 1) - 1 \cap Heaps(HeapOf(bigs, avail)) = {}
    BY <1>1, PageFacts
  <1> QED
    BY <1>2, <1>3

\* A block of two units or more has its second one in the heap, and it is no address at
\* which another block begins.
LEMMA SecondUnit ==
    ASSUME NEW h, NEW X, NEW W, Heaped(h, X, W), NEW a \in X, h.units[a] > 1
    PROVE  a + 1 \in W /\ a + 1 \in Slob!Addresses
  <1>1. /\ a .. a + h.units[a] - 1 \subseteq W /\ W \subseteq Slob!Addresses
        /\ a \in Slob!Addresses /\ h.units[a] \in Nat
    BY DEF Heaped, Nearly, Tiles
  <1>2. a \in Nat
    BY <1>1, AddressFacts
  <1> QED
    BY <1>1, <1>2

\* Small blocks are in the pages of the heap, and no big block begins there.
LEMMA SmallBlock ==
    ASSUME NEW h, NEW own, NEW bigs, Sound(h, own, bigs), NEW x \in own, ~Big(bigs, x)
    PROVE  /\ x.block - 1 \in Used(own, bigs)
           /\ x.block - 1 \in Nat /\ x.block \in Nat
           /\ x.block \in Heaps(HeapOf(bigs, h.free))
           /\ x.block \in Slob!Addresses /\ x.size \in Nat /\ x.size > 0
  <1>1. x \in [block : Slob!Addresses, size : Requests]
    BY DEF Sound, Users
  <1>2. x.block \in Slob!Addresses /\ x.block \in Nat /\ x.size \in Nat /\ x.size > 0
    BY <1>1, AddressFacts, SizeFacts
  <1>3. x.block - 1 \in Used(own, bigs)
    BY DEF Used
  <1>4. h.units[x.block - 1] > 1
    BY <1>2, SizeFacts DEF Sound, Users
  <1>5. (x.block - 1) + 1 \in Heaps(HeapOf(bigs, h.free))
    BY <1>3, <1>4, SecondUnit DEF Sound
  <1>6. (x.block - 1) + 1 = x.block
    BY <1>2
  <1>7. x.block - 1 \in Nat
    BY <1>3, AddressFacts DEF Sound, Heaped, Nearly, Tiles
  <1> QED
    BY <1>2, <1>3, <1>5, <1>6, <1>7

\* What slob_alloc has got is nobody's yet.
LEMMA AllocatedSound ==
    ASSUME NEW h, NEW own, NEW bigs, Sound(h, own, bigs), NEW k, NEW n \in Nat, n > 1,
           Allocated(h, k, Used(own, bigs), HeapOf(bigs, h.free), n)
    PROVE  /\ Heaped(k, Used(own, bigs) \cup {k.got}, Heaps(HeapOf(bigs, k.free)))
           /\ Users(own, bigs, k.free, k.units)
           /\ k.got \in Nat /\ k.got + 1 \in Slob!Addresses
           /\ \A b \in bigs : b.at # k.got /\ Slob!Start(b.pages) # k.got + 1
           /\ \A x \in own : x.block # k.got + 1
           /\ \A x \in own : ~Big(bigs, x) =>
                  x.block \in Heaps(HeapOf(bigs, k.free)) /\ x.block - 1 # k.got
  <1> DEFINE X == Used(own, bigs)
             G == HeapOf(bigs, h.free)
             H == HeapOf(bigs, k.free)
             us == h.units
  <1>1. /\ k.free \subseteq h.free
        /\ Heaped(k, X \cup {k.got}, Heaps(G \cup (h.free \ k.free)))
        /\ k.got \in Slob!Addresses \ {0} /\ k.got \notin X
        /\ k.units[k.got] = n
        /\ \A x \in X : k.units[x] = us[x]
    BY DEF Allocated
  <1>2. Users(own, bigs, h.free, us) /\ h.free \subseteq Slob!Pages /\ k.free \subseteq Slob!Pages
    BY <1>1 DEF Sound, Heaped, HeapStates
  <1>3. /\ own \subseteq [block : Slob!Addresses, size : Requests]
        /\ bigs \subseteq [at : Slob!Addresses, pages : Slob!Pages, order : Nat]
        /\ \A b \in bigs : Slob!PagesOf(b) \subseteq Slob!Pages \ h.free
    BY <1>2 DEF Users
  <1>4. G \cup (h.free \ k.free) = H
    BY <1>1, <1>2, <1>3 DEF HeapOf
  <1>5. \A x \in own : ~Big(bigs, x) => x.block - 1 \in X
    BY DEF Used
  <1>6. \A b \in bigs : b.at \in X
    BY DEF Used
  <1> HIDE DEF X, G, H
  <1>7. Heaped(k, X \cup {k.got}, Heaps(H))
    BY <1>1, <1>4
  <1>8. Users(own, bigs, k.free, k.units)
    BY <1>1, <1>2, <1>5, <1>6 DEF Users
  <1>9. k.got \in Nat /\ k.got + 1 \in Slob!Addresses /\ k.got + 1 \in Heaps(H)
    <2>1. k.units[k.got] > 1 /\ k.got \in X \cup {k.got}
      BY <1>1
    <2> QED
      BY <1>1, <1>7, <2>1, AddressFacts, SecondUnit
  <1>10. ASSUME NEW b \in bigs PROVE b.at # k.got /\ Slob!Start(b.pages) # k.got + 1
    <2>1. Slob!Start(b.pages) \notin Heaps(H)
      BY <1>2, <1>3, FirstPage, OutsideHeap DEF H
    <2> QED
      BY <1>1, <1>6, <1>9, <2>1
  <1>11. ASSUME NEW x \in own, ~Big(bigs, x)
         PROVE  /\ x.block \in Heaps(H) /\ x.block - 1 # k.got /\ x.block # k.got + 1
    <2>1. x.block - 1 \in X /\ x.block \in Nat /\ x.block - 1 \in Nat
      BY <1>11, SmallBlock DEF X
    <2>2. x.size \in Nat /\ x.size > 0 /\ us[x.block - 1] = Slob!SLOB_UNITS(x.size + SLOB_UNIT)
      BY <1>2, <1>11, SmallBlock DEF Users
    <2>3. k.units[x.block - 1] > 1
      BY <1>1, <2>1, <2>2, SizeFacts
    <2>4. (x.block - 1) + 1 \in Heaps(H)
      BY <1>7, <2>1, <2>3, SecondUnit
    <2>5. (x.block - 1) + 1 = x.block /\ x.block - 1 # k.got
      BY <1>1, <2>1
    <2>6. x.block # k.got + 1
      BY <1>9, <2>1, <2>5
    <2> QED
      BY <2>4, <2>5, <2>6
  <1>12. ASSUME NEW x \in own PROVE x.block # k.got + 1
    <2>1. CASE Big(bigs, x)
      BY <1>10, <2>1 DEF Big
    <2>2. CASE ~Big(bigs, x)
      BY <1>11, <2>2
    <2> QED
      BY <2>1, <2>2
  <1> QED
    BY <1>7, <1>8, <1>9, <1>10, <1>11, <1>12 DEF X, H

\* What was got is part of a call only.
LEMMA AfterCall ==
    ASSUME NEW k, NEW own, NEW bigs, Sound(k, own, bigs), NEW h,
           h = [next |-> k.next, units |-> k.units, slobfree |-> k.slobfree, free |-> k.free,
                got |-> Slob!Dead]
    PROVE  Sound(h, own, bigs)
  <1>1. h \in HeapStates
    BY AddressFacts DEF Sound, Heaped, HeapStates
  <1>2. h.next = k.next /\ h.units = k.units /\ h.slobfree = k.slobfree /\ h.free = k.free
    OBVIOUS
  <1> QED
    BY <1>1, <1>2 DEF Sound, Heaped

\* The caller has a block of less than a page.
LEMMA SmallAllocated ==
    ASSUME NEW h, NEW own, NEW bigs, Sound(h, own, bigs), NEW size \in Requests,
           NEW k, Allocated(h, k, Used(own, bigs), HeapOf(bigs, h.free),
                            Slob!SLOB_UNITS(size + SLOB_UNIT)),
           NEW x, x = [block |-> k.got + 1, size |-> size]
    PROVE  Sound(k, own \cup {x}, bigs) /\ \A y \in own : y.block # x.block
  <1> DEFINE n == Slob!SLOB_UNITS(size + SLOB_UNIT)
             o == own \cup {x}
  <1>1. n \in Nat /\ n > 1
    BY SizeFacts
  <1>2. /\ Heaped(k, Used(own, bigs) \cup {k.got}, Heaps(HeapOf(bigs, k.free)))
        /\ Users(own, bigs, k.free, k.units)
        /\ k.got \in Nat /\ k.got + 1 \in Slob!Addresses
        /\ \A b \in bigs : b.at # k.got /\ Slob!Start(b.pages) # k.got + 1
        /\ \A y \in own : y.block # k.got + 1
    <2> HIDE DEF n
    <2>1. Allocated(h, k, Used(own, bigs), HeapOf(bigs, h.free), n)
      BY DEF n
    <2> QED
      BY <1>1, <2>1, AllocatedSound
  <1>3. k.units[k.got] = n
    BY DEF Allocated
  <1>4. x.block = k.got + 1 /\ x.size = size /\ x.block - 1 = k.got /\ ~Big(bigs, x)
    BY <1>2 DEF Big
  <1>5. Used(o, bigs) = Used(own, bigs) \cup {k.got}
    <2>1. {y \in o : ~Big(bigs, y)} = {y \in own : ~Big(bigs, y)} \cup {x}
      BY <1>4
    <2>2. {y.block - 1 : y \in {z \in own : ~Big(bigs, z)} \cup {x}}
              = {y.block - 1 : y \in {z \in own : ~Big(bigs, z)}} \cup {x.block - 1}
      OBVIOUS
    <2> QED
      BY <1>4, <2>1, <2>2 DEF Used
  <1>6. Users(o, bigs, k.free, k.units)
    <2>1. x \in [block : Slob!Addresses, size : Requests]
      BY <1>2
    <2>2. \A b \in bigs : Slob!Start(b.pages) # x.block /\ b.at # x.block - 1
      BY <1>2, <1>4
    <2>3. k.units[x.block - 1] = Slob!SLOB_UNITS(x.size + SLOB_UNIT)
      BY <1>3, <1>4
    <2>4. \A y \in own : y.block # x.block
      BY <1>2, <1>4
    <2>5. ASSUME NEW y \in o, NEW z \in o, y # z PROVE y.block # z.block
      BY <1>2, <2>4, <2>5 DEF Users
    <2>6. \A y \in o : ~Big(bigs, y) =>
              /\ k.units[y.block - 1] = Slob!SLOB_UNITS(y.size + SLOB_UNIT)
              /\ \A b \in bigs : b.at # y.block - 1
      BY <1>2, <2>2, <2>3 DEF Users
    <2>7. \A y \in o, b \in bigs : Slob!Start(b.pages) = y.block => b.order = Slob!FindOrder(y.size)
      BY <1>2, <2>2 DEF Users
    <2> HIDE DEF o
    <2>8. o \subseteq [block : Slob!Addresses, size : Requests]
      BY <1>2, <2>1 DEF Users, o
    <2> QED
      BY <1>2, <2>5, <2>6, <2>7, <2>8 DEF Users
  <1> QED
    BY <1>2, <1>4, <1>5, <1>6 DEF Sound

LessPages(h, b) == [h EXCEPT !.free = @ \ Slob!PagesOf(b)]

\* The caller has pages, of which the bigblock_t keeps a record.
LEMMA PagesAllocated ==
    ASSUME NEW h, NEW own, NEW bigs, Sound(h, own, bigs), NEW size \in Requests,
           NEW k, Allocated(h, k, Used(own, bigs), HeapOf(bigs, h.free),
                            Slob!SLOB_UNITS(BIGBLOCK)),
           NEW p \in Slob!Pages,
           NEW b, b = [at |-> k.got, pages |-> p, order |-> Slob!FindOrder(size)],
           Slob!PagesOf(b) \subseteq k.free,
           NEW x, x = [block |-> Slob!Start(p), size |-> size]
    PROVE  /\ Sound(LessPages(k, b), own \cup {x}, bigs \cup {b})
           /\ \A y \in own : y.block # x.block
           /\ b \in [at : Slob!Addresses, pages : Slob!Pages, order : Nat] /\ b \notin bigs
           /\ \A y \in own : Big(bigs \cup {b}, y) <=> Big(bigs, y)
  <1> DEFINE n == Slob!SLOB_UNITS(BIGBLOCK)
             o == own \cup {x}
             c == bigs \cup {b}
             avail == k.free \ Slob!PagesOf(b)
             j == LessPages(k, b)
             W == Heaps(HeapOf(bigs, k.free))
  <1>1. n \in Nat /\ n > 1
    BY SizeFacts
  <1>2. /\ Heaped(k, Used(own, bigs) \cup {k.got}, W)
        /\ Users(own, bigs, k.free, k.units)
        /\ k.got \in Nat /\ k.got + 1 \in Slob!Addresses
        /\ \A d \in bigs : d.at # k.got
        /\ \A y \in own : ~Big(bigs, y) => y.block \in W /\ y.block - 1 # k.got
    <2> HIDE DEF n
    <2>1. Allocated(h, k, Used(own, bigs), HeapOf(bigs, h.free), n)
      BY DEF n
    <2> QED
      BY <1>1, <2>1, AllocatedSound
  <1>3. k.units[k.got] = n /\ k.got \in Slob!Addresses /\ k \in HeapStates
        /\ k.free \subseteq Slob!Pages
    BY <1>2 DEF Allocated, Heaped, HeapStates
  <1>4. /\ b.at = k.got /\ b.pages = p /\ b.order = Slob!FindOrder(size)
        /\ x.block = Slob!Start(p) /\ x.size = size
    OBVIOUS
  <1>5. b \in [at : Slob!Addresses, pages : Slob!Pages, order : Nat]
    <2>1. Slob!FindOrder(size) \in Nat
      BY OrderIs, SizeFacts
    <2> QED
      BY <1>3, <2>1
  <1>6. p \in Slob!PagesOf(b) /\ p \in k.free
    BY <1>4, <1>5, FirstPage
  <1> HIDE DEF W
  <1>7. Slob!Start(p) \notin W
    BY <1>3, <1>6, OutsideHeap DEF W
  <1>8. /\ bigs \subseteq [at : Slob!Addresses, pages : Slob!Pages, order : Nat]
        /\ own \subseteq [block : Slob!Addresses, size : Requests]
        /\ \A d \in bigs : Slob!PagesOf(d) \subseteq Slob!Pages \ k.free
    BY <1>2 DEF Users
  <1>9. ASSUME NEW d \in bigs PROVE Slob!Start(d.pages) # Slob!Start(p) /\ d # b
    <2>1. d.pages \in Slob!Pages \ k.free
      BY <1>8, FirstPage
    <2> QED
      BY <1>4, <1>6, <2>1, StartsDiffer
  <1>10. ASSUME NEW y \in own PROVE y.block # Slob!Start(p)
    BY <1>2, <1>7, <1>9 DEF Big
  <1>11. ASSUME NEW y \in own PROVE Big(c, y) <=> Big(bigs, y)
    BY <1>4, <1>10 DEF Big
  <1>12. Big(c, x)
    BY <1>4 DEF Big
  <1>13. Used(o, c) = Used(own, bigs) \cup {k.got}
    <2>1. {y \in o : ~Big(c, y)} = {y \in own : ~Big(bigs, y)}
      BY <1>11, <1>12
    <2>2. {d.at : d \in c} = {d.at : d \in bigs} \cup {k.got}
      BY <1>4
    <2> QED
      BY <2>1, <2>2 DEF Used
  <1>14. HeapOf(c, avail) = HeapOf(bigs, k.free)
    BY <1>3 DEF HeapOf
  <1>15. /\ j \in HeapStates /\ j.free = avail /\ j.units = k.units /\ j.next = k.next
         /\ j.slobfree = k.slobfree
    BY <1>3 DEF HeapStates, LessPages
  <1> HIDE DEF j, avail, o, c
  <1>16. Heaped(j, Used(o, c), Heaps(HeapOf(c, j.free)))
    BY <1>2, <1>13, <1>14, <1>15 DEF Heaped, W
  <1>17. Users(o, c, avail, k.units)
    <2>1. o \subseteq [block : Slob!Addresses, size : Requests]
      <3>1. Slob!Start(p) \in Slob!Addresses
        <4>1. Slob!Start(p) \in Slob!Start(p) .. Slob!Start(p + 1) - 1
          BY PageFacts, AddressFacts
        <4> QED
          BY <4>1, PageFacts
      <3> QED
        BY <1>8, <3>1 DEF o
    <2>2. c \subseteq [at : Slob!Addresses, pages : Slob!Pages, order : Nat]
      BY <1>5, <1>8 DEF c
    <2>3. ASSUME NEW d \in c
          PROVE  /\ Slob!PagesOf(d) \subseteq Slob!Pages \ avail
                 /\ k.units[d.at] = Slob!SLOB_UNITS(BIGBLOCK)
      BY <1>2, <1>3, <1>4 DEF Users, c, avail
    <2>4. ASSUME NEW d \in c, NEW e \in c, d # e
          PROVE  d.at # e.at /\ Slob!PagesOf(d) \cap Slob!PagesOf(e) = {}
      <3>1. CASE d \in bigs /\ e \in bigs
        BY <1>2, <2>4, <3>1 DEF Users
      <3>2. CASE d = b /\ e \in bigs
        BY <1>2, <1>4, <1>8, <3>2
      <3>3. CASE e = b /\ d \in bigs
        BY <1>2, <1>4, <1>8, <3>3
      <3> QED
        BY <2>4, <3>1, <3>2, <3>3 DEF c
    <2>5. ASSUME NEW y \in o, NEW z \in o, y # z PROVE y.block # z.block
      BY <1>2, <1>4, <1>10, <2>5 DEF Users, o
    <2>6. ASSUME NEW y \in o, ~Big(c, y)
          PROVE  /\ k.units[y.block - 1] = Slob!SLOB_UNITS(y.size + SLOB_UNIT)
                 /\ \A d \in c : d.at # y.block - 1
      <3>1. y \in own /\ ~Big(bigs, y)
        BY <1>11, <1>12, <2>6 DEF o
      <3> QED
        BY <1>2, <1>4, <3>1 DEF Users, c
    <2>7. ASSUME NEW y \in o, NEW d \in c, Slob!Start(d.pages) = y.block
          PROVE  d.order = Slob!FindOrder(y.size)
      <3>1. CASE y \in own /\ d \in bigs
        BY <1>2, <2>7, <3>1 DEF Users
      <3>2. CASE y = x /\ d = b
        BY <1>4, <3>2
      <3>3. CASE y = x /\ d \in bigs
        BY <1>4, <1>9, <2>7, <3>3
      <3>4. CASE y \in own /\ d = b
        BY <1>4, <1>10, <2>7, <3>4
      <3> QED
        BY <3>1, <3>2, <3>3, <3>4 DEF o, c
    <2> QED
      BY <2>1, <2>2, <2>3, <2>4, <2>5, <2>6, <2>7 DEF Users
  <1>18. Sound(j, o, c)
    BY <1>15, <1>16, <1>17 DEF Sound
  <1>19. b \notin bigs
    BY <1>9
  <1> QED
    BY <1>4, <1>5, <1>10, <1>11, <1>18, <1>19 DEF j, o, c

\* There are no pages, and the bigblock_t is freed again.
LEMMA NoPagesSound ==
    ASSUME NEW h, NEW own, NEW bigs, Sound(h, own, bigs),
           NEW k, Allocated(h, k, Used(own, bigs), HeapOf(bigs, h.free),
                            Slob!SLOB_UNITS(BIGBLOCK))
    PROVE  Sound(Slob!SlobFree(k, k.got, BIGBLOCK), own, bigs)
  <1> DEFINE n == Slob!SLOB_UNITS(BIGBLOCK)
             X == Used(own, bigs)
             W == Heaps(HeapOf(bigs, k.free))
             j == Slob!SlobFree(k, k.got, BIGBLOCK)
  <1>1. n \in Nat /\ n > 1
    BY SizeFacts
  <1> HIDE DEF n
  <1>2. Allocated(h, k, X, HeapOf(bigs, h.free), n)
    BY DEF n
  <1>3. Heaped(k, X \cup {k.got}, W) /\ Users(own, bigs, k.free, k.units)
    BY <1>1, <1>2, AllocatedSound
  <1>4. k.units[k.got] = n /\ k.got \notin X
    BY <1>2 DEF Allocated
  <1> HIDE DEF X, W
  <1>5. Heaped(j, (X \cup {k.got}) \ {k.got}, W) /\ Keeps(k, j, (X \cup {k.got}) \ {k.got})
    <2>1. k.got \in X \cup {k.got}
      OBVIOUS
    <2> QED
      BY <1>3, <1>4, <2>1, FreeIs DEF n
  <1>6. (X \cup {k.got}) \ {k.got} = X
    BY <1>4
  <1>7. Heaped(j, X, W) /\ Keeps(k, j, X)
    BY <1>5, <1>6
  <1> HIDE DEF j
  <1>8. Users(own, bigs, j.free, j.units)
    <2>1. \A x \in own : ~Big(bigs, x) => x.block - 1 \in X
      BY DEF Used, X
    <2>2. \A b \in bigs : b.at \in X
      BY DEF Used, X
    <2> QED
      BY <1>3, <1>7, <2>1, <2>2 DEF Users, Keeps
  <1> QED
    BY <1>7, <1>8 DEF Sound, Keeps, j, X, W

\* kfree of pages, whose bigblock_t is freed as well.
LEMMA BigFreed ==
    ASSUME NEW h, NEW own, NEW bigs, Sound(h, own, bigs), NEW x \in own, NEW b \in bigs,
           Slob!Start(b.pages) = x.block
    PROVE  Sound(Slob!SlobFree([h EXCEPT !.free = @ \cup Slob!PagesOf(b)], b.at, BIGBLOCK),
                 own \ {x}, bigs \ {b})
  <1> DEFINE j == [h EXCEPT !.free = @ \cup Slob!PagesOf(b)]
             k == Slob!SlobFree(j, b.at, BIGBLOCK)
             o == own \ {x}
             c == bigs \ {b}
             X == Used(own, bigs)
             W == Heaps(HeapOf(bigs, h.free))
  <1>1. Heaped(h, X, W) /\ Users(own, bigs, h.free, h.units)
    BY DEF Sound
  <1>2. Slob!PagesOf(b) \subseteq Slob!Pages /\ h.units[b.at] = Slob!SLOB_UNITS(BIGBLOCK)
    BY <1>1 DEF Users
  <1>3. /\ j \in HeapStates /\ j.free = h.free \cup Slob!PagesOf(b) /\ j.units = h.units
        /\ j.next = h.next /\ j.slobfree = h.slobfree /\ j.got = h.got
    BY <1>1, <1>2 DEF Heaped, HeapStates
  <1> HIDE DEF j
  <1>4. Heaped(j, X, W)
    <2> HIDE DEF X, W
    <2> QED
      BY <1>1, <1>3 DEF Heaped
  <1>5. b.at \in X
    BY DEF Used
  <1> HIDE DEF X, W
  <1>6. Heaped(k, X \ {b.at}, W) /\ Keeps(j, k, X \ {b.at})
    BY <1>2, <1>3, <1>4, <1>5, FreeIs
  <1> HIDE DEF k
  <1>7. /\ \A y \in own : y # x => y.block # x.block
        /\ \A d \in bigs : d # b => d.at # b.at /\ Slob!PagesOf(d) \cap Slob!PagesOf(b) = {}
    BY <1>1 DEF Users
  <1>8. ASSUME NEW y \in o PROVE Big(c, y) <=> Big(bigs, y)
    BY <1>7 DEF Big
  <1>9. Big(bigs, x)
    BY DEF Big
  <1>10. Used(o, c) = X \ {b.at}
    <2>1. {y \in o : ~Big(c, y)} = {y \in own : ~Big(bigs, y)}
      BY <1>8, <1>9
    <2>2. {d.at : d \in c} = {d.at : d \in bigs} \ {b.at}
      BY <1>7
    <2>3. b.at \notin {y.block - 1 : y \in {z \in own : ~Big(bigs, z)}}
      BY <1>1 DEF Users
    <2> QED
      BY <2>1, <2>2, <2>3 DEF Used, X
  <1>11. k.free = h.free \cup Slob!PagesOf(b) /\ \A y \in X \ {b.at} : k.units[y] = h.units[y]
    BY <1>3, <1>6 DEF Keeps
  <1>12. HeapOf(c, k.free) = HeapOf(bigs, h.free)
    BY <1>11 DEF HeapOf
  <1>13. Users(o, c, k.free, k.units)
    <2>1. /\ o \subseteq [block : Slob!Addresses, size : Requests]
          /\ c \subseteq [at : Slob!Addresses, pages : Slob!Pages, order : Nat]
      BY <1>1 DEF Users
    <2>2. ASSUME NEW d \in c
          PROVE  /\ Slob!PagesOf(d) \subseteq Slob!Pages \ k.free
                 /\ k.units[d.at] = Slob!SLOB_UNITS(BIGBLOCK)
      <3>1. d.at \in X \ {b.at}
        BY <1>7 DEF Used, X
      <3> QED
        BY <1>1, <1>7, <1>11, <3>1 DEF Users
    <2>3. ASSUME NEW y \in o, ~Big(c, y)
          PROVE  /\ k.units[y.block - 1] = Slob!SLOB_UNITS(y.size + SLOB_UNIT)
                 /\ \A d \in c : d.at # y.block - 1
      <3>1. ~Big(bigs, y)
        BY <1>8, <2>3
      <3>2. y.block - 1 \in X \ {b.at}
        BY <1>1, <3>1 DEF Used, X, Users
      <3> QED
        BY <1>1, <1>11, <3>1, <3>2 DEF Users
    <2>4. \A d, e \in c : d # e => d.at # e.at /\ Slob!PagesOf(d) \cap Slob!PagesOf(e) = {}
      BY <1>1 DEF Users
    <2>5. \A y, z \in o : y # z => y.block # z.block
      BY <1>1 DEF Users
    <2>6. \A y \in o, d \in c : Slob!Start(d.pages) = y.block => d.order = Slob!FindOrder(y.size)
      BY <1>1 DEF Users
    <2> HIDE DEF o, c
    <2> QED
      BY <2>1, <2>2, <2>3, <2>4, <2>5, <2>6 DEF Users
  <1> HIDE DEF o, c
  <1>14. Sound(k, o, c)
    BY <1>6, <1>10, <1>12, <1>13 DEF Sound, W
  <1> QED
    BY <1>14 DEF k, j, o, c

\* kfree of a block of less than a page, whose header says how many units it has.
LEMMA SmallFreed ==
    ASSUME NEW h, NEW own, NEW bigs, Sound(h, own, bigs), NEW x \in own, ~Big(bigs, x)
    PROVE  Sound(Slob!SlobFree(h, x.block - 1, 0), own \ {x}, bigs)
  <1> DEFINE k == Slob!SlobFree(h, x.block - 1, 0)
             a == x.block - 1
             o == own \ {x}
             X == Used(own, bigs)
             W == Heaps(HeapOf(bigs, h.free))
  <1>1. Heaped(h, X, W) /\ Users(own, bigs, h.free, h.units)
    BY DEF Sound
  <1>2. a \in X
    BY SmallBlock
  <1> HIDE DEF X, W
  <1>3. Heaped(k, X \ {a}, W) /\ Keeps(h, k, X \ {a})
    <2> HIDE DEF a
    <2> QED
      BY <1>1, <1>2, FreeIs DEF a
  <1> HIDE DEF k
  <1>4. ASSUME NEW y \in own, ~Big(bigs, y), y # x PROVE y.block - 1 # a
    <2>1. y.block \in Nat /\ x.block \in Nat
      BY <1>4, SmallBlock
    <2>2. y.block # x.block
      BY <1>1, <1>4 DEF Users
    <2> QED
      BY <2>1, <2>2
  <1>5. \A b \in bigs : b.at # a
    BY <1>1 DEF Users
  <1> HIDE DEF a
  <1>6. Used(o, bigs) = X \ {a}
    <2>1. {y \in o : ~Big(bigs, y)} = {y \in own : ~Big(bigs, y)} \ {x}
      OBVIOUS
    <2>2. {y.block - 1 : y \in {z \in own : ~Big(bigs, z)} \ {x}}
              = {y.block - 1 : y \in {z \in own : ~Big(bigs, z)}} \ {a}
      <3>1. a = x.block - 1
        BY DEF a
      <3> QED
        BY <1>4, <3>1
    <2> QED
      BY <1>5, <2>1, <2>2 DEF Used, X
  <1>7. k.free = h.free /\ \A y \in X \ {a} : k.units[y] = h.units[y]
    BY <1>3 DEF Keeps
  <1>8. Users(o, bigs, k.free, k.units)
    <2>1. o \subseteq [block : Slob!Addresses, size : Requests]
      BY <1>1 DEF Users
    <2>2. ASSUME NEW d \in bigs PROVE k.units[d.at] = Slob!SLOB_UNITS(BIGBLOCK)
      <3>1. d.at \in X \ {a}
        BY <1>5 DEF Used, X
      <3> QED
        BY <1>1, <1>7, <3>1 DEF Users
    <2>3. ASSUME NEW y \in o, ~Big(bigs, y)
          PROVE  /\ k.units[y.block - 1] = Slob!SLOB_UNITS(y.size + SLOB_UNIT)
                 /\ \A d \in bigs : d.at # y.block - 1
      <3>1. y.block - 1 \in X \ {a}
        BY <1>4, <2>3 DEF Used, X
      <3> QED
        BY <1>1, <1>7, <2>3, <3>1 DEF Users
    <2>4. \A y, z \in o : y # z => y.block # z.block
      BY <1>1 DEF Users
    <2>5. \A y \in o, d \in bigs : Slob!Start(d.pages) = y.block => d.order = Slob!FindOrder(y.size)
      BY <1>1 DEF Users
    <2> HIDE DEF o
    <2> QED
      BY <1>1, <1>7, <2>1, <2>2, <2>3, <2>4, <2>5 DEF Users
  <1> HIDE DEF o
  <1>9. Sound(k, o, bigs)
    BY <1>3, <1>6, <1>7, <1>8 DEF Sound, W
  <1> QED
    BY <1>9 DEF k, o, a

\* The heap at the beginning.
LEMMA HeapInitially == Slob!Init => HeapInv
  <1> SUFFICES ASSUME Slob!Init PROVE HeapInv
    OBVIOUS
  <1> DEFINE h == Slob!heap
  <1>1. /\ h.next = [a \in Slob!Addresses |-> IF a = 0 THEN 0 ELSE -1]
        /\ h.units = [a \in Slob!Addresses |-> IF a = 0 THEN 1 ELSE 0]
        /\ h.slobfree = 0 /\ h.free = Slob!Pages /\ h.got = -1
        /\ h \in HeapStates
    BY AddressFacts DEF Slob!Init, Slob!heap, HeapStates
  <1>2. owned = {} /\ bigblocks = {}
    BY DEF Slob!Init
  <1> HIDE DEF h
  <1>3. InRing(h.next) = {0}
    BY <1>1, AddressFacts DEF InRing
  <1>4. Ringed(h.next)
    BY <1>1, <1>3, AddressFacts DEF Ringed
  <1>5. HeapOf(bigblocks, h.free) = {} /\ Used(owned, bigblocks) = {}
    BY <1>1, <1>2 DEF HeapOf, Used
  <1>6. Heaps({}) = {}
    BY DEF Heaps
  <1>7. Tiles((InRing(h.next) \ {0}) \cup {}, h.units, {})
    BY <1>1, <1>3 DEF Tiles
  <1>8. \A a \in InRing(h.next) : a + h.units[a] # h.next[a]
    BY <1>1, <1>3, AddressFacts
  <1>9. Heaped(h, {}, {})
    BY <1>1, <1>3, <1>4, <1>7, <1>8, AddressFacts DEF Heaped, Nearly
  <1>10. Users({}, {}, h.free, h.units)
    BY DEF Users
  <1> QED
    BY <1>2, <1>5, <1>6, <1>9, <1>10 DEF HeapInv, Sound, h

-----------------------------------------------------------------------------
(* What the pool of the kernel heap has *)

Extent(x) == <<x.block, Slob!SLOB_UNITS(Slob!Given(x.size))>>
Held(own) == {Extent(x) : x \in own}

\* What is given is not more than was asked for, nor more than the pages that
\* find_order finds.
LEMMA GivenFits ==
    ASSUME NEW size \in Nat, size > 0
    PROVE  LET m == 2 ^ Slob!FindOrder(size)
               given == Slob!SLOB_UNITS(Slob!Given(size))
           IN /\ m \in Nat /\ m > 0 /\ given \in Nat
              /\ given <= Slob!SLOB_UNITS(size)
              /\ given <= m * Slob!PageUnits
  <1> DEFINE k == Slob!FindOrder(size)
             m == 2 ^ k
             X == {size} \cup Slob!RoundedDown(size)
             s == Slob!Given(size)
  <1>1. k \in 0 .. size /\ size \div m <= PAGE_SIZE
    BY OrderIs
  <1>2. m \in Nat /\ m > 0
    BY <1>1, TwoPower
  <1>3. k = 0 => m = 1
    <2>1. SUBSET {} = {{}}
      OBVIOUS
    <2>2. 2 ^ 0 = 1
      <3>1. IsFiniteSet({}) /\ Cardinality({}) = 0
        BY FS_EmptySet
      <3>2. Cardinality(SUBSET {}) = 2 ^ 0
        BY <3>1, FS_SUBSET
      <3>3. Cardinality({{}}) = 1
        BY FS_Singleton
      <3> QED
        BY <2>1, <3>2, <3>3
    <2> HIDE DEF k
    <2> QED
      BY <2>2
  <1>4. PAGE_SIZE \in Nat /\ PAGE_SIZE = Slob!PageUnits * SLOB_UNIT
        /\ Slob!PageUnits \in Nat /\ SLOB_UNIT \in Nat
    BY AddressFacts, SizeFacts
  <1>5. X \subseteq Nat
    <2>1. \A j \in 1 .. size : 2 ^ j \in Nat
      BY TwoPower
    <2> QED
      BY <1>4, <2>1 DEF Slob!RoundedDown
  <1>6. s \in Nat /\ \A y \in X : s <= y
    <2>1. s = Slob!Min(X)
      BY DEF Slob!Given
    <2>2. size \in X
      OBVIOUS
    <2> HIDE DEF X, s
    <2> QED
      BY <1>5, <2>1, <2>2, LeastIs
  <1>7. s <= size
    BY <1>6
  <1>8. s <= PAGE_SIZE * m
    <2>1. CASE size <= PAGE_SIZE * m
      <3> HIDE DEF s, m
      <3> QED
        BY <1>2, <1>4, <1>6, <1>7, <2>1
    <2>2. CASE PAGE_SIZE * m < size
      <3>1. size < (PAGE_SIZE + 1) * m
        <4> HIDE DEF m
        <4> QED
          BY <1>1, <1>2, <1>4
      <3>2. k # 0
        <4> HIDE DEF m, k
        <4> QED
          BY <1>3, <1>4, <2>2, <3>1
      <3>3. k \in 1 .. size
        BY <1>1, <3>2
      <3>4. PAGE_SIZE * m \in X
        <4> HIDE DEF k
        <4> QED
          BY <2>2, <3>1, <3>3 DEF Slob!RoundedDown
      <3> HIDE DEF X, m, s
      <3> QED
        BY <1>6, <3>4
    <2> HIDE DEF s, m
    <2> QED
      BY <1>2, <1>4, <2>1, <2>2
  <1> HIDE DEF s, m
  <1>9. Slob!SLOB_UNITS(s) \in Nat /\ Slob!SLOB_UNITS(size) \in Nat
    BY <1>6, UnitsIs
  <1>10. Slob!SLOB_UNITS(s) <= Slob!SLOB_UNITS(size)
    <2>1. size <= Slob!SLOB_UNITS(size) * SLOB_UNIT
      BY <1>9, UnitsIs
    <2>2. s <= Slob!SLOB_UNITS(size) * SLOB_UNIT
      BY <1>4, <1>6, <1>7, <1>9, <2>1
    <2> QED
      BY <1>6, <1>9, <2>2, UnitsIs
  <1>11. Slob!SLOB_UNITS(s) <= m * Slob!PageUnits
    <2> DEFINE u == m * Slob!PageUnits
    <2>1. u \in Nat /\ PAGE_SIZE * m = u * SLOB_UNIT
      BY <1>2, <1>4
    <2> HIDE DEF u
    <2>2. s <= u * SLOB_UNIT
      BY <1>8, <2>1
    <2>3. Slob!SLOB_UNITS(s) <= u
      BY <1>6, <2>1, <2>2, UnitsIs
    <2> QED
      BY <2>3 DEF u
  <1> QED
    BY <1>2, <1>9, <1>10, <1>11 DEF s, m

\* Small blocks are where the ring has no memory, and no pages.
LEMMA SmallExtent ==
    ASSUME NEW h, NEW own, NEW bigs, Sound(h, own, bigs), NEW x \in own, ~Big(bigs, x)
    PROVE  LET n == Slob!SLOB_UNITS(Slob!Given(x.size))
           IN /\ n \in Nat /\ x.block \in Nat /\ x.block > 0 /\ h.units[x.block - 1] \in Nat
              /\ x.block + n <= (x.block - 1) + h.units[x.block - 1]
              /\ h.units[x.block - 1] > 1
              /\ (x.block - 1) .. (x.block - 1) + h.units[x.block - 1] - 1
                     \subseteq Heaps(HeapOf(bigs, h.free))
  <1> DEFINE n == Slob!SLOB_UNITS(Slob!Given(x.size))
             a == x.block - 1
  <1>1. /\ a \in Used(own, bigs) /\ a \in Nat /\ x.block \in Nat
        /\ x.size \in Nat /\ x.size > 0
    BY SmallBlock
  <1>2. h.units[a] = Slob!SLOB_UNITS(x.size + SLOB_UNIT)
    BY DEF Sound, Users
  <1>3. Slob!SLOB_UNITS(x.size + SLOB_UNIT) = Slob!SLOB_UNITS(x.size) + 1
    BY <1>1, UnitsFacts
  <1>4. Slob!SLOB_UNITS(x.size) \in Nat /\ h.units[a] > 1
    BY <1>1, <1>2, UnitsIs, SizeFacts
  <1>5. n \in Nat /\ n <= Slob!SLOB_UNITS(x.size)
    BY <1>1, GivenFits
  <1> HIDE DEF n
  <1>6. a .. a + h.units[a] - 1 \subseteq Heaps(HeapOf(bigs, h.free))
    BY <1>1 DEF Sound, Heaped, Nearly, Tiles
  <1>7. x.block = a + 1
    BY <1>1
  <1> HIDE DEF a
  <1>8. x.block + n <= a + h.units[a] /\ x.block > 0 /\ h.units[a] \in Nat
    BY <1>1, <1>2, <1>3, <1>4, <1>5, <1>7
  <1> QED
    BY <1>1, <1>4, <1>5, <1>6, <1>8 DEF n, a

\* Pages are where the heap has none.
LEMMA BigExtent ==
    ASSUME NEW h, NEW own, NEW bigs, Sound(h, own, bigs), NEW x \in own, NEW b \in bigs,
           Slob!Start(b.pages) = x.block
    PROVE  LET n == Slob!SLOB_UNITS(Slob!Given(x.size))
               m == 2 ^ b.order
           IN /\ n \in Nat /\ x.block \in Nat /\ m \in Nat /\ m > 0 /\ b.pages \in Nat
              /\ x.block + n <= Slob!Start(b.pages + m)
              /\ Slob!PagesOf(b) = b.pages .. b.pages + m - 1
              /\ Slob!PagesOf(b) \cap HeapOf(bigs, h.free) = {}
  <1> DEFINE n == Slob!SLOB_UNITS(Slob!Given(x.size))
             m == 2 ^ b.order
             p == b.pages
  <1>1. /\ x \in [block : Slob!Addresses, size : Requests]
        /\ b \in [at : Slob!Addresses, pages : Slob!Pages, order : Nat]
        /\ b.order = Slob!FindOrder(x.size)
    BY DEF Sound, Users
  <1>2. x.block \in Nat /\ p \in Nat /\ x.size \in Nat /\ x.size > 0
    BY <1>1, AddressFacts, SizeFacts DEF Slob!Pages
  <1>3. n \in Nat /\ m \in Nat /\ m > 0 /\ n <= m * Slob!PageUnits
    BY <1>1, <1>2, GivenFits
  <1>4. Slob!PageUnits \in Nat
    BY AddressFacts
  <1>5. Slob!PagesOf(b) = p .. p + m - 1
    BY DEF Slob!PagesOf
  <1>6. Slob!PagesOf(b) \cap HeapOf(bigs, h.free) = {}
    BY DEF HeapOf
  <1> HIDE DEF n, m
  <1>7. Slob!Start(p + m) = Slob!Start(p) + m * Slob!PageUnits
    BY <1>2, <1>3, <1>4 DEF Slob!Start
  <1>8. x.block + n <= Slob!Start(p + m)
    <2> DEFINE u == m * Slob!PageUnits
    <2>1. u \in Nat /\ n <= u /\ Slob!Start(p + m) = x.block + u
      BY <1>3, <1>4, <1>7
    <2> HIDE DEF u
    <2> QED
      BY <1>2, <1>3, <2>1
  <1> QED
    BY <1>2, <1>3, <1>5, <1>6, <1>8 DEF n, m, p

\* Pages in their order begin in this order.
LEMMA StartGrows ==
    ASSUME NEW f \in Nat, NEW g \in Nat, f <= g
    PROVE  Slob!Start(f) \in Nat /\ Slob!Start(g) \in Nat /\ Slob!Start(f) <= Slob!Start(g)
  <1>1. Slob!PageUnits \in Nat /\ Slob!Start(f) \in Nat /\ Slob!Start(g) \in Nat
    BY AddressFacts, StartOrder
  <1>2. CASE f = g
    BY <1>1, <1>2
  <1>3. CASE f < g
    <2>1. Slob!Start(f) + Slob!PageUnits <= Slob!Start(g)
      BY <1>3, StartOrder
    <2> QED
      BY <1>1, <2>1
  <1> QED
    BY <1>2, <1>3

\* A small block and pages are apart.
LEMMA SmallFromBig ==
    ASSUME NEW h, NEW own, NEW bigs, Sound(h, own, bigs), NEW x \in own, ~Big(bigs, x),
           NEW y \in own, NEW b \in bigs, Slob!Start(b.pages) = y.block
    PROVE  Slob!P!Disjoint(Extent(x), Extent(y)) /\ Slob!P!Disjoint(Extent(y), Extent(x))
  <1> DEFINE n == Slob!SLOB_UNITS(Slob!Given(x.size))
             l == Slob!SLOB_UNITS(Slob!Given(y.size))
             m == 2 ^ b.order
             p == b.pages
             a == x.block - 1
             H == HeapOf(bigs, h.free)
             top == a + h.units[a]
             end == Slob!Start(p + m)
  <1>1. /\ n \in Nat /\ x.block \in Nat /\ x.block > 0 /\ h.units[a] \in Nat
        /\ x.block + n <= top /\ h.units[a] > 1
        /\ a .. top - 1 \subseteq Heaps(H)
    BY SmallExtent
  <1>2. /\ l \in Nat /\ y.block \in Nat /\ m \in Nat /\ m > 0 /\ p \in Nat
        /\ y.block + l <= end
        /\ \A g \in H : ~(p <= g /\ g <= p + m - 1)
    <2>1. /\ l \in Nat /\ y.block \in Nat /\ m \in Nat /\ m > 0 /\ p \in Nat
          /\ y.block + l <= end
          /\ Slob!PagesOf(b) = p .. p + m - 1 /\ Slob!PagesOf(b) \cap H = {}
      BY BigExtent
    <2>2. \A g \in H : g \in Nat
      BY AddressFacts DEF HeapOf, Slob!Pages
    <2> HIDE DEF l, m, p, end, H
    <2> QED
      BY <2>1, <2>2
  <1>3. H \subseteq Slob!Pages /\ H \subseteq Nat
    BY AddressFacts DEF HeapOf, Slob!Pages
  <1>4. a \in Nat /\ top \in Nat /\ x.block = a + 1 /\ top > a + 1
    BY <1>1
  <1> HIDE DEF n, l, m, p, a, H, top
  <1>5. end \in Nat
    BY <1>2, StartOrder
  <1>6. y.block = Slob!Start(p)
    BY DEF p
  <1> HIDE DEF end
  <1>7. ASSUME NEW u \in Nat, u \in a .. top - 1, y.block <= u, u < end PROVE FALSE
    <2>1. PICK g \in H : u \in Slob!Start(g) .. Slob!Start(g + 1) - 1
      BY <1>1, <1>7 DEF Heaps
    <2>2. /\ g \in Nat /\ Slob!Start(g) \in Nat /\ Slob!Start(g + 1) \in Nat
          /\ Slob!Start(g) <= u /\ u < Slob!Start(g + 1)
      BY <1>3, <2>1, StartOrder
    <2>3. CASE g < p
      <3>1. g + 1 <= p /\ g + 1 \in Nat
        BY <1>2, <2>2, <2>3
      <3>2. Slob!Start(g + 1) <= Slob!Start(p)
        BY <1>2, <3>1, StartGrows
      <3> QED
        BY <1>2, <1>6, <1>7, <2>2, <3>2
    <2>4. CASE p + m <= g
      <3>1. Slob!Start(p + m) <= Slob!Start(g)
        BY <1>2, <2>2, <2>4, StartGrows
      <3> QED
        BY <1>5, <1>7, <2>2, <3>1 DEF end
    <2>5. g < p \/ p + m <= g
      BY <1>2, <2>2
    <2> QED
      BY <2>3, <2>4, <2>5
  <1>8. x.block + n <= y.block \/ y.block + l <= x.block
    <2> SUFFICES ASSUME x.block + n > y.block, y.block + l > x.block PROVE FALSE
      BY <1>1, <1>2
    <2>1. top > y.block /\ end > x.block
      BY <1>1, <1>2, <1>4, <1>5
    <2>2. CASE y.block <= x.block
      <3>1. x.block \in a .. top - 1
        BY <1>1, <1>4
      <3> QED
        BY <1>1, <1>7, <2>1, <2>2, <3>1
    <2>3. CASE x.block < y.block
      <3>1. y.block < end
        <4>1. p < p + m /\ p + m \in Nat
          BY <1>2
        <4>2. Slob!Start(p) + Slob!PageUnits <= Slob!Start(p + m)
          BY <1>2, <4>1, StartOrder
        <4>3. Slob!PageUnits \in Nat /\ Slob!PageUnits >= 2
          BY AddressFacts
        <4> QED
          BY <1>2, <1>5, <1>6, <4>2, <4>3 DEF end
      <3>2. y.block \in a .. top - 1
        BY <1>1, <1>2, <1>4, <2>1, <2>3
      <3> QED
        BY <1>2, <1>7, <3>1, <3>2
    <2> QED
      BY <1>1, <1>2, <2>2, <2>3
  <1> QED
    BY <1>8 DEF Slob!P!Disjoint, Extent, n, l

\* No two callers have the same memory.
LEMMA NoOverlap ==
    ASSUME NEW h, NEW own, NEW bigs, Sound(h, own, bigs), NEW x \in own, NEW y \in own, x # y
    PROVE  Slob!P!Disjoint(Extent(x), Extent(y))
  <1> DEFINE n == Slob!SLOB_UNITS(Slob!Given(x.size))
             l == Slob!SLOB_UNITS(Slob!Given(y.size))
  <1>1. CASE ~Big(bigs, x) /\ ~Big(bigs, y)
    <2> DEFINE a == x.block - 1
               c == y.block - 1
    <2>1. /\ a \in Used(own, bigs) /\ a \in Nat /\ x.block \in Nat
          /\ n \in Nat /\ h.units[a] \in Nat /\ x.block + n <= a + h.units[a]
      BY <1>1, SmallBlock, SmallExtent
    <2>2. /\ c \in Used(own, bigs) /\ c \in Nat /\ y.block \in Nat
          /\ l \in Nat /\ h.units[c] \in Nat /\ y.block + l <= c + h.units[c]
      BY <1>1, SmallBlock, SmallExtent
    <2>3. x.block # y.block
      BY DEF Sound, Users
    <2>4. x.block = a + 1 /\ y.block = c + 1 /\ a # c
      BY <2>1, <2>2, <2>3
    <2> HIDE DEF a, c, n, l
    <2>5. \A d, e \in Used(own, bigs) : d < e => d + h.units[d] <= e
      BY DEF Sound, Heaped, Nearly, Tiles
    <2>6. a < c => a + h.units[a] <= c
      BY <2>1, <2>2, <2>5
    <2>7. c < a => c + h.units[c] <= a
      BY <2>1, <2>2, <2>5
    <2>8. x.block + n <= y.block \/ y.block + l <= x.block
      BY <2>1, <2>2, <2>4, <2>6, <2>7
    <2> QED
      BY <2>8 DEF Slob!P!Disjoint, Extent, n, l
  <1>2. CASE ~Big(bigs, x) /\ Big(bigs, y)
    <2>1. PICK b \in bigs : Slob!Start(b.pages) = y.block
      BY <1>2 DEF Big
    <2> QED
      BY <1>2, <2>1, SmallFromBig
  <1>3. CASE Big(bigs, x) /\ ~Big(bigs, y)
    <2>1. PICK b \in bigs : Slob!Start(b.pages) = x.block
      BY <1>3 DEF Big
    <2> QED
      BY <1>3, <2>1, SmallFromBig
  <1>4. CASE Big(bigs, x) /\ Big(bigs, y)
    <2>1. PICK b \in bigs : Slob!Start(b.pages) = x.block
      BY <1>4 DEF Big
    <2>2. PICK c \in bigs : Slob!Start(c.pages) = y.block
      BY <1>4 DEF Big
    <2>3. x.block # y.block
      BY DEF Sound, Users
    <2>4. Slob!PagesOf(b) \cap Slob!PagesOf(c) = {}
      BY <2>1, <2>2, <2>3 DEF Sound, Users
    <2> DEFINE f == b.pages
               g == c.pages
               i == 2 ^ b.order
               j == 2 ^ c.order
    <2>5. /\ n \in Nat /\ x.block \in Nat /\ i \in Nat /\ i > 0 /\ f \in Nat
          /\ x.block + n <= Slob!Start(f + i) /\ Slob!PagesOf(b) = f .. f + i - 1
      BY <2>1, BigExtent
    <2>6. /\ l \in Nat /\ y.block \in Nat /\ j \in Nat /\ j > 0 /\ g \in Nat
          /\ y.block + l <= Slob!Start(g + j) /\ Slob!PagesOf(c) = g .. g + j - 1
      BY <2>2, BigExtent
    <2>7. x.block = Slob!Start(f) /\ y.block = Slob!Start(g)
      BY <2>1, <2>2
    <2> HIDE DEF f, g, i, j, n, l
    <2>8. f + i <= g \/ g + j <= f
      <3>1. f .. f + i - 1 \cap g .. g + j - 1 = {}
        BY <2>4, <2>5, <2>6
      <3>2. f <= g => g \notin f .. f + i - 1
        BY <2>6, <3>1
      <3>3. g <= f => f \notin g .. g + j - 1
        BY <2>5, <3>1
      <3> QED
        BY <2>5, <2>6, <3>2, <3>3
    <2>9. CASE f + i <= g
      <3>1. Slob!Start(f + i) \in Nat /\ Slob!Start(f + i) <= Slob!Start(g)
        BY <2>5, <2>6, <2>9, StartGrows
      <3>2. x.block + n <= y.block
        BY <2>5, <2>6, <2>7, <3>1
      <3> QED
        BY <3>2 DEF Slob!P!Disjoint, Extent, n, l
    <2>10. CASE g + j <= f
      <3>1. Slob!Start(g + j) \in Nat /\ Slob!Start(g + j) <= Slob!Start(f)
        BY <2>5, <2>6, <2>10, StartGrows
      <3>2. y.block + l <= x.block
        BY <2>5, <2>6, <2>7, <3>1
      <3> QED
        BY <3>2 DEF Slob!P!Disjoint, Extent, n, l
    <2> QED
      BY <2>8, <2>9, <2>10
  <1> QED
    BY <1>1, <1>2, <1>3, <1>4

\* What happens to the pool when a block becomes owned or is given back.
LEMMA HeldGrows ==
    ASSUME NEW h, NEW own, NEW x, NEW bigs, Sound(h, own \cup {x}, bigs),
           \A y \in own : y.block # x.block
    PROVE  /\ Extent(x) \in Held(own \cup {x}) \ Held(own)
           /\ \A y \in Held(own) : Slob!P!Disjoint(Extent(x), y)
           /\ Held(own \cup {x}) = Held(own) \cup {Extent(x)}
  <1>1. Held(own \cup {x}) = Held(own) \cup {Extent(x)}
    BY DEF Held
  <1>2. Extent(x) \notin Held(own)
    BY DEF Held, Extent
  <1>3. ASSUME NEW y \in own PROVE Slob!P!Disjoint(Extent(x), Extent(y))
    <2>1. x # y
      OBVIOUS
    <2> QED
      BY <2>1, NoOverlap
  <1> QED
    BY <1>1, <1>2, <1>3 DEF Held

\* What a caller gives back, nobody has afterwards.
LEMMA HeldShrinks ==
    ASSUME NEW h, NEW own, NEW bigs, Sound(h, own, bigs), NEW x \in own
    PROVE  Extent(x) \in Held(own) /\ Held(own \ {x}) = Held(own) \ {Extent(x)}
  <1>1. \A y \in own : y # x => y.block # x.block
    BY DEF Sound, Users
  <1>2. \A y \in own : y # x => Extent(y) # Extent(x)
    BY <1>1 DEF Extent
  <1> QED
    BY <1>2 DEF Held

-----------------------------------------------------------------------------
(* The steps of the kernel heap *)

\* A step leaves HeapInv, and is one of the pool or changes nothing that it has.
HeapStep ==
    HeapInv' /\ [Slob!P!Next]_{<<x.block, Slob!SLOB_UNITS(Slob!Given(x.size))>> : x \in owned}

\* A step that ends in the state k of the heap.
LEMMA StepKeeps ==
    ASSUME NEW k, Slob!HeapBecomes(k), Sound(k, owned, bigblocks),
           owned' = owned, bigblocks' = bigblocks
    PROVE  HeapStep
  <1> DEFINE j == [next |-> k.next, units |-> k.units, slobfree |-> k.slobfree,
                   free |-> k.free, got |-> Slob!Dead]
  <1>1. Sound(j, owned, bigblocks)
    BY AfterCall
  <1>2. Slob!heap' = j
    BY DEF Slob!HeapBecomes, Slob!heap, Slob!Dead
  <1> HIDE DEF j
  <1>3. HeapInv'
    BY <1>1, <1>2 DEF HeapInv
  <1> QED
    BY <1>3 DEF HeapStep

\* A step that ends in the state k of the heap, after which x is owned.
LEMMA StepAllocs ==
    ASSUME NEW k, Slob!HeapBecomes(k), NEW x, NEW bigs, Sound(k, owned \cup {x}, bigs),
           \A y \in owned : y.block # x.block, owned' = owned \cup {x}, bigblocks' = bigs
    PROVE  HeapStep
  <1> DEFINE j == [next |-> k.next, units |-> k.units, slobfree |-> k.slobfree,
                   free |-> k.free, got |-> Slob!Dead]
             o == owned \cup {x}
  <1>1. Sound(j, o, bigs)
    BY AfterCall
  <1>2. Slob!heap' = j
    BY DEF Slob!HeapBecomes, Slob!heap, Slob!Dead
  <1>3. /\ Extent(x) \in Held(o) \ Held(owned)
        /\ \A y \in Held(owned) : Slob!P!Disjoint(Extent(x), y)
        /\ Held(o) = Held(owned) \cup {Extent(x)}
    BY HeldGrows
  <1> HIDE DEF j, o
  <1>4. HeapInv'
    BY <1>1, <1>2 DEF HeapInv, o
  <1>5. Slob!P!Next
    BY <1>3 DEF Slob!P!Next, Slob!P!Alloc, Held, Extent, o
  <1> QED
    BY <1>4, <1>5 DEF HeapStep

\* A step that ends in the state k of the heap, after which x is not owned.
LEMMA StepFrees ==
    ASSUME NEW h, NEW x \in owned, Sound(h, owned, bigblocks),
           NEW k, Slob!HeapBecomes(k), NEW bigs, Sound(k, owned \ {x}, bigs),
           owned' = owned \ {x}, bigblocks' = bigs
    PROVE  HeapStep
  <1> DEFINE j == [next |-> k.next, units |-> k.units, slobfree |-> k.slobfree,
                   free |-> k.free, got |-> Slob!Dead]
             o == owned \ {x}
  <1>1. Sound(j, o, bigs)
    BY AfterCall
  <1>2. Slob!heap' = j
    BY DEF Slob!HeapBecomes, Slob!heap, Slob!Dead
  <1>3. Extent(x) \in Held(owned) /\ Held(o) = Held(owned) \ {Extent(x)}
    BY HeldShrinks
  <1> HIDE DEF j, o
  <1>4. HeapInv'
    BY <1>1, <1>2 DEF HeapInv, o
  <1>5. Slob!P!Next
    BY <1>3 DEF Slob!P!Next, Slob!P!Free, Held, Extent, o
  <1> QED
    BY <1>4, <1>5 DEF HeapStep

\* What slob_alloc does in a call.
LEMMA CallIs ==
    ASSUME HeapInv, NEW g, Slob!Answer(g), NEW size \in Nat, SLOB_UNIT < size, size <= PAGE_SIZE
    PROVE  LET h == Slob!heap
               k == Slob!SlobAlloc(h, size, g)
           IN \/ k = h /\ k.got = Slob!Dead
              \/ /\ Allocated(h, k, Used(owned, bigblocks), HeapOf(bigblocks, h.free),
                              Slob!SLOB_UNITS(size))
                 /\ k.got # Slob!Dead
  <1> DEFINE h == Slob!heap
             k == Slob!SlobAlloc(h, size, g)
             n == Slob!SLOB_UNITS(size)
             G == HeapOf(bigblocks, h.free)
             X == Used(owned, bigblocks)
  <1>1. n \in Nat /\ n > 1 /\ n <= Slob!PageUnits
    BY UnitsIs, UnitsFacts
  <1>2. G \in SUBSET Slob!Pages /\ G \cap h.free = {}
    BY DEF HeapOf
  <1>3. Heaped(h, X, Heaps(G))
    BY DEF HeapInv, Sound
  <1>4. g \in h.free \cup {0} /\ h.got = Slob!Dead
    BY DEF Slob!Answer, Slob!heap
  <1> HIDE DEF h, n, G, X
  <1>5. k = h \/ Allocated(h, k, X, G, n)
    BY <1>1, <1>2, <1>3, <1>4, AllocIs DEF n
  <1> HIDE DEF k
  <1>6. Allocated(h, k, X, G, n) => k.got # Slob!Dead
    BY AddressFacts DEF Allocated
  <1> QED
    BY <1>4, <1>5, <1>6 DEF h, k, n, G, X

\* __kmalloc of less than a page.
LEMMA SmallStep ==
    ASSUME HeapInv, NEW size \in Requests, NEW g, Slob!KmallocSmall(size, g)
    PROVE  HeapStep
  <1> DEFINE h == Slob!heap
             k == Slob!SlobAlloc(h, size + SLOB_UNIT, g)
             x == [block |-> k.got + 1, size |-> size]
  <1>1. /\ Slob!Answer(g) /\ size + SLOB_UNIT + SLOB_UNIT < PAGE_SIZE
        /\ Slob!HeapBecomes(k) /\ bigblocks' = bigblocks
        /\ owned' = IF k.got = Slob!Dead THEN owned ELSE owned \cup {x}
    BY DEF Slob!KmallocSmall
  <1>2. /\ size + SLOB_UNIT \in Nat /\ SLOB_UNIT < size + SLOB_UNIT
        /\ size + SLOB_UNIT <= PAGE_SIZE
    BY <1>1, SizeFacts
  <1>3. \/ k = h /\ k.got = Slob!Dead
        \/ /\ Allocated(h, k, Used(owned, bigblocks), HeapOf(bigblocks, h.free),
                        Slob!SLOB_UNITS(size + SLOB_UNIT))
           /\ k.got # Slob!Dead
    BY <1>1, <1>2, CallIs
  <1>4. Sound(h, owned, bigblocks)
    BY DEF HeapInv
  <1> HIDE DEF h, k
  <1>5. CASE k = h /\ k.got = Slob!Dead
    BY <1>1, <1>4, <1>5, StepKeeps
  <1>6. CASE /\ Allocated(h, k, Used(owned, bigblocks), HeapOf(bigblocks, h.free),
                          Slob!SLOB_UNITS(size + SLOB_UNIT))
             /\ k.got # Slob!Dead
    <2>1. Sound(k, owned \cup {x}, bigblocks) /\ \A y \in owned : y.block # x.block
      BY <1>4, <1>6, SmallAllocated
    <2>2. owned' = owned \cup {x}
      BY <1>1, <1>6
    <2> HIDE DEF x
    <2> QED
      BY <1>1, <2>1, <2>2, StepAllocs
  <1> QED
    BY <1>3, <1>5, <1>6

\* __kmalloc of pages.
LEMMA BigStep ==
    ASSUME HeapInv, NEW size \in Requests, NEW g, Slob!KmallocBig(size, g)
    PROVE  HeapStep
  <1> DEFINE h == Slob!heap
             k == Slob!SlobAlloc(h, BIGBLOCK, g)
             order == Slob!FindOrder(size)
  <1>1. /\ Slob!Answer(g) /\ k.got # Slob!Dead
        /\ \/ \E p \in Slob!Pages :
                 Slob!KmallocPages(size, k, [at |-> k.got, pages |-> p, order |-> order])
           \/ Slob!NoPages(k, order)
    BY DEF Slob!KmallocBig
  <1>2. BIGBLOCK \in Nat /\ SLOB_UNIT < BIGBLOCK /\ BIGBLOCK <= PAGE_SIZE
    BY SlobAssumption DEF Slob!KmallocAssumption
  <1>3. Allocated(h, k, Used(owned, bigblocks), HeapOf(bigblocks, h.free),
                  Slob!SLOB_UNITS(BIGBLOCK))
    BY <1>1, <1>2, CallIs
  <1>4. Sound(h, owned, bigblocks)
    BY DEF HeapInv
  <1> HIDE DEF h, k
  <1>5. ASSUME NEW p \in Slob!Pages,
               Slob!KmallocPages(size, k, [at |-> k.got, pages |-> p, order |-> order])
        PROVE  HeapStep
    <2> DEFINE b == [at |-> k.got, pages |-> p, order |-> order]
               x == [block |-> Slob!Start(p), size |-> size]
               j == LessPages(k, b)
    <2>1. /\ Slob!PagesOf(b) \subseteq k.free /\ Slob!HeapBecomes(j)
          /\ bigblocks' = bigblocks \cup {b} /\ owned' = owned \cup {x}
      BY <1>5 DEF Slob!KmallocPages, LessPages
    <2>2. Sound(j, owned \cup {x}, bigblocks \cup {b}) /\ \A y \in owned : y.block # x.block
      <3>1. /\ b = [at |-> k.got, pages |-> p, order |-> Slob!FindOrder(size)]
            /\ x = [block |-> Slob!Start(p), size |-> size]
        OBVIOUS
      <3>2. Slob!PagesOf(b) \subseteq k.free
        BY <2>1
      <3> HIDE DEF b, x
      <3> QED
        BY <1>3, <1>4, <3>1, <3>2, PagesAllocated
    <2> HIDE DEF b, x, j
    <2> QED
      BY <2>1, <2>2, StepAllocs
  <1>6. CASE Slob!NoPages(k, order)
    <2>1. /\ Slob!HeapBecomes(Slob!SlobFree(k, k.got, BIGBLOCK))
          /\ bigblocks' = bigblocks /\ owned' = owned
      BY <1>6 DEF Slob!NoPages
    <2>2. Sound(Slob!SlobFree(k, k.got, BIGBLOCK), owned, bigblocks)
      BY <1>3, <1>4, NoPagesSound
    <2> QED
      BY <2>1, <2>2, StepKeeps
  <1> QED
    BY <1>1, <1>5, <1>6

\* kfree.
LEMMA KfreeStep ==
    ASSUME HeapInv, NEW x \in owned,
           Slob!KfreeSmall(x) \/ \E b \in bigblocks : Slob!KfreeBig(x, b)
    PROVE  HeapStep
  <1> DEFINE h == Slob!heap
  <1>1. Sound(h, owned, bigblocks)
    BY DEF HeapInv
  <1>2. ASSUME Slob!KfreeSmall(x) PROVE HeapStep
    <2>1. /\ Slob!HeapBecomes(Slob!SlobFree(h, x.block - 1, 0)) /\ ~Big(bigblocks, x)
          /\ owned' = owned \ {x} /\ bigblocks' = bigblocks
      BY <1>2 DEF Slob!KfreeSmall, Big
    <2> HIDE DEF h
    <2>2. Sound(Slob!SlobFree(h, x.block - 1, 0), owned \ {x}, bigblocks)
      BY <1>1, <2>1, SmallFreed
    <2> QED
      BY <1>1, <2>1, <2>2, StepFrees
  <1>3. ASSUME NEW b \in bigblocks, Slob!KfreeBig(x, b) PROVE HeapStep
    <2> DEFINE k == Slob!SlobFree([h EXCEPT !.free = @ \cup Slob!PagesOf(b)], b.at, BIGBLOCK)
    <2>1. /\ Slob!HeapBecomes(k) /\ Slob!Start(b.pages) = x.block
          /\ owned' = owned \ {x} /\ bigblocks' = bigblocks \ {b}
      BY <1>3 DEF Slob!KfreeBig
    <2> HIDE DEF h
    <2>2. Sound(k, owned \ {x}, bigblocks \ {b})
      BY <1>1, <2>1, BigFreed
    <2> HIDE DEF k
    <2> QED
      BY <1>1, <2>1, <2>2, StepFrees
  <1> QED
    BY <1>2, <1>3

\* Every step of the kernel heap keeps its invariant, and is one of the pool.
LEMMA SlobNext == HeapInv /\ [Slob!Next]_slobVars => HeapStep
  <1> SUFFICES ASSUME HeapInv, [Slob!Next]_slobVars PROVE HeapStep
    OBVIOUS
  <1>1. CASE UNCHANGED slobVars
    <2>1. Slob!HeapBecomes(Slob!heap) /\ owned' = owned /\ bigblocks' = bigblocks
      BY <1>1 DEF Slob!HeapBecomes, Slob!heap, slobVars
    <2>2. Sound(Slob!heap, owned, bigblocks)
      BY DEF HeapInv
    <2> QED
      BY <2>1, <2>2, StepKeeps
  <1>2. CASE Slob!Next
    <2>1. CASE \E size \in Requests, g \in {0} \cup Slob!Pages :
                   Slob!KmallocSmall(size, g) \/ Slob!KmallocBig(size, g)
      BY <2>1, SmallStep, BigStep
    <2>2. CASE \E x \in owned :
                   Slob!KfreeSmall(x) \/ \E b \in bigblocks : Slob!KfreeBig(x, b)
      BY <2>2, KfreeStep
    <2> QED
      BY <1>2, <2>1, <2>2 DEF Slob!Next
  <1> QED
    BY <1>1, <1>2

-----------------------------------------------------------------------------
(* What HeapInv says of the kernel heap *)

\* HeapInv says of the ring and its blocks what SlobExact says.
LEMMA HeapSuffices == HeapInv => SlobExact
  <1> SUFFICES ASSUME HeapInv PROVE SlobExact
    OBVIOUS
  <1> DEFINE F == InRing(slob_next)
             X == Used(owned, bigblocks)
             W == Heaps(HeapOf(bigblocks, freepages))
  <1>1. /\ slob_next \in [Slob!Addresses -> Slob!Addresses \cup {-1}]
        /\ units \in [Slob!Addresses -> Nat] /\ slobfree \in Slob!Addresses
        /\ freepages \subseteq Slob!Pages
        /\ slobfree \in F /\ Nearly(slob_next, units, X, W, -1)
        /\ Users(owned, bigblocks, freepages, units)
    <2>1. /\ Slob!heap.next = slob_next /\ Slob!heap.units = units
          /\ Slob!heap.slobfree = slobfree /\ Slob!heap.free = freepages
      BY DEF Slob!heap
    <2> QED
      BY <2>1 DEF HeapInv, Sound, Heaped, HeapStates
  <1>2. Slob!FreeBlocks = F
    BY AddressFacts DEF Slob!FreeBlocks, InRing
  <1>3. Slob!UsedBlocks = X
    BY DEF Slob!UsedBlocks, Slob!IsBig, Used, Big
  <1>4. UNION {Slob!Start(g) .. Slob!Start(g + 1) - 1 : g \in Slob!HeapPages} = W
    BY DEF Slob!HeapPages, HeapOf, Heaps
  <1>5. Slob!TypeOK
    BY <1>1, AddressFacts DEF Slob!TypeOK, Users
  <1> HIDE DEF F, X, W
  <1>6. Ringed(slob_next) /\ units[0] = 1 /\ Tiles((F \ {0}) \cup X, units, W)
    BY <1>1 DEF Nearly, F
  <1>7. {Slob!arena, slobfree} \subseteq F /\ units[Slob!arena] = 1
    BY <1>1, <1>6, AddressFacts DEF Ringed, F
  <1>8. F \subseteq Nat
    BY AddressFacts DEF F, InRing
  <1>9. ASSUME NEW a \in F
        PROVE  /\ slob_next[a] = IF {b \in F : b > a} = {} THEN Slob!arena
                                 ELSE Slob!Min({b \in F : b > a})
               /\ a + units[a] # slob_next[a]
    <2> DEFINE Higher == {b \in F : b > a}
    <2>1. a + units[a] # slob_next[a]
      <3>1. a # -1
        BY <1>8
      <3> QED
        BY <1>1, <3>1 DEF Nearly, F
    <2>2. /\ slob_next[a] \in F /\ (slob_next[a] # 0 => a < slob_next[a])
          /\ \A b \in F : a < b => slob_next[a] # 0 /\ slob_next[a] <= b
      BY <1>6 DEF Ringed, F
    <2>3. CASE Higher = {}
      <3>1. slob_next[a] = 0
        BY <1>8, <2>2, <2>3
      <3> QED
        BY <2>1, <2>3, <3>1, AddressFacts
    <2>4. CASE Higher # {}
      <3>1. PICK b \in F : a < b
        BY <1>8, <2>4
      <3>2. slob_next[a] \in Higher /\ \A c \in Higher : slob_next[a] <= c
        BY <1>8, <2>2, <3>1
      <3>3. Slob!Min(Higher) \in Higher /\ \A c \in Higher : Slob!Min(Higher) <= c
        <4>1. Higher \subseteq Nat
          BY <1>8
        <4> HIDE DEF Higher
        <4> QED
          BY <2>4, <4>1, LeastIs
      <3>4. slob_next[a] = Slob!Min(Higher)
        <4>1. Higher \subseteq Nat
          BY <1>8
        <4> HIDE DEF Higher
        <4>2. slob_next[a] \in Nat /\ Slob!Min(Higher) \in Nat
          BY <3>2, <3>3, <4>1
        <4>3. slob_next[a] <= Slob!Min(Higher)
          BY <3>2, <3>3
        <4>4. Slob!Min(Higher) <= slob_next[a]
          BY <3>2, <3>3
        <4> QED
          BY <4>2, <4>3, <4>4
      <3> QED
        BY <2>1, <2>4, <3>4
    <2> QED
      BY <2>3, <2>4
  <1> DEFINE S == (F \ {0}) \cup X
  <1>10. /\ S \subseteq Nat /\ S \subseteq W /\ W \subseteq Nat
         /\ \A a \in S : units[a] \in Nat
         /\ \A a \in S : Slob!Units(a) \subseteq W
         /\ \A a, b \in S : a < b => a + units[a] <= b
         /\ \A w \in W : \E a \in S : a <= w /\ w < a + units[a]
    BY <1>6, AddressFacts DEF Tiles, Slob!Units
  <1> HIDE DEF S
  <1>11. ASSUME NEW a \in S, NEW b \in S, a # b PROVE Slob!Units(a) \cap Slob!Units(b) = {}
    <2>1. a \in Nat /\ b \in Nat /\ units[a] \in Nat /\ units[b] \in Nat
      BY <1>10
    <2>2. a + units[a] <= b \/ b + units[b] <= a
      BY <1>10, <1>11, <2>1
    <2> QED
      BY <2>1, <2>2 DEF Slob!Units
  <1>12. UNION {Slob!Units(a) : a \in S} = W
    <2>1. ASSUME NEW w \in W PROVE \E a \in S : w \in Slob!Units(a)
      <3>1. PICK a \in S : a <= w /\ w < a + units[a]
        BY <1>10
      <3>2. w \in Nat /\ a \in Nat /\ units[a] \in Nat
        BY <1>10
      <3> QED
        BY <3>1, <3>2 DEF Slob!Units
    <2> QED
      BY <1>10, <2>1
  <1>13. (F \ {Slob!arena}) \cup X = S
    BY AddressFacts DEF S
  <1> QED
    BY <1>2, <1>3, <1>4, <1>5, <1>7, <1>9, <1>11, <1>12, <1>13 DEF SlobExact, Slob!SlobExact

\* SlobExact, for any number of pages and any requests: the ring of the kernel heap keeps
\* the order of its addresses, and no unit of its pages is lost or is in two blocks.
THEOREM SlobCorrect == Slob!Spec => []SlobExact
  <1>1. HeapInv /\ [Slob!Next]_Slob!vars => HeapInv'
    BY SlobNext DEF Slob!vars, slobVars, HeapStep
  <1> QED
    BY HeapInitially, HeapSuffices, <1>1, PTL DEF Slob!Spec

\* HeapIsPool: what kmalloc gives to a caller overlaps with nothing that another caller
\* has, until kfree takes it back.
THEOREM HeapImplemented == Slob!Spec => HeapIsPool
  <1>1. HeapInv /\ [Slob!Next]_Slob!vars =>
            /\ HeapInv'
            /\ [Slob!P!Next]_{<<x.block, Slob!SLOB_UNITS(Slob!Given(x.size))>> : x \in owned}
    BY SlobNext DEF Slob!vars, slobVars, HeapStep
  <1>2. Slob!Init => Slob!P!Init
    BY DEF Slob!Init, Slob!P!Init
  <1> QED
    BY HeapInitially, <1>1, <1>2, PTL DEF Slob!Spec, HeapIsPool, Slob!HeapIsPool, Slob!P!Spec
=============================================================================
