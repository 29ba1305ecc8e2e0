----------------------------- MODULE ForkProofs -----------------------------
(***************************************************************************)
(* What do_fork gives a process: its identifier is in range and unique     *)
(* (GetPid); what it allocates is what the processes have, whatever fails  *)
(* half way; and an inode counts its descriptors and references exactly    *)
(* (Files).  For any number of processes, any MAX_PROCESS and MAX_PID, and *)
(* any files and descriptors.                                              *)
(***************************************************************************)
EXTENDS Fork, FiniteSetTheorems, WellFoundedInduction, TLAPS

-----------------------------------------------------------------------------
(* get_pid hands out identifiers that are in range and unique, whatever    *)
(* MAX_PROCESS and MAX_PID are.                                            *)

\* What the scan has established for the processes it has met: none has the
\* candidate, and none lies inside the interval.
Clear(q) == pid[q] # last_pid /\ ~(last_pid < pid[q] /\ pid[q] < next_safe)

\* The processes that the scan has met are Clear; outside it there is none to meet.
Scanned ==
    /\ pc = "scan" => \A q \in procList \ unseen : Clear(q)
    /\ pc # "scan" => unseen = {}

\* The identifier get_pid is about to return is free.
Fresh == pc = "found" => \A q \in procList : pid[q] # last_pid

\* A call under way has a candidate that is a process identifier.
Candidates == pc # "idle" => last_pid \in Pids

\* The inductive invariant of get_pid.
Inv == TypeOK /\ IntervalFree /\ Scanned /\ Fresh /\ Candidates

-----------------------------------------------------------------------------
\* Before the first call every identifier is free.
LEMMA InitInv == Init => Inv
  BY PidAssumption DEF Init, Inv, TypeOK, IntervalFree, Scanned, Fresh, Candidates,
                       procList, Pids, NoPid

\* A scan starts with nothing seen.
LEMMA ScanInv ==
    ASSUME Inv, NEW p \in Pids, Scan(p), pid' = pid
    PROVE  Inv'
  BY PidAssumption DEF Inv, TypeOK, Scan, IntervalFree, Scanned, Fresh, Candidates,
                       procList, Pids

\* A call takes the fast path, or starts a scan.
LEMMA CallInv == Inv /\ Call => Inv'
  <1> SUFFICES ASSUME Inv, Call PROVE Inv'
    OBVIOUS
  <1> DEFINE p == last_pid + 1
  <1>1. p \in Nat /\ last_pid \in Nat /\ next_safe \in Nat /\ MAX_PID \in Nat /\ 1 \in Pids
    BY PidAssumption DEF Inv, TypeOK, Pids
  <1>2. CASE p >= MAX_PID /\ Scan(1)
    BY <1>1, <1>2, ScanInv DEF Call
  <1>3. CASE p < MAX_PID /\ Scan(p)
    <2>1. p \in Pids
      BY <1>1, <1>3 DEF Pids
    <2> QED
      BY <1>3, <2>1, ScanInv DEF Call
  <1>4. CASE /\ p < MAX_PID /\ ~LeavesInterval(p)
             /\ last_pid' = p /\ pc' = "found" /\ UNCHANGED <<next_safe, unseen>>
    <2>1. p \in Pids /\ p < next_safe /\ pid' = pid /\ pc = "idle"
      BY <1>1, <1>4 DEF Pids, LeavesInterval, Call
    <2>2. \A q \in procList : pid[q] \in Nat /\ ~(last_pid < pid[q] /\ pid[q] < next_safe)
      BY <2>1 DEF Inv, TypeOK, IntervalFree, procList, Pids, NoPid
    <2>3. \A q \in procList : pid[q] # p /\ ~(p < pid[q] /\ pid[q] < next_safe)
      BY <1>1, <2>1, <2>2
    <2>4. procList' = procList
      BY <2>1 DEF procList
    <2>5. TypeOK'
      BY <1>1, <1>4, <2>1, <2>4 DEF Inv, TypeOK, Pids
    <2>6. IntervalFree' /\ Fresh'
      BY <1>4, <2>1, <2>3, <2>4 DEF IntervalFree, Fresh
    <2> QED
      BY <1>4, <2>1, <2>5, <2>6 DEF Inv, Scanned, Candidates
  <1> QED
    BY <1>2, <1>3, <1>4 DEF Call

\* One round of the scan: a collision, or a process that narrows the interval.
LEMMA LookInv == ASSUME Inv, NEW q \in Procs, Look(q) PROVE Inv'
  <1>1. /\ pc = "scan" /\ q \in unseen /\ q \in procList /\ unseen \subseteq procList
        /\ pid' = pid /\ procList' = procList
        /\ last_pid \in Pids /\ next_safe \in 1 .. MAX_PID /\ MAX_PID \in Nat
        /\ \A r \in procList : pid[r] \in Nat
        /\ \A r \in procList \ unseen : Clear(r)
    BY PidAssumption DEF Look, Inv, TypeOK, procList, Candidates, Scanned, Pids, NoPid
  <1>2. CASE /\ pid[q] = last_pid /\ last_pid + 1 < next_safe
             /\ last_pid' = last_pid + 1 /\ unseen' = unseen \ {q}
             /\ UNCHANGED <<next_safe, pc>>
    <2>1. last_pid' \in Pids
      BY <1>1, <1>2 DEF Pids
    <2>2. \A r \in procList' \ unseen' : Clear(r)'
      BY <1>1, <1>2 DEF Clear, Pids
    <2>3. TypeOK'
      BY <1>1, <1>2, <2>1 DEF Inv, TypeOK, Pids
    <2> QED
      BY <1>1, <1>2, <2>1, <2>2, <2>3 DEF Inv, IntervalFree, Scanned, Fresh, Candidates
  <1>3. CASE Scan(Candidate)
    <2>1. Candidate \in Pids
      BY <1>1 DEF Candidate, Pids
    <2> QED
      BY <1>1, <1>3, <2>1, ScanInv
  <1>4. CASE /\ pid[q] # last_pid /\ next_safe' = Passed(q)
             /\ unseen' = unseen \ {q} /\ UNCHANGED <<last_pid, pc>>
    <2>1. next_safe' \in 1 .. MAX_PID /\ next_safe' <= next_safe
          /\ ~(last_pid < pid[q] /\ pid[q] < next_safe')
      BY <1>1, <1>4 DEF Passed, Pids
    <2>2. \A r \in procList' \ unseen' : Clear(r)'
      BY <1>1, <1>4, <2>1 DEF Clear, Pids
    <2>3. TypeOK'
      BY <1>1, <1>4, <2>1 DEF Inv, TypeOK
    <2> QED
      BY <1>1, <1>4, <2>2, <2>3 DEF Inv, IntervalFree, Scanned, Fresh, Candidates
  <1> QED
    BY <1>1, <1>2, <1>3, <1>4 DEF Look, Collision

\* The scan has met everybody: the candidate is free.
LEMMA FinishInv == Inv /\ Finish => Inv'
  BY DEF Inv, Finish, TypeOK, IntervalFree, Scanned, Fresh, Candidates, Clear, procList

\* do_fork gives the identifier to a process: it is the end of the interval.
LEMMA LinkInv == ASSUME Inv, NEW c \in Procs, Link(c) PROVE Inv'
  <1>1. /\ pid' = [pid EXCEPT ![c] = last_pid] /\ pc' = "idle" /\ pc = "found"
        /\ UNCHANGED <<last_pid, next_safe, unseen>>
        /\ last_pid \in Pids /\ last_pid # NoPid
    BY DEF Link, Inv, Candidates, Pids, NoPid
  <1>2. procList' = procList \cup {c}
    BY <1>1 DEF Inv, TypeOK, procList
  <1>3. TypeOK'
    BY <1>1, <1>2 DEF Inv, TypeOK
  <1>4. IntervalFree'
    BY <1>1, <1>2 DEF Inv, TypeOK, IntervalFree, Pids, procList
  <1> QED
    BY <1>1, <1>3, <1>4 DEF Inv, Scanned, Fresh, Candidates

\* A process that is gone only makes identifiers free.
LEMMA UnlinkInv == ASSUME Inv, NEW c \in Procs, Unlink(c) PROVE Inv'
  <1>1. /\ pid' = [pid EXCEPT ![c] = NoPid] /\ pc' = "idle" /\ pc = "idle"
        /\ UNCHANGED <<last_pid, next_safe, unseen>>
    BY DEF Unlink
  <1>2. procList' = procList \ {c} /\ \A r \in procList' : pid'[r] = pid[r]
    BY <1>1 DEF Inv, TypeOK, procList
  <1>3. IntervalFree'
    BY <1>1, <1>2 DEF Inv, IntervalFree
  <1> QED
    BY <1>1, <1>2, <1>3 DEF Inv, TypeOK, Scanned, Fresh, Candidates

\* What get_pid remembers is true at every step.
THEOREM Inductive == Spec => []Inv
  <1>1. Inv /\ UNCHANGED vars => Inv'
    BY DEF vars, Inv, TypeOK, IntervalFree, Scanned, Fresh, Candidates, Clear, procList
  <1>2. Inv /\ [Next]_vars => Inv'
    BY <1>1, CallInv, LookInv, FinishInv, LinkInv, UnlinkInv DEF Next, GetPidStep
  <1> QED
    BY <1>2, InitInv, PTL DEF Spec

\* get_pid's interval really is free whenever get_pid is not scanning.
THEOREM IntervalCorrect == Spec => []IntervalFree
  BY Inductive, PTL DEF Inv

\* get_pid keeps last_pid and next_safe in their ranges.
THEOREM TypeCorrect == Spec => []TypeOK
  BY Inductive, PTL DEF Inv

\* get_pid implements the allocator: every step of do_fork, get_pid and do_wait
\* is a step of PidAlloc, or changes no identifier.
THEOREM PidsAreUnique == Spec => PidsUnique
  <1>1. Init => Alloc!Init
    BY DEF Init, Alloc!Init
  <1>2. Inv /\ [Next]_vars => [Alloc!Next]_pid
    <2> SUFFICES ASSUME Inv, Next PROVE Alloc!Next \/ pid' = pid
      BY DEF vars
    <2>1. CASE Call \/ Finish \/ \E c \in Procs : Look(c)
      BY <2>1 DEF Call, Finish, Look
    <2>2. ASSUME NEW c \in Procs, Link(c) PROVE Alloc!Allocate(c)
      <3>1. pid[c] = NoPid
        BY <2>2 DEF Link, procList
      <3>2. last_pid \in Pids /\ last_pid # NoPid
        BY <2>2 DEF Link, Inv, Candidates, Pids, NoPid
      <3>3. \A d \in Procs : pid[d] # last_pid
        BY <2>2, <3>2 DEF Link, Inv, Fresh, procList
      <3> QED
        BY <2>2, <3>1, <3>2, <3>3 DEF Link, Alloc!Allocate
    <2>3. ASSUME NEW c \in Procs, Unlink(c) PROVE Alloc!Release(c)
      BY <2>3 DEF Unlink, procList, Alloc!Release
    <2> QED
      BY <2>1, <2>2, <2>3 DEF Next, GetPidStep, Alloc!Next
  <1> QED
    BY <1>1, <1>2, Inductive, PTL DEF Spec, PidsUnique, Alloc!Spec

-----------------------------------------------------------------------------
(* What do_fork allocates is what the processes have, whatever fails half  *)
(* way.                                                                    *)

\* The processes, which have a proc_struct and a kernel stack.
Existing == {p \in Owners : state[p] # "NONE"}
\* Those that have an mm_struct.
WithMm == {p \in Owners : mm[p]}

\* The types of what do_fork allocates.
ResourceTypes ==
    /\ state \in [Owners -> {"NONE", "ALIVE", "ZOMBIE"}]
    /\ mm \in [Owners -> BOOLEAN]
    /\ filesp \in [Owners -> Structs \cup {NULL}]
    /\ heap \in [F!Allocated -> Nat]
    /\ lostMm \in Nat

\* A process has its memory only while it lives.
MmOfLiving == \A p \in Owners : mm[p] => state[p] = "ALIVE"

\* The part of the invariant that is about files_structs.
StructsExact ==
    /\ \A p \in Owners : (state[p] = "ALIVE") = (filesp[p] # NULL)
    /\ created = ({filesp[p] : p \in Owners} \ {NULL}) \cup stranded
    /\ \A p, q \in Owners : p # q /\ filesp[p] = filesp[q] => filesp[p] = NULL
    /\ \A p \in Owners : filesp[p] \notin stranded
    /\ NULL \notin stranded

\* The part that counts.
HeapCounts ==
    /\ heap["proc"] = Cardinality(Existing)
    /\ heap["kstack"] = Cardinality(Existing)
    /\ heap["mm"] = Cardinality(WithMm) + lostMm

\* The inductive invariant of what do_fork allocates.
ResourceInv == ResourceTypes /\ MmOfLiving /\ StructsExact /\ HeapCounts

\* Files sees the operators of FiniteSets by names of its own.
LEMMA SameSets ==
    ASSUME NEW S
    PROVE  (F!IsFiniteSet(S) <=> IsFiniteSet(S)) /\ F!Cardinality(S) = Cardinality(S)
  <1>1. F!IsFiniteSet(S) <=> IsFiniteSet(S)
    BY DEF IsFiniteSet, F!IsFiniteSet
  <1>2. F!Cardinality(S) = Cardinality(S)
    BY DEF Cardinality, F!Cardinality
  <1> QED
    BY <1>1, <1>2

\* The number of processes of a kind, when one joins or leaves them.
LEMMA CountOne ==
    ASSUME IsFiniteSet(Owners), NEW S \in SUBSET Owners, NEW p \in Owners
    PROVE  /\ Cardinality(S) \in Nat
           /\ p \notin S => Cardinality(S \cup {p}) = Cardinality(S) + 1
           /\ p \in S => Cardinality(S \ {p}) = Cardinality(S) - 1
  <1>1. IsFiniteSet(S)
    BY FS_Subset
  <1> QED
    BY <1>1, FS_CardinalityType, FS_AddElement, FS_RemoveElement

\* proc_init: the first process, with its files and no memory of its own.
LEMMA ResourceInit ==
    ASSUME F!Init
    PROVE  ResourceInv
  <1>1. PICK p \in Owners, f \in Structs :
           /\ state = [q \in Owners |-> IF q = p THEN "ALIVE" ELSE "NONE"]
           /\ mm = [q \in Owners |-> FALSE]
           /\ filesp = [q \in Owners |-> IF q = p THEN f ELSE NULL]
           /\ created = {f}
           /\ heap = [k \in F!Allocated |-> IF k = "mm" THEN 0 ELSE 1]
           /\ lostMm = 0
           /\ stranded = {}
    BY DEF F!Init
  <1>2. f # NULL
    BY OwnersAssumption DEF F!FilesAssumption
  <1>3. Existing = {p} /\ WithMm = {}
    BY <1>1 DEF Existing, WithMm
  <1>4. Cardinality({p}) = 1 /\ Cardinality({}) = 0
    BY FS_Singleton, FS_EmptySet
  <1>5. ResourceTypes /\ MmOfLiving
    BY <1>1 DEF ResourceTypes, MmOfLiving, F!Allocated
  <1>6. StructsExact
    BY <1>1, <1>2 DEF StructsExact
  <1>7. HeapCounts
    BY <1>1, <1>3, <1>4 DEF HeapCounts, F!Allocated
  <1> QED
    BY <1>5, <1>6, <1>7 DEF ResourceInv

\* do_fork: all four at once.
LEMMA ForkResources ==
    ASSUME ResourceInv, NEW p \in Owners, NEW c \in Owners, F!Fork(p, c)
    PROVE  ResourceInv'
  <1>1. PICK f \in Structs \ created :
          created' = created \cup {f} /\ filesp' = [filesp EXCEPT ![c] = f]
    BY DEF F!Fork
  <1>2. /\ state[c] = "NONE" /\ ~mm[c] /\ filesp[c] = NULL /\ f # NULL
        /\ heap' = F!Taken(heap, F!Allocated)
        /\ mm' = [mm EXCEPT ![c] = TRUE]
        /\ state' = [state EXCEPT ![c] = "ALIVE"]
        /\ UNCHANGED <<lostMm, stranded>>
    BY <1>1, OwnersAssumption
    DEF F!Fork, ResourceInv, ResourceTypes, MmOfLiving, StructsExact, F!FilesAssumption
  <1>3. Existing' = Existing \cup {c} /\ WithMm' = WithMm \cup {c}
        /\ c \notin Existing /\ c \notin WithMm
    BY <1>2 DEF ResourceInv, ResourceTypes, Existing, WithMm
  <1>4. /\ Cardinality(Existing') = Cardinality(Existing) + 1
        /\ Cardinality(WithMm') = Cardinality(WithMm) + 1
        /\ Cardinality(Existing) \in Nat /\ Cardinality(WithMm) \in Nat
    <2>1. Existing \in SUBSET Owners /\ WithMm \in SUBSET Owners /\ IsFiniteSet(Owners)
      BY SameSets, OwnersAssumption DEF Existing, WithMm, F!FilesAssumption
    <2>2. /\ Cardinality(Existing) \in Nat
          /\ Cardinality(Existing \cup {c}) = Cardinality(Existing) + 1
      BY <1>3, <2>1, CountOne, Zenon
    <2>3. /\ Cardinality(WithMm) \in Nat
          /\ Cardinality(WithMm \cup {c}) = Cardinality(WithMm) + 1
      BY <1>3, <2>1, CountOne, Zenon
    <2> QED
      BY <1>3, <2>2, <2>3
  <1>5. heap' = [k \in F!Allocated |-> heap[k] + 1] /\ {"proc", "kstack", "mm"} = F!Allocated
    BY <1>2 DEF F!Taken, F!Allocated
  <1>6. ResourceTypes' /\ MmOfLiving'
    BY <1>1, <1>2, <1>5 DEF ResourceInv, ResourceTypes, MmOfLiving
  <1>7. HeapCounts'
    BY <1>2, <1>4, <1>5 DEF ResourceInv, ResourceTypes, HeapCounts
  <1>8. StructsExact'
    <2>1. \A q \in Owners : filesp'[q] = IF q = c THEN f ELSE filesp[q]
      BY <1>1 DEF ResourceInv, ResourceTypes
    <2>2. \A q \in Owners : filesp[q] # f /\ f \notin stranded
      BY <1>1, <1>2 DEF ResourceInv, StructsExact
    <2>3. \A q \in Owners : (state'[q] = "ALIVE") = (filesp'[q] # NULL)
      BY <1>2, <2>1 DEF ResourceInv, ResourceTypes, StructsExact
    <2>4. {filesp'[q] : q \in Owners} \ {NULL} = ({filesp[q] : q \in Owners} \ {NULL}) \cup {f}
      BY <1>2, <2>1
    <2>5. created' = ({filesp'[q] : q \in Owners} \ {NULL}) \cup stranded'
      BY <1>1, <1>2, <2>4 DEF ResourceInv, StructsExact
    <2> QED
      BY <1>2, <2>1, <2>2, <2>3, <2>5 DEF ResourceInv, StructsExact
  <1> QED
    BY <1>6, <1>7, <1>8 DEF ResourceInv

\* do_fork with an allocation that fails: the goto leads to the label that frees
\* what is there, but for the mm_struct when copy_files fails.
LEMMA ForkFailsResources ==
    ASSUME ResourceInv, NEW p \in Owners, NEW i \in 1 .. 4, F!ForkFails(p, i)
    PROVE  ResourceInv'
  <1>1. /\ heap' = F!Freed(F!Taken(heap, {F!ForkOrder[j] : j \in 1 .. i - 1}), F!ForkFrees(i))
        /\ lostMm' = IF i = 4 THEN lostMm + 1 ELSE lostMm
        /\ UNCHANGED <<state, mm, filesp, created, stranded>>
    BY DEF F!ForkFails
  <1> DEFINE got == {F!ForkOrder[j] : j \in 1 .. i - 1}
  <1>2. CASE i # 4
    <2>1. got = F!ForkFrees(i)
      BY <1>2 DEF F!ForkFrees
    <2> HIDE DEF got
    <2>2. heap' = heap
      BY <1>1, <2>1 DEF F!Freed, F!Taken, ResourceInv, ResourceTypes, got
    <2>3. lostMm' = lostMm
      BY <1>1, <1>2
    <2>4. Existing' = Existing /\ WithMm' = WithMm
      BY <1>1 DEF Existing, WithMm
    <2>5. /\ state' = state /\ mm' = mm /\ filesp' = filesp
          /\ created' = created /\ stranded' = stranded
      BY <1>1
    <2>6. ResourceTypes' /\ MmOfLiving'
      BY <2>2, <2>3, <2>5 DEF ResourceInv, ResourceTypes, MmOfLiving
    <2>7. StructsExact'
      BY <2>5 DEF ResourceInv, StructsExact
    <2>8. HeapCounts'
      BY <2>2, <2>3, <2>4 DEF ResourceInv, HeapCounts
    <2> QED
      BY <2>6, <2>7, <2>8 DEF ResourceInv
  <1>3. CASE i = 4
    <2>1. F!ForkOrder[1] = "proc" /\ F!ForkOrder[2] = "kstack" /\ F!ForkOrder[3] = "mm"
      BY DEF F!ForkOrder
    <2>2. 1 .. i - 1 = {1, 2, 3} /\ 1 .. (IF i = 4 THEN 2 ELSE i - 1) = {1, 2}
      BY <1>3
    <2>3. got = {"proc", "kstack", "mm"} /\ F!ForkFrees(i) = {"proc", "kstack"}
      BY <2>1, <2>2 DEF F!ForkFrees
    <2> HIDE DEF got
    <2>4. heap' = F!Freed(F!Taken(heap, got), F!ForkFrees(i))
      BY <1>1 DEF got
    <2>5. heap' \in [F!Allocated -> Nat] /\ heap'["proc"] = heap["proc"]
          /\ heap'["kstack"] = heap["kstack"] /\ heap'["mm"] = heap["mm"] + 1
      BY <2>3, <2>4 DEF F!Freed, F!Taken, F!Allocated, ResourceInv, ResourceTypes
    <2>6. lostMm' = lostMm + 1
      BY <1>1, <1>3
    <2>7. Existing' = Existing /\ WithMm' = WithMm
      BY <1>1 DEF Existing, WithMm
    <2>8. ResourceTypes' /\ MmOfLiving' /\ StructsExact'
      BY <1>1, <2>5, <2>6 DEF ResourceInv, ResourceTypes, MmOfLiving, StructsExact
    <2>9. Cardinality(WithMm) + lostMm + 1 = Cardinality(WithMm) + (lostMm + 1)
      <3>1. lostMm \in Nat /\ Cardinality(WithMm) \in Nat
        <4>1. WithMm \in SUBSET Owners /\ IsFiniteSet(Owners)
          BY SameSets, OwnersAssumption DEF WithMm, F!FilesAssumption
        <4> QED
          BY <4>1, CountOne DEF ResourceInv, ResourceTypes
      <3> QED
        BY <3>1
    <2> QED
      BY <2>5, <2>6, <2>7, <2>8, <2>9 DEF ResourceInv, HeapCounts
  <1> QED
    BY <1>2, <1>3

\* do_exit: the process keeps its proc_struct and kernel stack, and no more.
LEMMA LeaveResources ==
    ASSUME ResourceInv, NEW p \in Owners, state[p] = "ALIVE",
           NEW fds, NEW I, NEW hasMm \in BOOLEAN, F!Leave(p, fds, I, hasMm)
    PROVE  ResourceInv'
  <1> DEFINE f == filesp[p]
  <1>1. /\ state' = [state EXCEPT ![p] = "ZOMBIE"]
        /\ mm' = [mm EXCEPT ![p] = FALSE]
        /\ heap' = IF mm[p] THEN F!Freed(heap, {"mm"}) ELSE heap
        /\ filesp' = [filesp EXCEPT ![p] = NULL]
        /\ lostMm' = lostMm
        /\ \/ created' = created \ {f} /\ stranded' = stranded
           \/ created' = created /\ stranded' = stranded \cup {f}
    BY DEF F!Leave
  <1>2. Existing' = Existing /\ WithMm' = WithMm \ {p}
        /\ (mm[p] <=> p \in WithMm) /\ WithMm \in SUBSET Owners /\ IsFiniteSet(Owners)
    BY <1>1, SameSets, OwnersAssumption
    DEF ResourceInv, ResourceTypes, Existing, WithMm, F!FilesAssumption
  <1>3. ResourceTypes' /\ HeapCounts'
    <2>1. CASE ~mm[p]
      <3>1. WithMm' = WithMm
        BY <1>2, <2>1
      <3> QED
        BY <1>1, <1>2, <2>1, <3>1 DEF ResourceInv, ResourceTypes, HeapCounts
    <2>2. CASE mm[p]
      <3>1. Cardinality(WithMm) \in Nat /\ Cardinality(WithMm') = Cardinality(WithMm) - 1
            /\ Cardinality(WithMm \ {p}) \in Nat
        <4>1. p \in WithMm /\ WithMm \ {p} \in SUBSET Owners
          BY <1>2, <2>2
        <4>2. Cardinality(WithMm \ {p}) = Cardinality(WithMm) - 1 /\ Cardinality(WithMm) \in Nat
          BY <1>2, <4>1, CountOne, Zenon
        <4>3. Cardinality(WithMm \ {p}) \in Nat
          BY <1>2, <4>1, CountOne, Zenon
        <4> QED
          BY <1>2, <4>2, <4>3
      <3>2. heap' = [k \in F!Allocated |-> heap[k] - IF k \in {"mm"} THEN 1 ELSE 0]
        BY <1>1, <2>2 DEF F!Freed
      <3>3. heap["mm"] = Cardinality(WithMm) + lostMm /\ lostMm \in Nat
            /\ heap \in [F!Allocated -> Nat]
        BY DEF ResourceInv, ResourceTypes, HeapCounts
      <3>4. /\ heap' \in [F!Allocated -> Nat] /\ heap'["proc"] = heap["proc"]
            /\ heap'["kstack"] = heap["kstack"]
            /\ heap'["mm"] = Cardinality(WithMm') + lostMm
        BY <1>2, <3>1, <3>2, <3>3 DEF F!Allocated
      <3> QED
        BY <1>1, <1>2, <3>4 DEF ResourceInv, ResourceTypes, HeapCounts
    <2> QED
      BY <2>1, <2>2
  <1>4. MmOfLiving'
    BY <1>1 DEF ResourceInv, ResourceTypes, MmOfLiving
  <1>5. StructsExact'
    <2>1. /\ \A q \in Owners : filesp'[q] = IF q = p THEN NULL ELSE filesp[q]
          /\ \A q \in Owners : state'[q] = IF q = p THEN "ZOMBIE" ELSE state[q]
      BY <1>1 DEF ResourceInv, ResourceTypes
    <2>2. /\ f # NULL /\ f \notin stranded
          /\ \A q \in Owners : q # p => filesp[q] # f
      BY DEF ResourceInv, StructsExact
    <2>3. {filesp'[q] : q \in Owners} \ {NULL} = ({filesp[q] : q \in Owners} \ {NULL}) \ {f}
      BY <2>1, <2>2
    <2>4. created = ({filesp[q] : q \in Owners} \ {NULL}) \cup stranded
          /\ f \in {filesp[q] : q \in Owners}
      BY DEF ResourceInv, StructsExact
    <2> HIDE DEF f
    <2>5. created' = ({filesp'[q] : q \in Owners} \ {NULL}) \cup stranded'
      BY <1>1, <2>2, <2>3, <2>4
    <2>6. \A q \in Owners : (state'[q] = "ALIVE") = (filesp'[q] # NULL)
      BY <2>1 DEF ResourceInv, StructsExact
    <2>7. \A q \in Owners : filesp'[q] \notin stranded'
      BY <1>1, <2>1, <2>2 DEF ResourceInv, StructsExact
    <2>8. \A q, r \in Owners : q # r /\ filesp'[q] = filesp'[r] => filesp'[q] = NULL
      BY <2>1 DEF ResourceInv, StructsExact
    <2>9. NULL \notin stranded'
      BY <1>1, <2>2 DEF ResourceInv, StructsExact
    <2> QED
      BY <2>5, <2>6, <2>7, <2>8, <2>9 DEF StructsExact
  <1> QED
    BY <1>3, <1>4, <1>5 DEF ResourceInv

\* do_wait: the proc_struct and the kernel stack.
LEMMA ReapResources ==
    ASSUME ResourceInv, NEW c \in Owners, F!Reap(c)
    PROVE  ResourceInv'
  <1>1. /\ state[c] = "ZOMBIE"
        /\ state' = [state EXCEPT ![c] = "NONE"]
        /\ heap' = F!Freed(heap, {"proc", "kstack"})
        /\ UNCHANGED <<mm, filesp, created, lostMm, stranded>>
    BY DEF F!Reap
  <1>2. Existing' = Existing \ {c} /\ WithMm' = WithMm /\ c \in Existing
        /\ Existing \in SUBSET Owners /\ Existing \ {c} \in SUBSET Owners /\ IsFiniteSet(Owners)
    BY <1>1, SameSets, OwnersAssumption
    DEF ResourceInv, ResourceTypes, Existing, WithMm, F!FilesAssumption
  <1>3. /\ Cardinality(Existing) \in Nat /\ Cardinality(Existing') \in Nat
        /\ Cardinality(Existing') = Cardinality(Existing) - 1
    <2>1. Cardinality(Existing) \in Nat /\ Cardinality(Existing \ {c}) = Cardinality(Existing) - 1
      BY <1>2, CountOne, Zenon
    <2>2. Cardinality(Existing \ {c}) \in Nat
      BY <1>2, CountOne, Zenon
    <2> QED
      BY <1>2, <2>1, <2>2
  <1>4. heap' = [k \in F!Allocated |-> heap[k] - IF k \in {"proc", "kstack"} THEN 1 ELSE 0]
    BY <1>1 DEF F!Freed
  <1>5. heap["proc"] = Cardinality(Existing) /\ heap["kstack"] = Cardinality(Existing)
        /\ heap \in [F!Allocated -> Nat]
    BY DEF ResourceInv, ResourceTypes, HeapCounts
  <1>6. /\ heap' \in [F!Allocated -> Nat] /\ heap'["mm"] = heap["mm"]
        /\ heap'["proc"] = Cardinality(Existing') /\ heap'["kstack"] = Cardinality(Existing')
    BY <1>3, <1>4, <1>5 DEF F!Allocated
  <1>7. ResourceTypes' /\ HeapCounts'
    BY <1>1, <1>2, <1>6 DEF ResourceInv, ResourceTypes, HeapCounts
  <1>8. MmOfLiving' /\ StructsExact'
    <2>1. \A q \in Owners : (state'[q] = "ALIVE") = (state[q] = "ALIVE")
      BY <1>1 DEF ResourceInv, ResourceTypes
    <2> QED
      BY <1>1, <2>1 DEF ResourceInv, MmOfLiving, StructsExact
  <1> QED
    BY <1>7, <1>8 DEF ResourceInv

\* load_icode: an mm_struct in place of the one do_execve has put down.
LEMMA ExecResources ==
    ASSUME ResourceInv, NEW p \in Owners, NEW n, F!Exec(p, n)
    PROVE  ResourceInv'
  <1>1. /\ state[p] = "ALIVE"
        /\ heap' = IF mm[p] THEN heap ELSE F!Taken(heap, {"mm"})
        /\ mm' = [mm EXCEPT ![p] = TRUE]
        /\ UNCHANGED <<state, filesp, created, lostMm, stranded>>
    BY DEF F!Exec
  <1>2. Existing' = Existing /\ WithMm' = WithMm \cup {p}
        /\ (mm[p] <=> p \in WithMm) /\ WithMm \in SUBSET Owners /\ IsFiniteSet(Owners)
    BY <1>1, SameSets, OwnersAssumption
    DEF ResourceInv, ResourceTypes, Existing, WithMm, F!FilesAssumption
  <1>3. MmOfLiving' /\ StructsExact'
    BY <1>1 DEF ResourceInv, ResourceTypes, MmOfLiving, StructsExact
  <1>4. CASE mm[p]
    <2>1. WithMm' = WithMm /\ heap' = heap
      BY <1>1, <1>2, <1>4
    <2> QED
      BY <1>1, <1>2, <1>3, <2>1 DEF ResourceInv, ResourceTypes, HeapCounts
  <1>5. CASE ~mm[p]
    <2>1. Cardinality(WithMm) \in Nat /\ Cardinality(WithMm \cup {p}) = Cardinality(WithMm) + 1
      BY <1>2, <1>5, CountOne, Zenon
    <2>2. heap' = [k \in F!Allocated |-> heap[k] + IF k \in {"mm"} THEN 1 ELSE 0]
      BY <1>1, <1>5 DEF F!Taken
    <2>3. heap["mm"] = Cardinality(WithMm) + lostMm /\ lostMm \in Nat
          /\ heap \in [F!Allocated -> Nat]
      BY DEF ResourceInv, ResourceTypes, HeapCounts
    <2>4. /\ heap' \in [F!Allocated -> Nat] /\ heap'["proc"] = heap["proc"]
          /\ heap'["kstack"] = heap["kstack"]
          /\ heap'["mm"] = Cardinality(WithMm \cup {p}) + lostMm
      BY <2>1, <2>2, <2>3 DEF F!Allocated
    <2> QED
      BY <1>1, <1>2, <1>3, <2>4 DEF ResourceInv, ResourceTypes, HeapCounts
  <1> QED
    BY <1>4, <1>5

\* No step of a process breaks it.
LEMMA ResourceStep == ResourceInv /\ [F!Next]_F!vars => ResourceInv'
  <1> SUFFICES ASSUME ResourceInv, [F!Next]_F!vars PROVE ResourceInv'
    OBVIOUS
  <1>1. ASSUME UNCHANGED <<state, mm, filesp, created, heap, lostMm, stranded>>
        PROVE  ResourceInv'
    BY <1>1 DEF ResourceInv, ResourceTypes, MmOfLiving, StructsExact, HeapCounts, Existing,
                WithMm
  <1>2. CASE UNCHANGED F!vars
    BY <1>1, <1>2 DEF F!vars
  <1>3. ASSUME NEW p \in Owners,
               \/ \E n \in F!Nodes : F!Open(p, n, FALSE) \/ F!OpenExcl(p, n)
               \/ \E n \in Regular : F!Open(p, n, TRUE)
               \/ \E n \in Dirs : F!Chdir(p, n)
               \/ \E fd \in F!Fds : F!Close(p, fd) \/ F!Grow(p, fd) \/ F!Sync(p, fd)
               \/ \E fd1, fd2 \in F!Fds : F!Dup(p, fd1, fd2)
        PROVE  ResourceInv'
    BY <1>1, <1>3 DEF F!Open, F!OpenExcl, F!Chdir, F!Close, F!Grow, F!Sync, F!Dup, F!notFiles
  <1>4. ASSUME NEW p \in Owners, NEW n \in Regular, F!Exec(p, n) PROVE ResourceInv'
    BY <1>4, ExecResources
  <1>5. ASSUME NEW p \in Owners,
               \/ F!Exit(p) \/ F!ExecNotOpened(p)
               \/ \E n \in Regular : F!ExecNotLoaded(p, n)
        PROVE  ResourceInv'
    <2>1. mm[p] \in BOOLEAN
      BY DEF ResourceInv, ResourceTypes
    <2> QED
      BY <1>5, <2>1, LeaveResources DEF F!Exit, F!Running, F!ExecNotOpened, F!ExecNotLoaded
  <1>6. ASSUME NEW p \in Owners, NEW c \in Owners, F!Fork(p, c) PROVE ResourceInv'
    BY <1>6, ForkResources
  <1>7. ASSUME NEW p \in Owners, NEW i \in 1 .. 4, F!ForkFails(p, i) PROVE ResourceInv'
    BY <1>7, ForkFailsResources
  <1>8. ASSUME NEW p \in Owners, F!Reap(p) PROVE ResourceInv'
    BY <1>8, ReapResources
  <1> QED
    BY <1>2, <1>3, <1>4, <1>5, <1>6, <1>7, <1>8 DEF F!Next

\* Whatever fails half way, nothing is freed twice and no more gets lost than
\* the code loses: an mm_struct for each fork that fails in copy_files, and the
\* files_struct of a process that exits without an mm.
THEOREM ResourcesCorrect == F!Spec => []ResourcesExact
  <1>1. F!Init => ResourceInv
    BY ResourceInit
  <1>2. ResourceInv /\ [F!Next]_F!vars => ResourceInv'
    BY ResourceStep
  <1>3. ResourceInv => ResourcesExact
    BY SameSets DEF ResourceInv, StructsExact, HeapCounts, ResourcesExact, F!ResourcesExact,
                    Existing, WithMm
  <1> QED
    BY <1>1, <1>2, <1>3, PTL DEF F!Spec

-----------------------------------------------------------------------------
(* The counts of an inode are exact. *)

\* A set of natural numbers that is not empty has a smallest element: the form
\* in which the proofs below argue by induction.
LEMMA SmallestElement ==
    ASSUME NEW X, X \subseteq Nat, X # {}
    PROVE  \E x \in X : \A y \in X : x <= y
  <1> DEFINE R == OpToRel(<, Nat)
  <1>1. IsWellFoundedOn(R, Nat)
    BY NatLessThanWellFounded
  <1>2. PICK x \in X : \A y \in X : ~(<<y, x>> \in R)
    <2> HIDE DEF R
    <2> QED
      BY <1>1, WFMin
  <1>3. \A y \in X : ~(y < x)
    BY <1>2 DEF OpToRel
  <1> QED
    BY <1>3

-----------------------------------------------------------------------------
\* One turn of the loop over the descriptors: fd_array_close, or fd_array_dup.
OneFile(dup, n, J) ==
    IF n = NULL THEN J
    ELSE IF dup THEN F!OpenInc(F!RefInc(J, n), n) ELSE F!VfsClose(J, n)

\* The loop over descriptors takes them in some order.
Chosen(s) == CHOOSE x \in s : TRUE

\* f is the result of the loop for each set of descriptors in D.
LoopOn(f, D, dup, I, fds) ==
    f = [s \in D |-> IF s = {} THEN I ELSE OneFile(dup, fds[Chosen(s)], f[s \ {Chosen(s)}])]

\* The inodes after the loop over the descriptors S.
Loop(dup, I, fds, S) == (CHOOSE f : LoopOn(f, SUBSET S, dup, I, fds))[S]

\* The loops of files_closeall and files_destroy, and of dup_files.
LEMMA Loops ==
    ASSUME NEW I, NEW fds, NEW S, NEW dir
    PROVE  /\ F!CloseFds(I, fds, S) = Loop(FALSE, I, fds, S)
           /\ F!DupFds(I, fds, dir) = Loop(TRUE, F!RefInc(I, dir), fds, F!Fds)
  <1>1. F!CloseFds(I, fds, S) = Loop(FALSE, I, fds, S)
    BY DEF F!CloseFds, F!FoldFunctionOnSet, F!MapThenFoldSet, Loop, LoopOn, Chosen, OneFile
  <1>2. F!DupFds(I, fds, dir) = Loop(TRUE, F!RefInc(I, dir), fds, F!Fds)
    BY DEF F!DupFds, F!FoldFunctionOnSet, F!MapThenFoldSet, Loop, LoopOn, Chosen, OneFile
  <1> QED
    BY <1>1, <1>2

\* The sets of at most k of the descriptors.
UpTo(S, k) == {s \in SUBSET S : Cardinality(s) <= k}

\* What is left when the loop has taken one descriptor.
LEMMA OneLess ==
    ASSUME NEW S, IsFiniteSet(S), NEW s \in SUBSET S
    PROVE  /\ Cardinality(s) \in Nat /\ (Cardinality(s) = 0 <=> s = {})
           /\ s # {} => /\ Chosen(s) \in s
                        /\ s \ {Chosen(s)} \in SUBSET S
                        /\ Cardinality(s \ {Chosen(s)}) = Cardinality(s) - 1
  <1>1. IsFiniteSet(s)
    BY FS_Subset
  <1>2. Cardinality(s) \in Nat /\ (Cardinality(s) = 0 <=> s = {})
    BY <1>1, FS_CardinalityType, FS_EmptySet
  <1>3. ASSUME s # {}
        PROVE  /\ Chosen(s) \in s /\ s \ {Chosen(s)} \in SUBSET S
               /\ Cardinality(s \ {Chosen(s)}) = Cardinality(s) - 1
    <2>1. Chosen(s) \in s
      BY <1>3 DEF Chosen
    <2>2. Cardinality(s \ {Chosen(s)}) = Cardinality(s) - 1
      BY <1>1, <2>1, FS_RemoveElement
    <2> QED
      BY <2>1, <2>2
  <1> QED
    BY <1>2, <1>3

\* There is a loop over at most k + 1 descriptors if there is one over k.
LEMMA LongerLoop ==
    ASSUME NEW S, IsFiniteSet(S), NEW k \in Nat, NEW dup, NEW I, NEW fds,
           NEW f, LoopOn(f, UpTo(S, k), dup, I, fds)
    PROVE  \E g : LoopOn(g, UpTo(S, k + 1), dup, I, fds)
  <1> DEFINE Body(h, s) == IF s = {} THEN I ELSE OneFile(dup, fds[Chosen(s)], h[s \ {Chosen(s)}])
             g == [s \in UpTo(S, k + 1) |-> Body(f, s)]
  <1>1. \A s \in UpTo(S, k) : f[s] = Body(f, s)
    BY DEF LoopOn
  <1>2. \A s \in UpTo(S, k) : s \in UpTo(S, k + 1)
    <2>1. \A s \in SUBSET S : Cardinality(s) \in Nat
      BY OneLess, Zenon
    <2> QED
      BY <2>1 DEF UpTo
  <1>3. \A s \in UpTo(S, k) : g[s] = f[s]
    BY <1>1, <1>2
  <1>4. ASSUME NEW s \in UpTo(S, k + 1), s # {} PROVE s \ {Chosen(s)} \in UpTo(S, k)
    <2>1. s \in SUBSET S /\ Cardinality(s) <= k + 1
      BY DEF UpTo
    <2>2. /\ Cardinality(s) \in Nat /\ s \ {Chosen(s)} \in SUBSET S
          /\ Cardinality(s \ {Chosen(s)}) = Cardinality(s) - 1
      BY <1>4, <2>1, OneLess, Zenon
    <2> QED
      BY <2>1, <2>2 DEF UpTo
  <1>5. \A s \in UpTo(S, k + 1) : g[s] = Body(g, s)
    <2> SUFFICES ASSUME NEW s \in UpTo(S, k + 1) PROVE Body(f, s) = Body(g, s)
      OBVIOUS
    <2> HIDE DEF g
    <2> QED
      BY <1>3, <1>4
  <1>6. g = [s \in UpTo(S, k + 1) |-> Body(g, s)]
    BY <1>5
  <1> HIDE DEF g
  <1> QED
    BY <1>6 DEF LoopOn

\* The function that the loop is defined by exists.
LEMMA LoopExists ==
    ASSUME NEW S, IsFiniteSet(S), NEW dup, NEW I, NEW fds
    PROVE  \E f : LoopOn(f, SUBSET S, dup, I, fds)
  <1> DEFINE Bad == {k \in Nat : ~\E f : LoopOn(f, UpTo(S, k), dup, I, fds)}
  <1>1. SUFFICES Bad = {}
    <2>1. Cardinality(S) \in Nat
      BY FS_CardinalityType
    <2>2. \A s \in SUBSET S : Cardinality(s) <= Cardinality(S)
      BY FS_Subset
    <2>3. UpTo(S, Cardinality(S)) = SUBSET S
      BY <2>2 DEF UpTo
    <2>4. \E f : LoopOn(f, UpTo(S, Cardinality(S)), dup, I, fds)
      BY <1>1, <2>1
    <2> QED
      BY <2>3, <2>4
  <1>2. SUFFICES ASSUME Bad # {} PROVE FALSE
    OBVIOUS
  <1>3. PICK k \in Bad : \A j \in Bad : k <= j
    <2>1. Bad \subseteq Nat
      OBVIOUS
    <2> HIDE DEF Bad
    <2> QED
      BY <1>2, <2>1, SmallestElement
  <1>4. k # 0
    <2>1. UpTo(S, 0) = {{}}
      <3>1. \A s \in SUBSET S : Cardinality(s) \in Nat /\ (Cardinality(s) = 0 <=> s = {})
        BY OneLess, Zenon
      <3> QED
        BY <3>1 DEF UpTo
    <2> DEFINE f == [s \in {{}} |-> I]
    <2>2. f = [s \in UpTo(S, 0) |->
                 IF s = {} THEN I ELSE OneFile(dup, fds[Chosen(s)], f[s \ {Chosen(s)}])]
      BY <2>1
    <2> HIDE DEF f
    <2>3. LoopOn(f, UpTo(S, 0), dup, I, fds)
      BY <2>2 DEF LoopOn
    <2> QED
      BY <2>3
  <1>5. k - 1 \in Nat /\ k - 1 \notin Bad
    BY <1>3, <1>4
  <1>6. \E f : LoopOn(f, UpTo(S, k - 1), dup, I, fds)
    BY <1>5
  <1>7. \E f : LoopOn(f, UpTo(S, k - 1 + 1), dup, I, fds)
    BY <1>5, <1>6, LongerLoop
  <1> QED
    BY <1>3, <1>5, <1>7

\* An inode with a descriptors and b references is as it should be.
Good(x, a, b) ==
    /\ x \in F!Inode
    /\ x.open_count = a /\ x.ref_count = b /\ a <= b
    /\ x.cached <=> b > 0
    /\ a = 0 => ~x.dirty
    /\ ~x.dirty => x.size = x.disk

\* The inodes J are the inodes I, but for n.
Others(I, J, n) == J \in [F!Nodes -> F!Inode] /\ \A m \in F!Nodes \ {n} : J[m] = I[m]

\* inode_ref_inc of an inode in memory.
LEMMA RefIncGood ==
    ASSUME NEW I \in [F!Nodes -> F!Inode], NEW n \in F!Nodes, NEW a, NEW b,
           Good(I[n], a, b), b > 0
    PROVE  Others(I, F!RefInc(I, n), n) /\ Good(F!RefInc(I, n)[n], a, b + 1)
  <1> DEFINE x == I[n]
             y == [x EXCEPT !.ref_count = @ + 1]
  <1>1. F!RefInc(I, n) = [I EXCEPT ![n] = y]
    BY DEF F!RefInc
  <1>2. y \in F!Inode /\ Good(y, a, b + 1)
    BY DEF Good, F!Inode
  <1> HIDE DEF y
  <1> QED
    BY <1>1, <1>2 DEF Others

\* inode_open_inc of an inode with a reference for it.
LEMMA OpenIncGood ==
    ASSUME NEW I \in [F!Nodes -> F!Inode], NEW n \in F!Nodes, NEW a, NEW b,
           Good(I[n], a, b), a < b
    PROVE  Others(I, F!OpenInc(I, n), n) /\ Good(F!OpenInc(I, n)[n], a + 1, b)
  <1> DEFINE x == I[n]
             y == [x EXCEPT !.open_count = @ + 1]
  <1>1. F!OpenInc(I, n) = [I EXCEPT ![n] = y]
    BY DEF F!OpenInc
  <1>2. y \in F!Inode /\ Good(y, a + 1, b)
    BY DEF Good, F!Inode
  <1> HIDE DEF y
  <1> QED
    BY <1>1, <1>2 DEF Others

\* The record that sfs_fsync leaves.
LEMMA FsyncIs ==
    ASSUME NEW I \in [F!Nodes -> F!Inode], NEW n \in F!Nodes
    PROVE  F!Fsync(I, n) =
             [I EXCEPT ![n] = [I[n] EXCEPT !.dirty = FALSE,
                                           !.disk = IF I[n].dirty THEN I[n].size ELSE @]]
  BY DEF F!Fsync

\* sfs_fsync, of an inode that is otherwise as it should be.
LEMMA FsyncGood ==
    ASSUME NEW I \in [F!Nodes -> F!Inode], NEW n \in F!Nodes, NEW a, NEW b,
           I[n].open_count = a, I[n].ref_count = b, a <= b, I[n].cached <=> b > 0,
           ~I[n].dirty => I[n].size = I[n].disk
    PROVE  Others(I, F!Fsync(I, n), n) /\ Good(F!Fsync(I, n)[n], a, b)
  <1> DEFINE x == I[n]
             y == [x EXCEPT !.dirty = FALSE, !.disk = IF x.dirty THEN x.size ELSE @]
  <1>1. F!Fsync(I, n) = [I EXCEPT ![n] = y]
    BY DEF F!Fsync
  <1>2. y \in F!Inode /\ Good(y, a, b)
    BY DEF Good, F!Inode
  <1> HIDE DEF y
  <1> QED
    BY <1>1, <1>2 DEF Others

\* inode_ref_dec, of a reference that is no descriptor's; of the last one, reclaimed.
LEMMA RefDecGood ==
    ASSUME NEW I \in [F!Nodes -> F!Inode], NEW n \in F!Nodes, NEW a, NEW b,
           Good(I[n], a, b), a < b
    PROVE  Others(I, F!RefDec(I, n), n) /\ Good(F!RefDec(I, n)[n], a, b - 1)
  <1> DEFINE J == [I EXCEPT ![n].ref_count = @ - 1]
             y == [I[n] EXCEPT !.ref_count = @ - 1]
             K == F!Fsync(J, n)
             z == [K[n] EXCEPT !.cached = FALSE]
  <1>1. /\ J = [I EXCEPT ![n] = y]
        /\ F!RefDec(I, n) = IF J[n].ref_count = 0 THEN F!Reclaim(J, n) ELSE J
    BY DEF F!RefDec
  <1>2. /\ y \in F!Inode /\ y.open_count = a /\ y.ref_count = b - 1 /\ a <= b - 1
        /\ (~y.dirty => y.size = y.disk) /\ (a = 0 => ~y.dirty)
        /\ y.cached
    BY DEF Good, F!Inode
  <1> HIDE DEF y
  <1>3. J \in [F!Nodes -> F!Inode] /\ J[n] = y /\ Others(I, J, n)
    BY <1>1, <1>2 DEF Others
  <1>4. CASE b - 1 # 0
    <2>1. F!RefDec(I, n) = J
      BY <1>1, <1>2, <1>3, <1>4
    <2>2. Good(J[n], a, b - 1)
      BY <1>2, <1>3, <1>4 DEF Good, F!Inode
    <2> QED
      BY <1>3, <2>1, <2>2
  <1>5. CASE b - 1 = 0
    <2>1. F!RefDec(I, n) = F!Reclaim(J, n)
      BY <1>1, <1>2, <1>3, <1>5
    <2>2. F!Reclaim(J, n) = [K EXCEPT ![n] = z]
      BY DEF F!Reclaim
    <2> DEFINE v == [y EXCEPT !.dirty = FALSE, !.disk = IF y.dirty THEN y.size ELSE @]
               w == [v EXCEPT !.cached = FALSE]
    <2>3. K = [J EXCEPT ![n] = v]
      <3>1. K = [J EXCEPT ![n] = [J[n] EXCEPT !.dirty = FALSE,
                                              !.disk = IF J[n].dirty THEN J[n].size ELSE @]]
        <4> HIDE DEF J
        <4> QED
          BY <1>3, FsyncIs
      <3> HIDE DEF J, K
      <3> QED
        BY <1>3, <3>1
    <2>4. v \in F!Inode /\ v.ref_count = b - 1 /\ v.open_count = a /\ ~v.dirty /\ v.size = v.disk
      BY <1>2 DEF F!Inode
    <2> HIDE DEF v
    <2>5. w \in F!Inode /\ Good(w, a, b - 1)
      <3>1. /\ w \in F!Inode /\ w.ref_count = b - 1 /\ w.open_count = a
            /\ ~w.dirty /\ w.size = w.disk /\ ~w.cached
        BY <2>4 DEF F!Inode
      <3> HIDE DEF w
      <3> QED
        BY <1>2, <1>5, <3>1 DEF Good
    <2> HIDE DEF J, K
    <2>6. K \in [F!Nodes -> F!Inode] /\ K[n] = v /\ Others(I, K, n)
      BY <1>3, <2>3, <2>4 DEF Others
    <2>7. z = w
      BY <2>6
    <2> HIDE DEF z, w
    <2> QED
      BY <2>1, <2>2, <2>5, <2>6, <2>7 DEF Others
  <1> QED
    BY <1>4, <1>5

\* inode_open_dec; at the last one the file is written.
LEMMA OpenDecGood ==
    ASSUME NEW I \in [F!Nodes -> F!Inode], NEW n \in F!Nodes, NEW a, NEW b,
           Good(I[n], a, b), a > 0
    PROVE  Others(I, F!OpenDec(I, n), n) /\ Good(F!OpenDec(I, n)[n], a - 1, b)
  <1> DEFINE J == [I EXCEPT ![n].open_count = @ - 1]
             y == [I[n] EXCEPT !.open_count = @ - 1]
  <1>1. /\ J = [I EXCEPT ![n] = y]
        /\ F!OpenDec(I, n) = IF J[n].open_count = 0 THEN F!Fsync(J, n) ELSE J
    BY DEF F!OpenDec
  <1>2. /\ y \in F!Inode /\ y.open_count = a - 1 /\ y.ref_count = b /\ a - 1 <= b
        /\ (~y.dirty => y.size = y.disk) /\ (y.cached <=> b > 0)
    BY DEF Good, F!Inode
  <1> HIDE DEF y
  <1>3. J \in [F!Nodes -> F!Inode] /\ J[n] = y /\ Others(I, J, n)
    BY <1>1, <1>2 DEF Others
  <1>4. CASE a - 1 # 0
    <2>1. F!OpenDec(I, n) = J
      BY <1>1, <1>2, <1>3, <1>4
    <2>2. Good(J[n], a - 1, b)
      BY <1>2, <1>3, <1>4 DEF Good
    <2> QED
      BY <1>3, <2>1, <2>2
  <1>5. CASE a - 1 = 0
    <2>1. F!OpenDec(I, n) = F!Fsync(J, n)
      BY <1>1, <1>2, <1>3, <1>5
    <2> HIDE DEF J
    <2>2. Others(J, F!Fsync(J, n), n) /\ Good(F!Fsync(J, n)[n], a - 1, b)
      BY <1>2, <1>3, FsyncGood
    <2> QED
      BY <1>3, <2>1, <2>2 DEF Others
  <1> QED
    BY <1>4, <1>5

\* sfs_load_inode, of an inode in memory or not.
LEMMA LookupGood ==
    ASSUME NEW I \in [F!Nodes -> F!Inode], NEW n \in F!Nodes, NEW a, NEW b,
           Good(I[n], a, b)
    PROVE  Others(I, F!Lookup(I, n), n) /\ Good(F!Lookup(I, n)[n], a, b + 1)
  <1>1. CASE I[n].cached
    <2>1. F!Lookup(I, n) = F!RefInc(I, n) /\ b > 0
      BY <1>1 DEF F!Lookup, Good
    <2> QED
      BY <2>1, RefIncGood
  <1>2. CASE ~I[n].cached
    <2> DEFINE x == I[n]
               y == [x EXCEPT !.cached = TRUE, !.ref_count = 1, !.open_count = 0,
                              !.dirty = FALSE, !.size = x.disk]
    <2>1. F!Lookup(I, n) = [I EXCEPT ![n] = y]
      BY <1>2 DEF F!Lookup
    <2>2. a = 0 /\ b = 0
      BY <1>2 DEF Good, F!Inode
    <2>3. /\ y \in F!Inode /\ y.cached /\ y.ref_count = 1 /\ y.open_count = 0
          /\ ~y.dirty /\ y.size = y.disk
      BY DEF F!Inode
    <2> HIDE DEF y
    <2>4. Good(y, a, b + 1)
      BY <2>2, <2>3 DEF Good
    <2> QED
      BY <2>1, <2>3, <2>4 DEF Others
  <1> QED
    BY <1>1, <1>2

\* A file that is open changes its size.
LEMMA ResizedGood ==
    ASSUME NEW I \in [F!Nodes -> F!Inode], NEW n \in F!Nodes, NEW a, NEW b, NEW s \in {0, 1},
           Good(I[n], a, b), a > 0
    PROVE  Others(I, F!Resized(I, n, s), n) /\ Good(F!Resized(I, n, s)[n], a, b)
  <1> DEFINE x == I[n]
             y == [x EXCEPT !.dirty = @ \/ x.size # s, !.size = s]
  <1>1. F!Resized(I, n, s) = [I EXCEPT ![n] = y]
    BY DEF F!Resized
  <1>2. /\ y \in F!Inode /\ y.cached = x.cached /\ y.ref_count = x.ref_count
        /\ y.open_count = x.open_count /\ y.disk = x.disk /\ y.size = s
        /\ (~y.dirty => ~x.dirty /\ x.size = s)
    BY DEF F!Inode
  <1> HIDE DEF y
  <1>3. Good(y, a, b)
    BY <1>2 DEF Good
  <1> QED
    BY <1>1, <1>2, <1>3 DEF Others

\* vfs_close of an open file.
LEMMA VfsCloseGood ==
    ASSUME NEW I \in [F!Nodes -> F!Inode], NEW n \in F!Nodes, NEW a, NEW b,
           Good(I[n], a, b), a > 0
    PROVE  Others(I, F!VfsClose(I, n), n) /\ Good(F!VfsClose(I, n)[n], a - 1, b - 1)
  <1> DEFINE J == F!OpenDec(I, n)
  <1>1. Others(I, J, n) /\ Good(J[n], a - 1, b) /\ a <= b /\ a \in Nat /\ b \in Nat
    BY OpenDecGood DEF Good, F!Inode
  <1>2. F!VfsClose(I, n) = F!RefDec(J, n)
    BY DEF F!VfsClose
  <1> HIDE DEF J
  <1>3. Others(J, F!RefDec(J, n), n) /\ Good(F!RefDec(J, n)[n], a - 1, b - 1)
    <2>1. a - 1 < b /\ J \in [F!Nodes -> F!Inode]
      BY <1>1 DEF Others
    <2> QED
      BY <1>1, <2>1, RefDecGood
  <1> QED
    BY <1>1, <1>2, <1>3 DEF Others

\* fd_array_dup of an inode in memory.
LEMMA DupGood ==
    ASSUME NEW I \in [F!Nodes -> F!Inode], NEW n \in F!Nodes, NEW a, NEW b,
           Good(I[n], a, b), b > 0
    PROVE  /\ Others(I, F!OpenInc(F!RefInc(I, n), n), n)
           /\ Good(F!OpenInc(F!RefInc(I, n), n)[n], a + 1, b + 1)
  <1> DEFINE J == F!RefInc(I, n)
  <1>1. Others(I, J, n) /\ Good(J[n], a, b + 1) /\ a <= b /\ a \in Nat /\ b \in Nat
    BY RefIncGood DEF Good, F!Inode
  <1> HIDE DEF J
  <1>2. Others(J, F!OpenInc(J, n), n) /\ Good(F!OpenInc(J, n)[n], a + 1, b + 1)
    <2>1. a < b + 1 /\ J \in [F!Nodes -> F!Inode]
      BY <1>1 DEF Others
    <2> QED
      BY <1>1, <2>1, OpenIncGood
  <1> QED
    BY <1>1, <1>2 DEF Others, J

\* vfs_open.
LEMMA VfsOpenGood ==
    ASSUME NEW I \in [F!Nodes -> F!Inode], NEW n \in F!Nodes, NEW a, NEW b,
           Good(I[n], a, b), NEW truncate \in BOOLEAN
    PROVE  Others(I, F!VfsOpen(I, n, truncate), n)
           /\ Good(F!VfsOpen(I, n, truncate)[n], a + 1, b + 1)
  <1> DEFINE J == F!Lookup(I, n)
             K == F!OpenInc(J, n)
  <1>1. Others(I, J, n) /\ Good(J[n], a, b + 1) /\ a <= b /\ a \in Nat /\ b \in Nat
    BY LookupGood DEF Good, F!Inode
  <1>2. F!VfsOpen(I, n, truncate) = IF truncate THEN F!Resized(K, n, 0) ELSE K
    BY DEF F!VfsOpen
  <1> HIDE DEF J
  <1>3. Others(J, K, n) /\ Good(K[n], a + 1, b + 1)
    <2>1. a < b + 1 /\ J \in [F!Nodes -> F!Inode]
      BY <1>1 DEF Others
    <2> QED
      BY <1>1, <2>1, OpenIncGood
  <1> HIDE DEF K
  <1>4. Others(I, K, n) /\ K \in [F!Nodes -> F!Inode]
    BY <1>1, <1>3 DEF Others
  <1>5. Others(K, F!Resized(K, n, 0), n) /\ Good(F!Resized(K, n, 0)[n], a + 1, b + 1)
    BY <1>1, <1>3, <1>4, ResizedGood
  <1> QED
    BY <1>2, <1>3, <1>4, <1>5 DEF Others

-----------------------------------------------------------------------------
\* How many of the descriptors S of the table fds are for n.
Count(fds, S, n) == Cardinality({fd \in S : fds[fd] = n})

\* The count of a set of descriptors, from that of the set without one of them.
LEMMA CountIs ==
    ASSUME NEW S, IsFiniteSet(S), NEW fds, NEW n
    PROVE  /\ Count(fds, S, n) \in Nat
           /\ S = {} => Count(fds, S, n) = 0
           /\ \A fd \in S : /\ fds[fd] = n => Count(fds, S, n) = Count(fds, S \ {fd}, n) + 1
                            /\ fds[fd] # n => Count(fds, S, n) = Count(fds, S \ {fd}, n)
  <1> DEFINE X == {e \in S : fds[e] = n}
  <1>1. IsFiniteSet(X) /\ Cardinality(X) \in Nat
    BY FS_Subset, FS_CardinalityType
  <1>2. S = {} => Cardinality(X) = 0
    BY FS_EmptySet
  <1>3. ASSUME NEW fd \in S
        PROVE  /\ fds[fd] = n => Count(fds, S, n) = Count(fds, S \ {fd}, n) + 1
               /\ fds[fd] # n => Count(fds, S, n) = Count(fds, S \ {fd}, n)
    <2>1. {e \in S \ {fd} : fds[e] = n} = X \ {fd} /\ (fd \in X <=> fds[fd] = n)
      OBVIOUS
    <2> HIDE DEF X
    <2>2. Cardinality(X \ {fd}) = IF fd \in X THEN Cardinality(X) - 1 ELSE Cardinality(X)
      BY <1>1, FS_RemoveElement
    <2>3. Cardinality(X \ {fd}) = Count(fds, S \ {fd}, n)
      BY <2>1 DEF Count
    <2>4. Cardinality(X) = Count(fds, S, n)
      BY DEF Count, X
    <2> QED
      BY <1>1, <2>1, <2>2, <2>3, <2>4
  <1> QED
    BY <1>1, <1>2, <1>3 DEF Count

\* Fewer descriptors, no more of them for n.
LEMMA CountSubset ==
    ASSUME NEW S, IsFiniteSet(S), NEW s \in SUBSET S, NEW fds, NEW n
    PROVE  Count(fds, s, n) <= Count(fds, S, n)
  <1> DEFINE X == {e \in S : fds[e] = n}
             Y == {e \in s : fds[e] = n}
  <1>1. IsFiniteSet(X) /\ Y \in SUBSET X
    BY FS_Subset
  <1> HIDE DEF X, Y
  <1>2. Cardinality(Y) <= Cardinality(X)
    BY <1>1, FS_Subset
  <1> QED
    BY <1>2 DEF Count, X, Y

\* By how much the loop over the descriptors s changes the counts of n.
Delta(dup, fds, s, n) == IF dup THEN Count(fds, s, n) ELSE 0 - Count(fds, s, n)

\* The inodes J, with the counts o and r as the loop over the descriptors s
\* leaves them.
GoodAfter(J, o, r, dup, fds, s) ==
    /\ J \in [F!Nodes -> F!Inode]
    /\ \A m \in F!Nodes :
          Good(J[m], o[m] + Delta(dup, fds, s, m), r[m] + Delta(dup, fds, s, m))

\* One turn of the loop.
LEMMA OneFileGood ==
    ASSUME NEW dup \in BOOLEAN, NEW s, IsFiniteSet(s), NEW fd \in s, NEW J, NEW o, NEW r,
           NEW fds, fds[fd] \in F!Nodes \cup {NULL}, NULL \notin F!Nodes,
           \A m \in F!Nodes : o[m] \in Nat /\ r[m] \in Nat,
           GoodAfter(J, o, r, dup, fds, s \ {fd}),
           dup => \A e \in s : fds[e] # NULL => r[fds[e]] > 0,
           ~dup => \A m \in F!Nodes : Count(fds, s, m) <= o[m]
    PROVE  GoodAfter(OneFile(dup, fds[fd], J), o, r, dup, fds, s)
  <1> DEFINE t == s \ {fd}
             n == fds[fd]
  <1>1. \A m \in F!Nodes : /\ Count(fds, s, m) \in Nat /\ Count(fds, t, m) \in Nat
                           /\ n = m => Count(fds, s, m) = Count(fds, t, m) + 1
                           /\ n # m => Count(fds, s, m) = Count(fds, t, m)
    <2>1. IsFiniteSet(t)
      BY FS_RemoveElement
    <2> QED
      BY <2>1, CountIs
  <1>2. J \in [F!Nodes -> F!Inode]
    BY DEF GoodAfter
  <1>3. CASE n = NULL
    <2>1. \A m \in F!Nodes : Delta(dup, fds, s, m) = Delta(dup, fds, t, m)
      BY <1>1, <1>3 DEF Delta
    <2>2. OneFile(dup, n, J) = J
      BY <1>3 DEF OneFile
    <2> QED
      BY <2>1, <2>2 DEF GoodAfter
  <1>4. CASE n \in F!Nodes
    <2> DEFINE a == o[n] + Delta(dup, fds, t, n)
               b == r[n] + Delta(dup, fds, t, n)
               K == OneFile(dup, n, J)
               d == IF dup THEN 1 ELSE 0 - 1
    <2>1. Good(J[n], a, b)
      BY <1>4 DEF GoodAfter
    <2>2. /\ \A m \in F!Nodes : m # n => Delta(dup, fds, s, m) = Delta(dup, fds, t, m)
          /\ o[n] + Delta(dup, fds, s, n) = a + d
          /\ r[n] + Delta(dup, fds, s, n) = b + d
      BY <1>1, <1>4 DEF Delta
    <2>3. (dup => b > 0) /\ (~dup => a > 0)
      <3>1. /\ Count(fds, t, n) \in Nat /\ Count(fds, s, n) = Count(fds, t, n) + 1
            /\ o[n] \in Nat /\ r[n] \in Nat
        BY <1>1, <1>4
      <3>2. dup => r[n] > 0
        BY <1>4
      <3>3. ~dup => Count(fds, s, n) <= o[n]
        BY <1>4
      <3> HIDE DEF n, t
      <3> QED
        BY <3>1, <3>2, <3>3 DEF Delta
    <2> HIDE DEF a, b
    <2>4. Others(J, K, n) /\ Good(K[n], a + d, b + d)
      <3>1. CASE dup
        <4>1. K = F!OpenInc(F!RefInc(J, n), n)
          BY <1>4, <3>1 DEF OneFile
        <4> QED
          BY <1>2, <1>4, <2>1, <2>3, <3>1, <4>1, DupGood
      <3>2. CASE ~dup
        <4>1. K = F!VfsClose(J, n)
          BY <1>4, <3>2 DEF OneFile
        <4>2. a \in Nat /\ b \in Nat
          BY <2>1 DEF Good, F!Inode
        <4>3. Others(J, K, n) /\ Good(K[n], a - 1, b - 1)
          BY <1>2, <1>4, <2>1, <2>3, <3>2, <4>1, VfsCloseGood
        <4>4. a + d = a - 1 /\ b + d = b - 1
          BY <3>2, <4>2
        <4> HIDE DEF K, d
        <4> QED
          BY <4>3, <4>4
      <3> QED
        BY <3>1, <3>2
    <2> HIDE DEF K, d
    <2>5. GoodAfter(K, o, r, dup, fds, s)
      <3>1. K \in [F!Nodes -> F!Inode]
        BY <2>4 DEF Others
      <3>2. ASSUME NEW m \in F!Nodes
            PROVE Good(K[m], o[m] + Delta(dup, fds, s, m), r[m] + Delta(dup, fds, s, m))
        <4>1. CASE m = n
          BY <2>2, <2>4, <4>1
        <4>2. CASE m # n
          <5>1. K[m] = J[m]
            BY <2>4, <4>2 DEF Others
          <5> QED
            BY <2>2, <4>2, <5>1 DEF GoodAfter
        <4> QED
          BY <4>1, <4>2
      <3> QED
        BY <3>1, <3>2 DEF GoodAfter
    <2> QED
      BY <2>5 DEF K
  <1> QED
    BY <1>3, <1>4

\* What a loop over descriptors does to the counts: in any order, it adds or takes
\* away what the descriptors stand for.
LEMMA LoopGood ==
    ASSUME NEW dup \in BOOLEAN, NEW S, IsFiniteSet(S), NEW I, NEW o, NEW r, NEW fds,
           \A fd \in S : fds[fd] \in F!Nodes \cup {NULL}, NULL \notin F!Nodes,
           I \in [F!Nodes -> F!Inode], \A m \in F!Nodes : Good(I[m], o[m], r[m]),
           dup => \A fd \in S : fds[fd] # NULL => r[fds[fd]] > 0,
           ~dup => \A m \in F!Nodes : Count(fds, S, m) <= o[m]
    PROVE  GoodAfter(Loop(dup, I, fds, S), o, r, dup, fds, S)
  <1> DEFINE f == CHOOSE g : LoopOn(g, SUBSET S, dup, I, fds)
             Bad == {k \in Nat : \E s \in SUBSET S :
                        Cardinality(s) = k /\ ~GoodAfter(f[s], o, r, dup, fds, s)}
  <1>1. LoopOn(f, SUBSET S, dup, I, fds)
    BY LoopExists
  <1>2. Loop(dup, I, fds, S) = f[S]
    BY DEF Loop
  <1> HIDE DEF f
  <1>3. \A s \in SUBSET S : f[s] = IF s = {} THEN I
                                   ELSE OneFile(dup, fds[Chosen(s)], f[s \ {Chosen(s)}])
    BY <1>1 DEF LoopOn
  <1>4. ASSUME Bad # {} PROVE FALSE
    <2>1. PICK k \in Bad : \A j \in Bad : k <= j
      <3>1. Bad \subseteq Nat
        OBVIOUS
      <3> HIDE DEF Bad
      <3> QED
        BY <1>4, <3>1, SmallestElement
    <2>2. PICK s \in SUBSET S : Cardinality(s) = k /\ ~GoodAfter(f[s], o, r, dup, fds, s)
      BY <2>1
    <2>3. IsFiniteSet(s)
      BY FS_Subset
    <2>4. CASE s = {}
      <3>1. \A m \in F!Nodes : o[m] \in Nat /\ r[m] \in Nat
        BY DEF Good, F!Inode
      <3>2. \A m \in F!Nodes : o[m] + Delta(dup, fds, s, m) = o[m]
                               /\ r[m] + Delta(dup, fds, s, m) = r[m]
        <4>1. \A m \in F!Nodes : Count(fds, s, m) = 0
          BY <2>3, <2>4, CountIs
        <4> QED
          BY <3>1, <4>1 DEF Delta
      <3>3. f[s] = I
        BY <1>3, <2>4
      <3> QED
        BY <2>2, <3>2, <3>3 DEF GoodAfter
    <2>5. CASE s # {}
      <3> DEFINE x == Chosen(s)
                 t == s \ {x}
      <3>1. x \in s /\ t \in SUBSET S /\ Cardinality(t) = Cardinality(s) - 1
            /\ Cardinality(t) \in Nat /\ k \in Nat
        <4>1. x \in s /\ t \in SUBSET S /\ Cardinality(t) = Cardinality(s) - 1
          BY <2>5, OneLess
        <4>2. Cardinality(t) \in Nat
          BY <4>1, OneLess
        <4> QED
          BY <2>1, <4>1, <4>2
      <3>2. GoodAfter(f[t], o, r, dup, fds, t)
        <4>1. Cardinality(t) \notin Bad
          <5> HIDE DEF t, Bad
          <5> QED
            BY <2>1, <2>2, <3>1
        <4> HIDE DEF t
        <4> QED
          BY <3>1, <4>1
      <3>3. f[s] = OneFile(dup, fds[x], f[t])
        BY <1>3, <2>5
      <3>4. \A m \in F!Nodes : o[m] \in Nat /\ r[m] \in Nat
        BY DEF Good, F!Inode
      <3>5. ~dup => \A m \in F!Nodes : Count(fds, s, m) <= o[m]
        <4>1. \A m \in F!Nodes : /\ Count(fds, s, m) <= Count(fds, S, m)
                                 /\ Count(fds, s, m) \in Nat /\ Count(fds, S, m) \in Nat
          BY <2>3, CountSubset, CountIs
        <4> QED
          BY <3>4, <4>1
      <3>6. fds[x] \in F!Nodes \cup {NULL}
        BY <3>1
      <3>7. dup => \A e \in s : fds[e] # NULL => r[fds[e]] > 0
        OBVIOUS
      <3> HIDE DEF x
      <3>8. GoodAfter(OneFile(dup, fds[x], f[t]), o, r, dup, fds, s)
        BY <2>3, <3>1, <3>2, <3>4, <3>5, <3>6, <3>7, OneFileGood
      <3> QED
        BY <2>2, <3>3, <3>8
    <2> QED
      BY <2>4, <2>5
  <1>5. Cardinality(S) \in Nat
    BY FS_CardinalityType
  <1>6. GoodAfter(f[S], o, r, dup, fds, S)
    BY <1>4, <1>5
  <1> QED
    BY <1>2, <1>6

\* How many descriptors of the tables T of the files_structs C are for n.
Opens(C, T, n) == Cardinality({e \in C \X F!Fds : T[e[1]][e[2]] = n})

\* The references to n: of these, of the working directories W, of the kernel, and
\* the lost ones.
Refs(C, T, W, L, n) == Opens(C, T, n) + Count(W, C, n) + F!Boot(n) + L[n]

\* 1 for the inode n, 0 for another.
One(n, m) == IF n = m THEN 1 ELSE 0

\* Only the descriptors that are counted matter.
LEMMA CountSame ==
    ASSUME NEW S, NEW fds, NEW gds, NEW n, \A fd \in S : fds[fd] = gds[fd]
    PROVE  Count(fds, S, n) = Count(gds, S, n)
  <1>1. {fd \in S : fds[fd] = n} = {fd \in S : gds[fd] = n}
    OBVIOUS
  <1> QED
    BY <1>1 DEF Count

\* The table gds is the table fds, but for x.
ButFor(S, fds, gds, x) == \A y \in S \ {x} : gds[y] = fds[y]

\* One descriptor, or one working directory, gets another value.
LEMMA CountSet ==
    ASSUME NEW S, IsFiniteSet(S), NEW fds, NEW gds, NEW x \in S, ButFor(S, fds, gds, x), NEW n
    PROVE  /\ Count(fds, S, n) \in Nat /\ Count(gds, S, n) \in Nat
           /\ Count(gds, S, n) = Count(fds, S, n) - One(fds[x], n) + One(gds[x], n)
           /\ Count(fds, S, n) >= One(fds[x], n)
  <1> DEFINE R == S \ {x}
  <1>1. Count(fds, R, n) = Count(gds, R, n)
    BY CountSame DEF ButFor
  <1>2. IsFiniteSet(R)
    BY FS_RemoveElement
  <1>3. Count(fds, S, n) = Count(fds, R, n) + One(fds[x], n)
    BY CountIs DEF One
  <1>4. Count(gds, S, n) = Count(gds, R, n) + One(gds[x], n)
    BY CountIs DEF One
  <1>5. Count(fds, R, n) \in Nat
    BY <1>2, CountIs
  <1>6. One(fds[x], n) \in {0, 1} /\ One(gds[x], n) \in {0, 1}
    BY DEF One
  <1> QED
    BY <1>1, <1>3, <1>4, <1>5, <1>6

\* One files_struct among others.
LEMMA OpensIs ==
    ASSUME NEW C, IsFiniteSet(C), IsFiniteSet(F!Fds), NEW f \in C, NEW T, NEW n
    PROVE  /\ Opens(C, T, n) = Opens(C \ {f}, T, n) + Count(T[f], F!Fds, n)
           /\ Opens(C, T, n) \in Nat /\ Opens(C \ {f}, T, n) \in Nat
           /\ Count(T[f], F!Fds, n) \in Nat
  <1> DEFINE X == {e \in C \X F!Fds : T[e[1]][e[2]] = n}
             R == {e \in (C \ {f}) \X F!Fds : T[e[1]][e[2]] = n}
             Y == {fd \in F!Fds : T[f][fd] = n}
             Q == {e \in X : e[1] = f}
             g == [fd \in Y |-> <<f, fd>>]
  <1>1. IsFiniteSet(X) /\ IsFiniteSet(Y)
    <2>1. IsFiniteSet(C \X F!Fds)
      BY FS_Product
    <2>2. X \in SUBSET (C \X F!Fds) /\ Y \in SUBSET F!Fds
      OBVIOUS
    <2> HIDE DEF X, Y
    <2> QED
      BY <2>1, <2>2, FS_Subset
  <1>2. R \in SUBSET X /\ Q \in SUBSET X /\ X = R \cup Q /\ R \cap Q = {}
    OBVIOUS
  <1>3. ExistsBijection(Y, Q)
    <2>1. g \in [Y -> Q]
      OBVIOUS
    <2>2. \A a, b \in Y : a # b => g[a] # g[b]
      OBVIOUS
    <2>3. \A q \in Q : \E a \in Y : g[a] = q
      <3> SUFFICES ASSUME NEW q \in Q PROVE \E a \in Y : g[a] = q
        OBVIOUS
      <3>1. q[2] \in Y /\ q = <<f, q[2]>>
        OBVIOUS
      <3> QED
        BY <3>1
    <2> HIDE DEF g, Y, Q
    <2>4. g \in Bijection(Y, Q)
      BY <2>1, <2>2, <2>3 DEF Bijection, Injection, Surjection, IsInjective
    <2> QED
      BY <2>4 DEF ExistsBijection
  <1> HIDE DEF X, R, Y, Q
  <1>4. IsFiniteSet(R) /\ IsFiniteSet(Q)
    BY <1>1, <1>2, FS_Subset
  <1>5. Cardinality(Q) = Cardinality(Y)
    BY <1>1, <1>3, FS_Bijection
  <1>6. Cardinality(X) = Cardinality(R) + Cardinality(Q) - Cardinality(R \cap Q)
    BY <1>2, <1>4, FS_Union
  <1>7. Cardinality(R \cap Q) = 0
    BY <1>2, FS_EmptySet
  <1>8. Cardinality(X) \in Nat /\ Cardinality(R) \in Nat /\ Cardinality(Y) \in Nat
    BY <1>1, <1>4, FS_CardinalityType
  <1>9. Opens(C, T, n) = Cardinality(X) /\ Opens(C \ {f}, T, n) = Cardinality(R)
        /\ Count(T[f], F!Fds, n) = Cardinality(Y)
    BY DEF Opens, Count, X, R, Y
  <1> QED
    BY <1>5, <1>6, <1>7, <1>8, <1>9

\* Only the tables that are counted matter.
LEMMA OpensSame ==
    ASSUME NEW C, NEW T, NEW U, NEW n, \A g \in C : U[g] = T[g]
    PROVE  Opens(C, U, n) = Opens(C, T, n)
  <1>1. {e \in C \X F!Fds : T[e[1]][e[2]] = n} = {e \in C \X F!Fds : U[e[1]][e[2]] = n}
    OBVIOUS
  <1> QED
    BY <1>1 DEF Opens

\* The table of one files_struct changes.
LEMMA OpensSet ==
    ASSUME NEW C, IsFiniteSet(C), IsFiniteSet(F!Fds), NEW f \in C, NEW T, NEW U, NEW n,
           \A g \in C \ {f} : U[g] = T[g]
    PROVE  Opens(C, U, n) = Opens(C, T, n) - Count(T[f], F!Fds, n) + Count(U[f], F!Fds, n)
  <1>1. Opens(C \ {f}, U, n) = Opens(C \ {f}, T, n)
    BY OpensSame
  <1>2. /\ Opens(C, T, n) = Opens(C \ {f}, T, n) + Count(T[f], F!Fds, n)
        /\ Opens(C \ {f}, T, n) \in Nat /\ Count(T[f], F!Fds, n) \in Nat
    BY OpensIs
  <1>3. /\ Opens(C, U, n) = Opens(C \ {f}, U, n) + Count(U[f], F!Fds, n)
        /\ Count(U[f], F!Fds, n) \in Nat
    BY OpensIs
  <1> QED
    BY <1>1, <1>2, <1>3

\* What the constants of Files are.
FilesConstants ==
    /\ IsFiniteSet(Structs) /\ IsFiniteSet(F!Fds) /\ IsFiniteSet(Owners)
    /\ NULL \notin F!Nodes /\ NULL \notin Structs
    /\ Dirs \subseteq F!Nodes /\ Regular \subseteq F!Nodes /\ root \in Dirs
    /\ Regular \cap Dirs = {} /\ \A n : F!Boot(n) \in Nat

\* They are so, by the assumption of Files.
LEMMA Constants == FilesConstants
  <1>1. IsFiniteSet(Structs) /\ IsFiniteSet(Owners)
    BY SameSets, OwnersAssumption DEF F!FilesAssumption
  <1>2. IsFiniteSet(F!Fds)
    <2>1. 0 \in Int /\ NENTRY - 1 \in Int
      BY OwnersAssumption DEF F!FilesAssumption
    <2> QED
      BY <2>1, FS_Interval DEF F!Fds
  <1> QED
    BY <1>1, <1>2, OwnersAssumption DEF FilesConstants, F!FilesAssumption, F!Nodes, F!Boot

\* The files_structs C with their tables and working directories, and the lost
\* references.
Tables(C, T, W, L) ==
    /\ C \subseteq Structs
    /\ T \in [Structs -> [F!Fds -> F!Nodes \cup {NULL}]]
    /\ W \in [Structs -> Dirs \cup {NULL}]
    /\ L \in [F!Nodes -> Nat]

\* The inodes I are as they should be with these tables.
GoodWith(I, C, T, W, L) ==
    /\ I \in [F!Nodes -> F!Inode]
    /\ \A n \in F!Nodes : Good(I[n], Opens(C, T, n), Refs(C, T, W, L, n))

\* When one inode has changed, only its counts need to be looked at.
LEMMA OneChanged ==
    ASSUME NEW I, NEW J, NEW n \in F!Nodes, NEW a, NEW b, Others(I, J, n), Good(J[n], a, b),
           NEW C, NEW T, NEW W, NEW L, GoodWith(I, C, T, W, L),
           NEW D, NEW U, NEW X, NEW M,
           a = Opens(D, U, n), b = Refs(D, U, X, M, n),
           \A m \in F!Nodes \ {n} : /\ Opens(D, U, m) = Opens(C, T, m)
                                    /\ Refs(D, U, X, M, m) = Refs(C, T, W, L, m)
    PROVE  GoodWith(J, D, U, X, M)
  <1>1. ASSUME NEW m \in F!Nodes PROVE Good(J[m], Opens(D, U, m), Refs(D, U, X, M, m))
    BY DEF Others, GoodWith
  <1> QED
    BY <1>1 DEF Others, GoodWith

\* The counts are numbers, and a reference is no less than a descriptor.
LEMMA Counted ==
    ASSUME NEW C, NEW T, NEW W, NEW L, Tables(C, T, W, L), NEW n \in F!Nodes
    PROVE  /\ Opens(C, T, n) \in Nat /\ Count(W, C, n) \in Nat /\ L[n] \in Nat
           /\ F!Boot(n) \in Nat /\ Refs(C, T, W, L, n) \in Nat
           /\ IsFiniteSet(C)
           /\ Refs(C, T, W, L, n) >= Opens(C, T, n) + Count(W, C, n)
  <1>1. IsFiniteSet(C)
    BY Constants, FS_Subset DEF Tables, FilesConstants
  <1>2. Opens(C, T, n) \in Nat
    <2>1. IsFiniteSet(C \X F!Fds)
      BY <1>1, Constants, FS_Product DEF FilesConstants
    <2>2. IsFiniteSet({e \in C \X F!Fds : T[e[1]][e[2]] = n})
      BY <2>1, FS_Subset
    <2> QED
      BY <2>2, FS_CardinalityType DEF Opens
  <1>3. Count(W, C, n) \in Nat
    BY <1>1, CountIs
  <1>4. L[n] \in Nat /\ F!Boot(n) \in Nat
    BY Constants DEF Tables, FilesConstants
  <1> QED
    BY <1>1, <1>2, <1>3, <1>4 DEF Refs

\* The table T of f with a descriptor for v.
WithFd(T, f, fd, v) == [T EXCEPT ![f] = [T[f] EXCEPT ![fd] = v]]

\* The counts when one descriptor changes.
LEMMA WithFdCounts ==
    ASSUME NEW C, NEW T, NEW W, NEW L, Tables(C, T, W, L), NEW f \in C, NEW fd \in F!Fds,
           NEW v \in F!Nodes \cup {NULL}
    PROVE  /\ Tables(C, WithFd(T, f, fd, v), W, L)
           /\ \A n \in F!Nodes :
                 /\ Opens(C, WithFd(T, f, fd, v), n)
                      = Opens(C, T, n) - One(T[f][fd], n) + One(v, n)
                 /\ Refs(C, WithFd(T, f, fd, v), W, L, n)
                      = Refs(C, T, W, L, n) - One(T[f][fd], n) + One(v, n)
                 /\ Opens(C, T, n) >= One(T[f][fd], n)
  <1> DEFINE U == WithFd(T, f, fd, v)
  <1>1. /\ U \in [Structs -> [F!Fds -> F!Nodes \cup {NULL}]]
        /\ \A g \in C \ {f} : U[g] = T[g]
        /\ \A y \in F!Fds \ {fd} : U[f][y] = T[f][y]
        /\ U[f][fd] = v
    BY DEF WithFd, Tables
  <1> HIDE DEF U
  <1>2. Tables(C, U, W, L)
    BY <1>1 DEF Tables
  <1>3. ASSUME NEW n \in F!Nodes
        PROVE /\ Opens(C, U, n) = Opens(C, T, n) - One(T[f][fd], n) + One(v, n)
              /\ Refs(C, U, W, L, n) = Refs(C, T, W, L, n) - One(T[f][fd], n) + One(v, n)
              /\ Opens(C, T, n) >= One(T[f][fd], n)
    <2>1. IsFiniteSet(C) /\ IsFiniteSet(F!Fds)
      BY Counted, Constants DEF FilesConstants
    <2>2. Opens(C, U, n) = Opens(C, T, n) - Count(T[f], F!Fds, n) + Count(U[f], F!Fds, n)
      BY <1>1, <2>1, OpensSet
    <2>3. /\ Count(T[f], F!Fds, n) \in Nat /\ Count(U[f], F!Fds, n) \in Nat
          /\ Count(U[f], F!Fds, n) = Count(T[f], F!Fds, n) - One(T[f][fd], n) + One(U[f][fd], n)
          /\ Count(T[f], F!Fds, n) >= One(T[f][fd], n)
      <3> DEFINE t == T[f]
                 u == U[f]
      <3>1. ButFor(F!Fds, t, u, fd)
        BY <1>1 DEF ButFor
      <3>2. IsFiniteSet(F!Fds)
        BY <2>1
      <3> HIDE DEF t, u
      <3>3. /\ Count(t, F!Fds, n) \in Nat /\ Count(u, F!Fds, n) \in Nat
            /\ Count(u, F!Fds, n) = Count(t, F!Fds, n) - One(t[fd], n) + One(u[fd], n)
            /\ Count(t, F!Fds, n) >= One(t[fd], n)
        BY <3>1, <3>2, CountSet
      <3> QED
        BY <3>3 DEF t, u
    <2>4. /\ Opens(C, T, n) = Opens(C \ {f}, T, n) + Count(T[f], F!Fds, n)
          /\ Opens(C, T, n) \in Nat /\ Opens(C \ {f}, T, n) \in Nat
      BY <2>1, OpensIs
    <2>5. One(T[f][fd], n) \in {0, 1} /\ One(v, n) \in {0, 1}
      BY DEF One
    <2>6. Opens(C, U, n) = Opens(C, T, n) - One(T[f][fd], n) + One(v, n)
      BY <1>1, <2>2, <2>3, <2>4, <2>5
    <2>7. Count(W, C, n) \in Nat /\ L[n] \in Nat /\ F!Boot(n) \in Nat
      BY Counted
    <2> QED
      BY <2>3, <2>4, <2>5, <2>6, <2>7 DEF Refs
  <1> QED
    BY <1>2, <1>3 DEF U

\* vfs_open and the descriptor for it.
LEMMA OpenTable ==
    ASSUME NEW I, NEW C, NEW T, NEW W, NEW L, Tables(C, T, W, L), GoodWith(I, C, T, W, L),
           NEW f \in C, NEW fd \in F!Fds, NEW n \in F!Nodes, T[f][fd] = NULL,
           NEW truncate \in BOOLEAN
    PROVE  /\ Tables(C, WithFd(T, f, fd, n), W, L)
           /\ GoodWith(F!VfsOpen(I, n, truncate), C, WithFd(T, f, fd, n), W, L)
  <1> DEFINE U == WithFd(T, f, fd, n)
             J == F!VfsOpen(I, n, truncate)
             a == Opens(C, T, n)
             b == Refs(C, T, W, L, n)
  <1>1. Tables(C, U, W, L)
    BY WithFdCounts
  <1>2. Others(I, J, n) /\ Good(J[n], a + 1, b + 1)
    BY VfsOpenGood DEF GoodWith
  <1>3. \A m \in F!Nodes : /\ Opens(C, U, m) = Opens(C, T, m) - One(NULL, m) + One(n, m)
                           /\ Refs(C, U, W, L, m) = Refs(C, T, W, L, m) - One(NULL, m) + One(n, m)
                           /\ Opens(C, T, m) \in Nat /\ Refs(C, T, W, L, m) \in Nat
    BY WithFdCounts, Counted
  <1> HIDE DEF U, J
  <1>4. \A m \in F!Nodes : One(NULL, m) = 0 /\ One(n, m) = IF m = n THEN 1 ELSE 0
    BY Constants DEF FilesConstants, One
  <1>5. a + 1 = Opens(C, U, n) /\ b + 1 = Refs(C, U, W, L, n)
    BY <1>3, <1>4
  <1>6. \A m \in F!Nodes \ {n} : /\ Opens(C, U, m) = Opens(C, T, m)
                                 /\ Refs(C, U, W, L, m) = Refs(C, T, W, L, m)
    BY <1>3, <1>4
  <1> HIDE DEF a, b
  <1>7. GoodWith(J, C, U, W, L)
    BY <1>2, <1>5, <1>6, OneChanged
  <1> QED
    BY <1>1, <1>7 DEF U, J

\* file_dup: another descriptor of a file that is open.
LEMMA DupTable ==
    ASSUME NEW I, NEW C, NEW T, NEW W, NEW L, Tables(C, T, W, L), GoodWith(I, C, T, W, L),
           NEW f \in C, NEW fd1 \in F!Fds, NEW fd2 \in F!Fds, T[f][fd2] = NULL,
           NEW n \in F!Nodes, T[f][fd1] = n
    PROVE  /\ Tables(C, WithFd(T, f, fd2, n), W, L)
           /\ GoodWith(F!OpenInc(F!RefInc(I, n), n), C, WithFd(T, f, fd2, n), W, L)
  <1> DEFINE U == WithFd(T, f, fd2, n)
             J == F!OpenInc(F!RefInc(I, n), n)
             a == Opens(C, T, n)
             b == Refs(C, T, W, L, n)
  <1>1. Tables(C, U, W, L)
    BY WithFdCounts
  <1>2. \A m \in F!Nodes : /\ Opens(C, U, m) = Opens(C, T, m) - One(NULL, m) + One(n, m)
                           /\ Refs(C, U, W, L, m) = Refs(C, T, W, L, m) - One(NULL, m) + One(n, m)
                           /\ Opens(C, T, m) \in Nat /\ Refs(C, T, W, L, m) \in Nat
    BY WithFdCounts, Counted
  <1>3. b > 0
    <2>1. Opens(C, T, n) >= One(n, n)
      BY WithFdCounts
    <2>2. /\ Opens(C, T, n) \in Nat /\ Refs(C, T, W, L, n) \in Nat /\ Count(W, C, n) \in Nat
          /\ Refs(C, T, W, L, n) >= Opens(C, T, n) + Count(W, C, n)
      BY Counted
    <2> QED
      BY <2>1, <2>2 DEF One
  <1>4. Others(I, J, n) /\ Good(J[n], a + 1, b + 1)
    BY <1>3, DupGood DEF GoodWith
  <1> HIDE DEF U, J
  <1>5. \A m \in F!Nodes : One(NULL, m) = 0 /\ One(n, m) = IF m = n THEN 1 ELSE 0
    BY Constants DEF FilesConstants, One
  <1>6. a + 1 = Opens(C, U, n) /\ b + 1 = Refs(C, U, W, L, n)
    BY <1>2, <1>5
  <1>7. \A m \in F!Nodes \ {n} : /\ Opens(C, U, m) = Opens(C, T, m)
                                 /\ Refs(C, U, W, L, m) = Refs(C, T, W, L, m)
    BY <1>2, <1>5
  <1> HIDE DEF a, b
  <1>8. GoodWith(J, C, U, W, L)
    BY <1>4, <1>6, <1>7, OneChanged
  <1> QED
    BY <1>1, <1>8 DEF U, J

\* file_close
LEMMA CloseTable ==
    ASSUME NEW I, NEW C, NEW T, NEW W, NEW L, Tables(C, T, W, L), GoodWith(I, C, T, W, L),
           NEW f \in C, NEW fd \in F!Fds, NEW n \in F!Nodes, T[f][fd] = n
    PROVE  /\ Tables(C, WithFd(T, f, fd, NULL), W, L)
           /\ GoodWith(F!VfsClose(I, n), C, WithFd(T, f, fd, NULL), W, L)
  <1> DEFINE U == WithFd(T, f, fd, NULL)
             J == F!VfsClose(I, n)
             a == Opens(C, T, n)
             b == Refs(C, T, W, L, n)
  <1>1. Tables(C, U, W, L)
    BY WithFdCounts
  <1>2. \A m \in F!Nodes : /\ Opens(C, U, m) = Opens(C, T, m) - One(n, m) + One(NULL, m)
                           /\ Refs(C, U, W, L, m) = Refs(C, T, W, L, m) - One(n, m) + One(NULL, m)
                           /\ Opens(C, T, m) \in Nat /\ Refs(C, T, W, L, m) \in Nat
                           /\ Opens(C, T, m) >= One(n, m)
    BY WithFdCounts, Counted
  <1>3. \A m \in F!Nodes : One(NULL, m) = 0 /\ One(n, m) = IF m = n THEN 1 ELSE 0
    BY Constants DEF FilesConstants, One
  <1>4. a > 0
    BY <1>2, <1>3
  <1>5. Others(I, J, n) /\ Good(J[n], a - 1, b - 1)
    BY <1>4, VfsCloseGood DEF GoodWith
  <1> HIDE DEF U, J
  <1>6. a - 1 = Opens(C, U, n) /\ b - 1 = Refs(C, U, W, L, n)
    BY <1>2, <1>3
  <1>7. \A m \in F!Nodes \ {n} : /\ Opens(C, U, m) = Opens(C, T, m)
                                 /\ Refs(C, U, W, L, m) = Refs(C, T, W, L, m)
    BY <1>2, <1>3
  <1> HIDE DEF a, b
  <1>8. GoodWith(J, C, U, W, L)
    BY <1>5, <1>6, <1>7, OneChanged
  <1> QED
    BY <1>1, <1>8 DEF U, J

\* vfs_lookup, whose reference is lost.
LEMMA LostTable ==
    ASSUME NEW I, NEW C, NEW T, NEW W, NEW L, Tables(C, T, W, L), GoodWith(I, C, T, W, L),
           NEW n \in F!Nodes
    PROVE  /\ Tables(C, T, W, [L EXCEPT ![n] = @ + 1])
           /\ GoodWith(F!Lookup(I, n), C, T, W, [L EXCEPT ![n] = @ + 1])
  <1> DEFINE M == [L EXCEPT ![n] = @ + 1]
             J == F!Lookup(I, n)
             a == Opens(C, T, n)
             b == Refs(C, T, W, L, n)
  <1>1. /\ Tables(C, T, W, M) /\ M[n] = L[n] + 1
        /\ \A m \in F!Nodes \ {n} : M[m] = L[m]
    BY DEF Tables
  <1>2. Others(I, J, n) /\ Good(J[n], a, b + 1)
    BY LookupGood DEF GoodWith
  <1> HIDE DEF M, J
  <1>3. \A m \in F!Nodes : /\ Opens(C, T, m) \in Nat /\ Count(W, C, m) \in Nat
                           /\ F!Boot(m) \in Nat /\ L[m] \in Nat
    BY Counted
  <1>4. b + 1 = Refs(C, T, W, M, n)
    BY <1>1, <1>3 DEF Refs
  <1>5. \A m \in F!Nodes \ {n} : Refs(C, T, W, M, m) = Refs(C, T, W, L, m)
    BY <1>1 DEF Refs
  <1> HIDE DEF a, b
  <1>6. GoodWith(J, C, T, W, M)
    BY <1>2, <1>4, <1>5, OneChanged DEF a
  <1> QED
    BY <1>1, <1>6 DEF M, J

\* Writing, truncating and syncing a file that is open change no count.
LEMMA SameTable ==
    ASSUME NEW I, NEW C, NEW T, NEW W, NEW L, Tables(C, T, W, L), GoodWith(I, C, T, W, L),
           NEW f \in C, NEW fd \in F!Fds, NEW n \in F!Nodes, T[f][fd] = n
    PROVE  GoodWith(F!Resized(I, n, 1), C, T, W, L) /\ GoodWith(F!Fsync(I, n), C, T, W, L)
  <1> DEFINE a == Opens(C, T, n)
             b == Refs(C, T, W, L, n)
  <1>1. a > 0
    <2>1. Opens(C, T, n) >= One(n, n) /\ Opens(C, T, n) \in Nat
      BY WithFdCounts, Counted
    <2> QED
      BY <2>1 DEF One
  <1>2. I \in [F!Nodes -> F!Inode] /\ Good(I[n], a, b)
    BY DEF GoodWith
  <1>3. Others(I, F!Resized(I, n, 1), n) /\ Good(F!Resized(I, n, 1)[n], a, b)
    BY <1>1, <1>2, ResizedGood
  <1>4. Others(I, F!Fsync(I, n), n) /\ Good(F!Fsync(I, n)[n], a, b)
    BY <1>2, FsyncGood DEF Good
  <1>5. GoodWith(F!Resized(I, n, 1), C, T, W, L)
    BY <1>3, OneChanged
  <1>6. GoodWith(F!Fsync(I, n), C, T, W, L)
    BY <1>4, OneChanged
  <1> QED
    BY <1>5, <1>6

\* vfs_chdir
LEMMA ChdirTable ==
    ASSUME NEW I, NEW C, NEW T, NEW W, NEW L, Tables(C, T, W, L), GoodWith(I, C, T, W, L),
           NEW f \in C, NEW n \in Dirs, n # W[f], W[f] \in Dirs
    PROVE  /\ Tables(C, T, [W EXCEPT ![f] = n], L)
           /\ GoodWith(F!RefDec(F!RefDec(F!RefInc(F!Lookup(I, n), n), W[f]), n),
                       C, T, [W EXCEPT ![f] = n], L)
  <1> DEFINE d == W[f]
             X == [W EXCEPT ![f] = n]
             J1 == F!Lookup(I, n)
             J2 == F!RefInc(J1, n)
             J3 == F!RefDec(J2, d)
             J4 == F!RefDec(J3, n)
             a == Opens(C, T, n)
             b == Refs(C, T, W, L, n)
             e == Opens(C, T, d)
             g == Refs(C, T, W, L, d)
  <1>1. /\ Tables(C, T, X, L) /\ X[f] = n
        /\ n \in F!Nodes /\ d \in F!Nodes
        /\ I \in [F!Nodes -> F!Inode] /\ Good(I[n], a, b) /\ Good(I[d], e, g)
        /\ f \in Structs /\ \A h \in C \ {f} : X[h] = W[h]
    BY Constants DEF Tables, FilesConstants, GoodWith
  <1>2. \A m \in F!Nodes : /\ Count(X, C, m) = Count(W, C, m) - One(d, m) + One(n, m)
                           /\ Count(W, C, m) >= One(d, m)
                           /\ Count(W, C, m) \in Nat
    <2>1. ButFor(C, W, X, f) /\ IsFiniteSet(C)
      BY <1>1, Counted DEF ButFor
    <2> HIDE DEF X
    <2> QED
      BY <1>1, <2>1, CountSet
  <1>3. \A m \in F!Nodes : /\ Opens(C, T, m) \in Nat /\ F!Boot(m) \in Nat /\ L[m] \in Nat
                           /\ Refs(C, T, W, L, m) \in Nat
                           /\ Refs(C, T, W, L, m) >= Opens(C, T, m) + Count(W, C, m)
    BY Counted
  <1>4. \A m \in F!Nodes : One(d, m) = (IF m = d THEN 1 ELSE 0)
                           /\ One(n, m) = (IF m = n THEN 1 ELSE 0)
    BY DEF One
  <1> HIDE DEF X, d, J1, J2, J3, J4
  <1>5. \A m \in F!Nodes : Refs(C, T, X, L, m) = Refs(C, T, W, L, m) - One(d, m) + One(n, m)
    BY <1>2, <1>3, <1>4 DEF Refs
  <1>6. a \in Nat /\ b \in Nat /\ e \in Nat /\ g \in Nat /\ a <= b /\ e < g
    BY <1>1, <1>2, <1>3, <1>4
  <1>7. Refs(C, T, X, L, n) = b + 1 /\ Refs(C, T, X, L, d) = g - 1
        /\ \A m \in F!Nodes \ {n, d} : Refs(C, T, X, L, m) = Refs(C, T, W, L, m)
    BY <1>1, <1>3, <1>4, <1>5 DEF d
  <1> HIDE DEF a, b, e, g
  <1>8. Others(I, J1, n) /\ Good(J1[n], a, b + 1)
    BY <1>1, LookupGood DEF J1
  <1>9. Others(I, J2, n) /\ Good(J2[n], a, b + 2)
    <2>1. J1 \in [F!Nodes -> F!Inode] /\ b + 1 > 0 /\ b + 1 + 1 = b + 2
      BY <1>6, <1>8 DEF Others
    <2>2. Others(J1, J2, n) /\ Good(J2[n], a, b + 1 + 1)
      BY <1>1, <1>8, <2>1, RefIncGood DEF J2
    <2> QED
      BY <1>8, <2>1, <2>2 DEF Others
  <1>10. /\ J3 \in [F!Nodes -> F!Inode] /\ Good(J3[n], a, b + 2) /\ Good(J3[d], e, g - 1)
         /\ \A m \in F!Nodes \ {n, d} : J3[m] = I[m]
    <2>1. J2 \in [F!Nodes -> F!Inode] /\ Good(J2[d], e, g) /\ n # d
      BY <1>1, <1>9 DEF Others, d
    <2>2. Others(J2, J3, d) /\ Good(J3[d], e, g - 1)
      BY <1>1, <1>6, <2>1, RefDecGood DEF J3
    <2> QED
      BY <1>1, <1>9, <2>1, <2>2 DEF Others
  <1>11. /\ J4 \in [F!Nodes -> F!Inode] /\ Good(J4[n], a, b + 1) /\ Good(J4[d], e, g - 1)
         /\ \A m \in F!Nodes \ {n, d} : J4[m] = I[m]
    <2> DEFINE c == b + 2
    <2>1. a < c /\ c - 1 = b + 1 /\ n # d /\ Good(J3[n], a, c)
      BY <1>6, <1>10 DEF d
    <2> HIDE DEF c
    <2>2. Others(J3, J4, n) /\ Good(J4[n], a, c - 1)
      BY <1>1, <1>10, <2>1, RefDecGood DEF J4
    <2> QED
      BY <1>1, <1>10, <2>1, <2>2 DEF Others
  <1>12. GoodWith(J4, C, T, X, L)
    <2>1. ASSUME NEW m \in F!Nodes PROVE Good(J4[m], Opens(C, T, m), Refs(C, T, X, L, m))
      <3>1. CASE m = n
        BY <1>7, <1>11, <3>1 DEF a
      <3>2. CASE m = d
        BY <1>7, <1>11, <3>2 DEF e
      <3>3. CASE m \notin {n, d}
        BY <1>7, <1>11, <3>3 DEF GoodWith
      <3> QED
        BY <3>1, <3>2, <3>3
    <2> QED
      BY <1>11, <2>1 DEF GoodWith
  <1> QED
    BY <1>1, <1>12 DEF X, d, J1, J2, J3, J4

\* dup_files, of the files_struct g into the new one f.
LEMMA ForkTable ==
    ASSUME NEW I, NEW C, NEW T, NEW W, NEW L, Tables(C, T, W, L), GoodWith(I, C, T, W, L),
           NEW g \in C, W[g] \in Dirs, NEW f \in Structs \ C
    PROVE  /\ Tables(C \cup {f}, [T EXCEPT ![f] = T[g]], [W EXCEPT ![f] = W[g]], L)
           /\ GoodWith(F!DupFds(I, T[g], W[g]),
                       C \cup {f}, [T EXCEPT ![f] = T[g]], [W EXCEPT ![f] = W[g]], L)
  <1> DEFINE D == C \cup {f}
             U == [T EXCEPT ![f] = T[g]]
             X == [W EXCEPT ![f] = W[g]]
             d == W[g]
             t == T[g]
             J == F!RefInc(I, d)
             o == [m \in F!Nodes |-> Opens(C, T, m)]
             r == [m \in F!Nodes |-> Refs(C, T, W, L, m) + One(d, m)]
             K == F!DupFds(I, t, d)
  <1>1. /\ Tables(D, U, X, L) /\ U[f] = t /\ X[f] = d /\ f \notin C /\ d \in F!Nodes
        /\ t \in [F!Fds -> F!Nodes \cup {NULL}] /\ IsFiniteSet(D) /\ IsFiniteSet(C)
        /\ IsFiniteSet(F!Fds) /\ NULL \notin F!Nodes /\ D \ {f} = C /\ f \in D
        /\ \A h \in C : U[h] = T[h] /\ X[h] = W[h]
    <2>1. /\ Tables(D, U, X, L) /\ U[f] = t /\ X[f] = d /\ f \notin C /\ d \in F!Nodes
          /\ t \in [F!Fds -> F!Nodes \cup {NULL}] /\ D \ {f} = C /\ f \in D
          /\ \A h \in C : U[h] = T[h] /\ X[h] = W[h]
      BY Constants DEF Tables, FilesConstants
    <2>2. IsFiniteSet(D) /\ D \in SUBSET Structs
      BY <2>1, Constants, FS_Subset DEF Tables, FilesConstants
    <2>3. IsFiniteSet(C)
      BY <2>2, FS_Subset
    <2> QED
      BY <2>1, <2>2, <2>3, Constants DEF FilesConstants
  <1>2. \A m \in F!Nodes : /\ Opens(C, T, m) \in Nat /\ Count(W, C, m) \in Nat
                           /\ F!Boot(m) \in Nat /\ L[m] \in Nat
                           /\ Refs(C, T, W, L, m) \in Nat
                           /\ Refs(C, T, W, L, m) >= Opens(C, T, m) + Count(W, C, m)
    BY Counted
  <1>3. \A m \in F!Nodes : One(d, m) = IF m = d THEN 1 ELSE 0
    BY DEF One
  <1> HIDE DEF D, U, X, d, t
  <1>4. \A m \in F!Nodes : /\ Opens(D, U, m) = Opens(C, T, m) + Count(t, F!Fds, m)
                           /\ Count(t, F!Fds, m) \in Nat
    <2> SUFFICES ASSUME NEW m \in F!Nodes
                 PROVE  /\ Opens(D, U, m) = Opens(C, T, m) + Count(t, F!Fds, m)
                        /\ Count(t, F!Fds, m) \in Nat
      OBVIOUS
    <2>1. /\ Opens(D, U, m) = Opens(D \ {f}, U, m) + Count(U[f], F!Fds, m)
          /\ Count(U[f], F!Fds, m) \in Nat
      <3>1. f \in D /\ IsFiniteSet(D) /\ IsFiniteSet(F!Fds)
        BY <1>1
      <3> QED
        BY <3>1, OpensIs
    <2>2. Opens(C, U, m) = Opens(C, T, m)
      BY <1>1, OpensSame
    <2> QED
      BY <1>1, <2>1, <2>2
  <1>5. \A m \in F!Nodes : Count(X, D, m) = Count(W, C, m) + One(d, m)
    <2> SUFFICES ASSUME NEW m \in F!Nodes
                 PROVE  Count(X, D, m) = Count(W, C, m) + One(d, m)
      OBVIOUS
    <2>1. Count(X, D, m) = Count(X, D \ {f}, m) + One(X[f], m)
      BY <1>1, CountIs DEF One
    <2>2. Count(X, C, m) = Count(W, C, m)
      BY <1>1, CountSame
    <2> QED
      BY <1>1, <2>1, <2>2
  <1>6. \A m \in F!Nodes : Refs(D, U, X, L, m) = r[m] + Count(t, F!Fds, m)
    BY <1>2, <1>3, <1>4, <1>5 DEF Refs
  <1>7. J \in [F!Nodes -> F!Inode] /\ \A m \in F!Nodes : Good(J[m], o[m], r[m])
    <2>1. Good(I[d], Opens(C, T, d), Refs(C, T, W, L, d)) /\ I \in [F!Nodes -> F!Inode]
      BY <1>1 DEF GoodWith
    <2>2. Refs(C, T, W, L, d) > 0
      <3>1. Count(W, C, d) = Count(W, C \ {g}, d) + 1
        BY <1>1, CountIs DEF d
      <3>2. Count(W, C \ {g}, d) \in Nat
        <4>1. IsFiniteSet(C \ {g})
          BY <1>1, FS_RemoveElement
        <4> QED
          BY <4>1, CountIs
      <3> QED
        BY <1>1, <1>2, <3>1, <3>2
    <2>3. Others(I, J, d) /\ Good(J[d], Opens(C, T, d), Refs(C, T, W, L, d) + 1)
      BY <1>1, <2>1, <2>2, RefIncGood
    <2> HIDE DEF J
    <2>4. ASSUME NEW m \in F!Nodes PROVE Good(J[m], o[m], r[m])
      <3>1. CASE m = d
        BY <1>3, <2>3, <3>1
      <3>2. CASE m # d
        <4>1. r[m] = Refs(C, T, W, L, m) /\ o[m] = Opens(C, T, m)
          BY <1>2, <1>3, <3>2
        <4>2. J[m] = I[m]
          BY <2>3, <3>2 DEF Others
        <4> QED
          BY <4>1, <4>2 DEF GoodWith
      <3> QED
        BY <3>1, <3>2
    <2> QED
      BY <2>3, <2>4 DEF Others
  <1>8. \A fd \in F!Fds : t[fd] # NULL => r[t[fd]] > 0
    <2> SUFFICES ASSUME NEW fd \in F!Fds, t[fd] # NULL PROVE r[t[fd]] > 0
      OBVIOUS
    <2>1. t[fd] \in F!Nodes
      BY <1>1
    <2>2. Opens(C, T, t[fd]) >= One(T[g][fd], t[fd])
      BY <2>1, WithFdCounts
    <2>3. One(T[g][fd], t[fd]) = 1
      BY DEF One, t
    <2>4. One(d, t[fd]) \in {0, 1}
      BY DEF One
    <2> HIDE DEF r
    <2>5. r[t[fd]] = Refs(C, T, W, L, t[fd]) + One(d, t[fd])
      BY <2>1 DEF r
    <2> QED
      BY <1>2, <2>1, <2>2, <2>3, <2>4, <2>5
  <1> HIDE DEF J, o, r, K
  <1>9. GoodAfter(Loop(TRUE, J, t, F!Fds), o, r, TRUE, t, F!Fds)
    <2>1. \A fd \in F!Fds : t[fd] \in F!Nodes \cup {NULL}
      BY <1>1
    <2> QED
      BY <1>1, <1>7, <1>8, <2>1, LoopGood
  <1>10. K = Loop(TRUE, J, t, F!Fds)
    BY Loops DEF K, J
  <1>11. \A m \in F!Nodes : /\ o[m] + Delta(TRUE, t, F!Fds, m) = Opens(D, U, m)
                            /\ r[m] + Delta(TRUE, t, F!Fds, m) = Refs(D, U, X, L, m)
    BY <1>4, <1>6 DEF o, Delta
  <1>12. GoodWith(K, D, U, X, L)
    BY <1>9, <1>10, <1>11 DEF GoodAfter, GoodWith
  <1> QED
    BY <1>1, <1>12 DEF D, U, X, K, t, d

\* Some descriptors of a table and the others.
LEMMA CountSplit ==
    ASSUME NEW A, IsFiniteSet(A), NEW S \in SUBSET A, NEW t, NEW k, NEW n, n # NULL,
           \A fd \in A : k[fd] = IF fd \in S THEN NULL ELSE t[fd]
    PROVE  Count(t, A, n) = Count(k, A, n) + Count(t, S, n)
  <1> DEFINE X == {fd \in A : t[fd] = n}
             Y == {fd \in A : k[fd] = n}
             Z == {fd \in S : t[fd] = n}
  <1>1. X = Y \cup Z /\ Y \cap Z = {} /\ Y \in SUBSET A /\ Z \in SUBSET A
    OBVIOUS
  <1> HIDE DEF X, Y, Z
  <1>2. IsFiniteSet(Y) /\ IsFiniteSet(Z)
    BY <1>1, FS_Subset
  <1>3. Cardinality(X) = Cardinality(Y) + Cardinality(Z) - Cardinality(Y \cap Z)
    BY <1>1, <1>2, FS_Union
  <1>4. Cardinality(Y \cap Z) = 0 /\ Cardinality(Y) \in Nat /\ Cardinality(Z) \in Nat
    BY <1>1, <1>2, FS_EmptySet, FS_CardinalityType
  <1>5. Cardinality(X) = Cardinality(Y) + Cardinality(Z)
    BY <1>3, <1>4
  <1> QED
    BY <1>5 DEF Count, X, Y, Z

\* files_closeall
LEMMA ClosedTable ==
    ASSUME NEW I, NEW C, NEW T, NEW W, NEW L, Tables(C, T, W, L), GoodWith(I, C, T, W, L),
           NEW f \in C, NEW S \in SUBSET F!Fds, NEW k \in [F!Fds -> F!Nodes \cup {NULL}],
           \A fd \in F!Fds : k[fd] = IF fd \in S THEN NULL ELSE T[f][fd]
    PROVE  /\ Tables(C, [T EXCEPT ![f] = k], W, L)
           /\ GoodWith(F!CloseFds(I, T[f], S), C, [T EXCEPT ![f] = k], W, L)
  <1> DEFINE U == [T EXCEPT ![f] = k]
             t == T[f]
             o == [m \in F!Nodes |-> Opens(C, T, m)]
             r == [m \in F!Nodes |-> Refs(C, T, W, L, m)]
             K == F!CloseFds(I, t, S)
  <1>1. /\ Tables(C, U, W, L) /\ U[f] = k /\ IsFiniteSet(C) /\ IsFiniteSet(F!Fds)
        /\ t \in [F!Fds -> F!Nodes \cup {NULL}] /\ NULL \notin F!Nodes
        /\ \A h \in C \ {f} : U[h] = T[h]
    <2>1. IsFiniteSet(C) /\ IsFiniteSet(F!Fds) /\ NULL \notin F!Nodes
      BY Constants, FS_Subset DEF Tables, FilesConstants
    <2> QED
      BY <2>1 DEF Tables
  <1>2. IsFiniteSet(S)
    BY <1>1, FS_Subset
  <1>3. \A fd \in F!Fds : k[fd] = IF fd \in S THEN NULL ELSE t[fd]
    OBVIOUS
  <1> HIDE DEF U, t
  <1>4. \A m \in F!Nodes : /\ Opens(C, T, m) \in Nat /\ Count(W, C, m) \in Nat
                           /\ F!Boot(m) \in Nat /\ L[m] \in Nat
                           /\ Count(t, S, m) \in Nat /\ Count(t, S, m) <= Opens(C, T, m)
                           /\ Opens(C, U, m) = Opens(C, T, m) - Count(t, S, m)
    <2> SUFFICES ASSUME NEW m \in F!Nodes
                 PROVE  /\ Opens(C, T, m) \in Nat /\ Count(W, C, m) \in Nat
                        /\ F!Boot(m) \in Nat /\ L[m] \in Nat
                        /\ Count(t, S, m) \in Nat /\ Count(t, S, m) <= Opens(C, T, m)
                        /\ Opens(C, U, m) = Opens(C, T, m) - Count(t, S, m)
      OBVIOUS
    <2>1. /\ Opens(C, T, m) \in Nat /\ Count(W, C, m) \in Nat /\ F!Boot(m) \in Nat
          /\ L[m] \in Nat
      BY Counted
    <2>2. Opens(C, U, m) = Opens(C, T, m) - Count(t, F!Fds, m) + Count(k, F!Fds, m)
      BY <1>1, OpensSet DEF t
    <2>3. /\ Opens(C, T, m) = Opens(C \ {f}, T, m) + Count(t, F!Fds, m)
          /\ Opens(C \ {f}, T, m) \in Nat
      BY <1>1, OpensIs DEF t
    <2>4. Count(t, F!Fds, m) = Count(k, F!Fds, m) + Count(t, S, m)
      <3>1. m # NULL
        BY <1>1
      <3> QED
        BY <1>1, <1>3, <3>1, CountSplit
    <2>5. Count(k, F!Fds, m) \in Nat /\ Count(t, S, m) \in Nat
      BY <1>1, <1>2, CountIs
    <2> QED
      BY <2>1, <2>2, <2>3, <2>4, <2>5
  <1>5. \A m \in F!Nodes : /\ o[m] + Delta(FALSE, t, S, m) = Opens(C, U, m)
                           /\ r[m] + Delta(FALSE, t, S, m) = Refs(C, U, W, L, m)
    BY <1>4 DEF Delta, Refs
  <1>6. I \in [F!Nodes -> F!Inode] /\ \A m \in F!Nodes : Good(I[m], o[m], r[m])
    BY DEF GoodWith
  <1>7. \A m \in F!Nodes : Count(t, S, m) <= o[m]
    BY <1>4
  <1>8. \A fd \in S : t[fd] \in F!Nodes \cup {NULL}
    BY <1>1
  <1> HIDE DEF o, r, K
  <1>9. GoodAfter(Loop(FALSE, I, t, S), o, r, FALSE, t, S)
    BY <1>1, <1>2, <1>6, <1>7, <1>8, LoopGood
  <1>10. K = Loop(FALSE, I, t, S)
    BY Loops DEF K
  <1>11. GoodWith(K, C, U, W, L)
    BY <1>5, <1>9, <1>10 DEF GoodAfter, GoodWith
  <1> QED
    BY <1>1, <1>11 DEF U, K, t

\* put_files
LEMMA PutTable ==
    ASSUME NEW I, NEW C, NEW T, NEW W, NEW L, Tables(C, T, W, L), GoodWith(I, C, T, W, L),
           NEW f \in C, W[f] \in Dirs, NEW U, NEW X,
           \A g \in C \ {f} : U[g] = T[g] /\ X[g] = W[g]
    PROVE  GoodWith(F!CloseFds(F!RefDec(I, W[f]), T[f], F!Fds), C \ {f}, U, X, L)
  <1> DEFINE D == C \ {f}
             d == W[f]
             t == T[f]
             J == F!RefDec(I, d)
             o == [m \in F!Nodes |-> Opens(C, T, m)]
             r == [m \in F!Nodes |-> Refs(C, T, W, L, m) - One(d, m)]
             K == F!CloseFds(J, t, F!Fds)
  <1>1. /\ d \in F!Nodes /\ t \in [F!Fds -> F!Nodes \cup {NULL}]
        /\ IsFiniteSet(F!Fds) /\ NULL \notin F!Nodes
        /\ \A h \in D : U[h] = T[h] /\ X[h] = W[h]
    BY Constants DEF Tables, FilesConstants
  <1>2. IsFiniteSet(C) /\ IsFiniteSet(D)
    <2>1. IsFiniteSet(C)
      BY Constants, FS_Subset DEF Tables, FilesConstants
    <2> QED
      BY <2>1, FS_RemoveElement
  <1>3. \A m \in F!Nodes : /\ Opens(C, T, m) \in Nat /\ Count(W, C, m) \in Nat
                           /\ F!Boot(m) \in Nat /\ L[m] \in Nat
                           /\ Refs(C, T, W, L, m) \in Nat
                           /\ Refs(C, T, W, L, m) >= Opens(C, T, m) + Count(W, C, m)
    BY Counted
  <1>4. \A m \in F!Nodes : One(d, m) = IF m = d THEN 1 ELSE 0
    BY DEF One
  <1> HIDE DEF d, t
  <1>5. \A m \in F!Nodes : /\ Opens(D, U, m) = Opens(C, T, m) - Count(t, F!Fds, m)
                           /\ Count(t, F!Fds, m) \in Nat /\ Count(t, F!Fds, m) <= Opens(C, T, m)
    <2> SUFFICES ASSUME NEW m \in F!Nodes
                 PROVE  /\ Opens(D, U, m) = Opens(C, T, m) - Count(t, F!Fds, m)
                        /\ Count(t, F!Fds, m) \in Nat /\ Count(t, F!Fds, m) <= Opens(C, T, m)
      OBVIOUS
    <2>1. /\ Opens(C, T, m) = Opens(D, T, m) + Count(t, F!Fds, m)
          /\ Count(t, F!Fds, m) \in Nat /\ Opens(D, T, m) \in Nat
      BY <1>1, <1>2, OpensIs DEF t
    <2>2. Opens(D, U, m) = Opens(D, T, m)
      BY <1>1, OpensSame
    <2> HIDE DEF D
    <2> QED
      BY <2>1, <2>2
  <1>6. \A m \in F!Nodes : /\ Count(X, D, m) = Count(W, C, m) - One(d, m)
                           /\ Count(X, D, m) \in Nat
    <2> SUFFICES ASSUME NEW m \in F!Nodes
                 PROVE  /\ Count(X, D, m) = Count(W, C, m) - One(d, m)
                        /\ Count(X, D, m) \in Nat
      OBVIOUS
    <2>1. Count(W, C, m) = Count(W, D, m) + One(d, m)
      BY <1>2, CountIs DEF One, d
    <2>2. Count(X, D, m) = Count(W, D, m)
      BY <1>1, CountSame
    <2>3. Count(W, D, m) \in Nat
      BY <1>2, CountIs
    <2> HIDE DEF D
    <2> QED
      BY <1>4, <2>1, <2>2, <2>3
  <1>7. J \in [F!Nodes -> F!Inode] /\ \A m \in F!Nodes : Good(J[m], o[m], r[m])
    <2>1. Good(I[d], Opens(C, T, d), Refs(C, T, W, L, d)) /\ I \in [F!Nodes -> F!Inode]
      BY <1>1 DEF GoodWith
    <2>2. Opens(C, T, d) < Refs(C, T, W, L, d)
      BY <1>1, <1>3, <1>4, <1>6
    <2>3. Others(I, J, d) /\ Good(J[d], Opens(C, T, d), Refs(C, T, W, L, d) - 1)
      BY <1>1, <2>1, <2>2, RefDecGood
    <2> HIDE DEF J
    <2>4. ASSUME NEW m \in F!Nodes PROVE Good(J[m], o[m], r[m])
      <3>1. CASE m = d
        BY <1>4, <2>3, <3>1
      <3>2. CASE m # d
        <4>1. r[m] = Refs(C, T, W, L, m) /\ o[m] = Opens(C, T, m)
          BY <1>3, <1>4, <3>2
        <4>2. J[m] = I[m]
          BY <2>3, <3>2 DEF Others
        <4> QED
          BY <4>1, <4>2 DEF GoodWith
      <3> QED
        BY <3>1, <3>2
    <2> QED
      BY <2>3, <2>4 DEF Others
  <1> HIDE DEF D
  <1>8. \A m \in F!Nodes : /\ o[m] + Delta(FALSE, t, F!Fds, m) = Opens(D, U, m)
                           /\ r[m] + Delta(FALSE, t, F!Fds, m) = Refs(D, U, X, L, m)
    BY <1>3, <1>4, <1>5, <1>6 DEF Delta, Refs
  <1>9. \A m \in F!Nodes : Count(t, F!Fds, m) <= o[m]
    BY <1>5
  <1>10. \A fd \in F!Fds : t[fd] \in F!Nodes \cup {NULL}
    BY <1>1
  <1> HIDE DEF J, o, r, K
  <1>11. GoodAfter(Loop(FALSE, J, t, F!Fds), o, r, FALSE, t, F!Fds)
    BY <1>1, <1>7, <1>9, <1>10, LoopGood
  <1>12. K = Loop(FALSE, J, t, F!Fds)
    BY Loops DEF K
  <1>13. GoodWith(K, D, U, X, L)
    BY <1>8, <1>11, <1>12 DEF GoodAfter, GoodWith
  <1> QED
    BY <1>13 DEF D, K, J, t, d

-----------------------------------------------------------------------------
\* The invariant of Files that is about inodes; that of ResourcesExact goes with it.
InodeInv ==
    /\ Tables(created, fd_array, pwd, lostRef)
    /\ stranded \subseteq created
    /\ \A f \in created : pwd[f] \in Dirs
    /\ GoodWith(inode, created, fd_array, pwd, lostRef)

\* A process that lives has its files_struct.
LEMMA HasFiles ==
    ASSUME ResourceInv, InodeInv, NEW p \in Owners, state[p] = "ALIVE"
    PROVE  /\ filesp[p] \in created /\ filesp[p] \in Structs /\ filesp[p] \notin stranded
           /\ pwd[filesp[p]] \in Dirs /\ F!files(p) = fd_array[filesp[p]]
           /\ F!files(p) \in [F!Fds -> F!Nodes \cup {NULL}]
  <1>1. filesp[p] \in created /\ filesp[p] \notin stranded
    BY DEF ResourceInv, StructsExact
  <1> QED
    BY <1>1 DEF InodeInv, Tables, F!files

\* user_main has the root directory and no open files.
LEMMA InodesInit == ASSUME F!Init PROVE InodeInv
  <1>1. PICK p \in Owners, f \in Structs :
           /\ created = {f}
           /\ fd_array = [g \in Structs |-> F!Empty]
           /\ pwd = [g \in Structs |-> IF g = f THEN root ELSE NULL]
           /\ \E S \in SUBSET Regular :
                inode = [n \in F!Nodes |->
                   [cached |-> n = root, ref_count |-> IF n = root THEN F!Boot(n) + 1 ELSE 0,
                    open_count |-> 0, dirty |-> FALSE,
                    size |-> IF n \in S THEN 1 ELSE 0, disk |-> IF n \in S THEN 1 ELSE 0]]
           /\ lostRef = [n \in F!Nodes |-> 0]
           /\ stranded = {}
    BY DEF F!Init
  <1>2. Tables(created, fd_array, pwd, lostRef) /\ \A g \in created : pwd[g] \in Dirs
    BY <1>1, Constants DEF Tables, FilesConstants, F!Empty
  <1>3. ASSUME NEW n \in F!Nodes
        PROVE /\ Opens(created, fd_array, n) = 0
              /\ Refs(created, fd_array, pwd, lostRef, n) = IF n = root THEN 3 ELSE 0
    <2>1. Opens(created, fd_array, n) = 0
      <3>1. {e \in created \X F!Fds : fd_array[e[1]][e[2]] = n} = {}
        BY <1>1, Constants DEF FilesConstants, F!Empty
      <3> QED
        BY <3>1, FS_EmptySet DEF Opens
    <2>2. Count(pwd, created, n) = IF n = root THEN 1 ELSE 0
      <3>1. CASE n = root
        <4>1. {g \in created : pwd[g] = n} = {f}
          BY <1>1, <3>1
        <4> QED
          BY <3>1, <4>1, FS_Singleton DEF Count
      <3>2. CASE n # root
        <4>1. {g \in created : pwd[g] = n} = {}
          BY <1>1, <3>2
        <4> QED
          BY <3>2, <4>1, FS_EmptySet DEF Count
      <3> QED
        BY <3>1, <3>2
    <2> QED
      BY <1>1, <2>1, <2>2 DEF Refs, F!Boot
  <1>4. GoodWith(inode, created, fd_array, pwd, lostRef)
    <2>1. PICK S \in SUBSET Regular :
            inode = [n \in F!Nodes |->
               [cached |-> n = root, ref_count |-> IF n = root THEN F!Boot(n) + 1 ELSE 0,
                open_count |-> 0, dirty |-> FALSE,
                size |-> IF n \in S THEN 1 ELSE 0, disk |-> IF n \in S THEN 1 ELSE 0]]
      BY <1>1
    <2>2. ASSUME NEW n \in F!Nodes PROVE Good(inode[n], 0, IF n = root THEN 3 ELSE 0)
      <3>1. /\ inode[n].cached = (n = root) /\ inode[n].ref_count = IF n = root THEN 3 ELSE 0
            /\ inode[n].open_count = 0 /\ inode[n].dirty = FALSE
            /\ inode[n].size = inode[n].disk /\ inode[n] \in F!Inode
        BY <2>1 DEF F!Boot, F!Inode
      <3>2. CASE n = root
        <4>1. inode[n].cached
          BY <3>1, <3>2, Zenon
        <4> QED
          BY <3>1, <3>2, <4>1 DEF Good
      <3>3. CASE n # root
        <4>1. ~inode[n].cached
          BY <3>1, <3>3, Zenon
        <4> QED
          BY <3>1, <3>3, <4>1 DEF Good
      <3> QED
        BY <3>2, <3>3
    <2>3. inode \in [F!Nodes -> F!Inode]
      <3>1. \A n \in F!Nodes : inode[n] \in F!Inode
        BY <2>2 DEF Good
      <3> QED
        BY <2>1, <3>1
    <2> QED
      BY <1>3, <2>2, <2>3 DEF GoodWith
  <1> QED
    BY <1>1, <1>2, <1>4 DEF InodeInv

\* The system calls on files.
LEMMA FileCalls ==
    ASSUME ResourceInv, InodeInv, NEW p \in Owners,
           \/ \E n \in F!Nodes : F!Open(p, n, FALSE) \/ F!OpenExcl(p, n)
           \/ \E n \in Regular : F!Open(p, n, TRUE)
           \/ \E n \in Dirs : F!Chdir(p, n)
           \/ \E fd \in F!Fds : F!Close(p, fd) \/ F!Grow(p, fd) \/ F!Sync(p, fd)
           \/ \E fd1, fd2 \in F!Fds : F!Dup(p, fd1, fd2)
    PROVE  InodeInv'
  <1> DEFINE f == filesp[p]
             t == F!files(p)
  <1>1. state[p] = "ALIVE" /\ created' = created /\ stranded' = stranded
    BY DEF F!Open, F!OpenExcl, F!Chdir, F!Close, F!Grow, F!Sync, F!Dup, F!Running, F!notFiles
  <1>2. /\ f \in created /\ f \in Structs /\ pwd[f] \in Dirs
        /\ t = fd_array[f] /\ t \in [F!Fds -> F!Nodes \cup {NULL}]
    BY <1>1, HasFiles
  <1>3. /\ Tables(created, fd_array, pwd, lostRef)
        /\ GoodWith(inode, created, fd_array, pwd, lostRef)
        /\ stranded \subseteq created /\ \A g \in created : pwd[g] \in Dirs
        /\ fd_array \in [Structs -> [F!Fds -> F!Nodes \cup {NULL}]]
        /\ Regular \subseteq F!Nodes /\ Dirs \subseteq F!Nodes /\ NULL \notin F!Nodes
    BY Constants DEF InodeInv, FilesConstants, Tables
  <1>4. \A v : \A fd \in F!Fds : F!SetFd(p, fd, v) => fd_array' = WithFd(fd_array, f, fd, v)
    BY <1>2, <1>3 DEF F!SetFd, WithFd
  <1> HIDE DEF f, t
  <1>5. ASSUME NEW n \in F!Nodes, NEW truncate \in BOOLEAN, F!Open(p, n, truncate)
        PROVE  InodeInv'
    <2>1. PICK fd \in F!Fds : F!IsFirstFree(t, fd) /\ F!SetFd(p, fd, n)
      BY <1>5 DEF F!Open, t
    <2>2. /\ fd_array[f][fd] = NULL /\ fd_array' = WithFd(fd_array, f, fd, n)
          /\ inode' = F!VfsOpen(inode, n, truncate) /\ pwd' = pwd /\ lostRef' = lostRef
      BY <1>2, <1>4, <1>5, <2>1 DEF F!Open, F!IsFirstFree
    <2>3. /\ Tables(created, WithFd(fd_array, f, fd, n), pwd, lostRef)
          /\ GoodWith(F!VfsOpen(inode, n, truncate), created, WithFd(fd_array, f, fd, n), pwd,
                      lostRef)
      BY <1>2, <1>3, <2>2, OpenTable
    <2> QED
      BY <1>1, <1>3, <2>2, <2>3 DEF InodeInv
  <1>6. ASSUME NEW n \in F!Nodes, F!OpenExcl(p, n) PROVE InodeInv'
    <2>1. /\ inode' = F!Lookup(inode, n) /\ lostRef' = [lostRef EXCEPT ![n] = @ + 1]
          /\ fd_array' = fd_array /\ pwd' = pwd
      BY <1>6 DEF F!OpenExcl
    <2> QED
      BY <1>1, <1>3, <2>1, LostTable DEF InodeInv
  <1>7. ASSUME NEW n \in Dirs, F!Chdir(p, n) PROVE InodeInv'
    <2>1. /\ n # pwd[f] /\ pwd' = [pwd EXCEPT ![f] = n]
          /\ inode' = F!RefDec(F!RefDec(F!RefInc(F!Lookup(inode, n), n), pwd[f]), n)
          /\ fd_array' = fd_array /\ lostRef' = lostRef
      BY <1>7 DEF F!Chdir, f
    <2>2. \A g \in created : pwd'[g] \in Dirs
      BY <1>2, <1>3, <2>1 DEF Tables
    <2>3. /\ Tables(created, fd_array, [pwd EXCEPT ![f] = n], lostRef)
          /\ GoodWith(F!RefDec(F!RefDec(F!RefInc(F!Lookup(inode, n), n), pwd[f]), n),
                      created, fd_array, [pwd EXCEPT ![f] = n], lostRef)
      BY <1>2, <1>3, <2>1, ChdirTable
    <2> QED
      BY <1>1, <1>3, <2>1, <2>2, <2>3 DEF InodeInv
  <1>8. ASSUME NEW fd \in F!Fds, F!Close(p, fd) PROVE InodeInv'
    <2> DEFINE n == t[fd]
    <2>1. /\ n \in F!Nodes /\ fd_array[f][fd] = n /\ fd_array' = WithFd(fd_array, f, fd, NULL)
          /\ inode' = F!VfsClose(inode, n) /\ pwd' = pwd /\ lostRef' = lostRef
      BY <1>2, <1>4, <1>8 DEF F!Close, t
    <2> HIDE DEF n
    <2>2. /\ Tables(created, WithFd(fd_array, f, fd, NULL), pwd, lostRef)
          /\ GoodWith(F!VfsClose(inode, n), created, WithFd(fd_array, f, fd, NULL), pwd, lostRef)
      BY <1>2, <1>3, <2>1, CloseTable
    <2> QED
      BY <1>1, <1>3, <2>1, <2>2 DEF InodeInv
  <1>9. ASSUME NEW fd \in F!Fds, F!Grow(p, fd) \/ F!Sync(p, fd) PROVE InodeInv'
    <2> DEFINE n == t[fd]
    <2>1. /\ n \in F!Nodes /\ fd_array[f][fd] = n
          /\ inode' = F!Resized(inode, n, 1) \/ inode' = F!Fsync(inode, n)
          /\ fd_array' = fd_array /\ pwd' = pwd /\ lostRef' = lostRef
      BY <1>2, <1>3, <1>9 DEF F!Grow, F!Sync, t
    <2> HIDE DEF n
    <2> QED
      BY <1>1, <1>2, <1>3, <2>1, SameTable DEF InodeInv
  <1>10. ASSUME NEW fd1 \in F!Fds, NEW fd2 \in F!Fds, F!Dup(p, fd1, fd2) PROVE InodeInv'
    <2> DEFINE n == t[fd1]
    <2>1. /\ n \in F!Nodes /\ fd_array[f][fd1] = n /\ fd_array[f][fd2] = NULL
          /\ fd_array' = WithFd(fd_array, f, fd2, n)
          /\ inode' = F!OpenInc(F!RefInc(inode, n), n) /\ pwd' = pwd /\ lostRef' = lostRef
      BY <1>2, <1>4, <1>10 DEF F!Dup, t
    <2> HIDE DEF n
    <2>2. /\ Tables(created, WithFd(fd_array, f, fd2, n), pwd, lostRef)
          /\ GoodWith(F!OpenInc(F!RefInc(inode, n), n), created, WithFd(fd_array, f, fd2, n), pwd,
                      lostRef)
      BY <1>2, <1>3, <2>1, DupTable
    <2> QED
      BY <1>1, <1>3, <2>1, <2>2 DEF InodeInv
  <1> QED
    BY <1>3, <1>5, <1>6, <1>7, <1>8, <1>9, <1>10

\* do_fork
LEMMA ForkInodes ==
    ASSUME ResourceInv, InodeInv, NEW p \in Owners, NEW c \in Owners, F!Fork(p, c)
    PROVE  InodeInv'
  <1> DEFINE g == filesp[p]
  <1>1. state[p] = "ALIVE"
    BY DEF F!Fork, F!Running
  <1>2. g \in created /\ pwd[g] \in Dirs /\ F!files(p) = fd_array[g]
    BY <1>1, HasFiles
  <1>3. PICK f \in Structs \ created :
          /\ created' = created \cup {f}
          /\ fd_array' = [fd_array EXCEPT ![f] = fd_array[g]]
          /\ pwd' = [pwd EXCEPT ![f] = pwd[g]]
          /\ inode' = F!DupFds(inode, fd_array[g], pwd[g])
          /\ lostRef' = lostRef /\ stranded' = stranded
    BY <1>2 DEF F!Fork
  <1> HIDE DEF g
  <1>4. Tables(created, fd_array, pwd, lostRef)
        /\ GoodWith(inode, created, fd_array, pwd, lostRef)
    BY DEF InodeInv
  <1>5. /\ Tables(created', fd_array', pwd', lostRef')
        /\ GoodWith(inode', created', fd_array', pwd', lostRef')
    BY <1>2, <1>3, <1>4, ForkTable
  <1>6. stranded' \subseteq created' /\ \A h \in created' : pwd'[h] \in Dirs
    BY <1>2, <1>3, <1>4 DEF InodeInv, Tables
  <1> QED
    BY <1>5, <1>6 DEF InodeInv

\* do_exit, whatever do_execve has done to the table before.
LEMMA LeaveInodes ==
    ASSUME ResourceInv, InodeInv, NEW p \in Owners, state[p] = "ALIVE",
           NEW fds \in [F!Fds -> F!Nodes \cup {NULL}], NEW I, NEW hasMm \in BOOLEAN,
           F!Leave(p, fds, I, hasMm),
           GoodWith(I, created, [fd_array EXCEPT ![filesp[p]] = fds], pwd, lostRef)
    PROVE  InodeInv'
  <1> DEFINE f == filesp[p]
             T == [fd_array EXCEPT ![f] = fds]
  <1>1. f \in created /\ f \in Structs /\ pwd[f] \in Dirs /\ f \notin stranded
    BY HasFiles
  <1>2. Tables(created, T, pwd, lostRef) /\ T[f] = fds
        /\ stranded \subseteq created /\ \A g \in created : pwd[g] \in Dirs
    BY <1>1 DEF InodeInv, Tables
  <1>3. CASE hasMm
    <2>1. /\ inode' = F!CloseFds(F!RefDec(I, pwd[f]), fds, F!Fds)
          /\ created' = created \ {f} /\ fd_array' = [fd_array EXCEPT ![f] = F!Empty]
          /\ pwd' = [pwd EXCEPT ![f] = NULL] /\ stranded' = stranded /\ lostRef' = lostRef
      BY <1>3 DEF F!Leave, F!PutFiles
    <2>2. Tables(created', fd_array', pwd', lostRef') /\ \A g \in created' : pwd'[g] \in Dirs
      BY <1>1, <1>2, <2>1 DEF InodeInv, Tables, F!Empty
    <2>3. \A g \in created \ {f} : fd_array'[g] = T[g] /\ pwd'[g] = pwd[g]
      BY <1>1, <2>1 DEF InodeInv, Tables
    <2>4. GoodWith(I, created, T, pwd, lostRef)
      OBVIOUS
    <2> HIDE DEF f, T
    <2>5. GoodWith(inode', created', fd_array', pwd', lostRef')
      <3> DEFINE U == fd_array'
                 X == pwd'
      <3>1. \A g \in created \ {f} : U[g] = T[g] /\ X[g] = pwd[g]
        BY <2>3
      <3> HIDE DEF U, X
      <3>2. GoodWith(F!CloseFds(F!RefDec(I, pwd[f]), T[f], F!Fds), created \ {f}, U, X, lostRef)
        BY <1>1, <1>2, <2>4, <3>1, PutTable
      <3> QED
        BY <1>2, <2>1, <3>2 DEF U, X
    <2> QED
      BY <1>1, <1>2, <2>1, <2>2, <2>5 DEF InodeInv
  <1>4. CASE ~hasMm
    <2>1. /\ inode' = I /\ fd_array' = T /\ stranded' = stranded \cup {f}
          /\ created' = created /\ pwd' = pwd /\ lostRef' = lostRef
      BY <1>4 DEF F!Leave
    <2> QED
      BY <1>1, <1>2, <2>1 DEF InodeInv
  <1> QED
    BY <1>3, <1>4

\* What do_execve does to the table: files_closeall, and perhaps one file opened.
LEMMA ExecTables ==
    ASSUME ResourceInv, InodeInv, NEW p \in Owners, state[p] = "ALIVE"
    PROVE  /\ F!Kept(F!files(p)) \in [F!Fds -> F!Nodes \cup {NULL}]
           /\ GoodWith(F!ClosedAll(p), created,
                       [fd_array EXCEPT ![filesp[p]] = F!Kept(F!files(p))], pwd, lostRef)
           /\ \A n \in Regular, fd \in F!Fds :
                 F!IsFirstFree(F!Kept(F!files(p)), fd) =>
                   LET fds == [F!Kept(F!files(p)) EXCEPT ![fd] = n]
                   IN  /\ fds \in [F!Fds -> F!Nodes \cup {NULL}]
                       /\ Tables(created, [fd_array EXCEPT ![filesp[p]] = fds], pwd, lostRef)
                       /\ GoodWith(F!VfsOpen(F!ClosedAll(p), n, FALSE), created,
                                   [fd_array EXCEPT ![filesp[p]] = fds], pwd, lostRef)
  <1> DEFINE f == filesp[p]
             t == F!files(p)
             k == F!Kept(t)
             S == STD .. NENTRY - 1
             U == [fd_array EXCEPT ![f] = k]
             I == F!ClosedAll(p)
  <1>1. /\ f \in created /\ f \in Structs /\ t = fd_array[f]
        /\ t \in [F!Fds -> F!Nodes \cup {NULL}]
    BY HasFiles
  <1>2. /\ Tables(created, fd_array, pwd, lostRef)
        /\ GoodWith(inode, created, fd_array, pwd, lostRef)
    BY DEF InodeInv
  <1>3. /\ S \in SUBSET F!Fds /\ k \in [F!Fds -> F!Nodes \cup {NULL}]
        /\ \A fd \in F!Fds : k[fd] = IF fd \in S THEN NULL ELSE t[fd]
    BY <1>1, OwnersAssumption DEF F!Fds, F!Kept, F!FilesAssumption
  <1>4. I = F!CloseFds(inode, fd_array[f], S)
    BY <1>1 DEF F!ClosedAll
  <1> HIDE DEF k, S, I, t
  <1>5. Tables(created, U, pwd, lostRef) /\ GoodWith(I, created, U, pwd, lostRef)
    BY <1>1, <1>2, <1>3, <1>4, ClosedTable
  <1>6. U[f] = k
    BY <1>1, <1>2 DEF Tables
  <1>7. ASSUME NEW n \in Regular, NEW fd \in F!Fds, F!IsFirstFree(k, fd)
        PROVE  /\ [k EXCEPT ![fd] = n] \in [F!Fds -> F!Nodes \cup {NULL}]
               /\ Tables(created, [fd_array EXCEPT ![f] = [k EXCEPT ![fd] = n]], pwd, lostRef)
               /\ GoodWith(F!VfsOpen(I, n, FALSE), created,
                           [fd_array EXCEPT ![f] = [k EXCEPT ![fd] = n]], pwd, lostRef)
    <2>1. n \in F!Nodes /\ U[f][fd] = NULL
      BY <1>6, <1>7, Constants DEF FilesConstants, F!IsFirstFree
    <2>2. WithFd(U, f, fd, n) = [fd_array EXCEPT ![f] = [k EXCEPT ![fd] = n]]
      BY <1>1, <1>2, <1>6 DEF WithFd, Tables
    <2>3. [k EXCEPT ![fd] = n] \in [F!Fds -> F!Nodes \cup {NULL}]
      BY <1>3, <2>1
    <2> HIDE DEF U, f
    <2>4. /\ Tables(created, WithFd(U, f, fd, n), pwd, lostRef)
          /\ GoodWith(F!VfsOpen(I, n, FALSE), created, WithFd(U, f, fd, n), pwd, lostRef)
      BY <1>1, <1>5, <2>1, OpenTable
    <2> QED
      BY <2>2, <2>3, <2>4
  <1> QED
    BY <1>3, <1>5, <1>7 DEF k, I, t

\* The counts of an inode are exact whatever was forked, executed, closed or failed,
\* and a file that nobody has open is on the disk as it was left.
THEOREM InodesCorrect == F!Spec => []InodesExact
  <1> DEFINE Both == ResourceInv /\ InodeInv
  <1>1. F!Init => Both
    BY ResourceInit, InodesInit
  <1>2. Both /\ [F!Next]_F!vars => InodeInv'
    <2> SUFFICES ASSUME Both, [F!Next]_F!vars PROVE InodeInv'
      OBVIOUS
    <2>1. ASSUME UNCHANGED <<created, fd_array, pwd, inode, lostRef, stranded>> PROVE InodeInv'
      BY <2>1 DEF InodeInv
    <2>2. CASE UNCHANGED F!vars
      BY <2>1, <2>2 DEF F!vars
    <2>3. ASSUME NEW p \in Owners,
                 \/ \E n \in F!Nodes : F!Open(p, n, FALSE) \/ F!OpenExcl(p, n)
                 \/ \E n \in Regular : F!Open(p, n, TRUE)
                 \/ \E n \in Dirs : F!Chdir(p, n)
                 \/ \E fd \in F!Fds : F!Close(p, fd) \/ F!Grow(p, fd) \/ F!Sync(p, fd)
                 \/ \E fd1, fd2 \in F!Fds : F!Dup(p, fd1, fd2)
          PROVE  InodeInv'
      BY <2>3, FileCalls
    <2>4. ASSUME NEW p \in Owners, NEW n \in Regular, F!Exec(p, n) PROVE InodeInv'
      <3>1. PICK fd \in F!Fds :
              /\ F!IsFirstFree(F!Kept(F!files(p)), fd)
              /\ fd_array' = [fd_array EXCEPT ![filesp[p]] = [F!Kept(F!files(p)) EXCEPT ![fd] = n]]
        BY <2>4 DEF F!Exec
      <3>2. /\ state[p] = "ALIVE" /\ inode' = F!VfsOpen(F!ClosedAll(p), n, FALSE)
            /\ UNCHANGED <<created, pwd, lostRef, stranded>>
        BY <2>4 DEF F!Exec
      <3>3. Tables(created, fd_array', pwd, lostRef)
            /\ GoodWith(F!VfsOpen(F!ClosedAll(p), n, FALSE), created, fd_array', pwd, lostRef)
        BY <3>1, <3>2, ExecTables
      <3> QED
        BY <3>2, <3>3 DEF InodeInv
    <2>5. ASSUME NEW p \in Owners,
                 \/ F!Exit(p) \/ F!ExecNotOpened(p)
                 \/ \E n \in Regular : F!ExecNotLoaded(p, n)
          PROVE  InodeInv'
      <3>1. mm[p] \in BOOLEAN
        BY DEF ResourceInv, ResourceTypes
      <3>2. CASE F!Exit(p)
        <4>1. state[p] = "ALIVE" /\ F!Leave(p, F!files(p), inode, TRUE)
          BY <3>2 DEF F!Exit, F!Running
        <4>2. /\ F!files(p) \in [F!Fds -> F!Nodes \cup {NULL}]
              /\ [fd_array EXCEPT ![filesp[p]] = F!files(p)] = fd_array
          BY <4>1, HasFiles DEF InodeInv, Tables
        <4>3. GoodWith(inode, created, [fd_array EXCEPT ![filesp[p]] = F!files(p)], pwd, lostRef)
          BY <4>2 DEF InodeInv
        <4> QED
          BY <4>1, <4>2, <4>3, LeaveInodes
      <3>3. CASE F!ExecNotOpened(p)
        <4>1. state[p] = "ALIVE" /\ F!Leave(p, F!Kept(F!files(p)), F!ClosedAll(p), mm[p])
          BY <3>3 DEF F!ExecNotOpened
        <4>2. /\ F!Kept(F!files(p)) \in [F!Fds -> F!Nodes \cup {NULL}]
              /\ GoodWith(F!ClosedAll(p), created,
                          [fd_array EXCEPT ![filesp[p]] = F!Kept(F!files(p))], pwd, lostRef)
          BY <4>1, ExecTables
        <4> QED
          BY <3>1, <4>1, <4>2, LeaveInodes
      <3>4. ASSUME NEW n \in Regular, F!ExecNotLoaded(p, n) PROVE InodeInv'
        <4>1. PICK fd \in F!Fds :
                /\ F!IsFirstFree(F!Kept(F!files(p)), fd)
                /\ F!Leave(p, [F!Kept(F!files(p)) EXCEPT ![fd] = n],
                           F!VfsOpen(F!ClosedAll(p), n, FALSE), FALSE)
          BY <3>4 DEF F!ExecNotLoaded
        <4> DEFINE fds == [F!Kept(F!files(p)) EXCEPT ![fd] = n]
        <4>2. state[p] = "ALIVE"
          BY <3>4 DEF F!ExecNotLoaded
        <4>3. /\ fds \in [F!Fds -> F!Nodes \cup {NULL}]
              /\ GoodWith(F!VfsOpen(F!ClosedAll(p), n, FALSE), created,
                          [fd_array EXCEPT ![filesp[p]] = fds], pwd, lostRef)
          BY <4>1, <4>2, ExecTables
        <4>4. F!Leave(p, fds, F!VfsOpen(F!ClosedAll(p), n, FALSE), FALSE)
          BY <4>1
        <4> HIDE DEF fds
        <4> QED
          BY <4>2, <4>3, <4>4, LeaveInodes
      <3> QED
        BY <2>5, <3>2, <3>3, <3>4
    <2>6. ASSUME NEW p \in Owners, NEW c \in Owners, F!Fork(p, c) PROVE InodeInv'
      BY <2>6, ForkInodes
    <2>7. ASSUME NEW p \in Owners, \/ \E i \in 1 .. 4 : F!ForkFails(p, i)
                                   \/ F!Reap(p)
          PROVE  InodeInv'
      BY <2>1, <2>7 DEF F!ForkFails, F!Reap
    <2> QED
      BY <2>2, <2>3, <2>4, <2>5, <2>6, <2>7 DEF F!Next
  <1>3. ResourceInv /\ [F!Next]_F!vars => ResourceInv'
    BY ResourceStep
  <1>4. Both => InodesExact
    <2> SUFFICES ASSUME Both PROVE InodesExact
      OBVIOUS
    <2>1. F!TypeOK
      BY DEF ResourceInv, ResourceTypes, InodeInv, Tables, GoodWith, F!TypeOK
    <2>2. ASSUME NEW n \in F!Nodes
          PROVE  /\ inode[n].open_count
                      = F!Cardinality({e \in created \X F!Fds : fd_array[e[1]][e[2]] = n})
                 /\ inode[n].ref_count = inode[n].open_count
                      + F!Cardinality({f \in created : pwd[f] = n}) + F!Boot(n) + lostRef[n]
                 /\ inode[n].cached <=> inode[n].ref_count > 0
                 /\ inode[n].open_count = 0 => ~inode[n].dirty
                 /\ ~inode[n].dirty => inode[n].size = inode[n].disk
      <3>1. Good(inode[n], Opens(created, fd_array, n), Refs(created, fd_array, pwd, lostRef, n))
        BY DEF InodeInv, GoodWith
      <3>2. /\ F!Cardinality({e \in created \X F!Fds : fd_array[e[1]][e[2]] = n})
                 = Opens(created, fd_array, n)
            /\ F!Cardinality({f \in created : pwd[f] = n}) = Count(pwd, created, n)
        BY SameSets DEF Opens, Count
      <3> QED
        BY <3>1, <3>2 DEF Good, Refs
    <2> QED
      BY <2>1, <2>2 DEF InodesExact, F!InodesExact
  <1> HIDE DEF Both
  <1>5. Both /\ [F!Next]_F!vars => Both'
    BY <1>2, <1>3 DEF Both
  <1> QED
    BY <1>1, <1>4, <1>5, PTL DEF F!Spec
=============================================================================
