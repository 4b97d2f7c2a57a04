-------------------------- MODULE ShmTransferProofs --------------------------
(***************************************************************************)
(* Proofs about ShmTransfer, for any number of writers and readers, any    *)
(* set of executions that may be killed and any length of the file: first  *)
(* the types and who is active, then the sessions, that is, who may be in  *)
(* a pair with whom, where the page token is, and what the end of one      *)
(* member means to the other. Last, one writer and one reader implement    *)
(* PageChannel (ShmChannel), with both killed, stopped or continued at any *)
(* point.                                                                  *)
(***************************************************************************)
EXTENDS ShmChannel, SequenceTheorems, TLAPS

-----------------------------------------------------------------------------
\* Type correctness

SembufsType ==
  [zero : SUBSET Sems, atLeast : [Sems -> Nat], add : [Sems -> Int],
   undo : SUBSET Sems, nowait : BOOLEAN]

\* Every summary of an array of common.c is one.
LEMMA SummaryTypes ==
  /\ sem_wr_start \in SembufsType /\ sem_rd_start \in SembufsType
  /\ sem_wait_pair \in SembufsType
  /\ sem_wr_init \in SembufsType /\ sem_rd_init \in SembufsType
  /\ sem_wr_wait_rd \in SembufsType /\ sem_rd_wait_wr \in SembufsType
  /\ sem_wr_finish \in SembufsType
  /\ sem_p_empty \in SembufsType /\ sem_v_empty \in SembufsType
  /\ sem_p_mutex \in SembufsType /\ sem_v_mutex \in SembufsType
  /\ sem_p_full \in SembufsType /\ sem_v_full \in SembufsType
  /\ sem_rd_check_wr_alive \in SembufsType /\ sem_wr_check_rd_alive \in SembufsType
<1> USE DEF SembufsType, Sembufs, NoSems, Sems, P, V
<1>1. sem_wr_start \in SembufsType /\ sem_rd_start \in SembufsType
  BY DEF sem_wr_start, sem_rd_start
<1>2. sem_wait_pair \in SembufsType
  BY DEF sem_wait_pair
<1>3. sem_wr_init \in SembufsType /\ sem_rd_init \in SembufsType
  BY DEF sem_wr_init, sem_rd_init
<1>4. sem_wr_wait_rd \in SembufsType /\ sem_rd_wait_wr \in SembufsType
  BY DEF sem_wr_wait_rd, sem_rd_wait_wr
<1>5. sem_wr_finish \in SembufsType /\ sem_p_empty \in SembufsType /\ sem_v_empty \in SembufsType
  BY DEF sem_wr_finish, sem_p_empty, sem_v_empty
<1>6. sem_p_mutex \in SembufsType /\ sem_v_mutex \in SembufsType
  BY DEF sem_p_mutex, sem_v_mutex
<1>7. sem_p_full \in SembufsType /\ sem_v_full \in SembufsType
  BY DEF sem_p_full, sem_v_full
<1>8. sem_rd_check_wr_alive \in SembufsType /\ sem_wr_check_rd_alive \in SembufsType
  BY DEF sem_rd_check_wr_alive, sem_wr_check_rd_alive
<1> QED BY <1>1, <1>2, <1>3, <1>4, <1>5, <1>6, <1>7, <1>8

\* A process past its first calls has a segment identifier, and the chunk a
\* writer puts was read: what get_item and put_item rely on.
Located ==
  /\ \A p \in Procs :
       pc[p] \notin {"make_file", "shmget", "exit", "dead"} => shmid[p] \in 1 .. Len(segs)
  /\ \A w \in Writers : pc[w] = "put_item" => fpos[w] \in 1 .. Chunks

TypeInv == TypeOK /\ Located

\* Every process stays in its own program.
LabelsOK ==
  /\ pc \in [Procs -> WrLabels \cup RdLabels]
  /\ \A w \in Writers : pc[w] \in WrLabels
  /\ \A r \in Readers : pc[r] \in RdLabels

LEMMA LabelStep ==
  ASSUME TypeInv, NEW p \in Procs, NEW there,
         there \in IF p \in Writers THEN WrLabels ELSE RdLabels, Goto(p, there)
  PROVE  LabelsOK'
BY ShmAssumption DEF TypeInv, TypeOK, LabelsOK, Goto, Procs

\* p goes on at a label of its own program at which its segment is as known as
\* before, and not at put_item.
GoesTo(p, there) ==
  /\ there \in IF p \in Writers THEN WrLabels \ {"put_item"} ELSE RdLabels
  /\ \/ there \in {"exit", "dead"}
     \/ pc[p] \notin {"make_file", "shmget", "exit", "dead"}

\* How a step of p that changes its label and nothing but semaphores, segments'
\* attachments or files keeps the part of the invariant that is about labels.
LEMMA GotoType ==
  ASSUME TypeInv, NEW p \in Procs, NEW there, GoesTo(p, there), Goto(p, there),
         UNCHANGED <<segs, shmid, fpos>>
  PROVE  LabelsOK' /\ Located'
<1>1. LabelsOK'
  BY LabelStep DEF GoesTo
<1>2. Located'
  BY ShmAssumption DEF TypeInv, TypeOK, LabelsOK, Located, GoesTo, Goto, Procs, WrLabels, RdLabels
<1> QED BY <1>1, <1>2

\* semop() keeps the types.
LEMMA SemopType ==
  ASSUME TypeInv, NEW p \in Procs, NEW op \in SembufsType, NEW ok, NEW fail,
         GoesTo(p, ok), GoesTo(p, fail), semop(p, op, ok, fail)
  PROVE  TypeInv'
<1>1. LabelsOK' /\ Located'
  BY GotoType DEF semop, shmVars, ioVars
<1>2. semval' \in [Sems -> Nat] /\ semadj' \in [Procs -> [Sems -> Int]]
  <2>1. CASE UNCHANGED <<semval, semadj>>
    BY <2>1 DEF TypeInv, TypeOK, LabelsOK
  <2>2. CASE /\ Ready(op, semval)
             /\ semval' = Performed(op, semval)
             /\ semadj' = [semadj EXCEPT ![p] = Account(op, @)]
    <3>1. op.add \in [Sems -> Int] /\ op.undo \subseteq Sems
      BY DEF SembufsType
    <3>2. Performed(op, semval) \in [Sems -> Nat]
      BY <2>2, <3>1 DEF Performed, Ready, TypeInv, TypeOK, LabelsOK
    <3>3. Account(op, semadj[p]) \in [Sems -> Int]
      BY <3>1 DEF Account, TypeInv, TypeOK, LabelsOK
    <3> QED BY <2>2, <3>2, <3>3 DEF TypeInv, TypeOK, LabelsOK
  <2> QED BY <2>1, <2>2 DEF semop
<1> QED BY <1>1, <1>2 DEF TypeInv, TypeOK, LabelsOK, semop, shmVars, ioVars

\* semctl(SETVAL) keeps the types.
LEMMA SetvalType ==
  ASSUME TypeInv, NEW p \in Procs, NEW x \in Sems, NEW n \in Nat, NEW ok,
         GoesTo(p, ok), GoesTo(p, "exit"), setval(p, x, n, ok)
  PROVE  TypeInv'
<1>1. LabelsOK' /\ Located'
  BY GotoType DEF setval, shmVars, ioVars
<1>2. semval' \in [Sems -> Nat]
  BY DEF setval, TypeInv, TypeOK, LabelsOK
<1>3. semadj' \in [Procs -> [Sems -> Int]]
  <2>1. \A q \in Procs : [semadj[q] EXCEPT ![x] = 0] \in [Sems -> Int]
    BY DEF TypeInv, TypeOK, LabelsOK
  <2> QED BY <2>1 DEF setval, TypeInv, TypeOK, LabelsOK
<1> QED BY <1>1, <1>2, <1>3 DEF TypeInv, TypeOK, LabelsOK, setval, shmVars, ioVars

\* The end of a process keeps the types: no value falls below 0.
LEMMA TerminateType ==
  ASSUME TypeInv, NEW p \in Procs, terminate(p)
  PROVE  TypeInv'
<1>1. LabelsOK' /\ Located'
  BY GotoType DEF terminate, GoesTo, WrLabels, RdLabels, ioVars
<1>2. semval' \in [Sems -> Nat]
  BY DEF terminate, Undone, TypeInv, TypeOK, LabelsOK
<1>3. semadj' \in [Procs -> [Sems -> Int]] /\ att' \subseteq Procs
  BY DEF terminate, NoSems, TypeInv, TypeOK, LabelsOK
<1> QED BY <1>1, <1>2, <1>3 DEF TypeInv, TypeOK, LabelsOK, terminate, ioVars

\* The calls that both programs make.
LEMMA CommonType ==
  ASSUME TypeInv, NEW p \in Procs,
         shmget(p) \/ shmat(p) \/ semget(p) \/ shmdt(p) \/ exit(p) \/ kill(p)
  PROVE  TypeInv'
<1>1. CASE shmget(p)
  <2>1. CASE shmkey = 0
    <3>1. /\ segs' \in Seq(Chunk \cup {Blank}) /\ Len(segs') = Len(segs) + 1
          /\ shmkey' = Len(segs')
      <4>1. Blank \in Chunk \cup {Blank} /\ segs \in Seq(Chunk \cup {Blank})
        BY DEF TypeInv, TypeOK, LabelsOK
      <4> QED BY <1>1, <2>1, <4>1, AppendProperties DEF shmget
    <3> QED BY <1>1, <3>1, ShmAssumption
        DEF shmget, Goto, At, TypeInv, TypeOK, LabelsOK, Located, semVars, ioVars, Procs, WrLabels, RdLabels
  <2>2. CASE shmkey # 0
    BY <1>1, <2>2, ShmAssumption
       DEF shmget, Goto, At, TypeInv, TypeOK, LabelsOK, Located, semVars, ioVars, Procs, WrLabels, RdLabels
  <2> QED BY <2>1, <2>2
<1>2. CASE shmat(p)
  BY <1>2, GotoType DEF shmat, At, GoesTo, TypeInv, TypeOK, LabelsOK, semVars, ioVars, WrLabels, RdLabels
<1>3. CASE semget(p)
  <2>1. LabelsOK' /\ Located'
    BY <1>3, GotoType DEF semget, At, GoesTo, shmVars, ioVars, WrLabels, RdLabels
  <2>2. nsem' \in Nat /\ semkey' \in 0 .. nsem' /\ semval' \in [Sems -> Nat] /\ nsem <= nsem'
    BY <1>3 DEF semget, NoSems, TypeInv, TypeOK, LabelsOK
  <2>3. semid' \in [Procs -> 0 .. nsem']
    BY <1>3, <2>2 DEF semget, TypeInv, TypeOK, LabelsOK
  <2> QED BY <1>3, <2>1, <2>2, <2>3 DEF semget, TypeInv, TypeOK, LabelsOK, shmVars, ioVars
<1>4. CASE shmdt(p)
  BY <1>4, GotoType
     DEF shmdt, At, GoesTo, TypeInv, TypeOK, LabelsOK, semVars, ioVars, WrLabels, RdLabels, WrActive, RdActive
<1>5. CASE exit(p) \/ kill(p)
  BY <1>5, TerminateType DEF exit, kill
<1> QED BY <1>1, <1>2, <1>3, <1>4, <1>5

LEMMA WriterType ==
  ASSUME TypeInv, NEW w \in Writers, Writer(w)
  PROVE  TypeInv'
<1> USE DEF At, GoesTo, Procs, WrLabels, WrActive, WrInit, WrLoop
<1>1. CASE make_file(w)
  <2>1. LabelsOK'
    BY <1>1, LabelStep DEF make_file
  <2>2. Located'
    BY <1>1 DEF make_file, Goto, TypeInv, TypeOK, LabelsOK, Located, shmVars, ioVars
  <2> QED BY <1>1, <2>1, <2>2 DEF make_file, TypeInv, TypeOK, LabelsOK, semVars, shmVars, ioVars
<1>2. CASE shmget(w) \/ shmat(w) \/ semget(w) \/ shmdt(w) \/ exit(w)
  BY <1>2, CommonType
<1>3. CASE wr_start(w) \/ wr_wait_pair(w) \/ wr_init(w) \/ wr_wait_rd(w)
  BY <1>3, SemopType, SummaryTypes DEF wr_start, wr_wait_pair, wr_init, wr_wait_rd
<1>4. CASE set_finish(w) \/ set_mutex(w) \/ set_full(w)
  BY <1>4, SetvalType DEF set_finish, set_mutex, set_full, Sems
<1>5. CASE p_empty(w) \/ wr_p_mutex(w) \/ wr_check_alive(w)
  BY <1>5, SemopType, SummaryTypes DEF p_empty, wr_p_mutex, wr_check_alive
<1>6. CASE finish(w) \/ wr_v_mutex(w) \/ v_full(w)
  BY <1>6, SemopType, SummaryTypes DEF finish, wr_v_mutex, v_full
<1>7. CASE produce_item(w)
  <2>1. LabelsOK'
    BY <1>7, LabelStep DEF produce_item
  <2>2. /\ fpos' \in [Writers -> 0 .. Chunks]
        /\ file' \in [Writers -> {"more", "eof", "error"}]
    <3>1. fpos[w] \in 0 .. Chunks /\ Chunks \in Nat
      BY ShmAssumption DEF TypeInv, TypeOK
    <3>2. fpos[w] < Chunks => fpos[w] + 1 \in 0 .. Chunks
      BY <3>1
    <3>3. fpos' \in [Writers -> 0 .. Chunks]
      BY <1>7, <3>2 DEF produce_item, TypeInv, TypeOK
    <3>4. file' \in [Writers -> {"more", "eof", "error"}]
      BY <1>7 DEF produce_item, TypeInv, TypeOK
    <3> QED BY <3>3, <3>4
  <2>3. pc'[w] = "put_item" => fpos'[w] \in 1 .. Chunks
    BY <1>7, <2>2 DEF produce_item, Goto, TypeInv, TypeOK
  <2>4. Located'
    BY <1>7, <2>3 DEF produce_item, Goto, TypeInv, TypeOK, Located, shmVars
  <2> QED BY <1>7, <2>1, <2>2, <2>4 DEF produce_item, TypeInv, TypeOK, LabelsOK, semVars, shmVars
<1>8. CASE put_item(w)
  <2>1. <<w, fpos[w]>> \in Chunk \cup {Blank}
    BY <1>8 DEF put_item, TypeInv, TypeOK, LabelsOK, Located, Chunk
  <2>2. segs' \in Seq(Chunk \cup {Blank}) /\ Len(segs') = Len(segs)
    <3>1. segs \in Seq(Chunk \cup {Blank}) /\ shmid[w] \in 1 .. Len(segs)
      BY <1>8 DEF put_item, TypeInv, TypeOK, LabelsOK, Located
    <3> QED BY <1>8, <2>1, <3>1, ExceptSeq DEF put_item
  <2>3. LabelsOK'
    BY <1>8, LabelStep DEF put_item
  <2>4. Located'
    BY <1>8, <2>2 DEF put_item, Goto, TypeInv, TypeOK, LabelsOK, Located, ioVars
  <2> QED BY <1>8, <2>2, <2>3, <2>4 DEF put_item, TypeInv, TypeOK, LabelsOK, semVars, ioVars
<1>9. CASE shmrm(w)
  <2>1. LabelsOK' /\ Located'
    BY <1>9, GotoType DEF shmrm, ioVars
  <2> QED BY <1>9, <2>1 DEF shmrm, TypeInv, TypeOK, LabelsOK, semVars, ioVars
<1> QED BY <1>1, <1>2, <1>3, <1>4, <1>5, <1>6, <1>7, <1>8, <1>9 DEF Writer

LEMMA ReaderType ==
  ASSUME TypeInv, NEW r \in Readers, Reader(r)
  PROVE  TypeInv'
<1> USE ShmAssumption DEF At, GoesTo, Procs, RdLabels, RdActive, RdInit, RdLoop
<1>1. CASE shmget(r) \/ shmat(r) \/ semget(r) \/ shmdt(r) \/ exit(r)
  BY <1>1, CommonType
<1>2. CASE rd_start(r) \/ rd_wait_pair(r) \/ rd_init(r) \/ rd_wait_wr(r)
  BY <1>2, SemopType, SummaryTypes DEF rd_start, rd_wait_pair, rd_init, rd_wait_wr
<1>3. CASE set_empty(r)
  BY <1>3, SetvalType DEF set_empty, Sems
<1>4. CASE p_full(r) \/ rd_p_mutex(r) \/ rd_check_alive(r)
  BY <1>4, SemopType, SummaryTypes DEF p_full, rd_p_mutex, rd_check_alive
<1>5. CASE rd_v_mutex(r) \/ v_empty(r)
  BY <1>5, SemopType, SummaryTypes DEF rd_v_mutex, v_empty
<1>6. CASE get_item(r)
  <2>1. shmid[r] \in 1 .. Len(segs)
    BY <1>6 DEF get_item, TypeInv, Located
  <2>2. segs[shmid[r]] \in Chunk \cup {Blank}
    BY <2>1 DEF TypeInv, TypeOK, LabelsOK
  <2>3. out' \in [Readers -> Seq(Chunk)]
    BY <1>6, <2>2 DEF get_item, TypeInv, TypeOK, LabelsOK
  <2> QED BY <1>6, <2>3, GotoType DEF get_item, TypeInv, TypeOK, LabelsOK, semVars, shmVars
<1>7. CASE semrm(r)
  <2>1. LabelsOK' /\ Located'
    BY <1>7, GotoType DEF semrm, shmVars, ioVars
  <2>2. semval' \in [Sems -> Nat] /\ semadj' \in [Procs -> [Sems -> Int]] /\ semkey' \in 0 .. nsem
    <3>1. NoSems \in [Sems -> Nat] /\ NoSems \in [Sems -> Int] /\ 0 \in 0 .. nsem
      BY DEF NoSems, TypeInv, TypeOK
    <3>2. semval' \in [Sems -> Nat]
      BY <1>7, <3>1 DEF semrm, TypeInv, TypeOK
    <3>3. semadj' \in [Procs -> [Sems -> Int]]
      <4>1. semadj' = semadj \/ semadj' = [q \in Procs |-> NoSems]
        BY <1>7 DEF semrm
      <4> QED BY <3>1, <4>1 DEF TypeInv, TypeOK
    <3>4. semkey' \in 0 .. nsem
      BY <1>7, <3>1 DEF semrm, TypeInv, TypeOK
    <3> QED BY <3>2, <3>3, <3>4
  <2> QED BY <1>7, <2>1, <2>2 DEF semrm, TypeInv, TypeOK, LabelsOK, shmVars, ioVars
<1> QED BY <1>1, <1>2, <1>3, <1>4, <1>5, <1>6, <1>7 DEF Reader

\* Where a process may sleep in semop().
LEMMA SleepLabels ==
  DOMAIN SleepsOn = {"wr_start", "rd_start", "wait_pair", "wr_init", "rd_init", "wr_wait_rd",
                     "rd_wait_wr", "p_empty", "p_full", "p_mutex"}
BY DEF SleepsOn

\* An interrupted semop() changes no more than the label.
LEMMA InterruptType ==
  ASSUME TypeInv, NEW p \in Procs, interrupt(p)
  PROVE  TypeInv'
<1>1. PICK there \in {"shmdt", "exit"} : Goto(p, there)
  BY DEF interrupt
<1>2. GoesTo(p, there)
  BY <1>1, SleepLabels DEF interrupt, GoesTo, WrLabels, RdLabels, WrActive, RdActive
<1>3. UNCHANGED <<semVars, shmVars, ioVars>>
  BY DEF interrupt
<1>4. LabelsOK' /\ Located'
  BY <1>1, <1>2, <1>3, GotoType DEF shmVars, ioVars
<1> QED BY <1>3, <1>4 DEF TypeInv, TypeOK, LabelsOK, semVars, shmVars, ioVars

LEMMA TypeStep == TypeInv /\ [Next]_vars => TypeInv'
<1> SUFFICES ASSUME TypeInv, [Next]_vars PROVE TypeInv'
  OBVIOUS
<1>1. CASE UNCHANGED vars
  BY <1>1 DEF vars, TypeInv, TypeOK, LabelsOK, Located
<1>2. CASE \E w \in Writers : Writer(w)
  BY <1>2, WriterType
<1>3. CASE \E r \in Readers : Reader(r)
  BY <1>3, ReaderType
<1>4. CASE \E p \in Procs : kill(p)
  BY <1>4, CommonType
<1>5. CASE \E p \in Procs : interrupt(p)
  BY <1>5, InterruptType
<1> QED BY <1>1, <1>2, <1>3, <1>4, <1>5 DEF Next

LEMMA TypeInit == Init => TypeInv
BY ShmAssumption
   DEF Init, TypeInv, TypeOK, Located, NoSems, Procs, WrLabels, RdLabels

\* Every variable keeps its type: in particular no semaphore value is negative,
\* every process stays in its own program and a reader prints chunks only.
THEOREM TypeCorrect == Spec => []TypeOK
<1>1. TypeInv => TypeOK
  BY DEF TypeInv
<1> QED BY <1>1, TypeInit, TypeStep, PTL DEF Spec

-----------------------------------------------------------------------------
\* At most one active process per role, and the count of the pair

\* The semaphore that a process raises when it becomes the active process of
\* its role, and how much of its value is in the process's account.
Own(p) == IF p \in Writers THEN "WRITER" ELSE "READER"
Other(p) == IF p \in Writers THEN "READER" ELSE "WRITER"
Held(p) == -semadj[p][Own(p)]

\* Before its start, and after its end, a process has an empty account; it then
\* holds 1 until its initialisation is complete and 2 from then on.
Outside == {"make_file", "shmget", "shmat", "semget", "wr_start", "rd_start", "dead"}
Initialising == WrInit \cup RdInit
Waiting == {"wr_wait_rd", "rd_wait_wr"}
Transferring == WrLoop \cup RdLoop \cup {"shmdt", "shmrm", "semrm"}

\* What relates the SEM_UNDO accounts to labels and to semaphore values.
AccountsOK ==
  /\ \A p \in Procs : ~Live(p) \/ pc[p] \in Outside => semadj[p] = NoSems
  /\ \A p \in Procs : semadj[p][Other(p)] = 0 /\ Held(p) \in 0 .. 2
  /\ \A p \in Procs : Live(p) /\ pc[p] \in Initialising => Held(p) = 1
  /\ \A p \in Procs : Live(p) /\ pc[p] \in Waiting \cup Transferring => Held(p) = 2
  /\ \A p \in Procs : semadj[p]["PAIR"] \in {-1, 0}
  /\ \A p \in Procs : Paired(p) => Held(p) = 2 /\ pc[p] \notin Initialising \cup Waiting

\* A role's semaphore is worth exactly what its one holder has in its account, and
\* nothing when there is no holder.
OneHolder ==
  /\ \A p \in Procs : Held(p) # 0 => semval[Own(p)] = Held(p)
  /\ \A p, q \in Procs : Own(p) = Own(q) /\ Held(p) # 0 /\ Held(q) # 0 => p = q
  /\ \A x \in {"WRITER", "READER"} : semval[x] # 0 =>
       \E p \in Procs : Own(p) = x /\ Held(p) # 0

ActiveInv == AccountsOK /\ OneHolder /\ PairCount

\* The semaphores that ActiveInv speaks of.
RoleSems == {"WRITER", "READER", "PAIR"}

\* Labels that ActiveInv does not tell apart.
SamePhase(here, there) ==
  \/ there = "exit"
  \/ here \in Outside /\ there \in Outside
  \/ here \in Initialising /\ there \in Initialising
  \/ here \in Waiting \cup Transferring /\ there \in Transferring

\* A step that leaves the role semaphores alone.
Quiet(p, there) ==
  /\ Goto(p, there) /\ SamePhase(pc[p], there)
  /\ UNCHANGED <<semkey, semid>>
  /\ \A x \in RoleSems : semval'[x] = semval[x]
  /\ \A q \in Procs : /\ \A x \in RoleSems : semadj'[q][x] = semadj[q][x]
                      /\ semadj[q] = NoSems => semadj'[q] = NoSems

LEMMA QuietStep ==
  ASSUME TypeInv, ActiveInv, NEW p \in Procs, NEW there, Quiet(p, there),
         there # "dead"
  PROVE  ActiveInv'
<1> USE DEF RoleSems, Quiet
<1>1. \A q \in Procs : Own(q) \in RoleSems /\ Other(q) \in RoleSems
  BY DEF Own, Other
<1>2. \A q \in Procs : /\ Held(q)' = Held(q) /\ (Paired(q)' <=> Paired(q)) /\ (Live(q)' <=> Live(q))
                       /\ semadj'[q][Other(q)] = semadj[q][Other(q)]
                       /\ semval'[Own(q)] = semval[Own(q)]
  BY <1>1 DEF Held, Paired, Live, Own
<1>3. \A q \in Procs : pc'[q] = IF q = p THEN there ELSE pc[q]
  BY DEF Goto, TypeInv, TypeOK
<1>4. AccountsOK'
  <2> USE DEF SamePhase, Outside, Initialising, Transferring, Waiting, WrInit, RdInit, WrLoop, RdLoop
  <2>1. \A q \in Procs : ~Live(q)' \/ pc'[q] \in Outside => semadj'[q] = NoSems
    BY <1>2, <1>3 DEF ActiveInv, AccountsOK
  <2>2. \A q \in Procs : semadj'[q][Other(q)] = 0 /\ Held(q)' \in 0 .. 2
    BY <1>2 DEF ActiveInv, AccountsOK
  <2>3. \A q \in Procs : Live(q)' /\ pc'[q] \in Initialising => Held(q)' = 1
    BY <1>2, <1>3 DEF ActiveInv, AccountsOK
  <2>4. \A q \in Procs : Live(q)' /\ pc'[q] \in Waiting \cup Transferring => Held(q)' = 2
    BY <1>2, <1>3 DEF ActiveInv, AccountsOK
  <2>5. \A q \in Procs : semadj'[q]["PAIR"] \in {-1, 0}
    BY DEF ActiveInv, AccountsOK
  <2>6. \A q \in Procs : Paired(q)' => Held(q)' = 2 /\ pc'[q] \notin Initialising \cup Waiting
    BY <1>2, <1>3 DEF ActiveInv, AccountsOK
  <2> QED BY <2>1, <2>2, <2>3, <2>4, <2>5, <2>6 DEF AccountsOK, Other
<1>5. OneHolder'
  <2>1. \A q \in Procs : Held(q)' # 0 => semval'[Own(q)] = Held(q)'
    BY <1>2 DEF ActiveInv, OneHolder
  <2>2. \A q, r \in Procs : Own(q) = Own(r) /\ Held(q)' # 0 /\ Held(r)' # 0 => q = r
    BY <1>2 DEF ActiveInv, OneHolder
  <2>3. \A x \in {"WRITER", "READER"} : semval'[x] # 0 =>
          \E q \in Procs : Own(q) = x /\ Held(q)' # 0
    BY <1>2 DEF ActiveInv, OneHolder
  <2> QED BY <2>1, <2>2, <2>3 DEF OneHolder, Own
<1>6. PairCount'
  BY <1>2 DEF ActiveInv, PairCount, Procs
<1> QED BY <1>4, <1>5, <1>6 DEF ActiveInv

\* What a successful semop() of p does to the role semaphores: value d more, and
\* d less in the account, of semaphore x and of no other.
Raises(p, x, d) ==
  /\ semval'[x] = semval[x] + d
  /\ \A y \in RoleSems \ {x} : semval'[y] = semval[y]
  /\ semadj'[p][x] = semadj[p][x] - d
  /\ \A y \in RoleSems \ {x} : semadj'[p][y] = semadj[p][y]
  /\ \A q \in Procs \ {p} : semadj'[q] = semadj[q]
  /\ UNCHANGED <<semkey, semid>>

\* A process becomes the active one of its role while the role is free, or it
\* completes its initialisation.
LEMMA RaiseOwnStep ==
  ASSUME TypeInv, ActiveInv, NEW p \in Procs, NEW there, Live(p),
         Raises(p, Own(p), 1), Goto(p, there),
         \/ pc[p] \in Outside /\ semval[Own(p)] = 0 /\ there \in Initialising
         \/ pc[p] \in Initialising /\ there \in Waiting
  PROVE  ActiveInv'
<1> USE DEF RoleSems
<1>1. \A q \in Procs : /\ Own(q) \in RoleSems /\ Other(q) \in RoleSems
                       /\ Own(q) # Other(q) /\ Own(q) # "PAIR" /\ Other(q) # "PAIR"
  BY DEF Own, Other
<1>2. /\ \A q \in Procs : (Live(q)' <=> Live(q)) /\ (Paired(q)' <=> Paired(q))
      /\ semval'["PAIR"] = semval["PAIR"]
  BY <1>1 DEF Live, Paired, Raises
<1>3. \A q \in Procs : pc'[q] = IF q = p THEN there ELSE pc[q]
  BY DEF Goto, TypeInv, TypeOK
<1>4. /\ \A q \in Procs : Held(q) \in Int
      /\ Held(p)' = Held(p) + 1
      /\ \A q \in Procs \ {p} : Held(q)' = Held(q) /\ semadj'[q] = semadj[q]
      /\ semadj'[p][Other(p)] = semadj[p][Other(p)]
  <2>1. \A q \in Procs : Own(q) \in Sems /\ Held(q) \in Int
    <3>1. \A q \in Procs : Own(q) \in Sems
      BY DEF Own, Sems
    <3> QED BY <3>1 DEF Held, TypeInv, TypeOK
  <2>2. \A q \in Procs : Held(q)' = -semadj'[q][Own(q)]
    BY DEF Held, Own
  <2>3. semadj[p][Own(p)] \in Int
    BY <2>1 DEF TypeInv, TypeOK
  <2> QED BY <2>1, <2>2, <2>3, <1>1 DEF Held, Raises
<1>5. /\ pc[p] \in Outside => Held(p) = 0
      /\ pc[p] \in Initialising => Held(p) = 1
      /\ pc[p] \in Outside \cup Initialising => ~Paired(p)
  BY <1>1 DEF ActiveInv, AccountsOK, NoSems, Held, Own, Sems, Paired
<1>6. \A q \in Procs \ {p} : Own(q) = Own(p) => Held(q) = 0
  <2>1. CASE pc[p] \in Outside
    BY <2>1, <1>4 DEF ActiveInv, OneHolder, Initialising, WrInit, RdInit, Outside
  <2>2. CASE pc[p] \in Initialising
    BY <2>2, <1>5 DEF ActiveInv, OneHolder
  <2> QED BY <2>1, <2>2
<1>7. AccountsOK'
  <2> USE DEF Outside, Initialising, Transferring, Waiting, WrInit, RdInit, WrLoop, RdLoop
  <2>1. \A q \in Procs : ~Live(q)' \/ pc'[q] \in Outside => semadj'[q] = NoSems
    BY <1>2, <1>3, <1>4 DEF ActiveInv, AccountsOK
  <2>2. \A q \in Procs : semadj'[q][Other(q)] = 0 /\ Held(q)' \in 0 .. 2
    BY <1>4, <1>5 DEF ActiveInv, AccountsOK
  <2>3. \A q \in Procs : Live(q)' /\ pc'[q] \in Initialising => Held(q)' = 1
    BY <1>2, <1>3, <1>4, <1>5 DEF ActiveInv, AccountsOK
  <2>4. \A q \in Procs : Live(q)' /\ pc'[q] \in Waiting \cup Transferring => Held(q)' = 2
    BY <1>2, <1>3, <1>4, <1>5 DEF ActiveInv, AccountsOK
  <2>5. \A q \in Procs : semadj'[q]["PAIR"] \in {-1, 0}
    BY <1>1 DEF ActiveInv, AccountsOK, Raises
  <2>6. \A q \in Procs : Paired(q)' => Held(q)' = 2 /\ pc'[q] \notin Initialising \cup Waiting
    BY <1>2, <1>3, <1>4, <1>5 DEF ActiveInv, AccountsOK
  <2> QED BY <2>1, <2>2, <2>3, <2>4, <2>5, <2>6 DEF AccountsOK, Other
<1>8. OneHolder'
  <2>1. \A q \in Procs : Held(q)' # 0 => semval'[Own(q)] = Held(q)'
    <3>1. semval'[Own(p)] = Held(p)'
      <4>1. semval[Own(p)] = Held(p)
        BY <1>5 DEF ActiveInv, OneHolder
      <4> QED BY <4>1, <1>4 DEF Raises
    <3>2. \A q \in Procs \ {p} : Own(q) # Own(p) => semval'[Own(q)] = semval[Own(q)]
      BY <1>1 DEF Raises
    <3> QED BY <3>1, <3>2, <1>4, <1>6 DEF ActiveInv, OneHolder
  <2>2. \A q, r \in Procs : Own(q) = Own(r) /\ Held(q)' # 0 /\ Held(r)' # 0 => q = r
    BY <1>4, <1>6 DEF ActiveInv, OneHolder
  <2>3. \A x \in {"WRITER", "READER"} : semval'[x] # 0 =>
          \E q \in Procs : Own(q) = x /\ Held(q)' # 0
    <3>1. Held(p)' # 0
      BY <1>4, <1>5
    <3>2. \A x \in {"WRITER", "READER"} \ {Own(p)} : semval'[x] = semval[x]
      BY DEF Raises
    <3> QED BY <3>1, <3>2, <1>4 DEF ActiveInv, OneHolder
  <2> QED BY <2>1, <2>2, <2>3 DEF OneHolder, Own
<1>9. PairCount'
  BY <1>2 DEF ActiveInv, PairCount, Procs
<1> QED BY <1>7, <1>8, <1>9 DEF ActiveInv

\* A process joins the pair: nobody else of its role is in it.
LEMMA JoinPairStep ==
  ASSUME TypeInv, ActiveInv, NEW p \in Procs, NEW there, Live(p),
         Raises(p, "PAIR", 1), Goto(p, there),
         pc[p] \in Waiting, there \in Transferring
  PROVE  ActiveInv'
<1> USE DEF RoleSems
<1>1. \A q \in Procs : /\ Own(q) \in RoleSems /\ Other(q) \in RoleSems
                       /\ Own(q) # "PAIR" /\ Other(q) # "PAIR"
  BY DEF Own, Other
<1>2. \A q \in Procs : /\ (Live(q)' <=> Live(q)) /\ Held(q)' = Held(q)
                       /\ semadj'[q][Other(q)] = semadj[q][Other(q)]
                       /\ semval'[Own(q)] = semval[Own(q)]
  BY <1>1 DEF Live, Held, Raises, Own
<1>3. \A q \in Procs : pc'[q] = IF q = p THEN there ELSE pc[q]
  BY DEF Goto, TypeInv, TypeOK
<1>4. Held(p) = 2 /\ ~Paired(p) /\ Paired(p)'
  BY DEF ActiveInv, AccountsOK, Paired, Raises
<1>5. \A q \in Procs \ {p} : (Paired(q)' <=> Paired(q)) /\ semadj'[q] = semadj[q]
  BY DEF Paired, Raises
<1>6. \A q \in Procs : Own(q) = Own(p) => ~Paired(q)
  BY <1>4 DEF ActiveInv, AccountsOK, OneHolder
<1>7. AccountsOK'
  <2> USE DEF Outside, Initialising, Transferring, Waiting, WrInit, RdInit, WrLoop, RdLoop
  <2>1. \A q \in Procs : ~Live(q)' \/ pc'[q] \in Outside => semadj'[q] = NoSems
    BY <1>2, <1>3, <1>5 DEF ActiveInv, AccountsOK
  <2>2. \A q \in Procs : semadj'[q][Other(q)] = 0 /\ Held(q)' \in 0 .. 2
    BY <1>2 DEF ActiveInv, AccountsOK
  <2>3. \A q \in Procs : Live(q)' /\ pc'[q] \in Initialising => Held(q)' = 1
    BY <1>2, <1>3 DEF ActiveInv, AccountsOK
  <2>4. \A q \in Procs : Live(q)' /\ pc'[q] \in Waiting \cup Transferring => Held(q)' = 2
    BY <1>2, <1>3 DEF ActiveInv, AccountsOK
  <2>5. \A q \in Procs : semadj'[q]["PAIR"] \in {-1, 0}
    BY <1>4, <1>5 DEF ActiveInv, AccountsOK, Paired
  <2>6. \A q \in Procs : Paired(q)' => Held(q)' = 2 /\ pc'[q] \notin Initialising \cup Waiting
    BY <1>2, <1>3, <1>4, <1>5 DEF ActiveInv, AccountsOK
  <2> QED BY <2>1, <2>2, <2>3, <2>4, <2>5, <2>6 DEF AccountsOK, Other
<1>8. OneHolder'
  <2>1. \A q \in Procs : Held(q)' # 0 => semval'[Own(q)] = Held(q)'
    BY <1>2 DEF ActiveInv, OneHolder
  <2>2. \A q, r \in Procs : Own(q) = Own(r) /\ Held(q)' # 0 /\ Held(r)' # 0 => q = r
    BY <1>2 DEF ActiveInv, OneHolder
  <2>3. \A x \in {"WRITER", "READER"} : semval'[x] # 0 =>
          \E q \in Procs : Own(q) = x /\ Held(q)' # 0
    BY <1>2 DEF ActiveInv, OneHolder, Raises
  <2> QED BY <2>1, <2>2, <2>3 DEF OneHolder, Own
<1>9. PairCount'
  <2>1. semval'["PAIR"] = semval["PAIR"] + 1
    BY DEF Raises
  <2>2. CASE p \in Writers
    <3>1. /\ ~\E w \in Writers : Paired(w)
          /\ \E w \in Writers : Paired(w)'
          /\ \A r \in Readers : (Paired(r)' <=> Paired(r))
      BY <2>2, <1>4, <1>5, <1>6, ShmAssumption DEF Own, Procs
    <3> QED BY <2>1, <3>1 DEF ActiveInv, PairCount
  <2>3. CASE p \in Readers
    <3>1. /\ ~\E r \in Readers : Paired(r)
          /\ \E r \in Readers : Paired(r)'
          /\ \A w \in Writers : (Paired(w)' <=> Paired(w))
      BY <2>3, <1>4, <1>5, <1>6, ShmAssumption DEF Own, Procs
    <3> QED BY <2>1, <3>1 DEF ActiveInv, PairCount
  <2> QED BY <2>2, <2>3 DEF Procs
<1> QED BY <1>7, <1>8, <1>9 DEF ActiveInv

\* The end of a process gives back what its account holds.
LEMMA TerminateStep ==
  ASSUME TypeInv, ActiveInv, NEW p \in Procs, terminate(p)
  PROVE  ActiveInv'
<1>1. \A q \in Procs : /\ Own(q) \in Sems /\ Other(q) \in Sems /\ Own(q) # Other(q)
                       /\ Own(q) # "PAIR" /\ Other(q) # "PAIR"
                       /\ (Own(q) = Own(p) \/ Own(q) = Other(p))
  BY DEF Own, Other, Sems
<1>2. \A q \in Procs : (Live(q)' <=> Live(q))
  BY DEF Live, terminate
<1>3. \A q \in Procs : pc'[q] = IF q = p THEN "dead" ELSE pc[q]
  BY DEF terminate, Goto, TypeInv, TypeOK
<1>4. semadj'[p] = NoSems /\ \A q \in Procs \ {p} : semadj'[q] = semadj[q]
  BY DEF terminate, TypeInv, TypeOK
<1>5. /\ Held(p)' = 0 /\ ~Paired(p)'
      /\ \A q \in Procs \ {p} : Held(q)' = Held(q) /\ (Paired(q)' <=> Paired(q))
  <2>1. \A q \in Procs : Held(q)' = -semadj'[q][Own(q)]
    BY DEF Held, Own
  <2>2. NoSems[Own(p)] = 0 /\ NoSems["PAIR"] = 0
    BY <1>1 DEF NoSems, Sems
  <2>3. Held(p)' = 0
    BY <1>4, <2>1, <2>2
  <2>4. ~Paired(p)'
    BY <1>4, <2>2 DEF Paired
  <2>5. \A q \in Procs \ {p} : Held(q)' = Held(q) /\ (Paired(q)' <=> Paired(q))
    BY <1>4, <2>1 DEF Held, Paired
  <2> QED BY <2>3, <2>4, <2>5
<1>6. AccountsOK'
  <2>1. \A q \in Procs : ~Live(q)' \/ pc'[q] \in Outside => semadj'[q] = NoSems
    BY <1>2, <1>3, <1>4 DEF ActiveInv, AccountsOK
  <2>2. \A q \in Procs : semadj'[q][Other(q)] = 0 /\ Held(q)' \in 0 .. 2
    BY <1>1, <1>4, <1>5 DEF ActiveInv, AccountsOK, NoSems
  <2>3. \A q \in Procs : Live(q)' /\ pc'[q] \in Initialising => Held(q)' = 1
    BY <1>2, <1>3, <1>5 DEF ActiveInv, AccountsOK, Initialising, WrInit, RdInit
  <2>4. \A q \in Procs : Live(q)' /\ pc'[q] \in Waiting \cup Transferring => Held(q)' = 2
    BY <1>2, <1>3, <1>5 DEF ActiveInv, AccountsOK, Waiting, Transferring, WrLoop, RdLoop
  <2>5. \A q \in Procs : semadj'[q]["PAIR"] \in {-1, 0}
    BY <1>4 DEF ActiveInv, AccountsOK, NoSems, Sems
  <2>6. \A q \in Procs : Paired(q)' => Held(q)' = 2 /\ pc'[q] \notin Initialising \cup Waiting
    BY <1>3, <1>5 DEF ActiveInv, AccountsOK
  <2> QED BY <2>1, <2>2, <2>3, <2>4, <2>5, <2>6 DEF AccountsOK, Other
<1>7. \A x \in Sems : semval'[x] = IF semval[x] + semadj[p][x] < 0 THEN 0 ELSE semval[x] + semadj[p][x]
  BY DEF terminate, Undone
<1>8. OneHolder'
  <2>1. \A q \in Procs : Held(q)' # 0 => semval'[Own(q)] = Held(q)'
    <3> SUFFICES ASSUME NEW q \in Procs, Held(q)' # 0
                 PROVE  semval'[Own(q)] = Held(q)'
      BY DEF Own
    <3>1. q # p /\ Held(q) # 0 /\ Held(q)' = Held(q) /\ semval[Own(q)] = Held(q)
      BY <1>5 DEF ActiveInv, OneHolder
    <3>2. semadj[p][Own(q)] = 0
      <4>1. CASE Own(q) = Own(p)
        <5>1. Held(p) = 0
          BY <4>1, <3>1 DEF ActiveInv, OneHolder
        <5>2. semadj[p][Own(p)] \in Int
          BY <1>1 DEF TypeInv, TypeOK
        <5> QED BY <4>1, <5>1, <5>2 DEF Held
      <4>2. CASE Own(q) = Other(p)
        BY <4>2 DEF ActiveInv, AccountsOK
      <4> QED BY <4>1, <4>2, <1>1
    <3>3. semval[Own(q)] \in Nat /\ Own(q) \in Sems
      BY <1>1 DEF TypeInv, TypeOK
    <3> QED BY <1>7, <3>1, <3>2, <3>3
  <2>2. \A q, r \in Procs : Own(q) = Own(r) /\ Held(q)' # 0 /\ Held(r)' # 0 => q = r
    BY <1>5 DEF ActiveInv, OneHolder
  <2>3. ASSUME NEW x \in {"WRITER", "READER"}, semval'[x] # 0
        PROVE  \E q \in Procs : Own(q) = x /\ Held(q)' # 0
    <3>1. semval[x] \in Nat /\ x \in Sems /\ semadj[p][x] \in Int
      BY DEF TypeInv, TypeOK, Sems
    <3>2. x = Own(p) => semadj[p][x] = -Held(p) /\ Held(p) \in 0 .. 2
      BY <3>1 DEF Held, ActiveInv, AccountsOK
    <3>3. x # Own(p) => semadj[p][x] = 0
      BY DEF ActiveInv, AccountsOK, Own, Other
    <3>4. x = Own(p) => Held(p) = 0
      <4>1. x = Own(p) /\ Held(p) # 0 => semval[x] = Held(p)
        BY DEF ActiveInv, OneHolder
      <4>2. x = Own(p) /\ Held(p) # 0 => semval'[x] = 0
        BY <3>1, <3>2, <4>1, <1>7
      <4> QED BY <2>3, <4>2
    <3>5. semval[x] # 0
      BY <2>3, <3>1, <3>2, <3>3, <3>4, <1>7
    <3>6. PICK q \in Procs : Own(q) = x /\ Held(q) # 0
      BY <3>5 DEF ActiveInv, OneHolder
    <3>7. q # p
      BY <3>4, <3>6
    <3> QED BY <3>6, <3>7, <1>5
  <2>4. \A x \in {"WRITER", "READER"} : semval'[x] # 0 =>
          \E q \in Procs : Own(q) = x /\ Held(q)' # 0
    BY <2>3
  <2> QED BY <2>1, <2>2, <2>4 DEF OneHolder, Own
<1>9. PairCount'
  <2>1. semval["PAIR"] \in Nat /\ "PAIR" \in Sems
    BY DEF TypeInv, TypeOK, Sems
  <2>2. CASE ~Paired(p)
    <3>1. semadj[p]["PAIR"] = 0
      BY <2>2 DEF ActiveInv, AccountsOK, Paired
    <3>2. semval'["PAIR"] = semval["PAIR"]
      BY <3>1, <2>1, <1>7
    <3>3. \A q \in Procs : (Paired(q)' <=> Paired(q))
      BY <2>2, <1>5
    <3> QED BY <3>2, <3>3 DEF ActiveInv, PairCount, Procs
  <2>3. CASE Paired(p)
    <3>1. \A q \in Procs \ {p} : Own(q) = Own(p) => ~Paired(q)
      BY <2>3 DEF ActiveInv, AccountsOK, OneHolder
    <3>2. semval["PAIR"] >= 1
      BY <2>3 DEF ActiveInv, PairCount, Procs
    <3>3. semval'["PAIR"] = semval["PAIR"] - 1
      BY <2>1, <2>3, <3>2, <1>7 DEF Paired
    <3>4. CASE p \in Writers
      <4>1. /\ \E w \in Writers : Paired(w)
            /\ ~\E w \in Writers : Paired(w)'
            /\ \A r \in Readers : (Paired(r)' <=> Paired(r))
        BY <2>3, <3>1, <3>4, <1>5, ShmAssumption DEF Own, Procs
      <4> QED BY <3>3, <4>1 DEF ActiveInv, PairCount
    <3>5. CASE p \in Readers
      <4>1. /\ \E r \in Readers : Paired(r)
            /\ ~\E r \in Readers : Paired(r)'
            /\ \A w \in Writers : (Paired(w)' <=> Paired(w))
        BY <2>3, <3>1, <3>5, <1>5, ShmAssumption DEF Own, Procs
      <4> QED BY <3>3, <4>1 DEF ActiveInv, PairCount
    <3> QED BY <3>4, <3>5 DEF Procs
  <2> QED BY <2>2, <2>3
<1> QED BY <1>6, <1>8, <1>9 DEF ActiveInv

\* A new set, or the identifier of an existing one, finds every account of a
\* process on another set empty.
LEMMA SemgetStep ==
  ASSUME TypeInv, ActiveInv, NEW p \in Procs, semget(p)
  PROVE  ActiveInv'
<1>1. \A q \in Procs : pc'[q] = IF q = p THEN IF p \in Writers THEN "wr_start" ELSE "rd_start"
                                        ELSE pc[q]
  BY DEF semget, Goto, TypeInv, TypeOK
<1>2. semadj' = semadj
  BY DEF semget
<1>3. \A q \in Procs : Held(q)' = Held(q) /\ (Paired(q)' <=> Paired(q))
  BY <1>2 DEF Held, Paired, Own
<1>4. semadj[p] = NoSems
  BY DEF ActiveInv, AccountsOK, semget, At, Outside
<1>5. \A q \in Procs \ {p} : (Live(q)' <=> Live(q))
  BY DEF semget, Live, TypeInv, TypeOK
<1>6. semkey = 0 => \A q \in Procs : semadj[q] = NoSems
  BY DEF ActiveInv, AccountsOK, Live
<1>7. AccountsOK'
  <2> USE DEF Outside, Initialising, Transferring, Waiting, WrInit, RdInit, WrLoop, RdLoop
  <2>1. \A q \in Procs : ~Live(q)' \/ pc'[q] \in Outside => semadj'[q] = NoSems
    BY <1>1, <1>2, <1>4, <1>5 DEF ActiveInv, AccountsOK
  <2>2. \A q \in Procs : semadj'[q][Other(q)] = 0 /\ Held(q)' \in 0 .. 2
    BY <1>2, <1>3 DEF ActiveInv, AccountsOK
  <2>3. \A q \in Procs : Live(q)' /\ pc'[q] \in Initialising => Held(q)' = 1
    BY <1>1, <1>3, <1>5 DEF ActiveInv, AccountsOK
  <2>4. \A q \in Procs : Live(q)' /\ pc'[q] \in Waiting \cup Transferring => Held(q)' = 2
    BY <1>1, <1>3, <1>5 DEF ActiveInv, AccountsOK
  <2>5. \A q \in Procs : semadj'[q]["PAIR"] \in {-1, 0}
    BY <1>2 DEF ActiveInv, AccountsOK
  <2>6. \A q \in Procs : Paired(q)' => Held(q)' = 2 /\ pc'[q] \notin Initialising \cup Waiting
    BY <1>1, <1>3 DEF ActiveInv, AccountsOK
  <2> QED BY <2>1, <2>2, <2>3, <2>4, <2>5, <2>6 DEF AccountsOK, Other
<1>8. CASE semkey = 0
  <2>1. \A q \in Procs : Held(q) = 0 /\ ~Paired(q)
    BY <1>6, <1>8 DEF Held, Paired, NoSems, Own, Sems
  <2>2. semval'["PAIR"] = 0 /\ semval'["WRITER"] = 0 /\ semval'["READER"] = 0
    BY <1>8 DEF semget, NoSems, Sems
  <2>3. OneHolder'
    BY <2>1, <2>2, <1>3 DEF OneHolder, Own
  <2>4. PairCount'
    BY <2>1, <2>2, <1>3 DEF PairCount, Procs
  <2> QED BY <1>7, <2>3, <2>4 DEF ActiveInv
<1>9. CASE semkey # 0
  <2>1. semval' = semval
    BY <1>9 DEF semget
  <2>2. OneHolder'
    BY <2>1, <1>3 DEF ActiveInv, OneHolder, Own
  <2>3. PairCount'
    BY <2>1, <1>3 DEF ActiveInv, PairCount, Procs
  <2> QED BY <1>7, <2>2, <2>3 DEF ActiveInv
<1> QED BY <1>8, <1>9

\* The removal of the set empties every account.
LEMMA SemrmStep ==
  ASSUME TypeInv, ActiveInv, NEW r \in Readers, semrm(r)
  PROVE  ActiveInv'
<1>1. CASE Live(r)
  <2>1. \A q \in Procs : semadj'[q] = NoSems
    BY <1>1 DEF semrm
  <2>2. \A q \in Procs : semadj'[q][Other(q)] = 0 /\ Held(q)' = 0 /\ ~Paired(q)' /\ semadj'[q]["PAIR"] = 0
    BY <2>1 DEF Held, Paired, NoSems, Own, Other, Sems
  <2>3. \A q \in Procs : ~Live(q)'
    BY <1>1 DEF semrm, Live
  <2>4. AccountsOK'
    BY <2>1, <2>2, <2>3 DEF AccountsOK, Other
  <2>5. semval'["PAIR"] = 0 /\ semval'["WRITER"] = 0 /\ semval'["READER"] = 0
    BY <1>1 DEF semrm, NoSems, Sems
  <2>6. OneHolder'
    BY <2>2, <2>5 DEF OneHolder, Own
  <2>7. PairCount'
    BY <2>2, <2>5 DEF PairCount, Procs
  <2> QED BY <2>4, <2>6, <2>7 DEF ActiveInv
<1>2. CASE ~Live(r)
  <2>1. Quiet(r, "exit") /\ r \in Procs
    BY <1>2 DEF semrm, Quiet, SamePhase, Procs
  <2> QED BY <2>1, QuietStep
<1> QED BY <1>1, <1>2

\* A successful semop() whose array does not touch a role semaphore, and a
\* semop() that fails, are quiet.
LEMMA SemopQuiet ==
  ASSUME TypeInv, NEW p \in Procs, NEW op \in SembufsType, NEW ok, NEW fail,
         semop(p, op, ok, fail),
         \A x \in RoleSems : op.add[x] = 0,
         op.undo = {},
         SamePhase(pc[p], ok), SamePhase(pc[p], fail)
  PROVE  Quiet(p, ok) \/ Quiet(p, fail)
<1> USE DEF RoleSems, Sems
<1>1. CASE UNCHANGED <<semval, semadj>> /\ Goto(p, fail)
  BY <1>1 DEF semop, Quiet
<1>2. CASE /\ semval' = Performed(op, semval)
           /\ semadj' = [semadj EXCEPT ![p] = Account(op, @)]
           /\ Goto(p, ok)
  <2>1. \A x \in RoleSems : semval'[x] = semval[x]
    <3>1. \A x \in RoleSems : semval[x] \in Nat /\ x \in Sems
      BY DEF TypeInv, TypeOK
    <3> QED BY <1>2, <3>1 DEF Performed
  <2>2. \A q \in Procs : semadj[q] \in [Sems -> Int]
    BY DEF TypeInv, TypeOK
  <2>3. \A q \in Procs : semadj'[q] = semadj[q]
    <3>1. Account(op, semadj[p]) = semadj[p]
      BY <2>2 DEF Account
    <3> QED BY <1>2, <3>1 DEF TypeInv, TypeOK
  <2> QED BY <1>2, <2>1, <2>3 DEF semop, Quiet
<1> QED BY <1>1, <1>2 DEF semop

\* A successful semop() whose array adds d to one role semaphore, with SEM_UNDO.
LEMMA SemopRaises ==
  ASSUME TypeInv, NEW p \in Procs, NEW op \in SembufsType, NEW ok, NEW fail,
         semop(p, op, ok, fail), ~op.nowait,
         NEW x \in RoleSems, NEW d \in Int, op.add[x] = d, x \in op.undo,
         \A y \in RoleSems \ {x} : op.add[y] = 0 /\ y \notin op.undo
  PROVE  \/ /\ Live(p) /\ Ready(op, semval)
            /\ Raises(p, x, d) /\ Goto(p, ok)
         \/ /\ UNCHANGED <<semkey, semid, semval, semadj>>
            /\ Goto(p, fail)
<1> USE DEF RoleSems, Sems
<1>1. CASE UNCHANGED <<semval, semadj>> /\ Goto(p, fail)
  BY <1>1 DEF semop
<1>2. CASE /\ Live(p) /\ Ready(op, semval)
           /\ semval' = Performed(op, semval)
           /\ semadj' = [semadj EXCEPT ![p] = Account(op, @)]
           /\ Goto(p, ok)
  <2>1. \A y \in RoleSems : semval'[y] = semval[y] + op.add[y]
    BY <1>2 DEF Performed
  <2>2. \A y \in RoleSems \ {x} : semval'[y] = semval[y]
    <3>1. \A y \in RoleSems : semval[y] \in Nat
      BY DEF TypeInv, TypeOK
    <3> QED BY <2>1, <3>1
  <2>3. semadj'[p] = Account(op, semadj[p]) /\ \A q \in Procs \ {p} : semadj'[q] = semadj[q]
    BY <1>2 DEF TypeInv, TypeOK
  <2>4. /\ semadj'[p][x] = semadj[p][x] - d
        /\ \A y \in RoleSems \ {x} : semadj'[p][y] = semadj[p][y]
    BY <2>3 DEF Account
  <2>5. Raises(p, x, d)
    BY <2>1, <2>2, <2>3, <2>4 DEF Raises, semop
  <2> QED BY <1>2, <2>5
<1> QED BY <1>1, <1>2 DEF semop

\* The arrays that leave the role semaphores alone.
LEMMA QuietOps ==
  /\ \A x \in RoleSems :
       /\ sem_wait_pair.add[x] = 0 /\ sem_wr_finish.add[x] = 0
       /\ sem_p_empty.add[x] = 0 /\ sem_v_empty.add[x] = 0
       /\ sem_p_mutex.add[x] = 0 /\ sem_v_mutex.add[x] = 0
       /\ sem_p_full.add[x] = 0 /\ sem_v_full.add[x] = 0
       /\ sem_rd_check_wr_alive.add[x] = 0 /\ sem_wr_check_rd_alive.add[x] = 0
  /\ sem_wait_pair.undo = {} /\ sem_wr_finish.undo = {}
  /\ sem_p_empty.undo = {} /\ sem_v_empty.undo = {}
  /\ sem_p_mutex.undo = {} /\ sem_v_mutex.undo = {}
  /\ sem_p_full.undo = {} /\ sem_v_full.undo = {}
  /\ sem_rd_check_wr_alive.undo = {} /\ sem_wr_check_rd_alive.undo = {}
<1> USE DEF RoleSems, Sembufs, NoSems, Sems, P, V
<1>1. \A x \in RoleSems : sem_wait_pair.add[x] = 0 /\ sem_wr_finish.add[x] = 0
  BY DEF sem_wait_pair, sem_wr_finish
<1>2. \A x \in RoleSems : sem_p_empty.add[x] = 0 /\ sem_v_empty.add[x] = 0
  BY DEF sem_p_empty, sem_v_empty
<1>3. \A x \in RoleSems : sem_p_mutex.add[x] = 0 /\ sem_v_mutex.add[x] = 0
  BY DEF sem_p_mutex, sem_v_mutex
<1>4. \A x \in RoleSems : sem_p_full.add[x] = 0 /\ sem_v_full.add[x] = 0
  BY DEF sem_p_full, sem_v_full
<1>5. \A x \in RoleSems : sem_rd_check_wr_alive.add[x] = 0 /\ sem_wr_check_rd_alive.add[x] = 0
  BY DEF sem_rd_check_wr_alive, sem_wr_check_rd_alive
<1>6. /\ sem_wait_pair.undo = {} /\ sem_wr_finish.undo = {}
      /\ sem_p_empty.undo = {} /\ sem_v_empty.undo = {}
      /\ sem_p_mutex.undo = {} /\ sem_v_mutex.undo = {}
      /\ sem_p_full.undo = {} /\ sem_v_full.undo = {}
      /\ sem_rd_check_wr_alive.undo = {} /\ sem_wr_check_rd_alive.undo = {}
  BY DEF sem_wait_pair, sem_wr_finish, sem_p_empty, sem_v_empty, sem_p_mutex, sem_v_mutex,
         sem_p_full, sem_v_full, sem_rd_check_wr_alive, sem_wr_check_rd_alive
<1> QED BY <1>1, <1>2, <1>3, <1>4, <1>5, <1>6

\* The array op raises semaphore x, with SEM_UNDO, and no other role semaphore.
RaisesOnly(op, x) ==
  /\ ~op.nowait /\ op.add[x] = 1 /\ x \in op.undo
  /\ \A y \in RoleSems \ {x} : op.add[y] = 0 /\ y \notin op.undo

LEMMA RaisingOps ==
  /\ RaisesOnly(sem_wr_start, "WRITER") /\ sem_wr_start.zero = {"WRITER"}
  /\ RaisesOnly(sem_rd_start, "READER") /\ sem_rd_start.zero = {"READER"}
  /\ RaisesOnly(sem_wr_init, "WRITER") /\ RaisesOnly(sem_rd_init, "READER")
  /\ RaisesOnly(sem_wr_wait_rd, "PAIR") /\ RaisesOnly(sem_rd_wait_wr, "PAIR")
<1> USE DEF RaisesOnly, RoleSems, Sembufs, NoSems, Sems
<1>1. /\ RaisesOnly(sem_wr_start, "WRITER") /\ sem_wr_start.zero = {"WRITER"}
      /\ RaisesOnly(sem_rd_start, "READER") /\ sem_rd_start.zero = {"READER"}
  BY DEF sem_wr_start, sem_rd_start
<1>2. RaisesOnly(sem_wr_init, "WRITER")
  BY DEF sem_wr_init
<1>3. RaisesOnly(sem_rd_init, "READER")
  BY DEF sem_rd_init
<1>4. RaisesOnly(sem_wr_wait_rd, "PAIR") /\ RaisesOnly(sem_rd_wait_wr, "PAIR")
  BY DEF sem_wr_wait_rd, sem_rd_wait_wr
<1> QED BY <1>1, <1>2, <1>3, <1>4

\* SETVAL of a token semaphore is quiet.
LEMMA SetvalQuiet ==
  ASSUME TypeInv, NEW p \in Procs, NEW x \in Sems \ RoleSems, NEW n, NEW ok,
         setval(p, x, n, ok), SamePhase(pc[p], ok)
  PROVE  Quiet(p, ok) \/ Quiet(p, "exit")
<1> USE DEF RoleSems, Sems
<1>1. CASE UNCHANGED <<semval, semadj>> /\ Goto(p, "exit")
  BY <1>1 DEF setval, Quiet, SamePhase
<1>2. CASE /\ semval' = [semval EXCEPT ![x] = n]
           /\ semadj' = [q \in Procs |-> [semadj[q] EXCEPT ![x] = 0]]
           /\ Goto(p, ok)
  <2>1. \A y \in RoleSems : semval'[y] = semval[y]
    BY <1>2 DEF TypeInv, TypeOK
  <2>2. \A q \in Procs : semadj[q] \in [Sems -> Int]
    BY DEF TypeInv, TypeOK
  <2>3. \A q \in Procs, y \in RoleSems : semadj'[q][y] = semadj[q][y]
    BY <1>2, <2>2
  <2>4. \A q \in Procs : semadj[q] = NoSems => semadj'[q] = NoSems
    <3>1. [NoSems EXCEPT ![x] = 0] = NoSems
      BY DEF NoSems
    <3> QED BY <1>2, <3>1
  <2> QED BY <1>2, <2>1, <2>3, <2>4 DEF setval, Quiet
<1> QED BY <1>1, <1>2 DEF setval

\* Steps that do not touch semaphores.
LEMMA NoSemQuiet ==
  ASSUME NEW p, NEW there, Goto(p, there), SamePhase(pc[p], there), UNCHANGED semVars
  PROVE  Quiet(p, there)
BY DEF Quiet, semVars

LEMMA WriterActive ==
  ASSUME TypeInv, ActiveInv, NEW w \in Writers, Writer(w)
  PROVE  ActiveInv'
<1>1. w \in Procs /\ Own(w) = "WRITER" /\ "WRITER" \in RoleSems /\ "PAIR" \in RoleSems
  BY DEF Procs, Own, RoleSems
<1> USE DEF At, SamePhase, Outside, Initialising, Waiting, Transferring, WrInit, WrLoop
<1>2. CASE make_file(w) \/ shmget(w) \/ shmat(w)
  <2>1. Quiet(w, "shmget") \/ Quiet(w, "shmat") \/ Quiet(w, "semget") \/ Quiet(w, "exit")
    BY <1>2, NoSemQuiet DEF make_file, shmget, shmat
  <2> QED BY <1>1, <2>1, QuietStep
<1>3. CASE semget(w)
  BY <1>1, <1>3, SemgetStep
<1>4. CASE wr_start(w)
  <2>1. semop(w, sem_wr_start, "wait_pair", "exit") /\ pc[w] = "wr_start"
    BY <1>4 DEF wr_start
  <2>2. CASE /\ Live(w) /\ Ready(sem_wr_start, semval)
             /\ Raises(w, "WRITER", 1) /\ Goto(w, "wait_pair")
    <3>1. semval["WRITER"] = 0
      BY <2>2, RaisingOps DEF Ready
    <3> QED BY <1>1, <2>1, <2>2, <3>1, RaiseOwnStep
  <2>3. CASE UNCHANGED <<semkey, semid, semval, semadj>> /\ Goto(w, "exit")
    <3>1. Quiet(w, "exit")
      BY <2>3 DEF Quiet
    <3> QED BY <1>1, <3>1, QuietStep
  <2> QED BY <1>1, <2>1, <2>2, <2>3, SemopRaises, RaisingOps, SummaryTypes DEF RaisesOnly
<1>5. CASE wr_wait_pair(w)
  <2>1. Quiet(w, "set_finish") \/ Quiet(w, "exit")
    BY <1>1, <1>5, SemopQuiet, QuietOps, SummaryTypes DEF wr_wait_pair
  <2> QED BY <1>1, <2>1, QuietStep
<1>6. CASE set_finish(w) \/ set_mutex(w) \/ set_full(w)
  <2>1. Quiet(w, "set_mutex") \/ Quiet(w, "set_full") \/ Quiet(w, "wr_init") \/ Quiet(w, "exit")
    BY <1>1, <1>6, SetvalQuiet DEF set_finish, set_mutex, set_full, Sems, RoleSems
  <2> QED BY <1>1, <2>1, QuietStep
<1>7. CASE wr_init(w)
  <2>1. semop(w, sem_wr_init, "wr_wait_rd", "exit") /\ pc[w] = "wr_init"
    BY <1>7 DEF wr_init
  <2>2. CASE Live(w) /\ Raises(w, "WRITER", 1) /\ Goto(w, "wr_wait_rd")
    BY <1>1, <2>1, <2>2, RaiseOwnStep
  <2>3. CASE UNCHANGED <<semkey, semid, semval, semadj>> /\ Goto(w, "exit")
    <3>1. Quiet(w, "exit")
      BY <2>3 DEF Quiet
    <3> QED BY <1>1, <3>1, QuietStep
  <2> QED BY <1>1, <2>1, <2>2, <2>3, SemopRaises, RaisingOps, SummaryTypes DEF RaisesOnly
<1>8. CASE wr_wait_rd(w)
  <2>1. semop(w, sem_wr_wait_rd, "p_empty", "exit") /\ pc[w] = "wr_wait_rd"
    BY <1>8 DEF wr_wait_rd
  <2>2. CASE Live(w) /\ Raises(w, "PAIR", 1) /\ Goto(w, "p_empty")
    BY <1>1, <2>1, <2>2, JoinPairStep
  <2>3. CASE UNCHANGED <<semkey, semid, semval, semadj>> /\ Goto(w, "exit")
    <3>1. Quiet(w, "exit")
      BY <2>3 DEF Quiet
    <3> QED BY <1>1, <3>1, QuietStep
  <2> QED BY <1>1, <2>1, <2>2, <2>3, SemopRaises, RaisingOps, SummaryTypes DEF RaisesOnly
<1>9. CASE p_empty(w) \/ wr_p_mutex(w) \/ wr_check_alive(w)
  <2>1. \/ Quiet(w, "p_mutex") \/ Quiet(w, "check_alive") \/ Quiet(w, "produce_item")
        \/ Quiet(w, "shmdt")
    BY <1>1, <1>9, SemopQuiet, QuietOps, SummaryTypes DEF p_empty, wr_p_mutex, wr_check_alive
  <2> QED BY <1>1, <2>1, QuietStep
<1>10. CASE finish(w) \/ wr_v_mutex(w) \/ v_full(w)
  <2>1. Quiet(w, "v_full") \/ Quiet(w, "p_empty") \/ Quiet(w, "shmdt")
    BY <1>1, <1>10, SemopQuiet, QuietOps, SummaryTypes DEF finish, wr_v_mutex, v_full
  <2> QED BY <1>1, <2>1, QuietStep
<1>11. CASE produce_item(w) \/ put_item(w) \/ shmdt(w) \/ shmrm(w)
  <2>1. \/ Quiet(w, "put_item") \/ Quiet(w, "finish") \/ Quiet(w, "v_mutex")
        \/ Quiet(w, "shmdt") \/ Quiet(w, "shmrm") \/ Quiet(w, "exit")
    BY <1>11, NoSemQuiet DEF produce_item, put_item, shmdt, shmrm
  <2> QED BY <1>1, <2>1, QuietStep
<1>12. CASE exit(w)
  BY <1>1, <1>12, TerminateStep DEF exit
<1> QED BY <1>2, <1>3, <1>4, <1>5, <1>6, <1>7, <1>8, <1>9, <1>10, <1>11, <1>12 DEF Writer

LEMMA ReaderActive ==
  ASSUME TypeInv, ActiveInv, NEW r \in Readers, Reader(r)
  PROVE  ActiveInv'
<1>1. /\ r \in Procs /\ r \notin Writers
      /\ Own(r) = "READER" /\ "READER" \in RoleSems /\ "PAIR" \in RoleSems
  BY ShmAssumption DEF Procs, Own, RoleSems
<1> USE DEF At, SamePhase, Outside, Initialising, Waiting, Transferring, RdInit, RdLoop
<1>2. CASE shmget(r) \/ shmat(r)
  <2>1. Quiet(r, "shmat") \/ Quiet(r, "semget") \/ Quiet(r, "exit")
    BY <1>2, NoSemQuiet DEF shmget, shmat
  <2> QED BY <1>1, <2>1, QuietStep
<1>3. CASE semget(r)
  BY <1>1, <1>3, SemgetStep
<1>4. CASE rd_start(r)
  <2>1. semop(r, sem_rd_start, "wait_pair", "exit") /\ pc[r] = "rd_start"
    BY <1>4 DEF rd_start
  <2>2. CASE /\ Live(r) /\ Ready(sem_rd_start, semval)
             /\ Raises(r, "READER", 1) /\ Goto(r, "wait_pair")
    <3>1. semval["READER"] = 0
      BY <2>2, RaisingOps DEF Ready
    <3> QED BY <1>1, <2>1, <2>2, <3>1, RaiseOwnStep
  <2>3. CASE UNCHANGED <<semkey, semid, semval, semadj>> /\ Goto(r, "exit")
    <3>1. Quiet(r, "exit")
      BY <2>3 DEF Quiet
    <3> QED BY <1>1, <3>1, QuietStep
  <2> QED BY <1>1, <2>1, <2>2, <2>3, SemopRaises, RaisingOps, SummaryTypes DEF RaisesOnly
<1>5. CASE rd_wait_pair(r)
  <2>1. Quiet(r, "set_empty") \/ Quiet(r, "exit")
    BY <1>1, <1>5, SemopQuiet, QuietOps, SummaryTypes DEF rd_wait_pair
  <2> QED BY <1>1, <2>1, QuietStep
<1>6. CASE set_empty(r)
  <2>1. Quiet(r, "rd_init") \/ Quiet(r, "exit")
    BY <1>1, <1>6, SetvalQuiet DEF set_empty, Sems, RoleSems
  <2> QED BY <1>1, <2>1, QuietStep
<1>7. CASE rd_init(r)
  <2>1. semop(r, sem_rd_init, "rd_wait_wr", "exit") /\ pc[r] = "rd_init"
    BY <1>7 DEF rd_init
  <2>2. CASE Live(r) /\ Raises(r, "READER", 1) /\ Goto(r, "rd_wait_wr")
    BY <1>1, <2>1, <2>2, RaiseOwnStep
  <2>3. CASE UNCHANGED <<semkey, semid, semval, semadj>> /\ Goto(r, "exit")
    <3>1. Quiet(r, "exit")
      BY <2>3 DEF Quiet
    <3> QED BY <1>1, <3>1, QuietStep
  <2> QED BY <1>1, <2>1, <2>2, <2>3, SemopRaises, RaisingOps, SummaryTypes DEF RaisesOnly
<1>8. CASE rd_wait_wr(r)
  <2>1. semop(r, sem_rd_wait_wr, "p_full", "exit") /\ pc[r] = "rd_wait_wr"
    BY <1>8 DEF rd_wait_wr
  <2>2. CASE Live(r) /\ Raises(r, "PAIR", 1) /\ Goto(r, "p_full")
    BY <1>1, <2>1, <2>2, JoinPairStep
  <2>3. CASE UNCHANGED <<semkey, semid, semval, semadj>> /\ Goto(r, "exit")
    <3>1. Quiet(r, "exit")
      BY <2>3 DEF Quiet
    <3> QED BY <1>1, <3>1, QuietStep
  <2> QED BY <1>1, <2>1, <2>2, <2>3, SemopRaises, RaisingOps, SummaryTypes DEF RaisesOnly
<1>9. CASE p_full(r) \/ rd_p_mutex(r) \/ rd_check_alive(r)
  <2>1. Quiet(r, "p_mutex") \/ Quiet(r, "check_alive") \/ Quiet(r, "get_item") \/ Quiet(r, "shmdt")
    BY <1>1, <1>9, SemopQuiet, QuietOps, SummaryTypes DEF p_full, rd_p_mutex, rd_check_alive
  <2> QED BY <1>1, <2>1, QuietStep
<1>10. CASE rd_v_mutex(r) \/ v_empty(r)
  <2>1. Quiet(r, "v_empty") \/ Quiet(r, "p_full") \/ Quiet(r, "shmdt")
    BY <1>1, <1>10, SemopQuiet, QuietOps, SummaryTypes DEF rd_v_mutex, v_empty
  <2> QED BY <1>1, <2>1, QuietStep
<1>11. CASE get_item(r) \/ shmdt(r)
  <2>1. Quiet(r, "v_mutex") \/ Quiet(r, "semrm")
    BY <1>1, <1>11, NoSemQuiet DEF get_item, shmdt
  <2> QED BY <1>1, <2>1, QuietStep
<1>12. CASE semrm(r)
  BY <1>12, SemrmStep
<1>13. CASE exit(r)
  BY <1>1, <1>13, TerminateStep DEF exit
<1> QED BY <1>2, <1>3, <1>4, <1>5, <1>6, <1>7, <1>8, <1>9, <1>10, <1>11, <1>12, <1>13 DEF Reader

LEMMA ActiveStep == TypeInv /\ ActiveInv /\ [Next]_vars => ActiveInv'
<1> SUFFICES ASSUME TypeInv, ActiveInv, [Next]_vars PROVE ActiveInv'
  OBVIOUS
<1>1. CASE UNCHANGED vars
  BY <1>1 DEF vars, ActiveInv, AccountsOK, OneHolder, PairCount, Held, Own, Other, Paired, Live
<1>2. CASE \E w \in Writers : Writer(w)
  BY <1>2, WriterActive
<1>3. CASE \E r \in Readers : Reader(r)
  BY <1>3, ReaderActive
<1>4. CASE \E p \in Procs : kill(p)
  BY <1>4, TerminateStep DEF kill
<1>5. CASE \E p \in Procs : interrupt(p)
  <2>1. PICK p \in Procs : interrupt(p)
    BY <1>5
  <2>2. Quiet(p, "shmdt") \/ Quiet(p, "exit")
    <3>1. PICK there \in {"shmdt", "exit"} : Goto(p, there) /\ SamePhase(pc[p], there)
      BY <2>1, SleepLabels
         DEF interrupt, SamePhase, Outside, Initialising, Waiting, Transferring, WrInit, WrLoop,
             RdInit, RdLoop
    <3> QED BY <2>1, <3>1, NoSemQuiet DEF interrupt
  <2> QED BY <2>2, QuietStep
<1> QED BY <1>1, <1>2, <1>3, <1>4, <1>5 DEF Next

LEMMA ActiveInit == Init => ActiveInv
<1> SUFFICES ASSUME Init PROVE ActiveInv
  OBVIOUS
<1>1. \A p \in Procs : ~Live(p) /\ semadj[p] = NoSems
  BY DEF Init, Live
<1>2. \A p \in Procs : Held(p) = 0 /\ ~Paired(p) /\ semadj[p][Other(p)] = 0 /\ semadj[p]["PAIR"] = 0
  BY <1>1 DEF Held, Paired, NoSems, Own, Other, Sems
<1>3. semval["PAIR"] = 0 /\ semval["WRITER"] = 0 /\ semval["READER"] = 0
  BY DEF Init, NoSems, Sems
<1> QED BY <1>1, <1>2, <1>3 DEF ActiveInv, AccountsOK, OneHolder, PairCount, Procs

LEMMA ActiveInvariant == Spec => [](TypeInv /\ ActiveInv)
BY TypeInit, ActiveInit, TypeStep, ActiveStep, PTL DEF Spec

\* At most one writer and one reader of a semaphore set are past their start,
\* whatever was killed and restarted before: an active process holds at least 1
\* of its role's semaphore, and only one process can hold any of it.
THEOREM SingleActiveCorrect == Spec => []SingleActive
<1>1. TypeInv /\ ActiveInv => SingleActive
  <2> SUFFICES ASSUME TypeInv, ActiveInv PROVE SingleActive
    OBVIOUS
  <2>1. \A p \in Procs : pc[p] \in WrActive \cup RdActive =>
                           pc[p] \in Initialising \cup Waiting \cup Transferring
    BY DEF WrActive, RdActive, Initialising, Waiting, Transferring
  <2>2. \A p \in Procs : Live(p) /\ pc[p] \in WrActive \cup RdActive => Held(p) # 0
    BY <2>1 DEF ActiveInv, AccountsOK
  <2>3. \A p, q \in Procs : Own(p) = Own(q) /\ Held(p) # 0 /\ Held(q) # 0 => p = q
    BY DEF ActiveInv, OneHolder
  <2>4. /\ \A p, q \in Writers : p \in Procs /\ q \in Procs /\ Own(p) = Own(q)
        /\ \A p, q \in Readers : p \in Procs /\ q \in Procs /\ Own(p) = Own(q)
    BY ShmAssumption DEF Own, Procs
  <2> QED BY <2>2, <2>3, <2>4 DEF SingleActive
<1> QED BY <1>1, ActiveInvariant, PTL

\* SEM_PAIR counts the living members of the pair, at most one of each role:
\* no death leaves a dead process counted, and no process is counted twice.
THEOREM PairCountCorrect == Spec => []PairCount
<1>1. ActiveInv => PairCount
  BY DEF ActiveInv
<1> QED BY <1>1, ActiveInvariant, PTL

-----------------------------------------------------------------------------
\* Sessions: the inductive invariant

\* p has completed its initialisation and is still counted as active.
Inited(p) == Held(p) = 2

\* The labels before semget(), those between sem_wait_pair and the end of the
\* initialisation, and those of a process that has left the transfer.
Strangers == {"make_file", "shmget", "shmat", "semget"}
Preparing == {"set_finish", "set_mutex", "set_full", "wr_init", "set_empty", "rd_init"}
Leaving == {"shmdt", "shmrm", "semrm", "exit"}

\* The labels at which a process holds the page, having taken EMPTY or FULL and
\* not yet passed the other one on.
Holding == {"p_mutex", "check_alive", "produce_item", "finish", "put_item", "get_item",
            "v_mutex", "v_full", "v_empty"}
Token(p) == IF pc[p] \in Holding THEN 1 ELSE 0

\* The semaphores of the page token and of the end of file.
TokenSems == {"EMPTY", "FULL", "FINISH"}

\* A process that has not called semget() yet knows no semaphore set.
Newcomers == \A p \in Procs : pc[p] \in Strangers => semid[p] = 0

\* Whoever transfers, or left the transfer and is about to exit, is in the pair.
LoopPaired == \A p \in Procs : Live(p) /\ pc[p] \in Transferring => Paired(p)

\* A process initialises its semaphores while the pair is empty, and nobody
\* joins the pair meanwhile.
FormsAlone == \A p, q \in Procs : Live(p) /\ pc[p] \in Preparing => ~Paired(q)

\* Only an initialised writer gives back FULL and FINISH at its death, and only
\* an initialised reader EMPTY.
TokenAccounts ==
  \A p \in Procs : \A x \in TokenSems :
    /\ semadj[p][x] \in {0, 1}
    /\ semadj[p][x] # 0 => Inited(p) /\ (x = "EMPTY" <=> p \in Readers)

\* The values that SETVAL gave are still there when the initialisation ends.
Prepared ==
  /\ \A w \in Writers : Live(w) /\ pc[w] \in {"set_mutex", "set_full", "wr_init"} =>
       semval["FINISH"] = 1
  /\ \A w \in Writers : Live(w) /\ pc[w] = "wr_init" => semval["FULL"] = 1
  /\ \A r \in Readers : Live(r) /\ pc[r] = "rd_init" => semval["EMPTY"] = 2

\* Before the writer has joined the pair nothing was put: no reader of its set is
\* past P(FULL).  Before the reader has joined, EMPTY is worth one page at most.
NotJoined ==
  /\ \A w \in Writers : Inited(w) /\ ~Paired(w) =>
       semval["FULL"] = 0 /\ \A r \in Readers : Inited(r) => Token(r) = 0
  /\ \A r \in Readers : Inited(r) /\ ~Paired(r) => semval["EMPTY"] <= 1

\* There is one page between two initialised processes.
TokenCount ==
  \A w \in Writers, r \in Readers : Inited(w) /\ Inited(r) =>
    semval["EMPTY"] + semval["FULL"] + Token(w) + Token(r) <= 1

\* A writer that gave up, or announced the end of file, took the page with it:
\* until it is dead its reader gets no further than P(FULL).
WriterLeft ==
  /\ \A w \in Writers : Inited(w) /\ semval["FINISH"] # 0 => Paired(w) /\ pc[w] \in Leaving
  /\ \A w \in Writers, r \in Readers :
       /\ Inited(w) /\ Inited(r) /\ Paired(w) /\ pc[w] \in Leaving
       /\ w \notin Stoppable \/ semval["FINISH"] # 0
       => semval["EMPTY"] + semval["FULL"] + Token(r) = 0

\* A reader leaves its loop of its own accord only when no initialised writer is
\* left, and none appears before the reader is dead.
ReaderLeft ==
  \A r \in Readers : Paired(r) /\ pc[r] \in Leaving /\ r \notin Stoppable =>
    \A w \in Writers : ~Inited(w)

SessionInv ==
  /\ Newcomers /\ LoopPaired /\ FormsAlone /\ TokenAccounts /\ Prepared
  /\ NotJoined /\ TokenCount /\ WriterLeft /\ ReaderLeft

-----------------------------------------------------------------------------
\* What the membership of a process says about its label.
LEMMA MemberFacts ==
  ASSUME TypeInv, ActiveInv
  PROVE  /\ \A p \in Procs : Inited(p) =>
              Live(p) /\ pc[p] \in Waiting \cup Transferring \cup {"exit"}
         /\ \A p \in Procs : Paired(p) => Inited(p) /\ pc[p] \in Transferring \cup {"exit"}
         /\ \A p \in Procs : Live(p) /\ pc[p] \in Initialising => Held(p) = 1
         /\ \A p \in Procs : Live(p) /\ pc[p] \in Waiting \cup Transferring => Inited(p)
<1>1. \A p \in Procs : ~Live(p) \/ pc[p] \in Outside => Held(p) = 0
  BY DEF ActiveInv, AccountsOK, Held, Own, NoSems, Sems
<1>2. \A p \in Procs : Inited(p) =>
        Live(p) /\ pc[p] \in Waiting \cup Transferring \cup {"exit"}
  <2> SUFFICES ASSUME NEW p \in Procs, Inited(p)
               PROVE  Live(p) /\ pc[p] \in Waiting \cup Transferring \cup {"exit"}
    OBVIOUS
  <2>1. Live(p) /\ pc[p] \notin Outside /\ pc[p] \notin Initialising
    BY <1>1 DEF Inited, ActiveInv, AccountsOK
  <2>2. pc[p] \in WrLabels \cup RdLabels
    BY DEF TypeInv, TypeOK
  <2> QED BY <2>1, <2>2
      DEF WrLabels, RdLabels, WrActive, RdActive, Outside, Initialising, Waiting, Transferring
<1>3. \A p \in Procs : Paired(p) => Inited(p) /\ pc[p] \in Transferring \cup {"exit"}
  BY <1>2 DEF Inited, ActiveInv, AccountsOK
<1> QED BY <1>2, <1>3 DEF Inited, ActiveInv, AccountsOK

\* The value of SEM_PAIR, by its members.
LEMMA PairFacts ==
  ASSUME TypeInv, ActiveInv
  PROVE  /\ semval["PAIR"] = 0 => \A p \in Procs : ~Paired(p)
         /\ semval["PAIR"] >= 2 => /\ \E w \in Writers : Paired(w)
                                   /\ \E r \in Readers : Paired(r)
         /\ \A w \in Writers, r \in Readers : Paired(w) /\ Paired(r) => semval["PAIR"] = 2
BY DEF ActiveInv, PairCount, Procs

\* At most one process of a role is active.
LEMMA OneOfRole ==
  ASSUME ActiveInv
  PROVE  /\ \A v, w \in Writers : Held(v) # 0 /\ Held(w) # 0 => v = w
         /\ \A q, r \in Readers : Held(q) # 0 /\ Held(r) # 0 => q = r
BY ShmAssumption DEF ActiveInv, OneHolder, Own, Procs

\* Whoever finds its peer's semaphore at 2 has an initialised peer.
LEMMA PeerInited ==
  ASSUME TypeInv, ActiveInv
  PROVE  /\ semval["WRITER"] >= 2 => \E w \in Writers : Inited(w)
         /\ semval["READER"] >= 2 => \E r \in Readers : Inited(r)
<1>1. \A p \in Procs : Held(p) # 0 => semval[Own(p)] = Held(p) /\ Held(p) \in 0 .. 2
  BY DEF ActiveInv, AccountsOK, OneHolder
<1>2. /\ semval["WRITER"] \in Nat /\ semval["READER"] \in Nat
      /\ \A p \in Procs : Own(p) = "WRITER" => p \in Writers
      /\ \A p \in Procs : Own(p) = "READER" => p \in Readers
  BY DEF TypeInv, TypeOK, Sems, Own, Procs
<1> QED BY <1>1, <1>2 DEF ActiveInv, OneHolder, Inited

\* A step of p to there that changes nobody's membership.
SameMembers(p, there) ==
  /\ \A q \in Procs : /\ (Live(q)' <=> Live(q)) /\ (Paired(q)' <=> Paired(q))
                      /\ (Inited(q)' <=> Inited(q)) /\ semid'[q] = semid[q]
  /\ \A q \in Procs : pc'[q] = IF q = p THEN there ELSE pc[q]

\* A quiet step is one.
LEMMA QuietFacts ==
  ASSUME TypeInv, NEW p \in Procs, NEW there, Quiet(p, there)
  PROVE  SameMembers(p, there)
<1>1. \A q \in Procs : Own(q) \in RoleSems
  BY DEF Own, RoleSems
<1>2. \A q \in Procs : pc'[q] = IF q = p THEN there ELSE pc[q]
  BY DEF Quiet, Goto, TypeInv, TypeOK
<1>3. \A q \in Procs : (Live(q)' <=> Live(q)) /\ semid'[q] = semid[q]
  BY DEF Quiet, Live
<1>4. \A q \in Procs : (Paired(q)' <=> Paired(q)) /\ (Inited(q)' <=> Inited(q))
  BY <1>1 DEF Quiet, Paired, Inited, Held, RoleSems, Own
<1> QED BY <1>2, <1>3, <1>4 DEF SameMembers

-----------------------------------------------------------------------------
\* Steps that change nobody's membership

\* The semaphores of TokenSems and what the accounts say of them stay the same.
SameTokens ==
  \A x \in TokenSems : /\ semval'[x] = semval[x]
                       /\ \A q \in Procs : semadj'[q][x] = semadj[q][x]

\* p may go on at there without anything having happened to a token: it starts
\* to initialise itself only when the pair is empty, it takes no page on the way,
\* and it leaves its loop with the page in hand, a reader moreover having seen
\* FINISH or the end of its writer.
Follows(p, there) ==
  /\ there \in Strangers => pc[p] \in Strangers
  /\ there \in Transferring => pc[p] \in Transferring
  /\ there \in Preparing => pc[p] \in Preparing \/ semval["PAIR"] = 0
  /\ there \in Preparing \ {"set_finish", "set_empty"} =>
       pc[p] = "set_mutex" /\ there = "set_full"
  /\ there \in Holding => pc[p] \in Holding
  /\ pc[p] \in Leaving => there \in Leaving
  /\ there \in Leaving =>
       \/ pc[p] \in Leaving \/ ~Paired(p) \/ p \in Stoppable
       \/ (p \in Writers /\ pc[p] \in Holding)
       \/ (pc[p] \in Holding /\ (semval["PAIR"] < 2 \/ semval["FINISH"] # 0))

LEMMA CalmStep ==
  ASSUME TypeInv, ActiveInv, SessionInv, NEW p \in Procs, NEW there,
         SameMembers(p, there), SameTokens, Follows(p, there)
  PROVE  SessionInv'
<1> USE DEF TokenSems
<1>1. /\ \A q \in Procs : /\ (Live(q)' <=> Live(q)) /\ (Paired(q)' <=> Paired(q))
                          /\ (Inited(q)' <=> Inited(q)) /\ semid'[q] = semid[q]
      /\ \A q \in Procs : pc'[q] = IF q = p THEN there ELSE pc[q]
  BY DEF SameMembers
<1>2. /\ semval'["EMPTY"] = semval["EMPTY"] /\ semval'["FULL"] = semval["FULL"]
      /\ semval'["FINISH"] = semval["FINISH"]
      /\ semval["EMPTY"] \in Nat /\ semval["FULL"] \in Nat /\ semval["FINISH"] \in Nat
  BY DEF SameTokens, TypeInv, TypeOK, Sems
<1>3. \A q \in Procs : Token(q) \in {0, 1} /\ Token(q)' \in {0, 1} /\ Token(q)' <= Token(q)
  BY <1>1 DEF Token, Follows
<1>4. \A w \in Writers : w \in Procs
  BY DEF Procs
<1>5. \A r \in Readers : r \in Procs /\ r \notin Writers
  BY ShmAssumption DEF Procs
<1>6. Newcomers'
  BY <1>1 DEF SessionInv, Newcomers, Follows
<1>7. LoopPaired'
  BY <1>1 DEF SessionInv, LoopPaired, Follows
<1>8. FormsAlone'
  BY <1>1, PairFacts DEF SessionInv, FormsAlone, Follows
<1>9. TokenAccounts'
  BY <1>1 DEF SessionInv, TokenAccounts, SameTokens
<1>10. Prepared'
  BY <1>1, <1>2, <1>4, <1>5 DEF SessionInv, Prepared, Follows, Preparing
<1>11. NotJoined'
  BY <1>1, <1>2, <1>3, <1>4, <1>5 DEF SessionInv, NotJoined
<1>12. TokenCount'
  BY <1>1, <1>2, <1>3, <1>4, <1>5 DEF SessionInv, TokenCount
<1>13. WriterLeft'
  <2>1. ASSUME NEW w \in Writers, NEW r \in Readers, Inited(w), Inited(r), Paired(w),
               pc'[w] \in Leaving, w \notin Stoppable \/ semval["FINISH"] # 0
        PROVE  semval["EMPTY"] + semval["FULL"] + Token(r) = 0
    <3>1. CASE pc[w] \in Leaving
      BY <2>1, <3>1 DEF SessionInv, WriterLeft
    <3>2. CASE pc[w] \notin Leaving
      <4>1. p = w /\ there \in Leaving
        BY <2>1, <3>2, <1>1, <1>4
      <4>2. semval["FINISH"] = 0
        BY <2>1, <3>2 DEF SessionInv, WriterLeft
      <4>3. Token(w) = 1
        BY <2>1, <3>2, <4>1, <4>2 DEF Follows, Token
      <4> QED BY <2>1, <4>3, <1>2, <1>3, <1>4, <1>5 DEF SessionInv, TokenCount
    <3> QED BY <3>1, <3>2
  <2>2. \A w \in Writers : Inited(w)' /\ semval'["FINISH"] # 0 => Paired(w)' /\ pc'[w] \in Leaving
    BY <1>1, <1>2, <1>4 DEF SessionInv, WriterLeft, Follows
  <2>3. \A w \in Writers, r \in Readers :
          /\ Inited(w)' /\ Inited(r)' /\ Paired(w)' /\ pc'[w] \in Leaving
          /\ w \notin Stoppable \/ semval'["FINISH"] # 0
          => semval'["EMPTY"] + semval'["FULL"] + Token(r)' = 0
    BY <2>1, <1>1, <1>2, <1>3, <1>4, <1>5
  <2> QED BY <2>2, <2>3 DEF WriterLeft
<1>14. ReaderLeft'
  <2>1. ASSUME NEW r \in Readers, Paired(r), pc'[r] \in Leaving, r \notin Stoppable,
               NEW w \in Writers, Inited(w)
        PROVE  FALSE
    <3>1. pc[r] \notin Leaving
      BY <2>1 DEF SessionInv, ReaderLeft
    <3>2. p = r /\ there \in Leaving
      BY <2>1, <3>1, <1>1, <1>5
    <3>3. Token(r) = 1 /\ (semval["PAIR"] < 2 \/ semval["FINISH"] # 0)
      BY <2>1, <3>1, <3>2, <1>5 DEF Follows, Token
    <3>4. Inited(r)
      BY <2>1, <1>5, MemberFacts
    <3>5. Paired(w)
      BY <2>1, <3>3, <3>4 DEF SessionInv, NotJoined
    <3>6. semval["FINISH"] # 0
      BY <2>1, <3>3, <3>5, PairFacts
    <3> QED BY <2>1, <3>3, <3>4, <3>5, <3>6, <1>2 DEF SessionInv, WriterLeft
  <2> QED BY <2>1, <1>1, <1>4, <1>5 DEF ReaderLeft
<1> QED BY <1>6, <1>7, <1>8, <1>9, <1>10, <1>11, <1>12, <1>13, <1>14 DEF SessionInv

\* A semop() whose array carries no SEM_UNDO and leaves the role semaphores alone:
\* it is performed, or it fails because the set is gone or IPC_NOWAIT says so.
LEMMA SemopSplit ==
  ASSUME TypeInv, ActiveInv, NEW p \in Procs, NEW op \in SembufsType, NEW ok, NEW fail,
         semop(p, op, ok, fail),
         \A x \in RoleSems : op.add[x] = 0,
         op.undo = {},
         SamePhase(pc[p], ok), SamePhase(pc[p], fail)
  PROVE  \/ /\ Live(p) /\ Ready(op, semval) /\ Quiet(p, ok)
            /\ \A x \in TokenSems : semval'[x] = semval[x] + op.add[x]
            /\ semadj' = semadj
         \/ /\ Quiet(p, fail) /\ SameTokens
            /\ ~Paired(p) \/ (op.nowait /\ ~Ready(op, semval))
<1> USE DEF TokenSems, Sems
<1>1. Quiet(p, ok) \/ Quiet(p, fail)
  BY SemopQuiet
<1>2. \A there : Quiet(p, there) => pc'[p] = there
  BY QuietFacts DEF SameMembers
<1>3. CASE /\ Live(p) /\ Ready(op, semval)
           /\ semval' = Performed(op, semval)
           /\ semadj' = [semadj EXCEPT ![p] = Account(op, @)]
           /\ Goto(p, ok)
  <2>1. pc'[p] = ok
    BY <1>3 DEF Goto, TypeInv, TypeOK
  <2>2. Account(op, semadj[p]) = semadj[p]
    BY DEF Account, TypeInv, TypeOK
  <2>3. semadj' = semadj
    BY <1>3, <2>2 DEF TypeInv, TypeOK
  <2>4. \A x \in TokenSems : semval'[x] = semval[x] + op.add[x]
    BY <1>3 DEF Performed
  <2>5. Quiet(p, ok)
    BY <1>1, <1>2, <2>1
  <2> QED BY <1>3, <2>3, <2>4, <2>5
<1>4. CASE /\ ~Live(p) \/ (op.nowait /\ ~Ready(op, semval))
           /\ Goto(p, fail)
           /\ UNCHANGED <<semval, semadj>>
  <2>1. pc'[p] = fail
    BY <1>4 DEF Goto, TypeInv, TypeOK
  <2>2. ~Live(p) => ~Paired(p)
    BY MemberFacts
  <2>3. Quiet(p, fail)
    BY <1>1, <1>2, <2>1
  <2> QED BY <1>4, <2>2, <2>3 DEF SameTokens
<1> QED BY <1>3, <1>4 DEF semop

\* p_empty and p_full take the page, v_empty and v_full pass it on: the semaphore
\* that a role takes, and the one that it gives.
Taken(p) == IF p \in Writers THEN "EMPTY" ELSE "FULL"
Given(p) == IF p \in Writers THEN "FULL" ELSE "EMPTY"

\* P() of the page: p, in its loop without the page, gets it.
LEMMA TakeStep ==
  ASSUME TypeInv, ActiveInv, SessionInv, NEW p \in Procs, Live(p),
         Quiet(p, "p_mutex"), pc[p] = (IF p \in Writers THEN "p_empty" ELSE "p_full"),
         semval[Taken(p)] >= 1, semval'[Taken(p)] = semval[Taken(p)] - 1,
         \A x \in TokenSems \ {Taken(p)} : semval'[x] = semval[x],
         semadj' = semadj
  PROVE  SessionInv'
<1> USE DEF TokenSems
<1>1. /\ \A q \in Procs : /\ (Live(q)' <=> Live(q)) /\ (Paired(q)' <=> Paired(q))
                          /\ (Inited(q)' <=> Inited(q)) /\ semid'[q] = semid[q]
      /\ \A q \in Procs : pc'[q] = IF q = p THEN "p_mutex" ELSE pc[q]
  BY QuietFacts DEF SameMembers
<1>2. semval["EMPTY"] \in Nat /\ semval["FULL"] \in Nat /\ semval["FINISH"] \in Nat
  BY DEF TypeInv, TypeOK, Sems
<1>3. /\ semval'["FINISH"] = semval["FINISH"]
      /\ p \in Writers => /\ semval["EMPTY"] >= 1 /\ semval'["EMPTY"] = semval["EMPTY"] - 1
                          /\ semval'["FULL"] = semval["FULL"]
      /\ p \notin Writers => /\ semval["FULL"] >= 1 /\ semval'["FULL"] = semval["FULL"] - 1
                             /\ semval'["EMPTY"] = semval["EMPTY"]
  BY DEF Taken
<1>4. /\ \A q \in Procs : Token(q) \in {0, 1} /\ Token(q)' = IF q = p THEN 1 ELSE Token(q)
      /\ Token(p) = 0
  BY <1>1 DEF Token, Holding
<1>5. Inited(p) /\ Paired(p)
  <2>1. pc[p] \in Transferring
    BY DEF Transferring, WrLoop, RdLoop
  <2> QED BY <2>1, MemberFacts DEF SessionInv, LoopPaired
<1>6. /\ \A w \in Writers : w \in Procs
      /\ \A r \in Readers : r \in Procs /\ r \notin Writers
  BY ShmAssumption DEF Procs
<1>7. Newcomers' /\ LoopPaired' /\ FormsAlone' /\ TokenAccounts'
  <2>1. Newcomers'
    BY <1>1 DEF SessionInv, Newcomers, Strangers
  <2>2. LoopPaired'
    BY <1>1, <1>5 DEF SessionInv, LoopPaired
  <2>3. FormsAlone'
    BY <1>1 DEF SessionInv, FormsAlone, Preparing
  <2>4. TokenAccounts'
    BY <1>1 DEF SessionInv, TokenAccounts
  <2> QED BY <2>1, <2>2, <2>3, <2>4
<1>8. Prepared'
  <2>1. \A q \in Procs : Live(q) => pc[q] \notin Preparing
    BY <1>5 DEF SessionInv, FormsAlone
  <2> QED BY <2>1, <1>1, <1>6 DEF Prepared, Preparing
<1>9. NotJoined'
  <2>1. ASSUME NEW w \in Writers, Inited(w), ~Paired(w)
        PROVE  semval'["FULL"] = 0 /\ \A r \in Readers : Inited(r) => Token(r)' = 0
    <3>1. p \notin Writers
      BY <2>1, <1>5, OneOfRole DEF Inited
    <3> QED BY <2>1, <3>1, <1>3 DEF SessionInv, NotJoined
  <2>2. ASSUME NEW r \in Readers, Inited(r), ~Paired(r)
        PROVE  semval'["EMPTY"] <= 1
    BY <2>2, <1>2, <1>3, <1>6 DEF SessionInv, NotJoined
  <2> QED BY <2>1, <2>2, <1>1, <1>6 DEF NotJoined
<1>10. TokenCount'
  <2>1. ASSUME NEW w \in Writers, NEW r \in Readers, Inited(w), Inited(r)
        PROVE  semval'["EMPTY"] + semval'["FULL"] + Token(w)' + Token(r)' <= 1
    <3>1. semval["EMPTY"] + semval["FULL"] + Token(w) + Token(r) <= 1
      BY <2>1 DEF SessionInv, TokenCount
    <3>2. p = w \/ p = r
      BY <2>1, <1>5, <1>6, OneOfRole DEF Inited, Procs
    <3> QED BY <3>1, <3>2, <1>2, <1>3, <1>4, <1>6
  <2> QED BY <2>1, <1>1, <1>6 DEF TokenCount
<1>11. WriterLeft'
  <2>1. \A w \in Writers : Inited(w) /\ semval["FINISH"] # 0 => Paired(w) /\ pc'[w] \in Leaving
    BY <1>1, <1>5, <1>6 DEF SessionInv, WriterLeft, Leaving
  <2>2. ASSUME NEW w \in Writers, NEW r \in Readers, Inited(w), Inited(r), Paired(w),
               pc'[w] \in Leaving, w \notin Stoppable \/ semval["FINISH"] # 0
        PROVE  semval'["EMPTY"] + semval'["FULL"] + Token(r)' = 0
    <3>1. w # p /\ pc[w] \in Leaving
      BY <2>2, <1>1, <1>6 DEF Leaving
    <3>2. semval["EMPTY"] + semval["FULL"] + Token(r) = 0
      BY <2>2, <3>1 DEF SessionInv, WriterLeft
    <3>3. p = r
      BY <2>2, <3>1, <1>5, <1>6, OneOfRole DEF Inited, Procs
    <3> QED BY <3>2, <3>3, <1>2, <1>3, <1>4, <1>6
  <2> QED BY <2>1, <2>2, <1>1, <1>3, <1>6 DEF WriterLeft
<1>12. ReaderLeft'
  BY <1>1, <1>6 DEF SessionInv, ReaderLeft, Leaving
<1> QED BY <1>7, <1>8, <1>9, <1>10, <1>11, <1>12 DEF SessionInv

\* V() of the page: p passes on the page that it held.
LEMMA GiveStep ==
  ASSUME TypeInv, ActiveInv, SessionInv, NEW p \in Procs, Live(p),
         Quiet(p, IF p \in Writers THEN "p_empty" ELSE "p_full"),
         pc[p] = (IF p \in Writers THEN "v_full" ELSE "v_empty"),
         semval'[Given(p)] = semval[Given(p)] + 1,
         \A x \in TokenSems \ {Given(p)} : semval'[x] = semval[x],
         semadj' = semadj
  PROVE  SessionInv'
<1> USE DEF TokenSems
<1>1. /\ \A q \in Procs : /\ (Live(q)' <=> Live(q)) /\ (Paired(q)' <=> Paired(q))
                          /\ (Inited(q)' <=> Inited(q)) /\ semid'[q] = semid[q]
      /\ \A q \in Procs : pc'[q] = IF q = p THEN (IF p \in Writers THEN "p_empty" ELSE "p_full")
                                   ELSE pc[q]
  BY QuietFacts DEF SameMembers
<1>2. semval["EMPTY"] \in Nat /\ semval["FULL"] \in Nat /\ semval["FINISH"] \in Nat
  BY DEF TypeInv, TypeOK, Sems
<1>3. /\ semval'["FINISH"] = semval["FINISH"]
      /\ p \in Writers => /\ semval'["FULL"] = semval["FULL"] + 1
                          /\ semval'["EMPTY"] = semval["EMPTY"]
      /\ p \notin Writers => /\ semval'["EMPTY"] = semval["EMPTY"] + 1
                             /\ semval'["FULL"] = semval["FULL"]
  BY DEF Given
<1>4. /\ \A q \in Procs : Token(q) \in {0, 1} /\ Token(q)' = IF q = p THEN 0 ELSE Token(q)
      /\ Token(p) = 1
  BY <1>1 DEF Token, Holding
<1>5. Inited(p) /\ Paired(p)
  <2>1. pc[p] \in Transferring
    BY DEF Transferring, WrLoop, RdLoop
  <2> QED BY <2>1, MemberFacts DEF SessionInv, LoopPaired
<1>6. /\ \A w \in Writers : w \in Procs
      /\ \A r \in Readers : r \in Procs /\ r \notin Writers
  BY ShmAssumption DEF Procs
<1>7. Newcomers' /\ LoopPaired' /\ FormsAlone' /\ TokenAccounts'
  <2>1. Newcomers'
    BY <1>1 DEF SessionInv, Newcomers, Strangers
  <2>2. LoopPaired'
    BY <1>1, <1>5 DEF SessionInv, LoopPaired
  <2>3. FormsAlone'
    BY <1>1 DEF SessionInv, FormsAlone, Preparing
  <2>4. TokenAccounts'
    BY <1>1 DEF SessionInv, TokenAccounts
  <2> QED BY <2>1, <2>2, <2>3, <2>4
<1>8. Prepared'
  <2>1. \A q \in Procs : Live(q) => pc[q] \notin Preparing
    BY <1>5 DEF SessionInv, FormsAlone
  <2> QED BY <2>1, <1>1, <1>6 DEF Prepared, Preparing
<1>9. NotJoined'
  <2>1. ASSUME NEW w \in Writers, Inited(w), ~Paired(w)
        PROVE  FALSE
    <3>1. p \notin Writers
      BY <2>1, <1>5, OneOfRole DEF Inited
    <3> QED BY <2>1, <3>1, <1>4, <1>5 DEF SessionInv, NotJoined, Procs
  <2>2. ASSUME NEW r \in Readers, Inited(r), ~Paired(r)
        PROVE  semval'["EMPTY"] <= 1
    <3>1. p \in Writers
      BY <2>2, <1>5, OneOfRole DEF Inited, Procs
    <3> QED BY <2>2, <3>1, <1>3 DEF SessionInv, NotJoined
  <2> QED BY <2>1, <2>2, <1>1, <1>6 DEF NotJoined
<1>10. TokenCount'
  <2>1. ASSUME NEW w \in Writers, NEW r \in Readers, Inited(w), Inited(r)
        PROVE  semval'["EMPTY"] + semval'["FULL"] + Token(w)' + Token(r)' <= 1
    <3>1. semval["EMPTY"] + semval["FULL"] + Token(w) + Token(r) <= 1
      BY <2>1 DEF SessionInv, TokenCount
    <3>2. p = w \/ p = r
      BY <2>1, <1>5, <1>6, OneOfRole DEF Inited, Procs
    <3> QED BY <3>1, <3>2, <1>2, <1>3, <1>4, <1>6
  <2> QED BY <2>1, <1>1, <1>6 DEF TokenCount
<1>11. WriterLeft'
  <2>1. \A w \in Writers : Inited(w) /\ semval["FINISH"] # 0 => Paired(w) /\ pc'[w] \in Leaving
    BY <1>1, <1>5, <1>6 DEF SessionInv, WriterLeft, Leaving
  <2>2. ASSUME NEW w \in Writers, NEW r \in Readers, Inited(w), Inited(r), Paired(w),
               pc'[w] \in Leaving, w \notin Stoppable \/ semval["FINISH"] # 0
        PROVE  FALSE
    <3>1. w # p /\ pc[w] \in Leaving
      BY <2>2, <1>1, <1>6 DEF Leaving
    <3>2. semval["EMPTY"] + semval["FULL"] + Token(r) = 0
      BY <2>2, <3>1 DEF SessionInv, WriterLeft
    <3>3. p = r
      BY <2>2, <3>1, <1>5, <1>6, OneOfRole DEF Inited, Procs
    <3> QED BY <3>2, <3>3, <1>2, <1>4
  <2> QED BY <2>1, <2>2, <1>1, <1>3, <1>6 DEF WriterLeft
<1>12. ReaderLeft'
  BY <1>1, <1>6 DEF SessionInv, ReaderLeft, Leaving
<1> QED BY <1>7, <1>8, <1>9, <1>10, <1>11, <1>12 DEF SessionInv

\* V(FINISH): the writer announces the end of file, with the page in hand.
LEMMA FinishStep ==
  ASSUME TypeInv, ActiveInv, SessionInv, NEW p \in Writers, Live(p),
         Quiet(p, "shmdt"), pc[p] = "finish",
         semval'["FINISH"] = semval["FINISH"] + 1,
         semval'["EMPTY"] = semval["EMPTY"], semval'["FULL"] = semval["FULL"],
         semadj' = semadj
  PROVE  SessionInv'
<1> USE DEF TokenSems
<1>1. /\ \A w \in Writers : w \in Procs
      /\ \A r \in Readers : r \in Procs /\ r \notin Writers
  BY ShmAssumption DEF Procs
<1>2. /\ \A q \in Procs : /\ (Live(q)' <=> Live(q)) /\ (Paired(q)' <=> Paired(q))
                          /\ (Inited(q)' <=> Inited(q)) /\ semid'[q] = semid[q]
      /\ \A q \in Procs : pc'[q] = IF q = p THEN "shmdt" ELSE pc[q]
  BY <1>1, QuietFacts DEF SameMembers
<1>3. semval["EMPTY"] \in Nat /\ semval["FULL"] \in Nat
  BY DEF TypeInv, TypeOK, Sems
<1>4. /\ \A q \in Procs : Token(q) \in {0, 1} /\ Token(q)' = IF q = p THEN 0 ELSE Token(q)
      /\ Token(p) = 1
  BY <1>1, <1>2 DEF Token, Holding
<1>5. Inited(p) /\ Paired(p)
  <2>1. pc[p] \in Transferring
    BY DEF Transferring, WrLoop
  <2> QED BY <1>1, <2>1, MemberFacts DEF SessionInv, LoopPaired
<1>6. Newcomers' /\ LoopPaired' /\ FormsAlone' /\ TokenAccounts'
  <2>1. Newcomers'
    BY <1>2 DEF SessionInv, Newcomers, Strangers
  <2>2. LoopPaired'
    BY <1>2, <1>5 DEF SessionInv, LoopPaired
  <2>3. FormsAlone'
    BY <1>2 DEF SessionInv, FormsAlone, Preparing
  <2>4. TokenAccounts'
    BY <1>2 DEF SessionInv, TokenAccounts
  <2> QED BY <2>1, <2>2, <2>3, <2>4
<1>7. Prepared'
  <2>1. \A q \in Procs : Live(q) => pc[q] \notin Preparing
    BY <1>1, <1>5 DEF SessionInv, FormsAlone
  <2> QED BY <2>1, <1>1, <1>2 DEF Prepared, Preparing
<1>8. NotJoined'
  BY <1>1, <1>2, <1>4 DEF SessionInv, NotJoined
<1>9. TokenCount'
  BY <1>1, <1>2, <1>3, <1>4 DEF SessionInv, TokenCount
<1>10. WriterLeft'
  <2>1. \A w \in Writers : Inited(w) => w = p
    BY <1>5, OneOfRole DEF Inited
  <2>2. \A r \in Readers : Inited(r) => semval["EMPTY"] + semval["FULL"] + Token(r) = 0
    BY <1>1, <1>3, <1>4, <1>5 DEF SessionInv, TokenCount
  <2> QED BY <2>1, <2>2, <1>1, <1>2, <1>4, <1>5 DEF WriterLeft, Leaving
<1>11. ReaderLeft'
  BY <1>1, <1>2 DEF SessionInv, ReaderLeft
<1> QED BY <1>6, <1>7, <1>8, <1>9, <1>10, <1>11 DEF SessionInv

-----------------------------------------------------------------------------
\* Steps that initialise a semaphore or change a membership

\* SETVAL of FINISH and FULL by a writer, of EMPTY by a reader: nobody is in the
\* pair, and nobody else of the role is active.
SetValues ==
  [set_finish |-> [sem |-> "FINISH", value |-> 1, next |-> "set_mutex"],
   set_full   |-> [sem |-> "FULL",   value |-> 1, next |-> "wr_init"],
   set_empty  |-> [sem |-> "EMPTY",  value |-> 2, next |-> "rd_init"]]

LEMMA SetStep ==
  ASSUME TypeInv, ActiveInv, SessionInv, NEW p \in Procs, Live(p),
         pc[p] \in IF p \in Writers THEN {"set_finish", "set_full"} ELSE {"set_empty"},
         NEW x, x = SetValues[pc[p]].sem,
         Quiet(p, SetValues[pc[p]].next),
         semval'[x] = SetValues[pc[p]].value,
         \A y \in TokenSems \ {x} : semval'[y] = semval[y],
         \A q \in Procs : /\ semadj'[q][x] = 0
                          /\ \A y \in TokenSems \ {x} : semadj'[q][y] = semadj[q][y]
  PROVE  SessionInv'
<1> USE DEF TokenSems
<1>1. /\ \A w \in Writers : w \in Procs
      /\ \A r \in Readers : r \in Procs /\ r \notin Writers
  BY ShmAssumption DEF Procs
<1>2. /\ \A q \in Procs : /\ (Live(q)' <=> Live(q)) /\ (Paired(q)' <=> Paired(q))
                          /\ (Inited(q)' <=> Inited(q)) /\ semid'[q] = semid[q]
      /\ \A q \in Procs : pc'[q] = IF q = p THEN SetValues[pc[p]].next ELSE pc[q]
  BY QuietFacts DEF SameMembers
<1>3. \/ /\ pc[p] = "set_finish" /\ p \in Writers /\ pc'[p] = "set_mutex"
         /\ semval'["FINISH"] = 1
         /\ semval'["FULL"] = semval["FULL"] /\ semval'["EMPTY"] = semval["EMPTY"]
      \/ /\ pc[p] = "set_full" /\ p \in Writers /\ pc'[p] = "wr_init"
         /\ semval'["FULL"] = 1
         /\ semval'["FINISH"] = semval["FINISH"] /\ semval'["EMPTY"] = semval["EMPTY"]
      \/ /\ pc[p] = "set_empty" /\ p \in Readers /\ p \notin Writers /\ pc'[p] = "rd_init"
         /\ semval'["EMPTY"] = 2
         /\ semval'["FINISH"] = semval["FINISH"] /\ semval'["FULL"] = semval["FULL"]
  BY <1>2 DEF SetValues, Procs
<1>4. \A q \in Procs : ~Paired(q)
  BY <1>3 DEF SessionInv, FormsAlone, Preparing
<1>5. Held(p) = 1
  BY <1>3, MemberFacts DEF Initialising, WrInit, RdInit
<1>6. /\ p \in Writers => \A w \in Writers : ~Inited(w)
      /\ p \in Readers => \A r \in Readers : ~Inited(r)
  BY <1>5, OneOfRole DEF Inited
<1>7. Newcomers' /\ LoopPaired' /\ FormsAlone'
  <2>1. Newcomers'
    BY <1>2, <1>3 DEF SessionInv, Newcomers, Strangers
  <2>2. LoopPaired'
    BY <1>2, <1>3 DEF SessionInv, LoopPaired, Transferring, WrLoop, RdLoop
  <2>3. FormsAlone'
    BY <1>2, <1>4 DEF FormsAlone
  <2> QED BY <2>1, <2>2, <2>3
<1>8. TokenAccounts'
  BY <1>2 DEF SessionInv, TokenAccounts
<1>9. Prepared'
  <2>1. \A q \in Procs : Live(q) /\ pc[q] \in Preparing => Held(q) = 1
    BY MemberFacts DEF Preparing, Initialising, WrInit, RdInit
  <2>2. \A w \in Writers : Live(w) /\ pc[w] \in Preparing /\ p \in Writers => w = p
    BY <2>1, <1>1, <1>5, OneOfRole
  <2>3. \A r \in Readers : Live(r) /\ pc[r] \in Preparing /\ p \in Readers => r = p
    BY <2>1, <1>1, <1>5, OneOfRole
  <2>4. \A w \in Writers : Live(w)' /\ pc'[w] \in {"set_mutex", "set_full", "wr_init"} =>
          semval'["FINISH"] = 1
    BY <2>2, <1>1, <1>2, <1>3 DEF SessionInv, Prepared, Preparing
  <2>5. \A w \in Writers : Live(w)' /\ pc'[w] = "wr_init" => semval'["FULL"] = 1
    BY <2>2, <1>1, <1>2, <1>3 DEF SessionInv, Prepared, Preparing
  <2>6. \A r \in Readers : Live(r)' /\ pc'[r] = "rd_init" => semval'["EMPTY"] = 2
    BY <2>3, <1>1, <1>2, <1>3 DEF SessionInv, Prepared, Preparing
  <2> QED BY <2>4, <2>5, <2>6 DEF Prepared
<1>10. NotJoined'
  BY <1>1, <1>2, <1>3, <1>6 DEF SessionInv, NotJoined
<1>11. TokenCount'
  BY <1>1, <1>2, <1>3, <1>6 DEF TokenCount
<1>12. WriterLeft'
  BY <1>1, <1>2, <1>3, <1>4, <1>6 DEF SessionInv, WriterLeft
<1>13. ReaderLeft'
  BY <1>1, <1>2, <1>4 DEF ReaderLeft
<1> QED BY <1>7, <1>8, <1>9, <1>10, <1>11, <1>12, <1>13 DEF SessionInv

\* A process raises its role's semaphore: its membership of the role changes and
\* no other one.
LEMMA RaiseFacts ==
  ASSUME TypeInv, NEW p \in Procs, NEW there, Raises(p, Own(p), 1), Goto(p, there)
  PROVE  /\ \A q \in Procs : /\ (Live(q)' <=> Live(q)) /\ (Paired(q)' <=> Paired(q))
                             /\ semid'[q] = semid[q]
                             /\ Held(q)' = IF q = p THEN Held(p) + 1 ELSE Held(q)
                             /\ Held(q) \in Int
         /\ \A q \in Procs : pc'[q] = IF q = p THEN there ELSE pc[q]
<1>1. \A q \in Procs : Own(q) \in Sems /\ Own(q) \in RoleSems /\ Own(q) # "PAIR"
  BY DEF Own, Sems, RoleSems
<1>2. \A q \in Procs : (Live(q)' <=> Live(q)) /\ (Paired(q)' <=> Paired(q)) /\ semid'[q] = semid[q]
  BY <1>1 DEF Live, Paired, Raises, RoleSems
<1>3. \A q \in Procs : Held(q) \in Int /\ semadj[q][Own(q)] \in Int
  BY <1>1 DEF Held, TypeInv, TypeOK
<1>4. \A q \in Procs : Held(q)' = -semadj'[q][Own(q)]
  BY DEF Held, Own
<1>5. \A q \in Procs : Held(q)' = IF q = p THEN Held(p) + 1 ELSE Held(q)
  BY <1>3, <1>4 DEF Held, Raises
<1>6. \A q \in Procs : pc'[q] = IF q = p THEN there ELSE pc[q]
  BY DEF Goto, TypeInv, TypeOK
<1> QED BY <1>2, <1>3, <1>5, <1>6

\* The writer completes its initialisation: the token FULL and the state "no end
\* of file" are now in its account, and it finds one page at most.
LEMMA WrInitStep ==
  ASSUME TypeInv, ActiveInv, SessionInv, NEW p \in Writers, Live(p),
         pc[p] = "wr_init", Raises(p, "WRITER", 1), Goto(p, "wr_wait_rd"),
         semval'["EMPTY"] = semval["EMPTY"],
         semval'["FULL"] = semval["FULL"] - 1, semval'["FINISH"] = semval["FINISH"] - 1,
         semadj'[p]["EMPTY"] = semadj[p]["EMPTY"],
         semadj'[p]["FULL"] = semadj[p]["FULL"] + 1,
         semadj'[p]["FINISH"] = semadj[p]["FINISH"] + 1
  PROVE  SessionInv'
<1> USE DEF TokenSems
<1>1. /\ \A w \in Writers : w \in Procs
      /\ \A r \in Readers : r \in Procs /\ r \notin Writers
      /\ Own(p) = "WRITER"
  BY ShmAssumption DEF Procs, Own
<1>2. /\ \A q \in Procs : /\ (Live(q)' <=> Live(q)) /\ (Paired(q)' <=> Paired(q))
                          /\ semid'[q] = semid[q]
                          /\ Held(q)' = IF q = p THEN Held(p) + 1 ELSE Held(q)
                          /\ Held(q) \in Int
      /\ \A q \in Procs : pc'[q] = IF q = p THEN "wr_wait_rd" ELSE pc[q]
  BY <1>1, RaiseFacts
<1>3. Held(p) = 1
  BY <1>1, MemberFacts DEF Initialising, WrInit
<1>4. \A q \in Procs : Inited(q)' <=> (q = p \/ Inited(q))
  BY <1>2, <1>3 DEF Inited
<1>5. \A w \in Writers : ~Inited(w)
  BY <1>3, OneOfRole DEF Inited
<1>6. \A q \in Procs : ~Paired(q)
  BY <1>1 DEF SessionInv, FormsAlone, Preparing
<1>7. semval'["FULL"] = 0 /\ semval'["FINISH"] = 0
  BY DEF SessionInv, Prepared
<1>8. \A r \in Readers : Inited(r) => semval["EMPTY"] <= 1 /\ Token(r)' = 0
  <2>1. \A r \in Readers : Inited(r) => pc[r] \in Waiting \cup {"exit"}
    BY <1>1, <1>6, MemberFacts DEF SessionInv, LoopPaired
  <2>2. \A r \in Readers : Token(r)' = Token(r)
    BY <1>1, <1>2 DEF Token
  <2> QED BY <2>1, <2>2, <1>6, <1>1 DEF SessionInv, NotJoined, Token, Holding, Waiting
<1>9. Newcomers' /\ LoopPaired' /\ FormsAlone'
  <2>1. Newcomers'
    BY <1>2 DEF SessionInv, Newcomers, Strangers
  <2>2. LoopPaired'
    BY <1>2 DEF SessionInv, LoopPaired, Transferring, WrLoop, RdLoop
  <2>3. FormsAlone'
    BY <1>2, <1>6 DEF FormsAlone
  <2> QED BY <2>1, <2>2, <2>3
<1>10. TokenAccounts'
  <2>1. \A q \in Procs \ {p} : semadj'[q] = semadj[q]
    BY DEF Raises
  <2>2. semadj[p]["EMPTY"] = 0 /\ semadj[p]["FULL"] = 0 /\ semadj[p]["FINISH"] = 0
    BY <1>1, <1>5 DEF SessionInv, TokenAccounts
  <2>3. \A q \in Procs \ {p}, x \in TokenSems :
          /\ semadj'[q][x] \in {0, 1}
          /\ semadj'[q][x] # 0 => Inited(q)' /\ (x = "EMPTY" <=> q \in Readers)
    BY <2>1, <1>4 DEF SessionInv, TokenAccounts
  <2>4. \A x \in TokenSems :
          /\ semadj'[p][x] \in {0, 1}
          /\ semadj'[p][x] # 0 => Inited(p)' /\ (x = "EMPTY" <=> p \in Readers)
    BY <2>2, <1>1, <1>4
  <2> QED BY <2>3, <2>4 DEF TokenAccounts
<1>11. Prepared'
  <2>1. \A w \in Writers : Live(w) /\ pc[w] \in Preparing => w = p
    BY <1>1, <1>3, MemberFacts, OneOfRole DEF Preparing, Initialising, WrInit, RdInit
  <2> QED BY <2>1, <1>1, <1>2 DEF SessionInv, Prepared, Preparing
<1>12. NotJoined'
  BY <1>1, <1>2, <1>4, <1>5, <1>6, <1>7, <1>8 DEF NotJoined
<1>13. TokenCount'
  <2>1. Token(p)' = 0
    BY <1>1, <1>2 DEF Token, Holding
  <2>2. semval["EMPTY"] \in Nat
    BY DEF TypeInv, TypeOK, Sems
  <2> QED BY <2>1, <2>2, <1>1, <1>4, <1>5, <1>7, <1>8 DEF TokenCount
<1>14. WriterLeft'
  BY <1>1, <1>2, <1>4, <1>5, <1>6, <1>7 DEF WriterLeft
<1>15. ReaderLeft'
  BY <1>1, <1>2, <1>6 DEF ReaderLeft
<1> QED BY <1>9, <1>10, <1>11, <1>12, <1>13, <1>14, <1>15 DEF SessionInv

\* The reader completes its initialisation: one EMPTY token is in its account, one
\* is left for the writer.
LEMMA RdInitStep ==
  ASSUME TypeInv, ActiveInv, SessionInv, NEW p \in Readers, Live(p),
         pc[p] = "rd_init", Raises(p, "READER", 1), Goto(p, "rd_wait_wr"),
         semval'["EMPTY"] = semval["EMPTY"] - 1,
         semval'["FULL"] = semval["FULL"], semval'["FINISH"] = semval["FINISH"],
         semadj'[p]["EMPTY"] = semadj[p]["EMPTY"] + 1,
         semadj'[p]["FULL"] = semadj[p]["FULL"], semadj'[p]["FINISH"] = semadj[p]["FINISH"]
  PROVE  SessionInv'
<1> USE DEF TokenSems
<1>1. /\ \A w \in Writers : w \in Procs
      /\ \A r \in Readers : r \in Procs /\ r \notin Writers
      /\ Own(p) = "READER"
  BY ShmAssumption DEF Procs, Own
<1>2. /\ \A q \in Procs : /\ (Live(q)' <=> Live(q)) /\ (Paired(q)' <=> Paired(q))
                          /\ semid'[q] = semid[q]
                          /\ Held(q)' = IF q = p THEN Held(p) + 1 ELSE Held(q)
                          /\ Held(q) \in Int
      /\ \A q \in Procs : pc'[q] = IF q = p THEN "rd_wait_wr" ELSE pc[q]
  BY <1>1, RaiseFacts
<1>3. Held(p) = 1
  BY <1>1, MemberFacts DEF Initialising, RdInit
<1>4. \A q \in Procs : Inited(q)' <=> (q = p \/ Inited(q))
  BY <1>2, <1>3 DEF Inited
<1>5. \A r \in Readers : ~Inited(r)
  BY <1>3, OneOfRole DEF Inited
<1>6. \A q \in Procs : ~Paired(q)
  BY <1>1 DEF SessionInv, FormsAlone, Preparing
<1>7. semval'["EMPTY"] = 1
  BY DEF SessionInv, Prepared
<1>8. Token(p)' = 0
  BY <1>1, <1>2 DEF Token, Holding
<1>9. \A w \in Writers : Inited(w) =>
        semval["FULL"] = 0 /\ semval["FINISH"] = 0 /\ Token(w)' = 0
  <2>1. \A w \in Writers : Inited(w) => pc[w] \in Waiting \cup {"exit"}
    BY <1>1, <1>6, MemberFacts DEF SessionInv, LoopPaired
  <2>2. \A w \in Writers : Token(w)' = Token(w)
    BY <1>1, <1>2 DEF Token
  <2> QED BY <2>1, <2>2, <1>6, <1>1 DEF SessionInv, NotJoined, WriterLeft, Token, Holding, Waiting
<1>10. Newcomers' /\ LoopPaired' /\ FormsAlone'
  <2>1. Newcomers'
    BY <1>2 DEF SessionInv, Newcomers, Strangers
  <2>2. LoopPaired'
    BY <1>2 DEF SessionInv, LoopPaired, Transferring, WrLoop, RdLoop
  <2>3. FormsAlone'
    BY <1>2, <1>6 DEF FormsAlone
  <2> QED BY <2>1, <2>2, <2>3
<1>11. TokenAccounts'
  <2>1. \A q \in Procs \ {p} : semadj'[q] = semadj[q]
    BY DEF Raises
  <2>2. semadj[p]["EMPTY"] = 0 /\ semadj[p]["FULL"] = 0 /\ semadj[p]["FINISH"] = 0
    BY <1>1, <1>5 DEF SessionInv, TokenAccounts
  <2>3. \A q \in Procs \ {p}, x \in TokenSems :
          /\ semadj'[q][x] \in {0, 1}
          /\ semadj'[q][x] # 0 => Inited(q)' /\ (x = "EMPTY" <=> q \in Readers)
    BY <2>1, <1>4 DEF SessionInv, TokenAccounts
  <2>4. \A x \in TokenSems :
          /\ semadj'[p][x] \in {0, 1}
          /\ semadj'[p][x] # 0 => Inited(p)' /\ (x = "EMPTY" <=> p \in Readers)
    BY <2>2, <1>1, <1>4
  <2> QED BY <2>3, <2>4 DEF TokenAccounts
<1>12. Prepared'
  <2>1. \A r \in Readers : Live(r) /\ pc[r] \in Preparing => r = p
    BY <1>1, <1>3, MemberFacts, OneOfRole DEF Preparing, Initialising, WrInit, RdInit
  <2> QED BY <2>1, <1>1, <1>2 DEF SessionInv, Prepared, Preparing
<1>13. NotJoined'
  BY <1>1, <1>2, <1>4, <1>5, <1>6, <1>7, <1>8, <1>9 DEF NotJoined
<1>14. TokenCount'
  BY <1>1, <1>4, <1>5, <1>7, <1>8, <1>9 DEF TokenCount
<1>15. WriterLeft'
  BY <1>1, <1>2, <1>4, <1>5, <1>6, <1>9 DEF WriterLeft
<1>16. ReaderLeft'
  BY <1>1, <1>2, <1>6 DEF ReaderLeft
<1> QED BY <1>10, <1>11, <1>12, <1>13, <1>14, <1>15, <1>16 DEF SessionInv

\* A process joins the pair: its peer is initialised, so nobody of either role is
\* preparing semaphores.
LEMMA JoinStep ==
  ASSUME TypeInv, ActiveInv, SessionInv, NEW p \in Procs, Live(p),
         Raises(p, "PAIR", 1), semval[Other(p)] >= 2, SameTokens,
         pc[p] \in Waiting, Goto(p, IF p \in Writers THEN "p_empty" ELSE "p_full")
  PROVE  SessionInv'
<1> USE DEF TokenSems
<1>1. /\ \A w \in Writers : w \in Procs
      /\ \A r \in Readers : r \in Procs /\ r \notin Writers
  BY ShmAssumption DEF Procs
<1>2. \A q \in Procs : pc'[q] = IF q = p THEN (IF p \in Writers THEN "p_empty" ELSE "p_full")
                                ELSE pc[q]
  BY DEF Goto, TypeInv, TypeOK
<1>3. \A q \in Procs : /\ (Live(q)' <=> Live(q)) /\ semid'[q] = semid[q]
                       /\ (Inited(q)' <=> Inited(q))
                       /\ Paired(q)' <=> (q = p \/ Paired(q))
  <2>1. \A q \in Procs : Own(q) \in RoleSems \ {"PAIR"}
    BY DEF Own, RoleSems
  <2>2. \A q \in Procs : Held(q)' = Held(q)
    BY <2>1 DEF Held, Own, Raises
  <2>3. Inited(p) /\ ~Paired(p)
    BY MemberFacts DEF Waiting, Transferring, WrLoop, RdLoop
  <2>4. semadj'[p]["PAIR"] = -1
    BY <2>3 DEF Raises, ActiveInv, AccountsOK, Paired
  <2> QED BY <2>2, <2>4 DEF Live, Inited, Paired, Raises
<1>4. Inited(p) /\ ~Paired(p)
  BY MemberFacts DEF Waiting, Transferring, WrLoop, RdLoop
<1>5. /\ semval'["EMPTY"] = semval["EMPTY"] /\ semval'["FULL"] = semval["FULL"]
      /\ semval'["FINISH"] = semval["FINISH"]
  BY DEF SameTokens
<1>6. \A q \in Procs : Token(q)' = Token(q)
  BY <1>2 DEF Token, Holding, Waiting
<1>7. \A q \in Procs : Live(q) => pc[q] \notin Preparing
  <2> SUFFICES ASSUME NEW q \in Procs, Live(q), pc[q] \in Preparing
               PROVE  FALSE
    OBVIOUS
  <2>1. Held(q) = 1
    BY MemberFacts DEF Preparing, Initialising, WrInit, RdInit
  <2>2. semval[Own(q)] = 1
    BY <2>1 DEF ActiveInv, OneHolder
  <2>3. Own(q) = Own(p) => q = p
    BY <2>1, <1>4 DEF ActiveInv, OneHolder, Inited
  <2> QED BY <2>1, <2>2, <2>3, <1>4 DEF Own, Other, Inited
<1>8. Newcomers'
  BY <1>2, <1>3 DEF SessionInv, Newcomers, Strangers
<1>9. LoopPaired'
  BY <1>2, <1>3 DEF SessionInv, LoopPaired
<1>10. FormsAlone'
  BY <1>2, <1>3, <1>7 DEF FormsAlone, Preparing
<1>11. TokenAccounts'
  BY <1>3 DEF SessionInv, TokenAccounts, SameTokens
<1>12. Prepared'
  BY <1>1, <1>2, <1>3, <1>7 DEF Prepared, Preparing
<1>13. NotJoined'
  BY <1>1, <1>3, <1>5, <1>6 DEF SessionInv, NotJoined
<1>14. TokenCount'
  BY <1>1, <1>3, <1>5, <1>6 DEF SessionInv, TokenCount
<1>15. WriterLeft'
  BY <1>1, <1>2, <1>3, <1>4, <1>5, <1>6 DEF SessionInv, WriterLeft, Leaving
<1>16. ReaderLeft'
  BY <1>1, <1>2, <1>3 DEF SessionInv, ReaderLeft, Leaving
<1> QED BY <1>8, <1>9, <1>10, <1>11, <1>12, <1>13, <1>14, <1>15, <1>16 DEF SessionInv

\* The end of a process: what an initialised one gives back disturbs only what is
\* said of the sessions that it was in.
LEMMA EndStep ==
  ASSUME TypeInv, ActiveInv, SessionInv, NEW p \in Procs, terminate(p)
  PROVE  SessionInv'
<1> USE DEF TokenSems
<1>1. /\ \A w \in Writers : w \in Procs
      /\ \A r \in Readers : r \in Procs /\ r \notin Writers
  BY ShmAssumption DEF Procs
<1>2. \A q \in Procs : pc'[q] = IF q = p THEN "dead" ELSE pc[q]
  BY DEF terminate, Goto, TypeInv, TypeOK
<1>3. semadj'[p] = NoSems /\ \A q \in Procs \ {p} : semadj'[q] = semadj[q]
  BY DEF terminate, TypeInv, TypeOK
<1>4. \A q \in Procs : /\ (Live(q)' <=> Live(q)) /\ semid'[q] = semid[q]
                       /\ Inited(q)' <=> (q # p /\ Inited(q))
                       /\ Paired(q)' <=> (q # p /\ Paired(q))
  <2>1. \A q \in Procs : NoSems[Own(q)] = 0 /\ NoSems["PAIR"] = 0
    BY DEF NoSems, Own, Sems
  <2>2. \A q \in Procs : Held(q)' = -semadj'[q][Own(q)]
    BY DEF Held, Own
  <2>3. \A q \in Procs : Inited(q)' <=> (q # p /\ Inited(q))
    BY <1>3, <2>1, <2>2 DEF Held, Inited
  <2>4. \A q \in Procs : Paired(q)' <=> (q # p /\ Paired(q))
    BY <1>3, <2>1 DEF Paired
  <2> QED BY <2>3, <2>4 DEF Live, terminate
<1>5. \A x \in TokenSems :
        /\ semval'[x] = semval[x] \/ (Inited(p) /\ (x = "EMPTY" <=> p \in Readers))
        /\ NoSems[x] = 0
  <2>1. \A x \in TokenSems : semval[x] \in Nat /\ x \in Sems
    BY DEF TypeInv, TypeOK, Sems
  <2>2. \A x \in TokenSems :
          semval'[x] = IF semval[x] + semadj[p][x] < 0 THEN 0 ELSE semval[x] + semadj[p][x]
    BY <2>1 DEF terminate, Undone
  <2> QED BY <2>1, <2>2 DEF SessionInv, TokenAccounts, NoSems
<1>6. \A q \in Procs \ {p} : Token(q)' = Token(q)
  BY <1>2 DEF Token
<1>7. Newcomers' /\ LoopPaired' /\ FormsAlone'
  <2>1. Newcomers'
    BY <1>2, <1>4 DEF SessionInv, Newcomers, Strangers
  <2>2. LoopPaired'
    BY <1>2, <1>4 DEF SessionInv, LoopPaired, Transferring, WrLoop, RdLoop
  <2>3. FormsAlone'
    BY <1>2, <1>4 DEF SessionInv, FormsAlone, Preparing
  <2> QED BY <2>1, <2>2, <2>3
<1>8. TokenAccounts'
  BY <1>3, <1>4, <1>5 DEF SessionInv, TokenAccounts
<1>9. Prepared'
  <2>1. \A q \in Procs : Live(q) /\ pc[q] \in Preparing => Held(q) = 1
    BY MemberFacts DEF Preparing, Initialising, WrInit, RdInit
  <2>2. /\ \A w \in Writers : Live(w) /\ pc[w] \in Preparing => ~(p \in Writers /\ Inited(p))
        /\ \A r \in Readers : Live(r) /\ pc[r] \in Preparing => ~(p \in Readers /\ Inited(p))
    BY <2>1, <1>1, OneOfRole DEF Inited
  <2>3. p \in Writers \/ p \in Readers
    BY DEF Procs
  <2>4. \A w \in Writers : Live(w)' /\ pc'[w] \in Preparing =>
          /\ w # p /\ Live(w) /\ pc[w] \in Preparing
          /\ semval'["FINISH"] = semval["FINISH"] /\ semval'["FULL"] = semval["FULL"]
    BY <2>2, <2>3, <1>1, <1>2, <1>4, <1>5 DEF Preparing
  <2>5. \A r \in Readers : Live(r)' /\ pc'[r] \in Preparing =>
          r # p /\ Live(r) /\ pc[r] \in Preparing /\ semval'["EMPTY"] = semval["EMPTY"]
    BY <2>2, <2>3, <1>1, <1>2, <1>4, <1>5 DEF Preparing
  <2> QED BY <2>4, <2>5, <1>1, <1>2 DEF SessionInv, Prepared, Preparing
<1>10. /\ \A w \in Writers : Inited(w)' =>
            w # p /\ semval'["FULL"] = semval["FULL"] /\ semval'["FINISH"] = semval["FINISH"]
       /\ \A r \in Readers : Inited(r)' => r # p /\ semval'["EMPTY"] = semval["EMPTY"]
  <2>1. /\ \A w \in Writers : Inited(w)' => w # p /\ ~(p \in Writers /\ Inited(p))
        /\ \A r \in Readers : Inited(r)' => r # p /\ ~(p \in Readers /\ Inited(p))
    BY <1>1, <1>4, OneOfRole DEF Inited
  <2> QED BY <2>1, <1>5 DEF Procs
<1>11. NotJoined'
  BY <1>1, <1>4, <1>6, <1>10 DEF SessionInv, NotJoined
<1>12. TokenCount'
  BY <1>1, <1>4, <1>6, <1>10 DEF SessionInv, TokenCount
<1>13. WriterLeft'
  BY <1>1, <1>2, <1>4, <1>6, <1>10 DEF SessionInv, WriterLeft
<1>14. ReaderLeft'
  BY <1>1, <1>2, <1>4 DEF SessionInv, ReaderLeft
<1> QED BY <1>7, <1>8, <1>9, <1>11, <1>12, <1>13, <1>14 DEF SessionInv

\* A process learns of a semaphore set, a new one if there is none.
LEMMA NewSetStep ==
  ASSUME TypeInv, ActiveInv, SessionInv, NEW p \in Procs, semget(p)
  PROVE  SessionInv'
<1> USE DEF TokenSems
<1>1. /\ \A w \in Writers : w \in Procs
      /\ \A r \in Readers : r \in Procs /\ r \notin Writers
  BY ShmAssumption DEF Procs
<1>2. \A q \in Procs : pc'[q] = IF q = p THEN IF p \in Writers THEN "wr_start" ELSE "rd_start"
                                         ELSE pc[q]
  BY DEF semget, Goto, TypeInv, TypeOK
<1>3. /\ semadj' = semadj
      /\ \A q \in Procs : (Inited(q)' <=> Inited(q)) /\ (Paired(q)' <=> Paired(q))
  BY DEF semget, Held, Inited, Paired, Own
<1>4. \A q \in Procs \ {p} : (Live(q)' <=> Live(q)) /\ semid'[q] = semid[q]
  BY DEF semget, Live, TypeInv, TypeOK
<1>5. \A q \in Procs : Token(q)' = Token(q)
  BY <1>2 DEF Token, Holding, semget, At
<1>6. Newcomers' /\ LoopPaired' /\ FormsAlone' /\ TokenAccounts'
  <2>1. Newcomers'
    BY <1>2, <1>4 DEF SessionInv, Newcomers, Strangers
  <2>2. LoopPaired'
    BY <1>2, <1>3, <1>4 DEF SessionInv, LoopPaired, Transferring, WrLoop, RdLoop
  <2>3. FormsAlone'
    BY <1>2, <1>3, <1>4 DEF SessionInv, FormsAlone, Preparing
  <2>4. TokenAccounts'
    BY <1>3 DEF SessionInv, TokenAccounts
  <2> QED BY <2>1, <2>2, <2>3, <2>4
<1>7. Prepared' /\ NotJoined' /\ TokenCount' /\ WriterLeft'
  <2>1. CASE semkey = 0
    <3>1. \A q \in Procs : ~Live(q) /\ ~Inited(q)
      BY <2>1, MemberFacts DEF Live
    <3> QED BY <3>1, <1>1, <1>2, <1>3, <1>4 DEF Prepared, NotJoined, TokenCount, WriterLeft
  <2>2. CASE semkey # 0
    <3>1. semval' = semval
      BY <2>2 DEF semget
    <3>2. Prepared'
      BY <3>1, <1>1, <1>2, <1>4 DEF SessionInv, Prepared
    <3>3. NotJoined'
      BY <3>1, <1>1, <1>3, <1>5 DEF SessionInv, NotJoined
    <3>4. TokenCount'
      BY <3>1, <1>1, <1>3, <1>5 DEF SessionInv, TokenCount
    <3>5. WriterLeft'
      BY <3>1, <1>1, <1>2, <1>3, <1>5 DEF SessionInv, WriterLeft, Leaving, semget, At
    <3> QED BY <3>2, <3>3, <3>4, <3>5
  <2> QED BY <2>1, <2>2
<1>8. ReaderLeft'
  BY <1>1, <1>2, <1>3 DEF SessionInv, ReaderLeft, Leaving
<1> QED BY <1>6, <1>7, <1>8 DEF SessionInv

\* The removal of the set ends every session on it.
LEMMA RemovalStep ==
  ASSUME TypeInv, ActiveInv, SessionInv, NEW r \in Readers, semrm(r), Live(r)
  PROVE  SessionInv'
<1>1. \A q \in Procs : ~Live(q)' /\ ~Inited(q)' /\ ~Paired(q)' /\ semadj'[q] = NoSems
  <2>1. \A q \in Procs : semadj'[q] = NoSems
    BY DEF semrm
  <2>2. \A q \in Procs : ~Live(q)'
    BY DEF semrm, Live
  <2> QED BY <2>1, <2>2 DEF Inited, Held, Own, Paired, NoSems, Sems
<1>2. \A q \in Procs : semid'[q] = semid[q] /\ (pc'[q] = pc[q] \/ pc'[q] = "exit")
  BY DEF semrm, Goto, TypeInv, TypeOK
<1>3. /\ \A w \in Writers : w \in Procs
      /\ \A q \in Readers : q \in Procs
  BY DEF Procs
<1>4. Newcomers'
  BY <1>2 DEF SessionInv, Newcomers, Strangers
<1>5. LoopPaired' /\ FormsAlone'
  BY <1>1 DEF LoopPaired, FormsAlone
<1>6. TokenAccounts'
  BY <1>1 DEF TokenAccounts, NoSems, TokenSems, Sems
<1>7. Prepared' /\ NotJoined' /\ TokenCount' /\ WriterLeft' /\ ReaderLeft'
  BY <1>1, <1>3 DEF Prepared, NotJoined, TokenCount, WriterLeft, ReaderLeft
<1> QED BY <1>4, <1>5, <1>6, <1>7 DEF SessionInv

-----------------------------------------------------------------------------
\* What the arrays of common.c do to the tokens

\* The array op leaves the tokens, and what the accounts say of them, alone.
NoToken(op) == \A x \in TokenSems : op.add[x] = 0 /\ x \notin op.undo

\* The array op adds n to the token x and leaves the others alone.
OnlyToken(op, x, n) == op.add[x] = n /\ \A y \in TokenSems \ {x} : op.add[y] = 0

LEMMA TokenOps ==
  /\ NoToken(sem_wr_start) /\ NoToken(sem_rd_start) /\ NoToken(sem_wait_pair)
  /\ NoToken(sem_wr_wait_rd) /\ NoToken(sem_rd_wait_wr)
  /\ NoToken(sem_p_mutex) /\ NoToken(sem_v_mutex)
  /\ NoToken(sem_wr_check_rd_alive) /\ NoToken(sem_rd_check_wr_alive)
  /\ OnlyToken(sem_p_empty, "EMPTY", -1) /\ OnlyToken(sem_v_empty, "EMPTY", 1)
  /\ OnlyToken(sem_p_full, "FULL", -1) /\ OnlyToken(sem_v_full, "FULL", 1)
  /\ OnlyToken(sem_wr_finish, "FINISH", 1)
  /\ sem_wr_init.add["EMPTY"] = 0 /\ sem_wr_init.add["FULL"] = -1
  /\ sem_wr_init.add["FINISH"] = -1
  /\ sem_wr_init.undo = {"WRITER", "FULL", "FINISH", "MUTEX"}
  /\ OnlyToken(sem_rd_init, "EMPTY", -1) /\ sem_rd_init.undo = {"READER", "EMPTY", "MUTEX"}
<1> USE DEF NoToken, OnlyToken, TokenSems, Sembufs, NoSems, Sems, P, V
<1>1. NoToken(sem_wr_start) /\ NoToken(sem_rd_start) /\ NoToken(sem_wait_pair)
  BY DEF sem_wr_start, sem_rd_start, sem_wait_pair
<1>2. NoToken(sem_wr_wait_rd) /\ NoToken(sem_rd_wait_wr)
  BY DEF sem_wr_wait_rd, sem_rd_wait_wr
<1>3. NoToken(sem_p_mutex) /\ NoToken(sem_v_mutex)
  BY DEF sem_p_mutex, sem_v_mutex
<1>4. NoToken(sem_wr_check_rd_alive) /\ NoToken(sem_rd_check_wr_alive)
  BY DEF sem_wr_check_rd_alive, sem_rd_check_wr_alive
<1>5. OnlyToken(sem_p_empty, "EMPTY", -1) /\ OnlyToken(sem_v_empty, "EMPTY", 1)
  BY DEF sem_p_empty, sem_v_empty
<1>6. OnlyToken(sem_p_full, "FULL", -1) /\ OnlyToken(sem_v_full, "FULL", 1)
  BY DEF sem_p_full, sem_v_full
<1>7. OnlyToken(sem_wr_finish, "FINISH", 1)
  BY DEF sem_wr_finish
<1>8. /\ sem_wr_init.add["EMPTY"] = 0 /\ sem_wr_init.add["FULL"] = -1
      /\ sem_wr_init.add["FINISH"] = -1
      /\ sem_wr_init.undo = {"WRITER", "FULL", "FINISH", "MUTEX"}
  BY DEF sem_wr_init
<1>9. OnlyToken(sem_rd_init, "EMPTY", -1) /\ sem_rd_init.undo = {"READER", "EMPTY", "MUTEX"}
  BY DEF sem_rd_init
<1> QED BY <1>1, <1>2, <1>3, <1>4, <1>5, <1>6, <1>7, <1>8, <1>9

\* What the liveness checks, and the waiting for the peer, test.
LEMMA TestOps ==
  /\ sem_wait_pair.zero = {"PAIR"}
  /\ sem_wr_wait_rd.atLeast["READER"] = 2 /\ sem_rd_wait_wr.atLeast["WRITER"] = 2
  /\ sem_wr_check_rd_alive.atLeast["PAIR"] = 2 /\ sem_rd_check_wr_alive.atLeast["PAIR"] = 2
  /\ sem_rd_check_wr_alive.zero = {"FINISH"}
  /\ \A x \in Sems : x # "PAIR" => sem_rd_check_wr_alive.atLeast[x] = 0
  /\ \A x \in Sems : sem_rd_check_wr_alive.add[x] = 0
<1> USE DEF Sembufs, NoSems, Sems
<1>1. sem_wait_pair.zero = {"PAIR"}
  BY DEF sem_wait_pair
<1>2. sem_wr_wait_rd.atLeast["READER"] = 2 /\ sem_rd_wait_wr.atLeast["WRITER"] = 2
  BY DEF sem_wr_wait_rd, sem_rd_wait_wr
<1>3. sem_wr_check_rd_alive.atLeast["PAIR"] = 2
  BY DEF sem_wr_check_rd_alive
<1>4. /\ sem_rd_check_wr_alive.atLeast["PAIR"] = 2
      /\ sem_rd_check_wr_alive.zero = {"FINISH"}
      /\ \A x \in Sems : x # "PAIR" => sem_rd_check_wr_alive.atLeast[x] = 0
      /\ \A x \in Sems : sem_rd_check_wr_alive.add[x] = 0
  BY DEF sem_rd_check_wr_alive
<1> QED BY <1>1, <1>2, <1>3, <1>4

\* A semop() that raises one role semaphore by 1, with what it does to the tokens.
LEMMA RaiseSplit ==
  ASSUME TypeInv, ActiveInv, NEW p \in Procs, NEW op \in SembufsType, NEW ok, NEW fail,
         semop(p, op, ok, fail), NEW x \in RoleSems, RaisesOnly(op, x)
  PROVE  \/ /\ Live(p) /\ Ready(op, semval) /\ Raises(p, x, 1) /\ Goto(p, ok)
            /\ \A y \in TokenSems :
                 /\ semval'[y] = semval[y] + op.add[y]
                 /\ semadj'[p][y] = IF y \in op.undo THEN semadj[p][y] - op.add[y]
                                    ELSE semadj[p][y]
         \/ /\ ~Paired(p) /\ Goto(p, fail)
            /\ UNCHANGED <<semkey, semid, semval, semadj>>
<1> USE DEF RoleSems, TokenSems, Sems
<1>1. CASE /\ Live(p) /\ Ready(op, semval)
           /\ semval' = Performed(op, semval)
           /\ semadj' = [semadj EXCEPT ![p] = Account(op, @)]
           /\ Goto(p, ok)
  <2>1. semval'[x] = semval[x] + 1 /\ semval[x] \in Nat
    BY <1>1 DEF Performed, RaisesOnly, TypeInv, TypeOK
  <2>2. Raises(p, x, 1)
    BY <2>1, SemopRaises DEF RaisesOnly
  <2>3. \A y \in TokenSems : semval'[y] = semval[y] + op.add[y]
    BY <1>1 DEF Performed
  <2>4. semadj'[p] = Account(op, semadj[p])
    BY <1>1 DEF TypeInv, TypeOK
  <2>5. \A y \in TokenSems : semadj'[p][y] = IF y \in op.undo THEN semadj[p][y] - op.add[y]
                                             ELSE semadj[p][y]
    BY <2>4 DEF Account
  <2> QED BY <1>1, <2>2, <2>3, <2>5
<1>2. CASE ~Live(p) /\ Goto(p, fail) /\ UNCHANGED <<semval, semadj>>
  BY <1>2, MemberFacts DEF semop
<1> QED BY <1>1, <1>2 DEF semop, RaisesOnly

\* When such a semop() raises no token the tokens are the same for everybody.
LEMMA RaiseSameTokens ==
  ASSUME TypeInv, NEW p \in Procs, NEW op, NoToken(op), NEW x, Raises(p, x, 1),
         \A y \in TokenSems :
           /\ semval'[y] = semval[y] + op.add[y]
           /\ semadj'[p][y] = IF y \in op.undo THEN semadj[p][y] - op.add[y]
                              ELSE semadj[p][y]
  PROVE  SameTokens
<1>1. \A y \in TokenSems : semval[y] \in Nat
  BY DEF TokenSems, TypeInv, TypeOK, Sems
<1>2. \A q \in Procs \ {p} : semadj'[q] = semadj[q]
  BY DEF Raises
<1> QED BY <1>1, <1>2 DEF SameTokens, NoToken

\* A step that fails a blocking semop(), or that fails before the process is
\* counted, ends a process that is not in the pair.
LEMMA GiveUpStep ==
  ASSUME TypeInv, ActiveInv, SessionInv, NEW p \in Procs, ~Paired(p),
         Quiet(p, "exit"), SameTokens
  PROVE  SessionInv'
<1>1. Follows(p, "exit")
  BY DEF Follows, Strangers, Transferring, WrLoop, RdLoop, Preparing, Holding, Leaving
<1> QED BY <1>1, CalmStep, QuietFacts

LEMMA UnchangedGiveUp ==
  ASSUME TypeInv, ActiveInv, SessionInv, NEW p \in Procs, ~Paired(p),
         Goto(p, "exit"), UNCHANGED <<semkey, semid, semval, semadj>>
  PROVE  SessionInv'
<1>1. Quiet(p, "exit") /\ SameTokens
  BY DEF Quiet, SamePhase, SameTokens
<1> QED BY <1>1, GiveUpStep

\* A process becomes the active one of its role.
LEMMA StartStep ==
  ASSUME TypeInv, ActiveInv, SessionInv, NEW p \in Procs, pc[p] \in Outside,
         Raises(p, Own(p), 1), SameTokens, Goto(p, "wait_pair")
  PROVE  SessionInv'
<1>1. Held(p) = 0
  BY DEF ActiveInv, AccountsOK, Held, Own, NoSems, Sems
<1>2. SameMembers(p, "wait_pair")
  BY <1>1, RaiseFacts DEF SameMembers, Inited
<1>3. Follows(p, "wait_pair")
  BY DEF Follows, Outside, Strangers, Transferring, WrLoop, RdLoop, Preparing, Holding, Leaving
<1> QED BY <1>2, <1>3, CalmStep

\* SETVAL of a semaphore that is nobody's role.
LEMMA SetvalSplit ==
  ASSUME TypeInv, ActiveInv, NEW p \in Procs, NEW x \in Sems \ RoleSems, NEW n, NEW ok,
         setval(p, x, n, ok), SamePhase(pc[p], ok), ok # "exit"
  PROVE  \/ /\ Live(p) /\ Quiet(p, ok) /\ semval'[x] = n
            /\ \A y \in TokenSems \ {x} : semval'[y] = semval[y]
            /\ \A q \in Procs : /\ semadj'[q][x] = 0
                                /\ \A y \in TokenSems \ {x} : semadj'[q][y] = semadj[q][y]
         \/ ~Paired(p) /\ Quiet(p, "exit") /\ SameTokens
<1> USE DEF RoleSems, TokenSems, Sems
<1>1. Quiet(p, ok) \/ Quiet(p, "exit")
  BY SetvalQuiet
<1>2. \A there : Quiet(p, there) => pc'[p] = there
  BY QuietFacts DEF SameMembers
<1>3. CASE /\ Live(p)
           /\ semval' = [semval EXCEPT ![x] = n]
           /\ semadj' = [q \in Procs |-> [semadj[q] EXCEPT ![x] = 0]]
           /\ Goto(p, ok)
  <2>1. pc'[p] = ok
    BY <1>3 DEF Goto, TypeInv, TypeOK
  <2>2. Quiet(p, ok)
    BY <1>1, <1>2, <2>1
  <2>3. \A q \in Procs : semadj[q] \in [Sems -> Int]
    BY DEF TypeInv, TypeOK
  <2>4. \A q \in Procs : /\ semadj'[q][x] = 0
                         /\ \A y \in TokenSems \ {x} : semadj'[q][y] = semadj[q][y]
    BY <1>3, <2>3
  <2>5. semval'[x] = n /\ \A y \in TokenSems \ {x} : semval'[y] = semval[y]
    BY <1>3 DEF TypeInv, TypeOK
  <2> QED BY <1>3, <2>2, <2>4, <2>5
<1>4. CASE ~Live(p) /\ Goto(p, "exit") /\ UNCHANGED <<semval, semadj>>
  <2>1. pc'[p] = "exit"
    BY <1>4 DEF Goto, TypeInv, TypeOK
  <2>2. Quiet(p, "exit")
    BY <1>1, <1>2, <2>1
  <2>3. ~Paired(p)
    BY <1>4, MemberFacts
  <2> QED BY <1>4, <2>2, <2>3 DEF SameTokens
<1> QED BY <1>3, <1>4 DEF setval

\* A step that touches no semaphore.
LEMMA NoSemStep ==
  ASSUME TypeInv, ActiveInv, SessionInv, NEW p \in Procs, NEW there, Goto(p, there),
         SamePhase(pc[p], there), UNCHANGED semVars, Follows(p, there)
  PROVE  SessionInv'
<1>1. Quiet(p, there)
  BY NoSemQuiet
<1>2. SameTokens
  BY DEF SameTokens, semVars
<1> QED BY <1>1, <1>2, CalmStep, QuietFacts

\* A semop() that touches neither role semaphores nor tokens.
LEMMA CalmSemop ==
  ASSUME TypeInv, ActiveInv, SessionInv, NEW p \in Procs, NEW op \in SembufsType,
         NEW ok, NEW fail, semop(p, op, ok, fail),
         \A x \in RoleSems : op.add[x] = 0, op.undo = {}, NoToken(op),
         SamePhase(pc[p], ok), SamePhase(pc[p], fail),
         Live(p) /\ Ready(op, semval) => Follows(p, ok),
         ~Paired(p) \/ (op.nowait /\ ~Ready(op, semval)) => Follows(p, fail)
  PROVE  SessionInv'
<1>1. CASE /\ Live(p) /\ Ready(op, semval) /\ Quiet(p, ok)
           /\ \A x \in TokenSems : semval'[x] = semval[x] + op.add[x]
           /\ semadj' = semadj
  <2>1. \A x \in TokenSems : semval[x] \in Nat
    BY DEF TokenSems, TypeInv, TypeOK, Sems
  <2>2. SameTokens
    BY <1>1, <2>1 DEF SameTokens, NoToken
  <2> QED BY <1>1, <2>2, CalmStep, QuietFacts
<1>2. CASE /\ Quiet(p, fail) /\ SameTokens
           /\ ~Paired(p) \/ (op.nowait /\ ~Ready(op, semval))
  BY <1>2, CalmStep, QuietFacts
<1> QED BY <1>1, <1>2, SemopSplit

LEMMA WriterSession ==
  ASSUME TypeInv, ActiveInv, SessionInv, NEW w \in Writers, Writer(w)
  PROVE  SessionInv'
<1>1. /\ w \in Procs /\ Own(w) = "WRITER" /\ Other(w) = "READER"
      /\ "WRITER" \in RoleSems /\ "PAIR" \in RoleSems
  BY DEF Procs, Own, Other, RoleSems
<1>2. pc[w] \in Outside \cup Initialising \cup Waiting => ~Paired(w)
  BY <1>1, MemberFacts
     DEF Outside, Initialising, Waiting, Transferring, WrInit, RdInit, WrLoop, RdLoop
<1> USE DEF At, SamePhase, Outside, Initialising, Waiting, Transferring, WrInit, WrLoop,
            RdInit, RdLoop, Follows, Strangers, Preparing, Holding, Leaving
<1>3. CASE make_file(w)
  <2>1. PICK there \in {"shmget", "exit"} : Goto(w, there)
    BY <1>3 DEF make_file
  <2> QED BY <1>1, <1>2, <1>3, <2>1, NoSemStep DEF make_file
<1>4. CASE shmget(w)
  BY <1>1, <1>2, <1>4, NoSemStep DEF shmget
<1>5. CASE shmat(w)
  <2>1. PICK there \in {"semget", "exit"} : Goto(w, there)
    BY <1>5 DEF shmat
  <2> QED BY <1>1, <1>2, <1>5, <2>1, NoSemStep DEF shmat
<1>6. CASE semget(w)
  BY <1>1, <1>6, NewSetStep
<1>7. CASE wr_start(w)
  <2>1. semop(w, sem_wr_start, "wait_pair", "exit") /\ pc[w] \in Outside
    BY <1>7 DEF wr_start
  <2>2. CASE /\ Raises(w, "WRITER", 1) /\ Goto(w, "wait_pair")
             /\ \A y \in TokenSems :
                  /\ semval'[y] = semval[y] + sem_wr_start.add[y]
                  /\ semadj'[w][y] = IF y \in sem_wr_start.undo
                                     THEN semadj[w][y] - sem_wr_start.add[y]
                                     ELSE semadj[w][y]
    <3>1. SameTokens
      BY <1>1, <2>2, RaiseSameTokens, TokenOps
    <3> QED BY <1>1, <2>1, <2>2, <3>1, StartStep
  <2>3. CASE ~Paired(w) /\ Goto(w, "exit") /\ UNCHANGED <<semkey, semid, semval, semadj>>
    BY <1>1, <2>3, UnchangedGiveUp
  <2> QED BY <1>1, <2>1, <2>2, <2>3, RaiseSplit, RaisingOps, SummaryTypes
<1>8. CASE wr_wait_pair(w)
  <2>1. Ready(sem_wait_pair, semval) => semval["PAIR"] = 0
    BY TestOps DEF Ready
  <2> QED BY <1>1, <1>2, <1>8, <2>1, CalmSemop, QuietOps, TokenOps, SummaryTypes
      DEF wr_wait_pair
<1>9. CASE set_finish(w)
  <2>1. setval(w, "FINISH", 1, "set_mutex") /\ pc[w] = "set_finish"
    BY <1>9 DEF set_finish
  <2>2. SetValues["set_finish"] = [sem |-> "FINISH", value |-> 1, next |-> "set_mutex"]
    BY DEF SetValues
  <2> QED BY <1>1, <2>1, <2>2, SetvalSplit, SetStep, GiveUpStep DEF Sems, RoleSems
<1>10. CASE set_mutex(w)
  <2>1. setval(w, "MUTEX", 3, "set_full") /\ pc[w] = "set_mutex"
    BY <1>10 DEF set_mutex
  <2>2. Follows(w, "set_full")
    BY <2>1
  <2>3. CASE /\ Quiet(w, "set_full")
             /\ \A y \in TokenSems : semval'[y] = semval[y]
             /\ \A q \in Procs : \A y \in TokenSems : semadj'[q][y] = semadj[q][y]
    <3>1. SameTokens
      BY <2>3 DEF SameTokens
    <3> QED BY <1>1, <2>2, <2>3, <3>1, CalmStep, QuietFacts
  <2>4. CASE ~Paired(w) /\ Quiet(w, "exit") /\ SameTokens
    BY <1>1, <2>4, GiveUpStep
  <2> QED BY <1>1, <2>1, <2>3, <2>4, SetvalSplit DEF Sems, RoleSems, TokenSems
<1>11. CASE set_full(w)
  <2>1. setval(w, "FULL", 1, "wr_init") /\ pc[w] = "set_full"
    BY <1>11 DEF set_full
  <2>2. SetValues["set_full"] = [sem |-> "FULL", value |-> 1, next |-> "wr_init"]
    BY DEF SetValues
  <2> QED BY <1>1, <2>1, <2>2, SetvalSplit, SetStep, GiveUpStep DEF Sems, RoleSems
<1>12. CASE wr_init(w)
  <2>1. semop(w, sem_wr_init, "wr_wait_rd", "exit") /\ pc[w] = "wr_init"
    BY <1>12 DEF wr_init
  <2>2. CASE /\ Live(w) /\ Raises(w, "WRITER", 1) /\ Goto(w, "wr_wait_rd")
             /\ \A y \in TokenSems :
                  /\ semval'[y] = semval[y] + sem_wr_init.add[y]
                  /\ semadj'[w][y] = IF y \in sem_wr_init.undo
                                     THEN semadj[w][y] - sem_wr_init.add[y]
                                     ELSE semadj[w][y]
    <3>1. /\ semval["EMPTY"] \in Nat /\ semval["FULL"] \in Nat /\ semval["FINISH"] \in Nat
          /\ semadj[w]["EMPTY"] \in Int /\ semadj[w]["FULL"] \in Int
          /\ semadj[w]["FINISH"] \in Int
      BY <1>1 DEF TypeInv, TypeOK, Sems
    <3>2. /\ semval'["EMPTY"] = semval["EMPTY"]
          /\ semval'["FULL"] = semval["FULL"] - 1 /\ semval'["FINISH"] = semval["FINISH"] - 1
          /\ semadj'[w]["EMPTY"] = semadj[w]["EMPTY"]
          /\ semadj'[w]["FULL"] = semadj[w]["FULL"] + 1
          /\ semadj'[w]["FINISH"] = semadj[w]["FINISH"] + 1
      BY <2>2, <3>1, TokenOps DEF TokenSems
    <3> QED BY <2>1, <2>2, <3>2, WrInitStep
  <2>3. CASE ~Paired(w) /\ Goto(w, "exit") /\ UNCHANGED <<semkey, semid, semval, semadj>>
    BY <1>1, <2>3, UnchangedGiveUp
  <2> QED BY <1>1, <2>1, <2>2, <2>3, RaiseSplit, RaisingOps, SummaryTypes
<1>13. CASE wr_wait_rd(w)
  <2>1. semop(w, sem_wr_wait_rd, "p_empty", "exit") /\ pc[w] = "wr_wait_rd"
    BY <1>13 DEF wr_wait_rd
  <2>2. CASE /\ Live(w) /\ Ready(sem_wr_wait_rd, semval)
             /\ Raises(w, "PAIR", 1) /\ Goto(w, "p_empty")
             /\ \A y \in TokenSems :
                  /\ semval'[y] = semval[y] + sem_wr_wait_rd.add[y]
                  /\ semadj'[w][y] = IF y \in sem_wr_wait_rd.undo
                                     THEN semadj[w][y] - sem_wr_wait_rd.add[y]
                                     ELSE semadj[w][y]
    <3>1. SameTokens
      BY <1>1, <2>2, RaiseSameTokens, TokenOps
    <3>2. semval["READER"] >= 2
      BY <2>2, TestOps DEF Ready, Sems
    <3> QED BY <1>1, <2>1, <2>2, <3>1, <3>2, JoinStep
  <2>3. CASE ~Paired(w) /\ Goto(w, "exit") /\ UNCHANGED <<semkey, semid, semval, semadj>>
    BY <1>1, <2>3, UnchangedGiveUp
  <2> QED BY <1>1, <2>1, <2>2, <2>3, RaiseSplit, RaisingOps, SummaryTypes
<1>14. CASE p_empty(w)
  <2>1. semop(w, sem_p_empty, "p_mutex", "shmdt") /\ pc[w] = "p_empty"
    BY <1>14 DEF p_empty
  <2>2. CASE /\ Live(w) /\ Ready(sem_p_empty, semval) /\ Quiet(w, "p_mutex")
             /\ \A x \in TokenSems : semval'[x] = semval[x] + sem_p_empty.add[x]
             /\ semadj' = semadj
    <3>1. \A x \in TokenSems : semval[x] \in Nat /\ x \in Sems
      BY DEF TokenSems, TypeInv, TypeOK, Sems
    <3>2. semval["EMPTY"] >= 1
      BY <2>2, <3>1, TokenOps DEF Ready, OnlyToken, TokenSems
    <3>3. /\ semval'["EMPTY"] = semval["EMPTY"] - 1
          /\ \A x \in TokenSems \ {"EMPTY"} : semval'[x] = semval[x]
      BY <2>2, <3>1, TokenOps DEF OnlyToken, TokenSems
    <3> QED BY <1>1, <2>1, <2>2, <3>2, <3>3, TakeStep DEF Taken
  <2>3. CASE Quiet(w, "shmdt") /\ SameTokens /\ ~Paired(w)
    BY <1>1, <2>1, <2>3, CalmStep, QuietFacts
  <2> QED BY <1>1, <2>1, <2>2, <2>3, SemopSplit, QuietOps, SummaryTypes DEF sem_p_empty, P, Sembufs
<1>15. CASE wr_p_mutex(w)
  BY <1>1, <1>15, CalmSemop, QuietOps, TokenOps, SummaryTypes DEF wr_p_mutex
<1>16. CASE wr_check_alive(w)
  BY <1>1, <1>16, CalmSemop, QuietOps, TokenOps, SummaryTypes DEF wr_check_alive
<1>17. CASE produce_item(w)
  <2>1. PICK there \in {"put_item", "finish", "shmdt"} : Goto(w, there)
    BY <1>17 DEF produce_item
  <2> QED BY <1>1, <1>17, <2>1, NoSemStep DEF produce_item
<1>18. CASE finish(w)
  <2>1. semop(w, sem_wr_finish, "shmdt", "shmdt") /\ pc[w] = "finish"
    BY <1>18 DEF finish
  <2>2. CASE /\ Live(w) /\ Quiet(w, "shmdt")
             /\ \A x \in TokenSems : semval'[x] = semval[x] + sem_wr_finish.add[x]
             /\ semadj' = semadj
    <3>1. \A x \in TokenSems : semval[x] \in Nat
      BY DEF TokenSems, TypeInv, TypeOK, Sems
    <3>2. /\ semval'["FINISH"] = semval["FINISH"] + 1
          /\ semval'["EMPTY"] = semval["EMPTY"] /\ semval'["FULL"] = semval["FULL"]
      BY <2>2, <3>1, TokenOps DEF OnlyToken, TokenSems
    <3> QED BY <2>1, <2>2, <3>2, FinishStep
  <2>3. CASE Quiet(w, "shmdt") /\ SameTokens
    BY <1>1, <2>1, <2>3, CalmStep, QuietFacts
  <2> QED BY <1>1, <2>1, <2>2, <2>3, SemopSplit, QuietOps, SummaryTypes
<1>19. CASE put_item(w)
  BY <1>1, <1>19, NoSemStep DEF put_item
<1>20. CASE wr_v_mutex(w)
  BY <1>1, <1>20, CalmSemop, QuietOps, TokenOps, SummaryTypes DEF wr_v_mutex
<1>21. CASE v_full(w)
  <2>1. semop(w, sem_v_full, "p_empty", "shmdt") /\ pc[w] = "v_full"
    BY <1>21 DEF v_full
  <2>2. CASE /\ Live(w) /\ Quiet(w, "p_empty")
             /\ \A x \in TokenSems : semval'[x] = semval[x] + sem_v_full.add[x]
             /\ semadj' = semadj
    <3>1. \A x \in TokenSems : semval[x] \in Nat
      BY DEF TokenSems, TypeInv, TypeOK, Sems
    <3>2. /\ semval'["FULL"] = semval["FULL"] + 1
          /\ \A x \in TokenSems \ {"FULL"} : semval'[x] = semval[x]
      BY <2>2, <3>1, TokenOps DEF OnlyToken, TokenSems
    <3> QED BY <1>1, <2>1, <2>2, <3>2, GiveStep DEF Given
  <2>3. CASE Quiet(w, "shmdt") /\ SameTokens
    BY <1>1, <2>1, <2>3, CalmStep, QuietFacts
  <2> QED BY <1>1, <2>1, <2>2, <2>3, SemopSplit, QuietOps, SummaryTypes
<1>22. CASE shmdt(w)
  BY <1>1, <1>22, NoSemStep DEF shmdt
<1>23. CASE shmrm(w)
  BY <1>1, <1>23, NoSemStep DEF shmrm
<1>24. CASE exit(w)
  BY <1>1, <1>24, EndStep DEF exit
<1> QED BY <1>3, <1>4, <1>5, <1>6, <1>7, <1>8, <1>9, <1>10, <1>11, <1>12, <1>13, <1>14, <1>15,
           <1>16, <1>17, <1>18, <1>19, <1>20, <1>21, <1>22, <1>23, <1>24 DEF Writer

LEMMA ReaderSession ==
  ASSUME TypeInv, ActiveInv, SessionInv, NEW r \in Readers, Reader(r)
  PROVE  SessionInv'
<1>1. /\ r \in Procs /\ r \notin Writers /\ Own(r) = "READER" /\ Other(r) = "WRITER"
      /\ "READER" \in RoleSems /\ "PAIR" \in RoleSems
  BY ShmAssumption DEF Procs, Own, Other, RoleSems
<1>2. pc[r] \in Outside \cup Initialising \cup Waiting => ~Paired(r)
  BY <1>1, MemberFacts
     DEF Outside, Initialising, Waiting, Transferring, WrInit, RdInit, WrLoop, RdLoop
<1> USE DEF At, SamePhase, Outside, Initialising, Waiting, Transferring, WrInit, WrLoop,
            RdInit, RdLoop, Follows, Strangers, Preparing, Holding, Leaving
<1>3. CASE shmget(r)
  BY <1>1, <1>2, <1>3, NoSemStep DEF shmget
<1>4. CASE shmat(r)
  <2>1. PICK there \in {"semget", "exit"} : Goto(r, there)
    BY <1>4 DEF shmat
  <2> QED BY <1>1, <1>2, <1>4, <2>1, NoSemStep DEF shmat
<1>5. CASE semget(r)
  BY <1>1, <1>5, NewSetStep
<1>6. CASE rd_start(r)
  <2>1. semop(r, sem_rd_start, "wait_pair", "exit") /\ pc[r] \in Outside
    BY <1>6 DEF rd_start
  <2>2. CASE /\ Raises(r, "READER", 1) /\ Goto(r, "wait_pair")
             /\ \A y \in TokenSems :
                  /\ semval'[y] = semval[y] + sem_rd_start.add[y]
                  /\ semadj'[r][y] = IF y \in sem_rd_start.undo
                                     THEN semadj[r][y] - sem_rd_start.add[y]
                                     ELSE semadj[r][y]
    <3>1. SameTokens
      BY <1>1, <2>2, RaiseSameTokens, TokenOps
    <3> QED BY <1>1, <2>1, <2>2, <3>1, StartStep
  <2>3. CASE ~Paired(r) /\ Goto(r, "exit") /\ UNCHANGED <<semkey, semid, semval, semadj>>
    BY <1>1, <2>3, UnchangedGiveUp
  <2> QED BY <1>1, <2>1, <2>2, <2>3, RaiseSplit, RaisingOps, SummaryTypes
<1>7. CASE rd_wait_pair(r)
  <2>1. Ready(sem_wait_pair, semval) => semval["PAIR"] = 0
    BY TestOps DEF Ready
  <2> QED BY <1>1, <1>2, <1>7, <2>1, CalmSemop, QuietOps, TokenOps, SummaryTypes
      DEF rd_wait_pair
<1>8. CASE set_empty(r)
  <2>1. setval(r, "EMPTY", 2, "rd_init") /\ pc[r] = "set_empty"
    BY <1>8 DEF set_empty
  <2>2. SetValues["set_empty"] = [sem |-> "EMPTY", value |-> 2, next |-> "rd_init"]
    BY DEF SetValues
  <2> QED BY <1>1, <2>1, <2>2, SetvalSplit, SetStep, GiveUpStep DEF Sems, RoleSems
<1>9. CASE rd_init(r)
  <2>1. semop(r, sem_rd_init, "rd_wait_wr", "exit") /\ pc[r] = "rd_init"
    BY <1>9 DEF rd_init
  <2>2. CASE /\ Live(r) /\ Raises(r, "READER", 1) /\ Goto(r, "rd_wait_wr")
             /\ \A y \in TokenSems :
                  /\ semval'[y] = semval[y] + sem_rd_init.add[y]
                  /\ semadj'[r][y] = IF y \in sem_rd_init.undo
                                     THEN semadj[r][y] - sem_rd_init.add[y]
                                     ELSE semadj[r][y]
    <3>1. /\ semval["EMPTY"] \in Nat /\ semval["FULL"] \in Nat /\ semval["FINISH"] \in Nat
          /\ semadj[r]["EMPTY"] \in Int
      BY <1>1 DEF TypeInv, TypeOK, Sems
    <3>2. /\ semval'["EMPTY"] = semval["EMPTY"] - 1
          /\ semval'["FULL"] = semval["FULL"] /\ semval'["FINISH"] = semval["FINISH"]
          /\ semadj'[r]["EMPTY"] = semadj[r]["EMPTY"] + 1
          /\ semadj'[r]["FULL"] = semadj[r]["FULL"]
          /\ semadj'[r]["FINISH"] = semadj[r]["FINISH"]
      BY <2>2, <3>1, TokenOps DEF TokenSems, OnlyToken
    <3> QED BY <2>1, <2>2, <3>2, RdInitStep
  <2>3. CASE ~Paired(r) /\ Goto(r, "exit") /\ UNCHANGED <<semkey, semid, semval, semadj>>
    BY <1>1, <2>3, UnchangedGiveUp
  <2> QED BY <1>1, <2>1, <2>2, <2>3, RaiseSplit, RaisingOps, SummaryTypes
<1>10. CASE rd_wait_wr(r)
  <2>1. semop(r, sem_rd_wait_wr, "p_full", "exit") /\ pc[r] = "rd_wait_wr"
    BY <1>10 DEF rd_wait_wr
  <2>2. CASE /\ Live(r) /\ Ready(sem_rd_wait_wr, semval)
             /\ Raises(r, "PAIR", 1) /\ Goto(r, "p_full")
             /\ \A y \in TokenSems :
                  /\ semval'[y] = semval[y] + sem_rd_wait_wr.add[y]
                  /\ semadj'[r][y] = IF y \in sem_rd_wait_wr.undo
                                     THEN semadj[r][y] - sem_rd_wait_wr.add[y]
                                     ELSE semadj[r][y]
    <3>1. SameTokens
      BY <1>1, <2>2, RaiseSameTokens, TokenOps
    <3>2. semval["WRITER"] >= 2
      BY <2>2, TestOps DEF Ready, Sems
    <3> QED BY <1>1, <2>1, <2>2, <3>1, <3>2, JoinStep
  <2>3. CASE ~Paired(r) /\ Goto(r, "exit") /\ UNCHANGED <<semkey, semid, semval, semadj>>
    BY <1>1, <2>3, UnchangedGiveUp
  <2> QED BY <1>1, <2>1, <2>2, <2>3, RaiseSplit, RaisingOps, SummaryTypes
<1>11. CASE p_full(r)
  <2>1. semop(r, sem_p_full, "p_mutex", "shmdt") /\ pc[r] = "p_full"
    BY <1>11 DEF p_full
  <2>2. CASE /\ Live(r) /\ Ready(sem_p_full, semval) /\ Quiet(r, "p_mutex")
             /\ \A x \in TokenSems : semval'[x] = semval[x] + sem_p_full.add[x]
             /\ semadj' = semadj
    <3>1. \A x \in TokenSems : semval[x] \in Nat /\ x \in Sems
      BY DEF TokenSems, TypeInv, TypeOK, Sems
    <3>2. semval["FULL"] >= 1
      BY <2>2, <3>1, TokenOps DEF Ready, OnlyToken, TokenSems
    <3>3. /\ semval'["FULL"] = semval["FULL"] - 1
          /\ \A x \in TokenSems \ {"FULL"} : semval'[x] = semval[x]
      BY <2>2, <3>1, TokenOps DEF OnlyToken, TokenSems
    <3> QED BY <1>1, <2>1, <2>2, <3>2, <3>3, TakeStep DEF Taken
  <2>3. CASE Quiet(r, "shmdt") /\ SameTokens /\ ~Paired(r)
    BY <1>1, <2>1, <2>3, CalmStep, QuietFacts
  <2> QED BY <1>1, <2>1, <2>2, <2>3, SemopSplit, QuietOps, SummaryTypes DEF sem_p_full, P, Sembufs
<1>12. CASE rd_p_mutex(r)
  <2>1. ~sem_p_mutex.nowait
    BY DEF sem_p_mutex, P, Sembufs
  <2> QED BY <1>1, <1>12, <2>1, CalmSemop, QuietOps, TokenOps, SummaryTypes DEF rd_p_mutex
<1>13. CASE rd_check_alive(r)
  <2>1. ~Ready(sem_rd_check_wr_alive, semval) => semval["PAIR"] < 2 \/ semval["FINISH"] # 0
    <3>1. \A x \in Sems : semval[x] \in Nat
      BY DEF TypeInv, TypeOK
    <3> QED BY <3>1, TestOps DEF Ready, Sems
  <2> QED BY <1>1, <1>13, <2>1, CalmSemop, QuietOps, TokenOps, SummaryTypes DEF rd_check_alive
<1>14. CASE get_item(r)
  BY <1>1, <1>14, NoSemStep DEF get_item
<1>15. CASE rd_v_mutex(r)
  <2>1. ~sem_v_mutex.nowait
    BY DEF sem_v_mutex, V, Sembufs
  <2> QED BY <1>1, <1>15, <2>1, CalmSemop, QuietOps, TokenOps, SummaryTypes DEF rd_v_mutex
<1>16. CASE v_empty(r)
  <2>1. semop(r, sem_v_empty, "p_full", "shmdt") /\ pc[r] = "v_empty" /\ ~sem_v_empty.nowait
    BY <1>16 DEF v_empty, sem_v_empty, V, Sembufs
  <2>2. CASE /\ Live(r) /\ Quiet(r, "p_full")
             /\ \A x \in TokenSems : semval'[x] = semval[x] + sem_v_empty.add[x]
             /\ semadj' = semadj
    <3>1. \A x \in TokenSems : semval[x] \in Nat
      BY DEF TokenSems, TypeInv, TypeOK, Sems
    <3>2. /\ semval'["EMPTY"] = semval["EMPTY"] + 1
          /\ \A x \in TokenSems \ {"EMPTY"} : semval'[x] = semval[x]
      BY <2>2, <3>1, TokenOps DEF OnlyToken, TokenSems
    <3> QED BY <1>1, <2>1, <2>2, <3>2, GiveStep DEF Given
  <2>3. CASE Quiet(r, "shmdt") /\ SameTokens /\ ~Paired(r)
    BY <1>1, <2>1, <2>3, CalmStep, QuietFacts
  <2> QED BY <1>1, <2>1, <2>2, <2>3, SemopSplit, QuietOps, SummaryTypes
<1>17. CASE shmdt(r)
  BY <1>1, <1>17, NoSemStep DEF shmdt
<1>18. CASE semrm(r)
  <2>1. CASE Live(r)
    BY <1>18, <2>1, RemovalStep
  <2>2. CASE ~Live(r)
    <3>1. ~Paired(r)
      BY <1>1, <2>2, MemberFacts
    <3> QED BY <1>1, <1>18, <2>2, <3>1, UnchangedGiveUp DEF semrm
  <2> QED BY <2>1, <2>2
<1>19. CASE exit(r)
  BY <1>1, <1>19, EndStep DEF exit
<1> QED BY <1>3, <1>4, <1>5, <1>6, <1>7, <1>8, <1>9, <1>10, <1>11, <1>12, <1>13, <1>14, <1>15,
           <1>16, <1>17, <1>18, <1>19 DEF Reader

LEMMA SessionStep == TypeInv /\ ActiveInv /\ SessionInv /\ [Next]_vars => SessionInv'
<1> SUFFICES ASSUME TypeInv, ActiveInv, SessionInv, [Next]_vars PROVE SessionInv'
  OBVIOUS
<1>1. CASE UNCHANGED vars
  BY <1>1
     DEF vars, SessionInv, Newcomers, LoopPaired, FormsAlone, TokenAccounts, Prepared, NotJoined,
         TokenCount, WriterLeft, ReaderLeft, Inited, Held, Own, Paired, Live, Token
<1>2. CASE \E w \in Writers : Writer(w)
  BY <1>2, WriterSession
<1>3. CASE \E r \in Readers : Reader(r)
  BY <1>3, ReaderSession
<1>4. CASE \E p \in Procs : kill(p)
  BY <1>4, EndStep DEF kill
<1>5. CASE \E p \in Procs : interrupt(p)
  <2>1. PICK p \in Procs : interrupt(p)
    BY <1>5
  <2>2. PICK there \in {"shmdt", "exit"} :
          /\ Goto(p, there)
          /\ there = "shmdt" => pc[p] \in {"p_empty", "p_full", "p_mutex"}
          /\ pc[p] \in DOMAIN SleepsOn
    BY <2>1 DEF interrupt
  <2>3. Follows(p, there) /\ SamePhase(pc[p], there)
    BY <2>1, <2>2, SleepLabels
       DEF interrupt, Follows, SamePhase, Outside, Initialising, Waiting, Transferring, WrInit,
           WrLoop, RdInit, RdLoop, Strangers, Preparing, Holding, Leaving
  <2> QED BY <2>1, <2>2, <2>3, NoSemStep DEF interrupt
<1> QED BY <1>1, <1>2, <1>3, <1>4, <1>5 DEF Next

LEMMA SessionInit == Init => SessionInv
<1> SUFFICES ASSUME Init PROVE SessionInv
  OBVIOUS
<1>1. \A p \in Procs : ~Live(p) /\ semid[p] = 0 /\ semadj[p] = NoSems
  BY DEF Init, Live
<1>2. \A p \in Procs : ~Inited(p) /\ ~Paired(p)
  BY <1>1 DEF Inited, Held, Own, Paired, NoSems, Sems
<1>3. TokenAccounts
  BY <1>1 DEF TokenAccounts, TokenSems, NoSems, Sems
<1> QED BY <1>1, <1>2, <1>3
    DEF SessionInv, Newcomers, LoopPaired, FormsAlone, Prepared, NotJoined, TokenCount,
        WriterLeft, ReaderLeft, Procs

LEMMA SessionInvariant == Spec => [](TypeInv /\ ActiveInv /\ SessionInv)
BY SessionInit, SessionStep, ActiveInvariant, PTL DEF Spec

-----------------------------------------------------------------------------
\* What the sessions promise

\* The page has one owner: while a pair transfers, EMPTY, FULL and the token that
\* a process took and has not passed on are at most one, whichever members of
\* earlier pairs died at whatever point.
THEOREM OneTokenCorrect == Spec => []OneToken
<1>1. TypeInv /\ ActiveInv /\ SessionInv => OneToken
  <2> SUFFICES ASSUME TypeInv, ActiveInv, SessionInv,
                      NEW w \in Writers, NEW r \in Readers, Paired(w), Paired(r),
                      pc[w] \in WrLoop, pc[r] \in RdLoop
               PROVE  semval["EMPTY"] + semval["FULL"]
                        + (IF WrHolds(w) THEN 1 ELSE 0) + (IF RdHolds(r) THEN 1 ELSE 0) <= 1
    BY DEF OneToken
  <2>1. Inited(w) /\ Inited(r)
    BY MemberFacts DEF Procs
  <2>2. (WrHolds(w) <=> pc[w] \in Holding) /\ (RdHolds(r) <=> pc[r] \in Holding)
    BY DEF WrHolds, RdHolds, WrLoop, RdLoop, Holding
  <2> QED BY <2>1, <2>2 DEF SessionInv, TokenCount, Token
<1> QED BY <1>1, SessionInvariant, PTL

\* The labels at which a process relies on its semaphore set: from the end of its
\* waiting for the old pair to its exit.
Engaged == (WrActive \cup RdActive) \ {"wait_pair"}

\* A step of p that leaves the sets alone: if p begins to rely on its set by it, it
\* has just found it.
Moves(p) == \E there :
  /\ Goto(p, there)
  /\ UNCHANGED <<semkey, semid>>
  /\ there \in Engaged => pc[p] \in Engaged \/ Live(p)

\* A step is one process's, and leaves the sets alone unless it is the creation or
\* the removal of one.
LEMMA Mover ==
  /\ \A w \in Writers : Writer(w) => Moves(w) \/ semget(w)
  /\ \A r \in Readers : Reader(r) => Moves(r) \/ semget(r) \/ semrm(r)
  /\ \A p \in Procs : kill(p) \/ interrupt(p) => Moves(p)
  /\ \A p \in Procs : Moves(p) \/ semget(p) \/ semrm(p) => \E there : Goto(p, there)
<1> USE DEF Procs, At, Engaged, WrActive, RdActive, WrInit, RdInit, WrLoop, RdLoop, semVars, Moves
<1>1. \A p \in Procs : shmget(p) \/ shmat(p) \/ shmdt(p) \/ exit(p) \/ kill(p) => Moves(p)
  BY DEF shmget, shmat, shmdt, exit, kill, terminate
<1>2. \A p \in Procs : semget(p) \/ semrm(p) => \E there : Goto(p, there)
  BY DEF semget, semrm
<1>3. ASSUME NEW p \in Procs, NEW op, NEW ok, NEW fail, semop(p, op, ok, fail),
             fail \in Engaged => pc[p] \in Engaged
      PROVE  Moves(p)
  BY <1>3 DEF semop
<1>4. ASSUME NEW p \in Procs, NEW x, NEW n, NEW ok, setval(p, x, n, ok)
      PROVE  Moves(p)
  BY <1>4 DEF setval
<1>5. ASSUME NEW w \in Writers, Writer(w)
      PROVE  Moves(w) \/ semget(w)
  <2>1. make_file(w) \/ produce_item(w) \/ put_item(w) \/ shmrm(w) => Moves(w)
    BY DEF make_file, produce_item, put_item, shmrm
  <2>2. wr_start(w) \/ wr_wait_pair(w) \/ wr_init(w) \/ wr_wait_rd(w) => Moves(w)
    BY <1>3 DEF wr_start, wr_wait_pair, wr_init, wr_wait_rd
  <2>3. set_finish(w) \/ set_mutex(w) \/ set_full(w) => Moves(w)
    BY <1>4 DEF set_finish, set_mutex, set_full
  <2>4. p_empty(w) \/ wr_p_mutex(w) \/ wr_check_alive(w) => Moves(w)
    BY <1>3 DEF p_empty, wr_p_mutex, wr_check_alive
  <2>5. finish(w) \/ wr_v_mutex(w) \/ v_full(w) => Moves(w)
    BY <1>3 DEF finish, wr_v_mutex, v_full
  <2> HIDE DEF Moves
  <2> QED BY <1>1, <1>5, <2>1, <2>2, <2>3, <2>4, <2>5 DEF Writer
<1>6. ASSUME NEW r \in Readers, Reader(r)
      PROVE  Moves(r) \/ semget(r) \/ semrm(r)
  <2>1. get_item(r) => Moves(r)
    BY DEF get_item
  <2>2. rd_start(r) \/ rd_wait_pair(r) \/ rd_init(r) \/ rd_wait_wr(r) => Moves(r)
    BY <1>3 DEF rd_start, rd_wait_pair, rd_init, rd_wait_wr
  <2>3. set_empty(r) => Moves(r)
    BY <1>4 DEF set_empty
  <2>4. p_full(r) \/ rd_p_mutex(r) \/ rd_check_alive(r) => Moves(r)
    BY <1>3 DEF p_full, rd_p_mutex, rd_check_alive
  <2>5. rd_v_mutex(r) \/ v_empty(r) => Moves(r)
    BY <1>3 DEF rd_v_mutex, v_empty
  <2> HIDE DEF Moves
  <2> QED BY <1>1, <1>6, <2>1, <2>2, <2>3, <2>4, <2>5 DEF Reader
<1>7. \A p \in Procs : interrupt(p) => Moves(p)
  BY DEF interrupt
<1>8. \A p \in Procs : Moves(p) => \E there : Goto(p, there)
  OBVIOUS
<1> HIDE DEF Moves
<1> QED BY <1>1, <1>2, <1>5, <1>6, <1>7, <1>8

\* When a reader is about to remove the semaphore set nobody is past waiting for
\* the old pair, provided that no reader is ever stopped and continued: a reader
\* leaves its loop only after its writer is dead or has announced the end of file.
LEMMA RemovalHarms ==
  ASSUME Stoppable \cap Readers = {}, TypeInv, ActiveInv, SessionInv
  PROVE  RemovalHarmsNoSession
<1> SUFFICES ASSUME NEW r \in Readers, At(r, "semrm"), Live(r), NEW q \in Procs \ {r}, Live(q)
             PROVE  pc[q] \in {"wr_start", "rd_start", "wait_pair", "exit", "dead"}
  BY DEF RemovalHarmsNoSession
<1>1. r \in Procs /\ pc[r] = "semrm"
  BY DEF At, Procs
<1>2. Paired(r)
  BY <1>1 DEF SessionInv, LoopPaired, Transferring
<1>3. Inited(r)
  BY <1>1, <1>2, MemberFacts
<1>4. \A w \in Writers : ~Inited(w)
  BY <1>1, <1>2 DEF SessionInv, ReaderLeft, Leaving
<1>5. q \in Readers => ~Inited(q)
  BY <1>3, OneOfRole DEF Inited
<1>6. pc[q] \notin Waiting \cup Transferring
  BY <1>4, <1>5, MemberFacts DEF Procs
<1>7. pc[q] \notin Preparing
  BY <1>1, <1>2 DEF SessionInv, FormsAlone
<1>8. pc[q] \notin Strangers
  BY DEF SessionInv, Newcomers, Live
<1>9. pc[q] \in WrLabels \cup RdLabels
  BY DEF TypeInv, TypeOK
<1> QED BY <1>6, <1>7, <1>8, <1>9
    DEF WrLabels, RdLabels, WrActive, RdActive, WrInit, RdInit, Waiting, Transferring, Preparing,
        Strangers

THEOREM RemovalHarmsNoSessionCorrect ==
  ASSUME Stoppable \cap Readers = {}
  PROVE  Spec => []RemovalHarmsNoSession
<1>1. TypeInv /\ ActiveInv /\ SessionInv => RemovalHarmsNoSession
  BY RemovalHarms
<1> QED BY <1>1, SessionInvariant, PTL

\* Nobody loses its semaphore set while it relies on it.
Stays == \A p \in Procs : pc[p] \in Engaged => Live(p)

LEMMA StaysStep ==
  ASSUME Stoppable \cap Readers = {}, TypeInv, ActiveInv, SessionInv, Stays, [Next]_vars
  PROVE  Stays'
<1>1. CASE UNCHANGED vars
  BY <1>1 DEF vars, Stays, Live
<1>2. CASE Next
  <2>1. PICK p \in Procs : Moves(p) \/ semget(p) \/ (p \in Readers /\ semrm(p))
    BY <1>2, Mover DEF Next, Procs
  <2>2. \A there : Goto(p, there) => \A q \in Procs : pc'[q] = IF q = p THEN there ELSE pc[q]
    BY DEF Goto, TypeInv, TypeOK
  <2>3. CASE Moves(p)
    BY <2>2, <2>3 DEF Stays, Live, Moves
  <2>4. CASE semget(p)
    <3>1. pc'[p] \notin Engaged
      BY <2>4
         DEF semget, Goto, Engaged, WrActive, RdActive, WrInit, RdInit, WrLoop, RdLoop, TypeInv, TypeOK
    <3>2. \A q \in Procs \ {p} : Live(q) => Live(q)'
      BY <2>4 DEF semget, Live, TypeInv, TypeOK
    <3>3. \A q \in Procs \ {p} : pc'[q] = pc[q]
      BY <2>2, <2>4, Mover
    <3> QED BY <3>1, <3>2, <3>3 DEF Stays
  <2>5. CASE p \in Readers /\ semrm(p)
    <3>1. pc[p] = "semrm" /\ Goto(p, "exit") /\ semid' = semid
      BY <2>5 DEF semrm, At
    <3>2. "exit" \notin Engaged
      BY DEF Engaged, WrActive, RdActive, WrInit, RdInit, WrLoop, RdLoop
    <3>3. CASE Live(p)
      <4>1. \A q \in Procs \ {p} : Live(q) =>
              pc[q] \in {"wr_start", "rd_start", "wait_pair", "exit", "dead"}
        BY <2>5, <3>1, <3>3, RemovalHarms DEF RemovalHarmsNoSession, At
      <4>2. \A q \in Procs \ {p} : pc[q] \notin Engaged
        BY <4>1 DEF Stays, Engaged, WrActive, RdActive, WrInit, RdInit, WrLoop, RdLoop
      <4> QED BY <2>2, <3>1, <3>2, <4>2 DEF Stays
    <3>4. CASE ~Live(p)
      BY <2>2, <2>5, <3>1, <3>2, <3>4 DEF Stays, semrm, Live
    <3> QED BY <3>3, <3>4
  <2> QED BY <2>1, <2>3, <2>4, <2>5
<1> QED BY <1>1, <1>2

\* The writer's memcpy() and the reader's write() never touch one segment at the
\* same time, provided that no reader is ever stopped and continued: both would be
\* on the one semaphore set under the key, both holding its one page.
THEOREM NoDataRaceCorrect ==
  ASSUME Stoppable \cap Readers = {}
  PROVE  Spec => []NoDataRace
<1>1. Init => Stays
  BY DEF Init, Stays, Engaged, WrActive, RdActive, WrInit, RdInit, WrLoop, RdLoop
<1>2. TypeInv /\ ActiveInv /\ SessionInv /\ Stays /\ [Next]_vars => Stays'
  BY StaysStep
<1>3. TypeInv /\ ActiveInv /\ SessionInv /\ Stays => NoDataRace
  <2> SUFFICES ASSUME TypeInv, ActiveInv, SessionInv, Stays,
                      NEW w \in Writers, NEW r \in Readers, At(w, "put_item"), At(r, "get_item")
               PROVE  FALSE
    BY DEF NoDataRace
  <2>1. w \in Procs /\ r \in Procs
    BY DEF Procs
  <2>2. Live(w) /\ Live(r)
    BY <2>1 DEF Stays, At, Engaged, WrActive, RdActive, WrLoop, RdLoop
  <2>3. Inited(w) /\ Inited(r)
    BY <2>1, <2>2, MemberFacts DEF At, Transferring, WrLoop, RdLoop
  <2>4. semval["EMPTY"] \in Nat /\ semval["FULL"] \in Nat
    BY DEF TypeInv, TypeOK, Sems
  <2> QED BY <2>3, <2>4 DEF SessionInv, TokenCount, Token, Holding, At
<1> QED BY <1>1, <1>2, <1>3, SessionInvariant, PTL DEF Spec

\* What a process does at its liveness check.
LEMMA ChecksAlive ==
  ASSUME TypeInv, Next, NEW p \in Procs, pc[p] = "check_alive", pc'[p] \in {"produce_item", "get_item"}
  PROVE  (p \in Writers /\ wr_check_alive(p)) \/ (p \in Readers /\ rd_check_alive(p))
<1>1. \A q \in Procs : kill(q) \/ interrupt(q) => pc'[p] = pc[p] \/ pc'[p] \in {"shmdt", "exit", "dead"}
  BY DEF kill, terminate, interrupt, Goto, TypeInv, TypeOK
<1>2. ASSUME NEW q \in Procs, NEW there, Goto(q, there)
      PROVE  p = q
  BY <1>2 DEF Goto, TypeInv, TypeOK
<1>3. \A w \in Writers : Writer(w) => p = w
  BY <1>2, Mover DEF Procs
<1>4. \A r \in Readers : Reader(r) => p = r
  BY <1>2, Mover DEF Procs
<1>5. ASSUME p \in Writers, Writer(p) PROVE wr_check_alive(p)
  BY <1>5
     DEF Writer, At, make_file, shmget, shmat, semget, wr_start, wr_wait_pair, set_finish,
         set_mutex, set_full, wr_init, wr_wait_rd, p_empty, wr_p_mutex, produce_item, finish,
         put_item, wr_v_mutex, v_full, shmdt, shmrm, exit
<1>6. ASSUME p \in Readers, Reader(p) PROVE rd_check_alive(p)
  BY <1>6
     DEF Reader, At, shmget, shmat, semget, rd_start, rd_wait_pair, set_empty, rd_init, rd_wait_wr,
         p_full, rd_p_mutex, get_item, rd_v_mutex, v_empty, shmdt, semrm, exit
<1> QED BY <1>1, <1>3, <1>4, <1>5, <1>6 DEF Next

\* A liveness check that succeeds finds both members of a pair.
LEMMA CheckSees ==
  ASSUME TypeInv, ActiveInv, SessionInv, NEW p \in Procs, NEW fail,
         pc[p] = "check_alive", fail \notin {"produce_item", "get_item"},
         NEW op \in {sem_wr_check_rd_alive, sem_rd_check_wr_alive}, NEW ok,
         ok \in {"produce_item", "get_item"}, semop(p, op, ok, fail), pc'[p] = ok
  PROVE  Live(p) /\ Ready(op, semval) /\ \E w \in Writers, r \in Readers : Paired(w) /\ Paired(r)
<1>1. Live(p) /\ Ready(op, semval)
  BY DEF semop, Goto, TypeInv, TypeOK
<1>2. semval["PAIR"] >= 2
  BY <1>1, TestOps DEF Ready, Sems
<1> QED BY <1>1, <1>2, PairFacts

\* A liveness check that succeeds (writer.c:111, reader.c:64) has a living peer in the
\* pair at that moment, and that peer is in its transfer loop unless it may have been
\* stopped and continued: a writer that left took the page with it, so its reader
\* would not have come to the check, and a reader that left did so after its writer.
THEOREM CheckFindsPeerCorrect == Spec => CheckFindsPeer
<1> DEFINE Finds ==
      /\ \A w \in Writers : At(w, "check_alive") /\ pc'[w] = "produce_item" =>
           \E r \in Readers : Live(r) /\ Paired(r) /\ (pc[r] \in RdLoop \/ r \in Stoppable)
      /\ \A r \in Readers : At(r, "check_alive") /\ pc'[r] = "get_item" =>
           \E w \in Writers : Live(w) /\ Paired(w) /\ (pc[w] \in WrLoop \/ w \in Stoppable)
<1>1. ASSUME TypeInv, ActiveInv, SessionInv, Next PROVE Finds
  <2>1. ASSUME NEW w \in Writers, pc[w] = "check_alive", pc'[w] = "produce_item"
        PROVE  \E r \in Readers : Live(r) /\ Paired(r) /\ (pc[r] \in RdLoop \/ r \in Stoppable)
    <3>1. w \in Procs /\ w \notin Readers
      BY ShmAssumption DEF Procs
    <3>2. semop(w, sem_wr_check_rd_alive, "produce_item", "shmdt")
      BY <1>1, <2>1, <3>1, ChecksAlive DEF wr_check_alive
    <3>3. Live(w) /\ \E v \in Writers, r \in Readers : Paired(v) /\ Paired(r)
      BY <1>1, <2>1, <3>1, <3>2, CheckSees
    <3>4. PICK r \in Readers : Paired(r)
      BY <3>3
    <3>5. Inited(w)
      BY <1>1, <2>1, <3>1, <3>3, MemberFacts DEF Transferring, WrLoop
    <3>6. Inited(r) /\ Live(r) /\ pc[r] \in Transferring \cup {"exit"} /\ pc[r] \in RdLabels
      BY <1>1, <3>4, MemberFacts DEF Procs, TypeInv, TypeOK
    <3>7. pc[r] \in Leaving => r \in Stoppable
      BY <1>1, <3>4, <3>5 DEF SessionInv, ReaderLeft
    <3>8. pc[r] \in RdLoop \/ r \in Stoppable
      BY <3>6, <3>7 DEF Transferring, WrLoop, RdLoop, RdLabels, RdActive, RdInit, Leaving
    <3> QED BY <3>4, <3>6, <3>8
  <2>2. ASSUME NEW r \in Readers, pc[r] = "check_alive", pc'[r] = "get_item"
        PROVE  \E w \in Writers : Live(w) /\ Paired(w) /\ (pc[w] \in WrLoop \/ w \in Stoppable)
    <3>1. r \in Procs /\ r \notin Writers
      BY ShmAssumption DEF Procs
    <3>2. semop(r, sem_rd_check_wr_alive, "get_item", "shmdt")
      BY <1>1, <2>2, <3>1, ChecksAlive DEF rd_check_alive
    <3>3. Live(r) /\ \E w \in Writers, q \in Readers : Paired(w) /\ Paired(q)
      BY <1>1, <2>2, <3>1, <3>2, CheckSees
    <3>4. PICK w \in Writers : Paired(w)
      BY <3>3
    <3>5. Inited(r) /\ Token(r) = 1
      BY <1>1, <2>2, <3>1, <3>3, MemberFacts DEF Transferring, RdLoop, Token, Holding
    <3>6. Inited(w) /\ Live(w) /\ pc[w] \in Transferring \cup {"exit"} /\ pc[w] \in WrLabels
      BY <1>1, <3>4, MemberFacts DEF Procs, TypeInv, TypeOK
    <3>7. semval["EMPTY"] \in Nat /\ semval["FULL"] \in Nat
      BY <1>1 DEF TypeInv, TypeOK, Sems
    <3>8. pc[w] \in Leaving => w \in Stoppable
      BY <1>1, <3>4, <3>5, <3>6, <3>7 DEF SessionInv, WriterLeft
    <3>9. pc[w] \in WrLoop \/ w \in Stoppable
      BY <3>6, <3>8 DEF Transferring, WrLoop, RdLoop, WrLabels, WrActive, WrInit, Leaving
    <3> QED BY <3>4, <3>6, <3>9
  <2> QED BY <2>1, <2>2 DEF At
<1>2. TypeInv /\ ActiveInv /\ SessionInv /\ [Next]_vars => [Finds]_vars
  BY <1>1
<1> QED BY <1>2, SessionInvariant, PTL DEF Spec, CheckFindsPeer

-----------------------------------------------------------------------------
\* One writer and one reader: the invariant that ties the page in the segment to the
\* token that the semaphores pass around

Printed == Len(out[reader])

\* All that was put has been printed, or all but the page in the segment.
Settled == PageInSegment = Printed
Pending == PageInSegment = Printed + 1

\* What was printed are the first pages of the file, and the last page put is the
\* last one printed or the next.
Pages ==
  /\ \A i \in 1 .. Printed : out[reader][i] = <<writer, i>>
  /\ Settled \/ Pending

\* The writer has left its loop for good.
Left == {"shmdt", "shmrm", "exit", "dead"}

\* The writer has read one chunk more than it has put while it is at put_item, and
\* as many otherwise; after end of file or an error it reads no more.
FileRead ==
  /\ file[writer] # "more" => pc[writer] \in Left \cup {"finish"}
  /\ pc[writer] = "put_item" => fpos[writer] = PageInSegment + 1
  /\ pc[writer] \in WrLoop \ {"put_item"} => fpos[writer] = PageInSegment
  /\ pc[writer] \notin WrLoop \cup Left => fpos[writer] = 0 /\ PageInSegment = 0

\* The writer's segment is no longer under the key; the reader has another one.
Removed == shmid[writer] # 0 /\ shmkey # shmid[writer]
Elsewhere == shmid[writer] # 0 /\ shmid[reader] \notin {0, shmid[writer]}

\* Only the writer writes into a segment, and only its own.  The two have the same
\* segment, unless the reader began after the writer had removed its one: then the
\* reader does not get into a pair with it.
Segments ==
  /\ \A s \in 1 .. Len(segs) : segs[s] # Blank => s = shmid[writer]
  /\ shmid[writer] = 0 /\ shmid[reader] # 0 => shmkey = shmid[reader]
  /\ Removed => pc[writer] \in {"exit", "dead"} /\ (Inited(writer) => Paired(writer))
  /\ Elsewhere => /\ Removed
                  /\ pc[reader] \notin Transferring
                  /\ pc[reader] = "rd_wait_wr" => ~Inited(writer)

\* The labels of a reader that was initialised when its writer entered the loop.
RdMet == RdLoop \cup {"rd_wait_wr", "shmdt", "semrm", "exit", "dead"}

Met == pc[writer] \in WrLoop \/ PageInSegment > 0 => pc[reader] \in RdMet

\* Where the token is, the page is: the writer has it, or may take it, only when
\* all was printed, the reader only when one page was not.
PageAtToken ==
  /\ pc[writer] \in {"produce_item", "put_item", "finish"} => Settled
  /\ pc[writer] \in {"p_mutex", "check_alive"} /\ Inited(reader) => Settled
  /\ pc[writer] \in {"v_mutex", "v_full"} => Pending
  /\ pc[reader] \in {"v_mutex", "v_empty"} => Settled
  /\ pc[reader] \in {"p_mutex", "check_alive"} /\ Paired(writer) => Pending
  /\ pc[reader] = "get_item" => Pending /\ shmid[reader] = shmid[writer]
  /\ Inited(reader) /\ semval["EMPTY"] > 0 => Settled
  /\ Inited(reader) /\ Paired(writer) /\ semval["FULL"] > 0 => Pending

ChannelInv == Pages /\ FileRead /\ Segments /\ Met /\ PageAtToken

\* The two are on one semaphore set as long as the reader relies on its own: only
\* the reader removes a set.
OneSet ==
  /\ \A p \in Procs : pc[p] \in Engaged => semid[p] # 0
  /\ \A p \in Procs : semid[p] # 0 /\ ~Live(p) =>
       semid[reader] # 0 /\ ~Live(reader) /\ pc[reader] \notin Engaged

-----------------------------------------------------------------------------
LEMMA TheTwo ==
  /\ writer \in Writers /\ reader \in Readers /\ Procs = {writer, reader}
  /\ writer \in Procs /\ reader \in Procs
  /\ writer # reader /\ reader \notin Writers /\ writer \notin Readers
  /\ \A w \in Writers : w = writer
  /\ \A r \in Readers : r = reader
BY OnePair, ShmAssumption DEF Procs

\* The page that the segment holds, and the labels of the two.
LEMMA PageTypes ==
  ASSUME TypeInv
  PROVE  /\ PageInSegment \in 0 .. Chunks /\ Printed \in Nat /\ Chunks \in Nat
         /\ fpos[writer] \in 0 .. Chunks
         /\ semval["EMPTY"] \in Nat /\ semval["FULL"] \in Nat
         /\ pc[writer] \in WrLabels /\ pc[reader] \in RdLabels
         /\ PageInSegment # 0 => shmid[writer] # 0 /\ segs[shmid[writer]] = <<writer, PageInSegment>>
         /\ \A s \in 1 .. Len(segs) : segs[s] \in Chunk \cup {Blank}
         /\ \A c \in Chunk : c # Blank
<1>1. \A c \in Chunk : c # Blank /\ c = <<writer, c[2]>> /\ c[2] \in 1 .. Chunks
  BY TheTwo DEF Chunk, Blank
<1>2. Chunks \in Nat /\ fpos[writer] \in 0 .. Chunks /\ pc[writer] \in WrLabels /\ pc[reader] \in RdLabels
      /\ semval["EMPTY"] \in Nat /\ semval["FULL"] \in Nat
  BY TheTwo, ShmAssumption DEF TypeInv, TypeOK, Sems
<1>3. Printed \in Nat
  BY TheTwo DEF Printed, TypeInv, TypeOK
<1>4. \A s \in 1 .. Len(segs) : segs[s] \in Chunk \cup {Blank}
  BY DEF TypeInv, TypeOK
<1>5. shmid[writer] # 0 => shmid[writer] \in 1 .. Len(segs)
  BY TheTwo DEF TypeInv, TypeOK
<1>6. shmid[writer] # 0 /\ segs[shmid[writer]] # Blank => segs[shmid[writer]] \in Chunk
  BY <1>4, <1>5
<1>7. PageInSegment \in 0 .. Chunks
  BY <1>1, <1>2, <1>6 DEF PageInSegment
<1>8. PageInSegment # 0 => shmid[writer] # 0 /\ segs[shmid[writer]] = <<writer, PageInSegment>>
  BY <1>1, <1>6 DEF PageInSegment
<1> QED BY <1>1, <1>2, <1>3, <1>4, <1>7, <1>8

\* Whoever is in a transfer with the other finds it on its set and in the pair.
LEMMA Together ==
  ASSUME TypeInv, ActiveInv, SessionInv, OneSet
  PROVE  /\ pc[reader] \in RdLoop => Live(reader) /\ Inited(reader) /\ Paired(reader)
         /\ pc[writer] \in WrLoop /\ (Inited(reader) \/ pc[reader] \in RdLoop) =>
              Live(writer) /\ Inited(writer) /\ Paired(writer)
         /\ pc[writer] \in Holding /\ Inited(reader) =>
              semval["EMPTY"] = 0 /\ semval["FULL"] = 0 /\ pc[reader] \notin Holding
         /\ pc[reader] \in Holding /\ Inited(writer) =>
              semval["EMPTY"] = 0 /\ semval["FULL"] = 0
         /\ ~(pc[writer] \in Holding /\ pc[reader] \in Holding)
<1>1. \A l \in WrLoop \cup RdLoop : l \in Engaged /\ l \in Transferring
  BY DEF Engaged, WrActive, RdActive, Transferring, WrLoop, RdLoop
<1>2. \A p \in Procs : Live(p) /\ pc[p] \in Transferring => Inited(p) /\ Paired(p)
  BY MemberFacts DEF SessionInv, LoopPaired
<1>3. pc[reader] \in RdLoop => Live(reader) /\ Inited(reader) /\ Paired(reader)
  BY <1>1, <1>2, TheTwo DEF OneSet
<1>4. Inited(reader) => Live(reader)
  BY TheTwo, MemberFacts
<1>5. pc[writer] \in WrLoop /\ (Inited(reader) \/ pc[reader] \in RdLoop) =>
        Live(writer) /\ Inited(writer) /\ Paired(writer)
  BY <1>1, <1>2, <1>3, <1>4, TheTwo DEF OneSet
<1>6. /\ pc[writer] \in Holding => pc[writer] \in WrLoop
      /\ pc[reader] \in Holding => pc[reader] \in RdLoop
  BY PageTypes DEF Holding, WrLabels, RdLabels, WrActive, RdActive, WrInit, RdInit, WrLoop, RdLoop
<1>7. Inited(writer) /\ Inited(reader) =>
        semval["EMPTY"] + semval["FULL"] + Token(writer) + Token(reader) <= 1
  BY TheTwo DEF SessionInv, TokenCount
<1> HIDE DEF Holding
<1> QED BY <1>3, <1>5, <1>6, <1>7, PageTypes DEF Token

LEMMA OneSetStep ==
  ASSUME TypeInv, ActiveInv, SessionInv, OneSet, [Next]_vars
  PROVE  OneSet'
<1>1. CASE UNCHANGED vars
  BY <1>1 DEF vars, OneSet, Live
<1>2. CASE Next
  <2>1. PICK p \in Procs : Moves(p) \/ semget(p) \/ (p = reader /\ semrm(p))
    BY <1>2, Mover, TheTwo DEF Next
  <2>2. PICK there : Goto(p, there)
    BY <2>1, Mover
  <2>3. \A q \in Procs : pc'[q] = IF q = p THEN there ELSE pc[q]
    BY <2>2 DEF Goto, TypeInv, TypeOK
  <2>4. CASE Moves(p)
    <3>1. \A q \in Procs : semid'[q] = semid[q] /\ (Live(q)' <=> Live(q))
      BY <2>4 DEF Moves, Live
    <3>2. \A q \in Procs : pc'[q] \in Engaged => pc[q] \in Engaged \/ Live(q)
      BY <2>4 DEF Moves, Goto, TypeInv, TypeOK
    <3> QED BY <3>1, <3>2, TheTwo DEF OneSet, Live
  <2>5. CASE semget(p)
    <3>1. pc'[p] \notin Engaged
      BY <2>5
         DEF semget, Goto, Engaged, WrActive, RdActive, WrInit, RdInit, WrLoop, RdLoop, TypeInv, TypeOK
    <3>2. semid[p] = 0
      BY <2>5 DEF semget, At, SessionInv, Newcomers, Strangers
    <3>3. /\ semid'[p] = semkey' /\ semkey' # 0 /\ semkey \in Nat
          /\ \A q \in Procs : semid[q] <= nsem /\ semid[q] \in Nat /\ nsem \in Nat
          /\ \A q \in Procs \ {p} : semid'[q] = semid[q]
          /\ semkey # 0 => semkey' = semkey
          /\ semkey = 0 => semkey' = nsem + 1
      BY <2>5 DEF semget, TypeInv, TypeOK
    <3>4. \A q \in Procs \ {p} : Live(q)' <=> Live(q)
      BY <3>3 DEF Live
    <3> QED BY <2>3, <3>1, <3>2, <3>3, <3>4, TheTwo DEF OneSet, Live
  <2>6. CASE p = reader /\ semrm(p)
    <3>1. pc[p] = "semrm" /\ pc'[p] = "exit" /\ semid' = semid
      BY <2>6 DEF semrm, At, Goto, TypeInv, TypeOK
    <3>2. "semrm" \in Engaged /\ "exit" \notin Engaged
      BY DEF Engaged, WrActive, RdActive, WrInit, RdInit, WrLoop, RdLoop
    <3>3. Live(reader)
      BY <2>6, <3>1, <3>2, TheTwo DEF OneSet
    <3>4. semkey' = 0
      BY <2>6, <3>3 DEF semrm
    <3> QED BY <2>3, <2>6, <3>1, <3>2, <3>3, <3>4, TheTwo DEF OneSet, Live
  <2> QED BY <2>1, <2>4, <2>5, <2>6
<1> QED BY <1>1, <1>2

-----------------------------------------------------------------------------
\* Steps that touch neither segments nor files

\* Where a step of p other than an access to the page may lead: p takes the page
\* only with EMPTY or FULL, comes to its access only with its peer, and never goes
\* back to where it was before.
Onward(p, there) ==
  /\ p = writer =>
       /\ there # "put_item"
       /\ pc[writer] \in Left => there \in Left
       /\ pc[writer] = "finish" => there \in Left
       /\ pc[writer] \in {"exit", "dead"} => there \in {"exit", "dead"}
       /\ there \in WrLoop => \/ pc[writer] \in WrLoop \ {"put_item"}
                              \/ pc[writer] = "wr_wait_rd" /\ Inited(reader)
       /\ there \notin WrLoop \cup Left => pc[writer] \notin WrLoop \cup Left
       /\ there \in {"produce_item", "finish"} =>
            there = "produce_item" /\ pc[writer] = "check_alive" /\ Inited(reader)
       /\ there \in {"p_mutex", "check_alive"} =>
            \/ pc[writer] \in {"p_mutex", "check_alive"}
            \/ semval["EMPTY"] > 0
       /\ there \in {"v_mutex", "v_full"} => pc[writer] \in {"v_mutex", "v_full"}
  /\ p = reader =>
       /\ pc[reader] \in RdMet => there \in RdMet
       /\ there \in Transferring => \/ pc[reader] \in Transferring
                                    \/ pc[reader] = "rd_wait_wr" /\ Inited(writer)
       /\ there = "rd_wait_wr" => ~Paired(writer)
       /\ there \in {"v_mutex", "v_empty"} => pc[reader] \in {"v_mutex", "v_empty"}
       /\ there \in {"p_mutex", "check_alive"} =>
            \/ pc[reader] \in {"p_mutex", "check_alive"}
            \/ Inited(reader) /\ semval["FULL"] > 0
       /\ there = "get_item" => pc[reader] = "check_alive" /\ Paired(writer)

\* What such a step does to memberships and to the tokens: nobody is counted in
\* who was not, but at the end of its initialisation or on joining the pair, and a
\* token is passed on only with the page in its place.
Memberships ==
  /\ Inited(reader)' => Inited(reader) \/ (pc[reader] = "rd_init" /\ ~Paired(writer)')
  /\ Inited(writer)' => Inited(writer) \/ pc[writer] \notin {"exit", "dead"}
  /\ Inited(writer)' /\ Paired(writer) => Paired(writer)'
  /\ Paired(writer)' => Paired(writer) \/ (semval'["FULL"] = 0 /\ pc'[reader] \notin Holding)
  /\ Inited(reader)' => semval'["EMPTY"] <= semval["EMPTY"] \/ Settled
  /\ Inited(reader)' /\ Paired(writer)' => semval'["FULL"] <= semval["FULL"] \/ Pending

Passive(p, there) ==
  /\ \A q \in Procs : pc'[q] = IF q = p THEN there ELSE pc[q]
  /\ UNCHANGED <<shmkey, segs, shmid, ioVars>>
  /\ Onward(p, there) /\ Memberships

LEMMA PassiveStep ==
  ASSUME TypeInv, ActiveInv, SessionInv, OneSet, ChannelInv, TypeInv',
         NEW p \in Procs, NEW there, Passive(p, there)
  PROVE  ChannelInv' /\ [Channel!Next]_Channel!chanVars
<1> USE TheTwo DEF Passive
<1>1. /\ p = writer \/ p = reader
      /\ pc'[writer] = IF p = writer THEN there ELSE pc[writer]
      /\ pc'[reader] = IF p = reader THEN there ELSE pc[reader]
  OBVIOUS
<1>2. /\ PageInSegment' = PageInSegment /\ Printed' = Printed
      /\ (Settled' <=> Settled) /\ (Pending' <=> Pending)
  BY DEF PageInSegment, Printed, Settled, Pending, ioVars
<1>3. shmid' = shmid /\ shmkey' = shmkey /\ segs' = segs /\ fpos' = fpos /\ file' = file /\ out' = out
  BY DEF ioVars
<1>4. Removed' <=> Removed
  BY <1>3 DEF Removed
<1>5. Elsewhere' <=> Elsewhere
  BY <1>3 DEF Elsewhere
<1>6. Pages'
  BY <1>2, <1>3 DEF ChannelInv, Pages
<1>7. FileRead'
  BY <1>1, <1>2, <1>3 DEF ChannelInv, FileRead, Onward, Left, WrLoop
<1>8. Segments'
  <2>1. Removed => pc'[writer] \in {"exit", "dead"} /\ (Inited(writer)' => Paired(writer)')
    BY <1>1 DEF ChannelInv, Segments, Onward, Memberships
  <2>2. Elsewhere => pc'[reader] \notin Transferring
    BY <1>1 DEF ChannelInv, Segments, Onward
  <2>3. Elsewhere /\ pc'[reader] = "rd_wait_wr" => ~Inited(writer)'
    BY <1>1 DEF ChannelInv, Segments, Onward, Memberships
  <2>4. Elsewhere => Removed
    BY DEF ChannelInv, Segments
  <2>5. /\ \A s \in 1 .. Len(segs)' : segs'[s] # Blank => s = shmid'[writer]
        /\ shmid'[writer] = 0 /\ shmid'[reader] # 0 => shmkey' = shmid'[reader]
    BY <1>3 DEF ChannelInv, Segments
  <2> QED BY <1>4, <1>5, <2>1, <2>2, <2>3, <2>4, <2>5 DEF Segments
<1>9. Met'
  <2>1. Inited(reader) => pc[reader] \in RdMet
    <3>1. Inited(reader) => pc[reader] \in Waiting \cup Transferring \cup {"exit"}
      BY MemberFacts
    <3>2. pc[reader] \in RdLabels
      BY PageTypes
    <3> QED BY <3>1, <3>2
        DEF RdMet, RdLabels, RdActive, RdInit, Waiting, Transferring, WrLoop, RdLoop
  <2> QED BY <1>1, <1>2, <2>1 DEF ChannelInv, Met, Onward
<1>10. PageAtToken'
  <2> USE DEF ChannelInv, PageAtToken
  <2>1. pc[reader] = "rd_init" => Settled /\ pc[writer] \notin WrLoop
    BY PageTypes DEF Met, RdMet, RdLoop, Pages, Settled, Pending
  <2>2. /\ pc'[writer] \in {"produce_item", "put_item", "finish"} => Settled
        /\ pc'[writer] \in {"v_mutex", "v_full"} => Pending
    BY <1>1 DEF Onward
  <2>3. pc'[writer] \in {"p_mutex", "check_alive"} /\ Inited(reader)' => Settled
    BY <1>1, <2>1 DEF Onward, Memberships
  <2>4. pc'[reader] \in {"v_mutex", "v_empty"} => Settled
    BY <1>1 DEF Onward
  <2>5. pc'[reader] \in {"p_mutex", "check_alive"} /\ Paired(writer)' => Pending
    BY <1>1 DEF Onward, Memberships, Holding
  <2>6. pc'[reader] = "get_item" => Pending /\ shmid'[reader] = shmid'[writer]
    <3>1. ASSUME there = "get_item", p = reader
          PROVE  Pending /\ shmid[reader] = shmid[writer]
      <4>1. Pending /\ pc[reader] = "check_alive"
        BY <3>1 DEF Onward
      <4>2. shmid[writer] # 0
        BY <4>1, PageTypes DEF Pending
      <4>3. shmid[reader] # 0 /\ ~Elsewhere
        BY <4>1 DEF TypeInv, Located, TypeOK, Segments, Transferring, RdLoop
      <4> QED BY <4>1, <4>2, <4>3 DEF Elsewhere
    <3> QED BY <1>1, <1>3, <3>1
  <2>7. Inited(reader)' /\ semval'["EMPTY"] > 0 => Settled
    <3>1. semval["EMPTY"] \in Nat /\ semval'["EMPTY"] \in Nat
      BY DEF TypeInv, TypeOK, Sems
    <3> QED BY <2>1, <3>1 DEF Memberships
  <2>8. Inited(reader)' /\ Paired(writer)' /\ semval'["FULL"] > 0 => Pending
    <3>1. semval["FULL"] \in Nat /\ semval'["FULL"] \in Nat
      BY DEF TypeInv, TypeOK, Sems
    <3> QED BY <3>1 DEF Memberships
  <2> QED BY <1>2, <2>2, <2>3, <2>4, <2>5, <2>6, <2>7, <2>8
<1>11. [Channel!Next]_Channel!chanVars
  <2>1. [i \in DOMAIN out[reader] |-> out[reader][i][2]]'
          = [i \in DOMAIN out[reader] |-> out[reader][i][2]]
    BY <1>3
  <2>2. WriterState' = WriterState \/ (WriterState = "open" /\ WriterState' = "broken")
    BY <1>1, <1>3 DEF WriterState, Onward, Left
  <2> QED BY <1>2, <2>1, <2>2 DEF Channel!Next, Channel!Break, Channel!chanVars
<1> QED BY <1>6, <1>7, <1>8, <1>9, <1>10, <1>11 DEF ChannelInv

-----------------------------------------------------------------------------
\* Steps on segments and files

\* They leave memberships and tokens alone.
LEMMA SameSems ==
  ASSUME UNCHANGED semVars
  PROVE  /\ (Inited(writer)' <=> Inited(writer)) /\ (Inited(reader)' <=> Inited(reader))
         /\ (Paired(writer)' <=> Paired(writer)) /\ semval' = semval
BY DEF semVars, Inited, Held, Own, Paired

\* put_item: the page goes into the segment in which the last one has been printed.
LEMMA PutItem ==
  ASSUME TypeInv, ActiveInv, SessionInv, OneSet, ChannelInv, TypeInv', put_item(writer)
  PROVE  ChannelInv' /\ [Channel!Next]_Channel!chanVars
<1> USE TheTwo
<1>1. /\ pc[writer] = "put_item" /\ pc'[writer] = "v_mutex" /\ pc'[reader] = pc[reader]
      /\ segs' = [segs EXCEPT ![shmid[writer]] = <<writer, fpos[writer]>>]
      /\ shmkey' = shmkey /\ shmid' = shmid /\ fpos' = fpos /\ file' = file /\ out' = out
      /\ UNCHANGED semVars
  BY DEF put_item, At, Goto, TypeInv, TypeOK, ioVars
<1>2. shmid[writer] \in 1 .. Len(segs) /\ fpos[writer] \in 1 .. Chunks
  BY <1>1 DEF TypeInv, Located
<1>3. /\ fpos[writer] = PageInSegment + 1 /\ Settled /\ file[writer] = "more"
      /\ Printed' = Printed
  BY <1>1 DEF ChannelInv, FileRead, PageAtToken, Left, Printed
<1>4. /\ segs'[shmid[writer]] = <<writer, fpos[writer]>> /\ segs'[shmid[writer]] # Blank
      /\ Len(segs') = Len(segs)
      /\ \A s \in 1 .. Len(segs) : s # shmid[writer] => segs'[s] = segs[s]
  <2>1. segs \in Seq(Chunk \cup {Blank}) /\ <<writer, fpos[writer]>> \in Chunk
    BY <1>2 DEF TypeInv, TypeOK, Chunk
  <2> QED BY <1>1, <1>2, <2>1, PageTypes
<1>5. PageInSegment' = PageInSegment + 1
  BY <1>1, <1>2, <1>3, <1>4 DEF PageInSegment
<1>6. Settled' = FALSE /\ Pending'
  BY <1>3, <1>5, PageTypes DEF Settled, Pending
<1>7. "put_item" \in WrLoop /\ "put_item" \in Holding
  BY DEF WrLoop, Holding
<1>8. Pages'
  BY <1>1, <1>3, <1>6 DEF ChannelInv, Pages, Printed
<1>9. FileRead'
  BY <1>1, <1>3, <1>5 DEF FileRead, Left, WrLoop
<1>10. Segments'
  BY <1>1, <1>4, SameSems DEF ChannelInv, Segments, Removed, Elsewhere
<1>11. Met'
  BY <1>1, <1>7 DEF ChannelInv, Met
<1>12. PageAtToken'
  <2>1. pc[reader] \notin Holding
    BY <1>1, <1>7, Together
  <2>2. Inited(reader) => semval["EMPTY"] = 0
    BY <1>1, <1>7, Together
  <2> QED BY <1>1, <1>6, <2>1, <2>2, SameSems DEF PageAtToken, Holding
<1>13. Channel!Send
  <2>1. [i \in DOMAIN out[reader] |-> out[reader][i][2]]'
          = [i \in DOMAIN out[reader] |-> out[reader][i][2]]
    BY <1>1
  <2>2. Len([i \in DOMAIN out[reader] |-> out[reader][i][2]]) = Printed
    BY DEF Printed, TypeInv, TypeOK
  <2>3. WriterState = "open" /\ WriterState' = "open"
    BY <1>1, <1>3 DEF WriterState
  <2>4. PageInSegment < Chunks
    BY <1>2, <1>3, PageTypes
  <2> QED BY <1>3, <1>5, <2>1, <2>2, <2>3, <2>4 DEF Channel!Send, Settled
<1> QED BY <1>8, <1>9, <1>10, <1>11, <1>12, <1>13 DEF ChannelInv, Channel!Next

\* The numbers of the pages in a reader's output.
Numbers(s) == [i \in DOMAIN s |-> s[i][2]]

LEMMA NumbersFacts ==
  ASSUME NEW s \in Seq(Chunk)
  PROVE  /\ Numbers(s) \in Seq(1 .. Chunks) /\ Len(Numbers(s)) = Len(s)
         /\ \A w \in Writers, n \in 1 .. Chunks :
              Numbers(Append(s, <<w, n>>)) = Append(Numbers(s), n)
<1>1. ASSUME NEW t \in Seq(Chunk)
      PROVE  /\ Numbers(t) \in Seq(1 .. Chunks) /\ Len(Numbers(t)) = Len(t)
             /\ \A i \in 1 .. Len(t) : Numbers(t)[i] = t[i][2]
  <2>1. \A i \in 1 .. Len(t) : t[i] \in Chunk
    OBVIOUS
  <2>2. \A i \in 1 .. Len(t) : t[i][2] \in 1 .. Chunks
    BY <2>1 DEF Chunk
  <2>3. DOMAIN t = 1 .. Len(t) /\ Len(t) \in Nat
    OBVIOUS
  <2>4. Numbers(t) = [i \in 1 .. Len(t) |-> t[i][2]]
    BY <2>3 DEF Numbers
  <2>5. Numbers(t) \in [1 .. Len(t) -> 1 .. Chunks]
    BY <2>2, <2>4
  <2>6. Numbers(t) \in Seq(1 .. Chunks) /\ Len(Numbers(t)) = Len(t)
    BY <2>3, <2>4, <2>5, IsASeq
  <2> QED BY <2>4, <2>6
<1>2. ASSUME NEW w \in Writers, NEW n \in 1 .. Chunks
      PROVE  Numbers(Append(s, <<w, n>>)) = Append(Numbers(s), n)
  <2> DEFINE t == Append(s, <<w, n>>)
             u == Append(Numbers(s), n)
  <2>1. <<w, n>> \in Chunk /\ <<w, n>>[2] = n
    BY DEF Chunk
  <2>2. /\ t \in Seq(Chunk) /\ Len(t) = Len(s) + 1 /\ t[Len(s) + 1] = <<w, n>>
        /\ \A i \in 1 .. Len(s) : t[i] = s[i]
    BY <2>1, AppendProperties
  <2>3. /\ u \in Seq(1 .. Chunks) /\ Len(u) = Len(s) + 1 /\ u[Len(s) + 1] = n
        /\ \A i \in 1 .. Len(s) : u[i] = Numbers(s)[i]
    BY <1>1, AppendProperties
  <2> HIDE DEF t, u
  <2>4. \A i \in 1 .. Len(s) + 1 : Numbers(t)[i] = u[i]
    <3>1. \A i \in 1 .. Len(s) + 1 : i \in 1 .. Len(s) \/ i = Len(s) + 1
      OBVIOUS
    <3>2. \A i \in 1 .. Len(s) + 1 : Numbers(t)[i] = t[i][2]
      BY <1>1, <2>2
    <3>3. \A i \in 1 .. Len(s) : Numbers(s)[i] = s[i][2]
      BY <1>1
    <3> QED BY <2>1, <2>2, <2>3, <3>1, <3>2, <3>3
  <2>5. Numbers(t) \in Seq(1 .. Chunks) /\ Len(Numbers(t)) = Len(s) + 1
    BY <1>1, <2>2
  <2>6. Numbers(t) = u
    BY <2>3, <2>4, <2>5, SeqEqual
  <2> QED BY <2>6 DEF t, u
<1> QED BY <1>1, <1>2

\* get_item: the reader prints the page that was put last, and that it has not yet.
LEMMA GetItem ==
  ASSUME TypeInv, ActiveInv, SessionInv, OneSet, ChannelInv, TypeInv', get_item(reader)
  PROVE  ChannelInv' /\ [Channel!Next]_Channel!chanVars
<1> USE TheTwo
<1>1. /\ pc[reader] = "get_item" /\ pc'[reader] = "v_mutex" /\ pc'[writer] = pc[writer]
      /\ segs' = segs /\ shmkey' = shmkey /\ shmid' = shmid /\ fpos' = fpos /\ file' = file
      /\ UNCHANGED semVars
  BY DEF get_item, At, Goto, TypeInv, TypeOK, shmVars
<1>2. Pending /\ shmid[reader] = shmid[writer]
  BY <1>1 DEF ChannelInv, PageAtToken
<1>3. PageInSegment = Printed + 1 /\ PageInSegment' = PageInSegment
  BY <1>1, <1>2 DEF Pending, PageInSegment
<1>4. segs[shmid[reader]] = <<writer, PageInSegment>> /\ segs[shmid[reader]] # Blank
  <2>1. PageInSegment # 0
    BY <1>3, PageTypes
  <2>2. segs[shmid[writer]] = <<writer, PageInSegment>>
    BY <2>1, PageTypes
  <2>3. segs[shmid[writer]] # Blank
    BY <2>2 DEF Blank
  <2> QED BY <1>2, <2>2, <2>3
<1>5. out'[reader] = Append(out[reader], <<writer, PageInSegment>>)
  BY <1>4 DEF get_item, TypeInv, TypeOK
<1>6. out[reader] \in Seq(Chunk) /\ <<writer, PageInSegment>> \in Chunk
  <2>1. out[reader] \in Seq(Chunk)
    BY DEF TypeInv, TypeOK
  <2>2. PageInSegment \in 1 .. Chunks
    BY <1>3, PageTypes
  <2> QED BY <2>1, <2>2 DEF Chunk
<1>7. /\ Printed' = Printed + 1
      /\ \A i \in 1 .. Printed : out'[reader][i] = out[reader][i]
      /\ out'[reader][Printed + 1] = <<writer, PageInSegment>>
      /\ DOMAIN out'[reader] = 1 .. Printed + 1 /\ DOMAIN out[reader] = 1 .. Printed
  BY <1>5, <1>6 DEF Printed
<1>8. Settled' /\ ~Pending'
  BY <1>3, <1>7, PageTypes DEF Settled, Pending
<1>9. Pages'
  BY <1>3, <1>7, <1>8, PageTypes DEF ChannelInv, Pages
<1>10. FileRead'
  BY <1>1, <1>3 DEF ChannelInv, FileRead
<1>11. Segments'
  BY <1>1, SameSems DEF ChannelInv, Segments, Removed, Elsewhere, Transferring, RdLoop
<1>12. Met'
  BY <1>1, <1>3 DEF ChannelInv, Met, RdMet, RdLoop
<1>13. PageAtToken'
  <2>1. "get_item" \in Holding /\ "get_item" \in RdLoop
    BY DEF Holding, RdLoop
  <2>2. pc[writer] \notin Holding
    BY <1>1, <2>1, Together
  <2>3. Paired(writer) => Inited(writer)
    BY MemberFacts
  <2>4. Paired(writer) => semval["FULL"] = 0
    BY <1>1, <2>1, <2>3, Together
  <2> QED BY <1>1, <1>8, <2>2, <2>4, SameSems DEF PageAtToken, Holding
<1>14. Channel!PrintPage
  <2>1. /\ [i \in DOMAIN out[reader] |-> out[reader][i][2]]' = Numbers(out'[reader])
        /\ [i \in DOMAIN out[reader] |-> out[reader][i][2]] = Numbers(out[reader])
    BY DEF Numbers
  <2>2. /\ Numbers(out'[reader]) = Append(Numbers(out[reader]), PageInSegment)
        /\ Len(Numbers(out[reader])) = Printed
    BY <1>5, <1>6, NumbersFacts DEF Printed, Chunk
  <2>3. WriterState' = WriterState
    BY <1>1 DEF WriterState
  <2>4. Printed < PageInSegment
    BY <1>3, PageTypes
  <2> QED BY <1>3, <2>1, <2>2, <2>3, <2>4 DEF Channel!PrintPage
<1> QED BY <1>9, <1>10, <1>11, <1>12, <1>13, <1>14 DEF ChannelInv, Channel!Next

\* produce_item: at end of file all was printed, since the writer holds the token.
LEMMA ProduceItem ==
  ASSUME TypeInv, ActiveInv, SessionInv, OneSet, ChannelInv, TypeInv', produce_item(writer)
  PROVE  ChannelInv' /\ [Channel!Next]_Channel!chanVars
<1> USE TheTwo
<1>1. /\ pc[writer] = "produce_item" /\ pc'[writer] \in {"put_item", "finish", "shmdt"}
      /\ pc'[reader] = pc[reader]
      /\ segs' = segs /\ shmkey' = shmkey /\ shmid' = shmid /\ out' = out
      /\ UNCHANGED semVars
  BY DEF produce_item, At, Goto, TypeInv, TypeOK, shmVars
<1>2. /\ PageInSegment' = PageInSegment /\ Printed' = Printed
      /\ (Settled' <=> Settled) /\ (Pending' <=> Pending)
  BY <1>1 DEF PageInSegment, Printed, Settled, Pending
<1>3. Settled /\ fpos[writer] = PageInSegment /\ file[writer] = "more"
  BY <1>1 DEF ChannelInv, PageAtToken, FileRead, WrLoop, Left
<1>4. \/ fpos'[writer] = fpos[writer] + 1 /\ pc'[writer] = "put_item" /\ file' = file
      \/ fpos' = fpos /\ pc'[writer] = "finish" /\ file'[writer] = "eof" /\ fpos[writer] = Chunks
      \/ fpos' = fpos /\ pc'[writer] = "shmdt" /\ file'[writer] = "error"
  BY DEF produce_item, Goto, TypeInv, TypeOK
<1>5. Pages'
  BY <1>1, <1>2 DEF ChannelInv, Pages
<1>6. FileRead'
  BY <1>1, <1>2, <1>3, <1>4 DEF FileRead, Left, WrLoop
<1>7. Segments'
  BY <1>1, SameSems DEF ChannelInv, Segments, Removed, Elsewhere
<1>8. Met'
  BY <1>1, <1>2 DEF ChannelInv, Met, WrLoop
<1>9. PageAtToken'
  BY <1>1, <1>2, <1>3, SameSems DEF ChannelInv, PageAtToken
<1>10. [Channel!Next]_Channel!chanVars
  <2>1. [i \in DOMAIN out[reader] |-> out[reader][i][2]]'
          = [i \in DOMAIN out[reader] |-> out[reader][i][2]]
    BY <1>1
  <2>2. Len([i \in DOMAIN out[reader] |-> out[reader][i][2]]) = Printed
    BY NumbersFacts DEF Numbers, Printed, TypeInv, TypeOK
  <2>3. /\ WriterState = "open"
        /\ \/ WriterState' = "open"
           \/ WriterState' = "complete" /\ fpos[writer] = Chunks
           \/ WriterState' = "broken"
    BY <1>1, <1>3, <1>4 DEF WriterState
  <2> QED BY <1>2, <1>3, <2>1, <2>2, <2>3
      DEF Channel!Next, Channel!Complete, Channel!Break, Channel!chanVars, Settled
<1> QED BY <1>5, <1>6, <1>7, <1>8, <1>9, <1>10 DEF ChannelInv

\* shmrm: the writer removes its segment after it has left its loop, still a member
\* of its pair.
LEMMA RemoveSegment ==
  ASSUME TypeInv, ActiveInv, SessionInv, OneSet, ChannelInv, TypeInv', shmrm(writer)
  PROVE  ChannelInv' /\ [Channel!Next]_Channel!chanVars
<1> USE TheTwo
<1>1. /\ pc[writer] = "shmrm" /\ pc'[writer] = "exit" /\ pc'[reader] = pc[reader]
      /\ segs' = segs /\ shmid' = shmid /\ fpos' = fpos /\ file' = file /\ out' = out
      /\ shmkey' = (IF shmkey = shmid[writer] THEN 0 ELSE shmkey)
      /\ UNCHANGED semVars
  BY DEF shmrm, At, Goto, TypeInv, TypeOK, ioVars
<1>2. /\ PageInSegment' = PageInSegment /\ Printed' = Printed
      /\ (Settled' <=> Settled) /\ (Pending' <=> Pending)
  BY <1>1 DEF PageInSegment, Printed, Settled, Pending
<1>3. shmid[writer] # 0
  BY <1>1 DEF TypeInv, TypeOK, Located
<1>4. shmkey = shmid[writer] /\ ~Elsewhere
  BY <1>1, <1>3 DEF ChannelInv, Segments, Removed
<1>5. Inited(writer) => Paired(writer)
  BY <1>1, MemberFacts DEF SessionInv, LoopPaired, Transferring
<1>6. Pages'
  BY <1>1, <1>2 DEF ChannelInv, Pages
<1>7. FileRead'
  BY <1>1, <1>2 DEF ChannelInv, FileRead, Left, WrLoop
<1>8. Segments'
  BY <1>1, <1>3, <1>4, <1>5, SameSems DEF ChannelInv, Segments, Removed, Elsewhere
<1>9. Met'
  BY <1>1, <1>2 DEF ChannelInv, Met, WrLoop
<1>10. PageAtToken'
  BY <1>1, <1>2, SameSems DEF ChannelInv, PageAtToken
<1>11. UNCHANGED Channel!chanVars
  BY <1>1, <1>2 DEF Channel!chanVars, WriterState
<1> QED BY <1>6, <1>7, <1>8, <1>9, <1>10, <1>11 DEF ChannelInv

\* shmget: the first of the two to call it creates the segment, blank, and the other
\* finds it, unless the writer has removed it by then.
LEMMA GetSegment ==
  ASSUME TypeInv, ActiveInv, SessionInv, OneSet, ChannelInv, TypeInv',
         NEW p \in Procs, shmget(p)
  PROVE  ChannelInv' /\ [Channel!Next]_Channel!chanVars
<1> USE TheTwo
<1>1. /\ pc[p] = "shmget" /\ \A q \in Procs : pc'[q] = IF q = p THEN "shmat" ELSE pc[q]
      /\ fpos' = fpos /\ file' = file /\ out' = out /\ UNCHANGED semVars
      /\ \A q \in Procs : shmid'[q] = IF q = p THEN shmkey' ELSE shmid[q]
  BY DEF shmget, At, Goto, TypeInv, TypeOK, ioVars
<1>2. \/ shmkey # 0 /\ shmkey' = shmkey /\ segs' = segs
      \/ /\ shmkey = 0 /\ shmkey' = Len(segs) + 1 /\ Len(segs') = Len(segs) + 1
         /\ \A s \in 1 .. Len(segs) : segs'[s] = segs[s]
         /\ segs'[Len(segs) + 1] = Blank
  <2>1. segs \in Seq(Chunk \cup {Blank}) /\ Blank \in Chunk \cup {Blank}
    BY DEF TypeInv, TypeOK
  <2> QED BY <2>1, AppendProperties DEF shmget
<1>3. /\ shmkey' # 0 /\ shmkey' \in 1 .. Len(segs')
      /\ \A s \in 1 .. Len(segs') : segs'[s] # Blank => s \in 1 .. Len(segs) /\ segs[s] # Blank
  <2>1. Len(segs) \in Nat /\ shmkey \in 0 .. Len(segs)
    BY DEF TypeInv, TypeOK
  <2> QED BY <1>2, <2>1
<1>4. shmid[writer] \in 0 .. Len(segs) /\ shmid[reader] \in 0 .. Len(segs)
  BY DEF TypeInv, TypeOK
<1>5. p = writer => PageInSegment = 0
  BY <1>1 DEF ChannelInv, FileRead, WrLoop, Left
<1>6. p = writer => \A s \in 1 .. Len(segs) : segs[s] = Blank
  <2> SUFFICES ASSUME p = writer, NEW s \in 1 .. Len(segs), segs[s] # Blank PROVE FALSE
    OBVIOUS
  <2>1. s = shmid[writer] /\ s # 0
    BY DEF ChannelInv, Segments
  <2>2. segs[s] \in Chunk
    BY PageTypes
  <2>3. segs[s][2] # 0
    BY <2>2, PageTypes DEF Chunk
  <2> QED BY <1>5, <2>1, <2>3 DEF PageInSegment
<1>7. PageInSegment' = PageInSegment
  <2>1. CASE p = writer
    <3>1. segs'[shmid'[writer]] = Blank
      BY <1>1, <1>3, <1>6, <2>1
    <3> QED BY <1>5, <2>1, <3>1 DEF PageInSegment
  <2>2. CASE p = reader
    BY <1>1, <1>2, <1>4, <2>2 DEF PageInSegment
  <2> QED BY <2>1, <2>2
<1>8. Printed' = Printed /\ (Settled' <=> Settled) /\ (Pending' <=> Pending)
  BY <1>1, <1>7 DEF Printed, Settled, Pending
<1>9. Pages'
  BY <1>1, <1>8 DEF ChannelInv, Pages
<1>10. FileRead'
  BY <1>1, <1>7 DEF ChannelInv, FileRead, WrLoop, Left
<1>11. Segments'
  <2> USE DEF ChannelInv, Segments, Removed, Elsewhere
  <2>1. CASE p = writer
    BY <1>1, <1>2, <1>3, <1>4, <1>6, <2>1
  <2>2. CASE p = reader
    <3>1. pc'[reader] = "shmat" /\ shmid'[writer] = shmid[writer] /\ shmid'[reader] = shmkey'
      BY <1>1, <2>2
    <3>2. "shmat" \notin Transferring /\ pc'[writer] = pc[writer]
      BY <1>1, <2>2 DEF Transferring, WrLoop, RdLoop
    <3>3. Removed' => Removed
      BY <1>2, <1>4, <3>1
    <3> QED BY <1>1, <1>2, <1>3, <1>4, <3>1, <3>2, <3>3, SameSems
  <2> QED BY <2>1, <2>2
<1>12. Met'
  BY <1>1, <1>7 DEF ChannelInv, Met, WrLoop, RdMet, RdLoop
<1>13. PageAtToken'
  <2>1. pc[reader] = "get_item" => p # writer
    BY <1>5, PageTypes DEF ChannelInv, PageAtToken, Pending
  <2> QED BY <1>1, <1>8, <2>1, SameSems DEF ChannelInv, PageAtToken
<1>14. UNCHANGED Channel!chanVars
  BY <1>1, <1>7 DEF Channel!chanVars, WriterState
<1> QED BY <1>9, <1>10, <1>11, <1>12, <1>13, <1>14 DEF ChannelInv

-----------------------------------------------------------------------------
\* Calls on semaphores

\* A step that changes nobody's membership, and raises a token only with the page in
\* its place.
LEMMA SamePassive ==
  ASSUME TypeInv, NEW p \in Procs, NEW there, SameMembers(p, there),
         UNCHANGED <<shmkey, segs, shmid, ioVars>>, Onward(p, there),
         Inited(reader) => semval'["EMPTY"] <= semval["EMPTY"] \/ Settled,
         Inited(reader) /\ Paired(writer) => semval'["FULL"] <= semval["FULL"] \/ Pending
  PROVE  Passive(p, there)
<1>1. Memberships
  BY TheTwo DEF SameMembers, Memberships
<1> QED BY <1>1 DEF Passive, SameMembers

\* A step that does nothing to semaphores.
LEMMA PlainPassive ==
  ASSUME TypeInv, NEW p \in Procs, NEW there, Goto(p, there), UNCHANGED semVars,
         UNCHANGED <<shmkey, segs, shmid, ioVars>>, Onward(p, there)
  PROVE  Passive(p, there)
<1>1. SameMembers(p, there)
  BY DEF SameMembers, Goto, TypeInv, TypeOK, semVars, Live, Paired, Inited, Held, Own
<1>2. semval' = semval /\ semval["EMPTY"] \in Nat /\ semval["FULL"] \in Nat
  BY DEF semVars, TypeInv, TypeOK, Sems
<1> QED BY <1>1, <1>2, SamePassive

\* A semop() without SEM_UNDO that gives EMPTY only when all was printed, and FULL only
\* when a page is waiting.
LEMMA SemopPassive ==
  ASSUME TypeInv, ActiveInv, NEW p \in Procs, NEW op \in SembufsType, NEW ok, NEW fail,
         semop(p, op, ok, fail),
         \A x \in RoleSems : op.add[x] = 0, op.undo = {},
         SamePhase(pc[p], ok), SamePhase(pc[p], fail),
         Live(p) /\ Ready(op, semval) => Onward(p, ok),
         Onward(p, fail),
         op.add["EMPTY"] <= 0 \/ Settled, op.add["FULL"] <= 0 \/ Pending
  PROVE  \E there : Passive(p, there)
<1>1. UNCHANGED <<shmkey, segs, shmid, ioVars>>
  BY DEF semop, shmVars
<1>2. /\ semval["EMPTY"] \in Nat /\ semval["FULL"] \in Nat
      /\ op.add["EMPTY"] \in Int /\ op.add["FULL"] \in Int
      /\ "EMPTY" \in TokenSems /\ "FULL" \in TokenSems
  BY DEF TypeInv, TypeOK, Sems, TokenSems, SembufsType
<1>3. CASE /\ Live(p) /\ Ready(op, semval) /\ Quiet(p, ok)
           /\ \A x \in TokenSems : semval'[x] = semval[x] + op.add[x]
  <2>1. SameMembers(p, ok)
    BY <1>3, QuietFacts
  <2>2. /\ semval'["EMPTY"] <= semval["EMPTY"] \/ Settled
        /\ semval'["FULL"] <= semval["FULL"] \/ Pending
    BY <1>2, <1>3
  <2>3. Passive(p, ok)
    BY <1>1, <1>3, <2>1, <2>2, SamePassive
  <2> QED BY <2>3
<1>4. CASE Quiet(p, fail) /\ SameTokens
  <2>1. SameMembers(p, fail)
    BY <1>4, QuietFacts
  <2>2. semval'["EMPTY"] <= semval["EMPTY"] /\ semval'["FULL"] <= semval["FULL"]
    BY <1>2, <1>4 DEF SameTokens
  <2>3. Passive(p, fail)
    BY <1>1, <2>1, <2>2, SamePassive
  <2> QED BY <2>3
<1> QED BY <1>3, <1>4, SemopSplit

\* SETVAL of FINISH, MUTEX, FULL and EMPTY: no reader relies on its tokens that is not
\* initialised, and nobody is in the pair meanwhile.
LEMMA SetvalPassive ==
  ASSUME TypeInv, ActiveInv, SessionInv, NEW p \in Procs, NEW x \in Sems \ RoleSems, NEW n, NEW ok,
         setval(p, x, n, ok), SamePhase(pc[p], ok), ok # "exit", pc[p] \in Preparing,
         p = writer => x # "EMPTY",
         Onward(p, ok), Onward(p, "exit")
  PROVE  \E there : Passive(p, there)
<1> USE TheTwo
<1>1. UNCHANGED <<shmkey, segs, shmid, ioVars>>
  BY DEF setval, shmVars
<1>2. semval["EMPTY"] \in Nat /\ semval["FULL"] \in Nat /\ "EMPTY" \in TokenSems /\ "FULL" \in TokenSems
  BY DEF TypeInv, TypeOK, Sems, TokenSems
<1>3. CASE /\ Live(p) /\ Quiet(p, ok)
           /\ \A y \in TokenSems \ {x} : semval'[y] = semval[y]
  <2>1. SameMembers(p, ok)
    BY <1>3, QuietFacts
  <2>2. ~Paired(writer) /\ ~Inited(p)
    <3>1. Held(p) = 1
      BY <1>3, MemberFacts DEF Preparing, Initialising, WrInit, RdInit
    <3> QED BY <1>3, <3>1 DEF SessionInv, FormsAlone, Inited
  <2>3. Inited(reader) => semval'["EMPTY"] <= semval["EMPTY"]
    BY <1>2, <1>3, <2>2
  <2>4. Passive(p, ok)
    BY <1>1, <2>1, <2>2, <2>3, SamePassive
  <2> QED BY <2>4
<1>4. CASE Quiet(p, "exit") /\ SameTokens
  <2>1. SameMembers(p, "exit")
    BY <1>4, QuietFacts
  <2>2. semval'["EMPTY"] <= semval["EMPTY"] /\ semval'["FULL"] <= semval["FULL"]
    BY <1>2, <1>4 DEF SameTokens
  <2>3. Passive(p, "exit")
    BY <1>1, <2>1, <2>2, SamePassive
  <2> QED BY <2>3
<1> QED BY <1>3, <1>4, SetvalSplit

\* A semop() that raises a role's semaphore, or PAIR: it takes tokens into the account
\* and gives none, and fails only for a process that is not in the pair.
LEMMA RaisePassive ==
  ASSUME TypeInv, ActiveInv, NEW p \in Procs, NEW op \in SembufsType, NEW ok,
         semop(p, op, ok, "exit"), NEW x \in RoleSems, RaisesOnly(op, x),
         op.add["EMPTY"] <= 0, op.add["FULL"] <= 0, Onward(p, "exit"),
         /\ Live(p) /\ Ready(op, semval) /\ Raises(p, x, 1) /\ Goto(p, ok)
         /\ semval'["EMPTY"] <= semval["EMPTY"] /\ semval'["FULL"] <= semval["FULL"]
         /\ UNCHANGED <<shmkey, segs, shmid, ioVars>>
         => Passive(p, ok)
  PROVE  \E there : Passive(p, there)
<1>1. UNCHANGED <<shmkey, segs, shmid, ioVars>>
  BY DEF semop, shmVars
<1>2. /\ semval["EMPTY"] \in Nat /\ semval["FULL"] \in Nat
      /\ op.add["EMPTY"] \in Int /\ op.add["FULL"] \in Int
      /\ "EMPTY" \in TokenSems /\ "FULL" \in TokenSems
  BY DEF TypeInv, TypeOK, Sems, TokenSems, SembufsType
<1>3. CASE /\ Live(p) /\ Ready(op, semval) /\ Raises(p, x, 1) /\ Goto(p, ok)
           /\ \A y \in TokenSems : semval'[y] = semval[y] + op.add[y]
  <2>1. semval'["EMPTY"] <= semval["EMPTY"] /\ semval'["FULL"] <= semval["FULL"]
    BY <1>2, <1>3
  <2>2. Passive(p, ok)
    BY <1>1, <1>3, <2>1
  <2> QED BY <2>2
<1>4. CASE Goto(p, "exit") /\ UNCHANGED <<semkey, semid, semval, semadj>>
  <2>1. SameMembers(p, "exit")
    BY <1>4 DEF SameMembers, Goto, TypeInv, TypeOK, Live, Paired, Inited, Held, Own
  <2>2. semval'["EMPTY"] <= semval["EMPTY"] /\ semval'["FULL"] <= semval["FULL"]
    BY <1>2, <1>4
  <2>3. Passive(p, "exit")
    BY <1>1, <2>1, <2>2, SamePassive
  <2> QED BY <2>3
<1> QED BY <1>3, <1>4, RaiseSplit

\* A process becomes the active one of its role.
LEMMA StartPassive ==
  ASSUME TypeInv, ActiveInv, NEW p \in Procs, pc[p] \in Outside, Onward(p, "wait_pair"),
         Raises(p, Own(p), 1), Goto(p, "wait_pair"),
         semval'["EMPTY"] <= semval["EMPTY"] /\ semval'["FULL"] <= semval["FULL"],
         UNCHANGED <<shmkey, segs, shmid, ioVars>>
  PROVE  Passive(p, "wait_pair")
<1>1. Held(p) = 0
  BY DEF ActiveInv, AccountsOK, Held, Own, NoSems, Sems
<1>2. SameMembers(p, "wait_pair")
  BY <1>1, RaiseFacts DEF SameMembers, Inited
<1> QED BY <1>2, SamePassive

\* A process completes its initialisation, the reader while no writer is in the pair.
LEMMA InitPassive ==
  ASSUME TypeInv, ActiveInv, SessionInv, NEW p \in Procs, NEW there, Onward(p, there),
         Live(p), pc[p] \in {"wr_init", "rd_init"}, p = reader => pc[p] = "rd_init",
         Raises(p, Own(p), 1), Goto(p, there),
         semval'["EMPTY"] <= semval["EMPTY"] /\ semval'["FULL"] <= semval["FULL"],
         UNCHANGED <<shmkey, segs, shmid, ioVars>>
  PROVE  Passive(p, there)
<1> USE TheTwo
<1>1. /\ \A q \in Procs : (Paired(q)' <=> Paired(q)) /\ Held(q)' = IF q = p THEN Held(p) + 1 ELSE Held(q)
      /\ \A q \in Procs : pc'[q] = IF q = p THEN there ELSE pc[q]
  BY RaiseFacts
<1>2. ~Paired(writer)
  BY DEF SessionInv, FormsAlone, Preparing
<1>3. \A q \in Procs \ {p} : Inited(q)' <=> Inited(q)
  BY <1>1 DEF Inited
<1>4. Memberships
  BY <1>1, <1>2, <1>3 DEF Memberships
<1> QED BY <1>1, <1>4 DEF Passive

\* A process joins the pair: the writer while no page is waiting.
LEMMA JoinPassive ==
  ASSUME TypeInv, ActiveInv, SessionInv, TypeInv', NEW p \in Procs, NEW there,
         Onward(p, there),
         Live(p), pc[p] \in Waiting, p = writer => Inited(reader),
         Raises(p, "PAIR", 1), Goto(p, there),
         semval'["EMPTY"] <= semval["EMPTY"] /\ semval'["FULL"] <= semval["FULL"],
         UNCHANGED <<shmkey, segs, shmid, ioVars>>
  PROVE  Passive(p, there)
<1> USE TheTwo
<1>1. \A q \in Procs : pc'[q] = IF q = p THEN there ELSE pc[q]
  BY DEF Goto, TypeInv, TypeOK
<1>2. \A q \in Procs : /\ (Inited(q)' <=> Inited(q))
                       /\ q # p => (Paired(q)' <=> Paired(q))
  <2>1. \A q \in Procs : Own(q) \in RoleSems \ {"PAIR"}
    BY DEF Own, RoleSems
  <2>2. \A q \in Procs : Held(q)' = Held(q)
    BY <2>1 DEF Held, Own, Raises
  <2> QED BY <2>2 DEF Inited, Paired, Raises
<1>3. Inited(p) /\ ~Paired(p)
  BY MemberFacts DEF Waiting, Transferring, WrLoop, RdLoop
<1>4. p = writer => semval["FULL"] = 0 /\ pc[reader] \notin Holding
  BY <1>3 DEF SessionInv, NotJoined, Token
<1>5. p = writer => semval'["FULL"] = 0
  <2>1. semval'["FULL"] \in Nat
    BY DEF TypeInv, TypeOK, Sems
  <2> QED BY <2>1, <1>4
<1>6. Memberships
  BY <1>1, <1>2, <1>3, <1>4, <1>5 DEF Memberships
<1> QED BY <1>1, <1>6 DEF Passive

\* The end of a process gives back tokens that only its own memberships speak of.
LEMMA EndPassive ==
  ASSUME TypeInv, ActiveInv, SessionInv, NEW p \in Procs, terminate(p), Onward(p, "dead")
  PROVE  Passive(p, "dead")
<1> USE TheTwo
<1>1. \A q \in Procs : pc'[q] = IF q = p THEN "dead" ELSE pc[q]
  BY DEF terminate, Goto, TypeInv, TypeOK
<1>2. semadj'[p] = NoSems /\ \A q \in Procs \ {p} : semadj'[q] = semadj[q]
  BY DEF terminate, TypeInv, TypeOK
<1>3. \A q \in Procs : /\ Inited(q)' <=> (q # p /\ Inited(q))
                       /\ Paired(q)' <=> (q # p /\ Paired(q))
  <2>1. \A q \in Procs : NoSems[Own(q)] = 0 /\ NoSems["PAIR"] = 0
    BY DEF NoSems, Own, Sems
  <2>2. \A q \in Procs : Held(q)' = -semadj'[q][Own(q)]
    BY DEF Held, Own
  <2>3. \A q \in Procs : Inited(q)' <=> (q # p /\ Inited(q))
    BY <1>2, <2>1, <2>2 DEF Held, Inited
  <2>4. \A q \in Procs : Paired(q)' <=> (q # p /\ Paired(q))
    BY <1>2, <2>1 DEF Paired
  <2> QED BY <2>3, <2>4
<1>4. semval["EMPTY"] \in Nat /\ (p = writer => semval'["EMPTY"] = semval["EMPTY"])
  <2>1. semval["EMPTY"] \in Nat
    BY DEF TypeInv, TypeOK, Sems
  <2>2. p = writer => semadj[p]["EMPTY"] = 0
    BY DEF SessionInv, TokenAccounts, TokenSems
  <2> QED BY <2>1, <2>2 DEF terminate, Undone, Sems
<1>5. Memberships
  BY <1>1, <1>3, <1>4 DEF Memberships
<1>6. UNCHANGED <<shmkey, segs, shmid, ioVars>>
  BY DEF terminate
<1> QED BY <1>1, <1>5, <1>6 DEF Passive

\* A new set: no reader relied on tokens.
LEMMA NewSetPassive ==
  ASSUME TypeInv, ActiveInv, NEW p \in Procs, NEW there, Onward(p, there), semget(p),
         Goto(p, there)
  PROVE  Passive(p, there)
<1> USE TheTwo
<1>1. \A q \in Procs : pc'[q] = IF q = p THEN there ELSE pc[q]
  BY DEF Goto, TypeInv, TypeOK
<1>2. \A q \in Procs : (Inited(q)' <=> Inited(q)) /\ (Paired(q)' <=> Paired(q))
  BY DEF semget, Held, Inited, Paired, Own
<1>3. semval["EMPTY"] \in Nat /\ semval["FULL"] \in Nat
  BY DEF TypeInv, TypeOK, Sems
<1>4. semkey = 0 => ~Inited(reader)
  BY MemberFacts DEF Live
<1>5. semkey # 0 => semval' = semval
  BY DEF semget
<1>6. Memberships
  BY <1>2, <1>3, <1>4, <1>5 DEF Memberships
<1> QED BY <1>1, <1>6 DEF Passive, semget, shmVars

\* The removal of the set.
LEMMA RemovalPassive ==
  ASSUME TypeInv, ActiveInv, semrm(reader), Live(reader), Onward(reader, "exit")
  PROVE  Passive(reader, "exit")
<1> USE TheTwo
<1>1. \A q \in Procs : ~Inited(q)' /\ ~Paired(q)'
  BY DEF semrm, Inited, Held, Own, Paired, NoSems, Sems
<1>2. Memberships
  BY <1>1 DEF Memberships
<1> QED BY <1>2 DEF Passive, semrm, Goto, TypeInv, TypeOK, shmVars

-----------------------------------------------------------------------------
\* Every step

LEMMA WriterChannel ==
  ASSUME TypeInv, ActiveInv, SessionInv, OneSet, ChannelInv, TypeInv', Writer(writer)
  PROVE  ChannelInv' /\ [Channel!Next]_Channel!chanVars
<1> USE TheTwo DEF At
<1>1. /\ Own(writer) = "WRITER" /\ "WRITER" \in RoleSems /\ "PAIR" \in RoleSems
      /\ {"FINISH", "MUTEX", "FULL"} \subseteq Sems \ RoleSems
  BY DEF Own, RoleSems, Sems
<1>2. (\E there : Passive(writer, there)) => ChannelInv' /\ [Channel!Next]_Channel!chanVars
  BY PassiveStep
<1>3. ASSUME NEW there,
             \/ pc[writer] \in (Outside \ {"dead"}) \cup Initialising \cup {"wr_wait_rd"}
                  /\ there = "exit"
             \/ pc[writer] \in WrLoop /\ there = "shmdt"
             \/ pc[writer] \in (Outside \ {"dead"}) \cup Initialising
                  /\ there \in WrInit \cup {"shmget", "shmat", "semget", "wr_start", "wr_wait_rd"}
             \/ pc[writer] = "shmdt" /\ there = "shmrm"
      PROVE  Onward(writer, there)
  BY <1>3
     DEF Onward, Outside, Initialising, WrInit, RdInit, WrLoop, Left
<1> USE DEF SamePhase, Outside, Initialising, Waiting, Transferring, WrInit, WrLoop, RdInit, RdLoop
<1>4. CASE make_file(writer) \/ shmat(writer) \/ shmdt(writer)
  <2>1. PICK there \in {"shmget", "semget", "shmrm", "exit"} :
          Goto(writer, there) /\ Onward(writer, there)
    BY <1>3, <1>4 DEF make_file, shmat, shmdt
  <2>2. UNCHANGED semVars /\ UNCHANGED <<shmkey, segs, shmid, ioVars>>
    BY <1>4 DEF make_file, shmat, shmdt, shmVars
  <2> QED BY <1>2, <2>1, <2>2, PlainPassive
<1>5. CASE shmget(writer)
  BY <1>5, GetSegment
<1>6. CASE semget(writer)
  <2>1. Goto(writer, "wr_start") /\ Onward(writer, "wr_start")
    BY <1>3, <1>6 DEF semget
  <2> QED BY <1>2, <1>6, <2>1, NewSetPassive
<1>7. CASE wr_start(writer)
  <2>1. Onward(writer, "wait_pair") /\ Onward(writer, "exit")
    BY <1>3, <1>7 DEF wr_start
  <2>2. sem_wr_start.add["EMPTY"] = 0 /\ sem_wr_start.add["FULL"] = 0
    BY TokenOps DEF NoToken, TokenSems
  <2>3. \E there : Passive(writer, there)
    BY <1>1, <1>7, <2>1, <2>2, RaisePassive, StartPassive, RaisingOps, SummaryTypes DEF wr_start
  <2> QED BY <1>2, <2>3
<1>8. CASE wr_wait_pair(writer)
  <2>1. Onward(writer, "set_finish") /\ Onward(writer, "exit")
    BY <1>3, <1>8 DEF wr_wait_pair
  <2>2. sem_wait_pair.add["EMPTY"] = 0 /\ sem_wait_pair.add["FULL"] = 0
    BY TokenOps DEF NoToken, TokenSems
  <2>3. \E there : Passive(writer, there)
    BY <1>8, <2>1, <2>2, SemopPassive, QuietOps, SummaryTypes DEF wr_wait_pair
  <2> QED BY <1>2, <2>3
<1>9. CASE set_finish(writer) \/ set_mutex(writer) \/ set_full(writer)
  <2>1. /\ Onward(writer, "set_mutex") /\ Onward(writer, "set_full") /\ Onward(writer, "wr_init")
        /\ Onward(writer, "exit") /\ pc[writer] \in Preparing
    BY <1>3, <1>9 DEF set_finish, set_mutex, set_full, Preparing
  <2>2. \E there : Passive(writer, there)
    BY <1>1, <1>9, <2>1, SetvalPassive DEF set_finish, set_mutex, set_full
  <2> QED BY <1>2, <2>2
<1>10. CASE wr_init(writer)
  <2>1. Onward(writer, "wr_wait_rd") /\ Onward(writer, "exit")
    BY <1>3, <1>10 DEF wr_init
  <2>2. \E there : Passive(writer, there)
    BY <1>1, <1>10, <2>1, RaisePassive, InitPassive, RaisingOps, TokenOps, SummaryTypes DEF wr_init
  <2> QED BY <1>2, <2>2
<1>11. CASE wr_wait_rd(writer)
  <2>1. Onward(writer, "exit")
    BY <1>3, <1>11 DEF wr_wait_rd
  <2>2. Ready(sem_wr_wait_rd, semval) => Inited(reader)
    <3>1. Ready(sem_wr_wait_rd, semval) => semval["READER"] >= 2
      BY TestOps DEF Ready, Sems
    <3> QED BY <3>1, PeerInited
  <2>3. Inited(reader) => Onward(writer, "p_empty")
    BY <1>11 DEF wr_wait_rd, Onward, Left
  <2>4. sem_wr_wait_rd.add["EMPTY"] = 0 /\ sem_wr_wait_rd.add["FULL"] = 0
    BY TokenOps DEF NoToken, TokenSems
  <2>5. \E there : Passive(writer, there)
    BY <1>1, <1>11, <2>1, <2>2, <2>3, <2>4, RaisePassive, JoinPassive, RaisingOps, SummaryTypes
       DEF wr_wait_rd
  <2> QED BY <1>2, <2>5
<1>12. CASE p_empty(writer)
  <2>1. Onward(writer, "shmdt")
    BY <1>3, <1>12 DEF p_empty
  <2>2. Ready(sem_p_empty, semval) => semval["EMPTY"] > 0
    BY PageTypes, TokenOps DEF Ready, Sems, OnlyToken
  <2>3. semval["EMPTY"] > 0 => Onward(writer, "p_mutex")
    BY <1>12 DEF p_empty, Onward, Left
  <2>4. sem_p_empty.add["EMPTY"] = -1 /\ sem_p_empty.add["FULL"] = 0
    BY TokenOps DEF OnlyToken, TokenSems
  <2>5. \E there : Passive(writer, there)
    BY <1>12, <2>1, <2>2, <2>3, <2>4, SemopPassive, QuietOps, SummaryTypes DEF p_empty
  <2> QED BY <1>2, <2>5
<1>13. CASE wr_p_mutex(writer)
  <2>1. Onward(writer, "shmdt")
    BY <1>3, <1>13 DEF wr_p_mutex
  <2>2. Onward(writer, "check_alive")
    BY <1>13 DEF wr_p_mutex, Onward, Left
  <2>3. sem_p_mutex.add["EMPTY"] = 0 /\ sem_p_mutex.add["FULL"] = 0
    BY TokenOps DEF NoToken, TokenSems
  <2>4. \E there : Passive(writer, there)
    BY <1>13, <2>1, <2>2, <2>3, SemopPassive, QuietOps, SummaryTypes DEF wr_p_mutex
  <2> QED BY <1>2, <2>4
<1>14. CASE wr_check_alive(writer)
  <2>1. Onward(writer, "shmdt")
    BY <1>3, <1>14 DEF wr_check_alive
  <2>2. Ready(sem_wr_check_rd_alive, semval) => Inited(reader)
    <3>1. Ready(sem_wr_check_rd_alive, semval) => semval["PAIR"] >= 2
      BY TestOps DEF Ready, Sems
    <3> QED BY <3>1, PairFacts, MemberFacts
  <2>3. Inited(reader) => Onward(writer, "produce_item")
    BY <1>14 DEF wr_check_alive, Onward, Left
  <2>4. sem_wr_check_rd_alive.add["EMPTY"] = 0 /\ sem_wr_check_rd_alive.add["FULL"] = 0
    BY TokenOps DEF NoToken, TokenSems
  <2>5. \E there : Passive(writer, there)
    BY <1>14, <2>1, <2>2, <2>3, <2>4, SemopPassive, QuietOps, SummaryTypes DEF wr_check_alive
  <2> QED BY <1>2, <2>5
<1>15. CASE produce_item(writer)
  BY <1>15, ProduceItem
<1>16. CASE finish(writer)
  <2>1. Onward(writer, "shmdt")
    BY <1>3, <1>16 DEF finish
  <2>2. sem_wr_finish.add["EMPTY"] = 0 /\ sem_wr_finish.add["FULL"] = 0
    BY TokenOps DEF OnlyToken, TokenSems
  <2>3. \E there : Passive(writer, there)
    BY <1>16, <2>1, <2>2, SemopPassive, QuietOps, SummaryTypes DEF finish
  <2> QED BY <1>2, <2>3
<1>17. CASE put_item(writer)
  BY <1>17, PutItem
<1>18. CASE wr_v_mutex(writer)
  <2>1. Onward(writer, "shmdt")
    BY <1>3, <1>18 DEF wr_v_mutex
  <2>2. Onward(writer, "v_full")
    BY <1>18 DEF wr_v_mutex, Onward, Left
  <2>3. sem_v_mutex.add["EMPTY"] = 0 /\ sem_v_mutex.add["FULL"] = 0
    BY TokenOps DEF NoToken, TokenSems
  <2>4. \E there : Passive(writer, there)
    BY <1>18, <2>1, <2>2, <2>3, SemopPassive, QuietOps, SummaryTypes DEF wr_v_mutex
  <2> QED BY <1>2, <2>4
<1>19. CASE v_full(writer)
  <2>1. Onward(writer, "shmdt")
    BY <1>3, <1>19 DEF v_full
  <2>2. Onward(writer, "p_empty")
    BY <1>19 DEF v_full, Onward, Left
  <2>3. sem_v_full.add["EMPTY"] = 0
    BY TokenOps DEF OnlyToken, TokenSems
  <2>4. Pending
    BY <1>19 DEF v_full, ChannelInv, PageAtToken
  <2>5. \E there : Passive(writer, there)
    BY <1>19, <2>1, <2>2, <2>3, <2>4, SemopPassive, QuietOps, SummaryTypes DEF v_full
  <2> QED BY <1>2, <2>5
<1>20. CASE shmrm(writer)
  BY <1>20, RemoveSegment
<1>21. CASE exit(writer)
  <2>1. Onward(writer, "dead")
    BY <1>21 DEF exit, Onward, Left
  <2> QED BY <1>2, <1>21, <2>1, EndPassive DEF exit
<1> QED BY <1>4, <1>5, <1>6, <1>7, <1>8, <1>9, <1>10, <1>11, <1>12, <1>13, <1>14, <1>15, <1>16,
           <1>17, <1>18, <1>19, <1>20, <1>21 DEF Writer

LEMMA ReaderChannel ==
  ASSUME TypeInv, ActiveInv, SessionInv, OneSet, ChannelInv, TypeInv', Reader(reader)
  PROVE  ChannelInv' /\ [Channel!Next]_Channel!chanVars
<1> USE TheTwo DEF At
<1>1. /\ Own(reader) = "READER" /\ "READER" \in RoleSems /\ "PAIR" \in RoleSems
      /\ "EMPTY" \in Sems \ RoleSems
  BY DEF Own, RoleSems, Sems
<1>2. (\E there : Passive(reader, there)) => ChannelInv' /\ [Channel!Next]_Channel!chanVars
  BY PassiveStep
<1>3. ASSUME NEW there,
             \/ there = "exit" /\ pc[reader] # "dead"
             \/ pc[reader] \in RdLoop /\ there = "shmdt"
             \/ pc[reader] \in (Outside \ {"dead"}) \cup Initialising
                  /\ there \in RdInit \cup {"shmget", "shmat", "semget", "rd_start"}
             \/ pc[reader] = "shmdt" /\ there = "semrm"
      PROVE  Onward(reader, there)
  BY <1>3
     DEF Onward, Outside, Initialising, WrInit, RdInit, RdLoop, WrLoop, RdMet, Transferring
<1> USE DEF SamePhase, Outside, Initialising, Waiting, Transferring, WrInit, WrLoop, RdInit, RdLoop
<1>4. CASE shmat(reader) \/ shmdt(reader) \/ (semrm(reader) /\ ~Live(reader))
  <2>1. PICK there \in {"semget", "semrm", "exit"} :
          Goto(reader, there) /\ Onward(reader, there)
    BY <1>3, <1>4 DEF shmat, shmdt, semrm
  <2>2. UNCHANGED semVars /\ UNCHANGED <<shmkey, segs, shmid, ioVars>>
    BY <1>4 DEF shmat, shmdt, semrm, shmVars, semVars
  <2> QED BY <1>2, <2>1, <2>2, PlainPassive
<1>5. CASE shmget(reader)
  BY <1>5, GetSegment
<1>6. CASE semget(reader)
  <2>1. Goto(reader, "rd_start") /\ Onward(reader, "rd_start")
    BY <1>3, <1>6 DEF semget
  <2> QED BY <1>2, <1>6, <2>1, NewSetPassive
<1>7. CASE rd_start(reader)
  <2>1. Onward(reader, "wait_pair") /\ Onward(reader, "exit")
    BY <1>3, <1>7 DEF rd_start
  <2>2. sem_rd_start.add["EMPTY"] = 0 /\ sem_rd_start.add["FULL"] = 0
    BY TokenOps DEF NoToken, TokenSems
  <2>3. \E there : Passive(reader, there)
    BY <1>1, <1>7, <2>1, <2>2, RaisePassive, StartPassive, RaisingOps, SummaryTypes DEF rd_start
  <2> QED BY <1>2, <2>3
<1>8. CASE rd_wait_pair(reader)
  <2>1. Onward(reader, "set_empty") /\ Onward(reader, "exit")
    BY <1>3, <1>8 DEF rd_wait_pair
  <2>2. sem_wait_pair.add["EMPTY"] = 0 /\ sem_wait_pair.add["FULL"] = 0
    BY TokenOps DEF NoToken, TokenSems
  <2>3. \E there : Passive(reader, there)
    BY <1>8, <2>1, <2>2, SemopPassive, QuietOps, SummaryTypes DEF rd_wait_pair
  <2> QED BY <1>2, <2>3
<1>9. CASE set_empty(reader)
  <2>1. Onward(reader, "rd_init") /\ Onward(reader, "exit") /\ pc[reader] \in Preparing
    BY <1>3, <1>9 DEF set_empty, Preparing
  <2>2. \E there : Passive(reader, there)
    BY <1>1, <1>9, <2>1, SetvalPassive DEF set_empty
  <2> QED BY <1>2, <2>2
<1>10. CASE rd_init(reader)
  <2>1. Onward(reader, "exit") /\ (Live(reader) => Onward(reader, "rd_wait_wr"))
    <3>1. Live(reader) => ~Paired(writer)
      BY <1>10 DEF rd_init, SessionInv, FormsAlone, Preparing
    <3>2. Onward(reader, "exit")
      BY <1>3, <1>10 DEF rd_init
    <3> QED BY <1>10, <3>1, <3>2 DEF rd_init, Onward, RdMet
  <2>2. sem_rd_init.add["EMPTY"] = -1 /\ sem_rd_init.add["FULL"] = 0
    BY TokenOps DEF OnlyToken, TokenSems
  <2>3. \E there : Passive(reader, there)
    BY <1>1, <1>10, <2>1, <2>2, RaisePassive, InitPassive, RaisingOps, SummaryTypes DEF rd_init
  <2> QED BY <1>2, <2>3
<1>11. CASE rd_wait_wr(reader)
  <2>1. Onward(reader, "exit")
    BY <1>3, <1>11 DEF rd_wait_wr
  <2>2. Ready(sem_rd_wait_wr, semval) => Inited(writer)
    <3>1. Ready(sem_rd_wait_wr, semval) => semval["WRITER"] >= 2
      BY TestOps DEF Ready, Sems
    <3> QED BY <3>1, PeerInited
  <2>3. Inited(writer) => Onward(reader, "p_full")
    BY <1>11 DEF rd_wait_wr, Onward, RdMet
  <2>4. sem_rd_wait_wr.add["EMPTY"] = 0 /\ sem_rd_wait_wr.add["FULL"] = 0
    BY TokenOps DEF NoToken, TokenSems
  <2>5. \E there : Passive(reader, there)
    BY <1>1, <1>11, <2>1, <2>2, <2>3, <2>4, RaisePassive, JoinPassive, RaisingOps, SummaryTypes
       DEF rd_wait_wr
  <2> QED BY <1>2, <2>5
<1>12. CASE p_full(reader)
  <2>1. Onward(reader, "shmdt") /\ Inited(reader)
    BY <1>3, <1>12, Together DEF p_full
  <2>2. Ready(sem_p_full, semval) => semval["FULL"] > 0
    BY PageTypes, TokenOps DEF Ready, Sems, OnlyToken
  <2>3. semval["FULL"] > 0 => Onward(reader, "p_mutex")
    BY <1>12, <2>1 DEF p_full, Onward, RdMet
  <2>4. sem_p_full.add["FULL"] = -1 /\ sem_p_full.add["EMPTY"] = 0
    BY TokenOps DEF OnlyToken, TokenSems
  <2>5. \E there : Passive(reader, there)
    BY <1>12, <2>1, <2>2, <2>3, <2>4, SemopPassive, QuietOps, SummaryTypes DEF p_full
  <2> QED BY <1>2, <2>5
<1>13. CASE rd_p_mutex(reader)
  <2>1. Onward(reader, "shmdt")
    BY <1>3, <1>13 DEF rd_p_mutex
  <2>2. Onward(reader, "check_alive")
    BY <1>13 DEF rd_p_mutex, Onward, RdMet
  <2>3. sem_p_mutex.add["EMPTY"] = 0 /\ sem_p_mutex.add["FULL"] = 0
    BY TokenOps DEF NoToken, TokenSems
  <2>4. \E there : Passive(reader, there)
    BY <1>13, <2>1, <2>2, <2>3, SemopPassive, QuietOps, SummaryTypes DEF rd_p_mutex
  <2> QED BY <1>2, <2>4
<1>14. CASE rd_check_alive(reader)
  <2>1. Onward(reader, "shmdt")
    BY <1>3, <1>14 DEF rd_check_alive
  <2>2. Ready(sem_rd_check_wr_alive, semval) => Paired(writer)
    <3>1. Ready(sem_rd_check_wr_alive, semval) => semval["PAIR"] >= 2
      BY TestOps DEF Ready, Sems
    <3> QED BY <3>1, PairFacts
  <2>3. Paired(writer) => Onward(reader, "get_item")
    BY <1>14 DEF rd_check_alive, Onward, RdMet
  <2>4. sem_rd_check_wr_alive.add["EMPTY"] = 0 /\ sem_rd_check_wr_alive.add["FULL"] = 0
    BY TokenOps DEF NoToken, TokenSems
  <2>5. \E there : Passive(reader, there)
    BY <1>14, <2>1, <2>2, <2>3, <2>4, SemopPassive, QuietOps, SummaryTypes DEF rd_check_alive
  <2> QED BY <1>2, <2>5
<1>15. CASE get_item(reader)
  BY <1>15, GetItem
<1>16. CASE rd_v_mutex(reader)
  <2>1. Onward(reader, "shmdt")
    BY <1>3, <1>16 DEF rd_v_mutex
  <2>2. Onward(reader, "v_empty")
    BY <1>16 DEF rd_v_mutex, Onward, RdMet
  <2>3. sem_v_mutex.add["EMPTY"] = 0 /\ sem_v_mutex.add["FULL"] = 0
    BY TokenOps DEF NoToken, TokenSems
  <2>4. \E there : Passive(reader, there)
    BY <1>16, <2>1, <2>2, <2>3, SemopPassive, QuietOps, SummaryTypes DEF rd_v_mutex
  <2> QED BY <1>2, <2>4
<1>17. CASE v_empty(reader)
  <2>1. Onward(reader, "shmdt")
    BY <1>3, <1>17 DEF v_empty
  <2>2. Onward(reader, "p_full")
    BY <1>17 DEF v_empty, Onward, RdMet
  <2>3. sem_v_empty.add["FULL"] = 0
    BY TokenOps DEF OnlyToken, TokenSems
  <2>4. Settled
    BY <1>17 DEF v_empty, ChannelInv, PageAtToken
  <2>5. \E there : Passive(reader, there)
    BY <1>17, <2>1, <2>2, <2>3, <2>4, SemopPassive, QuietOps, SummaryTypes DEF v_empty
  <2> QED BY <1>2, <2>5
<1>18. CASE semrm(reader) /\ Live(reader)
  <2>1. Onward(reader, "exit")
    BY <1>3, <1>18 DEF semrm
  <2> QED BY <1>2, <1>18, <2>1, RemovalPassive
<1>19. CASE exit(reader)
  <2>1. Onward(reader, "dead")
    BY <1>19 DEF exit, Onward, RdMet
  <2> QED BY <1>2, <1>19, <2>1, EndPassive DEF exit
<1> QED BY <1>4, <1>5, <1>6, <1>7, <1>8, <1>9, <1>10, <1>11, <1>12, <1>13, <1>14, <1>15, <1>16,
           <1>17, <1>18, <1>19 DEF Reader

LEMMA ChannelStep ==
  ASSUME TypeInv, ActiveInv, SessionInv, OneSet, ChannelInv, [Next]_vars
  PROVE  ChannelInv' /\ [Channel!Next]_Channel!chanVars
<1> USE TheTwo
<1>1. TypeInv'
  BY TypeStep
<1>2. CASE UNCHANGED vars
  <2>1. UNCHANGED semVars /\ UNCHANGED <<pc, shmkey, segs, shmid, fpos, file, out>>
    BY <1>2 DEF vars, semVars
  <2>2. /\ PageInSegment' = PageInSegment /\ Printed' = Printed
        /\ (Settled' <=> Settled) /\ (Pending' <=> Pending)
    BY <2>1 DEF PageInSegment, Printed, Settled, Pending
  <2>3. Pages' /\ FileRead'
    BY <2>1, <2>2 DEF ChannelInv, Pages, FileRead
  <2>4. Segments'
    BY <2>1, SameSems DEF ChannelInv, Segments, Removed, Elsewhere
  <2>5. Met' /\ PageAtToken'
    BY <2>1, <2>2, SameSems DEF ChannelInv, Met, PageAtToken
  <2>6. UNCHANGED Channel!chanVars
    BY <2>1, <2>2 DEF Channel!chanVars, WriterState
  <2> QED BY <2>3, <2>4, <2>5, <2>6 DEF ChannelInv
<1>3. CASE \E w \in Writers : Writer(w)
  BY <1>1, <1>3, WriterChannel
<1>4. CASE \E r \in Readers : Reader(r)
  BY <1>1, <1>4, ReaderChannel
<1>5. ASSUME NEW p \in Procs, kill(p)
      PROVE  ChannelInv' /\ [Channel!Next]_Channel!chanVars
  <2>1. Onward(p, "dead")
    BY DEF Onward, Left, WrLoop, RdLoop, RdMet, Transferring
  <2>2. Passive(p, "dead")
    BY <1>5, <2>1, EndPassive DEF kill
  <2> QED BY <1>1, <2>2, PassiveStep
<1>6. ASSUME NEW p \in Procs, interrupt(p)
      PROVE  ChannelInv' /\ [Channel!Next]_Channel!chanVars
  <2>1. PICK there \in {"shmdt", "exit"} :
          /\ Goto(p, there)
          /\ there = "shmdt" => pc[p] \in {"p_empty", "p_full", "p_mutex"}
          /\ pc[p] \in DOMAIN SleepsOn
    BY <1>6 DEF interrupt
  <2>2. Onward(p, there)
    BY <2>1, SleepLabels DEF Onward, Left, WrLoop, RdLoop, RdMet, Transferring
  <2>3. Passive(p, there)
    BY <1>6, <2>1, <2>2, PlainPassive DEF interrupt, shmVars
  <2> QED BY <1>1, <2>3, PassiveStep
<1> QED BY <1>2, <1>3, <1>4, <1>5, <1>6 DEF Next

LEMMA ChannelInit ==
  ASSUME Init
  PROVE  ChannelInv /\ OneSet /\ Channel!Init
<1> USE TheTwo
<1>1. /\ \A p \in Procs : /\ semid[p] = 0 /\ shmid[p] = 0 /\ semadj[p] = NoSems
                          /\ ~Inited(p) /\ ~Paired(p)
      /\ pc[writer] = "make_file" /\ pc[reader] = "shmget"
      /\ segs = <<>> /\ fpos[writer] = 0 /\ file[writer] = "more" /\ out[reader] = <<>>
  BY DEF Init, Inited, Held, Own, Paired, NoSems, Sems
<1>2. PageInSegment = 0 /\ Printed = 0 /\ Settled
  BY <1>1 DEF PageInSegment, Printed, Settled
<1>3. Pages /\ FileRead /\ Segments
  BY <1>1, <1>2 DEF Pages, FileRead, Segments, Removed, Elsewhere, WrLoop
<1>4. Met /\ PageAtToken
  BY <1>1, <1>2 DEF Met, PageAtToken, WrLoop
<1>5. OneSet
  BY <1>1 DEF OneSet, Engaged, WrActive, RdActive, WrInit, RdInit, WrLoop, RdLoop
<1>6. Channel!Init
  <2>1. [i \in DOMAIN out[reader] |-> out[reader][i][2]] = <<>>
    BY <1>1
  <2> QED BY <1>1, <1>2, <2>1 DEF Channel!Init, WriterState
<1> QED BY <1>3, <1>4, <1>5, <1>6 DEF ChannelInv

\* One execution of writer.c and one of reader.c are a channel with room for one page
\* (the loops of writer.c:102 and reader.c:55), for a file of any length and wherever
\* the two are killed, or stopped and continued: the reader prints the writer's pages,
\* each once and in order, the writer overwrites no page that was not printed, and it
\* comes to the end of the file only when all are.
THEOREM ImplementsChannelCorrect == PairSpec => ImplementsChannel
<1> DEFINE IInv == TypeInv /\ ActiveInv /\ SessionInv /\ OneSet /\ ChannelInv
<1>1. PairInit => IInv /\ Channel!Init
  <2>1. Init => ActiveInv
    BY ActiveInit
  <2> QED BY <2>1, TypeInit, SessionInit, ChannelInit DEF PairInit
<1>2. IInv /\ [PairNext]_<<vars, hit>> => IInv' /\ [Channel!Next]_Channel!chanVars
  <2>1. [PairNext]_<<vars, hit>> => [Next]_vars
    BY DEF PairNext
  <2> QED BY <2>1, TypeStep, ActiveStep, SessionStep, OneSetStep, ChannelStep
<1> QED BY <1>1, <1>2, PTL DEF PairSpec, ImplementsChannel, Channel!Spec
===============================================================================
