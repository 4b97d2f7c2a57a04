----------------------------- MODULE ShmTransfer -----------------------------
(***************************************************************************)
(* task3: writer.c reads a file and hands it, one page at a time, through  *)
(* a System V shared memory segment to reader.c, which prints it.  All     *)
(* coordination is done with one semaphore set; death of either process is *)
(* detected through SEM_UNDO.                                              *)
(*                                                                         *)
(* Every element of Writers and Readers is one execution of the program:   *)
(* it runs once and may be killed at any point if it is in Killable.       *)
(* Running a program again is another element of the set.  pc[p] names the *)
(* call that p performs next.                                              *)
(***************************************************************************)
EXTENDS SysVSem, Sequences

CONSTANTS
  Writers,    \* executions of writer.c
  Readers,    \* executions of reader.c
  Killable,   \* the executions a signal may kill
  Stoppable,  \* the executions that somebody may stop and continue
  Chunks      \* successful read() calls until end of file (bounds the model)

Procs == Writers \cup Readers

ASSUME ShmAssumption ==
  /\ Writers \cap Readers = {}
  /\ Killable \subseteq Procs /\ Stoppable \subseteq Procs
  /\ Chunks \in Nat

VARIABLES
  pc,       \* the next call of each process
  semkey,   \* the semaphore set now under the key, 0 when there is none
  nsem,     \* how many semaphore sets were ever created
  semval,   \* the values of the set semkey
  semid,    \* sem_id of each process, 0 before semget()
  semadj,   \* each process's SEM_UNDO account on the set semkey
  shmkey,   \* the segment now under the key, 0 when there is none
  segs,     \* the contents of every segment ever created
  shmid,    \* shm_id of each process, 0 before shmget()
  att,      \* the processes that have their segment attached
  fpos,     \* how many chunks each writer has read from its file
  file,     \* what each writer's last read() said: more, end of file or an error
  out       \* what each reader has written to stdout

vars == <<pc, semkey, nsem, semval, semid, semadj, shmkey, segs, shmid, att, fpos, file, out>>
semVars == <<semkey, nsem, semval, semid, semadj>>
shmVars == <<shmkey, segs, shmid, att>>
ioVars == <<fpos, file, out>>

\* The contents of a fresh segment: len is 0, so printing it prints nothing.
Blank == <<>>
Chunk == Writers \X (1 .. Chunks)

Init ==
  /\ pc = [p \in Procs |-> IF p \in Writers THEN "make_file" ELSE "shmget"]
  /\ semkey = 0 /\ nsem = 0 /\ semval = NoSems
  /\ semid = [p \in Procs |-> 0]
  /\ semadj = [p \in Procs |-> NoSems]
  /\ shmkey = 0 /\ segs = <<>>
  /\ shmid = [p \in Procs |-> 0]
  /\ att = {}
  /\ fpos = [w \in Writers |-> 0]
  /\ file = [w \in Writers |-> "more"]
  /\ out = [r \in Readers |-> <<>>]

-----------------------------------------------------------------------------
\* System calls

At(p, here) == pc[p] = here
Goto(p, there) == pc' = [pc EXCEPT ![p] = there]

\* p's semaphore set has not been removed.
Live(p) == semid[p] # 0 /\ semid[p] = semkey

\* semop(): on success p goes on at ok; on a removed set (EIDRM, EINVAL) and,
\* for a nowait array, on EAGAIN it goes on at fail.  Otherwise it sleeps.
semop(p, op, ok, fail) ==
  /\ \/ /\ Live(p)
        /\ Ready(op, semval)
        /\ semval' = Performed(op, semval)
        /\ semadj' = [semadj EXCEPT ![p] = Account(op, @)]
        /\ Goto(p, ok)
     \/ /\ ~Live(p) \/ (op.nowait /\ ~Ready(op, semval))
        /\ Goto(p, fail)
        /\ UNCHANGED <<semval, semadj>>
  /\ UNCHANGED <<semkey, nsem, semid, shmVars, ioVars>>

\* semctl(SETVAL): sets one value and clears it from every SEM_UNDO account.
setval(p, x, n, ok) ==
  /\ \/ /\ Live(p)
        /\ semval' = [semval EXCEPT ![x] = n]
        /\ semadj' = [q \in Procs |-> [semadj[q] EXCEPT ![x] = 0]]
        /\ Goto(p, ok)
     \/ /\ ~Live(p)
        /\ Goto(p, "exit")
        /\ UNCHANGED <<semval, semadj>>
  /\ UNCHANGED <<semkey, nsem, semid, shmVars, ioVars>>

\* A segment exists while it is under the key or somebody has it attached.
SegExists(s) == s = shmkey \/ \E q \in att : shmid[q] = s

\* init_shmem(): shmget(IPC_CREAT), then shmat().
shmget(p) ==
  /\ At(p, "shmget")
  /\ IF shmkey = 0
     THEN segs' = Append(segs, Blank) /\ shmkey' = Len(segs) + 1
     ELSE UNCHANGED <<segs, shmkey>>
  /\ shmid' = [shmid EXCEPT ![p] = shmkey']
  /\ Goto(p, "shmat")
  /\ UNCHANGED <<att, semVars, ioVars>>

shmat(p) ==
  /\ At(p, "shmat")
  /\ IF SegExists(shmid[p])
     THEN att' = att \cup {p} /\ Goto(p, "semget")
     ELSE UNCHANGED att /\ Goto(p, "exit")
  /\ UNCHANGED <<shmkey, segs, shmid, semVars, ioVars>>

\* semget(IPC_CREAT): a new set starts with every semaphore at 0.
semget(p) ==
  /\ At(p, "semget")
  /\ IF semkey = 0
     THEN nsem' = nsem + 1 /\ semkey' = nsem + 1 /\ semval' = NoSems
     ELSE UNCHANGED <<nsem, semkey, semval>>
  /\ semid' = [semid EXCEPT ![p] = semkey']
  /\ Goto(p, IF p \in Writers THEN "wr_start" ELSE "rd_start")
  /\ UNCHANGED <<semadj, shmVars, ioVars>>

shmdt(p) ==
  /\ At(p, "shmdt")
  /\ att' = att \ {p}
  /\ Goto(p, IF p \in Writers THEN "shmrm" ELSE "semrm")
  /\ UNCHANGED <<shmkey, segs, shmid, semVars, ioVars>>

\* The end of a process, by returning from main() or by a signal: the kernel
\* detaches its segment and applies its SEM_UNDO account.
terminate(p) ==
  /\ semval' = Undone(semval, semadj[p])
  /\ semadj' = [semadj EXCEPT ![p] = NoSems]
  /\ att' = att \ {p}
  /\ Goto(p, "dead")
  /\ UNCHANGED <<semkey, nsem, semid, shmkey, segs, shmid, ioVars>>

exit(p) == At(p, "exit") /\ terminate(p)

kill(p) == p \in Killable /\ pc[p] \notin {"exit", "dead"} /\ terminate(p)

\* The arrays in whose semop() a process may sleep, by the label of the call.
SleepsOn ==
  [wr_start |-> sem_wr_start, rd_start |-> sem_rd_start, wait_pair |-> sem_wait_pair,
   wr_init |-> sem_wr_init, rd_init |-> sem_rd_init,
   wr_wait_rd |-> sem_wr_wait_rd, rd_wait_wr |-> sem_rd_wait_wr,
   p_empty |-> sem_p_empty, p_full |-> sem_p_full, p_mutex |-> sem_p_mutex]

\* p is stopped and continued while it sleeps: semop() fails with EINTR, and no
\* program tries again.
interrupt(p) ==
  /\ p \in Stoppable /\ Live(p)
  /\ pc[p] \in DOMAIN SleepsOn /\ ~Ready(SleepsOn[pc[p]], semval)
  /\ Goto(p, IF pc[p] \in {"p_empty", "p_full", "p_mutex"} THEN "shmdt" ELSE "exit")
  /\ UNCHANGED <<semVars, shmVars, ioVars>>

-----------------------------------------------------------------------------
\* writer.c

\* make_file(): open() of the input file may fail.
make_file(w) ==
  /\ At(w, "make_file")
  /\ Goto(w, "shmget") \/ Goto(w, "exit")
  /\ UNCHANGED <<semVars, shmVars, ioVars>>

wr_start(w) == At(w, "wr_start") /\ semop(w, sem_wr_start, "wait_pair", "exit")
wr_wait_pair(w) == At(w, "wait_pair") /\ semop(w, sem_wait_pair, "set_finish", "exit")

\* sem_init_writer()
set_finish(w) == At(w, "set_finish") /\ setval(w, "FINISH", 1, "set_mutex")
set_mutex(w) == At(w, "set_mutex") /\ setval(w, "MUTEX", 3, "set_full")
set_full(w) == At(w, "set_full") /\ setval(w, "FULL", 1, "wr_init")
wr_init(w) == At(w, "wr_init") /\ semop(w, sem_wr_init, "wr_wait_rd", "exit")

wr_wait_rd(w) == At(w, "wr_wait_rd") /\ semop(w, sem_wr_wait_rd, "p_empty", "exit")

p_empty(w) == At(w, "p_empty") /\ semop(w, sem_p_empty, "p_mutex", "shmdt")
wr_p_mutex(w) == At(w, "p_mutex") /\ semop(w, sem_p_mutex, "check_alive", "shmdt")
wr_check_alive(w) ==
  At(w, "check_alive") /\ semop(w, sem_wr_check_rd_alive, "produce_item", "shmdt")

\* Mutant: one read too many is taken for data.
produce_item_PastEof(w) ==
  /\ At(w, "produce_item")
  /\ \/ /\ fpos' = [fpos EXCEPT ![w] = @ + 1]
        /\ Goto(w, "put_item")
        /\ UNCHANGED file
     \/ /\ fpos[w] = Chunks
        /\ file' = [file EXCEPT ![w] = "eof"]
        /\ Goto(w, "finish")
        /\ UNCHANGED fpos
  /\ UNCHANGED <<out, semVars, shmVars>>

\* produce_item(): read() returns a chunk, end of file or an error.
produce_item(w) ==
  /\ At(w, "produce_item")
  /\ \/ /\ fpos[w] < Chunks
        /\ fpos' = [fpos EXCEPT ![w] = @ + 1]
        /\ Goto(w, "put_item")
        /\ UNCHANGED file
     \/ /\ fpos[w] = Chunks
        /\ file' = [file EXCEPT ![w] = "eof"]
        /\ Goto(w, "finish")
        /\ UNCHANGED fpos
     \/ /\ file' = [file EXCEPT ![w] = "error"]
        /\ Goto(w, "shmdt")
        /\ UNCHANGED fpos
  /\ UNCHANGED <<out, semVars, shmVars>>

finish(w) == At(w, "finish") /\ semop(w, sem_wr_finish, "shmdt", "shmdt")

\* memcpy() of len and buf; a reader at get_item meanwhile is a data race.
put_item(w) ==
  /\ At(w, "put_item")
  /\ segs' = [segs EXCEPT ![shmid[w]] = <<w, fpos[w]>>]
  /\ Goto(w, "v_mutex")
  /\ UNCHANGED <<shmkey, shmid, att, semVars, ioVars>>

wr_v_mutex(w) == At(w, "v_mutex") /\ semop(w, sem_v_mutex, "v_full", "shmdt")

\* Mutant: two pages are announced for one that was put.
v_full_Twice(w) ==
  At(w, "v_full") /\ semop(w, [sem_v_full EXCEPT !.add["FULL"] = 2], "p_empty", "shmdt")

v_full(w) == At(w, "v_full") /\ semop(w, sem_v_full, "p_empty", "shmdt")

\* shmctl(IPC_RMID): the key no longer leads to the segment, which lives on
\* for those that have it attached.
shmrm(w) ==
  /\ At(w, "shmrm")
  /\ shmkey' = IF shmkey = shmid[w] THEN 0 ELSE shmkey
  /\ Goto(w, "exit")
  /\ UNCHANGED <<segs, shmid, att, semVars, ioVars>>

\* The code of writer.c, whose steps the scheduler owes the process.
Writer(w) ==
  \/ make_file(w) \/ shmget(w) \/ shmat(w) \/ semget(w)
  \/ wr_start(w) \/ wr_wait_pair(w)
  \/ set_finish(w) \/ set_mutex(w) \/ set_full(w) \/ wr_init(w)
  \/ wr_wait_rd(w)
  \/ p_empty(w) \/ wr_p_mutex(w) \/ wr_check_alive(w)
  \/ produce_item(w) \/ finish(w) \/ put_item(w)
  \/ wr_v_mutex(w) \/ v_full(w)
  \/ shmdt(w) \/ shmrm(w) \/ exit(w)

-----------------------------------------------------------------------------
\* reader.c

rd_start(r) == At(r, "rd_start") /\ semop(r, sem_rd_start, "wait_pair", "exit")
rd_wait_pair(r) == At(r, "wait_pair") /\ semop(r, sem_wait_pair, "set_empty", "exit")

\* sem_init_reader()
set_empty(r) == At(r, "set_empty") /\ setval(r, "EMPTY", 2, "rd_init")
rd_init(r) == At(r, "rd_init") /\ semop(r, sem_rd_init, "rd_wait_wr", "exit")

rd_wait_wr(r) == At(r, "rd_wait_wr") /\ semop(r, sem_rd_wait_wr, "p_full", "exit")

p_full(r) == At(r, "p_full") /\ semop(r, sem_p_full, "p_mutex", "shmdt")
rd_p_mutex(r) == At(r, "p_mutex") /\ semop(r, sem_p_mutex, "check_alive", "shmdt")
rd_check_alive(r) ==
  At(r, "check_alive") /\ semop(r, sem_rd_check_wr_alive, "get_item", "shmdt")

\* write(STDOUT_FILENO, buf, len) of what the segment holds.
get_item(r) ==
  /\ At(r, "get_item")
  /\ out' = [out EXCEPT ![r] = IF segs[shmid[r]] = Blank THEN @ ELSE Append(@, segs[shmid[r]])]
  /\ Goto(r, "v_mutex")
  /\ UNCHANGED <<fpos, file, semVars, shmVars>>

rd_v_mutex(r) == At(r, "v_mutex") /\ semop(r, sem_v_mutex, "v_empty", "shmdt")
v_empty(r) == At(r, "v_empty") /\ semop(r, sem_v_empty, "p_full", "shmdt")

\* semctl(IPC_RMID): the set, its values and its accounts are gone.
semrm(r) ==
  /\ At(r, "semrm")
  /\ IF Live(r)
     THEN semkey' = 0 /\ semval' = NoSems /\ semadj' = [q \in Procs |-> NoSems]
     ELSE UNCHANGED <<semkey, semval, semadj>>
  /\ Goto(r, "exit")
  /\ UNCHANGED <<nsem, semid, shmVars, ioVars>>

Reader(r) ==
  \/ shmget(r) \/ shmat(r) \/ semget(r)
  \/ rd_start(r) \/ rd_wait_pair(r) \/ set_empty(r) \/ rd_init(r)
  \/ rd_wait_wr(r)
  \/ p_full(r) \/ rd_p_mutex(r) \/ rd_check_alive(r) \/ get_item(r)
  \/ rd_v_mutex(r) \/ v_empty(r)
  \/ shmdt(r) \/ semrm(r) \/ exit(r)

-----------------------------------------------------------------------------
Next ==
  \/ \E w \in Writers : Writer(w)
  \/ \E r \in Readers : Reader(r)
  \/ \E p \in Procs : kill(p) \/ interrupt(p)

Spec == Init /\ [][Next]_vars

\* A process that was launched is run whenever its next call can proceed (a
\* sleeper in semop() is woken by the change it waits for); nobody is obliged
\* to launch a program, to kill one or to stop one.
Fairness ==
  /\ \A w \in Writers : WF_vars(~At(w, "make_file") /\ Writer(w))
  /\ \A r \in Readers : WF_vars(~At(r, "shmget") /\ Reader(r))

FairSpec == Spec /\ Fairness

-----------------------------------------------------------------------------
\* Properties

WrLoop == {"p_empty", "p_mutex", "check_alive", "produce_item", "finish", "put_item",
           "v_mutex", "v_full"}
RdLoop == {"p_full", "p_mutex", "check_alive", "get_item", "v_mutex", "v_empty"}
WrInit == {"wait_pair", "set_finish", "set_mutex", "set_full", "wr_init"}
RdInit == {"wait_pair", "set_empty", "rd_init"}
WrActive == WrInit \cup {"wr_wait_rd", "shmdt", "shmrm"} \cup WrLoop
RdActive == RdInit \cup {"rd_wait_wr", "shmdt", "semrm"} \cup RdLoop
WrLabels == {"make_file", "shmget", "shmat", "semget", "wr_start", "exit", "dead"} \cup WrActive
RdLabels == {"shmget", "shmat", "semget", "rd_start", "exit", "dead"} \cup RdActive

\* Every variable has its type, and every process is in its own program: values of
\* semaphores never fall below 0, whatever semop() and SEM_UNDO do to them.
TypeOK ==
  /\ pc \in [Procs -> WrLabels \cup RdLabels]
  /\ \A w \in Writers : pc[w] \in WrLabels
  /\ \A r \in Readers : pc[r] \in RdLabels
  /\ nsem \in Nat /\ semkey \in 0 .. nsem
  /\ semval \in [Sems -> Nat]
  /\ semid \in [Procs -> 0 .. nsem]
  /\ semadj \in [Procs -> [Sems -> Int]]
  /\ segs \in Seq(Chunk \cup {Blank})
  /\ shmkey \in 0 .. Len(segs)
  /\ shmid \in [Procs -> 0 .. Len(segs)]
  /\ att \subseteq Procs
  /\ fpos \in [Writers -> 0 .. Chunks]
  /\ file \in [Writers -> {"more", "eof", "error"}]
  /\ out \in [Readers -> Seq(Chunk)]

\* "Guarantees a single active writer" (writer.c:82) and its twin for readers
\* (reader.c:35): on one semaphore set, at most one writer and at most one
\* reader is past its start, whoever was killed and restarted before.
SingleActive ==
  /\ \A p, q \in Writers :
       Live(p) /\ Live(q) /\ pc[p] \in WrActive /\ pc[q] \in WrActive => p = q
  /\ \A p, q \in Readers :
       Live(p) /\ Live(q) /\ pc[p] \in RdActive /\ pc[q] \in RdActive => p = q

\* p's account holds a membership of the pair, to be given back at its death.
Paired(p) == semadj[p]["PAIR"] = -1

\* SEM_PAIR counts the living members of the pair: one writer and one reader at
\* most, and no member that died is still counted.
PairCount ==
  semval["PAIR"] = (IF \E w \in Writers : Paired(w) THEN 1 ELSE 0)
                 + (IF \E r \in Readers : Paired(r) THEN 1 ELSE 0)

\* A liveness check that succeeds (writer.c:111, reader.c:64) has a living peer in the
\* pair at that moment, which is in its transfer loop unless it may have left that on
\* being stopped and continued.
CheckFindsPeer ==
  [][/\ \A w \in Writers : At(w, "check_alive") /\ pc'[w] = "produce_item" =>
          \E r \in Readers : Live(r) /\ Paired(r) /\ (pc[r] \in RdLoop \/ r \in Stoppable)
     /\ \A r \in Readers : At(r, "check_alive") /\ pc'[r] = "get_item" =>
          \E w \in Writers : Live(w) /\ Paired(w) /\ (pc[w] \in WrLoop \/ w \in Stoppable)]_vars

\* The writer's memcpy() and the reader's write() never touch one segment at
\* the same time.
NoDataRace ==
  \A w \in Writers, r \in Readers :
    ~(At(w, "put_item") /\ At(r, "get_item") /\ shmid[w] = shmid[r])

\* The page has one owner: while a pair transfers, the EMPTY and FULL tokens
\* and the token that a process took and has not passed on are at most one.
WrHolds(w) == pc[w] \in WrLoop \ {"p_empty"}
RdHolds(r) == pc[r] \in RdLoop \ {"p_full"}
OneToken ==
  \A w \in Writers, r \in Readers :
    /\ Paired(w) /\ Paired(r) /\ pc[w] \in WrLoop /\ pc[r] \in RdLoop
    => semval["EMPTY"] + semval["FULL"]
         + (IF WrHolds(w) THEN 1 ELSE 0) + (IF RdHolds(r) THEN 1 ELSE 0) <= 1

\* When a reader is about to remove the semaphore set (reader.c:81), nobody is
\* past waiting for the old pair: the removal fails queued processes only, it
\* never tears down a session.  (A reader that is stopped and continued does, and
\* the writer it leaves behind may still put a page into the next session's segment.)
RemovalHarmsNoSession ==
  \A r \in Readers : At(r, "semrm") /\ Live(r) =>
    \A q \in Procs \ {r} :
      Live(q) => pc[q] \in {"wr_start", "rd_start", "wait_pair", "exit", "dead"}

\* Whoever is in a pair ends: at end of file, or because its peer's death is
\* noticed; it never sleeps forever on a token that a dead peer holds.
PairedEnds == \A p \in Procs : Paired(p) ~> At(p, "dead")

\* The liveness check comment "check whether the reader is alive" (writer.c:110):
\* the writer gives up only if no initialised reader is alive on its set.
QuitsOnlyWithoutReader ==
  [][\A w \in Writers : At(w, "check_alive") /\ Live(w) /\ pc'[w] = "shmdt" =>
       ~\E r \in Readers : Live(r) /\ pc[r] \in RdLoop \cup {"rd_wait_wr"}]_vars

\* "Loop that reads the file and hands the data to the reader" (writer.c:102): a
\* pair that has formed is never stuck with neither token available.
PairNotStuck ==
  ~\E w \in Writers, r \in Readers :
     /\ Paired(w) /\ Paired(r) /\ At(w, "p_empty") /\ At(r, "p_full")
     /\ semval["EMPTY"] = 0 /\ semval["FULL"] = 0

\* "Loop that reads the shared memory and prints it" (reader.c:55): what a reader
\* prints was put by the writer it shares the semaphore set with.
PrintsPeersData ==
  [][\A r \in Readers : out'[r] # out[r] =>
       LET w == out'[r][Len(out'[r])][1] IN semid[w] = semid[r]]_vars
=============================================================================
