------------------------------- MODULE SysVSem -------------------------------
(***************************************************************************)
(* The semaphore set of task3 and the sembuf arrays of task3/common.c.     *)
(*                                                                         *)
(* semop(2) runs an array as one atomic operation: either every sembuf of  *)
(* it can be performed, in order, or none is and the caller sleeps (or     *)
(* gets EAGAIN when the sembuf that cannot be performed has IPC_NOWAIT).   *)
(* An array is therefore summarised by what it tests and what it changes:  *)
(*   zero     the semaphores it requires to be 0,                          *)
(*   atLeast  the values it requires beyond those its own changes need     *)
(*            (a decrement that the same array gives back),                *)
(*   add      the net change of each semaphore,                            *)
(*   undo     the semaphores whose change carries SEM_UNDO,                *)
(*   nowait   whether the tests that can fail carry IPC_NOWAIT.            *)
(* Module SembufArrays holds the arrays as common.c lists them and checks  *)
(* that running them one sembuf at a time does what the summary says.      *)
(***************************************************************************)
EXTENDS Integers

\* enum Sems
Sems == {"EMPTY", "FULL", "WRITER", "READER", "FINISH", "PAIR", "MUTEX"}

\* A set just created by semget(2) on Linux, and an empty SEM_UNDO account.
NoSems == [x \in Sems |-> 0]

Sembufs(zero, atLeast, add, undo, nowait) ==
  [zero |-> zero, atLeast |-> atLeast, add |-> add, undo |-> undo, nowait |-> nowait]

P(x) == Sembufs({}, NoSems, [NoSems EXCEPT ![x] = -1], {}, FALSE)
V(x) == Sembufs({}, NoSems, [NoSems EXCEPT ![x] = 1], {}, FALSE)

-----------------------------------------------------------------------------
\* Mutant: the test that the section is free is forgotten.
sem_wr_start_NoTest ==
  Sembufs({}, NoSems, [NoSems EXCEPT !["WRITER"] = 1], {"WRITER"}, FALSE)

\* Entering the writer section: wait until nobody is in it, then take it.
sem_wr_start ==
  Sembufs({"WRITER"}, NoSems, [NoSems EXCEPT !["WRITER"] = 1], {"WRITER"}, FALSE)

sem_rd_start ==
  Sembufs({"READER"}, NoSems, [NoSems EXCEPT !["READER"] = 1], {"READER"}, FALSE)

\* Mutant: one survivor of the previous pair is tolerated.
sem_wait_pair_NoTest == Sembufs({}, NoSems, NoSems, {}, FALSE)

\* Wait until the previous writer and reader are both gone.
sem_wait_pair == Sembufs({"PAIR"}, NoSems, NoSems, {}, FALSE)

\* Mutant: the "no end of file yet" state is never entered.
sem_wr_init_KeepFinish ==
  Sembufs({}, NoSems,
          [NoSems EXCEPT !["WRITER"] = 1, !["FULL"] = -1, !["MUTEX"] = -1],
          {"WRITER", "FULL", "MUTEX"}, FALSE)

\* Mutant: nothing wakes a reader in P(FULL) when the writer dies.
sem_wr_init_KeepFull ==
  Sembufs({}, NoSems,
          [NoSems EXCEPT !["WRITER"] = 1, !["FULL"] = -1, !["FINISH"] = -1, !["MUTEX"] = -1],
          {"WRITER", "FINISH", "MUTEX"}, FALSE)

\* Take the tokens that exit gives back: after a death FULL (resp. EMPTY)
\* and MUTEX rise by one, which is what wakes the surviving peer.
sem_wr_init ==
  Sembufs({}, NoSems,
          [NoSems EXCEPT !["WRITER"] = 1, !["FULL"] = -1, !["FINISH"] = -1, !["MUTEX"] = -1],
          {"WRITER", "FULL", "FINISH", "MUTEX"}, FALSE)

\* Mutant: both EMPTY tokens set by the reader stay.
sem_rd_init_KeepEmpty ==
  Sembufs({}, NoSems, [NoSems EXCEPT !["READER"] = 1, !["MUTEX"] = -1],
          {"READER", "MUTEX"}, FALSE)

sem_rd_init ==
  Sembufs({}, NoSems,
          [NoSems EXCEPT !["READER"] = 1, !["EMPTY"] = -1, !["MUTEX"] = -1],
          {"READER", "EMPTY", "MUTEX"}, FALSE)

\* Mutant: membership of the pair is recorded without SEM_UNDO.
sem_wr_wait_rd_KeepPair ==
  Sembufs({}, [NoSems EXCEPT !["READER"] = 2], [NoSems EXCEPT !["PAIR"] = 1], {}, FALSE)

\* Wait for the peer to be initialised and record being in the pair.
sem_wr_wait_rd ==
  Sembufs({}, [NoSems EXCEPT !["READER"] = 2], [NoSems EXCEPT !["PAIR"] = 1], {"PAIR"}, FALSE)

sem_rd_wait_wr ==
  Sembufs({}, [NoSems EXCEPT !["WRITER"] = 2], [NoSems EXCEPT !["PAIR"] = 1], {"PAIR"}, FALSE)

sem_wr_finish == V("FINISH")
\* No program uses this one.
sem_rd_finish == Sembufs({"FINISH"}, NoSems, NoSems, {}, TRUE)
sem_p_empty == P("EMPTY")
sem_v_empty == V("EMPTY")
sem_p_mutex == P("MUTEX")
sem_v_mutex == V("MUTEX")
sem_p_full == P("FULL")
sem_v_full == V("FULL")

\* Is the peer still in the pair (and, for the reader, no end of file yet)?
sem_rd_check_wr_alive ==
  Sembufs({"FINISH"}, [NoSems EXCEPT !["PAIR"] = 2], NoSems, {}, TRUE)

\* Mutant: the writer takes its own membership of the pair for its peer's.
sem_wr_check_rd_alive_Self ==
  Sembufs({}, [NoSems EXCEPT !["PAIR"] = 1], NoSems, {}, TRUE)

sem_wr_check_rd_alive ==
  Sembufs({}, [NoSems EXCEPT !["PAIR"] = 2], NoSems, {}, TRUE)

-----------------------------------------------------------------------------
\* The kernel: what semop(2), SETVAL and process exit do to semaphore values
\* and to the SEM_UNDO accounts.

\* The array op can be performed on the values v.
Ready(op, v) ==
  /\ \A x \in op.zero : v[x] = 0
  /\ \A x \in Sems : v[x] >= op.atLeast[x] /\ v[x] + op.add[x] >= 0

Performed(op, v) == [x \in Sems |-> v[x] + op.add[x]]

Account(op, adj) == [x \in Sems |-> IF x \in op.undo THEN adj[x] - op.add[x] ELSE adj[x]]

\* exit_sem(): the account is added to the values, never below 0.
Undone(v, adj) == [x \in Sems |-> IF v[x] + adj[x] < 0 THEN 0 ELSE v[x] + adj[x]]
=============================================================================
