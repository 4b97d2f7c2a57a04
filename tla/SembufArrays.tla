----------------------------- MODULE SembufArrays ----------------------------
(***************************************************************************)
(* The sembuf arrays of task3/common.c as they are listed there, run one   *)
(* sembuf at a time as the kernel does, against the summaries of SysVSem   *)
(* that the other modules use.                                             *)
(***************************************************************************)
EXTENDS SysVSem, Sequences

CONSTANT MaxVal      \* largest semaphore value tried (bounds the model)

ASSUME MaxValAssumption == MaxVal \in Nat \ {0}

Sembuf(num, op, flg) == [num |-> num, op |-> op, flg |-> flg]

Arrays == [
  sem_wr_start |-> <<Sembuf("WRITER", 0, {}), Sembuf("WRITER", 1, {"SEM_UNDO"})>>,
  sem_rd_start |-> <<Sembuf("READER", 0, {}), Sembuf("READER", 1, {"SEM_UNDO"})>>,
  sem_wait_pair |-> <<Sembuf("PAIR", 0, {})>>,
  sem_wr_init |-> <<Sembuf("WRITER", 1, {"SEM_UNDO"}), Sembuf("FULL", -1, {"SEM_UNDO"}),
                    Sembuf("FINISH", -1, {"SEM_UNDO"}), Sembuf("MUTEX", -1, {"SEM_UNDO"})>>,
  sem_rd_init |-> <<Sembuf("READER", 1, {"SEM_UNDO"}), Sembuf("EMPTY", -1, {"SEM_UNDO"}),
                    Sembuf("MUTEX", -1, {"SEM_UNDO"})>>,
  sem_wr_wait_rd |-> <<Sembuf("READER", -2, {}), Sembuf("READER", 2, {}),
                       Sembuf("PAIR", 1, {"SEM_UNDO"})>>,
  sem_rd_wait_wr |-> <<Sembuf("WRITER", -2, {}), Sembuf("WRITER", 2, {}),
                       Sembuf("PAIR", 1, {"SEM_UNDO"})>>,
  sem_wr_finish |-> <<Sembuf("FINISH", 1, {})>>,
  sem_rd_finish |-> <<Sembuf("FINISH", 0, {"IPC_NOWAIT"})>>,
  sem_p_empty |-> <<Sembuf("EMPTY", -1, {})>>,
  sem_v_empty |-> <<Sembuf("EMPTY", 1, {})>>,
  sem_p_mutex |-> <<Sembuf("MUTEX", -1, {})>>,
  sem_v_mutex |-> <<Sembuf("MUTEX", 1, {})>>,
  sem_p_full |-> <<Sembuf("FULL", -1, {})>>,
  sem_v_full |-> <<Sembuf("FULL", 1, {})>>,
  sem_rd_check_wr_alive |-> <<Sembuf("PAIR", -2, {"IPC_NOWAIT"}), Sembuf("PAIR", 2, {}),
                              Sembuf("FINISH", 0, {"IPC_NOWAIT"})>>,
  sem_wr_check_rd_alive |-> <<Sembuf("PAIR", -2, {"IPC_NOWAIT"}), Sembuf("PAIR", 2, {})>>]

Summary == [
  sem_wr_start |-> sem_wr_start, sem_rd_start |-> sem_rd_start,
  sem_wait_pair |-> sem_wait_pair, sem_wr_init |-> sem_wr_init,
  sem_rd_init |-> sem_rd_init, sem_wr_wait_rd |-> sem_wr_wait_rd,
  sem_rd_wait_wr |-> sem_rd_wait_wr, sem_wr_finish |-> sem_wr_finish,
  sem_rd_finish |-> sem_rd_finish,
  sem_p_empty |-> sem_p_empty, sem_v_empty |-> sem_v_empty,
  sem_p_mutex |-> sem_p_mutex, sem_v_mutex |-> sem_v_mutex,
  sem_p_full |-> sem_p_full, sem_v_full |-> sem_v_full,
  sem_rd_check_wr_alive |-> sem_rd_check_wr_alive,
  sem_wr_check_rd_alive |-> sem_wr_check_rd_alive]

\* perform_atomic_semop(): the first sembuf that cannot be performed decides
\* whether the caller sleeps or gets EAGAIN, and undoes those before it.
OneSembuf(st, s) ==
  IF st.res # "done" THEN st
  ELSE IF (s.op = 0 /\ st.val[s.num] # 0) \/ st.val[s.num] + s.op < 0
  THEN [st EXCEPT !.res = IF "IPC_NOWAIT" \in s.flg THEN "eagain" ELSE "sleep"]
  ELSE [val |-> [st.val EXCEPT ![s.num] = @ + s.op],
        adj |-> IF "SEM_UNDO" \in s.flg THEN [st.adj EXCEPT ![s.num] = @ - s.op] ELSE st.adj,
        res |-> "done"]

\* semop(a) on the values v: no array has more than four sembufs.
Run(a, v) ==
  LET Then(st, i) == IF i <= Len(Arrays[a]) THEN OneSembuf(st, Arrays[a][i]) ELSE st
  IN Then(Then(Then(Then([val |-> v, adj |-> NoSems, res |-> "done"], 1), 2), 3), 4)

-----------------------------------------------------------------------------
VARIABLE val      \* the values of one semaphore set

Init == val = NoSems

Semop(a) ==
  LET st == Run(a, val) IN
  /\ st.res = "done" /\ \A x \in Sems : st.val[x] <= MaxVal
  /\ val' = st.val

Setval(x, n) == val' = [val EXCEPT ![x] = n]

Next ==
  \/ \E a \in DOMAIN Arrays : Semop(a)
  \/ \E x \in Sems, n \in 0 .. MaxVal : Setval(x, n)

Spec == Init /\ [][Next]_val

\* On every value of the set, each array of common.c is performed, sleeps or
\* fails with EAGAIN exactly when its summary says so, and changes the values and
\* the SEM_UNDO account as its summary says.
SummariesAgree ==
  \A a \in DOMAIN Arrays :
    LET st == Run(a, val)
        op == Summary[a]
    IN \/ /\ st.res = "done" /\ Ready(op, val)
          /\ st.val = Performed(op, val) /\ st.adj = Account(op, NoSems)
       \/ /\ st.res = (IF op.nowait THEN "eagain" ELSE "sleep") /\ ~Ready(op, val)
=============================================================================
