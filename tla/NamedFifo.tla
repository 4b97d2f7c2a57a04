------------------------------ MODULE NamedFifo -------------------------------
(***************************************************************************)
(* FIFOs that are made, one after the other, under one fixed name, as the  *)
(* programs of lesson_3/fifo_task and lesson_3/tmp_test use them.          *)
(*                                                                         *)
(* A FIFO is called after the process that made it: a process may hold a   *)
(* FIFO whose name is gone, or leads to another FIFO already.              *)
(***************************************************************************)
EXTENDS Integers, Sequences

VARIABLES
  name,       \* the FIFO that the name leads to, or "none"
  fifo_id,    \* the FIFO that each process has open, or "none"
  opening,    \* processes that sleep in open()
  data        \* what is in each FIFO

fifoVars == <<name, fifo_id, opening, data>>

FifoInit(procs) ==
  /\ name = "none"
  /\ fifo_id = [p \in procs |-> "none"] /\ opening = {}
  /\ data = [f \in procs |-> <<>>]

Holders(f, procs) == {p \in procs : fifo_id[p] = f}

make_fifo(p) == name = "none" /\ name' = p

\* open() of a FIFO sleeps until the other end is opened, and wakes those that
\* sleep for p's end.
open(p, partners) ==
  /\ name # "none"
  /\ fifo_id' = [fifo_id EXCEPT ![p] = name]
  /\ opening' = (opening \ Holders(name, partners))
                \cup (IF Holders(name, partners) = {} THEN {p} ELSE {})

put(f, piece) == data' = [data EXCEPT ![f] = Append(@, piece)]

\* close(), or the end of p; what is in a FIFO is lost with its last end.
close(p) ==
  /\ fifo_id' = [fifo_id EXCEPT ![p] = "none"]
  /\ opening' = opening \ {p}
  /\ data' = [f \in DOMAIN data |-> IF \E q \in DOMAIN fifo_id \ {p} : fifo_id[q] = f
                                    THEN data[f] ELSE <<>>]
=============================================================================
