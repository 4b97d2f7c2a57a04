----------------------------- MODULE ShmChannel ------------------------------
(***************************************************************************)
(* One execution of writer.c and one of reader.c implement PageChannel.    *)
(* With more executions they do not: see the runs restarted_writer and     *)
(* stale_segment of ShmTransfer.                                           *)
(*                                                                         *)
(* hit is a history of the faults of the run, which no action reads: what  *)
(* is owed to a pair that nothing has happened to is more than what is     *)
(* owed to every pair.                                                     *)
(***************************************************************************)
EXTENDS ShmTransfer

CONSTANTS writer, reader

ASSUME OnePair == Writers = {writer} /\ Readers = {reader}

VARIABLE hit     \* the executions that were killed or interrupted

PairInit == Init /\ hit = {}

PairNext == Next /\ hit' = hit \cup {p \in Procs : kill(p) \/ interrupt(p)}

PairSpec == PairInit /\ [][PairNext]_<<vars, hit>> /\ Fairness

-----------------------------------------------------------------------------
\* The page that the writer's segment holds: 0 before the first put_item.
PageInSegment ==
  IF shmid[writer] = 0 \/ segs[shmid[writer]] = Blank THEN 0 ELSE segs[shmid[writer]][2]

WriterState ==
  IF file[writer] = "eof" THEN "complete"
  ELSE IF file[writer] = "error" \/ pc[writer] \in {"shmdt", "shmrm", "exit", "dead"}
       THEN "broken"
       ELSE "open"

Channel == INSTANCE PageChannel WITH
  sent <- PageInSegment,
  printed <- [i \in DOMAIN out[reader] |-> out[reader][i][2]],
  state <- WriterState

\* The reader prints the writer's pages, each once and in order, the writer
\* never overwrites a page that was not printed, and it reads end of file only
\* when every page has been printed.
ImplementsChannel == Channel!Spec

\* Once a pair has formed with its writer still in the loop, the reader prints
\* every chunk in order and both processes end, unless the input file cannot be
\* read or one of the two is killed or interrupted (the loops of both programs).
FormedPairTransfers ==
  Paired(writer) /\ Paired(reader) /\ pc[writer] \in WrLoop ~>
    \/ file[writer] = "error" \/ hit # {}
    \/ /\ At(writer, "dead") /\ At(reader, "dead")
       /\ out[reader] = [i \in 1 .. Chunks |-> <<writer, i>>]
=============================================================================
