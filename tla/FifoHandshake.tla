---------------------------- MODULE FifoHandshake ----------------------------
(***************************************************************************)
(* task_1: fifo_reader.c and fifo_writer.c find each other through one     *)
(* global FIFO, in which readers leave their PIDs.  A writer takes a PID,  *)
(* opens the FIFO fifo_<PID> that this reader made, removes its name and   *)
(* sends its file through it; the reader prints what comes.                *)
(*                                                                         *)
(* Every element of Readers and Writers is one execution; it runs once and *)
(* may be killed at any point if it is in Killable.  Readers that do not   *)
(* run at the same time may get the same PID.  pc[p] names the call that  *)
(* p performs next.                                                        *)
(***************************************************************************)
EXTENDS Integers, Sequences, FiniteSets

CONSTANTS
  Readers,    \* executions of fifo_reader.c
  Writers,    \* executions of fifo_writer.c
  Pids,       \* the PIDs that the kernel gives to readers
  Killable,   \* the executions a signal may kill
  Chunks,     \* successful read() calls until end of file (bounds the model)
  Capacity,   \* chunks that fit into a FIFO (bounds the model)
  Tries       \* the tries of check_wr_end(), 7 in the code (bounds the model)

Procs == Readers \cup Writers

ASSUME FifoAssumption ==
  /\ Readers \cap Writers = {} /\ "none" \notin Procs /\ Killable \subseteq Procs
  /\ Pids \subseteq Nat \ {0}
  /\ {Chunks, Capacity, Tries} \subseteq Nat \ {0}

VARIABLES
  pc,         \* the next call of each process
  global,     \* the name global_fifo exists
  opening,    \* processes in open() of the global FIFO whose partner is missing
  gends,      \* processes that have an end of the global FIFO open
  pid,        \* the PID of each reader
  pids,       \* the PIDs in the global FIFO
  name,       \* the reader whose FIFO the name fifo_<PID> leads to, or "none"
  rd_end,     \* readers that have the reading end of their FIFO open
  fifo_id,    \* the FIFO each writer has open: that of a reader, or "none"
  met,        \* readers whose FIFO a writer has ever opened
  data,       \* the chunks in each reader's FIFO
  rd_pid,     \* the PID each writer has read, 0 before
  tries,      \* try_num in each reader
  fpos,       \* how many chunks each writer has read from its file
  out,        \* what each reader has written to stdout
  status      \* how each process ended: not yet, ok, error or signal

vars == <<pc, pid, global, opening, gends, pids, name, rd_end, fifo_id, met, data, rd_pid,
          tries, fpos, out, status>>
globalVars == <<global, opening, gends, pids>>
uniqVars == <<name, rd_end, fifo_id, met, data>>
ownVars == <<pid, rd_pid, tries, fpos, out>>

Init ==
  /\ pc = [p \in Procs |-> IF p \in Readers THEN "mkfifo_global" ELSE "make_file"]
  /\ pid \in [Readers -> Pids]
  /\ global \in BOOLEAN /\ opening = {} /\ gends = {} /\ pids = <<>>
  /\ name = [i \in Pids |-> "none"]
  /\ rd_end = {} /\ met = {}
  /\ fifo_id = [w \in Writers |-> "none"]
  /\ data = [r \in Readers |-> <<>>]
  /\ rd_pid = [w \in Writers |-> 0]
  /\ tries = [r \in Readers |-> Tries]
  /\ fpos = [w \in Writers |-> 0]
  /\ out = [r \in Readers |-> <<>>]
  /\ status = [p \in Procs |-> "running"]

-----------------------------------------------------------------------------
\* System calls

At(p, here) == pc[p] = here
Goto(p, there) == pc' = [pc EXCEPT ![p] = there] /\ UNCHANGED status

\* The end of a process, which closes its FIFOs.  What is in the global FIFO is
\* lost when nobody has it open any more.
end(p, how) ==
  /\ pc' = [pc EXCEPT ![p] = "dead"]
  /\ status' = [status EXCEPT ![p] = how]
  /\ opening' = opening \ {p} /\ gends' = gends \ {p}
  /\ pids' = IF gends' = {} THEN <<>> ELSE pids
  /\ rd_end' = rd_end \ {p}
  /\ fifo_id' = [w \in Writers |-> IF w = p THEN "none" ELSE fifo_id[w]]
  /\ UNCHANGED <<global, met, data, ownVars>>

\* The other program, whose end of the global FIFO open() waits for.
Partners(p) == IF p \in Readers THEN Writers ELSE Readers

\* open() of the global FIFO: p sleeps until the other end is opened, and wakes
\* those that sleep for p's end.  The name must exist.
open_global(p) ==
  /\ At(p, "open_global")
  /\ IF global
     THEN /\ gends' = gends \cup {p}
          /\ opening' = (opening \ Partners(p))
                        \cup (IF gends \cap Partners(p) = {} THEN {p} ELSE {})
          /\ Goto(p, "opened_global")
          /\ UNCHANGED <<global, pids, uniqVars, ownVars>>
     ELSE end(p, "error") /\ UNCHANGED name

opened_global(p) ==
  /\ At(p, "opened_global") /\ p \notin opening
  /\ Goto(p, IF p \in Readers THEN "make_uniq_fifo" ELSE "read_pid")
  /\ UNCHANGED <<globalVars, uniqVars, ownVars>>

\* close() of the global FIFO.
close_global(p) ==
  /\ gends' = gends \ {p}
  /\ pids' = IF gends' = {} THEN <<>> ELSE pids
  /\ UNCHANGED <<global, opening>>

\* remove() of fifo_<i>; it fails when the name is gone.
remove(i) == name' = [name EXCEPT ![i] = "none"]

kill(p) ==
  /\ p \in Killable /\ pc[p] # "dead"
  /\ end(p, "signal") /\ UNCHANGED name

-----------------------------------------------------------------------------
\* fifo_reader.c

\* make_global_fifo(): an existing FIFO is as good as a new one.  No other
\* process with this PID is running.
mkfifo_global(r) ==
  /\ At(r, "mkfifo_global")
  /\ \A q \in Readers \ {r} : pid[q] = pid[r] => pc[q] \in {"mkfifo_global", "dead"}
  /\ global' = TRUE
  /\ Goto(r, "open_global")
  /\ UNCHANGED <<opening, gends, pids, uniqVars, ownVars>>

\* Mutant: the PID is sent before the FIFO is open.
make_uniq_fifo_SendsFirst(r) ==
  /\ At(r, "make_uniq_fifo")
  /\ name' = [name EXCEPT ![pid[r]] = r]
  /\ pids' = Append(pids, pid[r])
  /\ Goto(r, "open_uniq")
  /\ UNCHANGED <<global, opening, gends, rd_end, fifo_id, met, data, ownVars>>

\* make_uniq_fifo(): a FIFO left behind under this name is removed and replaced;
\* the first retry succeeds, as nobody else makes this name.
make_uniq_fifo(r) ==
  /\ At(r, "make_uniq_fifo")
  /\ name' = [name EXCEPT ![pid[r]] = r]
  /\ Goto(r, "open_uniq")
  /\ UNCHANGED <<globalVars, rd_end, fifo_id, met, data, ownVars>>

\* open(O_RDONLY | O_NONBLOCK) does not wait for a writer, then fcntl().
rd_open_uniq(r) ==
  /\ At(r, "open_uniq")
  /\ IF name[pid[r]] = r
     THEN /\ rd_end' = rd_end \cup {r}
          /\ Goto(r, "send_pid")
          /\ UNCHANGED <<globalVars, name, fifo_id, met, data, ownVars>>
     ELSE end(r, "error") /\ UNCHANGED name

\* send_pid(): writing to a FIFO that nobody reads raises SIGPIPE.
send_pid(r) ==
  /\ At(r, "send_pid")
  /\ IF gends \cap Writers # {}
     THEN /\ pids' = Append(pids, pid[r])
          /\ Goto(r, "select")
          /\ UNCHANGED <<global, opening, gends, uniqVars, ownVars>>
     ELSE end(r, "signal") /\ UNCHANGED name

\* check_wr_end(): select() returns when there is data, or when a writer has
\* come and gone.  The timer may expire at any moment.
WritersOf(r) == {w \in Writers : fifo_id[w] = r}
Readable(r) == data[r] # <<>> \/ (r \in met /\ WritersOf(r) = {})

select(r) ==
  /\ At(r, "select") /\ Readable(r)
  /\ close_global(r)
  /\ Goto(r, "read")
  /\ UNCHANGED <<uniqVars, ownVars>>

\* Mutant: the tries are not counted.
timeout_NoCount(r) ==
  /\ At(r, "select") /\ ~Readable(r)
  /\ Goto(r, "select")
  /\ UNCHANGED <<globalVars, uniqVars, ownVars>>

\* Mutant: one try too many.
timeout_OneMore(r) ==
  /\ At(r, "select") /\ ~Readable(r)
  /\ tries' = [tries EXCEPT ![r] = @ - 1]
  /\ IF tries[r] >= 0
     THEN Goto(r, "select") /\ UNCHANGED globalVars
     ELSE close_global(r) /\ Goto(r, "remove")
  /\ UNCHANGED <<uniqVars, pid, rd_pid, fpos, out>>

timeout(r) ==
  /\ At(r, "select") /\ ~Readable(r)
  /\ tries' = [tries EXCEPT ![r] = @ - 1]
  /\ IF tries[r] > 1
     THEN Goto(r, "select") /\ UNCHANGED globalVars
     ELSE close_global(r) /\ Goto(r, "remove")
  /\ UNCHANGED <<uniqVars, pid, rd_pid, fpos, out>>

rd_remove(r) ==
  /\ At(r, "remove")
  /\ remove(pid[r])
  /\ end(r, "error")

\* Mutant: an empty FIFO counts as end of file although the writer is there.
read_EmptyIsEof(r) ==
  /\ At(r, "read")
  /\ \/ /\ data[r] # <<>>
        /\ out' = [out EXCEPT ![r] = Append(@, Head(data[r]))]
        /\ data' = [data EXCEPT ![r] = Tail(@)]
        /\ UNCHANGED <<pc, status, globalVars, name, rd_end, fifo_id, met, pid, rd_pid, tries, fpos>>
     \/ /\ data[r] = <<>>
        /\ end(r, "ok") /\ UNCHANGED name

\* read() and fwrite(); read() returns 0 when no writer is left.
read(r) ==
  /\ At(r, "read")
  /\ \/ /\ data[r] # <<>>
        /\ out' = [out EXCEPT ![r] = Append(@, Head(data[r]))]
        /\ data' = [data EXCEPT ![r] = Tail(@)]
        /\ UNCHANGED <<pc, status, globalVars, name, rd_end, fifo_id, met, pid, rd_pid, tries, fpos>>
     \/ /\ data[r] = <<>> /\ WritersOf(r) = {}
        /\ end(r, "ok") /\ UNCHANGED name

Reader(r) ==
  \/ mkfifo_global(r) \/ open_global(r) \/ opened_global(r)
  \/ make_uniq_fifo(r) \/ rd_open_uniq(r) \/ send_pid(r)
  \/ select(r) \/ timeout(r) \/ rd_remove(r) \/ read(r)

-----------------------------------------------------------------------------
\* fifo_writer.c

make_file(w) ==
  /\ At(w, "make_file")
  /\ \/ Goto(w, "open_global") /\ UNCHANGED <<globalVars, uniqVars, ownVars>>
     \/ end(w, "error") /\ UNCHANGED name

\* Mutant: the global FIFO is open for reading and writing, so there is always a
\* writer and never an end of file.
read_pid_NoEof(w) ==
  /\ At(w, "read_pid") /\ pids # <<>>
  /\ rd_pid' = [rd_pid EXCEPT ![w] = Head(pids)]
  /\ gends' = gends \ {w}
  /\ pids' = IF gends' = {} THEN <<>> ELSE Tail(pids)
  /\ Goto(w, "open_uniq")
  /\ UNCHANGED <<global, opening, uniqVars, pid, tries, fpos, out>>

\* get_rd_pid(): read() returns 0 when every reader that had opened the global
\* FIFO is gone.
read_pid(w) ==
  /\ At(w, "read_pid")
  /\ \/ /\ pids # <<>>
        /\ rd_pid' = [rd_pid EXCEPT ![w] = Head(pids)]
        /\ gends' = gends \ {w}
        /\ pids' = IF gends' = {} THEN <<>> ELSE Tail(pids)
        /\ Goto(w, "open_uniq")
        /\ UNCHANGED <<global, opening, uniqVars, pid, tries, fpos, out>>
     \/ /\ pids = <<>> /\ gends \cap Readers = {}
        /\ end(w, "error") /\ UNCHANGED name

\* open(O_WRONLY | O_NONBLOCK): ENOENT without the name, ENXIO without a reader.
wr_open_uniq(w) ==
  /\ At(w, "open_uniq")
  /\ LET r == name[rd_pid[w]] IN
     IF r \in rd_end
     THEN /\ fifo_id' = [fifo_id EXCEPT ![w] = r]
          /\ met' = met \cup {r}
          /\ Goto(w, "remove")
          /\ UNCHANGED <<globalVars, name, rd_end, data, ownVars>>
     ELSE end(w, "error") /\ UNCHANGED name

\* Mutant: it does not matter who removed the name.
wr_remove_Unchecked(w) ==
  /\ At(w, "remove")
  /\ remove(rd_pid[w])
  /\ Goto(w, "write")
  /\ UNCHANGED <<globalVars, rd_end, fifo_id, met, data, ownVars>>

\* remove(), which fails if somebody else removed the name, then fcntl().
wr_remove(w) ==
  /\ At(w, "remove")
  /\ IF name[rd_pid[w]] # "none"
     THEN /\ remove(rd_pid[w])
          /\ Goto(w, "write")
          /\ UNCHANGED <<globalVars, rd_end, fifo_id, met, data, ownVars>>
     ELSE end(w, "error") /\ UNCHANGED name

\* write_to_fifo(): read() of the file, then write(), which sleeps on a full
\* FIFO and raises SIGPIPE when the reader is gone.
write(w) ==
  /\ At(w, "write")
  /\ \/ /\ fpos[w] < Chunks /\ fifo_id[w] \in rd_end
        /\ Len(data[fifo_id[w]]) < Capacity
        /\ data' = [data EXCEPT ![fifo_id[w]] = Append(@, <<w, fpos[w] + 1>>)]
        /\ fpos' = [fpos EXCEPT ![w] = @ + 1]
        /\ UNCHANGED <<pc, status, globalVars, name, rd_end, fifo_id, met, pid, rd_pid, tries, out>>
     \/ /\ fpos[w] < Chunks /\ fifo_id[w] \notin rd_end
        /\ end(w, "signal") /\ UNCHANGED name
     \/ /\ fpos[w] = Chunks
        /\ end(w, "ok") /\ UNCHANGED name
     \/ /\ end(w, "error") /\ UNCHANGED name

Writer(w) ==
  \/ make_file(w) \/ open_global(w) \/ opened_global(w) \/ read_pid(w)
  \/ wr_open_uniq(w) \/ wr_remove(w) \/ write(w)

-----------------------------------------------------------------------------
Next ==
  \/ \E r \in Readers : Reader(r)
  \/ \E w \in Writers : Writer(w)
  \/ \E p \in Procs : kill(p)

Spec == Init /\ [][Next]_vars

\* A launched process runs whenever its call can proceed, and timers expire.
FairSpec ==
  /\ Spec
  /\ \A r \in Readers : WF_vars(~At(r, "mkfifo_global") /\ Reader(r))
  /\ \A w \in Writers : WF_vars(~At(w, "make_file") /\ Writer(w))

-----------------------------------------------------------------------------
\* Properties

\* Every variable has its type, and the ends of a FIFO belong to processes that
\* run.
TypeOK ==
  /\ pc \in [Procs -> {"mkfifo_global", "make_file", "open_global", "opened_global",
                       "make_uniq_fifo", "open_uniq", "send_pid", "select", "remove",
                       "read", "read_pid", "write", "dead"}]
  /\ pid \in [Readers -> Pids] /\ global \in BOOLEAN
  /\ opening \subseteq gends /\ gends \subseteq {p \in Procs : pc[p] # "dead"}
  /\ \A i \in DOMAIN pids : pids[i] \in Pids
  /\ name \in [Pids -> Readers \cup {"none"}]
  /\ rd_end \subseteq {r \in Readers : pc[r] # "dead"}
  /\ fifo_id \in [Writers -> met \cup {"none"}] /\ met \subseteq Readers
  /\ \A r \in Readers : Len(data[r]) <= Capacity
  /\ rd_pid \in [Writers -> Pids \cup {0}]
  /\ tries \in [Readers -> 0..Tries]
  /\ fpos \in [Writers -> 0..Chunks]
  /\ status \in [Procs -> {"running", "ok", "error", "signal"}]

\* remove() in the writer works as a lock: although two writers may read the
\* same PID, left twice by readers that had it one after the other, at most one
\* of them gets to write to a reader (fifo_writer.c, main).
OneWriter ==
  \A r \in rd_end : Cardinality({w \in WritersOf(r) : At(w, "write")}) <= 1

\* A reader's FIFO carries pieces of the writer of its first piece.
Source(r) == LET all == out[r] \o data[r] IN IF all = <<>> THEN "none" ELSE all[1][1]

Transfer == INSTANCE FileTransfer WITH
  Senders <- Writers, Receivers <- Readers, Pieces <- Writers \X (1 .. Chunks),
  file <- [w \in Writers |-> [i \in 1 .. Chunks |-> <<w, i>>]],
  sent <- fpos,
  source <- [r \in Readers |-> Source(r)],
  printed <- out,
  how <- [p \in Procs |-> CASE status[p] = "running" -> "open"
                            [] status[p] = "ok"      -> "ok"
                            [] OTHER                 -> "broken"]

\* A reader prints the beginning of one writer's file, without gaps and without
\* pieces of another file, whoever dies and whatever PIDs are reused.  A reader that
\* exits with 0 has printed the whole file, unless its writer was killed or reported
\* an error: the end of file never comes early (check_wr_end, main, write_to_fifo).
ImplementsTransfer == Transfer!Spec

\* No other reader gets r's PID.
Unique(r) == \A q \in Readers \ {r} : pid[q] # pid[r]

\* A writer fails to open the FIFO whose PID it took only if the reader has given
\* up or is gone: the PID is sent when the FIFO is open for reading (main of both
\* programs).
MeetsWaitingReader ==
  [][\A w \in Writers, r \in Readers :
       /\ At(w, "open_uniq") /\ rd_pid[w] = pid[r] /\ Unique(r)
       /\ status'[w] = "error"
       => pc[r] \in {"remove", "dead"}]_vars

\* A reader that has opened its FIFO does not wait forever: neither for a writer
\* that never comes nor for one that fails (check_wr_end).
ReaderEnds == \A r \in Readers : At(r, "select") ~> At(r, "dead")

\* A writer that has met a reader in the global FIFO ends, even when others take
\* all the PIDs: no reader keeps the global FIFO open forever.
WriterEnds == \A w \in Writers : At(w, "read_pid") ~> At(w, "dead")
=============================================================================
