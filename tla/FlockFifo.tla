------------------------------ MODULE FlockFifo ------------------------------
(***************************************************************************)
(* lesson_3/fifo_task: fifo_writer.c makes a FIFO under a fixed name and   *)
(* sends its file through it.  Any number of fifo_reader.c wait for the    *)
(* name; the one that locks the FIFO with flock() removes the name and     *)
(* prints what comes.  The writer removes the name as well.                *)
(*                                                                         *)
(* Every element of Readers and Writers is one execution; fifo_remove.c    *)
(* may be run at any time between them.                                    *)
(***************************************************************************)
EXTENDS NamedFifo, FiniteSets

CONSTANTS
  Readers,    \* executions of fifo_reader.c
  Writers,    \* executions of fifo_writer.c
  Killable,   \* the executions a signal may kill
  MaxRemoves, \* executions of fifo_remove.c (bounds the model)
  Chunks,     \* largest file, in pieces that a FIFO takes at once (bounds the model)
  Capacity    \* pieces that fit into a FIFO (bounds the model)

Procs == Readers \cup Writers

ASSUME FlockAssumption ==
  /\ Readers \cap Writers = {} /\ "none" \notin Procs /\ Killable \subseteq Procs
  /\ MaxRemoves \in Nat /\ Chunks \in Nat /\ Capacity \in Nat \ {0}

VARIABLES
  pc,         \* the next call of each process
  removes,    \* how often fifo_remove.c has been run
  lock,       \* the reader that has locked each FIFO, or "none"
  len,        \* how many pieces the file of each writer has
  fpos,       \* write_num of each writer
  out,        \* what each reader has written to stdout
  status      \* how each process ended: not yet, ok, error or signal

vars == <<fifoVars, pc, removes, lock, len, fpos, out, status>>

Init ==
  /\ pc = [p \in Procs |-> IF p \in Readers THEN "open" ELSE "make_file"]
  /\ FifoInit(Procs) /\ removes = 0
  /\ lock = [f \in Writers |-> "none"]
  /\ len \in [Writers -> 0 .. Chunks]
  /\ fpos = [w \in Writers |-> 0]
  /\ out = [r \in Readers |-> <<>>]
  /\ status = [p \in Procs |-> "running"]

-----------------------------------------------------------------------------
\* System calls

At(p, here) == pc[p] = here
Goto(p, there) == pc' = [pc EXCEPT ![p] = there] /\ UNCHANGED status

\* close() gives the lock back.
close_unlock(p) ==
  /\ close(p)
  /\ lock' = [f \in Writers |-> IF lock[f] = p THEN "none" ELSE lock[f]]

end(p, how) ==
  /\ pc' = [pc EXCEPT ![p] = "dead"]
  /\ status' = [status EXCEPT ![p] = how]
  /\ close_unlock(p)
  /\ UNCHANGED <<len, fpos, out>>

kill(p) ==
  /\ p \in Killable /\ pc[p] # "dead"
  /\ end(p, "signal") /\ UNCHANGED name

-----------------------------------------------------------------------------
\* fifo_reader.c

\* open() is repeated until the name exists.
rd_open(r) ==
  /\ At(r, "open")
  /\ open(r, Writers)
  /\ Goto(r, "flock")
  /\ UNCHANGED <<name, lock, data, len, fpos, out>>

\* Mutant: the result of flock() does not matter.
flock_Unchecked(r) ==
  /\ At(r, "flock") /\ r \notin opening
  /\ lock' = [lock EXCEPT ![fifo_id[r]] = r]
  /\ Goto(r, "remove")
  /\ UNCHANGED <<name, fifo_id, opening, data, len, fpos, out>>

\* flock() without waiting; whoever is too late closes the FIFO and starts again.
flock(r) ==
  /\ At(r, "flock") /\ r \notin opening
  /\ \/ /\ lock[fifo_id[r]] = "none"
        /\ lock' = [lock EXCEPT ![fifo_id[r]] = r]
        /\ Goto(r, "remove")
        /\ UNCHANGED <<fifo_id, opening, data>>
     \/ /\ lock[fifo_id[r]] # "none"
        /\ close_unlock(r)
        /\ Goto(r, "open")
  /\ UNCHANGED <<name, len, fpos, out>>

\* Mutant: it does not matter who removed the name.
rd_remove_Unchecked(r) ==
  /\ At(r, "remove")
  /\ name' = "none"
  /\ Goto(r, "read")
  /\ UNCHANGED <<fifo_id, opening, lock, data, len, fpos, out>>

\* Mutant: a failing remove() is not an error.
rd_remove_Silent(r) ==
  /\ At(r, "remove")
  /\ \/ /\ name # "none" /\ name' = "none"
        /\ Goto(r, "read")
        /\ UNCHANGED <<fifo_id, opening, lock, data, len, fpos, out>>
     \/ /\ name = "none"
        /\ end(r, "ok") /\ UNCHANGED name

\* remove() takes the name away, whatever FIFO it leads to, and fails without one.
rd_remove(r) ==
  /\ At(r, "remove")
  /\ \/ /\ name # "none" /\ name' = "none"
        /\ Goto(r, "read")
        /\ UNCHANGED <<fifo_id, opening, lock, data, len, fpos, out>>
     \/ /\ name = "none"
        /\ end(r, "error") /\ UNCHANGED name

\* Mutant: the FIFO is open for reading and writing, so read() never returns 0.
read_NoEof(r) ==
  /\ At(r, "read") /\ data[fifo_id[r]] # <<>>
  /\ out' = [out EXCEPT ![r] = Append(@, Head(data[fifo_id[r]]))]
  /\ data' = [data EXCEPT ![fifo_id[r]] = Tail(@)]
  /\ UNCHANGED <<pc, status, name, fifo_id, opening, lock, len, fpos>>

\* read() and fwrite(); read() returns 0 when no writer is left.
read(r) ==
  /\ At(r, "read")
  /\ LET f == fifo_id[r] IN
     \/ /\ data[f] # <<>>
        /\ out' = [out EXCEPT ![r] = Append(@, Head(data[f]))]
        /\ data' = [data EXCEPT ![f] = Tail(@)]
        /\ UNCHANGED <<pc, status, name, fifo_id, opening, lock, len, fpos>>
     \/ /\ data[f] = <<>> /\ Holders(f, Writers) = {}
        /\ end(r, "ok") /\ UNCHANGED name

Reader(r) == rd_open(r) \/ flock(r) \/ rd_remove(r) \/ read(r)

-----------------------------------------------------------------------------
\* fifo_writer.c

\* make_file() and read_file_to_buf().
make_file(w) ==
  /\ At(w, "make_file")
  /\ \/ Goto(w, "mkfifo") /\ UNCHANGED <<fifo_id, opening, lock, data, len, fpos, out>>
     \/ end(w, "error")
  /\ UNCHANGED name

mkfifo(w) ==
  /\ At(w, "mkfifo")
  /\ \/ /\ make_fifo(w)
        /\ Goto(w, "open")
        /\ UNCHANGED <<fifo_id, opening, lock, data, len, fpos, out>>
     \/ /\ name # "none"
        /\ end(w, "error") /\ UNCHANGED name

\* A failed open() is reported and the program goes on with the descriptor -1.
wr_open(w) ==
  /\ At(w, "open")
  /\ \/ open(w, Readers)
     \/ name = "none" /\ UNCHANGED <<fifo_id, opening>>
  /\ Goto(w, "write")
  /\ UNCHANGED <<name, lock, data, len, fpos, out>>

\* Mutant: one piece too many.
write_OneMore(w) ==
  /\ At(w, "write") /\ w \notin opening
  /\ LET f == fifo_id[w] IN
     \/ /\ fpos[w] <= len[w] /\ f # "none" /\ Holders(f, Readers) # {}
        /\ Len(data[f]) < Capacity
        /\ fpos' = [fpos EXCEPT ![w] = @ + 1]
        /\ put(f, <<w, fpos[w] + 1>>)
        /\ UNCHANGED <<pc, status, fifo_id, opening, lock, len, out>>
     \/ /\ fpos[w] >= len[w]
        /\ Goto(w, "remove")
        /\ UNCHANGED <<fifo_id, opening, lock, data, len, fpos, out>>
  /\ UNCHANGED name

\* write_to_fifo(): write() sleeps on a full FIFO, raises SIGPIPE when no reader is
\* left and fails with the descriptor -1, but is not called for an empty file.
write(w) ==
  /\ At(w, "write") /\ w \notin opening
  /\ LET f == fifo_id[w] IN
     \/ /\ fpos[w] < len[w] /\ f # "none" /\ Holders(f, Readers) # {}
        /\ Len(data[f]) < Capacity
        /\ fpos' = [fpos EXCEPT ![w] = @ + 1]
        /\ put(f, <<w, fpos[w] + 1>>)
        /\ UNCHANGED <<pc, status, fifo_id, opening, lock, len, out>>
     \/ /\ fpos[w] < len[w] /\ f # "none" /\ Holders(f, Readers) = {}
        /\ end(w, "signal")
     \/ /\ fpos[w] < len[w] /\ f = "none"
        /\ end(w, "error")
     \/ /\ fpos[w] = len[w]
        /\ Goto(w, "remove")
        /\ UNCHANGED <<fifo_id, opening, lock, data, len, fpos, out>>
  /\ UNCHANGED name

wr_remove(w) ==
  /\ At(w, "remove")
  /\ \/ /\ name # "none" /\ name' = "none"
        /\ Goto(w, "close")
        /\ UNCHANGED <<fifo_id, opening, lock, data, len, fpos, out>>
     \/ /\ name = "none"
        /\ end(w, "error") /\ UNCHANGED name

\* The last close() fails with the descriptor -1.
wr_close(w) ==
  /\ At(w, "close")
  /\ end(w, IF fifo_id[w] = "none" THEN "error" ELSE "ok")
  /\ UNCHANGED name

Writer(w) ==
  \/ make_file(w) \/ mkfifo(w) \/ wr_open(w) \/ write(w) \/ wr_remove(w) \/ wr_close(w)

-----------------------------------------------------------------------------
\* fifo_remove.c takes the name away, if there is one.
fifo_remove ==
  /\ removes < MaxRemoves /\ removes' = removes + 1
  /\ name' = "none"
  /\ UNCHANGED <<pc, fifo_id, opening, data, lock, len, fpos, out, status>>

Next ==
  \/ (\E r \in Readers : Reader(r)) /\ UNCHANGED removes
  \/ (\E w \in Writers : Writer(w)) /\ UNCHANGED removes
  \/ (\E p \in Procs : kill(p)) /\ UNCHANGED removes
  \/ fifo_remove

Spec == Init /\ [][Next]_vars

\* A process that has been launched runs whenever its call can proceed.
FairSpec ==
  /\ Spec
  /\ \A r \in Readers : WF_vars(Reader(r) /\ UNCHANGED removes)
  /\ \A w \in Writers : WF_vars(~At(w, "make_file") /\ Writer(w) /\ UNCHANGED removes)

-----------------------------------------------------------------------------
\* Properties

\* Every variable has its type; only a process that runs has a FIFO open, sleeps
\* in open() or has a lock.
TypeOK ==
  /\ pc \in [Procs -> {"open", "flock", "remove", "read", "make_file", "mkfifo",
                       "write", "close", "dead"}]
  /\ name \in Writers \cup {"none"}
  /\ fifo_id \in [Procs -> Writers \cup {"none"}]
  /\ \A p \in opening : fifo_id[p] # "none"
  /\ \A p \in Procs : At(p, "dead") => fifo_id[p] = "none"
  /\ \A f \in Writers : lock[f] # "none" => fifo_id[lock[f]] = f
  /\ \A f \in Writers : Len(data[f]) <= Capacity
  /\ \A w \in Writers : fpos[w] \in 0 .. len[w]
  /\ status \in [Procs -> {"running", "ok", "error", "signal"}]

\* flock() keeps the readers of a FIFO apart: only one at a time removes its name
\* and reads from it, however many have it open (fifo_reader.c, main).
OneReader ==
  \A f \in Writers :
    Cardinality({r \in Holders(f, Readers) : pc[r] \in {"remove", "read"}}) <= 1

File(w, n) == [i \in 1 .. n |-> <<w, i>>]

\* As long as no second writer has been launched, what the readers print is the
\* beginning of the writer's file, printed once: the lock may pass from a dead
\* reader to another, but then remove() fails and the second does not print the
\* rest (fifo_reader.c, main; a second writer's name could be there to be removed).
PrintedOnce ==
  (\A v, w \in Writers : v # w => At(v, "make_file") \/ At(w, "make_file")) =>
    /\ \A r \in Readers :
         out[r] # <<>> => \E w \in Writers, n \in 1 .. Chunks : out[r] = File(w, n)
    /\ Cardinality({r \in Readers : out[r] # <<>>}) <= 1

\* A piece that a writer sent and then returned 0 is never lost in silence: it is
\* printed, still in the FIFO, or a reader has ended with an error or by a signal
\* (fifo_reader.c, remove() in main: the writer may have sent all and removed the
\* name first, and the reader then gives up what it has locked).
LossIsReported ==
  \/ \E r \in Readers : status[r] \in {"error", "signal"}
  \/ \A w \in Writers : status[w] = "ok" =>
       \A k \in 1 .. len[w] :
         \E queue \in {out[r] : r \in Readers} \cup {data[f] : f \in Writers} :
           \E n \in 1 .. Len(queue) : queue[n] = <<w, k>>

\* A writer that has met a reader does not sleep forever on a full FIFO, and a
\* reader that has the lock does not wait forever for data: who gives up closes
\* the FIFO (fifo_reader.c, main; fifo_writer.c, write_to_fifo).
MetProcessesEnd ==
  /\ \A w \in Writers : At(w, "write") /\ w \notin opening ~> At(w, "dead")
  /\ \A r \in Readers : At(r, "read") ~> At(r, "dead")
=============================================================================
