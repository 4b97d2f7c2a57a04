------------------------------ MODULE NamedPipe -------------------------------
(***************************************************************************)
(* The experiments with one named FIFO, "namedpipe4", in                   *)
(* lesson_3/fifo_task/test_progs and lesson_3/tmp_test: small programs     *)
(* that are a list of system calls each, most of whose results they do not *)
(* look at.  The user launches them in any order, those of one directory   *)
(* together.                                                               *)
(*                                                                         *)
(* No FIFO is ever full: all that they send is less than 100 bytes.        *)
(***************************************************************************)
EXTENDS NamedFifo

CONSTANTS
  \* executions of the programs of test_progs:
  Creators, Removers,       \* fifo_create.c and fifo_remove.c
  Writers1, Writers2,       \* fifo_writer.c and fifo_writer2.c
  Readers,                  \* fifo_reader.c
  \* executions of the programs of tmp_test:
  TestWriters,              \* fifo_test_writer.c
  TestOpeners,              \* fifo_test_open.c
  TestReaders,              \* fifo_test_reader.c
  Numbers,                  \* how many numbers a TestWriter sends (10 in the code)
  Killable                  \* the executions a signal may kill

Writers == Writers1 \cup Writers2
TestProgs == Creators \cup Removers \cup Writers \cup Readers
TmpTest == TestWriters \cup TestOpeners \cup TestReaders
Procs == TestProgs \cup TmpTest
Sending == Writers \cup TestWriters \cup TestOpeners
Reading == Readers \cup TestReaders

\* An execution is one of one program.
ASSUME NamedPipeAssumption ==
  /\ TestProgs \cap TmpTest = {} /\ Sending \cap Reading = {} /\ "none" \notin Procs
  /\ Creators \cap Removers = {} /\ (Creators \cup Removers) \cap (Writers \cup Readers) = {}
  /\ Writers1 \cap Writers2 = {} /\ TestWriters \cap TestOpeners = {}
  /\ Numbers \in Nat /\ Killable \subseteq Procs

\* The calls of each program.  A loop is one that never ends.
fifo_create == <<"mkfifo", "exit">>
fifo_remove == <<"remove", "exit">>
fifo_writer == <<"mkfifo", "try_open", "write", "remove", "exit">>
fifo_writer2 == <<"mkfifo", "try_open", "write", "remove", "close", "exit">>
fifo_reader == <<"open", "remove", "read", "read", "exit">>
fifo_test_writer == <<"mkfifo", "try_open">> \o [i \in 1 .. Numbers |-> "write"] \o <<"loop">>
fifo_test_open == <<"open", "write", "loop">>
fifo_test_reader == <<"open", "read", "read", "exit">>

Script(p) ==
  CASE p \in Creators -> fifo_create [] p \in Removers -> fifo_remove
    [] p \in Writers1 -> fifo_writer [] p \in Writers2 -> fifo_writer2
    [] p \in Readers -> fifo_reader  [] p \in TestWriters -> fifo_test_writer
    [] p \in TestOpeners -> fifo_test_open [] p \in TestReaders -> fifo_test_reader

VARIABLES
  pc,       \* the next call of each process, in its script
  sent,     \* what each process has written
  buf,      \* buf of each reader: what it got last
  out,      \* what each reader has printed
  status    \* how each process ended: not yet, ok, error or signal

vars == <<fifoVars, pc, sent, buf, out, status>>

\* The FIFO of the other directory does not exist here.
Init ==
  /\ FifoInit(Procs)
  /\ \E directory \in {TestProgs, TmpTest} :
       status = [p \in Procs |-> IF p \in directory THEN "running" ELSE "elsewhere"]
  /\ pc = [p \in Procs |-> 1]
  /\ sent = [p \in Sending |-> <<>>]
  /\ buf = [p \in Reading |-> <<>>] /\ out = [p \in Reading |-> <<>>]

At(p, call) == status[p] = "running" /\ Script(p)[pc[p]] = call

Continue(p) == pc' = [pc EXCEPT ![p] = @ + 1] /\ UNCHANGED status

end(p, how) ==
  /\ status' = [status EXCEPT ![p] = how]
  /\ close(p)
  /\ UNCHANGED <<name, pc, sent, buf, out>>

Kill(p) == p \in Killable /\ status[p] = "running" /\ end(p, "signal")

\* The descriptor is closed with the process.
exit(p) == At(p, "exit") /\ end(p, "ok")

-----------------------------------------------------------------------------
\* Mutant: an existing FIFO is as good as a new one.
mkfifo_Unchecked(p) ==
  /\ At(p, "mkfifo")
  /\ IF name = "none" THEN make_fifo(p) ELSE UNCHANGED name
  /\ Continue(p) /\ UNCHANGED <<fifo_id, opening, data, sent, buf, out>>

mkfifo(p) ==
  /\ At(p, "mkfifo")
  /\ \/ /\ make_fifo(p)
        /\ Continue(p) /\ UNCHANGED <<fifo_id, opening, data, sent, buf, out>>
     \/ name # "none" /\ end(p, "error")

\* A failed remove() goes unnoticed.
remove(p) ==
  /\ At(p, "remove") /\ p \notin opening
  /\ name' = "none"
  /\ Continue(p) /\ UNCHANGED <<fifo_id, opening, data, sent, buf, out>>

close_fifo(p) ==
  /\ At(p, "close") /\ close(p)
  /\ Continue(p) /\ UNCHANGED <<name, sent, buf, out>>

Partners(p) == IF p \in Sending THEN Reading ELSE Sending

\* The loop around open() lasts until the name exists.
open_loop(p) ==
  /\ At(p, "open") /\ open(p, Partners(p))
  /\ Continue(p) /\ UNCHANGED <<name, data, sent, buf, out>>

\* The writers open once, and go on with the descriptor -1.
try_open(p) ==
  /\ At(p, "try_open")
  /\ \/ open(p, Partners(p))
     \/ name = "none" /\ UNCHANGED <<fifo_id, opening>>
  /\ Continue(p) /\ UNCHANGED <<name, data, sent, buf, out>>

\* write() fails with the descriptor -1, which is printed only, and raises SIGPIPE
\* when no reader is left.
write(p) ==
  /\ At(p, "write") /\ p \notin opening
  /\ LET f == fifo_id[p] IN
     \/ /\ f = "none"
        /\ Continue(p) /\ UNCHANGED <<name, fifo_id, opening, data, sent, buf, out>>
     \/ /\ f # "none" /\ Holders(f, Reading) # {}
        /\ put(f, <<p, pc[p]>>) /\ sent' = [sent EXCEPT ![p] = Append(@, <<p, pc[p]>>)]
        /\ Continue(p) /\ UNCHANGED <<name, fifo_id, opening, buf, out>>
     \/ /\ f # "none" /\ Holders(f, Reading) = {}
        /\ end(p, "signal")

\* fifo_reader.c takes up to 100 bytes at once, fifo_test_reader.c one number.
Taken(p) == IF p \in Readers THEN data[fifo_id[p]] ELSE <<Head(data[fifo_id[p]])>>

\* Printed is buf, up to the end of the first string in it.
nothing == <<"nobody", 0>>
Shown(content) == IF content = <<>> THEN nothing ELSE content[1]

take(p, got) ==
  /\ buf' = [buf EXCEPT ![p] = IF got = <<>> THEN @ ELSE got]
  /\ out' = [out EXCEPT ![p] = Append(@, Shown(buf'[p]))]
  /\ data' = [data EXCEPT ![fifo_id[p]] = SubSeq(@, Len(got) + 1, Len(@))]

\* Mutant: read() does not wait for data.
read_NoWait(p) ==
  /\ At(p, "read") /\ p \notin opening
  /\ take(p, IF data[fifo_id[p]] # <<>> THEN Taken(p) ELSE <<>>)
  /\ Continue(p) /\ UNCHANGED <<name, fifo_id, opening, sent>>

\* Mutant: the FIFO is open for reading and writing, so read() never returns 0.
read_NoEof(p) ==
  /\ At(p, "read") /\ p \notin opening
  /\ data[fifo_id[p]] # <<>> /\ take(p, Taken(p))
  /\ Continue(p) /\ UNCHANGED <<name, fifo_id, opening, sent>>

\* read() sleeps on an empty FIFO, and returns 0 when no writer is left: buf then
\* keeps, and the reader prints, what it had.
read(p) ==
  /\ At(p, "read") /\ p \notin opening
  /\ LET f == fifo_id[p] IN
     \/ data[f] # <<>> /\ take(p, Taken(p))
     \/ data[f] = <<>> /\ Holders(f, Sending) = {} /\ take(p, <<>>)
  /\ Continue(p) /\ UNCHANGED <<name, fifo_id, opening, sent>>

Step(p) ==
  \/ mkfifo(p) \/ remove(p) \/ open_loop(p) \/ try_open(p)
  \/ write(p) \/ read(p) \/ close_fifo(p) \/ exit(p)

Next == \E p \in Procs : Step(p) \/ Kill(p)

Spec == Init /\ [][Next]_vars

\* A process that the user has launched is scheduled.
FairSpec == Spec /\ \A p \in Procs : WF_vars(pc[p] > 1 /\ Step(p))

-----------------------------------------------------------------------------
\* Properties

\* The user runs two writers of test_progs, and does not make or remove the name himself.
\* (Of three, two may have made their FIFOs and not opened them yet, the name of the
\* first having been removed by who left the third: the first then opens the FIFO of
\* the second, and both write to it.)
Undisturbed ==
  /\ \A p \in Creators \cup Removers : pc[p] = 1
  /\ \A u, v, w \in Writers : pc[u] > 1 /\ pc[v] > 1 /\ pc[w] > 1 => u = v \/ v = w \/ u = w

Contents(queue) == {queue[i] : i \in 1 .. Len(queue)}

\* A FIFO that has lost its name lives on, and one made under the same name is another
\* one: no reader of test_progs gets the messages of two writers, if the user runs no
\* more than these and leaves the name alone (fifo_writer.c and fifo_writer2.c).
SeparateFifos ==
  Undisturbed => \A r \in Readers :
    \A m, n \in (Contents(buf[r]) \cup Contents(out[r])) \ {nothing} : m[1] = n[1]

\* A message that a writer of test_progs has written is printed by a reader or still in
\* its FIFO, although the writer removes the name and exits at once: the FIFO lives
\* until its readers have read (fifo_writer.c, fifo_reader.c).
Delivered ==
  Undisturbed => \A w \in Writers : \A m \in Contents(sent[w]) :
    m \in    (UNION {Contents(out[r]) : r \in Readers})
         \cup (UNION {Contents(data[f]) : f \in Writers})

\* A reader prints a message for the second time, because it does not look at the 0
\* that read() returned, only after its writer has closed the FIFO
\* (fifo_reader.c, fifo_test_reader.c).
RepeatMeansClosed ==
  \A r \in Reading : Len(out[r]) = 2 /\ out[r][1] = out[r][2] /\ out[r][1] # nothing =>
    fifo_id[out[r][1][1]] = "none"

\* A reader of test_progs that has met a writer comes to its end, whatever becomes of
\* the name: the writers end, and with them the FIFO (fifo_reader.c).
MetReaderEnds ==
  \A r \in Readers : pc[r] > 1 /\ r \notin opening ~> status[r] # "running"
=============================================================================
