# TLA+ models of lunev_tasks

The repository holds exercises in Unix process interaction: small C programs
that meet through System V semaphores and shared memory, message queues, FIFOs,
pipes and threads. They have no tests and almost no documentation; what they are
meant to do is in their comments. Each is short, and what makes it hard is the
order in which the kernel runs its processes and where they die. This directory
models the programs, checks the models with TLC and proves, with TLAPS, all
safety properties that its passing runs check.

## Inventory

| Component | State it keeps | Operations | Interacts through |
|---|---|---|---|
| `task3` writer.c, reader.c, common.c | one semaphore set of 7, one shared page, a SEM_UNDO account per process | admission, initialisation, transfer loop, liveness check, removal of segment and set | semaphores, shared memory, process death |
| `task2/mq_fork_print.c` | a private message queue | fork n children, word to child i, answer, removal | messages, fork |
| `task_1` fifo_reader.c, fifo_writer.c | `global_fifo`, one `fifo_<PID>` per reader | leave a PID, wait with select(), open, remove, transfer | FIFOs, the names of FIFOs |
| `lesson_3/fifo_task` fifo_reader.c, fifo_writer.c, fifo_remove.c | one FIFO `fifo_name` and its flock() | make, lock, remove, transfer | FIFO, file lock, the name |
| `lesson_3/pipe_fork.c` | a pipe | fork, read the file, send, print | pipe, fork |
| `lesson_3/fifo_task/test_progs`, `lesson_3/tmp_test`: the `fifo_*` programs | one FIFO `namedpipe4` | make, open, send, remove, each by several programs | FIFO, the name |
| `lesson_2/threads_create.c` | the global variable `var` | check arguments, create, increment, join, print | shared memory without locks |
| `lesson_2/fork_n_child.c` | the loop counter, copied by fork() | check the argument, fork, print | fork, exit of the parent |
| `lesson_1/print_num.c` | - | check the argument, print | - |
| `lesson_2/exec_prog.c`; `tmp_creat.c`, `tmp_writer.c`, `tmp_reader.c` | - | exec; one file | - |
| Makefiles, `err_codes.h` | - | - | - |

What is hard, and what makes each component correct:

* **task3.** Any number of writers and readers may be launched on one key; each
  may die at any system call; only what `SEM_UNDO` gives back tells the peer.
  Correct means: one pair at a time; the pair's count is the number of living
  members; the page has one owner; a check that says "the peer lives" is right; a
  peer's death is noticed; the file is printed whole and in order; the removal of
  the set at the end harms nobody's session.
* **task2.** Children run in any order, `fork()` may fail half way, a process may
  be killed in its turn, anybody may remove the queue. Correct means: stdout is 1 2 3 ..., the turn is in one place,
  the parent's exit status is honest, nobody stays behind and the queue goes.
* **task_1.** Two FIFOs are opened by two programs that do not know each other;
  PIDs left in the global FIFO may be stale or reused; the reader's timeout races
  the writer. Correct means: one writer per reader, no early end of file, no
  missed reader, no waiting for ever.
* **lesson_3/fifo_task.** Several readers race for a lock, and three programs
  remove the one name. Correct means: one reader per FIFO, nothing printed twice,
  no file lost in silence.
* **pipe_fork.** Both ends of the pipe are inherited by both processes; the file
  may shrink. Correct means: what was read, and nothing else, is printed in order,
  and both end.
* **The named FIFO experiments.** A name is removed and made again while FIFOs of
  that name are open. Correct means: messages of two FIFOs are not mixed and none
  is lost; a reader comes to its end.
* **The programs with number arguments.** strtol() clamps, errno and the limits of
  two integer types are checked in four different ways; the numbers then drive
  loops with counters of other types, racing threads and a loop that forks.

`PROJECT.json` lists every such point, under `hazards`, at its line.

## Modules

| Module | Models | Notes |
|---|---|---|
| `SysVSem` | the sembuf arrays of `task3/common.c`, as what each tests and changes, and what semop(2) and process exit do with them | operators only |
| `SembufArrays` | the same arrays as the C code lists them, run one sembuf at a time | checks the summaries of `SysVSem` |
| `ShmTransfer` | `task3` writer.c and reader.c, any number of executions of each | extends `SysVSem` |
| `MCShmTransfer` | symmetry for TLC | |
| `PageChannel` | the promise of task3: a channel with room for one page | abstract specification |
| `ShmChannel` | one writer and one reader implement `PageChannel` | refinement mapping |
| `ShmTransferProofs` | theorems about `ShmTransfer`: types, roles, the pair, the page token, the end of a session; the refinement of `PageChannel` | TLAPS |
| `SembufArraysProofs` | the summaries of `SysVSem` are what the arrays do | TLAPS |
| `MsgQueuePrint` | `task2/mq_fork_print.c` | |
| `MsgQueueProofs` | theorems about `MsgQueuePrint` | TLAPS |
| `FileTransfer` | the promise of the programs that send a file through a FIFO or a pipe | abstract specification |
| `FifoHandshake` | `task_1` | refines `FileTransfer` |
| `FifoHandshakeProofs` | theorems about `FifoHandshake`, the refinement among them | TLAPS |
| `PipeFork` | `lesson_3/pipe_fork.c` | refines `FileTransfer` as long as the whole file is read |
| `PipeForkProofs` | theorems about `PipeFork`, the refinement among them | TLAPS |
| `NamedFifo` | FIFOs made one after the other under one name | operators and their state |
| `FlockFifo` | `lesson_3/fifo_task` | extends `NamedFifo` |
| `FlockFifoProofs` | theorems about `FlockFifo` | TLAPS |
| `NamedPipe` | `test_progs/fifo_*.c` and `tmp_test/fifo_*.c` | extends `NamedFifo` |
| `NamedPipeProofs` | theorems about `NamedPipe` | TLAPS |
| `NumberArgs` | strtol() and the checks of the arguments in four programs, with a reference definition | operators only |
| `PrintNum`, `ForkNChild`, `ThreadsCreate` | `lesson_1/print_num.c`, `lesson_2/fork_n_child.c`, `lesson_2/threads_create.c` | extend `NumberArgs` |
| `Lessons`, `MCLessons` | the three of them, of which the user runs one with arguments of his choice | instances; numbers for TLC |
| `LessonsProofs` | theorems about the checks, the threads and the children | TLAPS |

In every module a process is an element of a constant set (or one of a few
names) and `pc[p]`, or a variable named for the process, is the call it performs
next; one action is one system call with what the program does up to the next
one. An execution of a program runs once: running it again is another element of
the set, except for `fifo_remove.c`, a single call, which is counted
(`MaxRemoves`). Definitions ending in `_Something` after `Mutant:` are deliberate
bugs: each replaces the definition of the same name and breaks the property that
`PROJECT.json` pairs it with. They are not part of any `Next`.

### task3: `ShmTransfer`

`semkey`, `semval`, `semadj` are the semaphore set under the key, its values and
every process's SEM_UNDO account; `shmkey`, `segs`, `shmid`, `att` the segment
under the key, the contents of all segments ever made, who uses and who has
attached which (a segment marked for removal lives on while attached). A call on
a removed set fails. `terminate` is the end of a process, by return or by signal:
detach and apply the account. Actions carry the names of the C functions or of
the semaphore they operate on: `wr_start`, `wr_wait_pair`, `set_finish`,
`set_mutex`, `set_full`, `wr_init`, `wr_wait_rd`, then the loop `p_empty` ...
`v_full`; likewise for the reader.

A semop() on several sembufs is atomic in the kernel, so `SysVSem` states each
array by its tests and its net change. That the C arrays, element by element,
amount to this is not obvious (they test and change one semaphore several
times); `SembufArrays` checks it, and `SummariesAgreeCorrect` proves it.

Left out: failures of shmget, semget and shmat for lack of resources; the
content of a page beyond whose it is; the failing write() to stdout, whose
result the reader does not look at; a torn page when a writer dies within
memcpy(), which is one step. Detaching and undoing at exit are one step.

`interrupt` is the EINTR of a semop() that sleeps when its process is stopped and
continued: no program tries again, and the check macros of `err_codes.h` decide
whether it returns at once (before the loop) or leaves the loop, detaches and
removes what it would remove at a regular end. `Stoppable` says who may be hit.
`ShmChannel` adds a history variable, `hit`, of who was killed or interrupted, as a
pair that nothing has happened to is owed more (the whole file) than any pair (an
end).

### task2: `MsgQueuePrint`

`turn` is `order_id` of the forking loop and then `i` of the parent's loop;
`order_id` is the field of the parent's uninitialised `msg`, hence any value at
first. msgsnd() and msgrcv() fail exactly when the queue is gone. Parent and
children may be killed at any call (`Killable`). The code has no answer to that:
a child that dies in its turn leaves the parent waiting, until somebody removes
the queue, and `AllEnd` says no more than this. The argument check is
`get_input_num` of `NumberArgs`.

### task_1: `FifoHandshake`

`gends` and `opening` are the open ends of the global FIFO and the processes
whose open() still waits for the other end; `pids` its contents, lost with the
last end. `name` maps a PID to the FIFO its name leads to, `rd_end` and `fifo_id`
are the ends of the readers' FIFOs. PIDs are chosen at the start from `Pids`;
readers with the same PID run one after the other. The timer of select() may
expire whenever there is nothing to read. Making a reader's FIFO (remove an old
one and try again) is one step. The mapping to `FileTransfer` takes the sender of
a reader from the first piece that reached its FIFO.

### lesson_3

`NamedFifo` identifies a FIFO with its maker, as the name may lead to another
FIFO, or to none, when a process removes it: remove() acts on the name, not on
the FIFO that is open. `FlockFifo` adds the lock and the files. In `NamedPipe` a
program is the list of its calls (`Script`), and a process is a position in it;
what each call does is shared by all programs, including the results that they do
not look at (a failed open() leaves the descriptor -1, read() = 0 leaves the buffer
as it was). The programs of the two directories have FIFOs of their own, so a
behaviour runs those of one directory.

`PipeFork` lets the file shrink after its length was taken : the child
then reads `read_num` pieces into a buffer of `len`, the rest of which is memory that was
never set (`unset`), and sends all of it. The mapping to `FileTransfer` takes what was
really read (`FileRead`) as the sender's file. Each step is one of `FileTransfer` as long
as that is the whole buffer; once it is not (`Shrunk`), the code breaks that promise, and
`ImplementsTransfer` has to except it: without the exception TLC finds a child that sends
more than its file. `PadsToLength` says what is printed then.

### Programs with number arguments

An argument is a number and whether something follows it; strtol() gives the
nearest long, and errno is set when that is another number. `IsNumber` is the
reference definition, `Exact` that the checks of the four programs agree with it.
`PrintNum` wraps `i` at `LONG_MAX`. In `ForkNChild` all processes run the same
loop, each with its copy of the counter. In `ThreadsCreate` a step loads `var`
and adds any number of the remaining iterations before it stores: every outcome
of the race that a compiler can produce by separate or merged increments.

## Runs

| Run | Asks | Instance |
|---|---|---|
| `two_pairs` | does anything disturb a session when programs are restarted, queue up and die? | 2 writers, 2 readers, all killable, the writers stoppable, 2 chunks; 195,664 states under symmetry |
| `one_pair` | does a pair implement the one-page channel, does whoever is in it end when the peer dies or leaves, is the file transferred when nothing happens? | 1 + 1, both killable and stoppable, 3 chunks, fair; 1,492 states |
| `sembuf_arrays` | are the summaries of the arrays right? | all values 0..3 of all 7 semaphores |
| `spurious_quit` | *violated*: the liveness check of the writer | 1 + 1 |
| `restarted_writer` | *violated*: a formed pair is never stuck | 2 writers, 1 reader |
| `stale_segment` | *violated*: a reader prints its own writer's data | 2 writers, 2 readers |
| `mq_print` | order, honesty and end of the queue program | up to 5 children, all killable, queue removable |
| `fifo_handshake` | the refinement of `FileTransfer`, missed readers, waiting for ever | 2 + 2, 1 or 2 PIDs, one of each killable, 2 tries; 163,992 states |
| `flock_fifo` | exclusion, double printing, silent loss, waiting for ever | 2 + 2, one reader killable, one fifo_remove; 99,472 states |
| `pipe_fork` | the refinement of `FileTransfer` while the file does not shrink, what is printed when it does, and the end, whoever dies | up to 4 pieces, pipe of 2, both killable; 768 states |
| `lessons` | the checks of the arguments, overflow, lost updates, the lines of the children, the end of the loop | INT_MAX = 4, LONG_MAX = 9, up to 2 arguments from -11 to 10, 5 processes; 189,936 states |
| `named_pipe` | mixed, lost and repeated messages, waiting for ever | one creator, remover and writer of each kind, 2 readers; a test writer and opener, 2 test readers, 3 numbers; 135,841 states |

Bounds. Two executions per program are the least with a restart or a competitor
next to a running pair; two chunks the least at which a page can be overwritten
or printed twice; the pipe and FIFO capacities are smaller than the files so that
writers block. Larger instances were run once and agree: three writers and two
readers of `ShmTransfer` (688,740 states, nobody stopped), three and three of `FifoHandshake`
with one PID (1,381,890), three writers and two readers of `FlockFifo` (758,558;
the last two before the runs got further kills and removals).
The limits of int and long are the smallest that keep the four tests of a number
(1, INT_MAX - 1, LONG_MAX - 1, LONG_MAX) and the sum of all threads' iterations
apart; the numbers go beyond both ends of long.
Deadlock checking is off everywhere because the programs end, and because
waiting for a partner that is never launched is what they do.

Fairness. A launched process whose call can proceed is scheduled (weak fairness
per process, which is what the kernel gives); nobody has to launch a program, to
kill or stop one or to make a call fail. The timer of select() is part of the reader's
fairness.

### What the violated runs show

* `spurious_quit`: the writer waits for `SEM_READER = 2`, but checks
  `SEM_PAIR >= 2` (writer.c:111); the reader raises SEM_PAIR one call later. A
  fast writer takes a living reader for dead and returns 0 with nothing sent.
* `restarted_writer`: the token taken by such a writer is lost; the next writer
  and the waiting reader then form a pair in which both sleep for ever.
* `stale_segment`: segment and set are looked up before admission. In the trace a
  reader attaches the segment of a running session and gets to semget() only when
  that session is over and segment and set are gone; with the new set it pairs with
  the next writer, which has made a new segment, and prints the last page of the old
  one as if it came from that writer.

Seen on the way and listed under `hazards`: the two removals of `fifo_name` in
`lesson_3/fifo_task`, of which the second fails or hits another writer's FIFO;
the name that a writer of `task_1` leaves if killed between open() and remove();
the SETVAL of MUTEX by a writer that arrives while the reader initialises, which
leaves MUTEX above 1: mutual exclusion is then due to EMPTY and FULL alone, and
`NoDataRace` and `OneToken` show that they suffice. Also:

* a reader of task3 that is stopped and continued while it waits leaves its loop
  and removes the set; with more than one pair, its writer may be past its check by
  then and put its page into the next session's segment. With readers of
  `two_pairs` stoppable too, `RemovalHarmsNoSession` and `NoDataRace` fail, the
  others hold; the run lets only writers be stopped, `one_pair` has the interrupts
  of both, and the two theorems have the hypothesis that no reader is stopped;
* after a failed fork() `mq_fork_print` returns the result of removing the queue,
  which is 0;
* `print_num` accepts LONG_MAX and then never ends;
* when its file has shrunk, the child of `pipe_fork` sends memory it has never set in
  place of what is missing, and both processes return 0;
* `SeparateFifos` and `Delivered` are about two executions of the writers of
  test_progs (`Undisturbed`). Three can write into one FIFO: the first has met a
  reader, the second has made its FIFO and not opened it, the reader removes the
  name, the third makes its own, and the second opens that.

## Proofs

All theorems hold for every value of the constants: any number of processes,
children, threads or chunks, any capacity, any set of executions that may be
killed. `PROJECT.json` lists them. They rest on the ASSUMEs of the modules and
on nothing else, but for the four hypotheses named below:

* `ShmAssumption`, `MsgAssumption`, `PipeAssumption`, `FifoAssumption`,
  `FlockAssumption`, `NamedPipeAssumption`: sorts of the constants, a process runs
  one program only, and "none" is no process; `NumberAssumption`: INT_MAX <= LONG_MAX;
  `PidAssumption`: the first process has a PID.
* `RemovalHarmsNoSessionCorrect` and `NoDataRaceCorrect` assume that no reader is
  stopped and continued (`Stoppable \cap Readers = {}`): they are false otherwise.
* `NoOverflowCorrect` assumes `(INT_MAX - 1) * (INT_MAX - 1) <= LONG_MAX`, which holds
  where int has 32 bits and long 64; where both have 32 the variable may overflow.
* `DeliveredCorrect` assumes that no reader is killed: with the only reader of a FIFO
  its contents go.
* `WholeFileImplementsTransfer` is about the behaviours in which the child of `pipe_fork`
  reads as much as it has found (`[]~Shrunk`). `ImplementsTransferCorrect` of the same
  module has no hypothesis, as its property has the exception.

An invariant that a run checks is seldom inductive. For each module, what had to
be added and why:

**`ShmTransferProofs`.** `TypeOK`: `put_item` and `get_item` index `segs` by `shmid`;
`Located` adds that a process past its first calls has a segment, and that the
chunk to be put has been read. `SingleActive`, `PairCount`: the inductive
invariant is `ActiveInv`. `AccountsOK` ties a process's label to what its SEM_UNDO
account holds of its own role semaphore (0 outside, 1 while initialising, 2 from
then on); `OneHolder` says that the semaphore's value is exactly what its one
holder has in its account. Then a death gives back exactly what the dead held,
and `sem_wr_start`, which wants 0, proves that nobody is inside. Steps are grouped by
what they do to the role semaphores (`QuietStep`, `RaiseOwnStep`, `JoinPairStep`,
`TerminateStep`, `SemgetStep`, `SemrmStep`), and every action is one of those.

`OneToken`, `RemovalHarmsNoSession`, `NoDataRace` and the action
property `CheckFindsPeer` follow from `SessionInv`. Its centre is `TokenCount`: between
an initialised writer and an initialised reader there is one page at most, in
EMPTY, in FULL or in somebody's hand. It breaks only where an initialisation sets
EMPTY or FULL beside a session, or a death gives back what is not owed; hence
`FormsAlone` (nobody is in the pair while a process initialises), `Prepared` (what
SETVAL wrote is still there), `NotJoined` (nothing was put before the writer
joined) and `TokenAccounts` (who gives back what). `WriterLeft` and `ReaderLeft` say
who may still be in the loop when the other one has left it: a writer that left
took the page along, a reader leaves after its writer. `NoDataRace` uses neither
MUTEX nor its value, which may exceed 1, and needs `Stays`, that whoever is past its
initialisation is on the set under the key.

One writer and one reader implement `PageChannel`
(`ImplementsChannelCorrect`). The mapping reads the page from the segment and the state
of the channel from the writer's file and label; that a step maps to a step of the
channel takes `ChannelInv`. `PageAtToken` is its centre: whoever has the token, or may take
it, finds the page that goes with it, the writer a page that was printed (`Settled`), the
reader the one that was not (`Pending`). That there is one token is `SessionInv`; what is
new is that semaphores and memory tell the same story. Three things could part them:
the two might be attached to different segments (`Segments`: a reader that comes after
its writer has removed the segment makes a new one, and then does not get into a pair
with it), or on different semaphore sets (`OneSet`: only the reader removes a set, and it
is then past relying on it), or the page might be put before its reader is there (`Met`).
`FileRead` ties the writer's place in the file to the page. All steps but four leave the
page, the output and the state of the channel alone; `PassiveStep` treats them
together, once `Passive` has been shown of each call, and `PutItem`, `GetItem`,
`ProduceItem` and the two calls on segments are proved one by one. For this refinement
`OneHolder` had to be strengthened: a role semaphore that is not 0 has a holder.

**`SembufArraysProofs`.** `SummariesAgree` is about the arrays of common.c, not about any
order of steps: it holds on every set of natural numbers (`SummariesHold`), and so on
every set that a writer or a reader finds (`TypeOK` of `ShmTransfer`). `OneMoreSembuf` says
what one sembuf adds to a run that has come so far or stopped; applied once, twice, up
to four times, it gives the outcome of each array, which is compared with its summary
semaphore by semaphore. The steps of `SembufArrays` keep the values natural numbers
(`ValuesInv`), which itself takes the summaries: an array is performed only where they
leave nothing below 0.

**`MsgQueueProofs`.** `TurnInv` is the list of phases of a turn (with the parent, word
sent, printing, answering, answered), valid while the queue exists, and what
remains of it after a removal: whoever still prints is the next in order, however
many were killed. `NobodyLeftBehind` needs `DoneInv` besides: the children before
`turn` are done, and so is the one whose answer is in the queue or has been taken.
A parent that goes on after a failed msgrcv(), because an uninitialised `order_id`
happens to match, is not covered by it, but finds the queue gone and cannot
return 0.

**`FifoHandshakeProofs`.** `TypeOK`, `OneWriter` and the refinement of `FileTransfer`
follow from `TransferInv`. `OwnPids` says that readers with one PID do not run
together and that a name leads to a FIFO of its PID; `Locked`, that whoever writes
to a reader has removed the name itself, so nobody else can; `Carried`, that what
was printed followed by what is in the FIFO is the beginning of one writer's
file, that this writer writes to no second reader, and that it is dead or still
connected; `Failures`, what a reader that saw the end of file without data may
conclude. The mapping takes the sender of a reader from that first piece, and each
action is a step of `FileTransfer` or a stutter. `MeetsWaitingReader` needs `Tokens`, that
the PID of a reader is in one place at a time (the global FIFO or one writer's
hand), and `Names`, that the name stays until that writer removes it.

**`PipeForkProofs`.** `TypeOK`, `PadsToLength` and the refinement of `FileTransfer`, from `Types`;
`Ends`, what each label says of the ends that are open, so that `writers = {}` means that
the child is gone; `Carried`, that what was printed followed by what is in the pipe is the
beginning of the buffer, as long as `write_num`, and that the buffer holds the file up to
`read_num`; and `Finished`, that a child that returned 0 has sent `len` pieces and a parent
that did has emptied the pipe. The refinement needs `~Shrunk` at two steps, where the
child sends a piece and where it ends: both are promised of the file, not of the buffer.

**`FlockFifoProofs`.** `OneReader` follows from `Inv` (`Types`, `Labels`, `Locks`: a reader past
flock() has the lock of the FIFO that it has open). `LossIsReported`: as long as no
reader has failed, every piece sent was printed or is in a FIFO (`Kept`), and a FIFO
with something in it has a reader (`Held`), so that no end of a process empties it.
`PrintedOnce`: with one writer launched there is one FIFO (`OneFifo`), its name can be
removed once, so one reader gets it (`OneGot`); that reader has printed what the FIFO
lacks (`Printed`), and before it there was nothing missing (`Unprinted`).

**`NamedPipeProofs`.** The scripts are resolved once (`ScriptFacts`: which call is where), and
`Kinds` turns every step into one of eight kinds. `RepeatMeansClosed`: `Queued` and `Seen`
say that the sender of what a FIFO holds, or a reader got from it, has that FIFO open
or nothing; messages in a FIFO are distinct, so a second equal line comes from a
read() that returned 0. `SeparateFifos`, from `ApartInv`: a writer between mkfifo() and
open() finds its own FIFO under the name, or no name, and then the other writer is
past its open() (`Own`); a reader has what one writer sent (`OneSource`). `Delivered`,
from `KeptInv`: readers read only once they were met (`Asleep`), so a message finds
every reader of its FIFO before its first read() (`Kept`), and the last of them to go
has printed it or another has.

**`LessonsProofs`.** `ArgsChecked` splits on where the number lies relative to the range of
long. `NoOverflow`: `var` and every register stay below the product of the arguments
by what is still to be added; as a sum over threads is a recursive function, which
cannot be reasoned about here, `HasRoom` says that some table of partial sums
exists, and each step shows how to change it. `LostUpdatesBounded`: whoever stores
last in its second iteration has loaded at least 1 (`Stores`, `Stored`). `CountsOnce`:
the forked children have distinct counts below that of the first process (`Forked`),
and the lines are those of the children that ended (`Lines`).

What proof attempts found and TLC had not: the tuple `forkVars` of `ForkNChild` lacked
`parent_id`, which the specification then let any stuttering step change; `SeparateFifos`
and `Delivered`, checked with two writers, are false with three (see above); `PrintedOnce`, as first worded, was
false when there is no writer at all; a `UNION` in `Delivered` had no parentheses
and could be read in two ways.

Only model-checked, and why:

* all liveness: `PairedEnds`, `FormedPairTransfers`, `AllEnd`, `ReaderEnds`, `WriterEnds`,
  `MetProcessesEnd`, `BothEnd`, `PrintNumEnds`, `MetReaderEnds` (fairness and ENABLED are out
  of the prover's reach);
* the three violated properties, of course.

## Not modelled

* `lesson_2/exec_prog.c`: it stores its arguments in an array without elements, so
  every run past the argument check is undefined.
* `tmp_creat.c`, `tmp_writer.c`, `tmp_reader.c`: a file is made, or written in one
  program and read in another after a sleep; there is no protocol to check.
* Build files, and `task_1/err_codes.h`, which holds codes and messages; the models
  tell only success, error and signal apart.
* In the modelled programs: calls that fail for lack of memory, disk or
  descriptors, except where a module says so, and the result of writing to stdout.

## Plan

1. done: `SysVSem`, `ShmTransfer`, `SembufArrays`, `PageChannel`, `ShmChannel`, the
   two-pair and one-pair runs, the three disagreements.
2. done: `MsgQueuePrint`, `FifoHandshake`, `FlockFifo`, `PipeFork`, `ThreadsCreate`.
3. done: interrupted semop() calls of task3, kills in `MsgQueuePrint` and of writers
   in `FifoHandshake`, fifo_remove in `FlockFifo`; `FileTransfer` with its two
   refinements; the named FIFO experiments; the argument checks, `PrintNum` and
   `ForkNChild`.
4. done: the theorems listed under Proofs.
5. done: the refinement of `PageChannel` by `ShmChannel`, and `SummariesAgree`.
6. left: nothing of the plan. What would extend it is liveness, which the prover cannot
   do, and the failures of memory and disk that the modules leave out.
