------------------------------ MODULE PipeFork ------------------------------
(***************************************************************************)
(* lesson_3/pipe_fork.c: a child reads a whole file into a buffer and      *)
(* sends it through a pipe to its parent, which prints it.                 *)
(*                                                                         *)
(* Others may shorten the file while the program runs, and each of the two *)
(* processes may be killed.                                                *)
(***************************************************************************)
EXTENDS Integers, Sequences

CONSTANTS
  MaxLen,     \* largest file, in pieces that a pipe takes at once (bounds the model)
  Capacity,   \* pieces that fit into the pipe (bounds the model)
  Killable    \* the processes a signal may kill

Procs == {"parent", "child"}

ASSUME PipeAssumption ==
  /\ MaxLen \in Nat /\ Capacity \in Nat \ {0} /\ Killable \subseteq Procs

VARIABLES
  pc,         \* the next call of each process
  readers,    \* processes that have fds[0] open
  writers,    \* processes that have fds[1] open
  len,        \* the length of the file that the child has found
  read_num,   \* how much of the file the child has read
  buf,        \* read_buf of the child, <<>> before it is filled
  write_num,  \* how much the child has written
  data,       \* the pieces in the pipe
  out,        \* what the parent has written to stdout
  status      \* how each process ended: not yet, ok, error or signal

vars == <<pc, readers, writers, len, read_num, buf, write_num, data, out, status>>

Init ==
  /\ pc = [parent |-> "fork", child |-> "unborn"]
  /\ readers = {"parent"} /\ writers = {"parent"}
  /\ len = 0 /\ read_num = 0 /\ buf = <<>> /\ write_num = 0
  /\ data = <<>> /\ out = <<>>
  /\ status = [p \in Procs |-> "running"]

At(p, here) == pc[p] = here
Goto(p, there) == pc' = [pc EXCEPT ![p] = there] /\ UNCHANGED status

\* The end of a process, which closes the pipe.
end(p, how) ==
  /\ pc' = [pc EXCEPT ![p] = "dead"]
  /\ status' = [status EXCEPT ![p] = how]
  /\ readers' = readers \ {p} /\ writers' = writers \ {p}
  /\ UNCHANGED <<len, read_num, buf, write_num, data, out>>

kill(p) ==
  /\ p \in Killable /\ pc[p] \notin {"unborn", "dead"}
  /\ end(p, "signal")

-----------------------------------------------------------------------------
\* The child inherits both ends of the pipe.
fork ==
  /\ At("parent", "fork")
  /\ \/ /\ pc' = [parent |-> "close", child |-> "close"]
        /\ readers' = Procs /\ writers' = Procs
        /\ UNCHANGED <<len, read_num, buf, write_num, data, out, status>>
     \/ end("parent", "error")

child_close ==
  /\ At("child", "close")
  /\ readers' = readers \ {"child"}
  /\ Goto("child", "ftell")
  /\ UNCHANGED <<writers, len, read_num, buf, write_num, data, out>>

\* fseek(), ftell() and malloc(), each of which may fail.
ftell ==
  /\ At("child", "ftell")
  /\ \/ /\ len' \in 0 .. MaxLen
        /\ Goto("child", "fread")
        /\ UNCHANGED <<readers, writers, read_num, buf, write_num, data, out>>
     \/ end("child", "error")

\* malloc() does not clear the buffer: what fread() does not fill was never set.
unset == 0
read_buf(num) == [i \in 1 .. len |-> IF i <= num THEN i ELSE unset]

\* The loop around fread() stops early when the file has become shorter or cannot be read.
fread ==
  /\ At("child", "fread")
  /\ read_num' \in 0 .. len /\ buf' = read_buf(read_num')
  /\ Goto("child", "write")
  /\ UNCHANGED <<readers, writers, len, write_num, data, out>>

\* Mutant: a full pipe does not make write() wait, and what is written is lost.
write_Drops ==
  /\ At("child", "write")
  /\ \/ /\ write_num < len /\ readers # {}
        /\ write_num' = write_num + 1
        /\ data' = IF Len(data) < Capacity THEN Append(data, buf[write_num + 1]) ELSE data
        /\ UNCHANGED <<pc, status, readers, writers, len, read_num, buf, out>>
     \/ /\ write_num < len /\ readers = {}
        /\ end("child", "signal")
     \/ /\ write_num = len
        /\ end("child", "ok")

\* Mutant: one piece too many.
write_OneMore ==
  /\ At("child", "write")
  /\ \/ /\ write_num <= len /\ readers # {} /\ Len(data) < Capacity
        /\ write_num' = write_num + 1
        /\ data' = Append(data, IF write_num < len THEN buf[write_num + 1] ELSE unset)
        /\ UNCHANGED <<pc, status, readers, writers, len, read_num, buf, out>>
     \/ /\ write_num <= len /\ readers = {}
        /\ end("child", "signal")
     \/ /\ write_num > len
        /\ end("child", "ok")

\* The loop around write() runs to len, however much was read.  write() sleeps on a full
\* pipe and raises SIGPIPE when nobody has fds[0] open.
write ==
  /\ At("child", "write")
  /\ \/ /\ write_num < len /\ readers # {} /\ Len(data) < Capacity
        /\ write_num' = write_num + 1
        /\ data' = Append(data, buf[write_num + 1])
        /\ UNCHANGED <<pc, status, readers, writers, len, read_num, buf, out>>
     \/ /\ write_num < len /\ readers = {}
        /\ end("child", "signal")
     \/ /\ write_num = len
        /\ end("child", "ok")

\* Mutant: the parent keeps fds[1].
parent_close_Keep ==
  /\ At("parent", "close")
  /\ Goto("parent", "read")
  /\ UNCHANGED <<readers, writers, len, read_num, buf, write_num, data, out>>

parent_close ==
  /\ At("parent", "close")
  /\ writers' = writers \ {"parent"}
  /\ Goto("parent", "read")
  /\ UNCHANGED <<readers, len, read_num, buf, write_num, data, out>>

\* read() and fwrite(); read() returns 0 when nobody has fds[1] open.
read ==
  /\ At("parent", "read")
  /\ \/ /\ data # <<>>
        /\ out' = Append(out, Head(data)) /\ data' = Tail(data)
        /\ UNCHANGED <<pc, status, readers, writers, len, read_num, buf, write_num>>
     \/ /\ data = <<>> /\ writers = {}
        /\ end("parent", "ok")

Child == child_close \/ ftell \/ fread \/ write
Parent == fork \/ parent_close \/ read

Next == Child \/ Parent \/ \E p \in Procs : kill(p)

Spec == Init /\ [][Next]_vars

\* The program has been started, and both processes are scheduled.
FairSpec == Spec /\ WF_vars(Child) /\ WF_vars(Parent)

-----------------------------------------------------------------------------
\* Properties

\* Every variable has its type.
TypeOK ==
  /\ pc \in [Procs -> {"fork", "close", "read", "unborn", "ftell", "fread", "write", "dead"}]
  /\ readers \subseteq Procs /\ writers \subseteq Procs
  /\ len \in 0 .. MaxLen /\ read_num \in 0 .. len /\ write_num \in 0 .. len
  /\ buf \in Seq(0 .. len)
  /\ Len(data) <= Capacity
  /\ data \in Seq(0 .. len) /\ out \in Seq(0 .. len)
  /\ status \in [Procs -> {"running", "ok", "error", "signal"}]

\* The part of the buffer that came from the file.
FileRead == [i \in 1 .. read_num |-> buf[i]]

\* The buffer has a rest that did not.
Shrunk == read_num < Len(buf)

Transfer == INSTANCE FileTransfer WITH
  Senders <- {"child"}, Receivers <- {"parent"}, Pieces <- 1 .. MaxLen,
  file <- [w \in {"child"} |-> FileRead],
  sent <- [w \in {"child"} |-> write_num],
  source <- [r \in {"parent"} |-> IF write_num = 0 THEN "none" ELSE "child"],
  printed <- [r \in {"parent"} |-> out],
  how <- [p \in Procs |-> CASE status[p] = "running" -> "open"
                            [] status[p] = "ok"      -> "ok"
                            [] OTHER                 -> "broken"]

\* The parent prints what the child has read from the file, from its beginning and in
\* order; when it returns 0 the child is gone and nothing of what it has sent is
\* missing, and a child that returns 0 has sent all of that (the read and write loops of
\* main): each step is one of FileTransfer, as long as the child has read as much as
\* ftell() had found.  Otherwise it still writes len pieces, of which the last were never
\* read (pipe_fork.c:133), and nothing is promised here.
ImplementsTransfer ==
  Transfer!Init /\ [][Shrunk \/ Transfer!Next]_(Transfer!transferVars)

\* Whatever becomes of the file, its pieces are printed first and in order, and never set
\* memory only in place of pieces that the file no longer had; when both processes
\* return 0, that is exactly as much as the file was long at ftell().
PadsToLength ==
  /\ \A i \in 1 .. Len(out) : out[i] = IF i <= read_num THEN i ELSE unset
  /\ status["child"] = "ok" /\ status["parent"] = "ok" => Len(out) = len

\* The parent sees the end of the pipe, and the child does not wait for a parent
\* that is gone: each has closed the end it does not use (main).
BothEnd == \A p \in Procs : pc[p] # "unborn" ~> At(p, "dead")
=============================================================================
