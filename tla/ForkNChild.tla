------------------------------ MODULE ForkNChild ------------------------------
(***************************************************************************)
(* lesson_2/fork_n_child.c: forks n children one after the other, each of  *)
(* which prints a line and returns.  Nobody waits for them.                *)
(*                                                                         *)
(* Every process runs the same loop: what keeps a child from forking is    *)
(* that it returns.                                                        *)
(***************************************************************************)
EXTENDS NumberArgs, FiniteSets

CONSTANTS
  Pids,       \* the processes that the system can make
  First       \* the one of them that the user starts

VARIABLES
  argv, main,   \* the arguments, and where main() of the first process is
  where,        \* where each process is in the loop
  count,        \* i of each process
  forker,       \* the process that forked each
  parent_id,    \* parent_id of each process
  lines         \* the lines that have been printed

forkVars == <<argv, main, where, count, forker, parent_id, lines>>

ForkInit ==
  /\ where = [p \in Pids |-> "unborn"]
  /\ count = [p \in Pids |-> 0]
  /\ forker = [p \in Pids |-> First] /\ parent_id = [p \in Pids |-> "init"]
  /\ lines = {}

N == strtol(argv[1])

\* argc, strtol() and the checks.
read_count ==
  /\ main = "args"
  /\ \/ /\ Len(argv) = 1 /\ fork_n_child_accepts(argv[1])
        /\ main' = "loop" /\ where' = [where EXCEPT ![First] = "fork"]
     \/ /\ ~(Len(argv) = 1 /\ fork_n_child_accepts(argv[1]))
        /\ main' = "refused" /\ UNCHANGED where
  /\ UNCHANGED <<argv, count, forker, parent_id, lines>>

return(p, how) ==
  /\ where' = [where EXCEPT ![p] = "dead"]
  /\ main' = IF p = First THEN how ELSE main

fork(p) ==
  /\ where[p] = "fork" /\ count[p] < N
  /\ \/ \E child \in Pids :
          /\ where[child] = "unborn"
          /\ where' = [where EXCEPT ![child] = "child"]
          /\ count' = [count EXCEPT ![child] = count[p], ![p] = @ + 1]
          /\ forker' = [forker EXCEPT ![child] = p]
          /\ UNCHANGED main
     \/ return(p, "error") /\ UNCHANGED <<count, forker>>
  /\ UNCHANGED <<argv, parent_id, lines>>

loop_ends(p) ==
  /\ where[p] = "fork" /\ count[p] >= N
  /\ return(p, "done")
  /\ UNCHANGED <<argv, count, forker, parent_id, lines>>

\* A process whose parent has ended belongs to init.
getppid(p) ==
  /\ where[p] = "child"
  /\ parent_id' = [parent_id EXCEPT ![p] = IF where[forker[p]] = "dead" THEN "init" ELSE forker[p]]
  /\ where' = [where EXCEPT ![p] = "print"]
  /\ UNCHANGED <<argv, main, count, forker, lines>>

Line(p) == [pid |-> p, count |-> count[p], ppid |-> parent_id[p]]

\* Mutant: a child goes on with the loop.
child_print_NoReturn(p) ==
  /\ where[p] = "print"
  /\ lines' = lines \cup {Line(p)}
  /\ where' = [where EXCEPT ![p] = "fork"] /\ count' = [count EXCEPT ![p] = @ + 1]
  /\ UNCHANGED <<argv, main, forker, parent_id>>

child_print(p) ==
  /\ where[p] = "print"
  /\ lines' = lines \cup {Line(p)}
  /\ return(p, "done")
  /\ UNCHANGED <<argv, count, forker, parent_id>>

ForkNext == read_count \/ \E p \in Pids : fork(p) \/ loop_ends(p) \/ getppid(p) \/ child_print(p)

\* Every count from 0 to n - 1 is printed by exactly one child, however the children
\* overtake each other and the parent, and the parent it prints is the first process
\* or, after that has ended, init (main: id == 0, return 0 and getppid()).
CountsOnce ==
  /\ \A l, m \in lines : l # m => l.count # m.count
  /\ \A l \in lines : l.ppid = First \/ (l.ppid = "init" /\ main # "loop")
  /\ main = "done" /\ (\A p \in Pids : where[p] \in {"unborn", "dead"}) =>
       {l.count : l \in lines} = 0 .. N - 1
=============================================================================
