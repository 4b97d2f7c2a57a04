------------------------------- MODULE Lessons --------------------------------
(***************************************************************************)
(* The programs of lesson_1 and lesson_2 that read numbers from their      *)
(* arguments.  The user runs one of them, with any arguments.              *)
(***************************************************************************)
EXTENDS NumberArgs

CONSTANTS Pids, First   \* of ForkNChild

ASSUME PidAssumption == First \in Pids

VARIABLES
  program,                                      \* the program that is run
  argv, main,                                   \* its arguments, and where its main() is
  n, num_i, printed,                            \* PrintNum, with its i
  where, count, forker, parent_id, lines,       \* ForkNChild
  n_threads, num_iter, i, iter, thread, reg, var, result   \* ThreadsCreate

PN == INSTANCE PrintNum WITH i <- num_i
FN == INSTANCE ForkNChild
TC == INSTANCE ThreadsCreate

vars == <<program, PN!numVars, FN!forkVars, TC!threadVars>>

Init ==
  /\ program \in {"print_num", "fork_n_child", "threads_create"}
  /\ argv \in ArgLists /\ main = "args"
  /\ PN!NumInit /\ FN!ForkInit /\ TC!ThreadsInit

OthersKeep(own) ==
  /\ own # "print_num" => UNCHANGED <<n, num_i, printed>>
  /\ own # "fork_n_child" => UNCHANGED <<where, count, forker, parent_id, lines>>
  /\ own # "threads_create" => UNCHANGED <<n_threads, num_iter, i, iter, thread, reg, var, result>>

Next ==
  /\ \/ program = "print_num" /\ PN!NumNext
     \/ program = "fork_n_child" /\ FN!ForkNext
     \/ program = "threads_create" /\ TC!ThreadsNext
  /\ UNCHANGED program /\ OthersKeep(program)

Spec == Init /\ [][Next]_vars

\* The program that the user runs is scheduled.
FairSpec == Spec /\ WF_vars(Next)

-----------------------------------------------------------------------------
\* Properties

\* Whatever the user gives, a number in the range that the program can deal with is
\* accepted, and nothing else (the checks after strtol() in print_num.c,
\* fork_n_child.c, threads_create.c and get_input_num of mq_fork_print.c).
ArgsChecked == \A k \in DOMAIN argv : Exact(argv[k])

NoOverflow == TC!NoOverflow
LostUpdatesBounded == program = "threads_create" => TC!LostUpdatesBounded
CountsOnce == program = "fork_n_child" => FN!CountsOnce
PrintNumEnds == PN!PrintNumEnds
=============================================================================
