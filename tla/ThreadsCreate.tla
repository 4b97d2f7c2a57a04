---------------------------- MODULE ThreadsCreate ----------------------------
(***************************************************************************)
(* lesson_2/threads_create.c: main() starts n_threads threads, each of     *)
(* which increments the global variable var num_iter times without any     *)
(* synchronisation, joins them in turn and prints var.                     *)
(*                                                                         *)
(* The increments race.  A build loads var, adds and stores; it may also   *)
(* merge increments of the loop into one load and one store.               *)
(***************************************************************************)
EXTENDS NumberArgs

Ids == 1 .. INT_MAX - 1

VARIABLES
  argv,                  \* the arguments
  main,                  \* where main() is
  n_threads, num_iter,   \* what the arguments say
  i,                     \* i in main()
  iter,                  \* i of each thread, in thread_start()
  thread,                \* where each thread is
  reg,                   \* what each thread is about to store
  var,
  result                 \* the printed result, 0 before

threadVars == <<argv, main, n_threads, num_iter, i, iter, thread, reg, var, result>>

ThreadsInit ==
  /\ n_threads = 0 /\ num_iter = 0 /\ i = 0
  /\ iter = [t \in Ids |-> 0]
  /\ thread = [t \in Ids |-> "unborn"]
  /\ reg = [t \in Ids |-> 0]
  /\ var = 0 /\ result = 0

-----------------------------------------------------------------------------
\* argc, strtol() and the checks of both arguments, and calloc().
read_args ==
  /\ main = "args"
  /\ LET accepted == Len(argv) = 2 /\ \A k \in DOMAIN argv : threads_create_accepts(argv[k]) IN
     \/ /\ accepted
        /\ n_threads' = strtol(argv[1]) /\ num_iter' = strtol(argv[2])
        /\ main' = "create" /\ i' = 1
     \/ /\ ~accepted
        /\ main' = "refused" /\ UNCHANGED <<n_threads, num_iter, i>>
     \/ /\ accepted
        /\ main' = "error" /\ UNCHANGED <<n_threads, num_iter, i>>
  /\ UNCHANGED <<argv, iter, thread, reg, var, result>>

\* A thread runs as soon as it is created.
pthread_create ==
  /\ main = "create" /\ i <= n_threads
  /\ thread' = [thread EXCEPT ![i] = "load"]
  /\ i' = i + 1
  /\ UNCHANGED <<argv, n_threads, num_iter, main, iter, reg, var, result>>

\* main() returns, and with it every thread ends.
create_fails ==
  /\ main = "create" /\ i <= n_threads
  /\ main' = "error"
  /\ thread' = [t \in Ids |-> "dead"]
  /\ UNCHANGED <<argv, n_threads, num_iter, i, iter, reg, var, result>>

all_created ==
  /\ main = "create" /\ i > n_threads
  /\ main' = "join" /\ i' = 1
  /\ UNCHANGED <<argv, n_threads, num_iter, iter, thread, reg, var, result>>

\* Mutant: main() does not wait for the thread.
pthread_join_NoWait ==
  /\ main = "join" /\ i <= n_threads
  /\ i' = i + 1
  /\ UNCHANGED <<argv, n_threads, num_iter, main, iter, thread, reg, var, result>>

pthread_join ==
  /\ main = "join" /\ i <= n_threads
  /\ thread[i] = "dead"
  /\ i' = i + 1
  /\ UNCHANGED <<argv, n_threads, num_iter, main, iter, thread, reg, var, result>>

print ==
  /\ main = "join" /\ i > n_threads
  /\ main' = "done" /\ result' = var
  /\ thread' = [t \in Ids |-> "dead"]
  /\ UNCHANGED <<argv, n_threads, num_iter, i, iter, reg, var>>

-----------------------------------------------------------------------------
\* k increments of (*var_addr)++ in one load ...
load(t) ==
  /\ thread[t] = "load" /\ iter[t] < num_iter
  /\ \E k \in 1 .. num_iter - iter[t] :
       /\ reg' = [reg EXCEPT ![t] = var + k]
       /\ iter' = [iter EXCEPT ![t] = @ + k]
  /\ thread' = [thread EXCEPT ![t] = "store"]
  /\ UNCHANGED <<argv, n_threads, num_iter, main, i, var, result>>

\* ... and one store.
store(t) ==
  /\ thread[t] = "store"
  /\ var' = reg[t]
  /\ thread' = [thread EXCEPT ![t] = "load"]
  /\ UNCHANGED <<argv, n_threads, num_iter, main, i, iter, reg, result>>

pthread_exit(t) ==
  /\ thread[t] = "load" /\ iter[t] >= num_iter
  /\ thread' = [thread EXCEPT ![t] = "dead"]
  /\ UNCHANGED <<argv, n_threads, num_iter, main, i, iter, reg, var, result>>

Thread(t) == load(t) \/ store(t) \/ pthread_exit(t)

Main == read_args \/ pthread_create \/ create_fails \/ all_created \/ pthread_join \/ print

ThreadsNext == Main \/ \E t \in Ids : Thread(t)

-----------------------------------------------------------------------------
\* Properties

\* Neither the int that counts the iterations of a thread nor the long that counts
\* those of all threads overflows, as both arguments are less than INT_MAX
\* (main, the check num_iter >= INT_MAX; thread_start, i and *var_addr).
NoOverflow ==
  /\ i <= INT_MAX /\ var <= LONG_MAX
  /\ \A t \in Ids : iter[t] <= INT_MAX /\ reg[t] <= LONG_MAX

\* Lost updates have a limit: whatever the threads lose to each other, the result
\* is at least 2 (or all of it, with one thread or one iteration counted once),
\* as the last thread to store for the last time has itself made, or read, an
\* earlier increment (thread_start, (*var_addr)++).
LostUpdatesBounded ==
  main = "done" =>
    result >= CASE n_threads = 1 -> num_iter
                [] num_iter = 1  -> 1
                [] OTHER         -> 2
=============================================================================
