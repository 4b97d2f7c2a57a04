----------------------------- MODULE LessonsProofs -----------------------------
(***************************************************************************)
(* The checks of the arguments are exact, whatever the sizes of int and    *)
(* long and whatever the user gives.                                       *)
(***************************************************************************)
EXTENDS Lessons, TLAPS

\* The checks of one argument, of all programs: strtol() gives a number outside of
\* long away as LONG_MIN or LONG_MAX.
LEMMA ExactCorrect ==
  ASSUME NEW a \in Args
  PROVE  Exact(a)
<1>1. /\ INT_MAX \in Nat /\ LONG_MAX \in Nat /\ INT_MAX <= LONG_MAX
      /\ a.number \in Int /\ a.rest \in BOOLEAN
  BY NumberAssumption DEF Args
<1>2. CASE a.number > LONG_MAX
  <2>1. strtol(a) = LONG_MAX /\ OutOfRange(a)
    BY <1>1, <1>2 DEF strtol, OutOfRange
  <2> QED BY <1>1, <1>2, <2>1
          DEF Exact, IsNumber, print_num_accepts, get_input_num, fork_n_child_accepts,
              threads_create_accepts, Positive, InLong, InInt
<1>3. CASE a.number < LONG_MIN
  <2>1. strtol(a) = LONG_MIN /\ LONG_MIN < 1
    BY <1>1, <1>3 DEF strtol, LONG_MIN
  <2> QED BY <1>1, <1>3, <2>1
          DEF Exact, IsNumber, print_num_accepts, get_input_num, fork_n_child_accepts,
              threads_create_accepts, Positive, LONG_MIN
<1>4. CASE LONG_MIN <= a.number /\ a.number <= LONG_MAX
  <2>1. strtol(a) = a.number /\ ~OutOfRange(a)
    BY <1>1, <1>4 DEF strtol, OutOfRange, LONG_MIN
  <2> QED BY <1>1, <1>4, <2>1
          DEF Exact, IsNumber, print_num_accepts, get_input_num, fork_n_child_accepts,
              threads_create_accepts, Positive, InLong, InInt, INT_MIN
<1> QED BY <1>1, <1>2, <1>3, <1>4 DEF LONG_MIN

\* No program changes its arguments.
LEMMA ArgvKept == [Next]_vars => UNCHANGED argv
<1> SUFFICES ASSUME [Next]_vars PROVE UNCHANGED argv
  OBVIOUS
<1>1. CASE PN!NumNext
  BY <1>1 DEF PN!NumNext, PN!read_n, PN!print_loop
<1>2. CASE FN!ForkNext
  BY <1>2 DEF FN!ForkNext, FN!read_count, FN!fork, FN!loop_ends, FN!getppid, FN!child_print
<1>3. CASE TC!ThreadsNext
  BY <1>3 DEF TC!ThreadsNext, TC!Main, TC!Thread, TC!read_args, TC!pthread_create,
              TC!create_fails, TC!all_created, TC!pthread_join, TC!print, TC!load,
              TC!store, TC!pthread_exit
<1>4. CASE UNCHANGED vars
  BY <1>4 DEF vars, PN!numVars
<1> QED BY <1>1, <1>2, <1>3, <1>4 DEF Next

\* The programs accept the numbers that they can deal with, and nothing else.
THEOREM ArgsCheckedCorrect == Spec => []ArgsChecked
<1>1. Init => argv \in ArgLists
  BY DEF Init
<1>2. argv \in ArgLists /\ [Next]_vars => (argv \in ArgLists)'
  BY ArgvKept
<1>3. argv \in ArgLists => ArgsChecked
  <2> SUFFICES ASSUME argv \in ArgLists, NEW k \in DOMAIN argv PROVE Exact(argv[k])
    BY DEF ArgsChecked
  <2>1. argv[k] \in Args
    BY DEF ArgLists
  <2> QED BY <2>1, ExactCorrect
<1> QED BY <1>1, <1>2, <1>3, PTL DEF Spec

-----------------------------------------------------------------------------
\* threads_create.c

Ids == TC!Ids

ThreadTypes ==
  /\ n_threads \in Nat /\ num_iter \in Nat /\ i \in Nat /\ var \in Nat /\ result \in Nat
  /\ iter \in [Ids -> Nat] /\ reg \in [Ids -> Nat]
  /\ thread \in [Ids -> {"unborn", "load", "store", "dead"}]

\* Before the arguments are accepted.
Idle ==
  /\ n_threads = 0 /\ num_iter = 0 /\ i = 0 /\ var = 0
  /\ \A t \in Ids : iter[t] = 0 /\ reg[t] = 0 /\ thread[t] = "unborn"

\* Left[t] iterations are left to the first t of n threads, each of which does m and has
\* done it[t].
IsLeft(Left, n_t, m, it) ==
  /\ Left \in [0 .. n_t -> Nat] /\ Left[0] = 0
  /\ \A t \in 1 .. n_t : Left[t] = Left[t - 1] + (m - it[t])
  /\ \A s \in 0 .. n_t : \A t \in s .. n_t : Left[s] <= Left[t]

\* What has been counted, or is about to be stored, and what is left to do is not more
\* than all.
HasRoom(n_t, m, all, it, v, rg) ==
  \E Left : /\ IsLeft(Left, n_t, m, it)
            /\ v + Left[n_t] <= all /\ \A t \in Ids : rg[t] + Left[n_t] <= all

Budget == HasRoom(n_threads, num_iter, n_threads * num_iter, iter, var, reg)

Launched ==
  /\ n_threads \in Ids /\ num_iter \in Ids /\ i \in 1 .. n_threads + 1
  /\ \A t \in Ids : iter[t] <= num_iter
  /\ Budget

\* An update that is about to be stored is at least 1; the second of a thread is at
\* least 2, as the thread's first has been stored by then.
Stores ==
  \A t \in Ids :
    /\ thread[t] = "store" => reg[t] >= 1 /\ (iter[t] >= 2 => reg[t] >= 2)
    /\ thread[t] # "store" /\ iter[t] >= 1 => var >= 1

Finished(t) == iter[t] = num_iter /\ thread[t] # "store"

\* A lone thread loses nothing.  Of several, one is the last to store.
Stored ==
  /\ n_threads = 1 => IF thread[1] = "store" THEN reg[1] = iter[1] ELSE var = iter[1]
  /\ (\A t \in 1 .. n_threads : Finished(t)) => var >= IF num_iter = 1 THEN 1 ELSE 2

\* main() creates the threads, or waits for them.
Running ==
  /\ Launched /\ Stores /\ Stored
  /\ \A t \in Ids : thread[t] \in {"load", "store"} => t <= n_threads
  /\ \A t \in Ids : thread[t] = "dead" => iter[t] = num_iter
  /\ main = "create" => \A t \in Ids : t >= i => thread[t] = "unborn"
  /\ main = "join" => \A t \in Ids : t < i => thread[t] = "dead"

AtResult ==
  result >= CASE n_threads = 1 -> num_iter
              [] num_iter = 1  -> 1
              [] OTHER         -> 2

ThreadsInv ==
  /\ ThreadTypes /\ (Idle \/ Launched)
  /\ program # "threads_create" \/ main = "args" => Idle
  /\ program = "threads_create" =>
       /\ main \in {"create", "join"} => Running
       /\ main \notin {"create", "join"} => \A t \in Ids : thread[t] \in {"unborn", "dead"}
       /\ main = "done" => AtResult

\* Other programs leave the threads alone, and the arguments are kept.
LEMMA IdsFacts ==
  /\ INT_MAX \in Nat /\ LONG_MAX \in Nat /\ Ids = 1 .. INT_MAX - 1
  /\ \A t \in Ids : t \in Nat /\ t >= 1 /\ t < INT_MAX
BY NumberAssumption DEF Ids, TC!Ids

\* All iterations are left when the threads start.
LEMMA RoomStart ==
  ASSUME NEW n_t \in Nat, NEW m \in Nat, NEW it, NEW rg,
         \A t \in 1 .. n_t : it[t] = 0, \A t \in Ids : rg[t] = 0
  PROVE  HasRoom(n_t, m, n_t * m, it, 0, rg)
<1> DEFINE Left == [t \in 0 .. n_t |-> t * m]
<1>1. Left \in [0 .. n_t -> Nat] /\ \A t \in 1 .. n_t : Left[t] = Left[t - 1] + m
  OBVIOUS
<1>2. ASSUME NEW s \in 0 .. n_t, NEW t \in s .. n_t
      PROVE  Left[s] <= Left[t]
  <2>1. \A a, b \in Nat : a <= b => a * m <= b * m
    OBVIOUS
  <2>2. s \in Nat /\ t \in Nat /\ s <= t /\ Left[s] = s * m /\ Left[t] = t * m
    OBVIOUS
  <2> HIDE DEF Left
  <2> QED BY <2>1, <2>2
<1>3. Left[0] = 0 /\ Left[n_t] = n_t * m /\ n_t * m \in Nat
  OBVIOUS
<1> HIDE DEF Left
<1>4. IsLeft(Left, n_t, m, it)
  BY <1>1, <1>2, <1>3 DEF IsLeft
<1>5. \A k \in Nat : 0 + k <= k
  OBVIOUS
<1> QED BY <1>3, <1>4, <1>5 DEF HasRoom

\* A thread loads and adds k, which are taken from what is left to it and to all threads
\* after it.
LEMMA RoomLoad ==
  ASSUME NEW n_t \in Nat, NEW m \in Nat, NEW all \in Nat, NEW v \in Nat,
         NEW it \in [Ids -> Nat], NEW rg \in [Ids -> Nat], NEW t \in 1 .. n_t, NEW k \in Nat,
         HasRoom(n_t, m, all, it, v, rg), it[t] + k <= m, \A u \in 1 .. n_t : u \in Ids
  PROVE  HasRoom(n_t, m, all, [it EXCEPT ![t] = it[t] + k], v, [rg EXCEPT ![t] = v + k])
<1> DEFINE new_it == [it EXCEPT ![t] = it[t] + k]
           new_rg == [rg EXCEPT ![t] = v + k]
<1>1. /\ \A u \in 1 .. n_t : it[u] \in Nat /\ new_it[u] = IF u = t THEN it[u] + k ELSE it[u]
      /\ \A u \in Ids : rg[u] \in Nat /\ new_rg[u] = IF u = t THEN v + k ELSE rg[u]
  OBVIOUS
<1> HIDE DEF new_it, new_rg
<1>2. PICK Left : /\ IsLeft(Left, n_t, m, it)
                  /\ v + Left[n_t] <= all /\ \A u \in Ids : rg[u] + Left[n_t] <= all
  BY DEF HasRoom
<1>3. /\ \A u \in 0 .. n_t : Left[u] \in Nat
      /\ \A u \in 1 .. n_t : Left[u] = Left[u - 1] + (m - it[u])
      /\ \A s \in 0 .. n_t : \A u \in s .. n_t : Left[s] <= Left[u]
      /\ Left[0] = 0
  BY <1>2 DEF IsLeft
<1> DEFINE New == [u \in 0 .. n_t |-> IF u < t THEN Left[u] ELSE Left[u] - k]
<1>4. \A u \in 0 .. n_t : New[u] = IF u < t THEN Left[u] ELSE Left[u] - k
  OBVIOUS
<1>5. t - 1 \in 0 .. n_t /\ t \in 0 .. n_t /\ Left[t - 1] \in Nat /\ Left[t - 1] + k <= Left[t]
  BY <1>1, <1>3
<1>6. \A u \in 0 .. n_t : t <= u => Left[t] <= Left[u]
  BY <1>3, <1>5
<1>7. New \in [0 .. n_t -> Nat]
  BY <1>3, <1>5, <1>6
<1> HIDE DEF New
<1>8. ASSUME NEW u \in 1 .. n_t
      PROVE  New[u] = New[u - 1] + (m - new_it[u])
  <2>1. /\ u \in 0 .. n_t /\ u - 1 \in 0 .. n_t /\ Left[u] \in Nat /\ Left[u - 1] \in Nat
        /\ Left[u] = Left[u - 1] + (m - it[u]) /\ it[u] \in Nat
    BY <1>1, <1>3
  <2> QED BY <1>1, <1>4, <2>1
<1>9. ASSUME NEW s \in 0 .. n_t, NEW u \in s .. n_t
      PROVE  New[s] <= New[u]
  <2>1. u \in 0 .. n_t /\ Left[s] <= Left[u] /\ Left[s] \in Nat /\ Left[u] \in Nat
    BY <1>3
  <2>2. s < t => Left[s] <= Left[t - 1]
    BY <1>3, <1>5
  <2> QED BY <1>3, <1>4, <1>5, <1>6, <2>1, <2>2
<1>10. New[0] = 0 /\ New[n_t] = Left[n_t] - k /\ Left[n_t] \in Nat
  BY <1>3, <1>4
<1>11. IsLeft(New, n_t, m, new_it)
  BY <1>7, <1>8, <1>9, <1>10 DEF IsLeft
<1>12. v + New[n_t] <= all
  BY <1>2, <1>10
<1>13. ASSUME NEW u \in Ids
       PROVE  new_rg[u] + New[n_t] <= all
  BY <1>1, <1>2, <1>10
<1>14. HasRoom(n_t, m, all, new_it, v, new_rg)
  BY <1>11, <1>12, <1>13 DEF HasRoom
<1> QED BY <1>14 DEF new_it, new_rg

\* What a program accepts, it can deal with.
LEMMA AcceptedRange ==
  ASSUME NEW a \in Args
  PROVE  /\ threads_create_accepts(a) => strtol(a) \in Ids
         /\ fork_n_child_accepts(a) => strtol(a) \in Nat \ {0}
<1>1. a.number \in Int /\ LONG_MAX \in Nat
  BY NumberAssumption DEF Args
<1>2. strtol(a) \in Int
  BY <1>1 DEF strtol, LONG_MIN
<1> QED BY <1>2, IdsFacts DEF threads_create_accepts, fork_n_child_accepts, Positive, InInt

\* The modules of the programs read the arguments in the same way.
LEMMA SameChecks ==
  \A a : /\ TC!strtol(a) = strtol(a) /\ FN!strtol(a) = strtol(a)
         /\ TC!threads_create_accepts(a) <=> threads_create_accepts(a)
         /\ FN!fork_n_child_accepts(a) <=> fork_n_child_accepts(a)
BY DEF TC!strtol, FN!strtol, strtol, TC!LONG_MIN, FN!LONG_MIN, LONG_MIN,
       TC!threads_create_accepts, threads_create_accepts, FN!fork_n_child_accepts,
       fork_n_child_accepts, TC!Positive, FN!Positive, Positive, FN!InLong, InLong,
       FN!OutOfRange, OutOfRange, TC!InInt, FN!InInt, InInt, TC!INT_MIN, FN!INT_MIN, INT_MIN

LEMMA ArgvFacts ==
  ASSUME argv \in ArgLists
  PROVE  /\ Len(argv) \in Nat /\ DOMAIN argv = 1 .. Len(argv)
         /\ \A k \in 1 .. Len(argv) : argv[k] \in Args
<1>1. PICK k \in 0 .. MaxArgs : argv \in [1 .. k -> Args]
  BY DEF ArgLists
<1>2. argv \in Seq(Args) /\ Len(argv) = k
  BY <1>1, NumberAssumption
<1> QED BY <1>1, <1>2

\* The steps of main().
LEMMA MainStep ==
  ASSUME ThreadsInv, argv \in ArgLists, program = "threads_create", program' = program, TC!Main
  PROVE  ThreadsInv'
<1>1. CASE TC!read_args
  <2>1. /\ Idle /\ ThreadTypes /\ main = "args"
        /\ UNCHANGED <<argv, iter, thread, reg, var, result>>
    BY <1>1 DEF TC!read_args, ThreadsInv
  <2>2. CASE /\ Len(argv) = 2 /\ \A k \in DOMAIN argv : threads_create_accepts(argv[k])
             /\ n_threads' = strtol(argv[1]) /\ num_iter' = strtol(argv[2])
             /\ main' = "create" /\ i' = 1
    <3>1. n_threads' \in Ids /\ num_iter' \in Ids
      <4>1. argv[1] \in Args /\ argv[2] \in Args /\ 1 \in DOMAIN argv /\ 2 \in DOMAIN argv
        BY <2>2, ArgvFacts
      <4> QED BY <2>2, <4>1, AcceptedRange
    <3>2. HasRoom(n_threads', num_iter', n_threads' * num_iter', iter, 0, reg)
      <4>1. n_threads' \in Nat /\ num_iter' \in Nat /\ \A t \in 1 .. n_threads' : t \in Ids
        BY <3>1, IdsFacts
      <4> QED BY <2>1, <4>1, RoomStart DEF Idle
    <3>3. Budget'
      BY <2>1, <3>2 DEF Budget, HasRoom, IsLeft, Idle
    <3>4. ThreadTypes'
      BY <2>1, <2>2, <3>1, IdsFacts DEF ThreadTypes
    <3>5. Launched'
      BY <2>1, <2>2, <3>1, <3>3, IdsFacts DEF Launched, Idle
    <3>6. Running'
      <4>1. Stores'
        BY <2>1 DEF Idle, Stores
      <4>2. Stored'
        BY <2>1, <3>1, IdsFacts DEF Idle, Stored, Finished
      <4> QED BY <2>1, <2>2, <3>1, <3>5, <4>1, <4>2, IdsFacts DEF Idle, Running
    <3> QED BY <2>1, <2>2, <3>4, <3>5, <3>6 DEF ThreadsInv
  <2>3. CASE (main' = "refused" \/ main' = "error") /\ UNCHANGED <<n_threads, num_iter, i>>
    BY <2>1, <2>3 DEF ThreadsInv, ThreadTypes, Idle
  <2> QED BY <1>1, <2>2, <2>3, SameChecks DEF TC!read_args
<1>2. ASSUME main \in {"create", "join"}
      PROVE  /\ Running /\ Launched /\ ThreadTypes
             /\ \A t \in 1 .. n_threads : t \in Ids
  BY <1>2, IdsFacts DEF ThreadsInv, Running, Launched
\* A step that leaves the counters alone.
<1>3. ASSUME main \in {"create", "join"}, main' \in {"create", "join"}, i' \in 1 .. n_threads + 1,
             UNCHANGED <<n_threads, num_iter, iter, reg, var, result>>,
             thread' \in [Ids -> {"unborn", "load", "store", "dead"}],
             \A t \in Ids : thread'[t] = thread[t] \/ (thread[t] = "unborn" /\ thread'[t] = "load" /\ t <= n_threads),
             main' = "create" => \A t \in Ids : t >= i' => thread'[t] = "unborn",
             main' = "join" => \A t \in Ids : t < i' => thread'[t] = "dead"
      PROVE  ThreadsInv'
  <2>1. ThreadTypes'
    BY <1>2, <1>3 DEF ThreadTypes
  <2>2. Launched'
    BY <1>2, <1>3 DEF Launched, Budget, HasRoom, IsLeft
  <2>3. Stores'
    BY <1>2, <1>3 DEF Running, Stores
  <2>4. Stored'
    BY <1>2, <1>3 DEF Running, Stored, Finished
  <2>5. Running'
    BY <1>2, <1>3, <2>2, <2>3, <2>4 DEF Running
  <2> QED BY <1>3, <2>1, <2>2, <2>5 DEF ThreadsInv
\* main() returns.
<1>4. ASSUME main \in {"create", "join"}, main' \in {"error", "done"},
             UNCHANGED <<n_threads, num_iter, i, iter, reg, var>>,
             thread' = [t \in Ids |-> "dead"], result' \in Nat, main' = "done" => AtResult'
      PROVE  ThreadsInv'
  <2>1. ThreadTypes'
    BY <1>2, <1>4 DEF ThreadTypes
  <2>2. Launched'
    BY <1>2, <1>4 DEF Launched, Budget, HasRoom, IsLeft
  <2> QED BY <1>4, <2>1, <2>2 DEF ThreadsInv
<1>5. CASE TC!pthread_create
  <2>1. /\ main = "create" /\ main' = main /\ i <= n_threads
        /\ UNCHANGED <<n_threads, num_iter, iter, reg, var, result>>
        /\ thread' = [thread EXCEPT ![i] = "load"] /\ i' = i + 1
    BY <1>5 DEF TC!pthread_create
  <2>2. n_threads \in Nat /\ i \in 1 .. n_threads
    BY <1>2, <2>1 DEF Launched, ThreadTypes
  <2>3. i \in Ids /\ i' \in 1 .. n_threads + 1 /\ thread[i] = "unborn"
    <3>1. i \in Nat /\ i >= i /\ i \in Ids
      BY <1>2, <2>1, <2>2
    <3> QED BY <1>2, <2>1, <2>2, <3>1 DEF Running
  <2>4. /\ thread' \in [Ids -> {"unborn", "load", "store", "dead"}]
        /\ \A t \in Ids : thread'[t] = IF t = i THEN "load" ELSE thread[t]
    BY <1>2, <2>1 DEF ThreadTypes
  <2>5. \A t \in Ids : thread'[t] = thread[t] \/ (thread[t] = "unborn" /\ thread'[t] = "load" /\ t <= n_threads)
    BY <2>1, <2>3, <2>4
  <2>6. ASSUME NEW t \in Ids, t >= i'
        PROVE  thread'[t] = "unborn"
    <3>1. t >= i /\ t # i
      BY <2>1, <2>2, <2>6, IdsFacts
    <3> QED BY <1>2, <2>1, <2>4, <3>1 DEF Running
  <2>7. main \in {"create", "join"} /\ main' \in {"create", "join"} /\ main' # "join"
    BY <2>1
  <2> QED BY <1>3, <2>1, <2>3, <2>4, <2>5, <2>6, <2>7
<1>6. CASE TC!create_fails
  BY <1>2, <1>4, <1>6 DEF TC!create_fails, ThreadTypes, Ids
<1>7. CASE TC!all_created
  <2>1. \A t \in Ids : ~(t < 1)
    BY IdsFacts
  <2>2. 1 \in 1 .. n_threads + 1
    BY <1>2, <1>7 DEF TC!all_created, ThreadTypes
  <2> QED BY <1>2, <1>3, <1>7, <2>1, <2>2 DEF TC!all_created, ThreadTypes
<1>8. CASE TC!pthread_join
  <2>1. /\ main = "join" /\ main' = main /\ i <= n_threads /\ thread[i] = "dead"
        /\ UNCHANGED <<n_threads, num_iter, iter, thread, reg, var, result>> /\ i' = i + 1
    BY <1>8 DEF TC!pthread_join
  <2>2. n_threads \in Nat /\ i \in 1 .. n_threads /\ i' \in 1 .. n_threads + 1
    BY <1>2, <2>1 DEF Launched, ThreadTypes
  <2>3. ASSUME NEW t \in Ids, t < i'
        PROVE  thread[t] = "dead"
    <3>1. t < i \/ t = i
      BY <2>1, <2>2, <2>3, IdsFacts
    <3> QED BY <1>2, <2>1, <3>1 DEF Running
  <2>4. main \in {"create", "join"} /\ main' \in {"create", "join"} /\ main' # "create"
    BY <2>1
  <2> QED BY <1>2, <1>3, <2>1, <2>2, <2>3, <2>4 DEF ThreadTypes
<1>9. CASE TC!print
  <2>1. /\ main = "join" /\ i > n_threads /\ result' = var
        /\ UNCHANGED <<n_threads, num_iter, i, iter, reg, var>>
    BY <1>9 DEF TC!print
  <2>2. \A t \in 1 .. n_threads : thread[t] = "dead" /\ iter[t] = num_iter
    BY <1>2, <2>1 DEF Running, ThreadTypes
  <2>3. AtResult'
    BY <1>2, <2>1, <2>2 DEF AtResult, Running, Stored, Finished, ThreadTypes
  <2> QED BY <1>2, <1>4, <1>9, <2>1, <2>3 DEF TC!print, ThreadTypes, Ids
<1> QED BY <1>1, <1>5, <1>6, <1>7, <1>8, <1>9 DEF TC!Main

\* The steps of a thread.
LEMMA ThreadStep ==
  ASSUME ThreadsInv, program = "threads_create", program' = program,
         NEW t \in Ids, TC!Thread(t)
  PROVE  ThreadsInv'
<1>1. /\ thread[t] \in {"load", "store"} /\ t \in Nat
      /\ UNCHANGED <<argv, n_threads, num_iter, main, i, result>>
  BY IdsFacts DEF TC!Thread, TC!load, TC!store, TC!pthread_exit
<1>2. /\ main \in {"create", "join"} /\ Running /\ Launched /\ ThreadTypes /\ Stores /\ Stored
      /\ t \in 1 .. n_threads /\ \A u \in 1 .. n_threads : u \in Ids
  <2>1. main \in {"create", "join"} /\ Running /\ Launched /\ ThreadTypes /\ Stores /\ Stored
    BY <1>1 DEF ThreadsInv, Running
  <2>2. t <= n_threads
    BY <1>1, <2>1 DEF Running
  <2> QED BY <1>1, <2>1, <2>2, IdsFacts DEF ThreadTypes, Launched
<1>3. ASSUME ThreadTypes', Launched', Stores', Stored',
             \A u \in Ids : thread'[u] # thread[u] =>
               u = t /\ thread[u] # "unborn" /\ (thread'[u] = "dead" => iter'[u] = num_iter),
             \A u \in Ids \ {t} : iter'[u] = iter[u]
      PROVE  ThreadsInv'
  <2>1. \A u \in Ids : thread'[u] \in {"load", "store"} => u <= n_threads
    BY <1>2, <1>3, IdsFacts DEF Running
  <2>2. \A u \in Ids : thread'[u] = "dead" => iter'[u] = num_iter
    BY <1>1, <1>2, <1>3 DEF Running
  <2>3. main = "create" => \A u \in Ids : u >= i => thread'[u] = "unborn"
    BY <1>2, <1>3 DEF Running
  <2>4. main = "join" => \A u \in Ids : u < i => thread'[u] = "dead"
    BY <1>1, <1>2, <1>3 DEF Running
  <2>5. Running'
    BY <1>1, <1>3, <2>1, <2>2, <2>3, <2>4 DEF Running
  <2> QED BY <1>1, <1>2, <1>3, <2>5 DEF ThreadsInv
<1>4. CASE TC!load(t)
  <2>1. PICK k \in 1 .. num_iter - iter[t] :
          reg' = [reg EXCEPT ![t] = var + k] /\ iter' = [iter EXCEPT ![t] = @ + k]
    BY <1>4 DEF TC!load
  <2>2. /\ thread[t] = "load" /\ thread' = [thread EXCEPT ![t] = "store"] /\ var' = var
        /\ k \in Nat /\ k >= 1 /\ iter[t] \in Nat /\ iter[t] + k <= num_iter
        /\ num_iter \in Nat /\ var \in Nat
    BY <1>2, <1>4, <2>1 DEF TC!load, ThreadTypes
  <2>3. /\ \A u \in Ids : iter'[u] = IF u = t THEN iter[u] + k ELSE iter[u]
        /\ \A u \in Ids : reg'[u] = IF u = t THEN var + k ELSE reg[u]
        /\ \A u \in Ids : thread'[u] = IF u = t THEN "store" ELSE thread[u]
    BY <1>2, <2>1, <2>2 DEF ThreadTypes
  <2>4. ThreadTypes'
    BY <1>1, <1>2, <2>1, <2>2 DEF ThreadTypes
  <2>5. Launched'
    <3>1. HasRoom(n_threads, num_iter, n_threads * num_iter, iter', var, reg')
      <4>1. /\ n_threads \in Nat /\ n_threads * num_iter \in Nat /\ reg \in [Ids -> Nat]
            /\ \A u \in 1 .. n_threads : iter[u] \in Nat /\ iter[u] <= num_iter
            /\ HasRoom(n_threads, num_iter, n_threads * num_iter, iter, var, reg)
        BY <1>2, <2>2 DEF ThreadTypes, Launched, Budget
      <4> DEFINE all == n_threads * num_iter
      <4>2. all \in Nat /\ HasRoom(n_threads, num_iter, all, iter, var, reg)
        BY <4>1
      <4> HIDE DEF all
      <4>3. HasRoom(n_threads, num_iter, all, [iter EXCEPT ![t] = iter[t] + k], var,
                    [reg EXCEPT ![t] = var + k])
        BY <1>2, <2>2, <4>1, <4>2, RoomLoad DEF ThreadTypes
      <4> QED BY <2>1, <4>3 DEF all
    <3>2. Budget'
      BY <1>1, <2>2, <3>1 DEF Budget, HasRoom, IsLeft
    <3>3. \A u \in Ids : iter'[u] <= num_iter
      BY <1>2, <2>2, <2>3 DEF Launched
    <3> QED BY <1>1, <1>2, <3>2, <3>3 DEF Launched
  <2>6. Stores'
    <3>1. var + k >= 1 /\ (iter[t] + k >= 2 => var + k >= 2)
      BY <1>2, <2>2 DEF Stores
    <3> QED BY <1>2, <2>2, <2>3, <3>1 DEF Stores
  <2>7. Stored'
    <3>1. ~Finished(t)'
      BY <2>3 DEF Finished
    <3>2. n_threads = 1 => t = 1 /\ var + k = iter[t] + k
      BY <1>2, <2>2 DEF Stored
    <3> QED BY <1>1, <1>2, <2>3, <3>1, <3>2 DEF Stored
  <2> QED BY <1>3, <2>2, <2>3, <2>4, <2>5, <2>6, <2>7
<1>5. CASE TC!store(t)
  <2>1. /\ thread[t] = "store" /\ thread' = [thread EXCEPT ![t] = "load"] /\ var' = reg[t]
        /\ UNCHANGED <<iter, reg>>
        /\ \A u \in Ids : thread'[u] = IF u = t THEN "load" ELSE thread[u]
        /\ reg[t] \in Nat /\ reg[t] >= 1 /\ (iter[t] >= 2 => reg[t] >= 2)
    BY <1>2, <1>5 DEF TC!store, ThreadTypes, Stores
  <2>2. ThreadTypes'
    BY <1>1, <1>2, <2>1 DEF ThreadTypes
  <2>3. Launched'
    BY <1>1, <1>2, <2>1 DEF Launched, Budget, HasRoom, IsLeft
  <2>4. Stores'
    BY <1>2, <2>1 DEF Stores
  <2>5. Stored'
    <3>1. n_threads = 1 => t = 1 /\ reg[1] = iter[1]
      BY <1>2, <2>1 DEF Stored
    <3>2. Finished(t)' => reg[t] >= IF num_iter = 1 THEN 1 ELSE 2
      BY <1>1, <1>2, <2>1, IdsFacts DEF Finished, Launched
    <3> QED BY <1>1, <1>2, <2>1, <3>1, <3>2 DEF Stored
  <2> QED BY <1>3, <2>1, <2>2, <2>3, <2>4, <2>5
<1>6. CASE TC!pthread_exit(t)
  <2>1. /\ thread[t] = "load" /\ thread' = [thread EXCEPT ![t] = "dead"] /\ iter[t] = num_iter
        /\ UNCHANGED <<iter, reg, var>>
        /\ \A u \in Ids : thread'[u] = IF u = t THEN "dead" ELSE thread[u]
    BY <1>2, <1>6 DEF TC!pthread_exit, ThreadTypes, Launched
  <2>2. ThreadTypes'
    BY <1>1, <1>2, <2>1 DEF ThreadTypes
  <2>3. Launched'
    BY <1>1, <1>2, <2>1 DEF Launched, Budget, HasRoom, IsLeft
  <2>4. Stores'
    BY <1>2, <2>1 DEF Stores
  <2>5. Stored'
    BY <1>1, <1>2, <2>1 DEF Stored, Finished
  <2> QED BY <1>3, <2>1, <2>2, <2>3, <2>4, <2>5
<1> QED BY <1>4, <1>5, <1>6 DEF TC!Thread

LEMMA ThreadsStep == ThreadsInv /\ argv \in ArgLists /\ [Next]_vars => ThreadsInv'
<1> SUFFICES ASSUME ThreadsInv, argv \in ArgLists, [Next]_vars PROVE ThreadsInv'
  OBVIOUS
<1>1. CASE program = "threads_create" /\ program' = program /\ TC!ThreadsNext
  BY <1>1, MainStep, ThreadStep DEF TC!ThreadsNext, Ids
<1>2. CASE program # "threads_create" /\ program' = program /\ OthersKeep(program)
  <2>1. UNCHANGED <<n_threads, num_iter, i, iter, thread, reg, var, result>>
    BY <1>2 DEF OthersKeep
  <2>2. Idle' /\ ThreadTypes'
    BY <1>2, <2>1 DEF ThreadsInv, Idle, ThreadTypes
  <2> QED BY <1>2, <2>2 DEF ThreadsInv
<1>3. CASE UNCHANGED vars
  <2>1. UNCHANGED <<program, main, n_threads, num_iter, i, iter, thread, reg, var, result>>
    BY <1>3 DEF vars, TC!threadVars
  <2>2. Idle' = Idle /\ ThreadTypes' = ThreadTypes /\ AtResult' = AtResult
    BY <2>1 DEF Idle, ThreadTypes, AtResult
  <2>3. (Launched <=> Launched') /\ (Stores <=> Stores') /\ (Stored <=> Stored')
    BY <2>1 DEF Launched, Budget, HasRoom, IsLeft, Stores, Stored, Finished
  <2>4. Running <=> Running'
    BY <2>1, <2>3 DEF Running
  <2> QED BY <2>1, <2>2, <2>3, <2>4 DEF ThreadsInv
<1> QED BY <1>1, <1>2, <1>3 DEF Next

LEMMA ThreadsInit == Init => ThreadsInv /\ argv \in ArgLists
<1> SUFFICES ASSUME Init PROVE ThreadsInv /\ argv \in ArgLists
  OBVIOUS
<1>1. /\ n_threads = 0 /\ num_iter = 0 /\ i = 0 /\ var = 0 /\ result = 0
      /\ iter = [t \in Ids |-> 0] /\ reg = [t \in Ids |-> 0] /\ thread = [t \in Ids |-> "unborn"]
      /\ main = "args" /\ argv \in ArgLists
  BY DEF Init, TC!ThreadsInit, Ids
<1> QED BY <1>1 DEF ThreadsInv, Idle, ThreadTypes

LEMMA ThreadsInvariant == Spec => []ThreadsInv
<1>1. argv \in ArgLists /\ [Next]_vars => (argv \in ArgLists)'
  BY ArgvKept
<1> QED BY <1>1, ThreadsInit, ThreadsStep, PTL DEF Spec

\* With a long that can hold the square of the largest argument, as where int has 32
\* bits and long has 64, no counter of threads_create.c overflows: neither i in main()
\* and in the threads, nor the global variable, whatever the threads lose.
THEOREM NoOverflowCorrect ==
  ASSUME (INT_MAX - 1) * (INT_MAX - 1) <= LONG_MAX
  PROVE  Spec => []NoOverflow
<1>1. ThreadsInv => NoOverflow
  <2> SUFFICES ASSUME ThreadsInv PROVE NoOverflow
    OBVIOUS
  <2>1. CASE Idle
    BY <2>1, IdsFacts DEF NoOverflow, TC!NoOverflow, Idle, Ids
  <2>2. CASE Launched
    <3>1. ThreadTypes /\ n_threads \in Ids /\ num_iter \in Ids
      BY <2>2 DEF ThreadsInv, Launched
    <3>2. n_threads * num_iter <= LONG_MAX
      <4>1. \A a, b, c \in Nat : a <= c /\ b <= c => a * b <= c * c
        OBVIOUS
      <4>2. INT_MAX - 1 \in Nat /\ n_threads \in Nat /\ num_iter \in Nat
            /\ n_threads <= INT_MAX - 1 /\ num_iter <= INT_MAX - 1
        BY <3>1, IdsFacts
      <4>3. n_threads * num_iter <= (INT_MAX - 1) * (INT_MAX - 1)
        BY <4>1, <4>2
      <4> QED BY <4>2, <4>3, IdsFacts
    <3> DEFINE all == n_threads * num_iter
    <3>3. all \in Nat /\ all <= LONG_MAX /\ HasRoom(n_threads, num_iter, all, iter, var, reg)
      BY <2>2, <3>1, <3>2 DEF Launched, Budget, ThreadTypes
    <3> HIDE DEF all
    <3>4. PICK Left : /\ IsLeft(Left, n_threads, num_iter, iter)
                      /\ var + Left[n_threads] <= all
                      /\ \A t \in Ids : reg[t] + Left[n_threads] <= all
      BY <3>3 DEF HasRoom
    <3> DEFINE rest == Left[n_threads]
    <3>5. /\ rest \in Nat /\ var \in Nat /\ \A t \in Ids : reg[t] \in Nat
          /\ var + rest <= all /\ \A t \in Ids : reg[t] + rest <= all
      BY <3>1, <3>4 DEF IsLeft, ThreadTypes
    <3> HIDE DEF rest
    <3>6. var <= LONG_MAX /\ \A t \in Ids : reg[t] <= LONG_MAX
      BY <3>3, <3>5, IdsFacts
    <3>7. i <= INT_MAX /\ \A t \in Ids : iter[t] <= INT_MAX
      BY <2>2, <3>1, IdsFacts DEF Launched, ThreadTypes
    <3> QED BY <3>6, <3>7 DEF NoOverflow, TC!NoOverflow, Ids
  <2> QED BY <2>1, <2>2 DEF ThreadsInv
<1> QED BY <1>1, ThreadsInvariant, PTL

\* However the threads interleave, and however many increments a build merges, the
\* result of more than one thread with more than one iteration is at least 2, and
\* that of a lone thread is exact.
THEOREM LostUpdatesBoundedCorrect == Spec => []LostUpdatesBounded
<1>1. ThreadsInv => LostUpdatesBounded
  BY DEF ThreadsInv, AtResult, LostUpdatesBounded, TC!LostUpdatesBounded
<1> QED BY <1>1, ThreadsInvariant, PTL

-----------------------------------------------------------------------------
\* fork_n_child.c

N == FN!N
Line(p) == FN!Line(p)

\* The processes that have been forked.
Children == {p \in Pids \ {First} : where[p] # "unborn"}

ForkTypes ==
  /\ where \in [Pids -> {"unborn", "fork", "child", "print", "dead"}]
  /\ count \in [Pids -> Nat] /\ forker \in [Pids -> Pids]
  /\ parent_id \in [Pids -> Pids \cup {"init"}]

\* Only the first process runs the loop.
Loop ==
  /\ where[First] \in {"unborn", "fork", "dead"} /\ \A p \in Pids \ {First} : where[p] # "fork"
  /\ where[First] = "unborn" <=> main \in {"args", "refused"}
  /\ where[First] = "fork" <=> main = "loop"
  /\ where[First] = "unborn" => Children = {} /\ lines = {} /\ count[First] = 0
  /\ where[First] # "unborn" => N \in Nat /\ count[First] <= N
  /\ main = "done" => count[First] = N

\* It has forked one child for every value that its i had.
Forked ==
  /\ \A c \in Children : forker[c] = First /\ count[c] < count[First]
  /\ \A c, d \in Children : count[c] = count[d] => c = d
  /\ \A k \in Nat : k < count[First] => \E c \in Children : count[c] = k

\* Every child that has ended has printed its line, and there is no other.
Lines ==
  /\ \A c \in Children : where[c] \in {"print", "dead"} =>
       parent_id[c] = First \/ (parent_id[c] = "init" /\ where[First] = "dead")
  /\ \A c \in Children : where[c] = "dead" => Line(c) \in lines
  /\ \A l \in lines : \E c \in Children : where[c] = "dead" /\ l = Line(c)

ForkInv == program = "fork_n_child" => ForkTypes /\ Loop /\ Forked /\ Lines

LEMMA ForkStep ==
  ASSUME ForkInv, argv \in ArgLists, program = "fork_n_child", program' = program, FN!ForkNext
  PROVE  ForkInv'
<1>1. ForkTypes /\ Loop /\ Forked /\ Lines /\ First \in Pids /\ N' = N
  <2>1. argv' = argv
    BY DEF FN!ForkNext, FN!read_count, FN!fork, FN!loop_ends, FN!getppid, FN!child_print
  <2> QED BY <2>1, PidAssumption DEF ForkInv, N, FN!N, FN!strtol, FN!LONG_MIN
<1>2. CASE FN!read_count
  <2>1. /\ Children = {} /\ lines = {} /\ count[First] = 0 /\ main = "args"
        /\ where[First] = "unborn" /\ UNCHANGED <<count, forker, parent_id, lines>>
    BY <1>1, <1>2 DEF FN!read_count, Loop
  <2>2. CASE /\ Len(argv) = 1 /\ fork_n_child_accepts(argv[1])
             /\ main' = "loop" /\ where' = [where EXCEPT ![First] = "fork"]
    <3>1. \A p \in Pids : where'[p] = IF p = First THEN "fork" ELSE where[p]
      BY <1>1, <2>2 DEF ForkTypes
    <3>2. Children' = {}
      BY <2>1, <3>1 DEF Children
    <3>3. N \in Nat
      <4>1. argv[1] \in Args
        BY <2>2, ArgvFacts
      <4> QED BY <2>2, <4>1, AcceptedRange, SameChecks DEF N, FN!N
    <3>4. ForkTypes'
      BY <1>1, <2>1, <2>2 DEF ForkTypes
    <3>5. Loop'
      BY <1>1, <2>1, <2>2, <3>1, <3>3 DEF Loop
    <3>6. Forked' /\ Lines'
      BY <1>1, <2>1, <3>2 DEF Forked, Lines, ForkTypes
    <3> QED BY <3>4, <3>5, <3>6 DEF ForkInv
  <2>3. CASE main' = "refused" /\ UNCHANGED where
    <3>1. Children' = Children
      BY <2>3 DEF Children
    <3>2. Loop'
      BY <1>1, <2>1, <2>3, <3>1 DEF Loop
    <3>3. Forked' /\ Lines'
      BY <2>1, <3>1 DEF Forked, Lines
    <3> QED BY <1>1, <2>1, <2>3, <3>2, <3>3 DEF ForkInv, ForkTypes
  <2> QED BY <1>2, <2>2, <2>3, SameChecks DEF FN!read_count
\* A process goes on or ends, and nobody is forked.
<1>3. ASSUME NEW p \in Pids, where[p] # "unborn", NEW there \in {"print", "dead"},
             where' = [where EXCEPT ![p] = there], UNCHANGED <<count, forker>>
      PROVE  /\ Children' = Children /\ Forked' /\ where' \in [Pids -> {"unborn", "fork", "child", "print", "dead"}]
             /\ \A q \in Pids : where'[q] = IF q = p THEN there ELSE where[q]
  <2>1. /\ \A q \in Pids : where'[q] = IF q = p THEN there ELSE where[q]
        /\ where' \in [Pids -> {"unborn", "fork", "child", "print", "dead"}]
    BY <1>1, <1>3 DEF ForkTypes
  <2>2. Children' = Children
    BY <1>3, <2>1 DEF Children
  <2> QED BY <1>1, <1>3, <2>1, <2>2 DEF Forked
\* The first process ends.
<1>4. ASSUME where[First] = "fork", where' = [where EXCEPT ![First] = "dead"],
             main' \in {"done", "error"}, main' = "done" => count[First] = N,
             UNCHANGED <<count, forker, parent_id, lines>>
      PROVE  ForkInv'
  <2>1. /\ Children' = Children /\ Forked' /\ where' \in [Pids -> {"unborn", "fork", "child", "print", "dead"}]
        /\ \A q \in Pids : where'[q] = IF q = First THEN "dead" ELSE where[q]
    BY <1>1, <1>3, <1>4
  <2>2. Loop'
    BY <1>1, <1>4, <2>1 DEF Loop
  <2>3. Lines'
    BY <1>1, <1>4, <2>1 DEF Lines, Children, Line, FN!Line
  <2> QED BY <1>1, <1>4, <2>1, <2>2, <2>3 DEF ForkInv, ForkTypes
<1>5. ASSUME NEW p \in Pids, FN!fork(p)
      PROVE  ForkInv'
  <2>1. p = First /\ where[First] = "fork" /\ main = "loop" /\ count[First] < N /\ UNCHANGED <<parent_id, lines>>
    BY <1>1, <1>5 DEF FN!fork, Loop, N
  <2>2. ASSUME NEW child \in Pids, where[child] = "unborn",
               where' = [where EXCEPT ![child] = "child"],
               count' = [count EXCEPT ![child] = count[First], ![First] = @ + 1],
               forker' = [forker EXCEPT ![child] = First], UNCHANGED main
        PROVE  ForkInv'
    <3>1. child # First
      BY <2>1, <2>2
    <3>2. /\ \A q \in Pids : where'[q] = IF q = child THEN "child" ELSE where[q]
          /\ \A q \in Pids : count'[q] = IF q = child THEN count[First]
                                         ELSE IF q = First THEN count[First] + 1 ELSE count[q]
          /\ \A q \in Pids : forker'[q] = IF q = child THEN First ELSE forker[q]
          /\ count[First] \in Nat
      BY <1>1, <2>2, <3>1 DEF ForkTypes
    <3>3. Children' = Children \cup {child} /\ child \notin Children
      BY <2>2, <3>1, <3>2 DEF Children
    <3>4. ForkTypes'
      BY <1>1, <2>1, <2>2, <3>2 DEF ForkTypes
    <3>5. Loop'
      <4>1. N \in Nat /\ count[First] + 1 <= N
        BY <1>1, <2>1, <3>2 DEF Loop
      <4>2. main' = "loop" /\ where'[First] = "fork" /\ count'[First] <= N
        BY <1>1, <2>1, <2>2, <3>1, <3>2, <4>1
      <4>3. \A q \in Pids \ {First} : where'[q] # "fork"
        BY <1>1, <3>2 DEF Loop
      <4> QED BY <1>1, <4>1, <4>2, <4>3 DEF Loop
    <3>6. Forked'
      <4>1. \A c \in Children : /\ c \in Pids /\ c # child /\ c # First /\ count'[c] = count[c]
                                /\ forker'[c] = forker[c] /\ count[c] \in Nat
        BY <1>1, <3>2, <3>3 DEF Children, ForkTypes
      <4>2. \A c \in Children' : forker'[c] = First /\ count'[c] < count'[First]
        BY <1>1, <3>1, <3>2, <3>3, <4>1 DEF Forked
      <4>3. \A c, d \in Children' : count'[c] = count'[d] => c = d
        BY <1>1, <3>1, <3>2, <3>3, <4>1 DEF Forked
      <4>4. ASSUME NEW k \in Nat, k < count'[First]
            PROVE  \E c \in Children' : count'[c] = k
        <5>1. k < count[First] \/ k = count[First]
          BY <1>1, <3>1, <3>2, <4>4
        <5> QED BY <1>1, <3>1, <3>2, <3>3, <4>1, <5>1 DEF Forked
      <4> QED BY <4>2, <4>3, <4>4 DEF Forked
    <3>7. Lines'
      <4>1. \A c \in Children : Line(c)' = Line(c) /\ where'[c] = where[c]
        BY <2>1, <3>2, <3>3 DEF Children, Line, FN!Line
      <4> QED BY <1>1, <2>1, <3>1, <3>2, <3>3, <4>1 DEF Lines
    <3> QED BY <3>4, <3>5, <3>6, <3>7 DEF ForkInv
  <2>3. CASE FN!return(First, "error") /\ UNCHANGED <<count, forker>>
    BY <1>4, <2>1, <2>3 DEF FN!return
  <2> QED BY <1>5, <2>1, <2>2, <2>3 DEF FN!fork
<1>6. ASSUME NEW p \in Pids, FN!loop_ends(p)
      PROVE  ForkInv'
  <2>1. p = First /\ where[First] = "fork" /\ count[First] >= N
    BY <1>1, <1>6 DEF FN!loop_ends, Loop, N
  <2>2. count[First] = N
    BY <1>1, <2>1 DEF Loop, ForkTypes
  <2> QED BY <1>4, <1>6, <2>1, <2>2 DEF FN!loop_ends, FN!return
<1>7. ASSUME NEW p \in Pids, FN!getppid(p)
      PROVE  ForkInv'
  <2>1. /\ where[p] = "child" /\ where' = [where EXCEPT ![p] = "print"]
        /\ parent_id' = [parent_id EXCEPT ![p] = IF where[forker[p]] = "dead" THEN "init" ELSE forker[p]]
        /\ UNCHANGED <<main, count, forker, lines>>
    BY <1>7 DEF FN!getppid
  <2>2. p \in Children /\ p # First
    <3>1. where[First] \in {"unborn", "fork", "dead"}
      BY <1>1 DEF Loop
    <3> QED BY <2>1, <3>1 DEF Children
  <2>3. /\ Children' = Children /\ Forked' /\ where' \in [Pids -> {"unborn", "fork", "child", "print", "dead"}]
        /\ \A q \in Pids : where'[q] = IF q = p THEN "print" ELSE where[q]
    BY <1>3, <2>1
  <2>4. Loop'
    BY <1>1, <2>1, <2>2, <2>3 DEF Loop
  <2>5. ForkTypes'
    BY <1>1, <2>1, <2>3 DEF ForkTypes
  <2>6. Lines'
    <3>1. parent_id'[p] = First \/ (parent_id'[p] = "init" /\ where'[First] = "dead")
      BY <1>1, <2>1, <2>2, <2>3 DEF Forked, ForkTypes
    <3>2. \A c \in Children \ {p} : c \in Pids /\ parent_id'[c] = parent_id[c] /\ where'[c] = where[c]
      BY <1>1, <2>1, <2>3 DEF ForkTypes, Children
    <3>3. where'[First] = where[First] /\ where'[p] # "dead"
      BY <1>1, <2>2, <2>3
    <3>4. \A c \in Children \ {p} : Line(c)' = Line(c)
      BY <2>1, <3>2 DEF Line, FN!Line
    <3> QED BY <1>1, <2>1, <2>3, <3>1, <3>2, <3>3, <3>4 DEF Lines
  <2> QED BY <2>3, <2>4, <2>5, <2>6 DEF ForkInv
<1>8. ASSUME NEW p \in Pids, FN!child_print(p)
      PROVE  ForkInv'
  <2>1. /\ where[p] = "print" /\ lines' = lines \cup {Line(p)}
        /\ where' = [where EXCEPT ![p] = "dead"] /\ (p # First => main' = main)
        /\ UNCHANGED <<count, forker, parent_id>>
    BY <1>8 DEF FN!child_print, FN!return, Line
  <2>2. p \in Children /\ p # First /\ main' = main
    <3>1. where[First] \in {"unborn", "fork", "dead"}
      BY <1>1 DEF Loop
    <3> QED BY <2>1, <3>1 DEF Children
  <2>3. /\ Children' = Children /\ Forked' /\ where' \in [Pids -> {"unborn", "fork", "child", "print", "dead"}]
        /\ \A q \in Pids : where'[q] = IF q = p THEN "dead" ELSE where[q]
    BY <1>3, <2>1
  <2>4. Loop'
    <3>1. where[First] # "unborn"
      BY <1>1, <2>2 DEF Loop
    <3> QED BY <1>1, <2>1, <2>2, <2>3, <3>1 DEF Loop
  <2>5. ForkTypes'
    BY <1>1, <2>1, <2>3 DEF ForkTypes
  <2>6. Lines'
    <3>1. where'[First] = where[First] /\ \A c \in Children : c \in Pids /\ Line(c)' = Line(c)
      BY <1>1, <2>1, <2>2, <2>3 DEF Children, Line, FN!Line
    <3>2. \A c \in Children : where'[c] = "dead" => Line(c) \in lines'
      BY <1>1, <2>1, <2>3, <3>1 DEF Lines
    <3>3. \A l \in lines' : \E c \in Children : where'[c] = "dead" /\ l = Line(c)
      BY <1>1, <2>1, <2>2, <2>3, <3>1 DEF Lines
    <3>4. \A c \in Children : where'[c] \in {"print", "dead"} =>
            parent_id[c] = First \/ (parent_id[c] = "init" /\ where'[First] = "dead")
      BY <1>1, <2>1, <2>3, <3>1 DEF Lines
    <3> QED BY <2>1, <2>3, <3>1, <3>2, <3>3, <3>4 DEF Lines
  <2> QED BY <2>3, <2>4, <2>5, <2>6 DEF ForkInv
<1> QED BY <1>2, <1>5, <1>6, <1>7, <1>8 DEF FN!ForkNext

\* Every count from 0 to n - 1 is printed by one child only, and the parent that a child
\* prints is the first process or, after that has ended, init: for any number of
\* children, in any order, even when fork() fails.
THEOREM CountsOnceCorrect == Spec => []CountsOnce
<1>1. Init => ForkInv /\ argv \in ArgLists
  <2> SUFFICES ASSUME Init PROVE ForkInv /\ argv \in ArgLists
    OBVIOUS
  <2>1. /\ where = [p \in Pids |-> "unborn"] /\ count = [p \in Pids |-> 0] /\ lines = {}
        /\ forker = [p \in Pids |-> First] /\ parent_id = [p \in Pids |-> "init"]
        /\ main = "args" /\ argv \in ArgLists /\ First \in Pids
    BY PidAssumption DEF Init, FN!ForkInit
  <2>2. Children = {} /\ ForkTypes
    BY <2>1 DEF Children, ForkTypes
  <2> QED BY <2>1, <2>2 DEF ForkInv, Loop, Forked, Lines
<1>2. ForkInv /\ argv \in ArgLists /\ [Next]_vars => ForkInv' /\ (argv \in ArgLists)'
  <2> SUFFICES ASSUME ForkInv, argv \in ArgLists, [Next]_vars PROVE ForkInv'
    BY ArgvKept
  <2>1. CASE program = "fork_n_child" /\ program' = program /\ FN!ForkNext
    BY <2>1, ForkStep
  <2>2. CASE program # "fork_n_child" /\ program' = program
    BY <2>2 DEF ForkInv
  <2>3. CASE UNCHANGED vars
    <3>1. UNCHANGED <<program, argv, main, where, count, forker, parent_id, lines>>
      BY <2>3 DEF vars, FN!forkVars
    <3>2. Children' = Children /\ N' = N /\ \A c : Line(c)' = Line(c)
      BY <3>1 DEF Children, N, FN!N, FN!strtol, FN!LONG_MIN, Line, FN!Line
    <3> QED BY <3>1, <3>2 DEF ForkInv, ForkTypes, Loop, Forked, Lines
  <2> QED BY <2>1, <2>2, <2>3 DEF Next
<1>3. ForkInv => CountsOnce
  <2> SUFFICES ASSUME ForkTypes, Loop, Forked, Lines, program = "fork_n_child"
               PROVE  FN!CountsOnce
    BY DEF ForkInv, CountsOnce
  <2>1. \A l \in lines : \E c \in Children : l.count = count[c] /\ l.ppid = parent_id[c]
                                            /\ where[c] = "dead" /\ l = Line(c)
    BY DEF Lines, Line, FN!Line
  <2>2. \A l, m \in lines : l # m => l.count # m.count
    BY <2>1 DEF Forked
  <2>3. \A l \in lines : l.ppid = First \/ (l.ppid = "init" /\ main # "loop")
    BY <2>1 DEF Lines, Loop
  <2>4. ASSUME main = "done", \A p \in Pids : where[p] \in {"unborn", "dead"}
        PROVE  {l.count : l \in lines} = 0 .. N - 1
    <3>1. N \in Nat /\ count[First] = N
      BY <2>4 DEF Loop
    <3>2. ASSUME NEW l \in lines PROVE l.count \in 0 .. N - 1
      BY <2>1, <3>1 DEF Forked, ForkTypes, Children
    <3>3. ASSUME NEW k \in 0 .. N - 1 PROVE \E l \in lines : l.count = k
      <4>1. PICK c \in Children : count[c] = k
        BY <3>1 DEF Forked
      <4>2. where[c] = "dead"
        BY <2>4 DEF Children
      <4> QED BY <4>1, <4>2 DEF Lines, Line, FN!Line
    <3> QED BY <3>2, <3>3
  <2> QED BY <2>2, <2>3, <2>4 DEF FN!CountsOnce, N
<1> QED BY <1>1, <1>2, <1>3, PTL DEF Spec
===============================================================================
