------------------------------- MODULE PrintNum -------------------------------
(***************************************************************************)
(* lesson_1/print_num.c: prints the numbers from 1 to its argument, which  *)
(* may be LONG_MAX.                                                        *)
(***************************************************************************)
EXTENDS NumberArgs

VARIABLES
  argv,      \* the arguments
  main,      \* where main() is
  n, i,      \* n and i of main()
  printed    \* the numbers that have been printed

numVars == <<argv, main, n, i, printed>>

NumInit == n = 0 /\ i = 0 /\ printed = {}

\* argc, strtol() and the checks.
read_n ==
  /\ main = "args"
  /\ \/ /\ Len(argv) = 1 /\ print_num_accepts(argv[1])
        /\ main' = "loop" /\ n' = strtol(argv[1]) /\ i' = 1
     \/ /\ ~(Len(argv) = 1 /\ print_num_accepts(argv[1]))
        /\ main' = "refused" /\ UNCHANGED <<n, i>>
  /\ UNCHANGED <<argv, printed>>

\* Mutant: the largest number is left out.
print_loop_Less ==
  /\ main = "loop"
  /\ \/ /\ i < n
        /\ printed' = printed \cup {i} /\ i' = i + 1
        /\ UNCHANGED main
     \/ /\ i >= n
        /\ main' = "done" /\ UNCHANGED <<i, printed>>
  /\ UNCHANGED <<argv, n>>

\* i++ beyond LONG_MAX is undefined; the builds wrap around, and i <= LONG_MAX holds for
\* ever.
print_loop ==
  /\ main = "loop"
  /\ \/ /\ i <= n
        /\ printed' = printed \cup {i}
        /\ i' = IF i = LONG_MAX THEN LONG_MIN ELSE i + 1
        /\ UNCHANGED main
     \/ /\ i > n
        /\ main' = "done" /\ UNCHANGED <<i, printed>>
  /\ UNCHANGED <<argv, n>>

NumNext == read_n \/ print_loop

\* For every argument but LONG_MAX the program ends, and has printed the numbers
\* from 1 to the argument (main, the for loop; with LONG_MAX it never ends).
PrintNumEnds ==
  main = "loop" /\ 0 < n /\ n < LONG_MAX ~> main = "done" /\ printed = 1 .. n
=============================================================================
