------------------------------ MODULE NumberArgs ------------------------------
(***************************************************************************)
(* How the programs of lesson_1, lesson_2 and task2 read a number from an  *)
(* argument: strtol() and the checks of what it returned.                  *)
(*                                                                         *)
(* An argument is the number that its beginning stands for (0 if it does   *)
(* not begin with one) and whether something else follows.                 *)
(***************************************************************************)
EXTENDS Integers, Sequences

CONSTANTS
  INT_MAX, LONG_MAX,   \* the largest int and the largest long
  Numbers,             \* the numbers that the user may give
  MaxArgs              \* the most arguments that the user may give (bounds the model)

ASSUME NumberAssumption ==
  /\ INT_MAX \in Nat /\ LONG_MAX \in Nat /\ INT_MAX <= LONG_MAX
  /\ Numbers \subseteq Int /\ MaxArgs \in Nat

LONG_MIN == -LONG_MAX - 1
INT_MIN == -INT_MAX - 1

Args == [number : Numbers, rest : BOOLEAN]
ArgLists == UNION {[1 .. k -> Args] : k \in 0 .. MaxArgs}

\* The nearest long; errno becomes ERANGE when it is another number.
strtol(a) ==
  IF a.number > LONG_MAX THEN LONG_MAX ELSE IF a.number < LONG_MIN THEN LONG_MIN ELSE a.number

OutOfRange(a) == strtol(a) # a.number

\* The checks that all of them make, of *ptr and n < 1 ...
Positive(a) == ~a.rest /\ strtol(a) >= 1
\* ... and those that some make.
InLong(a) == ~(OutOfRange(a) /\ strtol(a) \in {LONG_MIN, LONG_MAX})
InInt(a) == INT_MIN < strtol(a) /\ strtol(a) < INT_MAX

\* Mutant: errno is not looked at.
print_num_NoErrno(a) == Positive(a)

print_num_accepts(a) == Positive(a) /\ InLong(a)

get_input_num(a) == Positive(a) /\ InLong(a) /\ strtol(a) # LONG_MAX

fork_n_child_accepts(a) == Positive(a) /\ InLong(a) /\ InInt(a)

\* Mutant: any long will do.
threads_create_Long(a) == Positive(a)

\* threads_create.c does not look at errno.
threads_create_accepts(a) == Positive(a) /\ InInt(a)

\* What is meant: a number in a range, and nothing else.
IsNumber(a, most) == ~a.rest /\ a.number \in 1 .. most

Exact(a) ==
  /\ print_num_accepts(a) <=> IsNumber(a, LONG_MAX)
  /\ get_input_num(a) <=> IsNumber(a, LONG_MAX - 1)
  /\ fork_n_child_accepts(a) <=> IsNumber(a, INT_MAX - 1)
  /\ threads_create_accepts(a) <=> IsNumber(a, INT_MAX - 1)
=============================================================================
