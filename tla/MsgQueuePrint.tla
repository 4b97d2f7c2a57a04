---------------------------- MODULE MsgQueuePrint ----------------------------
(***************************************************************************)
(* task2/mq_fork_print.c: a parent forks chld_num children and makes them  *)
(* print their numbers in the order of their creation, one at a time, with *)
(* one private System V message queue.  Message type i is the parent's     *)
(* word to child i, type chld_num + 1 is a child's answer to the parent.   *)
(*                                                                         *)
(* fork() may fail, any process may be killed, and somebody else may       *)
(* remove the queue (its mode is 0666): msgsnd() and msgrcv() fail on a    *)
(* removed queue and in no other way, as the messages are small and no     *)
(* process handles signals.                                                *)
(***************************************************************************)
EXTENDS Integers, Sequences, SequencesExt

CONSTANTS
  MaxNum,      \* largest argument of the program (bounds the model)
  Removable,   \* TRUE if somebody outside the program may remove the queue
  Killable     \* the processes a signal may kill: children, and 0 for the parent

ASSUME MsgAssumption ==
  MaxNum \in Nat \ {0} /\ Removable \in BOOLEAN /\ Killable \subseteq 0 .. MaxNum

VARIABLES
  chld_num,   \* the argument of the program
  parent,     \* where the parent is
  turn,       \* order_id in fork_n_childs(), then i in parent_processing()
  order_id,   \* msg.order_id in parent_processing()
  child,      \* where each child is
  alive,      \* the queue exists
  msgs,       \* the messages in the queue
  printed     \* stdout, shared by all

vars == <<chld_num, parent, turn, order_id, child, alive, msgs, printed>>

Numbers == 1 .. MaxNum
Children == 1 .. chld_num
ToParent == chld_num + 1          \* msg_to_par_type
Message(mtype, id) == [mtype |-> mtype, order_id |-> id]
Ended(p) == p \in {"done", "failed", "nofork", "killed"}

\* order_id of the parent's msg is not initialised before its first msgrcv().
Init ==
  /\ chld_num \in Numbers
  /\ parent = "fork" /\ turn = 1
  /\ order_id \in 0 .. MaxNum
  /\ child = [c \in Numbers |-> "unborn"]
  /\ alive = TRUE /\ msgs = <<>>
  /\ printed = <<>>

-----------------------------------------------------------------------------
\* System calls.  The queue has room: see OneTurn.

msgsnd(m) == alive /\ msgs' = Append(msgs, m)

\* msgrcv() takes the first message of the type, and sleeps if there is none.
msgrcv(type, k) ==
  /\ alive /\ k \in DOMAIN msgs
  /\ msgs[k].mtype = type /\ \A j \in 1 .. k - 1 : msgs[j].mtype # type
  /\ msgs' = RemoveAt(msgs, k)

\* msgctl(IPC_RMID) fails if the queue was removed before.
delete_msgq == alive' = FALSE /\ msgs' = <<>>

\* ipcrm(1), or any other process.
remove_queue ==
  /\ Removable /\ alive
  /\ delete_msgq
  /\ UNCHANGED <<chld_num, parent, turn, order_id, child, printed>>

-----------------------------------------------------------------------------
\* The parent

\* Mutant: one child too many.
fork_child_OneMore ==
  /\ parent = "fork" /\ turn <= chld_num + 1
  /\ child' = [child EXCEPT ![turn] = "recv"]
  /\ turn' = turn + 1
  /\ UNCHANGED <<chld_num, parent, order_id, alive, msgs, printed>>

\* fork_n_childs(): a child runs as soon as it is forked.
fork_child ==
  /\ parent = "fork" /\ turn <= chld_num
  /\ child' = [child EXCEPT ![turn] = "recv"]
  /\ turn' = turn + 1
  /\ UNCHANGED <<chld_num, parent, order_id, alive, msgs, printed>>

\* Mutant: the queue stays.
fork_fails_KeepQueue ==
  /\ parent = "fork" /\ turn <= chld_num
  /\ parent' = "nofork"
  /\ UNCHANGED <<chld_num, turn, order_id, child, alive, msgs, printed>>

\* main(): a failed fork() makes the parent remove the queue and end.
fork_fails ==
  /\ parent = "fork" /\ turn <= chld_num
  /\ delete_msgq
  /\ parent' = "nofork"
  /\ UNCHANGED <<chld_num, turn, order_id, child, printed>>

\* Mutant: i does not start again at 1.
all_forked_KeepTurn ==
  /\ parent = "fork" /\ turn > chld_num
  /\ parent' = "send"
  /\ UNCHANGED <<chld_num, turn, order_id, child, alive, msgs, printed>>

all_forked ==
  /\ parent = "fork" /\ turn > chld_num
  /\ parent' = "send" /\ turn' = 1
  /\ UNCHANGED <<chld_num, order_id, child, alive, msgs, printed>>

\* Mutant: the parent does not wait for the answer.
parent_send_NoWait ==
  /\ parent = "send" /\ turn <= chld_num
  /\ \/ msgsnd(Message(turn, 0)) /\ turn' = turn + 1 /\ UNCHANGED parent
     \/ ~alive /\ parent' = "delete" /\ UNCHANGED <<msgs, turn>>
  /\ UNCHANGED <<chld_num, order_id, child, alive, printed>>

\* parent_processing(): the word to child i.
parent_send ==
  /\ parent = "send" /\ turn <= chld_num
  /\ \/ msgsnd(Message(turn, 0)) /\ parent' = "recv"
     \/ ~alive /\ parent' = "delete" /\ UNCHANGED msgs
  /\ UNCHANGED <<chld_num, turn, order_id, child, alive, printed>>

\* Mutant: msgrcv() does not sleep (IPC_NOWAIT).
parent_recv_NoWait ==
  /\ parent = "recv"
  /\ \/ \E k \in DOMAIN msgs : msgrcv(ToParent, k) /\ order_id' = msgs[k].order_id
     \/ UNCHANGED <<msgs, order_id>>
  /\ IF order_id' = turn
     THEN parent' = "send" /\ turn' = turn + 1
     ELSE parent' = "delete" /\ UNCHANGED turn
  /\ UNCHANGED <<chld_num, child, alive, printed>>

\* A failed msgrcv() leaves order_id as it was; only order_id is looked at.
parent_recv ==
  /\ parent = "recv"
  /\ \/ \E k \in DOMAIN msgs : msgrcv(ToParent, k) /\ order_id' = msgs[k].order_id
     \/ ~alive /\ UNCHANGED <<msgs, order_id>>
  /\ IF order_id' = turn
     THEN parent' = "send" /\ turn' = turn + 1
     ELSE parent' = "delete" /\ UNCHANGED turn
  /\ UNCHANGED <<chld_num, child, alive, printed>>

\* The end of parent_processing(): its result is that of delete_msgq().
parent_delete ==
  /\ \/ parent = "delete"
     \/ parent = "send" /\ turn > chld_num
  /\ delete_msgq
  /\ parent' = IF alive THEN "done" ELSE "failed"
  /\ UNCHANGED <<chld_num, turn, order_id, child, printed>>

Parent == fork_child \/ all_forked \/ parent_send \/ parent_recv \/ parent_delete

-----------------------------------------------------------------------------
\* The children: child_processing()

child_recv(c) ==
  /\ child[c] = "recv"
  /\ \/ (\E k \in DOMAIN msgs : msgrcv(c, k)) /\ child' = [child EXCEPT ![c] = "print"]
     \/ ~alive /\ child' = [child EXCEPT ![c] = "failed"] /\ UNCHANGED msgs
  /\ UNCHANGED <<chld_num, parent, turn, order_id, alive, printed>>

\* printf() and fflush(): the number is on stdout before the answer is sent.
child_print(c) ==
  /\ child[c] = "print"
  /\ printed' = Append(printed, c)
  /\ child' = [child EXCEPT ![c] = "send"]
  /\ UNCHANGED <<chld_num, parent, turn, order_id, alive, msgs>>

child_send(c) ==
  /\ child[c] = "send"
  /\ \/ msgsnd(Message(ToParent, c)) /\ child' = [child EXCEPT ![c] = "done"]
     \/ ~alive /\ child' = [child EXCEPT ![c] = "failed"] /\ UNCHANGED msgs
  /\ UNCHANGED <<chld_num, parent, turn, order_id, alive, printed>>

Child(c) == child_recv(c) \/ child_print(c) \/ child_send(c)

-----------------------------------------------------------------------------
\* Fatal signals.  Nobody is told, and the queue stays.

kill_parent ==
  /\ 0 \in Killable /\ ~Ended(parent)
  /\ parent' = "killed"
  /\ UNCHANGED <<chld_num, turn, order_id, child, alive, msgs, printed>>

kill_child(c) ==
  /\ c \in Killable /\ child[c] \in {"recv", "print", "send"}
  /\ child' = [child EXCEPT ![c] = "killed"]
  /\ UNCHANGED <<chld_num, parent, turn, order_id, alive, msgs, printed>>

Next ==
  \/ Parent \/ fork_fails \/ remove_queue \/ kill_parent
  \/ \E c \in Children : Child(c) \/ kill_child(c)

Spec == Init /\ [][Next]_vars

\* The kernel runs every process whose call can proceed; no fork() has to fail, and
\* nobody has to kill a process or to remove the queue.
FairSpec ==
  /\ Spec
  /\ WF_vars(Parent \/ fork_fails)
  /\ \A c \in Numbers : WF_vars(c \in Children /\ Child(c))

-----------------------------------------------------------------------------
\* Properties

\* Every variable has its type: only children that exist get messages and print.
TypeOK ==
  /\ chld_num \in Numbers
  /\ parent \in {"fork", "send", "recv", "delete", "done", "failed", "nofork", "killed"}
  /\ turn \in 1 .. MaxNum + 1
  /\ order_id \in 0 .. MaxNum
  /\ child \in [Numbers -> {"unborn", "recv", "print", "send", "done", "failed", "killed"}]
  /\ alive \in BOOLEAN
  /\ msgs \in Seq([mtype : 1 .. MaxNum + 1, order_id : 0 .. MaxNum])
  /\ printed \in Seq(Numbers)

\* Stdout is 1 2 3 ... at any moment, whichever calls fail and whoever is killed:
\* nobody prints past a child that was killed before it printed (child_processing).
PrintsInOrder == printed = [i \in 1 .. Len(printed) |-> i]

\* The turn is in one place: with the parent, in one message or with one child.
\* In particular the queue never holds two messages, so that msgsnd() never
\* sleeps on a full queue.
OneTurn ==
  alive => LET busy == {c \in Children : child[c] \in {"print", "send"}}
           IN /\ Len(msgs) <= 1
              /\ busy # {} => msgs = <<>> /\ parent \in {"recv", "killed"} /\ busy = {turn}

\* When the parent returns 0 from parent_processing(), all children have printed.
StatusHonest == parent = "done" => printed = [i \in Children |-> i]

\* The parent never removes the queue under a child that has still to answer: when
\* it returns 0 from parent_processing(), no child has failed and none was killed
\* before its answer was sent.
NobodyLeftBehind == parent = "done" => \A c \in Children : child[c] = "done"

\* All processes end and the queue is gone, also after a failed fork() or a removal
\* by somebody else (main, delete_msgq).  Only a kill leaves processes waiting for
\* each other, and then only as long as nobody removes the queue.
AllEnd ==
  LET killed == parent = "killed" \/ \E c \in Children : child[c] = "killed"
  IN <>[](\/ killed /\ alive
          \/ /\ Ended(parent) /\ ~alive
             /\ \A c \in Children : child[c] \in {"unborn", "done", "failed", "killed"})
=============================================================================
