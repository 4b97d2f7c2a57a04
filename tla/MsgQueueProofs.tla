---------------------------- MODULE MsgQueueProofs ----------------------------
(***************************************************************************)
(* Proofs about MsgQueuePrint, for any number of children.                 *)
(***************************************************************************)
EXTENDS MsgQueuePrint, SequenceTheorems, TLAPS

Msg == [mtype : 1 .. MaxNum + 1, order_id : 0 .. MaxNum]

Busy(c) == child[c] \in {"print", "send"}
Idle == \A c \in Numbers : ~Busy(c)

\* No word is under way: nobody has been told to print yet, child turn - 1 has
\* answered, or the turn was lost with a killed process.
WithParent == /\ parent \in {"fork", "send", "recv", "killed"} /\ msgs = <<>> /\ Idle
              /\ parent = "fork" => printed = <<>>
              /\ parent = "send" => Len(printed) = turn - 1

\* The turn of child number turn: its word, its output, its answer.
Waits == parent \in {"recv", "killed"}
WordSent == /\ Waits /\ turn <= chld_num /\ msgs = <<Message(turn, 0)>> /\ Idle
            /\ Len(printed) = turn - 1
Turn(where) == /\ Waits /\ turn <= chld_num /\ msgs = <<>>
               /\ child[turn] = where /\ \A c \in Numbers \ {turn} : ~Busy(c)
Answered == /\ Waits /\ turn <= chld_num /\ msgs = <<Message(ToParent, turn)>> /\ Idle
            /\ Len(printed) = turn

TypeInv == /\ TypeOK /\ turn <= chld_num + 1
           /\ parent = "recv" => turn <= chld_num

\* When the queue is gone the phases end, but whoever has still to print is the
\* child whose turn it is.
TurnInv ==
  /\ printed \in Seq(Numbers) /\ \A i \in 1 .. Len(printed) : printed[i] = i
  /\ \A c \in Numbers : child[c] = "print" => c = Len(printed) + 1
  /\ alive => \/ WithParent
              \/ WordSent
              \/ Turn("print") /\ Len(printed) = turn - 1
              \/ Turn("send") /\ Len(printed) = turn
              \/ Answered
  /\ parent \in {"done", "failed", "nofork"} => ~alive
  /\ parent = "done" => Len(printed) = chld_num

\* The children whose turn is over have answered: the parent goes on for no other
\* reason while the queue exists.
DoneInv ==
  /\ alive /\ Answered => child[turn] = "done"
  /\ alive /\ parent \in {"send", "recv"} => \A c \in 1 .. turn - 1 : child[c] = "done"
  /\ parent = "done" => \A c \in Children : child[c] = "done"

LEMMA TypeInit == Init => TypeInv
BY MsgAssumption DEF Init, TypeInv, TypeOK, Numbers

\* What a queue of at most one message gives.
LEMMA OneMessage ==
  ASSUME TypeInv, NEW type, NEW k, msgrcv(type, k), Len(msgs) <= 1
  PROVE  k = 1 /\ msgs' = <<>> /\ msgs = <<msgs[1]>> /\ msgs[1].mtype = type
<1>1. msgs \in Seq(Msg) /\ k \in 1 .. Len(msgs) /\ msgs[k].mtype = type
  BY DEF TypeInv, TypeOK, Msg, msgrcv
<1>2. k = 1 /\ Len(msgs) = 1
  <2>1. Len(msgs) \in 0 .. 1
    <3>1. Len(msgs) \in Nat
      BY <1>1, LenProperties
    <3>2. Len(msgs) <= 1
      OBVIOUS
    <3> QED BY <3>1, <3>2
  <2>2. k \in 1 .. 1 /\ Len(msgs) # 0
    BY <1>1, <2>1
  <2> QED BY <2>1, <2>2
<1>3. msgs = <<msgs[1]>>
  BY <1>1, <1>2
<1>4. msgs' = <<>>
  BY <1>1, <1>2 DEF msgrcv, RemoveAt
<1> QED BY <1>1, <1>2, <1>3, <1>4

\* Removing or adding a message keeps the type of the queue.
LEMMA QueueType ==
  ASSUME TypeInv
  PROVE  /\ \A type, k : msgrcv(type, k) => msgs' \in Seq(Msg) /\ msgs[k] \in Msg
         /\ \A m \in Msg : msgsnd(m) => msgs' \in Seq(Msg)
         /\ delete_msgq => msgs' \in Seq(Msg) /\ alive' = FALSE
<1>1. msgs \in Seq(Msg)
  BY DEF TypeInv, TypeOK, Msg
<1>2. ASSUME NEW type, NEW k, msgrcv(type, k)
      PROVE  msgs' \in Seq(Msg) /\ msgs[k] \in Msg
  <2>1. k \in 1 .. Len(msgs) /\ msgs' = SubSeq(msgs, 1, k - 1) \o SubSeq(msgs, k + 1, Len(msgs))
    BY <1>1, <1>2 DEF msgrcv, RemoveAt
  <2>2. SubSeq(msgs, 1, k - 1) \in Seq(Msg) /\ SubSeq(msgs, k + 1, Len(msgs)) \in Seq(Msg)
    BY <1>1, <2>1
  <2> QED BY <1>1, <2>1, <2>2
<1>3. ASSUME NEW m \in Msg, msgsnd(m)
      PROVE  msgs' \in Seq(Msg)
  BY <1>1, <1>3 DEF msgsnd
<1>4. delete_msgq => msgs' \in Seq(Msg) /\ alive' = FALSE
  BY DEF delete_msgq
<1> QED BY <1>2, <1>3, <1>4

LEMMA TypeStep == TypeInv /\ [Next]_vars => TypeInv'
<1> SUFFICES ASSUME TypeInv, [Next]_vars PROVE TypeInv'
  OBVIOUS
<1> USE MsgAssumption DEF Numbers, Children
<1>1. /\ chld_num \in 1 .. MaxNum /\ turn \in Nat /\ MaxNum \in Nat
      /\ turn <= chld_num => turn \in 1 .. MaxNum /\ Message(turn, 0) \in Msg
      /\ \A c \in Children : c \in 1 .. MaxNum /\ Message(ToParent, c) \in Msg
  BY DEF TypeInv, TypeOK, Message, Msg, ToParent
<1>3. CASE fork_child
  BY <1>1, <1>3 DEF fork_child, TypeInv, TypeOK
<1>4. CASE all_forked
  BY <1>1, <1>4 DEF all_forked, TypeInv, TypeOK
<1>5. CASE parent_send
  <2>1. msgs' \in Seq(Msg)
    BY <1>1, <1>5, QueueType DEF parent_send, TypeInv, TypeOK, Msg
  <2> QED BY <1>5, <2>1 DEF parent_send, TypeInv, TypeOK, Msg
<1>6. CASE parent_recv
  <2>1. msgs' \in Seq(Msg) /\ order_id' \in 0 .. MaxNum
    <3>1. CASE \E k \in DOMAIN msgs : msgrcv(ToParent, k) /\ order_id' = msgs[k].order_id
      BY <3>1, QueueType DEF Msg
    <3>2. CASE UNCHANGED <<msgs, order_id>>
      BY <3>2 DEF TypeInv, TypeOK, Msg
    <3> QED BY <1>6, <3>1, <3>2 DEF parent_recv
  <2>2. turn \in 1 .. chld_num
    BY <1>6 DEF parent_recv, TypeInv, TypeOK
  <2> QED BY <1>1, <1>6, <2>1, <2>2 DEF parent_recv, TypeInv, TypeOK, Msg
<1>7. CASE parent_delete \/ fork_fails \/ remove_queue
  <2>1. msgs' \in Seq(Msg) /\ alive' = FALSE
    BY <1>7, QueueType DEF parent_delete, fork_fails, remove_queue
  <2> QED BY <1>7, <2>1 DEF parent_delete, fork_fails, remove_queue, TypeInv, TypeOK, Msg
<1>8. ASSUME NEW c \in Children, Child(c) PROVE TypeInv'
  <2>1. CASE child_recv(c)
    <3>1. msgs' \in Seq(Msg)
      BY <2>1, QueueType DEF child_recv, TypeInv, TypeOK, Msg
    <3> QED BY <1>1, <2>1, <3>1 DEF child_recv, TypeInv, TypeOK, Msg
  <2>2. CASE child_print(c)
    BY <1>1, <2>2 DEF child_print, TypeInv, TypeOK
  <2>3. CASE child_send(c)
    <3>1. msgs' \in Seq(Msg)
      BY <1>1, <2>3, QueueType DEF child_send, TypeInv, TypeOK, Msg
    <3> QED BY <1>1, <2>3, <3>1 DEF child_send, TypeInv, TypeOK, Msg
  <2> QED BY <1>8, <2>1, <2>2, <2>3 DEF Child
<1>9. CASE kill_parent
  BY <1>9 DEF kill_parent, TypeInv, TypeOK
<1>10. ASSUME NEW c \in Children, kill_child(c) PROVE TypeInv'
  BY <1>1, <1>10 DEF kill_child, TypeInv, TypeOK
<1>11. CASE UNCHANGED vars
  BY <1>11 DEF vars, TypeInv, TypeOK
<1> QED BY <1>3, <1>4, <1>5, <1>6, <1>7, <1>8, <1>9, <1>10, <1>11 DEF Next, Parent

\* The phases of a turn when the queue exists.
Phase == \/ WithParent
         \/ WordSent
         \/ Turn("print") /\ Len(printed) = turn - 1
         \/ Turn("send") /\ Len(printed) = turn
         \/ Answered

\* Calls that leave stdout and the printing child alone.
Unprinted == UNCHANGED printed /\ \A c \in Numbers : child'[c] = "print" => child[c] = "print"

LEMMA PrintedKept ==
  ASSUME TurnInv, Unprinted
  PROVE  /\ printed' \in Seq(Numbers)
         /\ \A i \in 1 .. Len(printed') : printed'[i] = i
         /\ \A c \in Numbers : child'[c] = "print" => c = Len(printed') + 1
BY DEF TurnInv, Unprinted

\* Without the queue only the printing child has something left to do.
LEMMA QueueGone ==
  ASSUME TurnInv, Unprinted, ~alive', parent' = "done" => Len(printed') = chld_num'
  PROVE  TurnInv'
BY PrintedKept DEF TurnInv

\* What the parent receives while the queue exists is the answer of child turn.
LEMMA RecvAnswered ==
  ASSUME TypeInv, TurnInv, alive, parent_recv
  PROVE  Answered /\ msgs' = <<>> /\ parent' = "send" /\ turn' = turn + 1
<1>1. PICK k \in DOMAIN msgs : msgrcv(ToParent, k) /\ order_id' = msgs[k].order_id
  BY DEF parent_recv
<1>2. WordSent \/ Answered
  BY <1>1 DEF TurnInv, parent_recv, WithParent, Turn
<1>3. Len(msgs) <= 1
  <2>1. msgs = <<Message(turn, 0)>> \/ msgs = <<Message(ToParent, turn)>>
    BY <1>2 DEF WordSent, Answered
  <2>2. Len(msgs) = 1
    BY <2>1
  <2> QED BY <2>2
<1>4. k = 1 /\ msgs' = <<>> /\ msgs[1].mtype = ToParent
  BY <1>1, <1>3, OneMessage
<1>5. Answered
  BY <1>2, <1>4 DEF WordSent, ToParent, Message, TypeInv, TypeOK, Numbers
<1>6. order_id' = turn
  BY <1>1, <1>4, <1>5 DEF Answered, Message
<1> QED BY <1>4, <1>5, <1>6 DEF parent_recv

LEMMA ParentStep ==
  ASSUME TypeInv, TurnInv, Parent \/ fork_fails \/ remove_queue
  PROVE  TurnInv'
<1> USE DEF Numbers, Waits
<1>1. /\ child \in [Numbers -> {"unborn", "recv", "print", "send", "done", "failed", "killed"}]
      /\ turn \in 1 .. MaxNum + 1 /\ chld_num \in Numbers /\ msgs \in Seq(Msg)
      /\ printed \in Seq(Numbers) /\ Len(printed) \in Nat
  BY LenProperties DEF TypeInv, TypeOK, Msg
<1>2. alive => Phase
  BY DEF TurnInv, Phase
<1>3. CASE fork_child
  <2>1. Unprinted
    BY <1>1, <1>3 DEF fork_child, Unprinted
  <2>2. alive => WithParent'
    BY <1>1, <1>2, <1>3 DEF fork_child, Phase, WithParent, WordSent, Turn, Answered, Idle, Busy
  <2> QED BY <1>3, <2>1, <2>2, PrintedKept DEF fork_child, TurnInv
<1>4. CASE all_forked
  <2>1. Unprinted
    BY <1>4 DEF all_forked, Unprinted
  <2>2. alive => WithParent'
    <3>1. alive => WithParent /\ Len(printed) = 0
      BY <1>2, <1>4 DEF all_forked, Phase, WithParent, WordSent, Turn, Answered
    <3> QED BY <1>4, <3>1 DEF all_forked, WithParent, Idle, Busy
  <2> QED BY <1>4, <2>1, <2>2, PrintedKept DEF all_forked, TurnInv
<1>5. CASE parent_send
  <2>1. Unprinted
    BY <1>5 DEF parent_send, Unprinted
  <2>2. CASE ~alive
    <3>1. ~alive' /\ parent' # "done"
      BY <1>5, <2>2 DEF parent_send, msgsnd
    <3> QED BY <2>1, <3>1, QueueGone
  <2>3. CASE alive
    <3>1. WithParent /\ Len(printed) = turn - 1
      BY <1>2, <1>5, <2>3 DEF parent_send, Phase, WithParent, WordSent, Turn, Answered
    <3>2. msgs' = <<Message(turn, 0)>> /\ parent' = "recv"
      BY <1>5, <2>3, <3>1 DEF parent_send, msgsnd, WithParent
    <3>3. WordSent'
      BY <1>5, <3>1, <3>2 DEF parent_send, WithParent, WordSent, Idle, Busy, Message
    <3> QED BY <1>5, <2>1, <2>3, <3>2, <3>3, PrintedKept DEF TurnInv, parent_send
  <2> QED BY <2>2, <2>3
<1>6. CASE parent_recv
  <2>1. Unprinted
    BY <1>6 DEF parent_recv, Unprinted
  <2>2. CASE ~alive
    <3>1. ~alive' /\ parent' # "done"
      BY <1>6, <2>2 DEF parent_recv
    <3> QED BY <2>1, <3>1, QueueGone
  <2>3. CASE alive
    <3>1. Answered /\ msgs' = <<>> /\ parent' = "send" /\ turn' = turn + 1
      BY <1>6, <2>3, RecvAnswered
    <3>2. WithParent'
      BY <1>1, <1>6, <3>1 DEF parent_recv, WithParent, Answered, Idle, Busy
    <3> QED BY <1>6, <2>1, <2>3, <3>1, <3>2, PrintedKept DEF TurnInv, parent_recv
  <2> QED BY <2>2, <2>3
<1>7. CASE parent_delete
  <2>1. Unprinted /\ ~alive'
    BY <1>7 DEF parent_delete, delete_msgq, Unprinted
  <2>2. parent' = "done" => Len(printed') = chld_num'
    <3> SUFFICES ASSUME alive PROVE Len(printed') = chld_num'
      BY <1>7 DEF parent_delete
    <3>1. WithParent /\ parent = "send" /\ turn > chld_num
      BY <1>2, <1>7 DEF parent_delete, Phase, WithParent, WordSent, Turn, Answered
    <3>2. turn = chld_num + 1
      BY <1>1, <3>1 DEF TypeInv
    <3> QED BY <1>1, <1>7, <3>1, <3>2 DEF parent_delete, WithParent
  <2> QED BY <2>1, <2>2, QueueGone
<1>8. CASE fork_fails
  <2>1. Unprinted /\ ~alive' /\ parent' # "done"
    BY <1>8 DEF fork_fails, delete_msgq, Unprinted
  <2> QED BY <2>1, QueueGone
<1>9. CASE remove_queue
  <2>1. Unprinted /\ ~alive' /\ parent' # "done"
    BY <1>9 DEF remove_queue, delete_msgq, Unprinted, TurnInv
  <2> QED BY <2>1, QueueGone
<1> QED BY <1>3, <1>4, <1>5, <1>6, <1>7, <1>8, <1>9 DEF Parent

LEMMA ChildStep ==
  ASSUME TypeInv, TurnInv, NEW c \in Children, Child(c)
  PROVE  TurnInv'
<1> USE DEF Numbers, Children, Waits
<1>1. /\ child \in [Numbers -> {"unborn", "recv", "print", "send", "done", "failed", "killed"}]
      /\ turn \in 1 .. MaxNum + 1 /\ chld_num \in Numbers /\ msgs \in Seq(Msg)
      /\ printed \in Seq(Numbers) /\ Len(printed) \in Nat
      /\ MaxNum \in Nat /\ c \in Numbers
  BY LenProperties, MsgAssumption DEF TypeInv, TypeOK, Msg
<1>2. alive => Phase
  BY DEF TurnInv, Phase
<1>3. CASE child_recv(c)
  <2>1. CASE ~alive
    <3>1. Unprinted /\ ~alive' /\ (parent' = "done" => Len(printed') = chld_num')
      BY <1>1, <1>3, <2>1 DEF child_recv, msgrcv, Unprinted, TurnInv
    <3> QED BY <3>1, QueueGone
  <2>2. CASE alive
    <3>1. PICK k \in DOMAIN msgs : msgrcv(c, k)
      BY <1>3, <2>2 DEF child_recv
    <3>2. child' = [child EXCEPT ![c] = "print"]
      BY <1>3, <2>2 DEF child_recv
    <3>3. WordSent \/ Answered
      BY <1>2, <2>2, <3>1 DEF Phase, WithParent, Turn
    <3>4. k = 1 /\ msgs' = <<>> /\ msgs[1].mtype = c
      <4>1. msgs = <<Message(turn, 0)>> \/ msgs = <<Message(ToParent, turn)>>
        BY <3>3 DEF WordSent, Answered
      <4>2. Len(msgs) = 1
        BY <4>1
      <4>3. Len(msgs) <= 1
        BY <4>2
      <4> QED BY <3>1, <4>3, OneMessage
    <3>5. WordSent /\ c = turn
      BY <1>1, <3>3, <3>4 DEF WordSent, Answered, ToParent, Message
    <3>6. (Turn("print") /\ Len(printed) = turn - 1)'
      BY <1>1, <1>3, <3>2, <3>4, <3>5 DEF child_recv, Turn, WordSent, Idle, Busy
    <3>7. \A d \in Numbers : child'[d] = "print" => d = Len(printed') + 1
      BY <1>1, <1>3, <3>2, <3>5 DEF child_recv, WordSent, Idle, Busy
    <3> QED BY <1>3, <2>2, <3>6, <3>7 DEF TurnInv, child_recv
  <2> QED BY <2>1, <2>2
<1>4. CASE child_print(c)
  <2>1. c = Len(printed) + 1
    BY <1>1, <1>4 DEF TurnInv, child_print
  <2>2. /\ printed' \in Seq(Numbers) /\ Len(printed') = c
        /\ \A i \in 1 .. Len(printed') : printed'[i] = i
    BY <1>1, <1>4, <2>1, AppendProperties DEF TurnInv, child_print
  <2>3. \A d \in Numbers : child'[d] # "print"
    BY <1>1, <1>4, <2>1 DEF TurnInv, child_print
  <2>4. alive => Turn("print") /\ c = turn
    BY <1>1, <1>2, <1>4 DEF Phase, WithParent, WordSent, Answered, Turn, Idle, Busy, child_print
  <2>5. alive' => (Turn("send") /\ Len(printed) = turn)'
    BY <1>1, <1>4, <2>2, <2>4 DEF child_print, Turn, Busy
  <2>6. parent = "done" => FALSE
    BY <1>1, <2>1 DEF TurnInv
  <2> QED BY <1>4, <2>2, <2>3, <2>5, <2>6 DEF TurnInv, child_print
<1>5. CASE child_send(c)
  <2>1. Unprinted
    BY <1>1, <1>5 DEF child_send, Unprinted
  <2>2. CASE ~alive
    <3>1. ~alive' /\ (parent' = "done" => Len(printed') = chld_num')
      BY <1>5, <2>2 DEF child_send, msgsnd, TurnInv
    <3> QED BY <2>1, <3>1, QueueGone
  <2>3. CASE alive
    <3>1. Turn("send") /\ Len(printed) = turn /\ c = turn
      BY <1>1, <1>2, <1>5, <2>3 DEF Phase, WithParent, WordSent, Answered, Turn, Idle, Busy, child_send
    <3>2. msgs' = <<Message(ToParent, turn)>> /\ child' = [child EXCEPT ![c] = "done"]
      BY <1>5, <2>3, <3>1 DEF child_send, msgsnd, Turn
    <3>3. Answered'
      BY <1>1, <1>5, <3>1, <3>2 DEF child_send, Turn, Answered, Idle, Busy, ToParent, Message
    <3> QED BY <1>5, <2>1, <2>3, <3>3, PrintedKept DEF TurnInv, child_send
  <2> QED BY <2>2, <2>3
<1> QED BY <1>3, <1>4, <1>5 DEF Child

LEMMA KillStep ==
  ASSUME TypeInv, TurnInv, kill_parent \/ \E c \in Children : kill_child(c)
  PROVE  TurnInv'
<1> USE DEF Numbers, Children, Waits
<1>1. /\ child \in [Numbers -> {"unborn", "recv", "print", "send", "done", "failed", "killed"}]
      /\ turn \in 1 .. MaxNum + 1 /\ chld_num \in Numbers /\ MaxNum \in Nat
  BY MsgAssumption DEF TypeInv, TypeOK
<1>2. alive => Phase
  BY DEF TurnInv, Phase
<1>3. CASE kill_parent
  <2>1. Unprinted
    BY <1>3 DEF kill_parent, Unprinted
  <2>2. alive => Phase'
    BY <1>2, <1>3 DEF kill_parent, Phase, WithParent, WordSent, Turn, Answered, Waits, Idle, Busy,
                      Ended, ToParent
  <2> QED BY <1>3, <2>1, <2>2, PrintedKept DEF kill_parent, TurnInv, Phase
<1>4. CASE \E c \in Children : kill_child(c)
  <2>1. PICK c \in Children : kill_child(c)
    BY <1>4
  <2>2. Unprinted
    BY <1>1, <2>1 DEF kill_child, Unprinted
  <2>3. \A d \in Numbers : Busy(d)' => Busy(d) /\ d # c
    BY <1>1, <2>1 DEF kill_child, Busy
  <2>4. alive => Phase'
    <3>1. CASE alive /\ Busy(c)
      <4>1. Waits /\ msgs = <<>> /\ \A d \in Numbers \ {c} : ~Busy(d)
        BY <1>1, <1>2, <3>1 DEF Phase, WithParent, WordSent, Turn, Answered, Idle
      <4>2. WithParent'
        BY <2>1, <2>3, <4>1 DEF kill_child, WithParent, Waits, Idle
      <4> QED BY <4>2 DEF Phase
    <3>2. CASE alive /\ ~Busy(c)
      BY <1>1, <1>2, <2>1, <2>3, <3>2
         DEF kill_child, Phase, WithParent, WordSent, Turn, Answered, Waits, Idle, Busy, ToParent
    <3> QED BY <3>1, <3>2
  <2> QED BY <2>1, <2>2, <2>4, PrintedKept DEF kill_child, TurnInv, Phase
<1> QED BY <1>3, <1>4

LEMMA TurnInvariant == Spec => [](TypeInv /\ TurnInv)
<1>1. Init => TurnInv
  BY MsgAssumption DEF Init, TurnInv, WithParent, Idle, Busy, Numbers
<1>2. TypeInv /\ TurnInv /\ [Next]_vars => TurnInv'
  <2> SUFFICES ASSUME TypeInv, TurnInv, [Next]_vars PROVE TurnInv'
    OBVIOUS
  <2>1. CASE UNCHANGED vars
    BY <2>1 DEF vars, TurnInv, WithParent, WordSent, Turn, Answered, Waits, Idle, Busy, ToParent
  <2> QED BY <2>1, ParentStep, ChildStep, KillStep DEF Next
<1> QED BY <1>1, <1>2, TypeInit, TypeStep, PTL DEF Spec

\* The parent's steps and the children whose turn is over.
LEMMA ParentDone ==
  ASSUME TypeInv, TurnInv, DoneInv, Parent \/ fork_fails \/ remove_queue
  PROVE  DoneInv'
<1> USE DEF Numbers, Children, Waits
<1>1. /\ child \in [Numbers -> {"unborn", "recv", "print", "send", "done", "failed", "killed"}]
      /\ turn \in 1 .. MaxNum + 1 /\ chld_num \in Numbers /\ MaxNum \in Nat
      /\ turn <= chld_num + 1
  BY MsgAssumption DEF TypeInv, TypeOK
<1>2. alive => Phase
  BY DEF TurnInv, Phase
<1>3. CASE fork_child
  BY <1>3 DEF fork_child, DoneInv, Answered
<1>4. CASE all_forked
  BY <1>4 DEF all_forked, DoneInv, Answered
<1>5. CASE parent_send
  <2>1. CASE alive
    <3>1. msgs' = <<Message(turn, 0)>> /\ parent' = "recv"
      BY <1>2, <1>5, <2>1
         DEF parent_send, msgsnd, Phase, WithParent, WordSent, Turn, Answered
    <3>2. ~Answered'
      <4>1. Message(turn, 0) # Message(ToParent, turn)
        BY <1>1, <1>5 DEF Message, ToParent, parent_send
      <4> QED BY <1>5, <3>1, <4>1 DEF Answered, parent_send, ToParent, Message
    <3> QED BY <1>5, <2>1, <3>1, <3>2 DEF parent_send, DoneInv
  <2>2. CASE ~alive
    BY <1>5, <2>2 DEF parent_send, msgsnd, DoneInv
  <2> QED BY <2>1, <2>2
<1>6. CASE parent_recv
  <2>1. CASE alive
    <3>1. Answered /\ parent' = "send" /\ turn' = turn + 1
      BY <1>6, <2>1, RecvAnswered
    <3>2. \A c \in 1 .. turn : child[c] = "done"
      BY <1>1, <1>6, <2>1, <3>1 DEF DoneInv, parent_recv
    <3> QED BY <1>1, <1>6, <3>1, <3>2 DEF parent_recv, DoneInv, Answered
  <2>2. CASE ~alive
    BY <1>6, <2>2 DEF parent_recv, DoneInv
  <2> QED BY <2>1, <2>2
<1>7. CASE parent_delete
  <2>1. ~alive' /\ child' = child /\ chld_num' = chld_num
    BY <1>7 DEF parent_delete, delete_msgq
  <2>2. parent' = "done" => \A c \in Children : child[c] = "done"
    <3> SUFFICES ASSUME alive PROVE \A c \in Children : child[c] = "done"
      BY <1>7 DEF parent_delete
    <3>1. parent = "send" /\ turn > chld_num
      BY <1>2, <1>7 DEF parent_delete, Phase, WithParent, WordSent, Turn, Answered
    <3> QED BY <1>1, <3>1 DEF DoneInv
  <2> QED BY <2>1, <2>2 DEF DoneInv
<1>8. CASE fork_fails \/ remove_queue
  BY <1>8 DEF fork_fails, remove_queue, delete_msgq, DoneInv
<1> QED BY <1>3, <1>4, <1>5, <1>6, <1>7, <1>8 DEF Parent

\* The children's steps and kills.
LEMMA ChildDone ==
  ASSUME TypeInv, TurnInv, DoneInv,
         \/ \E c \in Children : Child(c) \/ kill_child(c)
         \/ kill_parent
  PROVE  DoneInv'
<1> USE DEF Numbers, Children, Waits
<1>1. /\ child \in [Numbers -> {"unborn", "recv", "print", "send", "done", "failed", "killed"}]
      /\ turn \in 1 .. MaxNum + 1 /\ chld_num \in Numbers /\ MaxNum \in Nat
  BY MsgAssumption DEF TypeInv, TypeOK
<1>2. alive => Phase
  BY DEF TurnInv, Phase
<1>3. ASSUME NEW c \in Children, child_recv(c) \/ child_print(c)
      PROVE  DoneInv'
  <2>1. /\ UNCHANGED <<chld_num, parent, turn, alive>>
        /\ \A d \in Numbers : child[d] = "done" => child'[d] = "done"
    BY <1>1, <1>3 DEF child_recv, child_print
  <2>2. ~(alive /\ Answered)'
    BY <1>1, <1>3, <2>1 DEF child_recv, child_print, Answered, Idle, Busy, msgrcv
  <2> QED BY <1>1, <2>1, <2>2 DEF DoneInv
<1>4. ASSUME NEW c \in Children, child_send(c)
      PROVE  DoneInv'
  <2>1. /\ UNCHANGED <<chld_num, parent, turn, alive>>
        /\ \A d \in Numbers : child[d] = "done" => child'[d] = "done"
    BY <1>1, <1>4 DEF child_send
  <2>2. (alive /\ Answered)' => child'[turn] = "done"
    <3> SUFFICES ASSUME alive PROVE child'[turn] = "done"
      BY <2>1
    <3>1. c = turn
      BY <1>1, <1>2, <1>4 DEF child_send, Phase, WithParent, WordSent, Answered, Turn, Idle, Busy
    <3> QED BY <1>1, <1>4, <3>1 DEF child_send
  <2> QED BY <1>1, <2>1, <2>2 DEF DoneInv
<1>5. ASSUME NEW c \in Children, kill_child(c)
      PROVE  DoneInv'
  <2>1. /\ UNCHANGED <<chld_num, parent, turn, alive, msgs, printed>>
        /\ \A d \in Numbers : child[d] = "done" => child'[d] = "done"
        /\ \A d \in Numbers : Busy(d) => Busy(d)' \/ d = c
    BY <1>1, <1>5 DEF kill_child, Busy
  <2>2. (alive /\ Answered)' => Answered
    <3> SUFFICES ASSUME alive, Answered' PROVE Answered
      BY <2>1
    <3>1. msgs' # <<>>
      BY DEF Answered, ToParent
    <3>2. Idle
      BY <1>2, <2>1, <3>1 DEF Phase, WithParent, WordSent, Turn, Answered
    <3> QED BY <2>1, <3>2 DEF Answered, ToParent
  <2>3. Answered => turn \in Numbers
    BY <1>1 DEF Answered
  <2>4. (alive /\ Answered)' => child'[turn'] = "done"
    BY <2>1, <2>2, <2>3 DEF DoneInv
  <2> QED BY <1>1, <2>1, <2>4 DEF DoneInv
<1>6. CASE kill_parent
  <2>1. (alive /\ Answered)' => Answered
    BY <1>2, <1>6 DEF kill_parent, Phase, WithParent, WordSent, Turn, Answered, Idle, Busy, ToParent
  <2> QED BY <1>6, <2>1 DEF kill_parent, DoneInv
<1> QED BY <1>3, <1>4, <1>5, <1>6 DEF Child

LEMMA DoneInvariant == Spec => []DoneInv
<1>1. Init => DoneInv
  BY DEF Init, DoneInv, Answered, Waits
<1>2. TypeInv /\ TurnInv /\ DoneInv /\ [Next]_vars => DoneInv'
  <2> SUFFICES ASSUME TypeInv, TurnInv, DoneInv, [Next]_vars PROVE DoneInv'
    OBVIOUS
  <2>1. CASE UNCHANGED vars
    BY <2>1 DEF vars, DoneInv, Answered, Waits, Idle, Busy, ToParent, Children
  <2> QED BY <2>1, ParentDone, ChildDone DEF Next
<1> QED BY <1>1, <1>2, TurnInvariant, PTL DEF Spec

\* Every variable keeps its type.
THEOREM TypeCorrect == Spec => []TypeOK
<1>1. TypeInv => TypeOK
  BY DEF TypeInv
<1> QED BY <1>1, TurnInvariant, PTL

\* For any number of children, and whichever calls fail, stdout is 1 2 3 ...
THEOREM PrintsInOrderCorrect == Spec => []PrintsInOrder
<1>1. TurnInv => PrintsInOrder
  BY DEF TurnInv, PrintsInOrder
<1> QED BY <1>1, TurnInvariant, PTL

\* The queue never holds two messages and at most one child has the turn.
THEOREM OneTurnCorrect == Spec => []OneTurn
<1>1. TypeInv /\ TurnInv => OneTurn
  <2> SUFFICES ASSUME TypeInv, TurnInv, alive
               PROVE  OneTurn
    BY DEF OneTurn
  <2>1. Phase
    BY DEF TurnInv, Phase
  <2>2. Children \subseteq Numbers /\ (turn <= chld_num => turn \in Children)
    BY MsgAssumption DEF TypeInv, TypeOK, Children, Numbers
  <2>3. CASE WithParent \/ WordSent \/ Answered
    <3>1. {c \in Children : child[c] \in {"print", "send"}} = {}
      BY <2>2, <2>3 DEF WithParent, WordSent, Answered, Idle, Busy
    <3>2. msgs = <<>> \/ msgs = <<Message(turn, 0)>> \/ msgs = <<Message(ToParent, turn)>>
      BY <2>3 DEF WithParent, WordSent, Answered
    <3>3. Len(msgs) <= 1
      BY <3>2
    <3> QED BY <3>1, <3>3 DEF OneTurn
  <2>4. CASE Turn("print") \/ Turn("send")
    BY <2>2, <2>4 DEF OneTurn, Turn, Waits, Busy
  <2> QED BY <2>1, <2>3, <2>4 DEF Phase
<1> QED BY <1>1, TurnInvariant, PTL

\* When parent_processing() reports success, every child has sent its answer:
\* the queue is removed under nobody.
THEOREM NobodyLeftBehindCorrect == Spec => []NobodyLeftBehind
<1>1. DoneInv => NobodyLeftBehind
  BY DEF DoneInv, NobodyLeftBehind
<1> QED BY <1>1, DoneInvariant, PTL

\* When the parent reports success and no fork() failed, all have printed.
THEOREM StatusHonestCorrect == Spec => []StatusHonest
<1>1. TypeInv /\ TurnInv => StatusHonest
  BY DEF TurnInv, StatusHonest, Children
<1> QED BY <1>1, TurnInvariant, PTL
=============================================================================
