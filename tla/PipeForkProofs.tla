---------------------------- MODULE PipeForkProofs ---------------------------
(***************************************************************************)
(* PipeFork implements FileTransfer as long as the child reads all of the  *)
(* file, and prints the length of the file in any case: for every length,  *)
(* every capacity of the pipe and whoever is killed.                       *)
(***************************************************************************)
EXTENDS PipeFork, SequenceTheorems, TLAPS

Early == {"unborn", "close", "ftell", "fread"}
Labels == {"fork", "close", "read", "unborn", "ftell", "fread", "write", "dead"}

Types ==
  /\ pc \in [Procs -> Labels]
  /\ status \in [Procs -> {"running", "ok", "error", "signal"}]
  /\ readers \subseteq Procs /\ writers \subseteq Procs
  /\ len \in 0 .. MaxLen /\ read_num \in 0 .. len /\ write_num \in 0 .. len
  /\ buf \in Seq(0 .. len) /\ data \in Seq(0 .. len) /\ out \in Seq(0 .. len)
  /\ Len(data) <= Capacity

\* What each label says of the two processes and the ends they have open.
Ends ==
  /\ pc["parent"] \in {"fork", "close", "read", "dead"} /\ pc["child"] \notin {"fork", "read"}
  /\ \A p \in Procs : status[p] = "running" <=> pc[p] # "dead"
  /\ pc["child"] = "unborn" => pc["parent"] \in {"fork", "dead"}
  /\ pc["parent"] = "fork" => pc["child"] = "unborn"
  /\ pc["child"] \in {"close", "ftell", "fread", "write"} => "child" \in writers
  /\ pc["child"] \in {"ftell", "fread", "write"} => "child" \notin readers
  /\ pc["parent"] = "dead" => "parent" \notin readers

\* What was sent is what was printed, followed by what is in the pipe; all of it is
\* the beginning of the buffer.
Carried ==
  /\ pc["child"] \in Early => write_num = 0 /\ read_num = 0 /\ buf = <<>>
  /\ pc["child"] = "unborn" => len = 0
  /\ pc["child"] = "write" => Len(buf) = len
  /\ read_num <= Len(buf) /\ write_num <= Len(buf)
  /\ \A i \in 1 .. Len(buf) : buf[i] = IF i <= read_num THEN i ELSE unset
  /\ Len(out) + Len(data) = write_num
  /\ \A i \in 1 .. Len(out) : out[i] = buf[i]
  /\ \A i \in 1 .. Len(data) : data[i] = buf[Len(out) + i]

\* What a process that has returned 0 has done.
Finished ==
  /\ status["child"] = "ok" => write_num = len
  /\ status["parent"] = "ok" => pc["child"] = "dead" /\ data = <<>>

PInv == Types /\ Ends /\ Carried /\ Finished

\* What follows from the types alone.
LEMMA Facts ==
  ASSUME Types
  PROVE  /\ MaxLen \in Nat /\ Capacity \in Nat \ {0} /\ len \in Nat /\ read_num \in Nat
         /\ write_num \in Nat
         /\ Len(data) \in Nat /\ Len(out) \in Nat /\ Len(buf) \in Nat
         /\ Procs = {"parent", "child"}
BY PipeAssumption, LenProperties DEF Types, Procs

LEMMA InitInv == Init => PInv
BY PipeAssumption DEF Init, PInv, Types, Ends, Carried, Finished, Procs, Labels, Early

\* Who returns 0 has nothing left to do.
MayEnd(p, how) ==
  how = "ok" => \/ p = "child" /\ write_num = len
                \/ p = "parent" /\ data = <<>> /\ pc["child"] = "dead"

\* The end of a process.
LEMMA EndStep ==
  ASSUME PInv, NEW p \in Procs, NEW how \in {"ok", "error", "signal"}, end(p, how),
         pc[p] \notin {"unborn", "dead"}, MayEnd(p, how)
  PROVE  PInv'
<1>1. Procs = {"parent", "child"}
  BY DEF Procs
<1>2. Types'
  BY DEF PInv, Types, end, Labels
<1>3. Ends'
  BY <1>1 DEF PInv, Types, Ends, end
<1>4. Carried'
  BY <1>1 DEF PInv, Types, Carried, Ends, end, Early
<1>5. Finished'
  BY <1>1 DEF PInv, Types, Ends, Finished, end, MayEnd
<1> QED BY <1>2, <1>3, <1>4, <1>5 DEF PInv

LEMMA ChildInv ==
  ASSUME PInv, Child
  PROVE  PInv'
<1>1. Types
  BY DEF PInv
<1>2. Procs = {"parent", "child"} /\ "child" \in Procs
  BY DEF Procs
<1>3. CASE child_close
  BY <1>2, <1>3 DEF child_close, At, Goto, PInv, Types, Ends, Carried, Finished, Labels, Early
<1>4. CASE ftell
  <2>1. CASE end("child", "error")
    BY <1>2, <1>4, <2>1, EndStep DEF ftell, At, MayEnd
  <2>2. CASE len' \in 0 .. MaxLen /\ Goto("child", "fread")
              /\ UNCHANGED <<readers, writers, read_num, buf, write_num, data, out>>
    <3>1. buf = <<>> /\ write_num = 0 /\ Len(out) = 0 /\ Len(data) = 0
      BY <1>1, <1>4, Facts DEF PInv, Carried, ftell, At, Early
    <3>2. out = <<>> /\ data = <<>>
      BY <1>1, <3>1, EmptySeq DEF Types
    <3> QED BY <1>1, <1>2, <1>4, <2>2, <3>1, <3>2, Facts
            DEF ftell, At, Goto, PInv, Types, Ends, Carried, Finished, Labels, Early
  <2> QED BY <1>4, <2>1, <2>2 DEF ftell
<1>5. CASE fread
  <2>1. read_num' \in 0 .. len /\ buf' = read_buf(read_num')
    BY <1>1, <1>5, Facts DEF fread
  <2>2. /\ buf' \in Seq(0 .. len) /\ Len(buf') = len
        /\ \A i \in 1 .. Len(buf') : buf'[i] = IF i <= read_num' THEN i ELSE unset
    BY <1>1, <2>1, Facts DEF read_buf, unset
  <2>3. write_num = 0 /\ Len(out) = 0 /\ Len(data) = 0
    BY <1>1, <1>5, Facts DEF PInv, Carried, fread, At, Early
  <2>4. UNCHANGED <<readers, writers, len, write_num, data, out, status>>
    BY <1>5 DEF fread, Goto
  <2>5. pc' = [pc EXCEPT !["child"] = "write"] /\ pc["child"] = "fread"
    BY <1>5 DEF fread, At, Goto
  <2>6. Types'
    BY <1>1, <1>2, <2>1, <2>2, <2>4, <2>5 DEF Types, Labels
  <2>7. Ends'
    BY <1>1, <1>2, <2>4, <2>5 DEF PInv, Types, Ends
  <2>8. Carried'
    BY <1>1, <1>2, <2>1, <2>2, <2>3, <2>4, <2>5, Facts DEF Types, Carried, Early
  <2>9. Finished'
    BY <1>1, <1>2, <2>4, <2>5 DEF PInv, Types, Ends, Finished
  <2> QED BY <2>6, <2>7, <2>8, <2>9 DEF PInv
<1>6. CASE write
  <2>1. CASE end("child", "signal")
    BY <1>2, <1>6, <2>1, EndStep DEF write, At, MayEnd
  <2>3. CASE write_num = len /\ end("child", "ok")
    BY <1>2, <1>6, <2>3, EndStep DEF write, At, MayEnd
  <2>2. CASE /\ write_num < len /\ readers # {} /\ Len(data) < Capacity
             /\ write_num' = write_num + 1
             /\ data' = Append(data, buf[write_num + 1])
             /\ UNCHANGED <<pc, status, readers, writers, len, read_num, buf, out>>
    <3>1. Len(buf) = len /\ Len(out) + Len(data) = write_num
      BY <1>6 DEF write, At, PInv, Carried
    <3>2. buf[write_num + 1] \in 0 .. len
      BY <1>1, <2>2, <3>1, Facts DEF Types
    <3>3. data' \in Seq(0 .. len) /\ Len(data') = Len(data) + 1
      BY <1>1, <2>2, <3>2, AppendProperties DEF Types
    <3>4. Types'
      BY <1>1, <2>2, <3>3, Facts DEF Types
    <3>5. \A i \in 1 .. Len(data') : data'[i] = buf[Len(out) + i]
      <4> SUFFICES ASSUME NEW i \in 1 .. Len(data') PROVE data'[i] = buf[Len(out) + i]
        OBVIOUS
      <4>1. CASE i = Len(data) + 1
        <5>1. data'[i] = buf[write_num + 1]
          BY <1>1, <2>2, <3>2, <4>1, AppendProperties DEF Types
        <5> QED BY <1>1, <3>1, <4>1, <5>1, Facts
      <4>2. CASE i \in 1 .. Len(data)
        <5>1. data'[i] = data[i]
          BY <1>1, <2>2, <3>2, <4>2, AppendProperties DEF Types
        <5> QED BY <4>2, <5>1 DEF PInv, Carried
      <4> QED BY <1>1, <3>3, <4>1, <4>2, Facts
    <3>6. pc["child"] = "write" /\ UNCHANGED <<pc, len, read_num, buf, out>>
      BY <1>6, <2>2 DEF write, At
    <3>7. Len(out') + Len(data') = write_num' /\ write_num' <= Len(buf')
      BY <1>1, <2>2, <3>1, <3>3, <3>6, Facts
    <3>8. \A i \in 1 .. Len(data') : data'[i] = buf'[Len(out') + i]
      BY <3>5, <3>6
    <3>9. Carried'
      BY <3>6, <3>7, <3>8 DEF PInv, Carried, Early
    <3>10. Ends'
      BY <2>2 DEF PInv, Ends
    <3>11. Finished'
      BY <1>2, <2>2, <3>6 DEF PInv, Ends, Finished
    <3> QED BY <3>4, <3>9, <3>10, <3>11 DEF PInv
  <2> QED BY <1>6, <2>1, <2>2, <2>3 DEF write
<1> QED BY <1>3, <1>4, <1>5, <1>6 DEF Child

\* The parent's step that takes a piece from the pipe.
Takes ==
  /\ data # <<>>
  /\ out' = Append(out, Head(data)) /\ data' = Tail(data)
  /\ UNCHANGED <<pc, status, readers, writers, len, read_num, buf, write_num>>

LEMMA TakesFacts ==
  ASSUME PInv, Takes
  PROVE  /\ Len(out) < write_num /\ Head(data) = buf[Len(out) + 1]
         /\ PInv'
<1>1. Types /\ Len(out) + Len(data) = write_num
  BY DEF PInv, Carried
<1>2. Len(data) \in Nat \ {0} /\ Head(data) = data[1] /\ data[1] \in 0 .. len
  BY <1>1, EmptySeq, Facts DEF Takes, Types
<1>3. Len(out) < write_num /\ Head(data) = buf[Len(out) + 1]
  <2>1. Len(out) \in Nat /\ 1 \in 1 .. Len(data)
    BY <1>1, <1>2, Facts DEF Types
  <2>2. data[1] = buf[Len(out) + 1]
    BY <2>1 DEF PInv, Carried
  <2> QED BY <1>1, <1>2, <2>1, <2>2
<1>4. out' \in Seq(0 .. len) /\ Len(out') = Len(out) + 1
  BY <1>1, <1>2, AppendProperties DEF Takes, Types
<1>5. /\ data' \in Seq(0 .. len) /\ Len(data') = Len(data) - 1
      /\ \A i \in 1 .. Len(data') : data'[i] = data[i + 1]
  BY <1>1, <1>2, HeadTailProperties DEF Takes, Types
<1>6. Types'
  BY <1>1, <1>2, <1>4, <1>5, Facts DEF Takes, Types
<1>7. \A i \in 1 .. Len(out') : out'[i] = buf[i]
  <2> SUFFICES ASSUME NEW i \in 1 .. Len(out') PROVE out'[i] = buf[i]
    OBVIOUS
  <2>1. CASE i = Len(out) + 1
    BY <1>1, <1>2, <1>3, <2>1, AppendProperties DEF Takes, Types
  <2>2. CASE i \in 1 .. Len(out)
    BY <1>1, <1>2, <2>2, AppendProperties DEF Takes, Types, PInv, Carried
  <2> QED BY <1>1, <1>4, <2>1, <2>2, Facts
<1>8. \A i \in 1 .. Len(data') : data'[i] = buf[Len(out') + i]
  <2> SUFFICES ASSUME NEW i \in 1 .. Len(data') PROVE data'[i] = buf[Len(out') + i]
    OBVIOUS
  <2>1. i + 1 \in 1 .. Len(data) /\ Len(out) + (i + 1) = Len(out') + i
    BY <1>1, <1>2, <1>4, <1>5, Facts
  <2> QED BY <1>5, <2>1 DEF PInv, Carried
<1>9. Carried'
  BY <1>1, <1>2, <1>4, <1>5, <1>7, <1>8, Facts DEF Takes, PInv, Carried
<1>10. Ends'
  BY DEF Takes, PInv, Ends
<1>11. Finished'
  BY <1>2 DEF Takes, PInv, Finished
<1> QED BY <1>3, <1>6, <1>9, <1>10, <1>11 DEF PInv

LEMMA ParentInv ==
  ASSUME PInv, Parent
  PROVE  PInv'
<1>1. Procs = {"parent", "child"} /\ "parent" \in Procs
  BY DEF Procs
<1>2. CASE fork
  <2>1. CASE end("parent", "error")
    BY <1>1, <1>2, <2>1, EndStep DEF fork, At, MayEnd
  <2>2. CASE ~end("parent", "error")
    BY <1>1, <1>2, <2>2 DEF fork, At, PInv, Types, Ends, Carried, Finished, Labels, Early
  <2> QED BY <2>1, <2>2
<1>3. CASE parent_close
  BY <1>1, <1>3 DEF parent_close, At, Goto, PInv, Types, Ends, Carried, Finished, Labels, Early
<1>4. CASE read
  <2>1. CASE data = <<>> /\ writers = {} /\ end("parent", "ok")
    <3>1. pc["child"] = "dead"
      BY <1>4, <2>1 DEF read, At, PInv, Types, Ends, Procs, Labels
    <3> QED BY <1>1, <1>4, <2>1, <3>1, EndStep DEF read, At, MayEnd
  <2>2. CASE Takes
    BY <2>2, TakesFacts
  <2> QED BY <1>4, <2>1, <2>2 DEF read, Takes
<1> QED BY <1>2, <1>3, <1>4 DEF Parent

LEMMA StepInv == PInv /\ [Next]_vars => PInv'
<1> SUFFICES ASSUME PInv, [Next]_vars PROVE PInv'
  OBVIOUS
<1>1. CASE \E p \in Procs : kill(p)
  BY <1>1, EndStep DEF kill, MayEnd
<1>2. CASE UNCHANGED vars
  BY <1>2 DEF vars, PInv, Types, Ends, Carried, Finished
<1> QED BY <1>1, <1>2, ChildInv, ParentInv DEF Next

LEMMA Invariant == Spec => []PInv
BY InitInv, StepInv, PTL DEF Spec

-----------------------------------------------------------------------------
\* The refinement, as long as the child reads all of the file.

Senders == {"child"}
Receivers == {"parent"}

LEMMA FileReadFacts ==
  ASSUME Types
  PROVE  Len(FileRead) = read_num /\ (read_num = 0 => FileRead = <<>>)
BY Facts DEF FileRead

\* How the mapping sees the end of a process.
How(p) == CASE status[p] = "running" -> "open"
            [] status[p] = "ok"      -> "ok"
            [] OTHER                 -> "broken"

\* The end of p is an End step of the specification.
LEMMA EndMaps ==
  ASSUME PInv, ~Shrunk, NEW p \in Procs, NEW how \in {"ok", "error", "signal"}, end(p, how),
         pc[p] # "dead", MayEnd(p, how)
  PROVE  Transfer!Next
<1>1. Procs = {"parent", "child"} /\ Senders \cup Receivers = Procs
  BY DEF Procs, Senders, Receivers
<1>2. status[p] = "running" /\ status' = [status EXCEPT ![p] = how]
      /\ status \in [Procs -> {"running", "ok", "error", "signal"}]
  BY DEF PInv, Types, Ends, end
<1>3. [q \in Procs |-> How(q)]' =
        [[q \in Procs |-> How(q)] EXCEPT ![p] = IF how = "ok" THEN "ok" ELSE "broken"]
  BY <1>2 DEF How
<1>4. UNCHANGED <<FileRead, write_num, out>>
  BY DEF end, FileRead
<1>5. how = "ok" /\ p = "parent" => Transfer!ReceiverDone(p)
  <2> SUFFICES ASSUME how = "ok", p = "parent" PROVE Transfer!ReceiverDone(p)
    OBVIOUS
  <2>1. data = <<>> /\ pc["child"] = "dead"
    BY DEF MayEnd
  <2>2. Len(out) = write_num
    BY <2>1, Facts DEF PInv, Carried
  <2>3. status["child"] # "running" /\ status["child"] \in {"ok", "error", "signal"}
    BY <1>1, <1>2, <2>1 DEF PInv, Ends
  <2> QED BY <2>2, <2>3, <1>1 DEF Transfer!ReceiverDone
<1>6. how = "ok" /\ p = "child" => Transfer!SenderDone(p)
  <2> SUFFICES ASSUME how = "ok", p = "child" PROVE Transfer!SenderDone(p)
    OBVIOUS
  <2>1. write_num = len /\ write_num <= Len(buf) /\ read_num <= len
    BY DEF MayEnd, PInv, Types, Carried
  <2>2. Len(FileRead) = write_num
    BY <2>1, FileReadFacts, Facts DEF PInv, Shrunk
  <2> QED BY <2>2, <1>1 DEF Transfer!SenderDone
<1>7. Transfer!End(p, IF how = "ok" THEN "ok" ELSE "broken")
  BY <1>1, <1>2, <1>3, <1>4, <1>5, <1>6 DEF Transfer!End, How, Senders, Receivers
<1> QED BY <1>1, <1>7 DEF Transfer!Next, Senders, Receivers

LEMMA WriteMaps ==
  ASSUME PInv, ~Shrunk, At("child", "write"), write_num < len, readers # {}, Len(data) < Capacity,
         write_num' = write_num + 1,
         UNCHANGED <<pc, status, read_num, buf, out>>
  PROVE  Transfer!Next
<1>1. Types /\ Len(buf) = len /\ Len(out) + Len(data) = write_num
  BY DEF PInv, Carried, At
<1>2. status["parent"] = "running" /\ status["child"] = "running"
  <2>1. "parent" \in readers
    BY DEF PInv, Types, Ends, At, Procs
  <2> QED BY <2>1 DEF PInv, Ends, At, Procs
<1>3. write_num - Len(out) < Capacity
  BY <1>1, Facts
<1>4. write_num' # 0 /\ write_num < Len(FileRead)
  BY <1>1, FileReadFacts, Facts DEF Shrunk
<1>5. UNCHANGED FileRead
  BY DEF FileRead
<1>6. Transfer!Send("child", "parent")
  BY <1>2, <1>3, <1>4, <1>5 DEF Transfer!Send, Procs
<1> QED BY <1>6 DEF Transfer!Next

LEMMA TakeMaps ==
  ASSUME PInv, ~Shrunk, Takes, At("parent", "read")
  PROVE  Transfer!Next
<1>1. Types
  BY DEF PInv
<1>2. Len(out) < write_num /\ out' = Append(out, FileRead[Len(out) + 1])
  <2>1. Len(out) < write_num /\ out' = Append(out, buf[Len(out) + 1])
    BY TakesFacts DEF Takes
  <2>2. Len(out) + 1 \in 1 .. read_num
    BY <1>1, <2>1, Facts DEF PInv, Carried, Shrunk
  <2> QED BY <2>1, <2>2 DEF FileRead
<1>3. status["parent"] = "running"
  BY DEF PInv, Ends, At, Procs
<1>4. write_num # 0 /\ Len(out) + 1 <= write_num
  BY <1>1, <1>2, Facts
<1>5. UNCHANGED FileRead
  BY DEF Takes, FileRead
<1>6. Transfer!PrintPiece("parent")
  BY <1>2, <1>3, <1>4, <1>5 DEF Takes, Transfer!PrintPiece, Procs
<1> QED BY <1>6 DEF Transfer!Next

LEMMA StepMaps == PInv /\ ~Shrunk /\ [Next]_vars => [Transfer!Next]_Transfer!transferVars
<1> SUFFICES ASSUME PInv, ~Shrunk, [Next]_vars PROVE [Transfer!Next]_Transfer!transferVars
  OBVIOUS
<1> DEFINE Quiet == UNCHANGED <<read_num, buf, write_num, out, status>>
<1>1. Quiet => UNCHANGED Transfer!transferVars
  BY DEF Transfer!transferVars, FileRead
<1>2. CASE child_close \/ parent_close
  BY <1>1, <1>2 DEF child_close, parent_close, Goto
<1>3. CASE ftell
  <2>1. end("child", "error") => Transfer!Next
    BY <1>3, EndMaps DEF ftell, At, Procs, MayEnd
  <2> QED BY <1>1, <1>3, <2>1 DEF ftell, Goto
<1>4. CASE fread
  <2>1. read_num' \in 0 .. len /\ buf' = read_buf(read_num')
    BY <1>4, Facts DEF fread, PInv
  <2>2. FileRead' \in Seq(1 .. MaxLen)
    <3>1. \A i \in 1 .. read_num' : buf'[i] = i /\ i \in 1 .. MaxLen
      BY <2>1, Facts DEF read_buf, PInv, Types
    <3> QED BY <2>1, <3>1, Facts DEF FileRead, PInv
  <2>3. status["child"] = "running" /\ FileRead = <<>> /\ write_num = 0
    <3>1. status["child"] = "running" /\ read_num = 0 /\ write_num = 0
      BY <1>4 DEF fread, At, PInv, Ends, Carried, Early, Procs
    <3> QED BY <3>1, FileReadFacts DEF PInv
  <2>4. UNCHANGED <<write_num, out, status>>
    BY <1>4 DEF fread, Goto
  <2>5. Transfer!Load("child")
    BY <2>2, <2>3, <2>4 DEF Transfer!Load, Procs
  <2> QED BY <2>5 DEF Transfer!Next
<1>5. CASE write
  <2>1. CASE end("child", "signal")
    BY <1>5, <2>1, EndMaps DEF write, At, Procs, MayEnd
  <2>2. CASE write_num = len /\ end("child", "ok")
    <3>1. write_num = len
      BY <2>2
    <3>2. pc["child"] # "dead" /\ "child" \in Procs
      BY <1>5 DEF write, At, Procs
    <3>3. MayEnd("child", "ok")
      BY <3>1 DEF MayEnd
    <3>4. Transfer!Next
      BY <2>2, <3>2, <3>3, EndMaps
    <3> QED BY <3>4
  <2>3. CASE write_num < len /\ readers # {} /\ write_num' = write_num + 1
    <3>1. Len(data) < Capacity /\ UNCHANGED <<pc, status, read_num, buf, out>>
      BY <1>5, <2>3, Facts DEF write, end, PInv
    <3> QED BY <1>5, <2>3, <3>1, WriteMaps DEF write
  <2> QED BY <1>5, <2>1, <2>2, <2>3 DEF write
<1>6. CASE fork
  <2>1. end("parent", "error") => Transfer!Next
    BY <1>6, EndMaps DEF fork, At, Procs, MayEnd
  <2> QED BY <1>1, <1>6, <2>1 DEF fork
<1>7. CASE read
  <2>1. CASE data = <<>> /\ writers = {} /\ end("parent", "ok")
    <3>1. pc["child"] = "dead"
      BY <1>7, <2>1 DEF read, At, PInv, Types, Ends, Procs, Labels
    <3> QED BY <1>7, <2>1, <3>1, EndMaps DEF read, At, Procs, MayEnd
  <2>2. CASE Takes
    BY <1>7, <2>2, TakeMaps DEF read
  <2> QED BY <1>7, <2>1, <2>2 DEF read, Takes
<1>8. CASE \E p \in Procs : kill(p)
  BY <1>8, EndMaps DEF kill, MayEnd
<1>9. CASE UNCHANGED vars
  BY <1>1, <1>9 DEF vars
<1> QED BY <1>2, <1>3, <1>4, <1>5, <1>6, <1>7, <1>8, <1>9 DEF Next, Child, Parent

LEMMA InitMaps == Init => Transfer!Init
<1> SUFFICES ASSUME Init PROVE Transfer!Init
  OBVIOUS
<1>1. FileRead = <<>> /\ <<>> \in Seq(1 .. MaxLen)
  BY InitInv, FileReadFacts DEF Init, PInv
<1> QED BY <1>1 DEF Init, Transfer!Init, Procs

\* As long as the child has read as much as it found the file to be long, each step of
\* the program is one of FileTransfer, with the file that the child has read: for every
\* length of the file, every capacity of the pipe and whoever is killed, no piece is
\* lost, doubled or out of order, and neither process returns 0 too early.
THEOREM ImplementsTransferCorrect == Spec => ImplementsTransfer
<1>1. PInv /\ [Next]_vars => [Shrunk \/ Transfer!Next]_(Transfer!transferVars)
  BY StepMaps
<1> QED BY InitMaps, <1>1, Invariant, PTL DEF Spec, ImplementsTransfer

\* In the behaviours in which the child reads all of the file, the program does what
\* FileTransfer promises.
THEOREM WholeFileImplementsTransfer == Spec /\ []~Shrunk => Transfer!Spec
BY InitMaps, StepMaps, Invariant, PTL DEF Spec, Transfer!Spec

\* What is printed is the file, and then memory that was never set as far as the file
\* fell short of its length, whatever becomes of the file and whoever is killed.
THEOREM PadsToLengthCorrect == Spec => []PadsToLength
<1>1. PInv => PadsToLength
  <2> SUFFICES ASSUME PInv PROVE PadsToLength
    OBVIOUS
  <2>1. Types /\ Len(out) + Len(data) = write_num /\ write_num <= Len(buf)
    BY DEF PInv, Carried
  <2>2. ASSUME NEW i \in 1 .. Len(out)
        PROVE  out[i] = IF i <= read_num THEN i ELSE unset
    <3>1. i \in 1 .. Len(buf) /\ out[i] = buf[i]
      BY <2>1, Facts DEF PInv, Carried
    <3> QED BY <3>1 DEF PInv, Carried
  <2>3. ASSUME status["child"] = "ok", status["parent"] = "ok"
        PROVE  Len(out) = len
    <3>1. write_num = len /\ Len(data) = 0
      BY <2>3 DEF PInv, Finished
    <3> QED BY <2>1, <3>1, Facts
  <2> QED BY <2>2, <2>3 DEF PadsToLength
<1> QED BY <1>1, Invariant, PTL

\* Every variable keeps its type: in particular the pipe never holds more than it
\* can and no index leaves the buffer.
THEOREM TypeCorrect == Spec => []TypeOK
<1>1. PInv => TypeOK
  BY DEF PInv, Types, TypeOK, Labels
<1> QED BY <1>1, Invariant, PTL
=============================================================================
