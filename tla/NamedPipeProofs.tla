---------------------------- MODULE NamedPipeProofs ----------------------------
(***************************************************************************)
(* Proofs about NamedPipe: what a repeated message means, that FIFOs of    *)
(* one name keep their messages apart, and that no message is lost.  They  *)
(* hold for any number of executions of each program and any number of     *)
(* numbers sent.                                                           *)
(***************************************************************************)
EXTENDS NamedPipe, SequenceTheorems, TLAPS

-----------------------------------------------------------------------------
\* The scripts

OpenAt(p) == IF p \in Writers \cup TestWriters THEN 2 ELSE 1

LEMMA ClassFacts ==
  /\ Creators \cap Sending = {} /\ Removers \cap Sending = {} /\ Creators \cap Reading = {}
  /\ Removers \cap Reading = {} /\ Sending \cap Reading = {} /\ Creators \cap Removers = {}
  /\ Sending \subseteq Procs /\ Reading \subseteq Procs /\ "none" \notin Procs
  /\ Writers \subseteq Sending /\ Readers \subseteq Reading
  /\ Sending = Writers \cup TestWriters \cup TestOpeners /\ Reading = Readers \cup TestReaders
  /\ Writers \cap TmpTest = {} /\ Readers \cap TmpTest = {}
  /\ Procs = Creators \cup Removers \cup Sending \cup Reading
BY NamedPipeAssumption DEF Procs, TestProgs, TmpTest, Sending, Reading, Writers

LEMMA ScriptCases ==
  ASSUME NEW p \in Procs
  PROVE  \/ p \in Creators /\ Script(p) = fifo_create
         \/ p \in Removers /\ Script(p) = fifo_remove
         \/ p \in Writers1 /\ Script(p) = fifo_writer
         \/ p \in Writers2 /\ Script(p) = fifo_writer2
         \/ p \in Readers /\ Script(p) = fifo_reader
         \/ p \in TestWriters /\ Script(p) = fifo_test_writer
         \/ p \in TestOpeners /\ Script(p) = fifo_test_open
         \/ p \in TestReaders /\ Script(p) = fifo_test_reader
BY NamedPipeAssumption DEF Script, Procs, TestProgs, TmpTest, Sending, Reading, Writers

\* The list with a loop in it.
LEMMA TestWriterScript ==
  /\ Len(fifo_test_writer) = Numbers + 3
  /\ \A k \in 1 .. Numbers + 3 :
       fifo_test_writer[k] = CASE k = 1 -> "mkfifo" [] k = 2 -> "try_open"
                               [] k = Numbers + 3 -> "loop" [] OTHER -> "write"
<1> DEFINE Names == {"mkfifo", "try_open", "write", "loop"}
           start == <<"mkfifo", "try_open">>
           calls == [i \in 1 .. Numbers |-> "write"]
           last == <<"loop">>
<1>1. start \in Seq(Names) /\ Len(start) = 2 /\ start[1] = "mkfifo" /\ start[2] = "try_open"
  OBVIOUS
<1>2. calls \in Seq(Names) /\ Len(calls) = Numbers
  <2>1. calls \in [1 .. Numbers -> Names]
    OBVIOUS
  <2>2. Numbers \in Nat
    BY NamedPipeAssumption
  <2> HIDE DEF calls, Names
  <2>3. calls \in Seq(Names)
    BY <2>1, <2>2, SeqDef
  <2>4. Len(calls) = Numbers
    BY <2>1, <2>2, <2>3, LenProperties
  <2> QED BY <2>3, <2>4
<1>3. last \in Seq(Names) /\ Len(last) = 1 /\ last[1] = "loop"
  OBVIOUS
<1>4. \A i \in 1 .. Numbers : calls[i] = "write"
  OBVIOUS
<1>5. fifo_test_writer = (start \o calls) \o last
  BY DEF fifo_test_writer
<1> HIDE DEF Names, start, calls, last
<1>6. Numbers \in Nat /\ Numbers + 2 \in Nat
  BY NamedPipeAssumption
<1> DEFINE both == start \o calls
<1>7. /\ both \in Seq(Names) /\ Len(both) = Numbers + 2
      /\ \A k \in 1 .. Numbers + 2 : both[k] = IF k <= 2 THEN start[k] ELSE calls[k - 2]
  <2>1. /\ both \in Seq(Names) /\ Len(both) = Len(start) + Len(calls)
        /\ \A k \in 1 .. Len(start) + Len(calls) :
             both[k] = IF k <= Len(start) THEN start[k] ELSE calls[k - Len(start)]
    BY <1>1, <1>2, ConcatProperties
  <2> HIDE DEF both
  <2> QED BY <1>1, <1>2, <1>6, <2>1
<1> HIDE DEF both
<1> DEFINE whole == both \o last
<1>8. /\ Len(whole) = Numbers + 3
      /\ \A k \in 1 .. Numbers + 3 : whole[k] =
           IF k <= Numbers + 2 THEN both[k] ELSE last[k - (Numbers + 2)]
  <2>1. /\ Len(whole) = Len(both) + Len(last)
        /\ \A k \in 1 .. Len(both) + Len(last) :
             whole[k] = IF k <= Len(both) THEN both[k] ELSE last[k - Len(both)]
    BY <1>3, <1>7, ConcatProperties
  <2> HIDE DEF whole
  <2> QED BY <1>3, <1>6, <1>7, <2>1
<1>9. /\ Len(whole) = Numbers + 3
      /\ \A k \in 1 .. Numbers + 3 : whole[k] =
           CASE k = 1 -> "mkfifo" [] k = 2 -> "try_open" [] k = Numbers + 3 -> "loop" [] OTHER -> "write"
  <2> HIDE DEF whole
  <2>1. Len(whole) = Numbers + 3
    BY <1>8
  <2>2. ASSUME NEW k \in 1 .. Numbers + 3
        PROVE  whole[k] = CASE k = 1 -> "mkfifo" [] k = 2 -> "try_open"
                            [] k = Numbers + 3 -> "loop" [] OTHER -> "write"
    <3>1. CASE k = Numbers + 3
      BY <1>3, <1>6, <1>8, <3>1
    <3>2. CASE k \in 3 .. Numbers + 2
      <4>1. k - 2 \in 1 .. Numbers
        BY <1>6, <3>2
      <4> QED BY <1>4, <1>6, <1>7, <1>8, <3>2, <4>1
    <3>3. CASE k \in 1 .. 2
      BY <1>1, <1>6, <1>7, <1>8, <3>3
    <3> QED BY <1>6, <3>1, <3>2, <3>3
  <2> QED BY <2>1, <2>2
<1> QED BY <1>5, <1>9 DEF both, whole

\* Where the calls are in the scripts.
LEMMA ScriptFacts ==
  ASSUME NEW p \in Procs, NEW k \in 1 .. Len(Script(p))
  PROVE  /\ Script(p)[k] \notin {"exit", "loop"} => k + 1 \in 1 .. Len(Script(p))
         /\ Script(p)[k] = "mkfifo" => k = 1 /\ p \in Creators \cup Writers \cup TestWriters
         /\ Script(p)[k] = "remove" =>
              p \in Removers \/ (p \in Writers /\ k = 4) \/ (p \in Readers /\ k = 2)
         /\ Script(p)[k] = "close" => p \in Writers /\ k = 5
         /\ Script(p)[k] = "open" => p \in Sending \cup Reading /\ k = OpenAt(p)
         /\ Script(p)[k] = "try_open" => p \in Sending /\ k = OpenAt(p)
         /\ Script(p)[k] = "write" => p \in Sending /\ k > OpenAt(p) /\ (p \in Writers => k = 3)
         /\ Script(p)[k] = "read" => p \in Reading /\ k > 1 /\ (p \in Readers => k \in {3, 4})
         /\ Script(p)[k] = "exit" => (p \in Readers => k = 5)
<1>1. CASE p \in Creators /\ Script(p) = fifo_create
  BY <1>1, ClassFacts DEF fifo_create
<1>2. CASE p \in Removers /\ Script(p) = fifo_remove
  BY <1>2, ClassFacts DEF fifo_remove
<1>3. CASE p \in Writers1 /\ Script(p) = fifo_writer
  BY <1>3, ClassFacts DEF fifo_writer, OpenAt, Writers
<1>4. CASE p \in Writers2 /\ Script(p) = fifo_writer2
  BY <1>4, ClassFacts DEF fifo_writer2, OpenAt, Writers
<1>5. CASE p \in Readers /\ Script(p) = fifo_reader
  BY <1>5, ClassFacts DEF fifo_reader, OpenAt
<1>6. CASE p \in TestWriters /\ Script(p) = fifo_test_writer
  BY <1>6, ClassFacts, TestWriterScript, NamedPipeAssumption DEF OpenAt, TmpTest
<1>7. CASE p \in TestOpeners /\ Script(p) = fifo_test_open
  BY <1>7, ClassFacts, NamedPipeAssumption DEF fifo_test_open, OpenAt, TmpTest
<1>8. CASE p \in TestReaders /\ Script(p) = fifo_test_reader
  BY <1>8, ClassFacts DEF fifo_test_reader, OpenAt, TmpTest
<1> QED BY <1>1, <1>2, <1>3, <1>4, <1>5, <1>6, <1>7, <1>8, ScriptCases

-----------------------------------------------------------------------------
\* Types, and where a process is

Message == Procs \X Nat
Statuses == {"running", "elsewhere", "ok", "error", "signal"}

Types ==
  /\ name \in Procs \cup {"none"} /\ fifo_id \in [Procs -> Procs \cup {"none"}]
  /\ opening \subseteq Procs /\ data \in [Procs -> Seq(Message)]
  /\ pc \in [Procs -> Nat] /\ (\A p \in Procs : pc[p] \in 1 .. Len(Script(p)))
  /\ status \in [Procs -> Statuses]
  /\ sent \in [Sending -> Seq(Message)] /\ buf \in [Reading -> Seq(Message)]
  /\ out \in [Reading -> Seq(Message \cup {nothing})]

\* A process has no FIFO before its open(), and a reader has one from then on; what it
\* reads comes after that.
Placed(p) ==
  /\ fifo_id[p] # "none" => p \in Sending \cup Reading /\ pc[p] > OpenAt(p)
  /\ p \in Reading /\ status[p] = "running" /\ pc[p] > 1 => fifo_id[p] # "none"
  /\ p \in Reading /\ pc[p] = 1 => buf[p] = <<>> /\ out[p] = <<>>

TypeInv == Types /\ \A p \in Procs : Placed(p)

\* The steps by what they do.
Advance(p) ==
  /\ status[p] = "running" /\ pc' = [pc EXCEPT ![p] = @ + 1] /\ UNCHANGED status
  /\ pc[p] + 1 \in 1 .. Len(Script(p))
Ended(p) ==
  /\ status[p] = "running" /\ \E how \in {"ok", "error", "signal"} : end(p, how)
  /\ p \in Readers => pc[p] = 5 \/ p \in Killable
Made(p) ==
  /\ Advance(p) /\ p \in Creators \cup Writers \cup TestWriters /\ pc[p] = 1
  /\ make_fifo(p) /\ UNCHANGED <<fifo_id, opening, data, sent, buf, out>>
Removed(p) ==
  /\ Advance(p) /\ p \notin opening
  /\ p \in Removers \/ (p \in Writers /\ pc[p] = 4) \/ (p \in Readers /\ pc[p] = 2)
  /\ name' = "none" /\ UNCHANGED <<fifo_id, opening, data, sent, buf, out>>
Closed(p) ==
  /\ Advance(p) /\ p \in Writers /\ pc[p] = 5
  /\ close(p) /\ UNCHANGED <<name, sent, buf, out>>
Opened(p) ==
  /\ Advance(p) /\ p \in Sending \cup Reading /\ pc[p] = OpenAt(p)
  /\ open(p, Partners(p)) /\ UNCHANGED <<name, data, sent, buf, out>>
Failed(p) ==
  /\ Advance(p) /\ p \in Sending /\ pc[p] >= OpenAt(p)
  /\ UNCHANGED <<name, fifo_id, opening, data, sent, buf, out>>
Wrote(p) ==
  /\ Advance(p) /\ p \in Sending /\ pc[p] > OpenAt(p) /\ (p \in Writers => pc[p] = 3)
  /\ fifo_id[p] # "none" /\ Holders(fifo_id[p], Reading) # {}
  /\ put(fifo_id[p], <<p, pc[p]>>) /\ sent' = [sent EXCEPT ![p] = Append(@, <<p, pc[p]>>)]
  /\ UNCHANGED <<name, fifo_id, opening, buf, out>>
Got(p) ==
  /\ Advance(p) /\ p \in Reading /\ pc[p] > 1 /\ (p \in Readers => pc[p] \in {3, 4})
  /\ p \notin opening
  /\ \/ data[fifo_id[p]] # <<>> /\ take(p, Taken(p))
     \/ data[fifo_id[p]] = <<>> /\ Holders(fifo_id[p], Sending) = {} /\ take(p, <<>>)
  /\ UNCHANGED <<name, fifo_id, opening, sent>>

LEMMA Kinds ==
  ASSUME Types, NEW p \in Procs, Step(p) \/ Kill(p)
  PROVE  \/ Ended(p) \/ Made(p) \/ Removed(p) \/ Closed(p) \/ Opened(p) \/ Failed(p)
         \/ Wrote(p) \/ Got(p)
<1> DEFINE k == pc[p]
           call == Script(p)[k]
<1>1. k \in 1 .. Len(Script(p))
  BY DEF Types
<1>2. /\ call \notin {"exit", "loop"} => k + 1 \in 1 .. Len(Script(p))
      /\ call = "mkfifo" => k = 1 /\ p \in Creators \cup Writers \cup TestWriters
      /\ call = "remove" =>
           p \in Removers \/ (p \in Writers /\ k = 4) \/ (p \in Readers /\ k = 2)
      /\ call = "close" => p \in Writers /\ k = 5
      /\ call = "open" => p \in Sending \cup Reading /\ k = OpenAt(p)
      /\ call = "try_open" => p \in Sending /\ k = OpenAt(p)
      /\ call = "write" => p \in Sending /\ k > OpenAt(p) /\ (p \in Writers => k = 3)
      /\ call = "read" => p \in Reading /\ k > 1 /\ (p \in Readers => k \in {3, 4})
      /\ call = "exit" => (p \in Readers => k = 5)
  BY <1>1, ScriptFacts
<1>3. /\ p \in Readers => p \notin Creators \cup Writers \cup TestWriters \cup Sending
      /\ OpenAt(p) \in Nat /\ pc[p] \in Nat
  BY ClassFacts DEF OpenAt, Types
<1> HIDE DEF call
<1>4. ASSUME Kill(p) PROVE Ended(p)
  BY <1>4 DEF Kill, Ended
<1>5. ASSUME exit(p) PROVE Ended(p)
  BY <1>2, <1>5 DEF exit, At, Ended, call
<1>6. ASSUME mkfifo(p) PROVE Made(p) \/ Ended(p)
  <2>1. status[p] = "running" /\ call = "mkfifo"
    BY <1>6 DEF mkfifo, At, call
  <2> QED BY <1>2, <1>3, <1>6, <2>1 DEF mkfifo, Continue, Made, Ended, Advance
<1>7. ASSUME remove(p) PROVE Removed(p)
  BY <1>2, <1>7 DEF remove, At, Continue, Removed, Advance, call
<1>8. ASSUME close_fifo(p) PROVE Closed(p)
  BY <1>2, <1>8 DEF close_fifo, At, Continue, Closed, Advance, call
<1>9. ASSUME open_loop(p) PROVE Opened(p)
  BY <1>2, <1>9 DEF open_loop, At, Continue, Opened, Advance, call
<1>10. ASSUME try_open(p) PROVE Opened(p) \/ Failed(p)
  BY <1>2, <1>3, <1>10 DEF try_open, At, Continue, Opened, Failed, Advance, call
<1>11. ASSUME write(p) PROVE Failed(p) \/ Wrote(p) \/ Ended(p)
  <2>1. status[p] = "running" /\ call = "write"
    BY <1>11 DEF write, At, call
  <2> QED BY <1>2, <1>3, <1>11, <2>1 DEF write, Continue, Failed, Wrote, Ended, Advance
<1>12. ASSUME read(p) PROVE Got(p)
  BY <1>2, <1>12 DEF read, At, Continue, Got, Advance, call
<1> QED BY <1>4, <1>5, <1>6, <1>7, <1>8, <1>9, <1>10, <1>11, <1>12 DEF Step

\* What the elementary steps do, process by process.
LEMMA AdvanceFacts ==
  ASSUME Types, NEW p \in Procs, Advance(p)
  PROVE  /\ \A q \in Procs : pc'[q] = IF q = p THEN pc[p] + 1 ELSE pc[q]
         /\ pc' \in [Procs -> Nat] /\ (\A q \in Procs : pc'[q] \in 1 .. Len(Script(q)))
         /\ status' = status /\ status[p] = "running"
<1>1. \A q \in Procs : pc'[q] = IF q = p THEN pc[p] + 1 ELSE pc[q]
  BY DEF Types, Advance
<1>2. pc' \in [Procs -> Nat]
  BY DEF Types, Advance
<1> QED BY <1>1, <1>2 DEF Types, Advance

LEMMA CloseFacts ==
  ASSUME Types, NEW p \in Procs, close(p)
  PROVE  /\ data' \in [Procs -> Seq(Message)]
         /\ \A f \in Procs : data'[f] = data[f] \/ data'[f] = <<>>
         /\ \A f \in Procs : data'[f] # data[f] => \A q \in Procs \ {p} : fifo_id[q] # f
         /\ \A q \in Procs : fifo_id'[q] = IF q = p THEN "none" ELSE fifo_id[q]
         /\ fifo_id' \in [Procs -> Procs \cup {"none"}]
         /\ opening' = opening \ {p}
<1>1. \A f \in Procs : data'[f] = IF \E q \in Procs \ {p} : fifo_id[q] = f THEN data[f] ELSE <<>>
  BY DEF Types, close
<1>2. data' \in [Procs -> Seq(Message)]
  <2>1. \A f \in Procs : data[f] \in Seq(Message) /\ <<>> \in Seq(Message)
    BY DEF Types
  <2> QED BY <1>1, <2>1 DEF close, Types
<1>3. /\ \A q \in Procs : fifo_id'[q] = IF q = p THEN "none" ELSE fifo_id[q]
      /\ fifo_id' \in [Procs -> Procs \cup {"none"}] /\ opening' = opening \ {p}
  BY DEF Types, close
<1> QED BY <1>1, <1>2, <1>3

LEMMA EndedFacts ==
  ASSUME Types, NEW p \in Procs, Ended(p)
  PROVE  /\ close(p) /\ UNCHANGED <<name, pc, sent, buf, out>>
         /\ \A q \in Procs \ {p} : status'[q] = status[q]
         /\ status[p] = "running" /\ status'[p] # "running"
         /\ status' \in [Procs -> Statuses]
BY DEF Types, Ended, end, Statuses

LEMMA OpenedFacts ==
  ASSUME Types, NEW p \in Procs, Opened(p)
  PROVE  /\ name \in Procs
         /\ \A q \in Procs : fifo_id'[q] = IF q = p THEN name ELSE fifo_id[q]
         /\ fifo_id' \in [Procs -> Procs \cup {"none"}]
         /\ opening' \subseteq Procs
         /\ \A q \in Procs \ {p} : q \in opening' => q \in opening
         /\ UNCHANGED <<name, data, sent, buf, out>>
BY DEF Types, Opened, open

\* A write appends one message to the FIFO.
LEMMA WroteFacts ==
  ASSUME Types, NEW p \in Procs, Wrote(p)
  PROVE  /\ fifo_id[p] \in Procs /\ <<p, pc[p]>> \in Message
         /\ \A f \in Procs : data'[f] = IF f = fifo_id[p] THEN Append(data[f], <<p, pc[p]>>) ELSE data[f]
         /\ data' \in [Procs -> Seq(Message)]
         /\ \A q \in Sending : sent'[q] = IF q = p THEN Append(sent[q], <<p, pc[p]>>) ELSE sent[q]
         /\ sent' \in [Sending -> Seq(Message)]
         /\ UNCHANGED <<name, fifo_id, opening, buf, out>>
<1> DEFINE m == <<p, pc[p]>>
<1>1. m \in Message /\ fifo_id[p] \in Procs
  BY DEF Message, Types, Wrote
<1> HIDE DEF m
<1>2. data' = [data EXCEPT ![fifo_id[p]] = Append(@, m)]
  BY DEF Wrote, put, m
<1>3. /\ \A f \in Procs : data'[f] = IF f = fifo_id[p] THEN Append(data[f], m) ELSE data[f]
      /\ data' \in [Procs -> Seq(Message)]
  <2>1. \A f \in Procs : data[f] \in Seq(Message) /\ Append(data[f], m) \in Seq(Message)
    BY <1>1 DEF Types
  <2> QED BY <1>1, <1>2, <2>1 DEF Types
<1>4. sent' = [sent EXCEPT ![p] = Append(@, m)] /\ p \in Sending
  BY DEF Wrote, m
<1>5. /\ \A q \in Sending : sent'[q] = IF q = p THEN Append(sent[q], m) ELSE sent[q]
      /\ sent' \in [Sending -> Seq(Message)]
  <2>1. \A q \in Sending : sent[q] \in Seq(Message) /\ Append(sent[q], m) \in Seq(Message)
    BY <1>1 DEF Types
  <2> QED BY <1>4, <2>1 DEF Types
<1>6. UNCHANGED <<name, fifo_id, opening, buf, out>>
  BY DEF Wrote
<1> QED BY <1>1, <1>3, <1>5, <1>6 DEF m

\* A read takes the first messages, or one, or sees the end.
LEMMA GotFacts ==
  ASSUME TypeInv, NEW p \in Procs, Got(p)
  PROVE  \E n \in Nat : LET f == fifo_id[p] IN
         /\ f \in Procs /\ n <= Len(data[f]) /\ (data[f] # <<>> => n > 0)
         /\ data[f] # <<>> /\ p \in Readers => n = Len(data[f])
         /\ data[f] = <<>> => Holders(f, Sending) = {}
         /\ \A g \in Procs : data'[g] = IF g = f THEN SubSeq(data[f], n + 1, Len(data[f])) ELSE data[g]
         /\ data' \in [Procs -> Seq(Message)]
         /\ \A r \in Reading : buf'[r] = IF r = p /\ n > 0 THEN SubSeq(data[f], 1, n) ELSE buf[r]
         /\ buf' \in [Reading -> Seq(Message)]
         /\ \A r \in Reading : out'[r] = IF r = p THEN Append(out[r], Shown(buf'[r])) ELSE out[r]
         /\ Shown(buf'[p]) \in Message \cup {nothing}
         /\ out' \in [Reading -> Seq(Message \cup {nothing})]
         /\ UNCHANGED <<name, fifo_id, opening, sent>>
<1> DEFINE f == fifo_id[p]
           queue == data[f]
<1>1. f \in Procs /\ p \in Reading
  BY ClassFacts DEF Got, Advance, TypeInv, Types, Placed
<1>2. queue \in Seq(Message) /\ Len(queue) \in Nat
  BY <1>1 DEF TypeInv, Types
<1>3. PICK got \in Seq(Message), n \in Nat :
        /\ take(p, got) /\ Len(got) = n /\ n <= Len(queue) /\ got = SubSeq(queue, 1, n)
        /\ queue # <<>> => n > 0
        /\ queue # <<>> /\ p \in Readers => n = Len(queue)
        /\ queue = <<>> => Holders(f, Sending) = {}
  <2>1. CASE queue # <<>> /\ p \in Readers
    <3>1. take(p, queue)
      BY <2>1 DEF Got, Taken
    <3>2. queue = SubSeq(queue, 1, Len(queue)) /\ Len(queue) > 0
      BY <1>2, <2>1, SubSeqFull, EmptySeq
    <3> queue \in Seq(Message) /\ Len(queue) \in Nat
      BY <1>2
    <3> WITNESS queue \in Seq(Message), Len(queue) \in Nat
    <3> HIDE DEF queue, f
    <3> QED BY <1>2, <2>1, <3>1, <3>2
  <2>2. CASE queue # <<>> /\ p \notin Readers
    <3>1. take(p, <<Head(queue)>>)
      BY <2>2 DEF Got, Taken
    <3>2. Len(queue) > 0 /\ Head(queue) = queue[1] /\ queue[1] \in Message
      BY <1>2, <2>2, EmptySeq
    <3> HIDE DEF queue, f
    <3>3. <<Head(queue)>> = SubSeq(queue, 1, 1)
      BY <1>2, <3>2
    <3>4. <<Head(queue)>> \in Seq(Message) /\ Len(<<Head(queue)>>) = 1
      BY <3>2
    <3> <<Head(queue)>> \in Seq(Message)
      BY <3>4
    <3> WITNESS <<Head(queue)>> \in Seq(Message), 1 \in Nat
    <3> QED BY <1>2, <2>2, <3>1, <3>2, <3>3, <3>4
  <2>3. CASE queue = <<>>
    <3>1. take(p, <<>>) /\ Holders(f, Sending) = {}
      BY <2>3 DEF Got
    <3>2. <<>> \in Seq(Message) /\ Len(<<>>) = 0 /\ SubSeq(queue, 1, 0) = <<>>
      BY <1>2, SubSeqEmpty
    <3> WITNESS <<>> \in Seq(Message), 0 \in Nat
    <3> HIDE DEF queue, f
    <3> QED BY <1>2, <2>3, <3>1, <3>2
  <2> QED BY <2>1, <2>2, <2>3
<1>4. UNCHANGED <<name, fifo_id, opening, sent>>
  BY DEF Got
<1> DEFINE left == SubSeq(queue, n + 1, Len(queue))
<1>5. left \in Seq(Message)
  BY <1>2, <1>3, SubSeqProperties
<1>6. /\ \A g \in Procs : data'[g] = IF g = f THEN left ELSE data[g]
      /\ data' \in [Procs -> Seq(Message)]
  BY <1>1, <1>3, <1>5 DEF take, TypeInv, Types
<1>7. got = <<>> <=> n = 0
  BY <1>3
<1>8. buf' = [buf EXCEPT ![p] = IF n = 0 THEN @ ELSE got]
  BY <1>3, <1>7 DEF take
<1>9. /\ \A r \in Reading : buf'[r] = IF r = p /\ n > 0 THEN got ELSE buf[r]
      /\ buf' \in [Reading -> Seq(Message)]
  BY <1>1, <1>3, <1>8 DEF TypeInv, Types
<1> DEFINE shown == Shown(buf'[p])
<1>10. shown \in Message \cup {nothing}
  <2>1. buf'[p] \in Seq(Message)
    BY <1>1, <1>9
  <2> QED BY <2>1 DEF Shown
<1>11. out' = [out EXCEPT ![p] = Append(@, shown)]
  BY <1>3 DEF take
<1> HIDE DEF shown
<1>12. /\ \A r \in Reading : out'[r] = IF r = p THEN Append(out[r], shown) ELSE out[r]
       /\ out' \in [Reading -> Seq(Message \cup {nothing})]
  <2>1. \A r \in Reading : out[r] \in Seq(Message \cup {nothing})
                        /\ Append(out[r], shown) \in Seq(Message \cup {nothing})
    BY <1>10 DEF TypeInv, Types
  <2> QED BY <1>1, <1>11, <2>1 DEF TypeInv, Types
<1>13. \A r \in Reading : out'[r] = IF r = p THEN Append(out[r], Shown(buf'[r])) ELSE out[r]
  BY <1>12 DEF shown
<1> QED BY <1>1, <1>3, <1>4, <1>6, <1>9, <1>10, <1>12, <1>13 DEF shown

LEMMA TypeInit == Init => TypeInv
<1> SUFFICES ASSUME Init PROVE TypeInv
  OBVIOUS
<1>1. \A p \in Procs : 1 \in 1 .. Len(Script(p))
  <2> SUFFICES ASSUME NEW p \in Procs PROVE Len(Script(p)) \in Nat /\ Len(Script(p)) >= 1
    OBVIOUS
  <2>1. Len(fifo_create) = 2 /\ Len(fifo_remove) = 2 /\ Len(fifo_writer) = 5
        /\ Len(fifo_writer2) = 6 /\ Len(fifo_reader) = 5
        /\ Len(fifo_test_open) = 3 /\ Len(fifo_test_reader) = 4
    BY DEF fifo_create, fifo_remove, fifo_writer, fifo_writer2, fifo_reader, fifo_test_open,
           fifo_test_reader
  <2>2. Len(fifo_test_writer) = Numbers + 3 /\ Numbers \in Nat
    BY TestWriterScript, NamedPipeAssumption
  <2> QED BY <2>1, <2>2, ScriptCases
<1>2. /\ pc = [p \in Procs |-> 1] /\ fifo_id = [p \in Procs |-> "none"] /\ opening = {}
      /\ data = [f \in Procs |-> <<>>] /\ name = "none"
      /\ sent = [p \in Sending |-> <<>>] /\ buf = [p \in Reading |-> <<>>]
      /\ out = [p \in Reading |-> <<>>] /\ status \in [Procs -> Statuses]
  BY DEF Init, FifoInit, Statuses
<1>3. <<>> \in Seq(Message) /\ <<>> \in Seq(Message \cup {nothing})
  BY EmptySeq
<1>4. Types
  BY <1>1, <1>2, <1>3 DEF Types
<1>5. \A p \in Procs : Placed(p)
  BY <1>2 DEF Placed
<1> QED BY <1>4, <1>5 DEF TypeInv

\* A step of p leaves the others where they are.
LEMMA PlacedKept ==
  ASSUME TypeInv, NEW p \in Procs, Placed(p)',
         \A q \in Procs \ {p} :
           pc'[q] = pc[q] /\ fifo_id'[q] = fifo_id[q] /\ status'[q] = status[q],
         \A r \in Reading \ {p} : buf'[r] = buf[r] /\ out'[r] = out[r]
  PROVE  \A q \in Procs : Placed(q)'
BY DEF TypeInv, Placed

LEMMA TypeStep == TypeInv /\ [Next]_vars => TypeInv'
<1> SUFFICES ASSUME TypeInv, [Next]_vars PROVE TypeInv'
  OBVIOUS
<1> USE DEF TypeInv
<1>0. CASE UNCHANGED vars
  BY <1>0 DEF vars, fifoVars, Types, Placed
<1> SUFFICES ASSUME NEW p \in Procs, Step(p) \/ Kill(p) PROVE TypeInv'
  BY <1>0 DEF Next
<1>1. OpenAt(p) \in {1, 2} /\ pc[p] \in Nat /\ pc[p] >= 1
      /\ (p \in Reading => OpenAt(p) = 1 /\ p \notin Sending)
  BY ClassFacts DEF OpenAt, Types, TmpTest
<1>2. CASE Ended(p)
  <2>1. /\ close(p) /\ UNCHANGED <<name, pc, sent, buf, out>>
        /\ \A q \in Procs \ {p} : status'[q] = status[q]
        /\ status'[p] # "running" /\ status' \in [Procs -> Statuses]
    BY <1>2, EndedFacts
  <2>2. /\ data' \in [Procs -> Seq(Message)]
        /\ \A q \in Procs : fifo_id'[q] = IF q = p THEN "none" ELSE fifo_id[q]
        /\ fifo_id' \in [Procs -> Procs \cup {"none"}] /\ opening' = opening \ {p}
    BY <2>1, CloseFacts
  <2>3. Placed(p)'
    BY <2>1, <2>2 DEF Placed
  <2> QED BY <2>1, <2>2, <2>3, PlacedKept DEF Types
<1>3. CASE Made(p) \/ Removed(p)
  <2>1. /\ \A q \in Procs : pc'[q] = IF q = p THEN pc[p] + 1 ELSE pc[q]
        /\ pc' \in [Procs -> Nat] /\ (\A q \in Procs : pc'[q] \in 1 .. Len(Script(q)))
        /\ status' = status /\ status[p] = "running"
    BY <1>3, AdvanceFacts DEF Made, Removed
  <2>2. /\ UNCHANGED <<fifo_id, opening, data, sent, buf, out>> /\ name' \in Procs \cup {"none"}
    BY <1>3 DEF Made, Removed, make_fifo
  <2>3. p \in Reading => pc[p] > 1
    BY <1>3, ClassFacts DEF Made, Removed
  <2>4. Placed(p)'
    BY <1>1, <2>1, <2>2, <2>3 DEF Placed
  <2> QED BY <2>1, <2>2, <2>4, PlacedKept DEF Types
<1>4. CASE Closed(p)
  <2>1. /\ \A q \in Procs : pc'[q] = IF q = p THEN pc[p] + 1 ELSE pc[q]
        /\ pc' \in [Procs -> Nat] /\ (\A q \in Procs : pc'[q] \in 1 .. Len(Script(q)))
        /\ status' = status /\ close(p) /\ p \in Writers /\ UNCHANGED <<name, sent, buf, out>>
    BY <1>4, AdvanceFacts DEF Closed
  <2>2. /\ data' \in [Procs -> Seq(Message)]
        /\ \A q \in Procs : fifo_id'[q] = IF q = p THEN "none" ELSE fifo_id[q]
        /\ fifo_id' \in [Procs -> Procs \cup {"none"}] /\ opening' = opening \ {p}
    BY <2>1, CloseFacts
  <2>3. Placed(p)'
    BY <2>1, <2>2, ClassFacts DEF Placed
  <2> QED BY <2>1, <2>2, <2>3, PlacedKept DEF Types
<1>5. CASE Opened(p)
  <2>1. /\ \A q \in Procs : pc'[q] = IF q = p THEN pc[p] + 1 ELSE pc[q]
        /\ pc' \in [Procs -> Nat] /\ (\A q \in Procs : pc'[q] \in 1 .. Len(Script(q)))
        /\ status' = status /\ p \in Sending \cup Reading /\ pc[p] = OpenAt(p)
    BY <1>5, AdvanceFacts DEF Opened
  <2>2. /\ name \in Procs /\ UNCHANGED <<name, data, sent, buf, out>>
        /\ \A q \in Procs : fifo_id'[q] = IF q = p THEN name ELSE fifo_id[q]
        /\ fifo_id' \in [Procs -> Procs \cup {"none"}] /\ opening' \subseteq Procs
    BY <1>5, OpenedFacts
  <2>3. Placed(p)'
    BY <1>1, <2>1, <2>2, ClassFacts DEF Placed
  <2> QED BY <2>1, <2>2, <2>3, PlacedKept DEF Types
<1>6. CASE Failed(p)
  <2>1. /\ \A q \in Procs : pc'[q] = IF q = p THEN pc[p] + 1 ELSE pc[q]
        /\ pc' \in [Procs -> Nat] /\ (\A q \in Procs : pc'[q] \in 1 .. Len(Script(q)))
        /\ status' = status /\ p \in Sending
        /\ UNCHANGED <<name, fifo_id, opening, data, sent, buf, out>>
    BY <1>6, AdvanceFacts DEF Failed
  <2>2. Placed(p)'
    BY <1>1, <2>1, ClassFacts DEF Placed
  <2> QED BY <2>1, <2>2, PlacedKept DEF Types
<1>7. CASE Wrote(p)
  <2>1. /\ \A q \in Procs : pc'[q] = IF q = p THEN pc[p] + 1 ELSE pc[q]
        /\ pc' \in [Procs -> Nat] /\ (\A q \in Procs : pc'[q] \in 1 .. Len(Script(q)))
        /\ status' = status /\ p \in Sending
    BY <1>7, AdvanceFacts DEF Wrote
  <2>2. /\ data' \in [Procs -> Seq(Message)] /\ sent' \in [Sending -> Seq(Message)]
        /\ UNCHANGED <<name, fifo_id, opening, buf, out>>
    BY <1>7, WroteFacts
  <2>3. Placed(p)'
    BY <1>1, <2>1, <2>2, ClassFacts DEF Placed
  <2> QED BY <2>1, <2>2, <2>3, PlacedKept DEF Types
<1>8. CASE Got(p)
  <2>1. /\ \A q \in Procs : pc'[q] = IF q = p THEN pc[p] + 1 ELSE pc[q]
        /\ pc' \in [Procs -> Nat] /\ (\A q \in Procs : pc'[q] \in 1 .. Len(Script(q)))
        /\ status' = status /\ p \in Reading /\ pc[p] > 1
    BY <1>8, AdvanceFacts DEF Got
  <2>2. /\ data' \in [Procs -> Seq(Message)] /\ buf' \in [Reading -> Seq(Message)]
        /\ out' \in [Reading -> Seq(Message \cup {nothing})]
        /\ \A r \in Reading \ {p} : buf'[r] = buf[r] /\ out'[r] = out[r]
        /\ UNCHANGED <<name, fifo_id, opening, sent>>
    BY <1>8, GotFacts
  <2>3. Placed(p)'
    BY <1>1, <2>1, <2>2, ClassFacts DEF Placed
  <2> QED BY <2>1, <2>2, <2>3, PlacedKept DEF Types
<1> QED BY <1>2, <1>3, <1>4, <1>5, <1>6, <1>7, <1>8, Kinds

LEMMA TypeInvariant == Spec => []TypeInv
BY TypeInit, TypeStep, PTL DEF Spec

-----------------------------------------------------------------------------
\* A repeated message is one of a writer that has closed the FIFO

\* The sender of m has sent it already, and opens no other FIFO.
Sent(m) == m[1] \in Sending /\ OpenAt(m[1]) < pc[m[1]] /\ m[2] < pc[m[1]]

\* Whoever sent a message that is in f still has f open, or nothing.
Queued(f) ==
  /\ \A i \in 1 .. Len(data[f]) :
       Sent(data[f][i]) /\ fifo_id[data[f][i][1]] \in {f, "none"}
  /\ \A i, j \in 1 .. Len(data[f]) : data[f][i] = data[f][j] => i = j

\* So has whoever sent what a reader got from its FIFO, where it is no longer.
Seen(r) ==
  /\ buf[r] # <<>> =>
       /\ Sent(buf[r][1])
       /\ fifo_id[r] # "none" =>
            /\ fifo_id[buf[r][1][1]] \in {fifo_id[r], "none"}
            /\ \A i \in 1 .. Len(data[fifo_id[r]]) : data[fifo_id[r]][i] # buf[r][1]
  /\ Len(out[r]) = 1 => out[r][1] = Shown(buf[r])
  /\ Len(out[r]) = 2 /\ out[r][1] = out[r][2] /\ out[r][1] # nothing =>
       Sent(out[r][1]) /\ fifo_id[out[r][1][1]] = "none"

RepeatInv == (\A f \in Procs : Queued(f)) /\ (\A r \in Reading : Seen(r))

\* A sender that has opened its FIFO and a reader that has got something open no other.
LEMMA Settled ==
  ASSUME TypeInv, NEW p \in Procs, Step(p) \/ Kill(p)
  PROVE  /\ \A q \in Procs : pc[q] \in Nat /\ pc'[q] \in Nat /\ pc'[q] >= pc[q]
         /\ \A q \in Sending : pc[q] > OpenAt(q) => fifo_id'[q] \in {fifo_id[q], "none"}
         /\ \A r \in Reading : buf[r] # <<>> => fifo_id'[r] \in {fifo_id[r], "none"}
<1>1. /\ \A q \in Procs : OpenAt(q) \in Nat /\ pc[q] \in Nat
      /\ \A r \in Reading : r \in Procs /\ r \notin Sending /\ OpenAt(r) = 1
      /\ \A q \in Sending : q \in Procs
  BY ClassFacts DEF OpenAt, TypeInv, Types, TmpTest
<1>2. CASE Ended(p)
  <2>1. /\ pc' = pc
        /\ \A q \in Procs : fifo_id'[q] = IF q = p THEN "none" ELSE fifo_id[q]
    BY <1>2, EndedFacts, CloseFacts DEF TypeInv
  <2> QED BY <1>1, <2>1
<1>3. CASE Closed(p)
  <2>1. /\ \A q \in Procs : pc'[q] = IF q = p THEN pc[p] + 1 ELSE pc[q]
        /\ \A q \in Procs : fifo_id'[q] = IF q = p THEN "none" ELSE fifo_id[q]
    BY <1>3, AdvanceFacts, CloseFacts DEF TypeInv, Closed
  <2> QED BY <1>1, <2>1
<1>4. CASE Opened(p)
  <2>1. /\ \A q \in Procs : pc'[q] = IF q = p THEN pc[p] + 1 ELSE pc[q]
        /\ \A q \in Procs \ {p} : fifo_id'[q] = fifo_id[q]
        /\ pc[p] = OpenAt(p)
    BY <1>4, AdvanceFacts, OpenedFacts DEF TypeInv, Opened
  <2>2. p \in Reading => buf[p] = <<>>
    BY <1>1, <2>1 DEF TypeInv, Placed
  <2> QED BY <1>1, <2>1, <2>2
<1>5. CASE Made(p) \/ Removed(p) \/ Failed(p) \/ Wrote(p) \/ Got(p)
  <2>1. /\ \A q \in Procs : pc'[q] = IF q = p THEN pc[p] + 1 ELSE pc[q]
        /\ fifo_id' = fifo_id
    BY <1>5, AdvanceFacts DEF TypeInv, Made, Removed, Failed, Wrote, Got
  <2> QED BY <1>1, <2>1
<1> QED BY <1>2, <1>3, <1>4, <1>5, Kinds DEF TypeInv

LEMMA SentKept ==
  ASSUME TypeInv, NEW p \in Procs, Step(p) \/ Kill(p), NEW m \in Message, Sent(m)
  PROVE  Sent(m)' /\ fifo_id'[m[1]] \in {fifo_id[m[1]], "none"}
<1>1. m[1] \in Procs /\ OpenAt(m[1]) \in Nat
  BY ClassFacts DEF Sent, OpenAt
<1>2. pc'[m[1]] >= pc[m[1]] /\ pc[m[1]] \in Nat /\ pc'[m[1]] \in Nat
  BY <1>1, Settled
<1>3. OpenAt(m[1]) < pc'[m[1]]
  BY <1>1, <1>2 DEF Sent
<1>4. m[2] < pc[m[1]] => m[2] < pc'[m[1]]
  BY <1>2 DEF Message
<1> QED BY <1>3, <1>4, Settled DEF Sent

\* A FIFO that is left alone, or lost.
LEMMA QueuedKept ==
  ASSUME TypeInv, NEW p \in Procs, Step(p) \/ Kill(p), NEW f \in Procs, Queued(f),
         data'[f] = data[f] \/ data'[f] = <<>>
  PROVE  Queued(f)'
<1>1. CASE data'[f] = <<>>
  BY <1>1 DEF Queued
<1>2. CASE data'[f] = data[f]
  <2>1. ASSUME NEW i \in 1 .. Len(data[f])
        PROVE  Sent(data[f][i])' /\ fifo_id'[data[f][i][1]] \in {f, "none"}
    <3>1. data[f][i] \in Message
      BY ElementOfSeq DEF TypeInv, Types
    <3>2. PICK m \in Message : m = data[f][i] /\ m = data'[f][i]
      BY <1>2, <3>1
    <3>3. Sent(m) /\ fifo_id[m[1]] \in {f, "none"}
      BY <3>2 DEF Queued
    <3>4. Sent(m)' /\ fifo_id'[m[1]] \in {fifo_id[m[1]], "none"}
      BY <3>3, SentKept
    <3> QED BY <3>2, <3>3, <3>4 DEF Sent
  <2> QED BY <1>2, <2>1 DEF Queued
<1> QED BY <1>1, <1>2

\* A reader that reads nothing, while its FIFO does not get again what it got from it.
LEMMA SeenKept ==
  ASSUME TypeInv, NEW p \in Procs, Step(p) \/ Kill(p), NEW r \in Reading, Seen(r),
         buf'[r] = buf[r], out'[r] = out[r],
         fifo_id[r] # "none" /\ buf[r] # <<>> =>
           \A i \in 1 .. Len(data'[fifo_id[r]]) : data'[fifo_id[r]][i] # buf[r][1]
  PROVE  Seen(r)'
<1>1. \A x \in Message : Sent(x) => Sent(x)' /\ fifo_id'[x[1]] \in {fifo_id[x[1]], "none"}
  BY SentKept
<1>2. ASSUME buf[r] # <<>>
      PROVE  /\ Sent(buf[r][1])'
             /\ fifo_id'[r] # "none" =>
                  /\ fifo_id'[buf[r][1][1]] \in {fifo_id'[r], "none"}
                  /\ \A i \in 1 .. Len(data'[fifo_id'[r]]) : data'[fifo_id'[r]][i] # buf[r][1]
  <2>1. buf[r] \in Seq(Message) /\ Len(buf[r]) > 0 /\ fifo_id'[r] \in {fifo_id[r], "none"}
    BY <1>2, EmptySeq, Settled DEF TypeInv, Types
  <2>2. PICK m \in Message : m = buf[r][1] /\ m = buf'[r][1]
    BY <2>1, ElementOfSeq
  <2>3. Sent(m) /\ (fifo_id[r] # "none" => fifo_id[m[1]] \in {fifo_id[r], "none"})
    BY <1>2, <2>2 DEF Seen
  <2>4. Sent(m)' /\ fifo_id'[m[1]] \in {fifo_id[m[1]], "none"}
    BY <1>1, <2>3
  <2> QED BY <1>2, <2>1, <2>2, <2>3, <2>4 DEF Sent
<1>3. Len(out'[r]) = 1 => out'[r][1] = Shown(buf'[r])
  BY DEF Seen
<1>4. ASSUME Len(out[r]) = 2, out[r][1] = out[r][2], out[r][1] # nothing
      PROVE  Sent(out[r][1])' /\ fifo_id'[out[r][1][1]] = "none"
  <2>1. out[r][1] \in Message
    <3>1. out[r] \in Seq(Message \cup {nothing}) /\ 1 \in 1 .. Len(out[r])
      BY <1>4 DEF TypeInv, Types
    <3>2. out[r][1] \in Message \cup {nothing}
      BY <3>1, ElementOfSeq
    <3> QED BY <1>4, <3>2
  <2>2. PICK m \in Message : m = out[r][1] /\ m = out'[r][1]
    BY <2>1
  <2>3. Sent(m) /\ fifo_id[m[1]] = "none"
    BY <1>4, <2>2 DEF Seen
  <2>4. Sent(m)' /\ fifo_id'[m[1]] = "none"
    BY <1>1, <2>3
  <2> QED BY <2>2, <2>4 DEF Sent
<1> QED BY <1>2, <1>3, <1>4 DEF Seen, nothing

LEMMA RepeatStep == TypeInv /\ RepeatInv /\ [Next]_vars => RepeatInv'
<1> SUFFICES ASSUME TypeInv, RepeatInv, [Next]_vars PROVE RepeatInv'
  OBVIOUS
<1>0. CASE UNCHANGED vars
  BY <1>0 DEF vars, fifoVars, RepeatInv, Queued, Seen, Sent
<1> SUFFICES ASSUME NEW p \in Procs, Step(p) \/ Kill(p) PROVE RepeatInv'
  BY <1>0 DEF Next
<1>1. ASSUME \A f \in Procs : data'[f] = data[f] \/ data'[f] = <<>>, UNCHANGED <<buf, out>>
      PROVE  RepeatInv'
  <2>1. \A f \in Procs : Queued(f)'
    BY <1>1, QueuedKept DEF RepeatInv
  <2>2. ASSUME NEW r \in Reading PROVE Seen(r)'
    <3>1. Seen(r) /\ fifo_id[r] \in Procs \cup {"none"} /\ buf'[r] = buf[r] /\ out'[r] = out[r]
      BY <1>1, ClassFacts DEF RepeatInv, TypeInv, Types
    <3>2. fifo_id[r] # "none" /\ buf[r] # <<>> =>
            \A i \in 1 .. Len(data'[fifo_id[r]]) : data'[fifo_id[r]][i] # buf[r][1]
      BY <1>1, <3>1 DEF Seen
    <3> QED BY <3>1, <3>2, SeenKept
  <2> QED BY <2>1, <2>2 DEF RepeatInv
<1>2. CASE Ended(p)
  BY <1>1, <1>2, EndedFacts, CloseFacts DEF TypeInv
<1>3. CASE Closed(p)
  BY <1>1, <1>3, CloseFacts DEF Closed, TypeInv
<1>4. CASE Made(p) \/ Removed(p) \/ Opened(p) \/ Failed(p)
  BY <1>1, <1>4 DEF Made, Removed, Opened, Failed
<1>5. CASE Wrote(p)
  <2> PICK f \in Procs : f = fifo_id[p]
    BY <1>5, WroteFacts DEF TypeInv
  <2>1. PICK m \in Message : m = <<p, pc[p]>>
    BY <1>5, WroteFacts DEF TypeInv
  <2>2. /\ f \in Procs /\ UNCHANGED <<name, fifo_id, opening, buf, out>>
        /\ \A g \in Procs : data'[g] = IF g = f THEN Append(data[f], m) ELSE data[g]
    BY <1>5, <2>1, WroteFacts DEF TypeInv
  <2>3. m[1] = p /\ m[2] = pc[p] /\ pc[p] \in Nat /\ pc'[p] = pc[p] + 1 /\ OpenAt(p) \in Nat
    BY <1>5, <2>1, AdvanceFacts DEF Wrote, TypeInv, Types, OpenAt
  <2>4. Sent(m)' /\ fifo_id'[m[1]] = f
    BY <1>5, <2>2, <2>3 DEF Sent, Wrote
  <2>5. \A x \in Message : Sent(x) => x # m
    BY <2>3 DEF Sent
  <2>6. data[f] \in Seq(Message) /\ Len(data[f]) \in Nat
    BY <2>2 DEF TypeInv, Types
  <2>7. \A i \in 1 .. Len(data[f]) : data[f][i] \in Message /\ data[f][i] # m
    BY <2>2, <2>5, <2>6, ElementOfSeq DEF RepeatInv, Queued
  <2>8. /\ Len(data'[f]) = Len(data[f]) + 1 /\ data'[f][Len(data[f]) + 1] = m
        /\ \A i \in 1 .. Len(data[f]) : data'[f][i] = data[f][i]
    <3>1. data'[f] = Append(data[f], m)
      BY <2>2
    <3> QED BY <2>6, <3>1
  <2>9. Queued(f)'
    <3>1. ASSUME NEW i \in 1 .. Len(data[f])
          PROVE  Sent(data[f][i])' /\ fifo_id'[data'[f][i][1]] \in {f, "none"}
      <4>1. PICK x \in Message : x = data[f][i] /\ x = data'[f][i]
        BY <2>7, <2>8
      <4>2. Sent(x) /\ fifo_id[x[1]] \in {f, "none"}
        <5>1. Queued(f)
          BY DEF RepeatInv
        <5> QED BY <4>1, <5>1 DEF Queued
      <4>3. Sent(x)' /\ fifo_id'[x[1]] \in {f, "none"}
        BY <2>2, <4>2, SentKept
      <4> QED BY <4>1, <4>3 DEF Sent
    <3>2. ASSUME NEW i \in 1 .. Len(data'[f])
          PROVE  Sent(data[f][i])' /\ fifo_id'[data'[f][i][1]] \in {f, "none"}
      <4>1. CASE i = Len(data[f]) + 1
        BY <2>3, <2>4, <2>8, <4>1 DEF Sent
      <4>2. CASE i \in 1 .. Len(data[f])
        BY <3>1, <4>2
      <4> QED BY <2>6, <2>8, <4>1, <4>2
    <3>3. ASSUME NEW i \in 1 .. Len(data'[f]), NEW j \in 1 .. Len(data'[f]), data'[f][i] = data'[f][j]
          PROVE  i = j
      <4>1. \A k \in 1 .. Len(data'[f]) : k \in 1 .. Len(data[f]) \/ k = Len(data[f]) + 1
        BY <2>6, <2>8
      <4>2. i \in 1 .. Len(data[f]) /\ j \in 1 .. Len(data[f]) => i = j
        BY <2>8, <3>3 DEF RepeatInv, Queued
      <4> QED BY <2>7, <2>8, <3>3, <4>1, <4>2
    <3> QED BY <3>2, <3>3 DEF Queued
  <2>10. \A g \in Procs : Queued(g)'
    BY <2>2, <2>9, QueuedKept DEF RepeatInv
  <2>11. ASSUME NEW r \in Reading PROVE Seen(r)'
    <3>1. Seen(r) /\ fifo_id[r] \in Procs \cup {"none"} /\ buf'[r] = buf[r] /\ out'[r] = out[r]
      BY <2>2, ClassFacts DEF RepeatInv, TypeInv, Types
    <3>2. ASSUME fifo_id[r] # "none", buf[r] # <<>>
          PROVE \A i \in 1 .. Len(data'[fifo_id[r]]) : data'[fifo_id[r]][i] # buf[r][1]
      <4>1. buf[r][1] \in Message /\ buf[r][1] # m
        <5>1. buf[r] \in Seq(Message) /\ Len(buf[r]) > 0
          BY <3>2, EmptySeq DEF TypeInv, Types
        <5>2. buf[r][1] \in Message
          BY <5>1, ElementOfSeq
        <5> QED BY <2>5, <3>1, <3>2, <5>2 DEF Seen
      <4>2. CASE fifo_id[r] = f
        <5>1. \A i \in 1 .. Len(data[f]) : data[f][i] # buf[r][1]
          BY <3>1, <3>2, <4>2 DEF Seen
        <5> QED BY <2>6, <2>8, <4>1, <4>2, <5>1
      <4>3. CASE fifo_id[r] # f
        BY <2>2, <3>1, <3>2, <4>3 DEF Seen
      <4> QED BY <4>2, <4>3
    <3> QED BY <3>1, <3>2, SeenKept
  <2> QED BY <2>10, <2>11 DEF RepeatInv
<1>6. CASE Got(p)
  <2> PICK f \in Procs : f = fifo_id[p]
    BY <1>6, GotFacts
  <2>0. PICK n \in Nat : LET g == fifo_id[p] IN
         /\ g \in Procs /\ n <= Len(data[g]) /\ (data[g] # <<>> => n > 0)
         /\ data[g] # <<>> /\ p \in Readers => n = Len(data[g])
         /\ data[g] = <<>> => Holders(g, Sending) = {}
         /\ \A h \in Procs : data'[h] = IF h = g THEN SubSeq(data[g], n + 1, Len(data[g])) ELSE data[h]
         /\ data' \in [Procs -> Seq(Message)]
         /\ \A r \in Reading : buf'[r] = IF r = p /\ n > 0 THEN SubSeq(data[g], 1, n) ELSE buf[r]
         /\ buf' \in [Reading -> Seq(Message)]
         /\ \A r \in Reading : out'[r] = IF r = p THEN Append(out[r], Shown(buf'[r])) ELSE out[r]
         /\ Shown(buf'[p]) \in Message \cup {nothing}
         /\ out' \in [Reading -> Seq(Message \cup {nothing})]
         /\ UNCHANGED <<name, fifo_id, opening, sent>>
    BY <1>6, GotFacts
  <2>1. /\ n \in Nat /\ f \in Procs /\ n <= Len(data[f]) /\ (data[f] # <<>> => n > 0)
        /\ data[f] = <<>> => Holders(f, Sending) = {}
        /\ \A g \in Procs : data'[g] = IF g = f THEN SubSeq(data[f], n + 1, Len(data[f])) ELSE data[g]
        /\ \A r \in Reading : buf'[r] = IF r = p /\ n > 0 THEN SubSeq(data[f], 1, n) ELSE buf[r]
        /\ \A r \in Reading : out'[r] = IF r = p THEN Append(out[r], Shown(buf'[r])) ELSE out[r]
        /\ UNCHANGED <<name, fifo_id, opening, sent>>
    BY <2>0
  <2>2. data[f] \in Seq(Message) /\ Len(data[f]) \in Nat /\ p \in Reading
    BY <1>6, <2>1 DEF TypeInv, Types, Got
  <2>3. /\ Len(data'[f]) = Len(data[f]) - n
        /\ \A i \in 1 .. Len(data[f]) - n : data'[f][i] = data[f][n + i]
    <3>1. data'[f] = SubSeq(data[f], n + 1, Len(data[f]))
      BY <2>1
    <3>2. \A i \in n + 1 .. Len(data[f]) : data[f][i] \in Message
      BY <2>2, ElementOfSeq
    <3> DEFINE last == Len(data[f])
               left == SubSeq(data[f], n + 1, last)
    <3>3. n + 1 \in Int /\ last \in Int /\ n <= last
      BY <2>1, <2>2
    <3>4. /\ Len(left) = IF n + 1 <= last THEN last - (n + 1) + 1 ELSE 0
          /\ \A i \in 1 .. last - (n + 1) + 1 : left[i] = data[f][(n + 1) + i - 1]
      <4> HIDE DEF last
      <4> QED BY <3>2, <3>3, SubSeqProperties DEF last
    <3> HIDE DEF last, left
    <3>5. Len(left) = last - n
      BY <2>1, <3>3, <3>4
    <3>6. \A i \in 1 .. last - n : left[i] = data[f][n + i]
      <4>1. last - (n + 1) + 1 = last - n /\ \A i \in 1 .. last - n : (n + 1) + i - 1 = n + i
        BY <2>1, <3>3
      <4> QED BY <3>4, <4>1
    <3> QED BY <3>1, <3>5, <3>6 DEF last, left
  <2>4. \A x \in Message : Sent(x) => Sent(x)' /\ fifo_id'[x[1]] = fifo_id[x[1]]
    BY <2>1, SentKept
  <2>5. Queued(f)'
    <3>1. ASSUME NEW i \in 1 .. Len(data'[f])
          PROVE  Sent(data[f][i])' /\ fifo_id'[data'[f][i][1]] \in {f, "none"}
      <4>1. n + i \in 1 .. Len(data[f]) /\ data'[f][i] = data[f][n + i]
        BY <2>2, <2>3
      <4>2. PICK x \in Message : x = data[f][n + i] /\ x = data'[f][i]
        BY <2>2, <4>1, ElementOfSeq
      <4>3. Sent(x)' /\ fifo_id'[x[1]] \in {f, "none"}
        BY <2>1, <2>4, <4>1, <4>2 DEF RepeatInv, Queued
      <4> QED BY <4>2, <4>3 DEF Sent
    <3>2. ASSUME NEW i \in 1 .. Len(data'[f]), NEW j \in 1 .. Len(data'[f]), data'[f][i] = data'[f][j]
          PROVE  i = j
      <4>1. n + i \in 1 .. Len(data[f]) /\ n + j \in 1 .. Len(data[f])
            /\ data[f][n + i] = data[f][n + j]
        BY <2>1, <2>2, <2>3, <3>2
      <4>2. n + i = n + j
        BY <2>1, <4>1 DEF RepeatInv, Queued
      <4> QED BY <4>2
    <3> QED BY <2>1, <3>1, <3>2 DEF Queued
  <2>6. \A g \in Procs : Queued(g)'
    BY <2>1, <2>5, QueuedKept DEF RepeatInv
  <2>7. ASSUME NEW r \in Reading \ {p} PROVE Seen(r)'
    <3>1. Seen(r) /\ fifo_id[r] \in Procs \cup {"none"} /\ buf'[r] = buf[r] /\ out'[r] = out[r]
      BY <2>1, ClassFacts DEF RepeatInv, TypeInv, Types
    <3>2. fifo_id[r] # "none" /\ buf[r] # <<>> =>
            \A i \in 1 .. Len(data'[fifo_id[r]]) : data'[fifo_id[r]][i] # buf[r][1]
      <4>1. CASE fifo_id[r] # f
        BY <2>1, <3>1, <4>1 DEF Seen
      <4>2. ASSUME fifo_id[r] = f, buf[r] # <<>>, NEW i \in 1 .. Len(data'[f])
            PROVE  data'[f][i] # buf[r][1]
        <5>1. n + i \in 1 .. Len(data[f]) /\ data'[f][i] = data[f][n + i]
          BY <2>1, <2>2, <2>3
        <5>2. f # "none"
          BY <2>1, ClassFacts
        <5> QED BY <3>1, <4>2, <5>1, <5>2 DEF Seen
      <4> QED BY <4>1, <4>2
    <3> QED BY <3>1, <3>2, SeenKept
  <2>8. Seen(p)'
    <3>1. fifo_id'[p] = f /\ f # "none" /\ out[p] \in Seq(Message \cup {nothing}) /\ Seen(p)
      BY <2>1, <2>2, ClassFacts DEF TypeInv, Types, RepeatInv
    <3>2. /\ buf[p] \in Seq(Message) /\ (buf[p] # <<>> => Len(buf[p]) > 0 /\ buf[p][1] \in Message)
      <4>1. buf[p] \in Seq(Message)
        BY <2>2 DEF TypeInv, Types
      <4>2. buf[p] # <<>> => Len(buf[p]) > 0
        BY <4>1, EmptySeq
      <4> QED BY <4>1, <4>2, ElementOfSeq
    <3>3. ASSUME n > 0
          PROVE  /\ buf'[p] # <<>> /\ buf'[p][1] = data[f][1] /\ data[f][1] \in Message
                 /\ Sent(data[f][1]) /\ fifo_id[data[f][1][1]] \in {f, "none"}
                 /\ \A i \in 1 .. Len(data'[f]) : data'[f][i] # data[f][1]
      <4>1. buf'[p] = SubSeq(data[f], 1, n) /\ 1 \in 1 .. Len(data[f])
        <5>1. buf'[p] = SubSeq(data[f], 1, n)
          BY <2>1, <2>2, <3>3
        <5>2. 1 \in 1 .. Len(data[f])
          BY <2>1, <2>2, <3>3
        <5> QED BY <5>1, <5>2
      <4>2. \A i \in 1 .. n : data[f][i] \in Message
        BY <2>1, <2>2, ElementOfSeq
      <4>3. Len(SubSeq(data[f], 1, n)) = n /\ SubSeq(data[f], 1, n)[1] = data[f][1]
        BY <2>1, <2>2, <3>3, <4>2, SubSeqProperties
      <4>4. \A i \in 1 .. Len(data'[f]) : n + i \in 1 .. Len(data[f]) /\ n + i # 1
        BY <2>2, <2>3, <3>3
      <4>5. \A i \in 1 .. Len(data'[f]) : data'[f][i] # data[f][1]
        <5>1. \A i, j \in 1 .. Len(data[f]) : data[f][i] = data[f][j] => i = j
          BY <2>1 DEF RepeatInv, Queued
        <5>2. ASSUME NEW i \in 1 .. Len(data'[f]) PROVE data'[f][i] # data[f][1]
          <6>1. data'[f][i] = data[f][n + i]
            BY <2>3, <5>2
          <6> QED BY <4>1, <4>4, <5>1, <5>2, <6>1
        <5> QED BY <5>2
      <4>6. SubSeq(data[f], 1, n) # <<>>
        <5>1. Len(SubSeq(data[f], 1, n)) # 0
          BY <2>1, <3>3, <4>3
        <5>2. Len(<<>>) = 0
          OBVIOUS
        <5> QED BY <5>1, <5>2
      <4>7. Sent(data[f][1]) /\ fifo_id[data[f][1][1]] \in {f, "none"} /\ data[f][1] \in Message
        BY <2>1, <2>2, <4>1, ElementOfSeq DEF RepeatInv, Queued
      <4> QED BY <4>1, <4>3, <4>5, <4>6, <4>7
    <3>4. ASSUME buf'[p] # <<>>
          PROVE  /\ Sent(buf[p][1])' /\ fifo_id'[buf'[p][1][1]] \in {f, "none"}
                 /\ \A i \in 1 .. Len(data'[f]) : data'[f][i] # buf'[p][1]
      <4>1. CASE n > 0
        <5>1. PICK m \in Message : m = data[f][1] /\ m = buf'[p][1]
          BY <3>3, <4>1
        <5>2. Sent(m)' /\ fifo_id'[m[1]] \in {f, "none"}
          BY <2>4, <3>3, <4>1, <5>1
        <5> QED BY <3>3, <4>1, <5>1, <5>2 DEF Sent
      <4>2. CASE n = 0
        <5>1. buf'[p] = buf[p] /\ data[f] = <<>> /\ Len(data'[f]) = 0
          BY <2>1, <2>2, <2>3, <4>2
        <5>2. PICK m \in Message : m = buf[p][1] /\ m = buf'[p][1]
          BY <3>2, <3>4, <5>1
        <5>3. Sent(m)' /\ fifo_id'[m[1]] \in {f, "none"}
          BY <2>4, <3>1, <3>4, <5>1, <5>2 DEF Seen
        <5> QED BY <5>1, <5>2, <5>3 DEF Sent
      <4> QED BY <4>1, <4>2
    <3> DEFINE shown == Shown(buf'[p])
    <3>5. shown \in Message \cup {nothing}
      BY <2>0
    <3>6. out'[p] = Append(out[p], shown)
      BY <2>1, <2>2
    <3> HIDE DEF shown
    <3>7. /\ Len(out'[p]) = Len(out[p]) + 1 /\ out'[p][Len(out[p]) + 1] = shown
          /\ \A i \in 1 .. Len(out[p]) : out'[p][i] = out[p][i]
          /\ Len(out[p]) \in Nat
      BY <3>1, <3>5, <3>6
    <3>8. Len(out'[p]) = 1 => out'[p][1] = Shown(buf'[p])
      BY <3>7 DEF shown
    <3>9. ASSUME Len(out'[p]) = 2, out'[p][1] = out'[p][2], out'[p][1] # nothing
          PROVE  Sent(out[p][1])' /\ fifo_id'[out'[p][1][1]] = "none"
      <4>1. Len(out[p]) = 1 /\ out'[p][1] = Shown(buf[p]) /\ shown = Shown(buf[p])
        <5>1. Len(out[p]) = 1 /\ out'[p][2] = shown /\ out'[p][1] = out[p][1]
          <6>1. Len(out[p]) = 1
            <7> DEFINE before == Len(out[p])
                       after == Len(out'[p])
            <7>1. after = before + 1 /\ before \in Nat /\ after = 2
              BY <3>7, <3>9
            <7> HIDE DEF before, after
            <7>2. before = 1
              BY <7>1
            <7> QED BY <7>2 DEF before
          <6>2. 1 \in 1 .. Len(out[p]) /\ Len(out[p]) + 1 = 2
            BY <6>1
          <6> QED BY <3>7, <6>1, <6>2
        <5>2. out[p][1] = Shown(buf[p])
          BY <3>1, <5>1 DEF Seen
        <5> QED BY <3>9, <5>1, <5>2
      <4>2. buf[p] # <<>> /\ Shown(buf[p]) = buf[p][1]
        BY <3>9, <4>1 DEF Shown
      <4>3. buf'[p] # <<>> /\ shown = buf'[p][1]
        BY <3>9, <4>1 DEF shown, Shown
      <4>4. n = 0
        <5>1. n > 0 => buf'[p][1] # buf[p][1]
          <6>1. ASSUME n > 0, data[f][1] = buf[p][1] PROVE FALSE
            <7>1. 1 \in 1 .. Len(data[f])
              BY <2>1, <2>2, <6>1
            <7> QED BY <3>1, <4>2, <6>1, <7>1 DEF Seen
          <6> QED BY <3>3, <6>1
        <5> QED BY <2>1, <4>1, <4>2, <4>3, <5>1
      <4>5. Holders(f, Sending) = {}
        BY <2>1, <4>4
      <4>6. PICK m \in Message : m = buf[p][1] /\ m = out'[p][1]
        BY <3>2, <4>1, <4>2
      <4>7. Sent(m) /\ fifo_id[m[1]] \in {f, "none"}
        BY <3>1, <4>2, <4>6 DEF Seen
      <4>8. fifo_id[m[1]] = "none"
        BY <4>5, <4>7 DEF Sent, Holders
      <4>9. Sent(m)' /\ fifo_id'[m[1]] = "none"
        BY <2>4, <4>7, <4>8
      <4> QED BY <4>6, <4>9 DEF Sent
    <3> QED BY <3>1, <3>4, <3>8, <3>9 DEF Seen, nothing
  <2> QED BY <2>6, <2>7, <2>8 DEF RepeatInv
<1> QED BY <1>2, <1>3, <1>4, <1>5, <1>6, Kinds DEF TypeInv

\* A reader that prints a message twice, as if it had come again, does so only after
\* the sender has closed the FIFO: read() returns 0 only then, and the sender has no
\* other FIFO to send it through.
THEOREM RepeatMeansClosedCorrect == Spec => []RepeatMeansClosed
<1>1. TypeInv /\ RepeatInv => RepeatMeansClosed
  BY DEF RepeatInv, Seen, RepeatMeansClosed
<1>2. Init => RepeatInv
  <2> SUFFICES ASSUME Init PROVE RepeatInv
    OBVIOUS
  <2>1. /\ \A f \in Procs : data[f] = <<>>
        /\ \A r \in Reading : buf[r] = <<>> /\ out[r] = <<>>
    BY DEF Init, FifoInit
  <2> QED BY <2>1 DEF RepeatInv, Queued, Seen
<1> QED BY <1>1, <1>2, TypeInit, TypeStep, RepeatStep, PTL DEF Spec
-----------------------------------------------------------------------------
\* Two writers keep their FIFOs apart

\* The programs of one directory only.
Home ==
  /\ \A p \in Procs : status[p] = "elsewhere" => pc[p] = 1
  /\ \/ \A p \in TestProgs : status[p] = "elsewhere"
     \/ \A p \in TmpTest : status[p] = "elsewhere"

\* A writer that has made its FIFO and not opened it yet finds it under the name, or
\* nothing, and then the other writer has gone ahead.
Own(w) ==
  /\ fifo_id[w] \in {w, "none"}
  /\ pc[w] = 2 => name = w \/ (name = "none" /\ \E v \in Writers \ {w} : pc[v] > 2)
  /\ \A i \in 1 .. Len(data[w]) : data[w][i][1] = w

\* What a reader has is from one FIFO, whose writer has opened it.
From(r, w) == \A m \in (Contents(buf[r]) \cup Contents(out[r])) \ {nothing} : m[1] = w

OneSource(r) ==
  /\ fifo_id[r] \in Writers \cup {"none"}
  /\ fifo_id[r] # "none" => From(r, fifo_id[r]) /\ (r \notin opening => pc[fifo_id[r]] > 2)
  /\ \E w \in Procs : From(r, w)

Apart ==
  /\ name \in Writers \cup {"none"}
  /\ \A w \in Writers : Own(w)
  /\ \A r \in Readers : OneSource(r)

ApartInv ==
  Home /\ (Undisturbed /\ (\A p \in TmpTest : status[p] = "elsewhere") => Apart)

\* Every writer sends one message, to readers that have not read yet.
Kept(w) ==
  /\ sent[w] # <<>> => sent[w] = <<<<w, 3>>>>
  /\ pc[w] <= 3 => sent[w] = <<>> /\ data[w] = <<>>
  /\ (fifo_id[w] # "none" /\ pc[w] <= 3) \/ data[w] # <<>> =>
       \A r \in Readers : fifo_id[r] = w => pc[r] <= 3
  /\ data[w] # <<>> => data[w] = <<<<w, 3>>>> /\ \E r \in Readers : fifo_id[r] = w
  /\ sent[w] # <<>> /\ data[w] = <<>> => \E r \in Readers : <<w, 3>> \in Contents(out[r])

Asleep == \A r \in Readers : r \in opening => pc[r] = 2

KeptInv ==
  /\ \A w \in Writers : status[w] = "elsewhere" => sent[w] = <<>>
  /\ Undisturbed /\ (\A p \in TmpTest : status[p] = "elsewhere") =>
       Asleep /\ \A w \in Writers : Kept(w)

\* The user's hand off the name, seen from the next state.
LEMMA UndisturbedBefore ==
  ASSUME TypeInv, NEW p \in Procs, Step(p) \/ Kill(p), Undisturbed'
  PROVE  Undisturbed
<1>1. \A q \in Procs : pc[q] \in Nat /\ pc'[q] \in Nat /\ pc[q] <= pc'[q] /\ pc[q] >= 1
  BY Settled DEF TypeInv, Types
<1>2. (Creators \cup Removers) \cup Writers \subseteq Procs
  BY ClassFacts
<1>3. \A q \in Creators \cup Removers : pc[q] = 1
  BY <1>1, <1>2 DEF Undisturbed
<1>4. \A w \in Writers : pc[w] > 1 => pc'[w] > 1
  BY <1>1, <1>2
<1> QED BY <1>3, <1>4 DEF Undisturbed

LEMMA HomeStep ==
  ASSUME TypeInv, Home, NEW p \in Procs, Step(p) \/ Kill(p)
  PROVE  Home' /\ \A q \in Procs : status'[q] = "elsewhere" <=> status[q] = "elsewhere"
<1>1. /\ status[p] = "running" /\ status'[p] # "elsewhere"
      /\ \A q \in Procs \ {p} : status'[q] = status[q] /\ pc'[q] = pc[q]
  <2>1. CASE Ended(p)
    BY <2>1, EndedFacts DEF TypeInv, Ended, end, Types, Statuses
  <2>2. CASE Made(p) \/ Removed(p) \/ Closed(p) \/ Opened(p) \/ Failed(p) \/ Wrote(p) \/ Got(p)
    BY <2>2, AdvanceFacts DEF TypeInv, Made, Removed, Closed, Opened, Failed, Wrote, Got
  <2> QED BY <2>1, <2>2, Kinds DEF TypeInv
<1>2. TestProgs \subseteq Procs /\ TmpTest \subseteq Procs
  BY DEF Procs
<1> QED BY <1>1, <1>2 DEF Home

\* In the directory of test_progs, and without fifo_create and fifo_remove, only
\* writers and readers do anything.
LEMMA OnlyTestProgs ==
  ASSUME TypeInv, Home, \A q \in TmpTest : status[q] = "elsewhere"
  PROVE  /\ \A q \in Sending : fifo_id[q] # "none" => q \in Writers
         /\ \A q \in Reading : fifo_id[q] # "none" => q \in Readers
         /\ \A q \in TmpTest : status[q] # "running" /\ fifo_id[q] = "none"
<1>1. \A q \in TmpTest : q \in Procs /\ pc[q] = 1 /\ OpenAt(q) \in {1, 2}
  BY DEF Home, Procs, OpenAt
<1>2. \A q \in TmpTest : fifo_id[q] = "none"
  BY <1>1 DEF TypeInv, Placed
<1> QED BY <1>2, ClassFacts DEF TmpTest

LEMMA OnlyWritersReaders ==
  ASSUME TypeInv, Home, \A q \in TmpTest : status[q] = "elsewhere", Undisturbed',
         NEW p \in Procs, Step(p) \/ Kill(p)
  PROVE  /\ Ended(p) \/ p \in Writers \/ p \in Readers
         /\ ~Ended(p) => /\ \A q \in Procs : pc'[q] = IF q = p THEN pc[p] + 1 ELSE pc[q]
                         /\ status' = status /\ status[p] = "running"
<1>1. status[p] = "running" => p \notin TmpTest
  BY OnlyTestProgs
<1>2. ASSUME Made(p) \/ Removed(p) \/ Closed(p) \/ Opened(p) \/ Failed(p) \/ Wrote(p) \/ Got(p)
      PROVE  /\ p \in Writers \/ p \in Readers
             /\ \A q \in Procs : pc'[q] = IF q = p THEN pc[p] + 1 ELSE pc[q]
             /\ status' = status /\ status[p] = "running"
  <2>1. Advance(p)
    BY <1>2 DEF Made, Removed, Closed, Opened, Failed, Wrote, Got
  <2>2. /\ \A q \in Procs : pc'[q] = IF q = p THEN pc[p] + 1 ELSE pc[q]
        /\ status' = status /\ status[p] = "running"
    BY <2>1, AdvanceFacts DEF TypeInv
  <2>3. pc'[p] # 1
    BY <2>2 DEF TypeInv, Types
  <2>4. p \notin Creators \cup Removers
    BY <2>3 DEF Undisturbed
  <2> QED BY <1>1, <2>2, <2>4, ClassFacts DEF TmpTest
<1> QED BY <1>2, Kinds DEF TypeInv

\* A FIFO or its end goes away.
LEMMA ApartClose ==
  ASSUME TypeInv, Apart, NEW p \in Procs, close(p), UNCHANGED <<name, sent, buf, out>>,
         \A q \in Procs : pc'[q] = pc[q] \/ (pc'[q] = pc[q] + 1 /\ pc[q] > 2)
  PROVE  Apart'
<1>1. /\ \A f \in Procs : data'[f] = data[f] \/ data'[f] = <<>>
      /\ \A q \in Procs : fifo_id'[q] = IF q = p THEN "none" ELSE fifo_id[q]
      /\ opening' = opening \ {p}
  BY CloseFacts DEF TypeInv
<1>2. /\ \A w \in Writers : w \in Procs /\ w # "none"
      /\ \A r \in Readers : r \in Procs /\ r # "none"
      /\ \A q \in Procs : pc[q] \in Nat /\ (pc[q] > 2 => pc'[q] > 2) /\ (pc'[q] = 2 => pc[q] = 2)
  <2>1. \A q \in Procs : pc[q] \in Nat
    BY DEF TypeInv, Types
  <2>2. \A w \in Writers \cup Readers : w \in Procs /\ w # "none"
    BY ClassFacts
  <2> QED BY <2>1, <2>2
<1>3. ASSUME NEW w \in Writers PROVE Own(w)'
  BY <1>1, <1>2 DEF Apart, Own
<1>4. ASSUME NEW r \in Readers PROVE OneSource(r)'
  <2>1. \A w \in Procs : From(r, w) => From(r, w)'
    BY DEF From
  <2> QED BY <1>1, <1>2, <2>1 DEF Apart, OneSource
<1> QED BY <1>3, <1>4 DEF Apart

LEMMA ApartStep ==
  ASSUME TypeInv, Home, \A q \in TmpTest : status[q] = "elsewhere", Undisturbed', Apart,
         NEW p \in Procs, Step(p) \/ Kill(p)
  PROVE  Apart'
<1>1. /\ \A w \in Writers : w \in Procs /\ w # "none" /\ w \in Sending /\ OpenAt(w) = 2
                                 /\ w \notin Readers /\ w \notin Reading
      /\ \A r \in Readers : r \in Procs /\ r # "none" /\ r \in Reading /\ OpenAt(r) = 1 /\ r \notin Sending
      /\ \A q \in Procs : pc[q] \in Nat
  BY ClassFacts DEF OpenAt, TypeInv, Types, TmpTest
<1>2. /\ \A q \in Sending : fifo_id[q] # "none" => q \in Writers
      /\ \A q \in Reading : fifo_id[q] # "none" => q \in Readers
  BY OnlyTestProgs
<1>3. CASE Ended(p)
  BY <1>3, EndedFacts, ApartClose DEF TypeInv
<1>4. ASSUME ~Ended(p)
      PROVE  /\ p \in Writers \/ p \in Readers
             /\ \A q \in Procs : pc'[q] = IF q = p THEN pc[p] + 1 ELSE pc[q]
             /\ status[p] = "running"
  BY <1>4, OnlyWritersReaders
<1>5. ASSUME ~Ended(p), UNCHANGED <<fifo_id, opening, buf, out>>, NEW r \in Readers
      PROVE  OneSource(r)'
  <2>1. \A w \in Procs : From(r, w) => From(r, w)'
    BY <1>5 DEF From
  <2>2. OneSource(r) /\ fifo_id[r] \in Writers \cup {"none"}
    BY DEF Apart, OneSource
  <2>3. fifo_id[r] # "none" /\ r \notin opening => pc'[fifo_id[r]] > 2
    BY <1>1, <1>4, <1>5, <2>2 DEF OneSource
  <2> QED BY <1>1, <1>5, <2>1, <2>2, <2>3 DEF OneSource
<1>6. CASE Closed(p) /\ ~Ended(p)
  BY <1>1, <1>4, <1>6, ApartClose DEF Closed
<1>7. CASE Made(p) /\ ~Ended(p)
  <2>1. /\ p \in Writers /\ pc[p] = 1 /\ name = "none" /\ name' = p
        /\ UNCHANGED <<fifo_id, opening, data, sent, buf, out>>
    BY <1>1, <1>4, <1>7, ClassFacts DEF Made, make_fifo
  <2>2. ASSUME NEW w \in Writers PROVE Own(w)'
    <3>1. w # p => pc[w] # 2
      <4> SUFFICES ASSUME w # p, pc[w] = 2 PROVE FALSE
        OBVIOUS
      <4>1. PICK v \in Writers \ {w} : pc[v] > 2
        BY <2>1, <1>1 DEF Apart, Own
      <4>2. v # p /\ pc'[v] > 1 /\ pc'[w] > 1 /\ pc'[p] > 1
        BY <1>1, <1>4, <1>7, <2>1, <4>1
      <4> QED BY <2>1, <4>1, <4>2 DEF Undisturbed
    <3> QED BY <1>1, <1>4, <1>7, <2>1, <3>1 DEF Apart, Own
  <2>3. ASSUME NEW r \in Readers PROVE OneSource(r)'
    BY <1>5, <1>7, <2>1
  <2> QED BY <2>1, <2>2, <2>3 DEF Apart
<1>8. CASE Removed(p) /\ ~Ended(p)
  <2>1. /\ name' = "none" /\ UNCHANGED <<fifo_id, opening, data, sent, buf, out>>
        /\ p \notin opening /\ ((p \in Writers /\ pc[p] = 4) \/ (p \in Readers /\ pc[p] = 2))
    BY <1>1, <1>4, <1>8, ClassFacts DEF Removed
  <2>2. \E v \in Writers : pc[v] > 2
    <3>1. CASE p \in Writers /\ pc[p] = 4
      BY <3>1
    <3>2. CASE p \in Readers /\ pc[p] = 2
      <4>1. fifo_id[p] # "none" /\ p \notin opening
        BY <1>1, <1>4, <1>8, <3>2 DEF TypeInv, Placed, Removed
      <4> QED BY <3>2, <4>1 DEF Apart, OneSource
    <3> QED BY <2>1, <3>1, <3>2
  <2>3. ASSUME NEW w \in Writers PROVE Own(w)'
    BY <1>1, <1>4, <1>8, <2>1, <2>2 DEF Apart, Own
  <2>4. ASSUME NEW r \in Readers PROVE OneSource(r)'
    BY <1>5, <1>8, <2>1
  <2> QED BY <2>1, <2>3, <2>4 DEF Apart
<1>9. CASE Opened(p) /\ ~Ended(p)
  <2>1. /\ name \in Writers /\ UNCHANGED <<name, data, sent, buf, out>> /\ pc[p] = OpenAt(p)
        /\ \A q \in Procs : fifo_id'[q] = IF q = p THEN name ELSE fifo_id[q]
        /\ opening' = (opening \ Holders(name, Partners(p)))
                      \cup (IF Holders(name, Partners(p)) = {} THEN {p} ELSE {})
    BY <1>9, OpenedFacts, ClassFacts DEF TypeInv, Apart, Opened, open
  <2>2. p \in Writers => name = p /\ pc[p] = 2
    BY <1>1, <2>1 DEF Apart, Own
  <2>3. ASSUME NEW w \in Writers PROVE Own(w)'
    BY <1>1, <1>4, <1>9, <2>1, <2>2 DEF Apart, Own
  <2>4. ASSUME NEW r \in Readers PROVE OneSource(r)'
    <3>1. CASE r = p
      <4>1. Contents(buf[r]) = {} /\ Contents(out[r]) = {}
        BY <1>1, <2>1, <3>1 DEF TypeInv, Placed, Contents
      <4>2. \A w \in Procs : From(r, w)'
        BY <2>1, <4>1 DEF From
      <4>3. r \notin opening' => pc'[name] > 2
        <5> SUFFICES ASSUME r \notin opening' PROVE pc'[name] > 2
          OBVIOUS
        <5>1. PICK s \in Sending : fifo_id[s] = name
          BY <1>1, <2>1, <3>1 DEF Holders, Partners
        <5>2. s = name /\ fifo_id[s] # "none"
          BY <1>1, <1>2, <2>1, <5>1 DEF Apart, Own
        <5>3. pc[name] > 2
          BY <1>1, <2>1, <5>2 DEF TypeInv, Placed
        <5> QED BY <1>1, <1>4, <1>9, <2>1, <3>1, <5>3
      <4> QED BY <1>1, <2>1, <3>1, <4>2, <4>3 DEF OneSource
    <3>2. CASE r # p
      <4>1. /\ fifo_id'[r] = fifo_id[r] /\ OneSource(r)
            /\ \A w \in Procs : From(r, w) => From(r, w)'
        BY <1>1, <2>1, <3>2 DEF Apart, From
      <4>2. fifo_id[r] # "none" /\ r \notin opening => pc'[fifo_id[r]] > 2
        BY <1>1, <1>4, <1>9, <4>1 DEF OneSource
      <4>3. fifo_id[r] # "none" /\ r \in opening /\ r \notin opening' => pc'[fifo_id[r]] > 2
        <5> SUFFICES ASSUME r \in opening, r \notin opening' PROVE pc'[fifo_id[r]] > 2
          OBVIOUS
        <5>1. r \in Partners(p) /\ fifo_id[r] = name
          BY <2>1 DEF Holders
        <5>2. p \in Writers
          BY <1>1, <1>4, <1>9, <5>1 DEF Partners
        <5> QED BY <1>1, <1>4, <1>9, <2>2, <5>1, <5>2
      <4> QED BY <1>1, <4>1, <4>2, <4>3 DEF OneSource
    <3> QED BY <3>1, <3>2
  <2> QED BY <2>1, <2>3, <2>4 DEF Apart
<1>10. CASE Failed(p) /\ ~Ended(p)
  <2>1. /\ UNCHANGED <<name, fifo_id, opening, data, sent, buf, out>> /\ p \in Writers
        /\ pc[p] >= 2
    BY <1>1, <1>4, <1>10 DEF Failed
  <2>2. ASSUME NEW w \in Writers PROVE Own(w)'
    BY <1>1, <1>4, <1>10, <2>1 DEF Apart, Own
  <2>3. ASSUME NEW r \in Readers PROVE OneSource(r)'
    BY <1>5, <1>10, <2>1
  <2> QED BY <2>1, <2>2, <2>3 DEF Apart
<1>11. CASE Wrote(p) /\ ~Ended(p)
  <2>1. /\ p \in Writers /\ pc[p] = 3 /\ fifo_id[p] # "none"
        /\ UNCHANGED <<name, fifo_id, opening, buf, out>>
    BY <1>1, <1>4, <1>11 DEF Wrote
  <2>2. PICK m \in Message : m = <<p, pc[p]>>
    BY <1>11, WroteFacts DEF TypeInv
  <2>3. \A g \in Procs : data'[g] = IF g = fifo_id[p] THEN Append(data[g], m) ELSE data[g]
    BY <1>11, <2>2, WroteFacts DEF TypeInv
  <2>4. fifo_id[p] = p
    BY <2>1 DEF Apart, Own
  <2>5. ASSUME NEW w \in Writers PROVE Own(w)'
    <3>1. \A i \in 1 .. Len(data'[w]) : data'[w][i][1] = w
      <4>1. CASE w = p
        <5>1. data[w] \in Seq(Message) /\ data'[w] = Append(data[w], m) /\ m[1] = w
          BY <1>1, <2>2, <2>3, <2>4, <4>1 DEF TypeInv, Types
        <5>2. \A i \in 1 .. Len(data[w]) : data[w][i][1] = w
          BY DEF Apart, Own
        <5>3. Len(data'[w]) = Len(data[w]) + 1 /\ Len(data[w]) \in Nat
              /\ data'[w][Len(data[w]) + 1] = m
              /\ \A i \in 1 .. Len(data[w]) : data'[w][i] = data[w][i]
          BY <5>1
        <5> QED BY <5>1, <5>2, <5>3
      <4>2. CASE w # p
        BY <1>1, <2>3, <2>4, <4>2 DEF Apart, Own
      <4> QED BY <4>1, <4>2
    <3> QED BY <1>1, <1>4, <1>11, <2>1, <3>1 DEF Apart, Own
  <2>6. ASSUME NEW r \in Readers PROVE OneSource(r)'
    BY <1>5, <1>11, <2>1
  <2> QED BY <2>1, <2>5, <2>6 DEF Apart
<1>12. CASE Got(p) /\ ~Ended(p)
  <2>1. PICK n \in Nat : LET f == fifo_id[p] IN
         /\ f \in Procs /\ n <= Len(data[f]) /\ (data[f] # <<>> => n > 0)
         /\ data[f] # <<>> /\ p \in Readers => n = Len(data[f])
         /\ data[f] = <<>> => Holders(f, Sending) = {}
         /\ \A g \in Procs : data'[g] = IF g = f THEN SubSeq(data[f], n + 1, Len(data[f])) ELSE data[g]
         /\ data' \in [Procs -> Seq(Message)]
         /\ \A r \in Reading : buf'[r] = IF r = p /\ n > 0 THEN SubSeq(data[f], 1, n) ELSE buf[r]
         /\ buf' \in [Reading -> Seq(Message)]
         /\ \A r \in Reading : out'[r] = IF r = p THEN Append(out[r], Shown(buf'[r])) ELSE out[r]
         /\ Shown(buf'[p]) \in Message \cup {nothing}
         /\ out' \in [Reading -> Seq(Message \cup {nothing})]
         /\ UNCHANGED <<name, fifo_id, opening, sent>>
    BY <1>12, GotFacts
  <2>2. p \in Readers /\ p \notin opening
    <3>1. p \in Reading /\ p \notin opening
      BY <1>12 DEF Got
    <3> QED BY <1>1, <1>4, <1>12, <3>1
  <2>3. PICK w \in Writers : fifo_id[p] = w
    BY <2>1, <2>2, ClassFacts DEF Apart, OneSource
  <2>4. /\ data[w] \in Seq(Message) /\ Len(data[w]) \in Nat
        /\ \A i \in 1 .. Len(data[w]) : data[w][i] \in Message /\ data[w][i][1] = w
    <3>1. data[w] \in Seq(Message) /\ Len(data[w]) \in Nat
      BY <1>1 DEF TypeInv, Types
    <3> QED BY <3>1, ElementOfSeq DEF Apart, Own
  <2>5. ASSUME p \in Readers, data[w] # <<>> PROVE data'[w] = <<>> /\ buf'[p] = data[w]
    <3>1. n = Len(data[w]) /\ n > 0
      BY <2>1, <2>3, <2>5
    <3>2. data'[w] = SubSeq(data[w], n + 1, Len(data[w])) /\ buf'[p] = SubSeq(data[w], 1, n)
      BY <1>1, <2>1, <2>2, <2>3, <3>1
    <3>3. SubSeq(data[w], n + 1, Len(data[w])) = <<>>
      BY <2>4, <3>1, SubSeqEmpty
    <3>4. SubSeq(data[w], 1, n) = data[w]
      BY <2>4, <3>1, SubSeqFull
    <3> QED BY <3>2, <3>3, <3>4
  <2>6. ASSUME data[w] = <<>> PROVE data'[w] = <<>> /\ buf'[p] = buf[p]
    <3>1. n = 0 /\ data'[w] = SubSeq(data[w], n + 1, Len(data[w]))
      BY <1>1, <2>1, <2>3, <2>4, <2>6
    <3>2. SubSeq(data[w], n + 1, Len(data[w])) = <<>>
      BY <2>4, <2>6, <3>1, SubSeqEmpty
    <3> QED BY <1>1, <2>1, <2>2, <3>1, <3>2
  <2>7. ASSUME NEW v \in Writers PROVE Own(v)'
    <3>1. data'[v] = data[v] \/ data'[v] = <<>>
      BY <1>1, <2>1, <2>2, <2>3, <2>5, <2>6
    <3>2. /\ fifo_id' = fifo_id /\ name' = name /\ pc'[v] = pc[v] /\ Own(v)
          /\ \A u \in Writers : pc'[u] = pc[u]
      BY <1>1, <1>4, <1>12, <2>1, <2>2 DEF Apart
    <3> QED BY <3>1, <3>2 DEF Own
  <2>8. From(p, w)'
    <3>1. \A m \in Contents(buf[p]) \ {nothing} : m[1] = w
      BY <1>1, <2>2, <2>3 DEF Apart, OneSource, From
    <3>2. \A m \in Contents(out[p]) \ {nothing} : m[1] = w
      BY <1>1, <2>2, <2>3 DEF Apart, OneSource, From
    <3>3. \A m \in Contents(data[w]) : m[1] = w
      BY <2>4 DEF Contents
    <3>4. \A m \in Contents(buf'[p]) \ {nothing} : m[1] = w
      BY <2>2, <2>5, <2>6, <3>1, <3>3
    <3> DEFINE shown == Shown(buf'[p])
    <3>5. shown = nothing \/ shown \in Contents(buf'[p])
      <4>1. CASE buf'[p] = <<>>
        BY <4>1 DEF Shown
      <4>2. CASE buf'[p] # <<>>
        <5>1. buf'[p] \in Seq(Message)
          BY <1>1, <2>1, <2>2
        <5>2. 1 \in 1 .. Len(buf'[p])
          BY <4>2, <5>1, EmptySeq
        <5> QED BY <4>2, <5>2 DEF Shown, Contents
      <4> QED BY <4>1, <4>2
    <3>6. out'[p] = Append(out[p], shown) /\ out[p] \in Seq(Message \cup {nothing})
          /\ shown \in Message \cup {nothing}
      BY <1>1, <2>1, <2>2 DEF TypeInv, Types
    <3> HIDE DEF shown
    <3>7. /\ Len(out'[p]) = Len(out[p]) + 1 /\ Len(out[p]) \in Nat
          /\ out'[p][Len(out[p]) + 1] = shown
          /\ \A i \in 1 .. Len(out[p]) : out'[p][i] = out[p][i]
      BY <3>6
    <3>8. \A m \in Contents(out'[p]) : m = shown \/ m \in Contents(out[p])
      BY <3>7 DEF Contents
    <3> QED BY <3>2, <3>4, <3>5, <3>8 DEF From, Contents
  <2>9. ASSUME NEW r \in Readers PROVE OneSource(r)'
    <3>1. CASE r = p
      BY <1>1, <1>4, <1>12, <2>1, <2>2, <2>3, <2>8, <3>1 DEF Apart, OneSource
    <3>2. CASE r # p
      <4>1. /\ buf'[r] = buf[r] /\ out'[r] = out[r] /\ OneSource(r)
        BY <1>1, <2>1, <3>2 DEF Apart
      <4>2. \A v \in Procs : From(r, v) => From(r, v)'
        BY <4>1 DEF From
      <4>3. fifo_id[r] # "none" /\ r \notin opening => pc'[fifo_id[r]] > 2
        BY <1>1, <1>4, <1>12, <4>1 DEF OneSource
      <4> QED BY <1>1, <2>1, <4>1, <4>2, <4>3 DEF OneSource
    <3> QED BY <3>1, <3>2
  <2> QED BY <2>1, <2>7, <2>9 DEF Apart
<1> QED BY <1>3, <1>6, <1>7, <1>8, <1>9, <1>10, <1>11, <1>12, Kinds DEF TypeInv

\* Every message is read before the last reader of its FIFO goes.
LEMMA AsleepStep ==
  ASSUME TypeInv, Home, \A q \in TmpTest : status[q] = "elsewhere", Undisturbed', Asleep,
         NEW p \in Procs, Step(p) \/ Kill(p)
  PROVE  Asleep'
<1>1. \A r \in Readers : r \in Procs /\ r \in Reading /\ OpenAt(r) = 1 /\ r \notin Sending
  BY ClassFacts DEF OpenAt, TmpTest
<1>2. CASE Ended(p)
  BY <1>1, <1>2, EndedFacts, CloseFacts DEF TypeInv, Asleep
<1>3. ASSUME ~Ended(p) PROVE \A q \in Procs : pc'[q] = IF q = p THEN pc[p] + 1 ELSE pc[q]
  BY <1>3, OnlyWritersReaders
<1>4. CASE ~Ended(p) /\ Closed(p)
  BY <1>1, <1>3, <1>4, CloseFacts, ClassFacts DEF TypeInv, Asleep, Closed
<1>5. CASE ~Ended(p) /\ Opened(p)
  <2>1. /\ \A q \in Procs \ {p} : q \in opening' => q \in opening
        /\ p \in Readers => pc[p] = 1
    BY <1>1, <1>5, OpenedFacts DEF TypeInv, Opened
  <2> QED BY <1>1, <1>3, <1>5, <2>1 DEF Asleep
<1>6. CASE ~Ended(p) /\ (Made(p) \/ Failed(p) \/ Wrote(p) \/ Removed(p) \/ Got(p))
  <2>1. opening' = opening
    BY <1>6 DEF Made, Failed, Wrote, Removed, Got
  <2>2. p \in Readers => p \notin opening
    BY <1>1, <1>6, ClassFacts DEF Made, Failed, Wrote, Removed, Got, TmpTest
  <2> QED BY <1>1, <1>3, <1>6, <2>1, <2>2 DEF Asleep
<1> QED BY <1>2, <1>4, <1>5, <1>6, Kinds DEF TypeInv

LEMMA KeptClose ==
  ASSUME TypeInv, NEW p \in Procs, close(p), UNCHANGED <<sent, out>>,
         p \in Readers => pc[p] = 5,
         \A q \in Procs : pc'[q] = pc[q] \/ (pc'[q] = pc[q] + 1 /\ q \notin Readers),
         NEW w \in Writers, Kept(w)
  PROVE  Kept(w)'
<1>1. /\ \A f \in Procs : data'[f] = data[f] \/ data'[f] = <<>>
      /\ \A f \in Procs : data'[f] # data[f] => \A q \in Procs \ {p} : fifo_id[q] # f
      /\ \A q \in Procs : fifo_id'[q] = IF q = p THEN "none" ELSE fifo_id[q]
  BY CloseFacts DEF TypeInv
<1>2. /\ w \in Procs /\ w # "none" /\ \A r \in Readers : r \in Procs
      /\ \A q \in Procs : pc[q] \in Nat
  BY ClassFacts DEF TypeInv, Types
<1>3. ASSUME data[w] # <<>>
      PROVE  data'[w] = data[w] /\ \E r \in Readers : fifo_id'[r] = w
  <2>1. PICK r \in Readers : fifo_id[r] = w /\ pc[r] <= 3
    BY <1>3 DEF Kept
  <2>2. r # p
    BY <2>1
  <2> QED BY <1>1, <1>2, <2>1, <2>2
<1>4. data'[w] = data[w]
  BY <1>1, <1>2, <1>3
<1>5. pc'[w] <= 3 => pc[w] <= 3
  BY <1>2
<1>6. \A r \in Readers : pc'[r] = pc[r] /\ (fifo_id'[r] = w => fifo_id[r] = w)
  BY <1>1, <1>2
<1> QED BY <1>1, <1>2, <1>3, <1>4, <1>5, <1>6 DEF Kept

LEMMA KeptStep ==
  ASSUME Killable \cap Readers = {},
         TypeInv, Home, \A q \in TmpTest : status[q] = "elsewhere", Undisturbed', Apart,
         Asleep, \A w \in Writers : Kept(w), NEW p \in Procs, Step(p) \/ Kill(p)
  PROVE  \A w \in Writers : Kept(w)'
<1>1. /\ \A w \in Writers : w \in Procs /\ w # "none" /\ w \in Sending /\ OpenAt(w) = 2
                                 /\ w \notin Readers /\ w \notin Reading
      /\ \A r \in Readers : r \in Procs /\ r # "none" /\ r \in Reading /\ OpenAt(r) = 1 /\ r \notin Sending
      /\ \A q \in Procs : pc[q] \in Nat
  BY ClassFacts DEF OpenAt, TypeInv, Types, TmpTest
<1>2. \A q \in Reading : fifo_id[q] # "none" => q \in Readers
  BY OnlyTestProgs
<1>3. CASE Ended(p)
  <2>1. close(p) /\ UNCHANGED <<sent, out>> /\ pc' = pc /\ (p \in Readers => pc[p] = 5)
    BY <1>3, EndedFacts DEF TypeInv, Ended
  <2> QED BY <2>1, KeptClose
<1>4. ASSUME ~Ended(p)
      PROVE  /\ p \in Writers \/ p \in Readers
             /\ \A q \in Procs : pc'[q] = IF q = p THEN pc[p] + 1 ELSE pc[q]
             /\ status[p] = "running"
  BY <1>4, OnlyWritersReaders
<1>5. CASE ~Ended(p) /\ Closed(p)
  <2>1. close(p) /\ UNCHANGED <<sent, out>> /\ p \notin Readers
    BY <1>1, <1>5 DEF Closed
  <2> QED BY <1>1, <1>4, <1>5, <2>1, KeptClose
<1>6. CASE ~Ended(p) /\ (Made(p) \/ Removed(p) \/ Failed(p))
  <2>1. UNCHANGED <<fifo_id, data, sent, out>>
    BY <1>6 DEF Made, Removed, Failed
  <2>2. p \in Readers => pc'[p] <= 3
    BY <1>1, <1>4, <1>6, ClassFacts DEF Made, Removed, Failed, TmpTest
  <2> SUFFICES ASSUME NEW w \in Writers PROVE Kept(w)'
    OBVIOUS
  <2>3. Kept(w) /\ (fifo_id[w] # "none" => pc[w] > 2)
    BY <1>1 DEF TypeInv, Placed
  <2>4. pc'[w] <= 3 => pc[w] <= 3
    BY <1>1, <1>4, <1>6
  <2>5. \A r \in Readers : pc[r] <= 3 => pc'[r] <= 3
    BY <1>1, <1>4, <1>6, <2>2
  <2> QED BY <1>1, <2>1, <2>3, <2>4, <2>5 DEF Kept
<1>7. CASE ~Ended(p) /\ Opened(p)
  <2>1. /\ name \in Writers /\ UNCHANGED <<data, sent, out>> /\ pc[p] = OpenAt(p)
        /\ \A q \in Procs : fifo_id'[q] = IF q = p THEN name ELSE fifo_id[q]
    BY <1>7, OpenedFacts, ClassFacts DEF TypeInv, Apart, Opened, open
  <2>2. fifo_id[p] = "none"
    BY <1>1, <1>4, <1>7, <2>1 DEF TypeInv, Placed
  <2> SUFFICES ASSUME NEW w \in Writers PROVE Kept(w)'
    OBVIOUS
  <2>3. pc'[w] <= 3 => pc[w] <= 3
    BY <1>1, <1>4, <1>7
  <2>4. p \in Readers => pc'[p] <= 3
    BY <1>1, <1>4, <1>7, <2>1
  <2>5. \A r \in Readers : pc[r] <= 3 => pc'[r] <= 3
    BY <1>1, <1>4, <1>7, <2>4
  <2>6. (fifo_id'[w] # "none" /\ pc'[w] <= 3) \/ data[w] # <<>> =>
          \A r \in Readers : fifo_id[r] = w => pc[r] <= 3
    <3>1. CASE w = p
      <4>1. pc[w] = 2
        BY <1>1, <2>1, <3>1
      <4>2. \A r \in Readers : fifo_id[r] = w => r \in opening
        BY <1>1, <4>1 DEF Apart, OneSource
      <4> QED BY <1>1, <4>2 DEF Asleep
    <3>2. CASE w # p
      BY <1>1, <1>4, <1>7, <2>1, <3>2 DEF Kept
    <3> QED BY <3>1, <3>2
  <2>7. (fifo_id'[w] # "none" /\ pc'[w] <= 3) \/ data'[w] # <<>> =>
          \A r \in Readers : fifo_id'[r] = w => pc'[r] <= 3
    BY <1>1, <2>1, <2>4, <2>5, <2>6
  <2>8. data'[w] # <<>> => data'[w] = <<<<w, 3>>>> /\ \E r \in Readers : fifo_id'[r] = w
    <3>1. ASSUME data[w] # <<>> PROVE data[w] = <<<<w, 3>>>> /\ \E r \in Readers : fifo_id[r] = w
      BY <3>1 DEF Kept
    <3> QED BY <1>1, <2>1, <2>2, <3>1
  <2>9. sent'[w] # <<>> /\ data'[w] = <<>> => \E r \in Readers : <<w, 3>> \in Contents(out[r])'
    <3>1. \A r \in Readers : Contents(out[r])' = Contents(out[r])
      BY <2>1 DEF Contents
    <3> QED BY <2>1, <3>1 DEF Kept
  <2> QED BY <2>1, <2>3, <2>7, <2>8, <2>9 DEF Kept
<1>8. CASE ~Ended(p) /\ Wrote(p)
  <2>1. /\ p \in Writers /\ pc[p] = 3 /\ fifo_id[p] # "none"
        /\ Holders(fifo_id[p], Reading) # {}
    BY <1>1, <1>4, <1>8 DEF Wrote
  <2>2. fifo_id[p] = p
    BY <2>1 DEF Apart, Own
  <2> DEFINE m == <<p, pc[p]>>
  <2>3. /\ \A f \in Procs : data'[f] = IF f = p THEN Append(data[f], m) ELSE data[f]
        /\ \A q \in Sending : sent'[q] = IF q = p THEN Append(sent[q], m) ELSE sent[q]
        /\ UNCHANGED <<fifo_id, out>>
    BY <1>8, <2>2, WroteFacts DEF TypeInv
  <2>4. m = <<p, 3>>
    BY <2>1
  <2> HIDE DEF m
  <2>5. data[p] = <<>> /\ sent[p] = <<>> /\ \A r \in Readers : fifo_id[r] = p => pc[r] <= 3
    <3>1. Kept(p)
      BY <2>1
    <3>2. pc[p] <= 3 /\ fifo_id[p] # "none"
      BY <2>1
    <3> QED BY <3>1, <3>2 DEF Kept
  <2>6. data'[p] = <<m>> /\ sent'[p] = <<m>>
    <3>1. Append(<<>>, m) = <<m>>
      OBVIOUS
    <3>2. data'[p] = Append(data[p], m) /\ sent'[p] = Append(sent[p], m)
      BY <1>1, <2>1, <2>3
    <3> QED BY <2>5, <3>1, <3>2
  <2>7. \E r \in Readers : fifo_id[r] = p
    BY <1>1, <1>2, <2>1, <2>2 DEF Holders
  <2>8. \A r \in Readers : pc'[r] = pc[r]
    BY <1>1, <1>4, <1>8, <2>1
  <2>9. Kept(p)'
    <3>1. pc'[p] = 4 /\ <<m>> # <<>> /\ <<m>> = <<<<p, 3>>>>
      BY <1>1, <1>4, <1>8, <2>1, <2>4
    <3> QED BY <2>3, <2>5, <2>6, <2>7, <2>8, <3>1 DEF Kept
  <2>10. ASSUME NEW w \in Writers, w # p PROVE Kept(w)'
    <3>1. \A r \in Readers : Contents(out[r])' = Contents(out[r])
      BY <2>3 DEF Contents
    <3>2. /\ data'[w] = data[w] /\ sent'[w] = sent[w] /\ pc'[w] = pc[w] /\ fifo_id' = fifo_id
          /\ Kept(w)
      BY <1>1, <1>4, <1>8, <2>3, <2>10
    <3> QED BY <2>8, <3>1, <3>2 DEF Kept
  <2> QED BY <2>9, <2>10
<1>9. CASE ~Ended(p) /\ Got(p)
  <2>1. PICK n \in Nat : LET f == fifo_id[p] IN
         /\ f \in Procs /\ n <= Len(data[f]) /\ (data[f] # <<>> => n > 0)
         /\ data[f] # <<>> /\ p \in Readers => n = Len(data[f])
         /\ data[f] = <<>> => Holders(f, Sending) = {}
         /\ \A g \in Procs : data'[g] = IF g = f THEN SubSeq(data[f], n + 1, Len(data[f])) ELSE data[g]
         /\ data' \in [Procs -> Seq(Message)]
         /\ \A r \in Reading : buf'[r] = IF r = p /\ n > 0 THEN SubSeq(data[f], 1, n) ELSE buf[r]
         /\ buf' \in [Reading -> Seq(Message)]
         /\ \A r \in Reading : out'[r] = IF r = p THEN Append(out[r], Shown(buf'[r])) ELSE out[r]
         /\ Shown(buf'[p]) \in Message \cup {nothing}
         /\ out' \in [Reading -> Seq(Message \cup {nothing})]
         /\ UNCHANGED <<name, fifo_id, opening, sent>>
    BY <1>9, GotFacts
  <2>2. p \in Readers /\ p \notin opening
    <3>1. p \in Reading /\ p \notin opening
      BY <1>9 DEF Got
    <3> QED BY <1>1, <1>4, <1>9, <3>1
  <2>3. PICK f \in Writers : fifo_id[p] = f
    BY <2>1, <2>2, ClassFacts DEF Apart, OneSource
  <2>4. data[f] \in Seq(Message) /\ Len(data[f]) \in Nat
    BY <1>1 DEF TypeInv, Types
  <2>5. data'[f] = <<>> /\ (data[f] # <<>> => buf'[p] = data[f])
    <3>1. data'[f] = SubSeq(data[f], n + 1, Len(data[f]))
      BY <1>1, <2>1, <2>3
    <3>2. n = Len(data[f])
      BY <2>1, <2>2, <2>3, <2>4
    <3>3. SubSeq(data[f], n + 1, Len(data[f])) = <<>>
      BY <2>4, <3>2, SubSeqEmpty
    <3>4. data[f] # <<>> => buf'[p] = SubSeq(data[f], 1, n)
      BY <1>1, <2>1, <2>2, <2>3
    <3>5. SubSeq(data[f], 1, n) = data[f]
      BY <2>4, <3>2, SubSeqFull
    <3> QED BY <3>1, <3>3, <3>4, <3>5
  <2> DEFINE shown == Shown(buf'[p])
  <2>6. out'[p] = Append(out[p], shown) /\ out[p] \in Seq(Message \cup {nothing})
        /\ shown \in Message \cup {nothing}
    BY <1>1, <2>1, <2>2 DEF TypeInv, Types
  <2>7. data[f] # <<>> => shown = <<f, 3>>
    <3> SUFFICES ASSUME data[f] # <<>> PROVE shown = <<f, 3>>
      OBVIOUS
    <3>1. buf'[p] = <<<<f, 3>>>>
      BY <2>5 DEF Kept
    <3>2. <<<<f, 3>>>> # <<>> /\ <<<<f, 3>>>>[1] = <<f, 3>>
      OBVIOUS
    <3> QED BY <3>1, <3>2 DEF Shown
  <2> HIDE DEF shown
  <2>8. /\ Len(out'[p]) = Len(out[p]) + 1 /\ Len(out[p]) \in Nat
        /\ out'[p][Len(out[p]) + 1] = shown
        /\ \A i \in 1 .. Len(out[p]) : out'[p][i] = out[p][i]
    BY <2>6
  <2>9. shown \in Contents(out'[p]) /\ Contents(out[p]) \subseteq Contents(out'[p])
    <3> DEFINE before == Len(out[p])
    <3>1. before \in Nat /\ Len(out'[p]) = before + 1
      BY <2>8
    <3>2. before + 1 \in 1 .. Len(out'[p]) /\ \A i \in 1 .. before : i \in 1 .. Len(out'[p])
      BY <3>1
    <3> QED BY <2>8, <3>2 DEF Contents
  <2>10. \A r \in Readers : Contents(out[r]) \subseteq Contents(out'[r])
    BY <1>1, <2>1, <2>9
  <2>11. \A r \in Readers : pc[r] <= 3 /\ r # p => pc'[r] <= 3
    BY <1>1, <1>4, <1>9
  <2>12. /\ \A w \in Writers : pc'[w] = pc[w] /\ (w # f => data'[w] = data[w])
         /\ sent' = sent /\ fifo_id' = fifo_id
    BY <1>1, <1>4, <1>9, <2>1, <2>2, <2>3
  <2>13. ASSUME NEW w \in Writers, w # f PROVE Kept(w)'
    <3>1. Kept(w) /\ fifo_id[p] # w
      BY <2>3, <2>13
    <3>2. sent[w] # <<>> /\ data[w] = <<>> => \E r \in Readers : <<w, 3>> \in Contents(out'[r])
      BY <2>10, <3>1 DEF Kept
    <3> QED BY <2>11, <2>12, <2>13, <3>1, <3>2 DEF Kept, Contents
  <2>14. Kept(f)'
    <3>1. sent[f] # <<>> => \E r \in Readers : <<f, 3>> \in Contents(out'[r])
      BY <2>2, <2>7, <2>9, <2>10 DEF Kept
    <3>2. ~(fifo_id[f] # "none" /\ pc[f] <= 3)
      <4> SUFFICES ASSUME fifo_id[f] # "none", pc[f] <= 3 PROVE FALSE
        OBVIOUS
      <4>1. data[f] = <<>>
        BY DEF Kept
      <4>2. f \in Holders(f, Sending)
        BY <1>1 DEF Apart, Own, Holders
      <4> QED BY <2>1, <2>3, <4>1, <4>2
    <3> QED BY <2>5, <2>12, <3>1, <3>2 DEF Kept, Contents
  <2> QED BY <2>13, <2>14
<1> QED BY <1>3, <1>5, <1>6, <1>7, <1>8, <1>9, Kinds DEF TypeInv

LEMMA StartEmpty ==
  ASSUME Init
  PROVE  /\ \A p \in Procs : pc[p] = 1 /\ fifo_id[p] = "none" /\ data[p] = <<>>
         /\ \A p \in Sending : sent[p] = <<>>
         /\ \A r \in Reading : buf[r] = <<>> /\ out[r] = <<>>
         /\ name = "none" /\ opening = {} /\ status \in [Procs -> {"running", "elsewhere"}]
         /\ \/ \A p \in TestProgs : status[p] = "elsewhere"
            \/ \A p \in TmpTest : status[p] = "elsewhere"
<1>1. TestProgs \cap TmpTest = {} /\ Procs = TestProgs \cup TmpTest
  BY NamedPipeAssumption DEF Procs
<1>2. PICK directory \in {TestProgs, TmpTest} :
        status = [p \in Procs |-> IF p \in directory THEN "running" ELSE "elsewhere"]
  BY DEF Init
<1>3. \/ \A p \in TestProgs : status[p] = "elsewhere"
      \/ \A p \in TmpTest : status[p] = "elsewhere"
  BY <1>1, <1>2
<1> QED BY <1>2, <1>3 DEF Init, FifoInit

LEMMA ApartInit == Init => ApartInv
<1> SUFFICES ASSUME Init PROVE ApartInv
  OBVIOUS
<1>1. Home
  BY StartEmpty DEF Home
<1>2. /\ \A w \in Writers : w \in Procs
      /\ \A r \in Readers : r \in Procs /\ r \in Reading
  BY ClassFacts
<1>3. \A w \in Writers : Own(w)
  BY <1>2, StartEmpty DEF Own
<1>4. ASSUME NEW r \in Readers PROVE OneSource(r)
  <2>1. From(r, r)
    BY <1>2, StartEmpty DEF From, Contents
  <2> QED BY <1>2, <2>1, StartEmpty DEF OneSource
<1> QED BY <1>1, <1>3, <1>4, StartEmpty DEF ApartInv, Apart

LEMMA ApartInvStep == TypeInv /\ ApartInv /\ [Next]_vars => ApartInv'
<1> SUFFICES ASSUME TypeInv, ApartInv, [Next]_vars PROVE ApartInv'
  OBVIOUS
<1>1. CASE UNCHANGED vars
  <2>1. Home' = Home /\ Undisturbed' = Undisturbed /\ Apart' = Apart /\ status' = status
    BY <1>1 DEF vars, fifoVars, Home, Undisturbed, Apart, Own, OneSource, From, Contents
  <2> QED BY <2>1 DEF ApartInv
<1>2. ASSUME NEW p \in Procs, Step(p) \/ Kill(p) PROVE ApartInv'
  <2>1. Home' /\ \A q \in Procs : status'[q] = "elsewhere" <=> status[q] = "elsewhere"
    BY <1>2, HomeStep DEF ApartInv
  <2>2. ASSUME Undisturbed', \A q \in TmpTest : status'[q] = "elsewhere" PROVE Apart'
    <3>1. \A q \in TmpTest : status[q] = "elsewhere"
      BY <2>1, <2>2 DEF Procs
    <3>2. Undisturbed
      BY <1>2, <2>2, UndisturbedBefore
    <3>3. Home /\ Apart
      BY <3>1, <3>2 DEF ApartInv
    <3> QED BY <1>2, <2>2, <3>1, <3>3, ApartStep
  <2> QED BY <2>1, <2>2 DEF ApartInv
<1> QED BY <1>1, <1>2 DEF Next

\* No reader of test_progs mixes the messages of two writers, however the names of their
\* FIFOs come and go: who opens finds its own FIFO, and who reads has one writer's only.
THEOREM SeparateFifosCorrect == Spec => []SeparateFifos
<1>1. TypeInv /\ ApartInv => SeparateFifos
  <2> SUFFICES ASSUME TypeInv, ApartInv, Undisturbed, NEW r \in Readers,
                      NEW m \in (Contents(buf[r]) \cup Contents(out[r])) \ {nothing},
                      NEW n \in (Contents(buf[r]) \cup Contents(out[r])) \ {nothing}
               PROVE  m[1] = n[1]
    BY DEF SeparateFifos
  <2>1. CASE \A p \in TmpTest : status[p] = "elsewhere"
    BY <2>1 DEF ApartInv, Apart, OneSource, From
  <2>2. CASE \A p \in TestProgs : status[p] = "elsewhere"
    <3>1. r \in Procs /\ r \in Reading /\ r \in TestProgs
      BY ClassFacts DEF TestProgs
    <3>2. buf[r] = <<>> /\ out[r] = <<>>
      BY <2>2, <3>1 DEF ApartInv, Home, TypeInv, Placed
    <3> QED BY <3>2 DEF Contents
  <2> QED BY <2>1, <2>2 DEF ApartInv, Home
<1> QED BY <1>1, TypeInit, TypeStep, ApartInit, ApartInvStep, PTL DEF Spec

-----------------------------------------------------------------------------
\* No message is lost

LEMMA KeptInit == Init => KeptInv
<1> SUFFICES ASSUME Init PROVE KeptInv
  OBVIOUS
<1>1. \A w \in Writers : w \in Procs /\ w \in Sending
  BY ClassFacts
<1>2. Asleep /\ \A w \in Writers : Kept(w)
  BY <1>1, StartEmpty DEF Asleep, Kept
<1> QED BY <1>1, <1>2, StartEmpty DEF KeptInv

LEMMA KeptInvStep ==
  ASSUME Killable \cap Readers = {}
  PROVE  TypeInv /\ ApartInv /\ KeptInv /\ [Next]_vars => KeptInv'
<1> SUFFICES ASSUME TypeInv, ApartInv, KeptInv, [Next]_vars PROVE KeptInv'
  OBVIOUS
<1>1. CASE UNCHANGED vars
  <2>1. /\ Undisturbed' = Undisturbed /\ Asleep' = Asleep /\ UNCHANGED <<status, sent>>
        /\ \A w \in Writers : Kept(w)' = Kept(w)
    BY <1>1 DEF vars, fifoVars, Undisturbed, Asleep, Kept, Contents
  <2> QED BY <2>1 DEF KeptInv
<1>2. ASSUME NEW p \in Procs, Step(p) \/ Kill(p) PROVE KeptInv'
  <2>1. Home' /\ \A q \in Procs : status'[q] = "elsewhere" <=> status[q] = "elsewhere"
    BY <1>2, HomeStep DEF ApartInv
  <2>2. ASSUME Undisturbed', \A q \in TmpTest : status'[q] = "elsewhere"
        PROVE  Asleep' /\ \A w \in Writers : Kept(w)'
    <3>1. \A q \in TmpTest : status[q] = "elsewhere"
      BY <2>1, <2>2 DEF Procs
    <3>2. Undisturbed
      BY <1>2, <2>2, UndisturbedBefore
    <3>3. Home /\ Apart /\ Asleep /\ \A w \in Writers : Kept(w)
      BY <3>1, <3>2 DEF ApartInv, KeptInv
    <3>4. Asleep'
      BY <1>2, <2>2, <3>1, <3>3, AsleepStep
    <3>5. \A w \in Writers : Kept(w)'
      BY <1>2, <2>2, <3>1, <3>3, KeptStep
    <3> QED BY <3>4, <3>5
  <2>3. ASSUME NEW w \in Writers, status'[w] = "elsewhere" PROVE sent'[w] = <<>>
    <3>1. w \in Procs /\ w \in Sending
      BY ClassFacts
    <3>2. sent[w] = <<>> /\ status[w] = "elsewhere"
      BY <2>1, <2>3, <3>1 DEF KeptInv
    <3>3. CASE Wrote(p)
      <4>1. p # w
        BY <3>2, <3>3 DEF Wrote, Advance
      <4> QED BY <3>1, <3>2, <3>3, <4>1, WroteFacts DEF TypeInv
    <3>4. CASE ~Wrote(p)
      <4>1. sent' = sent
        BY <1>2, <3>4, Kinds, EndedFacts DEF TypeInv, Made, Removed, Closed, Opened, Failed, Got
      <4> QED BY <3>2, <4>1
    <3> QED BY <3>3, <3>4
  <2> QED BY <2>2, <2>3 DEF KeptInv
<1> QED BY <1>1, <1>2 DEF Next

\* What a writer of test_progs has written is printed or still in its FIFO, although the
\* writer removes the name and exits at once, unless a signal kills a reader that has
\* not read: what only that reader held open is then lost.
THEOREM DeliveredCorrect ==
  ASSUME Killable \cap Readers = {}
  PROVE  Spec => []Delivered
<1>1. TypeInv /\ ApartInv /\ KeptInv => Delivered
  <2> SUFFICES ASSUME TypeInv, ApartInv, KeptInv, Undisturbed, NEW w \in Writers,
                      NEW m \in Contents(sent[w])
               PROVE  \/ \E r \in Readers : m \in Contents(out[r])
                      \/ \E f \in Writers : m \in Contents(data[f])
    BY DEF Delivered
  <2>1. sent[w] # <<>>
    BY DEF Contents
  <2>2. w \in TestProgs
    BY DEF TestProgs
  <2>3. Kept(w)
    BY <2>1, <2>2 DEF ApartInv, Home, KeptInv
  <2>4. m = <<w, 3>>
    BY <2>1, <2>3 DEF Kept, Contents
  <2>5. CASE data[w] = <<>>
    BY <2>1, <2>3, <2>4, <2>5 DEF Kept
  <2>6. CASE data[w] # <<>>
    BY <2>3, <2>4, <2>6 DEF Kept, Contents
  <2> QED BY <2>5, <2>6
<1>2. TypeInv /\ ApartInv /\ KeptInv /\ [Next]_vars => TypeInv' /\ ApartInv' /\ KeptInv'
  BY TypeStep, ApartInvStep, KeptInvStep
<1>3. Init => TypeInv /\ ApartInv /\ KeptInv
  BY TypeInit, ApartInit, KeptInit
<1> QED BY <1>1, <1>2, <1>3, PTL DEF Spec
===============================================================================
