------------------------- MODULE FifoHandshakeProofs -------------------------
(***************************************************************************)
(* Proofs about FifoHandshake: types, the lock that remove() makes, the    *)
(* implementation of FileTransfer and that a writer finds the reader whose *)
(* PID it took.  They hold for any number of readers and writers, of PIDs, *)
(* of chunks and of tries, and any set of executions that may be killed.   *)
(***************************************************************************)
EXTENDS FifoHandshake, SequenceTheorems, FiniteSetTheorems, TLAPS

-----------------------------------------------------------------------------
\* Types

RdLabels == {"mkfifo_global", "open_global", "opened_global", "make_uniq_fifo", "open_uniq",
             "send_pid", "select", "remove", "read", "dead"}
WrLabels == {"make_file", "open_global", "opened_global", "read_pid", "open_uniq", "remove",
             "write", "dead"}

\* The labels of a reader that has its own FIFO open, and those of a writer that
\* has a FIFO open.
Receiving == {"send_pid", "select", "remove", "read"}
Connected == {"remove", "write"}

Piece == Writers \X (1 .. Chunks)

\* Where a process is in its program, and what it has by then.
Labels ==
  /\ \A r \in Readers : pc[r] \in RdLabels
  /\ \A w \in Writers : pc[w] \in WrLabels
  /\ \A p \in opening : pc[p] = "opened_global"
  /\ \A p \in Procs : status[p] = "running" <=> pc[p] # "dead"
  /\ rd_end \subseteq Readers
  /\ \A r \in Readers : r \in rd_end <=> pc[r] \in Receiving
  /\ \A w \in Writers : fifo_id[w] # "none" <=> pc[w] \in Connected
  /\ \A w \in Writers : pc[w] \in Connected \cup {"open_uniq"} => rd_pid[w] \in Pids
  /\ \A r \in Readers : pc[r] \notin {"remove", "read", "dead"} => tries[r] >= 1

TypeInv ==
  /\ TypeOK /\ Labels
  /\ pids \in Seq(Pids)
  /\ data \in [Readers -> Seq(Piece)] /\ out \in [Readers -> Seq(Piece)]

\* The end of a process.
LEMMA EndType ==
  ASSUME TypeInv, NEW p \in Procs, NEW how \in {"ok", "error", "signal"}, end(p, how),
         name' \in [Pids -> Readers \cup {"none"}]
  PROVE  TypeInv'
<1> USE FifoAssumption DEF Procs, end, ownVars
<1>1. TypeOK'
  BY DEF TypeInv, TypeOK
<1>2. Labels'
  BY DEF TypeInv, TypeOK, Labels, RdLabels, WrLabels, Receiving, Connected
<1> QED BY <1>1, <1>2 DEF TypeInv

\* p goes on at a label of its program and closes the global FIFO at most.
GoesTo(p, there) ==
  /\ Goto(p, there) /\ pc[p] # "dead" /\ there # "dead"
  /\ there \in IF p \in Readers THEN RdLabels ELSE WrLabels
  /\ UNCHANGED <<pid, status>>

LEMMA GoesToLabels ==
  ASSUME TypeInv, NEW p \in Procs, NEW there, GoesTo(p, there)
  PROVE  /\ pc' \in [Procs -> {"mkfifo_global", "make_file", "open_global", "opened_global",
                       "make_uniq_fifo", "open_uniq", "send_pid", "select", "remove",
                       "read", "read_pid", "write", "dead"}]
         /\ pc'[p] = there /\ \A q \in Procs \ {p} : pc'[q] = pc[q]
         /\ \A r \in Readers : pc'[r] \in RdLabels
         /\ \A w \in Writers : pc'[w] \in WrLabels
         /\ \A q \in Procs : status'[q] = "running" <=> pc'[q] # "dead"
         /\ {q \in Procs : pc'[q] # "dead"} = {q \in Procs : pc[q] # "dead"}
BY FifoAssumption DEF GoesTo, Goto, TypeInv, TypeOK, Labels, RdLabels, WrLabels, Procs

\* What such a step may do to the other variables.
Moves(p, there) ==
  /\ GoesTo(p, there)
  /\ global' \in BOOLEAN /\ name' \in [Pids -> Readers \cup {"none"}]
  /\ pids' \in Seq(Pids) /\ tries' \in [Readers -> 0 .. Tries]
  /\ opening' \subseteq gends' /\ gends' \subseteq gends \cup {p}
  /\ opening' \ {p} \subseteq opening /\ (p \in opening' => there = "opened_global")
  /\ UNCHANGED <<data, out, fpos>>
  /\ \A q \in Readers \ {p} : tries'[q] = tries[q]

\* A step of a reader.
LEMMA ReaderMoves ==
  ASSUME TypeInv, NEW r \in Readers, NEW there, Moves(r, there),
         rd_end' \subseteq Readers, r \in rd_end' <=> there \in Receiving,
         \A q \in Readers \ {r} : q \in rd_end' <=> q \in rd_end,
         there \in {"remove", "read"} \/ tries'[r] >= 1,
         UNCHANGED <<fifo_id, met, rd_pid>>
  PROVE  TypeInv'
<1>1. /\ pc' \in [Procs -> {"mkfifo_global", "make_file", "open_global", "opened_global",
                       "make_uniq_fifo", "open_uniq", "send_pid", "select", "remove",
                       "read", "read_pid", "write", "dead"}]
      /\ pc'[r] = there /\ \A q \in Procs \ {r} : pc'[q] = pc[q]
      /\ \A q \in Readers : pc'[q] \in RdLabels
      /\ \A w \in Writers : pc'[w] \in WrLabels
      /\ \A q \in Procs : status'[q] = "running" <=> pc'[q] # "dead"
      /\ {q \in Procs : pc'[q] # "dead"} = {q \in Procs : pc[q] # "dead"}
  BY GoesToLabels DEF Moves, Procs
<1>2. /\ \A w \in Writers : w \in Procs /\ w # r
      /\ \A q \in Readers : q \in Procs
      /\ r \in Procs /\ pc[r] # "dead" /\ there # "dead" /\ status' = status /\ pid' = pid
  BY FifoAssumption DEF Procs, Moves, GoesTo
<1>3. \A q \in Readers : q \in rd_end' <=> pc'[q] \in Receiving
  BY <1>1, <1>2 DEF TypeInv, Labels
<1>4. \A w \in Writers : /\ fifo_id'[w] # "none" <=> pc'[w] \in Connected
                         /\ pc'[w] \in Connected \cup {"open_uniq"} => rd_pid'[w] \in Pids
  BY <1>1, <1>2 DEF TypeInv, Labels
<1>5. \A q \in Readers : pc'[q] \notin {"remove", "read", "dead"} => tries'[q] >= 1
  BY <1>1, <1>2 DEF TypeInv, Labels, Moves
<1>6. \A q \in opening' : pc'[q] = "opened_global"
  BY <1>1, <1>2 DEF TypeInv, TypeOK, Labels, Moves
<1>7. rd_end' \subseteq {q \in Readers : pc'[q] # "dead"}
  BY <1>1, <1>2 DEF TypeInv, TypeOK
<1>8. gends' \subseteq {q \in Procs : pc'[q] # "dead"}
  BY <1>1, <1>2 DEF TypeInv, TypeOK, Moves
<1>9. Labels'
  BY <1>1, <1>3, <1>4, <1>5, <1>6, <1>7 DEF Labels
<1>10. TypeOK'
  BY <1>1, <1>2, <1>7, <1>8 DEF TypeInv, TypeOK, Moves
<1> QED BY <1>9, <1>10 DEF TypeInv, Moves

\* A step of a writer.
LEMMA WriterMoves ==
  ASSUME TypeInv, NEW w \in Writers, NEW there, Moves(w, there), UNCHANGED <<rd_end, tries>>,
         met' \subseteq Readers, fifo_id' \in [Writers -> met' \cup {"none"}],
         rd_pid' \in [Writers -> Pids \cup {0}],
         \A v \in Writers \ {w} : fifo_id'[v] = fifo_id[v] /\ rd_pid'[v] = rd_pid[v],
         fifo_id'[w] # "none" <=> there \in Connected,
         there \in Connected \cup {"open_uniq"} => rd_pid'[w] \in Pids
  PROVE  TypeInv'
<1>1. /\ pc' \in [Procs -> {"mkfifo_global", "make_file", "open_global", "opened_global",
                       "make_uniq_fifo", "open_uniq", "send_pid", "select", "remove",
                       "read", "read_pid", "write", "dead"}]
      /\ pc'[w] = there /\ \A q \in Procs \ {w} : pc'[q] = pc[q]
      /\ \A q \in Readers : pc'[q] \in RdLabels
      /\ \A v \in Writers : pc'[v] \in WrLabels
      /\ \A q \in Procs : status'[q] = "running" <=> pc'[q] # "dead"
      /\ {q \in Procs : pc'[q] # "dead"} = {q \in Procs : pc[q] # "dead"}
  BY GoesToLabels DEF Moves, Procs
<1>2. /\ \A r \in Readers : r \in Procs /\ r # w
      /\ \A v \in Writers : v \in Procs
      /\ w \in Procs /\ pc[w] # "dead" /\ there # "dead" /\ status' = status /\ pid' = pid
  BY FifoAssumption DEF Procs, Moves, GoesTo
<1>3. \A r \in Readers : r \in rd_end' <=> pc'[r] \in Receiving
  BY <1>1, <1>2 DEF TypeInv, Labels
<1>4. \A v \in Writers : /\ fifo_id'[v] # "none" <=> pc'[v] \in Connected
                         /\ pc'[v] \in Connected \cup {"open_uniq"} => rd_pid'[v] \in Pids
  <2>1. \A v \in Writers \ {w} :
          pc'[v] = pc[v] /\ fifo_id'[v] = fifo_id[v] /\ rd_pid'[v] = rd_pid[v]
    BY <1>1, <1>2
  <2> QED BY <1>1, <2>1 DEF TypeInv, Labels
<1>5. \A r \in Readers : pc'[r] \notin {"remove", "read", "dead"} => tries'[r] >= 1
  <2>1. \A r \in Readers : pc'[r] = pc[r] /\ tries'[r] = tries[r]
    BY <1>1, <1>2
  <2> QED BY <2>1 DEF TypeInv, Labels
<1>6. \A q \in opening' : pc'[q] = "opened_global"
  BY <1>1, <1>2 DEF TypeInv, TypeOK, Labels, Moves
<1>7. rd_end' \subseteq {q \in Readers : pc'[q] # "dead"}
  BY <1>1, <1>2 DEF TypeInv, TypeOK
<1>8. gends' \subseteq {q \in Procs : pc'[q] # "dead"}
  BY <1>1, <1>2 DEF TypeInv, TypeOK, Moves
<1>9. Labels'
  BY <1>1, <1>3, <1>4, <1>5, <1>6, <1>7 DEF Labels
<1>10. TypeOK'
  BY <1>1, <1>2, <1>7, <1>8 DEF TypeInv, TypeOK, Moves
<1> QED BY <1>9, <1>10 DEF TypeInv, Moves

\* Nothing but the pieces in a FIFO, what was printed and where a writer is in its
\* file changes.
LEMMA PiecesType ==
  ASSUME TypeInv, data' \in [Readers -> Seq(Piece)], out' \in [Readers -> Seq(Piece)],
         \A r \in Readers : Len(data'[r]) <= Capacity, fpos' \in [Writers -> 0 .. Chunks],
         UNCHANGED <<pc, status, globalVars, name, rd_end, fifo_id, met, pid, rd_pid, tries>>
  PROVE  TypeInv'
<1>1. TypeOK'
  BY DEF TypeInv, TypeOK, globalVars
<1>2. Labels'
  BY DEF TypeInv, Labels, globalVars
<1> QED BY <1>1, <1>2 DEF TypeInv, globalVars

LEMMA ReaderType ==
  ASSUME TypeInv, NEW r \in Readers, Reader(r)
  PROVE  TypeInv'
<1> USE DEF At, Receiving, ownVars, uniqVars, globalVars
<1>1. /\ r \in Procs /\ r \notin Writers /\ TypeOK /\ Labels
      /\ rd_end \subseteq Readers /\ (r \in rd_end <=> pc[r] \in Receiving)
      /\ tries[r] \in 0 .. Tries
      /\ pc[r] \notin {"remove", "read", "dead"} => tries[r] >= 1
      /\ \A p \in opening : pc[p] = "opened_global"
  BY FifoAssumption DEF Procs, TypeInv, TypeOK, Labels
<1>2. /\ opening \subseteq gends /\ global \in BOOLEAN /\ name \in [Pids -> Readers \cup {"none"}]
      /\ pids \in Seq(Pids) /\ tries \in [Readers -> 0 .. Tries] /\ pid[r] \in Pids
      /\ <<>> \in Seq(Pids)
  BY DEF TypeInv, TypeOK
<1>3. ASSUME NEW how \in {"ok", "error", "signal"}, end(r, how), UNCHANGED name
      PROVE  TypeInv'
  BY <1>1, <1>2, <1>3, EndType
<1>4. CASE mkfifo_global(r)
  <2>1. Moves(r, "open_global") /\ UNCHANGED <<fifo_id, met, rd_pid, rd_end>>
    BY <1>1, <1>2, <1>4 DEF GoesTo, Goto, Moves, RdLabels, mkfifo_global
  <2> QED BY <1>1, <1>4, <2>1, ReaderMoves DEF mkfifo_global
<1>5. CASE open_global(r)
  <2>1. ASSUME Goto(r, "opened_global"), global
        PROVE  Moves(r, "opened_global") /\ UNCHANGED <<fifo_id, met, rd_pid, rd_end>>
    BY <1>1, <1>2, <1>5, <2>1 DEF GoesTo, Goto, Moves, RdLabels, open_global, Partners
  <2> QED BY <1>1, <1>3, <1>5, <2>1, ReaderMoves DEF open_global
<1>6. CASE opened_global(r)
  <2>1. Moves(r, "make_uniq_fifo") /\ UNCHANGED <<fifo_id, met, rd_pid, rd_end>>
    BY <1>1, <1>2, <1>6 DEF GoesTo, Goto, Moves, RdLabels, opened_global
  <2> QED BY <1>1, <1>6, <2>1, ReaderMoves DEF opened_global
<1>7. CASE make_uniq_fifo(r)
  <2>1. Moves(r, "open_uniq") /\ UNCHANGED <<fifo_id, met, rd_pid, rd_end>>
    BY <1>1, <1>2, <1>7 DEF GoesTo, Goto, Moves, RdLabels, make_uniq_fifo
  <2> QED BY <1>1, <1>7, <2>1, ReaderMoves DEF make_uniq_fifo
<1>8. CASE rd_open_uniq(r)
  <2>1. ASSUME Goto(r, "send_pid"), rd_end' = rd_end \cup {r},
               UNCHANGED <<globalVars, name, fifo_id, met, data, ownVars>>
        PROVE  Moves(r, "send_pid") /\ UNCHANGED <<fifo_id, met, rd_pid>>
    BY <1>1, <1>2, <1>8, <2>1 DEF GoesTo, Goto, Moves, RdLabels, rd_open_uniq
  <2> QED BY <1>1, <1>3, <1>8, <2>1, ReaderMoves DEF rd_open_uniq
<1>9. CASE send_pid(r)
  <2>1. Append(pids, pid[r]) \in Seq(Pids)
    BY <1>2, AppendProperties
  <2>2. ASSUME Goto(r, "select"), pids' = Append(pids, pid[r]),
               UNCHANGED <<global, opening, gends, uniqVars, ownVars>>
        PROVE  Moves(r, "select") /\ UNCHANGED <<fifo_id, met, rd_pid, rd_end>>
    BY <1>1, <1>2, <1>9, <2>1, <2>2 DEF GoesTo, Goto, Moves, RdLabels, send_pid
  <2> QED BY <1>1, <1>3, <1>9, <2>2, ReaderMoves DEF send_pid
<1>10. CASE select(r)
  <2>1. Moves(r, "read") /\ UNCHANGED <<fifo_id, met, rd_pid, rd_end>>
    BY <1>1, <1>2, <1>10 DEF GoesTo, Goto, Moves, RdLabels, select, close_global
  <2> QED BY <1>1, <1>10, <2>1, ReaderMoves DEF select
<1>11. CASE timeout(r)
  <2>1. PICK there \in {"select", "remove"} :
          Goto(r, there) /\ (there = "select" => tries[r] > 1)
    BY <1>11 DEF timeout
  <2>2. /\ tries' \in [Readers -> 0 .. Tries] /\ tries'[r] = tries[r] - 1
        /\ \A q \in Readers \ {r} : tries'[q] = tries[q]
        /\ there = "select" => tries'[r] >= 1
    <3>1. tries[r] >= 1 /\ tries[r] - 1 \in 0 .. Tries
      BY <1>1, <1>11, FifoAssumption DEF timeout
    <3>2. tries' = [tries EXCEPT ![r] = @ - 1]
      BY <1>11 DEF timeout
    <3> QED BY <1>1, <1>2, <2>1, <3>1, <3>2
  <2>3. /\ opening' = opening /\ gends' \in {gends, gends \ {r}} /\ pids' \in {pids, <<>>}
        /\ UNCHANGED <<global, uniqVars, pid, rd_pid, fpos, out>>
    BY <1>11 DEF timeout, close_global
  <2>4. Moves(r, there)
    BY <1>1, <1>2, <1>11, <2>1, <2>2, <2>3 DEF GoesTo, Goto, Moves, RdLabels, timeout
  <2> QED BY <1>1, <1>11, <2>1, <2>2, <2>3, <2>4, ReaderMoves DEF timeout
<1>12. CASE rd_remove(r)
  <2>1. name' \in [Pids -> Readers \cup {"none"}]
    BY <1>2, <1>12 DEF rd_remove, remove
  <2> QED BY <1>1, <1>12, <2>1, EndType DEF rd_remove
<1>13. CASE read(r)
  <2>1. CASE /\ data[r] # <<>>
             /\ out' = [out EXCEPT ![r] = Append(@, Head(data[r]))]
             /\ data' = [data EXCEPT ![r] = Tail(@)]
             /\ UNCHANGED <<pc, status, globalVars, name, rd_end, fifo_id, met, pid, rd_pid, tries, fpos>>
    <3>1. /\ Tail(data[r]) \in Seq(Piece) /\ Len(Tail(data[r])) = Len(data[r]) - 1
          /\ Append(out[r], Head(data[r])) \in Seq(Piece)
      <4>1. data[r] \in Seq(Piece) /\ out[r] \in Seq(Piece) /\ data[r] # <<>>
        BY <2>1 DEF TypeInv
      <4>2. /\ Tail(data[r]) \in Seq(Piece) /\ Len(Tail(data[r])) = Len(data[r]) - 1
            /\ Head(data[r]) \in Piece
        BY <4>1, HeadTailProperties, Zenon
      <4>3. Append(out[r], Head(data[r])) \in Seq(Piece)
        BY <4>1, <4>2, AppendProperties
      <4> QED BY <4>2, <4>3
    <3>2. data' \in [Readers -> Seq(Piece)] /\ out' \in [Readers -> Seq(Piece)]
      BY <2>1, <3>1 DEF TypeInv
    <3>3. \A q \in Readers : Len(data'[q]) <= Capacity
      <4>1. Len(data[r]) \in Nat /\ Capacity \in Nat
        BY FifoAssumption, LenProperties DEF TypeInv
      <4> QED BY <2>1, <3>1, <4>1 DEF TypeInv, TypeOK
    <3> QED BY <2>1, <3>2, <3>3, PiecesType DEF TypeInv, TypeOK
  <2> QED BY <1>3, <1>13, <2>1 DEF read
<1> QED BY <1>4, <1>5, <1>6, <1>7, <1>8, <1>9, <1>10, <1>11, <1>12, <1>13 DEF Reader

LEMMA WriterType ==
  ASSUME TypeInv, NEW w \in Writers, Writer(w)
  PROVE  TypeInv'
<1> USE DEF At, Connected, ownVars, uniqVars, globalVars
<1>1. /\ w \in Procs /\ w \notin Readers /\ TypeOK /\ Labels
      /\ (fifo_id[w] # "none" <=> pc[w] \in Connected)
      /\ (pc[w] \in Connected \cup {"open_uniq"} => rd_pid[w] \in Pids)
      /\ \A p \in opening : pc[p] = "opened_global"
      /\ w # "none" /\ "none" \notin Readers
  BY FifoAssumption DEF Procs, TypeInv, TypeOK, Labels
<1>2. /\ opening \subseteq gends /\ global \in BOOLEAN /\ name \in [Pids -> Readers \cup {"none"}]
      /\ pids \in Seq(Pids) /\ tries \in [Readers -> 0 .. Tries] /\ <<>> \in Seq(Pids)
      /\ met \subseteq Readers /\ fifo_id \in [Writers -> met \cup {"none"}]
      /\ rd_pid \in [Writers -> Pids \cup {0}]
  BY DEF TypeInv, TypeOK
<1>3. ASSUME NEW how \in {"ok", "error", "signal"}, end(w, how), UNCHANGED name
      PROVE  TypeInv'
  BY <1>1, <1>2, <1>3, EndType
<1>4. CASE make_file(w)
  <2>1. ASSUME Goto(w, "open_global"), UNCHANGED <<globalVars, uniqVars, ownVars>>
        PROVE  Moves(w, "open_global")
    BY <1>1, <1>2, <1>4, <2>1 DEF GoesTo, Goto, Moves, WrLabels, make_file
  <2> QED BY <1>1, <1>2, <1>3, <1>4, <2>1, WriterMoves DEF make_file
<1>5. CASE open_global(w)
  <2>1. ASSUME Goto(w, "opened_global"), global
        PROVE  Moves(w, "opened_global")
    BY <1>1, <1>2, <1>5, <2>1 DEF GoesTo, Goto, Moves, WrLabels, open_global, Partners
  <2> QED BY <1>1, <1>2, <1>3, <1>5, <2>1, WriterMoves DEF open_global
<1>6. CASE opened_global(w)
  <2>1. Moves(w, "read_pid")
    BY <1>1, <1>2, <1>6 DEF GoesTo, Goto, Moves, WrLabels, opened_global
  <2> QED BY <1>1, <1>2, <1>6, <2>1, WriterMoves DEF opened_global
<1>7. CASE read_pid(w)
  <2>1. CASE /\ pids # <<>>
             /\ rd_pid' = [rd_pid EXCEPT ![w] = Head(pids)]
             /\ gends' = gends \ {w}
             /\ pids' = IF gends' = {} THEN <<>> ELSE Tail(pids)
             /\ Goto(w, "open_uniq")
             /\ UNCHANGED <<global, opening, uniqVars, pid, tries, fpos, out>>
    <3>1. Head(pids) \in Pids /\ Tail(pids) \in Seq(Pids)
      BY <1>2, <2>1, HeadTailProperties
    <3>2. Moves(w, "open_uniq")
      BY <1>1, <1>2, <1>7, <2>1, <3>1 DEF GoesTo, Goto, Moves, WrLabels, read_pid
    <3>3. /\ rd_pid' \in [Writers -> Pids \cup {0}] /\ rd_pid'[w] \in Pids
          /\ \A v \in Writers \ {w} : rd_pid'[v] = rd_pid[v]
      BY <1>2, <2>1, <3>1
    <3> QED BY <1>1, <1>2, <1>7, <2>1, <3>2, <3>3, WriterMoves DEF read_pid
  <2> QED BY <1>3, <1>7, <2>1 DEF read_pid
<1>8. CASE wr_open_uniq(w)
  <2>1. ASSUME NEW r \in rd_end, fifo_id' = [fifo_id EXCEPT ![w] = r], met' = met \cup {r},
               Goto(w, "remove"), UNCHANGED <<globalVars, name, rd_end, data, ownVars>>
        PROVE  TypeInv'
    <3>1. Moves(w, "remove")
      BY <1>1, <1>2, <1>8, <2>1 DEF GoesTo, Goto, Moves, WrLabels, wr_open_uniq
    <3>2. r \in Readers
      BY DEF TypeInv, TypeOK
    <3>3. /\ met' \subseteq Readers /\ fifo_id' \in [Writers -> met' \cup {"none"}]
          /\ fifo_id'[w] = r /\ \A v \in Writers \ {w} : fifo_id'[v] = fifo_id[v]
      BY <1>2, <2>1, <3>2
    <3> QED BY <1>1, <1>2, <1>8, <2>1, <3>1, <3>2, <3>3, WriterMoves DEF wr_open_uniq
  <2> QED BY <1>3, <1>8, <2>1 DEF wr_open_uniq
<1>9. CASE wr_remove(w)
  <2>1. ASSUME Goto(w, "write"), remove(rd_pid[w]),
               UNCHANGED <<globalVars, rd_end, fifo_id, met, data, ownVars>>
        PROVE  Moves(w, "write")
    BY <1>1, <1>2, <1>9, <2>1 DEF GoesTo, Goto, Moves, WrLabels, wr_remove, remove
  <2> QED BY <1>1, <1>2, <1>3, <1>9, <2>1, WriterMoves DEF wr_remove
<1>10. CASE write(w)
  <2>1. CASE /\ fpos[w] < Chunks /\ fifo_id[w] \in rd_end
             /\ Len(data[fifo_id[w]]) < Capacity
             /\ data' = [data EXCEPT ![fifo_id[w]] = Append(@, <<w, fpos[w] + 1>>)]
             /\ fpos' = [fpos EXCEPT ![w] = @ + 1]
             /\ UNCHANGED <<pc, status, globalVars, name, rd_end, fifo_id, met, pid, rd_pid, tries, out>>
    <3>1. fifo_id[w] \in Readers
      BY <2>1 DEF TypeInv, TypeOK
    <3>2. fpos[w] \in 0 .. Chunks /\ fpos[w] + 1 \in 1 .. Chunks /\ Chunks \in Nat /\ Capacity \in Nat
      BY <2>1, FifoAssumption DEF TypeInv, TypeOK
    <3>3. data[fifo_id[w]] \in Seq(Piece) /\ <<w, fpos[w] + 1>> \in Piece
      BY <3>1, <3>2 DEF TypeInv, Piece
    <3>4. /\ Append(data[fifo_id[w]], <<w, fpos[w] + 1>>) \in Seq(Piece)
          /\ Len(Append(data[fifo_id[w]], <<w, fpos[w] + 1>>)) = Len(data[fifo_id[w]]) + 1
          /\ Len(data[fifo_id[w]]) \in Nat
      BY <3>3, AppendProperties, LenProperties
    <3>5. data' \in [Readers -> Seq(Piece)]
      BY <2>1, <3>1, <3>4 DEF TypeInv
    <3>6. \A r \in Readers : Len(data'[r]) <= Capacity
      BY <2>1, <3>1, <3>2, <3>4 DEF TypeInv, TypeOK
    <3>7. fpos' \in [Writers -> 0 .. Chunks]
      BY <2>1, <3>2 DEF TypeInv, TypeOK
    <3> QED BY <2>1, <3>5, <3>6, <3>7, PiecesType DEF TypeInv
  <2> QED BY <1>3, <1>10, <2>1 DEF write
<1> QED BY <1>4, <1>5, <1>6, <1>7, <1>8, <1>9, <1>10 DEF Writer

LEMMA TypeStep == TypeInv /\ [Next]_vars => TypeInv'
<1> SUFFICES ASSUME TypeInv, [Next]_vars PROVE TypeInv'
  OBVIOUS
<1>1. CASE UNCHANGED vars
  BY <1>1 DEF vars, TypeInv, TypeOK, Labels
<1>2. CASE \E p \in Procs : kill(p)
  <2>1. PICK p \in Procs : kill(p)
    BY <1>2
  <2>2. name' \in [Pids -> Readers \cup {"none"}]
    BY <2>1 DEF kill, TypeInv, TypeOK
  <2> QED BY <2>1, <2>2, EndType DEF kill
<1> QED BY <1>1, <1>2, ReaderType, WriterType DEF Next

LEMMA TypeInit == Init => TypeInv
<1> SUFFICES ASSUME Init PROVE TypeInv
  OBVIOUS
<1>1. /\ \A p \in Procs : pc[p] = IF p \in Readers THEN "mkfifo_global" ELSE "make_file"
      /\ \A r \in Readers : r \in Procs
      /\ \A w \in Writers : w \in Procs /\ w \notin Readers
  BY FifoAssumption DEF Init, Procs
<1>2. Labels
  BY <1>1, FifoAssumption DEF Init, Labels, RdLabels, WrLabels, Receiving, Connected
<1>3. \A r \in Readers : Len(data[r]) <= Capacity
  BY FifoAssumption DEF Init
<1>4. TypeOK
  BY <1>1, <1>3, FifoAssumption DEF Init, TypeOK
<1> QED BY <1>2, <1>4 DEF TypeInv, Init

\* Every variable keeps its type, and only processes that run have a FIFO open: the
\* tries never fall below 0, no FIFO holds more than it can, no PID but that of a
\* reader is ever in the global FIFO.
THEOREM TypeCorrect == Spec => []TypeOK
<1>1. TypeInv => TypeOK
  BY DEF TypeInv
<1> QED BY <1>1, TypeInit, TypeStep, PTL DEF Spec

-----------------------------------------------------------------------------
\* The inductive invariant of the handshake and of the transfer

Running(r) == pc[r] \notin {"mkfifo_global", "dead"}

\* Everything that was written to r's FIFO.
All(r) == out[r] \o data[r]
File(w, n) == [i \in 1 .. n |-> <<w, i>>]
Feeds(w, r) == At(w, "write") /\ fifo_id[w] = r

\* Readers that run at the same time have different PIDs, and a name leads to the
\* FIFO of a reader with its PID.
OwnPids ==
  /\ \A q, r \in Readers : q # r /\ pid[q] = pid[r] => ~(Running(q) /\ Running(r))
  /\ \A i \in Pids : name[i] # "none" => pid[name[i]] = i
  /\ \A w \in Writers : fifo_id[w] # "none" => pid[fifo_id[w]] = rd_pid[w]

\* Who writes to a reader has removed the name of its FIFO before, and the name
\* does not come back while the reader runs.
Locked ==
  /\ \A r \in rd_end : All(r) # <<>> \/ (\E w \in Writers : Feeds(w, r)) => name[pid[r]] = "none"
  /\ \A r \in rd_end : \A v, w \in Writers : Feeds(v, r) /\ Feeds(w, r) => v = w

\* Only a reader that has its FIFO open is met, and nothing reaches one that is not.
Meetings ==
  /\ \A r \in met : pc[r] \in Receiving \cup {"dead"}
  /\ \A r \in Readers : All(r) # <<>> => r \in met
  /\ \A r \in Readers : pc[r] = "read" => r \in met

\* What was written to r's FIFO is what its one writer has read of its file.
Carried ==
  /\ \A r \in Readers : Source(r) # "none" =>
       /\ Source(r) \in Writers /\ fpos[Source(r)] >= 1
       /\ All(r) = File(Source(r), fpos[Source(r)])
       /\ At(Source(r), "dead") \/ Feeds(Source(r), r)
  /\ \A q, r \in Readers : Source(q) = Source(r) /\ Source(r) # "none" => q = r
  /\ \A w \in Writers : fpos[w] # 0 => pc[w] \in {"write", "dead"}
  /\ \A w \in Writers : At(w, "write") =>
       IF fpos[w] # 0 THEN Source(fifo_id[w]) = w
       ELSE fifo_id[w] \in rd_end => All(fifo_id[w]) = <<>>

\* A reader that was met gets something, has its writer still, or a writer failed.
Failures ==
  \A r \in met : \/ \E w \in Writers : fifo_id[w] = r \/ status[w] \in {"error", "signal"}
                 \/ Source(r) # "none"

TransferInv == OwnPids /\ Locked /\ Meetings /\ Carried /\ Failures

\* What is in a FIFO and what was printed of it, taken together.
LEMMA AllFacts ==
  ASSUME TypeInv, NEW r \in Readers
  PROVE  /\ data[r] \in Seq(Piece) /\ out[r] \in Seq(Piece) /\ All(r) \in Seq(Piece)
         /\ Len(All(r)) = Len(out[r]) + Len(data[r])
         /\ Len(out[r]) \in Nat /\ Len(data[r]) \in Nat
         /\ \A i \in 1 .. Len(out[r]) : All(r)[i] = out[r][i]
         /\ \A i \in 1 .. Len(data[r]) : All(r)[Len(out[r]) + i] = data[r][i]
         /\ All(r) = <<>> <=> out[r] = <<>> /\ data[r] = <<>>
         /\ Source(r) = IF All(r) = <<>> THEN "none" ELSE All(r)[1][1]
         /\ All(r) # <<>> => Source(r) \in Writers
         /\ Source(r) = "none" <=> All(r) = <<>>
<1>1. data[r] \in Seq(Piece) /\ out[r] \in Seq(Piece)
  BY DEF TypeInv
<1>2. /\ All(r) \in Seq(Piece) /\ Len(All(r)) = Len(out[r]) + Len(data[r])
      /\ \A i \in 1 .. Len(out[r]) + Len(data[r]) :
            All(r)[i] = IF i <= Len(out[r]) THEN out[r][i] ELSE data[r][i - Len(out[r])]
  BY <1>1, ConcatProperties DEF All
<1>3. Len(out[r]) \in Nat /\ Len(data[r]) \in Nat
  BY <1>1, LenProperties
<1>4. /\ \A i \in 1 .. Len(out[r]) : All(r)[i] = out[r][i]
      /\ \A i \in 1 .. Len(data[r]) : All(r)[Len(out[r]) + i] = data[r][i]
  <2> DEFINE m == Len(out[r])
             n == Len(data[r])
  <2>1. m \in Nat /\ n \in Nat
    BY <1>3
  <2>2. \A i \in 1 .. m + n : All(r)[i] = IF i <= m THEN out[r][i] ELSE data[r][i - m]
    BY <1>2
  <2> HIDE DEF m, n
  <2>3. \A i \in 1 .. m : i \in 1 .. m + n /\ i <= m
    BY <2>1
  <2>4. \A i \in 1 .. n : m + i \in 1 .. m + n /\ ~(m + i <= m) /\ (m + i) - m = i
    BY <2>1
  <2>5. \A i \in 1 .. m : All(r)[i] = out[r][i]
    BY <2>2, <2>3
  <2>6. \A i \in 1 .. n : All(r)[m + i] = data[r][i]
    BY <2>2, <2>4
  <2> QED BY <2>5, <2>6 DEF m, n
<1>5. /\ All(r) = <<>> <=> out[r] = <<>> /\ data[r] = <<>>
      /\ Source(r) = IF All(r) = <<>> THEN "none" ELSE All(r)[1][1]
      /\ All(r) # <<>> => All(r)[1] \in Piece
  <2>1. All(r) = <<>> <=> out[r] = <<>> /\ data[r] = <<>>
    BY <1>1, ConcatEqualIffEmpty DEF All
  <2>2. All(r) # <<>> => Len(All(r)) \in Nat \ {0}
    BY <1>2, EmptySeq
  <2>3. All(r) # <<>> => 1 \in 1 .. Len(All(r))
    BY <2>2
  <2>4. All(r) # <<>> => All(r)[1] \in Piece
    BY <1>2, <2>3, ElementOfSeq
  <2> QED BY <2>1, <2>4 DEF Source, All
<1>6. All(r) # <<>> => Source(r) \in Writers
  BY <1>5 DEF Piece
<1> QED BY <1>1, <1>2, <1>3, <1>4, <1>5, <1>6, FifoAssumption DEF Procs

\* A step that reads and writes no piece keeps Carried, if whoever writes goes on
\* or ends, and whoever begins to write begins with its file and an empty FIFO.
LEMMA CarriedKept ==
  ASSUME TypeInv, TransferInv, fpos' = fpos,
         \A r \in Readers : All(r)' = All(r) /\ Source(r)' = Source(r),
         \A w \in Writers : At(w, "write") => (At(w, "write")' /\ fifo_id'[w] = fifo_id[w]) \/ At(w, "dead")',
         \A w \in Writers : At(w, "dead") => At(w, "dead")',
         \A w \in Writers : At(w, "write")' =>
           /\ fifo_id'[w] = fifo_id[w] /\ fifo_id[w] \in Readers
           /\ fifo_id[w] \in rd_end' => fifo_id[w] \in rd_end
           /\ \/ At(w, "write")
              \/ fpos[w] = 0 /\ (fifo_id[w] \in rd_end => All(fifo_id[w]) = <<>>)
  PROVE  Carried'
<1>1. \A r \in Readers : File(Source(r), fpos[Source(r)])' = File(Source(r), fpos[Source(r)])
  BY DEF File
<1>2. \A w \in Writers : pc[w] \in {"write", "dead"} => pc'[w] \in {"write", "dead"}
  BY DEF At
<1>3. ASSUME NEW r \in Readers, Source(r)' # "none"
      PROVE  /\ Source(r)' \in Writers /\ fpos'[Source(r)'] >= 1
             /\ All(r)' = File(Source(r), fpos[Source(r)])'
             /\ At(Source(r), "dead")' \/ Feeds(Source(r), r)'
  <2>1. /\ Source(r) \in Writers /\ fpos[Source(r)] >= 1
        /\ All(r) = File(Source(r), fpos[Source(r)])
        /\ At(Source(r), "dead") \/ Feeds(Source(r), r)
    BY <1>3 DEF TransferInv, Carried
  <2>2. Source(r)' = Source(r)
    BY <1>3
  <2>3. At(Source(r), "dead")' \/ Feeds(Source(r), r)'
    BY <2>1, <2>2 DEF Feeds, At
  <2> QED BY <1>1, <1>3, <2>1, <2>2, <2>3
<1>4. \A q, r \in Readers : Source(q)' = Source(r)' /\ Source(r)' # "none" => q = r
  BY DEF TransferInv, Carried
<1>5. \A w \in Writers : fpos'[w] # 0 => pc'[w] \in {"write", "dead"}
  BY <1>2 DEF TransferInv, Carried
<1>6. \A w \in Writers : At(w, "write")' =>
        IF fpos'[w] # 0 THEN Source(fifo_id[w])' = w
        ELSE fifo_id'[w] \in rd_end' => All(fifo_id[w])' = <<>>
  <2> SUFFICES ASSUME NEW w \in Writers, At(w, "write")'
               PROVE  IF fpos[w] # 0 THEN Source(fifo_id[w])' = w
                      ELSE fifo_id[w] \in rd_end' => All(fifo_id[w])' = <<>>
    OBVIOUS
  <2>1. fifo_id'[w] = fifo_id[w] /\ fifo_id[w] \in Readers
    OBVIOUS
  <2>2. /\ Source(fifo_id[w])' = Source(fifo_id[w])
        /\ All(fifo_id[w])' = All(fifo_id[w])
    BY <2>1 DEF Source, All
  <2> QED BY <2>2 DEF TransferInv, Carried
<1> QED BY <1>3, <1>4, <1>5, <1>6 DEF Carried

\* A step of p that moves neither pieces nor names.
LEMMA CalmStep ==
  ASSUME TypeInv, TransferInv, NEW p \in Procs, NEW there, Goto(p, there),
         pc[p] \notin {"dead", "write"}, there \notin {"dead", "write", "mkfifo_global"},
         UNCHANGED <<pid, name, fifo_id, met, data, out, fpos>>,
         \A w \in Writers : fifo_id[w] # "none" => rd_pid'[w] = rd_pid[w],
         \A r \in rd_end' : r \in rd_end \/ (r = p /\ pc[p] = "open_uniq"),
         rd_end' \subseteq Readers,
         p \in Readers /\ pc[p] \in Receiving => there \in Receiving,
         there = "read" => p \in met,
         pc[p] = "mkfifo_global" => \A q \in Readers \ {p} : pid[q] = pid[p] => ~Running(q)
  PROVE  TransferInv'
<1>1. /\ \A q \in Procs : pc'[q] = IF q = p THEN there ELSE pc[q]
      /\ status' = status
  BY DEF Goto, TypeInv, TypeOK
<1>2. /\ \A r \in Readers : r \in Procs
      /\ \A w \in Writers : w \in Procs /\ w \notin Readers
  BY FifoAssumption DEF Procs
<1>3. \A r \in Readers : All(r)' = All(r) /\ Source(r)' = Source(r)
  BY DEF All, Source
<1>4. \A w \in Writers : At(w, "write")' <=> At(w, "write")
  BY <1>1, <1>2 DEF At
<1>5. \A w \in Writers, r \in Readers : Feeds(w, r)' <=> Feeds(w, r)
  BY <1>4 DEF Feeds
<1>6. OwnPids'
  <2>1. \A q, r \in Readers : q # r /\ pid[q] = pid[r] => ~(Running(q)' /\ Running(r)')
    BY <1>1, <1>2 DEF TransferInv, OwnPids, Running
  <2> QED BY <2>1 DEF TransferInv, OwnPids
<1>7. \A r \in rd_end' : \/ r \in rd_end
                         \/ All(r) = <<>> /\ \A w \in Writers : fifo_id[w] # r
  <2> SUFFICES ASSUME NEW r \in Readers, pc[r] = "open_uniq"
               PROVE  All(r) = <<>> /\ \A w \in Writers : fifo_id[w] # r
    OBVIOUS
  <2>1. r \notin met
    BY DEF TransferInv, Meetings, Receiving
  <2> QED BY <2>1, FifoAssumption DEF TransferInv, Meetings, TypeInv, TypeOK, Procs
<1>8. Locked'
  BY <1>3, <1>5, <1>7 DEF TransferInv, Locked, Feeds
<1>9. Meetings'
  BY <1>1, <1>2, <1>3 DEF TransferInv, Meetings, TypeInv, TypeOK
<1>10. Carried'
  <2>1. \A w \in Writers : At(w, "dead")' <=> At(w, "dead")
    BY <1>1, <1>2 DEF At
  <2>2. \A v \in Writers : At(v, "write") => fifo_id[v] \in Readers
    BY DEF At, TypeInv, TypeOK, Labels, Connected
  <2>3. \A w \in Writers : At(w, "write") /\ fifo_id[w] \in rd_end' => fifo_id[w] \in rd_end
    BY <1>7
  <2> QED BY <1>3, <1>4, <2>1, <2>2, <2>3, CarriedKept
<1>11. Failures'
  BY <1>1, <1>3 DEF TransferInv, Failures, TypeInv, TypeOK
<1> QED BY <1>6, <1>8, <1>9, <1>10, <1>11 DEF TransferInv

\* Passing the first element of a queue on keeps the two queues, taken together.
LEMMA PassHead ==
  ASSUME NEW S, NEW s \in Seq(S), NEW t \in Seq(S), t # <<>>
  PROVE  Append(s, Head(t)) \o Tail(t) = s \o t
<1>1. Head(t) \in S /\ Tail(t) \in Seq(S) /\ <<Head(t)>> \in Seq(S)
  BY HeadTailProperties
<1>2. Append(s, Head(t)) = s \o <<Head(t)>>
  BY <1>1, AppendIsConcat
<1>3. <<Head(t)>> \o Tail(t) = t
  <2>1. Len(t) \in Nat \ {0}
    BY EmptySeq
  <2>2. 1 \in 1 .. Len(t) /\ Len(t) \in 1 .. Len(t)
    BY <2>1
  <2>3. SubSeq(t, 1, Len(t)) = <<t[1]>> \o SubSeq(t, 1 + 1, Len(t))
    BY <2>2, SubSeqRecursiveFirst
  <2>4. Head(t) = t[1] /\ Tail(t) = SubSeq(t, 1 + 1, Len(t))
    BY TailIsSubSeq
  <2> QED BY <2>3, <2>4, SubSeqFull
<1> QED BY <1>1, <1>2, <1>3, ConcatAssociative

LEMMA ConcatAppend ==
  ASSUME NEW S, NEW s \in Seq(S), NEW t \in Seq(S), NEW x \in S
  PROVE  s \o Append(t, x) = Append(s \o t, x)
<1>1. /\ s \o t \in Seq(S) /\ <<x>> \in Seq(S)
      /\ Append(t, x) = t \o <<x>>
  BY AppendIsConcat, ConcatProperties
<1>2. Append(s \o t, x) = (s \o t) \o <<x>>
  BY <1>1, AppendIsConcat
<1> QED BY <1>1, <1>2, ConcatAssociative

\* The end of a process, which takes a name away at most.
LEMMA EndStep ==
  ASSUME TypeInv, TransferInv, NEW p \in Procs, NEW how \in {"ok", "error", "signal"},
         end(p, how), pc[p] # "dead", \A i \in Pids : name'[i] \in {name[i], "none"},
         how = "ok" /\ p \in Writers => At(p, "write") /\ fpos[p] = Chunks
  PROVE  TransferInv'
<1>1. /\ \A q \in Procs : pc'[q] = IF q = p THEN "dead" ELSE pc[q]
      /\ \A q \in Procs : status'[q] = IF q = p THEN how ELSE status[q]
      /\ rd_end' = rd_end \ {p}
      /\ \A w \in Writers : fifo_id'[w] = IF w = p THEN "none" ELSE fifo_id[w]
      /\ UNCHANGED <<met, data, pid, rd_pid, fpos, out>>
  BY DEF end, ownVars, TypeInv, TypeOK
<1>2. /\ \A r \in Readers : r \in Procs /\ r # "none" /\ pid[r] \in Pids
      /\ \A w \in Writers : w \in Procs /\ w \notin Readers /\ w # "none"
      /\ rd_end \subseteq Readers
  BY FifoAssumption DEF Procs, TypeInv, TypeOK
<1>3. \A r \in Readers : All(r)' = All(r) /\ Source(r)' = Source(r)
  BY <1>1 DEF All, Source
<1>4. \A w \in Writers : /\ At(w, "write")' <=> At(w, "write") /\ w # p
                         /\ At(w, "dead")' <=> At(w, "dead") \/ w = p
  BY <1>1, <1>2 DEF At
<1>5. \A w \in Writers, r \in Readers : Feeds(w, r)' <=> Feeds(w, r) /\ w # p
  BY <1>1, <1>2, <1>4 DEF Feeds
<1>6. OwnPids'
  <2>1. \A q, r \in Readers : q # r /\ pid[q] = pid[r] => ~(Running(q)' /\ Running(r)')
    BY <1>1, <1>2 DEF TransferInv, OwnPids, Running
  <2> QED BY <1>1, <1>2, <2>1 DEF TransferInv, OwnPids
<1>7. Locked'
  BY <1>1, <1>2, <1>3, <1>5 DEF TransferInv, Locked
<1>8. Meetings'
  BY <1>1, <1>2, <1>3 DEF TransferInv, Meetings, TypeInv, TypeOK
<1>9. Carried'
  <2>1. \A v \in Writers : At(v, "write") => fifo_id[v] \in Readers
    BY DEF At, TypeInv, TypeOK, Labels, Connected
  <2> QED BY <1>1, <1>3, <1>4, <2>1, CarriedKept
<1>10. Failures'
  <2> SUFFICES ASSUME NEW r \in met
               PROVE  \/ \E w \in Writers : fifo_id'[w] = r \/ status'[w] \in {"error", "signal"}
                      \/ Source(r) # "none"
    BY <1>1, <1>3 DEF Failures, TypeInv, TypeOK
  <2>1. ASSUME NEW w \in Writers, status[w] \in {"error", "signal"}
        PROVE  status'[w] \in {"error", "signal"}
    BY <1>1, <1>2, <2>1 DEF TypeInv, Labels
  <2>2. ASSUME p \in Writers, fifo_id[p] = r, how = "ok"
        PROVE  Source(r) # "none"
    BY <1>2, <2>2, FifoAssumption DEF TransferInv, Carried
  <2>3. ASSUME NEW w \in Writers, fifo_id[w] = r
        PROVE  fifo_id'[w] = r \/ status'[w] \in {"error", "signal"} \/ Source(r) # "none"
    BY <1>1, <1>2, <2>2, <2>3
  <2> QED BY <2>1, <2>3 DEF TransferInv, Failures
<1> QED BY <1>6, <1>7, <1>8, <1>9, <1>10 DEF TransferInv

\* A reader makes its FIFO, under a name that nobody else who runs uses.
LEMMA MakeStep ==
  ASSUME TypeInv, TransferInv, NEW r \in Readers, make_uniq_fifo(r)
  PROVE  TransferInv'
<1>1. /\ \A q \in Procs : pc'[q] = IF q = r THEN "open_uniq" ELSE pc[q]
      /\ pc[r] = "make_uniq_fifo" /\ status' = status
      /\ \A i \in Pids : name'[i] = IF i = pid[r] THEN r ELSE name[i]
      /\ UNCHANGED <<rd_end, fifo_id, met, data, pid, rd_pid, fpos, out>>
  BY DEF make_uniq_fifo, Goto, At, ownVars, globalVars, TypeInv, TypeOK
<1>2. /\ \A q \in Readers : q \in Procs /\ q # "none" /\ pid[q] \in Pids
      /\ \A w \in Writers : w \in Procs /\ w \notin Readers /\ w # "none"
      /\ rd_end \subseteq Readers /\ met \subseteq Readers
  BY FifoAssumption DEF Procs, TypeInv, TypeOK
<1>3. \A q \in Readers : All(q)' = All(q) /\ Source(q)' = Source(q)
  BY <1>1 DEF All, Source
<1>4. \A w \in Writers : pc'[w] = pc[w] /\ (At(w, "write")' <=> At(w, "write"))
                                        /\ (At(w, "dead")' <=> At(w, "dead"))
  BY <1>1, <1>2 DEF At
<1>5. \A w \in Writers, q \in Readers : Feeds(w, q)' <=> Feeds(w, q)
  BY <1>1, <1>4 DEF Feeds
<1>6. OwnPids'
  <2>1. \A q \in Readers : Running(q)' => Running(q)
    BY <1>1, <1>2 DEF Running
  <2>2. \A i \in Pids : name'[i] # "none" => pid[name'[i]] = i
    BY <1>1 DEF TransferInv, OwnPids
  <2> QED BY <1>1, <2>1, <2>2 DEF TransferInv, OwnPids
<1>7. Locked'
  <2>1. \A q \in rd_end : Running(q) /\ q # r
    BY <1>1, <1>2 DEF Running, TypeInv, Labels, Receiving
  <2>2. \A q \in rd_end : pid[q] # pid[r]
    BY <1>1, <1>2, <2>1 DEF TransferInv, OwnPids, Running
  <2>3. \A q \in rd_end : name'[pid[q]] = name[pid[q]]
    BY <1>1, <1>2, <2>2
  <2> QED BY <1>1, <1>2, <1>3, <1>5, <2>3 DEF TransferInv, Locked
<1>8. Meetings'
  BY <1>1, <1>2, <1>3 DEF TransferInv, Meetings, Receiving
<1>9. Carried'
  <2>1. \A v \in Writers : At(v, "write") => fifo_id[v] \in Readers
    BY DEF At, TypeInv, TypeOK, Labels, Connected
  <2> QED BY <1>1, <1>3, <1>4, <2>1, CarriedKept
<1>10. Failures'
  BY <1>1, <1>2, <1>3 DEF TransferInv, Failures
<1> QED BY <1>6, <1>7, <1>8, <1>9, <1>10 DEF TransferInv

\* A writer opens the FIFO that the name leads to.
LEMMA ConnectStep ==
  ASSUME TypeInv, TransferInv, NEW w \in Writers, At(w, "open_uniq"), NEW r \in rd_end,
         r = name[rd_pid[w]], fifo_id' = [fifo_id EXCEPT ![w] = r], met' = met \cup {r},
         Goto(w, "remove"), UNCHANGED <<name, rd_end, data, ownVars>>
  PROVE  TransferInv'
<1>1. /\ \A q \in Procs : pc'[q] = IF q = w THEN "remove" ELSE pc[q]
      /\ pc[w] = "open_uniq" /\ status' = status
      /\ \A v \in Writers : fifo_id'[v] = IF v = w THEN r ELSE fifo_id[v]
      /\ UNCHANGED <<name, rd_end, data, pid, rd_pid, fpos, out>>
  BY DEF Goto, At, ownVars, TypeInv, TypeOK
<1>2. /\ \A q \in Readers : q \in Procs /\ q # "none"
      /\ \A v \in Writers : v \in Procs /\ v \notin Readers /\ v # "none"
      /\ rd_end \subseteq Readers /\ met \subseteq Readers /\ rd_pid[w] \in Pids
  BY <1>1, FifoAssumption DEF Procs, TypeInv, TypeOK, Labels
<1>3. \A q \in Readers : All(q)' = All(q) /\ Source(q)' = Source(q)
  BY <1>1 DEF All, Source
<1>4. \A v \in Writers : (At(v, "write")' <=> At(v, "write")) /\ (At(v, "dead")' <=> At(v, "dead"))
  BY <1>1, <1>2 DEF At
<1>5. \A v \in Writers, q \in Readers : Feeds(v, q)' <=> Feeds(v, q)
  BY <1>1, <1>2, <1>4 DEF Feeds, At
<1>6. OwnPids'
  <2>1. \A q \in Readers : Running(q)' <=> Running(q)
    BY <1>1, <1>2 DEF Running
  <2>2. pid[r] = rd_pid[w]
    BY <1>2 DEF TransferInv, OwnPids
  <2> QED BY <1>1, <2>1, <2>2 DEF TransferInv, OwnPids
<1>7. Locked'
  BY <1>1, <1>2, <1>3, <1>5 DEF TransferInv, Locked
<1>8. Meetings'
  <2>1. \A q \in Readers : pc'[q] = pc[q]
    BY <1>1, <1>2
  <2>2. pc[r] \in Receiving /\ r \in Readers
    BY <1>2 DEF TypeInv, Labels
  <2> QED BY <1>2, <1>3, <2>1, <2>2 DEF TransferInv, Meetings
<1>9. Carried'
  <2>1. \A v \in Writers : At(v, "write") => fifo_id[v] \in Readers
    BY DEF At, TypeInv, TypeOK, Labels, Connected
  <2>2. \A v \in Writers : At(v, "write") => v # w
    BY <1>1 DEF At
  <2> QED BY <1>1, <1>3, <1>4, <2>1, <2>2, CarriedKept
<1>10. Failures'
  <2>1. fifo_id[w] = "none" /\ fifo_id'[w] = r
    BY <1>1 DEF TypeInv, Labels, Connected
  <2>2. \A q \in met, v \in Writers : fifo_id[v] = q => fifo_id'[v] = q
    BY <1>1, <1>2, <2>1
  <2> QED BY <1>1, <1>2, <1>3, <2>1, <2>2 DEF TransferInv, Failures
<1> QED BY <1>6, <1>7, <1>8, <1>9, <1>10 DEF TransferInv

\* A writer takes the lock: it removes the name that was still there.
LEMMA LockStep ==
  ASSUME TypeInv, TransferInv, NEW w \in Writers, At(w, "remove"), name[rd_pid[w]] # "none",
         remove(rd_pid[w]), Goto(w, "write"),
         UNCHANGED <<globalVars, rd_end, fifo_id, met, data, ownVars>>
  PROVE  TransferInv'
<1>1. /\ \A q \in Procs : pc'[q] = IF q = w THEN "write" ELSE pc[q]
      /\ pc[w] = "remove" /\ status' = status
      /\ \A i \in Pids : name'[i] = IF i = rd_pid[w] THEN "none" ELSE name[i]
      /\ UNCHANGED <<rd_end, fifo_id, met, data, pid, rd_pid, fpos, out>>
  BY DEF Goto, At, ownVars, remove, TypeInv, TypeOK
<1>2. /\ \A q \in Readers : q \in Procs /\ q # "none" /\ pid[q] \in Pids
      /\ \A v \in Writers : v \in Procs /\ v \notin Readers /\ v # "none"
      /\ rd_end \subseteq Readers /\ met \subseteq Readers /\ rd_pid[w] \in Pids
      /\ fifo_id[w] \in Readers
  BY <1>1, FifoAssumption DEF Procs, TypeInv, TypeOK, Labels, Connected
<1>3. \A q \in Readers : All(q)' = All(q) /\ Source(q)' = Source(q)
  BY <1>1 DEF All, Source
<1>4. \A v \in Writers : /\ At(v, "write")' <=> At(v, "write") \/ v = w
                         /\ At(v, "dead")' <=> At(v, "dead")
  BY <1>1, <1>2 DEF At
<1>5. \A v \in Writers, q \in Readers :
        Feeds(v, q)' <=> Feeds(v, q) \/ (v = w /\ q = fifo_id[w])
  BY <1>1, <1>2, <1>4 DEF Feeds
<1>6. pid[fifo_id[w]] = rd_pid[w]
  BY <1>2 DEF TransferInv, OwnPids
<1>7. OwnPids'
  <2>1. \A q \in Readers : Running(q)' <=> Running(q)
    BY <1>1, <1>2 DEF Running
  <2> QED BY <1>1, <2>1 DEF TransferInv, OwnPids
<1>8. fifo_id[w] \in rd_end =>
        All(fifo_id[w]) = <<>> /\ \A v \in Writers : ~Feeds(v, fifo_id[w])
  BY <1>6 DEF TransferInv, Locked
<1>9. Locked'
  BY <1>1, <1>2, <1>3, <1>5, <1>6, <1>8 DEF TransferInv, Locked
<1>10. Meetings'
  BY <1>1, <1>2, <1>3 DEF TransferInv, Meetings
<1>11. Carried'
  <2>1. fpos[w] = 0
    BY <1>1 DEF TransferInv, Carried
  <2>2. \A v \in Writers : At(v, "write") => fifo_id[v] \in Readers
    BY DEF At, TypeInv, TypeOK, Labels, Connected
  <2> QED BY <1>1, <1>2, <1>3, <1>4, <1>8, <2>1, <2>2, CarriedKept
<1>12. Failures'
  BY <1>1, <1>2, <1>3 DEF TransferInv, Failures
<1> QED BY <1>7, <1>9, <1>10, <1>11, <1>12 DEF TransferInv

LEMMA FileAppend ==
  ASSUME NEW w \in Writers, NEW n \in Nat
  PROVE  /\ Len(File(w, n)) = n /\ (File(w, n) = <<>> <=> n = 0)
         /\ Append(File(w, n), <<w, n + 1>>) = File(w, n + 1)
<1>1. /\ Len(File(w, n)) = n /\ DOMAIN File(w, n) = 1 .. n
      /\ \A i \in 1 .. n : File(w, n)[i] = <<w, i>>
      /\ File(w, n) \in Seq(Writers \X Nat)
  BY DEF File
<1>2. File(w, n) = <<>> <=> n = 0
  BY <1>1, EmptySeq
<1>3. /\ Append(File(w, n), <<w, n + 1>>) \in Seq(Writers \X Nat)
      /\ Len(Append(File(w, n), <<w, n + 1>>)) = n + 1
      /\ \A i \in 1 .. n : Append(File(w, n), <<w, n + 1>>)[i] = <<w, i>>
      /\ Append(File(w, n), <<w, n + 1>>)[n + 1] = <<w, n + 1>>
  BY <1>1, AppendProperties
<1>4. /\ File(w, n + 1) \in Seq(Writers \X Nat) /\ Len(File(w, n + 1)) = n + 1
      /\ \A i \in 1 .. n + 1 : File(w, n + 1)[i] = <<w, i>>
  BY DEF File
<1>5. \A i \in 1 .. n + 1 : Append(File(w, n), <<w, n + 1>>)[i] = File(w, n + 1)[i]
  <2>1. \A i \in 1 .. n + 1 : i \in 1 .. n \/ i = n + 1
    OBVIOUS
  <2>2. Append(File(w, n), <<w, n + 1>>)[n + 1] = File(w, n + 1)[n + 1]
    BY <1>3, <1>4
  <2>3. ASSUME NEW i \in 1 .. n
        PROVE  Append(File(w, n), <<w, n + 1>>)[i] = File(w, n + 1)[i]
    <3>1. i \in 1 .. n + 1
      OBVIOUS
    <3>2. Append(File(w, n), <<w, n + 1>>)[i] = <<w, i>>
      BY <1>3
    <3>3. File(w, n + 1)[i] = <<w, i>>
      BY <1>4, <3>1
    <3> QED BY <3>2, <3>3
  <2> QED BY <2>1, <2>2, <2>3
<1> QED BY <1>1, <1>2, <1>3, <1>4, <1>5, SeqEqual

\* The writer's step that sends a piece.
Sends(w, r) ==
  /\ At(w, "write") /\ fifo_id[w] = r /\ fpos[w] < Chunks /\ r \in rd_end
  /\ data' = [data EXCEPT ![r] = Append(@, <<w, fpos[w] + 1>>)]
  /\ fpos' = [fpos EXCEPT ![w] = @ + 1]
  /\ UNCHANGED <<pc, status, globalVars, name, rd_end, fifo_id, met, pid, rd_pid, tries, out>>

LEMMA SendsFacts ==
  ASSUME TypeInv, TransferInv, NEW w \in Writers, NEW r \in Readers, Sends(w, r)
  PROVE  /\ Source(r) \in {"none", w} /\ Source(r)' = w
         /\ All(r) = File(w, fpos[w]) /\ All(r)' = File(w, fpos[w] + 1)
         /\ \A q \in Readers \ {r} : Source(q) # w /\ All(q)' = All(q) /\ Source(q)' = Source(q)
<1>1. /\ fpos[w] \in Nat /\ <<w, fpos[w] + 1>> \in Piece
      /\ data[r] \in Seq(Piece) /\ out[r] \in Seq(Piece)
      /\ data'[r] = Append(data[r], <<w, fpos[w] + 1>>) /\ out' = out
      /\ \A q \in Readers \ {r} : data'[q] = data[q]
  BY FifoAssumption DEF Sends, TypeInv, TypeOK, Piece
<1>2. Source(r) = (IF fpos[w] = 0 THEN "none" ELSE w) /\ All(r) = File(w, fpos[w])
  <2>1. CASE fpos[w] = 0
    <3>1. All(r) = <<>>
      BY <2>1 DEF TransferInv, Carried, Sends
    <3>2. File(w, 0) = <<>>
      BY FileAppend
    <3> QED BY <2>1, <3>1, <3>2 DEF Source, All
  <2>2. CASE fpos[w] # 0
    <3>1. Source(r) = w /\ w # "none"
      BY <2>2, FifoAssumption DEF TransferInv, Carried, Sends, Procs
    <3> QED BY <2>2, <3>1 DEF TransferInv, Carried
  <2> QED BY <2>1, <2>2
<1>3. All(r)' = File(w, fpos[w] + 1)
  <2>1. out[r] \o Append(data[r], <<w, fpos[w] + 1>>) = Append(All(r), <<w, fpos[w] + 1>>)
    <3> DEFINE s == out[r]
               t == data[r]
               x == <<w, fpos[w] + 1>>
    <3>1. s \in Seq(Piece) /\ t \in Seq(Piece) /\ x \in Piece
      BY <1>1
    <3> HIDE DEF s, t, x
    <3>2. s \o Append(t, x) = Append(s \o t, x)
      BY <3>1, ConcatAppend
    <3> QED BY <3>2 DEF All, s, t, x
  <2>2. All(r)' = Append(All(r), <<w, fpos[w] + 1>>)
    BY <1>1, <2>1 DEF All
  <2> QED BY <1>1, <1>2, <2>2, FileAppend
<1>4. Source(r)' = w
  <2>1. File(w, fpos[w] + 1) # <<>> /\ File(w, fpos[w] + 1)[1] = <<w, 1>>
    <3>1. fpos[w] + 1 \in Nat /\ fpos[w] + 1 # 0 /\ 1 \in 1 .. fpos[w] + 1
      BY <1>1
    <3> QED BY <3>1, FileAppend DEF File
  <2> QED BY <1>3, <2>1 DEF Source, All
<1>5. \A q \in Readers \ {r} : All(q)' = All(q) /\ Source(q)' = Source(q)
  BY <1>1 DEF All, Source
<1>6. \A q \in Readers \ {r} : Source(q) # w
  <2> SUFFICES ASSUME NEW q \in Readers \ {r}, Source(q) = w PROVE FALSE
    OBVIOUS
  <2>1. w # "none"
    BY FifoAssumption DEF Procs
  <2>2. Feeds(w, q)
    BY <2>1 DEF TransferInv, Carried, Sends, At
  <2> QED BY <2>2 DEF Feeds, Sends
<1> QED BY <1>2, <1>3, <1>4, <1>5, <1>6

LEMMA WriteStep ==
  ASSUME TypeInv, TransferInv, NEW w \in Writers, NEW r \in Readers, Sends(w, r)
  PROVE  TransferInv'
<1>1. /\ Source(r) \in {"none", w} /\ Source(r)' = w
      /\ All(r) = File(w, fpos[w]) /\ All(r)' = File(w, fpos[w] + 1)
      /\ \A q \in Readers \ {r} : Source(q) # w /\ All(q)' = All(q) /\ Source(q)' = Source(q)
  BY SendsFacts
<1>2. /\ fpos[w] \in Nat /\ fpos'[w] = fpos[w] + 1
      /\ \A v \in Writers \ {w} : fpos'[v] = fpos[v]
      /\ UNCHANGED <<pc, status, name, rd_end, fifo_id, met, pid, rd_pid>>
      /\ At(w, "write") /\ fifo_id[w] = r /\ r \in rd_end /\ Feeds(w, r)
      /\ w # "none" /\ \A q \in Readers : q # "none"
  BY FifoAssumption DEF Sends, TypeInv, TypeOK, Procs, Feeds
<1>3. \A v \in Writers, q \in Readers : Feeds(v, q)' <=> Feeds(v, q)
  BY <1>2 DEF Feeds, At
<1>4. OwnPids'
  BY <1>2 DEF TransferInv, OwnPids, Running
<1>5. Locked'
  <2>1. \A q \in rd_end : q \in Readers
    BY DEF TypeInv, TypeOK
  <2> QED BY <1>1, <1>2, <1>3, <2>1 DEF TransferInv, Locked
<1>6. Meetings'
  <2>1. r \in met
    BY <1>2 DEF TypeInv, TypeOK
  <2> QED BY <1>1, <1>2, <2>1 DEF TransferInv, Meetings
<1>7. Carried'
  <2>1. ASSUME NEW q \in Readers, Source(q)' # "none"
        PROVE  /\ Source(q)' \in Writers /\ fpos'[Source(q)'] >= 1
               /\ All(q)' = File(Source(q), fpos[Source(q)])'
               /\ At(Source(q), "dead")' \/ Feeds(Source(q), q)'
    <3>1. CASE q = r
      BY <1>1, <1>2, <1>3, <3>1 DEF File
    <3>2. CASE q # r
      <4>1. Source(q)' = Source(q) /\ Source(q) # w /\ All(q)' = All(q)
        BY <1>1, <3>2
      <4>2. /\ Source(q) \in Writers /\ fpos[Source(q)] >= 1
            /\ All(q) = File(Source(q), fpos[Source(q)])
            /\ At(Source(q), "dead") \/ Feeds(Source(q), q)
        BY <2>1, <4>1 DEF TransferInv, Carried
      <4>3. fpos'[Source(q)] = fpos[Source(q)]
        BY <1>2, <4>1, <4>2
      <4>4. At(Source(q), "dead")' \/ Feeds(Source(q), q)'
        BY <1>2, <4>1, <4>2 DEF Feeds, At
      <4> QED BY <4>1, <4>2, <4>3, <4>4 DEF File
    <3> QED BY <3>1, <3>2
  <2>2. \A p, q \in Readers : Source(p)' = Source(q)' /\ Source(q)' # "none" => p = q
    <3>1. \A p, q \in Readers \ {r} : Source(p)' = Source(q)' /\ Source(q)' # "none" => p = q
      BY <1>1 DEF TransferInv, Carried
    <3> QED BY <1>1, <3>1
  <2>3. \A v \in Writers : fpos'[v] # 0 => pc'[v] \in {"write", "dead"}
    BY <1>2 DEF TransferInv, Carried, At
  <2>4. \A v \in Writers : At(v, "write")' =>
          IF fpos'[v] # 0 THEN Source(fifo_id[v])' = v
          ELSE fifo_id'[v] \in rd_end' => All(fifo_id[v])' = <<>>
    <3> SUFFICES ASSUME NEW v \in Writers, At(v, "write")'
                 PROVE  IF fpos'[v] # 0 THEN Source(fifo_id[v])' = v
                        ELSE fifo_id'[v] \in rd_end' => All(fifo_id[v])' = <<>>
      OBVIOUS
    <3>1. fifo_id[v] \in Readers /\ At(v, "write") /\ fifo_id'[v] = fifo_id[v]
      BY <1>2 DEF At, TypeInv, TypeOK, Labels, Connected
    <3>2. /\ Source(fifo_id[v])' = IF fifo_id[v] = r THEN w ELSE Source(fifo_id[v])
          /\ fifo_id[v] # r => All(fifo_id[v])' = All(fifo_id[v])
      <4>1. fifo_id[v] # r => Source(fifo_id[v])' = Source(fifo_id[v])
        BY <1>1, <1>2, <3>1 DEF Source
      <4>2. fifo_id[v] # r => All(fifo_id[v])' = All(fifo_id[v])
        BY <1>1, <1>2, <3>1 DEF All
      <4> QED BY <1>1, <1>2, <3>1, <4>1, <4>2 DEF Source
    <3>3. fifo_id[v] = r => v = w
      BY <1>2, <3>1 DEF TransferInv, Locked, Feeds
    <3>4. CASE v = w
      BY <1>2, <3>2, <3>4
    <3>5. CASE v # w
      <4>1. fpos'[v] = fpos[v] /\ fifo_id[v] # r
        BY <1>2, <3>3, <3>5
      <4> QED BY <1>2, <3>1, <3>2, <4>1 DEF TransferInv, Carried
    <3> QED BY <3>4, <3>5
  <2> QED BY <2>1, <2>2, <2>3, <2>4 DEF Carried
<1>8. Failures'
  <2>1. ASSUME NEW q \in met
        PROVE  \/ \E v \in Writers : fifo_id[v] = q \/ status[v] \in {"error", "signal"}
               \/ Source(q)' # "none"
    <3>1. q \in Readers
      BY DEF TypeInv, TypeOK
    <3> QED BY <1>1, <1>2, <3>1 DEF TransferInv, Failures
  <2> QED BY <1>2, <2>1 DEF Failures
<1> QED BY <1>4, <1>5, <1>6, <1>7, <1>8 DEF TransferInv

\* The reader's step that prints a piece.
Takes(r) ==
  /\ At(r, "read") /\ data[r] # <<>>
  /\ out' = [out EXCEPT ![r] = Append(@, Head(data[r]))]
  /\ data' = [data EXCEPT ![r] = Tail(@)]
  /\ UNCHANGED <<pc, status, globalVars, name, rd_end, fifo_id, met, pid, rd_pid, tries, fpos>>

LEMMA TakesFacts ==
  ASSUME TypeInv, NEW r \in Readers, Takes(r)
  PROVE  \A q \in Readers : All(q)' = All(q) /\ Source(q)' = Source(q)
<1>1. out[r] \in Seq(Piece) /\ data[r] \in Seq(Piece) /\ data[r] # <<>>
  BY DEF TypeInv, Takes
<1>2. Append(out[r], Head(data[r])) \o Tail(data[r]) = out[r] \o data[r]
  BY <1>1, PassHead
<1>3. /\ out'[r] = Append(out[r], Head(data[r])) /\ data'[r] = Tail(data[r])
      /\ \A q \in Readers \ {r} : out'[q] = out[q] /\ data'[q] = data[q]
  BY DEF TypeInv, Takes
<1>4. \A q \in Readers : out'[q] \o data'[q] = out[q] \o data[q]
  BY <1>2, <1>3
<1> QED BY <1>4 DEF All, Source

LEMMA TakesStep ==
  ASSUME TypeInv, TransferInv, NEW r \in Readers, Takes(r)
  PROVE  TransferInv'
<1>1. \A q \in Readers : All(q)' = All(q) /\ Source(q)' = Source(q)
  BY TakesFacts
<1>2. UNCHANGED <<pc, status, name, rd_end, fifo_id, met, pid, rd_pid, fpos>>
  BY DEF Takes
<1>3. \A w \in Writers, q \in Readers : Feeds(w, q)' <=> Feeds(w, q)
  BY <1>2 DEF Feeds, At
<1>4. OwnPids'
  BY <1>2 DEF TransferInv, OwnPids, Running
<1>5. Locked'
  <2>1. \A q \in rd_end : q \in Readers
    BY DEF TypeInv, TypeOK
  <2> QED BY <1>1, <1>2, <1>3, <2>1 DEF TransferInv, Locked
<1>6. Meetings'
  BY <1>1, <1>2 DEF TransferInv, Meetings
<1>7. Carried'
  <2>1. \A v \in Writers : At(v, "write") => fifo_id[v] \in Readers
    BY DEF At, TypeInv, TypeOK, Labels, Connected
  <2> QED BY <1>1, <1>2, <2>1, CarriedKept DEF At
<1>8. Failures'
  BY <1>1, <1>2 DEF TransferInv, Failures, TypeInv, TypeOK
<1> QED BY <1>4, <1>5, <1>6, <1>7, <1>8 DEF TransferInv

LEMMA ReaderTransfer ==
  ASSUME TypeInv, TransferInv, NEW r \in Readers, Reader(r)
  PROVE  TransferInv'
<1> USE DEF At, ownVars, uniqVars, globalVars
<1>1. /\ r \in Procs /\ r \notin Writers /\ rd_end \subseteq Readers
      /\ Receiving = {"send_pid", "select", "remove", "read"}
  BY FifoAssumption DEF Procs, TypeInv, TypeOK, Receiving
<1>2. ASSUME NEW how \in {"ok", "error", "signal"}, end(r, how), pc[r] # "dead",
             \A i \in Pids : name'[i] \in {name[i], "none"}
      PROVE  TransferInv'
  BY <1>1, <1>2, EndStep
<1>3. UNCHANGED name => \A i \in Pids : name'[i] \in {name[i], "none"}
  OBVIOUS
<1>4. CASE mkfifo_global(r)
  <2>1. \A q \in Readers \ {r} : pid[q] = pid[r] => ~Running(q)
    BY <1>4 DEF mkfifo_global, Running
  <2>2. Goto(r, "open_global") /\ UNCHANGED <<rd_end, rd_pid, pid, name, fifo_id, met, data, out, fpos>>
    BY <1>4 DEF mkfifo_global
  <2>3. pc[r] = "mkfifo_global"
    BY <1>4 DEF mkfifo_global
  <2> QED BY <1>1, <2>1, <2>2, <2>3, CalmStep
<1>5. CASE open_global(r)
  <2>1. ASSUME Goto(r, "opened_global"), UNCHANGED <<uniqVars, ownVars>> PROVE TransferInv'
    BY <1>1, <1>5, <2>1, CalmStep DEF open_global
  <2> QED BY <1>2, <1>3, <1>5, <2>1 DEF open_global
<1>6. CASE opened_global(r)
  BY <1>1, <1>6, CalmStep DEF opened_global
<1>7. CASE make_uniq_fifo(r)
  BY <1>7, MakeStep
<1>8. CASE rd_open_uniq(r)
  <2>1. ASSUME Goto(r, "send_pid"), rd_end' = rd_end \cup {r},
               UNCHANGED <<globalVars, name, fifo_id, met, data, ownVars>>
        PROVE  TransferInv'
    BY <1>1, <1>8, <2>1, CalmStep DEF rd_open_uniq
  <2> QED BY <1>2, <1>3, <1>8, <2>1 DEF rd_open_uniq
<1>9. CASE send_pid(r)
  <2>1. ASSUME Goto(r, "select"), UNCHANGED <<uniqVars, ownVars>> PROVE TransferInv'
    BY <1>1, <1>9, <2>1, CalmStep DEF send_pid
  <2> QED BY <1>2, <1>3, <1>9, <2>1 DEF send_pid
<1>10. CASE select(r)
  <2>1. r \in met
    <3>1. data[r] # <<>> => All(r) # <<>>
      BY AllFacts
    <3> QED BY <1>10, <3>1 DEF select, Readable, TransferInv, Meetings
  <2> QED BY <1>1, <1>10, <2>1, CalmStep DEF select
<1>11. CASE timeout(r)
  <2>1. PICK there \in {"select", "remove"} : Goto(r, there)
    BY <1>11 DEF timeout
  <2>2. UNCHANGED <<rd_end, rd_pid, pid, name, fifo_id, met, data, out, fpos>> /\ pc[r] = "select"
    BY <1>11 DEF timeout
  <2> QED BY <1>1, <2>1, <2>2, CalmStep
<1>12. CASE rd_remove(r)
  <2>1. \A i \in Pids : name'[i] \in {name[i], "none"}
    BY <1>12 DEF rd_remove, remove, TypeInv, TypeOK
  <2> QED BY <1>2, <1>12, <2>1 DEF rd_remove
<1>13. CASE read(r)
  <2>1. CASE Takes(r)
    BY <2>1, TakesStep
  <2> QED BY <1>2, <1>3, <1>13, <2>1 DEF read, Takes
<1> QED BY <1>4, <1>5, <1>6, <1>7, <1>8, <1>9, <1>10, <1>11, <1>12, <1>13 DEF Reader

LEMMA WriterTransfer ==
  ASSUME TypeInv, TransferInv, NEW w \in Writers, Writer(w)
  PROVE  TransferInv'
<1> USE DEF At, ownVars, uniqVars, globalVars
<1>1. /\ w \in Procs /\ w \notin Readers /\ rd_end \subseteq Readers
      /\ fifo_id[w] # "none" <=> pc[w] \in {"remove", "write"}
  BY FifoAssumption DEF Procs, TypeInv, TypeOK, Labels, Connected
<1>2. ASSUME NEW how \in {"error", "signal"}, end(w, how), pc[w] # "dead", UNCHANGED name
      PROVE  TransferInv'
  BY <1>1, <1>2, EndStep
<1>3. CASE make_file(w)
  <2>1. ASSUME Goto(w, "open_global"), UNCHANGED <<uniqVars, ownVars>> PROVE TransferInv'
    BY <1>1, <1>3, <2>1, CalmStep DEF make_file
  <2> QED BY <1>2, <1>3, <2>1 DEF make_file
<1>4. CASE open_global(w)
  <2>1. ASSUME Goto(w, "opened_global"), UNCHANGED <<uniqVars, ownVars>> PROVE TransferInv'
    BY <1>1, <1>4, <2>1, CalmStep DEF open_global
  <2> QED BY <1>2, <1>4, <2>1 DEF open_global
<1>5. CASE opened_global(w)
  <2>1. pc[w] = "opened_global" /\ Goto(w, "read_pid") /\ UNCHANGED <<uniqVars, ownVars>>
    BY <1>1, <1>5 DEF opened_global
  <2> QED BY <1>1, <2>1, CalmStep
<1>6. CASE read_pid(w)
  <2>1. ASSUME rd_pid' = [rd_pid EXCEPT ![w] = Head(pids)], Goto(w, "open_uniq"),
               UNCHANGED <<global, opening, uniqVars, pid, tries, fpos, out>>
        PROVE  TransferInv'
    <3>1. pc[w] = "read_pid"
      BY <1>6 DEF read_pid
    <3>2. \A v \in Writers : fifo_id[v] # "none" => rd_pid'[v] = rd_pid[v]
      BY <1>1, <2>1, <3>1 DEF TypeInv, TypeOK
    <3> QED BY <1>1, <2>1, <3>1, <3>2, CalmStep
  <2> QED BY <1>2, <1>6, <2>1 DEF read_pid
<1>7. CASE wr_open_uniq(w)
  <2>1. ASSUME NEW r \in rd_end, r = name[rd_pid[w]], fifo_id' = [fifo_id EXCEPT ![w] = r],
               met' = met \cup {r}, Goto(w, "remove"),
               UNCHANGED <<globalVars, name, rd_end, data, ownVars>>
        PROVE  TransferInv'
    BY <1>7, <2>1, ConnectStep DEF wr_open_uniq
  <2> QED BY <1>2, <1>7, <2>1 DEF wr_open_uniq
<1>8. CASE wr_remove(w)
  BY <1>2, <1>8, LockStep DEF wr_remove
<1>9. CASE write(w)
  <2>1. CASE Sends(w, fifo_id[w])
    <3>1. fifo_id[w] \in Readers
      BY <1>1, <2>1 DEF Sends
    <3> QED BY <2>1, <3>1, WriteStep
  <2>2. CASE fpos[w] = Chunks /\ end(w, "ok") /\ UNCHANGED name
    BY <1>1, <1>9, <2>2, EndStep DEF write
  <2> QED BY <1>2, <1>9, <2>1, <2>2 DEF write, Sends
<1> QED BY <1>3, <1>4, <1>5, <1>6, <1>7, <1>8, <1>9 DEF Writer

LEMMA TransferStep == TypeInv /\ TransferInv /\ [Next]_vars => TransferInv'
<1> SUFFICES ASSUME TypeInv, TransferInv, [Next]_vars PROVE TransferInv'
  OBVIOUS
<1>1. CASE UNCHANGED vars
  <2>1. UNCHANGED <<pc, status, name, rd_end, fifo_id, met, pid, rd_pid, fpos, data, out>>
    BY <1>1 DEF vars
  <2>2. /\ \A r \in Readers : Source(r)' = Source(r) /\ All(r)' = All(r)
        /\ \A w \in Writers, r \in Readers : Feeds(w, r)' <=> Feeds(w, r)
        /\ rd_end \subseteq Readers /\ met \subseteq Readers
    BY <2>1 DEF Source, All, Feeds, At, TypeInv, TypeOK
  <2>3. OwnPids' /\ Meetings' /\ Failures'
    BY <2>1, <2>2 DEF TransferInv, OwnPids, Meetings, Failures, Running
  <2>4. Locked'
    BY <2>1, <2>2 DEF TransferInv, Locked
  <2>5. Carried'
    <3>1. \A v \in Writers : At(v, "write") => fifo_id[v] \in Readers
      BY DEF At, TypeInv, TypeOK, Labels, Connected
    <3> QED BY <2>1, <2>2, <3>1, CarriedKept DEF At
  <2> QED BY <2>3, <2>4, <2>5 DEF TransferInv
<1>2. CASE \E p \in Procs : kill(p)
  <2>1. PICK p \in Procs : kill(p)
    BY <1>2
  <2>2. /\ end(p, "signal") /\ pc[p] # "dead" /\ \A i \in Pids : name'[i] \in {name[i], "none"}
        /\ "signal" \in {"ok", "error", "signal"} /\ "signal" # "ok"
    BY <2>1 DEF kill
  <2> QED BY <2>2, EndStep
<1> QED BY <1>1, <1>2, ReaderTransfer, WriterTransfer DEF Next

LEMMA TransferInit == Init => TransferInv
<1> SUFFICES ASSUME Init PROVE TransferInv
  OBVIOUS
<1>1. /\ \A p \in Procs : pc[p] = IF p \in Readers THEN "mkfifo_global" ELSE "make_file"
      /\ \A r \in Readers : r \in Procs /\ data[r] = <<>> /\ out[r] = <<>>
      /\ \A w \in Writers : w \in Procs /\ w \notin Readers /\ fifo_id[w] = "none" /\ fpos[w] = 0
      /\ \A i \in Pids : name[i] = "none"
      /\ rd_end = {} /\ met = {}
  BY FifoAssumption DEF Init, Procs
<1>2. \A r \in Readers : All(r) = <<>> /\ Source(r) = "none"
  <2>1. <<>> \o <<>> = <<>>
    BY ConcatEmptySeq
  <2> QED BY <1>1, <2>1 DEF All, Source
<1> QED BY <1>1, <1>2 DEF TransferInv, OwnPids, Locked, Meetings, Carried, Failures, Running, At

LEMMA TransferInvariant == Spec => [](TypeInv /\ TransferInv)
BY TypeInit, TypeStep, TransferInit, TransferStep, PTL DEF Spec

\* At most one writer writes to a reader at a time, however many writers have read
\* its PID and opened its FIFO: whoever writes has removed the name itself, and the
\* name does not come back while the reader runs.
THEOREM OneWriterCorrect == Spec => []OneWriter
<1>1. TypeInv /\ TransferInv => OneWriter
  <2> SUFFICES ASSUME TypeInv, TransferInv, NEW r \in rd_end
               PROVE  Cardinality({w \in WritersOf(r) : At(w, "write")}) <= 1
    BY DEF OneWriter
  <2> DEFINE W == {w \in WritersOf(r) : At(w, "write")}
  <2>1. \A v, w \in W : v = w
    BY DEF WritersOf, TransferInv, Locked, Feeds
  <2>2. CASE W = {}
    BY <2>2, FS_EmptySet
  <2>3. CASE W # {}
    <3>1. PICK w \in W : W = {w}
      BY <2>1, <2>3
    <3>2. Cardinality({w}) = 1
      BY FS_Singleton
    <3> QED BY <3>1, <3>2
  <2> QED BY <2>2, <2>3
<1> QED BY <1>1, TransferInvariant, PTL

-----------------------------------------------------------------------------
\* The implementation of FileTransfer

\* How the mapping sees the end of a process.
How(p) == CASE status[p] = "running" -> "open"
            [] status[p] = "ok"      -> "ok"
            [] OTHER                 -> "broken"

\* Who returns 0 has nothing left to do: the whole file is sent, or nothing is left
\* in the FIFO and no writer has it open.
MayEnd(p, how) ==
  how = "ok" => \/ p \in Writers /\ fpos[p] = Chunks
                \/ p \in Readers /\ At(p, "read") /\ data[p] = <<>> /\ WritersOf(p) = {}

LEMMA CarriedLength ==
  ASSUME TypeInv, NEW r \in Readers, NEW w \in Writers, NEW n \in Nat, All(r) = File(w, n)
  PROVE  n = Len(out[r]) + Len(data[r])
<1>1. Len(All(r)) = Len(out[r]) + Len(data[r])
  BY AllFacts
<1>2. Len(File(w, n)) = n
  BY FileAppend
<1> QED BY <1>1, <1>2

\* What a reader that reads the end of file has printed.
LEMMA AtEndOfFile ==
  ASSUME TypeInv, TransferInv, NEW r \in Readers, At(r, "read"), data[r] = <<>>, WritersOf(r) = {}
  PROVE  \/ Source(r) = "none" /\ \E w \in Writers : How(w) = "broken"
         \/ /\ Source(r) \in Writers /\ Len(out[r]) = fpos[Source(r)]
            /\ How(Source(r)) # "open"
<1>1. r \in met
  BY DEF At, TransferInv, Meetings
<1>2. CASE Source(r) = "none"
  <2>1. PICK w \in Writers : status[w] \in {"error", "signal"}
    BY <1>1, <1>2 DEF TransferInv, Failures, WritersOf
  <2> QED BY <1>2, <2>1 DEF How
<1>3. CASE Source(r) # "none"
  <2>1. /\ Source(r) \in Writers /\ At(Source(r), "dead")
        /\ All(r) = File(Source(r), fpos[Source(r)]) /\ fpos[Source(r)] \in Nat
    BY <1>3 DEF TransferInv, Carried, Feeds, WritersOf, TypeInv, TypeOK
  <2>2. All(r) = out[r]
    <3>1. out[r] \in Seq(Piece) /\ out[r] \o <<>> = out[r]
      BY ConcatEmptySeq DEF TypeInv
    <3> QED BY <3>1 DEF All
  <2>3. Len(out[r]) = fpos[Source(r)]
    <3>1. Len(File(Source(r), fpos[Source(r)])) = fpos[Source(r)]
      BY <2>1, FileAppend
    <3> QED BY <2>1, <2>2, <3>1
  <2>4. How(Source(r)) # "open"
    <3>1. status[Source(r)] \in {"ok", "error", "signal"}
      BY <2>1 DEF At, Procs, TypeInv, TypeOK, Labels
    <3> QED BY <3>1 DEF How
  <2> QED BY <2>1, <2>3, <2>4
<1> QED BY <1>2, <1>3

\* What the mapping makes of a step that leaves the variables of FileTransfer alone.
LEMMA QuietMaps ==
  ASSUME UNCHANGED <<fpos, out, data, status>>
  PROVE  UNCHANGED Transfer!transferVars
<1>1. \A r \in Readers : Source(r)' = Source(r)
  BY DEF Source
<1> QED BY <1>1 DEF Transfer!transferVars

\* The end of p is an End step of the specification.
LEMMA EndMaps ==
  ASSUME TypeInv, TransferInv, NEW p \in Procs, NEW how \in {"ok", "error", "signal"},
         end(p, how), pc[p] # "dead", MayEnd(p, how)
  PROVE  Transfer!Next
<1>1. Writers \cup Readers = Procs
  BY DEF Procs
<1>2. status[p] = "running" /\ status' = [status EXCEPT ![p] = how]
      /\ status \in [Procs -> {"running", "ok", "error", "signal"}]
  BY DEF TypeInv, TypeOK, Labels, end
<1>3. [q \in Procs |-> How(q)]' =
        [[q \in Procs |-> How(q)] EXCEPT ![p] = IF how = "ok" THEN "ok" ELSE "broken"]
  BY <1>2 DEF How
<1>4. UNCHANGED <<fpos, out>> /\ \A r \in Readers : Source(r)' = Source(r)
  BY DEF end, ownVars, Source
<1>5. how = "ok" /\ p \in Readers => Transfer!ReceiverDone(p)
  <2> SUFFICES ASSUME how = "ok", p \in Readers PROVE Transfer!ReceiverDone(p)
    OBVIOUS
  <2>1. \/ Source(p) = "none" /\ \E w \in Writers : How(w) = "broken"
        \/ /\ Source(p) \in Writers /\ Len(out[p]) = fpos[Source(p)]
           /\ How(Source(p)) # "open"
    BY AtEndOfFile, FifoAssumption DEF MayEnd
  <2>2. "none" \notin Writers
    BY FifoAssumption DEF Procs
  <2> QED BY <1>1, <2>1, <2>2 DEF Transfer!ReceiverDone, How
<1>6. how = "ok" /\ p \in Writers => Transfer!SenderDone(p)
  <2> SUFFICES ASSUME how = "ok", p \in Writers PROVE Transfer!SenderDone(p)
    OBVIOUS
  <2>1. Len([i \in 1 .. Chunks |-> <<p, i>>]) = Chunks
    BY FifoAssumption, FileAppend DEF File
  <2> QED BY <2>1, FifoAssumption DEF Transfer!SenderDone, MayEnd
<1>7. Transfer!End(p, IF how = "ok" THEN "ok" ELSE "broken")
  BY <1>1, <1>2, <1>3, <1>4, <1>5, <1>6 DEF Transfer!End, How
<1> QED BY <1>1, <1>7 DEF Transfer!Next

LEMMA SendMaps ==
  ASSUME TypeInv, TransferInv, NEW w \in Writers, NEW r \in Readers, Sends(w, r),
         Len(data[r]) < Capacity
  PROVE  Transfer!Next
<1>1. /\ Source(r) \in {"none", w} /\ Source(r)' = w
      /\ All(r) = File(w, fpos[w])
      /\ \A q \in Readers \ {r} : Source(q) # w /\ Source(q)' = Source(q)
  BY SendsFacts
<1>2. status[w] = "running" /\ status[r] = "running" /\ w \in Procs /\ r \in Procs
  <2>1. w \in Procs /\ r \in Procs
    BY DEF Procs
  <2>2. pc[w] # "dead" /\ pc[r] # "dead"
    BY DEF Sends, At, TypeInv, TypeOK
  <2> QED BY <2>1, <2>2 DEF TypeInv, Labels
<1>3. fpos[w] - Len(out[r]) < Capacity
  <2> DEFINE n == fpos[w]
             m == Len(out[r])
             k == Len(data[r])
  <2>1. n \in Nat /\ m \in Nat /\ k \in Nat /\ k < Capacity /\ Capacity \in Nat
    BY AllFacts, FifoAssumption DEF TypeInv, TypeOK
  <2>2. n = m + k
    BY <1>1, <2>1, CarriedLength
  <2> HIDE DEF n, m, k
  <2>3. n - m < Capacity
    BY <2>1, <2>2
  <2> QED BY <2>3 DEF n, m
<1>4. fpos[w] < Len([i \in 1 .. Chunks |-> <<w, i>>])
  BY FifoAssumption, FileAppend DEF File, Sends
<1>5. UNCHANGED <<out, status>> /\ fpos' = [fpos EXCEPT ![w] = @ + 1]
      /\ fpos \in [Writers -> 0 .. Chunks]
  BY DEF Sends, TypeInv, TypeOK
<1>6. [q \in Readers |-> Source(q)]' = [[q \in Readers |-> Source(q)] EXCEPT ![r] = w]
  BY <1>1
<1>7. Transfer!Send(w, r)
  BY <1>1, <1>2, <1>3, <1>4, <1>5, <1>6 DEF Transfer!Send, Procs
<1> QED BY <1>7 DEF Transfer!Next

LEMMA TakeMaps ==
  ASSUME TypeInv, TransferInv, NEW r \in Readers, Takes(r)
  PROVE  Transfer!Next
<1>1. \A q \in Readers : Source(q)' = Source(q)
  BY TakesFacts
<1>2. data[r] # <<>> /\ data[r] \in Seq(Piece) /\ All(r) # <<>> /\ Source(r) # "none"
  BY AllFacts DEF Takes
<1>3. /\ Source(r) \in Writers /\ fpos[Source(r)] \in 0 .. Chunks
      /\ All(r) = File(Source(r), fpos[Source(r)])
  BY <1>2 DEF TransferInv, Carried, TypeInv, TypeOK
<1> DEFINE n == Len(out[r]) + 1
<1>4. n \in 1 .. fpos[Source(r)] /\ Head(data[r]) = All(r)[n]
  <2> DEFINE m == Len(out[r])
             k == Len(data[r])
             f == fpos[Source(r)]
  <2>1. m \in Nat /\ k \in Nat /\ f \in Nat
    BY <1>3, AllFacts
  <2>2. k # 0
    BY <1>2, EmptySeq
  <2>3. f = m + k
    BY <1>3, <2>1, CarriedLength
  <2>4. Head(data[r]) = data[r][1]
    OBVIOUS
  <2>5. data[r][1] = All(r)[m + 1]
    <3>1. 1 \in 1 .. Len(data[r])
      BY <2>1, <2>2
    <3> QED BY <3>1, AllFacts
  <2> HIDE DEF m, k, f
  <2>6. m + 1 \in 1 .. f
    BY <2>1, <2>2, <2>3
  <2> QED BY <2>4, <2>5, <2>6 DEF m, f
<1>5. Head(data[r]) = <<Source(r), n>> /\ n \in 1 .. Chunks
  <2>1. \A f \in 0 .. Chunks : \A i \in 1 .. f : i \in 1 .. Chunks
    BY FifoAssumption
  <2> QED BY <1>3, <1>4, <2>1 DEF File
<1>6. status[r] = "running"
  BY DEF Takes, At, Procs, TypeInv, Labels
<1>7. out' = [out EXCEPT ![r] = Append(@, <<Source(r), n>>)] /\ UNCHANGED <<fpos, status>>
  BY <1>5 DEF Takes
<1>8. n <= fpos[Source(r)]
  BY <1>3, <1>4
<1> HIDE DEF n
<1>9. Transfer!PrintPiece(r)
  BY <1>1, <1>2, <1>3, <1>5, <1>6, <1>7, <1>8 DEF Transfer!PrintPiece, Procs, n
<1> QED BY <1>9 DEF Transfer!Next

LEMMA ReaderMaps ==
  ASSUME TypeInv, TransferInv, NEW r \in Readers, Reader(r)
  PROVE  Transfer!Next \/ UNCHANGED <<fpos, out, data, status>>
<1>1. r \in Procs /\ r \notin Writers
  BY FifoAssumption DEF Procs
<1>2. ASSUME NEW how \in {"error", "signal"}, end(r, how), pc[r] # "dead"
      PROVE  Transfer!Next
  BY <1>1, <1>2, EndMaps DEF MayEnd
<1>3. CASE mkfifo_global(r) \/ opened_global(r) \/ make_uniq_fifo(r)
  BY <1>3 DEF mkfifo_global, opened_global, make_uniq_fifo, Goto, uniqVars, ownVars
<1>4. CASE open_global(r)
  BY <1>2, <1>4 DEF open_global, Goto, At, uniqVars, ownVars
<1>5. CASE rd_open_uniq(r)
  BY <1>2, <1>5 DEF rd_open_uniq, Goto, At, uniqVars, ownVars
<1>6. CASE send_pid(r)
  BY <1>2, <1>6 DEF send_pid, Goto, At, uniqVars, ownVars
<1>7. CASE select(r) \/ timeout(r)
  BY <1>7 DEF select, timeout, Goto, uniqVars, ownVars
<1>8. CASE rd_remove(r)
  BY <1>2, <1>8 DEF rd_remove, At
<1>9. CASE read(r)
  <2>1. CASE Takes(r)
    BY <2>1, TakeMaps
  <2>2. CASE data[r] = <<>> /\ WritersOf(r) = {} /\ end(r, "ok")
    BY <1>1, <1>9, <2>2, EndMaps DEF read, At, MayEnd
  <2> QED BY <1>9, <2>1, <2>2 DEF read, Takes
<1> QED BY <1>3, <1>4, <1>5, <1>6, <1>7, <1>8, <1>9 DEF Reader

LEMMA WriterMaps ==
  ASSUME TypeInv, TransferInv, NEW w \in Writers, Writer(w)
  PROVE  Transfer!Next \/ UNCHANGED <<fpos, out, data, status>>
<1>1. w \in Procs
  BY DEF Procs
<1>2. ASSUME NEW how \in {"error", "signal"}, end(w, how), pc[w] # "dead"
      PROVE  Transfer!Next
  BY <1>1, <1>2, EndMaps DEF MayEnd
<1>3. CASE opened_global(w)
  BY <1>3 DEF opened_global, Goto, uniqVars, ownVars
<1>4. CASE make_file(w)
  BY <1>2, <1>4 DEF make_file, Goto, At, uniqVars, ownVars
<1>5. CASE open_global(w)
  BY <1>2, <1>5 DEF open_global, Goto, At, uniqVars, ownVars
<1>6. CASE read_pid(w)
  BY <1>2, <1>6 DEF read_pid, Goto, At, uniqVars
<1>7. CASE wr_open_uniq(w)
  BY <1>2, <1>7 DEF wr_open_uniq, Goto, At, ownVars
<1>8. CASE wr_remove(w)
  BY <1>2, <1>8 DEF wr_remove, Goto, At, ownVars
<1>9. CASE write(w)
  <2>1. CASE Sends(w, fifo_id[w]) /\ Len(data[fifo_id[w]]) < Capacity
    <3>1. fifo_id[w] \in Readers
      BY <2>1 DEF Sends, TypeInv, TypeOK
    <3> QED BY <2>1, <3>1, SendMaps
  <2>2. CASE fpos[w] = Chunks /\ end(w, "ok")
    BY <1>1, <1>9, <2>2, EndMaps DEF write, At, MayEnd
  <2>3. CASE end(w, "signal") \/ end(w, "error")
    BY <1>2, <1>9, <2>3 DEF write, At
  <2> QED BY <1>9, <2>1, <2>2, <2>3 DEF write, Sends
<1> QED BY <1>3, <1>4, <1>5, <1>6, <1>7, <1>8, <1>9 DEF Writer

LEMMA StepMaps ==
  TypeInv /\ TransferInv /\ [Next]_vars => [Transfer!Next]_Transfer!transferVars
<1> SUFFICES ASSUME TypeInv, TransferInv, [Next]_vars
             PROVE  [Transfer!Next]_Transfer!transferVars
  OBVIOUS
<1>1. CASE UNCHANGED vars
  BY <1>1, QuietMaps DEF vars
<1>2. CASE \E p \in Procs : kill(p)
  BY <1>2, EndMaps DEF kill, MayEnd
<1> QED BY <1>1, <1>2, ReaderMaps, WriterMaps, QuietMaps DEF Next

LEMMA InitMaps == Init => Transfer!Init
<1> SUFFICES ASSUME Init PROVE Transfer!Init
  OBVIOUS
<1>1. \A w \in Writers : [i \in 1 .. Chunks |-> <<w, i>>] \in Seq(Writers \X (1 .. Chunks))
  BY FifoAssumption
<1>2. \A r \in Readers : Source(r) = "none"
  <2>1. \A r \in Readers : out[r] = <<>> /\ data[r] = <<>>
    BY DEF Init
  <2>2. <<>> \o <<>> = <<>>
    BY ConcatEmptySeq
  <2> QED BY <2>1, <2>2 DEF Source
<1> QED BY <1>1, <1>2 DEF Init, Transfer!Init, Procs

\* The two programs do what FileTransfer promises, for any number of readers and
\* writers, any reuse of PIDs and whoever is killed: a reader prints the beginning of
\* one writer's file, without gaps and without pieces of another file, and it exits
\* with 0 only when it has printed everything that was sent or when a writer failed.
THEOREM ImplementsTransferCorrect == Spec => ImplementsTransfer
BY InitMaps, StepMaps, TransferInvariant, PTL DEF Spec, ImplementsTransfer, Transfer!Spec

-----------------------------------------------------------------------------
\* A writer that took a PID finds the reader

\* A reader sends its PID once, with its FIFO open: before that nobody has the PID,
\* and later it is in one place, if no other reader has the same PID.
Early == {"mkfifo_global", "open_global", "opened_global", "make_uniq_fifo", "open_uniq",
          "send_pid"}

Tokens ==
  \A r \in Readers : Unique(r) =>
    /\ pc[r] \in Early => /\ \A k \in 1 .. Len(pids) : pids[k] # pid[r]
                          /\ \A w \in Writers : rd_pid[w] # pid[r]
    /\ \A j, k \in 1 .. Len(pids) : pids[j] = pid[r] /\ pids[k] = pid[r] => j = k
    /\ \A k \in 1 .. Len(pids), w \in Writers : ~(pids[k] = pid[r] /\ rd_pid[w] = pid[r])
    /\ \A v, w \in Writers : rd_pid[v] = pid[r] /\ rd_pid[w] = pid[r] => v = w

\* The name of an open FIFO is there until the reader gives up or the writer that
\* took its PID removes it.
Named == {"open_uniq", "send_pid", "select", "read"}

Names ==
  \A r \in Readers : Unique(r) /\ pc[r] \in Named =>
    \/ name[pid[r]] = r
    \/ \E w \in Writers : rd_pid[w] = pid[r] /\ pc[w] \in {"write", "dead"}

\* A step that sends and takes no PID.
LEMMA TokensKept ==
  ASSUME Tokens, pids' \in {pids, <<>>}, UNCHANGED <<pid, rd_pid>>,
         \A r \in Readers : pc'[r] \in Early => pc[r] \in Early
  PROVE  Tokens'
<1>1. \A r \in Readers : Unique(r)' <=> Unique(r)
  BY DEF Unique
<1>2. \A k \in 1 .. Len(pids') : k \in 1 .. Len(pids) /\ pids'[k] = pids[k]
  <2>1. CASE pids' = pids
    BY <2>1
  <2>2. CASE pids' = <<>>
    BY <2>2
  <2> QED BY <2>1, <2>2
<1> QED BY <1>1, <1>2 DEF Tokens

\* A step that leaves the names alone.
LEMMA NamesKept ==
  ASSUME Names, UNCHANGED <<pid, name>>,
         \A r \in Readers : pc'[r] \in Named => pc[r] \in Named,
         \A w \in Writers : pc[w] \in {"write", "dead"} =>
                              pc'[w] \in {"write", "dead"} /\ rd_pid'[w] = rd_pid[w]
  PROVE  Names'
<1>1. \A r \in Readers : Unique(r)' <=> Unique(r)
  BY DEF Unique
<1> QED BY <1>1 DEF Names

\* What a step does to pc.
LEMMA MovesOn ==
  ASSUME TypeInv, NEW p \in Procs, NEW there, pc' = [pc EXCEPT ![p] = there]
  PROVE  \A q \in Procs : pc'[q] = IF q = p THEN there ELSE pc[q]
BY DEF TypeInv, TypeOK

\* The end of a process.
LEMMA EndTokens ==
  ASSUME TypeInv, Tokens, Names, NEW p \in Procs, NEW how, end(p, how), UNCHANGED name
  PROVE  Tokens' /\ Names'
<1>1. /\ \A q \in Procs : pc'[q] = IF q = p THEN "dead" ELSE pc[q]
      /\ pids' \in {pids, <<>>} /\ UNCHANGED <<pid, rd_pid>>
  BY MovesOn DEF end, ownVars
<1>2. \A q \in Readers \cup Writers : q \in Procs
  BY DEF Procs
<1> QED BY <1>1, <1>2, TokensKept, NamesKept DEF Early, Named

LEMMA SendTokens ==
  ASSUME TypeInv, Tokens, NEW r \in Readers, At(r, "send_pid"), Goto(r, "select"),
         pids' = Append(pids, pid[r]), UNCHANGED <<pid, rd_pid>>
  PROVE  Tokens'
<1>1. /\ \A q \in Readers : pc'[q] = IF q = r THEN "select" ELSE pc[q]
      /\ pc[r] \in Early /\ "select" \notin Early
  BY DEF Goto, At, Procs, Early, TypeInv, TypeOK
<1> DEFINE n == Len(pids)
<1>2. /\ n \in Nat /\ Len(pids') = n + 1 /\ pids'[n + 1] = pid[r]
      /\ \A k \in 1 .. n : pids'[k] = pids[k]
  BY AppendProperties DEF TypeInv, TypeOK
<1>3. Tokens =>
        \A q \in Readers : Unique(q) =>
          /\ pc[q] \in Early => /\ \A k \in 1 .. n : pids[k] # pid[q]
                                /\ \A w \in Writers : rd_pid[w] # pid[q]
          /\ \A j, k \in 1 .. n : pids[j] = pid[q] /\ pids[k] = pid[q] => j = k
          /\ \A k \in 1 .. n, w \in Writers : ~(pids[k] = pid[q] /\ rd_pid[w] = pid[q])
          /\ \A v, w \in Writers : rd_pid[v] = pid[q] /\ rd_pid[w] = pid[q] => v = w
  BY DEF Tokens
<1> HIDE DEF n
<1>4. ASSUME NEW q \in Readers, Unique(q)
      PROVE  /\ pc'[q] \in Early => /\ \A k \in 1 .. n + 1 : pids'[k] # pid[q]
                                    /\ \A w \in Writers : rd_pid[w] # pid[q]
             /\ \A j, k \in 1 .. n + 1 : pids'[j] = pid[q] /\ pids'[k] = pid[q] => j = k
             /\ \A k \in 1 .. n + 1, w \in Writers : ~(pids'[k] = pid[q] /\ rd_pid[w] = pid[q])
             /\ \A v, w \in Writers : rd_pid[v] = pid[q] /\ rd_pid[w] = pid[q] => v = w
  <2>1. \A k \in 1 .. n + 1 : k \in 1 .. n \/ k = n + 1
    BY <1>2
  <2>2. CASE q = r
    <3>1. \A k \in 1 .. n + 1 : pids'[k] = pid[q] => k = n + 1
      BY <1>1, <1>2, <1>3, <1>4, <2>1, <2>2
    <3> QED BY <1>1, <1>3, <1>4, <2>2, <3>1
  <2>3. CASE q # r
    <3>1. pid[r] # pid[q] /\ pc'[q] = pc[q]
      BY <1>1, <1>4, <2>3 DEF Unique
    <3>2. \A k \in 1 .. n + 1 : pids'[k] = pid[q] => k \in 1 .. n /\ pids[k] = pid[q]
      BY <1>2, <2>1, <3>1
    <3> QED BY <1>3, <1>4, <3>1, <3>2
  <2> QED BY <2>2, <2>3
<1>5. \A q \in Readers : Unique(q)' <=> Unique(q)
  BY DEF Unique
<1> QED BY <1>2, <1>4, <1>5 DEF Tokens

LEMMA TakeTokens ==
  ASSUME TypeInv, Tokens, NEW w \in Writers, At(w, "read_pid"), Goto(w, "open_uniq"), pids # <<>>,
         rd_pid' = [rd_pid EXCEPT ![w] = Head(pids)], pids' \in {<<>>, Tail(pids)}, pid' = pid
  PROVE  Tokens'
<1>1. \A q \in Readers : pc'[q] = pc[q] /\ (Unique(q)' <=> Unique(q))
  BY MovesOn, FifoAssumption DEF Goto, Procs, Unique
<1> DEFINE n == Len(pids)
<1>2. n \in Nat \ {0} /\ Head(pids) = pids[1]
  BY EmptySeq DEF TypeInv
<1>3. \A k \in 1 .. Len(pids') : k \in 1 .. n /\ k + 1 \in 1 .. n /\ pids'[k] = pids[k + 1]
  <2>1. CASE pids' = <<>>
    BY <2>1
  <2>2. CASE pids' = Tail(pids)
    <3>1. Len(pids') = n - 1 /\ \A k \in 1 .. Len(pids') : pids'[k] = pids[k + 1]
      BY <2>2, HeadTailProperties DEF TypeInv
    <3> HIDE DEF n
    <3>2. \A k \in 1 .. n - 1 : k \in 1 .. n /\ k + 1 \in 1 .. n
      BY <1>2
    <3> QED BY <3>1, <3>2
  <2> QED BY <2>1, <2>2
<1>4. /\ rd_pid'[w] = pids[1] /\ 1 \in 1 .. n
      /\ \A v \in Writers \ {w} : rd_pid'[v] = rd_pid[v]
  BY <1>2 DEF TypeInv, TypeOK
<1>5. ASSUME NEW q \in Readers, Unique(q)
      PROVE  /\ pc[q] \in Early => /\ \A k \in 1 .. n : pids[k] # pid[q]
                                   /\ \A v \in Writers : rd_pid[v] # pid[q]
             /\ \A j, k \in 1 .. n : pids[j] = pid[q] /\ pids[k] = pid[q] => j = k
             /\ \A k \in 1 .. n, v \in Writers : ~(pids[k] = pid[q] /\ rd_pid[v] = pid[q])
             /\ \A u, v \in Writers : rd_pid[u] = pid[q] /\ rd_pid[v] = pid[q] => u = v
  BY <1>5 DEF Tokens
<1> DEFINE m == Len(pids')
<1> HIDE DEF n
<1>6. \A j, k \in 1 .. m : j + 1 = k + 1 => j = k
  BY LenProperties
<1>7. \A k \in 1 .. m : k + 1 # 1
  OBVIOUS
<1>8. \A k \in 1 .. m : k \in 1 .. n /\ k + 1 \in 1 .. n /\ pids'[k] = pids[k + 1]
  BY <1>3
<1> HIDE DEF m
<1>9. ASSUME NEW q \in Readers, Unique(q)
      PROVE  /\ pc[q] \in Early => /\ \A k \in 1 .. m : pids'[k] # pid[q]
                                   /\ \A v \in Writers : rd_pid'[v] # pid[q]
             /\ \A j, k \in 1 .. m : pids'[j] = pid[q] /\ pids'[k] = pid[q] => j = k
             /\ \A k \in 1 .. m, v \in Writers : ~(pids'[k] = pid[q] /\ rd_pid'[v] = pid[q])
             /\ \A u, v \in Writers : rd_pid'[u] = pid[q] /\ rd_pid'[v] = pid[q] => u = v
  <2>1. pc[q] \in Early => \A k \in 1 .. m : pids'[k] # pid[q]
    BY <1>5, <1>8, <1>9
  <2>2. pc[q] \in Early => \A v \in Writers : rd_pid'[v] # pid[q]
    BY <1>4, <1>5, <1>9
  <2>3. \A j, k \in 1 .. m : pids'[j] = pid[q] /\ pids'[k] = pid[q] => j = k
    BY <1>5, <1>6, <1>8, <1>9
  <2>4. \A k \in 1 .. m, v \in Writers : ~(pids'[k] = pid[q] /\ rd_pid'[v] = pid[q])
    BY <1>4, <1>5, <1>7, <1>8, <1>9
  <2>5. \A u, v \in Writers : rd_pid'[u] = pid[q] /\ rd_pid'[v] = pid[q] => u = v
    BY <1>4, <1>5, <1>9
  <2> QED BY <2>1, <2>2, <2>3, <2>4, <2>5
<1> QED BY <1>1, <1>9 DEF Tokens, m

LEMMA ReaderTokens ==
  ASSUME TypeInv, Tokens, Names, NEW r \in Readers, Reader(r)
  PROVE  Tokens' /\ Names'
<1> USE DEF At, ownVars, uniqVars, globalVars
<1>1. /\ r \in Procs /\ r \notin Writers
      /\ \A q \in Readers \cup Writers : q \in Procs
  BY FifoAssumption DEF Procs
<1>2. ASSUME NEW how, end(r, how), UNCHANGED name
      PROVE  Tokens' /\ Names'
  BY <1>1, <1>2, EndTokens
<1>3. ASSUME NEW there, Goto(r, there), there \in Early => pc[r] \in Early,
             there \in Named => pc[r] \in Named,
             pids' \in {pids, <<>>}, UNCHANGED <<pid, rd_pid, name>>
      PROVE  Tokens' /\ Names'
  <2>1. \A q \in Procs : pc'[q] = IF q = r THEN there ELSE pc[q]
    BY <1>1, <1>3, MovesOn DEF Goto
  <2> QED BY <1>1, <1>3, <2>1, TokensKept, NamesKept
<1>4. CASE mkfifo_global(r)
  BY <1>3, <1>4 DEF mkfifo_global, Early, Named
<1>5. CASE open_global(r)
  BY <1>2, <1>3, <1>5 DEF open_global, Early, Named
<1>6. CASE opened_global(r)
  BY <1>1, <1>3, <1>6 DEF opened_global, Early, Named
<1>7. CASE make_uniq_fifo(r)
  <2>1. /\ \A q \in Procs : pc'[q] = IF q = r THEN "open_uniq" ELSE pc[q]
        /\ pc[r] = "make_uniq_fifo" /\ UNCHANGED <<pid, rd_pid, pids>>
        /\ pid[r] \in Pids /\ name' = [name EXCEPT ![pid[r]] = r]
    BY <1>1, <1>7, MovesOn DEF make_uniq_fifo, Goto, TypeInv, TypeOK
  <2>2. Tokens'
    BY <1>1, <2>1, TokensKept DEF Early
  <2>3. ASSUME NEW q \in Readers, Unique(q), pc'[q] \in Named
        PROVE  \/ name'[pid[q]] = q
               \/ \E w \in Writers : rd_pid'[w] = pid[q] /\ pc'[w] \in {"write", "dead"}
    <3>1. CASE q = r
      BY <2>1, <3>1 DEF TypeInv, TypeOK
    <3>2. CASE q # r
      <4>1. pid[q] # pid[r] /\ pid[q] \in Pids /\ pc'[q] = pc[q]
        BY <1>1, <2>1, <2>3, <3>2 DEF Unique, TypeInv, TypeOK
      <4>2. name'[pid[q]] = name[pid[q]]
        BY <2>1, <4>1 DEF TypeInv, TypeOK
      <4>3. \A w \in Writers : pc'[w] = pc[w] /\ rd_pid'[w] = rd_pid[w]
        BY <1>1, <2>1
      <4> QED BY <2>3, <4>1, <4>2, <4>3 DEF Names
    <3> QED BY <3>1, <3>2
  <2> QED BY <2>1, <2>2, <2>3 DEF Names, Unique
<1>8. CASE rd_open_uniq(r)
  BY <1>2, <1>3, <1>8 DEF rd_open_uniq, Early, Named
<1>9. CASE send_pid(r)
  <2>1. ASSUME Goto(r, "select"), pids' = Append(pids, pid[r]),
               UNCHANGED <<uniqVars, ownVars>>
        PROVE  Tokens' /\ Names'
    <3>1. \A q \in Procs : pc'[q] = IF q = r THEN "select" ELSE pc[q]
      BY <1>1, <2>1, MovesOn DEF Goto
    <3>2. pc[r] = "send_pid"
      BY <1>9 DEF send_pid
    <3>3. Tokens'
      BY <2>1, <3>2, SendTokens
    <3> QED BY <1>1, <2>1, <3>1, <3>2, <3>3, NamesKept DEF Named
  <2> QED BY <1>2, <1>9, <2>1 DEF send_pid
<1>10. CASE select(r)
  BY <1>3, <1>10 DEF select, close_global, Early, Named
<1>11. CASE timeout(r)
  BY <1>3, <1>11 DEF timeout, close_global, Early, Named
<1>12. CASE rd_remove(r)
  <2>1. /\ \A q \in Procs : pc'[q] = IF q = r THEN "dead" ELSE pc[q]
        /\ pids' \in {pids, <<>>} /\ UNCHANGED <<pid, rd_pid>>
        /\ pid[r] \in Pids /\ name' = [name EXCEPT ![pid[r]] = "none"]
    BY <1>1, <1>12, MovesOn DEF rd_remove, remove, end, TypeInv, TypeOK
  <2>2. Tokens'
    BY <1>1, <2>1, TokensKept DEF Early
  <2>3. ASSUME NEW q \in Readers, Unique(q), pc'[q] \in Named
        PROVE  \/ name'[pid[q]] = q
               \/ \E w \in Writers : rd_pid'[w] = pid[q] /\ pc'[w] \in {"write", "dead"}
    <3>1. q # r
      BY <1>1, <2>1, <2>3 DEF Named
    <3>2. pid[q] # pid[r] /\ pid[q] \in Pids /\ pc'[q] = pc[q]
      BY <1>1, <2>1, <2>3, <3>1 DEF Unique, TypeInv, TypeOK
    <3>3. name'[pid[q]] = name[pid[q]]
      BY <2>1, <3>2 DEF TypeInv, TypeOK
    <3>4. \A w \in Writers : pc'[w] = pc[w] /\ rd_pid'[w] = rd_pid[w]
      BY <1>1, <2>1
    <3> QED BY <2>3, <3>2, <3>3, <3>4 DEF Names
  <2> QED BY <2>1, <2>2, <2>3 DEF Names, Unique
<1>13. CASE read(r)
  <2>1. CASE UNCHANGED <<pc, status, globalVars, name, rd_end, fifo_id, met, pid, rd_pid, tries, fpos>>
    BY <2>1, TokensKept, NamesKept
  <2> QED BY <1>2, <1>13, <2>1 DEF read
<1> QED BY <1>4, <1>5, <1>6, <1>7, <1>8, <1>9, <1>10, <1>11, <1>12, <1>13 DEF Reader

LEMMA WriterTokens ==
  ASSUME TypeInv, Tokens, Names, NEW w \in Writers, Writer(w)
  PROVE  Tokens' /\ Names'
<1> USE DEF At, ownVars, uniqVars, globalVars
<1>1. /\ w \in Procs /\ w \notin Readers
      /\ \A q \in Readers \cup Writers : q \in Procs
  BY FifoAssumption DEF Procs
<1>2. ASSUME NEW how, end(w, how), UNCHANGED name
      PROVE  Tokens' /\ Names'
  BY <1>1, <1>2, EndTokens
<1>3. ASSUME NEW there, Goto(w, there), pc[w] \notin {"write", "dead"},
             UNCHANGED <<pid, name>>, \A v \in Writers \ {w} : rd_pid'[v] = rd_pid[v],
             Tokens'
      PROVE  Tokens' /\ Names'
  <2>1. \A q \in Procs : pc'[q] = IF q = w THEN there ELSE pc[q]
    BY <1>3 DEF Goto, TypeInv, TypeOK
  <2>2. /\ \A q \in Readers : pc'[q] = pc[q]
        /\ \A v \in Writers : pc[v] \in {"write", "dead"} => pc'[v] = pc[v] /\ rd_pid'[v] = rd_pid[v]
    BY <1>1, <1>3, <2>1
  <2> QED BY <1>3, <2>2, NamesKept
<1>4. ASSUME NEW there, Goto(w, there), UNCHANGED <<pid, rd_pid, pids>>
      PROVE  Tokens'
  <2>1. \A q \in Readers : pc'[q] = pc[q]
    BY <1>1, <1>4, MovesOn DEF Goto
  <2> QED BY <1>4, <2>1, TokensKept
<1>5. CASE make_file(w)
  BY <1>2, <1>3, <1>4, <1>5 DEF make_file
<1>6. CASE open_global(w)
  BY <1>2, <1>3, <1>4, <1>6 DEF open_global
<1>7. CASE opened_global(w)
  BY <1>1, <1>3, <1>4, <1>7 DEF opened_global
<1>8. CASE read_pid(w)
  <2>1. CASE /\ pids # <<>>
             /\ rd_pid' = [rd_pid EXCEPT ![w] = Head(pids)]
             /\ gends' = gends \ {w}
             /\ pids' = IF gends' = {} THEN <<>> ELSE Tail(pids)
             /\ Goto(w, "open_uniq")
             /\ UNCHANGED <<global, opening, uniqVars, pid, tries, fpos, out>>
    <3>1. pc[w] = "read_pid" /\ \A v \in Writers \ {w} : rd_pid'[v] = rd_pid[v]
      BY <1>8, <2>1 DEF read_pid, TypeInv, TypeOK
    <3>2. Tokens'
      BY <2>1, <3>1, TakeTokens
    <3> QED BY <1>3, <2>1, <3>1, <3>2
  <2> QED BY <1>2, <1>8, <2>1 DEF read_pid
<1>9. CASE wr_open_uniq(w)
  BY <1>2, <1>3, <1>4, <1>9 DEF wr_open_uniq
<1>10. CASE wr_remove(w)
  <2>1. CASE /\ remove(rd_pid[w])
             /\ Goto(w, "write")
             /\ UNCHANGED <<globalVars, rd_end, fifo_id, met, data, ownVars>>
    <3>1. \A q \in Procs : pc'[q] = IF q = w THEN "write" ELSE pc[q]
      BY <1>1, <2>1, MovesOn DEF Goto
    <3>2. pc[w] = "remove" /\ \A i \in Pids : i # rd_pid[w] => name'[i] = name[i]
      BY <1>10, <2>1 DEF wr_remove, remove, TypeInv, TypeOK
    <3>3. ASSUME NEW q \in Readers, Unique(q), pc'[q] \in Named
          PROVE  \/ name'[pid[q]] = q
                 \/ \E v \in Writers : rd_pid'[v] = pid[q] /\ pc'[v] \in {"write", "dead"}
      <4>1. CASE pid[q] = rd_pid[w]
        BY <1>1, <2>1, <3>1, <4>1
      <4>2. CASE pid[q] # rd_pid[w]
        <5>1. name'[pid[q]] = name[pid[q]] /\ pc'[q] = pc[q]
          BY <1>1, <3>1, <3>2, <4>2 DEF TypeInv, TypeOK
        <5>2. \A v \in Writers : /\ rd_pid'[v] = rd_pid[v]
                                 /\ pc[v] \in {"write", "dead"} => pc'[v] \in {"write", "dead"}
          BY <1>1, <2>1, <3>1
        <5> QED BY <3>3, <5>1, <5>2 DEF Names
      <4> QED BY <4>1, <4>2
    <3>4. Names'
      BY <2>1, <3>3 DEF Names, Unique
    <3> QED BY <1>4, <2>1, <3>4
  <2> QED BY <1>2, <1>10, <2>1 DEF wr_remove
<1>11. CASE write(w)
  <2>1. CASE UNCHANGED <<pc, status, globalVars, name, rd_end, fifo_id, met, pid, rd_pid, tries, out>>
    BY <2>1, TokensKept, NamesKept
  <2> QED BY <1>2, <1>11, <2>1 DEF write
<1> QED BY <1>5, <1>6, <1>7, <1>8, <1>9, <1>10, <1>11 DEF Writer

LEMMA TokensInit == Init => Tokens /\ Names
<1> SUFFICES ASSUME Init PROVE Tokens /\ Names
  OBVIOUS
<1>1. /\ \A r \in Readers : pc[r] = "mkfifo_global" /\ pid[r] \in Pids /\ pid[r] # 0
      /\ \A w \in Writers : rd_pid[w] = 0
      /\ pids = <<>>
  BY FifoAssumption DEF Init, Procs
<1>2. Names
  BY <1>1 DEF Names, Named
<1>3. Tokens
  BY <1>1 DEF Tokens
<1> QED BY <1>2, <1>3

LEMMA TokensStep == TypeInv /\ Tokens /\ Names /\ [Next]_vars => Tokens' /\ Names'
<1> SUFFICES ASSUME TypeInv, Tokens, Names, [Next]_vars PROVE Tokens' /\ Names'
  OBVIOUS
<1>1. CASE UNCHANGED vars
  BY <1>1, TokensKept, NamesKept DEF vars
<1>2. CASE \E p \in Procs : kill(p)
  BY <1>2, EndTokens DEF kill
<1> QED BY <1>1, <1>2, ReaderTokens, WriterTokens DEF Next

\* The open() that fails.
LEMMA FailsOnlyWithoutReader ==
  ASSUME TypeInv, Tokens, Names, NEW w \in Writers, NEW r \in Readers, At(w, "open_uniq"),
         rd_pid[w] = pid[r], Unique(r), name[rd_pid[w]] \notin rd_end
  PROVE  pc[r] \in {"remove", "dead"}
<1>1. pc[r] \notin Early
  BY DEF Tokens
<1>2. pc[r] \notin {"select", "read"}
  <2> SUFFICES ASSUME pc[r] \in {"select", "read"} PROVE FALSE
    OBVIOUS
  <2>1. r \in rd_end
    BY DEF TypeInv, Labels, Receiving
  <2>2. PICK v \in Writers : rd_pid[v] = pid[r] /\ pc[v] \in {"write", "dead"}
    BY <2>1 DEF Names, Named
  <2>3. v = w
    BY <2>2 DEF Tokens
  <2> QED BY <2>2, <2>3 DEF At
<1> QED BY <1>1, <1>2 DEF TypeInv, Labels, RdLabels, Early

\* A writer fails to open the FIFO whose PID it took only if the reader has given up
\* or is gone, when no other reader has had this PID: the reader sends the PID with
\* its FIFO open, the PID reaches one writer, and the name stays until then.
THEOREM MeetsWaitingReaderCorrect == Spec => MeetsWaitingReader
<1> DEFINE Met == \A w \in Writers, r \in Readers :
                    /\ At(w, "open_uniq") /\ rd_pid[w] = pid[r] /\ Unique(r)
                    /\ status'[w] = "error"
                    => pc[r] \in {"remove", "dead"}
<1>1. TypeInv /\ Tokens /\ Names /\ [Next]_vars => [Met]_vars
  <2> SUFFICES ASSUME TypeInv, Tokens, Names, Next,
                      NEW w \in Writers, NEW r \in Readers, At(w, "open_uniq"),
                      rd_pid[w] = pid[r], Unique(r), status'[w] = "error"
               PROVE  pc[r] \in {"remove", "dead"}
    OBVIOUS
  <2>1. w \in Procs /\ w \notin Readers /\ status[w] = "running"
    BY FifoAssumption DEF Procs, At, TypeInv, Labels
  <2>2. status' # status
    BY <2>1
  <2>3. ~(\E p \in Procs : kill(p))
    <3> SUFFICES ASSUME NEW p \in Procs, kill(p) PROVE FALSE
      OBVIOUS
    <3>1. /\ status' = [status EXCEPT ![p] = "signal"]
          /\ status \in [Procs -> {"running", "ok", "error", "signal"}]
      BY DEF kill, end, TypeInv, TypeOK
    <3> QED BY <2>1, <3>1
  <2>4. ~(\E q \in Readers : Reader(q))
    <3> SUFFICES ASSUME NEW q \in Readers, Reader(q) PROVE FALSE
      OBVIOUS
    <3>1. q \in Procs /\ q # w
      BY <2>1 DEF Procs
    <3>2. \A how \in {"ok", "error", "signal"} : ~end(q, how)
      BY <2>1, <3>1 DEF end, TypeInv, TypeOK
    <3> QED BY <2>2, <3>2 DEF Reader, mkfifo_global, open_global, opened_global, make_uniq_fifo,
                 rd_open_uniq, send_pid, select, timeout, rd_remove, read, Goto
  <2>5. \A v \in Writers \ {w} : ~Writer(v)
    <3> SUFFICES ASSUME NEW v \in Writers \ {w}, Writer(v) PROVE FALSE
      OBVIOUS
    <3>1. v \in Procs
      BY DEF Procs
    <3>2. \A how \in {"ok", "error", "signal"} : ~end(v, how)
      BY <2>1, <3>1 DEF end, TypeInv, TypeOK
    <3> QED BY <2>2, <3>2 DEF Writer, make_file, open_global, opened_global, read_pid,
                 wr_open_uniq, wr_remove, write, Goto
  <2>6. Writer(w)
    BY <2>3, <2>4, <2>5 DEF Next
  <2>7. wr_open_uniq(w)
    BY <2>6 DEF Writer, At, make_file, open_global, opened_global, read_pid, wr_remove, write
  <2>8. name[rd_pid[w]] \notin rd_end
    BY <2>2, <2>7 DEF wr_open_uniq, Goto
  <2> QED BY <2>8, FailsOnlyWithoutReader
<1>2. Spec => [](TypeInv /\ Tokens /\ Names)
  BY TypeInit, TypeStep, TokensInit, TokensStep, PTL DEF Spec
<1> QED BY <1>1, <1>2, PTL DEF Spec, MeetsWaitingReader
===============================================================================
