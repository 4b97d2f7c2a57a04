---------------------------- MODULE FlockFifoProofs ----------------------------
(***************************************************************************)
(* Proofs about FlockFifo: types, the lock of flock(), that no piece is    *)
(* lost in silence and that a file is printed once.  They hold for any     *)
(* number of readers and writers, any files, any capacity of the FIFO and  *)
(* any set of executions that may be killed.                               *)
(***************************************************************************)
EXTENDS FlockFifo, SequenceTheorems, FiniteSetTheorems, TLAPS

-----------------------------------------------------------------------------
\* Types

RdLabels == {"open", "flock", "remove", "read", "dead"}
WrLabels == {"make_file", "mkfifo", "open", "write", "remove", "close", "dead"}
Statuses == {"running", "ok", "error", "signal"}
Piece == Writers \X (1 .. Chunks)

Types ==
  /\ pc \in [Procs -> RdLabels \cup WrLabels] /\ status \in [Procs -> Statuses]
  /\ name \in Writers \cup {"none"} /\ fifo_id \in [Procs -> Writers \cup {"none"}]
  /\ opening \subseteq Procs
  /\ lock \in [Writers -> Readers \cup {"none"}]
  /\ len \in [Writers -> 0 .. Chunks] /\ fpos \in [Writers -> 0 .. Chunks]
  /\ data \in [Procs -> Seq(Piece)] /\ out \in [Readers -> Seq(Piece)]
  /\ \A f \in Writers : Len(data[f]) <= Capacity
  /\ \A w \in Writers : fpos[w] <= len[w]

\* Where a process is in its program, and what it has by then.
RdHas(r) ==
  /\ pc[r] \in RdLabels /\ (status[r] = "running" <=> pc[r] # "dead")
  /\ fifo_id[r] # "none" <=> pc[r] \in {"flock", "remove", "read"}
  /\ r \in opening => pc[r] = "flock"

WrHas(w) ==
  /\ pc[w] \in WrLabels /\ (status[w] = "running" <=> pc[w] # "dead")
  /\ fifo_id[w] # "none" => pc[w] \in {"write", "remove", "close"}
  /\ w \in opening => pc[w] = "write" /\ fifo_id[w] # "none"
  /\ pc[w] \in {"make_file", "mkfifo", "open"} => fpos[w] = 0
  /\ pc[w] \in {"remove", "close"} \/ status[w] = "ok" => fpos[w] = len[w]

Labels == (\A r \in Readers : RdHas(r)) /\ (\A w \in Writers : WrHas(w))

\* A reader that has passed flock() has the lock of its FIFO, and only such a reader
\* has one.
Locks ==
  /\ \A r \in Readers : pc[r] \in {"remove", "read"} => lock[fifo_id[r]] = r
  /\ \A f \in Writers : lock[f] # "none" =>
       fifo_id[lock[f]] = f /\ pc[lock[f]] \in {"remove", "read"}

Inv == Types /\ Labels /\ Locks

LEMMA ProcsFacts ==
  /\ \A r \in Readers : r \in Procs /\ r \notin Writers /\ r # "none"
  /\ \A w \in Writers : w \in Procs /\ w \notin Readers /\ w # "none"
  /\ \A p \in Procs : p \in Readers \/ p \in Writers
BY FlockAssumption DEF Procs

\* close(): a FIFO that somebody else has open keeps what is in it.
LEMMA CloseFacts ==
  ASSUME Types, NEW p \in Procs, close(p)
  PROVE  /\ data' \in [Procs -> Seq(Piece)] /\ \A f \in Writers : Len(data'[f]) <= Capacity
         /\ \A f \in Procs : data'[f] = data[f] \/ data'[f] = <<>>
         /\ \A f \in Procs : data'[f] # data[f] => \A q \in Procs \ {p} : fifo_id[q] # f
         /\ \A q \in Procs : fifo_id'[q] = IF q = p THEN "none" ELSE fifo_id[q]
         /\ fifo_id' \in [Procs -> Writers \cup {"none"}]
         /\ opening' = opening \ {p}
<1>1. \A f \in Procs : data'[f] = IF \E q \in Procs \ {p} : fifo_id[q] = f THEN data[f] ELSE <<>>
  BY DEF Types, close
<1>2. data' \in [Procs -> Seq(Piece)]
  <2>1. \A f \in Procs : data[f] \in Seq(Piece) /\ <<>> \in Seq(Piece)
    BY DEF Types
  <2> QED BY <1>1, <2>1 DEF close, Types
<1>3. Len(<<>>) = 0 /\ Capacity \in Nat
  BY FlockAssumption
<1>4. \A f \in Writers : Len(data'[f]) <= Capacity
  BY <1>1, <1>3, ProcsFacts DEF Types
<1>5. /\ \A q \in Procs : fifo_id'[q] = IF q = p THEN "none" ELSE fifo_id[q]
      /\ fifo_id' \in [Procs -> Writers \cup {"none"}] /\ opening' = opening \ {p}
  BY DEF Types, close
<1> QED BY <1>1, <1>2, <1>4, <1>5

LEMMA UnlockFacts ==
  ASSUME Inv, NEW p \in Procs,
         lock' = [f \in Writers |-> IF lock[f] = p THEN "none" ELSE lock[f]],
         \A q \in Procs \ {p} : pc'[q] = pc[q] /\ fifo_id'[q] = fifo_id[q],
         p \in Readers => pc'[p] \notin {"remove", "read"}
  PROVE  /\ lock' \in [Writers -> Readers \cup {"none"}]
         /\ Locks'
<1>1. /\ \A r \in Readers : pc[r] \in {"remove", "read"} => fifo_id[r] \in Writers
      /\ lock \in [Writers -> Readers \cup {"none"}]
  BY ProcsFacts DEF Inv, Types, Labels, RdHas
<1>2. \A r \in Readers : pc'[r] \in {"remove", "read"} => lock'[fifo_id'[r]] = r
  BY <1>1, ProcsFacts DEF Inv, Locks
<1>3. \A f \in Writers : lock'[f] # "none" => lock'[f] = lock[f] /\ lock[f] # p /\ lock[f] \in Readers
  BY <1>1
<1>4. \A f \in Writers : lock'[f] # "none" =>
        fifo_id'[lock'[f]] = f /\ pc'[lock'[f]] \in {"remove", "read"}
  BY <1>3, ProcsFacts DEF Inv, Locks
<1> QED BY <1>1, <1>2, <1>4 DEF Locks

\* A step of p, which may wake others.
LEMMA LabelsKept ==
  ASSUME Inv, NEW p \in Procs,
         \A q \in Procs \ {p} : /\ pc'[q] = pc[q] /\ status'[q] = status[q]
                                /\ fifo_id'[q] = fifo_id[q] /\ (q \in opening' => q \in opening),
         \A w \in Writers \ {p} : fpos'[w] = fpos[w] /\ len'[w] = len[w],
         p \in Readers => RdHas(p)', p \in Writers => WrHas(p)'
  PROVE  Labels'
<1>1. ASSUME NEW r \in Readers \ {p} PROVE RdHas(r)'
  BY ProcsFacts DEF Inv, Labels, RdHas
<1>2. ASSUME NEW w \in Writers \ {p} PROVE WrHas(w)'
  BY ProcsFacts DEF Inv, Labels, WrHas
<1> QED BY <1>1, <1>2 DEF Labels

\* The end of a process.
LEMMA EndInv ==
  ASSUME Inv, NEW p \in Procs, NEW how \in {"ok", "error", "signal"}, end(p, how),
         name' \in Writers \cup {"none"},
         p \in Writers /\ how = "ok" => fpos[p] = len[p]
  PROVE  Inv'
<1>1. /\ \A q \in Procs : pc'[q] = IF q = p THEN "dead" ELSE pc[q]
      /\ pc' \in [Procs -> RdLabels \cup WrLabels]
      /\ \A q \in Procs : status'[q] = IF q = p THEN how ELSE status[q]
      /\ status' \in [Procs -> Statuses]
      /\ UNCHANGED <<len, fpos, out>>
      /\ close(p) /\ lock' = [f \in Writers |-> IF lock[f] = p THEN "none" ELSE lock[f]]
  BY DEF end, close_unlock, Inv, Types, RdLabels, Statuses
<1>2. /\ data' \in [Procs -> Seq(Piece)] /\ \A f \in Writers : Len(data'[f]) <= Capacity
      /\ \A q \in Procs : fifo_id'[q] = IF q = p THEN "none" ELSE fifo_id[q]
      /\ fifo_id' \in [Procs -> Writers \cup {"none"}]
      /\ opening' = opening \ {p}
  BY <1>1, CloseFacts DEF Inv
<1>3. lock' \in [Writers -> Readers \cup {"none"}] /\ Locks'
  BY <1>1, <1>2, UnlockFacts
<1>4. Types'
  BY <1>1, <1>2, <1>3 DEF Inv, Types
<1>5. Labels'
  <2>1. p \in Readers => RdHas(p)'
    BY <1>1, <1>2, ProcsFacts DEF RdHas, RdLabels
  <2>2. p \in Writers => WrHas(p)'
    BY <1>1, <1>2, ProcsFacts DEF Inv, Labels, WrHas, WrLabels
  <2> QED BY <1>1, <1>2, <2>1, <2>2, LabelsKept
<1> QED BY <1>3, <1>4, <1>5 DEF Inv

LEMMA LocksKept ==
  ASSUME Inv, lock' = lock,
         \A r \in Readers : pc'[r] \in {"remove", "read"} <=> pc[r] \in {"remove", "read"},
         \A r \in Readers : pc[r] \in {"remove", "read"} => fifo_id'[r] = fifo_id[r]
  PROVE  Locks'
<1>1. \A f \in Writers : lock[f] # "none" => lock[f] \in Readers
  BY DEF Inv, Types
<1> QED BY <1>1 DEF Inv, Locks

\* The other end of the FIFO that open() opens.
LEMMA OpenFacts ==
  ASSUME Types, NEW p \in Procs, NEW partners, open(p, partners)
  PROVE  /\ name \in Writers /\ fifo_id' \in [Procs -> Writers \cup {"none"}]
         /\ \A q \in Procs : fifo_id'[q] = IF q = p THEN name ELSE fifo_id[q]
         /\ opening' \subseteq Procs /\ \A q \in Procs \ {p} : q \in opening' => q \in opening
BY DEF Types, open

LEMMA ReaderInv ==
  ASSUME Inv, NEW r \in Readers, Reader(r)
  PROVE  Inv'
<1> USE DEF At
<1>1. /\ r \in Procs /\ r \notin Writers /\ RdHas(r) /\ Types /\ r # "none"
      /\ pc[r] \in RdLabels
  BY ProcsFacts DEF Inv, Labels, RdHas
<1>2. ASSUME NEW how \in {"ok", "error", "signal"}, end(r, how), UNCHANGED name
      PROVE  Inv'
  <2>1. name' \in Writers \cup {"none"}
    BY <1>1, <1>2 DEF Types
  <2> QED BY <1>1, <1>2, <2>1, EndInv
<1>3. ASSUME NEW there \in RdLabels, Goto(r, there)
      PROVE  /\ \A q \in Procs : pc'[q] = IF q = r THEN there ELSE pc[q]
             /\ pc' \in [Procs -> RdLabels \cup WrLabels] /\ status' = status
  BY <1>1, <1>3 DEF Goto, Types
<1>4. CASE rd_open(r)
  <2>1. /\ \A q \in Procs : pc'[q] = IF q = r THEN "flock" ELSE pc[q]
        /\ pc' \in [Procs -> RdLabels \cup WrLabels] /\ status' = status
    BY <1>3, <1>4 DEF rd_open, RdLabels
  <2>2. /\ name \in Writers /\ fifo_id' \in [Procs -> Writers \cup {"none"}]
        /\ \A q \in Procs : fifo_id'[q] = IF q = r THEN name ELSE fifo_id[q]
        /\ opening' \subseteq Procs /\ \A q \in Procs \ {r} : q \in opening' => q \in opening
    BY <1>1, <1>4, OpenFacts DEF rd_open
  <2>3. UNCHANGED <<name, lock, data, len, fpos, out>> /\ pc[r] = "open"
    BY <1>4 DEF rd_open
  <2>4. Types'
    BY <1>1, <2>1, <2>2, <2>3 DEF Types
  <2>5. RdHas(r)'
    BY <1>1, <2>1, <2>2, <2>3, ProcsFacts DEF RdHas, RdLabels
  <2>6. Labels'
    BY <1>1, <2>1, <2>2, <2>3, <2>5, LabelsKept
  <2>7. Locks'
    BY <1>1, <2>1, <2>2, <2>3, LocksKept, ProcsFacts
  <2> QED BY <2>4, <2>6, <2>7 DEF Inv
<1>5. CASE flock(r)
  <2>1. CASE /\ lock[fifo_id[r]] = "none"
             /\ lock' = [lock EXCEPT ![fifo_id[r]] = r]
             /\ Goto(r, "remove")
             /\ UNCHANGED <<fifo_id, opening, data>>
    <3>1. /\ \A q \in Procs : pc'[q] = IF q = r THEN "remove" ELSE pc[q]
          /\ pc' \in [Procs -> RdLabels \cup WrLabels] /\ status' = status
      BY <1>3, <2>1 DEF RdLabels
    <3>2. /\ UNCHANGED <<name, fifo_id, opening, data, len, fpos, out>>
          /\ pc[r] = "flock" /\ r \notin opening
      BY <1>5, <2>1 DEF flock
    <3>3. /\ fifo_id[r] \in Writers
          /\ \A f \in Writers : lock'[f] = IF f = fifo_id[r] THEN r ELSE lock[f]
          /\ lock' \in [Writers -> Readers \cup {"none"}]
      BY <1>1, <2>1, <3>2 DEF Types, RdHas
    <3>4. Types'
      BY <1>1, <3>1, <3>2, <3>3 DEF Types
    <3>5. RdHas(r)'
      BY <1>1, <3>1, <3>2 DEF RdHas, RdLabels
    <3>6. Labels'
      BY <1>1, <3>1, <3>2, <3>5, LabelsKept
    <3>7. \A q \in Readers : pc'[q] \in {"remove", "read"} => lock'[fifo_id'[q]] = q
      <4>1. \A q \in Readers : pc[q] \in {"remove", "read"} => fifo_id[q] \in Writers
        BY ProcsFacts DEF Inv, Types, Labels, RdHas
      <4> QED BY <2>1, <3>1, <3>2, <3>3, <4>1, ProcsFacts DEF Inv, Locks
    <3>8. \A f \in Writers : lock'[f] # "none" =>
            fifo_id'[lock'[f]] = f /\ pc'[lock'[f]] \in {"remove", "read"}
      <4>1. \A f \in Writers : lock[f] # "none" => lock[f] \in Procs
        BY <1>1, ProcsFacts DEF Types
      <4> QED BY <1>1, <3>1, <3>2, <3>3, <4>1 DEF Inv, Locks
    <3> QED BY <3>4, <3>6, <3>7, <3>8 DEF Inv, Locks
  <2>2. CASE close_unlock(r) /\ Goto(r, "open")
    <3>1. /\ \A q \in Procs : pc'[q] = IF q = r THEN "open" ELSE pc[q]
          /\ pc' \in [Procs -> RdLabels \cup WrLabels] /\ status' = status
      BY <1>3, <2>2 DEF RdLabels
    <3>2. UNCHANGED <<name, len, fpos, out>> /\ pc[r] = "flock"
      BY <1>5 DEF flock
    <3>3. /\ data' \in [Procs -> Seq(Piece)] /\ \A f \in Writers : Len(data'[f]) <= Capacity
          /\ \A q \in Procs : fifo_id'[q] = IF q = r THEN "none" ELSE fifo_id[q]
          /\ fifo_id' \in [Procs -> Writers \cup {"none"}]
          /\ opening' = opening \ {r}
      BY <1>1, <2>2, CloseFacts DEF close_unlock
    <3>4. lock' \in [Writers -> Readers \cup {"none"}] /\ Locks'
      <4>1. \A q \in Procs \ {r} : pc'[q] = pc[q] /\ fifo_id'[q] = fifo_id[q]
        BY <3>1, <3>3
      <4>2. pc'[r] \notin {"remove", "read"}
        BY <1>1, <3>1
      <4> QED BY <1>1, <2>2, <4>1, <4>2, UnlockFacts DEF close_unlock
    <3>5. Types'
      BY <1>1, <3>1, <3>2, <3>3, <3>4 DEF Types
    <3>6. RdHas(r)'
      BY <1>1, <3>1, <3>2, <3>3 DEF RdHas, RdLabels
    <3>7. Labels'
      BY <1>1, <3>1, <3>2, <3>3, <3>6, LabelsKept
    <3> QED BY <3>4, <3>5, <3>7 DEF Inv
  <2> QED BY <1>5, <2>1, <2>2 DEF flock
<1>6. CASE rd_remove(r)
  <2>1. CASE /\ name' = "none" /\ Goto(r, "read")
             /\ UNCHANGED <<fifo_id, opening, lock, data, len, fpos, out>>
    <3>1. /\ \A q \in Procs : pc'[q] = IF q = r THEN "read" ELSE pc[q]
          /\ pc' \in [Procs -> RdLabels \cup WrLabels] /\ status' = status
          /\ pc[r] = "remove"
      BY <1>3, <1>6, <2>1 DEF RdLabels, rd_remove
    <3>2. Types'
      BY <1>1, <2>1, <3>1 DEF Types
    <3>3. RdHas(r)'
      BY <1>1, <2>1, <3>1 DEF RdHas, RdLabels
    <3>4. Labels'
      BY <1>1, <2>1, <3>1, <3>3, LabelsKept
    <3>5. Locks'
      BY <1>1, <2>1, <3>1, LocksKept, ProcsFacts
    <3> QED BY <3>2, <3>4, <3>5 DEF Inv
  <2> QED BY <1>2, <1>6, <2>1 DEF rd_remove
<1>7. CASE read(r)
  <2>1. CASE /\ data[fifo_id[r]] # <<>>
             /\ out' = [out EXCEPT ![r] = Append(@, Head(data[fifo_id[r]]))]
             /\ data' = [data EXCEPT ![fifo_id[r]] = Tail(@)]
             /\ UNCHANGED <<pc, status, name, fifo_id, opening, lock, len, fpos>>
    <3> DEFINE f == fifo_id[r]
    <3>1. f \in Writers /\ f \in Procs /\ data[f] \in Seq(Piece) /\ out[r] \in Seq(Piece)
      BY <1>1, <1>7, ProcsFacts DEF read, RdHas, Types
    <3>2. /\ Tail(data[f]) \in Seq(Piece) /\ Len(Tail(data[f])) = Len(data[f]) - 1
          /\ Head(data[f]) \in Piece
      BY <2>1, <3>1, HeadTailProperties, Zenon
    <3>3. Append(out[r], Head(data[f])) \in Seq(Piece)
      BY <3>1, <3>2, AppendProperties
    <3>4. data' \in [Procs -> Seq(Piece)] /\ out' \in [Readers -> Seq(Piece)]
      BY <1>1, <2>1, <3>1, <3>2, <3>3 DEF Types
    <3>5. \A g \in Writers : Len(data'[g]) <= Capacity
      <4>1. Len(data[f]) \in Nat /\ Capacity \in Nat /\ Len(data[f]) <= Capacity
        BY <1>1, <3>1, LenProperties, FlockAssumption DEF Types
      <4>2. Len(data'[f]) <= Capacity
        BY <1>1, <2>1, <3>1, <3>2, <4>1 DEF Types
      <4>3. \A g \in Writers : g # f => data'[g] = data[g]
        BY <1>1, <2>1, <3>1, ProcsFacts DEF Types
      <4> QED BY <1>1, <4>2, <4>3 DEF Types
    <3>6. Types'
      BY <1>1, <2>1, <3>4, <3>5 DEF Types
    <3>7. Labels' /\ Locks'
      BY <2>1 DEF Inv, Labels, RdHas, WrHas, Locks
    <3> QED BY <3>6, <3>7 DEF Inv
  <2> QED BY <1>2, <1>7, <2>1 DEF read
<1> QED BY <1>4, <1>5, <1>6, <1>7 DEF Reader

LEMMA WriterInv ==
  ASSUME Inv, NEW w \in Writers, Writer(w)
  PROVE  Inv'
<1> USE DEF At
<1>1. /\ w \in Procs /\ w \notin Readers /\ WrHas(w) /\ Types /\ w # "none"
  BY ProcsFacts DEF Inv, Labels
<1>2. ASSUME NEW how \in {"ok", "error", "signal"}, end(w, how), UNCHANGED name,
             how = "ok" => fpos[w] = len[w]
      PROVE  Inv'
  <2>1. name' \in Writers \cup {"none"}
    BY <1>1, <1>2 DEF Types
  <2> QED BY <1>1, <1>2, <2>1, EndInv
\* A step that goes on without open() and close().
<1>3. ASSUME NEW there \in WrLabels, Goto(w, there), name' \in Writers \cup {"none"},
             there # "dead", pc[w] # "dead",
             there \in {"make_file", "mkfifo", "open"} => fpos[w] = 0,
             there \in {"remove", "close"} => fpos[w] = len[w],
             fifo_id[w] # "none" => there \in {"remove", "close"},
             w \notin opening, UNCHANGED <<fifo_id, opening, lock, data, len, fpos, out>>
      PROVE  Inv'
  <2>1. /\ \A q \in Procs : pc'[q] = IF q = w THEN there ELSE pc[q]
        /\ pc' \in [Procs -> RdLabels \cup WrLabels] /\ status' = status
    BY <1>1, <1>3 DEF Goto, Types
  <2>2. Types'
    BY <1>1, <1>3, <2>1 DEF Types
  <2>3. WrHas(w)'
    BY <1>1, <1>3, <2>1 DEF WrHas
  <2>4. Labels'
    BY <1>1, <1>3, <2>1, <2>3, LabelsKept
  <2>5. Locks'
    BY <1>1, <1>3, <2>1, LocksKept, ProcsFacts
  <2> QED BY <2>2, <2>4, <2>5 DEF Inv
<1>4. CASE make_file(w)
  <2>1. CASE Goto(w, "mkfifo") /\ UNCHANGED <<fifo_id, opening, lock, data, len, fpos, out>>
    BY <1>1, <1>3, <1>4, <2>1 DEF make_file, WrHas, WrLabels, Types
  <2> QED BY <1>2, <1>4, <2>1 DEF make_file
<1>5. CASE mkfifo(w)
  <2>1. CASE /\ make_fifo(w) /\ Goto(w, "open")
             /\ UNCHANGED <<fifo_id, opening, lock, data, len, fpos, out>>
    BY <1>1, <1>3, <1>5, <2>1 DEF mkfifo, WrHas, WrLabels, Types, make_fifo
  <2> QED BY <1>2, <1>5, <2>1 DEF mkfifo
<1>6. CASE wr_open(w)
  <2>1. /\ \A q \in Procs : pc'[q] = IF q = w THEN "write" ELSE pc[q]
        /\ pc' \in [Procs -> RdLabels \cup WrLabels] /\ status' = status
        /\ pc[w] = "open" /\ UNCHANGED <<name, lock, data, len, fpos, out>>
    BY <1>1, <1>6 DEF wr_open, Goto, Types, WrLabels
  <2>2. /\ fifo_id' \in [Procs -> Writers \cup {"none"}]
        /\ \A q \in Procs \ {w} : fifo_id'[q] = fifo_id[q]
        /\ opening' \subseteq Procs /\ \A q \in Procs \ {w} : q \in opening' => q \in opening
        /\ w \in opening' => fifo_id'[w] # "none"
    <3>1. CASE open(w, Readers)
      BY <1>1, <3>1, OpenFacts, ProcsFacts
    <3>2. CASE UNCHANGED <<fifo_id, opening>>
      BY <1>1, <2>1, <3>2 DEF Types, WrHas
    <3> QED BY <1>6, <3>1, <3>2 DEF wr_open
  <2>3. Types'
    BY <1>1, <2>1, <2>2 DEF Types
  <2>4. WrHas(w)'
    BY <1>1, <2>1, <2>2 DEF WrHas, WrLabels
  <2>5. Labels'
    BY <1>1, <2>1, <2>2, <2>4, LabelsKept
  <2>6. Locks'
    BY <1>1, <2>1, <2>2, LocksKept, ProcsFacts
  <2> QED BY <2>3, <2>5, <2>6 DEF Inv
<1>7. CASE write(w)
  <2>1. CASE /\ fpos[w] < len[w] /\ fifo_id[w] # "none" /\ Len(data[fifo_id[w]]) < Capacity
             /\ fpos' = [fpos EXCEPT ![w] = @ + 1]
             /\ put(fifo_id[w], <<w, fpos[w] + 1>>)
             /\ UNCHANGED <<pc, status, fifo_id, opening, lock, len, out>>
    <3> DEFINE f == fifo_id[w]
               x == <<w, fpos[w] + 1>>
    <3>1. /\ f \in Writers /\ f \in Procs /\ data[f] \in Seq(Piece)
          /\ fpos[w] \in 0 .. Chunks /\ len[w] \in 0 .. Chunks /\ Chunks \in Nat /\ Capacity \in Nat
      BY <1>1, <2>1, ProcsFacts, FlockAssumption DEF Types
    <3>2. fpos[w] + 1 \in 1 .. Chunks /\ fpos[w] + 1 <= len[w] /\ x \in Piece
      BY <2>1, <3>1 DEF Piece
    <3>3. pc[w] = "write"
      BY <1>7 DEF write
    <3> HIDE DEF x
    <3>4. /\ Append(data[f], x) \in Seq(Piece) /\ Len(Append(data[f], x)) = Len(data[f]) + 1
          /\ Len(data[f]) \in Nat
      BY <3>1, <3>2, AppendProperties, LenProperties
    <3>5. data' = [data EXCEPT ![f] = Append(@, x)]
      BY <2>1 DEF put, x
    <3>6. data' \in [Procs -> Seq(Piece)]
      BY <1>1, <3>1, <3>4, <3>5 DEF Types
    <3>7. \A g \in Writers : Len(data'[g]) <= Capacity
      <4>1. Len(data'[f]) <= Capacity
        BY <1>1, <2>1, <3>1, <3>4, <3>5 DEF Types
      <4>2. \A g \in Writers : g # f => data'[g] = data[g]
        BY <1>1, <3>1, <3>5, ProcsFacts DEF Types
      <4> QED BY <1>1, <4>1, <4>2 DEF Types
    <3>8. /\ fpos' \in [Writers -> 0 .. Chunks]
          /\ \A v \in Writers : fpos'[v] = IF v = w THEN fpos[w] + 1 ELSE fpos[v]
      <4>1. fpos[w] + 1 \in 0 .. Chunks
        BY <3>1, <3>2
      <4> QED BY <1>1, <2>1, <4>1 DEF Types
    <3>9. name' = name
      BY <1>7 DEF write
    <3>10. Types'
      BY <1>1, <2>1, <3>2, <3>6, <3>7, <3>8, <3>9 DEF Types
    <3>11. Labels'
      <4>1. WrHas(w)'
        BY <1>1, <2>1, <3>3, ProcsFacts DEF WrHas
      <4> QED BY <1>1, <2>1, <3>8, <4>1, LabelsKept
    <3>12. Locks'
      BY <2>1, LocksKept
    <3> QED BY <3>10, <3>11, <3>12 DEF Inv
  <2>2. CASE end(w, "signal") \/ end(w, "error")
    BY <1>2, <1>7, <2>2 DEF write
  <2>3. CASE /\ fpos[w] = len[w] /\ Goto(w, "remove")
             /\ UNCHANGED <<fifo_id, opening, lock, data, len, fpos, out>>
    BY <1>1, <1>3, <1>7, <2>3 DEF write, WrLabels, Types
  <2> QED BY <1>7, <2>1, <2>2, <2>3 DEF write
<1>8. CASE wr_remove(w)
  <2>1. CASE /\ name' = "none" /\ Goto(w, "close")
             /\ UNCHANGED <<fifo_id, opening, lock, data, len, fpos, out>>
    BY <1>1, <1>3, <1>8, <2>1 DEF wr_remove, WrHas, WrLabels
  <2> QED BY <1>2, <1>8, <2>1 DEF wr_remove
<1>9. CASE wr_close(w)
  <2>1. fpos[w] = len[w]
    BY <1>1, <1>9 DEF wr_close, WrHas
  <2> QED BY <1>2, <1>9, <2>1 DEF wr_close
<1> QED BY <1>4, <1>5, <1>6, <1>7, <1>8, <1>9 DEF Writer

LEMMA InvStep == Inv /\ [Next]_vars => Inv'
<1> SUFFICES ASSUME Inv, [Next]_vars PROVE Inv'
  OBVIOUS
<1>1. CASE UNCHANGED vars
  BY <1>1 DEF vars, fifoVars, Inv, Types, Labels, RdHas, WrHas, Locks
<1>2. CASE \E p \in Procs : kill(p)
  BY <1>2, EndInv DEF kill, Inv, Types
<1>3. CASE fifo_remove
  BY <1>3 DEF fifo_remove, Inv, Types, Labels, RdHas, WrHas, Locks
<1> QED BY <1>1, <1>2, <1>3, ReaderInv, WriterInv DEF Next

LEMMA InvInit == Init => Inv
<1> SUFFICES ASSUME Init PROVE Inv
  OBVIOUS
<1>1. /\ \A p \in Procs : pc[p] = IF p \in Readers THEN "open" ELSE "make_file"
      /\ \A p \in Procs : fifo_id[p] = "none" /\ status[p] = "running" /\ data[p] = <<>>
      /\ \A w \in Writers : fpos[w] = 0 /\ lock[w] = "none"
      /\ opening = {}
  BY ProcsFacts DEF Init, FifoInit
<1>2. \A f \in Writers : Len(data[f]) <= Capacity
  BY <1>1, ProcsFacts, FlockAssumption
<1>3. \A w \in Writers : fpos[w] <= len[w]
  BY <1>1, FlockAssumption DEF Init
<1>4. /\ pc \in [Procs -> RdLabels \cup WrLabels] /\ status \in [Procs -> Statuses]
      /\ fpos \in [Writers -> 0 .. Chunks]
  BY FlockAssumption DEF Init, RdLabels, WrLabels, Statuses
<1>5. Types
  <2>1. <<>> \in Seq(Piece)
    OBVIOUS
  <2>2. data \in [Procs -> Seq(Piece)] /\ out \in [Readers -> Seq(Piece)]
    BY <2>1 DEF Init, FifoInit
  <2>3. /\ fifo_id \in [Procs -> Writers \cup {"none"}] /\ opening \subseteq Procs
        /\ lock \in [Writers -> Readers \cup {"none"}] /\ name \in Writers \cup {"none"}
        /\ len \in [Writers -> 0 .. Chunks]
    BY DEF Init, FifoInit
  <2> QED BY <1>2, <1>3, <1>4, <2>2, <2>3 DEF Types
<1>6. Labels
  BY <1>1, ProcsFacts DEF Labels, RdHas, WrHas, RdLabels, WrLabels
<1>7. Locks
  BY <1>1, ProcsFacts DEF Locks
<1> QED BY <1>5, <1>6, <1>7 DEF Inv

LEMMA Invariant == Spec => []Inv
BY InvInit, InvStep, PTL DEF Spec

\* Every variable keeps its type; only a process that runs has a FIFO open, sleeps in
\* open() or has a lock, and no FIFO ever holds more than it can.
THEOREM TypeCorrect == Spec => []TypeOK
<1>1. Inv => TypeOK
  <2> SUFFICES ASSUME Inv PROVE TypeOK
    OBVIOUS
  <2>1. pc \in [Procs -> {"open", "flock", "remove", "read", "make_file", "mkfifo",
                         "write", "close", "dead"}]
    BY DEF Inv, Types, RdLabels, WrLabels
  <2>2. /\ \A p \in opening : fifo_id[p] # "none"
        /\ \A p \in Procs : At(p, "dead") => fifo_id[p] = "none"
    BY ProcsFacts DEF Inv, Types, Labels, RdHas, WrHas, At
  <2>3. \A f \in Writers : lock[f] # "none" => fifo_id[lock[f]] = f
    BY DEF Inv, Locks
  <2>4. \A w \in Writers : fpos[w] \in 0 .. len[w]
    BY FlockAssumption DEF Inv, Types
  <2> QED BY <2>1, <2>2, <2>3, <2>4 DEF Inv, Types, TypeOK, Statuses
<1> QED BY <1>1, Invariant, PTL

\* flock() keeps the readers of a FIFO apart: only one at a time removes its name and
\* reads from it, however many have it open, lose it or are killed.
THEOREM OneReaderCorrect == Spec => []OneReader
<1>1. Inv => OneReader
  <2> SUFFICES ASSUME Inv, NEW f \in Writers
               PROVE  Cardinality({r \in Holders(f, Readers) : pc[r] \in {"remove", "read"}}) <= 1
    BY DEF OneReader
  <2> DEFINE R == {r \in Holders(f, Readers) : pc[r] \in {"remove", "read"}}
  <2>1. \A q, r \in R : q = r
    BY DEF Holders, Inv, Locks
  <2>2. CASE R = {}
    BY <2>2, FS_EmptySet
  <2>3. CASE R # {}
    <3>1. PICK r \in R : R = {r}
      BY <2>1, <2>3
    <3>2. Cardinality({r}) = 1
      BY FS_Singleton
    <3> QED BY <3>1, <3>2
  <2> QED BY <2>2, <2>3
<1> QED BY <1>1, Invariant, PTL

-----------------------------------------------------------------------------
\* No piece is lost in silence

Contains(queue, x) == \E n \in 1 .. Len(queue) : queue[n] = x

LEMMA ContainsAppend ==
  ASSUME NEW S, NEW s \in Seq(S), NEW x \in S, NEW y, Contains(s, y) \/ y = x
  PROVE  Contains(Append(s, x), y)
<1> DEFINE t == Append(s, x)
<1>1. /\ Len(s) \in Nat /\ Len(t) = Len(s) + 1 /\ t[Len(s) + 1] = x
      /\ \A n \in 1 .. Len(s) : t[n] = s[n]
  BY AppendProperties
<1> HIDE DEF t
<1>2. CASE y = x
  <2>1. Len(s) + 1 \in 1 .. Len(t)
    BY <1>1
  <2> QED BY <1>1, <1>2, <2>1 DEF Contains, t
<1>3. CASE Contains(s, y)
  <2>1. PICK n \in 1 .. Len(s) : s[n] = y
    BY <1>3 DEF Contains
  <2>2. n \in 1 .. Len(t) /\ t[n] = y
    BY <1>1, <2>1
  <2> QED BY <2>2 DEF Contains, t
<1> QED BY <1>2, <1>3

LEMMA ContainsTail ==
  ASSUME NEW S, NEW s \in Seq(S), s # <<>>, NEW y, Contains(s, y)
  PROVE  y = Head(s) \/ Contains(Tail(s), y)
<1>1. PICK n \in 1 .. Len(s) : s[n] = y
  BY DEF Contains
<1>2. CASE n = 1
  BY <1>1, <1>2
<1>3. CASE n # 1
  <2> DEFINE m == Len(s)
             t == Tail(s)
  <2>1. m \in Nat /\ Len(t) = m - 1 /\ \A i \in 1 .. Len(t) : t[i] = s[i + 1]
    BY HeadTailProperties, LenProperties
  <2>2. n \in 1 .. m
    OBVIOUS
  <2> HIDE DEF m, t
  <2>3. n - 1 \in 1 .. Len(t) /\ (n - 1) + 1 = n
    BY <1>3, <2>1, <2>2
  <2>4. t[n - 1] = y
    BY <1>1, <2>1, <2>3
  <2> QED BY <2>3, <2>4 DEF Contains, t
<1> QED BY <1>2, <1>3

Reported == \E r \in Readers : status[r] \in {"error", "signal"}

\* What is in a FIFO has a reader that may still print it.
Held == \A f \in Writers : data[f] # <<>> => \E r \in Readers : fifo_id[r] = f

\* What a writer has sent was printed or is in a FIFO.
Kept == \A w \in Writers : \A k \in 1 .. fpos[w] :
          \/ \E r \in Readers : Contains(out[r], <<w, k>>)
          \/ \E f \in Writers : Contains(data[f], <<w, k>>)

LossInv == Reported \/ (Held /\ Kept)

\* A process that has ended does nothing more.
LEMMA DeadStay ==
  ASSUME Inv, [Next]_vars, NEW q \in Procs, pc[q] = "dead"
  PROVE  pc'[q] = "dead" /\ status'[q] = status[q]
<1>1. ASSUME NEW p \in Procs, NEW there, NEW how, pc[p] # "dead",
             Goto(p, there) \/ end(p, how)
      PROVE  pc'[q] = pc[q] /\ status'[q] = status[q]
  BY <1>1 DEF Goto, end, Inv, Types
<1>2. ASSUME NEW r \in Readers, Reader(r)
      PROVE  pc'[q] = pc[q] /\ status'[q] = status[q]
  <2>1. r \in Procs
    BY ProcsFacts
  <2> QED BY <1>1, <1>2, <2>1 DEF Reader, rd_open, flock, rd_remove, read, At
<1>3. ASSUME NEW w \in Writers, Writer(w)
      PROVE  pc'[q] = pc[q] /\ status'[q] = status[q]
  <2>1. w \in Procs
    BY ProcsFacts
  <2> QED BY <1>1, <1>3, <2>1 DEF Writer, make_file, mkfifo, wr_open, write, wr_remove, wr_close, At
<1>4. ASSUME NEW p \in Procs, kill(p)
      PROVE  pc'[q] = pc[q] /\ status'[q] = status[q]
  BY <1>1, <1>4 DEF kill
<1> QED BY <1>2, <1>3, <1>4 DEF Next, vars, fifo_remove

LEMMA ReportedStays == Inv /\ [Next]_vars /\ Reported => Reported'
BY DeadStay, ProcsFacts DEF Reported, Inv, Labels, RdHas

\* A step that leaves the pieces alone, and closes no FIFO of a reader.
LEMMA LossKept ==
  ASSUME Inv, Held, Kept, UNCHANGED <<fpos, out>>, \A f \in Writers : data'[f] = data[f],
         \A f \in Writers : data[f] # <<>> => \E r \in Readers : fifo_id'[r] = f
  PROVE  Held' /\ Kept'
<1>1. Held'
  BY DEF Held
<1>2. Kept'
  <2>1. \A x : \A f \in Writers : Contains(data[f], x) => Contains(data'[f], x)
    OBVIOUS
  <2> SUFFICES ASSUME NEW w \in Writers, NEW k \in 1 .. fpos[w]
               PROVE  \/ \E r \in Readers : Contains(out[r], <<w, k>>)
                      \/ \E f \in Writers : Contains(data'[f], <<w, k>>)
    BY DEF Kept, Contains
  <2> QED BY <2>1 DEF Kept
<1> QED BY <1>1, <1>2

\* close(), when another reader has the FIFO open or nothing is in it.
LEMMA CloseKeeps ==
  ASSUME Inv, Held, Kept, NEW p \in Procs, close(p), UNCHANGED <<fpos, out>>,
         \A f \in Writers : data[f] # <<>> => \E q \in Readers \ {p} : fifo_id[q] = f
  PROVE  Held' /\ Kept'
<1>1. /\ \A f \in Procs : data'[f] = data[f] \/ data'[f] = <<>>
      /\ \A f \in Procs : data'[f] # data[f] => \A q \in Procs \ {p} : fifo_id[q] # f
      /\ \A q \in Procs : fifo_id'[q] = IF q = p THEN "none" ELSE fifo_id[q]
  BY CloseFacts DEF Inv
<1>2. \A f \in Writers : data'[f] = data[f]
  BY <1>1, ProcsFacts
<1>3. \A f \in Writers : data[f] # <<>> => \E q \in Readers : fifo_id'[q] = f
  BY <1>1, ProcsFacts
<1> QED BY <1>2, <1>3, LossKept

LEMMA ReaderLoss ==
  ASSUME Inv, Held, Kept, NEW r \in Readers, Reader(r)
  PROVE  LossInv'
<1> USE DEF At
<1>1. /\ r \in Procs /\ r \notin Writers /\ RdHas(r) /\ Types /\ r # "none"
      /\ fifo_id \in [Procs -> Writers \cup {"none"}]
  BY ProcsFacts DEF Inv, Labels, Types
<1>2. ASSUME NEW how \in {"error", "signal"}, end(r, how)
      PROVE  Reported'
  BY <1>1, <1>2 DEF end, Types, Reported
<1>3. CASE rd_open(r)
  <2>1. /\ UNCHANGED <<data, fpos, out>> /\ fifo_id[r] = "none"
        /\ \A q \in Procs : fifo_id'[q] = IF q = r THEN name ELSE fifo_id[q]
    BY <1>1, <1>3, OpenFacts DEF rd_open, RdHas
  <2>2. \A f \in Writers : data[f] # <<>> => \E q \in Readers : fifo_id'[q] = f
    BY <2>1, ProcsFacts DEF Held
  <2> QED BY <2>1, <2>2, LossKept DEF LossInv
<1>4. CASE flock(r)
  <2>1. CASE UNCHANGED <<fifo_id, data>>
    BY <1>4, <2>1, LossKept DEF flock, Held, LossInv
  <2>2. CASE lock[fifo_id[r]] # "none" /\ close_unlock(r)
    <3>1. fifo_id[r] \in Writers
      BY <1>1, <1>4 DEF flock, RdHas
    <3>2. lock[fifo_id[r]] \in Readers \ {r} /\ fifo_id[lock[fifo_id[r]]] = fifo_id[r]
      <4>1. pc[r] = "flock"
        BY <1>4 DEF flock
      <4>2. \A g \in Writers : lock[g] # "none" =>
              lock[g] \in Readers /\ fifo_id[lock[g]] = g /\ pc[lock[g]] \in {"remove", "read"}
        BY DEF Inv, Types, Locks
      <4> QED BY <2>2, <3>1, <4>1, <4>2
    <3>3. \A f \in Writers : data[f] # <<>> => \E q \in Readers \ {r} : fifo_id[q] = f
      BY <3>2 DEF Held
    <3> QED BY <1>1, <1>4, <2>2, <3>3, CloseKeeps DEF flock, close_unlock, LossInv
  <2> QED BY <1>4, <2>1, <2>2 DEF flock
<1>5. CASE rd_remove(r)
  <2>1. CASE UNCHANGED <<fifo_id, data, fpos, out>>
    BY <2>1, LossKept DEF Held, LossInv
  <2> QED BY <1>2, <1>5, <2>1 DEF rd_remove, LossInv
<1>6. CASE read(r)
  <2> DEFINE f == fifo_id[r]
  <2>1. f \in Writers /\ f \in Procs /\ data[f] \in Seq(Piece) /\ out[r] \in Seq(Piece)
    BY <1>1, <1>6, ProcsFacts DEF read, RdHas, Types
  <2>2. CASE /\ data[f] # <<>>
             /\ out' = [out EXCEPT ![r] = Append(@, Head(data[f]))]
             /\ data' = [data EXCEPT ![f] = Tail(@)]
             /\ UNCHANGED <<pc, status, name, fifo_id, opening, lock, len, fpos>>
    <3>1. /\ \A q \in Readers : out'[q] = IF q = r THEN Append(out[r], Head(data[f])) ELSE out[q]
          /\ \A g \in Writers : data'[g] = IF g = f THEN Tail(data[f]) ELSE data[g]
      BY <1>1, <2>1, <2>2, ProcsFacts DEF Types
    <3>2. Held'
      BY <2>2, <3>1 DEF Held
    <3>3. Head(data[f]) \in Piece
      BY <2>1, <2>2, HeadTailProperties
    <3>4. ASSUME NEW y, Contains(data[f], y)
          PROVE  Contains(out'[r], y) \/ Contains(data'[f], y)
      <4>1. y = Head(data[f]) \/ Contains(Tail(data[f]), y)
        BY <2>1, <2>2, <3>4, ContainsTail
      <4>2. Contains(Append(out[r], Head(data[f])), Head(data[f]))
        BY <2>1, <3>3, ContainsAppend
      <4> QED BY <2>1, <3>1, <4>1, <4>2
    <3>5. ASSUME NEW y, Contains(out[r], y)
          PROVE  Contains(out'[r], y)
      <4>1. Contains(Append(out[r], Head(data[f])), y)
        BY <2>1, <3>3, <3>5, ContainsAppend
      <4> QED BY <3>1, <4>1
    <3>6. Kept'
      <4> SUFFICES ASSUME NEW w \in Writers, NEW k \in 1 .. fpos[w]
                   PROVE  \/ \E q \in Readers : Contains(out'[q], <<w, k>>)
                          \/ \E g \in Writers : Contains(data'[g], <<w, k>>)
        BY <2>2 DEF Kept, Contains
      <4>1. CASE \E q \in Readers : Contains(out[q], <<w, k>>)
        BY <3>1, <3>5, <4>1
      <4>2. CASE \E g \in Writers : Contains(data[g], <<w, k>>)
        BY <2>1, <3>1, <3>4, <4>2
      <4> QED BY <4>1, <4>2 DEF Kept
    <3> QED BY <3>2, <3>6 DEF LossInv
  <2>3. CASE data[f] = <<>> /\ end(r, "ok")
    <3>1. \A g \in Writers : data[g] # <<>> => \E q \in Readers \ {r} : fifo_id[q] = g
      BY <2>3 DEF Held
    <3> QED BY <1>1, <2>3, <3>1, CloseKeeps DEF end, close_unlock, LossInv
  <2> QED BY <1>6, <2>2, <2>3 DEF read
<1> QED BY <1>3, <1>4, <1>5, <1>6 DEF Reader, LossInv

LEMMA WriterLoss ==
  ASSUME Inv, Held, Kept, NEW w \in Writers, Writer(w)
  PROVE  Held' /\ Kept'
<1> USE DEF At
<1>1. /\ w \in Procs /\ w \notin Readers /\ WrHas(w) /\ Types /\ w # "none"
  BY ProcsFacts DEF Inv, Labels
<1>2. ASSUME NEW how, end(w, how)
      PROVE  Held' /\ Kept'
  <2>1. \A f \in Writers : data[f] # <<>> => \E q \in Readers \ {w} : fifo_id[q] = f
    BY <1>1 DEF Held
  <2> QED BY <1>1, <1>2, <2>1, CloseKeeps DEF end, close_unlock
<1>3. ASSUME UNCHANGED <<fifo_id, data, fpos, out>>
      PROVE  Held' /\ Kept'
  BY <1>3, LossKept DEF Held
<1>4. CASE make_file(w) \/ mkfifo(w) \/ wr_remove(w) \/ wr_close(w)
  BY <1>2, <1>3, <1>4 DEF make_file, mkfifo, wr_remove, wr_close
<1>5. CASE wr_open(w)
  <2>1. \A q \in Readers : fifo_id'[q] = fifo_id[q]
    BY <1>1, <1>5, OpenFacts, ProcsFacts DEF wr_open
  <2> QED BY <1>5, <2>1, LossKept DEF wr_open, Held
<1>6. CASE write(w)
  <2>1. CASE /\ fpos[w] < len[w] /\ fifo_id[w] # "none" /\ Holders(fifo_id[w], Readers) # {}
             /\ fpos' = [fpos EXCEPT ![w] = @ + 1]
             /\ put(fifo_id[w], <<w, fpos[w] + 1>>)
             /\ UNCHANGED <<pc, status, fifo_id, opening, lock, len, out>>
    <3> DEFINE f == fifo_id[w]
               x == <<w, fpos[w] + 1>>
    <3>1. /\ f \in Writers /\ f \in Procs /\ data[f] \in Seq(Piece)
          /\ fpos[w] \in 0 .. Chunks /\ len[w] \in 0 .. Chunks
      BY <1>1, <2>1, ProcsFacts DEF Types
    <3>2. fpos[w] + 1 \in 1 .. Chunks
      BY <2>1, <3>1, FlockAssumption
    <3>3. x \in Piece
      BY <3>2 DEF Piece
    <3>4. /\ \A g \in Writers : data'[g] = IF g = f THEN Append(data[f], x) ELSE data[g]
          /\ \A v \in Writers : fpos'[v] = IF v = w THEN fpos[w] + 1 ELSE fpos[v]
      BY <1>1, <2>1, <3>1, ProcsFacts DEF Types, put
    <3> HIDE DEF x
    <3>5. Held'
      BY <2>1, <3>4 DEF Held, Holders
    <3>6. ASSUME NEW y, Contains(data[f], y) \/ y = x
          PROVE  Contains(data'[f], y)
      <4>1. Contains(Append(data[f], x), y)
        BY <3>1, <3>3, <3>6, ContainsAppend
      <4> QED BY <3>1, <3>4, <4>1
    <3>7. ASSUME NEW v \in Writers, NEW k \in 1 .. fpos'[v]
          PROVE  k \in 1 .. fpos[v] \/ <<v, k>> = x
      BY <3>1, <3>4 DEF x
    <3>8. ASSUME NEW v \in Writers, NEW k \in 1 .. fpos'[v]
          PROVE  \/ \E q \in Readers : Contains(out[q], <<v, k>>)
                 \/ \E g \in Writers : Contains(data'[g], <<v, k>>)
      <4>1. CASE <<v, k>> = x
        BY <3>1, <3>6, <4>1
      <4>2. CASE k \in 1 .. fpos[v]
        <5>1. CASE \E g \in Writers : Contains(data[g], <<v, k>>)
          BY <3>1, <3>4, <3>6, <5>1
        <5> QED BY <4>2, <5>1 DEF Kept
      <4> QED BY <3>7, <3>8, <4>1, <4>2
    <3>9. Kept'
      BY <2>1, <3>8 DEF Kept, Contains
    <3> QED BY <3>5, <3>9
  <2> QED BY <1>2, <1>3, <1>6, <2>1 DEF write
<1> QED BY <1>4, <1>5, <1>6 DEF Writer

LEMMA LossStep == Inv /\ LossInv /\ [Next]_vars => LossInv'
<1> SUFFICES ASSUME Inv, Held, Kept, [Next]_vars PROVE LossInv'
  BY ReportedStays DEF LossInv
<1>1. CASE UNCHANGED vars \/ fifo_remove
  BY <1>1, LossKept DEF vars, fifoVars, fifo_remove, Held, LossInv
<1>2. ASSUME NEW p \in Procs, kill(p)
      PROVE  LossInv'
  <2>1. close(p) /\ UNCHANGED <<fpos, out>>
    BY <1>2 DEF kill, end, close_unlock
  <2>2. CASE p \in Readers
    BY <1>2, <2>2 DEF kill, end, Inv, Types, Reported, LossInv
  <2>3. CASE p \notin Readers
    BY <2>1, <2>3, CloseKeeps DEF Held, LossInv
  <2> QED BY <2>2, <2>3
<1> QED BY <1>1, <1>2, ReaderLoss, WriterLoss DEF Next, LossInv

LEMMA LossInit == Init => LossInv
<1> SUFFICES ASSUME Init PROVE Held /\ Kept
  BY DEF LossInv
<1>1. \A w \in Writers : data[w] = <<>> /\ fpos[w] = 0
  BY ProcsFacts DEF Init, FifoInit
<1> QED BY <1>1 DEF Held, Kept

\* A piece that a writer sent before it returned 0 is printed or still in the FIFO,
\* unless a reader has ended with an error or by a signal: what is in a FIFO always
\* has a reader that may print it.
THEOREM LossIsReportedCorrect == Spec => []LossIsReported
<1>1. Inv /\ LossInv => LossIsReported
  <2> SUFFICES ASSUME Inv, Kept, NEW w \in Writers, status[w] = "ok", NEW k \in 1 .. len[w]
               PROVE  \E queue \in {out[r] : r \in Readers} \cup {data[f] : f \in Writers} :
                        \E n \in 1 .. Len(queue) : queue[n] = <<w, k>>
    BY DEF LossIsReported, LossInv, Reported
  <2>1. k \in 1 .. fpos[w]
    BY DEF Inv, Labels, WrHas
  <2>2. \E queue \in {out[r] : r \in Readers} \cup {data[f] : f \in Writers} :
          Contains(queue, <<w, k>>)
    BY <2>1 DEF Kept
  <2> QED BY <2>2 DEF Contains
<1>2. Spec => [](Inv /\ LossInv)
  BY InvInit, InvStep, LossInit, LossStep, PTL DEF Spec
<1> QED BY <1>1, <1>2, PTL

-----------------------------------------------------------------------------
\* A file is printed once

\* No other writer has been launched.
Alone(w) == \A v \in Writers \ {w} : At(v, "make_file")

\* A reader that has removed the name, and may print.
Got(r) == pc[r] = "read" \/ out[r] # <<>>

Unmade(w) == pc[w] \in {"make_file", "mkfifo"}

\* The queue holds the pieces of w that follow the n-th.
Follows(queue, w, n) == \A i \in 1 .. Len(queue) : queue[i] = <<w, n + i>>

\* No FIFO but that of w has a name or is open.
OneFifo(w) ==
  /\ name \in {w, "none"} /\ \A p \in Procs : fifo_id[p] \in {w, "none"}
  /\ Unmade(w) => name = "none" /\ \A p \in Procs : fifo_id[p] = "none"

\* The name is removed once, so only one reader gets it.
OneGot(w) ==
  /\ \A r \in Readers : Got(r) => name = "none" /\ ~Unmade(w)
  /\ \A q, r \in Readers : Got(q) /\ Got(r) => q = r

\* That reader has printed what is missing in the FIFO.
Printed(w) ==
  /\ \A r \in Readers : Len(out[r]) <= fpos[w] /\ Follows(out[r], w, 0)
  /\ \A r \in Readers : pc[r] = "read" =>
       Len(out[r]) + Len(data[w]) = fpos[w] /\ Follows(data[w], w, Len(out[r]))
  /\ fpos[w] = 0 => data[w] = <<>>

\* Before there is one, a FIFO that w or a reader that woke up has open holds all
\* pieces: it never lost its last end.
Unprinted(w) ==
  /\ \A r \in Readers : ~Got(r)
  /\ fifo_id[w] = w \/ \E r \in Readers \ opening : fifo_id[r] = w
  => Len(data[w]) = fpos[w] /\ Follows(data[w], w, 0)

Sole(w) == OneFifo(w) /\ OneGot(w) /\ Printed(w) /\ Unprinted(w)

OnceInv == \A w \in Writers : Alone(w) => Sole(w)

LEMMA FollowsAppend ==
  ASSUME NEW S, NEW s \in Seq(S), NEW w, NEW n \in Nat, NEW x \in S,
         Follows(s, w, n), x = <<w, n + Len(s) + 1>>
  PROVE  Len(Append(s, x)) = Len(s) + 1 /\ Follows(Append(s, x), w, n)
<1> DEFINE t == Append(s, x)
           m == Len(s)
<1>1. /\ m \in Nat /\ Len(t) = m + 1 /\ t[m + 1] = x
      /\ \A i \in 1 .. m : t[i] = s[i]
  BY AppendProperties
<1>2. \A i \in 1 .. m : s[i] = <<w, n + i>>
  BY DEF Follows
<1>3. x = <<w, n + (m + 1)>>
  <2>1. n + m + 1 = n + (m + 1)
    BY <1>1
  <2> QED BY <2>1
<1> HIDE DEF t, m
<1>4. \A i \in 1 .. Len(t) : i \in 1 .. m \/ i = m + 1
  BY <1>1
<1>5. Follows(t, w, n)
  BY <1>1, <1>2, <1>3, <1>4 DEF Follows
<1> QED BY <1>1, <1>5 DEF t, m

LEMMA FollowsTail ==
  ASSUME NEW S, NEW s \in Seq(S), s # <<>>, NEW w, NEW n \in Nat, Follows(s, w, n)
  PROVE  /\ Head(s) = <<w, n + 1>> /\ Head(s) \in S
         /\ Len(Tail(s)) = Len(s) - 1 /\ Follows(Tail(s), w, n + 1)
<1> DEFINE t == Tail(s)
           m == Len(s)
<1>1. /\ m \in Nat /\ Len(t) = m - 1 /\ Head(s) = s[1] /\ Head(s) \in S
      /\ \A i \in 1 .. Len(t) : t[i] = s[i + 1]
  BY HeadTailProperties, LenProperties
<1>2. m > 0
  BY EmptySeq, LenProperties
<1>3. \A i \in 1 .. m : s[i] = <<w, n + i>>
  BY DEF Follows
<1> HIDE DEF t, m
<1>4. Head(s) = <<w, n + 1>>
  BY <1>1, <1>2, <1>3
<1>5. Follows(t, w, n + 1)
  <2>1. ASSUME NEW i \in 1 .. Len(t) PROVE i + 1 \in 1 .. m /\ n + (i + 1) = (n + 1) + i
    BY <1>1
  <2> QED BY <1>1, <1>3, <2>1 DEF Follows
<1> QED BY <1>1, <1>4, <1>5 DEF t, m

LEMMA FollowsEmpty == \A w, n : Follows(<<>>, w, n) /\ Len(<<>>) = 0
BY DEF Follows

\* A step that prints nothing and sends nothing; close() may empty a FIFO that nobody
\* has open any more.
LEMMA CalmSole ==
  ASSUME Inv, Inv', NEW w \in Writers, Sole(w),
         UNCHANGED out, fpos'[w] = fpos[w],
         data'[w] = data[w] \/ (data'[w] = <<>> /\ \A p \in Procs : fifo_id'[p] # w),
         \A r \in Readers : pc'[r] = "read" => pc[r] = "read",
         name' \in {w, "none"} /\ \A p \in Procs : fifo_id'[p] \in {w, "none"},
         name' = w => name = w \/ Unmade(w),
         Unmade(w)' => Unmade(w) /\ name' = "none" /\ \A p \in Procs : fifo_id'[p] = "none",
         fifo_id'[w] = w => fifo_id[w] = w \/ fpos[w] = 0,
         \A r \in Readers \ opening' : fifo_id'[r] = w =>
           (r \notin opening /\ fifo_id[r] = w) \/ fifo_id[w] = w \/ fpos[w] = 0
  PROVE  Sole(w)'
<1>1. /\ w \in Procs /\ w # "none"
      /\ fpos[w] \in Nat /\ data[w] \in Seq(Piece)
      /\ \A r \in Readers : out[r] \in Seq(Piece)
  BY ProcsFacts, FlockAssumption DEF Inv, Types
<1>2. \A r \in Readers : Got(r)' => Got(r)
  BY DEF Got
<1>3. OneFifo(w)'
  BY DEF OneFifo, Unmade
<1>4. OneGot(w)'
  BY <1>2 DEF Sole, OneGot, Unmade
<1>5. Printed(w)'
  <2>1. ASSUME NEW r \in Readers
        PROVE  Len(out'[r]) <= fpos'[w] /\ Follows(out[r], w, 0)'
    <3>1. Len(out[r]) <= fpos[w] /\ Follows(out[r], w, 0)
      BY DEF Sole, Printed
    <3> QED BY <3>1 DEF Follows
  <2>2. ASSUME NEW r \in Readers, pc'[r] = "read"
        PROVE  Len(out'[r]) + Len(data'[w]) = fpos'[w] /\ Follows(data[w], w, Len(out[r]))'
    <3>1. fifo_id'[r] = w
      BY <2>2, ProcsFacts DEF Inv, Labels, RdHas
    <3>2. data'[w] = data[w]
      BY <3>1, ProcsFacts
    <3>3. Len(out[r]) + Len(data[w]) = fpos[w] /\ Follows(data[w], w, Len(out[r]))
      BY <2>2 DEF Sole, Printed
    <3> QED BY <3>2, <3>3 DEF Follows
  <2>3. fpos'[w] = 0 => data'[w] = <<>>
    BY DEF Sole, Printed
  <2> QED BY <2>1, <2>2, <2>3 DEF Printed
<1>6. Unprinted(w)'
  <2> SUFFICES ASSUME \A r \in Readers : ~Got(r)',
                      fifo_id'[w] = w \/ \E r \in Readers \ opening' : fifo_id'[r] = w
               PROVE  Len(data'[w]) = fpos'[w] /\ Follows(data[w], w, 0)'
    BY DEF Unprinted
  <2>1. data'[w] = data[w]
    BY <1>1, ProcsFacts
  <2>2. Len(data[w]) = fpos[w] /\ Follows(data[w], w, 0)
    <3>1. CASE fpos[w] = 0
      BY <3>1, FollowsEmpty DEF Sole, Printed
    <3>2. CASE \E r \in Readers : pc[r] = "read"
      <4>1. PICK r \in Readers : pc[r] = "read"
        BY <3>2
      <4>2. out[r] = <<>>
        BY DEF Got
      <4>3. Len(data[w]) \in Nat /\ Len(out[r]) = 0
        BY <1>1, <4>2, LenProperties, FollowsEmpty
      <4>4. Len(out[r]) + Len(data[w]) = fpos[w] /\ Follows(data[w], w, Len(out[r]))
        BY <4>1 DEF Sole, Printed
      <4> QED BY <1>1, <4>3, <4>4
    <3>3. CASE fpos[w] # 0 /\ \A r \in Readers : pc[r] # "read"
      <4>1. \A r \in Readers : ~Got(r)
        BY <3>3 DEF Got
      <4>2. fifo_id[w] = w \/ \E r \in Readers \ opening : fifo_id[r] = w
        BY <3>3
      <4> QED BY <4>1, <4>2 DEF Sole, Unprinted
    <3> QED BY <3>1, <3>2, <3>3
  <2> QED BY <2>1, <2>2 DEF Follows
<1> QED BY <1>3, <1>4, <1>5, <1>6 DEF Sole

\* The end of a process, when it is the reader's or w's own.
LEMMA EndSole ==
  ASSUME Inv, Inv', NEW w \in Writers, Sole(w), NEW p \in Procs, NEW how, end(p, how),
         name' = name \/ name' = "none"
  PROVE  Sole(w)'
<1>1. w \in Procs /\ w # "none"
  BY ProcsFacts
<1>2. /\ \A q \in Procs : pc'[q] = IF q = p THEN "dead" ELSE pc[q]
      /\ UNCHANGED <<fpos, out>>
  BY DEF end, Inv, Types
<1>3. /\ \A f \in Procs : data'[f] = data[f] \/ data'[f] = <<>>
      /\ \A f \in Procs : data'[f] # data[f] => \A q \in Procs \ {p} : fifo_id[q] # f
      /\ \A q \in Procs : fifo_id'[q] = IF q = p THEN "none" ELSE fifo_id[q]
      /\ opening' = opening \ {p}
  BY CloseFacts DEF end, close_unlock, Inv
<1>4. data'[w] = data[w] \/ (data'[w] = <<>> /\ \A q \in Procs : fifo_id'[q] # w)
  BY <1>1, <1>3
<1>5. name' \in {w, "none"} /\ \A q \in Procs : fifo_id'[q] \in {w, "none"}
  BY <1>3 DEF Sole, OneFifo
<1>6. Unmade(w)' => Unmade(w) /\ name' = "none" /\ \A q \in Procs : fifo_id'[q] = "none"
  BY <1>1, <1>2, <1>3 DEF Sole, OneFifo, Unmade
<1>7. \A r \in Readers : pc'[r] = "read" => pc[r] = "read"
  BY <1>2, ProcsFacts
<1>8. \A r \in Readers \ opening' : fifo_id'[r] = w => r \notin opening /\ fifo_id[r] = w
  BY <1>1, <1>3, ProcsFacts
<1>9. /\ name' = w => name = w
      /\ fifo_id'[w] = w => fifo_id[w] = w
  BY <1>1, <1>3
<1> QED BY <1>2, <1>4, <1>5, <1>6, <1>7, <1>8, <1>9, CalmSole

LEMMA ReaderSole ==
  ASSUME Inv, Inv', NEW w \in Writers, Alone(w), Sole(w), NEW r \in Readers, Reader(r)
  PROVE  Sole(w)'
<1> USE DEF At
<1>1. /\ r \in Procs /\ r \notin Writers /\ RdHas(r) /\ Types /\ r # "none"
      /\ w \in Procs /\ w \notin Readers /\ w # "none" /\ r # w
      /\ OneFifo(w) /\ OneGot(w) /\ Printed(w) /\ Unprinted(w)
  BY ProcsFacts DEF Inv, Labels, Sole
<1>2. ASSUME NEW there, Goto(r, there)
      PROVE  \A q \in Procs : pc'[q] = IF q = r THEN there ELSE pc[q]
  BY <1>1, <1>2 DEF Goto, Types
<1>3. CASE rd_open(r)
  <2>1. /\ UNCHANGED <<name, data, fpos, out>> /\ Goto(r, "flock") /\ name # "none"
        /\ open(r, Writers)
    BY <1>3 DEF rd_open, open
  <2>2. name = w /\ ~Unmade(w)
    BY <1>1, <2>1 DEF OneFifo
  <2>3. \A q \in Procs : fifo_id'[q] = IF q = r THEN w ELSE fifo_id[q]
    BY <1>1, <2>1, <2>2, OpenFacts
  <2>4. \A q \in Procs : pc'[q] = IF q = r THEN "flock" ELSE pc[q]
    BY <1>2, <2>1
  <2>5. \A v \in Holders(w, Writers) : v = w
    BY ProcsFacts DEF Alone, Holders, Inv, Labels, WrHas
  <2>6. \A q \in Readers \ opening' : fifo_id'[q] = w =>
          (q \notin opening /\ fifo_id[q] = w) \/ fifo_id[w] = w
    <3> SUFFICES ASSUME fifo_id[w] # w, NEW q \in Readers \ opening', fifo_id'[q] = w
                 PROVE  q \notin opening /\ fifo_id[q] = w
      OBVIOUS
    <3>1. Holders(w, Writers) = {}
      BY <2>5 DEF Holders
    <3>2. opening' = opening \cup {r}
      BY <2>1, <2>2, <3>1 DEF open
    <3> QED BY <2>3, <3>2, ProcsFacts
  <2>7. \A q \in Procs : fifo_id'[q] \in {w, "none"}
    BY <1>1, <2>3 DEF OneFifo
  <2>8. ~Unmade(w)'
    BY <1>1, <2>2, <2>4 DEF Unmade
  <2>9. \A q \in Readers : pc'[q] = "read" => pc[q] = "read"
    BY <2>4, ProcsFacts
  <2> QED BY <1>1, <2>1, <2>2, <2>3, <2>6, <2>7, <2>8, <2>9, CalmSole
<1>4. CASE flock(r)
  <2>1. UNCHANGED <<name, fpos, out>> /\ pc[r] = "flock"
    BY <1>4 DEF flock
  <2>2. CASE Goto(r, "remove") /\ UNCHANGED <<fifo_id, opening, data>>
    <3>1. \A q \in Procs : pc'[q] = IF q = r THEN "remove" ELSE pc[q]
      BY <1>2, <2>2
    <3>2. \A q \in Readers : pc'[q] = "read" => pc[q] = "read"
      BY <3>1, ProcsFacts
    <3>3. Unmade(w)' => Unmade(w)
      BY <1>1, <3>1 DEF Unmade
    <3> QED BY <1>1, <2>1, <2>2, <3>2, <3>3, CalmSole DEF OneFifo
  <2>3. CASE Goto(r, "open") /\ close(r)
    <3>1. \A q \in Procs : pc'[q] = IF q = r THEN "open" ELSE pc[q]
      BY <1>2, <2>3
    <3>2. \A q \in Readers : pc'[q] = "read" => pc[q] = "read"
      BY <3>1, ProcsFacts
    <3>3. Unmade(w)' => Unmade(w)
      BY <1>1, <3>1 DEF Unmade
    <3>4. /\ data'[w] = data[w] \/ data'[w] = <<>>
          /\ data'[w] # data[w] => \A q \in Procs \ {r} : fifo_id[q] # w
          /\ \A q \in Procs : fifo_id'[q] = IF q = r THEN "none" ELSE fifo_id[q]
          /\ opening' = opening \ {r}
      BY <1>1, <2>3, CloseFacts
    <3>5. data'[w] = data[w] \/ (data'[w] = <<>> /\ \A q \in Procs : fifo_id'[q] # w)
      BY <1>1, <3>4
    <3>6. \A q \in Procs : fifo_id'[q] \in {w, "none"} /\ (fifo_id[q] = "none" => fifo_id'[q] = "none")
      BY <1>1, <3>4 DEF OneFifo
    <3>7. \A q \in Readers \ opening' : fifo_id'[q] = w => q \notin opening /\ fifo_id[q] = w
      BY <1>1, <3>4, ProcsFacts
    <3>8. fifo_id'[w] = fifo_id[w]
      BY <1>1, <3>4
    <3> QED BY <1>1, <2>1, <3>2, <3>3, <3>5, <3>6, <3>7, <3>8, CalmSole DEF OneFifo
  <2> QED BY <1>4, <2>2, <2>3 DEF flock, close_unlock
<1>5. CASE rd_remove(r)
  <2>1. CASE /\ name # "none" /\ name' = "none" /\ Goto(r, "read")
             /\ UNCHANGED <<fifo_id, opening, lock, data, len, fpos, out>>
    <3>1. pc[r] = "remove" /\ \A q \in Procs : pc'[q] = IF q = r THEN "read" ELSE pc[q]
      BY <1>2, <1>5, <2>1 DEF rd_remove
    <3>2. \A q \in Readers : ~Got(q) /\ out[q] = <<>>
      BY <1>1, <2>1 DEF OneGot, Got
    <3>3. \A q \in Readers : Got(q)' => q = r
      BY <2>1, <3>1, <3>2, ProcsFacts DEF Got
    <3>4. fifo_id[r] = w /\ r \notin opening
      BY <1>1, <3>1 DEF OneFifo, RdHas
    <3>5. Len(data[w]) = fpos[w] /\ Follows(data[w], w, 0)
      BY <1>1, <3>2, <3>4 DEF Unprinted
    <3>6. ~Unmade(w) /\ ~Unmade(w)'
      BY <1>1, <3>1, <3>4 DEF OneFifo, Unmade
    <3>7. OneFifo(w)' /\ OneGot(w)'
      BY <1>1, <2>1, <3>3, <3>6 DEF OneFifo, OneGot
    <3>8. Printed(w)'
      <4>1. \A q \in Readers : Len(out[q]) <= fpos[w] /\ Follows(out[q], w, 0)
        BY <1>1 DEF Printed
      <4>2. fpos[w] = 0 => data[w] = <<>>
        BY <1>1 DEF Printed
      <4>3. Len(out[r]) + Len(data[w]) = fpos[w] /\ Follows(data[w], w, Len(out[r]))
        <5>1. out[r] = <<>> /\ Len(out[r]) = 0
          BY <3>2, FollowsEmpty
        <5>2. fpos[w] \in Nat
          BY <1>1, FlockAssumption DEF Types
        <5> QED BY <3>5, <5>1, <5>2
      <4>4. \A q \in Readers : pc'[q] = "read" => q = r
        BY <3>3 DEF Got
      <4> QED BY <2>1, <4>1, <4>2, <4>3, <4>4 DEF Printed, Follows
    <3>9. Unprinted(w)'
      BY <1>1, <3>1 DEF Unprinted, Got
    <3> QED BY <3>7, <3>8, <3>9 DEF Sole
  <2>2. CASE end(r, "error") /\ UNCHANGED name
    BY <1>1, <2>2, EndSole
  <2> QED BY <1>5, <2>1, <2>2 DEF rd_remove
<1>6. CASE read(r)
  <2>1. pc[r] = "read" /\ fifo_id[r] = w
    BY <1>1, <1>6 DEF read, RdHas, OneFifo
  <2>2. CASE /\ data[w] # <<>>
             /\ out' = [out EXCEPT ![r] = Append(@, Head(data[w]))]
             /\ data' = [data EXCEPT ![w] = Tail(@)]
             /\ UNCHANGED <<pc, status, name, fifo_id, opening, lock, len, fpos>>
    <3> DEFINE m == Len(out[r])
    <3>1. /\ data[w] \in Seq(Piece) /\ out[r] \in Seq(Piece) /\ fpos[w] \in Nat
          /\ m \in Nat /\ Len(data[w]) \in Nat /\ Len(data[w]) # 0
      BY <1>1, <2>2, LenProperties, EmptySeq, FlockAssumption DEF Types
    <3>2. /\ m + Len(data[w]) = fpos[w] /\ Follows(data[w], w, m) /\ Follows(out[r], w, 0)
      BY <1>1, <2>1 DEF Printed
    <3>3. /\ data'[w] = Tail(data[w])
          /\ \A q \in Readers : out'[q] = IF q = r THEN Append(out[r], Head(data[w])) ELSE out[q]
      BY <1>1, <2>2 DEF Types
    <3> HIDE DEF m
    <3>4. /\ Head(data[w]) = <<w, m + 1>> /\ Head(data[w]) \in Piece
          /\ Len(data'[w]) = Len(data[w]) - 1 /\ Follows(Tail(data[w]), w, m + 1)
      BY <2>2, <3>1, <3>2, <3>3, FollowsTail
    <3>5. Len(out'[r]) = m + 1 /\ Follows(Append(out[r], Head(data[w])), w, 0)
      <4> DEFINE x == Head(data[w])
                 s == out[r]
      <4>1. x = <<w, 0 + Len(s) + 1>>
        BY <3>1, <3>4 DEF m
      <4>2. s \in Seq(Piece) /\ x \in Piece /\ Follows(s, w, 0) /\ out'[r] = Append(s, x)
        BY <3>1, <3>2, <3>3, <3>4
      <4>3. m = Len(s) /\ 0 \in Nat
        BY DEF m
      <4> HIDE DEF x, s
      <4>4. Len(Append(s, x)) = Len(s) + 1 /\ Follows(Append(s, x), w, 0)
        BY <4>1, <4>2, FollowsAppend
      <4> QED BY <4>2, <4>3, <4>4 DEF x, s
    <3>6. \A q \in Readers : Got(q)' => q = r
      BY <1>1, <2>1, <2>2, <3>3 DEF OneGot, Got
    <3>7. OneFifo(w)' /\ OneGot(w)'
      <4>1. Got(r)
        BY <2>1 DEF Got
      <4> QED BY <1>1, <2>2, <3>6, <4>1 DEF OneFifo, OneGot, Unmade
    <3>8. Unprinted(w)'
      BY <2>1, <2>2 DEF Unprinted, Got
    <3>9. Printed(w)'
      <4>1. ASSUME NEW q \in Readers
            PROVE  Len(out'[q]) <= fpos'[w] /\ Follows(out[q], w, 0)'
        <5>1. CASE q = r
          BY <2>2, <3>1, <3>2, <3>3, <3>5, <5>1 DEF Follows
        <5>2. CASE q # r
          <6>1. out'[q] = out[q] /\ Len(out[q]) <= fpos[w] /\ Follows(out[q], w, 0)
            BY <1>1, <3>3, <5>2 DEF Printed
          <6> QED BY <2>2, <6>1 DEF Follows
        <5> QED BY <5>1, <5>2
      <4>2. Len(out'[r]) + Len(data'[w]) = fpos'[w] /\ Follows(data[w], w, Len(out[r]))'
        <5>1. (m + 1) + (Len(data[w]) - 1) = fpos[w]
          BY <3>1, <3>2
        <5> QED BY <2>2, <3>3, <3>4, <3>5, <5>1 DEF Follows
      <4>3. \A q \in Readers : pc'[q] = "read" => q = r
        BY <3>6 DEF Got
      <4>4. fpos'[w] # 0
        BY <2>2, <3>1, <3>2
      <4> QED BY <4>1, <4>2, <4>3, <4>4 DEF Printed
    <3> QED BY <3>7, <3>8, <3>9 DEF Sole
  <2>3. CASE end(r, "ok") /\ UNCHANGED name
    BY <1>1, <2>3, EndSole
  <2> QED BY <1>6, <2>1, <2>2, <2>3 DEF read
<1> QED BY <1>3, <1>4, <1>5, <1>6 DEF Reader

LEMMA WriterSole ==
  ASSUME Inv, Inv', NEW w \in Writers, Alone(w), Sole(w), Writer(w)
  PROVE  Sole(w)'
<1> USE DEF At
<1>1. /\ w \in Procs /\ w \notin Readers /\ WrHas(w) /\ Types /\ w # "none"
      /\ OneFifo(w) /\ OneGot(w) /\ Printed(w) /\ Unprinted(w)
  BY ProcsFacts DEF Inv, Labels, Sole
<1>2. ASSUME NEW there, Goto(w, there)
      PROVE  /\ \A q \in Procs : pc'[q] = IF q = w THEN there ELSE pc[q]
             /\ \A r \in Readers : pc'[r] = pc[r]
  BY <1>1, <1>2, ProcsFacts DEF Goto, Types
\* A step without open() and close().
<1>3. ASSUME NEW there, Goto(w, there), name' \in {w, "none"}, name' = w => name = w \/ Unmade(w),
             there \in {"make_file", "mkfifo"} => Unmade(w) /\ name' = "none",
             UNCHANGED <<fifo_id, opening, lock, data, len, fpos, out>>
      PROVE  Sole(w)'
  <2>1. /\ pc'[w] = there /\ \A r \in Readers : pc'[r] = pc[r]
        /\ \A q \in Procs : fifo_id[q] \in {w, "none"}
    BY <1>1, <1>2, <1>3 DEF OneFifo
  <2>2. Unmade(w)' => Unmade(w) /\ name' = "none" /\ \A q \in Procs : fifo_id[q] = "none"
    BY <1>1, <1>3, <2>1 DEF Unmade, OneFifo
  <2> QED BY <1>1, <1>3, <2>1, <2>2, CalmSole
<1>4. ASSUME NEW how, end(w, how), UNCHANGED name
      PROVE  Sole(w)'
  BY <1>1, <1>4, EndSole
<1>5. CASE make_file(w)
  BY <1>1, <1>3, <1>4, <1>5 DEF make_file, OneFifo, Unmade
<1>6. CASE mkfifo(w)
  BY <1>1, <1>3, <1>4, <1>6 DEF mkfifo, make_fifo, OneFifo, Unmade
<1>7. CASE wr_open(w)
  <2>1. /\ UNCHANGED <<name, data, fpos, out>> /\ Goto(w, "write") /\ fpos[w] = 0
        /\ open(w, Readers) \/ UNCHANGED <<fifo_id, opening>>
    BY <1>1, <1>7 DEF wr_open, WrHas
  <2>2. \A q \in Procs : fifo_id'[q] \in {w, "none"}
    BY <1>1, <2>1, OpenFacts DEF OneFifo
  <2>3. ~Unmade(w)' /\ \A r \in Readers : pc'[r] = pc[r]
    BY <1>1, <1>2, <2>1 DEF Unmade
  <2> QED BY <1>1, <2>1, <2>2, <2>3, CalmSole DEF OneFifo
<1>8. CASE write(w)
  <2>1. CASE /\ fpos[w] < len[w] /\ fifo_id[w] # "none"
             /\ fpos' = [fpos EXCEPT ![w] = @ + 1]
             /\ put(fifo_id[w], <<w, fpos[w] + 1>>)
             /\ UNCHANGED <<pc, status, name, fifo_id, opening, lock, len, out>>
    <3> DEFINE x == <<w, fpos[w] + 1>>
               n == fpos[w]
               s == data[w]
    <3>1. /\ fifo_id[w] = w /\ s \in Seq(Piece)
          /\ n \in Nat /\ n \in 0 .. Chunks /\ len[w] \in 0 .. Chunks /\ Chunks \in Nat
      BY <1>1, <2>1, FlockAssumption DEF Types, OneFifo
    <3>2. fpos'[w] = n + 1 /\ data'[w] = Append(s, x)
      BY <1>1, <2>1, <3>1 DEF Types, put
    <3>3. n + 1 \in 1 .. Chunks
      BY <2>1, <3>1
    <3>4. x \in Piece
      BY <3>3 DEF Piece
    <3> HIDE DEF x, n, s
    <3>5. ASSUME NEW k \in Nat, k + Len(s) = n, Follows(s, w, k)
          PROVE  k + Len(data'[w]) = n + 1 /\ Follows(Append(s, x), w, k)
      <4>1. x = <<w, k + Len(s) + 1>>
        BY <3>5 DEF x, n
      <4>2. Len(Append(s, x)) = Len(s) + 1 /\ Follows(Append(s, x), w, k)
        BY <3>1, <3>4, <3>5, <4>1, FollowsAppend
      <4>3. Len(s) \in Nat
        BY <3>1, LenProperties
      <4> QED BY <3>1, <3>2, <3>5, <4>2, <4>3
    <3>6. OneFifo(w)' /\ OneGot(w)'
      BY <1>1, <2>1 DEF OneFifo, OneGot, Unmade, Got
    <3>7. Printed(w)'
      <4>1. ASSUME NEW r \in Readers
            PROVE  Len(out'[r]) <= fpos'[w] /\ Follows(out[r], w, 0)'
        <5>1. Len(out[r]) <= n /\ Follows(out[r], w, 0) /\ out[r] \in Seq(Piece)
          BY <1>1 DEF Printed, n, Types
        <5>2. Len(out[r]) \in Nat
          BY <5>1, LenProperties
        <5>3. Len(out[r]) <= n + 1
          BY <3>1, <5>1, <5>2
        <5>4. out' = out
          BY <2>1
        <5> QED BY <3>2, <5>1, <5>3, <5>4 DEF Follows
      <4>2. ASSUME NEW r \in Readers, pc'[r] = "read"
            PROVE  Len(out'[r]) + Len(data'[w]) = fpos'[w] /\ Follows(data[w], w, Len(out[r]))'
        <5>1. Len(out[r]) + Len(s) = n /\ Follows(s, w, Len(out[r])) /\ out[r] \in Seq(Piece)
          BY <1>1, <2>1, <4>2 DEF Printed, n, s, Types
        <5>2. Len(out[r]) \in Nat
          BY <5>1, LenProperties
        <5> QED BY <2>1, <3>2, <3>5, <5>1, <5>2 DEF Follows
      <4>3. fpos'[w] # 0
        BY <3>1, <3>2
      <4> QED BY <4>1, <4>2, <4>3 DEF Printed
    <3>8. Unprinted(w)'
      <4> SUFFICES ASSUME \A r \in Readers : ~Got(r)
                   PROVE  Len(data'[w]) = fpos'[w] /\ Follows(data[w], w, 0)'
        BY <2>1 DEF Unprinted, Got
      <4>1. Len(s) = n /\ Follows(s, w, 0)
        BY <1>1, <3>1 DEF Unprinted, n, s
      <4>2. 0 + Len(data'[w]) = n + 1 /\ Follows(Append(s, x), w, 0)
        BY <3>1, <3>5, <4>1
      <4>3. Len(data'[w]) \in Nat
        <5>1. Append(s, x) \in Seq(Piece)
          BY <3>1, <3>4, AppendProperties
        <5> QED BY <3>2, <5>1, LenProperties
      <4> QED BY <3>2, <4>2, <4>3 DEF Follows
    <3> QED BY <3>6, <3>7, <3>8 DEF Sole
  <2>2. CASE Goto(w, "remove") /\ UNCHANGED <<name, fifo_id, opening, lock, data, len, fpos, out>>
    BY <1>1, <1>3, <2>2 DEF OneFifo
  <2> QED BY <1>4, <1>8, <2>1, <2>2 DEF write
<1>9. CASE wr_remove(w) \/ wr_close(w)
  BY <1>1, <1>3, <1>4, <1>9 DEF wr_remove, wr_close
<1> QED BY <1>5, <1>6, <1>7, <1>8, <1>9 DEF Writer

\* Who has been launched stays so.
LEMMA AloneStays ==
  ASSUME Inv, [Next]_vars, NEW w \in Writers, Alone(w)'
  PROVE  /\ Alone(w)
         /\ \A v \in Writers \ {w} : ~(Writer(v) \/ kill(v))
<1> USE DEF At
<1>1. \A v \in Writers \ {w} : v \in Procs /\ v \notin Readers /\ pc'[v] = "make_file"
  BY ProcsFacts DEF Alone
<1>2. ASSUME NEW p \in Procs, NEW there, Goto(p, there), there # "make_file"
      PROVE  p \notin Writers \ {w} /\ \A v \in Writers \ {w} : pc[v] = "make_file"
  BY <1>1, <1>2 DEF Goto, Inv, Types
<1>3. ASSUME NEW p \in Procs, NEW how, end(p, how)
      PROVE  p \notin Writers \ {w} /\ \A v \in Writers \ {w} : pc[v] = "make_file"
  BY <1>1, <1>3 DEF end, Inv, Types
<1>4. ASSUME NEW r \in Readers, Reader(r)
      PROVE  Alone(w)
  <2>1. r \in Procs
    BY ProcsFacts
  <2>2. CASE pc' = pc
    BY <1>1, <2>2 DEF Alone
  <2> QED BY <1>2, <1>3, <1>4, <2>1, <2>2 DEF Reader, rd_open, flock, rd_remove, read, Alone
<1>5. ASSUME NEW v \in Writers, Writer(v)
      PROVE  v = w /\ Alone(w)
  <2>1. v \in Procs
    BY ProcsFacts
  <2>2. CASE pc' = pc /\ pc[v] = "write"
    BY <1>1, <2>2 DEF Alone
  <2> QED BY <1>2, <1>3, <1>5, <2>1, <2>2
       DEF Writer, make_file, mkfifo, wr_open, write, wr_remove, wr_close, Alone
<1>6. ASSUME NEW p \in Procs, kill(p)
      PROVE  p \notin Writers \ {w} /\ Alone(w)
  BY <1>3, <1>6 DEF kill, Alone
<1>7. UNCHANGED vars \/ fifo_remove => Alone(w)
  BY <1>1 DEF vars, fifo_remove, Alone
<1>8. Alone(w)
  BY <1>4, <1>5, <1>6, <1>7 DEF Next
<1>9. ASSUME NEW v \in Writers \ {w}, Writer(v) \/ kill(v)
      PROVE  FALSE
  BY <1>1, <1>5, <1>6, <1>9
<1> QED BY <1>8, <1>9

LEMMA OnceStep == Inv /\ OnceInv /\ [Next]_vars => OnceInv'
<1> SUFFICES ASSUME Inv, OnceInv, [Next]_vars, NEW w \in Writers, Alone(w)'
             PROVE  Sole(w)'
  BY DEF OnceInv
<1>1. /\ Inv' /\ Alone(w) /\ Sole(w) /\ w # "none" /\ OneFifo(w)
      /\ \A v \in Writers : Writer(v) \/ kill(v) => v = w
  BY InvStep, AloneStays, ProcsFacts DEF OnceInv, Sole
<1>2. ASSUME UNCHANGED <<pc, fifo_id, opening, data, fpos, out>>, name' = name \/ name' = "none"
      PROVE  Sole(w)'
  BY <1>1, <1>2, CalmSole DEF OneFifo, Unmade
<1>3. CASE UNCHANGED vars \/ fifo_remove
  BY <1>2, <1>3 DEF vars, fifoVars, fifo_remove
<1>4. ASSUME NEW p \in Procs, kill(p)
      PROVE  Sole(w)'
  BY <1>1, <1>4, EndSole DEF kill
<1> QED BY <1>1, <1>3, <1>4, ReaderSole, WriterSole DEF Next

LEMMA OnceInit == Init => OnceInv
<1> SUFFICES ASSUME Init, NEW w \in Writers PROVE Sole(w)
  BY DEF OnceInv
<1>1. /\ name = "none" /\ \A p \in Procs : fifo_id[p] = "none"
      /\ data[w] = <<>> /\ fpos[w] = 0 /\ pc[w] = "make_file"
      /\ \A r \in Readers : pc[r] = "open" /\ out[r] = <<>>
  BY ProcsFacts DEF Init, FifoInit
<1>2. OneFifo(w)
  BY <1>1 DEF OneFifo
<1>3. OneGot(w) /\ Printed(w) /\ Unprinted(w)
  BY <1>1, FollowsEmpty DEF OneGot, Printed, Unprinted, Got
<1> QED BY <1>2, <1>3 DEF Sole

\* As long as no second writer has been launched, what the readers print is the
\* beginning of the writer's file, and only one of them prints anything: whoever
\* removes the name gets the FIFO with everything that was ever sent through it.
THEOREM PrintedOnceCorrect == Spec => []PrintedOnce
<1>1. ASSUME Inv, OnceInv,
             \A v, w \in Writers : v # w => At(v, "make_file") \/ At(w, "make_file"),
             NEW r \in Readers, out[r] # <<>>
      PROVE  /\ \E w \in Writers, n \in 1 .. Chunks : out[r] = File(w, n)
             /\ \A q \in Readers : out[q] # <<>> => q = r
  <2> DEFINE m == Len(out[r])
             s == out[r]
  <2>1. s \in Seq(Piece) /\ m \in Nat /\ m # 0 /\ Head(s) \in Piece
    BY <1>1, LenProperties, EmptySeq, HeadTailProperties DEF Inv, Types
  <2>2. PICK w \in Writers : Alone(w)
    <3>1. PICK v \in Writers : TRUE
      BY <2>1 DEF Piece
    <3>2. CASE \A u \in Writers : At(u, "make_file")
      BY <3>1, <3>2 DEF Alone
    <3>3. CASE \E u \in Writers : ~At(u, "make_file")
      BY <1>1, <3>3 DEF Alone
    <3> QED BY <3>2, <3>3
  <2>3. Sole(w)
    BY <1>1, <2>2 DEF OnceInv
  <2>4. \A q \in Readers : out[q] # <<>> => q = r
    BY <1>1, <2>3 DEF Sole, OneGot, Got
  <2>5. m <= fpos[w] /\ Follows(s, w, 0)
    BY <2>3 DEF Sole, Printed
  <2>6. m \in 1 .. Chunks
    BY <1>1, <2>1, <2>5, FlockAssumption DEF Inv, Types
  <2>7. s = File(w, m)
    <3> DEFINE t == File(w, m)
    <3>1. t = [i \in 1 .. m |-> <<w, i>>]
      BY DEF File
    <3>2. \A i \in 1 .. m : <<w, i>> \in Piece
      BY <2>6, FlockAssumption DEF Piece
    <3>3. t \in Seq(Piece) /\ Len(t) = m
      BY <2>1, <3>1, <3>2
    <3>4. \A i \in 1 .. m : s[i] = t[i]
      <4>1. \A i \in 1 .. m : s[i] = <<w, 0 + i>> /\ 0 + i = i
        BY <2>5 DEF Follows
      <4> QED BY <3>1, <4>1
    <3> HIDE DEF t
    <3> QED BY <2>1, <3>3, <3>4, SeqEqual DEF t
  <2> QED BY <2>4, <2>6, <2>7
<1>2. Inv /\ OnceInv => PrintedOnce
  <2> DEFINE R == {r \in Readers : out[r] # <<>>}
  <2> SUFFICES ASSUME Inv, OnceInv,
                      \A v, w \in Writers : v # w => At(v, "make_file") \/ At(w, "make_file")
               PROVE  Cardinality(R) <= 1
    BY <1>1 DEF PrintedOnce
  <2>1. CASE R = {}
    BY <2>1, FS_EmptySet
  <2>2. CASE R # {}
    <3>1. PICK r \in R : R = {r}
      BY <1>1, <2>2
    <3>2. Cardinality({r}) = 1
      BY FS_Singleton
    <3> HIDE DEF R
    <3> QED BY <3>1, <3>2
  <2> QED BY <2>1, <2>2
<1>3. Spec => [](Inv /\ OnceInv)
  BY InvInit, InvStep, OnceInit, OnceStep, PTL DEF Spec
<1> QED BY <1>2, <1>3, PTL
===============================================================================
