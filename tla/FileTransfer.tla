---------------------------- MODULE FileTransfer -----------------------------
(***************************************************************************)
(* What the programs that send a file through a FIFO or a pipe promise.    *)
(* Each sender has a file of pieces.  A receiver gets pieces of one sender *)
(* only, a sender's pieces go to one receiver only, and they are printed   *)
(* in order, without gaps and once.  A sender that ends well has sent its  *)
(* whole file; a receiver that ends well has printed all that was sent,    *)
(* and nothing more comes.  Either may break off at any moment.            *)
(***************************************************************************)
EXTENDS Integers, Sequences

CONSTANTS
  Senders, Receivers,
  Pieces,      \* what files are made of
  Capacity     \* pieces that may be sent and not yet printed

VARIABLES
  file,      \* the file of each sender, <<>> before it is known
  sent,      \* how many pieces each sender has sent
  source,    \* the sender whose pieces each receiver gets, or "none"
  printed,   \* what each receiver has printed
  how        \* open, ok or broken

transferVars == <<file, sent, source, printed, how>>

Init ==
  /\ file \in [Senders -> Seq(Pieces)]
  /\ sent = [w \in Senders |-> 0]
  /\ source = [r \in Receivers |-> "none"]
  /\ printed = [r \in Receivers |-> <<>>]
  /\ how = [p \in Senders \cup Receivers |-> "open"]

\* A file is found out once.
Load(w) ==
  /\ how[w] = "open" /\ file[w] = <<>> /\ sent[w] = 0
  /\ file' = [file EXCEPT ![w] = file'[w]] /\ file'[w] \in Seq(Pieces)
  /\ UNCHANGED <<sent, source, printed, how>>

Send(w, r) ==
  /\ how[w] = "open" /\ how[r] = "open"
  /\ sent[w] < Len(file[w])
  /\ source[r] \in {"none", w} /\ \A q \in Receivers \ {r} : source[q] # w
  /\ sent[w] - Len(printed[r]) < Capacity
  /\ sent' = [sent EXCEPT ![w] = @ + 1]
  /\ source' = [source EXCEPT ![r] = w]
  /\ UNCHANGED <<file, printed, how>>

PrintPiece(r) ==
  /\ how[r] = "open" /\ source[r] # "none"
  /\ LET n == Len(printed[r]) + 1 IN
       /\ n <= sent[source[r]]
       /\ printed' = [printed EXCEPT ![r] = Append(@, file[source[r]][n])]
  /\ UNCHANGED <<file, sent, source, how>>

SenderDone(w) == sent[w] = Len(file[w])

ReceiverDone(r) ==
  \/ /\ source[r] = "none"
     /\ \E w \in Senders : how[w] = "broken" \/ (how[w] = "ok" /\ sent[w] = 0)
  \/ /\ source[r] # "none" /\ Len(printed[r]) = sent[source[r]]
     /\ how[source[r]] # "open"

End(p, end) ==
  /\ how[p] = "open" /\ end \in {"ok", "broken"}
  /\ end = "ok" => (p \in Senders /\ SenderDone(p)) \/ (p \in Receivers /\ ReceiverDone(p))
  /\ how' = [how EXCEPT ![p] = end]
  /\ UNCHANGED <<file, sent, source, printed>>

Next ==
  \/ \E w \in Senders : Load(w) \/ \E r \in Receivers : Send(w, r)
  \/ \E r \in Receivers : PrintPiece(r)
  \/ \E p \in Senders \cup Receivers, end \in {"ok", "broken"} : End(p, end)

Spec == Init /\ [][Next]_transferVars
=============================================================================
