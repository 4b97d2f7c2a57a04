----------------------------- MODULE PageChannel -----------------------------
(***************************************************************************)
(* What task3 promises to one writer and one reader: a channel with room   *)
(* for one page.  The writer may send the next page only after the reader  *)
(* has printed the last one; each page is printed once, in order; the      *)
(* writer ends normally only when all pages of its file were printed.  The *)
(* writer may also break off, and the page then in the channel may still   *)
(* be printed or be lost.                                                  *)
(***************************************************************************)
EXTENDS Naturals, Sequences

CONSTANT Chunks      \* the pages of the writer's file

VARIABLES
  sent,      \* the number of the last page put into the channel
  printed,   \* the numbers of the pages printed
  state      \* of the writer: open, complete (all was printed) or broken

chanVars == <<sent, printed, state>>

Init == sent = 0 /\ printed = <<>> /\ state = "open"

Send ==
  /\ state = "open" /\ sent < Chunks
  /\ Len(printed) = sent
  /\ sent' = sent + 1
  /\ UNCHANGED <<printed, state>>

PrintPage ==
  /\ Len(printed) < sent
  /\ printed' = Append(printed, sent)
  /\ UNCHANGED <<sent, state>>

Complete ==
  /\ state = "open" /\ Len(printed) = Chunks
  /\ state' = "complete"
  /\ UNCHANGED <<sent, printed>>

Break ==
  /\ state = "open"
  /\ state' = "broken"
  /\ UNCHANGED <<sent, printed>>

Next == Send \/ PrintPage \/ Complete \/ Break

Spec == Init /\ [][Next]_chanVars
=============================================================================
