-------------------------------- MODULE Fifo --------------------------------
(***************************************************************************)
(* What a ring promises: a queue.  Items are put at its end, one or more   *)
(* at a time; the first is taken, and is taken as it was put; nothing is   *)
(* lost while the process whose queue it is runs, unless it comes round to *)
(* a reader who is late.                                                   *)
(***************************************************************************)
EXTENDS Sequences, SequencesExt

VARIABLES
  q,      \* what has been put and not yet taken
  taken,  \* what was taken last
  up,     \* does the process run
  late    \* may a writer come round to the reader's place

vars == <<q, taken, up>>

Init == q = <<>>

Puts ==
  /\ up
  /\ IsPrefix(q, q')
  /\ UNCHANGED <<taken, up>>

\* Whoever takes an item may put others.
Takes ==
  /\ q # <<>>
  /\ taken' = Head(q)
  /\ IsPrefix(Tail(q), q')
  /\ UNCHANGED up

\* What a dead process leaves may be forgotten.
Loses ==
  /\ ~ up'
  /\ IsPrefix(q', q)
  /\ UNCHANGED taken

\* Full and empty look the same.
Overflows ==
  /\ late
  /\ q' = <<>>
  /\ UNCHANGED <<taken, up>>

Starts ==
  /\ ~ up
  /\ up'
  /\ q' = <<>>
  /\ UNCHANGED taken

Next == Puts \/ Takes \/ Loses \/ Overflows \/ Starts

Spec == Init /\ [][Next]_vars
=============================================================================
