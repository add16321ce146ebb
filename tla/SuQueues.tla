------------------------------ MODULE SuQueues ------------------------------
(***************************************************************************)
(* What the shared memory between a link process and its HDLC layer        *)
(* promises: two queues of at most Slots SUs, one in each direction.  An   *)
(* SU goes through once, whole and in order, and what is under way         *)
(* survives the link process.  The one exception: when a link process is   *)
(* restarted while SUs wait for transmission, later SUs may overtake them  *)
(* from then on; still none is lost, doubled or mixed with another.        *)
(***************************************************************************)
EXTENDS Integers, Sequences, SequencesExt

CONSTANTS SU, Slots, NoSU

VARIABLES
  rxq,        \* received by the HDLC layer, not yet read by the link
  txq,        \* placed by the link, not yet sent by the HDLC layer
  got,        \* the last SU that rx_msg() returned
  sent,       \* the last SU that went out on the line
  disturbed   \* a restart has found SUs in txq

queueVars == <<rxq, txq, got, sent, disturbed>>

Arrives(su) ==
  /\ Len(rxq) < Slots
  /\ rxq' = Append(rxq, su)
  /\ UNCHANGED <<txq, got, sent, disturbed>>

Reads ==
  /\ rxq # <<>>
  /\ got' = Head(rxq)
  /\ rxq' = Tail(rxq)
  /\ UNCHANGED <<txq, sent, disturbed>>

Places(su) ==
  /\ Len(txq) < Slots
  /\ \E i \in 1 .. Len(txq) + 1 :
       /\ i = Len(txq) + 1 \/ disturbed
       /\ txq' = InsertAt(txq, i, su)
  /\ UNCHANGED <<rxq, got, sent, disturbed>>

Sends ==
  /\ txq # <<>>
  /\ sent' = Head(txq)
  /\ txq' = Tail(txq)
  /\ UNCHANGED <<rxq, got, disturbed>>

Restarts ==
  /\ disturbed' = (disturbed \/ txq # <<>>)
  /\ UNCHANGED <<rxq, txq, got, sent>>

Init ==
  /\ rxq = <<>>
  /\ txq = <<>>
  /\ got = NoSU
  /\ sent = NoSU
  /\ disturbed = FALSE

Next ==
  \/ \E su \in SU : Arrives(su) \/ Places(su)
  \/ Reads
  \/ Sends
  \/ Restarts

Spec == Init /\ [][Next]_queueVars
=============================================================================
