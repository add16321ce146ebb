------------------------------ MODULE Lev1Shm ------------------------------
(***************************************************************************)
(* The shared memory of one link (ss7lev1shm.cpp): a ring of Slots slots   *)
(* in each direction, and two words in which the HDLC layer says where it  *)
(* is.  A slot is a length word and a body.  The side that fills a slot    *)
(* writes the body first and then the length; the side that empties it     *)
(* copies the body and then puts the mark 0xC000 into the length word.     *)
(* Nothing else keeps the two processes apart, so that each of those is a  *)
(* step of its own here.                                                   *)
(*                                                                         *)
(* The link process may die at any step.  Its successor finds the rings as *)
(* they are, and init() works out the positions.                           *)
(*                                                                         *)
(* The HDLC layer is not in the repository.  From rx_msg(), tx_msg() and   *)
(* init(): r is the slot it fills next and t the last slot it has sent; it *)
(* fills marked slots only, sends filled slots only, in turn, and moves    *)
(* its word together with the length word.                                 *)
(***************************************************************************)
EXTENDS Integers, Sequences, SequencesExt, Ranks

CONSTANTS
  Slots,    \* maxSUnumber
  SU,       \* SUs of less than 280 bytes; tx_msg() refuses any other
  NoLength, \* the SU of length 0
  Traffic,  \* the SUs that are received and those that are sent: sets of them
  NoSU      \* a body that nobody has written yet

ASSUME Lev1Assumption ==
  /\ Slots \in Nat \ {0, 1}
  /\ NoSU \notin SU
  /\ Traffic \subseteq [rx : SUBSET SU, tx : SUBSET SU]

Slot == 0 .. Slots - 1

VARIABLES
  rxLen, rxBody,  \* receive ring: is the slot "filled" or "marked", and its body
  txLen, txBody,  \* transmit ring
  r, t,           \* the two words of the HDLC layer
  hdlcRx, hdlcTx, \* what the HDLC layer is about: "idle", or its slot "begun"
  pc,             \* the link process: "down", "search" (init), "idle", "rx", "tx"
  rxpos, txpos,   \* SS7LINK::rxpos, txpos
  buf,            \* what rx_msg() has copied and not yet returned
  got, sent,      \* history: last SU returned by rx_msg(), last SU sent
  disturbed,      \* history: a restart has found SUs to be sent
  traffic         \* the member of Traffic that the behaviour belongs to

rings    == <<rxLen, rxBody, txLen, txBody>>
hdlcVars == <<r, t, hdlcRx, hdlcTx>>
linkVars == <<pc, rxpos, txpos, buf>>
history  == <<got, sent, disturbed, traffic>>
vars     == <<rings, hdlcVars, linkVars, history>>

\* Mutant: no return to the first slot.
ForthStraight(i) == i + 1
Forth(i) == (i + 1) % Slots
Back(i)  == (i + Slots - 1) % Slots
-----------------------------------------------------------------------------
(* init().  The search goes back from the last slot that was filled to the *)
(* first one that has been read.  It has no other end.                     *)

ToBeSent == {i \in Slot : txLen[i] = "filled"}

Start ==
  /\ pc = "down"
  /\ pc' = "search"
  /\ rxpos' = Back(r)
  /\ txpos' = Forth(t)
  /\ disturbed' = (disturbed \/ ToBeSent # {})
  /\ UNCHANGED <<rings, hdlcVars, buf, got, sent, traffic>>

\* Mutant: the position is not moved.
SearchStays ==
  /\ pc = "search"
  /\ rxLen[rxpos] = "filled"
  /\ UNCHANGED vars

SearchBack ==
  /\ pc = "search"
  /\ rxLen[rxpos] = "filled"
  /\ rxpos' = Back(rxpos)
  /\ UNCHANGED <<rings, hdlcVars, pc, txpos, buf, history>>

\* Mutant: stops at the slot that has been read, not at the next.
SearchEndsEarly ==
  /\ pc = "search"
  /\ rxLen[rxpos] = "marked"
  /\ pc' = "idle"
  /\ UNCHANGED <<rings, hdlcVars, rxpos, txpos, buf, history>>

SearchEnds ==
  /\ pc = "search"
  /\ rxLen[rxpos] = "marked"
  /\ rxpos' = Forth(rxpos)
  /\ pc' = "idle"
  /\ UNCHANGED <<rings, hdlcVars, txpos, buf, history>>

Crash ==
  /\ pc # "down"
  /\ pc' = "down"
  /\ rxpos' = 0
  /\ txpos' = 0
  /\ buf' = NoSU
  /\ UNCHANGED <<rings, hdlcVars, history>>

-----------------------------------------------------------------------------
(* rx_msg(): nothing while the slot is marked or its length is 0, so that   *)
(* nothing behind such a slot is ever read; else copy, mark, advance.      *)

\* Mutant: the mark is not looked at.
RxBeginsUnasked ==
  /\ pc = "idle"
  /\ rxBody[rxpos] # NoLength
  /\ buf' = rxBody[rxpos]
  /\ pc' = "rx"
  /\ UNCHANGED <<rings, hdlcVars, rxpos, txpos, history>>

\* Mutant: the mark is set before the SU is copied.
RxBeginsMarking ==
  /\ pc = "idle"
  /\ rxLen[rxpos] = "filled" /\ rxBody[rxpos] # NoLength
  /\ rxLen' = [rxLen EXCEPT ![rxpos] = "marked"]
  /\ buf' = rxBody[rxpos]
  /\ pc' = "rx"
  /\ UNCHANGED <<rxBody, txLen, txBody, hdlcVars, rxpos, txpos, history>>

RxBegins ==
  /\ pc = "idle"
  /\ rxLen[rxpos] = "filled" /\ rxBody[rxpos] # NoLength
  /\ buf' = rxBody[rxpos]
  /\ pc' = "rx"
  /\ UNCHANGED <<rings, hdlcVars, rxpos, txpos, history>>

RxEnds ==
  /\ pc = "rx"
  /\ rxLen' = [rxLen EXCEPT ![rxpos] = "marked"]
  /\ rxpos' = Forth(rxpos)
  /\ got' = buf
  /\ buf' = NoSU
  /\ pc' = "idle"
  /\ UNCHANGED <<rxBody, txLen, txBody, hdlcVars, txpos, sent, disturbed, traffic>>

(* tx_msg(): refused while the slot is not marked; else copy, write the    *)
(* length, advance.                                                        *)

\* Mutant: a slot that has not been sent is written again.
TxBeginsUnasked ==
  /\ pc = "idle"
  /\ \E su \in traffic.tx : txBody' = [txBody EXCEPT ![txpos] = su]
  /\ pc' = "tx"
  /\ UNCHANGED <<rxLen, rxBody, txLen, hdlcVars, rxpos, txpos, buf, history>>

TxBegins ==
  /\ pc = "idle"
  /\ txLen[txpos] = "marked"
  /\ \E su \in traffic.tx : txBody' = [txBody EXCEPT ![txpos] = su]
  /\ pc' = "tx"
  /\ UNCHANGED <<rxLen, rxBody, txLen, hdlcVars, rxpos, txpos, buf, history>>

TxEnds ==
  /\ pc = "tx"
  /\ txLen' = [txLen EXCEPT ![txpos] = "filled"]
  /\ txpos' = Forth(txpos)
  /\ pc' = "idle"
  /\ UNCHANGED <<rxLen, rxBody, txBody, hdlcVars, rxpos, buf, history>>

-----------------------------------------------------------------------------
(* The HDLC layer.                                                         *)

HdlcFills ==
  /\ hdlcRx = "idle"
  /\ rxLen[r] = "marked"
  /\ \E su \in traffic.rx : rxBody' = [rxBody EXCEPT ![r] = su]
  /\ hdlcRx' = "begun"
  /\ UNCHANGED <<rxLen, txLen, txBody, r, t, hdlcTx, linkVars, history>>

HdlcHandsOver ==
  /\ hdlcRx = "begun"
  /\ rxLen' = [rxLen EXCEPT ![r] = "filled"]
  /\ r' = Forth(r)
  /\ hdlcRx' = "idle"
  /\ UNCHANGED <<rxBody, txLen, txBody, t, hdlcTx, linkVars, history>>

HdlcSends ==
  /\ hdlcTx = "idle"
  /\ txLen[Forth(t)] = "filled"
  /\ hdlcTx' = "begun"
  /\ UNCHANGED <<rings, r, t, hdlcRx, linkVars, history>>

HdlcHasSent ==
  /\ hdlcTx = "begun"
  /\ sent' = txBody[Forth(t)]
  /\ txLen' = [txLen EXCEPT ![Forth(t)] = "marked"]
  /\ t' = Forth(t)
  /\ hdlcTx' = "idle"
  /\ UNCHANGED <<rxLen, rxBody, txBody, r, hdlcRx, linkVars, got, disturbed, traffic>>

-----------------------------------------------------------------------------
Init ==
  /\ rxLen = [i \in Slot |-> "marked"]
  /\ txLen = [i \in Slot |-> "marked"]
  /\ rxBody = [i \in Slot |-> NoSU]
  /\ txBody = [i \in Slot |-> NoSU]
  /\ r = 0
  /\ t = Slots - 1
  /\ hdlcRx = "idle"
  /\ hdlcTx = "idle"
  /\ pc = "down"
  /\ rxpos = 0
  /\ txpos = 0
  /\ buf = NoSU
  /\ got = NoSU
  /\ sent = NoSU
  /\ disturbed = FALSE
  /\ traffic \in Traffic

Link == Start \/ SearchBack \/ SearchEnds \/ RxBegins \/ RxEnds \/ TxBegins \/ TxEnds
Hdlc == HdlcFills \/ HdlcHandsOver \/ HdlcSends \/ HdlcHasSent

Next == Link \/ Crash \/ Hdlc

Spec == Init /\ [][Next]_vars

\* init() runs without a pause, rx_msg() and the HDLC layer go on.
FairSpec ==
  /\ Spec
  /\ WF_vars(SearchBack \/ SearchEnds)

-----------------------------------------------------------------------------
\* Every variable has its type.
TypeOK ==
  /\ rxLen \in [Slot -> {"filled", "marked"}]
  /\ txLen \in [Slot -> {"filled", "marked"}]
  /\ rxBody \in [Slot -> SU \cup {NoSU}]
  /\ txBody \in [Slot -> SU \cup {NoSU}]
  /\ {r, t, rxpos, txpos} \subseteq Slot
  /\ hdlcRx \in {"idle", "begun"}
  /\ hdlcTx \in {"idle", "begun"}
  /\ pc \in {"down", "search", "idle", "rx", "tx"}
  /\ {buf, got, sent} \subseteq SU \cup {NoSU}
  /\ disturbed \in BOOLEAN
  /\ traffic \in Traffic

\* A slot that one side is about is never the other's: what rx_msg() copies is
\* what the HDLC layer has handed over, and what the HDLC layer sends is what
\* tx_msg() has handed over.
HandedOver ==
  /\ hdlcRx = "begun" => rxLen[r] = "marked"
  /\ pc = "rx" => rxLen[rxpos] = "filled" /\ buf = rxBody[rxpos]
  /\ pc = "tx" => txLen[txpos] = "marked"
  /\ hdlcTx = "begun" => txLen[Forth(t)] = "filled"

\* While the HDLC layer sends an SU, nobody writes it, not even a link process
\* that has just been started and does not know.
SentWhole == [][hdlcTx = "begun" /\ hdlcTx' = "begun" =>
                  t' = t /\ txBody'[Forth(t)] = txBody[Forth(t)]]_vars

\* How far ahead of a position the filled slots of a ring are.
Filled(len, first) == {d \in Slot : len[(first + d) % Slots] = "filled"}

\* The SUs of a ring in the order in which the HDLC layer comes to them.
Waiting(len, body, first) ==
  LET filled == Filled(len, first)
  IN  [k \in 1 .. Cardinality(filled) |-> body[(first + Nth(filled, k)) % Slots]]

\* A link process that runs reads the oldest SU next, and nothing is left
\* behind it, whenever and however often its predecessors died; and it places
\* the next SU where the HDLC layer comes last, unless a restart found SUs
\* still to be sent.
InPlace == pc \in {"idle", "rx", "tx"} =>
  /\ \A i, j \in 0 .. Slots - 1 :
       i < j /\ rxLen[(rxpos + j) % Slots] = "filled" => rxLen[(rxpos + i) % Slots] = "filled"
  /\ ~ disturbed =>
       \A i, j \in 0 .. Slots - 1 :
         i < j /\ txLen[(txpos + i) % Slots] = "filled" => txLen[(txpos + j) % Slots] = "filled"

\* The shared memory is the two queues of SuQueues: read by rx_msg() only
\* after an SU is complete, sent only after tx_msg() is done with it, and
\* both ends agree on the order, over every crash.
Queues == INSTANCE SuQueues WITH
  rxq <- Waiting(rxLen, rxBody, r),
  txq <- Waiting(txLen, txBody, Forth(t))

ImplementsQueues == Queues!Spec

\* init() comes to its end, unless the HDLC layer fills the whole ring.
Full == \A i \in Slot : rxLen[i] = "filled"
InitEnds == pc = "search" ~> pc # "search" \/ Full
=============================================================================
