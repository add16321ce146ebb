------------------------------ MODULE Ss7Link ------------------------------
(***************************************************************************)
(* The MTP2 link process of the gateway, class SS7LINK                     *)
(* (m3ua-gateway/ss7-mtp2/ss7link.cpp): initial alignment, numbering,      *)
(* acknowledgement and retransmission of MSUs, and the notifications that  *)
(* the link posts to the MTP3 process.                                     *)
(*                                                                         *)
(* The module describes a set Links of link processes.  Each is driven by  *)
(*   - timer(), called once a tick: it reads every signal unit (SU) that   *)
(*     the HDLC layer has left in the receive ring, one SU per step, and   *)
(*     then runs its tail: the alignment timers, or the transmitter;       *)
(*   - event(), called for a message that MTP3 posted.                     *)
(* The gateway is single-threaded, so event() runs only between two calls  *)
(* of timer() (pc[n] = "idle").  The HDLC layer is another process that    *)
(* runs in parallel: its steps interleave with the steps of timer().       *)
(*                                                                         *)
(* The two shared-memory rings are FIFO queues of at most Slots SUs.       *)
(***************************************************************************)
EXTENDS Integers, Sequences

CONSTANTS
  Links,         \* the link processes
  Msu,           \* the messages an MSU can carry
  NoMsu,         \* the content of an SU that is not an MSU, of a fresh slot
  PeerSU,        \* the SUs the far end may send
  SeqMod,        \* sequence numbers are taken modulo SeqMod (128)
  TX_QUEUE_GAP,  \* free positions under which the buffer counts as full (30)
  Slots,         \* slots of each shared-memory ring (32)
  T1value, T2value, T3value, T4value,   \* alignment timeouts, in ticks
  MaxPosted      \* bound: messages that wait for MTP3 while more may arrive

Seqno  == 0 .. SeqMod - 1
Bit    == {0, 1}
Header == [bsn : Seqno, bib : Bit, fsn : Seqno, fib : Bit]

LssuKind == {"SIO", "SIN", "SIE", "SIOS", "SIPO", "SIB"}
SU == [kind : LssuKind \cup {"FISU", "MSU"}, hdr : Header, msu : Msu \cup {NoMsu}]

ASSUME SeqAssumption   == SeqMod \in Nat /\ SeqMod >= 2
ASSUME GapAssumption   == TX_QUEUE_GAP \in 0 .. SeqMod
ASSUME SlotsAssumption == Slots \in Nat \ {0}
ASSUME TimerAssumption == /\ T1value \in Nat /\ T1value >= 2
                          /\ T2value \in Nat /\ T3value \in Nat /\ T4value \in Nat
ASSUME BoundAssumption == MaxPosted \in Nat
ASSUME PeerAssumption  == PeerSU \subseteq SU
ASSUME MsuAssumption   == NoMsu \notin Msu

\* `state': "IS" is 0, the other names are the LSSU codes and BUF_OVERFLOW.
LinkState == {"IS", "BUF_OVERFLOW", "SIO", "SIE", "SIOS", "SIPO"}
MtpMsg == [msg : {"LINKTRANSFER", "LINKPAUSE", "LINKRESUME"}, param : Msu \cup {NoMsu}]

VARIABLES
  state,            \* [Links -> LinkState]
  lssu,             \* lssu.body.bitfield: the header of the next SU sent
  last_txd,         \* number of the last MSU given to the HDLC layer
  tx_last_placed,   \* number of the last MSU put into txbuffer
  tx_last_ackd,     \* BSN of the last SU received
  rx_ack_request,   \* an acknowledgement is owed
  txbuffer,         \* the messages waiting for transmission or for an ack
  T1, Tsig, T4,     \* the alignment timers; T2 and T3 are both Tsig
  pc,               \* where timer() is: "idle", "rx" (receive loop),
                    \* "tail" (after it), "burst" (transmit loop)
  rx, tx,           \* the receive and the transmit ring
  toMtp,            \* posted to MTP3 and not yet handled
  announced         \* history: the last service state posted to MTP3

seqVars   == <<last_txd, tx_last_placed, tx_last_ackd, rx_ack_request, txbuffer>>
timerVars == <<T1, Tsig, T4>>
mtpVars   == <<toMtp, announced>>
linkVars  == <<state, lssu, seqVars, timerVars, pc, rx, tx, mtpVars>>

-----------------------------------------------------------------------------
Ones == [bsn |-> SeqMod - 1, bib |-> 1, fsn |-> SeqMod - 1, fib |-> 1]   \* 0xFFFF

\* !(state & 0x7FFF): in service, possibly with a full buffer.
Working(n) == state[n] \in {"IS", "BUF_OVERFLOW"}

Lssu(st, h) == [kind |-> st, hdr |-> h, msu |-> NoMsu]
Fisu(h)     == [kind |-> "FISU", hdr |-> h, msu |-> NoMsu]

Room(n) == Slots - Len(tx[n])

\* tx_msg() puts the SU into the next slot, or returns 0 when it is occupied.
TxMsg(n, su) == tx' = [tx EXCEPT ![n] = IF Room(n) > 0 THEN Append(@, su) ELSE @]

Post(n, m) == toMtp' = [toMtp EXCEPT ![n] = Append(@, m)]

\* A change of the service state that MTP3 is not told.
AnnounceNothing(n, m) == m = m /\ UNCHANGED mtpVars
Announce(n, m) ==
  /\ Post(n, [msg |-> m, param |-> NoMsu])
  /\ announced' = [announced EXCEPT ![n] = m]

-----------------------------------------------------------------------------
(* timer(): the receive loop. *)

Timer(n) ==
  /\ pc[n] = "idle"
  /\ toMtp[n] = <<>>          \* main() empties msgqueue before the next tick
  /\ pc' = [pc EXCEPT ![n] = "rx"]
  /\ UNCHANGED <<state, lssu, seqVars, timerVars, rx, tx, mtpVars>>

\* One pass of the loop takes an SU; rx_msg() notes its BSN as acknowledged.
Su(n) == Head(rx[n])

RxMsg(n, kinds) ==
  /\ pc[n] = "rx"
  /\ rx[n] # <<>>
  /\ Su(n).kind \in kinds
  /\ rx' = [rx EXCEPT ![n] = Tail(@)]
  /\ tx_last_ackd' = [tx_last_ackd EXCEPT ![n] = Su(n).hdr.bsn]

\* A BIB that differs from our FIB is a negative ack: resume after its BSN.
Nack(n)      == Su(n).hdr.bib # lssu[n].fib
CheckNack(n) == last_txd' = [last_txd EXCEPT ![n] = IF Nack(n) THEN Su(n).hdr.bsn ELSE @]
FlipFib(n)   == IF Nack(n) THEN [lssu[n] EXCEPT !.fib = 1 - @] ELSE lssu[n]

\* A receiver that takes any SU but a repetition of the last.
InSequenceLoose(n) == Su(n).hdr.fsn # lssu[n].bsn
\* A receiver that waits for the number it has already seen.
InSequenceBehind(n) == Su(n).hdr.fsn = lssu[n].bsn
InSequence(n) == Su(n).hdr.fsn = (lssu[n].bsn + 1) % SeqMod

\* A receiver that does not acknowledge.
OweAckNever(n) == UNCHANGED rx_ack_request
OweAck(n) == rx_ack_request' = [rx_ack_request EXCEPT ![n] = TRUE]

RxMsu(n) ==
  /\ RxMsg(n, {"MSU"})
  /\ CheckNack(n)
  /\ \/ /\ ~ Working(n)
        /\ lssu' = [lssu EXCEPT ![n] = FlipFib(n)]
        /\ UNCHANGED <<rx_ack_request, toMtp>>
     \/ /\ Working(n) /\ InSequence(n)
        /\ Post(n, [msg |-> "LINKTRANSFER", param |-> Su(n).msu])
        /\ lssu' = [lssu EXCEPT ![n] = [FlipFib(n) EXCEPT !.bsn = Su(n).hdr.fsn]]
        /\ OweAck(n)
     \/ /\ Working(n) /\ ~ InSequence(n)
        /\ lssu' = [lssu EXCEPT ![n] = [FlipFib(n) EXCEPT !.bib = 1 - Su(n).hdr.fib]]
        /\ OweAck(n)
        /\ UNCHANGED toMtp
  /\ UNCHANGED <<state, tx_last_placed, txbuffer, timerVars, pc, tx, announced>>

\* The FISU that ends the proving period: the link goes into service and
\* forgets whatever txbuffer held.
RxFisuProven(n) ==
  /\ RxMsg(n, {"FISU"})
  /\ state[n] = "SIE"
  /\ state' = [state EXCEPT ![n] = "IS"]
  /\ lssu' = [lssu EXCEPT ![n] = Ones]
  /\ TxMsg(n, Fisu(Ones))
  /\ tx_last_placed' = [tx_last_placed EXCEPT ![n] = SeqMod - 1]
  /\ last_txd' = [last_txd EXCEPT ![n] = SeqMod - 1]
  /\ rx_ack_request' = [rx_ack_request EXCEPT ![n] = @ \/ Su(n).hdr # Ones]
  /\ Announce(n, "LINKRESUME")
  /\ UNCHANGED <<txbuffer, timerVars, pc>>

RxFisuIgnored(n) ==
  /\ RxMsg(n, {"FISU"})
  /\ state[n] # "SIE"
  /\ CheckNack(n)
  /\ lssu' = [lssu EXCEPT ![n] = FlipFib(n)]
  /\ UNCHANGED <<state, tx_last_placed, rx_ack_request, txbuffer, timerVars, pc, tx, mtpVars>>

-----------------------------------------------------------------------------
(* alignment_lssu(): an LSSU ends the receive loop of this tick. *)

RxLssu(n, kinds) ==
  /\ RxMsg(n, kinds)
  /\ CheckNack(n)
  /\ pc' = [pc EXCEPT ![n] = "tail"]
  /\ UNCHANGED <<tx_last_placed, rx_ack_request, txbuffer, mtpVars>>

\* The common end: the answer is an LSSU that shows the new state.
Answer(n, st, h) ==
  /\ state' = [state EXCEPT ![n] = st]
  /\ lssu' = [lssu EXCEPT ![n] = h]
  /\ TxMsg(n, Lssu(st, h))

\* A restart of the attempt that forgets the counter of T2 and T3.
ResetT1Only(n) == T1' = [T1 EXCEPT ![n] = 0] /\ UNCHANGED Tsig
ResetT1Tsig(n) == T1' = [T1 EXCEPT ![n] = 0] /\ Tsig' = [Tsig EXCEPT ![n] = 0]

RxSIO(n) ==
  /\ RxLssu(n, {"SIO"})
  /\ \/ /\ Working(n)
        /\ Answer(n, "SIOS", FlipFib(n))
        /\ ResetT1Tsig(n)
        /\ UNCHANGED T4
     \/ /\ state[n] = "SIE"
        /\ Answer(n, "SIE", FlipFib(n))
        /\ T4' = [T4 EXCEPT ![n] = 0]
        /\ UNCHANGED <<T1, Tsig>>
     \/ /\ state[n] = "SIO"
        /\ Answer(n, "SIE", FlipFib(n))
        /\ Tsig' = [Tsig EXCEPT ![n] = 0]
        /\ T4' = [T4 EXCEPT ![n] = 0]
        /\ UNCHANGED T1
     \/ /\ state[n] = "SIOS"
        /\ Answer(n, "SIO", FlipFib(n))
        /\ ResetT1Tsig(n)
        /\ UNCHANGED T4
     \/ /\ state[n] = "SIPO"
        /\ Answer(n, "SIPO", FlipFib(n))
        /\ UNCHANGED timerVars

RxSIE(n) ==
  /\ RxLssu(n, {"SIN", "SIE"})
  /\ \/ /\ state[n] = "SIE" /\ T4[n] >= T4value
        /\ lssu' = [lssu EXCEPT ![n] = FlipFib(n)]
        /\ UNCHANGED <<state, Tsig, tx>>
     \/ /\ state[n] # "SIE" \/ T4[n] < T4value
        /\ Answer(n, "SIE", FlipFib(n))
        /\ Tsig' = [Tsig EXCEPT ![n] = 0]
  /\ UNCHANGED <<T1, T4>>

\* A link in service that does not notice that the far end is out of service.
RxSIOSDeaf(n) ==
  /\ RxLssu(n, {"SIOS"})
  /\ IF Working(n)
     THEN UNCHANGED <<state, lssu, tx, T1, Tsig>>
     ELSE Answer(n, "SIO", Ones) /\ ResetT1Tsig(n)
  /\ UNCHANGED T4

RxSIOS(n) ==
  /\ RxLssu(n, {"SIOS"})
  /\ Answer(n, "SIO", Ones)
  /\ ResetT1Tsig(n)
  /\ UNCHANGED T4

RxOtherLssu(n) ==
  /\ RxLssu(n, {"SIPO", "SIB"})
  /\ Answer(n, "SIOS", Ones)
  /\ UNCHANGED timerVars

-----------------------------------------------------------------------------
(* timer(): the tail, run when the ring is empty or an LSSU was read.      *)
(* rx_msg() leaves errorlevel at 0, so the check_link block never runs.    *)

AtTail(n) == pc[n] = "tail" \/ (pc[n] = "rx" /\ rx[n] = <<>>)

LastStep(n) ==
  /\ AtTail(n)
  /\ pc' = [pc EXCEPT ![n] = "idle"]
  /\ UNCHANGED rx

\* alignment_timer() counts; T4 is only ever compared with T4value, so it is
\* kept from growing beyond it.
Count4(n) == T4' = [T4 EXCEPT ![n] = IF @ < T4value THEN @ + 1 ELSE @]
\* A tick too late.
T1ExpiredLate(n) == T1[n] + 1 > T1value + 1
T1Expired(n) == T1[n] + 1 > T1value
T2Expired(n) == Tsig[n] + 1 >= T2value
T3Expired(n) == Tsig[n] + 1 >= T3value
T4Expired(n) == T4[n] + 1 >= T4value

AlignmentTimer(n) ==
  /\ LastStep(n)
  /\ ~ Working(n)
  /\ Count4(n)
  /\ UNCHANGED <<seqVars, mtpVars>>

Tick(n)        == T1' = [T1 EXCEPT ![n] = @ + 1] /\ Tsig' = [Tsig EXCEPT ![n] = @ + 1]
TickTsig0(n)   == T1' = [T1 EXCEPT ![n] = @ + 1] /\ Tsig' = [Tsig EXCEPT ![n] = 0]

TickT1Expires(n) ==
  /\ AlignmentTimer(n)
  /\ T1Expired(n)
  /\ ResetT1Tsig(n)
  /\ Answer(n, "SIOS", Ones)

TickIdle(n) ==
  /\ AlignmentTimer(n)
  /\ ~ T1Expired(n)
  /\ state[n] = "SIOS"
  /\ Tick(n)
  /\ UNCHANGED <<state, lssu, tx>>

TickNotAligned(n) ==
  /\ AlignmentTimer(n)
  /\ ~ T1Expired(n)
  /\ state[n] = "SIO"
  /\ IF T2Expired(n)
     THEN ResetT1Tsig(n) /\ Answer(n, "SIOS", lssu[n])
     ELSE Tick(n) /\ Answer(n, "SIO", lssu[n])

TickProving(n) ==
  /\ AlignmentTimer(n)
  /\ ~ T1Expired(n)
  /\ state[n] = "SIE"
  /\ \/ /\ T3Expired(n)
        /\ TickTsig0(n)
        /\ Answer(n, "SIO", lssu[n])
     \/ /\ ~ T3Expired(n) /\ T4Expired(n)
        /\ Room(n) > 0                   \* while(!tx_msg(&lssu));
        /\ TickTsig0(n)
        /\ lssu' = [lssu EXCEPT ![n] = Ones]
        /\ TxMsg(n, Fisu(Ones))
        /\ UNCHANGED state
     \/ /\ ~ T3Expired(n) /\ ~ T4Expired(n)
        /\ Tick(n)
        /\ Answer(n, "SIE", lssu[n])

TickStopped(n) ==
  /\ AlignmentTimer(n)
  /\ ~ T1Expired(n)
  /\ state[n] = "SIPO"
  /\ Tick(n)
  /\ Answer(n, "SIPO", lssu[n])

-----------------------------------------------------------------------------
(* timer(): the tail of a working link. *)

Pending(n)   == (tx_last_placed[n] - last_txd[n]) % SeqMod
NextSeqno(n) == (last_txd[n] + 1) % SeqMod
\* A slot that was never filled holds an uninitialised pointer; NoMsu stands
\* for whatever is read through it.
NextMsu(n)   == [kind |-> "MSU",
                 hdr  |-> [lssu[n] EXCEPT !.fsn = NextSeqno(n)],
                 msu  |-> txbuffer[n][NextSeqno(n)]]

\* One pass of the transmit loop; the HDLC layer may empty slots meanwhile.
TxMsu(n) ==
  /\ AtTail(n) \/ pc[n] = "burst"
  /\ Working(n)
  /\ Pending(n) # 0
  /\ Room(n) > 0
  /\ TxMsg(n, NextMsu(n))
  /\ last_txd' = [last_txd EXCEPT ![n] = NextSeqno(n)]
  /\ lssu' = [lssu EXCEPT ![n].fsn = NextSeqno(n)]
  /\ rx_ack_request' = [rx_ack_request EXCEPT ![n] = FALSE]
  /\ pc' = [pc EXCEPT ![n] = IF Pending(n) = 1 THEN "idle" ELSE "burst"]
  /\ UNCHANGED <<state, tx_last_placed, tx_last_ackd, txbuffer, timerVars, rx, mtpVars>>

\* tx_msg() finds no free slot: the rest waits for the next tick.
TxBlocked(n) ==
  /\ AtTail(n) \/ pc[n] = "burst"
  /\ Working(n)
  /\ Pending(n) # 0
  /\ Room(n) = 0
  /\ pc' = [pc EXCEPT ![n] = "idle"]
  /\ UNCHANGED <<state, lssu, seqVars, timerVars, rx, tx, mtpVars>>

\* Nothing is pending: leave BUF_OVERFLOW, and acknowledge with a FISU.
TxNothing(n) ==
  /\ LastStep(n)
  /\ Working(n)
  /\ Pending(n) = 0
  /\ IF state[n] = "BUF_OVERFLOW"
     THEN state' = [state EXCEPT ![n] = "IS"] /\ Announce(n, "LINKRESUME")
     ELSE UNCHANGED <<state, mtpVars>>
  /\ IF rx_ack_request[n]
     THEN /\ TxMsg(n, Fisu(lssu[n]))
          /\ rx_ack_request' = [rx_ack_request EXCEPT ![n] = Room(n) = 0]
     ELSE UNCHANGED <<tx, rx_ack_request>>
  /\ UNCHANGED <<lssu, last_txd, tx_last_placed, tx_last_ackd, txbuffer, timerVars>>

-----------------------------------------------------------------------------
(* event(): the messages MTP3 posts to the link. *)

\* Positions remained, as computed after the message has been placed.
Remained(n) == (tx_last_ackd[n] - tx_last_placed'[n]) % SeqMod

LinkTransfer(n, m) ==
  /\ pc[n] = "idle"
  /\ tx_last_placed' = [tx_last_placed EXCEPT ![n] = (@ + 1) % SeqMod]
  /\ txbuffer' = [txbuffer EXCEPT ![n][tx_last_placed'[n]] = m]
  /\ IF state[n] # "IS"
     THEN Announce(n, "LINKPAUSE") /\ UNCHANGED state
     ELSE IF Remained(n) # 0 /\ Remained(n) < TX_QUEUE_GAP
     THEN Announce(n, "LINKPAUSE") /\ state' = [state EXCEPT ![n] = "BUF_OVERFLOW"]
     ELSE UNCHANGED <<state, mtpVars>>
  /\ UNCHANGED <<lssu, last_txd, tx_last_ackd, rx_ack_request, timerVars, pc, rx, tx>>

LinkStop(n) ==
  /\ pc[n] = "idle"
  /\ Room(n) > 0                         \* while(!tx_msg(&lssu));
  /\ Answer(n, "SIPO", Ones)
  /\ UNCHANGED <<seqVars, timerVars, pc, rx, mtpVars>>

LinkReset(n) ==
  /\ pc[n] = "idle"
  /\ Answer(n, "SIOS", Ones)
  /\ UNCHANGED <<seqVars, timerVars, pc, rx, mtpVars>>

-----------------------------------------------------------------------------
(* External: the HDLC layer on the other side of the rings, and MTP3 taking *)
(* what was posted to it.                                                   *)

HdlcReceives(n, su) ==
  /\ Len(rx[n]) < Slots
  /\ rx' = [rx EXCEPT ![n] = Append(@, su)]
  /\ UNCHANGED <<state, lssu, seqVars, timerVars, pc, tx, mtpVars>>

HdlcTransmits(n) ==
  /\ tx[n] # <<>>
  /\ tx' = [tx EXCEPT ![n] = Tail(@)]
  /\ UNCHANGED <<state, lssu, seqVars, timerVars, pc, rx, mtpVars>>

MtpHandles(n) ==
  /\ toMtp[n] # <<>>
  /\ toMtp' = [toMtp EXCEPT ![n] = Tail(@)]
  /\ UNCHANGED <<state, lssu, seqVars, timerVars, pc, rx, tx, announced>>

-----------------------------------------------------------------------------
(* start(): what a new process finds and sets.  init() takes up the receive *)
(* ring where the old process left it.                                      *)

\* A crash and a restart of the gateway, at a moment when the transmit ring
\* is empty: else the new position disagrees with the HDLC layer's.
Restart(n) ==
  /\ tx[n] = <<>>
  /\ Len(rx[n]) < Slots                \* init() stops at a slot that was read
  /\ state' = [state EXCEPT ![n] = "SIO"]
  /\ lssu' = [lssu EXCEPT ![n] = Ones]
  /\ last_txd' = [last_txd EXCEPT ![n] = 0]
  /\ tx_last_placed' = [tx_last_placed EXCEPT ![n] = SeqMod - 1]
  /\ tx_last_ackd' = [tx_last_ackd EXCEPT ![n] = SeqMod - 1]
  /\ rx_ack_request' = [rx_ack_request EXCEPT ![n] = FALSE]
  /\ txbuffer' = [txbuffer EXCEPT ![n] = [i \in Seqno |-> NoMsu]]
  /\ T1' = [T1 EXCEPT ![n] = T1value - 2]
  /\ Tsig' = [Tsig EXCEPT ![n] = 0]
  /\ T4' = [T4 EXCEPT ![n] = 0]
  /\ pc' = [pc EXCEPT ![n] = "idle"]
  /\ tx' = [tx EXCEPT ![n] = <<Lssu("SIOS", Ones)>>]
  /\ toMtp' = [toMtp EXCEPT ![n] = <<>>]
  /\ announced' = [announced EXCEPT ![n] = "LINKPAUSE"]
  /\ UNCHANGED rx

\* start(): the fields start() does not set are zero (value-initialised).
Init ==
  /\ state = [n \in Links |-> "SIO"]
  /\ lssu = [n \in Links |-> Ones]
  /\ last_txd = [n \in Links |-> 0]
  /\ tx_last_placed = [n \in Links |-> SeqMod - 1]
  /\ tx_last_ackd = [n \in Links |-> SeqMod - 1]
  /\ rx_ack_request = [n \in Links |-> FALSE]
  /\ txbuffer = [n \in Links |-> [i \in Seqno |-> NoMsu]]
  /\ T1 = [n \in Links |-> T1value - 2]
  /\ Tsig = [n \in Links |-> 0]
  /\ T4 = [n \in Links |-> 0]
  /\ pc = [n \in Links |-> "idle"]
  /\ rx = [n \in Links |-> <<>>]
  /\ tx = [n \in Links |-> <<Lssu("SIOS", Ones)>>]
  /\ toMtp = [n \in Links |-> <<>>]
  /\ announced = [n \in Links |-> "LINKPAUSE"]

RxStep(n) ==
  \/ RxMsu(n) \/ RxFisuProven(n) \/ RxFisuIgnored(n)
  \/ RxSIO(n) \/ RxSIE(n) \/ RxSIOS(n) \/ RxOtherLssu(n)

TailStep(n) ==
  \/ TickT1Expires(n) \/ TickIdle(n) \/ TickNotAligned(n) \/ TickProving(n)
  \/ TickStopped(n) \/ TxMsu(n) \/ TxBlocked(n) \/ TxNothing(n)

Handler(n) == Timer(n) \/ RxStep(n) \/ TailStep(n)

\* MTP3 may post anything at any time, the far end may send any SU.
Next == \E n \in Links :
  \/ Handler(n)
  \/ /\ Len(toMtp[n]) < MaxPosted
     /\ \/ \E m \in Msu : LinkTransfer(n, m)
        \/ \E su \in PeerSU : HdlcReceives(n, su)
  \/ LinkStop(n) \/ LinkReset(n) \/ Restart(n)
  \/ HdlcTransmits(n) \/ MtpHandles(n)

Spec == Init /\ [][Next]_linkVars

-----------------------------------------------------------------------------
(* The abstract link that this one implements.                             *)

Service == INSTANCE LinkService WITH
  Content <- Msu \cup {NoMsu},
  service <- [n \in Links |->
                CASE state[n] = "IS" -> "up"
                  [] state[n] = "BUF_OVERFLOW" -> "full"
                  [] OTHER -> "down"]

-----------------------------------------------------------------------------
\* Every variable has its type; the rings never hold more SUs than they have
\* slots, and T1 never passes its limit, so that no alignment attempt
\* outlives T1.
TypeOK ==
  /\ state \in [Links -> LinkState]
  /\ lssu \in [Links -> Header]
  /\ last_txd \in [Links -> Seqno]
  /\ tx_last_placed \in [Links -> Seqno]
  /\ tx_last_ackd \in [Links -> Seqno]
  /\ rx_ack_request \in [Links -> BOOLEAN]
  /\ txbuffer \in [Links -> [Seqno -> Msu \cup {NoMsu}]]
  /\ T1 \in [Links -> 0 .. T1value]
  /\ Tsig \in [Links -> 0 .. T1value]
  /\ T4 \in [Links -> 0 .. T4value]
  /\ pc \in [Links -> {"idle", "rx", "tail", "burst"}]
  /\ rx \in [Links -> Seq(SU)]
  /\ tx \in [Links -> Seq(SU)]
  /\ \A n \in Links : Len(rx[n]) <= Slots /\ Len(tx[n]) <= Slots
  /\ toMtp \in [Links -> Seq(MtpMsg)]
  /\ announced \in [Links -> {"LINKPAUSE", "LINKRESUME"}]

\* The last thing MTP3 was told about a working link is what the link is: a
\* link in service was announced by LINKRESUME, one whose buffer overflows
\* by LINKPAUSE (timer() and event() post on every one of these changes).
ServiceAnnounced == \A n \in Links :
  /\ state[n] = "IS" => announced[n] = "LINKRESUME"
  /\ state[n] = "BUF_OVERFLOW" => announced[n] = "LINKPAUSE"

\* The shared counter of T2 and T3 restarts whenever T1 does, hence it never
\* runs ahead of T1: T1 bounds every phase of the alignment.
TsigWithinT1 == \A n \in Links : Tsig[n] <= T1[n]

\* MTP3 sees nothing but an orderly service: LINKRESUME exactly when the link
\* comes into service or its buffer is free again, LINKPAUSE when it fills up
\* or a message is given to a link that cannot send it, and received messages
\* only from a working link.
ImplementsService == Service!Spec

\* The proving period: T4 starts when the link enters it (T4value is 500 ms
\* by ss7linkvalues.h:20).
ProvingStartsAfresh ==
  [][\A n \in Links : state[n] # "SIE" /\ state'[n] = "SIE" => T4'[n] = 0]_linkVars
=============================================================================
