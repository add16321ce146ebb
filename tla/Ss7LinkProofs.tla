--------------------------- MODULE Ss7LinkProofs ---------------------------
(***************************************************************************)
(* Proofs about Ss7Link, for every set of links, every modulus, ring size  *)
(* and timer value that satisfy its assumptions, and every far end.        *)
(***************************************************************************)
EXTENDS Ss7Link, TLAPS

\* Sequence numbers stay below the modulus.
LEMMA SeqnoMod == \A x \in Int : x % SeqMod \in Seqno
  BY SeqAssumption DEF Seqno

\* The headers and the SUs that a link builds are well formed.
LEMMA OnesHeader == Ones \in Header
  BY SeqAssumption DEF Ones, Header, Seqno, Bit

LEMMA BuiltSU ==
  ASSUME NEW h \in Header
  PROVE  /\ Fisu(h) \in SU
         /\ \A st \in LssuKind : Lssu(st, h) \in SU
  BY DEF Fisu, Lssu, SU, LssuKind

LEMMA HeaderFields ==
  ASSUME NEW h \in Header, NEW s \in Seqno
  PROVE  /\ h.bsn \in Seqno /\ h.fsn \in Seqno /\ h.bib \in Bit /\ h.fib \in Bit
         /\ [h EXCEPT !.bsn = s] \in Header
         /\ [h EXCEPT !.fsn = s] \in Header
         /\ [h EXCEPT !.fib = 1 - @] \in Header
         /\ \A bit \in Bit : [h EXCEPT !.bib = 1 - bit] \in Header
  BY DEF Header, Bit

-----------------------------------------------------------------------------
(* What the pieces that the actions are built from do to the types. *)

LEMMA TxMsgType ==
  ASSUME TypeOK, NEW n \in Links, NEW su \in SU, TxMsg(n, su)
  PROVE  tx' \in [Links -> Seq(SU)] /\ \A k \in Links : Len(tx'[k]) <= Slots
  BY SlotsAssumption DEF TypeOK, TxMsg, Room

LEMMA PostType ==
  ASSUME TypeOK, NEW n \in Links, NEW m \in MtpMsg, Post(n, m)
  PROVE  toMtp' \in [Links -> Seq(MtpMsg)]
  BY DEF TypeOK, Post

LEMMA AnnounceType ==
  ASSUME TypeOK, NEW n \in Links, NEW m \in {"LINKPAUSE", "LINKRESUME"}, Announce(n, m)
  PROVE  /\ toMtp' \in [Links -> Seq(MtpMsg)]
         /\ announced' \in [Links -> {"LINKPAUSE", "LINKRESUME"}]
<1>1. [msg |-> m, param |-> NoMsu] \in MtpMsg
  BY DEF MtpMsg
<1>2. QED
  BY <1>1, PostType DEF TypeOK, Announce

LEMMA RxMsgType ==
  ASSUME TypeOK, NEW n \in Links, NEW kinds, RxMsg(n, kinds)
  PROVE  /\ Su(n) \in SU
         /\ Su(n).hdr \in Header
         /\ rx' \in [Links -> Seq(SU)]
         /\ \A k \in Links : Len(rx'[k]) <= Slots
         /\ tx_last_ackd' \in [Links -> Seqno]
<1>1. rx[n] \in Seq(SU) /\ rx[n] # <<>>
  BY DEF TypeOK, RxMsg
<1>2. Su(n) \in SU
  BY <1>1 DEF Su
<1>3. Su(n).hdr \in Header
  BY <1>2 DEF SU
<1>4. rx' \in [Links -> Seq(SU)] /\ \A k \in Links : Len(rx'[k]) <= Slots
  <2>1. Tail(rx[n]) \in Seq(SU) /\ Len(Tail(rx[n])) <= Slots
    BY <1>1, SlotsAssumption DEF TypeOK
  <2>2. rx' = [rx EXCEPT ![n] = Tail(rx[n])]
    BY DEF RxMsg
  <2>3. QED
    BY <2>1, <2>2 DEF TypeOK
<1>5. tx_last_ackd' \in [Links -> Seqno]
  BY <1>3, HeaderFields DEF TypeOK, RxMsg
<1>6. QED
  BY <1>2, <1>3, <1>4, <1>5

LEMMA NackType ==
  ASSUME TypeOK, NEW n \in Links, Su(n).hdr \in Header, CheckNack(n)
  PROVE  last_txd' \in [Links -> Seqno] /\ FlipFib(n) \in Header
<1>1. Su(n).hdr.bsn \in Seqno /\ lssu[n] \in Header
  BY HeaderFields, SeqAssumption DEF TypeOK, Seqno
<1>2. last_txd \in [Links -> Seqno]
  BY DEF TypeOK
<1>3. last_txd' \in [Links -> Seqno]
  BY <1>1, <1>2 DEF CheckNack
<1>4. [lssu[n] EXCEPT !.fib = 1 - @] \in Header
  BY <1>1, HeaderFields DEF Header
<1>5. QED
  BY <1>1, <1>3, <1>4, Zenon DEF FlipFib

LEMMA AnswerType ==
  ASSUME TypeOK, NEW n \in Links, NEW st \in LinkState \ {"IS", "BUF_OVERFLOW"},
         NEW h \in Header, Answer(n, st, h)
  PROVE  /\ state' \in [Links -> LinkState]
         /\ lssu' \in [Links -> Header]
         /\ tx' \in [Links -> Seq(SU)]
         /\ \A k \in Links : Len(tx'[k]) <= Slots
<1>1. Lssu(st, h) \in SU
  BY BuiltSU DEF LinkState, LssuKind
<1>2. QED
  BY <1>1, TxMsgType DEF TypeOK, Answer

LEMMA ResetType ==
  ASSUME TypeOK, TsigWithinT1, NEW n \in Links, ResetT1Tsig(n)
  PROVE  /\ T1' \in [Links -> 0 .. T1value] /\ Tsig' \in [Links -> 0 .. T1value]
         /\ TsigWithinT1'
  BY TimerAssumption DEF TypeOK, TsigWithinT1, ResetT1Tsig

LEMMA TsigType ==
  ASSUME TypeOK, TsigWithinT1, NEW n \in Links, UNCHANGED T1, Tsig' = [Tsig EXCEPT ![n] = 0]
  PROVE  Tsig' \in [Links -> 0 .. T1value] /\ TsigWithinT1'
  BY TimerAssumption DEF TypeOK, TsigWithinT1

LEMMA Count4Type ==
  ASSUME TypeOK, NEW n \in Links, Count4(n)
  PROVE  T4' \in [Links -> 0 .. T4value]
  BY TimerAssumption DEF TypeOK, Count4

\* Between two ticks T1 and the counter of T2 and T3 grow by at most one, and
\* only while T1 has not expired.
LEMMA TickType ==
  ASSUME TypeOK, TsigWithinT1, NEW n \in Links, ~ T1Expired(n), Tick(n) \/ TickTsig0(n)
  PROVE  /\ T1' \in [Links -> 0 .. T1value] /\ Tsig' \in [Links -> 0 .. T1value]
         /\ TsigWithinT1'
<1>1. T1[n] \in 0 .. T1value /\ Tsig[n] \in 0 .. T1value /\ Tsig[n] <= T1[n]
  BY DEF TypeOK, TsigWithinT1
<1>2. T1[n] + 1 \in 0 .. T1value /\ Tsig[n] + 1 \in 0 .. T1value /\ 0 \in 0 .. T1value
  BY <1>1, TimerAssumption DEF T1Expired
<1>3. CASE Tick(n)
  BY <1>1, <1>2, <1>3 DEF TypeOK, TsigWithinT1, Tick
<1>4. CASE TickTsig0(n)
  BY <1>1, <1>2, <1>4 DEF TypeOK, TsigWithinT1, TickTsig0
<1>5. QED
  BY <1>3, <1>4

-----------------------------------------------------------------------------
(* TypeOK and TsigWithinT1 are inductive together: that T1 bounds the       *)
(* counter of T2 and T3 is what keeps that counter in its type.             *)

TimersOK == TypeOK /\ TsigWithinT1

LEMMA InitTimersOK == Init => TimersOK
<1> SUFFICES ASSUME Init PROVE TimersOK
  OBVIOUS
<1>1. Lssu("SIOS", Ones) \in SU
  BY OnesHeader, BuiltSU DEF LssuKind
<1>2. tx \in [Links -> Seq(SU)] /\ \A n \in Links : Len(tx[n]) <= Slots
  BY <1>1, SlotsAssumption DEF Init
<1>3. rx \in [Links -> Seq(SU)] /\ \A n \in Links : Len(rx[n]) <= Slots
  BY SlotsAssumption DEF Init
<1>4. 0 \in Seqno /\ SeqMod - 1 \in Seqno
  BY SeqAssumption DEF Seqno
<1>5. T1 \in [Links -> 0 .. T1value] /\ Tsig \in [Links -> 0 .. T1value]
      /\ T4 \in [Links -> 0 .. T4value] /\ TsigWithinT1
  BY TimerAssumption DEF Init, TsigWithinT1
<1>6. QED
  BY <1>2, <1>3, <1>4, <1>5, OnesHeader DEF Init, TimersOK, TypeOK, LinkState

LEMMA RxMsuTimersOK ==
  ASSUME TimersOK, NEW n \in Links, RxMsu(n)
  PROVE  TimersOK'
<1>1. RxMsg(n, {"MSU"}) /\ CheckNack(n) /\ TypeOK
  BY DEF RxMsu, TimersOK
<1>2. /\ Su(n) \in SU
      /\ Su(n).hdr \in Header
      /\ rx' \in [Links -> Seq(SU)]
      /\ \A k \in Links : Len(rx'[k]) <= Slots
      /\ tx_last_ackd' \in [Links -> Seqno]
  BY <1>1, RxMsgType
<1>3. last_txd' \in [Links -> Seqno] /\ FlipFib(n) \in Header
  BY <1>1, <1>2, NackType
<1>4. rx_ack_request' \in [Links -> BOOLEAN]
  BY <1>1 DEF RxMsu, TypeOK, OweAck
<1>5. lssu' \in [Links -> Header]
  <2>1. /\ [FlipFib(n) EXCEPT !.bsn = Su(n).hdr.fsn] \in Header
        /\ [FlipFib(n) EXCEPT !.bib = 1 - Su(n).hdr.fib] \in Header
    BY <1>2, <1>3, HeaderFields
  <2>2. \E h \in Header : lssu' = [lssu EXCEPT ![n] = h]
    BY <1>3, <2>1 DEF RxMsu
  <2>3. QED
    BY <1>1, <2>2 DEF TypeOK
<1>6. toMtp' \in [Links -> Seq(MtpMsg)]
  <2>1. Su(n).msu \in Msu \cup {NoMsu}
    BY <1>2 DEF SU
  <2>2. [msg |-> "LINKTRANSFER", param |-> Su(n).msu] \in MtpMsg
    BY <2>1 DEF MtpMsg
  <2>3. QED
    BY <1>1, <2>2, PostType DEF RxMsu, TypeOK
<1>7. QED
  BY <1>1, <1>2, <1>3, <1>4, <1>5, <1>6
  DEF RxMsu, TimersOK, TypeOK, TsigWithinT1, timerVars

LEMMA RxFisuTimersOK ==
  ASSUME TimersOK, NEW n \in Links, RxFisuProven(n) \/ RxFisuIgnored(n)
  PROVE  TimersOK'
<1>1. RxMsg(n, {"FISU"}) /\ TypeOK /\ SeqMod - 1 \in Seqno
  BY SeqAssumption DEF RxFisuProven, RxFisuIgnored, TimersOK, Seqno
<1>2. /\ Su(n).hdr \in Header
      /\ rx' \in [Links -> Seq(SU)]
      /\ \A k \in Links : Len(rx'[k]) <= Slots
      /\ tx_last_ackd' \in [Links -> Seqno]
  BY <1>1, RxMsgType
<1>3. CASE RxFisuProven(n)
  <2>1. tx' \in [Links -> Seq(SU)] /\ \A k \in Links : Len(tx'[k]) <= Slots
    BY <1>1, <1>3, OnesHeader, BuiltSU, TxMsgType DEF RxFisuProven
  <2>2. /\ toMtp' \in [Links -> Seq(MtpMsg)]
        /\ announced' \in [Links -> {"LINKPAUSE", "LINKRESUME"}]
    BY <1>1, <1>3, AnnounceType DEF RxFisuProven
  <2>3. rx_ack_request' \in [Links -> BOOLEAN]
    <3>1. (rx_ack_request[n] \/ Su(n).hdr # Ones) \in BOOLEAN
      OBVIOUS
    <3>2. QED
      BY <1>1, <1>3, <3>1 DEF RxFisuProven, TypeOK
  <2>4. QED
    BY <1>1, <1>2, <1>3, <2>1, <2>2, <2>3, OnesHeader
    DEF RxFisuProven, TimersOK, TypeOK, TsigWithinT1, timerVars, LinkState
<1>4. CASE RxFisuIgnored(n)
  <2>1. last_txd' \in [Links -> Seqno] /\ FlipFib(n) \in Header
    BY <1>1, <1>2, <1>4, NackType DEF RxFisuIgnored
  <2>2. QED
    BY <1>1, <1>2, <1>4, <2>1
    DEF RxFisuIgnored, TimersOK, TypeOK, TsigWithinT1, timerVars, mtpVars
<1>5. QED
  BY <1>3, <1>4

\* What every LSSU does, whatever the answer.
LEMMA RxLssuType ==
  ASSUME TimersOK, NEW n \in Links, NEW kinds, RxLssu(n, kinds)
  PROVE  /\ rx' \in [Links -> Seq(SU)]
         /\ \A k \in Links : Len(rx'[k]) <= Slots
         /\ tx_last_ackd' \in [Links -> Seqno]
         /\ last_txd' \in [Links -> Seqno]
         /\ FlipFib(n) \in Header
         /\ pc' \in [Links -> {"idle", "rx", "tail", "burst"}]
         /\ UNCHANGED <<tx_last_placed, rx_ack_request, txbuffer, toMtp, announced>>
<1>1. RxMsg(n, kinds) /\ CheckNack(n) /\ TypeOK
  BY DEF RxLssu, TimersOK
<1>2. /\ Su(n).hdr \in Header
      /\ rx' \in [Links -> Seq(SU)]
      /\ \A k \in Links : Len(rx'[k]) <= Slots
      /\ tx_last_ackd' \in [Links -> Seqno]
  BY <1>1, RxMsgType
<1>3. last_txd' \in [Links -> Seqno] /\ FlipFib(n) \in Header
  BY <1>1, <1>2, NackType
<1>4. QED
  BY <1>1, <1>2, <1>3 DEF RxLssu, TypeOK, mtpVars

\* An LSSU that is answered keeps the types if its timers do.
LEMMA LssuAnswered ==
  ASSUME TimersOK, NEW n \in Links, NEW kinds, RxLssu(n, kinds),
         NEW st \in LinkState \ {"IS", "BUF_OVERFLOW"}, NEW h \in Header, Answer(n, st, h),
         T1' \in [Links -> 0 .. T1value], Tsig' \in [Links -> 0 .. T1value],
         T4' \in [Links -> 0 .. T4value], TsigWithinT1'
  PROVE  TimersOK'
<1>1. /\ state' \in [Links -> LinkState]
      /\ lssu' \in [Links -> Header]
      /\ tx' \in [Links -> Seq(SU)]
      /\ \A k \in Links : Len(tx'[k]) <= Slots
  BY AnswerType DEF TimersOK
<1>2. QED
  BY <1>1, RxLssuType DEF TimersOK, TypeOK

LEMMA RxSIOTimersOK ==
  ASSUME TimersOK, NEW n \in Links, RxSIO(n)
  PROVE  TimersOK'
<1>1. RxLssu(n, {"SIO"}) /\ FlipFib(n) \in Header
  BY RxLssuType DEF RxSIO
<1>2. TypeOK /\ TsigWithinT1 /\ 0 \in 0 .. T4value
  BY TimerAssumption DEF TimersOK
<1>3. CASE Answer(n, "SIOS", FlipFib(n)) /\ ResetT1Tsig(n) /\ UNCHANGED T4
  BY <1>1, <1>2, <1>3, ResetType, LssuAnswered DEF TypeOK, LinkState
<1>4. CASE Answer(n, "SIE", FlipFib(n)) /\ T4' = [T4 EXCEPT ![n] = 0]
             /\ UNCHANGED <<T1, Tsig>>
  <2>1. TsigWithinT1' /\ T4' \in [Links -> 0 .. T4value]
    BY <1>2, <1>4 DEF TsigWithinT1, TypeOK
  <2>2. QED
    BY <1>1, <1>2, <1>4, <2>1, LssuAnswered DEF TypeOK, LinkState
<1>5. CASE Answer(n, "SIE", FlipFib(n)) /\ Tsig' = [Tsig EXCEPT ![n] = 0]
             /\ T4' = [T4 EXCEPT ![n] = 0] /\ UNCHANGED T1
  <2>1. T4' \in [Links -> 0 .. T4value]
    BY <1>2, <1>5 DEF TypeOK
  <2>2. QED
    BY <1>1, <1>2, <1>5, <2>1, TsigType, LssuAnswered DEF TypeOK, LinkState
<1>6. CASE Answer(n, "SIO", FlipFib(n)) /\ ResetT1Tsig(n) /\ UNCHANGED T4
  BY <1>1, <1>2, <1>6, ResetType, LssuAnswered DEF TypeOK, LinkState
<1>7. CASE Answer(n, "SIPO", FlipFib(n)) /\ UNCHANGED timerVars
  <2>1. TsigWithinT1'
    BY <1>2, <1>7 DEF TsigWithinT1, timerVars
  <2>2. QED
    BY <1>1, <1>2, <1>7, <2>1, LssuAnswered DEF TypeOK, LinkState, timerVars
<1>8. QED
  BY <1>3, <1>4, <1>5, <1>6, <1>7 DEF RxSIO

LEMMA RxSIETimersOK ==
  ASSUME TimersOK, NEW n \in Links, RxSIE(n)
  PROVE  TimersOK'
<1>1. RxLssu(n, {"SIN", "SIE"}) /\ FlipFib(n) \in Header /\ UNCHANGED <<T1, T4>>
  BY RxLssuType DEF RxSIE
<1>2. TypeOK /\ TsigWithinT1
  BY DEF TimersOK
<1>3. CASE Answer(n, "SIE", FlipFib(n)) /\ Tsig' = [Tsig EXCEPT ![n] = 0]
  BY <1>1, <1>2, <1>3, TsigType, LssuAnswered DEF TypeOK, LinkState
<1>4. CASE lssu' = [lssu EXCEPT ![n] = FlipFib(n)] /\ UNCHANGED <<state, Tsig, tx>>
  BY <1>1, <1>2, <1>4, RxLssuType DEF TimersOK, TypeOK, TsigWithinT1
<1>5. QED
  BY <1>3, <1>4 DEF RxSIE

LEMMA RxOtherTimersOK ==
  ASSUME TimersOK, NEW n \in Links, RxSIOS(n) \/ RxOtherLssu(n)
  PROVE  TimersOK'
<1>1. TypeOK /\ TsigWithinT1
  BY DEF TimersOK
<1>2. CASE RxSIOS(n)
  BY <1>1, <1>2, OnesHeader, ResetType, LssuAnswered DEF RxSIOS, TypeOK, LinkState
<1>3. CASE RxOtherLssu(n)
  <2>1. TsigWithinT1'
    BY <1>1, <1>3 DEF RxOtherLssu, TsigWithinT1, timerVars
  <2>2. QED
    BY <1>1, <1>3, <2>1, OnesHeader, LssuAnswered
    DEF RxOtherLssu, TypeOK, LinkState, timerVars
<1>4. QED
  BY <1>2, <1>3

\* What a tick of alignment_timer() leaves alone.
LEMMA AlignmentTimerType ==
  ASSUME TimersOK, NEW n \in Links, AlignmentTimer(n)
  PROVE  /\ T4' \in [Links -> 0 .. T4value]
         /\ pc' \in [Links -> {"idle", "rx", "tail", "burst"}]
         /\ UNCHANGED <<rx, last_txd, tx_last_placed, tx_last_ackd, rx_ack_request,
                        txbuffer, toMtp, announced>>
  BY Count4Type DEF AlignmentTimer, LastStep, TimersOK, TypeOK, seqVars, mtpVars

LEMMA TickAnswered ==
  ASSUME TimersOK, NEW n \in Links, AlignmentTimer(n),
         NEW st \in LinkState \ {"IS", "BUF_OVERFLOW"}, NEW h \in Header, Answer(n, st, h),
         T1' \in [Links -> 0 .. T1value], Tsig' \in [Links -> 0 .. T1value], TsigWithinT1'
  PROVE  TimersOK'
<1>1. /\ state' \in [Links -> LinkState]
      /\ lssu' \in [Links -> Header]
      /\ tx' \in [Links -> Seq(SU)]
      /\ \A k \in Links : Len(tx'[k]) <= Slots
  BY AnswerType DEF TimersOK
<1>2. QED
  BY <1>1, AlignmentTimerType DEF TimersOK, TypeOK

LEMMA AlignmentTimersOK ==
  ASSUME TimersOK, NEW n \in Links,
         \/ TickT1Expires(n) \/ TickIdle(n) \/ TickNotAligned(n)
         \/ TickProving(n) \/ TickStopped(n)
  PROVE  TimersOK'
<1>1. TypeOK /\ TsigWithinT1 /\ lssu[n] \in Header
  BY DEF TimersOK, TypeOK
<1>2. CASE TickT1Expires(n)
  BY <1>1, <1>2, OnesHeader, ResetType, TickAnswered DEF TickT1Expires, LinkState
<1>3. CASE TickIdle(n)
  <2>1. AlignmentTimer(n) /\ UNCHANGED <<state, lssu, tx>>
        /\ T1' \in [Links -> 0 .. T1value] /\ Tsig' \in [Links -> 0 .. T1value]
        /\ TsigWithinT1'
    BY <1>1, <1>3, TickType DEF TickIdle
  <2>2. QED
    BY <1>1, <2>1, AlignmentTimerType DEF TimersOK, TypeOK
<1>4. CASE TickNotAligned(n)
  <2>1. CASE ResetT1Tsig(n) /\ Answer(n, "SIOS", lssu[n])
    BY <1>1, <1>4, <2>1, ResetType, TickAnswered DEF TickNotAligned, LinkState
  <2>2. CASE Tick(n) /\ Answer(n, "SIO", lssu[n])
    BY <1>1, <1>4, <2>2, TickType, TickAnswered DEF TickNotAligned, LinkState
  <2>3. QED
    BY <1>4, <2>1, <2>2 DEF TickNotAligned
<1>5. CASE TickProving(n)
  <2>1. CASE TickTsig0(n) /\ Answer(n, "SIO", lssu[n])
    BY <1>1, <1>5, <2>1, TickType, TickAnswered DEF TickProving, LinkState
  <2>2. CASE TickTsig0(n) /\ lssu' = [lssu EXCEPT ![n] = Ones]
             /\ TxMsg(n, Fisu(Ones)) /\ UNCHANGED state
    <3>1. tx' \in [Links -> Seq(SU)] /\ \A k \in Links : Len(tx'[k]) <= Slots
      BY <1>1, <2>2, OnesHeader, BuiltSU, TxMsgType
    <3>2. AlignmentTimer(n)
          /\ T1' \in [Links -> 0 .. T1value] /\ Tsig' \in [Links -> 0 .. T1value]
          /\ TsigWithinT1'
      BY <1>1, <1>5, <2>2, TickType DEF TickProving
    <3>3. QED
      BY <1>1, <2>2, <3>1, <3>2, OnesHeader, AlignmentTimerType DEF TimersOK, TypeOK
  <2>3. CASE Tick(n) /\ Answer(n, "SIE", lssu[n])
    BY <1>1, <1>5, <2>3, TickType, TickAnswered DEF TickProving, LinkState
  <2>4. QED
    BY <1>5, <2>1, <2>2, <2>3 DEF TickProving
<1>6. CASE TickStopped(n)
  BY <1>1, <1>6, TickType, TickAnswered DEF TickStopped, LinkState
<1>7. QED
  BY <1>2, <1>3, <1>4, <1>5, <1>6

LEMMA TransmitTimersOK ==
  ASSUME TimersOK, NEW n \in Links, TxMsu(n) \/ TxBlocked(n) \/ TxNothing(n)
  PROVE  TimersOK'
<1>1. TypeOK /\ lssu[n] \in Header
  BY DEF TimersOK, TypeOK
<1>2. CASE TxMsu(n)
  <2>1. NextSeqno(n) \in Seqno
    <3>1. last_txd[n] + 1 \in Int
      BY <1>1, SeqAssumption DEF TypeOK, Seqno
    <3>2. QED
      BY <3>1, SeqnoMod DEF NextSeqno
  <2>2. NextMsu(n) \in SU
    <3>1. [lssu[n] EXCEPT !.fsn = NextSeqno(n)] \in Header
      BY <1>1, <2>1, HeaderFields
    <3>2. txbuffer[n][NextSeqno(n)] \in Msu \cup {NoMsu}
      BY <1>1, <2>1 DEF TypeOK
    <3>3. QED
      BY <3>1, <3>2 DEF NextMsu, SU
  <2>3. tx' \in [Links -> Seq(SU)] /\ \A k \in Links : Len(tx'[k]) <= Slots
    BY <1>1, <1>2, <2>2, TxMsgType DEF TxMsu
  <2>4. lssu' \in [Links -> Header]
    <3>1. lssu' = [lssu EXCEPT ![n] = [lssu[n] EXCEPT !.fsn = NextSeqno(n)]]
      BY <1>2 DEF TxMsu
    <3>2. QED
      BY <1>1, <2>1, <3>1, HeaderFields DEF TypeOK
  <2>5. QED
    BY <1>1, <1>2, <2>1, <2>3, <2>4
    DEF TxMsu, TimersOK, TypeOK, TsigWithinT1, timerVars, mtpVars
<1>3. CASE TxBlocked(n)
  BY <1>1, <1>3
  DEF TxBlocked, TimersOK, TypeOK, TsigWithinT1, seqVars, timerVars, mtpVars
<1>4. CASE TxNothing(n)
  <2>1. /\ state' \in [Links -> LinkState]
        /\ toMtp' \in [Links -> Seq(MtpMsg)]
        /\ announced' \in [Links -> {"LINKPAUSE", "LINKRESUME"}]
    BY <1>1, <1>4, AnnounceType DEF TxNothing, TypeOK, mtpVars, LinkState
  <2>2. Fisu(lssu[n]) \in SU
    BY <1>1, BuiltSU
  <2>3. tx' \in [Links -> Seq(SU)] /\ \A k \in Links : Len(tx'[k]) <= Slots
    BY <1>1, <1>4, <2>2, TxMsgType DEF TxNothing, TypeOK
  <2>4. rx_ack_request' \in [Links -> BOOLEAN]
    BY <1>1, <1>4 DEF TxNothing, TypeOK
  <2>5. QED
    BY <1>1, <1>4, <2>1, <2>3, <2>4
    DEF TxNothing, LastStep, TimersOK, TypeOK, TsigWithinT1, timerVars
<1>5. QED
  BY <1>2, <1>3, <1>4

\* event(): the message goes into txbuffer at a position that exists.
LEMMA LinkTransferTimersOK ==
  ASSUME TimersOK, NEW n \in Links, NEW m \in Msu, LinkTransfer(n, m)
  PROVE  TimersOK'
<1>1. TypeOK
  BY DEF TimersOK
<1>2. tx_last_placed' \in [Links -> Seqno]
  <2>1. tx_last_placed[n] + 1 \in Int
    BY <1>1, SeqAssumption DEF TypeOK, Seqno
  <2>2. (tx_last_placed[n] + 1) % SeqMod \in Seqno
    BY <2>1, SeqnoMod
  <2>3. QED
    BY <1>1, <2>2 DEF LinkTransfer, TypeOK
<1>3. txbuffer' \in [Links -> [Seqno -> Msu \cup {NoMsu}]]
  <2>1. tx_last_placed'[n] \in Seqno
    BY <1>2
  <2>2. [txbuffer[n] EXCEPT ![tx_last_placed'[n]] = m] \in [Seqno -> Msu \cup {NoMsu}]
    BY <1>1, <2>1 DEF TypeOK
  <2>3. QED
    BY <1>1, <2>2 DEF LinkTransfer, TypeOK
<1>4. /\ state' \in [Links -> LinkState]
      /\ toMtp' \in [Links -> Seq(MtpMsg)]
      /\ announced' \in [Links -> {"LINKPAUSE", "LINKRESUME"}]
  BY <1>1, AnnounceType DEF LinkTransfer, TypeOK, mtpVars, LinkState
<1>5. QED
  BY <1>1, <1>2, <1>3, <1>4
  DEF LinkTransfer, TimersOK, TypeOK, TsigWithinT1, timerVars

LEMMA StoppedTimersOK ==
  ASSUME TimersOK, NEW n \in Links, LinkStop(n) \/ LinkReset(n)
  PROVE  TimersOK'
<1>1. TypeOK
  BY DEF TimersOK
<1>2. PICK st \in {"SIPO", "SIOS"} : Answer(n, st, Ones)
  BY DEF LinkStop, LinkReset
<1>3. /\ state' \in [Links -> LinkState]
      /\ lssu' \in [Links -> Header]
      /\ tx' \in [Links -> Seq(SU)]
      /\ \A k \in Links : Len(tx'[k]) <= Slots
  BY <1>1, <1>2, OnesHeader, AnswerType DEF LinkState
<1>4. UNCHANGED <<seqVars, timerVars, pc, rx, mtpVars>>
  BY DEF LinkStop, LinkReset
<1>5. QED
  BY <1>1, <1>3, <1>4 DEF TimersOK, TypeOK, TsigWithinT1, seqVars, timerVars, mtpVars

LEMMA RestartTimersOK ==
  ASSUME TimersOK, NEW n \in Links, Restart(n)
  PROVE  TimersOK'
<1>1. TypeOK /\ TsigWithinT1
  BY DEF TimersOK
<1>2. tx' \in [Links -> Seq(SU)] /\ \A k \in Links : Len(tx'[k]) <= Slots
  <2>1. Lssu("SIOS", Ones) \in SU
    BY OnesHeader, BuiltSU DEF LssuKind
  <2>2. <<Lssu("SIOS", Ones)>> \in Seq(SU) /\ Len(<<Lssu("SIOS", Ones)>>) <= Slots
    BY <2>1, SlotsAssumption
  <2>3. QED
    BY <1>1, <2>2 DEF Restart, TypeOK
<1>3. 0 \in Seqno /\ SeqMod - 1 \in Seqno
  BY SeqAssumption DEF Seqno
<1>4. /\ T1' \in [Links -> 0 .. T1value] /\ Tsig' \in [Links -> 0 .. T1value]
      /\ T4' \in [Links -> 0 .. T4value] /\ TsigWithinT1'
  BY <1>1, TimerAssumption DEF Restart, TypeOK, TsigWithinT1
<1>5. toMtp' \in [Links -> Seq(MtpMsg)]
  BY <1>1 DEF Restart, TypeOK
<1>6. txbuffer' \in [Links -> [Seqno -> Msu \cup {NoMsu}]]
  BY <1>1 DEF Restart, TypeOK
<1>7. QED
  BY <1>1, <1>2, <1>3, <1>4, <1>5, <1>6, OnesHeader DEF Restart, TimersOK, TypeOK, LinkState

LEMMA EnvironmentTimersOK ==
  ASSUME TimersOK, NEW n \in Links,
         Timer(n) \/ HdlcTransmits(n) \/ MtpHandles(n) \/ \E su \in PeerSU : HdlcReceives(n, su)
  PROVE  TimersOK'
<1>1. TypeOK
  BY DEF TimersOK
<1>2. CASE Timer(n)
  BY <1>1, <1>2 DEF Timer, TimersOK, TypeOK, TsigWithinT1, seqVars, timerVars, mtpVars
<1>3. CASE HdlcTransmits(n)
  <2>1. Tail(tx[n]) \in Seq(SU) /\ Len(Tail(tx[n])) <= Slots
    BY <1>1, <1>3, SlotsAssumption DEF TypeOK, HdlcTransmits
  <2>2. tx' \in [Links -> Seq(SU)] /\ \A k \in Links : Len(tx'[k]) <= Slots
    BY <1>1, <1>3, <2>1 DEF TypeOK, HdlcTransmits
  <2>3. QED
    BY <1>1, <1>3, <2>2
    DEF HdlcTransmits, TimersOK, TypeOK, TsigWithinT1, seqVars, timerVars, mtpVars
<1>4. CASE MtpHandles(n)
  <2>1. Tail(toMtp[n]) \in Seq(MtpMsg)
    BY <1>1, <1>4 DEF TypeOK, MtpHandles
  <2>2. QED
    BY <1>1, <1>4, <2>1
    DEF MtpHandles, TimersOK, TypeOK, TsigWithinT1, seqVars, timerVars
<1>5. CASE \E su \in PeerSU : HdlcReceives(n, su)
  <2>1. PICK su \in SU : HdlcReceives(n, su)
    BY <1>5, PeerAssumption
  <2>2. Append(rx[n], su) \in Seq(SU) /\ Len(Append(rx[n], su)) <= Slots
    BY <1>1, <2>1, SlotsAssumption DEF TypeOK, HdlcReceives
  <2>3. rx' \in [Links -> Seq(SU)] /\ \A k \in Links : Len(rx'[k]) <= Slots
    BY <1>1, <2>1, <2>2 DEF TypeOK, HdlcReceives
  <2>4. QED
    BY <1>1, <2>1, <2>3
    DEF HdlcReceives, TimersOK, TypeOK, TsigWithinT1, seqVars, timerVars, mtpVars
<1>6. QED
  BY <1>2, <1>3, <1>4, <1>5

LEMMA NextTimersOK == TimersOK /\ [Next]_linkVars => TimersOK'
<1> SUFFICES ASSUME TimersOK, [Next]_linkVars PROVE TimersOK'
  OBVIOUS
<1>1. CASE UNCHANGED linkVars
  BY <1>1 DEF TimersOK, TypeOK, TsigWithinT1, linkVars, seqVars, timerVars, mtpVars
<1>2. ASSUME NEW n \in Links, Handler(n) PROVE TimersOK'
  BY <1>2, RxMsuTimersOK, RxFisuTimersOK, RxSIOTimersOK, RxSIETimersOK, RxOtherTimersOK,
     AlignmentTimersOK, TransmitTimersOK, EnvironmentTimersOK
  DEF Handler, RxStep, TailStep
<1>3. ASSUME NEW n \in Links, NEW m \in Msu, LinkTransfer(n, m) PROVE TimersOK'
  BY <1>3, LinkTransferTimersOK
<1>4. ASSUME NEW n \in Links, LinkStop(n) \/ LinkReset(n) \/ Restart(n) PROVE TimersOK'
  BY <1>4, StoppedTimersOK, RestartTimersOK
<1>5. ASSUME NEW n \in Links,
             HdlcTransmits(n) \/ MtpHandles(n) \/ \E su \in PeerSU : HdlcReceives(n, su)
      PROVE  TimersOK'
  BY <1>5, EnvironmentTimersOK
<1>6. QED
  BY <1>1, <1>2, <1>3, <1>4, <1>5 DEF Next

\* The counter of T2 and T3 never runs ahead of T1, whatever the far end sends
\* and whatever the timer values are.
THEOREM TsigWithinT1Always == Spec => []TsigWithinT1
<1>1. TimersOK => TsigWithinT1
  BY DEF TimersOK
<1>2. QED
  BY <1>1, InitTimersOK, NextTimersOK, PTL DEF Spec

\* Every variable keeps its type; in particular the rings are never overfilled,
\* every sequence number stays below the modulus and T1 within its limit.
THEOREM TypeCorrect == Spec => []TypeOK
<1>1. TimersOK => TypeOK
  BY DEF TimersOK
<1>2. QED
  BY <1>1, InitTimersOK, NextTimersOK, PTL DEF Spec

-----------------------------------------------------------------------------
(* ServiceAnnounced is inductive given the types: an action that changes    *)
(* whether a link works either announces the change or takes the link out   *)
(* of service, where nothing is claimed.                                    *)

\* A step that leaves link n out of service, or as it was, and the other
\* links alone keeps what was announced about all of them.
LEMMA OutOfServiceAnnounced ==
  ASSUME TypeOK, ServiceAnnounced, NEW n \in Links, UNCHANGED announced,
         \/ UNCHANGED state
         \/ \E st \in LinkState \ {"IS", "BUF_OVERFLOW"} : state' = [state EXCEPT ![n] = st]
  PROVE  ServiceAnnounced'
  BY DEF TypeOK, ServiceAnnounced

\* So does a step that announces what it makes of link n.
LEMMA InServiceAnnounced ==
  ASSUME TypeOK, ServiceAnnounced, NEW n \in Links, NEW m \in {"LINKPAUSE", "LINKRESUME"},
         announced' = [announced EXCEPT ![n] = m],
         \A k \in Links \ {n} : state'[k] = state[k],
         state'[n] = "IS" => m = "LINKRESUME",
         state'[n] = "BUF_OVERFLOW" => m = "LINKPAUSE"
  PROVE  ServiceAnnounced'
  BY DEF TypeOK, ServiceAnnounced

LEMMA RxStepAnnounced ==
  ASSUME TypeOK, ServiceAnnounced, NEW n \in Links, RxStep(n)
  PROVE  ServiceAnnounced'
<1>1. CASE RxFisuProven(n)
  <2>1. /\ state' = [state EXCEPT ![n] = "IS"]
        /\ announced' = [announced EXCEPT ![n] = "LINKRESUME"]
    BY <1>1 DEF RxFisuProven, Announce
  <2>2. QED
    BY <2>1, InServiceAnnounced DEF TypeOK
<1>2. CASE RxMsu(n) \/ RxFisuIgnored(n)
  BY <1>2, OutOfServiceAnnounced DEF RxMsu, RxFisuIgnored, mtpVars
<1>3. CASE RxSIO(n) \/ RxSIE(n) \/ RxSIOS(n) \/ RxOtherLssu(n)
  BY <1>3, OutOfServiceAnnounced
  DEF RxSIO, RxSIE, RxSIOS, RxOtherLssu, RxLssu, Answer, LinkState, mtpVars
<1>4. QED
  BY <1>1, <1>2, <1>3 DEF RxStep

LEMMA TailStepAnnounced ==
  ASSUME TypeOK, ServiceAnnounced, NEW n \in Links, TailStep(n)
  PROVE  ServiceAnnounced'
<1>1. CASE \/ TickT1Expires(n) \/ TickIdle(n) \/ TickNotAligned(n)
           \/ TickProving(n) \/ TickStopped(n)
  BY <1>1, OutOfServiceAnnounced
  DEF TickT1Expires, TickIdle, TickNotAligned, TickProving, TickStopped,
      AlignmentTimer, Answer, LinkState, mtpVars
<1>2. CASE TxMsu(n) \/ TxBlocked(n)
  BY <1>2, OutOfServiceAnnounced DEF TxMsu, TxBlocked, mtpVars
<1>3. CASE TxNothing(n)
  <2>1. CASE state[n] = "BUF_OVERFLOW"
    <3>1. /\ state' = [state EXCEPT ![n] = "IS"]
          /\ announced' = [announced EXCEPT ![n] = "LINKRESUME"]
      BY <1>3, <2>1 DEF TxNothing, Announce
    <3>2. QED
      BY <3>1, InServiceAnnounced DEF TypeOK
  <2>2. CASE state[n] # "BUF_OVERFLOW"
    BY <1>3, <2>2, OutOfServiceAnnounced DEF TxNothing, mtpVars
  <2>3. QED
    BY <2>1, <2>2
<1>4. QED
  BY <1>1, <1>2, <1>3 DEF TailStep

LEMMA LinkTransferAnnounced ==
  ASSUME TypeOK, ServiceAnnounced, NEW n \in Links, NEW m \in Msu, LinkTransfer(n, m)
  PROVE  ServiceAnnounced'
<1>1. CASE Announce(n, "LINKPAUSE") /\ UNCHANGED state /\ state[n] # "IS"
  <2>1. announced' = [announced EXCEPT ![n] = "LINKPAUSE"]
    BY <1>1 DEF Announce
  <2>2. QED
    BY <1>1, <2>1, InServiceAnnounced
<1>2. CASE Announce(n, "LINKPAUSE") /\ state' = [state EXCEPT ![n] = "BUF_OVERFLOW"]
  <2>1. announced' = [announced EXCEPT ![n] = "LINKPAUSE"]
    BY <1>2 DEF Announce
  <2>2. QED
    BY <1>2, <2>1, InServiceAnnounced DEF TypeOK
<1>3. CASE UNCHANGED <<state, mtpVars>>
  BY <1>3, OutOfServiceAnnounced DEF mtpVars
<1>4. QED
  BY <1>1, <1>2, <1>3 DEF LinkTransfer

LEMMA RestartAnnounced ==
  ASSUME TypeOK, ServiceAnnounced, NEW n \in Links, Restart(n)
  PROVE  ServiceAnnounced'
<1>1. state' = [state EXCEPT ![n] = "SIO"] /\ announced' = [announced EXCEPT ![n] = "LINKPAUSE"]
  BY DEF Restart
<1>2. QED
  BY <1>1, InServiceAnnounced DEF TypeOK

LEMMA NextAnnounced == TypeOK /\ ServiceAnnounced /\ [Next]_linkVars => ServiceAnnounced'
<1> SUFFICES ASSUME TypeOK, ServiceAnnounced, [Next]_linkVars PROVE ServiceAnnounced'
  OBVIOUS
<1>1. CASE UNCHANGED linkVars
  BY <1>1 DEF ServiceAnnounced, linkVars, mtpVars
<1>2. ASSUME NEW n \in Links, Handler(n) PROVE ServiceAnnounced'
  <2>1. CASE Timer(n)
    BY <1>2, <2>1, OutOfServiceAnnounced DEF Timer, mtpVars
  <2>2. QED
    BY <1>2, <2>1, RxStepAnnounced, TailStepAnnounced DEF Handler
<1>3. ASSUME NEW n \in Links, NEW m \in Msu, LinkTransfer(n, m) PROVE ServiceAnnounced'
  BY <1>3, LinkTransferAnnounced
<1>4. ASSUME NEW n \in Links, LinkStop(n) \/ LinkReset(n) PROVE ServiceAnnounced'
  BY <1>4, OutOfServiceAnnounced DEF LinkStop, LinkReset, Answer, LinkState, mtpVars
<1>5. ASSUME NEW n \in Links, Restart(n) PROVE ServiceAnnounced'
  BY <1>5, RestartAnnounced
<1>6. ASSUME NEW n \in Links,
             HdlcTransmits(n) \/ MtpHandles(n) \/ \E su \in PeerSU : HdlcReceives(n, su)
      PROVE  ServiceAnnounced'
  BY <1>6, OutOfServiceAnnounced DEF HdlcTransmits, MtpHandles, HdlcReceives, mtpVars
<1>7. QED
  BY <1>1, <1>2, <1>3, <1>4, <1>5, <1>6 DEF Next

\* MTP3 was told that a link in service is in service, and that a link whose
\* buffer overflows is not to be used: however many links, whatever the timers.
THEOREM ServiceAlwaysAnnounced == Spec => []ServiceAnnounced
<1>1. Init => ServiceAnnounced
  BY DEF Init, ServiceAnnounced
<1>2. TypeOK /\ TypeOK' /\ ServiceAnnounced /\ [Next]_linkVars => ServiceAnnounced'
  BY NextAnnounced
<1>3. QED
  BY <1>1, <1>2, TypeCorrect, PTL DEF Spec

-----------------------------------------------------------------------------
(* Ss7Link implements LinkService: every step is one of the abstract link   *)
(* or leaves what MTP3 sees alone.                                          *)

Seen(st) == CASE st = "IS" -> "up" [] st = "BUF_OVERFLOW" -> "full" [] OTHER -> "down"

\* A step that sets the state of one link sets its service.
LEMMA SeenStep ==
  ASSUME TypeOK, NEW n \in Links, NEW st \in LinkState, state' = [state EXCEPT ![n] = st]
  PROVE  [k \in Links |-> Seen(state'[k])] = [[k \in Links |-> Seen(state[k])] EXCEPT ![n] = Seen(st)]
<1>1. state \in [Links -> LinkState] /\ state' \in [Links -> LinkState]
  BY DEF TypeOK
<1>2. state'[n] = st /\ \A k \in Links \ {n} : state'[k] = state[k]
  BY <1>1
<1>3. ASSUME NEW k \in Links
      PROVE  Seen(state'[k]) = IF k = n THEN Seen(st) ELSE Seen(state[k])
  <2>1. state'[k] = IF k = n THEN st ELSE state[k]
    BY <1>2
  <2>2. Seen(state'[k]) = Seen(IF k = n THEN st ELSE state[k])
    BY <2>1
  <2>3. QED
    BY <2>2 DEF Seen
<1>4. [[k \in Links |-> Seen(state[k])] EXCEPT ![n] = Seen(st)]
        = [k \in Links |-> IF k = n THEN Seen(st) ELSE Seen(state[k])]
  BY Zenon
<1>5. QED
  BY <1>3, <1>4, Zenon

\* A link falls out of service, or was not in service: nothing is posted.
LEMMA EndsOrStutters ==
  ASSUME TypeOK, NEW n \in Links, UNCHANGED toMtp,
         \/ UNCHANGED state
         \/ \E st \in LinkState \ {"IS", "BUF_OVERFLOW"} : state' = [state EXCEPT ![n] = st]
  PROVE  [Service!Next]_(Service!vars)
<1>1. CASE UNCHANGED state
  BY <1>1 DEF Service!vars
<1>2. CASE \E st \in LinkState \ {"IS", "BUF_OVERFLOW"} : state' = [state EXCEPT ![n] = st]
  <2>1. PICK st \in LinkState \ {"IS", "BUF_OVERFLOW"} : state' = [state EXCEPT ![n] = st]
    BY <1>2
  <2>2. [k \in Links |-> Seen(state'[k])] = [[k \in Links |-> Seen(state[k])] EXCEPT ![n] = "down"]
    BY <2>1, SeenStep DEF Seen
  <2>3. CASE Seen(state[n]) = "down"
    <3>1. [k \in Links |-> Seen(state'[k])] = [k \in Links |-> Seen(state[k])]
      BY <2>2, <2>3
    <3>2. QED
      BY <3>1 DEF Service!vars, Seen
  <2>4. CASE Seen(state[n]) \in {"up", "full"}
    <3>1. Service!Ends(n)
      BY <2>2, <2>4 DEF Service!Ends, Service!Turns, Seen
    <3>2. QED
      BY <3>1 DEF Service!Next
  <2>5. QED
    BY <2>3, <2>4 DEF Seen
<1>3. QED
  BY <1>1, <1>2

\* A link comes into service, or its buffer is free again: LINKRESUME.
LEMMA ComesUpSeen ==
  ASSUME TypeOK, NEW n \in Links, state[n] # "IS",
         state' = [state EXCEPT ![n] = "IS"], Announce(n, "LINKRESUME")
  PROVE  Service!Next
<1>1. [k \in Links |-> Seen(state'[k])] = [[k \in Links |-> Seen(state[k])] EXCEPT ![n] = "up"]
  BY SeenStep DEF LinkState, Seen
<1>2. Seen(state[n]) \in {"down", "full"}
  BY DEF Seen
<1>3. Service!ComesUp(n)
  BY <1>1, <1>2 DEF Service!ComesUp, Service!Turns, Service!Post, Announce, Post, Seen
<1>4. QED
  BY <1>3 DEF Service!Next

\* LINKPAUSE: the buffer of a link in service fills, or a message is offered
\* to a link that is not.
LEMMA LinkTransferSeen ==
  ASSUME TypeOK, NEW n \in Links, NEW m \in Msu, LinkTransfer(n, m)
  PROVE  [Service!Next]_(Service!vars)
<1>1. CASE state[n] # "IS" /\ Announce(n, "LINKPAUSE") /\ UNCHANGED state
  <2>1. Seen(state[n]) # "up"
    BY <1>1 DEF Seen
  <2>2. Service!Refuses(n)
    BY <1>1, <2>1 DEF Service!Refuses, Service!Post, Announce, Post, Seen
  <2>3. QED
    BY <2>2 DEF Service!Next
<1>2. CASE /\ state[n] = "IS" /\ Announce(n, "LINKPAUSE")
           /\ state' = [state EXCEPT ![n] = "BUF_OVERFLOW"]
  <2>1. [k \in Links |-> Seen(state'[k])] = [[k \in Links |-> Seen(state[k])] EXCEPT ![n] = "full"]
    BY <1>2, SeenStep DEF LinkState, Seen
  <2>2. Seen(state[n]) \in {"up"}
    BY <1>2 DEF Seen
  <2>3. Service!Fills(n)
    BY <1>2, <2>1, <2>2 DEF Service!Fills, Service!Turns, Service!Post, Announce, Post, Seen
  <2>4. QED
    BY <2>3 DEF Service!Next
<1>3. CASE UNCHANGED <<state, mtpVars>>
  BY <1>3, EndsOrStutters DEF mtpVars
<1>4. QED
  BY <1>1, <1>2, <1>3 DEF LinkTransfer

\* An MSU in sequence is delivered, and only a working link does that.
LEMMA RxMsuSeen ==
  ASSUME TypeOK, NEW n \in Links, RxMsu(n)
  PROVE  [Service!Next]_(Service!vars)
<1>1. UNCHANGED state
  BY DEF RxMsu
<1>2. CASE UNCHANGED toMtp
  BY <1>1, <1>2, EndsOrStutters
<1>3. CASE Working(n) /\ Post(n, [msg |-> "LINKTRANSFER", param |-> Su(n).msu])
  <2>1. Su(n) \in SU
    BY DEF RxMsu, RxMsg, TypeOK, Su
  <2>2. Su(n).msu \in Msu \cup {NoMsu}
    BY <2>1 DEF SU
  <2>3. Seen(state[n]) # "down"
    BY <1>3 DEF Working, Seen
  <2>4. Service!Delivers(n, Su(n).msu)
    BY <1>1, <1>3, <2>3 DEF Service!Delivers, Service!Post, Post, Seen
  <2>5. QED
    BY <2>2, <2>4 DEF Service!Next
<1>4. QED
  BY <1>2, <1>3 DEF RxMsu

\* A new process starts with a link out of service and an empty queue.
LEMMA RestartSeen ==
  ASSUME TypeOK, NEW n \in Links, Restart(n)
  PROVE  Service!Next
<1>1. state' = [state EXCEPT ![n] = "SIO"] /\ toMtp' = [toMtp EXCEPT ![n] = <<>>]
  BY DEF Restart
<1>2. [k \in Links |-> Seen(state'[k])] = [[k \in Links |-> Seen(state[k])] EXCEPT ![n] = "down"]
  BY <1>1, SeenStep DEF LinkState, Seen
<1>3. Service!Restarts(n)
  BY <1>1, <1>2 DEF Service!Restarts, Seen
<1>4. QED
  BY <1>3 DEF Service!Next

LEMMA TailStepSeen ==
  ASSUME TypeOK, NEW n \in Links, TailStep(n)
  PROVE  [Service!Next]_(Service!vars)
<1>1. CASE \/ TickT1Expires(n) \/ TickIdle(n) \/ TickNotAligned(n)
           \/ TickProving(n) \/ TickStopped(n)
  BY <1>1, EndsOrStutters
  DEF TickT1Expires, TickIdle, TickNotAligned, TickProving, TickStopped,
      AlignmentTimer, Answer, LinkState, mtpVars
<1>2. CASE TxMsu(n) \/ TxBlocked(n)
  BY <1>2, EndsOrStutters DEF TxMsu, TxBlocked, mtpVars
<1>3. CASE TxNothing(n)
  <2>1. CASE state[n] = "BUF_OVERFLOW"
    BY <1>3, <2>1, ComesUpSeen DEF TxNothing
  <2>2. CASE state[n] # "BUF_OVERFLOW"
    BY <1>3, <2>2, EndsOrStutters DEF TxNothing, mtpVars
  <2>3. QED
    BY <2>1, <2>2
<1>4. QED
  BY <1>1, <1>2, <1>3 DEF TailStep

LEMMA RxStepSeen ==
  ASSUME TypeOK, NEW n \in Links, RxStep(n)
  PROVE  [Service!Next]_(Service!vars)
<1>1. CASE RxMsu(n)
  BY <1>1, RxMsuSeen
<1>2. CASE RxFisuProven(n)
  BY <1>2, ComesUpSeen DEF RxFisuProven
<1>3. CASE RxFisuIgnored(n)
  BY <1>3, EndsOrStutters DEF RxFisuIgnored, mtpVars
<1>4. CASE RxSIO(n) \/ RxSIE(n) \/ RxSIOS(n) \/ RxOtherLssu(n)
  BY <1>4, EndsOrStutters
  DEF RxSIO, RxSIE, RxSIOS, RxOtherLssu, RxLssu, Answer, LinkState, mtpVars
<1>5. QED
  BY <1>1, <1>2, <1>3, <1>4 DEF RxStep

LEMMA NextSeen == TypeOK /\ [Next]_linkVars => [Service!Next]_(Service!vars)
<1> SUFFICES ASSUME TypeOK, [Next]_linkVars PROVE [Service!Next]_(Service!vars)
  OBVIOUS
<1>1. CASE UNCHANGED linkVars
  BY <1>1 DEF linkVars, mtpVars, Service!vars
<1>2. ASSUME NEW n \in Links, Handler(n) PROVE [Service!Next]_(Service!vars)
  <2>1. CASE Timer(n)
    BY <1>2, <2>1, EndsOrStutters DEF Timer, mtpVars
  <2>2. QED
    BY <1>2, <2>1, RxStepSeen, TailStepSeen DEF Handler
<1>3. ASSUME NEW n \in Links, NEW m \in Msu, LinkTransfer(n, m)
      PROVE  [Service!Next]_(Service!vars)
  BY <1>3, LinkTransferSeen
<1>4. ASSUME NEW n \in Links, LinkStop(n) \/ LinkReset(n)
      PROVE  [Service!Next]_(Service!vars)
  BY <1>4, EndsOrStutters DEF LinkStop, LinkReset, Answer, LinkState, mtpVars
<1>5. ASSUME NEW n \in Links, Restart(n) PROVE [Service!Next]_(Service!vars)
  BY <1>5, RestartSeen
<1>6. ASSUME NEW n \in Links, HdlcTransmits(n) \/ \E su \in PeerSU : HdlcReceives(n, su)
      PROVE  [Service!Next]_(Service!vars)
  BY <1>6, EndsOrStutters DEF HdlcTransmits, HdlcReceives, mtpVars
<1>7. ASSUME NEW n \in Links, MtpHandles(n) PROVE [Service!Next]_(Service!vars)
  <2>1. Service!Handled(n)
    BY <1>7 DEF MtpHandles, Service!Handled
  <2>2. QED
    BY <2>1 DEF Service!Next
<1>8. QED
  BY <1>1, <1>2, <1>3, <1>4, <1>5, <1>6, <1>7 DEF Next

\* What MTP3 sees of any number of link processes is the abstract service,
\* whatever the far ends send: coming into service and filling up are posted in
\* the same step, MSUs are posted in service only, a refusal changes nothing,
\* and the end of the service is silent.
THEOREM LinkImplementsService == Spec => ImplementsService
<1>1. Init => Service!Init
  <2> SUFFICES ASSUME Init PROVE Service!Init
    OBVIOUS
  <2>1. \A n \in Links : Seen(state[n]) = "down"
    BY DEF Init, Seen
  <2>2. toMtp = [n \in Links |-> <<>>]
    BY DEF Init
  <2>3. QED
    BY <2>1, <2>2 DEF Service!Init, Seen
<1>2. QED
  BY <1>1, NextSeen, TypeCorrect, PTL DEF Spec, ImplementsService, Service!Spec
=============================================================================
