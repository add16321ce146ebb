--------------------------- MODULE Lev1ShmProofs ---------------------------
(***************************************************************************)
(* Proofs about Lev1Shm, for rings of every size and SUs of every kind.    *)
(***************************************************************************)
EXTENDS Lev1Shm, FiniteSetTheorems, SequenceTheorems, TLAPS

-----------------------------------------------------------------------------
(* Positions in a ring. *)

\* A step of at most one round, with the division worked out.
LEMMA Round ==
  ASSUME NEW a \in 0 .. 2 * Slots - 1
  PROVE  a % Slots = IF a < Slots THEN a ELSE a - Slots
BY Lev1Assumption

LEMMA ForthBack ==
  \A i \in Slot :
    /\ Forth(i) \in Slot
    /\ i = Slots - 1 => Forth(i) = 0
    /\ i # Slots - 1 => Forth(i) = i + 1
    /\ Back(i) \in Slot
    /\ i = 0 => Back(i) = Slots - 1
    /\ i # 0 => Back(i) = i - 1
BY Round, Lev1Assumption, SMTT(60) DEF Slot, Forth, Back

\* The slot i after b, and when that is another slot.
Ahead(b, i) == (b + i) % Slots

LEMMA AheadIs ==
  \A b \in Slot : \A i \in 0 .. Slots :
    /\ Ahead(b, i) \in Slot
    /\ b + i < Slots => Ahead(b, i) = b + i
    /\ b + i >= Slots => Ahead(b, i) = b + i - Slots
BY Round, Lev1Assumption DEF Slot, Ahead

LEMMA SlotRange ==
  /\ Slots \in Nat
  /\ {0, Slots - 1} \subseteq Slot
  /\ \A i \in Slot : i \in Nat /\ i < Slots /\ i \in 0 .. Slots
BY Lev1Assumption DEF Slot

LEMMA AheadReaches ==
  ASSUME NEW b \in Slot, NEW s \in Slot
  PROVE  \E i \in Slot : s = Ahead(b, i)
<1>1. CASE s >= b
  <2>1. s - b \in Slot /\ b + (s - b) = s /\ s < Slots
    BY <1>1, SlotRange DEF Slot
  <2>2. Ahead(b, s - b) = s
    BY <2>1, AheadIs, SlotRange
  <2>3. QED
    BY <2>1, <2>2
<1>2. CASE s < b
  <2>1. s - b + Slots \in Slot /\ b + (s - b + Slots) = s + Slots /\ s + Slots >= Slots
    BY <1>2, SlotRange DEF Slot
  <2>2. Ahead(b, s - b + Slots) = s
    BY <2>1, AheadIs, SlotRange, SMTT(60)
  <2>3. QED
    BY <2>1, <2>2
<1>3. QED
  BY <1>1, <1>2, SlotRange

LEMMA AheadApart ==
  ASSUME NEW b \in Slot, NEW i \in Slot, NEW j \in Slot, Ahead(b, i) = Ahead(b, j)
  PROVE  i = j
<1>1. b \in Nat /\ i \in Nat /\ j \in Nat /\ i < Slots /\ j < Slots /\ b < Slots
  BY SlotRange
<1>2. /\ i \in 0 .. Slots /\ j \in 0 .. Slots
  BY SlotRange
<1>3. /\ Ahead(b, i) = b + i \/ (Ahead(b, i) = b + i - Slots /\ b + i >= Slots)
      /\ Ahead(b, j) = b + j \/ (Ahead(b, j) = b + j - Slots /\ b + j >= Slots)
  BY <1>1, <1>2, AheadIs, SlotRange
<1>4. QED
  BY <1>1, <1>3, SlotRange

LEMMA AheadNone ==
  \A b \in Slot : Ahead(b, 0) = b /\ Ahead(b, Slots) = b
<1> TAKE b \in Slot
<1>1. 0 \in 0 .. Slots /\ Slots \in 0 .. Slots
  BY SlotRange
<1>2. b + 0 = b /\ b < Slots /\ b + Slots >= Slots /\ b + Slots - Slots = b
  BY SlotRange
<1>3. QED
  BY <1>1, <1>2, AheadIs

\* Going on from the next slot.
LEMMA AheadNext ==
  ASSUME NEW b \in Slot, NEW i \in 0 .. Slots - 1
  PROVE  /\ Ahead(Forth(b), i) = Ahead(b, i + 1)
         /\ Forth(Ahead(b, i)) = Ahead(b, i + 1)
<1>1. i \in 0 .. Slots /\ i + 1 \in 0 .. Slots /\ i \in Nat /\ b \in Nat /\ b < Slots
  BY SlotRange
<1>2. PICK f \in Slot : f = Forth(b)
  BY ForthBack
<1>3. PICK a \in Slot : a = Ahead(b, i)
  BY <1>1, AheadIs
<1>4. /\ (b = Slots - 1 /\ f = 0) \/ (b # Slots - 1 /\ f = b + 1)
      /\ (a = Slots - 1 /\ Forth(a) = 0) \/ (a # Slots - 1 /\ Forth(a) = a + 1)
  BY <1>2, <1>3, ForthBack
<1>5. \/ b + i < Slots /\ a = b + i
      \/ b + i >= Slots /\ a = b + i - Slots
  BY <1>1, <1>3, AheadIs, SlotRange
<1>6. \/ b + (i + 1) < Slots /\ Ahead(b, i + 1) = b + (i + 1)
      \/ b + (i + 1) >= Slots /\ Ahead(b, i + 1) = b + (i + 1) - Slots
  BY <1>1, AheadIs, SlotRange
<1>7. /\ f \in Nat /\ f < Slots
      /\ \/ f + i < Slots /\ Ahead(f, i) = f + i
         \/ f + i >= Slots /\ Ahead(f, i) = f + i - Slots
  BY <1>1, <1>2, AheadIs, SlotRange
<1>8. Ahead(f, i) = Ahead(b, i + 1)
  BY <1>1, <1>4, <1>6, <1>7, SlotRange
<1>9. Forth(a) = Ahead(b, i + 1)
  BY <1>1, <1>4, <1>5, <1>6, SlotRange
<1>10. QED
  BY <1>2, <1>3, <1>8, <1>9

LEMMA BackForth ==
  \A i \in Slot : Back(Forth(i)) = i /\ Forth(Back(i)) = i
<1> TAKE i \in Slot
<1>1. PICK f \in Slot : f = Forth(i)
  BY ForthBack
<1>2. PICK p \in Slot : p = Back(i)
  BY ForthBack
<1>3. Back(f) = i
  BY <1>1, ForthBack, SlotRange
<1>4. Forth(p) = i
  BY <1>2, ForthBack, SlotRange
<1>5. QED
  BY <1>1, <1>2, <1>3, <1>4

\* Going back, also from b, to the slot that is reached last.
LEMMA AheadBack ==
  ASSUME NEW b \in Slot
  PROVE  /\ Ahead(b, Slots - 1) = Back(b)
         /\ \A i \in Slot : Ahead(b, i) = Back(Ahead(b, i + 1))
<1>1. ASSUME NEW i \in Slot PROVE Ahead(b, i) = Back(Ahead(b, i + 1))
  <2>1. Ahead(b, i) \in Slot
    BY AheadIs, SlotRange
  <2>2. Forth(Ahead(b, i)) = Ahead(b, i + 1)
    BY AheadNext DEF Slot
  <2>3. QED
    BY <2>1, <2>2, BackForth
<1>2. Slots - 1 \in Slot /\ (Slots - 1) + 1 = Slots
  BY SlotRange
<1>3. Ahead(b, Slots - 1) = Back(Ahead(b, Slots))
  BY <1>1, <1>2
<1>4. QED
  BY <1>1, <1>3, AheadNone

\* Going n on and then i on.
LEMMA AheadTwice ==
  ASSUME NEW b \in Slot, NEW n \in 0 .. Slots, NEW i \in Slot
  PROVE  /\ n + i < Slots => Ahead(Ahead(b, n), i) = Ahead(b, n + i)
         /\ n + i >= Slots => Ahead(Ahead(b, n), i) = Ahead(b, n + i - Slots)
<1>1. PICK a \in Slot : a = Ahead(b, n)
  BY AheadIs
<1>2. PICK c \in Slot : c = Ahead(a, i)
  BY AheadIs, SlotRange
<1>3. /\ a \in Nat /\ b \in Nat /\ i \in Nat /\ n \in Nat /\ c \in Nat /\ i \in 0 .. Slots
      /\ a < Slots /\ b < Slots /\ i < Slots /\ n <= Slots
  BY SlotRange
<1>4. \/ b + n < Slots /\ a = b + n
      \/ b + n >= Slots /\ a = b + n - Slots
  BY <1>1, <1>3, AheadIs, SlotRange
<1>5. \/ a + i < Slots /\ c = a + i
      \/ a + i >= Slots /\ c = a + i - Slots
  BY <1>2, <1>3, AheadIs, SlotRange
<1>6. ASSUME n + i < Slots PROVE c = Ahead(b, n + i)
  <2>1. PICK k \in 0 .. Slots : k = n + i
    BY <1>3, <1>6, SlotRange
  <2>2. \/ b + k < Slots /\ Ahead(b, k) = b + k
        \/ b + k >= Slots /\ Ahead(b, k) = b + k - Slots
    BY <1>3, <2>1, AheadIs, SlotRange
  <2>3. QED
    BY <1>3, <1>4, <1>5, <1>6, <2>1, <2>2, SlotRange
<1>7. ASSUME n + i >= Slots PROVE c = Ahead(b, n + i - Slots)
  <2>1. PICK k \in 0 .. Slots : k = n + i - Slots
    BY <1>3, <1>7, SlotRange
  <2>2. \/ b + k < Slots /\ Ahead(b, k) = b + k
        \/ b + k >= Slots /\ Ahead(b, k) = b + k - Slots
    BY <1>3, <2>1, AheadIs, SlotRange
  <2>3. QED
    BY <1>3, <1>4, <1>5, <1>7, <2>1, <2>2, SlotRange
<1>8. QED
  BY <1>1, <1>2, <1>6, <1>7

-----------------------------------------------------------------------------
(* The filled slots of a ring are n in a row, from b on. *)

Region(len, b, n) == \A i \in Slot : len[Ahead(b, i)] = "filled" <=> i < n

LEMMA RegionGrows ==
  ASSUME NEW len \in [Slot -> {"filled", "marked"}], NEW b \in Slot,
         NEW n \in 0 .. Slots - 1, Region(len, b, n)
  PROVE  Region([len EXCEPT ![Ahead(b, n)] = "filled"], b, n + 1)
<1> DEFINE next == [len EXCEPT ![Ahead(b, n)] = "filled"]
<1>1. n \in Slot
  BY DEF Slot
<1>2. ASSUME NEW i \in Slot PROVE next[Ahead(b, i)] = "filled" <=> i < n + 1
  <2>1. Ahead(b, i) \in Slot /\ i \in 0 .. Slots
    BY AheadIs, SlotRange
  <2>2. CASE i = n
    BY <1>1, <2>1, <2>2 DEF Slot
  <2>3. CASE i # n
    <3>1. Ahead(b, i) # Ahead(b, n)
      BY <1>1, <2>3, AheadApart
    <3>2. next[Ahead(b, i)] = len[Ahead(b, i)]
      BY <2>1, <3>1
    <3>3. i < n + 1 <=> i < n
      BY <2>3, Lev1Assumption DEF Slot
    <3>4. QED
      BY <3>2, <3>3 DEF Region
  <2>4. QED
    BY <2>2, <2>3
<1>3. QED
  BY <1>2 DEF Region

LEMMA RegionShrinks ==
  ASSUME NEW len \in [Slot -> {"filled", "marked"}], NEW b \in Slot,
         NEW n \in 1 .. Slots, Region(len, b, n)
  PROVE  Region([len EXCEPT ![b] = "marked"], Forth(b), n - 1)
<1> DEFINE next == [len EXCEPT ![b] = "marked"]
<1>1. 0 \in Slot /\ Ahead(b, 0) = b /\ Ahead(b, Slots) = b
  BY AheadNone, SlotRange
<1>2. ASSUME NEW i \in Slot PROVE next[Ahead(Forth(b), i)] = "filled" <=> i < n - 1
  <2>1. Ahead(Forth(b), i) = Ahead(b, i + 1)
    BY AheadNext DEF Slot
  <2>2. CASE i = Slots - 1
    BY <1>1, <2>1, <2>2, Lev1Assumption
  <2>3. CASE i # Slots - 1
    <3>1. i + 1 \in Slot /\ i + 1 # 0
      BY <2>3, Lev1Assumption DEF Slot
    <3>2. Ahead(b, i + 1) # b
      BY <1>1, <3>1, AheadApart
    <3>3. Ahead(b, i + 1) \in Slot
      BY <3>1, AheadIs, SlotRange
    <3>4. next[Ahead(b, i + 1)] = len[Ahead(b, i + 1)]
      BY <3>2, <3>3
    <3>5. len[Ahead(b, i + 1)] = "filled" <=> i + 1 < n
      BY <3>1 DEF Region
    <3>6. i + 1 < n <=> i < n - 1
      BY Lev1Assumption DEF Slot
    <3>7. QED
      BY <2>1, <3>4, <3>5, <3>6
  <2>4. QED
    BY <2>2, <2>3
<1>3. QED
  BY <1>2 DEF Region

-----------------------------------------------------------------------------
(* The inductive invariant. *)

Running == pc \in {"idle", "rx", "tx"}

\* The filled slots of the receive ring go from b up to the HDLC layer's position;
\* init() is among them or just before, and a process that runs is at b.
RxRegion == \E b \in Slot : \E n \in 0 .. Slots :
  /\ Region(rxLen, b, n)
  /\ r = Ahead(b, n)
  /\ pc = "search" => \E m \in Slot : (m < n \/ m = Slots - 1) /\ rxpos = Ahead(b, m)
  /\ Running => rxpos = b

\* Those of the transmit ring go from the HDLC layer's position up to txpos.
TxRegion == ~ disturbed => \E n \in 0 .. Slots :
  /\ Region(txLen, Forth(t), n)
  /\ pc # "down" => txpos = Ahead(Forth(t), n)

IInv == TypeOK /\ HandedOver /\ RxRegion /\ TxRegion

-----------------------------------------------------------------------------
(* Types, and who has which slot. *)

LEMMA InitTyped == Init => TypeOK /\ HandedOver
<1> SUFFICES ASSUME Init PROVE TypeOK /\ HandedOver
  OBVIOUS
<1>1. 0 \in Slot /\ Slots - 1 \in Slot
  BY SlotRange
<1>2. TypeOK
  BY <1>1 DEF Init, TypeOK
<1>3. HandedOver
  BY DEF Init, HandedOver
<1>4. QED
  BY <1>2, <1>3

LEMMA NextTyped == TypeOK /\ [Next]_vars => TypeOK'
<1> SUFFICES ASSUME TypeOK, [Next]_vars PROVE TypeOK'
  OBVIOUS
<1> USE DEF TypeOK
<1>1. \A i \in Slot : Forth(i) \in Slot /\ Back(i) \in Slot
  BY ForthBack
<1>2. 0 \in Slot
  BY SlotRange
<1>3. traffic.rx \subseteq SU /\ traffic.tx \subseteq SU
  BY Lev1Assumption
<1>4. CASE Start
  BY <1>1, <1>4 DEF Start, rings, hdlcVars
<1>5. CASE SearchBack
  BY <1>1, <1>5 DEF SearchBack, rings, hdlcVars, history
<1>6. CASE SearchEnds
  BY <1>1, <1>6 DEF SearchEnds, rings, hdlcVars, history
<1>7. CASE RxBegins
  BY <1>7 DEF RxBegins, rings, hdlcVars, history
<1>8. CASE RxEnds
  BY <1>1, <1>8 DEF RxEnds, hdlcVars
<1>9. CASE TxBegins
  BY <1>3, <1>9 DEF TxBegins, hdlcVars, history
<1>10. CASE TxEnds
  BY <1>1, <1>10 DEF TxEnds, hdlcVars, history
<1>11. CASE Crash
  BY <1>2, <1>11 DEF Crash, rings, hdlcVars, history
<1>12. CASE HdlcFills
  BY <1>3, <1>12 DEF HdlcFills, linkVars, history
<1>13. CASE HdlcHandsOver
  BY <1>1, <1>13 DEF HdlcHandsOver, linkVars, history
<1>14. CASE HdlcSends
  BY <1>14 DEF HdlcSends, rings, linkVars, history
<1>15. CASE HdlcHasSent
  <2>1. Forth(t) \in Slot
    BY <1>1
  <2>2. QED
    BY <1>15, <2>1 DEF HdlcHasSent, linkVars
<1>16. CASE UNCHANGED vars
  BY <1>16 DEF vars, rings, hdlcVars, linkVars, history
<1>17. QED
  BY <1>4, <1>5, <1>6, <1>7, <1>8, <1>9, <1>10, <1>11, <1>12, <1>13, <1>14, <1>15, <1>16
  DEF Next, Link, Hdlc

\* No step takes a slot from the side that is about it.
LEMMA NextHandedOver == TypeOK /\ HandedOver /\ [Next]_vars => HandedOver'
<1> SUFFICES ASSUME TypeOK, HandedOver, [Next]_vars PROVE HandedOver'
  OBVIOUS
<1> USE DEF HandedOver
<1>1. /\ rxLen \in [Slot -> {"filled", "marked"}] /\ txLen \in [Slot -> {"filled", "marked"}]
      /\ rxBody \in [Slot -> SU \cup {NoSU}]
      /\ r \in Slot /\ rxpos \in Slot /\ txpos \in Slot
  BY DEF TypeOK
<1>2. Forth(t) \in Slot
  BY ForthBack DEF TypeOK
<1>3. CASE Start
  BY <1>3 DEF Start, rings, hdlcVars
<1>4. CASE SearchBack
  BY <1>4 DEF SearchBack, rings, hdlcVars
<1>5. CASE SearchEnds
  BY <1>5 DEF SearchEnds, rings, hdlcVars
<1>6. CASE RxBegins
  BY <1>6 DEF RxBegins, rings, hdlcVars
<1>7. CASE RxEnds
  BY <1>1, <1>7 DEF RxEnds, hdlcVars
<1>8. CASE TxBegins
  BY <1>8 DEF TxBegins, hdlcVars
<1>9. CASE TxEnds
  BY <1>1, <1>2, <1>9 DEF TxEnds, hdlcVars
<1>10. CASE Crash
  BY <1>10 DEF Crash, rings, hdlcVars
<1>11. CASE HdlcFills
  BY <1>1, <1>11 DEF HdlcFills, linkVars
<1>12. CASE HdlcHandsOver
  BY <1>1, <1>12 DEF HdlcHandsOver, linkVars
<1>13. CASE HdlcSends
  BY <1>13 DEF HdlcSends, rings, linkVars
<1>14. CASE HdlcHasSent
  BY <1>1, <1>2, <1>14 DEF HdlcHasSent, linkVars
<1>15. CASE UNCHANGED vars
  BY <1>15 DEF vars, rings, hdlcVars, linkVars
<1>16. QED
  BY <1>3, <1>4, <1>5, <1>6, <1>7, <1>8, <1>9, <1>10, <1>11, <1>12, <1>13, <1>14, <1>15
  DEF Next, Link, Hdlc

\* Only tx_msg() writes the body of an SU to be sent, and it has looked at the mark.
LEMMA StepSentWhole ==
  ASSUME TypeOK, HandedOver, [Next]_vars, hdlcTx = "begun", hdlcTx' = "begun"
  PROVE  t' = t /\ txBody'[Forth(t)] = txBody[Forth(t)]
<1>1. Forth(t) \in Slot /\ txpos \in Slot /\ txBody \in [Slot -> SU \cup {NoSU}]
  BY ForthBack DEF TypeOK
<1>2. txLen[Forth(t)] = "filled"
  BY DEF HandedOver
<1>3. CASE TxBegins
  BY <1>1, <1>2, <1>3 DEF TxBegins, hdlcVars
<1>4. CASE Start \/ SearchBack \/ SearchEnds \/ RxBegins \/ RxEnds \/ TxEnds \/ Crash
  BY <1>4 DEF Start, SearchBack, SearchEnds, RxBegins, RxEnds, TxEnds, Crash, rings, hdlcVars
<1>5. CASE Hdlc
  BY <1>5 DEF Hdlc, HdlcFills, HdlcHandsOver, HdlcSends, HdlcHasSent, rings
<1>6. CASE UNCHANGED vars
  BY <1>6 DEF vars, rings, hdlcVars
<1>7. QED
  BY <1>3, <1>4, <1>5, <1>6 DEF Next, Link

-----------------------------------------------------------------------------
(* Positions. *)

LEMMA InitRegions == Init => RxRegion /\ TxRegion
<1> SUFFICES ASSUME Init PROVE RxRegion /\ TxRegion
  OBVIOUS
<1>1. 0 \in Slot /\ 0 \in 0 .. Slots /\ Slots - 1 \in Slot
  BY SlotRange
<1>2. \A b \in Slot : \A i \in Slot : Ahead(b, i) \in Slot /\ ~ (i < 0)
  BY AheadIs, SlotRange
<1>3. Region(rxLen, 0, 0)
  BY <1>1, <1>2 DEF Init, Region
<1>4. Forth(t) \in Slot
  BY <1>1, ForthBack DEF Init
<1>5. Region(txLen, Forth(t), 0)
  BY <1>2, <1>4 DEF Init, Region
<1>6. RxRegion
  BY <1>1, <1>3, AheadNone DEF Init, RxRegion, Running
<1>7. TxRegion
  BY <1>1, <1>5 DEF Init, TxRegion
<1>8. QED
  BY <1>6, <1>7

\* A slot that is filled is among the n, one that is marked is not.
LEMMA RegionHas ==
  ASSUME NEW len, NEW b \in Slot, NEW n \in 0 .. Slots, Region(len, b, n)
  PROVE  /\ len[b] = "filled" <=> n # 0
         /\ n < Slots => len[Ahead(b, n)] # "filled"
         /\ len[Ahead(b, n)] # "filled" => n < Slots
<1>1. 0 \in Slot /\ Ahead(b, 0) = b /\ Ahead(b, Slots) = b
  BY SlotRange, AheadNone
<1>2. len[b] = "filled" <=> 0 < n
  BY <1>1 DEF Region
<1>3. n < Slots => n \in Slot /\ ~ (n < n)
  BY SlotRange DEF Slot
<1>4. n < Slots => len[Ahead(b, n)] # "filled"
  BY <1>3 DEF Region
<1>5. n = Slots => len[Ahead(b, n)] = "filled"
  BY <1>1, <1>2, SlotRange
<1>6. QED
  BY <1>2, <1>4, <1>5, SlotRange

LEMMA NextRxRegion ==
  ASSUME TypeOK, HandedOver, RxRegion, [Next]_vars
  PROVE  RxRegion'
<1>1. PICK b \in Slot, n \in 0 .. Slots :
        /\ Region(rxLen, b, n)
        /\ r = Ahead(b, n)
        /\ pc = "search" => \E m \in Slot : (m < n \/ m = Slots - 1) /\ rxpos = Ahead(b, m)
        /\ Running => rxpos = b
  BY DEF RxRegion
<1>2. rxLen \in [Slot -> {"filled", "marked"}] /\ r \in Slot /\ rxpos \in Slot
  BY DEF TypeOK
<1>3. CASE Start
  <2>1. \E m \in Slot : (m < n \/ m = Slots - 1) /\ Back(r) = Ahead(b, m)
    <3>1. CASE n = 0
      <4>1. r = b /\ Slots - 1 \in Slot /\ Slots - 1 \in 0 .. Slots
        BY <1>1, <3>1, AheadNone, SlotRange
      <4>2. Ahead(b, Slots - 1) = Back(b)
        BY AheadBack
      <4>3. QED
        BY <4>1, <4>2
    <3>2. CASE n # 0
      <4>1. n - 1 \in Slot /\ n - 1 < n /\ (n - 1) + 1 = n
        BY <3>2, SlotRange DEF Slot
      <4>2. Ahead(b, n - 1) = Back(r)
        BY <1>1, <4>1, AheadBack
      <4>3. QED
        BY <4>1, <4>2
    <3>3. QED
      BY <3>1, <3>2
  <2>2. /\ rxLen' = rxLen /\ r' = r /\ pc' = "search" /\ rxpos' = Back(r)
    BY <1>3 DEF Start, rings, hdlcVars
  <2>3. QED
    BY <1>1, <2>1, <2>2 DEF RxRegion, Running
<1>4. CASE SearchBack
  <2>1. /\ rxLen' = rxLen /\ r' = r /\ pc' = "search" /\ pc = "search"
        /\ rxpos' = Back(rxpos) /\ rxLen[rxpos] = "filled"
    BY <1>4 DEF SearchBack, rings, hdlcVars
  <2>2. PICK m \in Slot : (m < n \/ m = Slots - 1) /\ rxpos = Ahead(b, m)
    BY <1>1, <2>1
  <2>3. m < n
    BY <1>1, <2>1, <2>2 DEF Region
  <2>4. \E k \in Slot : (k < n \/ k = Slots - 1) /\ Back(rxpos) = Ahead(b, k)
    <3>1. CASE m = 0
      <4>1. rxpos = b /\ Slots - 1 \in Slot
        BY <2>2, <3>1, AheadNone, SlotRange
      <4>2. QED
        BY <4>1, AheadBack
    <3>2. CASE m # 0
      <4>1. m - 1 \in Slot /\ m - 1 < n /\ (m - 1) + 1 = m
        BY <2>3, <3>2, SlotRange DEF Slot
      <4>2. Ahead(b, m - 1) = Back(rxpos)
        BY <2>2, <4>1, AheadBack
      <4>3. QED
        BY <4>1, <4>2
    <3>3. QED
      BY <3>1, <3>2
  <2>5. QED
    BY <1>1, <2>1, <2>4 DEF RxRegion, Running
<1>5. CASE SearchEnds
  <2>1. /\ rxLen' = rxLen /\ r' = r /\ pc' = "idle" /\ pc = "search"
        /\ rxpos' = Forth(rxpos) /\ rxLen[rxpos] # "filled"
    BY <1>5 DEF SearchEnds, rings, hdlcVars
  <2>2. PICK m \in Slot : (m < n \/ m = Slots - 1) /\ rxpos = Ahead(b, m)
    BY <1>1, <2>1
  <2>3. m = Slots - 1
    BY <1>1, <2>1, <2>2 DEF Region
  <2>4. Forth(rxpos) = b
    BY <2>2, <2>3, AheadBack, BackForth
  <2>5. QED
    BY <1>1, <2>1, <2>4 DEF RxRegion, Running
<1>6. CASE RxEnds
  <2>1. /\ rxLen' = [rxLen EXCEPT ![rxpos] = "marked"] /\ rxpos' = Forth(rxpos)
        /\ r' = r /\ pc' = "idle" /\ pc = "rx"
    BY <1>6 DEF RxEnds, hdlcVars
  <2>2. rxpos = b /\ rxLen[b] = "filled"
    BY <1>1, <2>1 DEF Running, HandedOver
  <2>3. n # 0
    BY <1>1, <2>2, RegionHas
  <2>4. n \in 1 .. Slots /\ n - 1 \in 0 .. Slots - 1 /\ n - 1 \in 0 .. Slots /\ (n - 1) + 1 = n
    BY <2>3, SlotRange
  <2>5. Region(rxLen', Forth(b), n - 1)
    BY <1>1, <1>2, <2>1, <2>2, <2>4, RegionShrinks
  <2>6. r = Ahead(Forth(b), n - 1)
    BY <1>1, <2>4, AheadNext
  <2>7. Forth(b) \in Slot
    BY ForthBack
  <2>8. QED
    BY <2>1, <2>2, <2>4, <2>5, <2>6, <2>7 DEF RxRegion, Running
<1>7. CASE HdlcHandsOver
  <2>1. /\ rxLen' = [rxLen EXCEPT ![r] = "filled"] /\ r' = Forth(r)
        /\ pc' = pc /\ rxpos' = rxpos /\ rxLen[r] = "marked"
    BY <1>7 DEF HdlcHandsOver, linkVars, HandedOver
  <2>2. n < Slots
    BY <1>1, <2>1, RegionHas
  <2>3. n \in 0 .. Slots - 1 /\ n + 1 \in 0 .. Slots
    BY <2>2, SlotRange
  <2>4. Region(rxLen', b, n + 1)
    BY <1>1, <1>2, <2>1, <2>3, RegionGrows
  <2>5. r' = Ahead(b, n + 1)
    BY <1>1, <2>1, <2>3, AheadNext
  <2>6. \A m \in Slot : m < n => m < n + 1
    BY SlotRange
  <2>7. pc' = "search" => \E m \in Slot : (m < n + 1 \/ m = Slots - 1) /\ rxpos' = Ahead(b, m)
    BY <1>1, <2>1, <2>6
  <2>8. QED
    BY <1>1, <2>1, <2>3, <2>4, <2>5, <2>7 DEF RxRegion, Running
<1>8. CASE RxBegins \/ TxBegins \/ TxEnds \/ HdlcFills \/ HdlcSends \/ HdlcHasSent
  <2>1. /\ rxLen' = rxLen /\ r' = r /\ rxpos' = rxpos
        /\ pc' = pc \/ (Running /\ Running')
    BY <1>8 DEF RxBegins, TxBegins, TxEnds, HdlcFills, HdlcSends, HdlcHasSent, Running,
                rings, hdlcVars, linkVars
  <2>2. pc' = "search" => pc = "search"
    BY <2>1 DEF Running
  <2>3. Running' => Running
    BY <2>1 DEF Running
  <2>4. QED
    BY <1>1, <2>1, <2>2, <2>3 DEF RxRegion
<1>9. CASE Crash
  <2>1. rxLen' = rxLen /\ r' = r /\ pc' = "down"
    BY <1>9 DEF Crash, rings, hdlcVars
  <2>2. QED
    BY <1>1, <2>1 DEF RxRegion, Running
<1>10. CASE UNCHANGED vars
  <2>1. rxLen' = rxLen /\ r' = r /\ pc' = pc /\ rxpos' = rxpos
    BY <1>10 DEF vars, rings, hdlcVars, linkVars
  <2>2. QED
    BY <1>1, <2>1 DEF RxRegion, Running
<1>11. QED
  BY <1>3, <1>4, <1>5, <1>6, <1>7, <1>8, <1>9, <1>10 DEF Next, Link, Hdlc

LEMMA NextTxRegion ==
  ASSUME TypeOK, HandedOver, TxRegion, [Next]_vars
  PROVE  TxRegion'
<1> SUFFICES ASSUME ~ disturbed'
             PROVE  \E n \in 0 .. Slots :
                      /\ Region(txLen', Forth(t'), n)
                      /\ pc' # "down" => txpos' = Ahead(Forth(t'), n)
  BY DEF TxRegion
<1>1. ~ disturbed
  BY DEF Next, Link, Hdlc, Start, SearchBack, SearchEnds, RxBegins, RxEnds, TxBegins, TxEnds,
         Crash, HdlcFills, HdlcHandsOver, HdlcSends, HdlcHasSent, vars, history
<1>2. PICK n \in 0 .. Slots :
        /\ Region(txLen, Forth(t), n)
        /\ pc # "down" => txpos = Ahead(Forth(t), n)
  BY <1>1 DEF TxRegion
<1>3. PICK h \in Slot : h = Forth(t)
  BY ForthBack DEF TypeOK
<1>4. txLen \in [Slot -> {"filled", "marked"}] /\ t \in Slot
  BY DEF TypeOK
<1>5. CASE Start
  <2>1. txLen' = txLen /\ t' = t /\ txpos' = h /\ ToBeSent = {}
    BY <1>3, <1>5 DEF Start, rings, hdlcVars
  <2>2. txLen[h] # "filled"
    BY <2>1 DEF ToBeSent
  <2>3. n = 0
    BY <1>2, <1>3, <2>2, RegionHas
  <2>4. QED
    BY <1>2, <1>3, <2>1, <2>3, AheadNone
<1>6. CASE TxEnds
  <2>1. /\ txLen' = [txLen EXCEPT ![txpos] = "filled"] /\ txpos' = Forth(txpos) /\ t' = t
        /\ pc = "tx" /\ txLen[txpos] = "marked"
    BY <1>6 DEF TxEnds, hdlcVars, HandedOver
  <2>2. txpos = Ahead(h, n)
    BY <1>2, <1>3, <2>1
  <2>3. n < Slots
    BY <1>2, <1>3, <2>1, <2>2, RegionHas
  <2>4. n \in 0 .. Slots - 1 /\ n + 1 \in 0 .. Slots
    BY <2>3, SlotRange
  <2>5. Region(txLen', h, n + 1)
    BY <1>2, <1>3, <1>4, <2>1, <2>2, <2>4, RegionGrows
  <2>6. txpos' = Ahead(h, n + 1)
    BY <2>1, <2>2, <2>4, AheadNext
  <2>7. QED
    BY <1>3, <2>1, <2>4, <2>5, <2>6
<1>7. CASE HdlcHasSent
  <2>1. /\ txLen' = [txLen EXCEPT ![h] = "marked"] /\ t' = h
        /\ pc' = pc /\ txpos' = txpos /\ txLen[h] = "filled"
    BY <1>3, <1>7 DEF HdlcHasSent, linkVars, HandedOver
  <2>2. n # 0
    BY <1>2, <1>3, <2>1, RegionHas
  <2>3. n \in 1 .. Slots /\ n - 1 \in 0 .. Slots - 1 /\ n - 1 \in 0 .. Slots /\ (n - 1) + 1 = n
    BY <2>2, SlotRange
  <2>4. Region(txLen', Forth(h), n - 1)
    BY <1>2, <1>3, <1>4, <2>1, <2>3, RegionShrinks
  <2>5. Ahead(h, n) = Ahead(Forth(h), n - 1)
    BY <2>3, AheadNext
  <2>6. QED
    BY <1>2, <1>3, <2>1, <2>3, <2>4, <2>5
<1>8. CASE \/ SearchBack \/ SearchEnds \/ RxBegins \/ RxEnds \/ TxBegins
           \/ HdlcFills \/ HdlcHandsOver \/ HdlcSends
  <2>1. txLen' = txLen /\ t' = t /\ txpos' = txpos /\ (pc' # "down" => pc # "down")
    BY <1>8 DEF SearchBack, SearchEnds, RxBegins, RxEnds, TxBegins, HdlcFills, HdlcHandsOver,
                HdlcSends, rings, hdlcVars, linkVars
  <2>2. QED
    BY <1>2, <2>1
<1>9. CASE Crash
  <2>1. txLen' = txLen /\ t' = t /\ pc' = "down"
    BY <1>9 DEF Crash, rings, hdlcVars
  <2>2. QED
    BY <1>2, <2>1
<1>10. CASE UNCHANGED vars
  <2>1. txLen' = txLen /\ t' = t /\ txpos' = txpos /\ pc' = pc
    BY <1>10 DEF vars, rings, hdlcVars, linkVars
  <2>2. QED
    BY <1>2, <2>1
<1>11. QED
  BY <1>5, <1>6, <1>7, <1>8, <1>9, <1>10 DEF Next, Link, Hdlc

\* The slots of a region come before the others, from b on ...
LEMMA RegionFirst ==
  ASSUME NEW len, NEW b \in Slot, NEW n \in 0 .. Slots, Region(len, b, n),
         NEW i \in 0 .. Slots - 1, NEW j \in 0 .. Slots - 1, i < j,
         len[Ahead(b, j)] = "filled"
  PROVE  len[Ahead(b, i)] = "filled"
<1>1. i \in Slot /\ j \in Slot
  BY DEF Slot
<1>2. j < n
  BY <1>1 DEF Region
<1>3. i < n
  BY <1>1, <1>2, SlotRange
<1>4. QED
  BY <1>1, <1>3 DEF Region

\* ... and after them from the slot behind the region on.
LEMMA RegionLast ==
  ASSUME NEW len, NEW b \in Slot, NEW n \in 0 .. Slots, Region(len, b, n),
         NEW i \in 0 .. Slots - 1, NEW j \in 0 .. Slots - 1, i < j,
         len[Ahead(Ahead(b, n), i)] = "filled"
  PROVE  len[Ahead(Ahead(b, n), j)] = "filled"
<1>1. i \in Slot /\ j \in Slot /\ i \in Nat /\ j \in Nat /\ j < Slots
  BY SlotRange DEF Slot
<1>2. CASE n + j < Slots
  <2>1. n + i < Slots /\ n + i \in Slot /\ n \in Nat
    BY <1>1, <1>2, SlotRange DEF Slot
  <2>2. Ahead(Ahead(b, n), i) = Ahead(b, n + i)
    BY <1>1, <2>1, AheadTwice
  <2>3. n + i < n
    BY <2>1, <2>2 DEF Region
  <2>4. QED
    BY <1>1, <2>1, <2>3
<1>3. CASE n + j >= Slots
  <2>1. n + j - Slots \in Slot /\ n + j - Slots < n
    BY <1>1, <1>3, SlotRange DEF Slot
  <2>2. Ahead(Ahead(b, n), j) = Ahead(b, n + j - Slots)
    BY <1>1, <1>3, AheadTwice
  <2>3. QED
    BY <2>1, <2>2 DEF Region
<1>4. QED
  BY <1>1, <1>2, <1>3, SlotRange

LEMMA RegionsInPlace == TypeOK /\ RxRegion /\ TxRegion => InPlace
<1> SUFFICES ASSUME TypeOK, RxRegion, TxRegion, Running PROVE InPlace
  BY DEF InPlace, Running
<1>1. PICK b \in Slot, n \in 0 .. Slots : Region(rxLen, b, n) /\ rxpos = b
  BY DEF RxRegion
<1>2. \A i, j \in 0 .. Slots - 1 :
        i < j /\ rxLen[Ahead(rxpos, j)] = "filled" => rxLen[Ahead(rxpos, i)] = "filled"
  BY <1>1, RegionFirst
<1>3. ASSUME ~ disturbed
      PROVE  \A i, j \in 0 .. Slots - 1 :
               i < j /\ txLen[Ahead(txpos, i)] = "filled" => txLen[Ahead(txpos, j)] = "filled"
  <2>1. PICK m \in 0 .. Slots : Region(txLen, Forth(t), m) /\ txpos = Ahead(Forth(t), m)
    BY <1>3 DEF TxRegion, Running
  <2>2. Forth(t) \in Slot
    BY ForthBack DEF TypeOK
  <2>3. QED
    BY <2>1, <2>2, RegionLast
<1>4. QED
  BY <1>2, <1>3 DEF InPlace, Ahead

-----------------------------------------------------------------------------
(* A ring read as a queue: the filled slots in rising order of distance.   *)

\* s is the set D of numbers, in rising order.
Lists(s, n, D) ==
  /\ s \in [1 .. n -> D]
  /\ \A d \in D : \E k \in 1 .. n : s[k] = d
  /\ \A j, k \in 1 .. n : j < k => s[j] < s[k]

\* A list names each number once, and those up to its k-th are k.
LEMMA ListCounts ==
  ASSUME NEW D \in SUBSET Nat, NEW n \in Nat, NEW s, Lists(s, n, D)
  PROVE  /\ IsFiniteSet(D)
         /\ Cardinality(D) = n
         /\ \A k \in 1 .. n : Cardinality({e \in D : e <= s[k]}) = k
<1> USE DEF Lists
<1>1. ASSUME NEW m \in 0 .. n, NEW E, E = {s[k] : k \in 1 .. m}
      PROVE  IsFiniteSet(E) /\ Cardinality(E) = m
  <2> DEFINE f == [k \in 1 .. m |-> s[k]]
  <2>1. \A k \in 1 .. m : k \in 1 .. n
    OBVIOUS
  <2>2. f \in [1 .. m -> E] /\ \A e \in E : \E k \in 1 .. m : f[k] = e
    BY <1>1
  <2>3. \A j, k \in 1 .. m : s[j] \in Nat /\ s[k] \in Nat /\ (j < k => s[j] < s[k])
    BY <2>1
  <2>4. \A j, k \in 1 .. m : f[j] = f[k] => j = k
    BY <2>3
  <2>5. f \in Bijection(1 .. m, E)
    BY <2>2, <2>4 DEF Bijection, Injection, Surjection, IsInjective
  <2>6. IsFiniteSet(1 .. m) /\ Cardinality(1 .. m) = m
    BY FS_Interval
  <2>7. ExistsBijection(1 .. m, E)
    BY <2>5 DEF ExistsBijection
  <2>8. QED
    BY <2>6, <2>7, FS_Bijection
<1>2. D = {s[k] : k \in 1 .. n}
  OBVIOUS
<1>3. IsFiniteSet(D) /\ Cardinality(D) = n
  <2>1. n \in 0 .. n
    OBVIOUS
  <2> HIDE DEF Lists
  <2>2. QED
    BY <1>1, <1>2, <2>1, Zenon
<1>4. ASSUME NEW k \in 1 .. n
      PROVE  Cardinality({e \in D : e <= s[k]}) = k
  <2>1. \A i \in 1 .. n : s[i] \in Nat /\ (s[i] <= s[k] <=> i <= k)
    <3> TAKE i \in 1 .. n
    <3>1. s[i] \in Nat /\ s[k] \in Nat
      OBVIOUS
    <3>2. (i < k => s[i] < s[k]) /\ (k < i => s[k] < s[i]) /\ (i = k => s[i] = s[k])
      OBVIOUS
    <3>3. QED
      BY <3>1, <3>2
  <2>2. {e \in D : e <= s[k]} = {s[i] : i \in 1 .. k}
    <3>1. ASSUME NEW e \in D, e <= s[k] PROVE \E i \in 1 .. k : s[i] = e
      <4>1. PICK i \in 1 .. n : s[i] = e
        OBVIOUS
      <4>2. QED
        BY <2>1, <3>1, <4>1
    <3>2. ASSUME NEW i \in 1 .. k PROVE s[i] \in D /\ s[i] <= s[k]
      BY <2>1
    <3>3. QED
      BY <3>1, <3>2
  <2>3. QED
    BY <1>1, <2>2
<1>5. QED
  BY <1>3, <1>4

\* Nth goes through a set as its list does.
LEMMA NthIsListed ==
  ASSUME NEW D \in SUBSET Nat, NEW n \in Nat, NEW s, Lists(s, n, D), NEW k \in 1 .. n
  PROVE  Nth(D, k) = s[k]
<1>1. s[k] \in D
  BY DEF Lists
<1>2. Cardinality({e \in D : e <= s[k]}) = k
  BY ListCounts
<1>3. ASSUME NEW d \in D, Cardinality({e \in D : e <= d}) = k PROVE d = s[k]
  <2>1. PICK j \in 1 .. n : s[j] = d
    BY DEF Lists
  <2>2. Cardinality({e \in D : e <= s[j]}) = j
    BY ListCounts
  <2>3. QED
    BY <1>3, <2>1, <2>2
<1>4. QED
  BY <1>1, <1>2, <1>3 DEF Nth

\* Every set of slots has a list, by Nth.
LEMMA SlotsListed ==
  ASSUME NEW D \in SUBSET Slot
  PROVE  /\ IsFiniteSet(D)
         /\ Cardinality(D) \in 0 .. Slots
         /\ Lists([k \in 1 .. Cardinality(D) |-> Nth(D, k)], Cardinality(D), D)
<1>1. IsFiniteSet(Slot) /\ Cardinality(Slot) = Slots
  <2>1. Slots - 1 \in Int /\ 0 \in Int /\ ~ (0 > Slots - 1) /\ Slots - 1 - 0 + 1 = Slots
    BY Lev1Assumption
  <2>2. QED
    BY <2>1, FS_Interval DEF Slot
<1>2. /\ IsFiniteSet(D)
      /\ Cardinality(D) \in Nat
      /\ Cardinality(D) <= Slots
  BY <1>1, FS_Subset, FS_CardinalityType
<1> DEFINE n == Cardinality(D)
           Upto(d) == {e \in D : e <= d}
           rank == [d \in D |-> Cardinality(Upto(d))]
<1>3. ASSUME NEW d \in D
      PROVE  IsFiniteSet(Upto(d)) /\ Cardinality(Upto(d)) \in 1 .. n
  <2>1. d \in Upto(d) /\ Upto(d) \in SUBSET D
    BY SlotRange
  <2>2. IsFiniteSet(Upto(d)) /\ Cardinality(Upto(d)) <= n
    BY <1>2, <2>1, FS_Subset
  <2>3. Cardinality(Upto(d)) \in Nat /\ Cardinality(Upto(d)) # 0
    BY <2>1, <2>2, FS_CardinalityType, FS_EmptySet
  <2> HIDE DEF Upto
  <2>4. QED
    BY <1>2, <2>2, <2>3
<1>4. ASSUME NEW c \in D, NEW d \in D, c < d
      PROVE  rank[c] < rank[d]
  <2>1. Upto(c) \in SUBSET Upto(d) /\ d \in Upto(d) /\ d \notin Upto(c)
    BY <1>4, SlotRange
  <2>2. Cardinality(Upto(c)) <= Cardinality(Upto(d)) /\ Cardinality(Upto(c)) # Cardinality(Upto(d))
    BY <1>3, <2>1, FS_Subset
  <2>3. Cardinality(Upto(c)) \in Nat /\ Cardinality(Upto(d)) \in Nat
    BY <1>3
  <2> HIDE DEF Upto
  <2>4. QED
    BY <2>2, <2>3
<1>5. rank \in [D -> 1 .. n]
  BY <1>3
<1> HIDE DEF Upto
<1>6. rank \in Injection(D, 1 .. n)
  <2>1. ASSUME NEW c \in D, NEW d \in D, rank[c] = rank[d] PROVE c = d
    <3>1. c \in Nat /\ d \in Nat /\ rank[c] \in Nat /\ rank[d] \in Nat
      BY <1>5, SlotRange
    <3>2. ~ (c < d) /\ ~ (d < c)
      BY <1>4, <2>1, <3>1
    <3>3. QED
      BY <3>1, <3>2
  <2>2. QED
    BY <1>5, <2>1 DEF Injection, IsInjective
<1>7. rank \in Surjection(D, 1 .. n)
  <2>1. IsFiniteSet(1 .. n) /\ Cardinality(1 .. n) = n
    BY <1>2, FS_Interval
  <2>2. QED
    BY <1>6, <2>1, FS_Injection
<1>8. ASSUME NEW k \in 1 .. n PROVE Nth(D, k) \in D /\ rank[Nth(D, k)] = k
  <2>1. \E d \in D : Cardinality({e \in D : e <= d}) = k
    BY <1>7 DEF Surjection, Upto
  <2>2. Nth(D, k) \in D /\ Cardinality({e \in D : e <= Nth(D, k)}) = k
    BY <2>1 DEF Nth
  <2>3. QED
    BY <2>2 DEF Upto
<1>9. ASSUME NEW j \in 1 .. n, NEW k \in 1 .. n, j < k PROVE Nth(D, j) < Nth(D, k)
  <2>1. /\ Nth(D, j) \in D /\ rank[Nth(D, j)] = j /\ Nth(D, k) \in D /\ rank[Nth(D, k)] = k
    BY <1>8
  <2>2. Nth(D, j) \in Nat /\ Nth(D, k) \in Nat
    BY <2>1, SlotRange
  <2>3. Nth(D, j) # Nth(D, k) /\ ~ (Nth(D, k) < Nth(D, j))
    <3>1. ~ (rank[Nth(D, k)] < rank[Nth(D, j)])
      BY <1>9, <2>1
    <3>2. QED
      BY <1>4, <1>9, <2>1, <3>1
  <2>4. QED
    BY <2>2, <2>3
<1>10. ASSUME NEW d \in D PROVE \E k \in 1 .. n : Nth(D, k) = d
  <2>1. rank[d] \in 1 .. n
    BY <1>5
  <2>2. rank[Nth(D, rank[d])] = rank[d] /\ Nth(D, rank[d]) \in D
    BY <1>8, <2>1
  <2>3. Nth(D, rank[d]) = d
    BY <1>6, <2>2 DEF Injection, IsInjective
  <2>4. QED
    BY <2>1, <2>3
<1>11. Lists([k \in 1 .. n |-> Nth(D, k)], n, D)
  BY <1>8, <1>9, <1>10 DEF Lists
<1>12. QED
  BY <1>2, <1>11

\* What a slot can hold.
Body == SU \cup {NoSU}

\* A queue read off a list of the filled slots.
LEMMA WaitingListed ==
  ASSUME NEW len, NEW body, NEW first \in Slot,
         NEW n \in Nat, NEW s, Lists(s, n, Filled(len, first))
  PROVE  Waiting(len, body, first) = [k \in 1 .. n |-> body[Ahead(first, s[k])]]
<1>1. Filled(len, first) \in SUBSET Nat
  BY SlotRange DEF Filled
<1>2. Cardinality(Filled(len, first)) = n
  BY <1>1, ListCounts
<1>3. \A k \in 1 .. n : Nth(Filled(len, first), k) = s[k]
  BY <1>1, NthIsListed
<1>4. QED
  BY <1>2, <1>3 DEF Waiting, Ahead

\* There is such a list.
LEMMA FilledListed ==
  ASSUME NEW len, NEW first \in Slot
  PROVE  \E n \in 0 .. Slots : \E s \in [1 .. n -> Slot] : Lists(s, n, Filled(len, first))
<1> DEFINE D == Filled(len, first)
           n == Cardinality(D)
           s == [k \in 1 .. n |-> Nth(D, k)]
<1>1. D \in SUBSET Slot
  BY DEF Filled
<1> HIDE DEF D
<1>2. n \in 0 .. Slots /\ Lists(s, n, D)
  BY <1>1, SlotsListed
<1> HIDE DEF n, s
<1>3. s \in [1 .. n -> Slot]
  BY <1>1, <1>2 DEF Lists
<1>4. QED
  BY <1>2, <1>3 DEF D

LEMMA WaitingIsQueue ==
  ASSUME NEW len, NEW body \in [Slot -> Body], NEW first \in Slot
  PROVE  /\ Waiting(len, body, first) \in Seq(Body)
         /\ Len(Waiting(len, body, first)) \in 0 .. Slots
         /\ Waiting(len, body, first) = <<>> <=> \A i \in Slot : len[i] # "filled"
<1>0. PICK n \in 0 .. Slots : \E s \in [1 .. n -> Slot] : Lists(s, n, Filled(len, first))
  BY FilledListed
<1>1. PICK s \in [1 .. n -> Slot] : Lists(s, n, Filled(len, first))
  BY <1>0
<1>2. \A k \in 1 .. n : Ahead(first, s[k]) \in Slot
  BY AheadIs, SlotRange
<1>3. n \in Nat
  BY SlotRange
<1> DEFINE q == [k \in 1 .. n |-> body[Ahead(first, s[k])]]
<1>4. q \in Seq(Body) /\ Len(q) = n /\ (q = <<>> <=> n = 0)
  BY <1>2, <1>3
<1>5. n = 0 <=> \A i \in Slot : len[i] # "filled"
  <2>1. ASSUME n = 0, NEW i \in Slot, len[i] = "filled" PROVE FALSE
    <3>1. PICK d \in Slot : i = Ahead(first, d)
      BY AheadReaches
    <3>2. d \in Filled(len, first)
      BY <2>1, <3>1 DEF Filled, Ahead
    <3>3. QED
      BY <1>1, <2>1, <3>2 DEF Lists
  <2>2. ASSUME n # 0 PROVE \E i \in Slot : len[i] = "filled"
    <3>1. 1 \in 1 .. n
      BY <1>3, <2>2
    <3>2. s[1] \in Filled(len, first)
      BY <1>1, <3>1 DEF Lists
    <3>3. len[Ahead(first, s[1])] = "filled"
      BY <3>2 DEF Filled, Ahead
    <3>4. QED
      BY <1>2, <3>1, <3>3
  <2>3. QED
    BY <2>1, <2>2
<1>6. Waiting(len, body, first) = q
  BY <1>1, <1>3, WaitingListed
<1>7. QED
  BY <1>4, <1>5, <1>6

\* A slot changed, its length or its body.
With(f, i, x) == [f EXCEPT ![i] = x]

\* What is written into a slot that is not filled does not show.
LEMMA WaitingUnwritten ==
  ASSUME NEW len, NEW body \in [Slot -> Body], NEW first \in Slot,
         NEW i \in Slot, len[i] # "filled", NEW su
  PROVE  Waiting(len, With(body, i, su), first) = Waiting(len, body, first)
<1>0. PICK n \in 0 .. Slots : \E s \in [1 .. n -> Slot] : Lists(s, n, Filled(len, first))
  BY FilledListed
<1>1. PICK s \in [1 .. n -> Slot] : Lists(s, n, Filled(len, first))
  BY <1>0
<1>2. ASSUME NEW k \in 1 .. n
      PROVE  With(body, i, su)[Ahead(first, s[k])] = body[Ahead(first, s[k])]
  <2>1. Ahead(first, s[k]) \in Slot
    BY AheadIs, SlotRange
  <2>2. len[Ahead(first, s[k])] = "filled"
    BY <1>1 DEF Lists, Filled, Ahead
  <2>3. QED
    BY <2>1, <2>2 DEF With
<1>3. [k \in 1 .. n |-> With(body, i, su)[Ahead(first, s[k])]]
        = [k \in 1 .. n |-> body[Ahead(first, s[k])]]
  BY <1>2
<1>4. n \in Nat
  BY SlotRange
<1>5. \A b : Waiting(len, b, first) = [k \in 1 .. n |-> b[Ahead(first, s[k])]]
  BY <1>1, <1>4, WaitingListed
<1>6. QED
  BY <1>3, <1>5, Zenon

\* A position may move over a slot that is not filled.
LEMMA WaitingMovesOn ==
  ASSUME NEW len, NEW body, NEW first \in Slot, len[first] # "filled"
  PROVE  Waiting(len, body, Forth(first)) = Waiting(len, body, first)
<1>0. PICK n \in 0 .. Slots : \E s \in [1 .. n -> Slot] : Lists(s, n, Filled(len, first))
  BY FilledListed
<1>1. PICK s \in [1 .. n -> Slot] : Lists(s, n, Filled(len, first))
  BY <1>0
<1>2. Forth(first) \in Slot /\ n \in Nat
  BY ForthBack, SlotRange
<1> DEFINE u == [k \in 1 .. n |-> s[k] - 1]
<1>3. ASSUME NEW k \in 1 .. n
      PROVE  /\ s[k] \in 1 .. Slots - 1
             /\ s[k] - 1 \in Slot
             /\ Ahead(Forth(first), s[k] - 1) = Ahead(first, s[k])
             /\ s[k] - 1 \in Filled(len, Forth(first))
  <2>1. len[Ahead(first, s[k])] = "filled"
    BY <1>1 DEF Lists, Filled, Ahead
  <2>2. s[k] # 0
    BY <2>1, AheadNone
  <2>3. s[k] \in 1 .. Slots - 1 /\ s[k] - 1 \in 0 .. Slots - 1 /\ (s[k] - 1) + 1 = s[k]
    BY <2>2, Lev1Assumption, SMTT(60) DEF Slot
  <2>4. Ahead(Forth(first), s[k] - 1) = Ahead(first, s[k])
    BY <2>3, AheadNext
  <2>5. QED
    BY <2>1, <2>3, <2>4 DEF Slot, Filled, Ahead
<1>4. ASSUME NEW d \in Filled(len, Forth(first)) PROVE \E k \in 1 .. n : s[k] - 1 = d
  <2>1. d \in Slot /\ len[Ahead(Forth(first), d)] = "filled"
    BY DEF Filled, Ahead
  <2>2. Ahead(Forth(first), d) = Ahead(first, d + 1)
    BY <2>1, AheadNext DEF Slot
  <2>3. d + 1 # Slots
    BY <2>1, <2>2, AheadNone
  <2>4. d + 1 \in Slot /\ (d + 1) - 1 = d
    BY <2>1, <2>3, Lev1Assumption DEF Slot
  <2>5. d + 1 \in Filled(len, first)
    BY <2>1, <2>2, <2>4 DEF Filled, Ahead
  <2>6. QED
    BY <1>1, <2>4, <2>5 DEF Lists
<1>5. ASSUME NEW j \in 1 .. n, NEW k \in 1 .. n, j < k PROVE s[j] - 1 < s[k] - 1
  <2>1. s[j] < s[k] /\ s[j] \in Nat /\ s[k] \in Nat
    BY <1>1, <1>5, SlotRange DEF Lists
  <2>2. QED
    BY <2>1
<1>6. Lists(u, n, Filled(len, Forth(first)))
  BY <1>3, <1>4, <1>5 DEF Lists
<1>7. Waiting(len, body, Forth(first)) = [k \in 1 .. n |-> body[Ahead(Forth(first), u[k])]]
  <2> HIDE DEF u
  <2>1. QED
    BY <1>2, <1>6, WaitingListed
<1>8. Waiting(len, body, first) = [k \in 1 .. n |-> body[Ahead(first, s[k])]]
  BY <1>1, <1>2, WaitingListed
<1>9. QED
  BY <1>3, <1>7, <1>8

\* u is the list s of D with d behind its first c numbers.
Puts(s, n, D, d, c, u) ==
  /\ (\A e \in D : e < d) => c = n
  /\ Lists(u, n + 1, D \cup {d})
  /\ u[c + 1] = d
  /\ \A k \in 1 .. n : (k <= c => u[k] = s[k]) /\ (c < k => u[k + 1] = s[k])

\* One more number comes into the list where its size says.
LEMMA ListGrows ==
  ASSUME NEW D, D \in SUBSET Nat, NEW n \in Nat, NEW s, Lists(s, n, D), NEW d, d \in Nat \ D
  PROVE  \E c \in 0 .. n : \E u : Puts(s, n, D, d, c, u)
<1> DEFINE E == {e \in D : e < d}
           c == Cardinality(E)
           Upto(k) == {e \in D : e <= s[k]}
<1>0. IsFiniteSet(D) /\ Cardinality(D) = n
  BY ListCounts
<1>1. \A k \in 1 .. n : Cardinality(Upto(k)) = k
  BY ListCounts
<1>2. \A k \in 1 .. n : s[k] \in D /\ s[k] \in Nat /\ s[k] # d
  BY DEF Lists
<1>3. E \in SUBSET D
  OBVIOUS
<1>4. IsFiniteSet(E) /\ c \in Nat /\ c <= n
  BY <1>0, <1>3, FS_Subset, FS_CardinalityType
<1>5. ASSUME NEW k \in 1 .. n
      PROVE  s[k] < d <=> k <= c
  <2>1. Cardinality(Upto(k)) = k /\ Upto(k) \in SUBSET D
    BY <1>1
  <2>2. CASE s[k] < d
    <3>1. ASSUME NEW e \in Upto(k) PROVE e \in E
      <4>1. e \in D /\ e \in Nat /\ e <= s[k]
        OBVIOUS
      <4>2. e < d
        BY <1>2, <2>2, <4>1
      <4>3. QED
        BY <4>1, <4>2
    <3>2. Cardinality(Upto(k)) <= Cardinality(E)
      BY <1>4, <3>1, FS_Subset
    <3>3. k <= c
      BY <2>1, <3>2
    <3>4. QED
      BY <2>2, <3>3
  <2>3. CASE d < s[k]
    <3>1. ASSUME NEW e \in E PROVE e \in Upto(k)
      <4>1. e \in D /\ e \in Nat /\ e < d
        OBVIOUS
      <4>2. e <= s[k]
        BY <1>2, <2>3, <4>1
      <4>3. QED
        BY <4>1, <4>2
    <3>2. IsFiniteSet(Upto(k))
      BY <1>0, <2>1, FS_Subset
    <3>3. s[k] \in Upto(k)
      BY <1>2
    <3>4. s[k] \notin E
      BY <1>2, <2>3
    <3>5. c <= k /\ c # k
      BY <2>1, <3>1, <3>2, <3>3, <3>4, FS_Subset, ZenonT(60)
    <3> HIDE DEF E, c, Upto
    <3>6. ~ (s[k] < d)
      BY <1>2, <2>3
    <3>7. ~ (k <= c)
      BY <1>4, <3>5
    <3>8. QED
      BY <3>6, <3>7
  <2>4. QED
    BY <1>2, <2>2, <2>3
<1>6. (\A e \in D : e < d) => c = n
  <2>1. (\A e \in D : e < d) => E = D
    OBVIOUS
  <2>2. QED
    BY <1>0, <2>1
<1> HIDE DEF E, c, Upto
<1>7. c \in 0 .. n
  BY <1>4
<1> DEFINE u == [k \in 1 .. n + 1 |-> IF k <= c THEN s[k] ELSE IF k = c + 1 THEN d ELSE s[k - 1]]
<1>8. \A k \in 1 .. n : (k <= c => u[k] = s[k]) /\ (c < k => u[k + 1] = s[k])
  <2> TAKE k \in 1 .. n
  <2>1. k \in 1 .. n + 1 /\ k + 1 \in 1 .. n + 1 /\ (k + 1) - 1 = k
    OBVIOUS
  <2>2. c < k => ~ (k + 1 <= c) /\ k + 1 # c + 1
    BY <1>7
  <2>3. QED
    BY <2>1, <2>2
<1>9. c + 1 \in 1 .. n + 1 /\ u[c + 1] = d
  BY <1>7
<1>10. ASSUME NEW m \in 1 .. n + 1
       PROVE  \/ m <= c /\ m \in 1 .. n /\ u[m] = s[m] /\ s[m] < d
              \/ m = c + 1 /\ u[m] = d
              \/ c + 1 < m /\ m - 1 \in 1 .. n /\ u[m] = s[m - 1] /\ d < s[m - 1]
  <2>1. CASE m <= c
    <3>1. m \in 1 .. n
      BY <1>7, <2>1
    <3>2. QED
      BY <1>5, <1>8, <2>1, <3>1
  <2>2. CASE m = c + 1
    BY <1>9, <2>2
  <2>3. CASE c + 1 < m
    <3>1. m - 1 \in 1 .. n /\ c < m - 1 /\ ~ (m - 1 <= c) /\ (m - 1) + 1 = m
      BY <1>7, <2>3
    <3>2. u[m] = s[m - 1] /\ ~ (s[m - 1] < d)
      BY <1>5, <1>8, <3>1
    <3>3. s[m - 1] \in Nat /\ s[m - 1] # d
      BY <1>2, <3>1
    <3>4. d < s[m - 1]
      BY <3>2, <3>3
    <3>5. QED
      BY <2>3, <3>1, <3>2, <3>4
  <2>4. QED
    BY <1>7, <2>1, <2>2, <2>3
<1>11. \A m \in 1 .. n + 1 : u[m] \in D \cup {d}
  BY <1>2, <1>10
<1>14. u \in [1 .. n + 1 -> D \cup {d}]
  BY <1>11
<1> HIDE DEF u
<1>12. ASSUME NEW e \in D \cup {d} PROVE \E m \in 1 .. n + 1 : u[m] = e
  <2>1. CASE e = d
    BY <1>9, <2>1
  <2>2. CASE e # d
    <3>1. PICK k \in 1 .. n : s[k] = e
      BY <2>2 DEF Lists
    <3>2. CASE k <= c
      <4>1. k \in 1 .. n + 1 /\ u[k] = e
        BY <1>8, <3>1, <3>2
      <4>2. QED
        BY <4>1
    <3>3. CASE c < k
      <4>1. k + 1 \in 1 .. n + 1 /\ u[k + 1] = e
        BY <1>8, <3>1, <3>3
      <4>2. QED
        BY <4>1
    <3>4. QED
      BY <1>7, <3>2, <3>3
  <2>3. QED
    BY <2>1, <2>2
<1>13. ASSUME NEW j \in 1 .. n + 1, NEW m \in 1 .. n + 1, j < m PROVE u[j] < u[m]
  <2>1. \A a, b \in 1 .. n : a < b => s[a] < s[b]
    BY DEF Lists
  <2>2. CASE m <= c
    <3>1. j \in 1 .. n /\ m \in 1 .. n /\ u[j] = s[j] /\ u[m] = s[m]
      BY <1>7, <1>10, <1>13, <2>2
    <3>2. QED
      BY <1>13, <2>1, <3>1
  <2>3. CASE m = c + 1
    <3>1. u[m] = d /\ u[j] = s[j] /\ s[j] < d
      BY <1>7, <1>10, <1>13, <2>3
    <3>2. QED
      BY <3>1
  <2>4. CASE c + 1 < m
    <3>1. m - 1 \in 1 .. n /\ u[m] = s[m - 1] /\ d < s[m - 1] /\ s[m - 1] \in Nat
      BY <1>2, <1>7, <1>10, <2>4
    <3>2. CASE j <= c
      <4>1. j \in 1 .. n /\ u[j] = s[j] /\ j < m - 1
        BY <1>7, <1>10, <2>4, <3>2
      <4>2. QED
        BY <2>1, <3>1, <4>1
    <3>3. CASE j = c + 1
      BY <1>9, <3>1, <3>3
    <3>4. CASE c + 1 < j
      <4>1. j - 1 \in 1 .. n /\ u[j] = s[j - 1] /\ j - 1 < m - 1
        BY <1>7, <1>10, <1>13, <3>4
      <4>2. QED
        BY <2>1, <3>1, <4>1
    <3>5. QED
      BY <1>7, <3>2, <3>3, <3>4
  <2>5. QED
    BY <1>7, <2>2, <2>3, <2>4
<1>15. Lists(u, n + 1, D \cup {d})
  BY <1>12, <1>13, <1>14 DEF Lists
<1>16. QED
  BY <1>6, <1>7, <1>8, <1>9, <1>15 DEF Puts

\* Without its least number, a list begins with the next.
LEMMA ListShrinks ==
  ASSUME NEW D \in SUBSET Nat, NEW n \in Nat, NEW s, Lists(s, n, D),
         NEW d, d \in D, \A e \in D : d <= e
  PROVE  /\ n # 0
         /\ s[1] = d
         /\ Lists([k \in 1 .. n - 1 |-> s[k + 1]], n - 1, D \ {d})
<1>1. PICK i \in 1 .. n : s[i] = d
  BY DEF Lists
<1>2. 1 \in 1 .. n /\ s[1] \in Nat
  <2>1. 1 \in 1 .. n
    BY <1>1
  <2>2. QED
    BY <2>1 DEF Lists
<1>3. i = 1
  <2>1. ASSUME 1 < i PROVE FALSE
    <3>1. s[1] < s[i] /\ s[1] \in D /\ s[i] \in Nat
      BY <1>2, <2>1 DEF Lists
    <3>2. d <= s[1]
      BY <3>1
    <3>3. QED
      BY <1>1, <1>2, <3>1, <3>2
  <2>2. QED
    BY <2>1
<1> DEFINE u == [k \in 1 .. n - 1 |-> s[k + 1]]
<1>4. ASSUME NEW k \in 1 .. n - 1
      PROVE  k + 1 \in 1 .. n /\ u[k] = s[k + 1] /\ s[k + 1] \in D \ {d}
  <2>1. k + 1 \in 1 .. n /\ 1 < k + 1
    OBVIOUS
  <2>2. s[1] < s[k + 1] /\ s[k + 1] \in D
    BY <1>2, <2>1 DEF Lists
  <2>3. QED
    BY <1>1, <1>2, <1>3, <2>1, <2>2
<1>5. ASSUME NEW e \in D \ {d} PROVE \E k \in 1 .. n - 1 : u[k] = e
  <2>1. PICK k \in 1 .. n : s[k] = e
    BY DEF Lists
  <2>2. k # 1
    BY <1>1, <1>3, <2>1
  <2>3. k - 1 \in 1 .. n - 1 /\ (k - 1) + 1 = k
    BY <2>2
  <2>4. u[k - 1] = e
    BY <2>1, <2>3
  <2>5. QED
    BY <2>3, <2>4
<1>6. ASSUME NEW j \in 1 .. n - 1, NEW k \in 1 .. n - 1, j < k PROVE u[j] < u[k]
  <2>1. j + 1 \in 1 .. n /\ k + 1 \in 1 .. n /\ j + 1 < k + 1
    BY <1>6
  <2>2. QED
    BY <2>1 DEF Lists
<1>7. Lists(u, n - 1, D \ {d})
  BY <1>4, <1>5, <1>6 DEF Lists
<1>8. QED
  BY <1>1, <1>2, <1>3, <1>7

LEMMA FunctionIsSequence ==
  ASSUME NEW V, NEW n \in Nat, NEW f \in [1 .. n -> V]
  PROVE  f \in Seq(V) /\ Len(f) = n
OBVIOUS

\* What InsertAt makes of a sequence.
LEMMA InsertIs ==
  ASSUME NEW V, NEW q \in Seq(V), NEW p \in 1 .. Len(q) + 1, NEW e \in V,
         NEW z \in Seq(V), Len(z) = Len(q) + 1, z[p] = e,
         \A k \in 1 .. Len(q) : (k < p => z[k] = q[k]) /\ (p <= k => z[k + 1] = q[k])
  PROVE  z = InsertAt(q, p, e)
<1> DEFINE front == SubSeq(q, 1, p - 1)
           back == SubSeq(q, p, Len(q))
           n == Len(q)
<1>1. n \in Nat /\ p \in Nat /\ p >= 1 /\ p <= n + 1
  OBVIOUS
<1>2. /\ front \in Seq(V) /\ Len(front) = p - 1
      /\ \A k \in 1 .. p - 1 : front[k] = q[k]
  BY <1>1
<1>3. /\ back \in Seq(V) /\ Len(back) = n - p + 1
      /\ \A k \in 1 .. n - p + 1 : back[k] = q[p + k - 1]
  BY <1>1
<1> HIDE DEF front, back
<1>4. <<e>> \in Seq(V) /\ Len(<<e>>) = 1 /\ <<e>>[1] = e
  OBVIOUS
<1> DEFINE mid == front \o <<e>>
<1>5. /\ mid \in Seq(V) /\ Len(mid) = p
      /\ \A k \in 1 .. p - 1 : mid[k] = front[k]
      /\ mid[p] = e
  BY <1>1, <1>2, <1>4, SMTT(60)
<1> HIDE DEF mid
<1> DEFINE all == mid \o back
<1>6. /\ all \in Seq(V) /\ Len(all) = n + 1
      /\ \A k \in 1 .. p : all[k] = mid[k]
      /\ \A k \in p + 1 .. n + 1 : all[k] = back[k - p]
  BY <1>1, <1>3, <1>5
<1> HIDE DEF all
<1>7. ASSUME NEW k \in 1 .. n + 1 PROVE z[k] = all[k]
  <2>1. CASE k < p
    <3>1. k \in 1 .. n /\ k \in 1 .. p - 1 /\ k \in 1 .. p
      BY <1>1, <2>1
    <3>2. QED
      BY <1>2, <1>5, <1>6, <2>1, <3>1
  <2>2. CASE k = p
    BY <1>1, <1>5, <1>6, <2>2
  <2>3. CASE p < k
    <3>1. PICK j \in 1 .. n : k = j + 1 /\ p <= j
      BY <1>1, <2>3
    <3>2. k \in p + 1 .. n + 1 /\ k - p \in 1 .. n - p + 1 /\ p + (k - p) - 1 = j
      BY <1>1, <2>3, <3>1
    <3>3. all[k] = q[j]
      BY <1>3, <1>6, <3>2
    <3>4. z[k] = q[j]
      BY <3>1
    <3>5. QED
      BY <3>3, <3>4
  <2>4. QED
    BY <1>1, <2>1, <2>2, <2>3
<1>8. z = all
  BY <1>6, <1>7, SeqEqual
<1>9. QED
  BY <1>8 DEF all, mid, front, back, InsertAt

\* A slot filled, a slot freed.
LEMMA FilledChanges ==
  ASSUME NEW len \in [Slot -> {"filled", "marked"}], NEW first \in Slot, NEW d \in Slot
  PROVE  /\ Filled(With(len, Ahead(first, d), "filled"), first) = Filled(len, first) \cup {d}
         /\ Filled(With(len, Ahead(first, d), "marked"), first) = Filled(len, first) \ {d}
<1>1. \A e \in Slot : Ahead(first, e) \in Slot /\ (Ahead(first, e) = Ahead(first, d) <=> e = d)
  BY AheadIs, AheadApart, SlotRange
<1>2. ASSUME NEW x \in {"filled", "marked"}, NEW len2, len2 = With(len, Ahead(first, d), x)
      PROVE  /\ len2[Ahead(first, d)] = x
             /\ \A e \in Slot : e # d => len2[Ahead(first, e)] = len[Ahead(first, e)]
  BY <1>1, <1>2 DEF With
<1>3. \A z : Filled(z, first) = {e \in Slot : z[Ahead(first, e)] = "filled"}
  BY DEF Filled, Ahead
<1> DEFINE D     == Filled(len, first)
           on    == With(len, Ahead(first, d), "filled")
           off   == With(len, Ahead(first, d), "marked")
           D2(z) == Filled(z, first)
<1>4. \A z, e : e \in D2(z) <=> e \in Slot /\ z[Ahead(first, e)] = "filled"
  BY <1>3
<1>5. \A e : e \in D <=> e \in Slot /\ len[Ahead(first, e)] = "filled"
  BY <1>3
<1>6. D2(on) = D \cup {d}
  <2>1. /\ on[Ahead(first, d)] = "filled"
        /\ \A e \in Slot : e # d => on[Ahead(first, e)] = len[Ahead(first, e)]
    BY <1>2
  <2> HIDE DEF D, D2, on
  <2>2. QED
    BY <1>4, <1>5, <2>1
<1>7. D2(off) = D \ {d}
  <2>1. /\ off[Ahead(first, d)] = "marked"
        /\ \A e \in Slot : e # d => off[Ahead(first, e)] = len[Ahead(first, e)]
    BY <1>2
  <2> HIDE DEF D, D2, off
  <2>2. QED
    BY <1>4, <1>5, <2>1
<1>8. QED
  BY <1>6, <1>7

\* The SU in the slot that is handed over goes in where its distance says, at
\* the end when the slot is ahead of all that are filled.
LEMMA WaitingGrows ==
  ASSUME NEW len \in [Slot -> {"filled", "marked"}], NEW body \in [Slot -> Body],
         NEW first \in Slot, NEW d \in Slot, len[Ahead(first, d)] # "filled"
  PROVE  LET q    == Waiting(len, body, first)
             next == Waiting(With(len, Ahead(first, d), "filled"), body, first)
         IN  /\ Len(q) < Slots
             /\ \E p \in 1 .. Len(q) + 1 :
                  /\ (\A e \in Slot : len[Ahead(first, e)] = "filled" => e < d) => p = Len(q) + 1
                  /\ next = InsertAt(q, p, body[Ahead(first, d)])
<1>6. Filled(With(len, Ahead(first, d), "filled"), first) = Filled(len, first) \cup {d}
  BY FilledChanges
<1> DEFINE q    == Waiting(len, body, first)
           D    == Filled(len, first)
           len2 == With(len, Ahead(first, d), "filled")
           next == Waiting(len2, body, first)
<1>0. PICK n \in 0 .. Slots : \E s \in [1 .. n -> Slot] : Lists(s, n, D)
  BY FilledListed
<1>1. PICK s \in [1 .. n -> Slot] : Lists(s, n, D)
  BY <1>0
<1>2. n \in Nat /\ d \in Nat \ D /\ D \in SUBSET Nat
  BY SlotRange DEF Filled, Ahead
<1>3. q = [k \in 1 .. n |-> body[Ahead(first, s[k])]]
  BY <1>1, <1>2, WaitingListed
<1> HIDE DEF D
<1>4. PICK c \in 0 .. n : \E u : Puts(s, n, D, d, c, u)
  BY <1>1, <1>2, ListGrows, Zenon
<1>5. PICK u : Puts(s, n, D, d, c, u)
  BY <1>4
<1>20. /\ (\A e \in D : e < d) => c = n
      /\ Lists(u, n + 1, D \cup {d})
      /\ u[c + 1] = d
      /\ \A k \in 1 .. n : (k <= c => u[k] = s[k]) /\ (c < k => u[k + 1] = s[k])
  BY <1>5 DEF Puts
<1>21. u \in [1 .. n + 1 -> D \cup {d}]
  BY <1>20 DEF Lists
<1> USE DEF D
<1>7. next = [k \in 1 .. n + 1 |-> body[Ahead(first, u[k])]]
  <2>1. Lists(u, n + 1, Filled(len2, first))
    BY <1>20, <1>6
  <2> HIDE DEF len2
  <2>2. n + 1 \in Nat
    BY <1>2
  <2>3. QED
    BY <2>1, <2>2, WaitingListed
<1>8. n + 1 <= Slots
  <2>1. D \cup {d} \in SUBSET Slot /\ D \cup {d} \in SUBSET Nat
    BY SlotRange DEF Filled
  <2> HIDE DEF D
  <2>2. Cardinality(D \cup {d}) \in 0 .. Slots
    BY <2>1, SlotsListed
  <2>3. n + 1 \in Nat
    BY <1>2
  <2>4. Cardinality(D \cup {d}) = n + 1
    BY <1>20, <2>1, <2>3, ListCounts
  <2>5. QED
    BY <2>2, <2>4, SlotRange
<1>9. \A k \in 1 .. n : Ahead(first, s[k]) \in Slot
  BY AheadIs, SlotRange
<1>10. \A k \in 1 .. n + 1 : Ahead(first, u[k]) \in Slot
  <2>1. D \cup {d} \in SUBSET Slot
    BY DEF Filled
  <2>2. QED
    BY <1>21, <2>1, AheadIs, SlotRange
<1>11. q \in Seq(Body) /\ Len(q) = n
  <2>1. q \in [1 .. n -> Body]
    BY <1>3, <1>9
  <2> HIDE DEF q
  <2>2. QED
    BY <1>2, <2>1, FunctionIsSequence
<1>12. next \in Seq(Body) /\ Len(next) = n + 1
  <2>1. next \in [1 .. n + 1 -> Body]
    BY <1>7, <1>10
  <2>2. n + 1 \in Nat
    BY <1>2
  <2> HIDE DEF next
  <2>3. QED
    BY <2>1, <2>2, FunctionIsSequence
<1> HIDE DEF q, next, len2, D
<1>13. c + 1 \in 1 .. n + 1 /\ next[c + 1] = body[Ahead(first, d)]
  <2>1. c + 1 \in 1 .. n + 1
    BY <1>2
  <2>2. QED
    BY <1>20, <1>7, <2>1
<1>14. ASSUME NEW k \in 1 .. n
       PROVE  (k < c + 1 => next[k] = q[k]) /\ (c + 1 <= k => next[k + 1] = q[k])
  <2>1. k \in 1 .. n + 1 /\ k + 1 \in 1 .. n + 1 /\ q[k] = body[Ahead(first, s[k])]
    BY <1>2, <1>3
  <2>2. next[k] = body[Ahead(first, u[k])] /\ next[k + 1] = body[Ahead(first, u[k + 1])]
    BY <1>7, <2>1
  <2>3. (k < c + 1 => u[k] = s[k]) /\ (c + 1 <= k => u[k + 1] = s[k])
    BY <1>2, <1>20
  <2>4. QED
    BY <2>1, <2>2, <2>3
<1>15. body[Ahead(first, d)] \in Body
  BY AheadIs, SlotRange
<1>16. next = InsertAt(q, c + 1, body[Ahead(first, d)])
  BY <1>11, <1>12, <1>13, <1>14, <1>15, InsertIs, ZenonT(60)
<1>17. (\A e \in Slot : len[Ahead(first, e)] = "filled" => e < d) => c + 1 = Len(q) + 1
  BY <1>20, <1>11 DEF D, Filled, Ahead
<1>18. Len(q) < Slots /\ c + 1 \in 1 .. Len(q) + 1
  BY <1>2, <1>8, <1>11, <1>13, SlotRange
<1>19. QED
  BY <1>16, <1>17, <1>18 DEF q, next, len2

\* The first of the filled slots is freed: its SU was the head of the queue.
LEMMA WaitingShrinks ==
  ASSUME NEW len \in [Slot -> {"filled", "marked"}], NEW body \in [Slot -> Body],
         NEW first \in Slot, NEW d \in Slot, len[Ahead(first, d)] = "filled",
         \A e \in Slot : len[Ahead(first, e)] = "filled" => d <= e
  PROVE  LET q == Waiting(len, body, first)
         IN  /\ q # <<>>
             /\ Head(q) = body[Ahead(first, d)]
             /\ Waiting(With(len, Ahead(first, d), "marked"), body, first) = Tail(q)
<1>5. Filled(With(len, Ahead(first, d), "marked"), first) = Filled(len, first) \ {d}
  BY FilledChanges
<1> DEFINE q    == Waiting(len, body, first)
           D    == Filled(len, first)
           len2 == With(len, Ahead(first, d), "marked")
           next == Waiting(len2, body, first)
<1>0. PICK n \in 0 .. Slots : \E s \in [1 .. n -> Slot] : Lists(s, n, D)
  BY FilledListed
<1>1. PICK s \in [1 .. n -> Slot] : Lists(s, n, D)
  BY <1>0
<1>2. n \in Nat /\ d \in D /\ D \in SUBSET Nat /\ \A e \in D : d <= e
  BY SlotRange DEF Filled, Ahead
<1>3. q = [k \in 1 .. n |-> body[Ahead(first, s[k])]]
  BY <1>1, <1>2, WaitingListed
<1> DEFINE u == [k \in 1 .. n - 1 |-> s[k + 1]]
<1>4. n # 0 /\ s[1] = d /\ Lists(u, n - 1, D \ {d})
  BY <1>1, <1>2, ListShrinks
<1>6. next = [k \in 1 .. n - 1 |-> body[Ahead(first, u[k])]]
  <2>1. Lists(u, n - 1, Filled(len2, first))
    BY <1>4, <1>5
  <2> HIDE DEF len2, u
  <2>2. n - 1 \in Nat
    BY <1>2, <1>4
  <2>3. QED
    BY <2>1, <2>2, WaitingListed
<1>7. \A k \in 1 .. n : Ahead(first, s[k]) \in Slot
  BY AheadIs, SlotRange
<1>8. q \in Seq(Body) /\ Len(q) = n
  <2>1. q \in [1 .. n -> Body]
    BY <1>3, <1>7
  <2> HIDE DEF q
  <2>2. QED
    BY <1>2, <2>1, FunctionIsSequence
<1>9. next = [k \in 1 .. n - 1 |-> body[Ahead(first, s[k + 1])]]
  BY <1>6
<1> HIDE DEF q, next, len2, D, u
<1>10. q # <<>> /\ 1 \in 1 .. n
  BY <1>2, <1>4, <1>8
<1>11. Head(q) = body[Ahead(first, d)]
  <2>1. Head(q) = q[1]
    BY <1>8, <1>10
  <2>2. QED
    BY <1>3, <1>4, <1>10, <2>1
<1>12. /\ Tail(q) \in Seq(Body) /\ Len(Tail(q)) = n - 1
       /\ \A k \in 1 .. n - 1 : Tail(q)[k] = q[k + 1]
  BY <1>8, <1>10, HeadTailProperties
<1>13. ASSUME NEW k \in 1 .. n - 1 PROVE next[k] = Tail(q)[k] /\ next[k] \in Body
  <2>1. k + 1 \in 1 .. n
    BY <1>2
  <2>2. QED
    BY <1>3, <1>7, <1>9, <1>12, <2>1
<1>14. next \in Seq(Body) /\ Len(next) = n - 1
  BY <1>2, <1>4, <1>9, <1>13
<1>15. next = Tail(q)
  BY <1>12, <1>13, <1>14, SeqEqual
<1>16. QED
  BY <1>10, <1>11, <1>15 DEF q, next, len2

LEMMA InsertAtEnd ==
  ASSUME NEW V, NEW q \in Seq(V), NEW e \in V
  PROVE  InsertAt(q, Len(q) + 1, e) = Append(q, e)
<1> DEFINE z == Append(q, e)
<1>1. z \in Seq(V) /\ Len(z) = Len(q) + 1 /\ z[Len(q) + 1] = e
      /\ \A k \in 1 .. Len(q) : z[k] = q[k]
  OBVIOUS
<1>2. /\ Len(q) + 1 \in 1 .. Len(q) + 1
      /\ \A k \in 1 .. Len(q) : k < Len(q) + 1 /\ ~ (Len(q) + 1 <= k)
  OBVIOUS
<1> HIDE DEF z
<1>3. z = InsertAt(q, Len(q) + 1, e)
  BY <1>1, <1>2, InsertIs
<1>4. QED
  BY <1>3 DEF z

-----------------------------------------------------------------------------
(* The steps of the link process and of the HDLC layer, as steps of the    *)
(* two queues.                                                             *)

\* A slot that is about to be handed over has been written.
Written ==
  /\ hdlcRx = "begun" => rxBody[r] \in SU
  /\ pc = "tx" => txBody[txpos] \in SU

LEMMA NextWritten == TypeOK /\ Written /\ [Next]_vars => Written'
<1> SUFFICES ASSUME TypeOK, Written, [Next]_vars PROVE Written'
  OBVIOUS
<1>1. /\ rxBody \in [Slot -> SU \cup {NoSU}] /\ txBody \in [Slot -> SU \cup {NoSU}]
      /\ r \in Slot /\ txpos \in Slot
      /\ traffic.rx \subseteq SU /\ traffic.tx \subseteq SU
  BY Lev1Assumption DEF TypeOK
<1>2. CASE HdlcFills
  BY <1>1, <1>2 DEF Written, HdlcFills, linkVars
<1>3. CASE TxBegins
  BY <1>1, <1>3 DEF Written, TxBegins, hdlcVars
<1>4. CASE Start \/ SearchBack \/ SearchEnds \/ RxBegins \/ RxEnds \/ TxEnds \/ Crash
  BY <1>4 DEF Written, Start, SearchBack, SearchEnds, RxBegins, RxEnds, TxEnds, Crash,
              rings, hdlcVars
<1>5. CASE HdlcHandsOver \/ HdlcSends \/ HdlcHasSent \/ UNCHANGED vars
  BY <1>5 DEF Written, HdlcHandsOver, HdlcSends, HdlcHasSent, vars, rings, hdlcVars, linkVars
<1>6. QED
  BY <1>2, <1>3, <1>4, <1>5 DEF Next, Link, Hdlc

\* rx_msg() frees the slot that comes first.
LEMMA RxEndsReads ==
  ASSUME TypeOK, HandedOver, RxRegion, RxEnds
  PROVE  Queues!Reads
<1>1. PICK b \in Slot, n \in 0 .. Slots :
        /\ Region(rxLen, b, n)
        /\ r = Ahead(b, n)
        /\ Running => rxpos = b
  BY DEF RxRegion
<1>2. /\ rxLen \in [Slot -> {"filled", "marked"}] /\ rxBody \in [Slot -> Body]
      /\ r \in Slot
  BY DEF TypeOK, Body
<1>3. /\ rxpos = b
      /\ rxLen[b] = "filled"
      /\ got' = rxBody[b]
      /\ rxLen' = With(rxLen, b, "marked")
      /\ UNCHANGED <<rxBody, r, txLen, txBody, t, sent, disturbed>>
  BY <1>1 DEF RxEnds, HandedOver, Running, hdlcVars, With
<1>4. PICK d \in Slot : d = Slots - n
  <2>1. n # 0
    BY <1>1, <1>3, RegionHas
  <2>2. QED
    BY <2>1, SlotRange DEF Slot
<1>5. n + d = Slots /\ n \in Nat
  BY <1>4, SlotRange
<1>6. Ahead(r, d) = b
  <2>1. Ahead(Ahead(b, n), d) = Ahead(b, n + d - Slots)
    BY <1>5, AheadTwice, SlotRange
  <2>2. n + d - Slots = 0
    BY <1>5, SlotRange
  <2>3. QED
    BY <1>1, <2>1, <2>2, AheadNone
<1>7. ASSUME NEW e \in Slot, rxLen[Ahead(r, e)] = "filled" PROVE d <= e
  <2>1. SUFFICES ASSUME e < d PROVE FALSE
    BY SlotRange
  <2>2. n + e < Slots /\ n + e \in Slot /\ ~ (n + e < n)
    BY <1>5, <2>1, SlotRange DEF Slot
  <2>3. Ahead(r, e) = Ahead(b, n + e)
    BY <1>1, <2>2, AheadTwice
  <2>4. QED
    BY <1>1, <1>7, <2>2, <2>3 DEF Region
<1> DEFINE q == Waiting(rxLen, rxBody, r)
<1>8. /\ q # <<>>
      /\ Head(q) = rxBody[b]
      /\ Waiting(With(rxLen, b, "marked"), rxBody, r) = Tail(q)
  BY <1>2, <1>3, <1>6, <1>7, WaitingShrinks
<1>9. QED
  BY <1>3, <1>8 DEF Queues!Reads

\* The HDLC layer hands over the slot that comes last.
LEMMA HdlcHandsOverArrives ==
  ASSUME TypeOK, HandedOver, Written, HdlcHandsOver
  PROVE  \E su \in SU : Queues!Arrives(su)
<1>1. /\ rxLen \in [Slot -> {"filled", "marked"}] /\ rxBody \in [Slot -> Body]
      /\ r \in Slot /\ Forth(r) \in Slot
  BY ForthBack DEF TypeOK, Body
<1>2. /\ rxLen[r] # "filled"
      /\ rxBody[r] \in SU
      /\ rxLen' = With(rxLen, r, "filled")
      /\ r' = Forth(r)
      /\ UNCHANGED <<rxBody, txLen, txBody, t, got, sent, disturbed>>
  BY DEF HdlcHandsOver, HandedOver, Written, history, With
<1>3. PICK d \in Slot : d = Slots - 1
  BY SlotRange
<1>4. Ahead(Forth(r), d) = r
  BY <1>1, <1>3, AheadBack, BackForth
<1>5. \A e \in Slot : rxLen[Ahead(Forth(r), e)] = "filled" => e < d
  <2> TAKE e \in Slot
  <2>1. e # d => e < d
    BY <1>3, SlotRange
  <2>2. QED
    BY <1>2, <1>4, <2>1
<1> DEFINE q == Waiting(rxLen, rxBody, r)
<1>6. q = Waiting(rxLen, rxBody, Forth(r))
  BY <1>1, <1>2, WaitingMovesOn
<1>7. /\ Len(q) < Slots
      /\ Waiting(With(rxLen, r, "filled"), rxBody, Forth(r)) = InsertAt(q, Len(q) + 1, rxBody[r])
  BY <1>1, <1>2, <1>4, <1>5, <1>6, WaitingGrows, SMTT(60)
<1>8. q \in Seq(Body)
  BY <1>1, WaitingIsQueue
<1>9. InsertAt(q, Len(q) + 1, rxBody[r]) = Append(q, rxBody[r])
  BY <1>1, <1>8, InsertAtEnd
<1>10. QED
  BY <1>2, <1>7, <1>9 DEF Queues!Arrives

\* tx_msg() fills a slot; with no restart behind it, the slot that comes last.
LEMMA TxEndsPlaces ==
  ASSUME TypeOK, HandedOver, TxRegion, Written, TxEnds
  PROVE  \E su \in SU : Queues!Places(su)
<1>1. /\ txLen \in [Slot -> {"filled", "marked"}] /\ txBody \in [Slot -> Body]
      /\ txpos \in Slot /\ Forth(t) \in Slot
  BY ForthBack DEF TypeOK, Body
<1>2. /\ txLen[txpos] # "filled"
      /\ txBody[txpos] \in SU
      /\ txLen' = With(txLen, txpos, "filled")
      /\ UNCHANGED <<rxLen, rxBody, r, txBody, t, got, sent, disturbed>>
  BY DEF TxEnds, HandedOver, Written, hdlcVars, history, With
<1>3. PICK d \in Slot : txpos = Ahead(Forth(t), d)
  BY <1>1, AheadReaches
<1>4. ~ disturbed => \A e \in Slot : txLen[Ahead(Forth(t), e)] = "filled" => e < d
  <2>1. SUFFICES ASSUME ~ disturbed, NEW e \in Slot, txLen[Ahead(Forth(t), e)] = "filled"
                 PROVE  e < d
    OBVIOUS
  <2>2. PICK n \in 0 .. Slots : Region(txLen, Forth(t), n) /\ txpos = Ahead(Forth(t), n)
    BY <2>1 DEF TxRegion, TxEnds
  <2>3. n \in Slot
    <3>1. n < Slots
      BY <1>1, <1>2, <2>2, RegionHas
    <3>2. QED
      BY <3>1, SlotRange DEF Slot
  <2>4. n = d
    BY <1>1, <1>3, <2>2, <2>3, AheadApart
  <2>5. QED
    BY <2>1, <2>2, <2>4 DEF Region
<1> DEFINE q == Waiting(txLen, txBody, Forth(t))
<1>5. /\ Len(q) < Slots
      /\ \E p \in 1 .. Len(q) + 1 :
           /\ p = Len(q) + 1 \/ disturbed
           /\ Waiting(With(txLen, txpos, "filled"), txBody, Forth(t))
                = InsertAt(q, p, txBody[txpos])
  BY <1>1, <1>2, <1>3, <1>4, WaitingGrows
<1>6. QED
  BY <1>2, <1>5 DEF Queues!Places, Queues!InsertAt, InsertAt

\* The HDLC layer frees the slot that comes first, and goes on to the next.
LEMMA HdlcHasSentSends ==
  ASSUME TypeOK, HandedOver, HdlcHasSent
  PROVE  Queues!Sends
<1> DEFINE h == Forth(t)
           q == Waiting(txLen, txBody, h)
<1>1. /\ txLen \in [Slot -> {"filled", "marked"}] /\ txBody \in [Slot -> Body]
      /\ h \in Slot
  BY ForthBack DEF TypeOK, Body
<1>2. /\ txLen[h] = "filled"
      /\ sent' = txBody[h]
      /\ txLen' = With(txLen, h, "marked")
      /\ t' = h
      /\ UNCHANGED <<rxLen, rxBody, r, txBody, got, disturbed>>
  BY DEF HdlcHasSent, HandedOver, With
<1>3. 0 \in Slot /\ Ahead(h, 0) = h /\ \A e \in Slot : 0 <= e
  BY <1>1, AheadNone, SlotRange
<1> HIDE DEF h
<1>4. /\ q # <<>>
      /\ Head(q) = txBody[h]
      /\ Waiting(With(txLen, h, "marked"), txBody, h) = Tail(q)
  BY <1>1, <1>2, <1>3, WaitingShrinks
<1>5. With(txLen, h, "marked")[h] # "filled"
  BY <1>1 DEF With
<1>6. Waiting(With(txLen, h, "marked"), txBody, Forth(h)) = Tail(q)
  BY <1>1, <1>4, <1>5, WaitingMovesOn
<1>7. QED
  BY <1>2, <1>4, <1>6 DEF Queues!Sends, h

\* Both queues are empty in the beginning.
LEMMA InitQueues == Init => Queues!Init
<1> SUFFICES ASSUME Init PROVE Queues!Init
  OBVIOUS
<1>1. TypeOK
  BY InitTyped
<1>2. /\ rxBody \in [Slot -> Body] /\ txBody \in [Slot -> Body]
      /\ r \in Slot /\ Forth(t) \in Slot
  BY <1>1, ForthBack DEF TypeOK, Body
<1>3. \A i \in Slot : rxLen[i] # "filled" /\ txLen[i] # "filled"
  BY DEF Init
<1>4. Waiting(rxLen, rxBody, r) = <<>> /\ Waiting(txLen, txBody, Forth(t)) = <<>>
  BY <1>2, <1>3, WaitingIsQueue
<1>5. QED
  BY <1>4 DEF Init, Queues!Init

LEMMA NextQueues ==
  ASSUME IInv, Written, [Next]_vars
  PROVE  [Queues!Next]_(Queues!queueVars)
<1> USE DEF IInv
<1> DEFINE rxq == Waiting(rxLen, rxBody, r)
           txq == Waiting(txLen, txBody, Forth(t))
<1>1. /\ rxLen \in [Slot -> {"filled", "marked"}] /\ txLen \in [Slot -> {"filled", "marked"}]
      /\ rxBody \in [Slot -> Body] /\ txBody \in [Slot -> Body]
      /\ r \in Slot /\ txpos \in Slot /\ Forth(t) \in Slot
  BY ForthBack DEF TypeOK, Body
<1>2. CASE Start
  <2>1. txq # <<>> <=> ToBeSent # {}
    BY <1>1, WaitingIsQueue DEF ToBeSent
  <2>2. /\ disturbed' = (disturbed \/ ToBeSent # {})
        /\ UNCHANGED <<rxLen, rxBody, r, txLen, txBody, t, got, sent>>
    BY <1>2 DEF Start, rings, hdlcVars
  <2>3. Queues!Restarts
    BY <2>1, <2>2 DEF Queues!Restarts
  <2>4. QED
    BY <2>3 DEF Queues!Next
<1>3. CASE RxEnds
  BY <1>3, RxEndsReads DEF Queues!Next
<1>4. CASE TxBegins
  <2>1. PICK su : txBody' = With(txBody, txpos, su)
    BY <1>4 DEF TxBegins, With
  <2>2. txLen[txpos] # "filled" /\ UNCHANGED <<rxLen, rxBody, r, txLen, t, got, sent, disturbed>>
    BY <1>4 DEF TxBegins, hdlcVars, history
  <2>3. Waiting(txLen, With(txBody, txpos, su), Forth(t)) = txq
    BY <1>1, <2>2, WaitingUnwritten
  <2>4. QED
    BY <2>1, <2>2, <2>3 DEF Queues!queueVars
<1>5. CASE TxEnds
  BY <1>5, TxEndsPlaces DEF Queues!Next
<1>6. CASE HdlcFills
  <2>1. PICK su : rxBody' = With(rxBody, r, su)
    BY <1>6 DEF HdlcFills, With
  <2>2. rxLen[r] # "filled" /\ UNCHANGED <<rxLen, r, txLen, txBody, t, got, sent, disturbed>>
    BY <1>6 DEF HdlcFills, history
  <2>3. Waiting(rxLen, With(rxBody, r, su), r) = rxq
    BY <1>1, <2>2, WaitingUnwritten
  <2>4. QED
    BY <2>1, <2>2, <2>3 DEF Queues!queueVars
<1>7. CASE HdlcHandsOver
  BY <1>7, HdlcHandsOverArrives DEF Queues!Next
<1>8. CASE HdlcHasSent
  BY <1>8, HdlcHasSentSends DEF Queues!Next
<1>9. CASE SearchBack \/ SearchEnds \/ RxBegins \/ Crash \/ HdlcSends \/ UNCHANGED vars
  <2>1. UNCHANGED <<rxLen, rxBody, r, txLen, txBody, t, got, sent, disturbed>>
    BY <1>9 DEF SearchBack, SearchEnds, RxBegins, Crash, HdlcSends, vars, rings, hdlcVars, history
  <2>2. QED
    BY <2>1 DEF Queues!queueVars
<1>10. QED
  BY <1>2, <1>3, <1>4, <1>5, <1>6, <1>7, <1>8, <1>9 DEF Next, Link, Hdlc

-----------------------------------------------------------------------------
(* The theorems. *)

LEMMA Invariance == Spec => []IInv
<1>1. Init => IInv
  BY InitTyped, InitRegions DEF IInv
<1>2. IInv /\ [Next]_vars => IInv'
  BY NextTyped, NextHandedOver, NextRxRegion, NextTxRegion DEF IInv
<1>3. QED
  BY <1>1, <1>2, PTL DEF Spec

\* Every variable keeps its type; the positions stay in the ring.
THEOREM Typed == Spec => []TypeOK
<1>1. IInv => TypeOK
  BY DEF IInv
<1>2. QED
  BY <1>1, Invariance, PTL

\* A slot that rx_msg(), tx_msg() or the HDLC layer is about is never the other
\* side's, whenever a link process dies and another is started.
THEOREM SlotsHandedOver == Spec => []HandedOver
<1>1. IInv => HandedOver
  BY DEF IInv
<1>2. QED
  BY <1>1, Invariance, PTL

\* init() finds the oldest SU that has not been read, and the place after the last
\* one to be sent.
THEOREM InitFindsPlaces == Spec => []InPlace
<1>1. IInv => InPlace
  BY RegionsInPlace DEF IInv
<1>2. QED
  BY <1>1, Invariance, PTL

\* The SU that the HDLC layer is sending is not written.
THEOREM SentAsPlaced == Spec => SentWhole
<1>1. IInv /\ [Next]_vars =>
        [hdlcTx = "begun" /\ hdlcTx' = "begun" =>
           t' = t /\ txBody'[Forth(t)] = txBody[Forth(t)]]_vars
  BY StepSentWhole DEF IInv
<1>2. QED
  BY <1>1, Invariance, PTL DEF Spec, SentWhole

\* The shared memory is two queues, whatever the size of the rings: every SU goes
\* through once, whole, in order, over every crash and restart, but for those that
\* overtake others after a restart that found SUs to be sent.
THEOREM ShmImplementsQueues == Spec => ImplementsQueues
<1>1. Init => Written
  BY DEF Init, Written
<1>2. IInv /\ Written /\ [Next]_vars => Written'
  BY NextWritten DEF IInv
<1>3. Init => Queues!Init
  BY InitQueues
<1>4. IInv /\ Written /\ [Next]_vars => [Queues!Next]_(Queues!queueVars)
  BY NextQueues
<1>5. QED
  BY <1>1, <1>2, <1>3, <1>4, Invariance, PTL DEF Spec, ImplementsQueues, Queues!Spec
=============================================================================
