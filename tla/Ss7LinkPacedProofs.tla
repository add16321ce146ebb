------------------------- MODULE Ss7LinkPacedProofs -------------------------
(***************************************************************************)
(* Proofs about Ss7LinkPaced, for every modulus, ring size and bound: two  *)
(* links in service that tick in turn never ask for a retransmission that  *)
(* nothing has made necessary.                                             *)
(***************************************************************************)
EXTENDS Ss7LinkPaced, Ss7LinkPairProofs

-----------------------------------------------------------------------------
(* What is under way when nothing was lost: q in the receive ring of a side *)
(* that has taken the number x, s in the transmit ring of the other side,   *)
(* whose last number sent is t.                                             *)

Msus(q) == \A i \in 1 .. Len(q) : q[i].kind = "MSU"

\* Nobody asks for anything again, and the MSUs continue from x.
Numbered(x, q) == \A i \in 1 .. Len(q) :
  /\ q[i].kind \in {"FISU", "MSU"}
  /\ q[i].hdr.bib = 1
  /\ q[i].kind = "MSU" => q[i].hdr.fsn = (x + i) % SeqMod

\* What the side whose turn it is has sent in this tick, so far a burst.
Burst(x, s, t) == /\ Msus(s) /\ Numbered(x, s)
                  /\ t = (x + Len(s)) % SeqMod

\* What a whole tick has sent: a burst, or a FISU, or nothing.
Sent(x, q, s, t) ==
  /\ Numbered(x, q) /\ Numbered(x + Len(q), s)
  /\ \/ Msus(q) /\ Msus(s) /\ t = (x + Len(q) + Len(s)) % SeqMod
     \/ Len(q) + Len(s) = 1 /\ ~ (Msus(q) /\ Msus(s)) /\ t = x

LEMMA SeqnoSame == \A x \in Seqno : x \in Int /\ x % SeqMod = x
  BY SeqAssumption DEF Seqno

LEMMA EmptySeq ==
  /\ <<>> \in Seq(SU) /\ Len(<<>>) = 0
  /\ \A i \in 1 .. Len(<<>>) : FALSE
  OBVIOUS

LEMMA LenNat == \A q \in Seq(SU) : Len(q) \in Nat /\ (Len(q) = 0 <=> q = <<>>)
  OBVIOUS

LEMMA OneInIt ==
  ASSUME NEW q \in Seq(SU), Len(q) = 1
  PROVE  Tail(q) = <<>> /\ \A i \in 1 .. Len(q) : i = 1
<1>1. q # <<>>
  BY EmptySeq
<1>2. Tail(q) \in Seq(SU) /\ Len(Tail(q)) = 0
  BY <1>1
<1>3. Tail(q) = <<>>
  BY <1>2, LenNat
<1>4. QED
  BY <1>3

\* The tick ends: the burst is on its way.
LEMMA BurstSent ==
  ASSUME NEW x \in Seqno, NEW s \in Seq(SU), NEW t, Burst(x, s, t)
  PROVE  Sent(x, <<>>, s, t)
<1>1. x \in Int /\ x + Len(<<>>) = x /\ x + Len(<<>>) + Len(s) = x + Len(s)
  BY SeqnoSame
<1>2. Numbered(x, <<>>) /\ Msus(<<>>)
  BY EmptySeq, Zenon DEF Numbered, Msus
<1>3. QED
  BY <1>1, <1>2, Zenon DEF Burst, Sent

LEMMA NoneSent ==
  ASSUME NEW x \in Seqno, NEW t
  PROVE  Sent(x, <<>>, <<>>, t) <=> t = x
<1>1. x \in Int /\ x + Len(<<>>) + Len(<<>>) = x /\ x % SeqMod = x /\ Len(<<>>) + Len(<<>>) # 1
  BY SeqnoSame
<1>2. (\A y : Numbered(y, <<>>)) /\ Msus(<<>>)
  BY EmptySeq, Zenon DEF Numbered, Msus
<1>3. QED
  BY <1>1, <1>2, Zenon DEF Sent

LEMMA NoBurst ==
  ASSUME NEW x \in Seqno, NEW t
  PROVE  Burst(x, <<>>, t) <=> t = x
<1>1. x \in Int /\ x + Len(<<>>) = x /\ x % SeqMod = x
  BY SeqnoSame
<1>2. Numbered(x, <<>>) /\ Msus(<<>>)
  BY EmptySeq, Zenon DEF Numbered, Msus
<1>3. QED
  BY <1>1, <1>2, Zenon DEF Burst

LEMMA FisuSent ==
  ASSUME NEW x \in Seqno, NEW su \in SU, su.kind = "FISU", su.hdr.bib = 1
  PROVE  Sent(x, <<>>, Append(<<>>, su), x)
<1> DEFINE s == Append(<<>>, su)
<1>1. s \in Seq(SU) /\ Len(s) = 1 /\ s[1] = su /\ \A i \in 1 .. Len(s) : i = 1
  OBVIOUS
<1> HIDE DEF s
<1>2. Numbered(x, <<>>)
  BY EmptySeq, Zenon DEF Numbered
<1>3. Numbered(x + Len(<<>>), s)
  BY <1>1 DEF Numbered
<1>4. ~ Msus(s)
  BY <1>1 DEF Msus
<1>5. Len(<<>>) + Len(s) = 1
  BY <1>1
<1>6. QED
  BY <1>2, <1>3, <1>4, <1>5, Zenon DEF Sent, s

\* One more MSU of the burst.
LEMMA BurstGrows ==
  ASSUME NEW x \in Seqno, NEW s \in Seq(SU), NEW t, Burst(x, s, t),
         NEW su \in SU, su.kind = "MSU", su.hdr.bib = 1, su.hdr.fsn = (t + 1) % SeqMod
  PROVE  Burst(x, Append(s, su), (t + 1) % SeqMod)
<1>1. x \in Int /\ x + Len(s) \in Int /\ Len(Append(s, su)) = Len(s) + 1
      /\ (x + Len(s)) + 1 = x + Len(Append(s, su))
  BY SeqnoSame
<1>2. (t + 1) % SeqMod = (x + Len(Append(s, su))) % SeqMod
  BY <1>1, ModPlus DEF Burst
<1>3. Msus(Append(s, su))
  BY AppendAt, Zenon DEF Burst, Msus
<1>4. Numbered(x, Append(s, su))
  <2> SUFFICES ASSUME NEW i \in 1 .. Len(Append(s, su))
               PROVE  /\ Append(s, su)[i].kind \in {"FISU", "MSU"}
                      /\ Append(s, su)[i].hdr.bib = 1
                      /\ Append(s, su)[i].kind = "MSU" =>
                           Append(s, su)[i].hdr.fsn = (x + i) % SeqMod
    BY Zenon DEF Numbered
  <2>1. CASE i \in 1 .. Len(s) /\ Append(s, su)[i] = s[i]
    BY <2>1, Zenon DEF Burst, Numbered
  <2>2. CASE i = Len(s) + 1 /\ Append(s, su)[i] = su
    BY <1>1, <1>2, <2>2, Zenon
  <2>3. QED
    BY <2>1, <2>2, AppendAt
<1>5. QED
  BY <1>2, <1>3, <1>4, Zenon DEF Burst

\* The receiver takes an MSU, which is the next one, ...
LEMMA MsuTaken ==
  ASSUME NEW x \in Seqno, NEW q \in Seq(SU), NEW t, Sent(x, q, <<>>, t),
         q # <<>>, Head(q).kind = "MSU"
  PROVE  /\ Head(q).hdr.fsn = (x + 1) % SeqMod
         /\ Sent((x + 1) % SeqMod, Tail(q), <<>>, t)
<1> DEFINE y == (x + 1) % SeqMod
<1>1. x \in Int /\ y \in Seqno /\ y \in Int
  BY SeqnoSame, SeqnoMod
<1>2. \A c \in Int : (y + c) % SeqMod = (x + 1 + c) % SeqMod
  BY <1>1, ModPlus
<1>3. /\ 1 \in 1 .. Len(q) /\ Head(q) = q[1]
      /\ Tail(q) \in Seq(SU) /\ Len(Tail(q)) \in Int /\ Len(q) = Len(Tail(q)) + 1
      /\ Len(<<>>) = 0
  OBVIOUS
<1>4. Head(q).hdr.fsn = y
  BY <1>3, Zenon DEF Sent, Numbered
<1>5. Msus(q) /\ t = (x + Len(q) + Len(<<>>)) % SeqMod
  <2>1. ASSUME Len(q) + Len(<<>>) = 1 PROVE Msus(q) /\ Msus(<<>>)
    <3>0. Len(q) = 1
      BY <2>1, LenNat, EmptySeq
    <3>1. \A i \in 1 .. Len(q) : i = 1
      BY <3>0, OneInIt
    <3>2. QED
      BY <1>3, <3>1, EmptySeq, Zenon DEF Msus
  <2>2. QED
    BY <2>1, Zenon DEF Sent
<1> HIDE DEF y
<1>6. t = (y + Len(Tail(q)) + Len(<<>>)) % SeqMod
  <2>1. (y + Len(Tail(q))) % SeqMod = (x + 1 + Len(Tail(q))) % SeqMod
    BY <1>2, <1>3
  <2>2. x + 1 + Len(Tail(q)) = x + Len(q) + Len(<<>>) /\ y + Len(Tail(q)) + Len(<<>>) = y + Len(Tail(q))
    BY <1>1, <1>3
  <2>3. QED
    BY <1>5, <2>1, <2>2
<1>7. Msus(Tail(q))
  BY <1>5, TailAt, Zenon DEF Msus
<1>8. Numbered(y, Tail(q))
  <2> SUFFICES ASSUME NEW i \in 1 .. Len(Tail(q))
               PROVE  /\ Tail(q)[i].kind \in {"FISU", "MSU"}
                      /\ Tail(q)[i].hdr.bib = 1
                      /\ Tail(q)[i].kind = "MSU" => Tail(q)[i].hdr.fsn = (y + i) % SeqMod
    BY Zenon DEF Numbered
  <2>1. i + 1 \in 1 .. Len(q) /\ Tail(q)[i] = q[i + 1]
    BY TailAt
  <2>2. (y + i) % SeqMod = (x + (i + 1)) % SeqMod
    <3>1. i \in Int /\ x + 1 + i = x + (i + 1)
      BY <1>1
    <3>2. QED
      BY <1>2, <3>1, Zenon
  <2>3. QED
    BY <2>1, <2>2, Zenon DEF Sent, Numbered
<1>9. \A z : Numbered(z, <<>>)
  BY EmptySeq, Zenon DEF Numbered
<1>10. Msus(<<>>)
  BY EmptySeq, Zenon DEF Msus
<1>11. QED
  BY <1>4, <1>6, <1>7, <1>8, <1>9, <1>10, Zenon DEF Sent, y

\* ... or a FISU, which was alone.
LEMMA FisuTaken ==
  ASSUME NEW x \in Seqno, NEW q \in Seq(SU), NEW t, Sent(x, q, <<>>, t),
         q # <<>>, Head(q).kind = "FISU"
  PROVE  Sent(x, Tail(q), <<>>, t)
<1>1. 1 \in 1 .. Len(q) /\ Head(q) = q[1] /\ Len(<<>>) = 0 /\ Len(q) \in Nat
  OBVIOUS
<1>2. ~ Msus(q)
  BY <1>1 DEF Msus
<1>3. Len(q) = 1 /\ t = x
  BY <1>1, <1>2 DEF Sent
<1>4. Tail(q) = <<>>
  BY <1>3, OneInIt
<1>5. QED
  BY <1>3, <1>4, NoneSent, ZenonT(60)

\* The line takes an SU: it arrives, or it is a FISU and dropped.
LEMMA SentArrives ==
  ASSUME NEW x \in Seqno, NEW q \in Seq(SU), NEW s \in Seq(SU), NEW t, Sent(x, q, s, t),
         s # <<>>
  PROVE  Sent(x, Append(q, Head(s)), Tail(s), t)
<1> DEFINE su == Head(s)
           p == Append(q, su)
           r == Tail(s)
<1>1. /\ x \in Int /\ su \in SU /\ su = s[1] /\ 1 \in 1 .. Len(s)
      /\ p \in Seq(SU) /\ r \in Seq(SU)
      /\ Len(p) = Len(q) + 1 /\ Len(s) = Len(r) + 1 /\ Len(q) \in Int /\ Len(r) \in Int
  BY SeqnoSame
<1>2. Len(p) + Len(r) = Len(q) + Len(s) /\ x + Len(p) + Len(r) = x + Len(q) + Len(s)
  BY <1>1
<1>3. \A i \in 1 .. Len(p) : \/ i \in 1 .. Len(q) /\ p[i] = q[i]
                             \/ i = Len(q) + 1 /\ p[i] = su
  BY <1>1, AppendAt
<1>4. \A i \in 1 .. Len(r) : i + 1 \in 1 .. Len(s) /\ r[i] = s[i + 1]
  BY TailAt
<1>5. p[Len(q) + 1] = su /\ Len(q) + 1 \in 1 .. Len(p)
      /\ \A i \in 1 .. Len(q) : i \in 1 .. Len(p) /\ p[i] = q[i]
  BY <1>1
<1>6. \A i \in 1 .. Len(s) : i = 1 \/ (i - 1 \in 1 .. Len(r) /\ r[i - 1] = s[i])
  BY <1>1
<1> HIDE DEF su, p, r
<1>7. Msus(p) /\ Msus(r) <=> Msus(q) /\ Msus(s)
  <2>1. ASSUME Msus(p), Msus(r) PROVE Msus(q) /\ Msus(s)
    <3>1. \A i \in 1 .. Len(p) : p[i].kind = "MSU"
      BY <2>1, Zenon DEF Msus
    <3>2. Msus(q)
      <4>1. \A i \in 1 .. Len(q) : i \in 1 .. Len(p) /\ p[i] = q[i]
        BY <1>5, Zenon
      <4>2. \A i \in 1 .. Len(q) : q[i].kind = "MSU"
        BY <3>1, <4>1, Zenon
      <4>3. QED
        BY <4>2, Zenon DEF Msus
    <3>3. su.kind = "MSU"
      BY <1>5, <3>1
    <3>4. ASSUME NEW i \in 1 .. Len(s) PROVE s[i].kind = "MSU"
      <4>1. CASE i = 1
        BY <1>1, <3>3, <4>1
      <4>2. CASE i - 1 \in 1 .. Len(r) /\ r[i - 1] = s[i]
        BY <2>1, <4>2, Zenon DEF Msus
      <4>3. QED
        BY <1>6, <4>1, <4>2, Zenon
    <3>5. QED
      BY <3>2, <3>4, Zenon DEF Msus
  <2>2. ASSUME Msus(q), Msus(s) PROVE Msus(p) /\ Msus(r)
    <3>1. su.kind = "MSU"
      BY <1>1, <2>2, Zenon DEF Msus
    <3>2. Msus(p)
      BY <1>3, <2>2, <3>1, Zenon DEF Msus
    <3>3. Msus(r)
      BY <1>4, <2>2, Zenon DEF Msus
    <3>4. QED
      BY <3>2, <3>3
  <2>3. QED
    BY <2>1, <2>2
<1>8. Numbered(x, p)
  <2> SUFFICES ASSUME NEW i \in 1 .. Len(p)
               PROVE  /\ p[i].kind \in {"FISU", "MSU"} /\ p[i].hdr.bib = 1
                      /\ p[i].kind = "MSU" => p[i].hdr.fsn = (x + i) % SeqMod
    BY Zenon DEF Numbered
  <2>1. CASE i \in 1 .. Len(q) /\ p[i] = q[i]
    BY <2>1, Zenon DEF Sent, Numbered
  <2>2. CASE i = Len(q) + 1 /\ p[i] = su
    <3>1. x + Len(q) + 1 = x + i
      BY <1>1, <2>2
    <3>2. QED
      BY <1>1, <2>2, <3>1, Zenon DEF Sent, Numbered
  <2>3. QED
    BY <1>3, <2>1, <2>2
<1>9. Numbered(x + Len(p), r)
  <2> SUFFICES ASSUME NEW i \in 1 .. Len(r)
               PROVE  /\ r[i].kind \in {"FISU", "MSU"} /\ r[i].hdr.bib = 1
                      /\ r[i].kind = "MSU" => r[i].hdr.fsn = (x + Len(p) + i) % SeqMod
    BY Zenon DEF Numbered
  <2>1. x + Len(p) + i = x + Len(q) + (i + 1)
    BY <1>1
  <2>2. QED
    BY <1>4, <2>1, ZenonT(60) DEF Sent, Numbered
<1>10. QED
  BY <1>2, <1>7, <1>8, <1>9, Zenon DEF Sent, su, p, r

LEMMA SentDropped ==
  ASSUME NEW x \in Seqno, NEW q \in Seq(SU), NEW s \in Seq(SU), NEW t, Sent(x, q, s, t),
         s # <<>>, Head(s).kind # "MSU"
  PROVE  Sent(x, q, Tail(s), t)
<1>1. /\ 1 \in 1 .. Len(s) /\ Head(s) = s[1]
      /\ Len(s) \in Nat /\ Len(q) \in Nat /\ Len(s) # 0
  BY LenNat, HeadAt
<1>2. ~ Msus(s)
  BY <1>1 DEF Msus
<1>3. Len(q) + Len(s) = 1 /\ t = x
  BY <1>2 DEF Sent
<1>4. Len(q) = 0 /\ Len(s) = 1
  <2>1. \A a, b \in Nat : a + b = 1 /\ b # 0 => a = 0 /\ b = 1
    OBVIOUS
  <2>2. QED
    BY <1>1, <1>3, <2>1, Zenon
<1>5. q = <<>> /\ Tail(s) = <<>>
  BY <1>4, OneInIt, LenNat
<1>6. Sent(x, <<>>, <<>>, t)
  BY <1>3, NoneSent
<1>7. QED
  BY <1>5, <1>6, Zenon

-----------------------------------------------------------------------------
(* The invariant: as long as nothing has gone wrong, both sides are in      *)
(* service and nobody asks for a retransmission; what the side m has sent   *)
(* in its tick is on its way to the side n whose turn it is, and n sends    *)
(* only once it has read all of it.                                         *)

InService == \A n \in Links : Working(n) /\ lssu[n].bib = 1 /\ lssu[n].fib = 1

Reading(n) ==
  /\ pc[n] \in {"idle", "rx", "burst"}
  /\ pc[n] # "idle" => tx[Other(n)] = <<>>
  /\ pc[n] # "burst" => tx[n] = <<>>
  /\ pc[n] = "burst" => rx[n] = <<>>

InStep(n) ==
  /\ pc[Other(n)] = "idle" /\ rx[Other(n)] = <<>>
  /\ Reading(n)
  /\ Len(rx[n]) + Len(tx[Other(n)]) <= Slots
  /\ Burst(lssu[Other(n)].bsn, tx[n], last_txd[n])
  /\ Sent(lssu[n].bsn, rx[n], tx[Other(n)], last_txd[Other(n)])

Paced == InService /\ \A n \in Links : turn = n => InStep(n)

PacedInv ==
  /\ PairTyped
  /\ turn \in Links /\ faults \in Nat
  /\ faults = 0 => Paced

LEMMA Turn ==
  ASSUME PacedInv, faults = 0, NEW n \in Links, turn = n
  PROVE  TypeOK /\ InService /\ InStep(n)
  BY DEF PacedInv, Paced, PairTyped, TimersOK

LEMMA PacedTypes ==
  ASSUME TypeOK, NEW n \in Links
  PROVE  /\ state \in [Links -> LinkState] /\ lssu[n] \in Header /\ lssu[n].bsn \in Seqno
         /\ last_txd[n] \in Seqno /\ pc \in [Links -> {"idle", "rx", "tail", "burst"}]
         /\ rx[n] \in Seq(SU) /\ tx[n] \in Seq(SU)
         /\ Len(rx[n]) \in Nat /\ Len(tx[n]) \in Nat
         /\ lssu \in [Links -> Header] /\ last_txd \in [Links -> Seqno]
         /\ rx \in [Links -> Seq(SU)] /\ tx \in [Links -> Seq(SU)]
  BY DEF TypeOK, Header

\* The SU at the head of the receive ring asks for nothing.
LEMMA HeadInStep ==
  ASSUME TypeOK, NEW n \in Links, InService, InStep(n), rx[n] # <<>>
  PROVE  /\ Su(n) \in SU /\ Su(n).kind \in {"FISU", "MSU"} /\ ~ Nack(n)
<1>1. rx[n] \in Seq(SU)
  BY PacedTypes
<1>2. 1 \in 1 .. Len(rx[n]) /\ Su(n) = rx[n][1] /\ Su(n) \in SU
  BY <1>1 DEF Su
<1>3. Su(n).kind \in {"FISU", "MSU"} /\ Su(n).hdr.bib = 1
  BY <1>2, Zenon DEF InStep, Sent, Numbered
<1>4. QED
  BY <1>2, <1>3 DEF Nack, InService

-----------------------------------------------------------------------------
(* The receive loop. *)

LEMMA ReadInStep ==
  ASSUME PacedInv, faults = 0, NEW n \in Links, turn = n, pc[n] = "rx", rx[n] # <<>>,
         NEW h \in Header, h.bib = 1, h.fib = 1,
         Sent(h.bsn, Tail(rx[n]), <<>>, last_txd[Other(n)]),
         rx' = [rx EXCEPT ![n] = Tail(@)],
         lssu' = [lssu EXCEPT ![n] = h],
         UNCHANGED <<state, last_txd, pc, tx>>
  PROVE  InService' /\ InStep(n)'
<1> DEFINE m == Other(n)
<1>1. m \in Links /\ m # n /\ Other(m) = n /\ \A k \in Links : k = n \/ k = m
  BY Ends
<1> HIDE DEF m
<1>2. TypeOK /\ InService /\ InStep(n)
  BY Turn
<1>3. /\ rx \in [Links -> Seq(SU)] /\ lssu \in [Links -> Header]
      /\ rx[n] \in Seq(SU) /\ Len(rx[n]) \in Nat
  BY <1>2, PacedTypes
<1>4. /\ rx'[n] = Tail(rx[n]) /\ rx'[m] = rx[m] /\ lssu'[n] = h /\ lssu'[m] = lssu[m]
      /\ Len(Tail(rx[n])) \in Nat /\ Len(Tail(rx[n])) <= Len(rx[n])
  BY <1>1, <1>3
<1>5. InService'
  BY <1>1, <1>2, <1>4 DEF InService, Working
<1>6. tx[m] = <<>> /\ tx[n] = <<>> /\ pc[m] = "idle" /\ rx[m] = <<>>
  BY <1>2 DEF InStep, Reading, m
<1>7. Reading(n)'
  BY <1>6 DEF Reading, m
<1>8. Len(rx'[n]) + Len(tx[m]) <= Slots
  <2>1. Len(rx[n]) + Len(tx[m]) <= Slots /\ Len(tx[m]) \in Nat
    BY <1>1, <1>2, PacedTypes DEF InStep, m
  <2>2. QED
    BY <1>3, <1>4, <2>1, SlotsAssumption
<1>9. Burst(lssu'[m].bsn, tx[n], last_txd[n])
  BY <1>2, <1>4 DEF InStep, m
<1>10. QED
  BY <1>4, <1>5, <1>6, <1>7, <1>8, <1>9 DEF InStep, m

LEMMA RxMsuInStep ==
  ASSUME PacedInv, faults = 0, NEW n \in Links, turn = n, RxMsu(n)
  PROVE  InService' /\ InStep(n)'
<1>1. TypeOK /\ InService /\ InStep(n)
  BY Turn
<1>2. /\ pc[n] = "rx" /\ rx[n] # <<>> /\ Su(n).kind = "MSU"
      /\ rx' = [rx EXCEPT ![n] = Tail(@)]
      /\ UNCHANGED <<state, pc, tx>>
  BY DEF RxMsu, RxMsg
<1>3. lssu[n] \in Header /\ lssu[n].bsn \in Seqno /\ rx[n] \in Seq(SU) /\ last_txd \in [Links -> Seqno]
  BY <1>1, PacedTypes
<1>4. ~ Nack(n)
  BY <1>1, <1>2, HeadInStep
<1>5. Sent(lssu[n].bsn, rx[n], <<>>, last_txd[Other(n)])
  BY <1>1, <1>2 DEF InStep, Reading
<1>6. /\ Su(n).hdr.fsn = (lssu[n].bsn + 1) % SeqMod
      /\ Sent((lssu[n].bsn + 1) % SeqMod, Tail(rx[n]), <<>>, last_txd[Other(n)])
  BY <1>2, <1>3, <1>5, MsuTaken, Zenon DEF Su
<1>7. InSequence(n) /\ Working(n)
  BY <1>1, <1>6 DEF InSequence, InService
<1> DEFINE h == [lssu[n] EXCEPT !.bsn = Su(n).hdr.fsn]
<1>8. lssu' = [lssu EXCEPT ![n] = h]
  BY <1>4, <1>7 DEF RxMsu, FlipFib
<1>9. h \in Header /\ h.bib = 1 /\ h.fib = 1 /\ h.bsn = (lssu[n].bsn + 1) % SeqMod
  <2>1. (lssu[n].bsn + 1) % SeqMod \in Seqno
    <3>1. lssu[n].bsn + 1 \in Int
      BY <1>3, SeqnoSame
    <3>2. QED
      BY <3>1, SeqnoMod
  <2>2. lssu[n].bib = 1 /\ lssu[n].fib = 1
    BY <1>1 DEF InService
  <2>3. QED
    BY <1>3, <1>6, <2>1, <2>2 DEF Header
<1>10. last_txd' = last_txd
  BY <1>3, <1>4 DEF RxMsu, CheckNack
<1> HIDE DEF h
<1>11. QED
  BY <1>2, <1>6, <1>8, <1>9, <1>10, ReadInStep

LEMMA RxFisuInStep ==
  ASSUME PacedInv, faults = 0, NEW n \in Links, turn = n, RxFisuIgnored(n)
  PROVE  InService' /\ InStep(n)'
<1>1. TypeOK /\ InService /\ InStep(n)
  BY Turn
<1>2. /\ pc[n] = "rx" /\ rx[n] # <<>> /\ Su(n).kind = "FISU"
      /\ rx' = [rx EXCEPT ![n] = Tail(@)]
      /\ UNCHANGED <<state, pc, tx>>
  BY DEF RxFisuIgnored, RxMsg
<1>3. lssu[n] \in Header /\ lssu[n].bsn \in Seqno /\ rx[n] \in Seq(SU) /\ last_txd \in [Links -> Seqno]
  BY <1>1, PacedTypes
<1>4. ~ Nack(n)
  BY <1>1, <1>2, HeadInStep
<1>5. Sent(lssu[n].bsn, rx[n], <<>>, last_txd[Other(n)])
  BY <1>1, <1>2 DEF InStep, Reading
<1>6. Sent(lssu[n].bsn, Tail(rx[n]), <<>>, last_txd[Other(n)])
  BY <1>2, <1>3, <1>5, FisuTaken, Zenon DEF Su
<1>7. lssu' = [lssu EXCEPT ![n] = lssu[n]] /\ last_txd' = last_txd
  BY <1>3, <1>4 DEF RxFisuIgnored, FlipFib, CheckNack
<1>8. lssu[n].bib = 1 /\ lssu[n].fib = 1
  BY <1>1 DEF InService
<1>9. QED
  BY <1>2, <1>3, <1>6, <1>7, <1>8, ReadInStep

-----------------------------------------------------------------------------
(* The tail of a tick. *)

\* After the step the tick of n goes on, or it is the turn of the other side.
GoesOn(n) ==
  /\ InService'
  /\ pc'[n] # "idle" => InStep(n)'
  /\ pc'[n] = "idle" => InStep(Other(n))'

LEMMA AllRead ==
  ASSUME PacedInv, faults = 0, NEW n \in Links, turn = n, AtTail(n) \/ pc[n] = "burst"
  PROVE  /\ pc[n] \in {"rx", "burst"} /\ rx[n] = <<>> /\ tx[Other(n)] = <<>>
         /\ last_txd[Other(n)] = lssu[n].bsn
<1>1. TypeOK /\ InStep(n) /\ lssu[n].bsn \in Seqno
  BY Turn, PacedTypes
<1>2. pc[n] \in {"rx", "burst"} /\ rx[n] = <<>> /\ tx[Other(n)] = <<>>
  BY <1>1 DEF InStep, Reading, AtTail
<1>3. Sent(lssu[n].bsn, <<>>, <<>>, last_txd[Other(n)])
  BY <1>1, <1>2 DEF InStep
<1>4. QED
  BY <1>1, <1>2, <1>3, NoneSent

\* n ends its tick, with what it has sent in its transmit ring.
LEMMA TurnPasses ==
  ASSUME PacedInv, faults = 0, NEW n \in Links, turn = n, AtTail(n) \/ pc[n] = "burst",
         NEW s \in Seq(SU), Len(s) <= Slots,
         Sent(lssu[Other(n)].bsn, <<>>, s, last_txd'[n]),
         tx'[n] = s, tx'[Other(n)] = tx[Other(n)],
         pc' = [pc EXCEPT ![n] = "idle"],
         lssu'[n].bsn = lssu[n].bsn, lssu'[Other(n)] = lssu[Other(n)],
         last_txd'[Other(n)] = last_txd[Other(n)],
         rx' = rx
  PROVE  InStep(Other(n))'
<1> DEFINE m == Other(n)
<1>1. m \in Links /\ m # n /\ Other(m) = n /\ \A k \in Links : k = n \/ k = m
  BY Ends
<1> HIDE DEF m
<1>2. TypeOK /\ InStep(n)
  BY Turn
<1>3. /\ rx[n] = <<>> /\ tx[m] = <<>> /\ last_txd[m] = lssu[n].bsn
      /\ rx[m] = <<>> /\ pc[m] = "idle"
  BY <1>2, AllRead DEF m, InStep
<1>4. /\ pc'[n] = "idle" /\ pc'[m] = "idle" /\ rx'[m] = <<>> /\ rx'[n] = <<>>
      /\ tx'[m] = <<>> /\ tx'[n] = s
      /\ last_txd'[m] = lssu'[n].bsn /\ lssu'[m].bsn = lssu[m].bsn
  <2>1. pc \in [Links -> {"idle", "rx", "tail", "burst"}]
    BY <1>2, PacedTypes
  <2>2. QED
    BY <1>1, <1>3, <2>1 DEF m
<1>5. Reading(m)'
  BY <1>1, <1>4 DEF Reading
<1>6. Len(rx'[m]) + Len(tx'[n]) <= Slots
  <2>1. Len(rx'[m]) = 0 /\ Len(tx'[n]) = Len(s) /\ Len(s) \in Nat
    BY <1>4
  <2>2. QED
    BY <2>1, SlotsAssumption
<1>7. Burst(lssu'[n].bsn, tx'[m], last_txd'[m])
  <2>1. lssu[n].bsn \in Seqno
    BY <1>2, PacedTypes
  <2>2. Burst(lssu[n].bsn, <<>>, lssu[n].bsn)
    BY <2>1, NoBurst
  <2>3. QED
    BY <1>3, <1>4, <2>2
<1>8. Sent(lssu'[m].bsn, rx'[m], tx'[n], last_txd'[n])
  BY <1>4 DEF m
<1>9. QED
  BY <1>1, <1>4, <1>5, <1>6, <1>7, <1>8 DEF InStep, m

LEMMA TxMsuInStep ==
  ASSUME PacedInv, faults = 0, NEW n \in Links, turn = n, TxMsu(n)
  PROVE  GoesOn(n)
<1> DEFINE m == Other(n)
           su == NextMsu(n)
           s == Append(tx[n], su)
           st == IF Pending(n) = 1 THEN "idle" ELSE "burst"
<1>1. m \in Links /\ m # n /\ Other(m) = n /\ \A k \in Links : k = n \/ k = m
  BY Ends
<1>2. TypeOK /\ InService /\ InStep(n) /\ (AtTail(n) \/ pc[n] = "burst")
  BY Turn DEF TxMsu
<1>3. /\ lssu[n] \in Header /\ lssu[m].bsn \in Seqno /\ tx[n] \in Seq(SU)
      /\ lssu \in [Links -> Header] /\ last_txd \in [Links -> Seqno]
      /\ tx \in [Links -> Seq(SU)] /\ pc \in [Links -> {"idle", "rx", "tail", "burst"}]
  BY <1>1, <1>2, PacedTypes
<1>4. NextSeqno(n) \in Seqno /\ NextSeqno(n) = (last_txd[n] + 1) % SeqMod
  <2>1. last_txd[n] + 1 \in Int
    BY <1>3, SeqnoSame
  <2>2. QED
    BY <2>1, SeqnoMod DEF NextSeqno
<1>5. su \in SU /\ su.kind = "MSU" /\ su.hdr.bib = 1 /\ su.hdr.fsn = (last_txd[n] + 1) % SeqMod
  <2>1. lssu[n].bib = 1 /\ txbuffer[n][NextSeqno(n)] \in Msu \cup {NoMsu}
    BY <1>2, <1>4 DEF InService, TypeOK
  <2>2. QED
    BY <1>3, <1>4, <2>1 DEF NextMsu, SU, Header
<1> HIDE DEF su
<1>6. s \in Seq(SU) /\ s # <<>> /\ Len(s) <= Slots
  <2>1. Slots - Len(tx[n]) > 0
    BY DEF TxMsu, Room
  <2>2. s \in Seq(SU) /\ Len(s) = Len(tx[n]) + 1 /\ Len(tx[n]) \in Nat
    BY <1>3, <1>5
  <2> HIDE DEF s
  <2>3. Len(s) <= Slots /\ Len(s) # 0
    BY <2>1, <2>2, SlotsAssumption
  <2>4. QED
    BY <2>2, <2>3, LenNat
<1>7. tx' = [tx EXCEPT ![n] = s]
  BY <1>3 DEF TxMsu, TxMsg, su
<1>8. Burst(lssu[m].bsn, s, NextSeqno(n))
  <2>1. Burst(lssu[m].bsn, tx[n], last_txd[n])
    BY <1>2 DEF InStep
  <2>2. QED
    BY <1>3, <1>4, <1>5, <2>1, BurstGrows
<1>9. /\ last_txd' = [last_txd EXCEPT ![n] = NextSeqno(n)]
      /\ lssu' = [lssu EXCEPT ![n].fsn = NextSeqno(n)]
      /\ pc' = [pc EXCEPT ![n] = st]
      /\ state' = state /\ rx' = rx
  BY DEF TxMsu
<1> HIDE DEF m, s, st
<1>10. /\ last_txd'[n] = NextSeqno(n) /\ last_txd'[m] = last_txd[m]
       /\ lssu'[n].bsn = lssu[n].bsn /\ lssu'[n].bib = lssu[n].bib
       /\ lssu'[n].fib = lssu[n].fib /\ lssu'[m] = lssu[m]
       /\ tx'[n] = s /\ tx'[m] = tx[m] /\ pc'[n] = st /\ pc'[m] = pc[m]
  BY <1>1, <1>3, <1>7, <1>9 DEF Header
<1>11. InService'
  BY <1>1, <1>2, <1>9, <1>10 DEF InService, Working
<1>12. rx[n] = <<>> /\ tx[m] = <<>> /\ pc[m] = "idle" /\ rx[m] = <<>>
  BY <1>2, AllRead DEF m, InStep
<1>13. CASE st = "idle"
  <2>1. Sent(lssu[m].bsn, <<>>, s, last_txd'[n])
    BY <1>3, <1>6, <1>8, <1>10, BurstSent
  <2>2. InStep(Other(n))'
    BY <1>2, <1>6, <1>9, <1>10, <1>13, <2>1, TurnPasses, Zenon DEF m
  <2>3. QED
    BY <1>10, <1>11, <1>13, <2>2 DEF GoesOn
<1>14. CASE st = "burst"
  <2>1. Reading(n)'
    BY <1>9, <1>10, <1>12, <1>14 DEF Reading, m
  <2>2. Len(rx'[n]) + Len(tx'[m]) <= Slots
    BY <1>9, <1>10, <1>12, SlotsAssumption
  <2>3. Burst(lssu'[m].bsn, tx'[n], last_txd'[n])
    BY <1>8, <1>10
  <2>4. Sent(lssu'[n].bsn, rx'[n], tx'[m], last_txd'[m])
    BY <1>2, <1>9, <1>10 DEF InStep, m
  <2>5. InStep(n)'
    BY <1>9, <1>10, <1>12, <2>1, <2>2, <2>3, <2>4 DEF InStep, m
  <2>6. QED
    BY <1>10, <1>11, <1>14, <2>5 DEF GoesOn
<1>15. QED
  BY <1>13, <1>14 DEF st

\* The ring is full, or nothing was sent in this tick: the tick just ends.
LEMMA EndInStep ==
  ASSUME PacedInv, faults = 0, NEW n \in Links, turn = n, AtTail(n) \/ pc[n] = "burst",
         pc' = [pc EXCEPT ![n] = "idle"],
         state' = state \/ state' = [state EXCEPT ![n] = "IS"],
         UNCHANGED <<lssu, last_txd, rx, tx>>
  PROVE  GoesOn(n)
<1>1. TypeOK /\ InService /\ InStep(n)
  BY Turn
<1>2. /\ lssu[Other(n)].bsn \in Seqno /\ tx[n] \in Seq(SU) /\ Len(tx[n]) <= Slots
      /\ state \in [Links -> LinkState] /\ pc \in [Links -> {"idle", "rx", "tail", "burst"}]
  BY <1>1, Ends DEF TypeOK, Header
<1>3. InService'
  BY <1>1, <1>2 DEF InService, Working
<1>4. Sent(lssu[Other(n)].bsn, <<>>, tx[n], last_txd'[n])
  BY <1>1, <1>2, BurstSent DEF InStep
<1>5. InStep(Other(n))'
  BY <1>2, <1>4, TurnPasses, Zenon
<1>6. QED
  BY <1>2, <1>3, <1>5 DEF GoesOn

LEMMA TxNothingInStep ==
  ASSUME PacedInv, faults = 0, NEW n \in Links, turn = n, TxNothing(n)
  PROVE  GoesOn(n)
<1>1. TypeOK /\ InService /\ InStep(n) /\ AtTail(n)
  BY Turn DEF TxNothing, LastStep
<1>2. /\ pc' = [pc EXCEPT ![n] = "idle"]
      /\ state' = state \/ state' = [state EXCEPT ![n] = "IS"]
      /\ UNCHANGED <<lssu, last_txd, rx>>
      /\ tx' = tx \/ TxMsg(n, Fisu(lssu[n]))
  BY DEF TxNothing, LastStep
<1>3. CASE tx' = tx
  BY <1>1, <1>2, <1>3, EndInStep
<1>4. CASE TxMsg(n, Fisu(lssu[n])) /\ tx' # tx
  <2> DEFINE su == Fisu(lssu[n])
             s == Append(<<>>, su)
  <2>1. /\ lssu[n] \in Header /\ lssu[Other(n)].bsn \in Seqno /\ tx \in [Links -> Seq(SU)]
        /\ lssu[n].bib = 1 /\ state \in [Links -> LinkState] /\ Other(n) \in Links
        /\ Other(n) # n /\ pc \in [Links -> {"idle", "rx", "tail", "burst"}]
    BY <1>1, Ends DEF TypeOK, Header, InService
  <2>2. su \in SU /\ su.kind = "FISU" /\ su.hdr.bib = 1
    BY <2>1 DEF Fisu, SU
  <2>3. tx[n] = <<>>
    BY <1>1, AllRead DEF InStep, Reading, AtTail
  <2>4. tx' = [tx EXCEPT ![n] = s]
    BY <1>4, <2>1, <2>3 DEF TxMsg
  <2>5. last_txd[n] = lssu[Other(n)].bsn
    <3>1. Burst(lssu[Other(n)].bsn, <<>>, last_txd[n])
      BY <1>1, <2>3 DEF InStep
    <3>2. QED
      BY <2>1, <3>1, NoBurst
  <2> HIDE DEF su
  <2>6. Sent(lssu[Other(n)].bsn, <<>>, s, last_txd'[n])
    BY <1>2, <2>1, <2>2, <2>5, FisuSent
  <2>7. s \in Seq(SU) /\ Len(s) <= Slots
    BY <2>2, SlotsAssumption
  <2>8. tx'[n] = s /\ tx'[Other(n)] = tx[Other(n)] /\ pc'[n] = "idle"
    BY <1>2, <2>1, <2>4
  <2> HIDE DEF s
  <2>9. InService'
    BY <1>1, <1>2, <2>1 DEF InService, Working
  <2>10. InStep(Other(n))'
    BY <1>1, <1>2, <2>6, <2>7, <2>8, TurnPasses, Zenon
  <2>11. QED
    BY <2>8, <2>9, <2>10 DEF GoesOn
<1>5. QED
  BY <1>2, <1>3, <1>4

-----------------------------------------------------------------------------
(* The steps that are not of a tick. *)

LEMMA TimerInStep ==
  ASSUME PacedInv, faults = 0, NEW n \in Links, turn = n, Timer(n), tx[Other(n)] = <<>>
  PROVE  GoesOn(n)
<1>1. TypeOK /\ InService /\ InStep(n)
  BY Turn
<1>2. /\ pc' = [pc EXCEPT ![n] = "rx"] /\ pc[n] = "idle"
      /\ UNCHANGED <<state, lssu, last_txd, rx, tx>>
  BY DEF Timer, seqVars
<1>3. Other(n) # n /\ Other(n) \in Links /\ pc \in [Links -> {"idle", "rx", "tail", "burst"}]
  BY <1>1, Ends, PacedTypes
<1>4. pc'[n] = "rx" /\ pc'[Other(n)] = pc[Other(n)]
  BY <1>2, <1>3
<1>5. InService'
  BY <1>1, <1>2, Zenon DEF InService, Working
<1>6. Reading(n)'
  BY <1>1, <1>2, <1>4 DEF InStep, Reading
<1>7. InStep(n)'
  BY <1>1, <1>2, <1>4, <1>6, Zenon DEF InStep
<1>8. QED
  BY <1>4, <1>5, <1>7 DEF GoesOn

\* The line brings what the other side has sent, and drops a repeated FISU.
LEMMA CarryInStep ==
  ASSUME PacedInv, faults = 0, NEW n \in Links, turn = n, NEW k \in Links, Carry(k),
         pc[n] = "idle", faults' = faults
  PROVE  InService' /\ InStep(n)'
<1> DEFINE m == Other(n)
           su == Head(tx[m])
<1>1. m \in Links /\ m # n /\ Other(m) = n /\ \A j \in Links : j = n \/ j = m
  BY Ends
<1>2. TypeOK /\ InService /\ InStep(n)
  BY Turn
<1>3. tx[n] = <<>> /\ pc[m] = "idle" /\ rx[m] = <<>>
  BY <1>2 DEF InStep, Reading
<1>4. k = m /\ tx[m] # <<>>
  BY <1>1, <1>3 DEF Carry
<1>5. /\ tx' = [tx EXCEPT ![m] = Tail(@)]
      /\ UNCHANGED <<state, lssu, last_txd, pc>>
      /\ faults \in Nat
  BY <1>4 DEF Carry, seqVars, PacedInv
<1>6. Arrive(n, su)
  <2>1. ~ Fault("loss")
    BY <1>5 DEF Fault
  <2>2. QED
    BY <1>1, <1>4, <2>1 DEF Carry
<1>7. /\ rx \in [Links -> Seq(SU)] /\ tx \in [Links -> Seq(SU)]
      /\ rx[n] \in Seq(SU) /\ tx[m] \in Seq(SU)
      /\ Len(rx[n]) \in Nat /\ Len(tx[m]) \in Nat
      /\ lssu[n].bsn \in Seqno /\ su \in SU /\ Len(tx[m]) # 0
  <2>1. rx[n] \in Seq(SU) /\ tx[m] \in Seq(SU)
    BY <1>1, <1>2, PacedTypes
  <2>2. su \in SU /\ Len(tx[m]) # 0 /\ Len(tx[m]) \in Nat /\ Len(rx[n]) \in Nat
    BY <1>4, <2>1, LenNat, HeadAt
  <2>3. QED
    BY <1>1, <1>2, <2>1, <2>2, PacedTypes
<1>8. Len(rx[n]) + Len(tx[m]) <= Slots /\ Len(rx[n]) # Slots
  <2>1. Len(rx[n]) + Len(tx[m]) <= Slots
    BY <1>2 DEF InStep
  <2>2. QED
    BY <1>7, <2>1, SlotsAssumption
<1>9. Sent(lssu[n].bsn, rx[n], tx[m], last_txd[m])
  BY <1>2 DEF InStep
<1>10. tx'[m] = Tail(tx[m]) /\ tx'[n] = <<>>
  BY <1>1, <1>3, <1>5, <1>7
<1>11. Len(Tail(tx[m])) \in Nat /\ Len(Tail(tx[m])) = Len(tx[m]) - 1
  BY <1>4, <1>7
<1> HIDE DEF m, su
<1>12. InService'
  BY <1>2, <1>5, Zenon DEF InService, Working
<1>13. Reading(n)'
  BY <1>5, <1>10 DEF Reading
<1>14. Burst(lssu'[m].bsn, tx'[n], last_txd'[n])
  BY <1>2, <1>3, <1>5, <1>10 DEF InStep, m
<1>15. /\ rx'[m] = <<>>
       /\ Len(rx'[n]) + Len(tx'[m]) <= Slots
       /\ Sent(lssu[n].bsn, rx'[n], tx'[m], last_txd[m])
  <2>1. rx' = [rx EXCEPT ![n] = IF Filtered(n, su) THEN rx[n] ELSE Append(rx[n], su)]
    BY <1>6, <1>8 DEF Arrive
  <2>2. rx'[m] = <<>>
    BY <1>1, <1>3, <1>7, <2>1
  <2>3. CASE Filtered(n, su)
    <3>1. rx'[n] = rx[n]
      BY <1>7, <2>1, <2>3
    <3>2. su.kind # "MSU"
      BY <2>3 DEF Filtered
    <3>3. Sent(lssu[n].bsn, rx[n], Tail(tx[m]), last_txd[m])
      BY <1>4, <1>7, <1>9, <3>2, SentDropped DEF su
    <3>4. QED
      BY <1>7, <1>8, <1>10, <1>11, <2>2, <3>1, <3>3, SlotsAssumption
  <2>4. CASE ~ Filtered(n, su)
    <3>1. rx'[n] = Append(rx[n], su)
      BY <1>7, <2>1, <2>4
    <3>2. Len(rx'[n]) = Len(rx[n]) + 1
      BY <1>7, <3>1
    <3>3. Sent(lssu[n].bsn, Append(rx[n], su), Tail(tx[m]), last_txd[m])
      BY <1>4, <1>7, <1>9, SentArrives DEF su
    <3>4. Len(rx'[n]) + Len(tx'[m]) = Len(rx[n]) + Len(tx[m])
      <4>1. \A a, b \in Nat : (a + 1) + (b - 1) = a + b
        OBVIOUS
      <4>2. Len(tx'[m]) = Len(tx[m]) - 1
        BY <1>10, <1>11, Zenon
      <4>3. (Len(rx[n]) + 1) + (Len(tx[m]) - 1) = Len(rx[n]) + Len(tx[m])
        BY <1>7, <4>1
      <4>4. QED
        BY <3>2, <4>2, <4>3, Zenon
    <3>5. QED
      BY <1>8, <2>2, <3>1, <3>3, <3>4, <1>10
  <2>5. QED
    BY <2>3, <2>4
<1>16. QED
  BY <1>3, <1>5, <1>12, <1>13, <1>14, <1>15 DEF InStep, m

\* MTP3 gives a message, or handles one: the line is not concerned.
LEMMA MtpInStep ==
  ASSUME PacedInv, faults = 0, NEW n \in Links, turn = n, NEW k \in Links,
         Give(k) \/ Handle(k)
  PROVE  InService' /\ InStep(n)'
<1>1. TypeOK /\ InService /\ InStep(n)
  BY Turn
<1>2. UNCHANGED <<lssu, last_txd, pc, rx, tx>>
  BY DEF Give, Handle, LinkTransfer, MtpHandles, seqVars
<1>3. state' = state \/ state' = [state EXCEPT ![k] = "BUF_OVERFLOW"]
  BY DEF Give, Handle, LinkTransfer, MtpHandles
<1>4. state \in [Links -> LinkState]
  BY <1>1, PacedTypes
<1>5. InService'
  BY <1>1, <1>2, <1>3, <1>4 DEF InService, Working
<1>6. Reading(n)'
  BY <1>1, <1>2, Zenon DEF InStep, Reading
<1>7. QED
  BY <1>1, <1>2, <1>5, <1>6, Zenon DEF InStep

-----------------------------------------------------------------------------
(* The invariant and the property. *)

\* A link in service reads MSUs and FISUs, and its tail is the transmitter.
LEMMA TickInService ==
  ASSUME PacedInv, faults = 0, NEW n \in Links, turn = n, Step(n)
  PROVE  \/ RxMsu(n) \/ RxFisuIgnored(n)
         \/ TxMsu(n) \/ TxNothing(n)
         \/ Timer(n) \/ TxBlocked(n)
<1>1. TypeOK /\ InService /\ InStep(n) /\ Working(n)
  BY Turn DEF InService
<1>2. ASSUME NEW kinds, RxMsg(n, kinds) PROVE kinds \cap {"FISU", "MSU"} # {}
  <2>1. rx[n] # <<>> /\ Su(n).kind \in kinds
    BY <1>2 DEF RxMsg
  <2>2. Su(n).kind \in {"FISU", "MSU"}
    BY <1>1, <2>1, HeadInStep
  <2>3. QED
    BY <2>1, <2>2
<1>3. ~ (RxSIO(n) \/ RxSIE(n) \/ RxSIOS(n) \/ RxOtherLssu(n))
  <2>1. ASSUME NEW kinds, RxLssu(n, kinds) PROVE kinds \cap {"FISU", "MSU"} # {}
    BY <1>2, <2>1 DEF RxLssu
  <2>2. QED
    BY <2>1 DEF RxSIO, RxSIE, RxSIOS, RxOtherLssu
<1>4. ~ RxFisuProven(n)
  BY <1>1 DEF RxFisuProven, Working
<1>5. ~ (TickT1Expires(n) \/ TickIdle(n) \/ TickNotAligned(n) \/ TickProving(n)
         \/ TickStopped(n))
  BY <1>1 DEF TickT1Expires, TickIdle, TickNotAligned, TickProving, TickStopped, AlignmentTimer
<1>6. QED
  BY <1>3, <1>4, <1>5, Zenon DEF Step, Handler, RxStep, TailStep

LEMMA TickInStep ==
  ASSUME PacedInv, faults = 0, NEW n \in Links, PacedTick(n)
  PROVE  Paced'
<1>1. /\ turn = n /\ Step(n) /\ Other(n) \in Links
      /\ pc[n] = "idle" => tx[Other(n)] = <<>>
      /\ turn' = IF pc'[n] = "idle" THEN Other(n) ELSE n
  BY Ends DEF PacedTick
<1>2. GoesOn(n)
  <2>1. CASE RxMsu(n) \/ RxFisuIgnored(n)
    <3>1. pc'[n] = "rx" /\ InService' /\ InStep(n)'
      BY <1>1, <2>1, RxMsuInStep, RxFisuInStep DEF RxMsu, RxFisuIgnored, RxMsg
    <3>2. QED
      BY <3>1 DEF GoesOn
  <2>2. CASE TxMsu(n) \/ TxNothing(n)
    BY <1>1, <2>2, TxMsuInStep, TxNothingInStep
  <2>3. CASE Timer(n)
    <3>1. pc[n] = "idle"
      BY <2>3 DEF Timer
    <3>2. QED
      BY <1>1, <2>3, <3>1, TimerInStep
  <2>4. CASE TxBlocked(n)
    <3>1. /\ AtTail(n) \/ pc[n] = "burst"
          /\ pc' = [pc EXCEPT ![n] = "idle"]
          /\ UNCHANGED <<state, lssu, last_txd, rx, tx>>
      BY <2>4 DEF TxBlocked, seqVars
    <3>2. QED
      BY <1>1, <3>1, EndInStep
  <2>5. QED
    BY <1>1, <2>1, <2>2, <2>3, <2>4, TickInService
<1>3. CASE pc'[n] = "idle"
  <2>1. turn' = Other(n) /\ InService' /\ InStep(Other(n))'
    BY <1>1, <1>2, <1>3 DEF GoesOn
  <2>2. QED
    BY <2>1 DEF Paced
<1>4. CASE pc'[n] # "idle"
  <2>1. turn' = n /\ InService' /\ InStep(n)'
    BY <1>1, <1>2, <1>4 DEF GoesOn
  <2>2. QED
    BY <2>1 DEF Paced
<1>5. QED
  BY <1>3, <1>4

\* The part of PacedInv that faults do not end.
LEMMA PacedTyped ==
  ASSUME PairTyped, turn \in Links, faults \in Nat, [PacedNext]_pacedVars
  PROVE  PairTyped' /\ turn' \in Links /\ faults' \in Nat /\ (faults' = 0 => faults' = faults)
<1>1. CASE UNCHANGED pacedVars
  BY <1>1, PairStutterTyped DEF pacedVars, pairVars
<1>2. ASSUME NEW n \in Links, Run(n) \/ PacedCall(n)
      PROVE  PairTyped' /\ turn' \in Links /\ faults' \in Nat /\ (faults' = 0 => faults' = faults)
  <2>1. Step(n) \/ Give(n) \/ Carry(n) \/ Handle(n) \/ Reset(n) \/ Crash(n)
    BY <1>2 DEF Run, PacedTick, PacedCarry, PacedHandle, PacedCall
  <2>2. turn' \in {turn, n, Other(n)}
    BY <1>2 DEF Run, PacedTick, PacedCarry, PacedHandle, PacedCall
  <2>3. faults' = faults \/ faults' = faults + 1
    BY <2>1 DEF Step, Give, Carry, Arrive, Handle, Reset, Crash, Fault
  <2>4. PairTyped'
    BY <2>1, PairTypesKept
  <2>5. QED
    BY <2>2, <2>3, <2>4, Ends
<1>3. QED
  BY <1>1, <1>2 DEF PacedNext

LEMMA PacedInvKept ==
  ASSUME PacedInv, [PacedNext]_pacedVars
  PROVE  PacedInv'
<1>1. /\ PairTyped' /\ turn' \in Links /\ faults' \in Nat
      /\ faults' = 0 => faults' = faults
  BY PacedTyped DEF PacedInv
<1>2. ASSUME faults' = 0 PROVE Paced'
  <2>1. faults = 0 /\ faults' = faults /\ turn \in Links
    BY <1>1, <1>2 DEF PacedInv
  <2>2. ASSUME NEW n \in Links, PacedTick(n) PROVE Paced'
    BY <2>1, <2>2, TickInStep
  <2>3. ASSUME NEW k \in Links, PacedCarry(k) PROVE Paced'
    <3>1. turn' = turn /\ pc[turn] = "idle" /\ Carry(k)
      BY <2>1, <2>3 DEF PacedCarry, Quiet
    <3>2. InService' /\ \A n \in Links : turn = n => InStep(n)'
      BY <2>1, <3>1, CarryInStep
    <3>3. QED
      BY <3>1, <3>2 DEF Paced
  <2>4. ASSUME NEW k \in Links, PacedHandle(k) \/ PacedCall(k) PROVE Paced'
    <3>1. turn' = turn /\ (Give(k) \/ Handle(k))
      BY <2>1, <2>4 DEF PacedHandle, PacedCall, Reset, Crash, Fault
    <3>2. InService' /\ \A n \in Links : turn = n => InStep(n)'
      BY <2>1, <3>1, MtpInStep
    <3>3. QED
      BY <3>1, <3>2 DEF Paced
  <2>5. CASE UNCHANGED pacedVars
    <3>1. UNCHANGED <<state, lssu, last_txd, pc, rx, tx, turn>>
      BY <2>5 DEF pacedVars, pairVars, linkVars, seqVars
    <3>2. Paced
      BY <2>1 DEF PacedInv
    <3>3. InService'
      BY <3>1, <3>2, Zenon DEF Paced, InService, Working
    <3>4. ASSUME NEW n \in Links, turn = n PROVE InStep(n)'
      <4>1. InStep(n)
        BY <3>2, <3>4 DEF Paced
      <4>2. Reading(n)'
        BY <3>1, <4>1, Zenon DEF InStep, Reading
      <4>3. QED
        BY <3>1, <4>1, <4>2, Zenon DEF InStep
    <3>5. QED
      BY <3>1, <3>3, <3>4 DEF Paced
  <2>6. QED
    BY <2>2, <2>3, <2>4, <2>5 DEF PacedNext, Run
<1>3. QED
  BY <1>1, <1>2 DEF PacedInv

LEMMA PacedStart ==
  ASSUME PacedInit, scenario.aligned
  PROVE  PacedInv
<1>1. PairInit /\ turn \in Links /\ Aligned /\ faults = 0 /\ PairTyped
  BY PairInitTyped DEF PacedInit, PairInit
<1>2. InService
  BY <1>1 DEF Aligned, Ones, InService, Working
<1>3. ASSUME NEW n \in Links PROVE InStep(n)
  <2>1. Other(n) \in Links
    BY Ends
  <2>2. /\ pc[n] = "idle" /\ pc[Other(n)] = "idle"
        /\ rx[n] = <<>> /\ rx[Other(n)] = <<>> /\ tx[n] = <<>> /\ tx[Other(n)] = <<>>
        /\ lssu[n].bsn = SeqMod - 1 /\ lssu[Other(n)].bsn = SeqMod - 1
        /\ last_txd[n] = SeqMod - 1 /\ last_txd[Other(n)] = SeqMod - 1
    BY <1>1, <2>1 DEF Aligned, Ones
  <2>3. SeqMod - 1 \in Seqno /\ Len(<<>>) + Len(<<>>) <= Slots
    BY SeqAssumption, SlotsAssumption DEF Seqno
  <2>4. Burst(SeqMod - 1, <<>>, SeqMod - 1) /\ Sent(SeqMod - 1, <<>>, <<>>, SeqMod - 1)
    BY <2>3, NoBurst, NoneSent
  <2>5. QED
    BY <2>2, <2>3, <2>4, Zenon DEF InStep, Reading
<1>4. QED
  BY <1>1, <1>2, <1>3 DEF PacedInv, Paced

\* A handler moves the pc of its own side only, the calls none but to "idle".
LEMMA OwnPc ==
  ASSUME NEW n \in Links, NEW k \in Links, k # n, Handler(n), TypeOK
  PROVE  pc'[k] = pc[k]
<1>1. pc \in [Links -> {"idle", "rx", "tail", "burst"}]
  BY DEF TypeOK
<1>2. pc' = pc \/ \E p \in {"idle", "rx", "tail", "burst"} : pc' = [pc EXCEPT ![n] = p]
  <2>1. CASE Timer(n)
    BY <2>1 DEF Timer
  <2>2. CASE RxStep(n)
    BY <2>2 DEF RxStep, RxMsu, RxFisuProven, RxFisuIgnored, RxSIO, RxSIE, RxSIOS,
                RxOtherLssu, RxLssu
  <2>3. CASE TxMsu(n)
    BY <2>3 DEF TxMsu
  <2>4. CASE TailStep(n) /\ ~ TxMsu(n)
    BY <2>4 DEF TailStep, TickT1Expires, TickIdle, TickNotAligned, TickProving,
                TickStopped, TxBlocked, TxNothing, AlignmentTimer, LastStep
  <2>5. QED
    BY <2>1, <2>2, <2>3, <2>4 DEF Handler
<1>3. QED
  BY <1>1, <1>2

\* A side whose timer() has begun has its turn.
LEMMA TurnKept ==
  ASSUME TypeOK, turn \in Links, \A k \in Links : pc[k] # "idle" => turn = k,
         NEW n \in Links, Run(n) \/ PacedCall(n)
  PROVE  \A k \in Links : pc'[k] # "idle" => turn' = k
<1>1. CASE PacedTick(n)
  <2>1. turn = n /\ Handler(n) /\ (pc'[n] # "idle" => turn' = n)
    BY <1>1 DEF PacedTick, Step
  <2>2. ASSUME NEW k \in Links, k # n PROVE pc'[k] = "idle"
    BY <2>1, <2>2, OwnPc
  <2>3. QED
    BY <2>1, <2>2
<1>2. CASE PacedCarry(n) \/ PacedHandle(n)
  <2>1. pc' = pc /\ turn' = turn
    BY <1>2 DEF PacedCarry, PacedHandle, Carry, Handle, MtpHandles
  <2>2. QED
    BY <2>1
<1>3. CASE PacedCall(n)
  <2>1. \A k \in Links : pc[k] = "idle"
    BY <1>3 DEF PacedCall, Quiet
  <2>2. pc' = pc \/ pc' = [pc EXCEPT ![n] = "idle"]
    BY <1>3 DEF PacedCall, Give, Reset, Crash, LinkTransfer, LinkReset, Restart
  <2>3. \A k \in Links : pc'[k] = "idle"
    BY <2>1, <2>2 DEF TypeOK
  <2>4. QED
    BY <2>3
<1>4. QED
  BY <1>1, <1>2, <1>3 DEF Run

LEMMA PacedTypedKept ==
  ASSUME PairTyped, HistoryTyped, turn \in Links,
         \A k \in Links : pc[k] # "idle" => turn = k,
         [PacedNext]_pacedVars
  PROVE  /\ PairTyped' /\ HistoryTyped' /\ turn' \in Links
         /\ \A k \in Links : pc'[k] # "idle" => turn' = k
<1>1. CASE UNCHANGED pacedVars
  <2>1. UNCHANGED pairVars /\ turn' = turn /\ pc' = pc
    BY <1>1 DEF pacedVars, pairVars, linkVars
  <2>2. PairTyped' /\ HistoryTyped'
    BY <2>1, PairStutterTyped, HistoryStutters
  <2>3. QED
    BY <2>1, <2>2
<1>2. ASSUME NEW n \in Links, Run(n) \/ PacedCall(n)
      PROVE  /\ PairTyped' /\ HistoryTyped' /\ turn' \in Links
             /\ \A k \in Links : pc'[k] # "idle" => turn' = k
  <2>1. Step(n) \/ Give(n) \/ Carry(n) \/ Handle(n) \/ Reset(n) \/ Crash(n)
    BY <1>2 DEF Run, PacedTick, PacedCarry, PacedHandle, PacedCall
  <2>2. turn' \in {turn, n, Other(n)}
    BY <1>2 DEF Run, PacedTick, PacedCarry, PacedHandle, PacedCall
  <2>3. PairTyped' /\ HistoryTyped'
    BY <2>1, HistoryKept
  <2>4. TypeOK
    BY DEF PairTyped, TimersOK
  <2>5. \A k \in Links : pc'[k] # "idle" => turn' = k
    BY <1>2, <2>4, TurnKept
  <2>6. QED
    BY <2>2, <2>3, <2>5, Ends
<1>3. QED
  BY <1>1, <1>2 DEF PacedNext

LEMMA PacedInitTyped ==
  ASSUME PacedInit
  PROVE  /\ PairTyped /\ HistoryTyped /\ turn \in Links
         /\ \A k \in Links : pc[k] = "idle"
<1>1. PairInit /\ turn \in Links
  BY DEF PacedInit
<1>2. pc = [k \in Links |-> "idle"]
  BY <1>1 DEF PairInit, Aligned, Init
<1>3. QED
  BY <1>1, <1>2, PairInitTyped, PairInitHistory

\* Under every start and every fault, resets and restarts included: types of
\* both links, the line and history; and while timer() runs at a side, the
\* turn is with that side, so never do both sides run.
THEOREM PacedTypesCorrect == PacedSpec => []PacedTypeOK
<1> DEFINE Typed == /\ PairTyped /\ HistoryTyped /\ turn \in Links
                    /\ \A k \in Links : pc[k] # "idle" => turn = k
<1>1. PacedInit => Typed
  BY PacedInitTyped
<1>2. Typed /\ [PacedNext]_pacedVars => Typed'
  BY PacedTypedKept
<1>3. Typed => PacedTypeOK
  BY TypesOfBoth DEF PacedTypeOK
<1> HIDE DEF Typed
<1>4. QED
  BY <1>1, <1>2, <1>3, PTL DEF PacedSpec

\* Two links that start in service and tick in turn never ask for a
\* retransmission before something has gone wrong: whatever MTP3 gives, and
\* however far it is ahead, RxMsu() finds the number it waits for and no NACK.
THEOREM NeverNeedless == scenario.aligned /\ PacedSpec => []NoNeedlessNack
<1>1. PacedInit /\ scenario.aligned => PacedInv
  BY PacedStart
<1>2. PacedInv /\ [PacedNext]_pacedVars => PacedInv'
  BY PacedInvKept
<1>3. PacedInv => NoNeedlessNack
  <2> SUFFICES ASSUME PacedInv, faults = 0, NEW n \in Links, pc[n] = "rx", rx[n] # <<>>
               PROVE  ~ Nack(n)
    BY DEF NoNeedlessNack
  <2>1. turn = n
    <3>1. turn \in Links /\ InStep(turn)
      BY DEF PacedInv, Paced
    <3>2. pc[Other(turn)] = "idle"
      BY <3>1 DEF InStep
    <3>3. QED
      BY <3>1, <3>2, Ends
  <2>2. QED
    BY <2>1, Turn, HeadInStep
<1>4. QED
  BY <1>1, <1>2, <1>3, PTL DEF PacedSpec

\* Ticks in turn are a special case of unrelated clocks, as long as nobody
\* restarts: what holds of DataSpec holds of the paced links too.
THEOREM PacedImplementsData ==
  ASSUME FaultKinds \subseteq {"loss"}
  PROVE  PacedSpec => DataSpec
<1>1. PacedInit => PairInit
  BY DEF PacedInit
<1>2. [PacedNext]_pacedVars => [PairNext]_pairVars
  <2>1. ~ Fault("reset") /\ ~ Fault("restart")
    BY DEF Fault
  <2>2. ASSUME NEW n \in Links, Run(n) \/ PacedCall(n)
        PROVE  Step(n) \/ Give(n) \/ Carry(n) \/ Handle(n)
    BY <2>1, <2>2
    DEF Run, PacedTick, PacedCarry, PacedHandle, PacedCall, Reset, Crash
  <2>3. QED
    BY <2>2 DEF PacedNext, PairNext, pacedVars
<1>3. QED
  BY <1>1, <1>2, PTL DEF PacedSpec, DataSpec

THEOREM PacedDeliveredInOrder ==
  ASSUME FaultKinds \subseteq {"loss"}, MaxUndelivered <= SeqMod
  PROVE  scenario.aligned /\ PacedSpec => InOrder
  BY PacedImplementsData, DeliveredInOrder

=============================================================================
