------------------------- MODULE Ss7LinkPairProofs -------------------------
(***************************************************************************)
(* Proofs about Ss7LinkPair, for every modulus, ring size and bound: two   *)
(* links in service deliver in order over a line that may lose anything.   *)
(***************************************************************************)
EXTENDS Ss7LinkPair, Ss7LinkProofs

-----------------------------------------------------------------------------
(* Remainders modulo SeqMod. *)

LEMMA ModIs ==
  ASSUME NEW x \in Int
  PROVE  \E r \in Seqno, d \in Int : r = x % SeqMod /\ x = SeqMod * d + r
<1>1. SeqMod \in Int /\ SeqMod > 0
  BY SeqAssumption
<1> DEFINE r == x % SeqMod
           d == x \div SeqMod
<1>2. r \in 0 .. SeqMod - 1 /\ d \in Int /\ x = SeqMod * d + r
  BY <1>1
<1>3. r = x % SeqMod
  OBVIOUS
<1> HIDE DEF r, d
<1>4. QED
  BY <1>2, <1>3 DEF Seqno

\* A multiple of SeqMod below SeqMod is 0.
LEMMA NoMultiple ==
  ASSUME NEW d \in Int, SeqMod * d < SeqMod, -SeqMod < SeqMod * d
  PROVE  d = 0
<1>1. SeqMod \in Int /\ SeqMod > 0
  BY SeqAssumption
<1>2. CASE d >= 1
  <2>1. SeqMod * d >= SeqMod
    BY <1>1, <1>2
  <2>2. QED
    BY <1>1, <2>1
<1>3. CASE d <= -1
  <2>1. SeqMod * d <= -SeqMod
    BY <1>1, <1>3
  <2>2. QED
    BY <1>1, <2>1
<1>4. QED
  BY <1>2, <1>3

\* Remainders of numbers that are a multiple of SeqMod apart agree.
LEMMA ModEqual ==
  ASSUME NEW x \in Int, NEW y \in Int, NEW k \in Int, x = y + SeqMod * k
  PROVE  x % SeqMod = y % SeqMod
<1>1. SeqMod \in Int /\ SeqMod > 0
  BY SeqAssumption
<1>2. PICK r \in Seqno, d \in Int : r = x % SeqMod /\ x = SeqMod * d + r
  BY ModIs
<1>3. PICK s \in Seqno, e \in Int : s = y % SeqMod /\ y = SeqMod * e + s
  BY ModIs
<1>4. r \in 0 .. SeqMod - 1 /\ s \in 0 .. SeqMod - 1
  BY DEF Seqno
<1>5. SeqMod * (d - e - k) = s - r
  BY <1>1, <1>2, <1>3, <1>4
<1>6. d - e - k = 0
  BY <1>1, <1>4, <1>5, NoMultiple
<1>7. r = s
  BY <1>1, <1>4, <1>5, <1>6
<1>8. QED
  BY <1>2, <1>3, <1>7

LEMMA ModPlus ==
  ASSUME NEW x \in Int, NEW c \in Int
  PROVE  ((x % SeqMod) + c) % SeqMod = (x + c) % SeqMod
<1>1. PICK r \in Seqno, d \in Int : r = x % SeqMod /\ x = SeqMod * d + r
  BY ModIs
<1>2. r \in Int /\ SeqMod \in Int
  BY SeqAssumption DEF Seqno
<1>3. \A p, q \in Int : p = q + SeqMod * d => p % SeqMod = q % SeqMod
  BY ModEqual
<1>4. (x + c) % SeqMod = (r + c) % SeqMod
  <2>1. x + c \in Int /\ r + c \in Int /\ x + c = (r + c) + SeqMod * d
    BY <1>1, <1>2
  <2>2. QED
    BY <1>3, <2>1, Zenon
<1>5. QED
  BY <1>1, <1>4

LEMMA ModApart ==
  ASSUME NEW x \in Int, NEW y \in Int, x % SeqMod = y % SeqMod,
         x < y + SeqMod, y < x + SeqMod
  PROVE  x = y
<1>1. SeqMod \in Int /\ SeqMod > 0
  BY SeqAssumption
<1>2. PICK r \in Seqno, d \in Int : r = x % SeqMod /\ x = SeqMod * d + r
  BY ModIs
<1>3. PICK s \in Seqno, e \in Int : s = y % SeqMod /\ y = SeqMod * e + s
  BY ModIs
<1>4. r \in Int /\ r = s
  BY <1>2, <1>3 DEF Seqno
<1>5. x - y = SeqMod * (d - e)
  BY <1>1, <1>2, <1>3, <1>4
<1>6. d - e = 0
  BY <1>1, <1>5, NoMultiple
<1>7. QED
  BY <1>1, <1>5, <1>6

-----------------------------------------------------------------------------
(* The k-th message of a side travels under the number Num(k); Num(0) is    *)
(* where both sides start.                                                  *)

Num(k) == (k + SeqMod - 1) % SeqMod

LEMMA NumSeqno == \A k \in Nat : Num(k) \in Seqno
  BY SeqAssumption, SeqnoMod DEF Num

LEMMA NumNone == Num(0) = SeqMod - 1
<1>1. SeqMod - 1 \in Int /\ SeqMod - 1 \in 0 .. SeqMod - 1 /\ SeqMod > 0 /\ SeqMod \in Int
  BY SeqAssumption
<1>2. (SeqMod - 1) % SeqMod = SeqMod - 1
  BY <1>1
<1>3. 0 + SeqMod - 1 = SeqMod - 1
  BY <1>1
<1>4. QED
  BY <1>2, <1>3 DEF Num

LEMMA NumNext == \A k \in Nat : (Num(k) + 1) % SeqMod = Num(k + 1)
<1> TAKE k \in Nat
<1>1. k + SeqMod - 1 \in Int /\ (k + SeqMod - 1) + 1 = (k + 1) + SeqMod - 1
  BY SeqAssumption
<1>2. QED
  BY <1>1, ModPlus DEF Num

LEMMA NumApart ==
  ASSUME NEW i \in Nat, NEW k \in Nat, Num(i) = Num(k), i < k + SeqMod, k < i + SeqMod
  PROVE  i = k
<1>1. /\ i + SeqMod - 1 \in Int /\ k + SeqMod - 1 \in Int
      /\ i + SeqMod - 1 < (k + SeqMod - 1) + SeqMod
      /\ k + SeqMod - 1 < (i + SeqMod - 1) + SeqMod
  BY SeqAssumption
<1>2. i + SeqMod - 1 = k + SeqMod - 1
  BY <1>1, ModApart DEF Num
<1>3. QED
  BY <1>2, SeqAssumption

\* Among the last SeqMod messages there is one of every number used so far.
LEMMA NumLatest ==
  ASSUME NEW g \in Nat, NEW t \in 0 .. g
  PROVE  \E u \in 0 .. g : Num(u) = Num(t) /\ g < u + SeqMod
<1>1. SeqMod \in Int /\ SeqMod > 0 /\ g \in Int /\ t \in Int /\ t >= 0 /\ t <= g
  BY SeqAssumption
<1>2. PICK r \in Seqno, d \in Int : r = (g - t) % SeqMod /\ g - t = SeqMod * d + r
  <2>1. g - t \in Int
    BY <1>1
  <2>2. QED
    BY <2>1, ModIs, Zenon
<1>3. r \in 0 .. SeqMod - 1
  BY DEF Seqno
<1>4. d >= 0
  <2>1. ASSUME d <= -1 PROVE FALSE
    <3>1. SeqMod * d <= -SeqMod
      BY <1>1, <2>1
    <3>2. QED
      BY <1>1, <1>2, <1>3, <3>1
  <2>2. QED
    BY <2>1
<1>5. SeqMod * d >= 0
  BY <1>1, <1>4
<1>6. g - r \in 0 .. g /\ g < (g - r) + SeqMod
  BY <1>1, <1>2, <1>3, <1>5
<1>7. (g - r) + SeqMod - 1 = (t + SeqMod - 1) + SeqMod * d
  BY <1>1, <1>2, <1>3
<1>8. Num(g - r) = Num(t)
  <2>1. (g - r) + SeqMod - 1 \in Int /\ t + SeqMod - 1 \in Int
    BY <1>1, <1>3
  <2>2. QED
    BY <1>7, <2>1, ModEqual DEF Num
<1>9. QED
  BY <1>6, <1>8

-----------------------------------------------------------------------------
(* What is under way to a side that has delivered d messages, from a side   *)
(* that has delivered b and was given g: q are the SUs in the receive ring, *)
(* s those that still wait in the transmit ring of the other.               *)

\* What is acknowledged was delivered; an MSU carries a message that was
\* given, under its number, and is not so old that its number is awaited anew.
Valid(d, b, g, su) ==
  /\ su.kind \in {"FISU", "MSU"}
  /\ \E x \in 0 .. b : su.hdr.bsn = Num(x)
  /\ su.kind = "MSU" => /\ su.msu \in 1 .. g
                        /\ su.hdr.fsn = Num(su.msu)
                        /\ d + 2 <= su.msu + SeqMod

\* Nor will it be once the SU before it has been delivered.
Ahead(su, later) ==
  su.kind = "MSU" /\ later.kind = "MSU" => su.msu + 2 <= later.msu + SeqMod

AllValid(d, b, g, q) == \A i \in 1 .. Len(q) : Valid(d, b, g, q[i])
Ordered(q)           == \A i, j \in 1 .. Len(q) : i < j => Ahead(q[i], q[j])
Before(q, s)         == \A i \in 1 .. Len(q), j \in 1 .. Len(s) : Ahead(q[i], s[j])

Line(d, b, g, q, s) ==
  /\ AllValid(d, b, g, q) /\ AllValid(d, b, g, s)
  /\ Ordered(q) /\ Ordered(s)
  /\ Before(q, s)

LEMMA TailAt ==
  ASSUME NEW q \in Seq(SU), q # <<>>, NEW i \in 1 .. Len(Tail(q))
  PROVE  i + 1 \in 1 .. Len(q) /\ Tail(q)[i] = q[i + 1]
  OBVIOUS

LEMMA HeadAt == \A q \in Seq(SU) : q # <<>> => 1 \in 1 .. Len(q) /\ Head(q) = q[1]
  OBVIOUS

LEMMA AppendAt ==
  ASSUME NEW q \in Seq(SU), NEW su \in SU, NEW i \in 1 .. Len(Append(q, su))
  PROVE  \/ i \in 1 .. Len(q) /\ Append(q, su)[i] = q[i]
         \/ i = Len(q) + 1 /\ Append(q, su)[i] = su
  OBVIOUS

\* The receiver takes the SU at the head, and may deliver it.
LEMMA LineRead ==
  ASSUME NEW d \in Nat, NEW b \in Nat, NEW g \in Nat, NEW e \in Nat,
         NEW q \in Seq(SU), NEW s \in Seq(SU), q # <<>>, Line(d, b, g, q, s),
         e = d \/ (Head(q).kind = "MSU" /\ e = Head(q).msu)
  PROVE  Line(e, b, g, Tail(q), s)
<1>1. ASSUME NEW su, Valid(d, b, g, su), e = d \/ Ahead(Head(q), su)
      PROVE  Valid(e, b, g, su)
  BY <1>1, SeqAssumption DEF Valid, Ahead
<1>2. AllValid(e, b, g, Tail(q))
  <2> SUFFICES ASSUME NEW i \in 1 .. Len(Tail(q)) PROVE Valid(e, b, g, Tail(q)[i])
    BY Zenon DEF AllValid
  <2>1. i + 1 \in 1 .. Len(q) /\ Tail(q)[i] = q[i + 1] /\ 1 < i + 1
    BY TailAt
  <2>2. Valid(d, b, g, q[i + 1]) /\ Ahead(q[1], q[i + 1])
    BY <2>1, HeadAt, Zenon DEF Line, AllValid, Ordered
  <2>3. QED
    BY <1>1, <2>1, <2>2, HeadAt, Zenon
<1>3. AllValid(e, b, g, s)
  BY <1>1, HeadAt, Zenon DEF Line, AllValid, Before
<1>4. Ordered(Tail(q))
  <2> SUFFICES ASSUME NEW i \in 1 .. Len(Tail(q)), NEW j \in 1 .. Len(Tail(q)), i < j
               PROVE  Ahead(Tail(q)[i], Tail(q)[j])
    BY Zenon DEF Ordered
  <2>1. i + 1 < j + 1
    OBVIOUS
  <2>2. QED
    BY <2>1, TailAt, Zenon DEF Line, Ordered
<1>5. Before(Tail(q), s)
  BY TailAt, Zenon DEF Line, Before
<1>6. QED
  BY <1>2, <1>3, <1>4, <1>5, Zenon DEF Line

\* The sender adds an SU, an MSU only if it is among its last SeqMod - 1.
LEMMA LineSend ==
  ASSUME NEW d \in Nat, NEW b \in Nat, NEW g \in Nat,
         NEW q \in Seq(SU), NEW s \in Seq(SU), NEW su \in SU, Line(d, b, g, q, s),
         Valid(d, b, g, su), su.kind = "MSU" => g + 2 <= su.msu + SeqMod
  PROVE  Line(d, b, g, q, Append(s, su))
<1>1. ASSUME NEW sv, Valid(d, b, g, sv) PROVE Ahead(sv, su)
  <2> SUFFICES ASSUME sv.kind = "MSU", su.kind = "MSU"
               PROVE  sv.msu + 2 <= su.msu + SeqMod
    BY Zenon DEF Ahead
  <2>1. sv.msu \in 1 .. g /\ su.msu \in 1 .. g /\ g + 2 <= su.msu + SeqMod
    BY <1>1, Zenon DEF Valid
  <2>2. QED
    BY <2>1, SeqAssumption, SMTT(60)
<1>2. AllValid(d, b, g, Append(s, su))
  BY AppendAt, Zenon DEF Line, AllValid
<1>3. Ordered(Append(s, su))
  <2> SUFFICES ASSUME NEW i \in 1 .. Len(Append(s, su)), NEW j \in 1 .. Len(Append(s, su)),
                      i < j
               PROVE  Ahead(Append(s, su)[i], Append(s, su)[j])
    BY Zenon DEF Ordered
  <2>1. i # Len(s) + 1
    OBVIOUS
  <2>2. i \in 1 .. Len(s) /\ Append(s, su)[i] = s[i]
    BY <2>1, AppendAt, Zenon
  <2>3. CASE j \in 1 .. Len(s) /\ Append(s, su)[j] = s[j]
    BY <2>2, <2>3, Zenon DEF Line, Ordered
  <2>4. CASE Append(s, su)[j] = su
    <3>1. Valid(d, b, g, s[i])
      BY <2>2, Zenon DEF Line, AllValid
    <3>2. QED
      BY <1>1, <2>2, <2>4, <3>1, Zenon
  <2>5. QED
    BY <2>3, <2>4, AppendAt, Zenon
<1>4. Before(q, Append(s, su))
  <2> SUFFICES ASSUME NEW i \in 1 .. Len(q), NEW j \in 1 .. Len(Append(s, su))
               PROVE  Ahead(q[i], Append(s, su)[j])
    BY Zenon DEF Before
  <2>1. CASE j \in 1 .. Len(s) /\ Append(s, su)[j] = s[j]
    BY <2>1, Zenon DEF Line, Before
  <2>2. CASE Append(s, su)[j] = su
    <3>1. Valid(d, b, g, q[i])
      BY Zenon DEF Line, AllValid
    <3>2. QED
      BY <1>1, <2>2, <3>1, Zenon
  <2>3. QED
    BY <2>1, <2>2, AppendAt, Zenon
<1>5. QED
  BY <1>2, <1>3, <1>4, Zenon DEF Line

\* The line takes an SU from the transmit ring ...
LEMMA LineTakes ==
  ASSUME NEW d, NEW b, NEW g, NEW q \in Seq(SU), NEW s \in Seq(SU), s # <<>>,
         Line(d, b, g, q, s)
  PROVE  Line(d, b, g, q, Tail(s))
<1>1. AllValid(d, b, g, Tail(s))
  BY TailAt, Zenon DEF Line, AllValid
<1>2. Ordered(Tail(s))
  <2> SUFFICES ASSUME NEW i \in 1 .. Len(Tail(s)), NEW j \in 1 .. Len(Tail(s)), i < j
               PROVE  Ahead(Tail(s)[i], Tail(s)[j])
    BY Zenon DEF Ordered
  <2>1. i + 1 < j + 1
    OBVIOUS
  <2>2. QED
    BY <2>1, TailAt, Zenon DEF Line, Ordered
<1>3. Before(q, Tail(s))
  BY TailAt, Zenon DEF Line, Before
<1>4. QED
  BY <1>1, <1>2, <1>3, Zenon DEF Line

\* ... and may bring it to the receive ring.
LEMMA LineArrives ==
  ASSUME NEW d, NEW b, NEW g, NEW q \in Seq(SU), NEW s \in Seq(SU), s # <<>>,
         Line(d, b, g, q, s)
  PROVE  Line(d, b, g, Append(q, Head(s)), Tail(s))
<1> DEFINE su == Head(s)
<1>1. su \in SU /\ 1 \in 1 .. Len(s) /\ su = s[1]
  BY HeadAt
<1> HIDE DEF su
<1>2. AllValid(d, b, g, Append(q, su))
  BY <1>1, AppendAt, Zenon DEF Line, AllValid
<1>3. Ordered(Append(q, su))
  <2> SUFFICES ASSUME NEW i \in 1 .. Len(Append(q, su)), NEW j \in 1 .. Len(Append(q, su)),
                      i < j
               PROVE  Ahead(Append(q, su)[i], Append(q, su)[j])
    BY Zenon DEF Ordered
  <2>1. i # Len(q) + 1
    BY <1>1
  <2>2. i \in 1 .. Len(q) /\ Append(q, su)[i] = q[i]
    BY <1>1, <2>1, AppendAt, Zenon
  <2>3. QED
    <3>1. CASE j \in 1 .. Len(q) /\ Append(q, su)[j] = q[j]
      BY <2>2, <3>1, Zenon DEF Line, Ordered
    <3>2. CASE Append(q, su)[j] = su
      BY <1>1, <2>2, <3>2, Zenon DEF Line, Before
    <3>3. QED
      BY <1>1, <3>1, <3>2, AppendAt, Zenon
<1>4. Before(Append(q, su), Tail(s))
  <2> SUFFICES ASSUME NEW i \in 1 .. Len(Append(q, su)), NEW j \in 1 .. Len(Tail(s))
               PROVE  Ahead(Append(q, su)[i], Tail(s)[j])
    BY Zenon DEF Before
  <2>1. j + 1 \in 1 .. Len(s) /\ Tail(s)[j] = s[j + 1] /\ 1 < j + 1
    BY TailAt
  <2>2. QED
    <3>1. CASE i \in 1 .. Len(q) /\ Append(q, su)[i] = q[i]
      BY <2>1, <3>1, Zenon DEF Line, Before
    <3>2. CASE Append(q, su)[i] = su
      BY <1>1, <2>1, <3>2, Zenon DEF Line, Ordered
    <3>3. QED
      BY <1>1, <3>1, <3>2, AppendAt, Zenon
<1>5. Line(d, b, g, q, Tail(s))
  BY LineTakes
<1>6. QED
  BY <1>2, <1>3, <1>4, <1>5, Zenon DEF Line, su

-----------------------------------------------------------------------------
(* The two sides. *)

LEMMA Ends ==
  ASSUME NEW n \in Links
  PROVE  /\ Other(n) \in Links /\ Other(n) # n
         /\ \A k \in Links : k = n \/ k = Other(n)
         /\ Other(Other(n)) = n
<1>1. PICK x, y \in Links : x # y /\ Links = {x, y}
  BY PairAssumption
<1>2. \A k \in Links : Other(k) \in Links /\ Other(k) # k
  <2> TAKE k \in Links
  <2>1. \E j \in Links : j # k
    BY <1>1
  <2>2. QED
    BY <2>1 DEF Other
<1>3. QED
  BY <1>1, <1>2

Sides ==
  /\ given \in [Links -> Nat]
  /\ delivered \in [Links -> Nat]
  /\ begun \in [Links -> BOOLEAN]
  /\ firsts = [n \in Links |-> {1}]
  /\ scenario \in Scenarios

\* A link in service, and the first delivery of the only service period.
Serving(n) ==
  /\ Working(n)
  /\ pc[n] # "tail"
  /\ begun[n] <=> delivered[n] > 0

\* The window of the sender n: it may have been given SeqMod messages more
\* than were delivered, its buffer holds the last SeqMod, and it goes on from
\* a message that it was given.
Window(n) ==
  /\ delivered[Other(n)] <= given[n]
  /\ given[n] <= delivered[Other(n)] + SeqMod
  /\ tx_last_placed[n] = Num(given[n])
  /\ \A k \in 1 .. given[n] : given[n] < k + SeqMod => txbuffer[n][Num(k)] = k
  /\ \E t \in 0 .. given[n] : last_txd[n] = Num(t)

Took(n) == lssu[n].bsn = Num(delivered[n])

UnderWay(n) == Line(delivered[n], delivered[Other(n)], given[Other(n)], rx[n], tx[Other(n)])

DataInv ==
  /\ TimersOK
  /\ Sides
  /\ \A n \in Links : Serving(n) /\ Window(n) /\ Took(n) /\ UnderWay(n)

LEMMA SideTypes ==
  ASSUME TypeOK, Sides, NEW n \in Links
  PROVE  /\ given[n] \in Nat /\ delivered[n] \in Nat /\ begun[n] \in BOOLEAN
         /\ rx[n] \in Seq(SU) /\ tx[n] \in Seq(SU)
         /\ lssu[n] \in Header /\ last_txd[n] \in Seqno /\ tx_last_placed[n] \in Seqno
         /\ toMtp[n] \in Seq(MtpMsg)
  BY DEF TypeOK, Sides

-----------------------------------------------------------------------------
(* What history notes of a step of n. *)

Delivers(n) == /\ toMtp'[n] # <<>> /\ Len(toMtp'[n]) > Len(toMtp[n])
               /\ toMtp'[n][Len(toMtp'[n])].msg = "LINKTRANSFER"

LEMMA NoteIs ==
  ASSUME Sides, NEW n \in Links, Note(n), state[n] # "SIE"
  PROVE  /\ ~ Delivers(n) => delivered' = delivered /\ begun' = begun
         /\ Delivers(n) =>
              /\ delivered' = [delivered EXCEPT ![n] = toMtp'[n][Len(toMtp'[n])].param]
              /\ begun' = [begun EXCEPT ![n] = TRUE]
         /\ given' = given /\ firsts' = firsts /\ scenario' = scenario
<1>1. /\ delivered' = IF Delivers(n)
                      THEN [delivered EXCEPT ![n] = toMtp'[n][Len(toMtp'[n])].param]
                      ELSE delivered
      /\ begun' = [begun EXCEPT ![n] = IF Delivers(n) THEN TRUE
                                       ELSE begun[n] /\ ~ (state[n] = "SIE" /\ state'[n] = "IS")]
      /\ firsts' = IF state[n] = "SIE" /\ state'[n] = "IS"
                   THEN [firsts EXCEPT ![n] = @ \cup {given[n] + 1}] ELSE firsts
      /\ given' = given /\ scenario' = scenario
  BY Zenon DEF Note, Delivers
<1>2. firsts' = firsts
  BY <1>1, Zenon
<1>3. CASE Delivers(n)
  BY <1>1, <1>2, <1>3, Zenon
<1>4. CASE ~ Delivers(n)
  <2>1. (begun[n] /\ ~ (state[n] = "SIE" /\ state'[n] = "IS")) = begun[n]
    BY SideTypes, Zenon DEF Sides
  <2>2. begun' = [begun EXCEPT ![n] = begun[n]]
    BY <1>1, <1>4, <2>1, Zenon
  <2>3. begun' = begun
    BY <2>2, Zenon DEF Sides
  <2>4. QED
    BY <1>1, <1>2, <1>4, <2>3, Zenon
<1>5. QED
  BY <1>3, <1>4, Zenon

\* A step that posts no message notes nothing.
LEMMA NoteNothing ==
  ASSUME TypeOK, Sides, NEW n \in Links, Note(n), state[n] # "SIE",
         toMtp' = toMtp \/ Announce(n, "LINKRESUME")
  PROVE  UNCHANGED <<given, delivered, begun, firsts, scenario>>
<1>1. ~ Delivers(n)
  <2>1. CASE toMtp' = toMtp
    <3>1. Len(toMtp[n]) \in Nat
      BY DEF TypeOK
    <3>2. QED
      BY <2>1, <3>1 DEF Delivers
  <2>2. CASE Announce(n, "LINKRESUME")
    <3> DEFINE m == [msg |-> "LINKRESUME", param |-> NoMsu]
    <3>1. toMtp[n] \in Seq(MtpMsg) /\ m \in MtpMsg
      BY <2>2 DEF TypeOK, MtpMsg
    <3>2. toMtp'[n] = Append(toMtp[n], m)
      BY <2>2 DEF TypeOK, Announce, Post
    <3>3. toMtp'[n][Len(toMtp'[n])] = m
      BY <3>1, <3>2
    <3>4. QED
      BY <3>3 DEF Delivers
  <2>3. QED
    BY <2>1, <2>2
<1>2. QED
  BY <1>1, NoteIs

\* A step that posts a message notes it.
LEMMA NoteDelivery ==
  ASSUME TypeOK, Sides, NEW n \in Links, Note(n), state[n] # "SIE",
         NEW x \in Msu \cup {NoMsu}, Post(n, [msg |-> "LINKTRANSFER", param |-> x])
  PROVE  /\ delivered' = [delivered EXCEPT ![n] = x]
         /\ begun' = [begun EXCEPT ![n] = TRUE]
         /\ UNCHANGED <<given, firsts, scenario>>
<1> DEFINE m == [msg |-> "LINKTRANSFER", param |-> x]
<1>1. toMtp[n] \in Seq(MtpMsg) /\ m \in MtpMsg
  BY DEF TypeOK, MtpMsg
<1>2. toMtp'[n] = Append(toMtp[n], m)
  BY DEF TypeOK, Post
<1>3. /\ toMtp'[n] # <<>> /\ Len(toMtp'[n]) > Len(toMtp[n])
      /\ toMtp'[n][Len(toMtp'[n])] = m
  BY <1>1, <1>2
<1>4. Delivers(n) /\ toMtp'[n][Len(toMtp'[n])].param = x
  BY <1>3 DEF Delivers
<1>5. QED
  BY <1>4, NoteIs

-----------------------------------------------------------------------------
(* The receive loop. *)

\* The heart of the proof: of the messages that may still arrive, only the
\* next one has the number that the receiver waits for.
LEMMA OnlyTheNext ==
  ASSUME NEW d \in Nat, NEW b \in Nat, NEW g \in Nat, NEW su,
         Valid(d, b, g, su), su.kind = "MSU", g <= d + SeqMod,
         su.hdr.fsn = (Num(d) + 1) % SeqMod
  PROVE  su.msu = d + 1
<1>1. /\ su.msu \in 1 .. g /\ su.hdr.fsn = Num(su.msu) /\ d + 2 <= su.msu + SeqMod
      /\ SeqMod \in Nat
  BY SeqAssumption DEF Valid
<1>2. Num(su.msu) = Num(d + 1)
  BY <1>1, NumNext, Zenon
<1>3. /\ su.msu \in Nat /\ d + 1 \in Nat
      /\ su.msu < (d + 1) + SeqMod /\ d + 1 < su.msu + SeqMod
  BY <1>1
<1>4. QED
  BY <1>2, <1>3, NumApart

History == Sides /\ \A n \in Links : Serving(n) /\ Window(n) /\ Took(n) /\ UnderWay(n)

LEMMA InvParts ==
  ASSUME DataInv, NEW n \in Links
  PROVE  TypeOK /\ Sides /\ Serving(n) /\ Window(n) /\ Took(n) /\ UnderWay(n)
  BY DEF DataInv, TimersOK

\* The SU at the head of the receive ring.
LEMMA HeadValid ==
  ASSUME DataInv, NEW n \in Links, rx[n] # <<>>
  PROVE  /\ Su(n) \in SU
         /\ Valid(delivered[n], delivered[Other(n)], given[Other(n)], Su(n))
<1>1. rx[n] \in Seq(SU)
  BY InvParts, SideTypes
<1>2. 1 \in 1 .. Len(rx[n]) /\ Su(n) = rx[n][1] /\ Su(n) \in SU
  BY <1>1 DEF Su
<1>3. UnderWay(n)
  BY InvParts
<1>4. QED
  BY <1>2, <1>3, Zenon DEF UnderWay, Line, AllValid

\* Reading an SU, which leaves n with e messages delivered.
LEMMA ReadKeeps ==
  ASSUME DataInv, NEW n \in Links, NEW e \in Nat, NEW t, rx[n] # <<>>,
         e = delivered[n] \/ (Su(n).kind = "MSU" /\ e = Su(n).msu /\ e = delivered[n] + 1),
         t = last_txd[n] \/ t = Su(n).hdr.bsn,
         rx' = [rx EXCEPT ![n] = Tail(@)],
         delivered' = [delivered EXCEPT ![n] = e],
         e = delivered[n] => begun' = begun,
         e # delivered[n] => begun' = [begun EXCEPT ![n] = TRUE],
         last_txd' = [last_txd EXCEPT ![n] = t],
         lssu'[n].bsn = Num(e), \A k \in Links : k # n => lssu'[k] = lssu[k],
         UNCHANGED <<tx, state, pc, tx_last_placed, txbuffer, given, firsts, scenario>>
  PROVE  History'
<1> DEFINE m == Other(n)
<1>1. m \in Links /\ m # n /\ Other(m) = n /\ \A k \in Links : k = n \/ k = m
  BY Ends
<1> HIDE DEF m
<1>2. /\ TypeOK /\ Sides
      /\ Serving(n) /\ Window(n) /\ Took(n) /\ UnderWay(n)
      /\ Serving(m) /\ Window(m) /\ Took(m) /\ UnderWay(m)
  BY <1>1, InvParts
<1>3. /\ delivered[n] \in Nat /\ given[n] \in Nat /\ delivered[m] \in Nat /\ given[m] \in Nat
      /\ rx[n] \in Seq(SU) /\ tx[m] \in Seq(SU) /\ begun[n] \in BOOLEAN
  BY <1>1, <1>2, SideTypes
<1>4. Valid(delivered[n], delivered[m], given[m], Su(n))
  BY HeadValid DEF m
<1>5. /\ delivered'[n] = e /\ delivered'[m] = delivered[m] /\ delivered[n] <= e
      /\ e <= given[m] /\ given[m] <= e + SeqMod
  <2>1. e = delivered[n] \/ e \in 1 .. given[m]
    BY <1>4, Zenon DEF Valid
  <2>2. delivered[n] <= given[m] /\ given[m] <= delivered[n] + SeqMod
    BY <1>1, <1>2 DEF Window
  <2>3. QED
    BY <1>1, <1>2, <1>3, <2>1, <2>2, SeqAssumption DEF Sides
<1>6. Sides'
  BY <1>2 DEF Sides
<1>7. Serving(n)' /\ Serving(m)'
  <2>1. begun[n] <=> delivered[n] > 0
    BY <1>2 DEF Serving
  <2>2. begun'[m] = begun[m]
    BY <1>1, <1>2 DEF Sides
  <2>3. begun'[n] <=> e > 0
    <3>1. CASE e = delivered[n]
      BY <2>1, <3>1
    <3>2. CASE e # delivered[n]
      <4>1. begun'[n] = TRUE
        BY <1>2, <3>2 DEF Sides
      <4>2. e > 0
        BY <1>3, <1>5, <3>2
      <4>3. QED
        BY <4>1, <4>2
    <3>3. QED
      BY <3>1, <3>2
  <2>4. QED
    BY <1>2, <1>5, <2>2, <2>3 DEF Serving, Working
<1>8. Window(n)'
  <2>1. \E u \in 0 .. given[n] : t = Num(u)
    <3>1. CASE t = last_txd[n]
      BY <1>2, <3>1 DEF Window
    <3>2. CASE t = Su(n).hdr.bsn
      <4>1. PICK x \in 0 .. delivered[m] : Su(n).hdr.bsn = Num(x)
        BY <1>4 DEF Valid
      <4>2. x \in 0 .. given[n]
        BY <1>2, <1>3 DEF Window, m
      <4>3. QED
        BY <3>2, <4>1, <4>2
    <3>3. QED
      BY <3>1, <3>2
  <2>2. last_txd'[n] = t
    BY <1>2 DEF TypeOK
  <2>3. delivered'[m] <= given[n] /\ given[n] <= delivered'[m] + SeqMod
    BY <1>2, <1>5 DEF Window, m
  <2>4. QED
    BY <1>2, <2>1, <2>2, <2>3 DEF Window, m
<1>9. Window(m)'
  <2>1. last_txd'[m] = last_txd[m]
    BY <1>1, <1>2 DEF TypeOK
  <2>2. QED
    BY <1>1, <1>2, <1>5, <2>1 DEF Window
<1>10. Took(n)' /\ Took(m)'
  BY <1>1, <1>2, <1>5 DEF Took
<1>11. UnderWay(n)'
  <2>1. Line(delivered[n], delivered[m], given[m], rx[n], tx[m])
    BY <1>2 DEF UnderWay, m
  <2>2. Line(e, delivered[m], given[m], Tail(rx[n]), tx[m])
    BY <1>3, <2>1, LineRead DEF Su
  <2>3. rx'[n] = Tail(rx[n])
    BY <1>2 DEF TypeOK
  <2>4. QED
    BY <1>5, <2>2, <2>3 DEF UnderWay, m
<1>12. UnderWay(m)'
  <2>1. Line(delivered[m], delivered[n], given[n], rx[m], tx[n])
    BY <1>1, <1>2 DEF UnderWay
  <2>2. Line(delivered[m], e, given[n], rx[m], tx[n])
    <3>1. \A x \in 0 .. delivered[n] : x \in 0 .. e
      BY <1>3, <1>5
    <3>2. \A su : Valid(delivered[m], delivered[n], given[n], su)
                 => Valid(delivered[m], e, given[n], su)
      BY <3>1, Zenon DEF Valid
    <3>3. QED
      BY <2>1, <3>2, Zenon DEF Line, AllValid
  <2>3. rx'[m] = rx[m]
    BY <1>1, <1>2 DEF TypeOK
  <2>4. QED
    BY <1>1, <1>5, <2>2, <2>3 DEF UnderWay
<1>13. QED
  BY <1>1, <1>6, <1>7, <1>8, <1>9, <1>10, <1>11, <1>12 DEF History

\* What CheckNack and FlipFib leave alone.
LEMMA NackKeeps ==
  ASSUME TypeOK, NEW n \in Links, CheckNack(n)
  PROVE  /\ FlipFib(n) \in [bsn : Seqno, bib : Bit, fsn : Seqno, fib : {0, 1}]
         /\ FlipFib(n).bsn = lssu[n].bsn
         /\ \E t : /\ last_txd' = [last_txd EXCEPT ![n] = t]
                   /\ t = last_txd[n] \/ t = Su(n).hdr.bsn
<1>1. lssu[n] \in Header
  BY DEF TypeOK
<1>2. FlipFib(n) = lssu[n] \/ FlipFib(n) = [lssu[n] EXCEPT !.fib = 1 - lssu[n].fib]
  BY Zenon DEF FlipFib
<1>3. /\ FlipFib(n) \in [bsn : Seqno, bib : Bit, fsn : Seqno, fib : {0, 1}]
      /\ FlipFib(n).bsn = lssu[n].bsn
  BY <1>1, <1>2 DEF Header, Bit
<1>4. QED
  BY <1>3, Zenon DEF CheckNack

LEMMA NextInSequence ==
  ASSUME DataInv, NEW n \in Links, rx[n] # <<>>, Su(n).kind = "MSU", InSequence(n)
  PROVE  /\ Su(n).msu = delivered[n] + 1
         /\ Su(n).msu \in Msu \cup {NoMsu}
         /\ Su(n).hdr.fsn = Num(delivered[n] + 1)
<1>1. TypeOK /\ Sides /\ Took(n) /\ delivered[n] \in Nat
  BY InvParts, SideTypes
<1>2. Su(n) \in SU /\ Valid(delivered[n], delivered[Other(n)], given[Other(n)], Su(n))
  BY HeadValid
<1>3. Su(n).hdr.fsn = (Num(delivered[n]) + 1) % SeqMod
  BY <1>1 DEF InSequence, Took
<1>4. /\ Other(n) \in Links /\ delivered[Other(n)] \in Nat /\ given[Other(n)] \in Nat
      /\ given[Other(n)] <= delivered[n] + SeqMod
  BY <1>1, Ends, InvParts, SideTypes DEF Window
<1>5. Su(n).msu = delivered[n] + 1
  BY <1>1, <1>2, <1>3, <1>4, OnlyTheNext
<1>6. Su(n).msu \in Msu \cup {NoMsu}
  BY <1>2 DEF SU
<1>7. QED
  BY <1>1, <1>3, <1>5, <1>6, NumNext

LEMMA RxMsuKeeps ==
  ASSUME DataInv, NEW n \in Links, RxMsu(n), Note(n)
  PROVE  History'
<1>1. /\ TypeOK /\ Sides /\ Serving(n) /\ Window(n) /\ Took(n) /\ UnderWay(n)
  BY InvParts
<1>2. /\ rx[n] # <<>> /\ Su(n).kind = "MSU" /\ Working(n) /\ state[n] # "SIE"
      /\ rx' = [rx EXCEPT ![n] = Tail(@)]
      /\ CheckNack(n)
      /\ UNCHANGED <<tx, state, pc, tx_last_placed, txbuffer>>
  BY <1>1 DEF RxMsu, RxMsg, Serving, Working
<1>3. PICK t : /\ last_txd' = [last_txd EXCEPT ![n] = t]
               /\ t = last_txd[n] \/ t = Su(n).hdr.bsn
  BY <1>1, <1>2, NackKeeps
<1>4. delivered[n] \in Nat /\ delivered[n] + 1 \in Nat /\ delivered[n] + 1 # delivered[n]
  BY <1>1, SideTypes
<1>5. CASE InSequence(n) /\ Post(n, [msg |-> "LINKTRANSFER", param |-> Su(n).msu])
           /\ lssu' = [lssu EXCEPT ![n] = [FlipFib(n) EXCEPT !.bsn = Su(n).hdr.fsn]]
  <2>1. /\ Su(n).msu = delivered[n] + 1 /\ Su(n).msu \in Msu \cup {NoMsu}
        /\ Su(n).hdr.fsn = Num(delivered[n] + 1)
    BY <1>2, <1>5, NextInSequence
  <2>2. /\ delivered' = [delivered EXCEPT ![n] = delivered[n] + 1]
        /\ begun' = [begun EXCEPT ![n] = TRUE]
        /\ UNCHANGED <<given, firsts, scenario>>
    BY <1>1, <1>2, <1>5, <2>1, NoteDelivery
  <2>3. lssu'[n].bsn = Num(delivered[n] + 1) /\ \A k \in Links : k # n => lssu'[k] = lssu[k]
    <3>1. [FlipFib(n) EXCEPT !.bsn = Su(n).hdr.fsn].bsn = Su(n).hdr.fsn
      BY <1>1, <1>2, NackKeeps
    <3>2. QED
      BY <1>1, <1>5, <2>1, <3>1, Zenon DEF TypeOK
  <2>4. QED
    BY <1>2, <1>3, <1>4, <2>1, <2>2, <2>3, ReadKeeps
<1>6. CASE ~ InSequence(n) /\ UNCHANGED toMtp
           /\ lssu' = [lssu EXCEPT ![n] = [FlipFib(n) EXCEPT !.bib = 1 - Su(n).hdr.fib]]
  <2>1. UNCHANGED <<given, delivered, begun, firsts, scenario>>
    BY <1>1, <1>2, <1>6, NoteNothing
  <2>2. lssu'[n].bsn = Num(delivered[n]) /\ \A k \in Links : k # n => lssu'[k] = lssu[k]
    <3>1. [FlipFib(n) EXCEPT !.bib = 1 - Su(n).hdr.fib].bsn = lssu[n].bsn
      BY <1>1, <1>2, NackKeeps
    <3>2. QED
      BY <1>1, <1>6, <3>1, Zenon DEF TypeOK, Took
  <2>3. delivered' = [delivered EXCEPT ![n] = delivered[n]]
    BY <1>1, <2>1 DEF Sides
  <2>4. QED
    BY <1>2, <1>3, <1>4, <2>1, <2>2, <2>3, ReadKeeps
<1>7. QED
  BY <1>2, <1>5, <1>6, Zenon DEF RxMsu

LEMMA RxFisuKeeps ==
  ASSUME DataInv, NEW n \in Links, RxFisuIgnored(n), Note(n)
  PROVE  History'
<1>1. /\ TypeOK /\ Sides /\ Serving(n) /\ Took(n)
  BY InvParts
<1>2. /\ rx[n] # <<>> /\ state[n] # "SIE"
      /\ rx' = [rx EXCEPT ![n] = Tail(@)]
      /\ CheckNack(n)
      /\ lssu' = [lssu EXCEPT ![n] = FlipFib(n)]
      /\ UNCHANGED <<tx, state, pc, tx_last_placed, txbuffer, toMtp>>
  BY <1>1 DEF RxFisuIgnored, RxMsg, mtpVars
<1>3. PICK t : /\ last_txd' = [last_txd EXCEPT ![n] = t]
               /\ t = last_txd[n] \/ t = Su(n).hdr.bsn
  BY <1>1, <1>2, NackKeeps
<1>4. delivered[n] \in Nat
  BY <1>1, SideTypes
<1>5. UNCHANGED <<given, delivered, begun, firsts, scenario>>
  BY <1>1, <1>2, NoteNothing
<1>6. lssu'[n].bsn = Num(delivered[n]) /\ \A k \in Links : k # n => lssu'[k] = lssu[k]
  <2>1. FlipFib(n).bsn = lssu[n].bsn
    BY <1>1, <1>2, NackKeeps
  <2>2. QED
    BY <1>1, <1>2, <2>1, Zenon DEF TypeOK, Took
<1>7. delivered' = [delivered EXCEPT ![n] = delivered[n]]
  BY <1>1, <1>5 DEF Sides
<1>8. QED
  BY <1>2, <1>3, <1>4, <1>5, <1>6, <1>7, ReadKeeps

-----------------------------------------------------------------------------
(* The transmitter. *)

\* Sending an SU, after which the sender stands at t.
LEMMA SendKeeps ==
  ASSUME DataInv, NEW n \in Links, NEW su \in SU, NEW t,
         Valid(delivered[Other(n)], delivered[n], given[n], su),
         su.kind = "MSU" => given[n] + 2 <= su.msu + SeqMod,
         \E u \in 0 .. given[n] : t = Num(u),
         last_txd' = [last_txd EXCEPT ![n] = t],
         tx' = tx \/ tx' = [tx EXCEPT ![n] = Append(@, su)],
         lssu'[n].bsn = lssu[n].bsn, \A k \in Links : k # n => lssu'[k] = lssu[k],
         Working(n)', pc'[n] # "tail",
         \A k \in Links : k # n => state'[k] = state[k] /\ pc'[k] = pc[k],
         UNCHANGED <<rx, tx_last_placed, txbuffer, given, delivered, begun, firsts, scenario>>
  PROVE  History'
<1> DEFINE m == Other(n)
<1>1. m \in Links /\ m # n /\ Other(m) = n /\ \A k \in Links : k = n \/ k = m
  BY Ends
<1> HIDE DEF m
<1>2. /\ TypeOK /\ Sides
      /\ Serving(n) /\ Window(n) /\ Took(n) /\ UnderWay(n)
      /\ Serving(m) /\ Window(m) /\ Took(m) /\ UnderWay(m)
  BY <1>1, InvParts
<1>3. /\ delivered[n] \in Nat /\ given[n] \in Nat /\ delivered[m] \in Nat /\ given[m] \in Nat
      /\ rx[m] \in Seq(SU) /\ tx[n] \in Seq(SU)
  BY <1>1, <1>2, SideTypes
<1>4. Sides'
  BY <1>2 DEF Sides
<1>5. Serving(n)' /\ Serving(m)'
  BY <1>1, <1>2 DEF Serving, Working
<1>6. Window(n)'
  <2>1. last_txd'[n] = t
    BY <1>2 DEF TypeOK
  <2>2. QED
    BY <1>2, <2>1 DEF Window
<1>7. Window(m)'
  <2>1. last_txd'[m] = last_txd[m]
    BY <1>1, <1>2 DEF TypeOK
  <2>2. QED
    BY <1>2, <2>1 DEF Window
<1>8. Took(n)' /\ Took(m)'
  BY <1>1, <1>2 DEF Took
<1>9. UnderWay(n)'
  <2>1. tx'[m] = tx[m]
    BY <1>1, <1>2, SMTT(60) DEF TypeOK
  <2>2. QED
    BY <1>2, <2>1 DEF UnderWay, m
<1>10. UnderWay(m)'
  <2>1. Line(delivered[m], delivered[n], given[n], rx[m], tx[n])
    BY <1>1, <1>2 DEF UnderWay
  <2>2. Line(delivered[m], delivered[n], given[n], rx[m], Append(tx[n], su))
    BY <1>3, <2>1, LineSend DEF m
  <2>3. tx'[n] = tx[n] \/ tx'[n] = Append(tx[n], su)
    BY <1>2 DEF TypeOK
  <2>4. QED
    BY <1>1, <2>1, <2>2, <2>3 DEF UnderWay
<1>11. QED
  BY <1>1, <1>4, <1>5, <1>6, <1>7, <1>8, <1>9, <1>10 DEF History

\* The message that follows the last one sent, as the sender sees it: one of
\* the last SeqMod - 1 it was given.
LEMMA TxMsuKeeps ==
  ASSUME DataInv, NEW n \in Links, TxMsu(n), Note(n)
  PROVE  History'
<1> DEFINE m == Other(n)
           su == NextMsu(n)
<1>1. m \in Links /\ Other(m) = n
  BY Ends
<1>2. /\ TypeOK /\ Sides /\ Serving(n) /\ Window(n) /\ Took(n) /\ Window(n)
  BY InvParts
<1>3. /\ delivered[n] \in Nat /\ given[n] \in Nat /\ delivered[m] \in Nat
      /\ delivered[m] <= given[n] /\ lssu[n] \in Header
  BY <1>1, <1>2, SideTypes DEF Window
<1>4. /\ Working(n) /\ state[n] # "SIE" /\ Pending(n) # 0
      /\ TxMsg(n, su)
      /\ last_txd' = [last_txd EXCEPT ![n] = NextSeqno(n)]
      /\ lssu' = [lssu EXCEPT ![n].fsn = NextSeqno(n)]
      /\ pc' = [pc EXCEPT ![n] = IF Pending(n) = 1 THEN "idle" ELSE "burst"]
      /\ UNCHANGED <<state, tx_last_placed, txbuffer, rx, toMtp>>
  BY DEF TxMsu, Working, mtpVars
<1>5. PICK u \in 0 .. given[n] : Num(u) = last_txd[n] /\ given[n] < u + SeqMod
  <2>1. PICK t \in 0 .. given[n] : last_txd[n] = Num(t)
    BY <1>2, Zenon DEF Window
  <2>2. given[n] \in Nat
    BY <1>3
  <2>3. \E u \in 0 .. given[n] : Num(u) = Num(t) /\ given[n] < u + SeqMod
    BY <2>2, NumLatest, Zenon
  <2>4. QED
    BY <2>1, <2>3, Zenon
<1>6. u # given[n]
  <2>1. tx_last_placed[n] \in Seqno /\ Num(given[n]) = tx_last_placed[n]
    BY <1>2, SideTypes DEF Window
  <2>2. 0 % SeqMod = 0 /\ \A x \in Seqno : x - x = 0
    BY SeqAssumption DEF Seqno
  <2>3. u = given[n] => last_txd[n] = tx_last_placed[n]
    BY <1>5, <2>1
  <2>4. QED
    BY <1>4, <2>1, <2>2, <2>3 DEF Pending
<1>7. /\ u \in Nat /\ u + 1 \in 1 .. given[n] /\ given[n] + 2 <= (u + 1) + SeqMod
      /\ given[n] < (u + 1) + SeqMod /\ u + 1 \in 0 .. given[n]
      /\ delivered[m] + 2 <= (u + 1) + SeqMod
  BY <1>3, <1>5, <1>6, SeqAssumption
<1>8. NextSeqno(n) = Num(u + 1)
  BY <1>5, <1>7, NumNext DEF NextSeqno
<1>9. NextSeqno(n) \in Seqno
  BY <1>7, <1>8, NumSeqno
<1>10. txbuffer[n][NextSeqno(n)] = u + 1 /\ txbuffer[n][NextSeqno(n)] \in Msu \cup {NoMsu}
  BY <1>2, <1>7, <1>8, <1>9 DEF Window, TypeOK
<1>11. /\ [lssu[n] EXCEPT !.fsn = NextSeqno(n)] \in Header
       /\ [lssu[n] EXCEPT !.fsn = NextSeqno(n)].bsn = lssu[n].bsn
       /\ [lssu[n] EXCEPT !.fsn = NextSeqno(n)].fsn = NextSeqno(n)
  BY <1>3, <1>9 DEF Header
<1>12. /\ su \in SU /\ su.kind = "MSU" /\ su.msu = u + 1
       /\ su.hdr.bsn = lssu[n].bsn /\ su.hdr.fsn = NextSeqno(n)
  BY <1>10, <1>11 DEF NextMsu, SU
<1> HIDE DEF su, m
<1>13. Valid(delivered[m], delivered[n], given[n], su)
  <2>1. delivered[n] \in 0 .. delivered[n] /\ su.hdr.bsn = Num(delivered[n])
    BY <1>2, <1>3, <1>12 DEF Took
  <2>2. QED
    BY <1>7, <1>8, <1>12, <2>1 DEF Valid
<1>14. tx' = tx \/ tx' = [tx EXCEPT ![n] = Append(@, su)]
  <2>1. tx' = [tx EXCEPT ![n] = IF Room(n) > 0 THEN Append(tx[n], su) ELSE tx[n]]
    BY <1>4 DEF TxMsg, su
  <2>2. [tx EXCEPT ![n] = tx[n]] = tx
    BY <1>2 DEF TypeOK
  <2>3. QED
    BY <2>1, <2>2, Zenon
<1>15. lssu'[n].bsn = lssu[n].bsn /\ \A k \in Links : k # n => lssu'[k] = lssu[k]
  BY <1>2, <1>4, <1>11 DEF TypeOK
<1>16. /\ Working(n)' /\ pc'[n] # "tail"
       /\ \A k \in Links : k # n => state'[k] = state[k] /\ pc'[k] = pc[k]
  BY <1>2, <1>4 DEF TypeOK, Working
<1>17. UNCHANGED <<given, delivered, begun, firsts, scenario>>
  BY <1>2, <1>4, NoteNothing
<1>18. \E v \in 0 .. given[n] : NextSeqno(n) = Num(v)
  BY <1>7, <1>8
<1>19. su.kind = "MSU" => given[n] + 2 <= su.msu + SeqMod
  BY <1>7, <1>12
<1>20. QED
  BY <1>4, <1>12, <1>13, <1>14, <1>15, <1>16, <1>17, <1>18, <1>19, SendKeeps DEF m

\* The FISU acknowledges what was delivered.
LEMMA TxNothingKeeps ==
  ASSUME DataInv, NEW n \in Links, TxNothing(n), Note(n)
  PROVE  History'
<1> DEFINE m == Other(n)
           su == Fisu(lssu[n])
<1>1. /\ TypeOK /\ Sides /\ Serving(n) /\ Window(n) /\ Took(n)
  BY InvParts
<1>2. /\ delivered[n] \in Nat /\ lssu[n] \in Header
  BY <1>1, SideTypes
<1>3. /\ Working(n) /\ state[n] # "SIE"
      /\ pc' = [pc EXCEPT ![n] = "idle"]
      /\ \/ state' = [state EXCEPT ![n] = "IS"] /\ Announce(n, "LINKRESUME")
         \/ state' = state /\ toMtp' = toMtp
      /\ TxMsg(n, su) \/ tx' = tx
      /\ UNCHANGED <<lssu, last_txd, tx_last_placed, txbuffer, rx>>
  BY Zenon DEF TxNothing, LastStep, Working, mtpVars
<1>4. su \in SU /\ su.kind = "FISU" /\ su.hdr.bsn = lssu[n].bsn
  BY <1>2, BuiltSU DEF Fisu
<1> HIDE DEF su
<1>5. Valid(delivered[m], delivered[n], given[n], su)
  <2>1. delivered[n] \in 0 .. delivered[n] /\ su.hdr.bsn = Num(delivered[n])
    BY <1>1, <1>2, <1>4 DEF Took
  <2>2. QED
    BY <1>4, <2>1 DEF Valid
<1>6. tx' = tx \/ tx' = [tx EXCEPT ![n] = Append(@, su)]
  <2>1. CASE TxMsg(n, su)
    <3>1. tx' = [tx EXCEPT ![n] = IF Room(n) > 0 THEN Append(tx[n], su) ELSE tx[n]]
      BY <2>1 DEF TxMsg
    <3>2. [tx EXCEPT ![n] = tx[n]] = tx
      BY <1>1 DEF TypeOK
    <3>3. QED
      BY <3>1, <3>2, Zenon
  <2>2. QED
    BY <1>3, <2>1 DEF su
<1>7. UNCHANGED <<given, delivered, begun, firsts, scenario>>
  BY <1>1, <1>3, NoteNothing
<1>8. /\ Working(n)' /\ pc'[n] # "tail"
      /\ \A k \in Links : k # n => state'[k] = state[k] /\ pc'[k] = pc[k]
  BY <1>1, <1>3 DEF TypeOK, Working
<1>9. last_txd' = [last_txd EXCEPT ![n] = last_txd[n]]
  BY <1>1, <1>3 DEF TypeOK
<1>10. \E v \in 0 .. given[n] : last_txd[n] = Num(v)
  BY <1>1 DEF Window
<1>11. su.kind # "MSU" /\ lssu' = lssu
  BY <1>3, <1>4
<1>12. QED
  BY <1>3, <1>4, <1>5, <1>6, <1>7, <1>8, <1>9, <1>10, <1>11, SendKeeps

\* Nothing that the invariant speaks of changes.
LEMMA RestKeeps ==
  ASSUME DataInv, NEW n \in Links,
         \/ (Timer(n) \/ TxBlocked(n)) /\ Note(n)
         \/ Handle(n)
  PROVE  History'
<1>1. /\ TypeOK /\ Sides /\ Serving(n)
  BY InvParts
<1>2. /\ UNCHANGED <<state, lssu, last_txd, tx_last_placed, txbuffer, rx, tx>>
      /\ pc' = pc \/ \E p \in {"rx", "idle"} : pc' = [pc EXCEPT ![n] = p]
  BY Zenon DEF Timer, TxBlocked, Handle, MtpHandles, seqVars
<1>3. UNCHANGED <<given, delivered, begun, firsts, scenario>>
  <2>1. CASE Handle(n)
    BY <2>1 DEF Handle, history
  <2>2. CASE (Timer(n) \/ TxBlocked(n)) /\ Note(n)
    <3>1. toMtp' = toMtp /\ state[n] # "SIE"
      BY <1>1, <2>2 DEF Timer, TxBlocked, mtpVars, Serving, Working
    <3>2. QED
      BY <1>1, <2>2, <3>1, NoteNothing
  <2>3. QED
    BY <2>1, <2>2
<1>4. ASSUME NEW k \in Links PROVE pc[k] # "tail" => pc'[k] # "tail"
  BY <1>1, <1>2 DEF TypeOK
<1>5. ASSUME NEW k \in Links
      PROVE  Serving(k)' /\ Window(k)' /\ Took(k)' /\ UnderWay(k)'
  <2>1. Serving(k) /\ Window(k) /\ Took(k) /\ UnderWay(k)
    BY InvParts
  <2>2. Serving(k)'
    BY <1>2, <1>3, <1>4, <2>1 DEF Serving, Working
  <2>3. Window(k)' /\ Took(k)' /\ UnderWay(k)'
    BY <1>2, <1>3, <2>1, Zenon DEF Window, Took, UnderWay
  <2>4. QED
    BY <2>2, <2>3
<1>6. Sides'
  BY <1>1, <1>3 DEF Sides
<1>7. QED
  BY <1>5, <1>6 DEF History

-----------------------------------------------------------------------------
(* MTP3 gives a message, and the line. *)

LEMMA QuotaType ==
  ASSUME scenario \in Scenarios, NEW n \in Links
  PROVE  scenario.quota[n] \in 0 .. MaxSent /\ MaxSent \in Nat
<1>1. scenario \in [aligned : BOOLEAN, quota : [Links -> 0 .. MaxSent], faults : 0 .. MaxFaults]
  BY PairAssumption
<1>2. QED
  BY <1>1, PairAssumption

\* The new message takes the place of the one SeqMod before it, if any.
LEMMA GiveKeeps ==
  ASSUME DataInv, MaxUndelivered <= SeqMod, NEW n \in Links, Give(n)
  PROVE  History'
<1> DEFINE m == Other(n)
<1>1. m \in Links /\ m # n /\ Other(m) = n /\ \A k \in Links : k = n \/ k = m
  BY Ends
<1> HIDE DEF m
<1>2. /\ TypeOK /\ Sides
      /\ Serving(n) /\ Window(n) /\ Took(n) /\ UnderWay(n)
      /\ Serving(m) /\ Window(m) /\ Took(m) /\ UnderWay(m)
  BY <1>1, InvParts
<1>3. /\ delivered[n] \in Nat /\ given[n] \in Nat /\ delivered[m] \in Nat /\ given[m] \in Nat
      /\ tx_last_placed[n] \in Seqno
  BY <1>1, <1>2, SideTypes
<1>4. /\ given[n] < scenario.quota[n] /\ given[n] - delivered[m] < MaxUndelivered
      /\ LinkTransfer(n, given[n] + 1)
      /\ given' = [given EXCEPT ![n] = @ + 1]
      /\ UNCHANGED <<delivered, begun, firsts, scenario>>
  BY DEF Give, m
<1>5. /\ tx_last_placed' = [tx_last_placed EXCEPT ![n] = (@ + 1) % SeqMod]
      /\ txbuffer' = [txbuffer EXCEPT ![n][tx_last_placed'[n]] = given[n] + 1]
      /\ state' = state \/ (state[n] = "IS" /\ state' = [state EXCEPT ![n] = "BUF_OVERFLOW"])
      /\ UNCHANGED <<lssu, last_txd, pc, rx, tx>>
  BY <1>4 DEF LinkTransfer
<1>6. given'[n] = given[n] + 1 /\ given'[m] = given[m] /\ given' \in [Links -> Nat]
  BY <1>1, <1>2, <1>3, <1>4 DEF Sides
<1>7. Sides'
  BY <1>2, <1>4, <1>6 DEF Sides
<1>8. Serving(n)' /\ Serving(m)'
  BY <1>1, <1>2, <1>4, <1>5 DEF Serving, Working, TypeOK
<1>9. tx_last_placed'[n] = Num(given[n] + 1)
  <2>1. (tx_last_placed[n] + 1) % SeqMod = Num(given[n] + 1)
    BY <1>2, <1>3, NumNext DEF Window
  <2>2. QED
    BY <1>2, <1>5, <2>1 DEF TypeOK
<1>10. /\ txbuffer'[n][Num(given[n] + 1)] = given[n] + 1
       /\ \A x \in Seqno : x # Num(given[n] + 1) => txbuffer'[n][x] = txbuffer[n][x]
  <2>1. Num(given[n] + 1) \in Seqno /\ txbuffer[n] \in [Seqno -> Msu \cup {NoMsu}]
    BY <1>2, <1>3, NumSeqno DEF TypeOK
  <2>2. txbuffer'[n] = [txbuffer[n] EXCEPT ![Num(given[n] + 1)] = given[n] + 1]
    BY <1>2, <1>5, <1>9 DEF TypeOK
  <2>3. QED
    BY <2>1, <2>2
<1>11. Window(n)'
  <2>1. delivered[m] <= given[n] + 1 /\ given[n] + 1 <= delivered[m] + SeqMod
    BY <1>2, <1>3, <1>4, SeqAssumption, PairAssumption, SMTT(60) DEF Window, m
  <2>2. ASSUME NEW k \in 1 .. given[n] + 1, given[n] + 1 < k + SeqMod
        PROVE  txbuffer'[n][Num(k)] = k
    <3>1. CASE k = given[n] + 1
      BY <1>10, <3>1
    <3>2. CASE k # given[n] + 1
      <4>1. /\ k \in Nat /\ given[n] + 1 \in Nat /\ k \in 1 .. given[n]
            /\ given[n] < k + SeqMod /\ k < given[n] + 1 + SeqMod
        BY <1>3, <2>2, <3>2, SeqAssumption
      <4>2. Num(k) # Num(given[n] + 1)
        BY <2>2, <3>2, <4>1, NumApart
      <4>3. txbuffer'[n][Num(k)] = txbuffer[n][Num(k)]
        BY <1>10, <4>1, <4>2, NumSeqno
      <4>4. QED
        BY <1>2, <4>1, <4>3 DEF Window
    <3>3. QED
      BY <3>1, <3>2
  <2>3. \E t \in 0 .. given[n] + 1 : last_txd'[n] = Num(t)
    <3>1. \A t \in 0 .. given[n] : t \in 0 .. given[n] + 1
      BY <1>3
    <3>2. QED
      BY <1>2, <1>5, <3>1 DEF Window
  <2>4. QED
    BY <1>4, <1>6, <1>9, <2>1, <2>2, <2>3 DEF Window, m
<1>12. Window(m)'
  <2>1. tx_last_placed'[m] = tx_last_placed[m] /\ txbuffer'[m] = txbuffer[m]
    BY <1>1, <1>2, <1>5 DEF TypeOK
  <2>2. QED
    BY <1>2, <1>4, <1>5, <1>6, <2>1 DEF Window
<1>13. Took(n)' /\ Took(m)'
  BY <1>2, <1>4, <1>5 DEF Took
<1>14. UnderWay(n)'
  BY <1>2, <1>4, <1>5, <1>6 DEF UnderWay, m
<1>15. UnderWay(m)'
  <2>1. Line(delivered[m], delivered[n], given[n], rx[m], tx[n])
    BY <1>1, <1>2 DEF UnderWay
  <2>2. Line(delivered[m], delivered[n], given[n] + 1, rx[m], tx[n])
    <3>1. \A x \in 1 .. given[n] : x \in 1 .. given[n] + 1
      BY <1>3
    <3>2. \A su : Valid(delivered[m], delivered[n], given[n], su)
                 => Valid(delivered[m], delivered[n], given[n] + 1, su)
      BY <3>1, Zenon DEF Valid
    <3>3. QED
      BY <2>1, <3>2, Zenon DEF Line, AllValid
  <2>3. QED
    BY <1>1, <1>4, <1>5, <1>6, <2>2 DEF UnderWay
<1>16. QED
  BY <1>1, <1>7, <1>8, <1>11, <1>12, <1>13, <1>14, <1>15 DEF History

\* What the line does to the rings: an SU leaves one and may enter the other.
LEMMA Carried ==
  ASSUME TypeOK, NEW n \in Links, Carry(n)
  PROVE  /\ tx[n] # <<>> /\ Head(tx[n]) \in SU
         /\ tx' = [tx EXCEPT ![n] = Tail(@)]
         /\ \/ rx' = rx
            \/ /\ Len(rx[Other(n)]) < Slots
               /\ rx' = [rx EXCEPT ![Other(n)] = Append(@, Head(tx[n]))]
<1>1. tx[n] # <<>> /\ tx[n] \in Seq(SU) /\ Other(n) \in Links
  BY Ends DEF TypeOK, Carry
<1>2. Head(tx[n]) \in SU
  BY <1>1
<1>3. CASE Arrive(Other(n), Head(tx[n]))
  <2> DEFINE m == Other(n)
             su == Head(tx[n])
  <2>1. rx' = [rx EXCEPT ![m] = IF Filtered(m, su) \/ Len(rx[m]) = Slots
                                THEN rx[m] ELSE Append(rx[m], su)]
    BY <1>3 DEF Arrive
  <2>2. CASE Filtered(m, su) \/ Len(rx[m]) = Slots
    <3>1. rx' = [rx EXCEPT ![m] = rx[m]]
      BY <2>1, <2>2
    <3>2. rx' = rx
      BY <1>1, <3>1 DEF TypeOK
    <3>3. QED
      BY <1>1, <1>2, <3>2 DEF Carry
  <2>3. CASE ~ (Filtered(m, su) \/ Len(rx[m]) = Slots)
    <3>1. rx' = [rx EXCEPT ![m] = Append(rx[m], su)]
      BY <2>1, <2>3
    <3>2. Len(rx[m]) < Slots
      BY <1>1, <2>3, SlotsAssumption DEF TypeOK
    <3>3. QED
      BY <1>1, <1>2, <3>1, <3>2 DEF Carry
  <2>4. QED
    BY <2>2, <2>3
<1>4. CASE rx' = rx
  BY <1>1, <1>2, <1>4 DEF Carry
<1>5. QED
  BY <1>3, <1>4 DEF Carry

LEMMA CarryKeeps ==
  ASSUME DataInv, NEW n \in Links, Carry(n)
  PROVE  History'
<1> DEFINE m == Other(n)
<1>1. m \in Links /\ m # n /\ Other(m) = n /\ \A k \in Links : k = n \/ k = m
  BY Ends
<1> HIDE DEF m
<1>2. /\ TypeOK /\ Sides
      /\ Serving(n) /\ Window(n) /\ Took(n) /\ UnderWay(n)
      /\ Serving(m) /\ Window(m) /\ Took(m) /\ UnderWay(m)
  BY <1>1, InvParts
<1>3. rx[m] \in Seq(SU) /\ tx[n] \in Seq(SU)
  BY <1>1, <1>2, SideTypes
<1>4. /\ UNCHANGED <<state, lssu, last_txd, tx_last_placed, txbuffer, pc>>
      /\ UNCHANGED <<given, delivered, begun, firsts, scenario>>
  BY DEF Carry, seqVars, history
<1>5. /\ tx[n] # <<>> /\ tx' = [tx EXCEPT ![n] = Tail(@)]
      /\ rx' = rx \/ rx' = [rx EXCEPT ![m] = Append(@, Head(tx[n]))]
  BY <1>2, Carried DEF m
<1>6. /\ tx'[n] = Tail(tx[n]) /\ tx'[m] = tx[m] /\ rx'[n] = rx[n]
      /\ rx'[m] = rx[m] \/ rx'[m] = Append(rx[m], Head(tx[n]))
  BY <1>1, <1>2, <1>5, ZenonT(60) DEF TypeOK
<1>7. Sides'
  BY <1>2, <1>4 DEF Sides
<1>8. /\ Serving(n)' /\ Window(n)' /\ Took(n)'
      /\ Serving(m)' /\ Window(m)' /\ Took(m)'
  BY <1>2, <1>4, Zenon DEF Serving, Working, Window, Took
<1>9. UnderWay(n)'
  BY <1>2, <1>4, <1>6 DEF UnderWay, m
<1>10. UnderWay(m)'
  <2>1. Line(delivered[m], delivered[n], given[n], rx[m], tx[n])
    BY <1>1, <1>2 DEF UnderWay
  <2>2. /\ Line(delivered[m], delivered[n], given[n], rx[m], Tail(tx[n]))
        /\ Line(delivered[m], delivered[n], given[n], Append(rx[m], Head(tx[n])), Tail(tx[n]))
    BY <1>3, <1>5, <2>1, LineTakes, LineArrives
  <2>3. QED
    BY <1>1, <1>4, <1>6, <2>2 DEF UnderWay
<1>11. QED
  BY <1>1, <1>7, <1>8, <1>9, <1>10 DEF History

-----------------------------------------------------------------------------
(* Types, for every scenario. *)

PairTyped == /\ TimersOK
             /\ scenario \in Scenarios
             /\ given \in [Links -> Nat]

LEMMA GiveTypes ==
  ASSUME PairTyped, NEW n \in Links, Give(n)
  PROVE  PairTyped'
<1>1. /\ TimersOK /\ scenario \in Scenarios /\ given[n] \in Nat /\ given \in [Links -> Nat]
      /\ given[n] < scenario.quota[n]
      /\ LinkTransfer(n, given[n] + 1)
      /\ given' = [given EXCEPT ![n] = @ + 1] /\ scenario' = scenario
  BY DEF PairTyped, Give
<1>2. given[n] + 1 \in Msu
  BY <1>1, QuotaType, PairAssumption, SMTT(60)
<1>3. TimersOK'
  BY <1>1, <1>2, LinkTransferTimersOK
<1>4. QED
  BY <1>1, <1>3 DEF PairTyped

LEMMA CarryTypes ==
  ASSUME PairTyped, NEW n \in Links, Carry(n)
  PROVE  PairTyped'
<1> DEFINE m == Other(n)
<1>1. TypeOK /\ TsigWithinT1 /\ m \in Links
  BY Ends DEF PairTyped, TimersOK
<1>2. /\ tx[n] # <<>> /\ Head(tx[n]) \in SU
      /\ tx' = [tx EXCEPT ![n] = Tail(@)]
      /\ \/ rx' = rx
         \/ Len(rx[m]) < Slots /\ rx' = [rx EXCEPT ![m] = Append(@, Head(tx[n]))]
  BY <1>1, Carried
<1>3. tx' \in [Links -> Seq(SU)] /\ \A k \in Links : Len(tx'[k]) <= Slots
  <2>1. Tail(tx[n]) \in Seq(SU) /\ Len(Tail(tx[n])) <= Slots
    BY <1>1, <1>2, SlotsAssumption DEF TypeOK
  <2>2. QED
    BY <1>1, <1>2, <2>1 DEF TypeOK
<1>4. rx' \in [Links -> Seq(SU)] /\ \A k \in Links : Len(rx'[k]) <= Slots
  <2>1. CASE rx' = rx
    BY <1>1, <2>1 DEF TypeOK
  <2>2. CASE Len(rx[m]) < Slots /\ rx' = [rx EXCEPT ![m] = Append(@, Head(tx[n]))]
    <3>1. /\ Append(rx[m], Head(tx[n])) \in Seq(SU)
          /\ Len(Append(rx[m], Head(tx[n]))) <= Slots
      BY <1>1, <1>2, <2>2, SlotsAssumption DEF TypeOK
    <3>2. QED
      BY <1>1, <2>2, <3>1 DEF TypeOK
  <2>3. QED
    BY <1>2, <2>1, <2>2
<1>5. UNCHANGED <<state, lssu, seqVars, timerVars, pc, mtpVars, given, scenario>>
  BY DEF Carry, history
<1>6. QED
  BY <1>1, <1>3, <1>4, <1>5
  DEF PairTyped, TimersOK, TypeOK, TsigWithinT1, seqVars, timerVars, mtpVars

LEMMA PairTypesKept ==
  ASSUME PairTyped, NEW n \in Links,
         Step(n) \/ Give(n) \/ Carry(n) \/ Handle(n) \/ Reset(n) \/ Crash(n)
  PROVE  PairTyped'
<1>1. CASE Give(n)
  BY <1>1, GiveTypes
<1>2. CASE Carry(n)
  BY <1>2, CarryTypes
<1>3. CASE Step(n) \/ Handle(n) \/ Reset(n) \/ Crash(n)
  <2>1. given' = given /\ scenario' = scenario
    BY <1>3 DEF Step, Note, Handle, Reset, Crash, history
  <2>2. Handler(n) \/ MtpHandles(n) \/ LinkReset(n) \/ Restart(n)
    BY <1>3 DEF Step, Handle, Reset, Crash
  <2>3. TimersOK'
    BY <2>2, NextTimersOK DEF Next, PairTyped
  <2>4. QED
    BY <2>1, <2>3 DEF PairTyped
<1>4. QED
  BY <1>1, <1>2, <1>3

LEMMA AlignedTimersOK == Aligned => TimersOK
<1> SUFFICES ASSUME Aligned PROVE TimersOK
  OBVIOUS
<1>1. SeqMod - 1 \in Seqno /\ 0 \in 0 .. T1value /\ T4value \in 0 .. T4value
  BY SeqAssumption, TimerAssumption DEF Seqno
<1>2. /\ rx \in [Links -> Seq(SU)] /\ tx \in [Links -> Seq(SU)]
      /\ \A n \in Links : Len(rx[n]) <= Slots /\ Len(tx[n]) <= Slots
      /\ toMtp \in [Links -> Seq(MtpMsg)]
  BY SlotsAssumption DEF Aligned
<1>3. lssu \in [Links -> Header]
  BY OnesHeader DEF Aligned
<1>4. TypeOK
  BY <1>1, <1>2, <1>3, Zenon DEF Aligned, TypeOK, LinkState
<1>5. TsigWithinT1
  <2>1. \A n \in Links : Tsig[n] = 0 /\ T1[n] = 0
    BY DEF Aligned
  <2>2. 0 <= 0
    OBVIOUS
  <2>3. QED
    BY <2>1, <2>2, Zenon DEF TsigWithinT1
<1>6. QED
  BY <1>4, <1>5 DEF TimersOK

LEMMA PairInitTyped == PairInit => PairTyped
<1>1. ASSUME PairInit PROVE given \in [Links -> Nat] /\ scenario \in Scenarios
  BY <1>1 DEF PairInit
<1>2. QED
  BY <1>1, AlignedTimersOK, InitTimersOK DEF PairInit, PairTyped

LEMMA PairStutterTyped == PairTyped /\ UNCHANGED pairVars => PairTyped'
<1> SUFFICES ASSUME PairTyped, UNCHANGED pairVars PROVE PairTyped'
  OBVIOUS
<1>1. UNCHANGED linkVars /\ given' = given /\ scenario' = scenario
  BY DEF pairVars, history
<1>2. TimersOK'
  BY <1>1, NextTimersOK DEF PairTyped
<1>3. QED
  BY <1>1, <1>2 DEF PairTyped

\* The types of history, of the SU received last and of the faults.
HistoryTyped == /\ \A n \in Links : given[n] <= scenario.quota[n]
                /\ delivered \in [Links -> {0, NoMsu} \cup Msu]
                /\ begun \in [Links -> BOOLEAN]
                /\ firsts \in [Links -> SUBSET (1 .. MaxSent + 1)]
                /\ arrived \in [Links -> SU]
                /\ faults \in 0 .. scenario.faults

LEMMA ScenarioFaults ==
  ASSUME scenario \in Scenarios
  PROVE  scenario.faults \in Nat
<1>1. scenario \in [aligned : BOOLEAN, quota : [Links -> 0 .. MaxSent], faults : 0 .. MaxFaults]
  BY PairAssumption
<1>2. QED
  BY <1>1, PairAssumption

LEMMA GivenBound ==
  ASSUME PairTyped, HistoryTyped, NEW n \in Links
  PROVE  given[n] \in 0 .. MaxSent /\ given[n] + 1 \in 1 .. MaxSent + 1
<1>1. scenario \in Scenarios /\ given[n] \in Nat
  BY DEF PairTyped
<1>2. given[n] <= scenario.quota[n]
  BY Zenon DEF HistoryTyped
<1>3. scenario.quota[n] \in 0 .. MaxSent /\ MaxSent \in Nat
  BY <1>1, QuotaType
<1>4. QED
  BY <1>1, <1>2, <1>3

LEMMA TypesOfBoth == PairTyped /\ HistoryTyped => PairTypeOK
<1> SUFFICES ASSUME PairTyped, HistoryTyped PROVE PairTypeOK
  OBVIOUS
<1>1. TypeOK /\ scenario \in Scenarios /\ given \in [Links -> Nat]
  BY DEF PairTyped, TimersOK
<1>2. \A n \in Links : given[n] <= scenario.quota[n]
  BY Zenon DEF HistoryTyped
<1>3. given \in [Links -> 0 .. MaxSent]
  <2>1. \A n \in Links : given[n] \in 0 .. MaxSent
    BY GivenBound
  <2>2. QED
    BY <1>1, <2>1
<1>4. /\ delivered \in [Links -> {0, NoMsu} \cup Msu] /\ begun \in [Links -> BOOLEAN]
      /\ firsts \in [Links -> SUBSET (1 .. MaxSent + 1)] /\ arrived \in [Links -> SU]
      /\ faults \in 0 .. scenario.faults
  BY Zenon DEF HistoryTyped
<1>5. QED
  BY <1>1, <1>2, <1>3, <1>4, Zenon DEF PairTypeOK

\* What a step delivers is an MSU or what a slot that was never filled holds,
\* and the first message of a service period is among those MTP3 may give.
LEMMA NoteTypes ==
  ASSUME PairTyped, HistoryTyped, toMtp' \in [Links -> Seq(MtpMsg)],
         NEW n \in Links, Note(n), UNCHANGED <<faults, arrived>>
  PROVE  HistoryTyped'
<1>1. given' = given /\ scenario' = scenario
  BY DEF Note
<1>2. delivered' \in [Links -> {0, NoMsu} \cup Msu]
  <2> DEFINE q == toMtp'[n]
  <2>1. CASE delivered' = delivered
    BY <2>1 DEF HistoryTyped
  <2>2. CASE q # <<>> /\ delivered' = [delivered EXCEPT ![n] = q[Len(q)].param]
    <3>1. q \in Seq(MtpMsg) /\ Len(q) \in 1 .. Len(q)
      BY <2>2
    <3>2. q[Len(q)] \in MtpMsg
      BY <3>1
    <3>3. q[Len(q)].param \in Msu \cup {NoMsu}
      BY <3>2 DEF MtpMsg
    <3> HIDE DEF q
    <3>4. QED
      BY <2>2, <3>3 DEF HistoryTyped
  <2>3. QED
    BY <2>1, <2>2 DEF Note
<1>3. begun' \in [Links -> BOOLEAN]
  <2> DEFINE Goes == begun[n] /\ ~ (state[n] = "SIE" /\ state'[n] = "IS")
  <2>1. begun \in [Links -> BOOLEAN]
    BY DEF HistoryTyped
  <2>2. begun' = [begun EXCEPT ![n] = TRUE] \/ begun' = [begun EXCEPT ![n] = Goes]
    BY Zenon DEF Note
  <2>3. Goes \in BOOLEAN
    OBVIOUS
  <2> HIDE DEF Goes
  <2>4. [begun EXCEPT ![n] = TRUE] \in [Links -> BOOLEAN]
    BY <2>1, Zenon
  <2>5. [begun EXCEPT ![n] = Goes] \in [Links -> BOOLEAN]
    BY <2>1, <2>3, Zenon
  <2>6. QED
    BY <2>2, <2>4, <2>5, Zenon
<1>4. firsts' \in [Links -> SUBSET (1 .. MaxSent + 1)]
  <2>1. given[n] + 1 \in 1 .. MaxSent + 1
    BY GivenBound
  <2>2. firsts' = firsts \/ firsts' = [firsts EXCEPT ![n] = firsts[n] \cup {given[n] + 1}]
    BY Zenon DEF Note
  <2>3. firsts \in [Links -> SUBSET (1 .. MaxSent + 1)]
    BY Zenon DEF HistoryTyped
  <2>4. QED
    BY <2>1, <2>2, <2>3, ZenonT(60)
<1>5. QED
  BY <1>1, <1>2, <1>3, <1>4 DEF HistoryTyped

LEMMA FaultTypes ==
  ASSUME PairTyped, HistoryTyped, scenario' = scenario,
         faults' = faults \/ \E kind \in FaultKinds : Fault(kind)
  PROVE  faults' \in 0 .. scenario'.faults
  BY ScenarioFaults DEF PairTyped, HistoryTyped, Fault

LEMMA CarryHistory ==
  ASSUME PairTyped, HistoryTyped, NEW n \in Links, Carry(n)
  PROVE  HistoryTyped'
<1>1. TypeOK /\ Other(n) \in Links
  BY Ends DEF PairTyped, TimersOK
<1>2. Head(tx[n]) \in SU
  BY <1>1, Carried
<1>3. arrived' \in [Links -> SU]
  BY <1>1, <1>2 DEF Carry, Arrive, HistoryTyped
<1>4. UNCHANGED history
  BY DEF Carry
<1>5. faults' \in 0 .. scenario'.faults
  BY <1>4, FaultTypes DEF Carry, Fault, history
<1>6. QED
  BY <1>3, <1>4, <1>5 DEF HistoryTyped, history

LEMMA GiveHistory ==
  ASSUME PairTyped, HistoryTyped, NEW n \in Links, Give(n)
  PROVE  HistoryTyped'
<1>1. /\ given' = [given EXCEPT ![n] = @ + 1] /\ given[n] < scenario.quota[n]
      /\ UNCHANGED <<delivered, begun, firsts, scenario, faults, arrived>>
  BY DEF Give
<1>2. given \in [Links -> Nat] /\ \A k \in Links : scenario.quota[k] \in Nat
  BY QuotaType DEF PairTyped
<1>3. \A k \in Links : given'[k] <= scenario.quota[k]
  BY <1>1, <1>2 DEF HistoryTyped
<1>4. QED
  BY <1>1, <1>3 DEF HistoryTyped

LEMMA HistoryKept ==
  ASSUME PairTyped, HistoryTyped, NEW n \in Links,
         Step(n) \/ Give(n) \/ Carry(n) \/ Handle(n) \/ Reset(n) \/ Crash(n)
  PROVE  PairTyped' /\ HistoryTyped'
<1>1. PairTyped'
  BY PairTypesKept
<1>2. CASE Step(n)
  <2>1. toMtp' \in [Links -> Seq(MtpMsg)]
    BY <1>1 DEF PairTyped, TimersOK, TypeOK
  <2>2. QED
    BY <1>1, <1>2, <2>1, NoteTypes DEF Step
<1>3. CASE Handle(n) \/ Reset(n) \/ Crash(n)
  <2>1. UNCHANGED <<history, arrived>>
    BY <1>3 DEF Handle, Reset, Crash
  <2>2. faults' \in 0 .. scenario'.faults
    BY <1>3, <2>1, FaultTypes DEF Handle, Reset, Crash, Fault, history
  <2>3. QED
    BY <1>1, <2>1, <2>2 DEF HistoryTyped, history
<1>4. QED
  BY <1>1, <1>2, <1>3, GiveHistory, CarryHistory

LEMMA HistoryStutters ==
  ASSUME HistoryTyped, UNCHANGED pairVars
  PROVE  HistoryTyped'
  BY DEF HistoryTyped, pairVars, history

LEMMA PairInitHistory == PairInit => HistoryTyped
<1> SUFFICES ASSUME PairInit PROVE HistoryTyped
  OBVIOUS
<1>1. scenario \in Scenarios /\ \A n \in Links : given[n] = 0 /\ 0 <= scenario.quota[n]
  BY QuotaType DEF PairInit
<1>2. arrived \in [Links -> SU]
  BY OnesHeader, BuiltSU DEF PairInit
<1>3. 1 \in 1 .. MaxSent + 1 /\ faults \in 0 .. scenario.faults
  BY <1>1, ScenarioFaults, PairAssumption DEF PairInit
<1>4. firsts \in [Links -> SUBSET (1 .. MaxSent + 1)]
  BY <1>3 DEF PairInit
<1>5. QED
  BY <1>1, <1>2, <1>3, <1>4 DEF PairInit, HistoryTyped

\* Types of the two links, of the line and of history, from every start: what
\* MTP3 gives stays within the scenario, and only an MSU or the content of a
\* slot that was never filled is delivered, whatever the line loses.
THEOREM PairTypesCorrect == DataSpec => []PairTypeOK
<1> DEFINE Typed == PairTyped /\ HistoryTyped
<1>1. PairInit => Typed
  BY PairInitTyped, PairInitHistory
<1>2. Typed /\ [PairNext]_pairVars => Typed'
  BY HistoryKept, PairStutterTyped, HistoryStutters DEF PairNext
<1>3. Typed => PairTypeOK
  BY TypesOfBoth
<1> HIDE DEF Typed
<1>4. QED
  BY <1>1, <1>2, <1>3, PTL DEF DataSpec

-----------------------------------------------------------------------------
(* The invariant and the property. *)

\* A link in service reads no LSSU and no FISU that would start it again.
LEMMA StepInService ==
  ASSUME DataInv, NEW n \in Links, Step(n)
  PROVE  Note(n) /\ \/ RxMsu(n) \/ RxFisuIgnored(n)
                    \/ TxMsu(n) \/ TxNothing(n)
                    \/ Timer(n) \/ TxBlocked(n)
<1>1. Working(n) /\ pc[n] # "tail"
  BY InvParts DEF Serving
<1>2. ASSUME NEW kinds, RxMsg(n, kinds)
      PROVE  kinds \cap {"FISU", "MSU"} # {}
  <2>1. rx[n] # <<>> /\ Su(n).kind \in kinds
    BY <1>2 DEF RxMsg
  <2>2. Su(n).kind \in {"FISU", "MSU"}
    BY <2>1, HeadValid DEF Valid
  <2>3. QED
    BY <2>1, <2>2
<1>3. ~ (RxSIO(n) \/ RxSIE(n) \/ RxSIOS(n) \/ RxOtherLssu(n))
  <2>1. ASSUME NEW kinds, RxLssu(n, kinds) PROVE kinds \cap {"FISU", "MSU"} # {}
    BY <1>2, <2>1 DEF RxLssu
  <2>2. QED
    BY <2>1 DEF RxSIO, RxSIE, RxSIOS, RxOtherLssu
<1>4. ~ RxFisuProven(n)
  BY <1>1 DEF RxFisuProven, Working
<1>5. ~ (TickT1Expires(n) \/ TickIdle(n) \/ TickNotAligned(n) \/ TickProving(n)
         \/ TickStopped(n))
  BY <1>1 DEF TickT1Expires, TickIdle, TickNotAligned, TickProving, TickStopped, AlignmentTimer
<1>6. QED
  BY <1>3, <1>4, <1>5, Zenon DEF Step, Handler, RxStep, TailStep

LEMMA DataInvKept ==
  ASSUME DataInv, MaxUndelivered <= SeqMod, [PairNext]_pairVars
  PROVE  DataInv'
<1>1. PairTyped
  BY DEF DataInv, Sides, PairTyped
<1>2. PairTyped'
  BY <1>1, PairTypesKept, PairStutterTyped DEF PairNext
<1>3. History'
  <2>1. ASSUME NEW n \in Links, Step(n) PROVE History'
    BY <2>1, StepInService, RxMsuKeeps, RxFisuKeeps, TxMsuKeeps, TxNothingKeeps, RestKeeps, Zenon
  <2>2. ASSUME NEW n \in Links, Give(n) \/ Carry(n) \/ Handle(n) PROVE History'
    BY <2>2, GiveKeeps, CarryKeeps, RestKeeps
  <2>3. CASE UNCHANGED pairVars
    <3>1. /\ UNCHANGED <<state, lssu, last_txd, tx_last_placed, txbuffer, pc, rx, tx>>
          /\ UNCHANGED <<given, delivered, begun, firsts, scenario>>
      BY <2>3 DEF pairVars, linkVars, seqVars, history
    <3>2. Sides'
      BY <3>1 DEF DataInv, Sides
    <3>3. ASSUME NEW n \in Links
          PROVE  Serving(n)' /\ Window(n)' /\ Took(n)' /\ UnderWay(n)'
      BY <3>1, InvParts, Zenon DEF Serving, Working, Window, Took, UnderWay
    <3>4. QED
      BY <3>2, <3>3 DEF History
  <2>4. QED
    BY <2>1, <2>2, <2>3 DEF PairNext
<1>4. QED
  BY <1>2, <1>3 DEF DataInv, History, PairTyped

LEMMA AlignedStart ==
  ASSUME PairInit, scenario.aligned
  PROVE  DataInv
<1>1. /\ Aligned
      /\ given = [n \in Links |-> 0] /\ delivered = [n \in Links |-> 0]
      /\ begun = [n \in Links |-> FALSE] /\ firsts = [n \in Links |-> {1}]
      /\ scenario \in Scenarios
  BY DEF PairInit
<1>2. Sides
  BY <1>1 DEF Sides
<1>3. ASSUME NEW n \in Links
      PROVE  Serving(n) /\ Window(n) /\ Took(n) /\ UnderWay(n)
  <2>1. Other(n) \in Links
    BY Ends
  <2>2. /\ given[n] = 0 /\ delivered[n] = 0 /\ delivered[Other(n)] = 0 /\ given[Other(n)] = 0
        /\ begun[n] = FALSE
    BY <1>1, <2>1
  <2>3. /\ state[n] = "IS" /\ pc[n] = "idle" /\ lssu[n].bsn = SeqMod - 1
        /\ last_txd[n] = SeqMod - 1 /\ tx_last_placed[n] = SeqMod - 1
        /\ rx[n] = <<>> /\ tx[Other(n)] = <<>>
    BY <1>1, <2>1 DEF Aligned, Ones
  <2>4. Serving(n)
    BY <2>2, <2>3 DEF Serving, Working
  <2>5. Window(n)
    <3>1. 0 \in 0 .. 0 /\ SeqMod >= 0 /\ \A k \in 1 .. 0 : FALSE
      BY SeqAssumption
    <3>2. QED
      BY <2>2, <2>3, <3>1, NumNone, SeqAssumption DEF Window
  <2>6. Took(n)
    BY <2>2, <2>3, NumNone DEF Took
  <2>7. UnderWay(n)
    <3>1. \A i \in 1 .. Len(<<>>) : FALSE
      OBVIOUS
    <3>2. QED
      BY <2>3, <3>1, Zenon DEF UnderWay, Line, AllValid, Ordered, Before
  <2>8. QED
    BY <2>4, <2>5, <2>6, <2>7
<1>4. QED
  BY <1>1, <1>2, <1>3, AlignedTimersOK DEF DataInv

\* A delivery is of the message that follows the last one.
LEMMA StepDelivers ==
  ASSUME DataInv, NEW n \in Links, Step(n)
  PROVE  delivered' = delivered \/ delivered' = [delivered EXCEPT ![n] = @ + 1]
<1>1. TypeOK /\ Sides /\ state[n] # "SIE"
  BY InvParts DEF Serving, Working
<1>2. Note(n)
  BY DEF Step
<1>3. CASE RxMsu(n)
  <2>1. rx[n] # <<>> /\ Su(n).kind = "MSU"
    BY <1>3 DEF RxMsu, RxMsg
  <2>2. CASE toMtp' = toMtp
    BY <1>1, <1>2, <2>2, NoteNothing
  <2>3. CASE InSequence(n) /\ Post(n, [msg |-> "LINKTRANSFER", param |-> Su(n).msu])
    <3>1. Su(n).msu = delivered[n] + 1 /\ Su(n).msu \in Msu \cup {NoMsu}
      BY <2>1, <2>3, NextInSequence
    <3>2. QED
      BY <1>1, <1>2, <2>3, <3>1, NoteDelivery
  <2>4. QED
    BY <1>3, <2>2, <2>3, Zenon DEF RxMsu
<1>4. CASE ~ RxMsu(n)
  <2>1. toMtp' = toMtp \/ Announce(n, "LINKRESUME")
    BY <1>4, StepInService
    DEF RxFisuIgnored, TxMsu, TxNothing, Timer, TxBlocked, mtpVars
  <2>2. QED
    BY <1>1, <1>2, <2>1, NoteNothing
<1>5. QED
  BY <1>3, <1>4

LEMMA DeliversInOrder ==
  ASSUME DataInv, [PairNext]_pairVars, NEW n \in Links, delivered'[n] # delivered[n]
  PROVE  /\ delivered'[n] > delivered[n]
         /\ \/ begun[n] /\ delivered'[n] = delivered[n] + 1
            \/ ~ begun[n] /\ delivered'[n] \in firsts[Other(n)]
<1>1. /\ Sides /\ TypeOK /\ Serving(n) /\ delivered[n] \in Nat
      /\ firsts[Other(n)] = {1}
  BY InvParts, SideTypes, Ends DEF Sides
<1>2. PICK k \in Links : Step(k)
  BY DEF PairNext, Give, Carry, Handle, pairVars, history
<1>3. delivered'[n] = delivered[n] + 1
  BY <1>1, <1>2, StepDelivers DEF Sides
<1>4. ~ begun[n] => delivered[n] = 0
  BY <1>1 DEF Serving
<1>5. QED
  BY <1>1, <1>3, <1>4

\* InOrder for two links that start in service: over a line that may lose any
\* SU at any time, in rings of any size and with clocks that are unrelated, a
\* side delivers what the other was given, in order, without gap or
\* repetition, as long as MTP3 is at most SeqMod messages ahead of delivery.
THEOREM DeliveredInOrder ==
  ASSUME MaxUndelivered <= SeqMod
  PROVE  scenario.aligned /\ DataSpec => InOrder
<1>1. PairInit /\ scenario.aligned => DataInv
  BY AlignedStart
<1>2. DataInv /\ [PairNext]_pairVars => DataInv'
  BY DataInvKept
<1>3. DataInv /\ [PairNext]_pairVars =>
        [\A n \in Links : delivered'[n] # delivered[n] =>
           /\ delivered'[n] > delivered[n]
           /\ \/ begun[n] /\ delivered'[n] = delivered[n] + 1
              \/ ~ begun[n] /\ delivered'[n] \in firsts[Other(n)]]_pairVars
  BY DeliversInOrder
<1>4. QED
  BY <1>1, <1>2, <1>3, PTL DEF DataSpec, InOrder

=============================================================================
