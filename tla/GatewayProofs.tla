--------------------------- MODULE GatewayProofs ---------------------------
(***************************************************************************)
(* Proofs about Gateway, for every number of links, every value of the     *)
(* test timers, and whatever the far end and the ASPs send.                *)
(***************************************************************************)
EXTENDS Gateway, FiniteSetTheorems, TLAPS

-----------------------------------------------------------------------------
(* Links. *)

LEMMA Finite ==
  /\ IsFiniteSet(LinkNo) /\ Cardinality(LinkNo) = linkqty
  /\ \A S \in SUBSET LinkNo :
       /\ IsFiniteSet(S)
       /\ Cardinality(S) \in 0 .. linkqty
       /\ Cardinality(S) = 0 <=> S = {}
<1>1. IsFiniteSet(LinkNo) /\ Cardinality(LinkNo) = linkqty
  BY LinkAssumption, FS_Interval DEF LinkNo
<1>2. ASSUME NEW S \in SUBSET LinkNo
      PROVE  /\ IsFiniteSet(S)
             /\ Cardinality(S) \in 0 .. linkqty
             /\ Cardinality(S) = 0 <=> S = {}
  <2>1. IsFiniteSet(S) /\ Cardinality(S) <= linkqty
    BY <1>1, FS_Subset
  <2>2. Cardinality(S) \in Nat
    BY <2>1, FS_CardinalityType
  <2>3. QED
    BY <2>1, <2>2, FS_EmptySet, LinkAssumption
<1>3. QED
  BY <1>1, <1>2

\* The number of links in service, and when it is 0.
LEMMA CountType ==
  ASSUME NEW status \in [LinkNo -> {0, 1}]
  PROVE  /\ Count(status) \in 0 .. linkqty
         /\ Count(status) = 0 <=> \A l \in LinkNo : status[l] = 0
<1>1. Alive(status) \in SUBSET LinkNo
  BY DEF Alive
<1>2. Alive(status) = {} <=> \A l \in LinkNo : status[l] = 0
  BY DEF Alive
<1>3. QED
  BY <1>1, <1>2, Finite DEF Count

\* A set of numbers that is not empty has a smallest member.
LEMMA Smallest ==
  ASSUME NEW S \in SUBSET Nat, S # {}
  PROVE  \E i \in S : \A j \in S : i <= j
<1> DEFINE Less == {pair \in Nat \X Nat : pair[1] < pair[2]}
<1>1. IsWellFoundedOn(Less, Nat)
  BY NatLessThanWellFounded, Zenon DEF OpToRel
<1>2. PICK i \in S : \A j \in S : ~ (<<j, i>> \in Less)
  <2> HIDE DEF Less
  <2>1. QED
    BY <1>1, WFMin
<1>3. ASSUME NEW j \in S PROVE i <= j
  <2>1. i \in Nat /\ j \in Nat /\ <<j, i>> \in Nat \X Nat
    OBVIOUS
  <2>2. ~ (j < i)
    BY <1>2, <2>1
  <2>3. QED
    BY <2>1, <2>2
<1>4. QED
  BY <1>3

\* The remainder modulo linkqty, by its characteristic property.
LEMMA Remainder ==
  ASSUME NEW a \in LinkNo, NEW k \in Int
  PROVE  (a + linkqty * k) % linkqty = a
<1> DEFINE x == a + linkqty * k
           r == x % linkqty
           d == x \div linkqty
<1>1. linkqty \in Int /\ linkqty > 0 /\ a \in 0 .. linkqty - 1 /\ x \in Int
  BY LinkAssumption DEF LinkNo
<1>2. r \in 0 .. linkqty - 1 /\ d \in Int /\ x = linkqty * d + r
  BY <1>1
<1>3. linkqty * (k - d) = r - a
  BY <1>1, <1>2
<1>4. k - d = 0
  <2> HIDE DEF r, d, x
  <2>1. CASE k - d >= 1
    <3>1. linkqty * (k - d) >= linkqty
      BY <1>1, <1>2, <2>1
    <3>2. QED
      BY <1>1, <1>2, <1>3, <3>1
  <2>2. CASE k - d <= -1
    <3>1. linkqty * (k - d) <= -linkqty
      BY <1>1, <1>2, <2>2
    <3>2. QED
      BY <1>1, <1>2, <1>3, <3>1
  <2>3. QED
    BY <1>2, <2>1, <2>2
<1>5. QED
  BY <1>1, <1>2, <1>3, <1>4

\* selectLink() tries every link.
LEMMA EveryCandidate ==
  ASSUME NEW sls \in Sls, NEW a \in LinkNo
  PROVE  \E i \in LinkNo : Candidate(sls, i) = a
<1> DEFINE i == (a - sls) % linkqty
           d == (a - sls) \div linkqty
<1>1. linkqty \in Int /\ linkqty > 0 /\ a \in Int /\ sls \in Int /\ a - sls \in Int
  BY LinkAssumption DEF LinkNo, Sls
<1>2. i \in 0 .. linkqty - 1 /\ d \in Int /\ a - sls = linkqty * d + i
  BY <1>1
<1>3. sls + i = a + linkqty * (-d)
  BY <1>1, <1>2
<1>4. (a + linkqty * (-d)) % linkqty = a
  BY <1>2, Remainder
<1>5. QED
  BY <1>2, <1>3, <1>4 DEF Candidate, LinkNo

\* It finds a link that exists, and one that is alive if there is any.
LEMMA SelectsAlive ==
  ASSUME linkstatus \in [LinkNo -> {0, 1}], NEW sls \in Sls
  PROVE  /\ SelectLink(sls) \in LinkNo
         /\ Alive(linkstatus) # {} => SelectLink(sls) \in Alive(linkstatus)
<1>1. \A i \in LinkNo : Candidate(sls, i) \in LinkNo
  BY LinkAssumption DEF Candidate, LinkNo, Sls
<1>2. CASE Alive(linkstatus) = {}
  <2>1. 0 \in LinkNo
    BY LinkAssumption DEF LinkNo
  <2>2. QED
    BY <1>1, <1>2, <2>1 DEF SelectLink
<1>3. CASE Alive(linkstatus) # {}
  <2> DEFINE S == {i \in LinkNo : Candidate(sls, i) \in Alive(linkstatus)}
  <2>1. S \in SUBSET Nat /\ S # {}
    BY <1>3, EveryCandidate DEF Alive, LinkNo
  <2>2. PICK i \in S : \A j \in S : i <= j
    BY <2>1, Smallest
  <2>3. \A j \in 0 .. i - 1 : j \in LinkNo /\ j \notin S
    BY <2>2, LinkAssumption DEF LinkNo
  <2>4. \E n \in LinkNo : /\ Candidate(sls, n) \in Alive(linkstatus)
                          /\ \A j \in 0 .. n - 1 : Candidate(sls, j) \notin Alive(linkstatus)
    BY <2>2, <2>3
  <2>5. SelectLink(sls) \in Alive(linkstatus)
    BY <1>3, <2>4 DEF SelectLink
  <2>6. QED
    BY <2>5 DEF Alive
<1>4. QED
  BY <1>2, <1>3

-----------------------------------------------------------------------------
(* The inductive invariant.                                                *)
(*                                                                         *)
(* AspTold needs to know that state is the number of live links, and that  *)
(* notifications come from links that exist.  DeadLinkNoticed speaks of an *)
(* empty queue only: while messages wait, the LINKPAUSE that will clear    *)
(* linkstatus is still queued, and no SLTA behind it will set it again.    *)

\* Messages as the processes build them.
Good == {m \in Message :
  /\ m.msg \in {"LINKPAUSE", "LINKRESUME"} => m.dest = Mtp /\ m.src \in LinkNo
  /\ m.msg = "LINKTRANSFER" /\ m.dest = Mtp => m.src \in LinkNo}

\* What MTP3 posts: nothing to itself.
Output == {m \in Good : m.dest # Mtp}

PauseFrom(m, l) == m.msg = "LINKPAUSE" /\ m.src = l
SltaFrom(m, l)  == m.msg = "LINKTRANSFER" /\ m.dest = Mtp /\ m.kind = "SLTA" /\ m.src = l

NoSlta(q, l) == \A k \in 1 .. Len(q) : ~ SltaFrom(q[k], l)
PauseLast(q, l) == \E k \in 1 .. Len(q) :
  PauseFrom(q[k], l) /\ \A j \in k + 1 .. Len(q) : ~ SltaFrom(q[j], l)

QueueGood  == msgqueue \in Seq(Good)
StateCounts == state = Count(linkstatus)
Heard == \A l \in LinkNo : offered[l] =>
  /\ service[l] = "down"
  /\ PauseLast(msgqueue, l) \/ (linkstatus[l] = 0 /\ NoSlta(msgqueue, l))

\* TypeOK by process, the queue's type sharpened to Good messages.
MtpTypeOK ==
  /\ state \in 0 .. linkqty
  /\ linkstatus \in [LinkNo -> {0, 1}]
  /\ Wait4slta \in [LinkNo -> Nat]
  /\ sltT1 \in [LinkNo -> 0 .. sltT1value + 1]
  /\ sltT2 \in [LinkNo -> 0 .. sltT2value + 1]
  /\ told \in {"ASPUP", "ASPDN"}

LinkTypeOK ==
  /\ service \in [LinkNo -> {"down", "up", "full"}]
  /\ owed \in [LinkNo -> BOOLEAN]
  /\ offered \in [LinkNo -> BOOLEAN]

Mtp3Inv == MtpTypeOK /\ StateCounts /\ AspTold
GatewayInv == Mtp3Inv /\ LinkTypeOK /\ QueueGood /\ Heard

-----------------------------------------------------------------------------
(* Queues. *)

\* What is left of the queue, followed by what is posted.
LEMMA Remaining ==
  ASSUME NEW q \in Seq(Good), q # <<>>, NEW s \in Seq(Good)
  PROVE  /\ Tail(q) \o s \in Seq(Good)
         /\ Len(q) \in Nat \ {0} /\ Len(s) \in Nat
         /\ Len(Tail(q) \o s) = Len(q) - 1 + Len(s)
         /\ \A k \in 2 .. Len(q) : (Tail(q) \o s)[k - 1] = q[k]
         /\ \A k \in 1 .. Len(s) : (Tail(q) \o s)[Len(q) - 1 + k] = s[k]
         /\ Head(q) \in Good /\ Head(q) = q[1]
<1>1. /\ Len(q) \in Nat \ {0} /\ Len(s) \in Nat
      /\ Tail(q) \in Seq(Good) /\ Len(Tail(q)) = Len(q) - 1
      /\ Head(q) \in Good /\ Head(q) = q[1]
  OBVIOUS
<1>2. \A k \in 1 .. Len(q) - 1 : Tail(q)[k] = q[k + 1]
  OBVIOUS
<1>3. Tail(q) \o s \in Seq(Good) /\ Len(Tail(q) \o s) = Len(q) - 1 + Len(s)
  BY <1>1
<1>4. ASSUME NEW k \in 2 .. Len(q) PROVE (Tail(q) \o s)[k - 1] = q[k]
  <2>1. k - 1 \in 1 .. Len(q) - 1
    BY <1>1
  <2>2. (Tail(q) \o s)[k - 1] = Tail(q)[k - 1]
    BY <1>1, <2>1
  <2>3. QED
    BY <1>1, <1>2, <2>1, <2>2
<1>5. ASSUME NEW k \in 1 .. Len(s) PROVE (Tail(q) \o s)[Len(q) - 1 + k] = s[k]
  BY <1>1
<1>6. QED
  BY <1>1, <1>3, <1>4, <1>5

\* A message taken from the queue, while no SLTA of l is posted, leaves l as
\* it was, unless it is the LINKPAUSE that was waited for.
LEMMA AfterPosts ==
  ASSUME NEW q \in Seq(Good), q # <<>>, NEW s \in Seq(Good), NEW l \in LinkNo, NoSlta(s, l)
  PROVE  /\ NoSlta(q, l) => NoSlta(Tail(q) \o s, l)
         /\ PauseLast(q, l) => \/ PauseLast(Tail(q) \o s, l)
                               \/ PauseFrom(Head(q), l) /\ NoSlta(Tail(q) \o s, l)
<1> DEFINE r == Tail(q) \o s
<1>1. /\ Len(q) \in Nat \ {0} /\ Len(s) \in Nat /\ Len(r) = Len(q) - 1 + Len(s)
      /\ \A k \in 2 .. Len(q) : r[k - 1] = q[k]
      /\ \A k \in 1 .. Len(s) : r[Len(q) - 1 + k] = s[k]
      /\ Head(q) = q[1]
  BY Remaining
<1> HIDE DEF r
<1>2. ASSUME NEW n \in 1 .. Len(q), \A j \in n + 1 .. Len(q) : ~ SltaFrom(q[j], l),
             NEW j \in n .. Len(r)
      PROVE  ~ SltaFrom(r[j], l)
  <2>1. CASE j <= Len(q) - 1
    <3>1. j + 1 \in n + 1 .. Len(q) /\ j + 1 \in 2 .. Len(q) /\ (j + 1) - 1 = j
      BY <1>1, <2>1
    <3>2. r[j] = q[j + 1]
      BY <1>1, <3>1
    <3>3. QED
      BY <1>2, <3>1, <3>2
  <2>2. CASE j > Len(q) - 1
    <3> DEFINE i == j - (Len(q) - 1)
    <3>1. i \in 1 .. Len(s) /\ Len(q) - 1 + i = j
      BY <1>1, <2>2
    <3>2. r[j] = s[i]
      BY <1>1, <3>1
    <3>3. QED
      BY <3>1, <3>2 DEF NoSlta
  <2>3. QED
    BY <1>1, <2>1, <2>2
<1>3. ASSUME NoSlta(q, l) PROVE NoSlta(r, l)
  <2>1. 1 \in 1 .. Len(q) /\ \A j \in 2 .. Len(q) : ~ SltaFrom(q[j], l)
    BY <1>1, <1>3 DEF NoSlta
  <2>2. QED
    BY <1>1, <1>2, <2>1 DEF NoSlta
<1>4. ASSUME PauseLast(q, l)
      PROVE  PauseLast(r, l) \/ (PauseFrom(Head(q), l) /\ NoSlta(r, l))
  <2>1. PICK n \in 1 .. Len(q) :
          PauseFrom(q[n], l) /\ \A j \in n + 1 .. Len(q) : ~ SltaFrom(q[j], l)
    BY <1>4 DEF PauseLast
  <2>2. CASE n = 1
    BY <1>1, <1>2, <2>1, <2>2 DEF NoSlta
  <2>3. CASE n > 1
    <3>1. n - 1 \in 1 .. Len(r) /\ r[n - 1] = q[n] /\ (n - 1) + 1 = n
      BY <1>1, <2>3
    <3>2. \A j \in (n - 1) + 1 .. Len(r) : ~ SltaFrom(r[j], l)
      BY <1>2, <2>1, <3>1
    <3>3. QED
      BY <2>1, <3>1, <3>2 DEF PauseLast
  <2>4. QED
    BY <1>1, <2>2, <2>3
<1>5. QED
  BY <1>3, <1>4 DEF r

\* Nor does a message added to the queue that is no SLTA of l.
LEMMA AfterAppend ==
  ASSUME NEW q \in Seq(Good), NEW m \in Good, NEW l \in LinkNo, ~ SltaFrom(m, l)
  PROVE  /\ NoSlta(q, l) => NoSlta(Append(q, m), l)
         /\ PauseLast(q, l) => PauseLast(Append(q, m), l)
<1>1. /\ Len(q) \in Nat /\ Len(Append(q, m)) = Len(q) + 1
      /\ \A k \in 1 .. Len(q) : Append(q, m)[k] = q[k]
      /\ Append(q, m)[Len(q) + 1] = m
  OBVIOUS
<1>2. \A k \in 1 .. Len(q) + 1 : k \in 1 .. Len(q) \/ k = Len(q) + 1
  BY <1>1
<1>3. QED
  BY <1>1, <1>2 DEF NoSlta, PauseLast

\* A LINKPAUSE posted last.
LEMMA AfterPause ==
  ASSUME NEW q \in Seq(Good), q # <<>>, NEW m \in Good, NEW l \in LinkNo, PauseFrom(m, l)
  PROVE  PauseLast(Tail(q) \o <<m>>, l)
<1>1. <<m>> \in Seq(Good) /\ Len(<<m>>) = 1 /\ <<m>>[1] = m
  OBVIOUS
<1>2. /\ Len(q) \in Nat \ {0} /\ Len(Tail(q) \o <<m>>) = Len(q)
      /\ (Tail(q) \o <<m>>)[Len(q)] = m
  BY <1>1, Remaining
<1>3. QED
  BY <1>2 DEF PauseLast

-----------------------------------------------------------------------------
(* MTP3: what its handlers post. *)

LEMMA Built ==
  /\ \A l \in LinkNo, kind \in MtpKind, sls \in Sls : ToLink(l, kind, sls) \in Output
  /\ \A kind \in M3uaKind, sls \in Sls : ToServer(kind, sls) \in Output
  /\ \A l \in LinkNo : LinkReset(l) \in Output /\ Sltm(l) \in Output
  /\ \A p \in Proc : TimerTo(p) \in Good
  /\ \A l \in LinkNo, msg \in {"LINKPAUSE", "LINKRESUME"} :
       [msg |-> msg, dest |-> Mtp, src |-> l, kind |-> "NONE", sls |-> 0] \in Good
<1>1. /\ Mtp \in Proc /\ Server \in Proc /\ Server # Mtp /\ 0 \in Sls
      /\ \A l \in LinkNo : l \in Proc /\ l # Mtp
  BY LinkAssumption DEF Mtp, Server, Proc, LinkNo, Sls
<1>2. "SLTM" \in MtpKind
  BY DEF MtpKind
<1>3. \A l \in LinkNo, kind \in MtpKind, sls \in Sls : ToLink(l, kind, sls) \in Output
  BY <1>1 DEF ToLink, Output, Good, Message
<1>4. \A kind \in M3uaKind, sls \in Sls : ToServer(kind, sls) \in Output
  BY <1>1 DEF ToServer, Output, Good, Message
<1>5. \A l \in LinkNo : LinkReset(l) \in Output
  BY <1>1 DEF LinkReset, Output, Good, Message
<1>6. \A l \in LinkNo : Sltm(l) \in Output
  BY <1>1, <1>2, <1>3 DEF Sltm
<1>7. \A p \in Proc : TimerTo(p) \in Good
  BY <1>1 DEF TimerTo, Good, Message
<1>8. \A l \in LinkNo, msg \in {"LINKPAUSE", "LINKRESUME"} :
        [msg |-> msg, dest |-> Mtp, src |-> l, kind |-> "NONE", sls |-> 0] \in Good
  BY <1>1 DEF Good, Message
<1>9. QED
  BY <1>3, <1>4, <1>5, <1>6, <1>7, <1>8

\* The message that is handled comes from where its kind says.
LEMMA ReceivedGood ==
  ASSUME QueueGood, msgqueue # <<>>
  PROVE  /\ Received \in Good
         /\ Received.src \in Proc /\ Received.sls \in Sls
         /\ Received.msg \in {"LINKPAUSE", "LINKRESUME"} => Received.src \in LinkNo
         /\ Received.msg = "LINKTRANSFER" /\ Received.dest = Mtp => Received.src \in LinkNo
<1>1. Received \in Good
  BY DEF QueueGood, Received
<1>2. QED
  BY <1>1 DEF Good, Message

LEMMA TimerOutput ==
  ASSUME NEW seq \in TimerPosts
  PROVE  seq \in Seq(Output)
<1>1. Due \in SUBSET LinkNo
  BY DEF Due
<1>2. Cardinality(Due) \in Nat
  BY <1>1, Finite, LinkAssumption
<1>3. {TimerPost(l) : l \in Due} \subseteq Output
  BY <1>1, Built DEF TimerPost
<1>4. seq \in [1 .. Cardinality(Due) -> {TimerPost(l) : l \in Due}]
  BY DEF TimerPosts
<1>5. seq \in Seq({TimerPost(l) : l \in Due})
  BY <1>2, <1>4
<1>6. seq \in [1 .. Cardinality(Due) -> Output]
  BY <1>3, <1>4
<1>7. QED
  BY <1>2, <1>6

\* Every handler of MTP3 takes its message and posts to links and server only.
LEMMA MtpPosts ==
  ASSUME Mtp3Inv, QueueGood, MtpHandler
  PROVE  \E s \in Seq(Output) : Posts(s)
<1> USE DEF FromLink, FromAsp, Gets
<1>1. CASE Timer
  BY <1>1, TimerOutput DEF Timer
<1>2. CASE RxSltm
  <2>1. ToLink(Received.src, "SLTA", 0) \in Output
    BY <1>2, ReceivedGood, Built DEF RxSltm, MtpKind, Sls
  <2>2. <<ToLink(Received.src, "SLTA", 0)>> \in Seq(Output)
    BY <2>1
  <2>3. QED
    BY <1>2, <2>2 DEF RxSltm
<1>3. Aspup \in Seq(Output) /\ Aspdn \in Seq(Output) /\ <<>> \in Seq(Output)
  <2>1. ToServer("ASPUP", 0) \in Output /\ ToServer("ASPDN", 0) \in Output
    BY Built DEF M3uaKind, Sls
  <2>2. QED
    BY <2>1 DEF Aspup, Aspdn
<1>4. CASE RxSlta \/ RxPaused \/ LinkPause
  BY <1>3, <1>4 DEF RxSlta, RxPaused, LinkPause
<1>5. CASE RxManagement
  <2>1. Received.src \in LinkNo /\ Received.sls \in Sls
    BY <1>5, ReceivedGood DEF RxManagement
  <2>2. \A order \in MtpKind, ack \in MtpKind : Confirms(Received, order, ack) \in Seq(Output)
    BY <1>3, <2>1, Built DEF Confirms
  <2>3. Confirms(Received, "COO", "COA") \in Seq(Output)
        /\ Confirms(Received, "CBD", "CBA") \in Seq(Output)
    BY <2>2 DEF MtpKind
  <2>4. Confirms(Received, "COO", "COA") \o Confirms(Received, "CBD", "CBA") \in Seq(Output)
    BY <2>3
  <2>5. <<ToServer("DUNA", 0)>> \in Seq(Output) /\ <<ToServer("DAVA", 0)>> \in Seq(Output)
    <3>1. ToServer("DUNA", 0) \in Output /\ ToServer("DAVA", 0) \in Output
      BY Built DEF M3uaKind, Sls
    <3>2. QED
      BY <3>1
  <2>6. QED
    BY <1>5, <2>4, <2>5 DEF RxManagement
<1>6. CASE RxUser
  <2>1. ToServer("DATA", Received.sls) \in Output
    BY <1>6, ReceivedGood, Built DEF RxUser, M3uaKind
  <2>2. <<ToServer("DATA", Received.sls)>> \in Seq(Output)
    BY <2>1
  <2>3. QED
    BY <1>3, <1>6, <2>2 DEF RxUser
<1>7. CASE LinkResume
  <2>1. Sltm(Received.src) \in Output
    BY <1>7, ReceivedGood, Built DEF LinkResume
  <2>2. <<Sltm(Received.src)>> \in Seq(Output)
    BY <2>1
  <2>3. QED
    BY <1>7, <2>2 DEF LinkResume
<1>8. CASE AspData
  <2> DEFINE user == <<ToLink(SelectLink(Received.sls), "USER", Received.sls)>>
  <2>1. Received.sls \in Sls
    BY <1>8, ReceivedGood DEF AspData
  <2>2. SelectLink(Received.sls) \in LinkNo
    BY <2>1, SelectsAlive DEF Mtp3Inv, MtpTypeOK
  <2>3. ToLink(SelectLink(Received.sls), "USER", Received.sls) \in Output
    BY <2>1, <2>2, Built DEF MtpKind
  <2>4. user \in Seq(Output)
    BY <2>3
  <2>5. Aspdn \o user \in Seq(Output)
    BY <1>3, <2>4
  <2>6. QED
    BY <1>8, <2>4, <2>5 DEF AspData
<1>9. CASE AspManagement
  <2>1. \A kind \in M3uaKind : ToServer(kind, 0) \in Output
    BY Built DEF Sls
  <2>2. /\ ToServer("ASPUP_ACK", 0) \in Output /\ ToServer("NTFY_INACTIVE", 0) \in Output
        /\ ToServer("ASPAC_ACK", 0) \in Output /\ ToServer("NTFY_ACTIVE", 0) \in Output
        /\ ToServer("ASPAC", 0) \in Output
    BY <2>1 DEF M3uaKind
  <2>3. /\ <<ToServer("ASPUP_ACK", 0), ToServer("NTFY_INACTIVE", 0)>> \in Seq(Output)
        /\ <<ToServer("ASPAC_ACK", 0), ToServer("NTFY_ACTIVE", 0)>> \in Seq(Output)
        /\ <<ToServer("ASPAC", 0)>> \in Seq(Output)
    BY <2>2
  <2>4. QED
    BY <1>3, <1>9, <2>3 DEF AspManagement
<1>10. QED
  BY <1>1, <1>2, <1>4, <1>5, <1>6, <1>7, <1>8, <1>9 DEF MtpHandler

-----------------------------------------------------------------------------
(* MTP3: what its handlers make of its variables. *)

\* state and linkstatus change together, and the ASPs are told when the
\* number of live links leaves 0 or reaches it.
LEMMA StatusStep ==
  ASSUME Mtp3Inv, NEW l \in LinkNo, NEW x \in {0, 1},
         linkstatus' = [linkstatus EXCEPT ![l] = x],
         state' = Count(linkstatus'),
         \/ x = 1 /\ (IF state = 0 THEN told' = "ASPUP" ELSE UNCHANGED told)
         \/ x = 0 /\ (IF state' = 0 THEN told' = "ASPDN" ELSE UNCHANGED told),
         UNCHANGED <<sltT1, sltT2>>, Wait4slta' \in [LinkNo -> Nat]
  PROVE  Mtp3Inv'
<1>1. MtpTypeOK /\ state = Count(linkstatus) /\ AspTold
  BY DEF Mtp3Inv, StateCounts
<1>2. linkstatus' \in [LinkNo -> {0, 1}]
  BY <1>1 DEF MtpTypeOK
<1>3. state' \in 0 .. linkqty /\ (state' = 0 <=> \A k \in LinkNo : linkstatus'[k] = 0)
  BY <1>2, CountType
<1>4. state = 0 <=> \A k \in LinkNo : linkstatus[k] = 0
  BY <1>1, CountType DEF MtpTypeOK
<1>5. linkstatus'[l] = x /\ \A k \in LinkNo \ {l} : linkstatus'[k] = linkstatus[k]
  BY <1>1 DEF MtpTypeOK
<1>6. MtpTypeOK'
  BY <1>1, <1>2, <1>3 DEF MtpTypeOK
<1>7. AspTold'
  <2>1. CASE x = 1
    <3>1. \E k \in LinkNo : linkstatus'[k] # 0
      BY <1>5, <2>1
    <3>2. told' = "ASPUP"
      BY <1>1, <1>4, <2>1 DEF AspTold
    <3>3. QED
      BY <3>1, <3>2 DEF AspTold
  <2>2. CASE x = 0
    <3>1. CASE state' = 0
      BY <1>3, <2>2, <3>1 DEF AspTold
    <3>2. CASE state' # 0
      <4>1. \E k \in LinkNo : linkstatus[k] # 0 /\ linkstatus'[k] # 0
        BY <1>2, <1>3, <1>5, <2>2, <3>2
      <4>2. told' = "ASPUP"
        BY <1>1, <2>2, <3>2, <4>1 DEF AspTold
      <4>3. QED
        BY <4>1, <4>2 DEF AspTold
    <3>3. QED
      BY <3>1, <3>2
  <2>3. QED
    BY <2>1, <2>2
<1>8. QED
  BY <1>6, <1>7 DEF Mtp3Inv, StateCounts

LEMMA TimerMtp3Inv ==
  ASSUME Mtp3Inv, Timer
  PROVE  Mtp3Inv' /\ UNCHANGED linkstatus
<1>1. MtpTypeOK /\ StateCounts /\ AspTold
  BY DEF Mtp3Inv
<1>2. \A value \in Nat : \A t \in 0 .. value + 1 : CountTo(t, value) \in 0 .. value + 1
  BY DEF CountTo
<1>3. sltT1' \in [LinkNo -> 0 .. sltT1value + 1]
  <2>1. \A l \in LinkNo : CountTo(sltT1[l], sltT1value) \in 0 .. sltT1value + 1
    BY <1>1, <1>2, SltAssumption DEF MtpTypeOK
  <2>2. 0 \in 0 .. sltT1value + 1
    BY SltAssumption
  <2>3. QED
    BY <2>1, <2>2 DEF Timer
<1>4. sltT2' \in [LinkNo -> 0 .. sltT2value + 1]
  <2>1. \A l \in LinkNo : CountTo(sltT2[l], sltT2value) \in 0 .. sltT2value + 1
    BY <1>1, <1>2, SltAssumption DEF MtpTypeOK
  <2>2. 0 \in 0 .. sltT2value + 1
    BY SltAssumption
  <2>3. QED
    BY <2>1, <2>2 DEF Timer
<1>5. Wait4slta' \in [LinkNo -> Nat]
  BY <1>1 DEF Timer, MtpTypeOK
<1>6. UNCHANGED <<state, linkstatus, told>>
  BY DEF Timer
<1>7. MtpTypeOK'
  BY <1>1, <1>3, <1>4, <1>5, <1>6 DEF MtpTypeOK
<1>8. StateCounts' /\ AspTold'
  BY <1>1, <1>6 DEF StateCounts, AspTold, Count, Alive
<1>9. QED
  BY <1>6, <1>7, <1>8 DEF Mtp3Inv

LEMMA AspDataMtp3Inv ==
  ASSUME Mtp3Inv, AspData
  PROVE  Mtp3Inv' /\ UNCHANGED linkstatus
<1>1. MtpTypeOK /\ state = Count(linkstatus) /\ AspTold
  BY DEF Mtp3Inv, StateCounts
<1>2. UNCHANGED <<linkstatus, Wait4slta, sltT1, sltT2>>
  BY DEF AspData
<1>3. CASE Alive(linkstatus) = {}
  <2>1. state' = 0 /\ told' = "ASPDN"
    BY <1>3 DEF AspData
  <2>2. \A l \in LinkNo : linkstatus'[l] = 0
    BY <1>2, <1>3 DEF Alive
  <2>3. Count(linkstatus') = 0
    BY <1>1, <1>2, <2>2, CountType DEF MtpTypeOK
  <2>4. QED
    BY <1>1, <1>2, <2>1, <2>2, <2>3, LinkAssumption DEF Mtp3Inv, MtpTypeOK, StateCounts, AspTold
<1>4. CASE Alive(linkstatus) # {}
  <2>1. UNCHANGED <<state, told>>
    BY <1>4 DEF AspData
  <2>2. QED
    BY <1>1, <1>2, <2>1 DEF Mtp3Inv, MtpTypeOK, StateCounts, AspTold, Count, Alive
<1>5. QED
  BY <1>3, <1>4

\* A handler of MTP3 changes linkstatus only as the message says.
LEMMA MtpHandlerInv ==
  ASSUME Mtp3Inv, QueueGood, MtpHandler
  PROVE  /\ Mtp3Inv'
         /\ \A l \in LinkNo :
              \/ PauseFrom(Received, l) /\ linkstatus'[l] = 0
              \/ SltaFrom(Received, l)
              \/ ~ PauseFrom(Received, l) /\ linkstatus'[l] = linkstatus[l]
<1> DEFINE Heeds == \A l \in LinkNo :
              \/ PauseFrom(Received, l) /\ linkstatus'[l] = 0
              \/ SltaFrom(Received, l)
              \/ ~ PauseFrom(Received, l) /\ linkstatus'[l] = linkstatus[l]
<1> USE DEF FromLink, FromAsp, Gets
<1>1. MtpTypeOK
  BY DEF Mtp3Inv
<1>2. ASSUME UNCHANGED linkstatus, Received.msg # "LINKPAUSE" PROVE Heeds
  BY <1>2 DEF PauseFrom
<1>3. CASE Timer
  BY <1>2, <1>3, TimerMtp3Inv DEF Timer
<1>4. CASE RxSltm \/ RxPaused \/ RxManagement \/ RxUser \/ AspManagement
  <2>1. UNCHANGED mtpVars /\ Received.msg # "LINKPAUSE"
    BY <1>4 DEF RxSltm, RxPaused, RxManagement, RxUser, AspManagement
  <2>2. Mtp3Inv'
    BY <2>1 DEF Mtp3Inv, MtpTypeOK, StateCounts, AspTold, mtpVars, Count, Alive
  <2>3. QED
    BY <1>2, <2>1, <2>2 DEF mtpVars
<1>5. CASE RxSlta
  <2>1. Received.src \in LinkNo
    BY <1>5, ReceivedGood DEF RxSlta
  <2>2. linkstatus' = [linkstatus EXCEPT ![Received.src] = 1]
    BY <1>5 DEF RxSlta
  <2>3. Wait4slta' \in [LinkNo -> Nat]
    BY <1>1, <1>5 DEF RxSlta, MtpTypeOK
  <2>4. Mtp3Inv'
    BY <1>5, <2>1, <2>2, <2>3, StatusStep DEF RxSlta
  <2>5. Heeds
    BY <1>1, <1>5, <2>1, <2>2 DEF RxSlta, MtpTypeOK, SltaFrom, PauseFrom
  <2>6. QED
    BY <2>4, <2>5
<1>6. CASE LinkPause
  <2>1. Received.src \in LinkNo
    BY <1>6, ReceivedGood DEF LinkPause
  <2>2. linkstatus' = [linkstatus EXCEPT ![Received.src] = 0]
    BY <1>6 DEF LinkPause
  <2>3. Mtp3Inv'
    <3>1. Wait4slta' \in [LinkNo -> Nat]
      BY <1>1, <1>6 DEF LinkPause, MtpTypeOK
    <3>2. QED
      BY <1>6, <2>1, <2>2, <3>1, StatusStep DEF LinkPause
  <2>4. Heeds
    BY <1>1, <1>6, <2>1, <2>2 DEF LinkPause, MtpTypeOK, PauseFrom
  <2>5. QED
    BY <2>3, <2>4
<1>7. CASE LinkResume
  <2>1. UNCHANGED <<state, linkstatus, told>> /\ Received.msg # "LINKPAUSE"
    BY <1>7 DEF LinkResume
  <2>2. MtpTypeOK'
    <3>1. Received.src \in LinkNo /\ 0 \in 0 .. sltT1value + 1 /\ 0 \in 0 .. sltT2value + 1
      BY <1>7, ReceivedGood, SltAssumption DEF LinkResume
    <3>2. QED
      BY <1>1, <1>7, <2>1, <3>1 DEF LinkResume, MtpTypeOK
  <2>3. StateCounts' /\ AspTold'
    BY <2>1 DEF Mtp3Inv, StateCounts, AspTold, Count, Alive
  <2>4. QED
    BY <1>2, <2>1, <2>2, <2>3 DEF Mtp3Inv
<1>8. CASE AspData
  BY <1>2, <1>8, AspDataMtp3Inv DEF AspData
<1>9. QED
  BY <1>3, <1>4, <1>5, <1>6, <1>7, <1>8 DEF MtpHandler

-----------------------------------------------------------------------------
(* main(), the links and the server. *)

\* Steps that leave MTP3 alone leave its part of the invariant alone.
LEMMA Mtp3Unchanged ==
  ASSUME Mtp3Inv, UNCHANGED mtpVars
  PROVE  Mtp3Inv' /\ UNCHANGED linkstatus
BY DEF Mtp3Inv, MtpTypeOK, StateCounts, AspTold, mtpVars, Count, Alive

\* A message of another process is removed, and no SLTA is posted: what was
\* heard of a dead link, or will be, stays so.
LEMMA HeardAfterPosts ==
  ASSUME QueueGood, msgqueue # <<>>, NEW s \in Seq(Good), Posts(s),
         NEW l \in LinkNo, NoSlta(s, l), Heard, offered[l],
         \/ ~ PauseFrom(Received, l) /\ linkstatus'[l] = linkstatus[l]
         \/ PauseFrom(Received, l) /\ linkstatus'[l] = 0
         \/ SltaFrom(Received, l)
  PROVE  PauseLast(msgqueue', l) \/ (linkstatus'[l] = 0 /\ NoSlta(msgqueue', l))
<1>1. /\ msgqueue \in Seq(Good) /\ msgqueue' = Tail(msgqueue) \o s
      /\ Received = Head(msgqueue)
  BY DEF QueueGood, Posts, Received
<1>2. /\ NoSlta(msgqueue, l) => NoSlta(msgqueue', l)
      /\ PauseLast(msgqueue, l) => \/ PauseLast(msgqueue', l)
                                   \/ PauseFrom(Received, l) /\ NoSlta(msgqueue', l)
  BY <1>1, AfterPosts
<1>3. CASE PauseLast(msgqueue, l)
  <2>1. CASE PauseFrom(Received, l)
    <3>1. linkstatus'[l] = 0
      BY <2>1 DEF PauseFrom, SltaFrom
    <3>2. QED
      BY <1>2, <1>3, <3>1
  <2>2. CASE ~ PauseFrom(Received, l)
    BY <1>2, <1>3, <2>2
  <2>3. QED
    BY <2>1, <2>2
<1>4. CASE linkstatus[l] = 0 /\ NoSlta(msgqueue, l)
  <2>1. ~ SltaFrom(Received, l)
    <3>1. Len(msgqueue) \in Nat \ {0} /\ Received = msgqueue[1]
      BY <1>1
    <3>2. QED
      BY <1>4, <3>1 DEF NoSlta
  <2>2. QED
    BY <1>2, <1>4, <2>1
<1>5. QED
  BY <1>3, <1>4 DEF Heard

LEMMA TickInv ==
  ASSUME GatewayInv, Tick
  PROVE  GatewayInv'
<1>1. Mtp3Inv /\ LinkTypeOK /\ QueueGood /\ Heard
  BY DEF GatewayInv
<1>2. linkqty + 2 \in Nat /\ \A i \in 1 .. linkqty + 2 : TimerTo(i - 1) \in Good
  BY LinkAssumption, Built DEF Proc
<1>3. msgqueue' \in Seq(Good)
  <2>1. msgqueue' \in [1 .. linkqty + 2 -> Good]
    BY <1>2 DEF Tick
  <2>2. QED
    BY <1>2, <2>1
<1>4. Mtp3Inv' /\ LinkTypeOK'
  BY <1>1, Mtp3Unchanged DEF Tick, LinkTypeOK, linkVars
<1>5. ASSUME NEW l \in LinkNo, offered[l]
      PROVE  service[l] = "down" /\ linkstatus[l] = 0
  <2>1. Len(msgqueue) = 0
    BY DEF Tick
  <2>2. ~ PauseLast(msgqueue, l)
    BY <2>1 DEF PauseLast
  <2>3. QED
    BY <1>1, <1>5, <2>2 DEF Heard
<1>6. ASSUME NEW l \in LinkNo PROVE NoSlta(msgqueue', l)
  <2>1. msgqueue' = [i \in 1 .. linkqty + 2 |-> TimerTo(i - 1)] /\ Len(msgqueue') = linkqty + 2
    BY <1>2 DEF Tick
  <2>2. QED
    BY <2>1 DEF NoSlta, SltaFrom, TimerTo
<1>7. Heard'
  BY <1>4, <1>5, <1>6, Mtp3Unchanged DEF Heard, Tick, linkVars, mtpVars
<1>8. QED
  BY <1>3, <1>4, <1>7 DEF QueueGood, GatewayInv

\* MTP3 handles a message.
LEMMA MtpInv ==
  ASSUME GatewayInv, MtpHandler, UNCHANGED linkVars
  PROVE  GatewayInv'
<1>1. Mtp3Inv /\ LinkTypeOK /\ QueueGood /\ Heard
  BY DEF GatewayInv
<1>2. msgqueue # <<>>
  BY DEF MtpHandler, Timer, RxSltm, RxSlta, RxPaused, RxManagement, RxUser, LinkPause,
         LinkResume, AspData, AspManagement, FromLink, FromAsp, Gets
<1>3. PICK s \in Seq(Output) : Posts(s)
  BY <1>1, MtpPosts
<1>4. s \in Seq(Good) /\ \A l \in LinkNo : NoSlta(s, l)
  <2>1. \A k \in 1 .. Len(s) : s[k] \in Output
    OBVIOUS
  <2>2. Output \subseteq Good
    BY DEF Output
  <2>3. QED
    BY <2>1, <2>2 DEF NoSlta, SltaFrom, Output
<1>5. QueueGood'
  BY <1>1, <1>2, <1>3, <1>4, Remaining DEF Posts, QueueGood
<1>6. /\ Mtp3Inv'
      /\ \A l \in LinkNo :
           \/ PauseFrom(Received, l) /\ linkstatus'[l] = 0
           \/ SltaFrom(Received, l)
           \/ ~ PauseFrom(Received, l) /\ linkstatus'[l] = linkstatus[l]
  BY <1>1, MtpHandlerInv
<1>7. Heard'
  <2>1. ASSUME NEW l \in LinkNo, offered[l]
        PROVE  PauseLast(msgqueue', l) \/ (linkstatus'[l] = 0 /\ NoSlta(msgqueue', l))
    BY <1>1, <1>2, <1>3, <1>4, <1>6, <2>1, HeardAfterPosts
  <2>2. QED
    BY <1>1, <2>1 DEF Heard, linkVars
<1>8. QED
  BY <1>1, <1>5, <1>6, <1>7 DEF GatewayInv, LinkTypeOK, linkVars

\* A process adds a message to the queue: what a link was told of counts as
\* heard only while the link is down, and then it does not deliver.
LEMMA AppendInv ==
  ASSUME GatewayInv, UNCHANGED mtpVars, NEW m \in Good, msgqueue' = Append(msgqueue, m),
         LinkTypeOK',
         \A l \in LinkNo : offered'[l] =>
           offered[l] /\ service'[l] = service[l] /\ (service[l] = "down" => ~ SltaFrom(m, l))
  PROVE  GatewayInv'
<1>1. Mtp3Inv /\ LinkTypeOK /\ QueueGood /\ Heard
  BY DEF GatewayInv
<1>2. Mtp3Inv' /\ UNCHANGED linkstatus
  BY <1>1, Mtp3Unchanged
<1>3. msgqueue \in Seq(Good) /\ msgqueue' \in Seq(Good)
  BY <1>1 DEF QueueGood
<1>4. ASSUME NEW l \in LinkNo, offered'[l]
      PROVE  /\ service'[l] = "down"
             /\ PauseLast(msgqueue', l) \/ (linkstatus'[l] = 0 /\ NoSlta(msgqueue', l))
  <2>1. /\ service[l] = "down" /\ service'[l] = "down" /\ ~ SltaFrom(m, l)
        /\ PauseLast(msgqueue, l) \/ (linkstatus[l] = 0 /\ NoSlta(msgqueue, l))
    BY <1>1, <1>4 DEF Heard
  <2>2. /\ NoSlta(msgqueue, l) => NoSlta(msgqueue', l)
        /\ PauseLast(msgqueue, l) => PauseLast(msgqueue', l)
    BY <1>3, <2>1, AfterAppend
  <2>3. QED
    BY <1>2, <2>1, <2>2
<1>5. QED
  BY <1>2, <1>3, <1>4 DEF GatewayInv, QueueGood, Heard

\* A process ends its handler without posting.
LEMMA EndInv ==
  ASSUME GatewayInv, UNCHANGED mtpVars, msgqueue # <<>>, Received.dest # Mtp, Posts(<<>>),
         LinkTypeOK',
         \A l \in LinkNo : offered'[l] => offered[l] /\ (service[l] = "down" => service'[l] = "down")
  PROVE  GatewayInv'
<1>1. Mtp3Inv /\ LinkTypeOK /\ QueueGood /\ Heard
  BY DEF GatewayInv
<1>2. Mtp3Inv' /\ UNCHANGED linkstatus
  BY <1>1, Mtp3Unchanged
<1>3. <<>> \in Seq(Good) /\ \A l \in LinkNo : NoSlta(<<>>, l)
  BY DEF NoSlta
<1>4. QueueGood'
  BY <1>1, <1>3, Remaining DEF Posts, QueueGood
<1>5. ASSUME NEW l \in LinkNo, offered'[l]
      PROVE  /\ service'[l] = "down"
             /\ PauseLast(msgqueue', l) \/ (linkstatus'[l] = 0 /\ NoSlta(msgqueue', l))
  <2>1. offered[l] /\ service[l] = "down"
    BY <1>1, <1>5 DEF Heard
  <2>2. ~ PauseFrom(Received, l)
    BY <1>1, ReceivedGood DEF PauseFrom, Good
  <2>3. QED
    BY <1>1, <1>2, <1>3, <1>5, <2>1, <2>2, HeardAfterPosts
<1>6. QED
  BY <1>2, <1>4, <1>5 DEF GatewayInv, Heard

\* The answer to a message for a link that is not in service: LINKPAUSE is
\* queued behind everything that MTP3 has yet to handle.
LEMMA LinkSendsInv ==
  ASSUME GatewayInv, NEW l \in LinkNo, LinkSends(l)
  PROVE  GatewayInv'
<1> DEFINE pause == [msg |-> "LINKPAUSE", dest |-> Mtp, src |-> l, kind |-> "NONE", sls |-> 0]
<1>1. Mtp3Inv /\ LinkTypeOK /\ QueueGood /\ Heard
  BY DEF GatewayInv
<1>2. msgqueue # <<>> /\ Received.dest = l /\ Received.msg = "LINKTRANSFER" /\ l # Mtp
  BY LinkAssumption DEF LinkSends, Gets, LinkNo, Mtp
<1>3. /\ owed' \in [LinkNo -> BOOLEAN]
      /\ offered' = [offered EXCEPT ![l] = @ \/ service[l] = "down"]
      /\ UNCHANGED mtpVars
  BY <1>1 DEF LinkSends, LinkTypeOK
<1>4. offered' \in [LinkNo -> BOOLEAN]
  BY <1>1, <1>3 DEF LinkTypeOK
<1>5. CASE service[l] = "up" /\ Posts(<<>>) /\ UNCHANGED service
  <2>1. \A k \in LinkNo : offered'[k] => offered[k]
    BY <1>1, <1>3, <1>5 DEF LinkTypeOK
  <2>2. QED
    BY <1>1, <1>2, <1>3, <1>4, <1>5, <2>1, EndInv DEF LinkTypeOK
<1>6. CASE /\ Posts(<<pause>>)
           /\ \/ service[l] = "up" /\ service' = [service EXCEPT ![l] = "full"]
              \/ service[l] # "up" /\ UNCHANGED service
  <2>1. pause \in Good /\ <<pause>> \in Seq(Good) /\ \A k \in LinkNo : NoSlta(<<pause>>, k)
    <3>1. pause \in Good
      BY Built
    <3>2. <<pause>> \in Seq(Good) /\ Len(<<pause>>) = 1 /\ <<pause>>[1] = pause
      BY <3>1
    <3>3. QED
      BY <3>1, <3>2 DEF NoSlta, SltaFrom
  <2>2. Mtp3Inv' /\ UNCHANGED linkstatus
    BY <1>1, <1>3, Mtp3Unchanged
  <2>3. QueueGood'
    BY <1>1, <1>2, <1>6, <2>1, Remaining DEF Posts, QueueGood
  <2>4. LinkTypeOK'
    BY <1>1, <1>3, <1>4, <1>6 DEF LinkTypeOK
  <2>5. ASSUME NEW k \in LinkNo, offered'[k]
        PROVE  /\ service'[k] = "down"
               /\ PauseLast(msgqueue', k) \/ (linkstatus'[k] = 0 /\ NoSlta(msgqueue', k))
    <3>1. CASE k = l
      <4>1. service[l] = "down"
        BY <1>1, <1>3, <2>5, <3>1 DEF Heard, LinkTypeOK
      <4>2. service'[l] = "down"
        BY <1>6, <4>1
      <4>3. PauseLast(msgqueue', l)
        BY <1>1, <1>2, <1>6, <2>1, AfterPause DEF Posts, QueueGood, PauseFrom
      <4>4. QED
        BY <3>1, <4>2, <4>3
    <3>2. CASE k # l
      <4>1. offered[k] /\ service'[k] = service[k]
        BY <1>1, <1>3, <1>6, <2>5, <3>2 DEF LinkTypeOK
      <4>2. service'[k] = "down"
        BY <1>1, <4>1 DEF Heard
      <4>3. ~ PauseFrom(Received, k) /\ linkstatus'[k] = linkstatus[k]
        BY <1>2, <2>2 DEF PauseFrom
      <4>4. QED
        BY <1>1, <1>2, <1>6, <2>1, <4>1, <4>2, <4>3, HeardAfterPosts
    <3>3. QED
      BY <3>1, <3>2
  <2>6. QED
    BY <2>2, <2>3, <2>4, <2>5 DEF GatewayInv, Heard
<1>7. QED
  BY <1>5, <1>6 DEF LinkSends

LEMMA LinkTimerInv ==
  ASSUME GatewayInv, NEW l \in LinkNo,
         LinkComesUp(l) \/ LinkFalls(l) \/ LinkDelivers(l) \/ LinkAnswers(l)
  PROVE  GatewayInv'
<1>1. Mtp3Inv /\ LinkTypeOK /\ QueueGood /\ Heard
  BY DEF GatewayInv
<1>2. /\ Mtp \in Proc /\ l \in Proc /\ 0 \in Sls
  BY LinkAssumption DEF Mtp, Proc, LinkNo, Sls
<1>3. CASE LinkComesUp(l)
  <2> DEFINE m == [msg |-> "LINKRESUME", dest |-> Mtp, src |-> l, kind |-> "NONE", sls |-> 0]
  <2>1. m \in Good /\ msgqueue' = Append(msgqueue, m)
    BY <1>3, Built DEF LinkComesUp, PostsToMtp
  <2>2. LinkTypeOK' /\ UNCHANGED mtpVars
    BY <1>1, <1>3 DEF LinkComesUp, LinkTypeOK
  <2>3. \A k \in LinkNo : offered'[k] => offered[k] /\ service'[k] = service[k]
    BY <1>1, <1>3 DEF LinkComesUp, LinkTypeOK
  <2>4. \A k \in LinkNo : ~ SltaFrom(m, k)
    BY DEF SltaFrom
  <2> HIDE DEF m
  <2>5. QED
    BY <2>1, <2>2, <2>3, <2>4, AppendInv
<1>4. CASE LinkFalls(l)
  <2>1. Mtp3Inv' /\ UNCHANGED linkstatus
    BY <1>1, <1>4, Mtp3Unchanged DEF LinkFalls
  <2>2. LinkTypeOK'
    BY <1>1, <1>4 DEF LinkFalls, LinkTypeOK
  <2>3. \A k \in LinkNo : service[k] = "down" => service'[k] = "down"
    BY <1>1, <1>4 DEF LinkFalls, LinkTypeOK
  <2>4. UNCHANGED <<msgqueue, offered>>
    BY <1>4 DEF LinkFalls
  <2>5. QED
    BY <1>1, <2>1, <2>2, <2>3, <2>4 DEF GatewayInv, QueueGood, Heard, NoSlta, PauseLast
<1>5. CASE LinkDelivers(l)
  <2>1. PICK f \in FromPeer : PostsToMtp(l, "LINKTRANSFER", f.kind, f.sls)
    BY <1>5 DEF LinkDelivers
  <2> DEFINE m == [msg |-> "LINKTRANSFER", dest |-> Mtp, src |-> l, kind |-> f.kind, sls |-> f.sls]
  <2>2. f.kind \in MtpKind \ {"SLTA"} /\ f.sls \in Sls
    BY GatewayAssumption
  <2>3. m \in Good /\ msgqueue' = Append(msgqueue, m)
    BY <1>2, <2>1, <2>2 DEF PostsToMtp, Good, Message
  <2>4. \A k \in LinkNo : ~ SltaFrom(m, k)
    BY <2>2 DEF SltaFrom
  <2>5. UNCHANGED <<mtpVars, service, offered>> /\ LinkTypeOK'
    BY <1>1, <1>5 DEF LinkDelivers, LinkTypeOK, linkVars
  <2> HIDE DEF m
  <2>6. QED
    BY <2>3, <2>4, <2>5, AppendInv
<1>6. CASE LinkAnswers(l)
  <2> DEFINE m == [msg |-> "LINKTRANSFER", dest |-> Mtp, src |-> l, kind |-> "SLTA", sls |-> 0]
  <2>1. m \in Good /\ msgqueue' = Append(msgqueue, m)
    BY <1>2, <1>6 DEF LinkAnswers, PostsToMtp, Good, Message, MtpKind
  <2>2. \A k \in LinkNo : service[k] = "down" => ~ SltaFrom(m, k)
    BY <1>6 DEF LinkAnswers, SltaFrom
  <2>3. UNCHANGED <<mtpVars, service, offered>> /\ LinkTypeOK'
    BY <1>1, <1>6 DEF LinkAnswers, LinkTypeOK
  <2> HIDE DEF m
  <2>4. QED
    BY <2>1, <2>2, <2>3, AppendInv
<1>7. QED
  BY <1>3, <1>4, <1>5, <1>6

LEMMA LinkEndInv ==
  ASSUME GatewayInv, NEW l \in LinkNo, LinkTimerEnds(l) \/ LinkIsReset(l)
  PROVE  GatewayInv'
<1>1. LinkTypeOK /\ l # Mtp
  BY LinkAssumption DEF GatewayInv, LinkNo, Mtp
<1>2. /\ UNCHANGED <<mtpVars, offered>> /\ msgqueue # <<>> /\ Received.dest = l /\ Posts(<<>>)
      /\ UNCHANGED service \/ service' = [service EXCEPT ![l] = "down"]
      /\ owed' \in [LinkNo -> BOOLEAN]
  BY <1>1 DEF LinkTimerEnds, LinkIsReset, Gets, LinkTypeOK, linkVars
<1>3. LinkTypeOK' /\ \A k \in LinkNo : service[k] = "down" => service'[k] = "down"
  BY <1>1, <1>2 DEF LinkTypeOK
<1>4. QED
  BY <1>1, <1>2, <1>3, EndInv

LEMMA ServerInv ==
  ASSUME GatewayInv, ServerReceives \/ ServerEnds
  PROVE  GatewayInv'
<1>1. LinkTypeOK /\ Server # Mtp /\ Mtp \in Proc /\ Server \in Proc
  BY LinkAssumption DEF GatewayInv, Server, Mtp, Proc
<1>2. UNCHANGED <<mtpVars, service, owed, offered>> /\ LinkTypeOK'
  BY <1>1 DEF ServerReceives, ServerEnds, LinkTypeOK, linkVars
<1>3. CASE ServerReceives
  <2>1. PICK f \in FromClients :
          msgqueue' = Append(msgqueue, [msg |-> "M3UATRANSFER", dest |-> Mtp, src |-> Server,
                                        kind |-> f.kind, sls |-> f.sls])
    BY <1>3 DEF ServerReceives
  <2> DEFINE m == [msg |-> "M3UATRANSFER", dest |-> Mtp, src |-> Server,
                   kind |-> f.kind, sls |-> f.sls]
  <2>2. f.kind \in M3uaKind /\ f.sls \in Sls
    BY GatewayAssumption
  <2>3. m \in Good /\ \A l \in LinkNo : ~ SltaFrom(m, l)
    BY <1>1, <2>2 DEF Good, Message, SltaFrom
  <2>4. msgqueue' = Append(msgqueue, m)
    BY <2>1
  <2> HIDE DEF m
  <2>5. QED
    BY <1>2, <2>3, <2>4, AppendInv
<1>4. CASE ServerEnds
  <2>1. msgqueue # <<>> /\ Received.dest # Mtp /\ Posts(<<>>)
    BY <1>1, <1>4 DEF ServerEnds, Gets
  <2>2. QED
    BY <1>2, <2>1, EndInv
<1>5. QED
  BY <1>3, <1>4

LEMMA InitGatewayInv == Init => GatewayInv
<1> SUFFICES ASSUME Init PROVE GatewayInv
  OBVIOUS
<1>1. linkstatus \in [LinkNo -> {0, 1}] /\ \A l \in LinkNo : linkstatus[l] = 0
  BY DEF Init, MtpInit
<1>2. Count(linkstatus) = 0
  BY <1>1, CountType
<1>3. MtpTypeOK
  BY LinkAssumption, SltAssumption DEF Init, MtpInit, MtpTypeOK
<1>4. StateCounts /\ AspTold
  BY <1>1, <1>2 DEF Init, MtpInit, StateCounts, AspTold
<1>5. LinkTypeOK /\ QueueGood /\ Heard
  BY DEF Init, LinkTypeOK, QueueGood, Heard
<1>6. QED
  BY <1>3, <1>4, <1>5 DEF GatewayInv, Mtp3Inv

LEMMA NextGatewayInv == GatewayInv /\ [Next]_vars => GatewayInv'
<1> SUFFICES ASSUME GatewayInv, [Next]_vars PROVE GatewayInv'
  OBVIOUS
<1>1. CASE UNCHANGED vars
  <2>1. Mtp3Inv'
    BY <1>1, Mtp3Unchanged DEF GatewayInv, vars
  <2>2. QED
    BY <1>1, <2>1
    DEF vars, mtpVars, linkVars, GatewayInv, LinkTypeOK, QueueGood, Heard, NoSlta, PauseLast
<1>2. CASE Runs
  BY <1>2, TickInv, MtpInv, ServerInv, LinkEndInv, LinkSendsInv DEF Runs
<1>3. CASE ServerReceives
  BY <1>3, ServerInv
<1>4. ASSUME NEW l \in LinkNo,
             LinkComesUp(l) \/ LinkFalls(l) \/ LinkDelivers(l) \/ LinkAnswers(l)
      PROVE  GatewayInv'
  BY <1>4, LinkTimerInv
<1>5. QED
  BY <1>1, <1>2, <1>3, <1>4 DEF Next

\* The invariant holds in every reachable state, for any number of links.
THEOREM InvariantHolds == Spec => []GatewayInv
BY InitGatewayInv, NextGatewayInv, PTL DEF Spec

-----------------------------------------------------------------------------
\* Every variable keeps its type: the number of links in service stays within
\* linkqty, notifications name existing links, and so do MTP3's answers,
\* including the link that selectLink() returns.
THEOREM TypeCorrect == Spec => []TypeOK
<1>1. GatewayInv => TypeOK
  <2>1. Good \subseteq Message
    BY DEF Good
  <2>2. QED
    BY <2>1 DEF GatewayInv, Mtp3Inv, MtpTypeOK, LinkTypeOK, QueueGood, TypeOK
<1>2. QED
  BY <1>1, InvariantHolds, PTL

\* The last of ASPUP and ASPDN that went to the server is ASPUP exactly when
\* MTP3 counts a link as being in service.
THEOREM AspAlwaysTold == Spec => []AspTold
<1>1. GatewayInv => AspTold
  BY DEF GatewayInv, Mtp3Inv
<1>2. QED
  BY <1>1, InvariantHolds, PTL

\* A link that left service and was given a message since is out of MTP3's
\* count as soon as the queue is empty, however long the queue was and
\* whatever else was in it.
THEOREM DeadLinkAlwaysNoticed == Spec => []DeadLinkNoticed
<1>1. GatewayInv => DeadLinkNoticed
  <2> SUFFICES ASSUME GatewayInv, msgqueue = <<>>, NEW l \in LinkNo, offered[l]
               PROVE  linkstatus[l] = 0
    BY DEF DeadLinkNoticed
  <2>1. ~ PauseLast(msgqueue, l)
    BY DEF PauseLast
  <2>2. QED
    BY <2>1 DEF GatewayInv, Heard
<1>2. QED
  BY <1>1, InvariantHolds, PTL
=============================================================================
