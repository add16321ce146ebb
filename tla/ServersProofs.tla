--------------------------- MODULE ServersProofs ---------------------------
(***************************************************************************)
(* Proofs about Servers, for any number of clients, any size of the FIFO   *)
(* and any traffic.                                                        *)
(***************************************************************************)
EXTENDS Servers, WellFoundedInduction, TLAPS

Quarter   == MAX_MSG_PER_TICK \div 4
PerClient == Attempts * Quarter

LEMMA Constants ==
  /\ clqty \in Nat /\ clqty >= 1
  /\ MAX_MSG_PER_TICK \in Nat
  /\ MaxGiven \in Nat /\ MaxInbox \in Nat
  /\ SCTP_FIFO_SIZE \in Nat /\ SCTP_FIFO_SIZE >= 2
  /\ Attempts \in Nat
  /\ Quarter \in Nat /\ PerClient \in Nat
<1>1. Quarter \in Nat
  BY ClientAssumption DEF Quarter
<1>2. QED
  BY <1>1, ClientAssumption, FifoAssumption, AttemptsAssumption DEF PerClient

LEMMA NextPlaceIs ==
  \A p \in Place :
    /\ NextPlace(p) \in Place
    /\ p = SCTP_FIFO_SIZE - 1 => NextPlace(p) = 0
    /\ p # SCTP_FIFO_SIZE - 1 => NextPlace(p) = p + 1
BY Constants DEF Place, NextPlace

\* A set of numbers that is not empty has a least member, and Min() is it.
LEMMA MinIs ==
  ASSUME NEW S \in SUBSET Nat, S # {}
  PROVE  Min(S) \in S /\ \A x \in S : Min(S) <= x
<1> DEFINE Less == {pair \in Nat \X Nat : pair[1] < pair[2]}
<1>1. IsWellFoundedOn(Less, Nat)
  BY NatLessThanWellFounded, Zenon DEF OpToRel
<1>2. PICK least \in S : \A x \in S : ~ (<<x, least>> \in Less)
  <2> HIDE DEF Less
  <2>1. QED
    BY <1>1, WFMin
<1>3. \A x \in S : least <= x
  <2> TAKE x \in S
  <2>1. least \in Nat /\ x \in Nat /\ <<x, least>> \in Nat \X Nat
    OBVIOUS
  <2>2. ~ (x < least)
    BY <1>2, <2>1
  <2>3. QED
    BY <2>1, <2>2
<1>4. QED
  BY <1>3 DEF Min

-----------------------------------------------------------------------------
(* The slots.  Slots and descriptors are both taken from the least up, so  *)
(* that the client in slot i always has descriptor i + 1: an accept into   *)
(* another slot never gives out the descriptor that serv_send() copied.    *)

Own == \A i \in ClientNo : cl[i] \in {Vacant, i + 1}

LEMMA FirstVacancy ==
  ASSUME Own, Vacancy # {}
  PROVE  /\ Min(Vacancy) \in ClientNo
         /\ cl[Min(Vacancy)] = Vacant
         /\ FreeFd = Min(Vacancy) + 1
         /\ FreeFd \in Fd
<1> DEFINE first == Min(Vacancy)
<1>1. Vacancy \in SUBSET Nat
  BY Constants DEF Vacancy, ClientNo
<1>2. /\ first \in Vacancy
      /\ \A i \in Vacancy : first <= i
  BY <1>1, MinIs
<1>3. /\ first \in ClientNo
      /\ cl[first] = Vacant
      /\ first + 1 \in Fd
  BY <1>2, Constants DEF Vacancy, ClientNo, Fd
<1> HIDE DEF first
<1>4. first + 1 \notin Open
  BY <1>3, Constants DEF Own, Open, ClientNo, Vacant
<1>5. ASSUME NEW fd \in Fd \ Open PROVE first + 1 <= fd
  <2>1. SUFFICES ASSUME fd < first + 1 PROVE FALSE
    BY <1>3, Constants DEF Fd, ClientNo
  <2>2. fd - 1 \in ClientNo /\ fd - 1 < first /\ fd \in Nat
    BY <2>1, <1>3, Constants DEF Fd, ClientNo
  <2>3. fd - 1 \notin Vacancy
    BY <2>2, <1>2, <1>3, Constants DEF ClientNo
  <2>4. cl[fd - 1] = fd /\ fd # Vacant
    BY <2>2, <2>3 DEF Own, Vacancy, Fd, Vacant
  <2>5. QED
    BY <2>2, <2>4 DEF Open
<1>6. Fd \ Open \in SUBSET Nat /\ first + 1 \in Fd \ Open
  BY <1>3, <1>4, Constants DEF Fd
<1>7. FreeFd \in Fd \ Open /\ FreeFd <= first + 1
  BY <1>6, MinIs DEF FreeFd
<1>8. first + 1 <= FreeFd
  BY <1>5, <1>7
<1>9. FreeFd = first + 1
  BY <1>3, <1>7, <1>8, Constants DEF Fd, ClientNo
<1>10. QED
  BY <1>3, <1>9 DEF first

\* What may happen to a slot when something is received or sent.
Kept(i) ==
  /\ cl'[i] = cl[i]
  /\ cl[i] # Vacant => sentOn'[i + 1] = sentOn[i + 1] /\ since'[i + 1] = since[i + 1]

Opened(i) ==
  /\ cl[i] = Vacant /\ cl'[i] = i + 1
  /\ sentOn'[i + 1] = <<>> /\ since'[i + 1] = given + 1

Closed(i) == cl[i] # Vacant /\ cl'[i] = Vacant

SlotTypes ==
  /\ cl \in [ClientNo -> Fd \cup {Vacant}]
  /\ calling \in BOOLEAN
  /\ inbox \in [Fd -> Seq(Item)]
  /\ given \in 0 .. MaxGiven
  /\ sentOn \in [Fd -> Seq(1 .. MaxGiven)]
  /\ since \in [Fd -> 0 .. MaxGiven + 1]

LEMMA AdmitsIs ==
  ASSUME SlotTypes, Own, NEW next \in [ClientNo -> Fd \cup {Vacant}], Admits(next)
  PROVE  /\ calling' \in BOOLEAN
         /\ given' = given
         /\ sentOn' \in [Fd -> Seq(1 .. MaxGiven)]
         /\ since' \in [Fd -> 0 .. MaxGiven + 1]
         /\ \A i \in ClientNo :
              \/ /\ next[i] = cl[i]
                 /\ cl[i] # Vacant => sentOn'[i + 1] = sentOn[i + 1] /\ since'[i + 1] = since[i + 1]
              \/ /\ cl[i] = Vacant /\ next[i] = i + 1
                 /\ sentOn'[i + 1] = <<>> /\ since'[i + 1] = given + 1
<1>1. CASE calling /\ Vacancy # {}
  <2> DEFINE first == Min(Vacancy)
  <2>1. /\ first \in ClientNo
        /\ cl[first] = Vacant
        /\ FreeFd = first + 1
        /\ FreeFd \in Fd
    BY <1>1, FirstVacancy
  <2>2. /\ calling' = FALSE
        /\ next = [cl EXCEPT ![first] = FreeFd]
        /\ since' = [since EXCEPT ![FreeFd] = given + 1]
        /\ sentOn' = [sentOn EXCEPT ![FreeFd] = <<>>]
        /\ given' = given
    BY <1>1 DEF Admits
  <2> HIDE DEF first
  <2>3. given + 1 \in 0 .. MaxGiven + 1 /\ <<>> \in Seq(1 .. MaxGiven)
    BY Constants DEF SlotTypes
  <2>4. /\ sentOn' \in [Fd -> Seq(1 .. MaxGiven)]
        /\ since' \in [Fd -> 0 .. MaxGiven + 1]
    BY <2>1, <2>2, <2>3 DEF SlotTypes
  <2>5. ASSUME NEW i \in ClientNo
        PROVE  \/ /\ next[i] = cl[i]
                  /\ cl[i] # Vacant => sentOn'[i + 1] = sentOn[i + 1] /\ since'[i + 1] = since[i + 1]
               \/ /\ cl[i] = Vacant /\ next[i] = i + 1
                  /\ sentOn'[i + 1] = <<>> /\ since'[i + 1] = given + 1
    <3>1. CASE i = first
      BY <3>1, <2>1, <2>2 DEF SlotTypes
    <3>2. CASE i # first
      <4>1. i + 1 # FreeFd /\ i + 1 \in Fd
        BY <3>2, <2>1, Constants DEF ClientNo, Fd
      <4>2. QED
        BY <3>2, <4>1, <2>1, <2>2 DEF SlotTypes
    <3>3. QED
      BY <3>1, <3>2
  <2>6. QED
    BY <2>2, <2>4, <2>5
<1>2. CASE ~ (calling /\ Vacancy # {})
  BY <1>2 DEF Admits, account, SlotTypes
<1>3. QED
  BY <1>1, <1>2

LEMMA TailIs ==
  ASSUME NEW S, NEW s \in Seq(S), s # <<>>
  PROVE  Tail(s) \in Seq(S)
OBVIOUS

LEMMA OneReady ==
  ASSUME Ready # {}
  PROVE  Min(Ready) \in ClientNo /\ cl[Min(Ready)] # Vacant /\ inbox[cl[Min(Ready)]] # <<>>
<1>1. Ready \in SUBSET Nat
  BY Constants DEF Ready, ClientNo
<1>2. QED
  BY <1>1, MinIs DEF Ready

LEMMA ReadsIs ==
  ASSUME SlotTypes, NEW next \in [ClientNo -> Fd \cup {Vacant}], NEW got \in BOOLEAN,
         NEW i \in ClientNo, cl[i] # Vacant, inbox[cl[i]] # <<>>, Reads(i, next, got)
  PROVE  /\ inbox' \in [Fd -> Seq(Item)]
         /\ cl' = next \/ (~ got /\ cl' = [next EXCEPT ![i] = Vacant])
<1>1. /\ cl[i] \in Fd
      /\ inbox[cl[i]] \in Seq(Item)
  BY DEF SlotTypes
<1>2. PICK rest \in Seq(Item) : rest = Tail(inbox[cl[i]])
  BY <1>1, TailIs
<1>3. <<>> \in Seq(Item) /\ <<"rest">> \o rest \in Seq(Item)
  BY <1>2 DEF Item
<1>4. QED
  BY <1>1, <1>2, <1>3, ZenonT(60) DEF SlotTypes, Reads, Drops

\* One call of serv_recv().
LEMMA ReceivesIs ==
  ASSUME SlotTypes, Own, NEW got \in BOOLEAN, ServRecv(got)
  PROVE  /\ SlotTypes'
         /\ Own'
         /\ given' = given
         /\ \A i \in ClientNo : Kept(i) \/ Opened(i) \/ (Closed(i) /\ ~ got)
<1>1. CASE UNCHANGED <<sockets, account>>
  BY <1>1 DEF SlotTypes, Own, Kept, sockets, account
<1>2. CASE Refuses
  BY <1>2 DEF Refuses, SlotTypes, Own, Kept, account
<1>3. ASSUME NEW next \in [ClientNo -> Fd \cup {Vacant}], Admits(next),
             \/ Ready = {} /\ ~ got /\ cl' = next /\ UNCHANGED inbox
             \/ Ready # {} /\ Reads(Min(Ready), next, got)
      PROVE  /\ SlotTypes'
             /\ Own'
             /\ given' = given
             /\ \A i \in ClientNo : Kept(i) \/ Opened(i) \/ (Closed(i) /\ ~ got)
  <2>1. /\ calling' \in BOOLEAN
        /\ given' = given
        /\ sentOn' \in [Fd -> Seq(1 .. MaxGiven)]
        /\ since' \in [Fd -> 0 .. MaxGiven + 1]
    BY <1>3, AdmitsIs
  <2>2. ASSUME NEW i \in ClientNo
        PROVE  \/ /\ next[i] = cl[i]
                  /\ cl[i] # Vacant => sentOn'[i + 1] = sentOn[i + 1] /\ since'[i + 1] = since[i + 1]
               \/ /\ cl[i] = Vacant /\ next[i] = i + 1
                  /\ sentOn'[i + 1] = <<>> /\ since'[i + 1] = given + 1
    BY <1>3, AdmitsIs
  <2>3. /\ inbox' \in [Fd -> Seq(Item)]
        /\ \/ cl' = next
           \/ /\ ~ got
              /\ \E n \in ClientNo : cl[n] # Vacant /\ cl' = [next EXCEPT ![n] = Vacant]
    <3>1. CASE Ready = {}
      BY <1>3, <3>1 DEF SlotTypes
    <3>2. CASE Ready # {}
      BY <1>3, <3>2, OneReady, ReadsIs
    <3>3. QED
      BY <3>1, <3>2
  <2>4. cl' \in [ClientNo -> Fd \cup {Vacant}]
    BY <2>3
  <2>5. SlotTypes'
    BY <2>1, <2>3, <2>4 DEF SlotTypes
  <2>6. \A i \in ClientNo : Kept(i) \/ Opened(i) \/ (Closed(i) /\ ~ got)
    <3> TAKE i \in ClientNo
    <3>1. cl'[i] = next[i] \/ (~ got /\ cl[i] # Vacant /\ cl'[i] = Vacant)
      BY <2>3
    <3>2. QED
      BY <3>1, <2>2 DEF Kept, Opened, Closed
  <2>7. Own'
    BY <2>6 DEF Own, Kept, Opened, Closed
  <2>8. QED
    BY <2>1, <2>5, <2>6, <2>7
<1>4. QED
  BY <1>1, <1>2, <1>3 DEF ServRecv

-----------------------------------------------------------------------------
(* The inductive invariant.                                                *)

\* Where the handler is says which handler of which server it is.
Control ==
  /\ pc = "idle" <=> handler = "none"
  /\ pc = "recv" => handler = "timer"
  /\ pc \in {"do_send", "send"} => transport = "sctp"
  /\ pc \in {"next", "tx", "rx"} => transport = "tcp" /\ handler = "event" /\ given >= 1
  /\ pc = "send" => put_ptr # get_ptr

\* What a call has posted so far.
Posted ==
  /\ pc = "idle" => posts <= MAX_MSG_PER_TICK + 2 \/ posts <= clqty * PerClient
  /\ pc \in {"do_send", "send"} => posts = 0
  /\ pc = "recv" => posts <= MAX_MSG_PER_TICK + 1
  /\ pc = "next" => posts <= k * PerClient
  /\ pc = "tx" => posts <= k * PerClient + attempt * Quarter
  /\ pc = "rx" => /\ attempt >= 1 /\ rxcounter <= Quarter
                  /\ posts <= k * PerClient + (attempt - 1) * Quarter + rxcounter

\* serv_send()'s copy of the descriptor.
Copied ==
  /\ pc \in {"tx", "rx"} =>
       /\ k < clqty /\ sock = k + 1
       /\ half \subseteq {sock}
       /\ cl[k] = sock => (part = "rest" <=> sock \in half)
       /\ cl[k] = Vacant => half = {}
  /\ pc = "rx" => cl[k] = sock
  /\ pc \notin {"tx", "rx"} => half = {}

\* The next message for a connection that has got these is m; for a connection
\* that has got none it is one that may be the first.
NextIs(m, got, first, excused) ==
  /\ got = <<>> => first >= m \/ excused
  /\ got # <<>> => got[Len(got)] = m - 1

Due(fd, m) == NextIs(m, sentOn[fd], since[fd], lapsed)

\* serv_send() has sent the message to the slots before k.
TcpDue == transport = "tcp" => \A i \in ClientNo : cl[i] # Vacant =>
  /\ pc \in {"next", "tx", "rx"} /\ i >= k => Due(cl[i], given)
  /\ pc \notin {"next", "tx", "rx"} \/ i < k => Due(cl[i], given + 1)

\* The last n messages are in the FIFO.
InFifo(n) ==
  /\ put_ptr = get_ptr + n \/ put_ptr = get_ptr + n - SCTP_FIFO_SIZE
  /\ \A p \in Place, q \in 0 .. n - 1 :
       p = get_ptr + q \/ p = get_ptr + q - SCTP_FIFO_SIZE => txbuffer[p] = given - n + 1 + q

At == IF pc = "send" THEN j ELSE client_id_to_start_with

\* The first of them has been sent to the slots before At.
ClientsDue(n) ==
  /\ n = 0 /\ At # 0 => lapsed
  /\ \A i \in ClientNo : cl[i] # Vacant =>
       /\ i >= At => Due(cl[i], given - n + 1)
       /\ i < At => Due(cl[i], given - n + 2)

SctpDue == transport = "sctp" => \E n \in 0 .. SCTP_FIFO_SIZE - 1 :
  n <= given /\ InFifo(n) /\ ClientsDue(n)

IInv == TypeOK /\ Own /\ Control /\ Posted /\ Copied /\ TcpDue /\ SctpDue

-----------------------------------------------------------------------------
(* The slots are kept in order. *)

\* The message at the head of the FIFO.
LEMMA HeadIs ==
  ASSUME TypeOK, NEW n \in 0 .. SCTP_FIFO_SIZE - 1, n <= given, InFifo(n), put_ptr # get_ptr
  PROVE  n >= 1 /\ txbuffer[get_ptr] = given - n + 1
<1>1. get_ptr \in Place /\ put_ptr \in Place /\ get_ptr \in Nat /\ put_ptr \in Nat
  BY Constants DEF TypeOK, SctpTypeOK, Place
<1>2. n >= 1
  BY <1>1, Constants DEF InFifo, Place
<1>3. 0 \in 0 .. n - 1 /\ get_ptr = get_ptr + 0
  BY <1>1, <1>2, Constants
<1>4. txbuffer[get_ptr] = given - n + 1 + 0
  BY <1>1, <1>3 DEF InFifo
<1>5. given \in Nat /\ n \in Nat
  BY Constants DEF TypeOK
<1>6. QED
  BY <1>2, <1>4, <1>5

LEMMA HeadTyped ==
  ASSUME IInv, pc = "send"
  PROVE  txbuffer[get_ptr] \in 1 .. MaxGiven
<1>1. transport = "sctp" /\ put_ptr # get_ptr
  BY DEF IInv, Control
<1>2. PICK n \in 0 .. SCTP_FIFO_SIZE - 1 : n <= given /\ InFifo(n)
  BY <1>1 DEF IInv, SctpDue
<1>3. n >= 1 /\ txbuffer[get_ptr] = given - n + 1
  BY <1>1, <1>2, HeadIs DEF IInv
<1>4. given \in Nat /\ given <= MaxGiven /\ n \in Nat
  BY Constants DEF IInv, TypeOK
<1>5. QED
  BY <1>2, <1>3, <1>4, Constants

LEMMA SlotsUntouched ==
  ASSUME SlotTypes, Own, UNCHANGED <<sockets, account>>
  PROVE  SlotTypes' /\ Own' /\ given' = given /\ \A i \in ClientNo : Kept(i)
BY DEF SlotTypes, Own, Kept, sockets, account

LEMMA DropsIs ==
  ASSUME SlotTypes, Own, NEW s \in ClientNo, cl[s] # Vacant, Drops(s, cl), UNCHANGED <<calling, account>>
  PROVE  /\ SlotTypes' /\ Own' /\ given' = given
         /\ cl' = [cl EXCEPT ![s] = Vacant]
         /\ \A i \in ClientNo : Kept(i) \/ Closed(i)
<1>1. <<>> \in Seq(Item) /\ Vacant \in Fd \cup {Vacant}
  OBVIOUS
<1>2. SlotTypes'
  BY <1>1 DEF SlotTypes, Drops, account
<1>3. cl' = [cl EXCEPT ![s] = Vacant] /\ given' = given
  BY DEF Drops, account
<1>4. \A i \in ClientNo : Kept(i) \/ Closed(i)
  BY <1>3 DEF SlotTypes, Kept, Closed, account
<1>5. Own'
  BY <1>3 DEF Own, SlotTypes
<1>6. QED
  BY <1>2, <1>3, <1>4, <1>5

\* A message has gone to the client in slot s.
LEMMA SentIs ==
  ASSUME SlotTypes, Own, NEW s \in ClientNo, cl[s] # Vacant, NEW m \in 1 .. MaxGiven,
         HasSent(cl[s], m), UNCHANGED sockets
  PROVE  /\ SlotTypes' /\ Own' /\ given' = given
         /\ \A i \in ClientNo : i # s => Kept(i)
         /\ cl'[s] = cl[s]
         /\ sentOn' = [sentOn EXCEPT ![cl[s]] = Append(@, m)]
<1>1. cl[s] \in Fd /\ sentOn[cl[s]] \in Seq(1 .. MaxGiven)
  BY DEF SlotTypes
<1>2. Append(sentOn[cl[s]], m) \in Seq(1 .. MaxGiven) /\ 0 \in 0 .. MaxGiven + 1
  BY <1>1, Constants
<1>3. /\ sentOn' = [sentOn EXCEPT ![cl[s]] = Append(@, m)]
      /\ since' = [since EXCEPT ![cl[s]] = 0]
      /\ given' = given
  BY DEF HasSent
<1>4. SlotTypes' /\ Own'
  BY <1>1, <1>2, <1>3 DEF SlotTypes, Own, sockets
<1>5. ASSUME NEW i \in ClientNo, i # s PROVE Kept(i)
  <2>1. CASE cl[i] = Vacant
    BY <2>1 DEF Kept, sockets
  <2>2. CASE cl[i] # Vacant
    <3>1. cl[s] = s + 1 /\ cl[i] = i + 1
      BY <2>2 DEF Own
    <3>2. i + 1 # s + 1 /\ i + 1 \in Fd
      BY <1>5, Constants DEF ClientNo, Fd
    <3>3. QED
      BY <1>3, <3>1, <3>2 DEF Kept, sockets, SlotTypes
  <2>3. QED
    BY <2>1, <2>2
<1>6. QED
  BY <1>3, <1>4, <1>5 DEF sockets

-----------------------------------------------------------------------------
(* Types. *)

HandlerTypes ==
  /\ pc \in {"idle", "recv", "do_send", "send", "next", "tx", "rx"}
  /\ handler \in {"none", "timer", "event"}
  /\ posts \in Nat

LEMMA TypeParts ==
  /\ TypeOK <=> SlotTypes /\ HandlerTypes /\ SctpTypeOK /\ TcpTypeOK /\ transport \in {"sctp", "tcp"}
  /\ TypeOK' <=> SlotTypes' /\ HandlerTypes' /\ SctpTypeOK' /\ TcpTypeOK' /\ transport' \in {"sctp", "tcp"}
BY DEF TypeOK, SlotTypes, HandlerTypes

LEMMA TimerRecvTyped ==
  ASSUME IInv, TimerRecv
  PROVE  SlotTypes' /\ Own' /\ HandlerTypes'
<1>1. SlotTypes /\ HandlerTypes /\ Own
  BY TypeParts DEF IInv
<1>2. PICK got \in BOOLEAN :
        /\ ServRecv(got)
        /\ posts' = IF got THEN posts + 1 ELSE posts
        /\ IF got /\ ~ LastPass
           THEN UNCHANGED <<pc, handler>>
           ELSE pc' = "idle" /\ handler' = "none"
  BY DEF TimerRecv
<1>3. SlotTypes' /\ Own'
  BY <1>1, <1>2, ReceivesIs
<1>4. HandlerTypes'
  BY <1>1, <1>2 DEF HandlerTypes
<1>5. QED
  BY <1>3, <1>4

LEMMA SctpRunsTyped ==
  ASSUME IInv, SctpRuns
  PROVE  SlotTypes' /\ Own' /\ HandlerTypes' /\ SctpTypeOK'
<1>1. SlotTypes /\ HandlerTypes /\ SctpTypeOK /\ Own
  BY TypeParts DEF IInv
<1>0. 0 \in 0 .. clqty /\ ClientNo \subseteq 0 .. clqty
  BY Constants DEF ClientNo
<1>2. CASE SctpTimer
  <2>1. SlotTypes' /\ Own'
    BY <1>1, <1>2, SlotsUntouched DEF SctpTimer
  <2>2. HandlerTypes'
    BY <1>1, <1>2 DEF SctpTimer, Begins, HandlerTypes, SctpTypeOK, sctpVars, fifo
  <2>2a. SctpTypeOK'
    BY <1>1, <1>0, <1>2 DEF SctpTimer, Begins, HandlerTypes, SctpTypeOK, sctpVars, fifo
  <2>3. QED
    BY <2>1, <2>2, <2>2a
<1>3. CASE DoSendNothing
  <2>1. SlotTypes' /\ Own'
    BY <1>1, <1>3, SlotsUntouched DEF DoSendNothing
  <2>2. HandlerTypes'
    BY <1>1, <1>3, Constants DEF DoSendNothing, LoopEnds, HandlerTypes, SctpTypeOK, fifo
  <2>2a. SctpTypeOK'
    BY <1>1, <1>0, <1>3, Constants DEF DoSendNothing, LoopEnds, HandlerTypes, SctpTypeOK, fifo
  <2>3. QED
    BY <2>1, <2>2, <2>2a
<1>4. CASE DoSendStarts
  <2>1. SlotTypes' /\ Own'
    BY <1>1, <1>4, SlotsUntouched DEF DoSendStarts
  <2>2. HandlerTypes'
    BY <1>1, <1>4, Constants DEF DoSendStarts, HandlerTypes, SctpTypeOK, fifo, ClientNo
  <2>2a. SctpTypeOK'
    BY <1>1, <1>0, <1>4, Constants DEF DoSendStarts, HandlerTypes, SctpTypeOK, fifo, ClientNo
  <2>3. QED
    BY <2>1, <2>2, <2>2a
<1>5. CASE SendSkips
  <2>1. SlotTypes' /\ Own'
    BY <1>1, <1>5, SlotsUntouched DEF SendSkips, control
  <2>2. HandlerTypes'
    BY <1>1, <1>5, Constants DEF SendSkips, HandlerTypes, SctpTypeOK, fifo, control
  <2>2a. SctpTypeOK'
    BY <1>1, <1>0, <1>5, Constants DEF SendSkips, HandlerTypes, SctpTypeOK, fifo, control
  <2>3. QED
    BY <2>1, <2>2, <2>2a
<1>6. CASE SendOk
  <2>1. j \in ClientNo /\ cl[j] # Vacant /\ pc = "send"
    BY <1>1, <1>6, Constants DEF SendOk, AtClient, SctpTypeOK, ClientNo
  <2>2. SlotTypes' /\ Own'
    BY <1>1, <1>6, <2>1, HeadTyped, SentIs DEF SendOk
  <2>3. HandlerTypes'
    BY <1>1, <1>6, <2>1, Constants DEF SendOk, HandlerTypes, SctpTypeOK, fifo, control, ClientNo
  <2>3a. SctpTypeOK'
    BY <1>1, <1>0, <1>6, <2>1, Constants DEF SendOk, HandlerTypes, SctpTypeOK, fifo, control, ClientNo
  <2>4. QED
    BY <2>2, <2>3, <2>3a
<1>7. CASE SendAgain
  <2>1. SlotTypes' /\ Own'
    BY <1>1, <1>7, SlotsUntouched DEF SendAgain
  <2>2. j \in ClientNo
    BY <1>1, <1>7, Constants DEF SendAgain, AtClient, SctpTypeOK, ClientNo
  <2>3. HandlerTypes'
    BY <1>1, <1>7, <2>2, Constants DEF SendAgain, LoopEnds, HandlerTypes, SctpTypeOK, fifo
  <2>3a. SctpTypeOK'
    BY <1>1, <1>0, <1>7, <2>2, Constants DEF SendAgain, LoopEnds, HandlerTypes, SctpTypeOK, fifo
  <2>4. QED
    BY <2>1, <2>3, <2>3a
<1>8. CASE SendFails
  <2>1. j \in ClientNo /\ cl[j] # Vacant
    BY <1>1, <1>8, Constants DEF SendFails, AtClient, SctpTypeOK, ClientNo
  <2>2. SlotTypes' /\ Own'
    BY <1>1, <1>8, <2>1, DropsIs DEF SendFails
  <2>3. HandlerTypes'
    BY <1>1, <1>8, <2>1, Constants DEF SendFails, HandlerTypes, SctpTypeOK, fifo, control, ClientNo
  <2>3a. SctpTypeOK'
    BY <1>1, <1>0, <1>8, <2>1, Constants DEF SendFails, HandlerTypes, SctpTypeOK, fifo, control, ClientNo
  <2>4. QED
    BY <2>2, <2>3, <2>3a
<1>9. CASE SendDone
  <2>1. SlotTypes' /\ Own'
    BY <1>1, <1>9, SlotsUntouched DEF SendDone
  <2>2. 0 \in ClientNo /\ NextPlace(get_ptr) \in Place
    BY <1>1, Constants, NextPlaceIs DEF ClientNo, SctpTypeOK
  <2>3. HandlerTypes'
    BY <1>1, <1>9, <2>2, Constants DEF SendDone, LoopEnds, HandlerTypes, SctpTypeOK
  <2>3a. SctpTypeOK'
    BY <1>1, <1>0, <1>9, <2>2, Constants DEF SendDone, LoopEnds, HandlerTypes, SctpTypeOK
  <2>4. QED
    BY <2>1, <2>3, <2>3a
<1>10. CASE TimerRecv /\ UNCHANGED sctpVars
  BY <1>1, <1>10, TimerRecvTyped DEF SctpTypeOK, sctpVars, fifo
<1>11. QED
  BY <1>2, <1>3, <1>4, <1>5, <1>6, <1>7, <1>8, <1>9, <1>10 DEF SctpRuns

LEMMA SctpEventTyped ==
  ASSUME IInv, SctpEvent
  PROVE  SlotTypes' /\ Own' /\ HandlerTypes' /\ SctpTypeOK'
<1>1. SlotTypes /\ HandlerTypes /\ SctpTypeOK /\ Own
  BY TypeParts DEF IInv
<1>2. given' = given + 1 /\ given + 1 \in 0 .. MaxGiven
  BY <1>1, Constants DEF SctpEvent, SlotTypes
<1>3. HandlerTypes'
  BY <1>1 DEF SctpEvent, Begins, HandlerTypes
<1>4. NextPlace(put_ptr) \in Place
  BY <1>1, NextPlaceIs DEF SctpTypeOK
<1>5. SctpTypeOK'
  BY <1>1, <1>2, <1>4 DEF SctpEvent, SctpTypeOK
<1>6. /\ cl' = [i \in ClientNo |-> Vacant] \/ cl' = cl
      /\ inbox' = [fd \in Fd |-> <<>>] \/ inbox' = inbox
  BY DEF SctpEvent
<1>6a. <<>> \in Seq(Item)
  OBVIOUS
<1>7. SlotTypes'
  BY <1>1, <1>2, <1>6, <1>6a DEF SctpEvent, SlotTypes
<1>8. Own'
  BY <1>1, <1>6 DEF Own
<1>9. QED
  BY <1>3, <1>5, <1>7, <1>8

\* serv_send()'s receiving in between.
LEMMA TxReceivesIs ==
  ASSUME IInv, TxReceives
  PROVE  \E got \in BOOLEAN :
           /\ ServRecv(got)
           /\ \/ got /\ rxcounter < Quarter /\ posts' = posts + 1 /\ pc' = "rx" /\ rxcounter' = rxcounter + 1
              \/ got /\ rxcounter >= Quarter /\ posts' = posts /\ pc' = "tx" /\ rxcounter' = rxcounter + 1
              \/ ~ got /\ posts' = posts /\ pc' = "tx" /\ rxcounter' = rxcounter
<1>1. rxcounter \in Nat
  BY Constants DEF IInv, TypeOK, TcpTypeOK, Quarter
<1>2. PICK got \in BOOLEAN :
        /\ ServRecv(got)
        /\ IF got /\ rxcounter < Quarter
           THEN posts' = posts + 1 /\ UNCHANGED pc
           ELSE pc' = "tx" /\ UNCHANGED posts
        /\ rxcounter' = IF got THEN rxcounter + 1 ELSE rxcounter
  BY DEF TxReceives, Quarter
<1>3. pc = "rx"
  BY DEF TxReceives
<1>4. QED
  BY <1>1, <1>2, <1>3, Constants

LEMMA TcpRunsTyped ==
  ASSUME IInv, TcpRuns
  PROVE  SlotTypes' /\ Own' /\ HandlerTypes' /\ TcpTypeOK'
<1>1. SlotTypes /\ HandlerTypes /\ TcpTypeOK /\ Own /\ Control /\ Posted /\ Copied
  BY TypeParts DEF IInv
<1>2. /\ 0 \in 0 .. clqty
      /\ MAX_MSG_PER_TICK \div 4 = Quarter
      /\ 0 \in 0 .. Quarter + 1 /\ 0 \in 0 .. Attempts
      /\ k \in Nat /\ k \in 0 .. clqty
      /\ k < clqty => k + 1 \in 0 .. clqty /\ k \in ClientNo
  BY <1>1, Constants DEF Quarter, ClientNo, TcpTypeOK
<1>3. CASE TcpTimer
  <2>1. SlotTypes' /\ Own'
    BY <1>1, <1>3, SlotsUntouched DEF TcpTimer
  <2>2. HandlerTypes'
    BY <1>1, <1>3 DEF TcpTimer, Begins, HandlerTypes
  <2>3. TcpTypeOK'
    BY <1>1, <1>3 DEF TcpTimer, TcpTypeOK, tcpVars
  <2>4. QED
    BY <2>1, <2>2, <2>3
<1>4. CASE TcpSkips
  <2>1. SlotTypes' /\ Own'
    BY <1>1, <1>4, SlotsUntouched DEF TcpSkips
  <2>2. HandlerTypes'
    BY <1>1, <1>4 DEF TcpSkips, control, HandlerTypes
  <2>3. TcpTypeOK'
    BY <1>1, <1>2, <1>4 DEF TcpSkips, TcpTypeOK
  <2>4. QED
    BY <2>1, <2>2, <2>3
<1>5. CASE TcpClient
  <2>1. SlotTypes' /\ Own'
    BY <1>1, <1>5, SlotsUntouched DEF TcpClient
  <2>2. HandlerTypes'
    BY <1>1, <1>5 DEF TcpClient, HandlerTypes
  <2>3. cl[k] \in Fd
    BY <1>1, <1>2, <1>5 DEF TcpClient, SlotTypes
  <2>4. TcpTypeOK'
    BY <1>1, <1>2, <1>5, <2>3 DEF TcpClient, TcpTypeOK
  <2>5. QED
    BY <2>1, <2>2, <2>4
<1>6. CASE TcpEnds
  <2>1. SlotTypes' /\ Own'
    BY <1>1, <1>6, SlotsUntouched DEF TcpEnds
  <2>2. HandlerTypes'
    BY <1>1, <1>6 DEF TcpEnds, HandlerTypes
  <2>3. TcpTypeOK'
    BY <1>1, <1>2, <1>6 DEF TcpEnds, TcpTypeOK
  <2>4. QED
    BY <2>1, <2>2, <2>3
<1>7. CASE TxOk
  <2>1. /\ pc = "tx" /\ k \in ClientNo /\ sock = k + 1 /\ half \subseteq {sock}
        /\ given \in 1 .. MaxGiven
    BY <1>1, <1>2, <1>7, Constants DEF TxOk, Copied, Control, SlotTypes
  <2>2. cl[k] = sock /\ cl[k] # Vacant
    BY <1>1, <1>7, <2>1, Constants DEF TxOk, Own, Open, ClientNo, Vacant
  <2>3. SlotTypes' /\ Own'
    BY <1>1, <1>7, <2>1, <2>2, SentIs DEF TxOk
  <2>4. HandlerTypes'
    BY <1>1, <1>7 DEF TxOk, NextClient, HandlerTypes
  <2>5. k + 1 \in 0 .. clqty /\ half \ {sock} \subseteq Fd
    BY <1>1, <2>1, Constants DEF ClientNo, TcpTypeOK
  <2>6. TcpTypeOK'
    BY <1>1, <1>2, <1>7, <2>5 DEF TxOk, NextClient, TcpTypeOK
  <2>7. QED
    BY <2>3, <2>4, <2>6
<1>8. CASE TxIncomplete
  <2>1. SlotTypes' /\ Own'
    BY <1>1, <1>8, SlotsUntouched DEF TxIncomplete
  <2>2. HandlerTypes'
    BY <1>1, <1>8 DEF TxIncomplete, control, HandlerTypes
  <2>3. half' \subseteq Fd
    BY <1>1, <1>8 DEF TxIncomplete, TcpTypeOK, Open, SlotTypes
  <2>4. TcpTypeOK'
    BY <1>1, <1>8, <2>3 DEF TxIncomplete, TcpTypeOK
  <2>5. QED
    BY <2>1, <2>2, <2>4
<1>9. CASE TxInterrupted
  <2>1. SlotTypes' /\ Own'
    BY <1>1, <1>9, SlotsUntouched DEF TxInterrupted
  <2>2. HandlerTypes'
    BY <1>1, <1>9 DEF TxInterrupted, HandlerTypes
  <2>3. attempt + 1 \in 0 .. Attempts
    BY <1>1, <1>9, Constants DEF TxInterrupted, TcpTypeOK
  <2>4. TcpTypeOK'
    BY <1>1, <1>2, <1>9, <2>3 DEF TxInterrupted, TcpTypeOK
  <2>5. QED
    BY <2>1, <2>2, <2>4
<1>10. CASE TxFails
  <2>1. pc = "tx" /\ k \in ClientNo
    BY <1>1, <1>2, <1>10 DEF TxFails, Copied
  <2>2. SlotTypes' /\ Own'
    <3>1. CASE cl[k] = Vacant
      BY <1>1, <1>10, <3>1, SlotsUntouched DEF TxFails, sockets
    <3>2. CASE cl[k] # Vacant
      BY <1>1, <1>10, <2>1, <3>2, DropsIs DEF TxFails
    <3>3. QED
      BY <3>1, <3>2
  <2>3. HandlerTypes'
    BY <1>1, <1>10 DEF TxFails, NextClient, HandlerTypes
  <2>4. k + 1 \in 0 .. clqty
    BY <2>1, Constants DEF ClientNo
  <2>5. TcpTypeOK'
    BY <1>1, <1>2, <1>10, <2>4 DEF TxFails, NextClient, TcpTypeOK
  <2>6. QED
    BY <2>2, <2>3, <2>5
<1>11. CASE TxReceives
  <2>1. PICK got \in BOOLEAN :
           /\ ServRecv(got)
           /\ \/ got /\ rxcounter < Quarter /\ posts' = posts + 1 /\ pc' = "rx" /\ rxcounter' = rxcounter + 1
              \/ got /\ rxcounter >= Quarter /\ posts' = posts /\ pc' = "tx" /\ rxcounter' = rxcounter + 1
              \/ ~ got /\ posts' = posts /\ pc' = "tx" /\ rxcounter' = rxcounter
    BY <1>11, TxReceivesIs
  <2>2. SlotTypes' /\ Own'
    BY <1>1, <2>1, ReceivesIs
  <2>3. HandlerTypes'
    BY <1>1, <1>11, <2>1 DEF TxReceives, HandlerTypes
  <2>4. rxcounter' \in 0 .. Quarter + 1
    BY <1>1, <1>2, <1>11, <2>1, Constants DEF TxReceives, Posted, TcpTypeOK
  <2>5. half' \subseteq half
    BY <1>11 DEF TxReceives
  <2>6. TcpTypeOK'
    BY <1>1, <1>2, <1>11, <2>4, <2>5 DEF TxReceives, TcpTypeOK
  <2>7. QED
    BY <2>2, <2>3, <2>6
<1>12. CASE TimerRecv /\ UNCHANGED tcpVars
  BY <1>1, <1>12, TimerRecvTyped DEF TcpTypeOK, tcpVars
<1>13. QED
  BY <1>3, <1>4, <1>5, <1>6, <1>7, <1>8, <1>9, <1>10, <1>11, <1>12 DEF TcpRuns

LEMMA TcpEventTyped ==
  ASSUME IInv, TcpEvent
  PROVE  SlotTypes' /\ Own' /\ HandlerTypes' /\ TcpTypeOK'
<1>1. SlotTypes /\ HandlerTypes /\ TcpTypeOK /\ Own
  BY TypeParts DEF IInv
<1>2. given' = given + 1 /\ given + 1 \in 0 .. MaxGiven /\ 0 \in 0 .. clqty
  BY <1>1, Constants DEF TcpEvent, SlotTypes
<1>3. SlotTypes' /\ Own'
  BY <1>1, <1>2 DEF TcpEvent, SlotTypes, Own, sockets
<1>4. HandlerTypes'
  BY <1>1 DEF TcpEvent, Begins, HandlerTypes
<1>5. TcpTypeOK'
  BY <1>1, <1>2 DEF TcpEvent, TcpTypeOK
<1>6. QED
  BY <1>3, <1>4, <1>5

\* The ASPs.
LEMMA AspsAre ==
  ASSUME SlotTypes, Own, Asps
  PROVE  /\ SlotTypes' /\ Own' /\ given' = given
         /\ cl' = cl /\ UNCHANGED <<control, account>>
         /\ \A i \in ClientNo : Kept(i)
<1>1. CASE Calls
  BY <1>1 DEF Calls, SlotTypes, Own, account, control, Kept
<1>2. ASSUME NEW fd \in Fd, NEW item \in Item, AspSends(fd, item)
      PROVE  /\ SlotTypes' /\ Own' /\ given' = given
             /\ cl' = cl /\ UNCHANGED <<control, account>>
             /\ \A i \in ClientNo : Kept(i)
  <2>1. Append(inbox[fd], item) \in Seq(Item)
    BY DEF SlotTypes
  <2>2. SlotTypes'
    BY <1>2, <2>1 DEF AspSends, SlotTypes, account
  <2>3. QED
    BY <1>2, <2>2 DEF AspSends, Own, account, control, Kept
<1>3. QED
  BY <1>1, <1>2 DEF Asps

LEMMA NextTyped ==
  ASSUME IInv, [Next]_serverVars
  PROVE  TypeOK' /\ Own'
<1>1. SlotTypes /\ HandlerTypes /\ SctpTypeOK /\ TcpTypeOK /\ transport \in {"sctp", "tcp"} /\ Own
  BY TypeParts DEF IInv
<1>2. CASE SctpRun
  <2>1. TcpTypeOK' /\ transport' \in {"sctp", "tcp"}
    BY <1>1, <1>2 DEF SctpRun, TcpTypeOK, tcpVars
  <2>2. QED
    BY <1>2, <2>1, SctpRunsTyped, TypeParts DEF SctpRun
<1>3. CASE TcpRun
  <2>1. SctpTypeOK' /\ transport' \in {"sctp", "tcp"}
    BY <1>1, <1>3 DEF TcpRun, SctpTypeOK, sctpVars, fifo, SlotTypes
  <2>2. QED
    BY <1>3, <2>1, TcpRunsTyped, TypeParts DEF TcpRun
<1>4. CASE Given
  <2>1. CASE SctpEvent /\ UNCHANGED <<tcpVars, transport>>
    <3>1. TcpTypeOK' /\ transport' \in {"sctp", "tcp"}
      BY <1>1, <2>1 DEF TcpTypeOK, tcpVars
    <3>2. QED
      BY <2>1, <3>1, SctpEventTyped, TypeParts
  <2>2. CASE TcpEvent /\ UNCHANGED <<sctpVars, transport>>
    <3>1. SctpTypeOK' /\ transport' \in {"sctp", "tcp"}
      BY <1>1, <2>2 DEF SctpTypeOK, sctpVars, fifo
    <3>2. QED
      BY <2>2, <3>1, TcpEventTyped, TypeParts
  <2>3. QED
    BY <1>4, <2>1, <2>2 DEF Given
<1>5. CASE Asps /\ UNCHANGED <<sctpVars, tcpVars, transport>>
  <2>1. SlotTypes' /\ Own' /\ UNCHANGED control
    BY <1>1, <1>5, AspsAre
  <2>2. HandlerTypes' /\ SctpTypeOK' /\ TcpTypeOK' /\ transport' \in {"sctp", "tcp"}
    BY <1>1, <1>5, <2>1 DEF HandlerTypes, SctpTypeOK, TcpTypeOK, control, sctpVars, fifo, tcpVars
  <2>3. QED
    BY <2>1, <2>2, TypeParts
<1>6. CASE UNCHANGED serverVars
  <2>1. SlotTypes' /\ Own'
    BY <1>1, <1>6, SlotsUntouched DEF serverVars, slotVars
  <2>2. HandlerTypes' /\ SctpTypeOK' /\ TcpTypeOK' /\ transport' \in {"sctp", "tcp"}
    BY <1>1, <1>6 DEF serverVars, slotVars, HandlerTypes, SctpTypeOK, TcpTypeOK, control, sctpVars, fifo, tcpVars
  <2>3. QED
    BY <2>1, <2>2, TypeParts
<1>7. QED
  BY <1>2, <1>3, <1>4, <1>5, <1>6 DEF Next

-----------------------------------------------------------------------------
(* Control, and what is posted. *)

LEMMA NextControl ==
  ASSUME IInv, [Next]_serverVars
  PROVE  Control'
<1>1. SlotTypes /\ HandlerTypes /\ SctpTypeOK /\ TcpTypeOK /\ Own /\ Control
  BY TypeParts DEF IInv
<1>2. given \in Nat
  BY <1>1, Constants DEF SlotTypes
<1>3. CASE SctpRun
  <2>1. /\ transport = "sctp" /\ transport' = "sctp"
        /\ SctpRuns
    BY <1>3 DEF SctpRun
  <2>2. CASE SctpTimer
    BY <1>1, <2>1, <2>2 DEF SctpTimer, Begins, Control
  <2>3. CASE DoSendNothing \/ SendAgain
    BY <1>1, <2>1, <2>3 DEF DoSendNothing, SendAgain, AtClient, LoopEnds, Control, HandlerTypes
  <2>4. CASE DoSendStarts
    BY <1>1, <2>1, <2>4 DEF DoSendStarts, Control, fifo
  <2>5. CASE SendSkips \/ SendOk \/ SendFails
    BY <1>1, <2>1, <2>5 DEF SendSkips, SendOk, SendFails, AtClient, control, Control, fifo
  <2>6. CASE SendDone
    BY <1>1, <2>1, <2>6 DEF SendDone, LoopEnds, Control, HandlerTypes
  <2>7. CASE TimerRecv
    BY <1>1, <2>1, <2>7 DEF TimerRecv, Control
  <2>8. QED
    BY <2>1, <2>2, <2>3, <2>4, <2>5, <2>6, <2>7 DEF SctpRuns
<1>4. CASE TcpRun
  <2>1. /\ transport = "tcp" /\ transport' = "tcp"
        /\ TcpRuns
    BY <1>4 DEF TcpRun
  <2>2. CASE TcpTimer
    BY <1>1, <2>1, <2>2 DEF TcpTimer, Begins, Control
  <2>3. CASE TcpSkips \/ TcpClient \/ TcpEnds \/ TxIncomplete \/ TxInterrupted
    BY <1>1, <2>1, <2>3
    DEF TcpSkips, TcpClient, TcpEnds, TxIncomplete, TxInterrupted, Control, control, account
  <2>4. CASE TxOk \/ TxFails
    BY <1>1, <2>1, <2>4 DEF TxOk, TxFails, NextClient, HasSent, Control, account
  <2>5. CASE TxReceives
    <3>1. \E got \in BOOLEAN : ServRecv(got) /\ (pc' = "rx" \/ pc' = "tx")
      BY <2>5, TxReceivesIs
    <3>2. given' = given
      BY <1>1, <3>1, ReceivesIs
    <3>3. QED
      BY <1>1, <2>1, <2>5, <3>1, <3>2 DEF TxReceives, Control
  <2>6. CASE TimerRecv
    BY <1>1, <2>1, <2>6 DEF TimerRecv, Control
  <2>7. QED
    BY <2>1, <2>2, <2>3, <2>4, <2>5, <2>6 DEF TcpRuns
<1>5. CASE Given
  <2>1. CASE transport = "sctp" /\ SctpEvent /\ UNCHANGED <<tcpVars, transport>>
    BY <1>1, <2>1 DEF SctpEvent, Begins, Control
  <2>2. CASE transport = "tcp" /\ TcpEvent /\ UNCHANGED <<sctpVars, transport>>
    BY <1>1, <1>2, <2>2 DEF TcpEvent, Begins, Control
  <2>3. QED
    BY <1>5, <2>1, <2>2 DEF Given
<1>6. CASE Asps /\ UNCHANGED <<sctpVars, tcpVars, transport>>
  BY <1>1, <1>6, AspsAre DEF Control, control, sctpVars, fifo
<1>7. CASE UNCHANGED serverVars
  BY <1>1, <1>7 DEF serverVars, slotVars, control, account, sctpVars, fifo, Control
<1>8. QED
  BY <1>3, <1>4, <1>5, <1>6, <1>7 DEF Next

LEMMA Products ==
  ASSUME NEW a \in Nat, NEW b \in Nat
  PROVE  /\ a * b \in Nat
         /\ (a + 1) * b = a * b + b
         /\ a >= 1 => (a - 1) * b \in Nat /\ (a - 1) * b + b = a * b
         /\ \A c \in Nat : c <= a => c * b \in Nat /\ c * b <= a * b
OBVIOUS

LEMMA NextPosted ==
  ASSUME IInv, [Next]_serverVars
  PROVE  Posted'
<1>1. SlotTypes /\ HandlerTypes /\ SctpTypeOK /\ TcpTypeOK /\ Own /\ Control /\ Posted
  BY TypeParts DEF IInv
<1>2. posts \in Nat /\ k \in Nat /\ attempt \in Nat /\ attempt <= Attempts /\ rxcounter \in Nat
  BY <1>1, Constants DEF HandlerTypes, TcpTypeOK, Quarter
<1>3. PICK kP \in Nat, aQ \in Nat :
        /\ kP = k * PerClient
        /\ (k + 1) * PerClient = kP + PerClient
        /\ aQ = attempt * Quarter
        /\ aQ <= PerClient
        /\ attempt >= 1 => (attempt - 1) * Quarter \in Nat /\ (attempt - 1) * Quarter + Quarter = aQ
        /\ (attempt + 1 - 1) * Quarter = aQ
  <2>1. k * PerClient \in Nat /\ (k + 1) * PerClient = k * PerClient + PerClient
    BY <1>2, Constants, Products
  <2>2. attempt * Quarter \in Nat /\ attempt * Quarter <= PerClient
    BY <1>2, Constants, Products DEF PerClient
  <2>3. attempt >= 1 => (attempt - 1) * Quarter \in Nat /\ (attempt - 1) * Quarter + Quarter = attempt * Quarter
    BY <1>2, Constants, Products
  <2>4. attempt + 1 - 1 = attempt
    BY <1>2
  <2>5. QED
    BY <2>1, <2>2, <2>3, <2>4
<1>4. CASE SctpRuns \/ TimerRecv
  <2>1. CASE TimerRecv
    <3>1. /\ pc = "recv"
          /\ \/ posts' = posts /\ pc' = "idle"
             \/ posts' = posts + 1 /\ pc' = "idle"
             \/ posts' = posts + 1 /\ pc' = "recv" /\ ~ LastPass
      BY <2>1 DEF TimerRecv
    <3>2. QED
      BY <1>1, <1>2, <3>1, Constants DEF Posted, LastPass
  <2>2. CASE SctpTimer
    BY <2>2 DEF SctpTimer, Begins, Posted
  <2>3. CASE DoSendNothing \/ SendAgain
    BY <1>1, <2>3, Constants DEF DoSendNothing, SendAgain, AtClient, LoopEnds, Posted
  <2>4. CASE DoSendStarts
    BY <1>1, <2>4 DEF DoSendStarts, Posted
  <2>5. CASE SendSkips \/ SendOk \/ SendFails
    BY <1>1, <2>5 DEF SendSkips, SendOk, SendFails, AtClient, control, Posted
  <2>6. CASE SendDone
    BY <1>1, <2>6, Constants DEF SendDone, LoopEnds, Posted
  <2>7. QED
    BY <1>4, <2>1, <2>2, <2>3, <2>4, <2>5, <2>6 DEF SctpRuns
<1>5. CASE TcpRuns
  <2>1. CASE TcpTimer
    BY <2>1, Constants DEF TcpTimer, Begins, Posted
  <2>2. CASE TcpSkips
    <3>1. posts <= (k + 1) * PerClient
      BY <1>1, <1>2, <1>3, <2>2, Constants DEF TcpSkips, Posted
    <3>2. pc' = "next" /\ k' = k + 1 /\ posts' = posts
      BY <2>2 DEF TcpSkips, control
    <3>3. QED
      BY <3>1, <3>2 DEF Posted
  <2>3. CASE TcpClient
    <3>1. 0 * Quarter = 0 /\ posts <= k * PerClient /\ kP + 0 = kP
      BY <1>1, <2>3, Constants DEF TcpClient, Posted
    <3>2. pc' = "tx" /\ k' = k /\ posts' = posts /\ attempt' = 0
      BY <2>3 DEF TcpClient
    <3>3. QED
      BY <1>3, <3>1, <3>2 DEF Posted
  <2>4. CASE TcpEnds
    BY <1>1, <2>4 DEF TcpEnds, Posted
  <2>5. CASE TxOk \/ TxFails
    <3>1. posts <= kP + aQ
      BY <1>1, <1>3, <2>5 DEF TxOk, TxFails, Posted
    <3>2. posts <= (k + 1) * PerClient
      BY <1>2, <1>3, <3>1, Constants
    <3>3. pc' = "next" /\ k' = k + 1 /\ posts' = posts
      BY <2>5 DEF TxOk, TxFails, NextClient
    <3>4. QED
      BY <3>2, <3>3 DEF Posted
  <2>6. CASE TxIncomplete
    BY <1>1, <2>6 DEF TxIncomplete, Posted, control
  <2>7. CASE TxInterrupted
    <3>1. posts <= kP + aQ /\ kP + aQ + 0 = kP + aQ
      BY <1>1, <1>3, <2>7 DEF TxInterrupted, Posted
    <3>2. pc' = "rx" /\ k' = k /\ posts' = posts /\ attempt' = attempt + 1 /\ rxcounter' = 0
      BY <2>7 DEF TxInterrupted
    <3>3. attempt + 1 >= 1 /\ 0 <= Quarter
      BY <1>2, Constants
    <3>4. (attempt' - 1) * Quarter = aQ
      <4>1. attempt' - 1 = attempt
        BY <1>2, <3>2
      <4>2. QED
        BY <1>3, <4>1
    <3>5. posts' <= k' * PerClient + (attempt' - 1) * Quarter + rxcounter'
      BY <1>3, <3>1, <3>2, <3>4
    <3>6. QED
      BY <3>2, <3>3, <3>5 DEF Posted
  <2>8. CASE TxReceives
    <3>1. /\ k' = k /\ attempt' = attempt /\ pc = "rx"
          /\ \/ rxcounter < Quarter /\ posts' = posts + 1 /\ pc' = "rx" /\ rxcounter' = rxcounter + 1
             \/ posts' = posts /\ pc' = "tx"
      BY <2>8, TxReceivesIs DEF TxReceives
    <3>2. PICK less \in Nat : less = (attempt - 1) * Quarter /\ less + Quarter = aQ
      BY <1>1, <1>3, <3>1 DEF Posted
    <3>3. attempt >= 1 /\ rxcounter <= Quarter /\ posts <= kP + less + rxcounter
      BY <1>1, <1>3, <3>1, <3>2 DEF Posted
    <3>4. CASE rxcounter < Quarter /\ posts' = posts + 1 /\ pc' = "rx" /\ rxcounter' = rxcounter + 1
      <4>1. posts + 1 <= kP + less + (rxcounter + 1) /\ rxcounter + 1 <= Quarter
        BY <1>2, <3>3, <3>4, Constants
      <4>2. QED
        BY <1>3, <3>1, <3>2, <3>3, <3>4, <4>1 DEF Posted
    <3>5. CASE posts' = posts /\ pc' = "tx"
      <4>1. posts <= kP + aQ
        BY <1>2, <3>2, <3>3, Constants
      <4>2. QED
        BY <1>3, <3>1, <3>5, <4>1 DEF Posted
    <3>6. QED
      BY <3>1, <3>4, <3>5
  <2>9. QED
    BY <1>4, <1>5, <2>1, <2>2, <2>3, <2>4, <2>5, <2>6, <2>7, <2>8 DEF TcpRuns
<1>6. CASE Given
  <2>1. posts' = 0 /\ pc' \in {"do_send", "next"} /\ (pc' = "next" => k' = 0)
    BY <1>6 DEF Given, SctpEvent, TcpEvent, Begins
  <2>2. 0 * PerClient = 0
    BY Constants
  <2>3. QED
    BY <2>1, <2>2 DEF Posted
<1>7. CASE Asps /\ UNCHANGED <<sctpVars, tcpVars, transport>>
  BY <1>1, <1>7, AspsAre DEF Posted, control, tcpVars
<1>8. CASE UNCHANGED serverVars
  BY <1>1, <1>8 DEF serverVars, slotVars, control, tcpVars, Posted
<1>9. QED
  BY <1>4, <1>5, <1>6, <1>7, <1>8 DEF Next, SctpRun, TcpRun

-----------------------------------------------------------------------------
(* The copy of the descriptor. *)

LEMMA OpenIs ==
  ASSUME Own, NEW s \in ClientNo
  PROVE  s + 1 \in Open <=> cl[s] = s + 1
BY Constants DEF Own, Open, ClientNo, Vacant

LEMMA NextCopied ==
  ASSUME IInv, [Next]_serverVars
  PROVE  Copied'
<1>1. /\ SlotTypes /\ TcpTypeOK /\ Own /\ Control /\ Copied
      /\ Own' /\ Control'
  BY TypeParts, NextTyped, NextControl DEF IInv
<1>2. pc \in {"tx", "rx"} => k \in ClientNo /\ k + 1 # Vacant /\ cl[k] \in {Vacant, k + 1}
  BY <1>1, Constants DEF Copied, Own, ClientNo, TcpTypeOK, Vacant
<1>3. CASE transport' = "sctp" /\ UNCHANGED <<tcpVars, transport>>
  BY <1>1, <1>3 DEF Control, Copied, tcpVars
<1>4. CASE TcpRuns
  <2>1. CASE TcpTimer
    BY <1>1, <2>1 DEF TcpTimer, Begins, Copied, tcpVars
  <2>2. CASE TimerRecv /\ UNCHANGED tcpVars
    BY <1>1, <2>2 DEF TimerRecv, Copied, tcpVars
  <2>3. CASE TcpSkips \/ TcpEnds
    BY <1>1, <2>3 DEF TcpSkips, TcpEnds, Copied, control
  <2>4. CASE TcpClient
    <3>1. k < clqty /\ cl[k] = k + 1 /\ half = {} /\ k \in ClientNo
      BY <1>1, <2>4, Constants DEF TcpClient, Own, ClientNo, TcpTypeOK, Copied
    <3>2. /\ pc' = "tx" /\ k' = k /\ sock' = k + 1 /\ half' = {} /\ part' = "whole"
          /\ cl' = cl
      BY <2>4, <3>1 DEF TcpClient, sockets
    <3>3. QED
      BY <3>1, <3>2 DEF Copied
  <2>5. CASE TxOk
    BY <1>1, <2>5 DEF TxOk, NextClient, Copied
  <2>6. CASE TxIncomplete
    <3>1. cl[k] = sock
      BY <1>1, <1>2, <2>6, OpenIs DEF TxIncomplete, Copied
    <3>2. /\ pc' = "tx" /\ k' = k /\ sock' = sock /\ half' = half \cup {sock} /\ part' = "rest"
          /\ cl' = cl
      BY <2>6 DEF TxIncomplete, sockets, control
    <3>3. QED
      BY <1>1, <1>2, <2>6, <3>1, <3>2 DEF Copied, TxIncomplete
  <2>7. CASE TxInterrupted
    <3>1. cl[k] = sock
      BY <1>1, <1>2, <2>7, OpenIs DEF TxInterrupted, Copied
    <3>2. /\ pc' = "rx" /\ k' = k /\ sock' = sock /\ half' = half /\ part' = part
          /\ cl' = cl
      BY <2>7 DEF TxInterrupted, sockets
    <3>3. QED
      BY <1>1, <2>7, <3>1, <3>2 DEF Copied, TxInterrupted
  <2>8. CASE TxFails
    BY <1>1, <1>2, <2>8 DEF TxFails, NextClient, Copied
  <2>9. CASE TxReceives
    <3>1. /\ pc = "rx" /\ k' = k /\ sock' = sock /\ part' = part
          /\ half' = half \cap {cl'[i] : i \in ClientNo}
          /\ k \in ClientNo /\ sock = k + 1 /\ cl[k] = sock /\ cl[k] # Vacant /\ k < clqty
          /\ half \subseteq {sock} /\ (part = "rest" <=> sock \in half)
      BY <1>1, <1>2, <2>9 DEF TxReceives, Copied
    <3>2. PICK got \in BOOLEAN : ServRecv(got) /\ (pc' = "tx" \/ (got /\ pc' = "rx"))
      BY <2>9, TxReceivesIs
    <3>3. cl'[k] = cl[k] \/ (cl'[k] = Vacant /\ ~ got)
      BY <1>1, <3>1, <3>2, ReceivesIs DEF Kept, Opened, Closed
    <3>4. CASE cl'[k] = cl[k]
      <4>1. half' = half
        BY <3>1, <3>4
      <4>2. QED
        BY <3>1, <3>2, <3>4, <4>1 DEF Copied
    <3>5. CASE cl'[k] = Vacant /\ ~ got
      <4>1. \A i \in ClientNo : cl'[i] # k + 1
        BY <1>1, <1>2, <3>1, <3>5, Constants DEF Own, ClientNo
      <4>2. half' = {}
        BY <3>1, <4>1
      <4>3. QED
        BY <1>2, <3>1, <3>2, <3>5, <4>2 DEF Copied
    <3>6. QED
      BY <3>3, <3>4, <3>5
  <2>10. QED
    BY <1>4, <2>1, <2>2, <2>3, <2>4, <2>5, <2>6, <2>7, <2>8, <2>9 DEF TcpRuns
<1>5. CASE TcpEvent
  BY <1>1, <1>5 DEF TcpEvent, Begins, Copied
<1>6. CASE Asps /\ UNCHANGED <<sctpVars, tcpVars, transport>>
  BY <1>1, <1>6, AspsAre DEF Copied, control, tcpVars
<1>7. CASE UNCHANGED serverVars
  BY <1>1, <1>7 DEF serverVars, slotVars, sockets, control, tcpVars, Copied
<1>8. QED
  BY <1>3, <1>4, <1>5, <1>6, <1>7 DEF Next, SctpRun, TcpRun, Given

-----------------------------------------------------------------------------
(* The messages of each connection. *)

LEMMA DueAfter ==
  ASSUME SlotTypes, Own, NEW i \in ClientNo, lapsed' = lapsed, given' = given,
         Kept(i) \/ Opened(i) \/ Closed(i), cl'[i] # Vacant,
         NEW m \in Int, m <= given + 1 \/ lapsed,
         cl[i] # Vacant => Due(cl[i], m)
  PROVE  NextIs(m, sentOn'[cl'[i]], since'[cl'[i]], lapsed')
<1>1. CASE Kept(i)
  <2>1. cl[i] = i + 1 /\ cl'[i] = i + 1 /\ cl[i] # Vacant
    BY <1>1 DEF Kept, Own
  <2>2. QED
    BY <1>1, <2>1 DEF Kept, Due
<1>2. CASE Opened(i)
  BY <1>2, Constants DEF Opened, NextIs, SlotTypes
<1>3. CASE Closed(i)
  BY <1>3 DEF Closed
<1>4. QED
  BY <1>1, <1>2, <1>3

Sending == pc \in {"next", "tx", "rx"}

LEMMA TcpDueKept ==
  ASSUME IInv, transport = "tcp", lapsed' = lapsed, given' = given, k' \in Int,
         \A i \in ClientNo : Kept(i) \/ Opened(i) \/ Closed(i),
         \A i \in ClientNo : cl[i] # Vacant /\ cl'[i] # Vacant =>
           ((Sending' /\ i >= k') <=> (Sending /\ i >= k))
  PROVE  TcpDue'
<1>1. SlotTypes /\ Own /\ TcpDue /\ given \in Int /\ k \in Int
  <2>1. SlotTypes /\ TcpTypeOK /\ Own /\ TcpDue
    BY TypeParts, Zenon DEF IInv
  <2>2. given \in 0 .. MaxGiven /\ k \in 0 .. clqty
    BY <2>1, Zenon DEF SlotTypes, TcpTypeOK
  <2>3. QED
    BY <2>1, <2>2, Constants
<1>2. SUFFICES ASSUME NEW i \in ClientNo, cl'[i] # Vacant
               PROVE  /\ Sending' /\ i >= k' => Due(cl[i], given)'
                      /\ ~ Sending' \/ i < k' => Due(cl[i], given + 1)'
  BY DEF TcpDue, Sending
<1>3. i \in Int /\ given + 1 \in Int /\ given <= given + 1
  BY <1>1, Constants DEF ClientNo
<1>4. /\ Sending /\ i >= k /\ cl[i] # Vacant => Due(cl[i], given)
      /\ (~ Sending \/ i < k) /\ cl[i] # Vacant => Due(cl[i], given + 1)
  BY <1>1 DEF TcpDue, Sending
<1>5. CASE Sending' /\ i >= k'
  <2>1. ~ (i < k') /\ (cl[i] # Vacant => Due(cl[i], given))
    BY <1>2, <1>3, <1>4, <1>5
  <2>2. NextIs(given, sentOn'[cl'[i]], since'[cl'[i]], lapsed')
    BY <1>1, <1>2, <1>3, <2>1, DueAfter
  <2>3. QED
    BY <1>5, <2>1, <2>2 DEF Due
<1>6. CASE ~ (Sending' /\ i >= k')
  <2>1. cl[i] # Vacant => Due(cl[i], given + 1)
    BY <1>1, <1>2, <1>3, <1>4, <1>6
  <2>2. NextIs(given + 1, sentOn'[cl'[i]], since'[cl'[i]], lapsed')
    BY <1>1, <1>2, <1>3, <2>1, DueAfter
  <2>3. QED
    BY <1>6, <2>2 DEF Due
<1>7. QED
  BY <1>5, <1>6

LEMMA AppendIs ==
  ASSUME NEW S, NEW s \in Seq(S), NEW e \in S
  PROVE  /\ Append(s, e) # <<>>
         /\ Append(s, e)[Len(Append(s, e))] = e
         /\ Len(Append(s, e)) = Len(s) + 1
         /\ Len(s) \in Nat
OBVIOUS

\* Message m has gone to the client in slot s.
LEMMA DueSent ==
  ASSUME SlotTypes, Own, NEW s \in ClientNo, cl[s] # Vacant, NEW m \in 1 .. MaxGiven,
         HasSent(cl[s], m), UNCHANGED sockets, NEW excused
  PROVE  NextIs(m + 1, sentOn'[cl'[s]], since'[cl'[s]], excused)
<1>1. cl'[s] = cl[s] /\ sentOn' = [sentOn EXCEPT ![cl[s]] = Append(@, m)]
  BY SentIs
<1>2. cl[s] \in Fd /\ sentOn[cl[s]] \in Seq(1 .. MaxGiven)
  BY DEF SlotTypes
<1>3. sentOn'[cl'[s]] = Append(sentOn[cl[s]], m)
  BY <1>1, <1>2 DEF SlotTypes
<1>4. sentOn'[cl'[s]] # <<>> /\ sentOn'[cl'[s]][Len(sentOn'[cl'[s]])] = m
  BY <1>2, <1>3, AppendIs
<1>5. m + 1 - 1 = m
  BY Constants
<1>6. QED
  BY <1>4, <1>5 DEF NextIs

LEMMA NextTcpDue ==
  ASSUME IInv, [Next]_serverVars
  PROVE  TcpDue'
<1>1. /\ SlotTypes /\ HandlerTypes /\ TcpTypeOK /\ Own /\ Control /\ Copied /\ TcpDue
      /\ TypeOK' /\ Own' /\ Copied'
  BY TypeParts, NextTyped, NextCopied DEF IInv
<1>2. k \in Int /\ k' \in Int /\ \A i \in ClientNo : i \in Int /\ i < clqty
  BY <1>1, TypeParts, Constants DEF TcpTypeOK, ClientNo
<1>3. CASE transport' = "sctp"
  BY <1>3 DEF TcpDue
<1>4. CASE TcpRun
  <2>1. transport = "tcp" /\ lapsed' = lapsed /\ TcpRuns
    BY <1>4 DEF TcpRun, sctpVars
  <2>2. CASE TcpTimer
    <3>1. given' = given /\ \A i \in ClientNo : Kept(i)
      BY <1>1, <2>2, SlotsUntouched DEF TcpTimer
    <3>2. ~ Sending /\ ~ Sending'
      BY <2>2 DEF TcpTimer, Begins, Sending
    <3>3. QED
      BY <1>2, <2>1, <3>1, <3>2, TcpDueKept
  <2>3. CASE TcpSkips
    <3>1. given' = given /\ \A i \in ClientNo : Kept(i)
      BY <1>1, <2>3, SlotsUntouched DEF TcpSkips
    <3>2. \A i \in ClientNo : cl[i] # Vacant => i # k
      BY <2>3 DEF TcpSkips
    <3>3. Sending /\ Sending' /\ k' = k + 1
      BY <2>3 DEF TcpSkips, Sending, control
    <3>4. \A i \in ClientNo : cl[i] # Vacant => (i >= k' <=> i >= k)
      BY <1>2, <3>2, <3>3
    <3>5. QED
      BY <1>2, <2>1, <3>1, <3>3, <3>4, TcpDueKept
  <2>4. CASE TcpClient \/ TxIncomplete \/ TxInterrupted
    <3>1. given' = given /\ \A i \in ClientNo : Kept(i)
      BY <1>1, <2>4, SlotsUntouched DEF TcpClient, TxIncomplete, TxInterrupted
    <3>2. Sending /\ Sending' /\ k' = k
      BY <2>4 DEF TcpClient, TxIncomplete, TxInterrupted, Sending, control
    <3>3. QED
      BY <1>2, <2>1, <3>1, <3>2, TcpDueKept
  <2>5. CASE TcpEnds
    <3>1. given' = given /\ \A i \in ClientNo : Kept(i)
      BY <1>1, <2>5, SlotsUntouched DEF TcpEnds
    <3>2. ~ Sending' /\ \A i \in ClientNo : ~ (i >= k)
      BY <1>2, <2>5, Constants DEF TcpEnds, Sending
    <3>3. QED
      BY <1>2, <2>1, <3>1, <3>2, TcpDueKept
  <2>6. CASE TxOk
    <3>1. /\ k \in ClientNo /\ sock = k + 1 /\ given \in 1 .. MaxGiven
          /\ cl[k] = sock /\ cl[k] # Vacant
      BY <1>1, <2>6, Constants, OpenIs
      DEF TxOk, Copied, Control, SlotTypes, ClientNo, TcpTypeOK, Vacant
    <3>2. HasSent(cl[k], given) /\ UNCHANGED sockets
      BY <2>6, <3>1 DEF TxOk
    <3>3. NextIs(given + 1, sentOn'[cl'[k]], since'[cl'[k]], lapsed')
      BY <1>1, <3>1, <3>2, DueSent
    <3>4. given' = given /\ \A i \in ClientNo : i # k => Kept(i)
      BY <1>1, <3>1, <3>2, SentIs
    <3>5. Sending /\ Sending' /\ k' = k + 1
      BY <2>6 DEF TxOk, NextClient, Sending
    <3>6. ASSUME NEW i \in ClientNo, cl'[i] # Vacant
          PROVE  /\ i >= k' => Due(cl[i], given)'
                 /\ i < k' => Due(cl[i], given + 1)'
      <4>1. CASE i = k
        <5>1. ~ (i >= k')
          BY <1>2, <3>5, <4>1
        <5>2. QED
          BY <3>3, <3>4, <4>1, <5>1 DEF Due
      <4>2. CASE i # k
        <5>1. Kept(i) /\ cl[i] # Vacant /\ cl[i] = i + 1 /\ cl'[i] = i + 1
          BY <1>1, <3>4, <3>6, <4>2 DEF Kept, Own
        <5>2. (i >= k' <=> i >= k) /\ (i < k' <=> i < k)
          BY <1>2, <3>5, <4>2
        <5>3. /\ i >= k => Due(cl[i], given)
              /\ i < k => Due(cl[i], given + 1)
          BY <1>1, <2>1, <3>5, <5>1 DEF TcpDue, Sending
        <5>4. QED
          BY <2>1, <3>4, <5>1, <5>2, <5>3 DEF Due, Kept
      <4>3. QED
        BY <4>1, <4>2
    <3>7. QED
      BY <3>5, <3>6 DEF TcpDue, Sending
  <2>7. CASE TxFails
    <3>1. k \in ClientNo
      BY <1>1, <2>7, Constants DEF TxFails, Copied, TcpTypeOK, ClientNo
    <3>2. /\ given' = given
          /\ \A i \in ClientNo : Kept(i) \/ Closed(i)
          /\ cl'[k] = Vacant
      <4>1. CASE cl[k] = Vacant
        BY <1>1, <2>7, <4>1, SlotsUntouched DEF TxFails, sockets, Kept
      <4>2. CASE cl[k] # Vacant
        BY <1>1, <2>7, <3>1, <4>2, DropsIs DEF TxFails, SlotTypes
      <4>3. QED
        BY <4>1, <4>2
    <3>3. Sending /\ Sending' /\ k' = k + 1
      BY <2>7 DEF TxFails, NextClient, Sending
    <3>4. \A i \in ClientNo : i # k => (i >= k' <=> i >= k)
      BY <1>2, <3>3
    <3>5. QED
      BY <1>2, <2>1, <3>2, <3>3, <3>4, TcpDueKept
  <2>8. CASE TxReceives
    <3>1. Sending /\ Sending' /\ k' = k
      BY <2>8, TxReceivesIs DEF TxReceives, Sending
    <3>2. PICK got \in BOOLEAN : ServRecv(got)
      BY <2>8, TxReceivesIs
    <3>3. given' = given /\ \A i \in ClientNo : Kept(i) \/ Opened(i) \/ Closed(i)
      BY <1>1, <3>2, ReceivesIs
    <3>4. QED
      BY <1>2, <2>1, <3>1, <3>3, TcpDueKept
  <2>9. CASE TimerRecv
    <3>1. ~ Sending /\ ~ Sending'
      BY <2>9 DEF TimerRecv, Sending
    <3>2. PICK got \in BOOLEAN : ServRecv(got)
      BY <2>9 DEF TimerRecv
    <3>3. given' = given /\ \A i \in ClientNo : Kept(i) \/ Opened(i) \/ Closed(i)
      BY <1>1, <3>2, ReceivesIs
    <3>4. QED
      BY <1>2, <2>1, <3>1, <3>3, TcpDueKept
  <2>10. QED
    BY <2>1, <2>2, <2>3, <2>4, <2>5, <2>6, <2>7, <2>8, <2>9 DEF TcpRuns
<1>5. CASE transport = "tcp" /\ TcpEvent /\ UNCHANGED <<sctpVars, transport>>
  <2>1. /\ given' = given + 1 /\ k' = 0 /\ ~ Sending /\ Sending'
        /\ cl' = cl /\ sentOn' = sentOn /\ since' = since /\ lapsed' = lapsed
    BY <1>5 DEF TcpEvent, Begins, Sending, sockets, sctpVars
  <2>2. ASSUME NEW i \in ClientNo, cl'[i] # Vacant
        PROVE  ~ (i < k') /\ Due(cl[i], given)'
    <3>1. Due(cl[i], given + 1)
      BY <1>1, <1>5, <2>1, <2>2 DEF TcpDue, Sending
    <3>2. ~ (i < k')
      BY <2>1, <2>2, Constants DEF ClientNo
    <3>3. QED
      BY <2>1, <3>1, <3>2 DEF Due
  <2>3. QED
    BY <2>1, <2>2 DEF TcpDue, Sending
<1>6. CASE Asps /\ UNCHANGED <<sctpVars, tcpVars, transport>>
  <2>1. given' = given /\ \A i \in ClientNo : Kept(i)
    BY <1>1, <1>6, AspsAre
  <2>2. (Sending' <=> Sending) /\ k' = k /\ lapsed' = lapsed /\ transport' = transport
    BY <1>1, <1>6, AspsAre DEF Sending, control, sctpVars, tcpVars
  <2>3. QED
    BY <1>2, <1>3, <2>1, <2>2, TcpDueKept DEF TcpDue
<1>7. CASE UNCHANGED serverVars
  <2>1. given' = given /\ \A i \in ClientNo : Kept(i)
    BY <1>1, <1>7, SlotsUntouched DEF serverVars, slotVars
  <2>2. (Sending' <=> Sending) /\ k' = k /\ lapsed' = lapsed /\ transport' = transport
    BY <1>7 DEF serverVars, slotVars, Sending, control, sctpVars, tcpVars
  <2>3. QED
    BY <1>2, <1>3, <2>1, <2>2, TcpDueKept DEF TcpDue
<1>8. QED
  BY <1>3, <1>4, <1>5, <1>6, <1>7 DEF Next, SctpRun, Given

-----------------------------------------------------------------------------
(* The FIFO of the SCTP server. *)

LEMMA FifoUntouched ==
  ASSUME NEW n \in Nat, InFifo(n), UNCHANGED fifo, given' = given
  PROVE  InFifo(n)'
BY DEF InFifo, fifo

LEMMA FifoShorter ==
  ASSUME TypeOK, NEW n \in 0 .. SCTP_FIFO_SIZE - 1, n >= 1, n <= given, InFifo(n),
         get_ptr' = NextPlace(get_ptr), txbuffer' = txbuffer, put_ptr' = put_ptr, given' = given
  PROVE  InFifo(n - 1)'
<1>1. /\ get_ptr \in Nat /\ get_ptr < SCTP_FIFO_SIZE /\ get_ptr \in Place
      /\ put_ptr \in Nat /\ put_ptr < SCTP_FIFO_SIZE
      /\ given \in Nat /\ n \in Nat /\ n < SCTP_FIFO_SIZE /\ SCTP_FIFO_SIZE \in Nat
  BY Constants DEF TypeOK, SctpTypeOK, Place
<1>2. get_ptr' = get_ptr + 1 \/ (get_ptr = SCTP_FIFO_SIZE - 1 /\ get_ptr' = get_ptr + 1 - SCTP_FIFO_SIZE)
  BY <1>1, NextPlaceIs
<1>3. put_ptr' = get_ptr' + (n - 1) \/ put_ptr' = get_ptr' + (n - 1) - SCTP_FIFO_SIZE
  <2>1. put_ptr = get_ptr + n \/ put_ptr = get_ptr + n - SCTP_FIFO_SIZE
    BY DEF InFifo
  <2>2. QED
    BY <1>1, <1>2, <2>1
<1>4. ASSUME NEW p \in Place, NEW q \in 0 .. (n - 1) - 1,
             p = get_ptr' + q \/ p = get_ptr' + q - SCTP_FIFO_SIZE
      PROVE  txbuffer'[p] = given' - (n - 1) + 1 + q
  <2>1. p \in Nat /\ q \in Nat /\ q + 1 \in 0 .. n - 1
    BY <1>1 DEF Place
  <2>2. p = get_ptr + (q + 1) \/ p = get_ptr + (q + 1) - SCTP_FIFO_SIZE
    BY <1>1, <1>2, <1>4, <2>1
  <2>3. txbuffer[p] = given - n + 1 + (q + 1)
    BY <2>1, <2>2 DEF InFifo
  <2>4. QED
    BY <1>1, <2>1, <2>3
<1>5. QED
  BY <1>3, <1>4 DEF InFifo

LEMMA FifoLonger ==
  ASSUME TypeOK, NEW n \in 0 .. SCTP_FIFO_SIZE - 1, n <= given, InFifo(n), NextPlace(put_ptr) # get_ptr,
         txbuffer' = [txbuffer EXCEPT ![put_ptr] = given + 1],
         put_ptr' = NextPlace(put_ptr), get_ptr' = get_ptr, given' = given + 1
  PROVE  n + 1 \in 0 .. SCTP_FIFO_SIZE - 1 /\ InFifo(n + 1)'
<1>1. /\ get_ptr \in Nat /\ get_ptr < SCTP_FIFO_SIZE
      /\ put_ptr \in Nat /\ put_ptr < SCTP_FIFO_SIZE /\ put_ptr \in Place
      /\ given \in Nat /\ n \in Nat /\ n < SCTP_FIFO_SIZE /\ SCTP_FIFO_SIZE \in Nat
      /\ txbuffer \in [Place -> 0 .. MaxGiven]
  BY Constants, SMTT(60) DEF TypeOK, SctpTypeOK, Place
<1>2. \/ put_ptr' = put_ptr + 1 /\ put_ptr # SCTP_FIFO_SIZE - 1
      \/ put_ptr = SCTP_FIFO_SIZE - 1 /\ put_ptr' = 0
  BY <1>1, NextPlaceIs
<1>3. put_ptr = get_ptr + n \/ put_ptr = get_ptr + n - SCTP_FIFO_SIZE
  BY DEF InFifo
<1>4. put_ptr' # get_ptr
  OBVIOUS
<1>5. n + 1 \in 0 .. SCTP_FIFO_SIZE - 1
  BY <1>1, <1>2, <1>3, <1>4
<1>6. put_ptr' = get_ptr' + (n + 1) \/ put_ptr' = get_ptr' + (n + 1) - SCTP_FIFO_SIZE
  BY <1>1, <1>2, <1>3
<1>7. ASSUME NEW p \in Place, NEW q \in 0 .. (n + 1) - 1,
             p = get_ptr' + q \/ p = get_ptr' + q - SCTP_FIFO_SIZE
      PROVE  txbuffer'[p] = given' - (n + 1) + 1 + q
  <2>1. p \in Nat /\ p < SCTP_FIFO_SIZE /\ q \in Nat /\ q <= n
    BY <1>1, Constants DEF Place
  <2>2. CASE q = n
    <3>1. p = put_ptr
      BY <1>1, <1>3, <1>7, <2>1, <2>2
    <3>2. txbuffer'[p] = given + 1
      BY <1>1, <3>1
    <3>3. QED
      BY <1>1, <2>2, <3>2
  <2>3. CASE q # n
    <3>1. p # put_ptr /\ q \in 0 .. n - 1
      BY <1>1, <1>3, <1>7, <2>1, <2>3
    <3>2. txbuffer'[p] = txbuffer[p]
      BY <1>1, <3>1
    <3>3. txbuffer[p] = given - n + 1 + q
      BY <1>7, <3>1 DEF InFifo
    <3>4. QED
      BY <1>1, <2>1, <3>2, <3>3
  <2>4. QED
    BY <2>2, <2>3
<1>8. QED
  BY <1>5, <1>6, <1>7 DEF InFifo

LEMMA SctpDueKept ==
  ASSUME IInv, transport = "sctp", NEW n \in 0 .. SCTP_FIFO_SIZE - 1,
         n <= given, InFifo(n), ClientsDue(n),
         UNCHANGED fifo, lapsed' = lapsed, given' = given, At' \in Int,
         \A i \in ClientNo : Kept(i) \/ Opened(i) \/ Closed(i),
         \A i \in ClientNo : cl[i] # Vacant /\ cl'[i] # Vacant => (i >= At' <=> i >= At),
         n = 0 /\ At' # 0 => lapsed
  PROVE  SctpDue'
<1>1. SlotTypes /\ Own /\ given \in Int /\ n \in Nat /\ n \in Int
  BY TypeParts, Constants DEF IInv, SlotTypes
<1>2. At \in Int
  BY TypeParts, Constants DEF IInv, At, SctpTypeOK, ClientNo
<1>3. InFifo(n)'
  BY <1>1, FifoUntouched
<1>4. ASSUME NEW i \in ClientNo, cl'[i] # Vacant
      PROVE  /\ i >= At' => Due(cl[i], given - n + 1)'
             /\ i < At' => Due(cl[i], given - n + 2)'
  <2>1. /\ cl[i] # Vacant /\ i >= At => Due(cl[i], given - n + 1)
        /\ cl[i] # Vacant /\ i < At => Due(cl[i], given - n + 2)
    BY DEF ClientsDue
  <2>2. /\ i \in Int /\ i >= 0
        /\ given - n + 1 \in Int /\ given - n + 1 <= given + 1
        /\ given - n + 2 \in Int /\ (n # 0 => given - n + 2 <= given + 1)
    BY <1>1, Constants DEF ClientNo
  <2>3. CASE i >= At'
    <3>1. cl[i] # Vacant => Due(cl[i], given - n + 1)
      BY <1>4, <2>1, <2>3
    <3>2. NextIs(given - n + 1, sentOn'[cl'[i]], since'[cl'[i]], lapsed')
      BY <1>1, <1>4, <2>2, <3>1, DueAfter
    <3>3. ~ (i < At')
      BY <2>2, <2>3
    <3>4. QED
      BY <3>2, <3>3 DEF Due
  <2>4. CASE ~ (i >= At')
    <3>1. i < At' /\ (cl[i] # Vacant => i < At)
      BY <1>2, <1>4, <2>2, <2>4
    <3>2. cl[i] # Vacant => Due(cl[i], given - n + 2)
      BY <2>1, <3>1
    <3>3. given - n + 2 <= given + 1 \/ lapsed
      <4>1. At' # 0
        BY <2>2, <3>1
      <4>2. QED
        BY <2>2, <4>1
    <3>4. NextIs(given - n + 2, sentOn'[cl'[i]], since'[cl'[i]], lapsed')
      BY <1>1, <1>4, <2>2, <3>2, <3>3, DueAfter
    <3>5. QED
      BY <2>4, <3>4 DEF Due
  <2>5. QED
    BY <2>3, <2>4
<1>5. ClientsDue(n)'
  BY <1>4 DEF ClientsDue
<1>6. QED
  BY <1>3, <1>5 DEF SctpDue

LEMMA NextSctpDue ==
  ASSUME IInv, [Next]_serverVars
  PROVE  SctpDue'
<1>1. /\ SlotTypes /\ HandlerTypes /\ SctpTypeOK /\ Own /\ Control /\ SctpDue /\ TypeOK
      /\ SctpTypeOK'
  BY TypeParts, NextTyped DEF IInv
<1>2. /\ j \in Int /\ j <= clqty /\ client_id_to_start_with \in Int
      /\ j' \in Int /\ client_id_to_start_with' \in Int /\ At' \in Int
      /\ \A i \in ClientNo : i \in Int /\ i < clqty
  BY <1>1, Constants DEF SctpTypeOK, ClientNo, At
<1>3. CASE transport' = "tcp"
  BY <1>3 DEF SctpDue
<1>4. ASSUME transport = "sctp"
      PROVE  SctpDue'
  <2>1. PICK n \in 0 .. SCTP_FIFO_SIZE - 1 : n <= given /\ InFifo(n) /\ ClientsDue(n)
    BY <1>1, <1>4 DEF SctpDue
  <2>2. /\ n \in Nat /\ given \in Nat
        /\ n = 0 /\ At # 0 => lapsed
    BY <1>1, <2>1, Constants DEF SlotTypes, ClientsDue
  <2>3. pc = "send" => n >= 1 /\ n # 0 /\ txbuffer[get_ptr] = given - n + 1
    BY <1>1, <2>1, <2>2, HeadIs DEF Control
  <2>4. CASE SctpRuns
    <3>1. CASE SctpTimer
      <4>1. given' = given /\ \A i \in ClientNo : Kept(i)
        BY <1>1, <3>1, SlotsUntouched DEF SctpTimer
      <4>2. UNCHANGED fifo /\ lapsed' = lapsed /\ At' = At
        BY <3>1 DEF SctpTimer, Begins, At, sctpVars
      <4>3. QED
        BY <1>2, <1>4, <2>1, <2>2, <4>1, <4>2, SctpDueKept
    <3>2. CASE DoSendNothing
      <4>1. given' = given /\ \A i \in ClientNo : Kept(i)
        BY <1>1, <3>2, SlotsUntouched DEF DoSendNothing
      <4>2. UNCHANGED fifo /\ lapsed' = lapsed /\ At' = At
        BY <3>2 DEF DoSendNothing, LoopEnds, At
      <4>3. QED
        BY <1>2, <1>4, <2>1, <2>2, <4>1, <4>2, SctpDueKept
    <3>3. CASE DoSendStarts
      <4>1. given' = given /\ \A i \in ClientNo : Kept(i)
        BY <1>1, <3>3, SlotsUntouched DEF DoSendStarts
      <4>2. UNCHANGED fifo /\ lapsed' = lapsed /\ At' = At
        BY <3>3 DEF DoSendStarts, At
      <4>3. QED
        BY <1>2, <1>4, <2>1, <2>2, <4>1, <4>2, SctpDueKept
    <3>4. CASE SendSkips
      <4>1. given' = given /\ \A i \in ClientNo : Kept(i)
        BY <1>1, <3>4, SlotsUntouched DEF SendSkips
      <4>2. UNCHANGED fifo /\ lapsed' = lapsed /\ At = j /\ At' = j + 1 /\ n # 0
        BY <2>3, <3>4 DEF SendSkips, At, control
      <4>3. \A i \in ClientNo : cl[i] # Vacant => (i >= At' <=> i >= At)
        BY <1>2, <3>4, <4>2 DEF SendSkips
      <4>4. QED
        BY <1>2, <1>4, <2>1, <4>1, <4>2, <4>3, SctpDueKept
    <3>5. CASE SendOk
      <4>1. /\ j \in ClientNo /\ cl[j] # Vacant /\ pc = "send" /\ n >= 1
            /\ txbuffer[get_ptr] = given - n + 1
            /\ given - n + 1 \in 1 .. MaxGiven
        <5>1. pc = "send" /\ j < clqty /\ cl[j] # Vacant
          BY <3>5 DEF SendOk, AtClient
        <5>2. j \in ClientNo
          BY <1>1, <5>1, Constants DEF SctpTypeOK, ClientNo
        <5>3. QED
          BY <2>3, <5>1, <5>2, HeadTyped
      <4>2. HasSent(cl[j], given - n + 1) /\ UNCHANGED sockets
        BY <3>5, <4>1 DEF SendOk
      <4>3. NextIs(given - n + 1 + 1, sentOn'[cl'[j]], since'[cl'[j]], lapsed')
        BY <1>1, <4>1, <4>2, DueSent
      <4>4. given' = given /\ cl' = cl /\ \A i \in ClientNo : i # j => Kept(i)
        BY <1>1, <4>1, <4>2, SentIs DEF sockets
      <4>5. UNCHANGED fifo /\ lapsed' = lapsed /\ At = j /\ At' = j + 1
        BY <3>5, <4>1 DEF SendOk, At, control
      <4>6. ASSUME NEW i \in ClientNo, cl'[i] # Vacant
            PROVE  /\ i >= At' => Due(cl[i], given - n + 1)'
                   /\ i < At' => Due(cl[i], given - n + 2)'
        <5>1. CASE i = j
          <6>1. ~ (i >= At') /\ given - n + 1 + 1 = given - n + 2
            BY <1>2, <2>2, <4>5, <5>1
          <6>2. QED
            BY <4>3, <4>4, <5>1, <6>1 DEF Due
        <5>2. CASE i # j
          <6>1. Kept(i) /\ cl[i] # Vacant /\ cl[i] = i + 1 /\ cl'[i] = i + 1
            BY <1>1, <4>4, <4>6, <5>2 DEF Own
          <6>2. (i >= At' <=> i >= At) /\ (i < At' <=> i < At)
            BY <1>2, <4>5, <5>2
          <6>3. /\ i >= At => Due(cl[i], given - n + 1)
                /\ i < At => Due(cl[i], given - n + 2)
            BY <2>1, <6>1 DEF ClientsDue
          <6>4. QED
            BY <4>4, <4>5, <6>1, <6>2, <6>3 DEF Due, Kept
        <5>3. QED
          BY <5>1, <5>2
      <4>7. ClientsDue(n)'
        BY <2>3, <4>1, <4>6 DEF ClientsDue
      <4>8. InFifo(n)'
        BY <2>1, <2>2, <4>4, <4>5, FifoUntouched
      <4>9. QED
        BY <2>1, <4>4, <4>7, <4>8 DEF SctpDue
    <3>6. CASE SendAgain
      <4>1. given' = given /\ \A i \in ClientNo : Kept(i)
        BY <1>1, <3>6, SlotsUntouched DEF SendAgain
      <4>2. UNCHANGED fifo /\ lapsed' = lapsed /\ At' = At
        BY <1>1, <3>6 DEF SendAgain, AtClient, LoopEnds, At, HandlerTypes
      <4>3. QED
        BY <1>2, <1>4, <2>1, <2>2, <4>1, <4>2, SctpDueKept
    <3>7. CASE SendFails
      <4>1. j \in ClientNo /\ cl[j] # Vacant
        BY <1>1, <3>7, Constants DEF SendFails, AtClient, SctpTypeOK, ClientNo
      <4>2. given' = given /\ \A i \in ClientNo : Kept(i) \/ Closed(i)
        BY <1>1, <3>7, <4>1, DropsIs DEF SendFails
      <4>3. cl'[j] = Vacant
        BY <1>1, <3>7, <4>1, DropsIs DEF SendFails, SlotTypes
      <4>4. UNCHANGED fifo /\ lapsed' = lapsed /\ At = j /\ At' = j + 1 /\ n # 0
        BY <2>3, <3>7 DEF SendFails, AtClient, At, control
      <4>5. \A i \in ClientNo : i # j => (i >= At' <=> i >= At)
        BY <1>2, <4>4
      <4>6. QED
        BY <1>2, <1>4, <2>1, <4>2, <4>3, <4>4, <4>5, SctpDueKept
    <3>8. CASE SendDone
      <4>1. /\ n >= 1 /\ At = clqty
            /\ given' = given /\ cl' = cl /\ sentOn' = sentOn /\ since' = since
            /\ lapsed' = lapsed /\ txbuffer' = txbuffer /\ put_ptr' = put_ptr
            /\ get_ptr' = NextPlace(get_ptr)
        BY <2>3, <3>8 DEF SendDone, At, sockets, account
      <4>2. At' = 0
        BY <1>1, <3>8 DEF SendDone, At, LoopEnds
      <4>3. /\ n - 1 \in 0 .. SCTP_FIFO_SIZE - 1 /\ n - 1 <= given
            /\ given - (n - 1) + 1 = given - n + 2
        BY <2>1, <2>2, <4>1, Constants
      <4>4. InFifo(n - 1)'
        BY <1>1, <2>1, <4>1, FifoShorter
      <4>5. ASSUME NEW i \in ClientNo, cl'[i] # Vacant
            PROVE  ~ (i < At') /\ Due(cl[i], given - (n - 1) + 1)'
        <5>1. i < At /\ ~ (i < At')
          BY <1>2, <4>1, <4>2, Constants DEF ClientNo
        <5>2. Due(cl[i], given - n + 2)
          BY <2>1, <4>1, <4>5, <5>1 DEF ClientsDue
        <5>3. QED
          BY <4>1, <4>3, <5>1, <5>2 DEF Due
      <4>6. ClientsDue(n - 1)'
        BY <4>2, <4>5 DEF ClientsDue
      <4>7. QED
        BY <4>1, <4>3, <4>4, <4>6 DEF SctpDue
    <3>9. CASE TimerRecv /\ UNCHANGED sctpVars
      <4>1. PICK got \in BOOLEAN : ServRecv(got)
        BY <3>9 DEF TimerRecv
      <4>2. given' = given /\ \A i \in ClientNo : Kept(i) \/ Opened(i) \/ Closed(i)
        BY <1>1, <4>1, ReceivesIs
      <4>3. UNCHANGED fifo /\ lapsed' = lapsed /\ At' = At
        BY <3>9 DEF TimerRecv, At, sctpVars
      <4>4. QED
        BY <1>2, <1>4, <2>1, <2>2, <4>2, <4>3, SctpDueKept
    <3>10. QED
      BY <2>4, <3>1, <3>2, <3>3, <3>4, <3>5, <3>6, <3>7, <3>8, <3>9 DEF SctpRuns
  <2>5. CASE SctpEvent
    <3>1. /\ given' = given + 1 /\ given < MaxGiven
          /\ txbuffer' = [txbuffer EXCEPT ![put_ptr] = given + 1]
          /\ put_ptr' = NextPlace(put_ptr) /\ get_ptr' = get_ptr
          /\ sentOn' = sentOn /\ since' = since
          /\ At = client_id_to_start_with /\ At' = At
      BY <2>5 DEF SctpEvent, Begins, At
    <3>2. CASE NextPlace(put_ptr) = get_ptr
      <4>1. cl' = [i \in ClientNo |-> Vacant] /\ lapsed' = (lapsed \/ client_id_to_start_with # 0)
        BY <2>5, <3>2 DEF SctpEvent
      <4>2. ClientsDue(0)'
        BY <3>1, <4>1 DEF ClientsDue
      <4>3. put_ptr' = get_ptr' + 0
        BY <1>1, <3>1, <3>2, Constants DEF SctpTypeOK, Place
      <4>4. 0 .. 0 - 1 = {}
        OBVIOUS
      <4>5. InFifo(0)'
        BY <4>3, <4>4 DEF InFifo
      <4>6. 0 \in 0 .. SCTP_FIFO_SIZE - 1 /\ 0 <= given'
        BY <2>2, <3>1, Constants
      <4>7. QED
        BY <4>2, <4>5, <4>6 DEF SctpDue
    <3>3. CASE NextPlace(put_ptr) # get_ptr
      <4>1. cl' = cl /\ lapsed' = lapsed
        BY <2>5, <3>3 DEF SctpEvent
      <4>2. n + 1 \in 0 .. SCTP_FIFO_SIZE - 1 /\ InFifo(n + 1)'
        BY <1>1, <2>1, <3>1, <3>3, FifoLonger
      <4>3. /\ given' - (n + 1) + 1 = given - n + 1
            /\ given' - (n + 1) + 2 = given - n + 2
            /\ n + 1 <= given' /\ n + 1 # 0
        BY <2>1, <2>2, <3>1
      <4>4. ClientsDue(n + 1)'
        BY <2>1, <3>1, <4>1, <4>3 DEF ClientsDue, Due
      <4>5. QED
        BY <4>2, <4>3, <4>4 DEF SctpDue
    <3>4. QED
      BY <3>2, <3>3
  <2>6. CASE Asps /\ UNCHANGED <<sctpVars, tcpVars, transport>>
    <3>1. given' = given /\ \A i \in ClientNo : Kept(i)
      BY <1>1, <2>6, AspsAre
    <3>2. UNCHANGED fifo /\ lapsed' = lapsed /\ At' = At
      BY <1>1, <2>6, AspsAre DEF At, control, sctpVars
    <3>3. QED
      BY <1>2, <1>4, <2>1, <2>2, <3>1, <3>2, SctpDueKept
  <2>7. CASE UNCHANGED serverVars
    <3>1. given' = given /\ \A i \in ClientNo : Kept(i)
      BY <1>1, <2>7, SlotsUntouched DEF serverVars, slotVars
    <3>2. UNCHANGED fifo /\ lapsed' = lapsed /\ At' = At
      BY <2>7 DEF serverVars, slotVars, At, control, sctpVars
    <3>3. QED
      BY <1>2, <1>4, <2>1, <2>2, <3>1, <3>2, SctpDueKept
  <2>8. QED
    BY <1>4, <2>4, <2>5, <2>6, <2>7 DEF Next, SctpRun, TcpRun, Given
<1>5. transport' = transport /\ transport \in {"sctp", "tcp"}
  BY <1>1 DEF TypeOK, Next, SctpRun, TcpRun, Given, serverVars
<1>6. QED
  BY <1>3, <1>4, <1>5

-----------------------------------------------------------------------------
(* The invariant holds. *)

LEMMA InitIs ==
  ASSUME Init
  PROVE  IInv
<1>1. /\ 0 \in ClientNo /\ 0 \in Place /\ 0 \in 0 .. clqty /\ 0 \in 0 .. Attempts
      /\ 0 \in 0 .. MAX_MSG_PER_TICK \div 4 + 1 /\ 0 \in 0 .. MaxGiven /\ 0 \in 0 .. MaxGiven + 1
      /\ MAX_MSG_PER_TICK + 2 \in Nat /\ 0 <= MAX_MSG_PER_TICK + 2
  BY Constants DEF ClientNo, Place, Quarter
<1>2. SlotTypes
  <2>1. <<>> \in Seq(Item) /\ <<>> \in Seq(1 .. MaxGiven) /\ Vacant \in Fd \cup {Vacant}
    OBVIOUS
  <2>2. QED
    BY <1>1, <2>1 DEF Init, SlotsInit, SlotTypes
<1>3. HandlerTypes
  BY DEF Init, SlotsInit, HandlerTypes
<1>4. SctpTypeOK
  BY <1>1 DEF Init, SctpInit, SctpTypeOK
<1>5. TcpTypeOK
  BY <1>1 DEF Init, TcpInit, TcpTypeOK
<1>6. Own
  BY DEF Init, SlotsInit, Own
<1>7. Control /\ Posted /\ Copied
  BY <1>1 DEF Init, SlotsInit, TcpInit, Control, Posted, Copied
<1>8. TcpDue
  BY DEF Init, SlotsInit, TcpDue
<1>9. SctpDue
  <2>1. 0 .. 0 - 1 = {} /\ 0 = 0 + 0
    OBVIOUS
  <2>2. InFifo(0)
    BY <2>1 DEF Init, SctpInit, InFifo
  <2>3. ClientsDue(0)
    BY DEF Init, SlotsInit, SctpInit, ClientsDue, At
  <2>4. 0 \in 0 .. SCTP_FIFO_SIZE - 1 /\ 0 <= given
    BY Constants DEF Init, SlotsInit
  <2>5. QED
    BY <2>2, <2>3, <2>4 DEF SctpDue
<1>10. QED
  BY <1>2, <1>3, <1>4, <1>5, <1>6, <1>7, <1>8, <1>9, TypeParts DEF IInv, Init

\* The inductive invariant holds in every state.
THEOREM Invariant == Spec => []IInv
<1>1. Init => IInv
  BY InitIs
<1>2. IInv /\ [Next]_serverVars => IInv'
  BY NextTyped, NextControl, NextPosted, NextCopied, NextTcpDue, NextSctpDue DEF IInv
<1>3. QED
  BY <1>1, <1>2, PTL DEF Spec

\* Every variable of the two servers keeps its type: in particular the client
\* at which do_send() was stopped is always one of the slots.
THEOREM ServersTypes == Spec => []TypeOK
<1>1. IInv => TypeOK
  BY DEF IInv
<1>2. QED
  BY <1>1, Invariant, PTL

\* No descriptor is in two slots, and what is left of a message goes to the
\* connection that got its beginning, though serv_send() of the TCP server goes
\* on with a copy of the descriptor after serv_recv() has closed and accepted.
THEOREM MessagesStayWhole == Spec => []WholeMessages
<1>1. IInv => WholeMessages
  <2> SUFFICES ASSUME IInv PROVE WholeMessages
    OBVIOUS
  <2>1. Own /\ Copied /\ TcpTypeOK
    BY TypeParts DEF IInv
  <2>2. \A i, n \in ClientNo : cl[i] = cl[n] /\ cl[i] # Vacant => i = n
    <3> TAKE i, n \in ClientNo
    <3>1. cl[i] \in {Vacant, i + 1} /\ cl[n] \in {Vacant, n + 1} /\ i \in Int /\ n \in Int
      BY <2>1, Constants DEF Own, ClientNo
    <3>2. QED
      BY <3>1
  <2>3. pc \in {"tx", "rx"} /\ sock \in Open => cl[k] = sock /\ (part = "rest" <=> sock \in half)
    <3> HAVE pc \in {"tx", "rx"} /\ sock \in Open
    <3>1. k \in ClientNo /\ sock = k + 1
      BY <2>1, Constants DEF Copied, TcpTypeOK, ClientNo
    <3>2. cl[k] = sock
      BY <2>1, <3>1, OpenIs
    <3>3. QED
      BY <2>1, <3>2 DEF Copied
  <2>4. half \subseteq (IF pc \in {"tx", "rx"} THEN {sock} ELSE {})
    BY <2>1 DEF Copied
  <2>5. QED
    BY <2>2, <2>3, <2>4 DEF WholeMessages
<1>2. QED
  BY <1>1, Invariant, PTL

LEMMA MaxIs ==
  ASSUME NEW a \in Nat, NEW b \in Nat
  PROVE  a <= Max({a, b}) /\ b <= Max({a, b})
<1>1. PICK most \in {a, b} : \A y \in {a, b} : most >= y
  <2>1. CASE a >= b
    BY <2>1
  <2>2. CASE b >= a
    BY <2>2
  <2>3. QED
    BY <2>1, <2>2
<1>2. \A y \in {a, b} : Max({a, b}) >= y
  BY <1>1 DEF Max
<1>3. Max({a, b}) \in {a, b}
  BY <1>1 DEF Max
<1>4. QED
  BY <1>2, <1>3

\* One call posts a bounded number of messages to MTP3, whatever ASPs send: the
\* receiving inside serv_send() is limited for each interruption, and the
\* interruptions are limited for each client.
THEOREM FewPosts == Spec => []PostsBounded
<1>1. IInv => PostsBounded
  <2> SUFFICES ASSUME IInv PROVE PostsBounded
    OBVIOUS
  <2>1. /\ HandlerTypes /\ TcpTypeOK /\ Control /\ Posted /\ Copied
    BY TypeParts DEF IInv
  <2> DEFINE inTimer == MAX_MSG_PER_TICK + 2
             inEvent == clqty * Attempts * (MAX_MSG_PER_TICK \div 4)
  <2>2. inEvent = clqty * PerClient /\ inEvent \in Nat /\ inTimer \in Nat
    <3>1. \A a, b, c \in Nat : a * b * c = a * (b * c)
      OBVIOUS
    <3>2. inEvent = clqty * PerClient
      BY <3>1, Constants DEF PerClient, Quarter
    <3>3. QED
      BY <3>2, Constants, Products
  <2>3. posts \in Nat
    BY <2>1 DEF HandlerTypes
  <2>4. CASE handler = "timer"
    <3>1. posts <= MAX_MSG_PER_TICK + 1 \/ posts = 0
      BY <2>1, <2>4 DEF Control, Posted, HandlerTypes
    <3>2. posts <= inTimer
      BY <2>3, <3>1, Constants
    <3>3. QED
      BY <2>4, <3>2 DEF PostsBounded
  <2>5. CASE handler = "event"
    <3>1. CASE pc \in {"do_send", "send"}
      <4>1. transport = "sctp" /\ posts <= 0
        BY <2>1, <3>1 DEF Control, Posted
      <4>2. QED
        BY <2>5, <4>1 DEF PostsBounded
    <3>2. CASE pc \in {"next", "tx", "rx"}
      <4>1. /\ k \in Nat /\ k <= clqty /\ attempt \in Nat /\ attempt <= Attempts /\ rxcounter \in Nat
            /\ pc \in {"tx", "rx"} => k + 1 <= clqty
        BY <2>1, <3>2, Constants DEF TcpTypeOK, Quarter, Copied
      <4>2. PICK kP \in Nat : kP = k * PerClient /\ (k + 1) * PerClient = kP + PerClient
        BY <4>1, Constants, Products
      <4>3. kP <= inEvent
        BY <2>2, <4>1, <4>2, Constants, Products
      <4>4. pc \in {"tx", "rx"} => kP + PerClient <= inEvent
        <5>1. k + 1 \in Nat
          BY <4>1
        <5>2. QED
          BY <2>2, <4>1, <4>2, <5>1, Constants, Products
      <4>5. PICK aQ \in Nat : aQ = attempt * Quarter /\ aQ <= PerClient
        BY <4>1, Constants, Products DEF PerClient
      <4>6. CASE pc = "next"
        <5>1. posts <= kP
          BY <2>1, <4>2, <4>6 DEF Posted
        <5>2. posts <= inEvent
          BY <2>2, <2>3, <4>3, <5>1
        <5>3. transport = "tcp"
          BY <2>1, <4>6 DEF Control
        <5>4. QED
          BY <2>5, <5>2, <5>3 DEF PostsBounded
      <4>7. CASE pc = "tx"
        <5>1. posts <= kP + aQ
          BY <2>1, <4>2, <4>5, <4>7 DEF Posted
        <5>2. posts <= inEvent
          BY <2>2, <2>3, <4>4, <4>5, <4>7, <5>1, Constants
        <5>3. transport = "tcp"
          BY <2>1, <4>7 DEF Control
        <5>4. QED
          BY <2>5, <5>2, <5>3 DEF PostsBounded
      <4>8. CASE pc = "rx"
        <5>1. attempt >= 1 /\ rxcounter <= Quarter
          BY <2>1, <4>8 DEF Posted
        <5>2. PICK less \in Nat : less = (attempt - 1) * Quarter /\ less + Quarter = aQ
          BY <4>1, <4>5, <5>1, Constants, Products
        <5>3. posts <= kP + less + rxcounter
          BY <2>1, <4>2, <4>8, <5>2 DEF Posted
        <5>4. posts <= inEvent
          BY <2>2, <2>3, <4>1, <4>4, <4>5, <4>8, <5>1, <5>2, <5>3, Constants
        <5>5. transport = "tcp"
          BY <2>1, <4>8 DEF Control
        <5>6. QED
          BY <2>5, <5>4, <5>5 DEF PostsBounded
      <4>9. QED
        BY <3>2, <4>6, <4>7, <4>8
    <3>3. QED
      BY <2>1, <2>5, <3>1, <3>2 DEF Control, HandlerTypes
  <2>6. CASE handler = "none"
    <3>1. posts <= inTimer \/ posts <= inEvent
      BY <2>1, <2>2, <2>6 DEF Control, Posted
    <3>2. inTimer <= Max({inTimer, inEvent}) /\ inEvent <= Max({inTimer, inEvent})
      BY <2>2, MaxIs
    <3>3. Max({inTimer, inEvent}) \in Nat
      BY <2>2 DEF Max
    <3>4. posts <= Max({inTimer, inEvent})
      BY <2>2, <2>3, <3>1, <3>2, <3>3
    <3>5. QED
      BY <2>6, <3>4 DEF PostsBounded
  <2>7. QED
    BY <2>1, <2>4, <2>5, <2>6 DEF HandlerTypes
<1>2. QED
  BY <1>1, Invariant, PTL

\* What is new in a connection's account is what was due.
LEMMA Follows ==
  ASSUME NEW s \in Seq(1 .. MaxGiven), NEW m \in 1 .. MaxGiven, NEW first, NEW excused,
         NextIs(m, s, first, excused)
  PROVE  LET got == Append(s, m)
             n   == Len(got)
         IN  IF n = 1 THEN got[1] <= first \/ excused ELSE got[n] = got[n - 1] + 1
<1> DEFINE got == Append(s, m)
<1>1. /\ Len(s) \in Nat /\ Len(got) = Len(s) + 1
      /\ got[Len(got)] = m
  BY AppendIs
<1>2. CASE s = <<>>
  <2>1. Len(got) = 1 /\ got[1] = m
    BY <1>1, <1>2
  <2>2. m <= first \/ excused
    <3>1. first >= m \/ excused
      BY <1>2 DEF NextIs
    <3>2. QED
      BY <3>1
  <2>3. QED
    BY <2>1, <2>2
<1>3. CASE s # <<>>
  <2>1. Len(s) >= 1 /\ Len(got) # 1 /\ Len(got) - 1 = Len(s)
    BY <1>1, <1>3
  <2>2. got[Len(s)] = s[Len(s)] /\ s[Len(s)] = m - 1
    BY <1>3, <2>1 DEF NextIs
  <2>3. m - 1 + 1 = m
    OBVIOUS
  <2>4. QED
    BY <1>1, <2>1, <2>2, <2>3
<1>4. QED
  BY <1>2, <1>3

NoneLonger == \A fd \in Fd : sentOn'[fd] = sentOn[fd] \/ sentOn'[fd] = <<>>

LEMMA ReceivesNoneLonger ==
  ASSUME SlotTypes, Own, NEW got \in BOOLEAN, ServRecv(got)
  PROVE  NoneLonger
<1>1. CASE UNCHANGED account
  BY <1>1 DEF account, NoneLonger
<1>2. ASSUME NEW next \in [ClientNo -> Fd \cup {Vacant}], Admits(next)
      PROVE  NoneLonger
  <2>1. CASE calling /\ Vacancy # {}
    <3>1. sentOn' = [sentOn EXCEPT ![FreeFd] = <<>>]
      BY <1>2, <2>1 DEF Admits
    <3>2. QED
      BY <3>1 DEF SlotTypes, NoneLonger
  <2>2. CASE ~ (calling /\ Vacancy # {})
    BY <1>1, <1>2, <2>2 DEF Admits
  <2>3. QED
    BY <2>1, <2>2
<1>3. QED
  BY <1>1, <1>2 DEF ServRecv, Refuses

\* Message m is the next one for the client in slot s, and goes out on it.
SendsDue(s, m) ==
  /\ s \in ClientNo /\ cl[s] # Vacant /\ m \in 1 .. MaxGiven
  /\ NextIs(m, sentOn[cl[s]], since[cl[s]], lapsed)
  /\ sentOn' = [sentOn EXCEPT ![cl[s]] = Append(@, m)]

LEMMA StepSends ==
  ASSUME IInv, [Next]_serverVars
  PROVE  NoneLonger \/ \E s \in ClientNo, m \in 1 .. MaxGiven : SendsDue(s, m)
<1>1. /\ SlotTypes /\ HandlerTypes /\ SctpTypeOK /\ TcpTypeOK /\ Own /\ Control /\ Copied
      /\ TcpDue /\ SctpDue /\ TypeOK
  BY TypeParts DEF IInv
<1>2. CASE UNCHANGED sentOn
  BY <1>2 DEF NoneLonger
<1>3. CASE TimerRecv \/ TxReceives
  <2>1. PICK got \in BOOLEAN : ServRecv(got)
    BY <1>3, TxReceivesIs DEF TimerRecv
  <2>2. QED
    BY <1>1, <2>1, ReceivesNoneLonger
<1>4. CASE transport = "sctp" /\ SendOk
  <2>1. /\ pc = "send" /\ j \in ClientNo /\ cl[j] # Vacant /\ At = j
        /\ sentOn' = [sentOn EXCEPT ![cl[j]] = Append(@, txbuffer[get_ptr])]
    BY <1>1, <1>4, Constants DEF SendOk, AtClient, HasSent, SctpTypeOK, ClientNo, At
  <2>2. PICK n \in 0 .. SCTP_FIFO_SIZE - 1 : n <= given /\ InFifo(n) /\ ClientsDue(n)
    BY <1>1, <1>4 DEF SctpDue
  <2>3. txbuffer[get_ptr] = given - n + 1 /\ given - n + 1 \in 1 .. MaxGiven
    BY <1>1, <2>1, <2>2, HeadIs, HeadTyped DEF Control
  <2>4. j >= At
    BY <2>1, Constants DEF ClientNo
  <2>5. Due(cl[j], given - n + 1)
    BY <2>1, <2>2, <2>4 DEF ClientsDue
  <2>6. SendsDue(j, given - n + 1)
    BY <2>1, <2>3, <2>5 DEF SendsDue, Due
  <2>7. QED
    BY <2>1, <2>3, <2>6
<1>5. CASE transport = "tcp" /\ TxOk
  <2>1. /\ pc = "tx" /\ k \in ClientNo /\ sock = k + 1 /\ given \in 1 .. MaxGiven
        /\ cl[k] = sock /\ cl[k] # Vacant
    BY <1>1, <1>5, Constants, OpenIs
    DEF TxOk, Copied, Control, SlotTypes, ClientNo, TcpTypeOK, Vacant
  <2>2. k >= k
    BY <2>1, Constants DEF ClientNo
  <2>3. Due(cl[k], given)
    BY <1>1, <1>5, <2>1, <2>2 DEF TcpDue
  <2>4. SendsDue(k, given)
    BY <1>5, <2>1, <2>3 DEF SendsDue, Due, TxOk, HasSent
  <2>5. QED
    BY <2>1, <2>4
<1>6. CASE SctpRun
  BY <1>2, <1>3, <1>4, <1>6
  DEF SctpRun, SctpRuns, SctpTimer, DoSendNothing, DoSendStarts, SendSkips, SendAgain, SendFails,
      SendDone, account
<1>7. CASE TcpRun
  BY <1>2, <1>3, <1>5, <1>7
  DEF TcpRun, TcpRuns, TcpTimer, TcpSkips, TcpClient, TcpEnds, TxIncomplete, TxInterrupted,
      TxFails, account
<1>8. CASE Given
  BY <1>2, <1>8 DEF Given, SctpEvent, TcpEvent
<1>9. CASE Asps
  BY <1>1, <1>2, <1>9, AspsAre DEF account
<1>10. CASE UNCHANGED serverVars
  BY <1>2, <1>10 DEF serverVars, slotVars, account
<1>11. QED
  BY <1>6, <1>7, <1>8, <1>9, <1>10 DEF Next

\* A connection gets the messages in the order in which MTP3 gave them, each
\* once and none left out, over clients that block, fail and are replaced: a
\* do_send() that was stopped goes on with the client it was stopped at, and
\* a connection accepted meanwhile starts where its slot was left.
THEOREM MessagesInOrder == Spec => EveryMessage
<1>1. IInv /\ [Next]_serverVars => [\A fd \in Fd :
        LET got == sentOn'[fd]
            n   == Len(got)
        IN  n > Len(sentOn[fd]) =>
              IF n = 1 THEN got[1] <= since[fd] \/ lapsed ELSE got[n] = got[n - 1] + 1]_serverVars
  <2> SUFFICES ASSUME IInv, [Next]_serverVars, NEW fd \in Fd, Len(sentOn'[fd]) > Len(sentOn[fd])
               PROVE  LET got == sentOn'[fd]
                          n   == Len(got)
                      IN  IF n = 1 THEN got[1] <= since[fd] \/ lapsed ELSE got[n] = got[n - 1] + 1
    OBVIOUS
  <2>1. SlotTypes
    BY TypeParts DEF IInv
  <2>2. sentOn[fd] \in Seq(1 .. MaxGiven) /\ Len(sentOn[fd]) \in Nat
    BY <2>1 DEF SlotTypes
  <2>3. sentOn'[fd] # sentOn[fd] /\ sentOn'[fd] # <<>>
    BY <2>2
  <2>4. PICK s \in ClientNo, m \in 1 .. MaxGiven : SendsDue(s, m)
    BY <2>3, StepSends DEF NoneLonger
  <2>5. fd = cl[s] /\ sentOn'[fd] = Append(sentOn[fd], m)
    BY <2>1, <2>3, <2>4 DEF SendsDue, SlotTypes
  <2>6. NextIs(m, sentOn[fd], since[fd], lapsed)
    BY <2>4, <2>5 DEF SendsDue
  <2>7. QED
    BY <2>2, <2>5, <2>6, Follows
<1>2. QED
  BY <1>1, Invariant, PTL DEF Spec, EveryMessage
=============================================================================
