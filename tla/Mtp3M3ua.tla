----------------------------- MODULE Mtp3M3ua -----------------------------
(***************************************************************************)
(* The MTP3/M3UA process of the gateway, class SS7MTPM3UA                  *)
(* (m3ua-gateway/ss7-mtp3-m3ua/ss7mtp_m3ua.cpp, m3ua.cpp), and the message *)
(* queue of main() that drives every process (ss7main.cpp).                *)
(*                                                                         *)
(* A handler takes the first message of msgqueue and may post others at    *)
(* its end.  Processes are numbered as in procqueue: the links first, then *)
(* MTP3, then the server towards the application servers (ASPs).           *)
(***************************************************************************)
EXTENDS Integers, Sequences, FiniteSets

CONSTANTS
  linkqty,                   \* number of links (1 .. 16)
  sltT1value, sltT2value,    \* ticks to wait for SLTA, and between two SLTMs
  sltQty,                    \* number of SLTMs to send
  Labelled                   \* opc and dpc are configured: txlabel is not 0

ASSUME LinkAssumption == linkqty \in Nat \ {0}
ASSUME SltAssumption  == sltT1value \in Nat /\ sltT2value \in Nat /\ sltQty \in Nat \ {0}
ASSUME LabelAssumption == Labelled \in BOOLEAN

LinkNo == 0 .. linkqty - 1
Mtp    == linkqty
Server == linkqty + 1
Proc   == 0 .. linkqty + 1

Sls == 0 .. 15
\* What arrives in MSUs, and what is sent: MNG is a management message that
\* is only logged, OTHER belongs to a user part that is not served.
MtpKind  == {"SLTM", "SLTA", "TFP", "TFA", "COO", "COA", "CBD", "CBA", "MNG", "USER", "OTHER"}
M3uaKind == {"DATA", "DUNA", "DAVA", "ASPUP", "ASPUP_ACK", "ASPDN", "ASPAC", "ASPAC_ACK",
             "NTFY_INACTIVE", "NTFY_ACTIVE", "OTHER"}
Message == [msg  : {"TIMER", "LINKTRANSFER", "LINKRESET", "LINKPAUSE", "LINKRESUME", "M3UATRANSFER"},
            dest : Proc, src : Proc,
            kind : MtpKind \cup M3uaKind \cup {"NONE"}, sls : Sls]

VARIABLES
  state,        \* number of links in service, as far as MTP3 knows
  linkstatus,   \* [LinkNo -> {0, 1}]
  Wait4slta,    \* [LinkNo -> Nat]: SLTMs sent and not answered
  sltT1, sltT2, \* ticks since the last SLTM
  msgqueue,     \* msgqueue[execmsg .. lastmsg - 1]
  told          \* history: the last of ASPUP and ASPDN posted to the server

mtpVars == <<state, linkstatus, Wait4slta, sltT1, sltT2, told>>

-----------------------------------------------------------------------------
Received == Head(msgqueue)

\* The message that main() passes to process p, and what p posts meanwhile.
Gets(p, msg) == msgqueue # <<>> /\ Received.dest = p /\ Received.msg = msg
\* A queue that hands out the newest messages first.
PostsFirst(seq) == msgqueue' = seq \o Tail(msgqueue)
Posts(seq)   == msgqueue' = Tail(msgqueue) \o seq

ToLink(l, kind, sls) ==
  [msg |-> "LINKTRANSFER", dest |-> l, src |-> Mtp, kind |-> kind, sls |-> sls]
ToServer(kind, sls) ==
  [msg |-> "M3UATRANSFER", dest |-> Server, src |-> Mtp, kind |-> kind, sls |-> sls]
LinkReset(l) ==
  [msg |-> "LINKRESET", dest |-> l, src |-> Mtp, kind |-> "NONE", sls |-> 0]
TimerTo(p) ==
  [msg |-> "TIMER", dest |-> p, src |-> p, kind |-> "NONE", sls |-> 0]

Aspup == <<ToServer("ASPUP", 0)>>
Aspdn == <<ToServer("ASPDN", 0)>>
Sltm(l) == ToLink(l, "SLTM", 0)

Alive(status) == {l \in LinkNo : status[l] # 0}
\* A count that forgets the last link.
CountShort(status) == Cardinality(Alive(status) \ {linkqty - 1})
CountOn(status) == state + Cardinality(Alive(status))     \* state is not set to 0 before
Count(status) == Cardinality(Alive(status))

-----------------------------------------------------------------------------
(* timer(): SLTMs are repeated, a link whose test stays unanswered is reset. *)

Late(t, value) == t + 1 > value
Repeats(l) == Late(sltT2[l], sltT2value) /\ Wait4slta[l] # 0 /\ Wait4slta[l] < sltQty
TimesOut(l) == ~ Repeats(l) /\ Late(sltT1[l], sltT1value) /\ Wait4slta[l] >= sltQty

\* The counters are only compared with their limits.
CountTo(t, value) == IF t <= value THEN t + 1 ELSE t

\* One message per link at most, in the order of the links.
TimerPost(l) == IF TimesOut(l) THEN LinkReset(l) ELSE Sltm(l)
Due == {l \in LinkNo : TimesOut(l) \/ (Repeats(l) /\ Labelled)}
TimerPosts == {seq \in [1 .. Cardinality(Due) -> {TimerPost(l) : l \in Due}] :
                 \A i, j \in DOMAIN seq : i < j => seq[i].dest < seq[j].dest}

Timer ==
  /\ Gets(Mtp, "TIMER")
  /\ sltT1' = [l \in LinkNo |-> IF Repeats(l) \/ TimesOut(l) THEN 0 ELSE CountTo(sltT1[l], sltT1value)]
  /\ sltT2' = [l \in LinkNo |-> IF Repeats(l) \/ TimesOut(l) THEN 0 ELSE CountTo(sltT2[l], sltT2value)]
  /\ Wait4slta' = [l \in LinkNo |-> IF Repeats(l) THEN Wait4slta[l] + 1
                                    ELSE IF TimesOut(l) THEN 0 ELSE Wait4slta[l]]
  /\ \E seq \in TimerPosts : Posts(seq)
  /\ UNCHANGED <<state, linkstatus, told>>

-----------------------------------------------------------------------------
(* event(): a message that a link has received, SS7_LINKTRANSFER.          *)

FromLink(kinds) == Gets(Mtp, "LINKTRANSFER") /\ Received.kind \in kinds

RxSltm ==
  /\ FromLink({"SLTM"})
  /\ Posts(<<ToLink(Received.src, "SLTA", 0)>>)
  /\ UNCHANGED mtpVars

RxSlta ==
  /\ FromLink({"SLTA"})
  /\ Wait4slta' = [Wait4slta EXCEPT ![Received.src] = 0]
  /\ linkstatus' = [linkstatus EXCEPT ![Received.src] = 1]
  /\ state' = Count(linkstatus')
  /\ IF state = 0 THEN told' = "ASPUP" /\ Posts(Aspup) ELSE UNCHANGED told /\ Posts(<<>>)
  /\ UNCHANGED <<sltT1, sltT2>>

\* Everything but the link test is dropped while no link is in service.
RxPaused ==
  /\ FromLink(MtpKind \ {"SLTM", "SLTA"})
  /\ state = 0
  /\ Posts(<<>>)
  /\ UNCHANGED mtpVars

\* Changeover and changeback orders are confirmed for links that exist.
Confirms(m, order, ack) ==
  IF m.kind = order /\ m.sls < linkqty THEN <<ToLink(m.src, ack, m.sls)>> ELSE <<>>

RxManagement ==
  /\ FromLink({"TFP", "TFA", "COO", "COA", "CBD", "CBA", "MNG"})
  /\ state # 0
  /\ Posts(CASE Received.kind = "TFP" -> <<ToServer("DUNA", 0)>>
             [] Received.kind = "TFA" -> <<ToServer("DAVA", 0)>>
             [] OTHER -> Confirms(Received, "COO", "COA") \o Confirms(Received, "CBD", "CBA"))
  /\ UNCHANGED mtpVars

\* post_DATA(): ISUP and SCCP are passed on, the rest is not served.
RxUser ==
  /\ FromLink({"USER", "OTHER"})
  /\ state # 0
  /\ Posts(IF Received.kind = "USER" THEN <<ToServer("DATA", Received.sls)>> ELSE <<>>)
  /\ UNCHANGED mtpVars

-----------------------------------------------------------------------------
(* event(): the service notifications of the links.                        *)

LinkPause ==
  /\ Gets(Mtp, "LINKPAUSE")
  /\ linkstatus' = [linkstatus EXCEPT ![Received.src] = 0]
  /\ state' = Count(linkstatus')
  /\ IF state' = 0 THEN told' = "ASPDN" /\ Posts(Aspdn) ELSE UNCHANGED told /\ Posts(<<>>)
  /\ UNCHANGED <<Wait4slta, sltT1, sltT2>>

\* A link comes up and is not tested before the timer does it.
LinkResumeUntested ==
  Gets(Mtp, "LINKRESUME") /\ Posts(<<>>) /\ UNCHANGED mtpVars
LinkResume ==
  /\ Gets(Mtp, "LINKRESUME")
  /\ Wait4slta' = [Wait4slta EXCEPT ![Received.src] = @ + 1]
  /\ sltT1' = [sltT1 EXCEPT ![Received.src] = 0]
  /\ sltT2' = [sltT2 EXCEPT ![Received.src] = 0]
  /\ Posts(<<Sltm(Received.src)>>)
  /\ UNCHANGED <<state, linkstatus, told>>

-----------------------------------------------------------------------------
(* msg_from_sctp(): what an ASP has sent, SS7_M3UATRANSFER.                *)

FromAsp(kinds) == Gets(Mtp, "M3UATRANSFER") /\ Received.kind \in kinds

\* selectLink(): the link for sls, or the next one that is in service.
Candidate(sls, i) == (sls + i) % linkqty
SelectLink(sls) ==
  IF Alive(linkstatus) = {} THEN Candidate(sls, 0)
  ELSE Candidate(sls, CHOOSE i \in LinkNo :
         /\ Candidate(sls, i) \in Alive(linkstatus)
         /\ \A j \in 0 .. i - 1 : Candidate(sls, j) \notin Alive(linkstatus))

AspData ==
  /\ FromAsp({"DATA"})
  /\ LET user == <<ToLink(SelectLink(Received.sls), "USER", Received.sls)>>
     IN  IF Alive(linkstatus) = {}
         THEN state' = 0 /\ told' = "ASPDN" /\ Posts(Aspdn \o user)
         ELSE UNCHANGED <<state, told>> /\ Posts(user)
  /\ UNCHANGED <<linkstatus, Wait4slta, sltT1, sltT2>>

AspManagement ==
  /\ FromAsp(M3uaKind \ {"DATA"})
  /\ Posts(CASE Received.kind = "ASPUP" -> <<ToServer("ASPUP_ACK", 0), ToServer("NTFY_INACTIVE", 0)>>
             [] Received.kind = "ASPAC" -> <<ToServer("ASPAC_ACK", 0), ToServer("NTFY_ACTIVE", 0)>>
             [] Received.kind \in {"ASPUP_ACK", "NTFY_INACTIVE"} -> <<ToServer("ASPAC", 0)>>
             [] OTHER -> <<>>)
  /\ UNCHANGED mtpVars

-----------------------------------------------------------------------------
\* start().
MtpInit ==
  /\ state = 0
  /\ linkstatus = [l \in LinkNo |-> 0]
  /\ Wait4slta = [l \in LinkNo |-> 0]
  /\ sltT1 = [l \in LinkNo |-> 0]
  /\ sltT2 = [l \in LinkNo |-> 0]
  /\ told = "ASPDN"

MtpHandler ==
  \/ Timer \/ RxSltm \/ RxSlta \/ RxPaused \/ RxManagement \/ RxUser
  \/ LinkPause \/ LinkResume \/ AspData \/ AspManagement
=============================================================================
