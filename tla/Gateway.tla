------------------------------ MODULE Gateway ------------------------------
(***************************************************************************)
(* The gateway process: main() and its message queue, MTP3/M3UA, links of  *)
(* which only the service is seen (LinkService), and the server towards    *)
(* the ASPs, of which only what it posts is seen.                          *)
(*                                                                         *)
(* Every 50 ms main() posts SS7_TIMER to all processes and then hands out  *)
(* messages until msgqueue is empty.  While the first message is one for a *)
(* link or the server, that process may take steps and post; its last step *)
(* removes the message.                                                    *)
(***************************************************************************)
EXTENDS Mtp3M3ua

CONSTANTS
  FromPeer,    \* what the far end sends besides SLTA: MTP3 messages
  FromClients, \* what the ASPs send: M3UA messages
  MaxQueue,    \* bound: length of msgqueue up to which processes post more
  MaxNews,     \* bound: messages of the far ends, and of the ASPs, that wait for MTP3
  MaxWait      \* bound: Wait4slta of a link that comes up once more

ASSUME GatewayAssumption ==
  /\ FromPeer \subseteq [kind : MtpKind \ {"SLTA"}, sls : Sls]
  /\ FromClients \subseteq [kind : M3uaKind, sls : Sls]

VARIABLES
  service,   \* [LinkNo -> {"down", "up", "full"}]
  owed,      \* the far end has a SLTM that it has not answered
  offered    \* history: a message was given to the link while it was down

linkVars == <<service, owed, offered>>
vars     == <<mtpVars, msgqueue, linkVars>>

-----------------------------------------------------------------------------
(* main().                                                                 *)

Tick ==
  /\ msgqueue = <<>>
  /\ msgqueue' = [i \in 1 .. linkqty + 2 |-> TimerTo(i - 1)]
  /\ UNCHANGED <<mtpVars, linkVars>>

-----------------------------------------------------------------------------
(* The links.  SS7LINK posts within timer() and event() only.              *)

PostsToMtp(l, msg, kind, sls) ==
  /\ Len(msgqueue) < MaxQueue
  /\ msgqueue' = Append(msgqueue, [msg |-> msg, dest |-> Mtp, src |-> l, kind |-> kind, sls |-> sls])

\* What the far ends or the ASPs have sent and MTP3 has not yet seen.
News(msg) == {i \in DOMAIN msgqueue : msgqueue[i].dest = Mtp /\ msgqueue[i].msg = msg
                                        /\ msgqueue[i].kind # "SLTA"}

LinkComesUp(l) ==
  /\ Gets(l, "TIMER")
  /\ service[l] # "up"
  /\ Wait4slta[l] < MaxWait
  /\ service' = [service EXCEPT ![l] = "up"]
  /\ PostsToMtp(l, "LINKRESUME", "NONE", 0)
  /\ offered' = [offered EXCEPT ![l] = FALSE]
  /\ UNCHANGED <<mtpVars, owed>>

\* The link leaves service on an LSSU: nothing is posted.
LinkFalls(l) ==
  /\ Gets(l, "TIMER")
  /\ service[l] # "down"
  /\ service' = [service EXCEPT ![l] = "down"]
  /\ owed' = [owed EXCEPT ![l] = FALSE]
  /\ UNCHANGED <<mtpVars, msgqueue, offered>>

LinkDelivers(l) ==
  /\ Gets(l, "TIMER")
  /\ service[l] # "down"
  /\ Cardinality(News("LINKTRANSFER")) < MaxNews
  /\ \E m \in FromPeer : PostsToMtp(l, "LINKTRANSFER", m.kind, m.sls)
  /\ UNCHANGED <<mtpVars, linkVars>>

\* The far end answers a SLTM with a SLTA.
LinkAnswers(l) ==
  /\ Gets(l, "TIMER")
  /\ service[l] # "down"
  /\ owed[l]
  /\ owed' = [owed EXCEPT ![l] = FALSE]
  /\ PostsToMtp(l, "LINKTRANSFER", "SLTA", 0)
  /\ UNCHANGED <<mtpVars, service, offered>>

LinkTimerEnds(l) ==
  /\ Gets(l, "TIMER")
  /\ Posts(<<>>)
  /\ UNCHANGED <<mtpVars, linkVars>>

\* event(), SS7_LINKTRANSFER: the message is sent, the last free positions
\* are taken, or the link is not in service and says so.
LinkSends(l) ==
  LET pause == [msg |-> "LINKPAUSE", dest |-> Mtp, src |-> l, kind |-> "NONE", sls |-> 0]
  IN  /\ Gets(l, "LINKTRANSFER")
      /\ owed' = [owed EXCEPT ![l] = @ \/ (service[l] # "down" /\ Received.kind = "SLTM")]
      /\ offered' = [offered EXCEPT ![l] = @ \/ service[l] = "down"]
      /\ \/ service[l] = "up" /\ Posts(<<>>) /\ UNCHANGED service
         \/ service[l] = "up" /\ Posts(<<pause>>) /\ service' = [service EXCEPT ![l] = "full"]
         \/ service[l] # "up" /\ Posts(<<pause>>) /\ UNCHANGED service
      /\ UNCHANGED mtpVars

LinkIsReset(l) ==
  /\ Gets(l, "LINKRESET")
  /\ Posts(<<>>)
  /\ service' = [service EXCEPT ![l] = "down"]
  /\ owed' = [owed EXCEPT ![l] = FALSE]
  /\ UNCHANGED <<mtpVars, offered>>

-----------------------------------------------------------------------------
(* The server: its timer() posts what clients have sent, its event() sends. *)

ServerReceives ==
  /\ Gets(Server, "TIMER")
  /\ Len(msgqueue) < MaxQueue
  /\ Cardinality(News("M3UATRANSFER")) < MaxNews
  /\ \E m \in FromClients :
       msgqueue' = Append(msgqueue, [msg |-> "M3UATRANSFER", dest |-> Mtp, src |-> Server,
                                     kind |-> m.kind, sls |-> m.sls])
  /\ UNCHANGED <<mtpVars, linkVars>>

ServerEnds ==
  /\ Gets(Server, "TIMER") \/ Gets(Server, "M3UATRANSFER")
  /\ Posts(<<>>)
  /\ UNCHANGED <<mtpVars, linkVars>>

-----------------------------------------------------------------------------
Init ==
  /\ MtpInit
  /\ msgqueue = <<>>
  /\ service = [l \in LinkNo |-> "down"]
  /\ owed = [l \in LinkNo |-> FALSE]
  /\ offered = [l \in LinkNo |-> FALSE]

\* What runs by itself: main() and every handler.
Runs ==
  \/ Tick
  \/ MtpHandler /\ UNCHANGED linkVars
  \/ ServerEnds
  \/ \E l \in LinkNo : LinkTimerEnds(l) \/ LinkSends(l) \/ LinkIsReset(l)

Next ==
  \/ Runs
  \/ ServerReceives
  \/ \E l \in LinkNo : LinkComesUp(l) \/ LinkFalls(l) \/ LinkDelivers(l) \/ LinkAnswers(l)

Spec == Init /\ [][Next]_vars

\* main() never stops, and the far end keeps answering while the link is up.
FairSpec == Spec /\ WF_vars(Runs) /\ \A l \in LinkNo : SF_vars(LinkAnswers(l))

-----------------------------------------------------------------------------
\* Every variable has its type.
TypeOK ==
  /\ state \in 0 .. linkqty
  /\ linkstatus \in [LinkNo -> {0, 1}]
  /\ Wait4slta \in [LinkNo -> Nat]
  /\ sltT1 \in [LinkNo -> 0 .. sltT1value + 1]
  /\ sltT2 \in [LinkNo -> 0 .. sltT2value + 1]
  /\ told \in {"ASPUP", "ASPDN"}
  /\ msgqueue \in Seq(Message)
  /\ service \in [LinkNo -> {"down", "up", "full"}]
  /\ owed \in [LinkNo -> BOOLEAN]
  /\ offered \in [LinkNo -> BOOLEAN]

\* The ASPs are told about the network as MTP3 sees it: the last of ASPUP and
\* ASPDN that went to the server is ASPUP exactly when a link counts as being
\* in service.
AspTold == (told = "ASPUP") <=> (\E l \in LinkNo : linkstatus[l] # 0)

\* A message given to a dead link does not stay unnoticed: once main() has
\* emptied its queue, MTP3 no longer counts a link to which it has sent
\* something since the link left service (event() answers LINKPAUSE).
DeadLinkNoticed == msgqueue = <<>> =>
  \A l \in LinkNo : offered[l] => linkstatus[l] = 0

\* A link that stays in service is tested until MTP3 counts it for good.
TestSucceeds == \A l \in LinkNo :
  <>[](service[l] = "up") => <>[](linkstatus[l] = 1)

\* "if at least one link is alive" (ss7mtp_m3ua.cpp:293): MTP3 counts itself
\* in service only with a link that is, apart from news still in the queue.
AliveMeansAlive == msgqueue = <<>> /\ state > 0 =>
  \E l \in LinkNo : linkstatus[l] = 1 /\ service[l] # "down"
=============================================================================
