------------------------------ MODULE Servers ------------------------------
(***************************************************************************)
(* The server of a gateway: main() starts an SCTPSERVER or a TCPSERVER,    *)
(* as its configuration says, and calls it from then on, one handler at a  *)
(* time.  ASPs call, send and leave at any moment; send() and recv() have  *)
(* every outcome that the code tells apart.                                *)
(***************************************************************************)
EXTENDS SctpServer, TcpServer

VARIABLE transport    \* "sctp" or "tcp"

serverVars == <<slotVars, sctpVars, tcpVars, transport>>

Asps ==
  \/ Calls
  \/ \E fd \in Fd, item \in Item \ {"rest"} : AspSends(fd, item)

Init ==
  /\ SlotsInit
  /\ SctpInit
  /\ TcpInit
  /\ transport \in {"sctp", "tcp"}

SctpRun == transport = "sctp" /\ SctpRuns /\ UNCHANGED <<tcpVars, transport>>
TcpRun  == transport = "tcp" /\ TcpRuns /\ UNCHANGED <<sctpVars, transport>>

\* SS7_M3UATRANSFER from MTP3.
Given ==
  \/ transport = "sctp" /\ SctpEvent /\ UNCHANGED <<tcpVars, transport>>
  \/ transport = "tcp" /\ TcpEvent /\ UNCHANGED <<sctpVars, transport>>

Next ==
  \/ SctpRun
  \/ TcpRun
  \/ Given
  \/ Asps /\ UNCHANGED <<sctpVars, tcpVars, transport>>

Spec == Init /\ [][Next]_serverVars

\* main() goes on calling the server, and no client blocks for ever.
FairSpec ==
  /\ Spec
  /\ WF_serverVars(SctpRun)
  /\ WF_serverVars(TcpRun)
  /\ SF_serverVars(transport = "sctp" /\ SendOk /\ UNCHANGED <<tcpVars, transport>>)

-----------------------------------------------------------------------------
\* Every variable has its type.
TypeOK ==
  /\ cl \in [ClientNo -> Fd \cup {Vacant}]
  /\ calling \in BOOLEAN
  /\ inbox \in [Fd -> Seq(Item)]
  /\ pc \in {"idle", "recv", "do_send", "send", "next", "tx", "rx"}
  /\ handler \in {"none", "timer", "event"}
  /\ posts \in Nat
  /\ given \in 0 .. MaxGiven
  /\ sentOn \in [Fd -> Seq(1 .. MaxGiven)]
  /\ since \in [Fd -> 0 .. MaxGiven + 1]
  /\ SctpTypeOK
  /\ TcpTypeOK
  /\ transport \in {"sctp", "tcp"}

\* A connection gets the messages in the order in which MTP3 gave them, each
\* once and none left out from the first one given after it was accepted, over
\* clients that block, fail and are replaced, until it is closed.  (After the
\* FIFO was full while a client blocked, a new client may miss its first.)
EveryMessage == [][\A fd \in Fd :
  LET got == sentOn'[fd]
      n   == Len(got)
  IN  n > Len(sentOn[fd]) =>
        IF n = 1 THEN got[1] <= since[fd] \/ lapsed ELSE got[n] = got[n - 1] + 1]_serverVars

\* No descriptor is in two slots, and what is left of a message goes to the
\* connection that got its beginning and to no other, although serv_send()
\* keeps a copy of the descriptor while serv_recv() closes and accepts.
WholeMessages ==
  /\ \A i, n \in ClientNo : cl[i] = cl[n] /\ cl[i] # Vacant => i = n
  /\ pc \in {"tx", "rx"} /\ sock \in Open =>
       cl[k] = sock /\ (part = "rest" <=> sock \in half)
  /\ half \subseteq (IF pc \in {"tx", "rx"} THEN {sock} ELSE {})

\* One call posts a bounded number of messages to MTP3, whatever ASPs send.
PostsBounded ==
  LET inTimer == MAX_MSG_PER_TICK + 2
      inEvent == clqty * Attempts * (MAX_MSG_PER_TICK \div 4)
  IN  posts <= CASE handler = "timer" -> inTimer
                 [] handler = "event" -> IF transport = "sctp" THEN 0 ELSE inEvent
                 [] OTHER -> Max({inTimer, inEvent})

\* What MTP3 has given to the SCTP server leaves the FIFO at last.
FifoDrains == <>[](put_ptr = get_ptr)
=============================================================================
