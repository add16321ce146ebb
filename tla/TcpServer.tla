----------------------------- MODULE TcpServer -----------------------------
(***************************************************************************)
(* Class TCPSERVER (tcp-simple-srv.cpp).  event() sends the message to one *)
(* client after the other at once.  A send() that is interrupted is tried  *)
(* again, after receiving in between; one that sends a part is continued.  *)
(* The descriptor is copied before, so that receiving may close it.        *)
(***************************************************************************)
EXTENDS ClientSlots

CONSTANT Attempts     \* 5 in serv_send()

ASSUME AttemptsAssumption == Attempts \in Nat

VARIABLES
  k,          \* serv_send(): j, the client at hand
  sock,       \* the copy of cl[k]
  attempt,
  part,       \* is "whole" or the "rest" of the message left to be sent
  rxcounter,
  half        \* history: the connections that have got a first part only

tcpVars == <<k, sock, attempt, part, rxcounter, half>>
-----------------------------------------------------------------------------
TcpTimer ==
  /\ Begins("timer", "recv")
  /\ UNCHANGED <<sockets, account, tcpVars>>

TcpEvent ==
  /\ given < MaxGiven
  /\ Begins("event", "next")
  /\ given' = given + 1
  /\ k' = 0
  /\ UNCHANGED <<sockets, sentOn, since, sock, attempt, part, rxcounter, half>>

TcpSkips ==
  /\ pc = "next"
  /\ k < clqty
  /\ cl[k] = Vacant
  /\ k' = k + 1
  /\ UNCHANGED <<sockets, control, account, sock, attempt, part, rxcounter, half>>

TcpClient ==
  /\ pc = "next"
  /\ k < clqty
  /\ cl[k] # Vacant
  /\ sock' = cl[k]
  /\ attempt' = 0
  /\ part' = "whole"
  /\ pc' = "tx"
  /\ UNCHANGED <<sockets, handler, posts, account, k, rxcounter, half>>

TcpEnds ==
  /\ pc = "next"
  /\ k = clqty
  /\ pc' = "idle"
  /\ handler' = "none"
  /\ k' = 0
  /\ UNCHANGED <<sockets, posts, account, sock, attempt, part, rxcounter, half>>

\* The variables of the loop's body end with it.
NextClient ==
  /\ pc' = "next"
  /\ k' = k + 1
  /\ sock' = Vacant
  /\ attempt' = 0
  /\ part' = "whole"
  /\ rxcounter' = 0
  /\ UNCHANGED <<handler, posts>>

TxOk ==
  /\ pc = "tx"
  /\ sock \in Open
  /\ HasSent(sock, given)
  /\ half' = half \ {sock}
  /\ NextClient
  /\ UNCHANGED sockets

TxIncomplete ==
  /\ pc = "tx"
  /\ sock \in Open
  /\ part' = "rest"
  /\ half' = half \cup {sock}
  /\ UNCHANGED <<sockets, control, account, k, sock, attempt, rxcounter>>

TxInterrupted ==
  /\ pc = "tx"
  /\ sock \in Open
  /\ attempt < Attempts
  /\ attempt' = attempt + 1
  /\ rxcounter' = 0
  /\ pc' = "rx"
  /\ UNCHANGED <<sockets, handler, posts, account, k, sock, part, half>>

\* An error (a descriptor that is no longer open is one), or too many
\* interruptions: whatever is in the slot is closed.
TxFails ==
  /\ pc = "tx"
  /\ IF cl[k] = Vacant THEN UNCHANGED <<cl, inbox>> ELSE Drops(k, cl)
  /\ half' = half \ {cl[k]}
  /\ NextClient
  /\ UNCHANGED <<calling, account>>

\* The messages that come in meanwhile; the one after the last that may be
\* posted is read all the same, and forgotten.
TxReceives ==
  /\ pc = "rx"
  /\ \E got \in BOOLEAN :
       /\ ServRecv(got)
       /\ IF got /\ rxcounter < MAX_MSG_PER_TICK \div 4
          THEN posts' = posts + 1 /\ UNCHANGED pc
          ELSE pc' = "tx" /\ UNCHANGED posts
       /\ rxcounter' = IF got THEN rxcounter + 1 ELSE rxcounter
  /\ half' = half \cap {cl'[i] : i \in ClientNo}
  /\ UNCHANGED <<handler, k, sock, attempt, part>>

TcpInit ==
  /\ k = 0
  /\ sock = Vacant
  /\ attempt = 0
  /\ part = "whole"
  /\ rxcounter = 0
  /\ half = {}

TcpRuns ==
  \/ TcpTimer \/ TcpSkips \/ TcpClient \/ TcpEnds
  \/ TxOk \/ TxIncomplete \/ TxInterrupted \/ TxFails \/ TxReceives
  \/ TimerRecv /\ UNCHANGED tcpVars

TcpTypeOK ==
  /\ k \in 0 .. clqty
  /\ sock \in Fd \cup {Vacant}
  /\ attempt \in 0 .. Attempts
  /\ part \in {"whole", "rest"}
  /\ rxcounter \in 0 .. MAX_MSG_PER_TICK \div 4 + 1
  /\ half \subseteq Fd
=============================================================================
