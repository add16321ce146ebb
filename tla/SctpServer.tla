----------------------------- MODULE SctpServer -----------------------------
(***************************************************************************)
(* Class SCTPSERVER (sctp-simple-srv.cpp).  event() puts a message into a  *)
(* ring of SCTP_FIFO_SIZE, and do_send() sends the first of them to all    *)
(* clients in turn.  A client that would block stops it there: the next    *)
(* event() or timer() goes on with the same client.                        *)
(***************************************************************************)
EXTENDS ClientSlots

CONSTANT SCTP_FIFO_SIZE

ASSUME FifoAssumption == SCTP_FIFO_SIZE \in Nat \ {0, 1}

Place == 0 .. SCTP_FIFO_SIZE - 1

VARIABLES
  txbuffer, put_ptr, get_ptr,
  client_id_to_start_with,
  j, res,     \* do_send(): the client at hand, and whether one was sent to
  lapsed      \* history: the FIFO was full while client_id_to_start_with # 0

fifo     == <<txbuffer, put_ptr, get_ptr>>
sctpVars == <<fifo, client_id_to_start_with, j, res, lapsed>>

\* Mutant: no return to the first place.
NextPlaceStraight(p) == p + 1
NextPlace(p) == (p + 1) % SCTP_FIFO_SIZE
-----------------------------------------------------------------------------
\* The end of `while(do_send());': timer() goes on to receive.
LoopEnds ==
  /\ pc' = IF handler = "timer" THEN "recv" ELSE "idle"
  /\ handler' = IF handler = "timer" THEN handler ELSE "none"
  /\ j' = 0
  /\ res' = FALSE
  /\ UNCHANGED posts

SctpTimer ==
  /\ Begins("timer", "do_send")
  /\ UNCHANGED <<sockets, account, sctpVars>>

\* serv_send(): when the ring has gone round, all clients are closed and
\* everything in it is forgotten.
SctpEvent ==
  /\ given < MaxGiven
  /\ Begins("event", "do_send")
  /\ given' = given + 1
  /\ txbuffer' = [txbuffer EXCEPT ![put_ptr] = given + 1]
  /\ put_ptr' = NextPlace(put_ptr)
  /\ IF NextPlace(put_ptr) = get_ptr
     THEN /\ cl' = [i \in ClientNo |-> Vacant]
          /\ inbox' = [fd \in Fd |-> <<>>]
          /\ lapsed' = (lapsed \/ client_id_to_start_with # 0)
     ELSE UNCHANGED <<cl, inbox, lapsed>>
  /\ UNCHANGED <<calling, sentOn, since, get_ptr, client_id_to_start_with, j, res>>

DoSendNothing ==
  /\ pc = "do_send"
  /\ put_ptr = get_ptr
  /\ LoopEnds
  /\ UNCHANGED <<sockets, account, fifo, client_id_to_start_with, lapsed>>

DoSendStarts ==
  /\ pc = "do_send"
  /\ put_ptr # get_ptr
  /\ pc' = "send"
  /\ j' = client_id_to_start_with
  /\ res' = FALSE
  /\ UNCHANGED <<sockets, handler, posts, account, fifo, client_id_to_start_with, lapsed>>

AtClient == pc = "send" /\ j < clqty /\ cl[j] # Vacant

SendSkips ==
  /\ pc = "send"
  /\ j < clqty
  /\ cl[j] = Vacant
  /\ j' = j + 1
  /\ UNCHANGED <<sockets, control, account, fifo, client_id_to_start_with, res, lapsed>>

SendOk ==
  /\ AtClient
  /\ HasSent(cl[j], txbuffer[get_ptr])
  /\ j' = j + 1
  /\ res' = TRUE
  /\ UNCHANGED <<sockets, control, fifo, client_id_to_start_with, lapsed>>

\* Mutant: the next call starts with the first client again.
SendAgainForgets ==
  /\ AtClient
  /\ LoopEnds
  /\ UNCHANGED <<sockets, account, fifo, client_id_to_start_with, lapsed>>

SendAgain ==    \* EINTR, EAGAIN
  /\ AtClient
  /\ client_id_to_start_with' = j
  /\ LoopEnds
  /\ UNCHANGED <<sockets, account, fifo, lapsed>>

SendFails ==
  /\ AtClient
  /\ Drops(j, cl)
  /\ j' = j + 1
  /\ UNCHANGED <<calling, control, account, fifo, client_id_to_start_with, res, lapsed>>

\* Mutant: a message that nobody could get is kept.
SendDoneKeeps ==
  /\ pc = "send"
  /\ j = clqty
  /\ client_id_to_start_with' = 0
  /\ get_ptr' = IF res THEN NextPlace(get_ptr) ELSE get_ptr
  /\ IF res THEN pc' = "do_send" /\ UNCHANGED <<handler, posts, j, res>> ELSE LoopEnds
  /\ UNCHANGED <<sockets, account, txbuffer, put_ptr, lapsed>>

\* The message is done with, even when there was nobody to send it to; the
\* loop goes on only when there was.
SendDone ==
  /\ pc = "send"
  /\ j = clqty
  /\ client_id_to_start_with' = 0
  /\ get_ptr' = NextPlace(get_ptr)
  /\ IF res THEN pc' = "do_send" /\ UNCHANGED <<handler, posts, j, res>> ELSE LoopEnds
  /\ UNCHANGED <<sockets, account, txbuffer, put_ptr, lapsed>>

SctpInit ==
  /\ txbuffer = [p \in Place |-> 0]
  /\ put_ptr = 0
  /\ get_ptr = 0
  /\ client_id_to_start_with = 0
  /\ j = 0
  /\ res = FALSE
  /\ lapsed = FALSE

\* timer() and event() up to their ends.
SctpRuns ==
  \/ SctpTimer \/ DoSendNothing \/ DoSendStarts
  \/ SendSkips \/ SendOk \/ SendAgain \/ SendFails \/ SendDone
  \/ TimerRecv /\ UNCHANGED sctpVars

SctpTypeOK ==
  /\ txbuffer \in [Place -> 0 .. MaxGiven]
  /\ put_ptr \in Place
  /\ get_ptr \in Place
  /\ client_id_to_start_with \in ClientNo
  /\ j \in 0 .. clqty
  /\ res \in BOOLEAN
  /\ lapsed \in BOOLEAN
=============================================================================
