---------------------------- MODULE ClientSlots ----------------------------
(***************************************************************************)
(* What the SCTP server and the TCP server have in common: the slots for   *)
(* connected ASPs, serv_recv(), and timer()'s receive loop.  The kernel    *)
(* and the ASPs are external: a connection request waits or not, and each  *)
(* connection holds what the ASP has sent and serv_recv() has not read.    *)
(*                                                                         *)
(* The messages that MTP3 gives to the server are numbered 1, 2, ...       *)
(***************************************************************************)
EXTENDS Integers, Sequences, FiniteSets, FiniteSetsExt

CONSTANTS
  clqty,             \* CLQTY
  MAX_MSG_PER_TICK,
  MaxGiven,          \* bound: messages that MTP3 gives to the server
  MaxInbox           \* bound: what an ASP sends before it is read

ASSUME ClientAssumption ==
  /\ clqty \in Nat \ {0}
  /\ MAX_MSG_PER_TICK \in Nat
  /\ {MaxGiven, MaxInbox} \subseteq Nat

ClientNo == 0 .. clqty - 1
\* Socket descriptors; Vacant is 0xFFFF.
Fd     == 1 .. clqty
Vacant == 0
\* What an ASP sends: a message, or what is never returned: a length that is too
\* big, the end of the connection.  After an interruption the rest of a message
\* may be left.
Item == {"message", "rest", "nonsense"}

VARIABLES
  cl,         \* [ClientNo -> Fd \cup {Vacant}]
  calling,    \* a connection request waits at req_sock
  inbox,      \* [Fd -> Seq(Item)]
  pc,         \* where the handler is
  handler,    \* the handler that runs, "none" between two calls
  posts,      \* what this call has posted to MTP3
  given,      \* history: messages that MTP3 has given to the server
  sentOn,     \* history: [Fd -> Seq(Nat)], the messages sent whole on a connection
  since       \* history: until a connection gets its first message, the number of
              \* the first one given after it was accepted

sockets  == <<cl, calling, inbox>>
control  == <<pc, handler, posts>>
account  == <<given, sentOn, since>>
slotVars == <<sockets, control, account>>

Open   == {cl[i] : i \in ClientNo} \ {Vacant}
FreeFd == Min(Fd \ Open)
Ready  == {i \in ClientNo : cl[i] # Vacant /\ inbox[cl[i]] # <<>>}
Vacancy == {i \in ClientNo : cl[i] = Vacant}

-----------------------------------------------------------------------------
(* The ASPs.                                                               *)

Calls ==
  /\ ~ calling
  /\ calling' = TRUE
  /\ UNCHANGED <<cl, inbox, control, account>>

AspSends(fd, item) ==
  /\ fd \in Open
  /\ Len(inbox[fd]) < MaxInbox
  /\ inbox' = [inbox EXCEPT ![fd] = Append(@, item)]
  /\ UNCHANGED <<cl, calling, control, account>>

-----------------------------------------------------------------------------
(* serv_recv().  select() looks at the sockets there are; one request is   *)
(* accepted into the first vacant slot; the first client that was readable *)
(* is read.  got says whether a message is returned.                       *)

\* The clients after the accept, which may fail or find no request or no slot.
Admits(next) ==
  IF calling /\ Vacancy # {}
  THEN /\ calling' = FALSE
       /\ next = [cl EXCEPT ![Min(Vacancy)] = FreeFd]
       /\ since' = [since EXCEPT ![FreeFd] = given + 1]
       /\ sentOn' = [sentOn EXCEPT ![FreeFd] = <<>>]
       /\ UNCHANGED given
  ELSE next = cl /\ UNCHANGED <<calling, account>>

Refuses ==
  /\ calling /\ Vacancy # {}
  /\ calling' = FALSE
  /\ UNCHANGED <<cl, inbox, account>>

\* Closes the client in slot i; its descriptor is free again.
Drops(i, next) ==
  /\ cl' = [next EXCEPT ![i] = Vacant]
  /\ inbox' = [inbox EXCEPT ![cl[i]] = <<>>]

\* Mutant: after a client was closed the caller goes on receiving.
ReadsOn(i, next, got) ==
  \/ got /\ Drops(i, next)
  \/ got /\ Head(inbox[cl[i]]) # "nonsense" /\ cl' = next
         /\ inbox' = [inbox EXCEPT ![cl[i]] = Tail(@)]

\* recv() of the header and of the rest, from the first client that is ready.
Reads(i, next, got) ==
  LET item == Head(inbox[cl[i]])
      rest == Tail(inbox[cl[i]])
      Leaves(items) == cl' = next /\ inbox' = [inbox EXCEPT ![cl[i]] = items]
  IN  \/ got /\ item \in {"message", "rest"} /\ Leaves(rest)
      \/ ~ got /\ Drops(i, next)                                \* too long, the end, an error
      \/ ~ got /\ Leaves(inbox[cl[i]])                          \* EINTR before the header
      \/ ~ got /\ item = "message" /\ Leaves(<<"rest">> \o rest) \* EINTR after the header

ServRecv(got) ==
  \/ ~ got /\ UNCHANGED <<sockets, account>>                    \* select: EINTR
  \/ ~ got /\ Refuses                                           \* accept, setsockopt failed
  \/ \E next \in [ClientNo -> Fd \cup {Vacant}] :
       /\ Admits(next)
       /\ \/ Ready = {} /\ ~ got /\ cl' = next /\ UNCHANGED inbox
          \/ Ready # {} /\ Reads(Min(Ready), next, got)

\* One pass of timer()'s loop: `if(cntr++ > MAX_MSG_PER_TICK) return;'.
\* Mutant: the limit is off by one more.
LastPassLate == posts > MAX_MSG_PER_TICK + 1
LastPass == posts > MAX_MSG_PER_TICK
TimerRecv ==
  /\ pc = "recv"
  /\ \E got \in BOOLEAN :
       /\ ServRecv(got)
       /\ posts' = IF got THEN posts + 1 ELSE posts
       /\ IF got /\ ~ LastPass
          THEN UNCHANGED <<pc, handler>>
          ELSE pc' = "idle" /\ handler' = "none"

-----------------------------------------------------------------------------
SlotsInit ==
  /\ cl = [i \in ClientNo |-> Vacant]
  /\ calling = FALSE
  /\ inbox = [fd \in Fd |-> <<>>]
  /\ pc = "idle"
  /\ handler = "none"
  /\ posts = 0
  /\ given = 0
  /\ sentOn = [fd \in Fd |-> <<>>]
  /\ since = [fd \in Fd |-> 0]

Begins(name, at) ==
  /\ pc = "idle"
  /\ handler' = name
  /\ pc' = at
  /\ posts' = 0

\* A message has gone out on a connection, whole.
HasSent(fd, m) ==
  /\ sentOn' = [sentOn EXCEPT ![fd] = Append(@, m)]
  /\ since' = [since EXCEPT ![fd] = 0]
  /\ UNCHANGED given
=============================================================================
