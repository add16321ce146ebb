---------------------------- MODULE LinkService ----------------------------
(***************************************************************************)
(* What MTP3 sees of a link process: a service that comes up, may be full, *)
(* and ends, and the messages posted to MTP3 about it.  Ss7Link implements *)
(* it; the gateway model runs MTP3 against it.                             *)
(*                                                                         *)
(* The start of the service is always posted, its end never is: MTP3 hears *)
(* of it only by LINKPAUSE, the answer to a message for a link that cannot *)
(* take it.                                                                *)
(***************************************************************************)
EXTENDS Sequences

CONSTANTS Links, Content, NoMsu

VARIABLES
  service,   \* [Links -> {"down", "up", "full"}]
  toMtp      \* posted to MTP3 and not yet handled, per link

vars == <<service, toMtp>>

Post(n, m, c) == toMtp' = [toMtp EXCEPT ![n] = Append(@, [msg |-> m, param |-> c])]

Turns(n, from, to) == service[n] \in from /\ service' = [service EXCEPT ![n] = to]

ComesUp(n)  == Turns(n, {"down", "full"}, "up") /\ Post(n, "LINKRESUME", NoMsu)
Fills(n)    == Turns(n, {"up"}, "full") /\ Post(n, "LINKPAUSE", NoMsu)
Ends(n)     == Turns(n, {"up", "full"}, "down") /\ UNCHANGED toMtp
Refuses(n)  == service[n] # "up" /\ Post(n, "LINKPAUSE", NoMsu) /\ UNCHANGED service
Delivers(n, c) ==
  service[n] # "down" /\ Post(n, "LINKTRANSFER", c) /\ UNCHANGED service
Handled(n)  ==
  toMtp[n] # <<>> /\ toMtp' = [toMtp EXCEPT ![n] = Tail(@)] /\ UNCHANGED service
Restarts(n) ==
  /\ service' = [service EXCEPT ![n] = "down"]
  /\ toMtp' = [toMtp EXCEPT ![n] = <<>>]

Init ==
  /\ service = [n \in Links |-> "down"]
  /\ toMtp = [n \in Links |-> <<>>]

Next == \E n \in Links :
  \/ ComesUp(n) \/ Fills(n) \/ Ends(n) \/ Refuses(n)
  \/ \E c \in Content : Delivers(n, c)
  \/ Handled(n) \/ Restarts(n)

Spec == Init /\ [][Next]_vars
=============================================================================
