---------------------------- MODULE Ss7LinkPair ----------------------------
(***************************************************************************)
(* Two link processes joined by a signalling link: what one HDLC layer     *)
(* takes from the transmit ring of its side, it sends to the other side,   *)
(* where the SU arrives in the receive ring or is lost (noise on the line, *)
(* or no free slot).  The order of SUs is kept.                            *)
(*                                                                         *)
(* The messages that MTP3 gives to a side are numbered 1, 2, ... in the    *)
(* order of the calls, so that history can tell what was delivered, to     *)
(* what the link promises: within one period of service the messages of    *)
(* one side reach the other in order, none twice and none left out.        *)
(***************************************************************************)
EXTENDS Ss7Link

CONSTANTS
  Filters,       \* the HDLC layer drops an LSSU or FISU equal to the SU before it
  MaxSent,       \* bound: messages that MTP3 gives to one side
  MaxUndelivered,\* messages given to a side and not yet delivered by the other
  FaultKinds,    \* what may go wrong: "loss", "restart", "reset"
  MaxFaults,     \* bound: how often something goes wrong
  Scenarios      \* where a behaviour starts and its bounds: both sides in
                 \* service or just started, messages per side, faults

VARIABLES
  given,      \* history: the messages that MTP3 gave to a side
  delivered,  \* history: the last message a side posted to its MTP3
  begun,      \* history: messages of the present service period delivered?
  firsts,     \* history: the messages that were first in a service period
  arrived,    \* the last SU the HDLC layer of a side has received
  faults,     \* what has gone wrong so far
  scenario    \* the member of Scenarios that the behaviour belongs to

history  == <<given, delivered, begun, firsts, scenario>>
pairVars == <<linkVars, history, faults, arrived>>

Other(n) == CHOOSE k \in Links : k # n

ASSUME PairAssumption ==
  /\ \E x, y \in Links : x # y /\ Links = {x, y}
  /\ MaxSent \in Nat /\ MaxUndelivered \in Nat /\ MaxFaults \in Nat
  /\ Msu = 1 .. MaxSent
  /\ Scenarios \subseteq [aligned : BOOLEAN, quota : [Links -> 0 .. MaxSent],
                          faults : 0 .. MaxFaults]
  /\ FaultKinds \subseteq {"loss", "restart", "reset"}

-----------------------------------------------------------------------------
\* The part of history that follows from what a step posts and does.
Note(n) ==
  LET IsDelivery == toMtp'[n] # <<>> /\ Len(toMtp'[n]) > Len(toMtp[n])
                      /\ toMtp'[n][Len(toMtp'[n])].msg = "LINKTRANSFER"
      IsStart == state[n] = "SIE" /\ state'[n] = "IS"
  IN  /\ delivered' = IF IsDelivery
                      THEN [delivered EXCEPT ![n] = toMtp'[n][Len(toMtp'[n])].param]
                      ELSE delivered
      /\ begun' = [begun EXCEPT ![n] = IF IsDelivery THEN TRUE ELSE @ /\ ~ IsStart]
      /\ firsts' = IF IsStart THEN [firsts EXCEPT ![n] = @ \cup {given[n] + 1}] ELSE firsts
      /\ UNCHANGED <<given, scenario>>

Step(n) == Handler(n) /\ Note(n) /\ UNCHANGED <<faults, arrived>>

Give(n) ==
  /\ toMtp[n] = <<>>
  /\ given[n] < scenario.quota[n]
  /\ given[n] - delivered[Other(n)] < MaxUndelivered
  /\ LinkTransfer(n, given[n] + 1)
  /\ given' = [given EXCEPT ![n] = @ + 1]
  /\ UNCHANGED <<delivered, begun, firsts, scenario, faults, arrived>>

Fault(kind) ==
  /\ kind \in FaultKinds
  /\ faults < scenario.faults
  /\ faults' = faults + 1

Reset(n) == Fault("reset") /\ LinkReset(n) /\ UNCHANGED <<history, arrived>>

Crash(n) == Fault("restart") /\ Restart(n) /\ UNCHANGED <<history, arrived>>

\* The line takes an SU from the transmit ring.  It arrives and is put into
\* the receive ring, unless it is a repetition or finds no slot; or it is lost.
Filtered(n, su) == Filters /\ su.kind # "MSU" /\ su = arrived[n]

Arrive(n, su) ==
  /\ arrived' = [arrived EXCEPT ![n] = su]
  /\ rx' = [rx EXCEPT ![n] = IF Filtered(n, su) \/ Len(@) = Slots THEN @ ELSE Append(@, su)]

Carry(n) ==
  /\ tx[n] # <<>>
  /\ tx' = [tx EXCEPT ![n] = Tail(@)]
  /\ \/ Arrive(Other(n), Head(tx[n])) /\ UNCHANGED faults
     \/ Fault("loss") /\ UNCHANGED <<rx, arrived>>
  /\ UNCHANGED <<state, lssu, seqVars, timerVars, pc, mtpVars, history>>

Handle(n) == MtpHandles(n) /\ UNCHANGED <<history, faults, arrived>>

\* Both sides have entered service and nothing is under way.
Aligned ==
  /\ state = [n \in Links |-> "IS"]
  /\ lssu = [n \in Links |-> Ones]
  /\ last_txd = [n \in Links |-> SeqMod - 1]
  /\ tx_last_placed = [n \in Links |-> SeqMod - 1]
  /\ tx_last_ackd = [n \in Links |-> SeqMod - 1]
  /\ rx_ack_request = [n \in Links |-> FALSE]
  /\ txbuffer = [n \in Links |-> [i \in Seqno |-> NoMsu]]
  /\ T1 = [n \in Links |-> 0]
  /\ Tsig = [n \in Links |-> 0]
  /\ T4 = [n \in Links |-> T4value]
  /\ pc = [n \in Links |-> "idle"]
  /\ rx = [n \in Links |-> <<>>]
  /\ tx = [n \in Links |-> <<>>]
  /\ toMtp = [n \in Links |-> <<>>]
  /\ announced = [n \in Links |-> "LINKRESUME"]

\* Both sides have just been started, or are in service.
PairInit ==
  /\ scenario \in Scenarios
  /\ \/ scenario.aligned /\ Aligned
     \/ ~ scenario.aligned /\ Init
  /\ given = [n \in Links |-> 0]
  /\ delivered = [n \in Links |-> 0]
  /\ begun = [n \in Links |-> FALSE]
  /\ firsts = [n \in Links |-> IF scenario.aligned THEN {1} ELSE {}]
  /\ arrived = [n \in Links |-> Fisu(Ones)]
  /\ faults = 0

\* Data transfer with clocks that are unrelated; Reset and Crash, and the
\* alignment after them, are left to Ss7LinkPaced.
PairNext == \E n \in Links : Step(n) \/ Give(n) \/ Carry(n) \/ Handle(n)

DataSpec == PairInit /\ [][PairNext]_pairVars

-----------------------------------------------------------------------------
\* The types of both links, of the line and of history.
PairTypeOK ==
  /\ TypeOK
  /\ scenario \in Scenarios
  /\ given \in [Links -> 0 .. MaxSent]
  /\ \A n \in Links : given[n] <= scenario.quota[n]
  /\ delivered \in [Links -> {0, NoMsu} \cup Msu]
  /\ begun \in [Links -> BOOLEAN]
  /\ firsts \in [Links -> SUBSET (1 .. MaxSent + 1)]
  /\ arrived \in [Links -> SU]
  /\ faults \in 0 .. scenario.faults

\* A side delivers the messages of the other in the order they were given:
\* the next one after the one before, except that the first delivery of a
\* service period starts with the first message of a service period of the
\* other side.  No message is delivered twice, even over a restart.
InOrder == [][\A n \in Links : delivered'[n] # delivered[n] =>
                /\ delivered'[n] > delivered[n]
                /\ \/ begun[n] /\ delivered'[n] = delivered[n] + 1
                   \/ ~ begun[n] /\ delivered'[n] \in firsts[Other(n)]]_pairVars
=============================================================================
