----------------------------- MODULE Dispatcher -----------------------------
(***************************************************************************)
(* main()'s loop, post() and mem() (ss7main.cpp): every tick each process  *)
(* gets SS7_TIMER, and then the messages are handled one after the other,  *)
(* also those that the handlers post, until the ring is empty.  Buffers    *)
(* are handed out round and round and never given back.                    *)
(*                                                                         *)
(* A handler is modelled by what it does to the ring, to the buffers and   *)
(* to the log; what the processes do otherwise is in Gateway and Servers.  *)
(* The server is an SCTPSERVER.                                            *)
(***************************************************************************)
EXTENDS Integers, Sequences, FiniteSets, FiniteSetsExt

CONSTANTS
  Links,         \* links=
  MSGQUEUESIZE,
  SS7BufSize,
  Loads          \* what a tick may bring

ASSUME DispatcherAssumption ==
  /\ {Links, MSGQUEUESIZE, SS7BufSize} \subseteq Nat \ {0}
  /\ \A l \in Loads : {l.sus, l.reads, l.ticks, l.faults} \subseteq Nat /\ l.logged \in BOOLEAN

\* Processes in the order in which main() starts them.
LinkNo   == 0 .. Links - 1
Mtp      == Links
Server   == Links + 1
lastproc == Links + 2
Proc     == 0 .. lastproc - 1

NoBuf == SS7BufSize     \* a message that carries no buffer
Message == [src : Proc \cup {-1}, dest : Proc, buf : 0 .. SS7BufSize,
            msg : {"TIMER", "LINKTRANSFER", "LINKRESET", "LINKPAUSE", "LINKRESUME", "M3UATRANSFER"}]

VARIABLES
  load,       \* the member of Loads that the behaviour belongs to: the most SUs that
              \* a link finds in one tick (32 slots), the most messages that the
              \* server reads in one tick, a bound on the ticks in the life of one
              \* gateway, the most records that one call of the server logs, and
              \* whether the behaviour follows the log as well
  msgqueue, execmsg, lastmsg,
  memalloc,   \* the buffer that mem() will hand out next is &buffer[memalloc]
  execproc,
  GlobalTimer,
  msg,        \* history: the message that was handled last
  up,         \* does the gateway run
  hung        \* is it in a handler that does not return

ring           == <<msgqueue, execmsg, lastmsg>>
dispatcherVars == <<load, ring, memalloc, execproc, GlobalTimer, msg, up, hung>>
-----------------------------------------------------------------------------
(* What a handler does: it posts, uses buffers, and logs.                  *)

Does(posts, used, logs) == [posts |-> posts, used |-> used, logs |-> logs]
Nothing == Does(<<>>, 0, <<>>)

To(dest, name, buf) == [dest |-> dest, msg |-> name, buf |-> buf]
\* Mutant: no return to the first buffer.
FreshStraight(n) == memalloc + n
Fresh(n) == (memalloc + n) % SS7BufSize

InOrder(S, dest, name) == [i \in 1 .. Len(S) |-> To(dest, name, Fresh(S[i]))]
\* Some of the first n, in their order.
Chosen(n) == {S \in UNION {[1 .. k -> 0 .. n - 1] : k \in 0 .. n} :
                \A i, j \in DOMAIN S : i < j => S[i] < S[j]}

\* Every SU takes a buffer; MSUs are passed on.  The link is up again with a
\* FISU, which comes before the MSUs, or when its full buffer is empty, after them.
LinkTimer ==
  LET resume == <<To(Mtp, "LINKRESUME", NoBuf)>>
  IN  UNION {UNION {
        LET msus == InOrder(S, Mtp, "LINKTRANSFER")
        IN  {Does(msus, n, <<>>), Does(msus \o resume, n, <<"link">>)}
            \cup {Does(resume \o msus, n, <<>>) : fisu \in 0 .. n - 1 \ {S[k] : k \in DOMAIN S}}
        : S \in Chosen(n)} : n \in 0 .. load.sus}

\* Mutant: the link gives a message that it is to send back to MTP3.
LinkEventReturns(m) == {Does(<<To(Mtp, "LINKTRANSFER", m.buf)>>, 0, <<>>)}

\* A link that is down, or whose buffer is full, refuses what it is to send.
LinkEvent(m) ==
  CASE m.msg = "TIMER" -> LinkTimer
    [] m.msg = "LINKTRANSFER" ->
         {Nothing} \cup {Does(<<To(Mtp, "LINKPAUSE", NoBuf)>>, 0, logs) : logs \in {<<>>, <<"link">>}}
    [] OTHER -> {Nothing}

\* SLTM is sent again to some links, some are reset.
MtpTimer ==
  UNION {{LET Again(k) == Cardinality({j \in 1 .. k : act[j] = "again"})
          IN  Does([k \in DOMAIN busy |->
                      IF act[k] = "again"
                      THEN To(busy[k], "LINKTRANSFER", Fresh(Again(k) - 1))
                      ELSE To(busy[k], "LINKRESET", NoBuf)],
                   Again(Len(busy)),
                   [k \in 1 .. Len(busy) - Again(Len(busy)) |-> "link"]) :
            act \in [DOMAIN busy -> {"again", "reset"}]} :
         busy \in Chosen(Links)}

\* An answer goes out in the buffer of the question; what is sent to the other
\* side gets a new one.
Answers(m, name, logs) == Does(<<To(m.src, name, m.buf)>>, 0, logs)
Sends(dest, name, logs) == Does(<<To(dest, name, Fresh(0))>>, 1, logs)
Tells(logs) == Sends(Server, "M3UATRANSFER", logs)
Says(logs)  == Does(<<>>, 0, logs)

\* SLTM and SLTA; then, if a link is in service, network management and DATA.
FromLink(m) ==
  {Nothing, Answers(m, "LINKTRANSFER", <<>>), Answers(m, "LINKTRANSFER", <<"mtp">>)}
  \cup {Tells(logs) : logs \in {<<>>, <<"mtp", "tx">>, <<"link", "mtp", "tx">>}}
  \cup {Says(logs) : logs \in {<<"link">>, <<"mtp">>, <<"mtp", "link">>}}

\* Mutant: the user message keeps no buffer of its own when no link is alive.
FromServerKeeps(m) ==
  {Does(<<To(Server, "M3UATRANSFER", Fresh(0)), To(l, "LINKTRANSFER", Fresh(0))>>, 1, <<"tx">>) :
     l \in LinkNo}

\* msg_from_sctp().  ASPUP and ASPAC are answered and followed by NTFY.  DATA
\* takes a buffer, then selectLink() may take another for ASPDN, which it posts
\* before the message is posted.
FromServer(m) ==
  {Nothing, Says(<<"rx">>), Says(<<"rx", "rx">>), Tells(<<"rx", "tx">>), Tells(<<"rx", "rx", "tx">>),
   Does(<<To(Server, "M3UATRANSFER", m.buf), To(Server, "M3UATRANSFER", Fresh(0))>>, 1, <<"rx", "tx">>)}
  \cup UNION {{Sends(l, "LINKTRANSFER", long),
               Does(<<To(Server, "M3UATRANSFER", Fresh(1)), To(l, "LINKTRANSFER", Fresh(0))>>,
                    2, Append(long, "tx"))} :
              l \in LinkNo, long \in {<<>>, <<"rx">>}}

MtpEvent(m) ==
  CASE m.msg = "TIMER" -> MtpTimer
    [] m.msg = "LINKTRANSFER" -> FromLink(m)
    [] m.msg = "M3UATRANSFER" -> FromServer(m)
    [] m.msg = "LINKPAUSE" -> {Says(<<"link">>), Tells(<<"link", "mtp", "tx">>)}
    [] m.msg = "LINKRESUME" -> {Sends(m.src, "LINKTRANSFER", <<>>)}

\* recv() has taken a buffer before it fails; connections come and go.
ServerEvent(m) ==
  LET Faults == {[k \in 1 .. n |-> "server"] : n \in 0 .. load.faults}
  IN  CASE m.msg = "TIMER" ->
             {Does(InOrder([k \in 1 .. n |-> k - 1], Mtp, "M3UATRANSFER"), n + failed, logs) :
                n \in 0 .. load.reads, failed \in {0, 1}, logs \in Faults}
        [] m.msg = "M3UATRANSFER" -> {Says(logs) : logs \in Faults}
        [] OTHER -> {Nothing}

Event(m) ==
  CASE m.dest \in LinkNo -> LinkEvent(m)
    [] m.dest = Mtp -> MtpEvent(m)
    [] m.dest = Server -> ServerEvent(m)
-----------------------------------------------------------------------------
\* Mutant: the last slot is left out, by post() only.
PostsWrapEarly(src, messages) ==
  /\ msgqueue' = [k \in DOMAIN msgqueue |->
       LET late == {i \in 1 .. Len(messages) : (lastmsg + i - 1) % (MSGQUEUESIZE - 1) = k}
       IN  IF late = {} THEN msgqueue[k]
           ELSE LET p == messages[Max(late)]
                IN  [src |-> src, dest |-> p.dest, msg |-> p.msg, buf |-> p.buf]]
  /\ lastmsg' = (lastmsg + Len(messages)) % (MSGQUEUESIZE - 1)

\* post(), once for each of a sequence of messages.
Posts(src, messages) ==
  /\ msgqueue' = [k \in DOMAIN msgqueue |->
       LET late == {i \in 1 .. Len(messages) : (lastmsg + i - 1) % MSGQUEUESIZE = k}
       IN  IF late = {} THEN msgqueue[k]
           ELSE LET p == messages[Max(late)]
                IN  [src |-> src, dest |-> p.dest, msg |-> p.msg, buf |-> p.buf]]
  /\ lastmsg' = (lastmsg + Len(messages)) % MSGQUEUESIZE

\* After usleep().
Tick ==
  /\ up /\ ~ hung
  /\ execmsg = lastmsg
  /\ GlobalTimer < load.ticks
  /\ GlobalTimer' = GlobalTimer + 1
  /\ execproc' = -1
  /\ Posts(-1, [i \in 1 .. lastproc |-> To(i - 1, "TIMER", NoBuf)])
  /\ UNCHANGED <<load, execmsg, memalloc, msg, up, hung>>

Handles(does) ==
  /\ up /\ ~ hung
  /\ execmsg # lastmsg
  /\ msg' = msgqueue[execmsg]
  /\ execproc' = msg'.dest
  /\ does \in Event(msg')
  /\ Posts(execproc', does.posts)
  /\ memalloc' = Fresh(does.used)
  /\ execmsg' = (execmsg + 1) % MSGQUEUESIZE
  /\ UNCHANGED <<load, GlobalTimer, up, hung>>

\* get_by_tag() stays where it is on a parameter of length 0.
Hangs ==
  /\ up /\ ~ hung
  /\ execmsg # lastmsg
  /\ msgqueue[execmsg].dest = Mtp
  /\ msgqueue[execmsg].msg = "M3UATRANSFER"
  /\ hung' = TRUE
  /\ execproc' = Mtp
  /\ UNCHANGED <<load, ring, memalloc, GlobalTimer, msg, up>>
=============================================================================
