-------------------------------- MODULE Core --------------------------------
(***************************************************************************)
(* One gateway process: the dispatcher of ss7main.cpp, the log it writes,  *)
(* and ml, which reads it.  The gateway may be killed and started again.   *)
(***************************************************************************)
EXTENDS Dispatcher, LogRing

\* What the gateway logs.
ASSUME CoreAssumption ==
  {"start", "launched", "link", "mtp", "tx", "rx", "server"} \subseteq LogRecord

coreVars == <<dispatcherVars, logVars>>

WillLog(logs) == toLog' = IF load.logged THEN logs ELSE <<>>

\* The queue and the buffers of a process that starts.
NoMessages == [k \in 0 .. MSGQUEUESIZE - 1 |-> [src |-> -1, dest |-> 0, msg |-> "TIMER", buf |-> NoBuf]]

Init ==
  /\ load \in Loads
  /\ msgqueue = NoMessages
  /\ execmsg = 0
  /\ lastmsg = 0
  /\ memalloc = 0
  /\ execproc = -1
  /\ GlobalTimer = 0
  /\ up = FALSE
  /\ hung = FALSE
  /\ msg = NoMessages[0]
  /\ LogInit

\* main() up to its loop; the first record is log_shmem()'s.  MTP3, the server
\* and each link log two records.
Start ==
  /\ ~ up
  /\ up' = TRUE
  /\ WillLog(<<"start">> \o [k \in 1 .. 2 * Links + 4 |-> "launched"])
  /\ writer' = IF load.logged THEN "clear" ELSE "idle"
  /\ UNCHANGED <<load, ring, memalloc, execproc, GlobalTimer, msg, hung>>
  /\ UNCHANGED <<logdata, logpos, i, shown, visits>>

\* The log stays as it is.
Kill ==
  /\ up
  /\ up' = FALSE
  /\ hung' = FALSE
  /\ msgqueue' = NoMessages
  /\ execmsg' = 0
  /\ lastmsg' = 0
  /\ memalloc' = 0
  /\ execproc' = -1
  /\ GlobalTimer' = 0
  /\ writer' = "idle"
  /\ toLog' = <<>>
  /\ UNCHANGED <<load, msg, logdata, logpos, i, shown, visits>>

\* What a handler logs is logged before the next handler is called.
Loop ==
  /\ writer = "idle" /\ toLog = <<>>
  /\ \/ Tick /\ UNCHANGED logVars
     \/ /\ up /\ execmsg # lastmsg
        /\ \E does \in Event(msgqueue[execmsg]) :
             /\ Handles(does)
             /\ WillLog(does.logs)
             /\ UNCHANGED <<logdata, logpos, writer, i, shown, visits>>

\* A handler that does not return has logged what it logs before.
LoopHangs ==
  /\ writer = "idle" /\ toLog = <<>>
  /\ Hangs
  /\ \E logs \in {<<>>, <<"rx">>} : WillLog(logs)
  /\ UNCHANGED <<logdata, logpos, writer, i, shown, visits>>

Next ==
  \/ Start
  \/ Kill
  \/ Loop
  \/ LoopHangs
  \/ Logs /\ UNCHANGED dispatcherVars
  \/ load.logged /\ MlPrints /\ UNCHANGED dispatcherVars

Spec == Init /\ [][Next]_coreVars

\* The gateway's loop goes on while it lives and its handlers return, and so
\* does ml.
FairSpec ==
  /\ Spec
  /\ WF_coreVars(Loop)
  /\ WF_coreVars(Logs /\ UNCHANGED dispatcherVars)
  /\ WF_coreVars(MlPrints /\ UNCHANGED dispatcherVars)

-----------------------------------------------------------------------------
\* Every variable has its type.
TypeOK ==
  /\ load \in Loads
  /\ msgqueue \in [0 .. MSGQUEUESIZE - 1 -> Message]
  /\ {execmsg, lastmsg} \subseteq 0 .. MSGQUEUESIZE - 1
  /\ memalloc \in 0 .. SS7BufSize - 1
  /\ execproc \in Proc \cup {-1}
  /\ GlobalTimer \in 0 .. load.ticks
  /\ msg \in Message
  /\ {up, hung} \subseteq BOOLEAN
  /\ LogTypeOK

\* The ring between execmsg and lastmsg, in order.
Waiting ==
  [k \in 1 .. (lastmsg - execmsg + MSGQUEUESIZE) % MSGQUEUESIZE |->
     msgqueue[(execmsg + k - 1) % MSGQUEUESIZE]]

\* Every message that is posted is handled once, as it was posted and in the
\* order of posting, however many handlers post in one tick.
Mailbox == INSTANCE Fifo WITH q <- Waiting, taken <- msg, late <- FALSE
ImplementsMailbox == Mailbox!Spec

\* A message that waits has its buffer for itself: mem() does not come round to
\* it before it is handled, and no other message carries it.
BuffersApart ==
  \A k \in DOMAIN Waiting :
    LET b == Waiting[k].buf
    IN  b # NoBuf =>
          /\ b # memalloc
          /\ \A n \in DOMAIN Waiting : n # k => Waiting[n].buf # b

\* What ml has not printed.
Unprinted == Records(logdata, i, logpos)

\* ml prints every record of a gateway once and in order, and none of an
\* earlier gateway after log_shmem() has cleared them, unless it is late: log()
\* comes round to its place, and all that waits is lost.
LogQueue == INSTANCE Fifo WITH
  q <- Unprinted, taken <- shown, up <- up /\ writer \notin {"clear", "back"}, late <- Late
ImplementsLog == LogQueue!Spec

\* The messages of a tick come to an end, although handlers post more, unless a
\* handler does not return.
TickEnds == execmsg # lastmsg ~> execmsg = lastmsg \/ hung
=============================================================================
