------------------------------ MODULE LogRing ------------------------------
(***************************************************************************)
(* The log in shared memory (logging.cpp) and its reader ml (tools/ml.cpp).*)
(* log() writes a record into the slot that *logpos says and then moves    *)
(* *logpos; ml prints what is between its own position and *logpos.  The   *)
(* memory outlives the gateway: log_shmem() clears the records and moves   *)
(* *logpos back, so that ml comes round to the new ones.  Neither of the   *)
(* two waits for the other: log() may come round to the place of ml.       *)
(***************************************************************************)
EXTENDS Integers, Sequences, Ranks

CONSTANTS
  LogSlots,   \* 64
  LogBack,    \* 25
  LogRecord,
  Blank       \* a record that has been cleared

ASSUME LogAssumption ==
  /\ {LogSlots, LogBack} \subseteq Nat \ {0}
  /\ LogBack < LogSlots
  /\ Blank \notin LogRecord

LogSlot == 0 .. LogSlots - 1

VARIABLES
  logdata, logpos,
  toLog,      \* what is yet to be logged by the handler that runs
  writer,     \* where log() or log_shmem() is: "idle", "text", "clear", "back"
  i,          \* main() of ml: its position
  shown,      \* history: the record that ml printed last
  unvisited,  \* history: records since ml was at *logpos, up to LogSlots
  restarts    \* history: times log_shmem() moved *logpos back since then, up to 2

visits  == <<unvisited, restarts>>
logVars == <<logdata, logpos, toLog, writer, i, shown, visits>>
-----------------------------------------------------------------------------
\* ml and *logpos have moved; u records, r restarts if they do not meet.
Visits(u, r) ==
  IF i' = logpos'
  THEN unvisited' = 0 /\ restarts' = 0
  ELSE /\ unvisited' = IF u < LogSlots THEN u ELSE LogSlots
       /\ restarts' = IF r < 2 THEN r ELSE 2

LogText ==
  /\ writer = "idle"
  /\ toLog # <<>>
  /\ logdata' = [logdata EXCEPT ![logpos] = Head(toLog)]
  /\ writer' = "text"
  /\ UNCHANGED <<logpos, toLog, i, shown, visits>>

LogIndex ==
  /\ writer = "text"
  /\ logpos' = (logpos + 1) % LogSlots
  /\ toLog' = Tail(toLog)
  /\ writer' = "idle"
  /\ UNCHANGED <<logdata, i, shown>>
  /\ Visits(unvisited + 1, restarts)

\* Mutant: the records of the last gateway stay.
LogClearNothing ==
  /\ writer = "clear"
  /\ writer' = "back"
  /\ UNCHANGED <<logdata, logpos, toLog, i, shown, visits>>

\* log_shmem().
LogClear ==
  /\ writer = "clear"
  /\ logdata' = [s \in LogSlot |-> Blank]
  /\ writer' = "back"
  /\ UNCHANGED <<logpos, toLog, i, shown, visits>>

LogStepBack ==
  /\ writer = "back"
  /\ logpos' = (logpos + LogSlots - LogBack) % LogSlots
  /\ writer' = "idle"
  /\ UNCHANGED <<logdata, toLog, i, shown>>
  /\ Visits(unvisited, restarts + 1)

MlPrints ==
  /\ i # logpos
  /\ shown' = IF logdata[i] = Blank THEN shown ELSE logdata[i]
  /\ i' = (i + 1) % LogSlots
  /\ UNCHANGED <<logdata, logpos, toLog, writer>>
  /\ Visits(unvisited, restarts)

\* ml has been started: it begins one slot past *logpos, a round away from it.
LogInit ==
  /\ logdata = [s \in LogSlot |-> Blank]
  /\ logpos = 0
  /\ toLog = <<>>
  /\ writer = "idle"
  /\ i = 1
  /\ shown = Blank
  /\ unvisited = 0
  /\ restarts = 2

\* The records from one position up to another, in the order of writing.
Records(data, from, to) ==
  LET distance == (to - from + LogSlots) % LogSlots
      written  == {d \in 0 .. distance - 1 : data[(from + d) % LogSlots] # Blank}
  IN  [k \in 1 .. Cardinality(written) |-> data[(from + Nth(written, k)) % LogSlots]]

\* May the next record come round to the place of ml: nothing is lost of
\* LogSlots - 1 records, of LogBack - 1 if the gateway has been restarted.
Late ==
  \/ restarts = 0 /\ unvisited >= LogSlots - 1
  \/ restarts = 1 /\ unvisited >= LogBack - 1
  \/ restarts = 2

Logs == LogText \/ LogIndex \/ LogClear \/ LogStepBack

LogTypeOK ==
  /\ logdata \in [LogSlot -> LogRecord \cup {Blank}]
  /\ {logpos, i} \subseteq LogSlot
  /\ toLog \in Seq(LogRecord)
  /\ writer \in {"idle", "text", "clear", "back"}
  /\ shown \in LogRecord \cup {Blank}
  /\ unvisited \in 0 .. LogSlots
  /\ restarts \in 0 .. 2
=============================================================================
