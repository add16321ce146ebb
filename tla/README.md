# A TLA+ model of the SS7 card's M3UA gateway

The repository holds the software of an SS7 card: a gateway between SS7 links
(MTP2/MTP3 over E1 timeslots) and M3UA over SCTP or TCP, a web application
that configures the card, a small status page and some tools.  This directory
models the gateway from the shared memory of a timeslot up to the sockets of
the ASPs, its log, and the state of the web application.

## 1. Inventory

The gateway (`m3ua-gateway/`) is one single-threaded process.  `main()` sleeps
50 ms, posts SS7_TIMER to every process object, and empties the message queue;
then it sleeps again.

| component | state | operations | how it interacts |
|---|---|---|---|
| **MTP2 link**, `SS7LINK` (`ss7-mtp2/ss7link.cpp`) | `state`, the header `lssu`, `last_txd`, `tx_last_placed`, `tx_last_ackd`, `rx_ack_request`, `txbuffer[128]`, timers T1, Tsig (= T2 = T3), T4 | `start`, `timer`, `event` (LINKTRANSFER, LINKSTOP, LINKRESET) | reads and writes the shared-memory rings; posts LINKTRANSFER, LINKPAUSE, LINKRESUME to MTP3 |
| **Rings** to the HDLC layer (`ss7lev1shm.cpp`) | two rings of 32 slots; a length word with flags in each slot; `rxpos`, `txpos` | `init`, `rx_msg`, `tx_msg` | shared with the HDLC process, which is not in the repository |
| **Dispatcher** (`ss7main.cpp`) | `msgqueue[1024]`, `execmsg`, `lastmsg`; pool of 16384 buffers, `memalloc` | main loop, `post`, `mem` | calls every handler, one at a time |
| **MTP3/M3UA**, `SS7MTPM3UA` (`ss7-mtp3-m3ua/`) | `state` (links in service), `linkstatus[]`, `Wait4slta[]`, `sltT1[]`, `sltT2[]` | `timer` (SLTM repeat, link timeout), `event` (SLTM/SLTA, TFP, TFA, COO, CBD, user data, LINKPAUSE, LINKRESUME), `msg_from_sctp`, `selectLink` | between links and server |
| **SCTP server**, `SCTPSERVER` (`sctp_serv/`) | client slots `cl[2]`, FIFO of 1000 messages, `client_id_to_start_with` | `timer`, `event`, `serv_recv`, `serv_send`, `do_send` | kernel sockets; posts M3UATRANSFER |
| **TCP server**, `TCPSERVER` (`tcp_serv/`) | client slots `cl[3]` | `timer`, `event`, `serv_recv`, `serv_send` | as above, without a FIFO |
| **Log** (`logging.cpp`, `tools/ml.cpp`, `tools/logrecv.cpp`) | ring of 64 records | `log`, `rf5`, the reader `ml` | shared memory, UDP |
| **Configuration** (`web.tomcat.eclipse`, Java) | gateways, timeslots, counters, all static | assign, free, add, remove, create files, edit | requests of all sessions, served by threads without a lock |
| **Status page** (`web.onboard`), **dissector** (`wireshark`), `media.h` | none that lives on | print | none |

What is hard in each, and what makes it correct:

* *Link.*  Two state machines and two sliding windows joined by a lossy line,
  with unrelated clocks; loss, restart and reset at any moment; full rings;
  wrap-around at 128.  Correct: messages of a service period arrive in order
  without gap or repetition; alignment ends in service; every attempt is
  bounded by T1; MTP3 knows whether the link serves.
* *Rings.*  A word written by one process and read by another hands over a
  slot, and either may be in the middle of it when the gateway dies.  Correct:
  two FIFO queues; a restart takes up where the old process was.
* *Dispatcher.*  Ring and pool have no overflow check, and handlers post while
  the loop runs.  Correct: every message is handled once, as it was posted; a
  waiting message keeps its buffer; every tick ends if its handlers return.
* *MTP3/M3UA.*  Its picture of the links is made of notifications and a
  link test with timers.  Correct: `state` is the number of links in service;
  the ASP is told of changes; no user message goes to a dead link while a
  live one exists.
* *Servers.*  A connection may close, block or be replaced at any call.
  Correct: each connection gets every message once, whole and in order; a
  call posts a bounded number of messages; the FIFO drains.
* *Log.*  Writer and reader share a ring without a lock, over restarts of the
  writer, and neither waits for the other.  Correct: records are printed once
  and in order, unless the writer comes round to the reader.
* *Configuration.*  State is shared by all sessions and kept in three places,
  and pages act on it that were made before it changed.  Correct, for requests
  served one after the other: the places agree; the files of a gateway name its
  own timeslots, and no link id is used twice.

The hazards are listed one by one in `PROJECT.json`.

## 2. Modules

| module | content |
|---|---|
| `Ss7Link` | class SS7LINK, every handler, for a set of links against a far end that may send anything |
| `MCSs7Link` | instances for TLC |
| `Ss7LinkPair` | two link processes joined by a line that may lose SUs, with resets and restarts; history variables |
| `MCSs7LinkPair` | instances for TLC |
| `Ss7LinkPaced` | the pair with 50 ms ticks: fairness and liveness |
| `MCSs7LinkPaced` | instances for TLC |
| `Ss7LinkPairProofs`, `Ss7LinkPacedProofs` | theorems about the pair, with unrelated clocks and with ticks in turn, checked by TLAPS |
| `LinkService` | the abstract link: what MTP3 sees of a link process; `Ss7Link` implements it |
| `Mtp3M3ua` | class SS7MTPM3UA, every handler, and the operations on the message queue |
| `Gateway` | `main()` with MTP3, links of which only the service is seen, and the server's posts |
| `MCGateway` | instances for TLC |
| `Ss7LinkProofs` | theorems about `Ss7Link`, checked by TLAPS |
| `GatewayProofs` | theorems about `Gateway`, checked by TLAPS |
| `Lev1Shm` | the shared memory of one link: slots, length words, the HDLC layer's two words, `init`, `rx_msg`, `tx_msg`, crashes |
| `SuQueues` | the abstract rings: two queues that survive the link process; `Lev1Shm` implements them |
| `Ranks` | the members of a set of numbers in rising order, with which `Lev1Shm` and `LogRing` list what is in a ring |
| `Lev1ShmProofs` | theorems about `Lev1Shm`, checked by TLAPS |
| `ClientSlots` | what both servers share: client slots, `serv_recv`, the receive loop of `timer` |
| `SctpServer`, `TcpServer` | the classes SCTPSERVER and TCPSERVER |
| `Servers` | the server of a gateway, one or the other, with its clients |
| `ServersProofs` | theorems about `Servers`, checked by TLAPS |
| `Dispatcher` | `main()`'s loop, `post`, `mem`, with handlers reduced to what they post, allocate and log |
| `LogRing` | `log_shmem`, `log` and the reader `ml` |
| `Core` | a gateway process with its log, killed and started again |
| `CoreProofs` | theorems about `Core`, checked by TLAPS |
| `Fifo` | the abstract queue; both the message ring and the log implement it |
| `Configuration` | the web application |
| `ConfigurationProofs` | theorems about `Configuration`, checked by TLAPS |
| `MCLev1Shm`, `MCCore`, `MCConfiguration` | instances for TLC (`Servers` needs none) |

`Ss7LinkPaced` extends `Ss7LinkPair`, which extends `Ss7Link` for two links;
`Gateway` extends `Mtp3M3ua`.  The two halves meet in
`LinkService`: the detailed link implements it (run `link`, theorem
`LinkImplementsService`), and the links of `Gateway` take the same steps.
Below, `Ss7Link` uses its rings as queues, and `Lev1Shm` shows that the slots
and words of the shared memory are such queues.  At the side, `Servers` is the
process that `Gateway` reduces to posts, and `Core` is the loop, ring, pool and
log that all handlers run on.

### How Ss7Link corresponds to the code

The variables have the names of the members of SS7LINK.  `lssu` is the header
part of the C++ member (its `last_rxd` is called `bsn`, as it is sent as the
BSN); the kind of the SU, which the code derives from `len` and the status
word, belongs to the SU in the rings.  `state` holds the names of the LSSU
codes, "IS" for 0.  T2 and T3 are one variable in the code as well
(`ss7linkvalues.h:22-23`).

`timer()` is not atomic with respect to the HDLC process, so it is cut where
it touches a ring: `Timer` starts it, each pass of the receive loop is an
action (`RxMsu`, `RxFisuProven`, `RxFisuIgnored`, and for LSSUs `RxSIO`,
`RxSIE`, `RxSIOS`, `RxOtherLssu`, which end the loop), and the tail is the
alignment timer (`TickT1Expires`, `TickIdle`, `TickNotAligned`, `TickProving`,
`TickStopped`) or the transmitter (`TxMsu`, once per SU of the burst,
`TxBlocked`, `TxNothing`).  `event()` has one action per message
(`LinkTransfer`, `LinkStop`, `LinkReset`) and runs only between two calls of
`timer()`.  `Restart` is a crash followed by `start()`.

Decisions a reader should know of:

* The commit is in the middle of a change: the classes no longer derive from
  SS7PROC, whose virtual methods `main()` calls, and no `event()` handles
  SS7_TIMER.  The model takes SS7_TIMER as the call of `timer()`, which is the
  only reading under which anything works.
* `rx_msg()` sets `errorlevel = 0` on every call, so the `check_link` block
  (`ss7link.cpp:235-257`) never runs; `check_e1()` is commented out.
* The far end may acknowledge or ask for what was never sent.  `txbuffer` then
  yields a slot that nothing has filled: an uninitialised pointer in the code,
  `NoMsu` in the model.
* `while(!tx_msg(&lssu));` is a guard: the step waits for a free slot.
* T4 is only compared with T4value; its copy in the model stops there.
* `Restart` is taken only with an empty transmit ring and a receive ring that
  is not full: in other cases `init()` leaves the queue abstraction, as
  `Lev1Shm` shows (`disturbed`, `Full`).
* The HDLC layer is external.  That it drops an LSSU or FISU equal to the SU
  before it (`Filters`) is inferred from how `timer()` uses it: one LSSU is
  read per tick while answer and timer of the far end send up to two, and
  FISUs are sent by the HDLC layer continuously.

`Ss7LinkPair` numbers the messages that MTP3 gives to a side and keeps in
`delivered`, `begun` and `firsts` what the other side posted and where the
service periods began, which is all that `InOrder` needs.  `MaxUndelivered`
says how far MTP3 runs ahead of delivery; the code enforces no limit (finding
2), so the passing runs set it below SeqMod.

`Ss7LinkPair` itself (`DataSpec`) starts with both sides in service and leaves
their clocks unrelated; resets and restarts, which lead through the alignment
again, are steps of `Ss7LinkPaced` only: with unrelated clocks that instance
has more states than TLC can visit in minutes (no counterexample to `InOrder`
among the first 13 million).

`Ss7LinkPaced` restricts the interleaving: `timer()` takes microseconds and
runs every 50 ms at both sides, an SU takes about a millisecond on a 64 kbit/s
line, so both sides tick in turn and what a tick sends has arrived before the
next tick.

### How Mtp3M3ua and Gateway correspond to the code

The variables of `Mtp3M3ua` are the members of SS7MTPM3UA and `msgqueue`, from
`execmsg` to `lastmsg`.  A message is what `post()` stores (`msg`, `dest`,
`src`), its contents reduced to a kind and an SLS.  Each case of `event()` is
an action: `RxSltm`, `RxSlta`, `RxPaused`, `RxManagement`, `RxUser` for
SS7_LINKTRANSFER, `LinkPause`, `LinkResume`, and `AspData`, `AspManagement`
for what `msg_from_sctp()` does.  A handler removes its message and appends
what it posts, in one step: it runs to its end before `main()` looks at the
queue again, and MTP3 shares nothing else with the outside.  `told` is a
history variable.

In `Gateway` the links and the server are reduced to what they post.  While a
link's SS7_TIMER is the first message, it may come into service
(`LinkComesUp`), fall (`LinkFalls`), deliver messages of the far end
(`LinkDelivers`, `LinkAnswers`), and at last finish (`LinkTimerEnds`);
`LinkSends` and `LinkIsReset` are the cases of its `event()`.  Those are the
steps of `LinkService`, except that a link that is not "up" may be "full" as
well: when it fills depends on the window, which is not in this module, so
that it may fill at any message.  LINKSTOP is posted by nobody.

`sltT1` and `sltT2` count in the code without end and are only compared; the
model stops them one above their limits.  `Labelled` says whether opc and dpc
are configured: without them the timer sends no SLTM, but counts it.

### How Lev1Shm corresponds to the code

A slot is its length word, reduced to "filled" (a length) or "marked"
(0xC000), and its body.  `rx_msg()` is cut between its copy and the mark
(`RxBegins`, `RxEnds`), `tx_msg()` between its copy and the length
(`TxBegins`, `TxEnds`), `init()` at each step of its search (`Start`,
`SearchBack`, `SearchEnds`).  `Crash` is possible at every one of these.  The
HDLC layer is external; that it begins, completes and moves its word as the
four `Hdlc` actions do is inferred from what `rx_msg()`, `tx_msg()` and `init()`
read.  An SU of 280 bytes and more is refused, which changes nothing.  At an SU
whose length is 0 (`NoLength`) `rx_msg()` returns nothing and leaves the slot
filled (`ss7lev1shm.cpp:80`), so that it never reads anything again.  `got` and
`sent` are history variables; `disturbed` records that a start found SUs still
to be sent.

### How the servers correspond to the code

Descriptors are 1..clqty, `Vacant` is 0xFFFF; an accept gets the least free
descriptor, as in a kernel, so that the descriptor of a closed client comes
back for another one.  `ServRecv(got)` is one call of `serv_recv()` with all its
outcomes: interrupted, accept or setsockopt failing, no client ready, a
message, an end, an error, a length too big, an interruption between header
and rest (the rest is then taken for a header).  `Ready` is evaluated before the
accept, like `select()`.  `do_send()` is cut at each client: between two `send()`
calls nothing else of the process runs, but ASPs do.  In `TcpServer` `sock` is
the copy of `cl[j]` that `serv_send()` keeps while it receives in between.
Messages from MTP3 are numbered; `sentOn` holds what each connection got.  The
reads that follow a too-long header go to descriptor 0xffff, fail and close the
client once more, so that `Drops` stands for them.  A partial `send()` is an
outcome in `TcpServer` only: SCTP sends a message whole or not at all.

### How Dispatcher, LogRing and Core correspond to the code

`msgqueue`, `execmsg`, `lastmsg` and `memalloc` are the ring and the pool as
they are, with their wrap-around and without any check.  A handler is the set
of things it may do: a sequence of messages, a number of buffers taken and the
records logged; `Handles` is one pass of the loop.  Which SUs become messages,
whether a link comes up or goes down, and which of the many branches of MTP3 is
taken is left open; the source of every reply, the buffer it goes out in and
the records of the branch are not.  In particular:

* a link posts LINKRESUME before the MSUs of a call (a FISU, `ss7link.cpp:216`)
  or after them (its full buffer is empty again, `:291`);
* DATA takes a buffer, and if no link is alive `selectLink()` takes a second one
  for ASPDN, posts that, and lets the message follow to a link that is down:
  two buffers, two messages, two processes (`m3ua.cpp:177-190`,
  `ss7mtp_m3ua.cpp:368-376`);
* each message that MTP3 refuses, passes on or answers is logged with the
  records of its branch ("link IT", "mtp is still paused", "TX", ...), and a start
  logs 2 x `Links` + 5 records;
* `get_by_tag()` stays for ever at a parameter of length 0 (`m3ua.cpp:273-279`):
  `Hangs`, after which nothing but `Kill` happens.  That it may read past the
  message and die there is `Kill` as well.

The server is the SCTP server.  `log()` is cut between the text and `*logpos`,
`log_shmem()` between the clearing and the step back, `ml` per record.  Neither
side waits for the other: `log()` may come round to the place of `ml`.  The
history variables `unvisited` and `restarts` count the records and the starts
since the two were last at one place, and `Late` says that the next record
may come round: after LogSlots - 1 = 63 records, after LogBack - 1 = 24 if the gateway
was started meanwhile, or after a second start.  `load.faults` bounds what one
call of the server logs, `load.logged` separates behaviours with the log from
those without: the ring and the log share no data.

### How Configuration corresponds to the code

All state is static, and Tomcat serves each request in a thread of its own, so
that a click is not one step.  It has the three phases of a JSF request: a
button that is disabled in the present state is not heard (`ClickTimeslot`,
`ClickButton`); the fields of the form, the SPCs of all gateways, are stored
(`StoreFields`); the action runs, one call of it at a time (the tests of
`toggleStatus()`; `addLink()` or `removeLink()`; the counter; `addSgw()`;
`removeSgw()`; each of the files).  `req` says for each of the `Requests` what comes next.
Between two steps of one request, others may take theirs, other sessions may
begin (`NewSession`) and the files may be taken off the page (`Edit`).

* The atomicity assumed is that of one call on a list, one assignment and one
  `++`: threads that race within an ArrayList or lose an increment are not
  modelled.
* `overlaps` counts the requests that began while another was served, and all
  that follow; it is 0 again when a session begins and no request is served, for
  that resets everything.  After an overlap only the types are claimed: the code
  has no defence there (section 3).  `Consistent` and `LinksServed` speak of
  requests that were served one at a time, whose pages may be of any age.
* A gateway is its number, its links, its `linkSetSize` and whether its SPCs are
  valid.  `sgws` lists the identities of the objects, `Timeslot::sgw` is one of
  them.  An object in no list that is not the current one is never looked into
  again; only its identity is kept while a timeslot still names it.
* The timeslot objects of a new session are not told apart from those of the
  old one, which a page or a request in progress may still hold.
* An iterator over the gateways throws when they changed under it (`changed`);
  `removeSgw()` of an empty list throws and changes nothing.
* `files` is what the page offers for download.

## 3. Runs

| run | question | bounds |
|---|---|---|
| `link` | `TypeOK`, `TsigWithinT1`, `ServiceAnnounced`, `ImplementsService` against every sequence of SUs | T1..T4 = 3, 2, 2, 1 ticks, so that each expires before and after each other; two sequence numbers, gap 2: overflow at the second message; ring of one slot; wrong, right and negative acknowledgements |
| `link_proving` | finding 1 | LSSUs and FISUs only, longer timers |
| `pair_data` | `InOrder`, one side sends, or both | six messages over three sequence numbers (wraps around), or two each; at most two wait; ring of 2; two losses anywhere |
| `pair_window` | finding 2 | no fault, no limit on what MTP3 gives |
| `pair_paced` | `AlignsForGood`, `InOrder`, `AllDelivered`, `NoNeedlessNack` | the code's timers 800, 110, 28 and 10 ticks; from the start with one loss, reset or restart at any moment and two messages; aligned and without fault, both sides sending six messages over five numbers, gap 4, rings of 3, so that overflow and a blocked burst happen |
| `gateway` | `TypeOK`, `AspTold`, `DeadLinkNoticed`, `TestSucceeds` | two links, timers of 1 and 0 ticks with 2 SLTMs, so that a test is repeated and expires; SLTM, COO, CBD and user messages from the network, DATA and ASPUP from ASPs; processes post while the queue holds fewer than 5 messages, one of them news from outside; a link comes up while Wait4slta < 2 |
| `gateway_alive` | finding 3 | as `gateway` |
| `rings` | `TypeOK`, `HandedOver`, `InPlace`, `SentWhole`, `ImplementsQueues`, `InitEnds` | three slots, two SUs told apart in one ring at a time (the rings share no data) and one of length 0, crashes without limit |
| `servers` | `TypeOK`, `WholeMessages`, `PostsBounded`, `EveryMessage`, `FifoDrains` | two slots, FIFO of 3, five messages from MTP3 (the FIFO fills and wraps around), one unread item per client, 4 messages per tick (1 while sending), 1 attempt |
| `core` | `TypeOK`, `BuffersApart`, `ImplementsMailbox`, `ImplementsLog`, `TickEnds` | one link, ring of 6, pool of 17 (two ticks may take 22), log of 4 that steps back 3; a gateway at work for two ticks without its log, and one with its log for one tick, where a start alone logs 7 records and comes round; lives and hangs without limit |
| `config` | `TypeOK`, `Consistent`, `LinksServed` | four timeslots, one of them on the second PCM, two gateways of three identities (a removed one may still be named), two threads, one overlap; three links allowed, two per gateway, so that each limit is met first by some behaviour |
| `config_ids` | finding 4 | as `config`, without overlaps |

The names of bounds: `MaxPosted`, `MaxSent`, `MaxUndelivered`, `MaxFaults` (link and
pair), `MaxQueue`, `MaxNews`, `MaxWait` (gateway), `MaxGiven`, `MaxInbox` (servers),
`ticks` of a load (core),
`Overlaps` (configuration).  `MaxQueue` = 5 is above the four SS7_TIMERs of a tick,
so that each process finds room to post although the messages of the others
wait; what MTP3 and a link answer comes on top.  `MaxWait` = 2 = sltQty lets a
link come up again during a test, and again when the test counts as failed.

The ring and the pool of `core` are the least that the theorems of `CoreProofs`
allow.  With a ring of 5, TLC finds `ImplementsMailbox` violated.  For the pool the
bound of the theorem is not sharp: from 8 buffers on TLC finds no violation of
`BuffersApart`, with 7 it does.  The ring has to hold what one tick brings at
most: SS7_TIMER for each process, what each timer posts, and what is posted in
answer while those wait.  For the real program with 16 links and 32 SUs each
that is 688 of 1024 places (section 5).  `Overlaps` = 1 lets any two requests
interleave, and a request or a session follow on what they left.

What the numbers lose: 128 sequence numbers are replaced by 2 to 4.  The code
uses them only through differences modulo 128 and comparison with
TX_QUEUE_GAP, so that each wrap-around, empty, full and overflowing buffer
occurs in the small instance as well.

Deadlock is not checked in the runs of the pair and of `core`: messages, faults
and ticks are bounded there, and a waiting system may stop; it is checked in
the others.

**Properties.**  `ServiceAnnounced`: a link in service was last announced by
LINKRESUME, one with a full buffer by LINKPAUSE; `state` changes in a dozen
places, and the posts are spread over four of them.  `TsigWithinT1`: the shared
counter never outruns T1.  `InOrder`: within a service period of the receiver
every message delivered is the successor of the last one; the first is the
first of some service period of the sender; nothing twice.  `AlignsForGood`,
`AllDelivered`: liveness of alignment and of the window.  `NoNeedlessNack`:
without loss no SU ever shows a request for retransmission, that is, BIB and
FIB of the two sides stay in step over every order of ticks.

`ImplementsService`: what MTP3 sees of a link is the abstract link.
`AspTold`: the last of ASPUP and ASPDN posted agrees with `linkstatus`; the code
keeps `state` in four places and compares it before or after.
`DeadLinkNoticed`: the only way in which MTP3 learns that a link fell is the
answer to a message sent over it, and no SLTA from before the fall overtakes
that answer.  `TestSucceeds`: the link test ends well for a link that stays up.

`HandedOver`, `SentWhole`: in the middle of a copy a slot is nobody else's, even
when the process that filled it has died.  `InPlace`: `init()` finds the oldest
unread SU, and the place after the last one to be sent.  `ImplementsQueues`:
the slots, words and positions are two queues over every crash.  `EveryMessage`:
a connection gets each message from the first one given after its accept,
once, in order, until it is closed.  `WholeMessages`: no descriptor is in two
slots, and the rest of a message goes where its beginning went.  `PostsBounded`:
what a call of the server adds to the message ring, whatever ASPs send.
`ImplementsMailbox`, `ImplementsLog`: no message and no record is lost,
overwritten, repeated or overtaken; when the log comes round to `ml`, all that
waits is lost and no part of it (`Overflows` of `Fifo`).  `TickEnds`: the messages of
a tick come to an end unless a handler hangs.  `BuffersApart`: `mem()` does not come round
to the buffer of a waiting message.  `Consistent`, `LinksServed`: after requests
served one at a time, or a new session, lists, owners and counters agree, and an
M3UA file names just the ids that its timeslots have in the HDLC file.

**Fairness.**  `Gateway` asks weak fairness of `Runs` (`main()` and every
handler: the loop never stops and no handler waits) and strong fairness of
`LinkAnswers` for each link: while a link is up, the MTP3 of the far end
answers each SLTM at last, though the answer may be lost with the link.  The
answer needs strong fairness because it can be posted only while the link's
timer message is at the head of the queue.  `Ss7LinkPaced` states liveness
under weak fairness of "some side runs or the line carries" (`Run`).  It is justified by the main
loop, which calls `timer()` for ever, and by the HDLC layer, which transmits
continuously.  Nothing is assumed of MTP3, of resets or of losses: they may or
may not happen.  `AllDelivered` assumes a line without loss because the code
has no acknowledgement timer (`ss7link.cpp:40`): when the last MSU of a burst
is lost nobody finds out until another one is sent.

`Lev1Shm` asks weak fairness of the search in `init()`, which has no wait in
it.  `Servers` asks weak fairness of the server's handlers, which `main()` calls
for ever, and strong fairness of `SendOk`: no client blocks or is interrupted
for ever without being closed; a client that does holds up all others, which
`FifoDrains` then could not promise.  `Core` asks weak fairness of the loop, of
`log()` and of `ml`, all of which only sleep.  A handler that hangs stops the loop
for good (`Hangs` is not in `Loop`), so that the fairness is of a gateway whose
handlers return; whether they do is not assumed.

**Observations** made while choosing the bounds (they are not runs):

* with two faults within one alignment, or with one when the HDLC layer passes
  repeated LSSUs on, `AlignsForGood` fails.  The receive loop stops at every
  LSSU (`ss7link.cpp:230`), so 20 LSSUs per second are read while the far end
  may send 40; the peers then act on ever older LSSUs.  Finding 1 contributes:
  one side is through its proving period at once;
* a LINKPAUSE for a full buffer clears `linkstatus` like one for a dead link:
  with one link it makes MTP3 post ASPDN in the middle of traffic, and ASPUP
  again only after the SLTA to the SLTM that LINKRESUME sends;
* with every link down each user message of an ASP makes MTP3 post ASPDN, and
  its LINKPAUSE makes it post another;
* Wait4slta counts LINKRESUMEs too and LINKPAUSE does not clear it, so a link
  that comes up three times before its first SLTA is reset after T1 without
  having been sent three SLTMs in this service period.  `TestSucceeds` speaks
  of links that stay in service; such a reset ends the service;
* with rings of 2 instead of 3 slots `AlignsForGood` fails after one fault: the
  LSSUs of two ticks have to fit.  The program has 32;
* a gateway that restarts while SUs wait to be sent takes the HDLC layer's next
  slot for its own: it waits until that one is sent and is then in front of
  the older ones.  MTP2 of the far end sees an old SU after a new one;
* `init()` does not end when the HDLC layer has filled all 32 slots while no
  gateway ran, until somebody reads them, which nobody does;
* a client that is accepted into a vacant slot after the FIFO was full may miss
  the next message: `client_id_to_start_with` still points behind it
  (`sctp-simple-srv.cpp:205-216`);
* `do_send()` drops the message at hand when no client is connected, and its
  result 0 then ends the loop: one message per call is dropped;
* `serv_recv()` serves the first client that is ready: one that sends without
  pause keeps the others waiting;
* the loop in `TCPSERVER::serv_send()` that receives in between reads one message
  more than it posts (`tcp-simple-srv.cpp:213`);
* `TCPSERVER::event()` may post messages itself, up to clqty x 5 x
  MAX_MSG_PER_TICK/4 per call.  MTP3 answers each to the server, whose next
  `event()` may receive again: against clients that block and send, a tick of
  a gateway over TCP has no bound.  `Core` speaks of SCTP;
* a start steps back 25 places, which leaves room for 24 new records until `ml`
  has come round; with 16 links it logs 37 (`logging.cpp:126`).  So `ml`, which
  sleeps 50 ms, may lose all of them.  A tick in which MTP3 is paused logs a
  record per MSU (`ss7mtp_m3ua.cpp:194-197`), with several links more than 64;
* one ASP message with a parameter of length 0 stops the gateway
  (`m3ua.cpp:273-279`): every link and every client, until it is restarted;
* overlapping web requests break the configuration in three ways that TLC shows
  when `Settled` is left out of the invariants: two pass the test
  `linksAssigned == allowedLinks` (`Configuration.java:65`) together, after which the
  counter is above the limit and the test never true again; a gateway is added
  between the check of a timeslot's button and `freeTimeslot()` (`:79-82`), which
  then takes the timeslot off the list of the new gateway, while the old one
  keeps it; a toggle or an edit falls between two files (`:150-175`);
* `setTransport()` never keeps "tcp"; the web application is in the model as
  far as links and gateways go.

## 4. Findings

1. `link_proving`: T4 is not restarted when SIN or SIE starts the proving
   period (`ss7link.cpp:450-456`); `ss7linkvalues.h:20` says 500 ms.
2. `pair_window`: event() places messages without limit
   (`ss7link.cpp:312-331`); beyond the window they are lost or skipped.
3. `gateway_alive`: "if at least one link is alive" (`ss7mtp_m3ua.cpp:293`) is
   said of links some of which left service without a word: neither
   `alignment_lssu` (`ss7link.cpp:415-473`) nor LINKRESET (`:341-347`) posts
   LINKPAUSE.
4. `config_ids`: `this.firstLink = firstLink` (`Sgw.java:35`) assigns the field to
   itself, so the links of every gateway are numbered from 0; two gateways of
   one card attach to the same shared memory, although `README.txt:36` promises
   several applications in parallel on different links.

## 5. Proofs

| what is proved | of which module | under which assumption |
|---|---|---|
| `TypeOK`, `TsigWithinT1`, `ServiceAnnounced`, `ImplementsService` | `Ss7Link` | those on the constants |
| `PairTypeOK`, `InOrder` | `Ss7LinkPair` | `InOrder`: start in service, `MaxUndelivered <= SeqMod` |
| `PacedTypeOK`, `NoNeedlessNack`, `InOrder` | `Ss7LinkPaced` | start in service; `InOrder`: as above, and faults are losses |
| `TypeOK`, `AspTold`, `DeadLinkNoticed` | `Gateway` | those on the constants |
| `TypeOK`, `HandedOver`, `InPlace`, `SentWhole`, `ImplementsQueues` | `Lev1Shm` | those on the constants |
| `TypeOK`, `WholeMessages`, `PostsBounded`, `EveryMessage` | `Servers` | those on the constants |
| `TypeOK`, `BuffersApart`, `ImplementsMailbox`, `ImplementsLog` | `Core` | `RoomForTick` |
| `TypeOK`, `Consistent`, `LinksServed` | `Configuration` | those on the constants |

`Ss7LinkProofs` proves for every set of links, every modulus of at least 2,
every ring size, every timer value (T1 at least 2 ticks) and every far end:

* `TypeCorrect`: `Spec => []TypeOK`;
* `TsigWithinT1Always`: `Spec => []TsigWithinT1`;
* `ServiceAlwaysAnnounced`: `Spec => []ServiceAnnounced`.

`TypeOK` is not inductive by itself: it bounds Tsig by T1value, but the step
that counts T1 and Tsig checks T1 only.  The inductive invariant is `TimersOK`,
TypeOK and TsigWithinT1 together: the check of T1 then bounds Tsig too.  The
proof has a lemma per group of actions (the receive loop, the alignment timer,
the transmitter, event(), the environment), each by the record and sequence
types of what the action writes.  `ServiceAnnounced` is inductive relative to
types: each action that makes a link working announces it in the same step.
The assumptions are those on the constants in `Ss7Link`; TLC evaluates them in
every run.

* `LinkImplementsService`: `Spec => Service!Spec`, by the mapping of IS to "up",
  BUF_OVERFLOW to "full" and everything else to "down".  A step that changes
  the state of one link changes its service alone (`SeenStep`); each handler is
  then one abstract step or a stutter.

`Ss7LinkPairProofs` proves for any two links, every modulus, ring size, timer
value and bound, with unrelated clocks and any loss:

* `PairTypesCorrect`: `DataSpec => []PairTypeOK`, from every start: besides the
  types of the two links, MTP3 gives no more than the scenario says, what was
  delivered last is a message that may be given (or a slot never filled), and
  service periods begin with such a message;
* `DeliveredInOrder`: if `MaxUndelivered <= SeqMod`, two links that start in
  service fulfil `InOrder`.

The inductive invariant is `DataInv`.  The k-th message of a side travels under
`Num(k)`, and each side waits for `Num` of one more than it has delivered
(`Took`).  `Window` says that the txbuffer holds the last SeqMod messages given
and that the transmitter goes on from one of those, wherever a negative
acknowledgement has put it.  `UnderWay` is about the two rings between the
sides.  A retransmission after a loss repeats what is under way already, so
that an old MSU may be read late; sequence numbers alone do not tell it from
the one SeqMod messages later.  `Valid` therefore says that no MSU under way is
so old that its number is awaited anew, and `Ahead` that this remains so when
the SUs before it have been delivered.  `OnlyTheNext` concludes that an MSU
which is taken is the next message, and an acknowledgement names what was
delivered (`ReadKeeps`).  The bound is sharp: with four messages undelivered
and three sequence numbers TLC finds `InOrder` violated, which is finding 2.
`InOrder` after alignments, resets and restarts is left to TLC: the invariant
would have to say what is left on the line from earlier service periods.

`Ss7LinkPacedProofs` proves the same of two links in 50 ms ticks:

* `PacedTypesCorrect`: `PacedSpec => []PacedTypeOK`, from every start and with every
  reset and restart: `PairTypeOK`, and a side whose `timer()` runs has its turn, so
  that never do both run;
* `NeverNeedless`: links that start in service fulfil `NoNeedlessNack`, for any
  load, including one that overruns the txbuffer;
* `PacedImplementsData`: if losses are the only faults, every step is one of
  `Ss7LinkPair`; hence `PacedDeliveredInOrder`.

`PacedInv` says that until something is lost the MSUs in a ring continue the
numbers from the one last taken (`Numbered`), that all BIBs are 1, and that
only the side whose turn it is has sent (`InStep`); with both sides sending at
once the statement would need both directions at every step.

`GatewayProofs` proves for every number of links, all timer values, with or
without a label, and for any messages of the network and of the ASPs:

* `TypeCorrect`, `AspAlwaysTold`, `DeadLinkAlwaysNoticed`: the invariants of
  the run `gateway`.

The inductive invariant `GatewayInv` adds three things to the types.  The queue
is `Good`: notifications and received messages come from links that exist, so
that `linkstatus[src]` is an element of the array.  `state` is the number of
live links (`StateCounts`), without which a comparison of `state` with 0 says
nothing about `linkstatus`.  And `Heard`, the content of `DeadLinkNoticed`
while messages wait: for a link that was given a message while it was down, a
LINKPAUSE is queued behind every SLTA of that link, or it has been handled and
no SLTA is left.  Two lemmas carry it, one for a message taken from the queue
(`AfterPosts`), one for a message added (`AfterAppend`).  That `selectLink()`
returns a link that exists, and a live one if there is any, is `SelectsAlive`;
it needs that every link is tried (`EveryCandidate`, from the uniqueness of the
remainder) and that the first live one exists (`Smallest`).  TLC has checked
`GatewayInv` on the instance of `gateway` before the proof.

`Lev1ShmProofs` proves for every number of slots from two and any SUs, with
crashes and restarts at every step:

* `Typed`, `SlotsHandedOver`, `InitFindsPlaces`: `TypeOK`, `HandedOver`, `InPlace`;
* `SentAsPlaced`: `Spec => SentWhole`;
* `ShmImplementsQueues`: `Spec => ImplementsQueues`.

`InPlace` and `HandedOver` are not inductive: what a crash leaves behind
matters only to the next start.  The inductive invariant `IInv` therefore says
of each ring, whether the link process runs or not, that its filled slots are
n in a row that end at the HDLC layer's position (`RxRegion`) or begin there
(`TxRegion`), and where the link process's position is with respect to
them, the search of `init()` included.  The arithmetic of positions in a row
modulo `Slots` is in the lemmas at the beginning; the transmit ring's part holds
until a start has found SUs to be sent.  TLC has checked `IInv` on the instance
of `rings` before the proof.

The refinement maps a ring to the list of its filled slots, ordered by their
distance from the reader (`Waiting`, with `Nth` of `Ranks`).  The position and the
flags do not appear in the mapping, only the regions of `IInv` do: they make the
slot that is handed over the one behind all others (`WaitingGrows`) and the one
that is given back the first (`WaitingShrinks`); when the reader's position
moves on, the distances of all filled slots shrink by one and the list stays
(`WaitingMovesOn`).  After a start that found SUs to be sent, the new SU may land
anywhere among them, which is the insertion that `SuQueues` permits when
disturbed.  `Written` adds that a slot about to be handed over has been filled
by its writer, so that no body of an earlier round is taken for an SU.

`ServersProofs` proves for any number of clients, FIFO of at least 2 places,
limits and traffic:

* `ServersTypes`, `MessagesStayWhole`, `FewPosts`: `TypeOK`, `WholeMessages`,
  `PostsBounded`;
* `MessagesInOrder`: `Spec => EveryMessage`.

The inductive invariant `IInv` has six parts besides the types.  `Own`: the
client in slot i has descriptor i + 1.  Slots and descriptors are both taken
from the least one that is free (`FirstVacancy`): an accept between two send()s
into another slot therefore never gives out the descriptor that serv_send() has
copied.  It is a fact about a kernel that gives out the lowest descriptor and a
process that opens no others meanwhile, which is how the model describes it.
Into the slot itself nobody is accepted: the call of serv_recv() that closes
it returns no message, and the receiving ends there.  `Control` says which
handler is running where, `Posted` what a call has posted by each point,
`Copied` how the copy, the slot and the half-sent message are related.  `TcpDue`
and `SctpDue` say which message is the next for each client: the clients before
the one at hand have had the one that is being sent, the others have not; for
the SCTP server the last n messages given are the n in the FIFO, and "at hand"
is `client_id_to_start_with` while no do_send() runs.  A connection accepted
meanwhile fits either side of the position, except when the FIFO was emptied by
its overflow and the position was left behind: `lapsed` records that, and
`EveryMessage` excuses it.  `Follows` gives the property from what is due.  TLC
has checked `IInv` on the instance of `servers` before the proof.

`ConfigurationProofs` proves for any set of timeslots and any limits:

* `ConfigurationTypes`, `AlwaysConsistent`, `FilesServeLinks`: `TypeOK`,
  `Consistent`, `LinksServed`.

The inductive invariant `IInv` has two parts.  `Typed` holds whatever requests
overlap: each phase has a timeslot where it needs one, and the identities of
gateways in lists, timeslots and requests exist.  The other holds while
`overlaps` is 0: the lists agree at every step (`Ledger`), and at most one
request is served (`Alone`), of which the phase says what the counter lacks
(`Counts`), what its earlier tests have found and nobody has changed since
(`Knows`), and which files it has written (`Writing`).  When it ends, `Counts` is
the equation of `Consistent` and `Writing` that of `LinksServed`.  A session that
begins alone meets both whatever was there before (`EmptyLedger`).

A list without repetitions is the bridge between the two ways in which the
code counts: `RemovesIs` says what `removeLink()` does to one, and `Counted` that it
has as many members as it is long, so that taking the length of a gateway's
list off `linksAssigned` leaves the number of the timeslots that remain
assigned.  In `LinksServed`, `IdIs` and `EntryIs` match the places of a list with the
entries of the files.  TLC has checked `IInv` on the instance of `config` before
the proof.

`CoreProofs` proves for any number of links, any load and any number of lives of
the gateway, provided that ring and pool have room for one tick (`RoomForTick`):

* `CoreTypesCorrect`, `BuffersStayApart`: `TypeOK`, `BuffersApart`;
* `CoreImplementsMailbox`: `Spec => ImplementsMailbox`;
* `CoreImplementsLog`: `Spec => ImplementsLog`, with a log of any size and a writer
  that waits for nobody.

`RoomForTick` compares the sizes with what a tick brings: `QueueNeed` is the most
messages that wait at once, `SecondWait` the most buffers taken while a message
waits.  With 16 links (their number is configured; `logrecv` knows 16), the 32
SUs of a ring and the 72 reads at which the server ends, `QueueNeed` is
18 + 143 + 15 + 16 x 32 = 688 of MSGQUEUESIZE = 1024 (`defs.h:50`); the buffers are
`Cost` = 145 + 16 + 16 x 32 = 673 for the timers and for what DATA takes beyond one
per message, so that `FirstWait` is 688 + 673 = 1361 and `SecondWait`
1361 + 688 + 1 = 2050 of SS7BufSize = 16384 (`defs.h:85`).  The condition holds of the
program.  One place less than `QueueNeed` asks for is too few in the instance of
`core`.

The ring has no overflow check, so the invariant `Queue` must bound its length
at every step of a tick. The SS7_TIMERs that have not been handled are a prefix
of the queue in the order of the processes; `Growth(l, r)` is what the last r
of them still add, in closed form. The server is the last process and the only
one whose messages make MTP3 post two and take two buffers (DATA while no link
is alive); they lie together in the queue, c of them after p others, so that
Len + c + Growth never grows (`QueueStep`, `Modest`).
A buffer is followed by its age, the number of calls of `mem()` since it was
taken: `Safe` bounds the age plus the calls that can still come before its
message is handled, counting two for each message from the server, by
`FirstWait`, and by `SecondWait` for a message that hands on the buffer of
another. Two ages below SS7BufSize that differ are two buffers (`OlderBy`,
`GetsApart`). Each handler is then shown to be `Modest`. A handler that hangs
posts nothing, and the invariant stays.

For the log, `ml` is D slots behind `*logpos`, and of these the last n are written
and the others blank (`Behind`).  D is at most the number of records since the two
were last at one place (`unvisited`); `log_shmem()` puts `*logpos` back by
25, so that after a start D may be LogSlots - LogBack more.  While D stays below
LogSlots - 1 a record adds to what waits; at LogSlots - 1 it brings `*logpos` to
the place of `ml` and leaves nothing between them.  `Late` is the condition under
which that may happen, and `Overflows` of `Fifo` what happens then: with 63 records,
24 after a start, or a second start before `ml` came round, all that waits is
lost, and never a part of it, a record twice or a record of an earlier
gateway.  TLC has checked `CoreInv` and `LogInv` on the instance of `core` before the
proof.

`PairTypeOK` and `PacedTypeOK` are stated for these proofs; TLC has checked them on the
instances of `pair_data` and `pair_paced`, whose runs are about other questions.

Only model-checked: what needs fairness (`TestSucceeds`, `AlignsForGood`,
`AllDelivered`, `InitEnds`, `FifoDrains`, `TickEnds`), since the proof system has
neither ENABLED nor WF; `InOrder` through alignments, resets and restarts,
and `NoNeedlessNack` from a start that begins with an alignment; and the four
findings, which are counterexamples.

## 6. Plan

1. **done** `Ss7Link`, `Ss7LinkPair`, `Ss7LinkPaced`, `Ss7LinkProofs`.
2. **done** `LinkService`, the abstract link, and that `Ss7Link` implements it;
   `Mtp3M3ua`, `Gateway`, `GatewayProofs`.
3. **done** `Lev1Shm`, `SuQueues`, `Lev1ShmProofs`.
4. **done** `SctpServer`, `TcpServer`, `Servers`, `ServersProofs`.
5. **done** `Dispatcher`, `LogRing`, `Core`, `Fifo`; `Configuration`,
   `ConfigurationProofs`.
6. **done** The window invariant of `Ss7LinkPair` with `InOrder` and
   `NoNeedlessNack` as theorems for links in service; `Ss7LinkPairProofs`,
   `Ss7LinkPacedProofs`.
7. **done** The bound on the message ring in terms of links and SUs, with it
   `BuffersApart` and `ImplementsMailbox`; the log and the rings as queues;
   `CoreProofs`, `Ranks`.
8. `InOrder` over resets and restarts: an invariant with the service periods
   whose SUs are still on the line.

Not modelled, and why: `rf5su()` and `logrecv` (a datagram per SU, written to a
file that nothing reads back); the status page (prints from a table, keeps
nothing); the wireshark patch (third-party code, a stateless decoder and
generated files); `media.h` (unused declarations); races of web requests within one
call on a list or one `++`; the lengths, other than 0, of SUs and of
M3UA parameters; texts, HTML and the JSF pages.
