----------------------------- MODULE CoreProofs -----------------------------
(***************************************************************************)
(* Proofs about Core, for every number of links, every size of the queue   *)
(* and of the pool, and whatever a tick may bring.                         *)
(***************************************************************************)
EXTENDS Core, FiniteSetTheorems, TLAPS

-----------------------------------------------------------------------------
(* How much one tick needs.  It posts lastproc timer messages.  What their  *)
(* handlers post is handled after all of them; of these messages, only a    *)
(* message from the server makes MTP3 post two.                             *)

\* What the handlers of the last r timer messages post, less the r messages.
ServerExtra(l) == IF l.reads = 0 THEN 0 ELSE 2 * l.reads - 1
Growth(l, r) == (IF r >= 1 THEN ServerExtra(l) ELSE 0)
                + (IF r >= 2 THEN Links - 1 + (r - 2) * l.sus ELSE 0)

\* The buffers that they take, and one more for every message from the server,
\* whose handler may take two.
Cost(l, r) == (IF r >= 1 THEN 2 * l.reads + 1 ELSE 0)
              + (IF r >= 2 THEN Links + (r - 2) * l.sus ELSE 0)

QueueNeed(l) == lastproc + Growth(l, lastproc)

\* A message waits with its buffer while at most this many others are taken;
\* one that hands on a buffer makes it wait a second time.
FirstWait(l)  == QueueNeed(l) + Cost(l, lastproc)
SecondWait(l) == FirstWait(l) + QueueNeed(l) + 1

\* The sizes of the queue and of the pool suffice for a tick.
RoomForTick == \A l \in Loads : QueueNeed(l) < MSGQUEUESIZE /\ SecondWait(l) < SS7BufSize

-----------------------------------------------------------------------------
(* The queue q, when the next buffer is m: r timer messages, then messages  *)
(* that handlers have posted, c of them from the server, after p others.    *)

IsTimer(x, d) == x.msg = "TIMER" /\ x.dest = d /\ x.buf = NoBuf

\* From the server to MTP3.
Asks(x) == x.dest = Mtp /\ x.msg = "M3UATRANSFER"

Posted(x) ==
  \/ x.dest \in LinkNo /\ x.msg \in {"LINKTRANSFER", "LINKRESET"}
  \/ x.dest = Mtp /\ x.src \in LinkNo /\ x.msg \in {"LINKTRANSFER", "LINKPAUSE", "LINKRESUME"}
  \/ x.dest = Mtp /\ x.src = Server /\ x.msg = "M3UATRANSFER"
  \/ x.dest = Server /\ x.msg = "M3UATRANSFER"

\* The buffer b was the next one before the last a calls of mem().
Aged(b, m, a) == b + a = m \/ b + a = m + SS7BufSize

Limit(l, x) == IF x.dest = Mtp THEN FirstWait(l) ELSE SecondWait(l)

\* Before the message at position k is handled, mem() is called at most
\* Cost(l, r) + c + (k - 1 - r) times: twice for a message from the server.
Safe(x, m, l, r, c, k) ==
  x.buf # NoBuf => \E a \in 1 .. SS7BufSize - 1 :
                     Aged(x.buf, m, a) /\ a + (Cost(l, r) + c) + (k - 1 - r) <= Limit(l, x)

Queue(q, m, l, r, p, c) ==
  /\ r <= Len(q) /\ r <= lastproc
  /\ Len(q) + c + Growth(l, r) <= QueueNeed(l)
  /\ r > 0 => c = 0
  /\ p + c <= Len(q)
  /\ \A k \in 1 .. Len(q) :
       /\ k <= r => IsTimer(q[k], lastproc - r + (k - 1))
       /\ k > r => Posted(q[k])
       /\ Asks(q[k]) <=> p < k /\ k <= p + c
       /\ Safe(q[k], m, l, r, c, k)
  /\ \A j, k \in 1 .. Len(q) : j # k /\ q[j].buf # NoBuf => q[j].buf # q[k].buf

QueueOK == \E r, p, c \in Nat : Queue(Waiting, memalloc, load, r, p, c)

LogsOK == writer = "text" => toLog # <<>>

CoreInv ==
  /\ TypeOK /\ LogsOK
  /\ ~ up => Waiting = <<>>
  /\ QueueOK

-----------------------------------------------------------------------------
(* Constants and remainders. *)

LEMMA Sizes ==
  /\ Links \in Nat /\ Links >= 1 /\ SS7BufSize \in Nat /\ SS7BufSize >= 1
  /\ MSGQUEUESIZE \in Nat /\ MSGQUEUESIZE >= 1
  /\ Mtp = Links /\ Server = Links + 1 /\ lastproc = Links + 2
  BY DispatcherAssumption DEF Mtp, Server, lastproc

LEMMA LoadTypes ==
  ASSUME NEW l \in Loads
  PROVE  /\ l.sus \in Nat /\ l.reads \in Nat /\ l.ticks \in Nat /\ l.faults \in Nat
         /\ l.logged \in BOOLEAN
  BY DispatcherAssumption

\* A number below twice the modulus comes round at most once.
LEMMA ComesRound ==
  ASSUME NEW s \in Nat, s >= 1, NEW x \in Nat, x < 2 * s
  PROVE  /\ x < s => x % s = x
         /\ x >= s => x % s = x - s
<1> DEFINE d == x \div s
           e == x % s
<1>1. d \in Int /\ e \in 0 .. s - 1 /\ x = s * d + e
  OBVIOUS
<1>2. e = x % s
  OBVIOUS
<1> HIDE DEF d, e
<1>3. ASSUME d >= 2 PROVE FALSE
  <2>1. s * d >= 2 * s
    BY <1>3, <1>1
  <2>2. QED
    BY <1>1, <2>1
<1>4. ASSUME d <= -1 PROVE FALSE
  <2>1. s * d <= -s
    BY <1>4, <1>1
  <2>2. QED
    BY <1>1, <2>1
<1>5. d = 0 \/ d = 1
  BY <1>1, <1>3, <1>4
<1>6. s * 0 = 0 /\ s * 1 = s
  OBVIOUS
<1>7. s * d = 0 \/ s * d = s
  BY <1>5, <1>6
<1>8. e = x \/ e = x - s
  BY <1>1, <1>7
<1>9. QED
  BY <1>1, <1>2, <1>8

LEMMA Growths ==
  ASSUME NEW l \in Loads
  PROVE  /\ Growth(l, 0) = 0 /\ Growth(l, 1) = ServerExtra(l)
         /\ Growth(l, 2) = ServerExtra(l) + (Links - 1)
         /\ \A r \in Nat : Growth(l, r) \in Nat
         /\ \A r \in Nat : r >= 2 => Growth(l, r + 1) = Growth(l, r) + l.sus
<1>1. l.sus \in Nat /\ l.reads \in Nat /\ ServerExtra(l) \in Nat
  BY LoadTypes DEF ServerExtra
<1>2. \A r \in Nat : r >= 2 => /\ (r - 2) * l.sus \in Nat
                               /\ (r + 1 - 2) * l.sus = (r - 2) * l.sus + l.sus
  BY <1>1
<1>3. (2 - 2) * l.sus = 0
  BY <1>1
<1>4. Growth(l, 0) = 0 /\ Growth(l, 1) = ServerExtra(l)
      /\ \A r \in Nat : r >= 2 => Growth(l, r) = ServerExtra(l) + (Links - 1 + (r - 2) * l.sus)
  BY <1>1 DEF Growth
<1>5. Growth(l, 2) = ServerExtra(l) + (Links - 1)
  BY <1>1, <1>3, <1>4, Sizes
<1>6. \A r \in Nat : r >= 2 => Growth(l, r) \in Nat /\ Growth(l, r + 1) = Growth(l, r) + l.sus
  <2> TAKE r \in Nat
  <2> HAVE r >= 2
  <2> DEFINE x == (r - 2) * l.sus
             y == (r + 1 - 2) * l.sus
  <2>1. x \in Nat /\ y = x + l.sus
    BY <1>2
  <2>2. Growth(l, r) = ServerExtra(l) + (Links - 1 + x)
    BY <1>4
  <2>3. Growth(l, r + 1) = ServerExtra(l) + (Links - 1 + y)
    <3>1. r + 1 >= 1 /\ r + 1 >= 2
      OBVIOUS
    <3>2. QED
      BY <1>1, <3>1 DEF Growth
  <2> HIDE DEF x, y
  <2>4. QED
    BY <1>1, <2>1, <2>2, <2>3, Sizes
<1>7. \A r \in Nat : r = 0 \/ r = 1 \/ r >= 2
  OBVIOUS
<1>8. QED
  BY <1>1, <1>4, <1>5, <1>6, <1>7

LEMMA Costs ==
  ASSUME NEW l \in Loads
  PROVE  /\ Cost(l, 0) = 0 /\ Cost(l, 1) = 2 * l.reads + 1
         /\ Cost(l, 2) = 2 * l.reads + 1 + Links
         /\ \A r \in Nat : Cost(l, r) \in Nat
         /\ \A r \in Nat : r >= 2 => Cost(l, r + 1) = Cost(l, r) + l.sus
         /\ \A r \in Nat : r <= lastproc => Cost(l, r) <= Cost(l, lastproc)
<1>1. l.sus \in Nat /\ l.reads \in Nat
  BY LoadTypes
<1>2. \A r \in Nat : r >= 2 => /\ (r - 2) * l.sus \in Nat
                               /\ (r + 1 - 2) * l.sus = (r - 2) * l.sus + l.sus
  BY <1>1
<1>3. (2 - 2) * l.sus = 0
  BY <1>1
<1>4. Cost(l, 0) = 0 /\ Cost(l, 1) = 2 * l.reads + 1
      /\ \A r \in Nat : r >= 2 => Cost(l, r) = 2 * l.reads + 1 + (Links + (r - 2) * l.sus)
  BY <1>1 DEF Cost
<1>5. Cost(l, 2) = 2 * l.reads + 1 + Links
  BY <1>1, <1>3, <1>4, Sizes
<1>6. \A r \in Nat : r >= 2 => Cost(l, r) \in Nat /\ Cost(l, r + 1) = Cost(l, r) + l.sus
  <2> TAKE r \in Nat
  <2> HAVE r >= 2
  <2> DEFINE x == (r - 2) * l.sus
             y == (r + 1 - 2) * l.sus
  <2>1. x \in Nat /\ y = x + l.sus
    BY <1>2
  <2>2. Cost(l, r) = 2 * l.reads + 1 + (Links + x)
    BY <1>4
  <2>3. Cost(l, r + 1) = 2 * l.reads + 1 + (Links + y)
    <3>1. r + 1 >= 1 /\ r + 1 >= 2
      OBVIOUS
    <3>2. QED
      BY <1>1, <3>1 DEF Cost
  <2> HIDE DEF x, y
  <2>4. QED
    BY <1>1, <2>1, <2>2, <2>3, Sizes
<1>7. \A r \in Nat : r = 0 \/ r = 1 \/ r >= 2
  OBVIOUS
<1>8. \A r \in Nat : r <= lastproc => Cost(l, r) <= Cost(l, lastproc)
  <2>1. ASSUME NEW r \in Nat, r >= 2, r <= lastproc
        PROVE  Cost(l, r) <= Cost(l, lastproc)
    <3> DEFINE x == (r - 2) * l.sus
               y == (lastproc - 2) * l.sus
    <3>1. x \in Nat /\ y \in Nat /\ x <= y
      BY <1>1, <2>1, Sizes
    <3>2. Cost(l, r) = 2 * l.reads + 1 + (Links + x) /\ Cost(l, lastproc) = 2 * l.reads + 1 + (Links + y)
      BY <1>4, <2>1, Sizes
    <3> HIDE DEF x, y
    <3>3. QED
      BY <1>1, <3>1, <3>2, Sizes
  <2>2. Cost(l, 2) <= Cost(l, lastproc)
    BY <2>1, Sizes
  <2>3. lastproc \in Nat /\ lastproc >= 2 /\ Cost(l, lastproc) \in Nat
    BY <1>6, Sizes
  <2>4. Cost(l, 0) <= Cost(l, 2) /\ Cost(l, 1) <= Cost(l, 2) /\ Cost(l, 2) \in Nat
        /\ Cost(l, 0) \in Nat /\ Cost(l, 1) \in Nat
    BY <1>1, <1>4, <1>5, Sizes
  <2>5. Cost(l, 0) <= Cost(l, lastproc) /\ Cost(l, 1) <= Cost(l, lastproc)
    BY <2>2, <2>3, <2>4
  <2>6. QED
    BY <1>7, <2>1, <2>5, Zenon
<1>9. \A r \in Nat : Cost(l, r) \in Nat
  <2> TAKE r \in Nat
  <2>1. Cost(l, 0) \in Nat /\ Cost(l, 1) \in Nat
    BY <1>1, <1>4
  <2>2. QED
    BY <1>6, <1>7, <2>1, Zenon
<1>10. QED
  BY <1>4, <1>5, <1>6, <1>8, <1>9, Zenon

LEMMA Needs ==
  ASSUME NEW l \in Loads
  PROVE  /\ QueueNeed(l) \in Nat /\ FirstWait(l) \in Nat /\ SecondWait(l) \in Nat
         /\ FirstWait(l) = QueueNeed(l) + Cost(l, lastproc)
         /\ SecondWait(l) = FirstWait(l) + QueueNeed(l) + 1
<1>1. Growth(l, lastproc) \in Nat /\ Cost(l, lastproc) \in Nat /\ lastproc \in Nat
  BY Growths, Costs, Sizes
<1>2. QED
  BY <1>1 DEF QueueNeed, FirstWait, SecondWait

-----------------------------------------------------------------------------
(* The ring as a sequence. *)

Slot == 0 .. MSGQUEUESIZE - 1
Name == {"TIMER", "LINKTRANSFER", "LINKRESET", "LINKPAUSE", "LINKRESUME", "M3UATRANSFER"}
Post == [dest : Proc, buf : 0 .. SS7BufSize, msg : Name]

\* What post() puts into the ring.
Stamp(src, x) == [src |-> src, dest |-> x.dest, msg |-> x.msg, buf |-> x.buf]
Stamped(src, posts) == [n \in 1 .. Len(posts) |-> Stamp(src, posts[n])]

RingTypes ==
  /\ msgqueue \in [Slot -> Message]
  /\ execmsg \in Slot /\ lastmsg \in Slot

LEMMA StampTypes ==
  ASSUME NEW src \in Proc \cup {-1}, NEW posts \in Seq(Post)
  PROVE  /\ Stamped(src, posts) \in Seq(Message)
         /\ Len(Stamped(src, posts)) = Len(posts)
         /\ \A n \in 1 .. Len(posts) : Stamped(src, posts)[n] = Stamp(src, posts[n])
<1>1. \A x \in Post : Stamp(src, x) \in Message
  BY DEF Stamp, Post, Message, Name
<1>2. Len(posts) \in Nat /\ \A n \in 1 .. Len(posts) : posts[n] \in Post
  OBVIOUS
<1>3. \A n \in 1 .. Len(posts) : Stamp(src, posts[n]) \in Message
  BY <1>1, <1>2
<1>4. QED
  BY <1>2, <1>3 DEF Stamped

\* The slot that is x places from the first one.
At(x) == x % MSGQUEUESIZE

LEMMA SlotOf ==
  ASSUME NEW x \in Nat, x < 2 * MSGQUEUESIZE
  PROVE  /\ At(x) \in Slot /\ At(x) \in Int /\ 0 <= At(x) /\ At(x) < MSGQUEUESIZE
         /\ At(x) = x \/ At(x) = x - MSGQUEUESIZE
<1>1. MSGQUEUESIZE \in Nat /\ MSGQUEUESIZE >= 1
  BY Sizes
<1>2. /\ x < MSGQUEUESIZE => x % MSGQUEUESIZE = x
      /\ x >= MSGQUEUESIZE => x % MSGQUEUESIZE = x - MSGQUEUESIZE
  BY <1>1, ComesRound
<1>3. QED
  BY <1>1, <1>2 DEF Slot, At

LEMMA RingSizes ==
  ASSUME RingTypes
  PROVE  /\ MSGQUEUESIZE \in Nat /\ MSGQUEUESIZE >= 1 /\ execmsg \in Int /\ lastmsg \in Int
         /\ 0 <= execmsg /\ execmsg < MSGQUEUESIZE /\ 0 <= lastmsg /\ lastmsg < MSGQUEUESIZE
  BY Sizes DEF RingTypes, Slot

LEMMA WaitingIs ==
  ASSUME RingTypes
  PROVE  /\ Waiting \in Seq(Message) /\ Len(Waiting) \in Nat /\ Len(Waiting) < MSGQUEUESIZE
         /\ lastmsg = execmsg + Len(Waiting) \/ lastmsg = execmsg + Len(Waiting) - MSGQUEUESIZE
         /\ \A k \in 1 .. Len(Waiting) : Waiting[k] = msgqueue[At(execmsg + k - 1)]
         /\ Waiting = <<>> <=> execmsg = lastmsg
         /\ execmsg # lastmsg => Waiting[1] = msgqueue[execmsg]
<1> DEFINE y == lastmsg - execmsg + MSGQUEUESIZE
           w == At(y)
<1>1. /\ MSGQUEUESIZE \in Nat /\ MSGQUEUESIZE >= 1 /\ execmsg \in Int /\ lastmsg \in Int
      /\ 0 <= execmsg /\ execmsg < MSGQUEUESIZE /\ 0 <= lastmsg /\ lastmsg < MSGQUEUESIZE
  BY RingSizes
<1>2. /\ w \in Nat /\ w < MSGQUEUESIZE
      /\ w = lastmsg - execmsg + MSGQUEUESIZE \/ w = lastmsg - execmsg
  <2>1. y \in Nat /\ y < 2 * MSGQUEUESIZE
    BY <1>1
  <2>2. w \in Int /\ 0 <= w /\ w < MSGQUEUESIZE /\ (w = y \/ w = y - MSGQUEUESIZE)
    BY <2>1, SlotOf, Zenon
  <2>3. y - MSGQUEUESIZE = lastmsg - execmsg
    BY <1>1
  <2> HIDE DEF w
  <2>4. QED
    BY <2>2, <2>3
<1> HIDE DEF w
<1>4. \A k \in 1 .. w : At(execmsg + k - 1) \in Slot
  <2> TAKE k \in 1 .. w
  <2>1. execmsg + k - 1 \in Nat /\ execmsg + k - 1 < 2 * MSGQUEUESIZE
    BY <1>1, <1>2
  <2>2. QED
    BY <2>1, SlotOf, Zenon
<1>5. \A k \in 1 .. w : msgqueue[At(execmsg + k - 1)] \in Message
  BY <1>4, Zenon DEF RingTypes
<1>6. Waiting = [k \in 1 .. w |-> msgqueue[At(execmsg + k - 1)]]
  BY Zenon DEF Waiting, w, y, At
<1>7. /\ Waiting \in Seq(Message) /\ Len(Waiting) = w
      /\ \A k \in 1 .. w : Waiting[k] = msgqueue[At(execmsg + k - 1)]
  <2> DEFINE f(k) == msgqueue[At(execmsg + k - 1)]
  <2> HIDE DEF f
  <2>1. \A k \in 1 .. w : f(k) \in Message
    BY <1>5, Zenon DEF f
  <2>2. [k \in 1 .. w |-> f(k)] \in Seq(Message) /\ Len([k \in 1 .. w |-> f(k)]) = w
        /\ \A k \in 1 .. w : [j \in 1 .. w |-> f(j)][k] = f(k)
    BY <1>2, <2>1
  <2>3. Waiting = [k \in 1 .. w |-> f(k)]
    BY <1>6, Zenon DEF f
  <2>4. QED
    BY <2>2, <2>3, Zenon DEF f
<1>8. w = 0 <=> execmsg = lastmsg
  BY <1>1, <1>2
<1>9. Waiting = <<>> <=> w = 0
  BY <1>7
<1>10. lastmsg = execmsg + w \/ lastmsg = execmsg + w - MSGQUEUESIZE
  BY <1>1, <1>2
<1>11. execmsg # lastmsg => Waiting[1] = msgqueue[execmsg]
  <2>1. execmsg + 1 - 1 = execmsg /\ execmsg \in Nat /\ execmsg < 2 * MSGQUEUESIZE
    BY <1>1
  <2>2. At(execmsg) = execmsg
    <3>1. At(execmsg) \in Int /\ 0 <= At(execmsg) /\ (At(execmsg) = execmsg \/ At(execmsg) = execmsg - MSGQUEUESIZE)
      BY <2>1, SlotOf, Zenon
    <3>2. QED
      BY <1>1, <3>1
  <2>3. execmsg # lastmsg => 1 \in 1 .. w
    BY <1>2, <1>8
  <2>4. QED
    BY <1>7, <2>1, <2>2, <2>3, Zenon
<1>12. QED
  BY <1>2, <1>7, <1>8, <1>9, <1>10, <1>11, Zenon

\* The messages that post() has put into the slot s.
LateOf(posts, s) == {n \in 1 .. Len(posts) : At(lastmsg + n - 1) = s}

LEMMA LateAt ==
  ASSUME RingTypes, NEW posts \in Seq(Post), Len(posts) < MSGQUEUESIZE,
         NEW n \in 1 .. Len(posts) + 1
  PROVE  /\ At(lastmsg + n - 1) \in Slot /\ At(lastmsg + n - 1) \in Int
         /\ \/ At(lastmsg + n - 1) = lastmsg + n - 1
            \/ At(lastmsg + n - 1) = lastmsg + n - 1 - MSGQUEUESIZE
<1>1. /\ MSGQUEUESIZE \in Nat /\ MSGQUEUESIZE >= 1 /\ lastmsg \in Int
      /\ 0 <= lastmsg /\ lastmsg < MSGQUEUESIZE /\ Len(posts) \in Nat
  BY RingSizes
<1> DEFINE y == lastmsg + n - 1
<1>2. y \in Nat /\ y < 2 * MSGQUEUESIZE
  BY <1>1
<1> HIDE DEF y
<1>3. /\ At(y) \in Slot /\ At(y) \in Int /\ 0 <= At(y) /\ At(y) < MSGQUEUESIZE
      /\ At(y) = y \/ At(y) = y - MSGQUEUESIZE
  BY <1>2, SlotOf, Zenon
<1>4. QED
  BY <1>1, <1>3 DEF y

LEMMA LateOne ==
  ASSUME RingTypes, NEW posts \in Seq(Post), Len(posts) < MSGQUEUESIZE,
         NEW s, NEW n \in LateOf(posts, s)
  PROVE  LateOf(posts, s) = {n} /\ Max(LateOf(posts, s)) = n /\ posts[n] \in Post
<1>1. /\ MSGQUEUESIZE \in Nat /\ MSGQUEUESIZE >= 1 /\ lastmsg \in Int
      /\ 0 <= lastmsg /\ lastmsg < MSGQUEUESIZE /\ Len(posts) \in Nat
  BY RingSizes
<1>2. ASSUME NEW j \in LateOf(posts, s)
      PROVE  /\ j \in 1 .. Len(posts) /\ s \in Int
             /\ s = lastmsg + j - 1 \/ s = lastmsg + j - 1 - MSGQUEUESIZE
  <2>1. j \in 1 .. Len(posts) /\ At(lastmsg + j - 1) = s
    BY <1>2, Zenon DEF LateOf
  <2>2. j \in 1 .. Len(posts) + 1
    BY <1>1, <2>1
  <2>3. QED
    BY <2>1, <2>2, LateAt, Zenon
<1>3. ASSUME NEW j \in LateOf(posts, s) PROVE j = n
  <2>1. /\ j \in 1 .. Len(posts)
        /\ s = lastmsg + j - 1 \/ s = lastmsg + j - 1 - MSGQUEUESIZE
    BY <1>2
  <2>2. /\ n \in 1 .. Len(posts)
        /\ s = lastmsg + n - 1 \/ s = lastmsg + n - 1 - MSGQUEUESIZE
    BY <1>2
  <2>3. QED
    BY <1>1, <2>1, <2>2
<1>4. LateOf(posts, s) = {n}
  BY <1>3
<1>5. n >= n /\ posts[n] \in Post
  BY <1>2
<1>6. Max({n}) = n
  <2>1. \E x \in {n} : \A y \in {n} : x >= y
    BY <1>5
  <2>2. QED
    BY <2>1 DEF Max
<1>7. QED
  BY <1>4, <1>5, <1>6

\* post() appends, as long as the ring does not come round to what waits in it.
LEMMA RingPosts ==
  ASSUME RingTypes, NEW src \in Proc \cup {-1}, NEW posts \in Seq(Post),
         NEW t \in {0, 1}, t <= Len(Waiting),
         Len(Waiting) - t + Len(posts) < MSGQUEUESIZE,
         Posts(src, posts), execmsg' = At(execmsg + t)
  PROVE  /\ RingTypes'
         /\ Len(Waiting') = Len(Waiting) - t + Len(posts)
         /\ \A k \in 1 .. Len(Waiting) - t : Waiting'[k] = Waiting[k + t]
         /\ \A j \in 1 .. Len(posts) : Waiting'[Len(Waiting) - t + j] = Stamp(src, posts[j])
<1> DEFINE Q == MSGQUEUESIZE
           w == Len(Waiting)
           p == Len(posts)
           x == w - t + p
<1>1. /\ Q \in Nat /\ Q >= 1 /\ lastmsg \in Int /\ execmsg \in Int
      /\ 0 <= lastmsg /\ lastmsg < Q /\ 0 <= execmsg /\ execmsg < Q
      /\ p \in Nat /\ w \in Nat /\ w < Q /\ t \in Nat /\ t <= 1 /\ t <= w /\ x \in Nat /\ x < Q /\ p < Q
      /\ lastmsg = execmsg + w \/ lastmsg = execmsg + w - Q
  <2>1. w \in Nat /\ w < Q /\ (lastmsg = execmsg + w \/ lastmsg = execmsg + w - Q)
    BY WaitingIs, Zenon
  <2>2. p \in Nat
    OBVIOUS
  <2>3. QED
    BY <2>1, <2>2, RingSizes
<1>2. /\ lastmsg' = At(lastmsg + p)
      /\ msgqueue' = [k \in DOMAIN msgqueue |->
                        IF LateOf(posts, k) = {} THEN msgqueue[k]
                        ELSE Stamp(src, posts[Max(LateOf(posts, k))])]
  BY Zenon DEF Posts, LateOf, Stamp, At
<1>3. /\ \A s \in Slot : LateOf(posts, s) = {} => msgqueue'[s] = msgqueue[s]
      /\ \A s \in Slot, n \in 1 .. p :
           n \in LateOf(posts, s) => msgqueue'[s] = Stamp(src, posts[n])
      /\ msgqueue' \in [Slot -> Message]
  <2>1. DOMAIN msgqueue = Slot /\ \A s \in Slot : msgqueue[s] \in Message
    BY DEF RingTypes
  <2>2. ASSUME NEW s \in Slot, LateOf(posts, s) = {} PROVE msgqueue'[s] = msgqueue[s]
    BY <1>2, <2>1, <2>2, Zenon
  <2>3. ASSUME NEW s \in Slot, NEW n \in LateOf(posts, s)
        PROVE  msgqueue'[s] = Stamp(src, posts[n]) /\ posts[n] \in Post
    <3>1. Max(LateOf(posts, s)) = n /\ LateOf(posts, s) # {} /\ posts[n] \in Post
      BY <1>1, LateOne
    <3>2. QED
      BY <1>2, <2>1, <3>1, Zenon
  <2>4. \A y \in Post : Stamp(src, y) \in Message
    BY DEF Stamp, Post, Message, Name
  <2>5. \A s \in Slot : msgqueue'[s] \in Message
    BY <2>1, <2>2, <2>3, <2>4
  <2>6. msgqueue' = [s \in Slot |-> msgqueue'[s]]
    BY <1>2, <2>1
  <2>7. msgqueue' \in [Slot -> Message]
    BY <2>5, <2>6
  <2>8. QED
    BY <2>2, <2>3, <2>7, Zenon
<1>4. lastmsg' \in Slot /\ lastmsg' \in Int /\ (lastmsg' = lastmsg + p \/ lastmsg' = lastmsg + p - Q)
  <2> DEFINE y == lastmsg + p
  <2>1. y \in Nat /\ y < 2 * MSGQUEUESIZE
    BY <1>1, SMTT(60)
  <2> HIDE DEF y
  <2>2. /\ At(y) \in Slot /\ At(y) \in Int /\ 0 <= At(y) /\ At(y) < MSGQUEUESIZE
        /\ At(y) = y \/ At(y) = y - MSGQUEUESIZE
    BY <2>1, SlotOf, Zenon
  <2>3. QED
    BY <1>1, <1>2, <2>2 DEF y
<1>5. execmsg' \in Slot /\ execmsg' \in Int /\ (execmsg' = execmsg + t \/ execmsg' = execmsg + t - Q)
  <2> DEFINE y == execmsg + t
  <2>1. y \in Nat /\ y < 2 * MSGQUEUESIZE
    BY <1>1
  <2> HIDE DEF y
  <2>2. /\ At(y) \in Slot /\ At(y) \in Int /\ 0 <= At(y) /\ At(y) < MSGQUEUESIZE
        /\ At(y) = y \/ At(y) = y - MSGQUEUESIZE
    BY <2>1, SlotOf, Zenon
  <2>3. QED
    BY <1>1, <2>2 DEF y
<1>6. RingTypes'
  <2>1. Slot' = Slot /\ Message' = Message
    BY DEF Slot, Message, Proc, lastproc
  <2>2. QED
    BY <1>3, <1>4, <1>5, <2>1 DEF RingTypes
<1>7. /\ Len(Waiting') \in Nat /\ Len(Waiting') < Q
      /\ lastmsg' = execmsg' + Len(Waiting') \/ lastmsg' = execmsg' + Len(Waiting') - Q
      /\ \A k \in 1 .. Len(Waiting') : Waiting'[k] = msgqueue'[At(execmsg' + k - 1)]
  <2>1. RingTypes =>
          /\ Len(Waiting) \in Nat /\ Len(Waiting) < Q
          /\ lastmsg = execmsg + Len(Waiting) \/ lastmsg = execmsg + Len(Waiting) - Q
          /\ \A k \in 1 .. Len(Waiting) : Waiting[k] = msgqueue[At(execmsg + k - 1)]
    BY WaitingIs, Zenon
  <2>2. (RingTypes =>
          /\ Len(Waiting) \in Nat /\ Len(Waiting) < Q
          /\ lastmsg = execmsg + Len(Waiting) \/ lastmsg = execmsg + Len(Waiting) - Q
          /\ \A k \in 1 .. Len(Waiting) : Waiting[k] = msgqueue[At(execmsg + k - 1)])'
    BY WaitingIs, PTL
  <2>3. QED
    BY <1>6, <2>2
<1>8. Len(Waiting') = x
  <2> DEFINE v == Len(Waiting')
  <2>1. v \in Nat /\ v < Q /\ (lastmsg' = execmsg' + v \/ lastmsg' = execmsg' + v - Q)
    BY <1>7
  <2>2. x = w - t + p
    OBVIOUS
  <2> HIDE DEF Q, w, p, v, x
  <2>3. v = x
    BY <1>1, <1>4, <1>5, <2>1, <2>2, SMTT(60)
  <2>4. QED
    BY <2>3 DEF v
<1>9. ASSUME NEW k \in 1 .. x
      PROVE  /\ At(execmsg' + k - 1) \in Slot /\ At(execmsg' + k - 1) \in Int
             /\ 0 <= At(execmsg' + k - 1) /\ At(execmsg' + k - 1) < Q
             /\ \/ At(execmsg' + k - 1) = execmsg' + k - 1
                \/ At(execmsg' + k - 1) = execmsg' + k - 1 - Q
             /\ Waiting'[k] = msgqueue'[At(execmsg' + k - 1)]
  <2> DEFINE y == execmsg' + k - 1
  <2>1. y \in Nat /\ y < 2 * MSGQUEUESIZE
    <3>1. 0 <= execmsg' /\ execmsg' < Q
      BY <1>5, Sizes DEF Slot
    <3> HIDE DEF w, p, x
    <3>2. QED
      BY <1>1, <1>5, <3>1, SMTT(60)
  <2>2. Waiting'[k] = msgqueue'[At(y)]
    BY <1>7, <1>8, Zenon
  <2> HIDE DEF y
  <2>3. /\ At(y) \in Slot /\ At(y) \in Int /\ 0 <= At(y) /\ At(y) < MSGQUEUESIZE
        /\ At(y) = y \/ At(y) = y - MSGQUEUESIZE
    BY <2>1, SlotOf, Zenon
  <2>4. QED
    BY <1>1, <1>5, <2>2, <2>3 DEF y
<1>10. ASSUME NEW k \in 1 .. w - t PROVE Waiting'[k] = Waiting[k + t]
  <2> DEFINE s == At(execmsg' + k - 1)
             u == At(execmsg + (k + t) - 1)
  <2>1. k \in 1 .. x /\ k + t \in 1 .. w
    BY <1>1
  <2>2. /\ s \in Slot /\ s \in Int /\ 0 <= s /\ s < Q
        /\ s = execmsg' + k - 1 \/ s = execmsg' + k - 1 - Q
        /\ Waiting'[k] = msgqueue'[s]
    BY <1>9, <2>1, Zenon
  <2>3. /\ u \in Int /\ 0 <= u /\ u < Q
        /\ u = execmsg + (k + t) - 1 \/ u = execmsg + (k + t) - 1 - Q
    <3> DEFINE y == execmsg + (k + t) - 1
    <3>1. y \in Nat /\ y < 2 * MSGQUEUESIZE
      BY <1>1, <2>1
    <3> HIDE DEF y
    <3>2. /\ At(y) \in Slot /\ At(y) \in Int /\ 0 <= At(y) /\ At(y) < MSGQUEUESIZE
          /\ At(y) = y \/ At(y) = y - MSGQUEUESIZE
      BY <3>1, SlotOf, Zenon
    <3>3. QED
      BY <1>1, <2>1, <3>2 DEF y
  <2>4. Waiting[k + t] = msgqueue[u]
    BY <2>1, WaitingIs, Zenon
  <2> HIDE DEF s, u, Q, w, p, x
  <2>5. s = u
    BY <1>1, <1>5, <2>1, <2>2, <2>3, SMTT(60)
  <2>6. ASSUME NEW n \in LateOf(posts, s) PROVE FALSE
    <3>1. n \in 1 .. p /\ s = At(lastmsg + n - 1)
      BY <2>6, Zenon DEF LateOf, p
    <3>2. n \in 1 .. p + 1
      BY <1>1, <3>1
    <3>3. s = lastmsg + n - 1 \/ s = lastmsg + n - 1 - Q
      BY <1>1, <3>1, <3>2, LateAt, Zenon DEF p, Q
    <3>4. x = w - t + p
      BY DEF x
    <3>5. QED
      BY <1>1, <2>1, <2>3, <2>5, <3>1, <3>3, <3>4, SMTT(60)
  <2>7. msgqueue'[s] = msgqueue[s]
    BY <1>3, <2>2, <2>6
  <2>8. QED
    BY <2>2, <2>4, <2>5, <2>7, Zenon
<1>11. ASSUME NEW j \in 1 .. p PROVE Waiting'[w - t + j] = Stamp(src, posts[j])
  <2> DEFINE k == w - t + j
             s == At(execmsg' + k - 1)
             u == At(lastmsg + j - 1)
  <2>1. k \in 1 .. x /\ j \in 1 .. p + 1 /\ j \in Int
    BY <1>1
  <2>2. /\ s \in Slot /\ s \in Int /\ 0 <= s /\ s < Q
        /\ s = execmsg' + k - 1 \/ s = execmsg' + k - 1 - Q
        /\ Waiting'[k] = msgqueue'[s]
    BY <1>9, <2>1, Zenon
  <2>3. u \in Slot /\ u \in Int /\ (u = lastmsg + j - 1 \/ u = lastmsg + j - 1 - Q)
    BY <1>1, <2>1, LateAt, Zenon
  <2>4. 0 <= u /\ u < Q
    BY <2>3, Sizes DEF Slot
  <2>5. k = w - t + j /\ x = w - t + p
    OBVIOUS
  <2> HIDE DEF k, s, u, Q, w, p, x
  <2>6. u = s
    <3>1. k - 1 = w - t + j - 1
      BY <1>1, <2>1, <2>5
    <3>2. s = lastmsg + j - 1 \/ s = lastmsg + j - 1 - Q \/ s = lastmsg + j - 1 + Q
          \/ s = lastmsg + j - 1 - 2 * Q
      BY <1>1, <1>5, <2>1, <2>2, <3>1, SMTT(60)
    <3> DEFINE z == lastmsg + j - 1
    <3>3. z \in Int /\ Q \in Int /\ s \in Int /\ u \in Int
      BY <1>1, <2>1, <2>2, <2>3
    <3>4. s = z \/ s = z - Q \/ s = z + Q \/ s = z - 2 * Q
      BY <1>1, <2>1, <3>2
    <3>5. u = z \/ u = z - Q
      BY <1>1, <2>1, <2>3
    <3> HIDE DEF z
    <3>6. QED
      BY <2>2, <2>4, <3>3, <3>4, <3>5, SMTT(60)
  <2>7. j \in LateOf(posts, s)
    BY <2>6, Zenon DEF LateOf, p, u
  <2>8. msgqueue'[s] = Stamp(src, posts[j])
    BY <1>3, <2>2, <2>7, Zenon
  <2>9. QED
    BY <2>2, <2>8, Zenon DEF k
<1>12. QED
  BY <1>6, <1>8, <1>10, <1>11


-----------------------------------------------------------------------------
(* Buffers come round. *)

LEMMA OlderBy ==
  ASSUME NEW m \in 0 .. SS7BufSize - 1, NEW u \in Nat, NEW b \in 0 .. SS7BufSize - 1,
         NEW a \in 1 .. SS7BufSize - 1, a + u < SS7BufSize, Aged(b, m, a)
  PROVE  /\ Aged(b, (m + u) % SS7BufSize, a + u)
         /\ \A d \in Nat : d <= u => (m + d) % SS7BufSize # b
<1> DEFINE S == SS7BufSize
           y == (m + u) % S
<1>1. S \in Nat /\ S >= 1 /\ m \in Int /\ 0 <= m /\ m < S /\ b \in Int /\ 0 <= b /\ b < S
      /\ a \in Int /\ 1 <= a /\ a < S
  BY Sizes
<1>2. \A d \in Nat : d <= u => (m + d) % S = m + d \/ (m + d) % S = (m + d) - S
  <2> TAKE d \in Nat
  <2> HAVE d <= u
  <2> DEFINE x == m + d
  <2>1. x \in Nat /\ x < 2 * S
    BY <1>1
  <2> HIDE DEF x, S
  <2>2. /\ x < S => x % S = x
        /\ x >= S => x % S = x - S
    BY <1>1, <2>1, ComesRound
  <2>3. x % S = x \/ x % S = x - S
    BY <1>1, <2>1, <2>2
  <2>4. QED
    BY <2>3 DEF x
<1>3. y = m + u \/ y = (m + u) - S
  BY <1>2, <1>1
<1>4. y \in 0 .. S - 1
  BY <1>1
<1>5. b + a = m \/ b + a = m + S
  BY DEF Aged
<1> HIDE DEF S, y
<1>6. b + (a + u) = y \/ b + (a + u) = y + S
  BY <1>1, <1>3, <1>4, <1>5 DEF S
<1>7. ASSUME NEW d \in Nat, d <= u PROVE (m + d) % S # b
  <2> DEFINE z == (m + d) % S
  <2>1. z = m + d \/ z = (m + d) - S
    BY <1>2, <1>7
  <2>2. a + d < S
    BY <1>1, <1>7 DEF S
  <2> HIDE DEF z
  <2>3. z # b
    BY <1>1, <1>5, <2>1, <2>2
  <2>4. QED
    BY <2>3 DEF z
<1>8. QED
  BY <1>6, <1>7 DEF S, y, Aged

\* The buffers that one handler gets from mem().
LEMMA GetsApart ==
  ASSUME NEW m \in 0 .. SS7BufSize - 1, NEW u \in Nat, u < SS7BufSize,
         NEW d \in Nat, d < u
  PROVE  /\ (m + d) % SS7BufSize \in 0 .. SS7BufSize - 1
         /\ Aged((m + d) % SS7BufSize, (m + u) % SS7BufSize, u - d)
         /\ \A e \in Nat : e < u /\ e # d => (m + e) % SS7BufSize # (m + d) % SS7BufSize
<1> DEFINE S == SS7BufSize
           Round(e) == (m + e) % S
<1>1. S \in Nat /\ S >= 1 /\ m \in Int /\ 0 <= m /\ m < S
  BY Sizes
<1>2. \A e \in Nat : e <= u => /\ Round(e) \in 0 .. S - 1
                               /\ Round(e) = m + e \/ Round(e) = (m + e) - S
  <2> TAKE e \in Nat
  <2> HAVE e <= u
  <2> DEFINE x == m + e
  <2>1. x \in Nat /\ x < 2 * S
    BY <1>1
  <2> HIDE DEF x, S
  <2>2. /\ x < S => x % S = x
        /\ x >= S => x % S = x - S
    BY <1>1, <2>1, ComesRound
  <2>3. x % S \in 0 .. S - 1 /\ (x % S = x \/ x % S = x - S)
    BY <1>1, <2>1, <2>2
  <2>4. QED
    BY <2>3 DEF x
<1> HIDE DEF Round
<1>3. /\ Round(d) \in 0 .. S - 1 /\ (Round(d) = m + d \/ Round(d) = (m + d) - S)
      /\ Round(u) \in 0 .. S - 1 /\ (Round(u) = m + u \/ Round(u) = (m + u) - S)
  BY <1>2
<1>4. Aged(Round(d), Round(u), u - d)
  BY <1>1, <1>3 DEF Aged
<1>5. ASSUME NEW e \in Nat, e < u, e # d PROVE Round(e) # Round(d)
  <2>1. Round(e) = m + e \/ Round(e) = (m + e) - S
    BY <1>2, <1>5
  <2>2. QED
    BY <1>1, <1>3, <1>5, <2>1
<1>6. QED
  BY <1>3, <1>4, <1>5 DEF Round

-----------------------------------------------------------------------------
(* What a handler may do to the queue. *)

\* The handler of x posts these messages, calls mem() u times, and the next
\* buffer was m; r timer messages wait, x among them if there is one.
Modest(posts, u, x, m, l, r) ==
  /\ r = 0 => u <= 2 /\ Len(posts) <= 2 /\ (Asks(x) \/ (u <= 1 /\ Len(posts) <= 1))
  /\ r > 0 => u + Cost(l, r - 1) <= Cost(l, r)
  /\ r = 1 => 2 * Len(posts) <= Growth(l, 1) + 1 /\ u + Len(posts) <= Cost(l, 1)
  /\ r > 1 => Len(posts) + Growth(l, r - 1) <= Growth(l, r) + 1
  /\ \A j \in 1 .. Len(posts) :
       /\ Posted(Stamp(x.dest, posts[j]))
       /\ Asks(Stamp(x.dest, posts[j])) <=> r = 1
       /\ \/ posts[j].buf = NoBuf
          \/ \E d \in Nat : d < u /\ posts[j].buf = (m + d) % SS7BufSize
          \/ r = 0 /\ x.dest = Mtp /\ posts[j].dest # Mtp /\ posts[j].buf = x.buf
  /\ \A j, k \in 1 .. Len(posts) :
       j # k /\ posts[j].buf # NoBuf => posts[j].buf # posts[k].buf

\* The queue q becomes e: x leaves it, the posts come.
Becomes(q, e, posts) ==
  /\ Len(e) = Len(q) - 1 + Len(posts)
  /\ \A k \in 1 .. Len(q) - 1 : e[k] = q[k + 1]
  /\ \A j \in 1 .. Len(posts) : e[Len(q) - 1 + j] = Stamp(q[1].dest, posts[j])

\* A limit that is kept leaves room in the pool.
LEMMA Limits ==
  ASSUME RoomForTick, NEW l \in Loads, NEW x
  PROVE  /\ Limit(l, x) \in Nat /\ Limit(l, x) < SS7BufSize /\ FirstWait(l) <= Limit(l, x)
         /\ x.dest = Mtp => Limit(l, x) = FirstWait(l)
         /\ x.dest # Mtp => Limit(l, x) = SecondWait(l)
         /\ QueueNeed(l) < MSGQUEUESIZE /\ SecondWait(l) < SS7BufSize
<1>1. /\ QueueNeed(l) \in Nat /\ FirstWait(l) \in Nat /\ SecondWait(l) \in Nat
      /\ SecondWait(l) = FirstWait(l) + QueueNeed(l) + 1
  BY Needs
<1>2. QueueNeed(l) < MSGQUEUESIZE /\ SecondWait(l) < SS7BufSize
  BY DEF RoomForTick
<1>3. /\ x.dest = Mtp => Limit(l, x) = FirstWait(l)
      /\ x.dest # Mtp => Limit(l, x) = SecondWait(l)
  BY Zenon DEF Limit
<1>4. FirstWait(l) <= SecondWait(l) /\ FirstWait(l) < SS7BufSize
  BY <1>1, <1>2, Sizes
<1>5. QED
  BY <1>1, <1>2, <1>3, <1>4

\* The new part of the queue and what is left of the old one.
Kept(q, e, k) == k \in 1 .. Len(q) - 1 /\ k + 1 \in 1 .. Len(q) /\ e[k] = q[k + 1]

Added(q, e, posts, k) ==
  \E j \in 1 .. Len(posts) : k = Len(q) - 1 + j /\ e[k] = Stamp(q[1].dest, posts[j])

LEMMA OldOrNew ==
  ASSUME NEW q \in Seq(Message), Len(q) >= 1, NEW posts \in Seq(Post),
         NEW e, Becomes(q, e, posts)
  PROVE  \A k \in 1 .. Len(e) : Kept(q, e, k) \/ Added(q, e, posts, k)
<1> SUFFICES ASSUME NEW k \in 1 .. Len(e)
             PROVE  Kept(q, e, k) \/ Added(q, e, posts, k)
  OBVIOUS
<1>1. Len(q) \in Nat /\ Len(posts) \in Nat /\ Len(e) = Len(q) - 1 + Len(posts)
  BY DEF Becomes
<1>2. CASE k <= Len(q) - 1
  <2>1. k \in 1 .. Len(q) - 1 /\ k + 1 \in 1 .. Len(q)
    BY <1>1, <1>2
  <2>2. QED
    BY <2>1, Zenon DEF Becomes, Kept
<1>3. CASE k > Len(q) - 1
  <2> DEFINE j == k - (Len(q) - 1)
  <2>1. j \in 1 .. Len(posts) /\ k = Len(q) - 1 + j
    BY <1>1, <1>3
  <2> HIDE DEF j
  <2>2. e[k] = Stamp(q[1].dest, posts[j])
    BY <2>1, Zenon DEF Becomes
  <2>3. QED
    BY <2>1, <2>2, Zenon DEF Added
<1>4. QED
  BY <1>1, <1>2, <1>3

\* How many timer messages wait afterwards, and where the server's messages are.
Counts(q, e, posts, l, r, p, c, r2, p2, c2) ==
  /\ r = r2 + 1 \/ (r = 0 /\ r2 = 0)
  /\ Len(e) + c2 + Growth(l, r2) <= QueueNeed(l)
  /\ r2 > 0 => c2 = 0
  /\ p2 + c2 <= Len(e)
  /\ r = 1 => c2 = Len(posts)
  /\ r = 0 => c2 <= c /\ (Asks(q[1]) => c2 + 1 <= c)
  /\ \A k \in 1 .. Len(q) - 1 : (p2 < k /\ k <= p2 + c2) <=> (p < k + 1 /\ k + 1 <= p + c)
  /\ \A j \in 1 .. Len(posts) :
       r = 1 <=> p2 < Len(q) - 1 + j /\ Len(q) - 1 + j <= p2 + c2

LEMMA QueueStepTo ==
  ASSUME RoomForTick, NEW l \in Loads, NEW q \in Seq(Message), Len(q) >= 1,
         NEW m \in 0 .. SS7BufSize - 1, NEW r \in Nat, NEW p \in Nat, NEW c \in Nat,
         Queue(q, m, l, r, p, c),
         NEW posts \in Seq(Post), NEW u \in Nat, Modest(posts, u, q[1], m, l, r),
         NEW e, Becomes(q, e, posts),
         NEW r2 \in Nat, NEW p2 \in Nat, NEW c2 \in Nat,
         Counts(q, e, posts, l, r, p, c, r2, p2, c2)
  PROVE  Queue(e, (m + u) % SS7BufSize, l, r2, p2, c2)
<1> DEFINE S == SS7BufSize
           y == (m + u) % S
           N == QueueNeed(l)
           F == FirstWait(l)
           K == Cost(l, r) + c
           K2 == Cost(l, r2) + c2
           T == Cost(l, lastproc)
<1>21. /\ r = r2 + 1 \/ (r = 0 /\ r2 = 0)
       /\ Len(e) + c2 + Growth(l, r2) <= QueueNeed(l)
       /\ r2 > 0 => c2 = 0
       /\ p2 + c2 <= Len(e)
  BY Zenon DEF Counts
<1>22. \A k \in 1 .. Len(q) - 1 : (p2 < k /\ k <= p2 + c2) <=> (p < k + 1 /\ k + 1 <= p + c)
  BY Zenon DEF Counts
<1>23. \A j \in 1 .. Len(posts) :
         r = 1 <=> p2 < Len(q) - 1 + j /\ Len(q) - 1 + j <= p2 + c2
  BY Zenon DEF Counts
<1>24. r = r2 + 1 \/ (r = 0 /\ r2 = 0)
  BY <1>21, Zenon
<1>25. \A k \in 1 .. Len(e) : Kept(q, e, k) \/ Added(q, e, posts, k)
  BY OldOrNew, Zenon
<1> USE <1>24
<1>1. /\ S \in Nat /\ S >= 1 /\ N \in Nat /\ F \in Nat /\ SecondWait(l) = F + N + 1
      /\ K \in Nat /\ K2 \in Nat /\ F + N + 1 < S /\ Growth(l, r2) \in Nat
      /\ Len(e) + c2 <= N /\ N >= 3
      /\ Len(q) \in Nat /\ Len(posts) \in Nat /\ Len(e) \in Nat /\ Len(e) <= N
      /\ r <= Len(q) /\ r <= lastproc /\ lastproc \in Nat /\ Len(e) = Len(q) - 1 + Len(posts)
  <2>1. /\ N \in Nat /\ F \in Nat /\ SecondWait(l) = F + N + 1
        /\ SecondWait(l) < S /\ Growth(l, r2) \in Nat
        /\ Cost(l, r) \in Nat /\ Cost(l, r2) \in Nat
    BY Needs, Limits, Costs, Growths
  <2>6. K \in Nat /\ K2 \in Nat
    <3> DEFINE C == Cost(l, r)
               C2 == Cost(l, r2)
    <3>1. C \in Nat /\ C2 \in Nat
      BY <2>1
    <3> HIDE DEF C, C2
    <3>2. C + c \in Nat /\ C2 + c2 \in Nat
      BY <3>1
    <3>3. QED
      BY <3>2 DEF C, C2
  <2>7. N >= 3
    <3>1. lastproc \in Nat /\ lastproc >= 3
      BY Sizes
    <3>2. Growth(l, lastproc) \in Nat
      BY <3>1, Growths
    <3>3. QED
      BY <3>1, <3>2 DEF QueueNeed
  <2>2. Len(q) \in Nat /\ Len(posts) \in Nat /\ Len(e) = Len(q) - 1 + Len(posts)
    BY SMTT(60) DEF Becomes
  <2>3. r <= Len(q) /\ r <= lastproc
    BY DEF Queue
  <2> HIDE DEF N, F, K, K2
  <2>4. Len(e) + c2 <= N /\ Len(e) <= N
    <3>1. Len(e) + c2 + Growth(l, r2) <= N
      BY <1>21, Zenon DEF N
    <3> DEFINE v == Len(e)
               g == Growth(l, r2)
    <3>2. v \in Nat /\ g \in Nat /\ v + c2 + g <= N
      <4>1. v \in Nat
        BY <2>2
      <4>2. QED
        BY <2>1, <3>1, <4>1, Zenon
    <3> HIDE DEF v, g
    <3>3. v + c2 <= N /\ v <= N
      BY <2>1, <3>2
    <3>4. QED
      BY <3>3 DEF v
  <2>5. QED
    BY <2>1, <2>2, <2>3, <2>4, <2>6, <2>7, Sizes, SMTT(60)
<1> DEFINE C == Cost(l, r)
           C2 == Cost(l, r2)
<1>26. C \in Nat /\ C2 \in Nat /\ K = C + c /\ K2 = C2 + c2
  BY Costs
<1>27. /\ r = 0 => u <= 2 /\ (Asks(q[1]) \/ u <= 1) /\ C = 0 /\ C2 = 0 /\ r2 = 0
       /\ r > 0 => u + C2 <= C /\ c = 0
       /\ r = 1 => u + c2 <= C /\ C2 = 0
       /\ r > 1 => c2 = 0
       /\ r = 0 => c2 <= c /\ (Asks(q[1]) => c2 + 1 <= c)
  <2>1. CASE r = 0
    <3>1. u <= 2 /\ (Asks(q[1]) \/ u <= 1)
      BY <2>1, Zenon DEF Modest
    <3>2. r2 = 0 /\ C = 0 /\ C2 = 0
      BY <2>1, Costs
    <3>3. c2 <= c /\ (Asks(q[1]) => c2 + 1 <= c)
      BY <2>1, Zenon DEF Counts
    <3>4. ~ (r > 0) /\ r # 1 /\ ~ (r > 1)
      BY <2>1
    <3>5. QED
      BY <3>1, <3>2, <3>3, <3>4, Zenon
  <2>2. CASE r = r2 + 1
    <3>1. r > 0 /\ r - 1 = r2 /\ r # 0
      BY <2>2
    <3>2. u + C2 <= C
      BY <3>1 DEF Modest
    <3>3. c = 0
      BY <3>1, Zenon DEF Queue
    <3>4. ASSUME r = 1 PROVE u + c2 <= C /\ C2 = 0
      <4>1. r2 = 0
        BY <3>1, <3>4
      <4>2. c2 = Len(posts)
        BY <3>4, Zenon DEF Counts
      <4>3. u + Len(posts) <= Cost(l, 1)
        BY <3>4, Zenon DEF Modest
      <4>4. QED
        BY <3>4, <4>1, <4>2, <4>3, Costs
    <3>5. ASSUME r > 1 PROVE c2 = 0
      <4>1. r2 > 0
        BY <3>1, <3>5
      <4>2. QED
        BY <1>21, <4>1
    <3>6. QED
      BY <3>1, <3>2, <3>3, <3>4, <3>5, Zenon
  <2>3. QED
    BY <2>1, <2>2
<1> HIDE DEF K, K2, C, C2
<1>2. (r > 0 /\ u + K2 <= K) \/ (r = 0 /\ r2 = 0 /\ u <= 2 /\ u + K2 <= K + 1)
  <2>1. r = 0 \/ r = 1 \/ r > 1
    OBVIOUS
  <2>2. QED
    BY <1>26, <1>27, <2>1
<1>20. r = 0 => u <= 2 /\ K = c /\ K2 = c2 /\ r2 = 0
  BY <1>26, <1>27
<1> USE DEF K, K2
<1>3. C <= T /\ F = N + T /\ T \in Nat /\ T >= 2
  <2>1. C <= T /\ F = N + T /\ T \in Nat
    BY <1>1, Costs, Needs DEF C
  <2>2. Cost(l, 2) <= T /\ Cost(l, 2) >= 2
    <3>1. Cost(l, 2) <= T
      BY Costs, Sizes
    <3>2. Cost(l, 2) = 2 * l.reads + 1 + Links /\ l.reads \in Nat
      BY Costs, LoadTypes
    <3>3. QED
      BY <3>1, <3>2, Sizes, SMTT(60)
  <2>3. Cost(l, 2) \in Nat
    BY Costs
  <2> HIDE DEF T
  <2>4. QED
    BY <2>1, <2>2, <2>3
<1>4. u < S
  <2> HIDE DEF S, N, F, K, K2, T
  <2>1. S \in Nat /\ F + N + 1 < S /\ N \in Nat /\ N >= 3 /\ F \in Nat
    BY <1>1
  <2>2. CASE u + C2 <= C
    BY <1>3, <1>26, <2>1, <2>2
  <2>3. CASE u <= 2
    BY <2>1, <2>3
  <2>4. QED
    BY <1>27, <2>2, <2>3
<1>5. \A x : /\ Limit(l, x) \in Nat /\ Limit(l, x) < S /\ F <= Limit(l, x)
             /\ x.dest = Mtp => Limit(l, x) = F
             /\ x.dest # Mtp => Limit(l, x) = F + N + 1
  BY <1>1, Limits
<1>6. ASSUME NEW k \in 1 .. Len(q)
      PROVE  /\ k <= r => IsTimer(q[k], lastproc - r + (k - 1))
             /\ k > r => Posted(q[k])
             /\ Asks(q[k]) <=> p < k /\ k <= p + c
             /\ Safe(q[k], m, l, r, c, k)
  BY <1>6, Zenon DEF Queue
<1>7. \A b \in 0 .. S : b # NoBuf => b \in 0 .. S - 1
  BY <1>1 DEF NoBuf
<1>8. \A k \in 1 .. Len(q) : q[k].buf \in 0 .. S
  <2>1. \A x \in Message : x.buf \in 0 .. S
    BY DEF Message
  <2>2. QED
    BY <2>1, SMTT(60)
<1> HIDE DEF S, y, N, F, K, K2, T
\* A message that has been waiting.
<1>9. ASSUME NEW k \in 1 .. Len(q) - 1, k + 1 \in 1 .. Len(q), q[k + 1].buf # NoBuf
      PROVE  \E a \in 1 .. S - 1 :
               /\ k > r2 /\ a + u < S /\ Aged(q[k + 1].buf, m, a)
               /\ a + u + K2 + (k - 1 - r2) <= Limit(l, q[k + 1])
  <2>1. ~ IsTimer(q[k + 1], lastproc - r + ((k + 1) - 1))
    BY <1>9 DEF IsTimer
  <2>2. k + 1 > r /\ k > r2
    <3>1. ~ (k + 1 <= r)
      BY <1>6, <1>9, <2>1, Zenon
    <3>2. QED
      BY <1>1, <3>1, SMTT(60)
  <2>3. PICK a \in 1 .. S - 1 : Aged(q[k + 1].buf, m, a)
                             /\ a + K + ((k + 1) - 1 - r) <= Limit(l, q[k + 1])
    <3>1. Safe(q[k + 1], m, l, r, c, k + 1)
      BY <1>6, <1>9, Zenon
    <3>2. QED
      BY <1>9, <3>1, Zenon DEF Safe, S, K
  <2>4. a + u + K2 + (k - 1 - r2) <= a + K + ((k + 1) - 1 - r)
    <3>1. a \in Int /\ k \in Int /\ K \in Nat /\ K2 \in Nat
      BY <1>1
    <3>2. CASE r = r2 + 1
      <4>1. u + K2 <= K
        BY <1>2, <3>2
      <4>2. QED
        BY <3>1, <3>2, <4>1
    <3>3. CASE r = 0 /\ r2 = 0
      <4>1. u + K2 <= K + 1
        BY <1>2, <3>3
      <4>2. QED
        BY <3>1, <3>3, <4>1
    <3>4. QED
      BY <3>2, <3>3
  <2> DEFINE L == Limit(l, q[k + 1])
  <2>5. L \in Nat /\ L < S
    BY <1>5
  <2> HIDE DEF L
  <2>6. a + K + ((k + 1) - 1 - r) <= L
    BY <2>3 DEF L
  <2>7. a + u + K2 + (k - 1 - r2) <= L
    BY <1>1, <2>4, <2>5, <2>6
  <2>8. a + u < S
    BY <1>1, <2>2, <2>5, <2>7
  <2>9. QED
    BY <2>2, <2>3, <2>7, <2>8 DEF L
\* A message that is posted now.
<1>10. ASSUME NEW j \in 1 .. Len(posts), NEW k, k = Len(q) - 1 + j, posts[j].buf # NoBuf
       PROVE  \E a \in 1 .. S - 1 :
                /\ Aged(posts[j].buf, y, a)
                /\ a + K2 + (k - 1 - r2) <= Limit(l, posts[j])
  <2>1. k \in Int /\ r2 < k /\ k <= Len(e) /\ k >= 1
    <3>1. k \in Int /\ k <= Len(e) /\ k >= Len(q) /\ Len(q) \in Nat /\ Len(q) >= 1
      BY <1>1, <1>10
    <3>2. r2 < Len(q)
      <4>1. r <= Len(q)
        BY <1>1
      <4>2. CASE r = r2 + 1
        BY <4>1, <4>2, <3>1
      <4>3. CASE r2 = 0
        BY <4>3, <3>1
      <4>4. QED
        BY <4>2, <4>3
    <3>3. QED
      BY <3>1, <3>2, SMTT(60)
  <2> DEFINE L == Limit(l, posts[j])
  <2>2. /\ L \in Nat /\ L < S /\ F <= L
        /\ posts[j].dest # Mtp => L = F + N + 1
    BY <1>5
  <2>3. \/ \E d \in Nat : d < u /\ posts[j].buf = (m + d) % S
        \/ r = 0 /\ q[1].dest = Mtp /\ posts[j].dest # Mtp /\ posts[j].buf = q[1].buf
    BY <1>10, Zenon DEF Modest, S
  <2> HIDE DEF L
  <2>4. ASSUME NEW d \in Nat, d < u, posts[j].buf = (m + d) % S
        PROVE  \E a \in 1 .. S - 1 : Aged(posts[j].buf, y, a) /\ a + K2 + (k - 1 - r2) <= L
    <3> DEFINE a == u - d
    <3>1. a \in 1 .. S - 1
      BY <1>1, <1>4, <2>4
    <3>2. Aged(posts[j].buf, y, a)
      BY <1>4, <2>4, GetsApart DEF y, S
    <3>3. a + K2 + (k - 1 - r2) <= L
      <4>1. u + C2 <= C \/ (u <= 2 /\ C2 = 0 /\ r2 = 0)
        BY <1>1, <1>27
      <4>2. a <= u /\ c2 + (k - 1 - r2) <= N - 1
        <5>1. a <= u
          BY <2>4
        <5>2. Len(e) \in Nat /\ Len(e) + c2 <= N /\ N \in Nat
          BY <1>1
        <5> HIDE DEF a
        <5>3. c2 + (k - 1 - r2) <= N - 1
          BY <2>1, <5>2
        <5>4. QED
          BY <5>1, <5>3
      <4>3. u + C2 <= T
        BY <1>3, <1>26, <4>1
      <4>4. QED
        <5>1. K2 = C2 + c2 /\ K2 \in Nat
          BY <1>1, <1>26
        <5>2. a + K2 + (k - 1 - r2) <= F
          BY <1>1, <1>3, <1>26, <2>1, <3>1, <4>2, <4>3, <5>1, SMTT(60)
        <5>3. QED
          BY <1>1, <2>1, <2>2, <3>1, <5>1, <5>2, SMTT(60)
    <3> HIDE DEF a
    <3>4. QED
      BY <3>1, <3>2, <3>3
  <2>5. ASSUME r = 0, q[1].dest = Mtp, posts[j].dest # Mtp, posts[j].buf = q[1].buf
        PROVE  \E a \in 1 .. S - 1 : Aged(posts[j].buf, y, a) /\ a + K2 + (k - 1 - r2) <= L
    <3>1. 1 \in 1 .. Len(q)
      BY <1>1
    <3>2. PICK b \in 1 .. S - 1 : Aged(q[1].buf, m, b) /\ b + K + (1 - 1 - r) <= Limit(l, q[1])
      BY <1>6, <1>10, <2>5, <3>1, Zenon DEF Safe, S, K
    <3>3. b <= F
      <4>1. b + K + (1 - 1 - r) <= F /\ K \in Nat /\ r = 0
        BY <1>1, <1>5, <2>5, <3>2
      <4>2. QED
        BY <1>1, <4>1
    <3>4. q[1].buf \in 0 .. S - 1
      BY <1>7, <1>8, <1>10, <2>5, <3>1
    <3>5. K2 = c2 /\ r2 = 0 /\ u <= 2
      BY <1>20, <2>5
    <3>6. b + u < S /\ b + u \in 1 .. S - 1
      BY <1>1, <3>3, <3>5
    <3>7. Aged(q[1].buf, y, b + u)
      BY <3>2, <3>4, <3>6, OlderBy DEF y, S
    <3>8. b + u + K2 + (k - 1 - r2) <= L
      BY <1>1, <2>1, <2>2, <2>5, <3>3, <3>5, SMTT(60)
    <3>9. QED
      BY <2>5, <3>6, <3>7, <3>8
  <2>6. QED
    BY <2>3, <2>4, <2>5 DEF L
<1>11. ASSUME NEW k \in 1 .. Len(e)
       PROVE  /\ k <= r2 => IsTimer(e[k], lastproc - r2 + (k - 1))
              /\ k > r2 => Posted(e[k])
              /\ Asks(e[k]) <=> p2 < k /\ k <= p2 + c2
              /\ Safe(e[k], y, l, r2, c2, k)
  <2>1. CASE k \in 1 .. Len(q) - 1 /\ k + 1 \in 1 .. Len(q) /\ e[k] = q[k + 1]
    <3>1. Asks(e[k]) <=> p2 < k /\ k <= p2 + c2
      BY <1>6, <1>22, <2>1, Zenon
    <3>2. ASSUME k <= r2 PROVE IsTimer(e[k], lastproc - r2 + (k - 1))
      <4>1. k + 1 <= r /\ lastproc - r + ((k + 1) - 1) = lastproc - r2 + (k - 1)
        BY <1>1, <3>2, SMTT(60)
      <4>2. IsTimer(q[k + 1], lastproc - r + ((k + 1) - 1))
        BY <1>6, <2>1, <4>1, Zenon
      <4>3. QED
        BY <2>1, <4>1, <4>2
    <3>3. ASSUME k > r2 PROVE Posted(e[k])
      <4>1. k + 1 > r
        BY <1>1, <3>3, SMTT(60)
      <4>2. QED
        BY <1>6, <2>1, <4>1, Zenon
    <3>4. ASSUME e[k].buf # NoBuf
          PROVE  \E a \in 1 .. S - 1 : /\ Aged(e[k].buf, y, a)
                                       /\ a + K2 + (k - 1 - r2) <= Limit(l, e[k])
      <4>1. PICK a \in 1 .. S - 1 : /\ k > r2 /\ a + u < S /\ Aged(q[k + 1].buf, m, a)
                                    /\ a + u + K2 + (k - 1 - r2) <= Limit(l, q[k + 1])
        BY <1>9, <2>1, <3>4, Zenon
      <4>2. q[k + 1].buf \in 0 .. S - 1
        BY <1>7, <1>8, <2>1, <3>4
      <4>3. Aged(q[k + 1].buf, y, a + u)
        BY <4>1, <4>2, OlderBy DEF y, S
      <4>4. a + u \in 1 .. S - 1
        BY <1>1, <4>1
      <4>5. QED
        BY <2>1, <4>1, <4>3, <4>4
    <3>5. Safe(e[k], y, l, r2, c2, k)
      BY <3>4, Zenon DEF Safe, S, K2
    <3>6. QED
      BY <3>1, <3>2, <3>3, <3>5
  <2>2. ASSUME NEW j \in 1 .. Len(posts), k = Len(q) - 1 + j, e[k] = Stamp(q[1].dest, posts[j])
        PROVE  /\ k <= r2 => IsTimer(e[k], lastproc - r2 + (k - 1))
               /\ k > r2 => Posted(e[k])
               /\ Asks(e[k]) <=> p2 < k /\ k <= p2 + c2
               /\ Safe(e[k], y, l, r2, c2, k)
    <3>1. ~ (k <= r2)
      <4>1. k >= Len(q) /\ r <= Len(q) /\ Len(q) \in Nat /\ Len(q) >= 1
        BY <1>1, <2>2
      <4>2. CASE r = r2 + 1
        BY <4>1, <4>2
      <4>3. CASE r2 = 0
        BY <4>1, <4>3
      <4>4. QED
        BY <4>2, <4>3
    <3>2. Posted(e[k]) /\ (Asks(e[k]) <=> r = 1)
      BY <2>2, ZenonT(60) DEF Modest
    <3>3. r = 1 <=> p2 < k /\ k <= p2 + c2
      BY <1>23, <2>2, Zenon
    <3>4. e[k].buf = posts[j].buf /\ e[k].dest = posts[j].dest
      BY <2>2 DEF Stamp
    <3>5. Limit(l, e[k]) = Limit(l, posts[j])
      BY <3>4 DEF Limit
    <3>6. ASSUME e[k].buf # NoBuf
          PROVE  \E a \in 1 .. S - 1 : /\ Aged(e[k].buf, y, a)
                                       /\ a + K2 + (k - 1 - r2) <= Limit(l, e[k])
      BY <1>10, <2>2, <3>4, <3>5, <3>6
    <3>7. Safe(e[k], y, l, r2, c2, k)
      BY <3>6, Zenon DEF Safe, S, K2
    <3>8. QED
      BY <3>1, <3>2, <3>3, <3>7
  <2>3. QED
    <3>1. Kept(q, e, k) \/ Added(q, e, posts, k)
      BY <1>25, Zenon
    <3>2. CASE Kept(q, e, k)
      BY <2>1, <3>2, Zenon DEF Kept
    <3>3. CASE Added(q, e, posts, k)
      BY <2>2, <3>3, Zenon DEF Added
    <3>4. QED
      BY <3>1, <3>2, <3>3, Zenon
\* No two of them carry the same buffer.
<1>12. ASSUME NEW k \in 1 .. Len(q) - 1, k + 1 \in 1 .. Len(q), q[k + 1].buf # NoBuf,
              NEW j \in 1 .. Len(posts), posts[j].buf # NoBuf
       PROVE  q[k + 1].buf # posts[j].buf
  <2>1. PICK a \in 1 .. S - 1 : a + u < S /\ Aged(q[k + 1].buf, m, a)
    BY <1>9, <1>12, Zenon
  <2>2. q[k + 1].buf \in 0 .. S - 1
    BY <1>7, <1>8, <1>12
  <2>3. \A d \in Nat : d <= u => (m + d) % S # q[k + 1].buf
    BY <2>1, <2>2, OlderBy DEF S
  <2>4. q[k + 1].buf # q[1].buf
    <3>1. 1 \in 1 .. Len(q) /\ k + 1 # 1
      BY <1>1
    <3>2. QED
      BY <1>12, <3>1, Zenon DEF Queue
  <2>5. \/ \E d \in Nat : d < u /\ posts[j].buf = (m + d) % S
        \/ posts[j].buf = q[1].buf
    BY <1>12, Zenon DEF Modest, S
  <2>6. \A d \in Nat : d < u => d <= u
    OBVIOUS
  <2>7. QED
    BY <2>3, <2>4, <2>5, <2>6
<1>13. ASSUME NEW j \in 1 .. Len(e), NEW k \in 1 .. Len(e), j # k, e[j].buf # NoBuf
       PROVE  e[j].buf # e[k].buf
  <2> DEFINE Old(n) == Kept(q, e, n)
             New(n) == Added(q, e, posts, n)
  <2>1. (Old(j) \/ New(j)) /\ (Old(k) \/ New(k))
    BY <1>25, Zenon
  <2>2. ASSUME Old(j), Old(k) PROVE e[j].buf # e[k].buf
    <3>1. j + 1 # k + 1
      BY <1>13
    <3>2. QED
      BY <1>13, <2>2, <3>1, Zenon DEF Queue, Kept
  <2>3. \A n, i2 : e[n] = Stamp(q[1].dest, posts[i2]) => e[n].buf = posts[i2].buf
    BY DEF Stamp
  <2>4. ASSUME Old(j), New(k) PROVE e[j].buf # e[k].buf
    <3>1. PICK n \in 1 .. Len(posts) : k = Len(q) - 1 + n /\ e[k].buf = posts[n].buf
      BY <2>3, <2>4, Zenon DEF Added
    <3>2. CASE posts[n].buf = NoBuf
      BY <1>13, <3>1, <3>2
    <3>3. CASE posts[n].buf # NoBuf
      BY <1>12, <1>13, <2>4, <3>1, <3>3, Zenon DEF Kept
    <3>4. QED
      BY <3>2, <3>3
  <2>5. ASSUME New(j), Old(k) PROVE e[j].buf # e[k].buf
    <3>1. PICK n \in 1 .. Len(posts) : j = Len(q) - 1 + n /\ e[j].buf = posts[n].buf
      BY <2>3, <2>5, Zenon DEF Added
    <3>2. CASE e[k].buf = NoBuf
      BY <1>13, <3>1, <3>2
    <3>3. CASE e[k].buf # NoBuf
      BY <1>12, <1>13, <2>5, <3>1, <3>3, Zenon DEF Kept
    <3>4. QED
      BY <3>2, <3>3
  <2>6. ASSUME New(j), New(k) PROVE e[j].buf # e[k].buf
    <3>1. PICK n \in 1 .. Len(posts) : j = Len(q) - 1 + n /\ e[j].buf = posts[n].buf
      BY <2>3, <2>6, Zenon DEF Added
    <3>2. PICK o \in 1 .. Len(posts) : k = Len(q) - 1 + o /\ e[k].buf = posts[o].buf
      BY <2>3, <2>6, Zenon DEF Added
    <3>3. n # o
      BY <1>1, <1>13, <3>1, <3>2
    <3>4. QED
      BY <1>13, <3>1, <3>2, <3>3, ZenonT(60) DEF Modest
  <2> HIDE DEF Old, New
  <2>7. QED
    BY <2>1, <2>2, <2>4, <2>5, <2>6
<1>14. /\ r2 <= Len(e) /\ r2 <= lastproc /\ p2 + c2 <= Len(e)
       /\ Len(e) + c2 + Growth(l, r2) <= QueueNeed(l) /\ (r2 > 0 => c2 = 0)
  <2>1. r2 <= lastproc /\ r2 <= Len(e)
    <3>1. r <= lastproc /\ lastproc \in Nat /\ r <= Len(q) /\ Len(q) \in Nat
          /\ Len(posts) \in Nat /\ Len(e) = Len(q) - 1 + Len(posts) /\ Len(q) >= 1
      BY <1>1
    <3>2. QED
      BY <3>1, SMTT(60)
  <2>2. QED
    BY <1>21, <2>1, Zenon
<1>15. QED
  BY <1>11, <1>13, <1>14, Zenon DEF Queue, y, S

LEMMA QueueStep ==
  ASSUME RoomForTick, NEW l \in Loads, NEW q \in Seq(Message), Len(q) >= 1,
         NEW m \in 0 .. SS7BufSize - 1, NEW r \in Nat, NEW p \in Nat, NEW c \in Nat,
         Queue(q, m, l, r, p, c),
         NEW posts \in Seq(Post), NEW u \in Nat, Modest(posts, u, q[1], m, l, r),
         NEW e, Becomes(q, e, posts)
  PROVE  \E r2, p2, c2 \in Nat : Queue(e, (m + u) % SS7BufSize, l, r2, p2, c2)
<1> DEFINE N == QueueNeed(l)
           w == Len(q)
           n == Len(posts)
           v == Len(e)
           G == Growth(l, r)
<1>1. /\ w \in Nat /\ w >= 1 /\ n \in Nat /\ v = w - 1 + n /\ N \in Nat /\ G \in Nat
      /\ w + c + G <= N /\ (r > 0 => c = 0) /\ p + c <= w
  <2>1. w \in Nat /\ n \in Nat /\ N \in Nat /\ G \in Nat
    <3>1. w \in Nat /\ n \in Nat
      OBVIOUS
    <3>2. N \in Nat
      BY Needs
    <3>3. G \in Nat
      BY Growths
    <3>4. QED
      BY <3>1, <3>2, <3>3, Zenon
  <2>2. v = w - 1 + n
    BY DEF Becomes
  <2>3. w + c + G <= N /\ (r > 0 => c = 0) /\ p + c <= w
    BY Zenon DEF Queue
  <2>4. QED
    BY <2>1, <2>2, <2>3
<1>2. Asks(q[1]) <=> p < 1 /\ 1 <= p + c
  <2>1. 1 \in 1 .. Len(q)
    BY <1>1
  <2>2. QED
    BY <2>1, Zenon DEF Queue
<1>3. ASSUME NEW r2 \in Nat, NEW p2 \in Nat, NEW c2 \in Nat,
             Counts(q, e, posts, l, r, p, c, r2, p2, c2)
      PROVE  \E r3, p3, c3 \in Nat : Queue(e, (m + u) % SS7BufSize, l, r3, p3, c3)
  <2>1. Queue(e, (m + u) % SS7BufSize, l, r2, p2, c2)
    BY <1>3, QueueStepTo
  <2>2. QED
    BY <2>1
<1>4. CASE r > 1
  <2> DEFINE r2 == r - 1
             G2 == Growth(l, r2)
  <2>1. r2 \in Nat /\ r = r2 + 1
    BY <1>4
  <2>2. G2 \in Nat /\ n + G2 <= G + 1 /\ c = 0
    <3>1. G2 \in Nat
      BY <2>1, Growths
    <3>2. n + Growth(l, r - 1) <= Growth(l, r) + 1
      BY <1>4 DEF Modest
    <3>3. c = 0
      BY <1>1, <1>4
    <3>4. QED
      BY <3>1, <3>2, <3>3, Zenon
  <2> HIDE DEF r2
  <2>3. v + 0 + Growth(l, r2) <= N
    <3> HIDE DEF N, w, n, v, G, G2
    <3>1. v + G2 <= N
      BY <1>1, <2>2
    <3>2. v + 0 + G2 <= N
      BY <1>1, <2>2, <3>1
    <3>3. QED
      BY <3>2 DEF G2
  <2>4. Counts(q, e, posts, l, r, p, c, r2, 0, 0)
    <3>1. \A k \in 1 .. w - 1 : (0 < k /\ k <= 0 + 0) <=> (p < k + 1 /\ k + 1 <= p + c)
      BY <1>1, <2>2
    <3>2. \A j \in 1 .. n : r = 1 <=> 0 < w - 1 + j /\ w - 1 + j <= 0 + 0
      BY <1>1, <1>4, SMTT(60)
    <3>3. 0 + 0 <= v /\ r # 1 /\ r # 0
      BY <1>1, <1>4
    <3>4. QED
      BY <2>1, <2>3, <3>1, <3>2, <3>3 DEF Counts
  <2>5. QED
    BY <1>3, <2>1, <2>4
<1>5. CASE r = 1
  <2>1. G = Growth(l, 1) /\ 2 * n <= G + 1 /\ Growth(l, 0) = 0 /\ c = 0
    BY <1>1, <1>5, Growths DEF Modest
  <2> HIDE DEF N, w, n, v, G
  <2>2. v + n + 0 <= N /\ w - 1 \in Nat /\ (w - 1) + n <= v
    BY <1>1, <2>1, SMTT(60)
  <2>3. \A k \in 1 .. w - 1 : (w - 1 < k /\ k <= (w - 1) + n) <=> (p < k + 1 /\ k + 1 <= p + c)
    BY <1>1, <2>1
  <2>4. \A j \in 1 .. n : r = 1 <=> w - 1 < w - 1 + j /\ w - 1 + j <= (w - 1) + n
    BY <1>1, <1>5
  <2>5. Counts(q, e, posts, l, r, p, c, 0, w - 1, n)
    <3>1. v + n + Growth(l, 0) <= N
      BY <1>1, <2>1, <2>2
    <3>2. r = 0 + 1 /\ ~ (0 > 0) /\ r # 0
      BY <1>5
    <3>3. QED
      BY <2>2, <2>3, <2>4, <3>1, <3>2 DEF Counts, N, w, n, v
  <2>6. QED
    BY <1>1, <1>3, <2>2, <2>5
<1>6. CASE r = 0
  <2>1. Growth(l, 0) = 0 /\ n <= 2 /\ (Asks(q[1]) \/ n <= 1)
    BY <1>6, Growths DEF Modest
  <2>2. w + c <= N
    BY <1>1, <1>6, <2>1
  <2> HIDE DEF N, w, n, v, G
  <2>3. ASSUME NEW p2 \in Nat, NEW c2 \in Nat, v + c2 <= N, p2 + c2 <= v, p2 + c2 < w,
               c2 <= c, Asks(q[1]) => c2 + 1 <= c,
               \A k \in 1 .. w - 1 : (p2 < k /\ k <= p2 + c2) <=> (p < k + 1 /\ k + 1 <= p + c)
        PROVE  Counts(q, e, posts, l, r, p, c, 0, p2, c2)
    <3>1. v + c2 + Growth(l, 0) <= N
      BY <1>1, <2>1, <2>3
    <3>2. \A j \in 1 .. n : r = 1 <=> p2 < w - 1 + j /\ w - 1 + j <= p2 + c2
      BY <1>1, <1>6, <2>3
    <3>3. r = 0 + 1 \/ (r = 0 /\ 0 = 0)
      BY <1>6
    <3>4. ~ (0 > 0) /\ r # 1
      BY <1>6
    <3>5. QED
      BY <2>3, <3>1, <3>2, <3>3, <3>4 DEF Counts, N, w, n, v
  <2>4. CASE Asks(q[1])
    <3>1. p = 0 /\ c >= 1
      BY <1>2, <2>4
    <3>2. \A k \in 1 .. w - 1 : (0 < k /\ k <= 0 + (c - 1)) <=> (p < k + 1 /\ k + 1 <= p + c)
      BY <1>1, <3>1
    <3>3. /\ c - 1 \in Nat /\ v + (c - 1) <= N /\ 0 + (c - 1) <= v /\ 0 + (c - 1) < w
          /\ c - 1 <= c /\ (c - 1) + 1 <= c
      BY <1>1, <2>1, <2>2, <3>1
    <3>4. Counts(q, e, posts, l, r, p, c, 0, 0, c - 1)
      BY <2>3, <3>2, <3>3
    <3>5. QED
      BY <1>3, <3>3, <3>4
  <2>5. CASE ~ Asks(q[1]) /\ c = 0
    <3>1. \A k \in 1 .. w - 1 : (0 < k /\ k <= 0 + 0) <=> (p < k + 1 /\ k + 1 <= p + c)
      BY <1>1, <2>5
    <3>2. v + 0 <= N /\ 0 + 0 <= v /\ 0 + 0 < w /\ 0 <= c
      BY <1>1, <2>1, <2>2, <2>5
    <3>3. Counts(q, e, posts, l, r, p, c, 0, 0, 0)
      BY <2>3, <2>5, <3>1, <3>2
    <3>4. QED
      BY <1>3, <3>3
  <2>6. CASE ~ Asks(q[1]) /\ c # 0
    <3>1. p >= 1 /\ c >= 1
      BY <1>2, <2>6
    <3>2. \A k \in 1 .. w - 1 : (p - 1 < k /\ k <= (p - 1) + c) <=> (p < k + 1 /\ k + 1 <= p + c)
      BY <1>1, <3>1
    <3>3. p - 1 \in Nat /\ v + c <= N /\ (p - 1) + c <= v /\ (p - 1) + c < w /\ c <= c
      BY <1>1, <2>1, <2>2, <2>6, <3>1
    <3>4. Counts(q, e, posts, l, r, p, c, 0, p - 1, c)
      BY <2>3, <2>6, <3>2, <3>3
    <3>5. QED
      BY <1>3, <3>3, <3>4
  <2>7. QED
    BY <2>4, <2>5, <2>6
<1>7. QED
  BY <1>4, <1>5, <1>6

\* After a tick the queue holds the timer messages.
LEMMA QueueOfTick ==
  ASSUME NEW l \in Loads, NEW m, NEW q, Len(q) = lastproc,
         \A k \in 1 .. lastproc : IsTimer(q[k], k - 1)
  PROVE  Queue(q, m, l, lastproc, 0, 0)
<1>1. lastproc \in Nat /\ Growth(l, lastproc) \in Nat /\ QueueNeed(l) = lastproc + Growth(l, lastproc)
  BY Sizes, Growths DEF QueueNeed
<1>2. ASSUME NEW k \in 1 .. lastproc
      PROVE  /\ IsTimer(q[k], lastproc - lastproc + (k - 1)) /\ q[k].buf = NoBuf
             /\ ~ Asks(q[k]) /\ ~ (0 < k /\ k <= 0 + 0) /\ k <= lastproc
  <2>1. lastproc - lastproc + (k - 1) = k - 1
    BY <1>1
  <2>2. QED
    BY <1>1, <2>1 DEF IsTimer, Asks
<1>3. /\ lastproc <= lastproc /\ lastproc + 0 + Growth(l, lastproc) <= QueueNeed(l)
      /\ 0 + 0 <= lastproc
  BY <1>1
<1>4. \A k \in 1 .. lastproc : ~ (k > lastproc)
  BY <1>1
<1>5. QED
  BY <1>2, <1>3, <1>4 DEF Queue, Safe

LEMMA QueueEmpty ==
  ASSUME NEW l \in Loads, NEW m, NEW q, Len(q) = 0
  PROVE  Queue(q, m, l, 0, 0, 0)
<1>1. lastproc \in Nat /\ 0 <= lastproc /\ Growth(l, 0) = 0 /\ Growth(l, lastproc) \in Nat
      /\ QueueNeed(l) = lastproc + Growth(l, lastproc)
  <2>1. lastproc \in Nat /\ 0 <= lastproc
    BY Sizes
  <2>2. Growth(l, 0) = 0 /\ Growth(l, lastproc) \in Nat
    BY <2>1, Growths
  <2>3. QED
    BY <2>1, <2>2 DEF QueueNeed
<1>2. 0 + 0 + Growth(l, 0) <= QueueNeed(l)
  BY <1>1
<1>3. 1 .. 0 = {}
  OBVIOUS
<1>4. QED
  BY <1>1, <1>2, <1>3 DEF Queue

-----------------------------------------------------------------------------
(* What the handlers post. *)

LEMMA FreshTypes ==
  ASSUME memalloc \in 0 .. SS7BufSize - 1, NEW d \in Nat
  PROVE  /\ Fresh(d) \in 0 .. SS7BufSize - 1 /\ Fresh(d) \in 0 .. SS7BufSize /\ Fresh(d) # NoBuf
         /\ Fresh(d) = (memalloc + d) % SS7BufSize
<1>1. SS7BufSize \in Nat /\ SS7BufSize >= 1 /\ memalloc + d \in Int
  BY Sizes
<1> DEFINE x == memalloc + d
<1> HIDE DEF x
<1>2. x \in Int => x % SS7BufSize \in 0 .. SS7BufSize - 1
  BY <1>1
<1>3. Fresh(d) = x % SS7BufSize
  BY DEF Fresh, x
<1>4. QED
  BY <1>1, <1>2, <1>3 DEF NoBuf, x

LEMMA ToTypes ==
  ASSUME NEW dest \in Proc, NEW buf \in 0 .. SS7BufSize,
         NEW name \in Name
  PROVE  /\ To(dest, name, buf) \in Post
         /\ To(dest, name, buf).dest = dest /\ To(dest, name, buf).msg = name
         /\ To(dest, name, buf).buf = buf
  BY DEF To, Post

LEMMA Names ==
  /\ "TIMER" \in Name /\ "LINKTRANSFER" \in Name /\ "LINKRESET" \in Name
  /\ "LINKPAUSE" \in Name /\ "LINKRESUME" \in Name /\ "M3UATRANSFER" \in Name
  BY DEF Name

LEMMA StampIs ==
  ASSUME NEW src, NEW y
  PROVE  /\ Stamp(src, y).src = src /\ Stamp(src, y).dest = y.dest
         /\ Stamp(src, y).msg = y.msg /\ Stamp(src, y).buf = y.buf
  BY DEF Stamp

LEMMA Procs ==
  /\ Mtp \in Proc /\ Server \in Proc /\ LinkNo \subseteq Proc /\ Mtp # Server
  /\ Mtp \notin LinkNo /\ Server \notin LinkNo /\ -1 \notin Proc
  /\ \A d \in Proc : d \in LinkNo \/ d = Mtp \/ d = Server
<1>1. Links \in Nat /\ Links >= 1 /\ Mtp = Links /\ Server = Links + 1 /\ lastproc = Links + 2
  BY Sizes
<1>2. QED
  BY <1>1 DEF LinkNo, Proc

LEMMA NoBufIs == NoBuf \in 0 .. SS7BufSize
  BY Sizes DEF NoBuf

LEMMA DoesIs ==
  ASSUME NEW posts, NEW used, NEW logs
  PROVE  /\ Does(posts, used, logs).posts = posts /\ Does(posts, used, logs).used = used
         /\ Does(posts, used, logs).logs = logs
  BY DEF Does

LEMMA ChosenIs ==
  ASSUME NEW n \in Nat, NEW S \in Chosen(n)
  PROVE  /\ Len(S) \in Nat /\ Len(S) <= n /\ DOMAIN S = 1 .. Len(S) /\ S \in Seq(Nat)
         /\ \A j \in 1 .. Len(S) : S[j] \in 0 .. n - 1 /\ S[j] \in Nat /\ S[j] < n
         /\ \A j, k \in 1 .. Len(S) : j # k => S[j] # S[k]
<1>1. PICK k \in 0 .. n : S \in [1 .. k -> 0 .. n - 1]
  BY DEF Chosen
<1>2. \A a, b \in DOMAIN S : a < b => S[a] < S[b]
  BY DEF Chosen
<1>3. k \in Nat /\ k <= n
  BY <1>1
<1>4. DOMAIN S = 1 .. k /\ Len(S) = k
  BY <1>1, <1>3
<1>5. \A j \in 1 .. k : S[j] \in 0 .. n - 1 /\ S[j] \in Nat /\ S[j] < n
  BY <1>1
<1>6. \A a, b \in 1 .. k : a < b => S[a] < S[b]
  BY <1>2, <1>4
<1>7. \A a, b \in 1 .. k : a # b => S[a] # S[b]
  BY <1>5, <1>6
<1>8. S \in Seq(Nat)
  BY <1>1, <1>3, <1>5
<1>9. QED
  BY <1>3, <1>4, <1>5, <1>7, <1>8

\* The buffers of two posts are different if they come from different calls of mem().
LEMMA FreshApart ==
  ASSUME memalloc \in 0 .. SS7BufSize - 1, NEW u \in Nat, u < SS7BufSize,
         NEW d \in Nat, NEW e \in Nat, d < u, e < u, d # e
  PROVE  Fresh(d) # Fresh(e)
  BY GetsApart, FreshTypes, ZenonT(60)

\* What the handlers log.
LEMMA LogSeqs ==
  /\ <<>> \in Seq(LogRecord) /\ \A a \in LogRecord : <<a>> \in Seq(LogRecord)
  /\ \A a, b \in LogRecord : <<a, b>> \in Seq(LogRecord)
  /\ \A a, b, c \in LogRecord : <<a, b, c>> \in Seq(LogRecord)
  /\ \A n \in Nat : \A a \in LogRecord : [k \in 1 .. n |-> a] \in Seq(LogRecord)
  /\ "link" \in LogRecord /\ "mtp" \in LogRecord /\ "tx" \in LogRecord /\ "rx" \in LogRecord
  /\ "server" \in LogRecord
  BY CoreAssumption

\* RoomForTick bounds what a handler takes.
LEMMA CostFits ==
  ASSUME RoomForTick, NEW l \in Loads, NEW r \in Nat, r <= lastproc
  PROVE  Cost(l, r) < SS7BufSize /\ 2 < SS7BufSize
<1>1. Cost(l, r) \in Nat /\ Cost(l, r) <= Cost(l, lastproc) /\ Cost(l, lastproc) \in Nat
  BY Costs, Sizes
<1>2. /\ QueueNeed(l) \in Nat /\ FirstWait(l) \in Nat /\ SecondWait(l) \in Nat
      /\ FirstWait(l) = QueueNeed(l) + Cost(l, lastproc)
      /\ SecondWait(l) = FirstWait(l) + QueueNeed(l) + 1
  BY Needs
<1>3. QueueNeed(l) >= 1
  <2>1. Growth(l, lastproc) \in Nat /\ lastproc \in Nat /\ lastproc >= 1
    BY Growths, Sizes
  <2>2. QED
    BY <2>1 DEF QueueNeed
<1>4. SecondWait(l) < SS7BufSize
  BY DEF RoomForTick
<1> DEFINE T == Cost(l, lastproc)
<1> HIDE DEF T
<1>5. QED
  BY <1>1, <1>2, <1>3, <1>4, Sizes DEF T

LEMMA InOrderIs ==
  ASSUME memalloc \in 0 .. SS7BufSize - 1, NEW S \in Seq(Nat), NEW dest \in Proc, NEW name \in Name
  PROVE  /\ InOrder(S, dest, name) \in Seq(Post) /\ Len(InOrder(S, dest, name)) = Len(S)
         /\ \A j \in 1 .. Len(S) : /\ InOrder(S, dest, name)[j].dest = dest
                                   /\ InOrder(S, dest, name)[j].msg = name
                                   /\ InOrder(S, dest, name)[j].buf = Fresh(S[j])
<1> DEFINE k == Len(S)
           f(j) == To(dest, name, Fresh(S[j]))
           F == [j \in 1 .. k |-> f(j)]
<1>1. k \in Nat /\ \A j \in 1 .. k : S[j] \in Nat
  OBVIOUS
<1>2. \A j \in 1 .. k : Fresh(S[j]) \in 0 .. SS7BufSize
  BY <1>1, FreshTypes
<1>3. \A j \in 1 .. k : f(j) \in Post
  BY <1>2, ToTypes
<1>4. F = InOrder(S, dest, name)
  BY DEF InOrder
<1>5. \A j \in 1 .. k : f(j).dest = dest /\ f(j).msg = name /\ f(j).buf = Fresh(S[j])
  BY <1>2, ToTypes
<1> HIDE DEF f, k
<1>6. F \in Seq(Post) /\ Len(F) = k /\ \A j \in 1 .. k : F[j] = f(j)
  BY <1>1, <1>3
<1> HIDE DEF F
<1>7. QED
  BY <1>4, <1>5, <1>6 DEF k

\* What a handler does, if x is handled while r timer messages wait.
DoesWell(does, x, r) ==
  /\ does.posts \in Seq(Post) /\ does.used \in Nat /\ does.logs \in Seq(LogRecord)
  /\ Modest(does.posts, does.used, x, memalloc, load, r)

\* The server's.
LEMMA ServerTimerDoes ==
  ASSUME RoomForTick, load \in Loads, memalloc \in 0 .. SS7BufSize - 1, NEW x, x.dest = Server,
         x.msg = "TIMER", NEW does \in ServerEvent(x)
  PROVE  DoesWell(does, x, 1)
<1> DEFINE Faults == {[k \in 1 .. m |-> "server"] : m \in 0 .. load.faults}
<1>1. PICK n \in 0 .. load.reads, failed \in {0, 1}, logs \in Faults :
        does = Does(InOrder([j \in 1 .. n |-> j - 1], Mtp, "M3UATRANSFER"), n + failed, logs)
  <2> DEFINE D(n, failed, logs) ==
               Does(InOrder([j \in 1 .. n |-> j - 1], Mtp, "M3UATRANSFER"), n + failed, logs)
  <2>1. ServerEvent(x) = {D(n, failed, logs) : n \in 0 .. load.reads, failed \in {0, 1}, logs \in Faults}
    BY DEF ServerEvent
  <2> HIDE DEF D, Faults
  <2>2. \E n \in 0 .. load.reads, failed \in {0, 1}, logs \in Faults : does = D(n, failed, logs)
    BY <2>1
  <2>3. QED
    BY <2>2, Zenon DEF D
<1> DEFINE S == [j \in 1 .. n |-> j - 1]
           posts == InOrder(S, Mtp, "M3UATRANSFER")
           u == n + failed
<1>2. load.reads \in Nat /\ n \in Nat /\ n <= load.reads /\ u \in Nat /\ n <= u /\ u <= load.reads + 1
  BY LoadTypes
<1>3. S \in Seq(Nat) /\ Len(S) = n /\ \A j \in 1 .. n : S[j] = j - 1
  BY <1>2
<1> HIDE DEF S
<1>4. /\ posts \in Seq(Post) /\ Len(posts) = n
      /\ \A j \in 1 .. n : /\ posts[j].dest = Mtp /\ posts[j].msg = "M3UATRANSFER"
                           /\ posts[j].buf = Fresh(S[j])
  <2>1. Mtp \in Proc /\ "M3UATRANSFER" \in Name
    BY Procs, Names
  <2>2. \A T \in Seq(Nat) :
          /\ InOrder(T, Mtp, "M3UATRANSFER") \in Seq(Post)
          /\ Len(InOrder(T, Mtp, "M3UATRANSFER")) = Len(T)
          /\ \A j \in 1 .. Len(T) : /\ InOrder(T, Mtp, "M3UATRANSFER")[j].dest = Mtp
                                   /\ InOrder(T, Mtp, "M3UATRANSFER")[j].msg = "M3UATRANSFER"
                                   /\ InOrder(T, Mtp, "M3UATRANSFER")[j].buf = Fresh(T[j])
    BY <2>1, InOrderIs
  <2>3. QED
    BY <1>3, <2>2
<1>5. does.posts = posts /\ does.used = u /\ does.logs = logs
  <2> HIDE DEF Faults
  <2>1. QED
    BY <1>1, DoesIs DEF S
<1> HIDE DEF posts, u
<1>6. logs \in Seq(LogRecord)
  BY LogSeqs, LoadTypes
<1> HIDE DEF Faults
<1>7. /\ Cost(load, 0) = 0 /\ Cost(load, 1) = 2 * load.reads + 1
      /\ u + Cost(load, 1 - 1) <= Cost(load, 1) /\ u < SS7BufSize /\ u + n <= Cost(load, 1)
  <2>1. Cost(load, 0) = 0 /\ Cost(load, 1) = 2 * load.reads + 1
    BY Costs
  <2>2. Cost(load, 1) < SS7BufSize
    BY CostFits, Sizes
  <2>3. 1 - 1 = 0
    OBVIOUS
  <2>4. QED
    BY <1>2, <2>1, <2>2, <2>3, Sizes
<1>8. 2 * n <= Growth(load, 1) + 1
  <2>1. Growth(load, 1) = ServerExtra(load)
    BY Growths
  <2>2. load.reads = 0 => ServerExtra(load) = 0
    BY DEF ServerExtra
  <2>3. load.reads # 0 => ServerExtra(load) = 2 * load.reads - 1
    BY DEF ServerExtra
  <2>4. QED
    BY <1>2, <2>1, <2>2, <2>3
<1>9. ASSUME NEW j \in 1 .. n
      PROVE  /\ Posted(Stamp(x.dest, posts[j])) /\ Asks(Stamp(x.dest, posts[j]))
             /\ \E d \in Nat : d < u /\ posts[j].buf = (memalloc + d) % SS7BufSize
  <2>1. Posted(Stamp(x.dest, posts[j])) /\ Asks(Stamp(x.dest, posts[j]))
    BY <1>4, StampIs DEF Posted, Asks
  <2>2. j - 1 \in Nat /\ j - 1 < u /\ posts[j].buf = Fresh(j - 1)
    BY <1>2, <1>3, <1>4
  <2>3. QED
    BY <2>1, <2>2, FreshTypes
<1>10. ASSUME NEW j \in 1 .. n, NEW k \in 1 .. n, j # k PROVE posts[j].buf # posts[k].buf
  <2>1. posts[j].buf = Fresh(j - 1) /\ posts[k].buf = Fresh(k - 1)
    BY <1>3, <1>4
  <2>2. j - 1 \in Nat /\ k - 1 \in Nat /\ j - 1 < u /\ k - 1 < u /\ j - 1 # k - 1
    BY <1>2, <1>10
  <2>3. QED
    BY <1>2, <1>7, <2>1, <2>2, FreshApart
<1>11. Modest(posts, u, x, memalloc, load, 1)
  <2>1. ~ (1 = 0) /\ ~ (1 > 1)
    OBVIOUS
  <2>2. QED
    BY <1>4, <1>7, <1>8, <1>9, <1>10, <2>1 DEF Modest
<1>12. QED
  BY <1>2, <1>4, <1>5, <1>6, <1>11 DEF DoesWell

\* MTP3's: SLTM again to some links, others are reset.
LEMMA MtpTimerDoes ==
  ASSUME RoomForTick, load \in Loads, memalloc \in 0 .. SS7BufSize - 1, NEW x, x.dest = Mtp,
         NEW does \in MtpTimer
  PROVE  DoesWell(does, x, 2)
<1> DEFINE Restarts(busy, act) ==
             LET Again(k) == Cardinality({j \in 1 .. k : act[j] = "again"})
             IN  Does([k \in DOMAIN busy |->
                         IF act[k] = "again"
                         THEN To(busy[k], "LINKTRANSFER", Fresh(Again(k) - 1))
                         ELSE To(busy[k], "LINKRESET", NoBuf)],
                      Again(Len(busy)),
                      [k \in 1 .. Len(busy) - Again(Len(busy)) |-> "link"])
<1>21. PICK busy \in Chosen(Links) :
         does \in {Restarts(busy, act) : act \in [DOMAIN busy -> {"again", "reset"}]}
  BY Zenon DEF MtpTimer
<1>1. PICK act \in [DOMAIN busy -> {"again", "reset"}] : does = Restarts(busy, act)
  BY <1>21
<1> DEFINE n == Len(busy)
           A(k) == {j \in 1 .. k : act[j] = "again"}
           Again(k) == Cardinality(A(k))
           f(k) == IF act[k] = "again"
                   THEN To(busy[k], "LINKTRANSFER", Fresh(Again(k) - 1))
                   ELSE To(busy[k], "LINKRESET", NoBuf)
           posts == [k \in 1 .. n |-> f(k)]
           u == Again(n)
           logs == [k \in 1 .. n - u |-> "link"]
<1>2. /\ n \in Nat /\ n <= Links /\ DOMAIN busy = 1 .. n
      /\ \A j \in 1 .. n : busy[j] \in 0 .. Links - 1
  BY ChosenIs, Sizes
<1>3. does.posts = posts /\ does.used = u /\ does.logs = logs
  <2>1. does = Does(posts, u, logs)
    BY <1>1, <1>2
  <2>2. QED
    BY <2>1, DoesIs
<1>4. \A k \in Nat : IsFiniteSet(A(k)) /\ Again(k) \in Nat /\ Again(k) <= k
  <2> TAKE k \in Nat
  <2>1. IsFiniteSet(1 .. k) /\ Cardinality(1 .. k) = k
    BY FS_Interval
  <2>2. A(k) \in SUBSET (1 .. k)
    OBVIOUS
  <2> HIDE DEF A
  <2>3. QED
    BY <2>1, <2>2, FS_Subset, FS_CardinalityType
\* The n-th SLTM gets the n-th buffer.
<1>5. ASSUME NEW j \in 1 .. n, NEW k \in 1 .. n, j <= k, j # k => act[k] = "again"
      PROVE  /\ Again(j) <= Again(k)
             /\ j # k => Again(j) < Again(k)
  <2>1. j \in Nat /\ k \in Nat
    BY <1>2
  <2>2. A(j) \in SUBSET A(k)
    BY <1>5, <2>1
  <2>3. j # k => A(j) # A(k)
    <3>1. j # k => k \in A(k) /\ k \notin A(j)
      BY <1>5, <2>1
    <3>2. QED
      BY <3>1
  <2>4. IsFiniteSet(A(k)) /\ Again(k) \in Nat /\ Again(j) \in Nat
    BY <1>4, <2>1
  <2> HIDE DEF A
  <2>5. Again(j) <= Again(k) /\ (Again(k) = Again(j) => A(k) = A(j))
    BY <2>2, <2>4, FS_Subset
  <2>6. QED
    BY <2>3, <2>4, <2>5
<1>6. ASSUME NEW k \in 1 .. n PROVE Again(k) <= u
  <2>1. k \in Nat /\ n \in Nat /\ k <= n
    BY <1>2
  <2>2. A(k) \in SUBSET A(n)
    BY <2>1
  <2>3. IsFiniteSet(A(n))
    BY <1>4, <2>1
  <2> HIDE DEF A
  <2>4. QED
    BY <2>2, <2>3, FS_Subset
<1>7. ASSUME NEW k \in 1 .. n, act[k] = "again" PROVE Again(k) - 1 \in Nat /\ Again(k) - 1 < u
  <2>1. k \in Nat /\ Again(k) \in Nat /\ u \in Nat
    BY <1>2, <1>4
  <2>2. k \in A(k)
    BY <1>7, <2>1
  <2>3. Again(k) # 0
    BY <1>4, <2>1, <2>2, FS_EmptySet
  <2>4. Again(k) <= u
    BY <1>6
  <2> HIDE DEF Again, u
  <2>5. QED
    BY <2>1, <2>3, <2>4
<1>8. u \in Nat /\ u <= n
  BY <1>2, <1>4
<1> HIDE DEF A
<1> HIDE DEF Again, u
<1>9. \A k \in 1 .. n : busy[k] \in Proc /\ busy[k] \in LinkNo /\ busy[k] # Mtp
  BY <1>2, Procs DEF LinkNo
<1>10. ASSUME NEW k \in 1 .. n, act[k] = "again"
       PROVE  /\ f(k) \in Post /\ f(k).dest = busy[k] /\ f(k).msg = "LINKTRANSFER"
              /\ f(k).buf = Fresh(Again(k) - 1)
  <2>1. f(k) = To(busy[k], "LINKTRANSFER", Fresh(Again(k) - 1))
    BY <1>10
  <2>2. Fresh(Again(k) - 1) \in 0 .. SS7BufSize
    BY <1>7, <1>10, FreshTypes
  <2> HIDE DEF f
  <2>3. QED
    BY <1>9, <2>1, <2>2, ToTypes, Names
<1>11. ASSUME NEW k \in 1 .. n, act[k] # "again"
       PROVE  f(k) \in Post /\ f(k).dest = busy[k] /\ f(k).msg = "LINKRESET" /\ f(k).buf = NoBuf
  <2>1. f(k) = To(busy[k], "LINKRESET", NoBuf)
    BY <1>11
  <2> HIDE DEF f
  <2>2. QED
    BY <1>9, <2>1, NoBufIs, ToTypes, Names
<1>12. \A k \in 1 .. n : f(k) \in Post
  BY <1>10, <1>11
<1> HIDE DEF f
<1>13. posts \in Seq(Post) /\ Len(posts) = n /\ \A k \in 1 .. n : posts[k] = f(k)
  BY <1>2, <1>12
<1> HIDE DEF posts
<1>14. logs \in Seq(LogRecord)
  <2>1. n - u \in Nat /\ "link" \in LogRecord
    BY <1>2, <1>8, LogSeqs
  <2>2. QED
    BY <2>1, LogSeqs
<1>15. u + Cost(load, 2 - 1) <= Cost(load, 2) /\ u < SS7BufSize
  <2>1. Cost(load, 1) = 2 * load.reads + 1 /\ Cost(load, 2) = 2 * load.reads + 1 + Links
    BY Costs
  <2>2. Cost(load, 2) < SS7BufSize /\ 2 - 1 = 1 /\ load.reads \in Nat
    BY CostFits, Sizes, LoadTypes
  <2>3. QED
    BY <1>2, <1>8, <2>1, <2>2, Sizes, SMTT(60)
<1>16. n + Growth(load, 2 - 1) <= Growth(load, 2) + 1
  <2>1. /\ Growth(load, 1) = ServerExtra(load) /\ Growth(load, 2) = ServerExtra(load) + (Links - 1)
        /\ Growth(load, 1) \in Nat
    BY Growths
  <2>2. 2 - 1 = 1
    OBVIOUS
  <2>3. QED
    BY <1>2, <2>1, <2>2, Sizes
<1>17. ASSUME NEW k \in 1 .. n
       PROVE  /\ Posted(Stamp(x.dest, posts[k])) /\ ~ Asks(Stamp(x.dest, posts[k]))
              /\ \/ posts[k].buf = NoBuf
                 \/ \E d \in Nat : d < u /\ posts[k].buf = (memalloc + d) % SS7BufSize
  <2>1. posts[k].dest \in LinkNo /\ posts[k].dest # Mtp /\ posts[k].msg \in {"LINKTRANSFER", "LINKRESET"}
    BY <1>9, <1>10, <1>11, <1>13
  <2>2. Posted(Stamp(x.dest, posts[k])) /\ ~ Asks(Stamp(x.dest, posts[k]))
    BY <2>1, StampIs DEF Posted, Asks
  <2>3. CASE act[k] = "again"
    <3>1. /\ posts[k].buf = Fresh(Again(k) - 1) /\ Again(k) - 1 \in Nat /\ Again(k) - 1 < u
      BY <1>7, <1>10, <1>13, <2>3
    <3>2. QED
      BY <2>2, <3>1, FreshTypes
  <2>4. CASE act[k] # "again"
    BY <1>11, <1>13, <2>2, <2>4
  <2>5. QED
    BY <2>3, <2>4
<1>18. ASSUME NEW j \in 1 .. n, NEW k \in 1 .. n, j # k, posts[j].buf # NoBuf
       PROVE  posts[j].buf # posts[k].buf
  <2>1. act[j] = "again"
    BY <1>11, <1>13, <1>18
  <2>2. CASE act[k] # "again"
    BY <1>11, <1>13, <1>18, <2>2
  <2>3. CASE act[k] = "again"
    <3>1. j <= k \/ k <= j
      BY <1>2
    <3>2. Again(j) \in Nat /\ Again(k) \in Nat
      BY <1>2, <1>4
    <3>3. Again(j) # Again(k)
      BY <1>5, <1>18, <2>1, <2>3, <3>1, <3>2
    <3>4. /\ Again(j) - 1 \in Nat /\ Again(j) - 1 < u /\ Again(k) - 1 \in Nat /\ Again(k) - 1 < u
          /\ Again(j) - 1 # Again(k) - 1
      BY <1>7, <2>1, <2>3, <3>2, <3>3, SMTT(60)
    <3>5. Fresh(Again(j) - 1) # Fresh(Again(k) - 1)
      BY <1>8, <1>15, <3>4, FreshApart
    <3>6. QED
      BY <1>10, <1>13, <2>1, <2>3, <3>5
  <2>4. QED
    BY <2>2, <2>3
<1> HIDE DEF n, logs
<1>19. Modest(posts, u, x, memalloc, load, 2)
  <2>1. ~ (2 = 0) /\ 2 > 0 /\ ~ (2 = 1)
    OBVIOUS
  <2>2. QED
    BY <1>13, <1>15, <1>16, <1>17, <1>18, <2>1 DEF Modest
<1>20. QED
  BY <1>3, <1>8, <1>13, <1>14, <1>19 DEF DoesWell

\* A link's: every SU takes a buffer, MSUs are passed on, the link may be up again.
LEMMA LinkTimerPosts ==
  ASSUME RoomForTick, load \in Loads, memalloc \in 0 .. SS7BufSize - 1, NEW x, x.dest \in LinkNo,
         NEW r \in Nat, r >= 3, r <= lastproc,
         NEW n \in 0 .. load.sus, NEW S \in Chosen(n), NEW posts \in Seq(Post), NEW off \in Nat,
         Len(posts) <= Len(S) + 1,
         \A j \in 1 .. Len(posts) :
           \/ posts[j] = To(Mtp, "LINKRESUME", NoBuf)
           \/ j - off \in 1 .. Len(S) /\ posts[j] = To(Mtp, "LINKTRANSFER", Fresh(S[j - off]))
  PROVE  n \in Nat /\ Modest(posts, n, x, memalloc, load, r)
<1> DEFINE s == Len(S)
           t == Len(posts)
<1>4. n \in Nat /\ n <= load.sus /\ load.sus \in Nat
  BY LoadTypes
<1>5. /\ s \in Nat /\ s <= n /\ t \in Nat /\ t <= s + 1
      /\ \A j \in 1 .. s : S[j] \in Nat /\ S[j] < n
      /\ \A j, k \in 1 .. s : j # k => S[j] # S[k]
  BY <1>4, ChosenIs
<1> HIDE DEF s, t
\* What each of them is.
<1>10. ASSUME NEW j \in 1 .. t
       PROVE  \/ posts[j].dest = Mtp /\ posts[j].buf = NoBuf /\ posts[j].msg = "LINKRESUME"
              \/ /\ j - off \in 1 .. s /\ posts[j].dest = Mtp /\ posts[j].msg = "LINKTRANSFER"
                 /\ posts[j].buf = Fresh(S[j - off])
  <2>1. Mtp \in Proc /\ NoBuf \in 0 .. SS7BufSize
    BY Procs, NoBufIs
  <2>2. CASE posts[j] = To(Mtp, "LINKRESUME", NoBuf)
    BY <2>1, <2>2, ToTypes, Names
  <2>3. CASE j - off \in 1 .. s /\ posts[j] = To(Mtp, "LINKTRANSFER", Fresh(S[j - off]))
    <3>1. S[j - off] \in Nat
      BY <1>5, <2>3
    <3>2. Fresh(S[j - off]) \in 0 .. SS7BufSize
      BY <3>1, FreshTypes
    <3>3. QED
      BY <2>1, <2>3, <3>2, ToTypes, Names
  <2>4. QED
    BY <2>2, <2>3 DEF s, t
<1>11. n + Cost(load, r - 1) <= Cost(load, r) /\ n < SS7BufSize
       /\ t + Growth(load, r - 1) <= Growth(load, r) + 1
  <2> DEFINE b == r - 1
  <2>1. b \in Nat /\ b >= 2 /\ b + 1 = r
    OBVIOUS
  <2> HIDE DEF b
  <2>2. Cost(load, b + 1) = Cost(load, b) + load.sus /\ Cost(load, b) \in Nat
    BY <2>1, Costs
  <2>3. Growth(load, b + 1) = Growth(load, b) + load.sus /\ Growth(load, b) \in Nat
    BY <2>1, Growths
  <2>4. Cost(load, r) < SS7BufSize
    BY CostFits
  <2>5. /\ n + Cost(load, b) <= Cost(load, b + 1) /\ n < SS7BufSize
        /\ t + Growth(load, b) <= Growth(load, b + 1) + 1
    <3>1. n <= Cost(load, b + 1)
      BY <1>4, <2>2
    <3>2. Cost(load, b + 1) < SS7BufSize /\ SS7BufSize \in Nat
      BY <2>1, <2>4, Sizes
    <3>3. t <= 1 + load.sus
      BY <1>4, <1>5
    <3>4. QED
      BY <1>4, <1>5, <2>2, <2>3, <3>1, <3>2, <3>3
  <2>6. QED
    BY <2>1, <2>5 DEF b
<1>12. ASSUME NEW j \in 1 .. t
       PROVE  /\ Posted(Stamp(x.dest, posts[j])) /\ ~ Asks(Stamp(x.dest, posts[j]))
              /\ \/ posts[j].buf = NoBuf
                 \/ \E d \in Nat : d < n /\ posts[j].buf = (memalloc + d) % SS7BufSize
  <2>1. posts[j].dest = Mtp /\ posts[j].msg \in {"LINKTRANSFER", "LINKPAUSE", "LINKRESUME"}
    BY <1>10
  <2>2. Posted(Stamp(x.dest, posts[j])) /\ ~ Asks(Stamp(x.dest, posts[j]))
    BY <2>1, StampIs DEF Posted, Asks
  <2>3. ASSUME j - off \in 1 .. s, posts[j].buf = Fresh(S[j - off])
        PROVE  \E d \in Nat : d < n /\ posts[j].buf = (memalloc + d) % SS7BufSize
    <3>1. S[j - off] \in Nat /\ S[j - off] < n
      BY <1>5, <2>3
    <3>2. QED
      BY <2>3, <3>1, FreshTypes
  <2>4. QED
    BY <1>10, <2>2, <2>3
<1>13. ASSUME NEW j \in 1 .. t, NEW k \in 1 .. t, j # k, posts[j].buf # NoBuf
       PROVE  posts[j].buf # posts[k].buf
  <2>1. j - off \in 1 .. s /\ posts[j].buf = Fresh(S[j - off])
    BY <1>10, <1>13
  <2>2. CASE posts[k].buf = NoBuf
    BY <1>13, <2>2
  <2>3. CASE k - off \in 1 .. s /\ posts[k].buf = Fresh(S[k - off])
    <3>1. j - off # k - off
      BY <1>5, <1>13
    <3>2. S[j - off] \in Nat /\ S[k - off] \in Nat /\ S[j - off] < n /\ S[k - off] < n /\ S[j - off] # S[k - off]
      BY <1>5, <2>1, <2>3, <3>1
    <3>3. Fresh(S[j - off]) # Fresh(S[k - off])
      BY <1>4, <1>11, <3>2, FreshApart
    <3>4. QED
      BY <2>1, <2>3, <3>3
  <2>4. QED
    BY <1>10, <2>2, <2>3
<1>14. Modest(posts, n, x, memalloc, load, r)
  <2>1. ~ (r = 0) /\ ~ (r = 1)
    OBVIOUS
  <2>2. QED
    BY <1>11, <1>12, <1>13, <2>1 DEF Modest, t
<1>16. QED
  BY <1>4, <1>14

LEMMA LinkTimerDoes ==
  ASSUME RoomForTick, load \in Loads, memalloc \in 0 .. SS7BufSize - 1, NEW x, x.dest \in LinkNo,
         NEW does \in LinkTimer, NEW r \in Nat, r >= 3, r <= lastproc
  PROVE  DoesWell(does, x, r)
<1> DEFINE note == To(Mtp, "LINKRESUME", NoBuf)
           resume == <<note>>
           Sus(S) == InOrder(S, Mtp, "LINKTRANSFER")
           Found(n, S) ==
             {Does(Sus(S), n, <<>>), Does(Sus(S) \o resume, n, <<"link">>)}
             \cup {Does(resume \o Sus(S), n, <<>>) : fisu \in 0 .. n - 1 \ {S[k] : k \in DOMAIN S}}
<1>1. LinkTimer = UNION {UNION {Found(n, S) : S \in Chosen(n)} : n \in 0 .. load.sus}
  BY DEF LinkTimer
<1> HIDE DEF Found
<1>2. PICK n \in 0 .. load.sus : \E S \in Chosen(n) : does \in Found(n, S)
  BY <1>1
<1>3. PICK S \in Chosen(n) : does \in Found(n, S)
  BY <1>2
<1> DEFINE sus == Sus(S)
           s == Len(S)
<1>4. \/ does = Does(sus, n, <<>>)
      \/ does = Does(sus \o resume, n, <<"link">>)
      \/ does = Does(resume \o sus, n, <<>>)
  <2> HIDE DEF resume, Sus
  <2>1. QED
    BY <1>3 DEF Found
<1>5. n \in Nat /\ s \in Nat /\ S \in Seq(Nat) /\ \A j \in 1 .. s : S[j] \in Nat
  BY LoadTypes, ChosenIs
<1>6. sus \in Seq(Post) /\ Len(sus) = s /\ \A j \in 1 .. s : sus[j] = To(Mtp, "LINKTRANSFER", Fresh(S[j]))
  <2>1. Mtp \in Proc /\ "LINKTRANSFER" \in Name
    BY Procs, Names
  <2>2. sus \in Seq(Post) /\ Len(sus) = s
    BY <1>5, <2>1, InOrderIs
  <2>3. \A j \in 1 .. s : sus[j] = To(Mtp, "LINKTRANSFER", Fresh(S[j]))
    BY DEF InOrder
  <2>4. QED
    BY <2>2, <2>3
<1>7. note \in Post
  BY Procs, NoBufIs, ToTypes, Names
<1> HIDE DEF sus, s, note
\* The three shapes.
<1>8. CASE does = Does(sus, n, <<>>)
  <2>1. \A j \in 1 .. s : j - 0 = j
    BY <1>5
  <2>2. \A j \in 1 .. Len(sus) : j - 0 \in 1 .. Len(S) /\ sus[j] = To(Mtp, "LINKTRANSFER", Fresh(S[j - 0]))
    BY <1>6, <2>1 DEF s
  <2>3. Len(sus) <= Len(S) + 1 /\ 0 \in Nat
    BY <1>5, <1>6 DEF s
  <2>4. Modest(sus, n, x, memalloc, load, r)
    BY <1>6, <2>2, <2>3, LinkTimerPosts
  <2>5. does.posts = sus /\ does.used = n /\ does.logs = <<>>
    BY <1>8, DoesIs
  <2>6. QED
    BY <1>5, <1>6, <2>4, <2>5, LogSeqs DEF DoesWell
<1>9. CASE does = Does(sus \o resume, n, <<"link">>)
  <2> DEFINE posts == sus \o resume
  <2>1. /\ posts \in Seq(Post) /\ Len(posts) = s + 1
        /\ \A j \in 1 .. s : posts[j] = sus[j]
        /\ posts[s + 1] = note
    BY <1>5, <1>6, <1>7
  <2> HIDE DEF posts
  <2>2. ASSUME NEW j \in 1 .. Len(posts)
        PROVE  \/ posts[j] = To(Mtp, "LINKRESUME", NoBuf)
               \/ j - 0 \in 1 .. Len(S) /\ posts[j] = To(Mtp, "LINKTRANSFER", Fresh(S[j - 0]))
    <3>1. (j \in 1 .. s /\ j - 0 = j) \/ j = s + 1
      BY <1>5, <2>1
    <3>2. QED
      BY <1>6, <2>1, <3>1 DEF s, note
  <2>3. Len(posts) <= Len(S) + 1 /\ 0 \in Nat
    BY <1>5, <2>1 DEF s
  <2>4. Modest(posts, n, x, memalloc, load, r)
    BY <2>1, <2>2, <2>3, LinkTimerPosts
  <2>5. does = Does(posts, n, <<"link">>)
    BY <1>9 DEF posts
  <2>6. does.posts = posts /\ does.used = n /\ does.logs = <<"link">>
    BY <2>5, DoesIs
  <2>7. QED
    BY <1>5, <2>1, <2>4, <2>6, LogSeqs DEF DoesWell
<1>10. CASE does = Does(resume \o sus, n, <<>>)
  <2> DEFINE posts == resume \o sus
  <2>1. /\ posts \in Seq(Post) /\ Len(posts) = s + 1
        /\ \A j \in 1 .. s + 1 : j # 1 => posts[j] = sus[j - 1]
        /\ posts[1] = note
    BY <1>5, <1>6, <1>7
  <2> HIDE DEF posts
  <2>2. ASSUME NEW j \in 1 .. Len(posts)
        PROVE  \/ posts[j] = To(Mtp, "LINKRESUME", NoBuf)
               \/ j - 1 \in 1 .. Len(S) /\ posts[j] = To(Mtp, "LINKTRANSFER", Fresh(S[j - 1]))
    <3>1. (j \in 1 .. s + 1 /\ j # 1 /\ j - 1 \in 1 .. s) \/ j = 1
      BY <1>5, <2>1
    <3>2. QED
      BY <1>6, <2>1, <3>1 DEF s, note
  <2>3. Len(posts) <= Len(S) + 1 /\ 1 \in Nat
    BY <1>5, <2>1 DEF s
  <2>4. Modest(posts, n, x, memalloc, load, r)
    BY <2>1, <2>2, <2>3, LinkTimerPosts
  <2>5. does = Does(posts, n, <<>>)
    BY <1>10 DEF posts
  <2>6. does.posts = posts /\ does.used = n /\ does.logs = <<>>
    BY <2>5, DoesIs
  <2>7. QED
    BY <1>5, <2>1, <2>4, <2>6, LogSeqs DEF DoesWell
<1>11. QED
  BY <1>4, <1>8, <1>9, <1>10

-----------------------------------------------------------------------------
(* The messages that are no timer messages. *)

LEMMA DoesNothing ==
  ASSUME NEW x, NEW u \in {0, 1}, NEW logs \in Seq(LogRecord)
  PROVE  DoesWell(Does(<<>>, u, logs), x, 0)
<1>1. /\ Does(<<>>, u, logs).posts = <<>> /\ Does(<<>>, u, logs).used = u
      /\ Does(<<>>, u, logs).logs = logs
  BY DoesIs
<1>2. <<>> \in Seq(Post) /\ Len(<<>>) = 0 /\ 1 .. 0 = {} /\ ~ (0 = 1) /\ ~ (0 > 1) /\ ~ (0 > 0)
  OBVIOUS
<1>3. Modest(<<>>, u, x, memalloc, load, 0)
  BY <1>2 DEF Modest
<1> DEFINE does == Does(<<>>, u, logs)
<1> HIDE DEF does
<1>4. does.posts = <<>> /\ does.used = u /\ does.logs = logs
  BY <1>1, Zenon DEF does
<1>5. DoesWell(does, x, 0)
  BY <1>2, <1>3, <1>4 DEF DoesWell
<1>6. QED
  BY <1>5 DEF does

LEMMA DoesOne ==
  ASSUME NEW x, NEW u \in {0, 1}, NEW logs \in Seq(LogRecord), NEW y \in Post,
         Posted(Stamp(x.dest, y)), ~ Asks(Stamp(x.dest, y)),
         \/ y.buf = NoBuf
         \/ u = 1 /\ y.buf = Fresh(0)
         \/ x.dest = Mtp /\ y.dest # Mtp /\ y.buf = x.buf
  PROVE  \A does : does.posts = <<y>> /\ does.used = u /\ does.logs = logs => DoesWell(does, x, 0)
<1> DEFINE posts == <<y>>
<1>1. posts \in Seq(Post) /\ Len(posts) = 1 /\ posts[1] = y /\ 1 .. 1 = {1}
  OBVIOUS
<1>2. ~ (0 = 1) /\ ~ (0 > 1) /\ ~ (0 > 0) /\ 0 \in Nat /\ 0 < 1 /\ u \in Nat /\ u <= 1 /\ 1 <= 2
  OBVIOUS
<1>3. y.buf = Fresh(0) => y.buf = (memalloc + 0) % SS7BufSize
  BY DEF Fresh
<1> HIDE DEF posts
<1>4. Modest(posts, u, x, memalloc, load, 0)
  BY <1>1, <1>2, <1>3 DEF Modest
<1>5. QED
  BY <1>1, <1>2, <1>4 DEF DoesWell, posts

LEMMA DoesTwo ==
  ASSUME NEW x, NEW u \in {1, 2}, NEW logs \in Seq(LogRecord), NEW y \in Post, NEW z \in Post,
         Asks(x), Posted(Stamp(x.dest, y)), ~ Asks(Stamp(x.dest, y)),
         Posted(Stamp(x.dest, z)), ~ Asks(Stamp(x.dest, z)),
         \/ \E d \in Nat : d < u /\ y.buf = (memalloc + d) % SS7BufSize
         \/ x.dest = Mtp /\ y.dest # Mtp /\ y.buf = x.buf,
         \E d \in Nat : d < u /\ z.buf = (memalloc + d) % SS7BufSize,
         y.buf # z.buf
  PROVE  \A does : does.posts = <<y, z>> /\ does.used = u /\ does.logs = logs => DoesWell(does, x, 0)
<1> DEFINE posts == <<y, z>>
<1>1. posts \in Seq(Post) /\ Len(posts) = 2 /\ posts[1] = y /\ posts[2] = z /\ 1 .. 2 = {1, 2}
  OBVIOUS
<1>2. ~ (0 = 1) /\ ~ (0 > 1) /\ ~ (0 > 0) /\ u \in Nat /\ u <= 2 /\ 2 <= 2
  OBVIOUS
<1> HIDE DEF posts
<1>3. ASSUME NEW j \in 1 .. 2
      PROVE  /\ Posted(Stamp(x.dest, posts[j])) /\ ~ Asks(Stamp(x.dest, posts[j]))
             /\ \/ \E d \in Nat : d < u /\ posts[j].buf = (memalloc + d) % SS7BufSize
                \/ x.dest = Mtp /\ posts[j].dest # Mtp /\ posts[j].buf = x.buf
  BY <1>1
<1>4. \A j, k \in 1 .. 2 : j # k /\ posts[j].buf # NoBuf => posts[j].buf # posts[k].buf
  BY <1>1
<1>5. Modest(posts, u, x, memalloc, load, 0)
  BY <1>1, <1>2, <1>3, <1>4, ZenonT(60) DEF Modest
<1>6. QED
  BY <1>1, <1>2, <1>5 DEF DoesWell, posts

LEMMA LinkEventDoes ==
  ASSUME NEW x \in Message, x.dest \in LinkNo, x.msg \in {"LINKTRANSFER", "LINKRESET"},
         NEW does \in LinkEvent(x)
  PROVE  DoesWell(does, x, 0)
<1> DEFINE pause == To(Mtp, "LINKPAUSE", NoBuf)
<1>1. does = Nothing \/ \E logs \in {<<>>, <<"link">>} : does = Does(<<pause>>, 0, logs)
  <2>1. x.msg # "TIMER"
    OBVIOUS
  <2>2. CASE x.msg = "LINKTRANSFER"
    <3>1. LinkEvent(x) = {Nothing} \cup {Does(<<pause>>, 0, logs) : logs \in {<<>>, <<"link">>}}
      BY <2>2 DEF LinkEvent
    <3> HIDE DEF pause
    <3>2. QED
      BY <3>1
  <2>3. CASE x.msg # "LINKTRANSFER"
    <3>1. LinkEvent(x) = {Nothing}
      BY <2>1, <2>3 DEF LinkEvent
    <3>2. QED
      BY <3>1
  <2>4. QED
    BY <2>2, <2>3
<1>2. <<>> \in Seq(LogRecord) /\ <<"link">> \in Seq(LogRecord) /\ 0 \in {0, 1}
  BY LogSeqs
<1>3. DoesWell(Nothing, x, 0)
  BY <1>2, DoesNothing DEF Nothing
<1>4. pause \in Post /\ pause.dest = Mtp /\ pause.msg = "LINKPAUSE" /\ pause.buf = NoBuf
  BY Procs, Names, NoBufIs, ToTypes
<1> HIDE DEF pause
<1>5. Posted(Stamp(x.dest, pause)) /\ ~ Asks(Stamp(x.dest, pause))
  BY <1>4, StampIs DEF Posted, Asks
<1>6. ASSUME NEW logs \in Seq(LogRecord) PROVE DoesWell(Does(<<pause>>, 0, logs), x, 0)
  <2>1. \A d : d.posts = <<pause>> /\ d.used = 0 /\ d.logs = logs => DoesWell(d, x, 0)
    BY <1>2, <1>4, <1>5, DoesOne
  <2>2. QED
    BY <2>1, DoesIs
<1>7. QED
  BY <1>1, <1>2, <1>3, <1>6

LEMMA MtpEventDoes ==
  ASSUME RoomForTick, load \in Loads, memalloc \in 0 .. SS7BufSize - 1, NEW x \in Message, x.dest = Mtp,
         \/ x.src \in LinkNo /\ x.msg \in {"LINKTRANSFER", "LINKPAUSE", "LINKRESUME"}
         \/ x.src = Server /\ x.msg = "M3UATRANSFER",
         x.buf # NoBuf => x.buf # Fresh(0),
         NEW does \in MtpEvent(x)
  PROVE  DoesWell(does, x, 0)
<1>1. /\ <<>> \in Seq(LogRecord) /\ 0 \in {0, 1} /\ 1 \in {0, 1} /\ 1 \in {1, 2} /\ 2 \in {1, 2}
      /\ 0 \in Nat /\ 1 \in Nat /\ 0 < 1 /\ 0 < 2 /\ 1 < 2 /\ 2 \in Nat
  BY LogSeqs
<1>2. /\ Fresh(0) \in 0 .. SS7BufSize /\ Fresh(0) # NoBuf /\ Fresh(0) = (memalloc + 0) % SS7BufSize
      /\ Fresh(1) \in 0 .. SS7BufSize /\ Fresh(1) # NoBuf /\ Fresh(1) = (memalloc + 1) % SS7BufSize
      /\ Fresh(0) # Fresh(1)
  <2>1. 2 < SS7BufSize
    BY <1>1, CostFits, Sizes
  <2>2. Fresh(0) # Fresh(1)
    BY <1>1, <2>1, FreshApart
  <2>3. QED
    BY <1>1, <2>2, FreshTypes
<1>3. /\ Mtp # Server /\ Mtp \notin LinkNo /\ Server \in Proc /\ LinkNo \subseteq Proc
  BY Procs
<1>4. x.buf \in 0 .. SS7BufSize
  BY DEF Message
<1>5. ASSUME NEW logs \in Seq(LogRecord) PROVE DoesWell(Says(logs), x, 0)
  BY <1>1, DoesNothing DEF Says
<1>6. DoesWell(Nothing, x, 0)
  BY <1>1, DoesNothing DEF Nothing
\* A message to the server, and one to a link, in a buffer b.
<1>7. ASSUME NEW b \in 0 .. SS7BufSize
      PROVE  LET y == To(Server, "M3UATRANSFER", b)
             IN  /\ y \in Post /\ y.dest = Server /\ y.buf = b /\ y.dest # Mtp
                 /\ Posted(Stamp(x.dest, y)) /\ ~ Asks(Stamp(x.dest, y))
  <2> DEFINE y == To(Server, "M3UATRANSFER", b)
  <2>1. y \in Post /\ y.dest = Server /\ y.msg = "M3UATRANSFER" /\ y.buf = b
    BY <1>3, Names, ToTypes
  <2> HIDE DEF y
  <2>2. Posted(Stamp(x.dest, y)) /\ ~ Asks(Stamp(x.dest, y))
    BY <1>3, <2>1, StampIs DEF Posted, Asks
  <2>3. y \in Post /\ y.dest = Server /\ y.buf = b /\ y.dest # Mtp
    BY <1>3, <2>1
  <2>4. QED
    BY <2>2, <2>3 DEF y
<1>8. ASSUME NEW k \in LinkNo, NEW b \in 0 .. SS7BufSize
      PROVE  LET y == To(k, "LINKTRANSFER", b)
             IN  /\ y \in Post /\ y.dest = k /\ y.buf = b /\ y.dest # Mtp
                 /\ Posted(Stamp(x.dest, y)) /\ ~ Asks(Stamp(x.dest, y))
  <2> DEFINE y == To(k, "LINKTRANSFER", b)
  <2>1. y \in Post /\ y.dest = k /\ y.msg = "LINKTRANSFER" /\ y.buf = b
    BY <1>3, Names, ToTypes
  <2> HIDE DEF y
  <2>2. k # Mtp
    BY <1>3
  <2>3. Posted(Stamp(x.dest, y)) /\ ~ Asks(Stamp(x.dest, y))
    BY <2>1, <2>2, StampIs DEF Posted, Asks
  <2>4. QED
    BY <2>1, <2>2, <2>3 DEF y
<1>9. ASSUME NEW logs \in Seq(LogRecord) PROVE DoesWell(Tells(logs), x, 0)
  <2> DEFINE y == To(Server, "M3UATRANSFER", Fresh(0))
  <2>1. /\ y \in Post /\ y.buf = Fresh(0) /\ Posted(Stamp(x.dest, y)) /\ ~ Asks(Stamp(x.dest, y))
    BY <1>2, <1>7
  <2> HIDE DEF y
  <2>2. \A e : e.posts = <<y>> /\ e.used = 1 /\ e.logs = logs => DoesWell(e, x, 0)
    BY <1>1, <2>1, DoesOne
  <2>3. Tells(logs) = Does(<<y>>, 1, logs)
    BY DEF Tells, Sends, y
  <2>4. QED
    BY <2>2, <2>3, DoesIs
<1>10. ASSUME NEW k \in LinkNo, NEW logs \in Seq(LogRecord)
       PROVE  DoesWell(Sends(k, "LINKTRANSFER", logs), x, 0)
  <2> DEFINE y == To(k, "LINKTRANSFER", Fresh(0))
  <2>1. /\ y \in Post /\ y.buf = Fresh(0) /\ Posted(Stamp(x.dest, y)) /\ ~ Asks(Stamp(x.dest, y))
    BY <1>2, <1>8
  <2> HIDE DEF y
  <2>2. \A e : e.posts = <<y>> /\ e.used = 1 /\ e.logs = logs => DoesWell(e, x, 0)
    BY <1>1, <2>1, DoesOne
  <2>3. Sends(k, "LINKTRANSFER", logs) = Does(<<y>>, 1, logs)
    BY DEF Sends, y
  <2>4. QED
    BY <2>2, <2>3, DoesIs
<1>11. CASE x.msg = "LINKTRANSFER" /\ x.src \in LinkNo
  <2>1. does \in FromLink(x)
    BY <1>11 DEF MtpEvent
  <2>2. ASSUME NEW logs \in Seq(LogRecord)
        PROVE  DoesWell(Answers(x, "LINKTRANSFER", logs), x, 0)
    <3> DEFINE y == To(x.src, "LINKTRANSFER", x.buf)
    <3>1. /\ y \in Post /\ y.buf = x.buf /\ y.dest # Mtp
          /\ Posted(Stamp(x.dest, y)) /\ ~ Asks(Stamp(x.dest, y))
      BY <1>4, <1>8, <1>11
    <3> HIDE DEF y
    <3>2. \A e : e.posts = <<y>> /\ e.used = 0 /\ e.logs = logs => DoesWell(e, x, 0)
      BY <1>1, <3>1, DoesOne
    <3>3. Answers(x, "LINKTRANSFER", logs) = Does(<<y>>, 0, logs)
      BY DEF Answers, y
    <3>4. QED
      BY <3>2, <3>3, DoesIs
  <2>3. \/ does = Nothing
        \/ \E logs \in {<<>>, <<"mtp">>} : does = Answers(x, "LINKTRANSFER", logs)
        \/ \E logs \in {<<>>, <<"mtp", "tx">>, <<"link", "mtp", "tx">>} : does = Tells(logs)
        \/ \E logs \in {<<"link">>, <<"mtp">>, <<"mtp", "link">>} : does = Says(logs)
    <3> HIDE <1>5, <1>7, <1>8, <1>9, <1>10, <2>2
    <3>1. QED
      BY <2>1 DEF FromLink
  <2>4. QED
    BY <1>5, <1>6, <1>9, <2>2, <2>3, LogSeqs
<1>12. CASE x.msg = "LINKPAUSE" /\ x.src \in LinkNo
  <2>1. does = Says(<<"link">>) \/ does = Tells(<<"link", "mtp", "tx">>)
    BY <1>12 DEF MtpEvent
  <2>2. QED
    BY <1>5, <1>9, <2>1, LogSeqs
<1>13. CASE x.msg = "LINKRESUME" /\ x.src \in LinkNo
  <2>1. does = Sends(x.src, "LINKTRANSFER", <<>>)
    BY <1>13 DEF MtpEvent
  <2>2. QED
    BY <1>1, <1>10, <1>13, <2>1
<1>14. CASE x.msg = "M3UATRANSFER" /\ x.src = Server
  <2>1. does \in FromServer(x)
    BY <1>14 DEF MtpEvent
  <2>2. Asks(x)
    BY <1>14 DEF Asks
  <2> DEFINE two == Does(<<To(Server, "M3UATRANSFER", x.buf), To(Server, "M3UATRANSFER", Fresh(0))>>,
                         1, <<"rx", "tx">>)
             three(k, logs) == Does(<<To(Server, "M3UATRANSFER", Fresh(1)), To(k, "LINKTRANSFER", Fresh(0))>>,
                                    2, Append(logs, "tx"))
  <2>3. \/ does = Nothing \/ does = Says(<<"rx">>) \/ does = Says(<<"rx", "rx">>)
        \/ does = Tells(<<"rx", "tx">>) \/ does = Tells(<<"rx", "rx", "tx">>) \/ does = two
        \/ \E k \in LinkNo : \E logs \in {<<>>, <<"rx">>} :
             does = Sends(k, "LINKTRANSFER", logs) \/ does = three(k, logs)
    <3>1. FromServer(x) =
            {Nothing, Says(<<"rx">>), Says(<<"rx", "rx">>), Tells(<<"rx", "tx">>), Tells(<<"rx", "rx", "tx">>), two}
            \cup UNION {{Sends(k, "LINKTRANSFER", logs), three(k, logs)} : k \in LinkNo, logs \in {<<>>, <<"rx">>}}
      BY DEF FromServer
    <3> HIDE DEF two, three
    <3>2. QED
      BY <2>1, <3>1
  \* ASPUP and ASPAC.
  <2>4. DoesWell(two, x, 0)
    <3> DEFINE y == To(Server, "M3UATRANSFER", x.buf)
               z == To(Server, "M3UATRANSFER", Fresh(0))
    <3>1. /\ y \in Post /\ y.buf = x.buf /\ y.dest # Mtp
          /\ Posted(Stamp(x.dest, y)) /\ ~ Asks(Stamp(x.dest, y))
      BY <1>4, <1>7
    <3>2. z \in Post /\ z.buf = Fresh(0) /\ Posted(Stamp(x.dest, z)) /\ ~ Asks(Stamp(x.dest, z))
      BY <1>2, <1>7
    <3>3. two = Does(<<y, z>>, 1, <<"rx", "tx">>)
      OBVIOUS
    <3> HIDE DEF y, z, two
    <3>4. y.buf # z.buf /\ \E d \in Nat : d < 1 /\ z.buf = (memalloc + d) % SS7BufSize
      BY <1>1, <1>2, <3>1, <3>2
    <3>5. <<"rx", "tx">> \in Seq(LogRecord)
      BY LogSeqs
    <3>6. \A e : e.posts = <<y, z>> /\ e.used = 1 /\ e.logs = <<"rx", "tx">> => DoesWell(e, x, 0)
      BY <1>1, <2>2, <3>1, <3>2, <3>4, <3>5, DoesTwo
    <3>7. QED
      BY <3>3, <3>6, DoesIs
  \* DATA, when no link is alive.
  <2>5. ASSUME NEW k \in LinkNo, NEW logs \in Seq(LogRecord) PROVE DoesWell(three(k, logs), x, 0)
    <3> DEFINE y == To(Server, "M3UATRANSFER", Fresh(1))
               z == To(k, "LINKTRANSFER", Fresh(0))
               long == Append(logs, "tx")
    <3>1. y \in Post /\ y.buf = Fresh(1) /\ Posted(Stamp(x.dest, y)) /\ ~ Asks(Stamp(x.dest, y))
      BY <1>2, <1>7
    <3>2. z \in Post /\ z.buf = Fresh(0) /\ Posted(Stamp(x.dest, z)) /\ ~ Asks(Stamp(x.dest, z))
      BY <1>2, <1>8
    <3>3. three(k, logs) = Does(<<y, z>>, 2, long)
      OBVIOUS
    <3>4. long \in Seq(LogRecord)
      BY LogSeqs
    <3> HIDE DEF y, z, long
    <3>5. /\ y.buf # z.buf
          /\ \E d \in Nat : d < 2 /\ z.buf = (memalloc + d) % SS7BufSize
          /\ \E d \in Nat : d < 2 /\ y.buf = (memalloc + d) % SS7BufSize
      BY <1>1, <1>2, <3>1, <3>2
    <3>6. \A e : e.posts = <<y, z>> /\ e.used = 2 /\ e.logs = long => DoesWell(e, x, 0)
      BY <1>1, <2>2, <3>1, <3>2, <3>4, <3>5, DoesTwo
    <3>7. QED
      BY <3>3, <3>6, DoesIs
  <2> HIDE DEF two, three
  <2>6. \A logs \in {<<>>, <<"rx">>} : logs \in Seq(LogRecord)
    BY LogSeqs
  <2>7. DoesWell(Says(<<"rx">>), x, 0) /\ DoesWell(Says(<<"rx", "rx">>), x, 0)
    BY <1>5, LogSeqs
  <2>8. DoesWell(Tells(<<"rx", "tx">>), x, 0) /\ DoesWell(Tells(<<"rx", "rx", "tx">>), x, 0)
    BY <1>9, LogSeqs
  <2>9. QED
    BY <1>6, <1>10, <2>3, <2>4, <2>5, <2>6, <2>7, <2>8
<1>15. QED
  BY <1>11, <1>12, <1>13, <1>14

\* Every handler keeps to its share.
LEMMA EventDoes ==
  ASSUME RoomForTick, load \in Loads, memalloc \in 0 .. SS7BufSize - 1, NEW x \in Message,
         NEW r \in Nat, r <= lastproc,
         r > 0 => IsTimer(x, lastproc - r),
         r = 0 => Posted(x) /\ (x.buf # NoBuf => x.buf # Fresh(0)),
         NEW does \in Event(x)
  PROVE  DoesWell(does, x, r)
<1>1. /\ Links \in Nat /\ Links >= 1 /\ Mtp = Links /\ Server = Links + 1 /\ lastproc = Links + 2
  BY Sizes
<1>2. /\ x.dest \in LinkNo => Event(x) = LinkEvent(x)
      /\ x.dest = Mtp => Event(x) = MtpEvent(x)
      /\ x.dest = Server => Event(x) = ServerEvent(x)
  BY Procs DEF Event
<1>3. CASE r > 0
  <2>1. x.msg = "TIMER" /\ x.dest = lastproc - r
    BY <1>3 DEF IsTimer
  <2>2. CASE r = 1
    <3>1. x.dest = Server
      BY <1>1, <2>1, <2>2
    <3>2. QED
      BY <1>2, <2>1, <2>2, <3>1, ServerTimerDoes
  <2>3. CASE r = 2
    <3>1. x.dest = Mtp
      BY <1>1, <2>1, <2>3
    <3>2. MtpEvent(x) = MtpTimer
      BY <2>1 DEF MtpEvent
    <3>3. QED
      BY <1>2, <2>3, <3>1, <3>2, MtpTimerDoes
  <2>4. CASE r >= 3
    <3>1. x.dest \in LinkNo
      BY <1>1, <2>1, <2>4 DEF LinkNo
    <3>2. LinkEvent(x) = LinkTimer
      BY <2>1 DEF LinkEvent
    <3>3. QED
      BY <1>2, <2>4, <3>1, <3>2, LinkTimerDoes
  <2>5. QED
    BY <1>3, <2>2, <2>3, <2>4
<1>4. CASE r = 0
  <2>1. Posted(x) /\ (x.buf # NoBuf => x.buf # Fresh(0))
    BY <1>4
  <2>2. CASE x.dest \in LinkNo
    <3>1. x.msg \in {"LINKTRANSFER", "LINKRESET"}
      BY <2>1, <2>2, Procs DEF Posted
    <3>2. QED
      BY <1>2, <1>4, <2>2, <3>1, LinkEventDoes
  <2>3. CASE x.dest = Mtp
    <3>1. \/ x.src \in LinkNo /\ x.msg \in {"LINKTRANSFER", "LINKPAUSE", "LINKRESUME"}
          \/ x.src = Server /\ x.msg = "M3UATRANSFER"
      BY <2>1, <2>3, Procs DEF Posted
    <3>2. does \in MtpEvent(x)
      BY <1>2, <2>3
    <3>3. QED
      BY <1>4, <2>1, <2>3, <3>1, <3>2, MtpEventDoes
  <2>4. CASE x.dest = Server
    <3>1. x.msg # "TIMER"
      BY <2>1, <2>4, Procs DEF Posted
    <3> DEFINE Faults == {[k \in 1 .. m |-> "server"] : m \in 0 .. load.faults}
    <3>2. does = Nothing \/ \E logs \in Faults : does = Says(logs)
      <4>1. x.msg = "M3UATRANSFER" => ServerEvent(x) = {Says(logs) : logs \in Faults}
        BY <3>1 DEF ServerEvent
      <4>2. x.msg # "M3UATRANSFER" => ServerEvent(x) = {Nothing}
        BY <3>1 DEF ServerEvent
      <4> HIDE DEF Faults
      <4>3. QED
        BY <1>2, <2>4, <4>1, <4>2
    <3>3. <<>> \in Seq(LogRecord) /\ 0 \in {0, 1} /\ \A logs \in Faults : logs \in Seq(LogRecord)
      BY LogSeqs, LoadTypes
    <3> HIDE DEF Faults
    <3>4. QED
      BY <1>4, <3>2, <3>3, DoesNothing DEF Nothing, Says
  <2>5. QED
    BY <2>1, <2>2, <2>3, <2>4 DEF Posted
<1>5. QED
  BY <1>3, <1>4

\* The constants are those of the next state.
LEMMA QueuePrimed ==
  QueueOK' <=> \E r, p, c \in Nat : Queue(Waiting', memalloc', load', r, p, c)
BY DEF QueueOK, Queue, QueueNeed, Growth, ServerExtra, Cost, lastproc, IsTimer, NoBuf, Posted, LinkNo, Asks, Mtp, Server,
   Safe, Aged, Limit, FirstWait, SecondWait

-----------------------------------------------------------------------------
(* The steps of the gateway. *)

LEMMA InvParts ==
  ASSUME CoreInv
  PROVE  /\ load \in Loads /\ memalloc \in 0 .. SS7BufSize - 1 /\ RingTypes
         /\ \E r, p, c \in Nat : Queue(Waiting, memalloc, load, r, p, c)
         /\ Waiting \in Seq(Message) /\ Len(Waiting) \in Nat
<1>1. load \in Loads /\ memalloc \in 0 .. SS7BufSize - 1 /\ RingTypes
  BY DEF CoreInv, TypeOK, RingTypes, Slot
<1>2. QED
  BY <1>1, WaitingIs DEF CoreInv, QueueOK

LEMMA TickDoes ==
  ASSUME RoomForTick, CoreInv, Tick
  PROVE  RingTypes' /\ QueueOK' /\ Waiting = <<>>
<1> DEFINE f(j) == To(j - 1, "TIMER", NoBuf)
           posts == [j \in 1 .. lastproc |-> f(j)]
<1>1. /\ lastproc \in Nat /\ lastproc >= 1 /\ MSGQUEUESIZE \in Nat /\ MSGQUEUESIZE >= 1
  BY Sizes
<1>2. load \in Loads /\ RingTypes
  BY InvParts
<1>3. \A j \in 1 .. lastproc : /\ f(j) \in Post /\ f(j).dest = j - 1 /\ f(j).msg = "TIMER"
                               /\ f(j).buf = NoBuf
  <2> TAKE j \in 1 .. lastproc
  <2>1. j - 1 \in Proc
    BY <1>1 DEF Proc
  <2>2. QED
    BY <2>1, NoBufIs, Names, ToTypes
<1>4. Posts(-1, posts)
  BY DEF Tick
<1> HIDE DEF f
<1>5. posts \in Seq(Post) /\ Len(posts) = lastproc /\ \A j \in 1 .. lastproc : posts[j] = f(j)
  BY <1>1, <1>3
<1> HIDE DEF posts
<1>6. Waiting = <<>> /\ Len(Waiting) = 0
  BY <1>2, WaitingIs DEF Tick
<1>7. execmsg' = At(execmsg + 0)
  <2>1. execmsg \in Nat /\ execmsg < MSGQUEUESIZE /\ execmsg + 0 = execmsg /\ execmsg' = execmsg
    BY <1>1, <1>2 DEF RingTypes, Slot, Tick
  <2>2. execmsg % MSGQUEUESIZE = execmsg
    BY <1>1, <2>1
  <2>3. QED
    BY <2>1, <2>2 DEF At
<1>8. lastproc < MSGQUEUESIZE
  <2>1. QueueNeed(load) < MSGQUEUESIZE /\ Growth(load, lastproc) \in Nat
    BY <1>1, <1>2, Growths DEF RoomForTick
  <2>2. QueueNeed(load) = lastproc + Growth(load, lastproc)
    BY DEF QueueNeed
  <2>3. QED
    BY <1>1, <2>1, <2>2
<1>9. 0 <= Len(Waiting) /\ Len(Waiting) - 0 + Len(posts) < MSGQUEUESIZE /\ Len(Waiting) - 0 = 0
  BY <1>1, <1>5, <1>6, <1>8
<1>10. /\ RingTypes'
       /\ Len(Waiting') = Len(Waiting) - 0 + Len(posts)
       /\ \A j \in 1 .. Len(posts) : Waiting'[Len(Waiting) - 0 + j] = Stamp(-1, posts[j])
  <2>1. -1 \in Proc \cup {-1} /\ 0 \in {0, 1}
    OBVIOUS
  <2>2. QED
    BY <1>2, <1>4, <1>5, <1>7, <1>9, <2>1, RingPosts
<1>11. Len(Waiting') = lastproc
  BY <1>1, <1>5, <1>9, <1>10
<1>12. ASSUME NEW k \in 1 .. lastproc PROVE IsTimer(Waiting'[k], k - 1)
  <2>1. k \in 1 .. Len(posts) /\ Len(Waiting) - 0 + k = k
    BY <1>1, <1>5, <1>9
  <2>2. Waiting'[k] = Stamp(-1, posts[k])
    BY <1>10, <2>1
  <2>3. QED
    BY <1>3, <1>5, <2>2, StampIs DEF IsTimer
<1>13. load' = load
  BY DEF Tick
<1>14. Queue(Waiting', memalloc', load', lastproc, 0, 0)
  BY <1>2, <1>11, <1>12, <1>13, QueueOfTick
<1>15. QueueOK'
  <2>1. \E r, p, c \in Nat : Queue(Waiting', memalloc', load', r, p, c)
    BY <1>1, <1>14
  <2>2. QED
    BY <2>1, QueuePrimed
<1>16. QED
  BY <1>6, <1>10, <1>15

LEMMA HandleDoes ==
  ASSUME RoomForTick, CoreInv, NEW does \in Event(msgqueue[execmsg]), Handles(does)
  PROVE  /\ RingTypes' /\ QueueOK' /\ memalloc' \in 0 .. SS7BufSize - 1
         /\ does.logs \in Seq(LogRecord) /\ Len(does.posts) \in Nat
         /\ Waiting # <<>> /\ Len(Waiting) >= 1
         /\ msg' = Waiting[1] /\ msg' \in Message /\ execproc' \in Proc
         /\ Becomes(Waiting, Waiting', does.posts)
<1>1. /\ load \in Loads /\ memalloc \in 0 .. SS7BufSize - 1 /\ RingTypes
      /\ Waiting \in Seq(Message) /\ Len(Waiting) \in Nat
  BY InvParts
<1>2. PICK r \in Nat, p \in Nat, c \in Nat : Queue(Waiting, memalloc, load, r, p, c)
  BY InvParts
<1> DEFINE q == Waiting
           x == q[1]
           w == Len(q)
           n == Len(does.posts)
           u == does.used
<1>3. /\ Waiting # <<>> /\ x = msgqueue[execmsg] /\ execmsg # lastmsg
  BY <1>1, WaitingIs DEF Handles
<1>4. w \in Nat /\ w >= 1
  BY <1>1, <1>3
<1>5. x \in Message /\ x.dest \in Proc /\ x.dest \in Proc \cup {-1} /\ x.buf \in 0 .. SS7BufSize
  <2>1. x \in Message
    BY <1>1, <1>4
  <2>2. QED
    BY <2>1 DEF Message
<1>6. /\ r <= w /\ r <= lastproc /\ 1 \in 1 .. w
      /\ r > 0 => IsTimer(x, lastproc - r)
      /\ r = 0 => Posted(x)
      /\ Safe(x, memalloc, load, r, c, 1)
      /\ Asks(x) <=> p < 1 /\ 1 <= p + c
  <2>1. 1 \in 1 .. w /\ r <= w /\ r <= lastproc
    BY <1>2, <1>4 DEF Queue
  <2>2. /\ 1 <= r => IsTimer(x, lastproc - r + (1 - 1))
        /\ 1 > r => Posted(x)
        /\ Safe(x, memalloc, load, r, c, 1)
        /\ Asks(x) <=> p < 1 /\ 1 <= p + c
    BY <1>2, <2>1, Zenon DEF Queue
  <2>3. lastproc - r + (1 - 1) = lastproc - r
    BY Sizes
  <2>4. QED
    BY <2>1, <2>2, <2>3
<1>7. x.buf # NoBuf => x.buf # Fresh(0)
  <2>1. SUFFICES ASSUME x.buf # NoBuf PROVE x.buf # Fresh(0)
    OBVIOUS
  <2>2. PICK a \in 1 .. SS7BufSize - 1 : Aged(x.buf, memalloc, a)
    BY <1>6, <2>1 DEF Safe
  <2>3. x.buf \in 0 .. SS7BufSize - 1 /\ a + 0 < SS7BufSize /\ 0 \in Nat /\ 0 <= 0
    BY <1>5, <2>1, Sizes DEF NoBuf
  <2>4. (memalloc + 0) % SS7BufSize # x.buf
    BY <1>1, <2>2, <2>3, OlderBy
  <2>5. QED
    BY <1>1, <2>3, <2>4, FreshTypes
<1>8. DoesWell(does, x, r)
  <2>1. does \in Event(x)
    BY <1>3
  <2> HIDE DEF x
  <2>2. QED
    BY <1>1, <1>5, <1>6, <1>7, <2>1, EventDoes
<1>9. /\ does.posts \in Seq(Post) /\ u \in Nat /\ does.logs \in Seq(LogRecord)
      /\ Modest(does.posts, u, x, memalloc, load, r)
  BY <1>8 DEF DoesWell
<1>10. /\ msg' = x /\ execproc' = x.dest /\ Posts(x.dest, does.posts)
       /\ memalloc' = (memalloc + u) % SS7BufSize /\ execmsg' = At(execmsg + 1) /\ load' = load
  BY <1>3 DEF Handles, At, Fresh
<1>11. memalloc' \in 0 .. SS7BufSize - 1
  BY <1>1, <1>9, <1>10, FreshTypes
<1>12. n \in Nat /\ w - 1 + n <= QueueNeed(load) /\ QueueNeed(load) \in Nat
       /\ QueueNeed(load) < MSGQUEUESIZE
  <2> DEFINE N == QueueNeed(load)
             G == Growth(load, r)
  <2>1. /\ N \in Nat /\ N < MSGQUEUESIZE /\ G \in Nat
    BY <1>1, Needs, Growths DEF RoomForTick
  <2>2. w + c + G <= N /\ (r > 0 => c = 0) /\ p + c <= w
    BY <1>2 DEF Queue
  <2>3. n \in Nat
    BY <1>9
  <2> HIDE DEF N, G, n, w, u
  <2>4. CASE r > 1
    <3>1. r - 1 \in Nat
      BY <2>4
    <3>2. Growth(load, r - 1) \in Nat
      BY <1>1, <3>1, Growths
    <3>3. n + Growth(load, r - 1) <= G + 1
      BY <1>9, <2>4 DEF Modest, G, n
    <3> DEFINE g == Growth(load, r - 1)
    <3>4. g \in Nat /\ n + g <= G + 1
      BY <3>2, <3>3
    <3> HIDE DEF g
    <3>5. w - 1 + n <= N
      BY <1>4, <2>1, <2>2, <2>3, <3>4
    <3>6. QED
      BY <2>1, <2>3, <3>5 DEF N
  <2>5. CASE r = 1
    <3>1. 2 * n <= G + 1
      BY <1>9, <2>5 DEF Modest, G, n
    <3>2. w - 1 + n <= N
      BY <1>4, <2>1, <2>2, <2>3, <3>1
    <3>3. QED
      BY <2>1, <2>3, <3>2 DEF N
  <2>6. CASE r = 0
    <3>1. n <= 2 /\ (Asks(x) \/ n <= 1)
      BY <1>9, <2>6 DEF Modest, n
    <3>2. Asks(x) => p < 1 /\ 1 <= p + c
      BY <1>6
    <3>3. Asks(x) => c >= 1
      BY <3>2
    <3>4. w - 1 + n <= N
      BY <1>4, <2>1, <2>2, <2>3, <3>1, <3>3
    <3>5. QED
      BY <2>1, <2>3, <3>4 DEF N
  <2>7. QED
    BY <2>4, <2>5, <2>6
<1>13. /\ RingTypes'
       /\ Len(Waiting') = w - 1 + n
       /\ \A k \in 1 .. w - 1 : Waiting'[k] = q[k + 1]
       /\ \A j \in 1 .. n : Waiting'[w - 1 + j] = Stamp(x.dest, does.posts[j])
  <2>1. 1 \in {0, 1} /\ 1 <= w /\ w - 1 + n < MSGQUEUESIZE
    BY <1>4, <1>12, Sizes
  <2> HIDE DEF x
  <2>2. QED
    BY <1>1, <1>5, <1>9, <1>10, <2>1, RingPosts
<1>14. Becomes(q, Waiting', does.posts)
  BY <1>13 DEF Becomes
<1>15. \E r2, p2, c2 \in Nat : Queue(Waiting', memalloc', load', r2, p2, c2)
  <2>1. \E r2, p2, c2 \in Nat :
          Queue(Waiting', (memalloc + u) % SS7BufSize, load, r2, p2, c2)
    BY <1>1, <1>2, <1>4, <1>9, <1>14, QueueStep
  <2>2. QED
    BY <1>10, <2>1
<1>16. QueueOK'
  BY <1>15, QueuePrimed
<1>17. QED
  BY <1>3, <1>4, <1>5, <1>9, <1>10, <1>11, <1>12, <1>13, <1>14, <1>16

\* The counters keep their bounds.
LEMMA VisitsTypes ==
  ASSUME NEW u \in Nat, NEW r \in Nat, Visits(u, r)
  PROVE  unvisited' \in 0 .. LogSlots /\ restarts' \in 0 .. 2
<1>1. LogSlots \in Nat
  BY LogAssumption
<1>2. CASE i' = logpos'
  BY <1>1, <1>2 DEF Visits
<1>3. CASE i' # logpos'
  <2>1. u < LogSlots => unvisited' = u
    BY <1>3 DEF Visits
  <2>2. ~ (u < LogSlots) => unvisited' = LogSlots
    BY <1>3 DEF Visits
  <2>3. r < 2 => restarts' = r
    BY <1>3 DEF Visits
  <2>4. ~ (r < 2) => restarts' = 2
    BY <1>3 DEF Visits
  <2>5. QED
    BY <1>1, <2>1, <2>2, <2>3, <2>4
<1>4. QED
  BY <1>2, <1>3

LEMMA LogStep ==
  ASSUME LogTypeOK, LogsOK, Logs \/ MlPrints
  PROVE  LogTypeOK' /\ LogsOK'
<1>1. /\ LogSlots \in Nat /\ LogSlots >= 2 /\ LogBack \in Nat
  BY LogAssumption
<1>2. \A x \in Int : x % LogSlots \in 0 .. LogSlots - 1
  BY <1>1
<1>3. /\ logdata \in [LogSlot -> LogRecord \cup {Blank}] /\ logpos \in LogSlot /\ i \in LogSlot
      /\ toLog \in Seq(LogRecord) /\ writer \in {"idle", "text", "clear", "back"}
      /\ shown \in LogRecord \cup {Blank} /\ unvisited \in 0 .. LogSlots /\ restarts \in 0 .. 2
      /\ unvisited \in Nat /\ restarts \in Nat /\ unvisited + 1 \in Nat /\ restarts + 1 \in Nat
  BY <1>1 DEF LogTypeOK
<1>4. LogSlot' = LogSlot
  BY DEF LogSlot
<1>5. CASE LogText
  <2>1. Head(toLog) \in LogRecord
    BY <1>3, <1>5 DEF LogText
  <2>2. logdata' \in [LogSlot -> LogRecord \cup {Blank}]
    BY <1>3, <1>5, <2>1 DEF LogText
  <2>3. writer' = "text" /\ toLog # <<>> /\ UNCHANGED <<logpos, toLog, i, shown, visits>>
    BY <1>5 DEF LogText
  <2>4. QED
    BY <1>3, <1>4, <2>2, <2>3 DEF LogTypeOK, LogsOK, visits
<1>6. CASE LogIndex
  <2>1. /\ writer = "text" /\ logpos' = (logpos + 1) % LogSlots /\ toLog' = Tail(toLog)
        /\ writer' = "idle" /\ UNCHANGED <<logdata, i, shown>>
    BY <1>6 DEF LogIndex
  <2>2. toLog # <<>>
    BY <2>1 DEF LogsOK
  <2>3. toLog' \in Seq(LogRecord)
    BY <1>3, <2>1, <2>2
  <2>4. logpos' \in LogSlot
    BY <1>2, <1>3, <2>1 DEF LogSlot
  <2>5. unvisited' \in 0 .. LogSlots /\ restarts' \in 0 .. 2
    BY <1>3, <1>6, VisitsTypes DEF LogIndex
  <2>6. QED
    BY <1>3, <1>4, <2>1, <2>3, <2>4, <2>5 DEF LogTypeOK, LogsOK
<1>7. CASE LogClear
  <2>1. /\ logdata' = [s \in LogSlot |-> Blank] /\ writer' = "back"
        /\ UNCHANGED <<logpos, toLog, i, shown, visits>>
    BY <1>7 DEF LogClear
  <2>2. logdata' \in [LogSlot -> LogRecord \cup {Blank}]
    BY <2>1
  <2>3. QED
    BY <1>3, <1>4, <2>1, <2>2 DEF LogTypeOK, LogsOK, visits
<1>8. CASE LogStepBack
  <2>1. /\ logpos' = (logpos + LogSlots - LogBack) % LogSlots /\ writer' = "idle"
        /\ UNCHANGED <<logdata, toLog, i, shown>>
    BY <1>8 DEF LogStepBack
  <2>2. logpos' \in LogSlot
    <3>1. logpos + LogSlots - LogBack \in Int
      BY <1>1, <1>3 DEF LogSlot
    <3>2. QED
      BY <1>2, <2>1, <3>1, Zenon DEF LogSlot
  <2>3. unvisited' \in 0 .. LogSlots /\ restarts' \in 0 .. 2
    BY <1>3, <1>8, VisitsTypes DEF LogStepBack
  <2>4. QED
    BY <1>3, <1>4, <2>1, <2>2, <2>3 DEF LogTypeOK, LogsOK
<1>9. CASE MlPrints
  <2>1. /\ shown' = (IF logdata[i] = Blank THEN shown ELSE logdata[i]) /\ i' = (i + 1) % LogSlots
        /\ UNCHANGED <<logdata, logpos, toLog, writer>>
    BY <1>9 DEF MlPrints
  <2>2. shown' \in LogRecord \cup {Blank}
    BY <1>3, <2>1
  <2>3. i' \in LogSlot
    BY <1>2, <1>3, <2>1 DEF LogSlot
  <2>4. unvisited' \in 0 .. LogSlots /\ restarts' \in 0 .. 2
    BY <1>3, <1>9, VisitsTypes DEF MlPrints
  <2>5. LogsOK'
    BY <2>1 DEF LogsOK
  <2>6. QED
    BY <1>3, <1>4, <2>1, <2>2, <2>3, <2>4, <2>5 DEF LogTypeOK
<1>10. QED
  BY <1>5, <1>6, <1>7, <1>8, <1>9 DEF Logs

\* A process that starts has an empty queue.
LEMMA EmptyQueue ==
  /\ MSGQUEUESIZE >= 1 /\ 0 \in Slot /\ 0 \in 0 .. SS7BufSize - 1
  /\ NoMessages \in [Slot -> Message] /\ NoMessages[0] \in Message
<1>1. MSGQUEUESIZE \in Nat /\ MSGQUEUESIZE >= 1 /\ SS7BufSize \in Nat /\ SS7BufSize >= 1
  BY Sizes
<1>2. 0 \in Slot /\ 0 \in 0 .. SS7BufSize - 1
  BY <1>1 DEF Slot
<1>3. 0 \in Proc
  BY Sizes DEF Proc
<1>4. [src |-> -1, dest |-> 0, msg |-> "TIMER", buf |-> NoBuf] \in Message
  BY <1>3, NoBufIs DEF Message
<1>5. NoMessages \in [Slot -> Message]
  BY <1>4 DEF NoMessages, Slot
<1>6. QED
  BY <1>1, <1>2, <1>5

LEMMA CoreInit == Init => CoreInv
<1> SUFFICES ASSUME Init PROVE CoreInv
  OBVIOUS
<1>1. /\ load \in Loads /\ msgqueue = NoMessages /\ execmsg = 0 /\ lastmsg = 0 /\ memalloc = 0
      /\ execproc = -1 /\ GlobalTimer = 0 /\ up = FALSE /\ hung = FALSE
      /\ msg = NoMessages[0] /\ LogInit
  BY DEF Init
<1>2. RingTypes
  BY <1>1, EmptyQueue DEF RingTypes
<1>3. Waiting = <<>> /\ Len(Waiting) = 0
  BY <1>1, <1>2, WaitingIs
<1>4. LogTypeOK /\ LogsOK
  <2>1. LogSlots \in Nat /\ LogSlots >= 2
    BY LogAssumption
  <2>2. 0 \in LogSlot /\ 1 \in LogSlot /\ 0 \in 0 .. LogSlots /\ 2 \in 0 .. 2
    BY <2>1 DEF LogSlot
  <2>3. <<>> \in Seq(LogRecord) /\ [s \in LogSlot |-> Blank] \in [LogSlot -> LogRecord \cup {Blank}]
    OBVIOUS
  <2>4. QED
    BY <1>1, <2>2, <2>3 DEF LogInit, LogTypeOK, LogsOK
<1>5. TypeOK
  <2>1. GlobalTimer \in 0 .. load.ticks
    BY <1>1, LoadTypes
  <2>2. QED
    BY <1>1, <1>4, <2>1, EmptyQueue DEF TypeOK, Slot
<1>6. Queue(Waiting, memalloc, load, 0, 0, 0)
  BY <1>1, <1>3, QueueEmpty
<1>7. QED
  BY <1>3, <1>4, <1>5, <1>6 DEF CoreInv, QueueOK

\* What stays as it is.
LEMMA SameQueue ==
  ASSUME UNCHANGED dispatcherVars
  PROVE  /\ load' = load /\ msgqueue' = msgqueue /\ execmsg' = execmsg /\ lastmsg' = lastmsg
         /\ memalloc' = memalloc /\ execproc' = execproc /\ GlobalTimer' = GlobalTimer
         /\ msg' = msg /\ up' = up /\ hung' = hung /\ Waiting' = Waiting
<1>1. /\ load' = load /\ msgqueue' = msgqueue /\ execmsg' = execmsg /\ lastmsg' = lastmsg
      /\ memalloc' = memalloc /\ execproc' = execproc /\ GlobalTimer' = GlobalTimer
      /\ msg' = msg /\ up' = up /\ hung' = hung
  BY DEF dispatcherVars, ring
<1>2. Waiting' = Waiting
  BY <1>1 DEF Waiting
<1>3. QED
  BY <1>1, <1>2

LEMMA SameLog ==
  ASSUME LogTypeOK, LogsOK, UNCHANGED logVars
  PROVE  LogTypeOK' /\ LogsOK'
<1>1. /\ logdata' = logdata /\ logpos' = logpos /\ toLog' = toLog /\ writer' = writer /\ i' = i
      /\ shown' = shown /\ unvisited' = unvisited /\ restarts' = restarts
  BY DEF logVars, visits
<1>2. QED
  BY <1>1 DEF LogTypeOK, LogsOK, LogSlot

\* What Kill leaves, and Start finds.
LEMMA EmptyWhenReset ==
  ASSUME msgqueue' = NoMessages, execmsg' = 0, lastmsg' = 0, load' \in Loads
  PROVE  RingTypes' /\ QueueOK' /\ Waiting' = <<>> /\ Len(Waiting') = 0
<1>1. RingTypes'
  <2>1. Slot' = Slot /\ Message' = Message
    BY DEF Slot, Message, Proc, lastproc
  <2>2. QED
    BY <2>1, EmptyQueue DEF RingTypes
<1>2. (RingTypes => (Waiting = <<>> <=> execmsg = lastmsg))'
  BY WaitingIs, PTL
<1>3. Waiting' = <<>> /\ Len(Waiting') = 0
  BY <1>1, <1>2
<1>4. Queue(Waiting', memalloc', load', 0, 0, 0)
  BY <1>3, QueueEmpty
<1>5. QueueOK'
  BY <1>4, QueuePrimed
<1>6. QED
  BY <1>1, <1>3, <1>5

\* One step of the gateway keeps CoreInv; under it a step of the gateway is a
\* step of the mailbox.
Keeps == CoreInv' /\ (Mailbox!Next \/ UNCHANGED Mailbox!vars)

LEMMA StartStep ==
  ASSUME CoreInv, Start
  PROVE  Keeps
<1>1. /\ ~ up /\ up' = TRUE /\ load' = load /\ msgqueue' = msgqueue /\ execmsg' = execmsg
      /\ lastmsg' = lastmsg /\ memalloc' = memalloc /\ execproc' = execproc
      /\ GlobalTimer' = GlobalTimer /\ msg' = msg /\ hung' = hung
      /\ logdata' = logdata /\ logpos' = logpos /\ i' = i /\ shown' = shown
      /\ unvisited' = unvisited /\ restarts' = restarts
  BY DEF Start, ring, visits
<1>2. Waiting' = Waiting /\ Waiting = <<>>
  BY <1>1 DEF Waiting, CoreInv
<1>3. TypeOK /\ LogTypeOK /\ LogsOK
  BY DEF CoreInv, TypeOK
<1>4. LogTypeOK' /\ LogsOK'
  <2> DEFINE n == 2 * Links + 4
             rest == [k \in 1 .. n |-> "launched"]
  <2>1. toLog' \in Seq(LogRecord)
    <3>1. n \in Nat /\ "start" \in LogRecord /\ "launched" \in LogRecord
      BY CoreAssumption, Sizes
    <3> HIDE DEF n
    <3>2. <<"start">> \in Seq(LogRecord) /\ rest \in Seq(LogRecord) /\ <<>> \in Seq(LogRecord)
      BY <3>1
    <3> HIDE DEF rest
    <3>3. <<"start">> \o rest \in Seq(LogRecord)
      BY <3>2
    <3>4. toLog' = (IF load.logged THEN <<"start">> \o rest ELSE <<>>)
      BY DEF Start, WillLog, rest, n
    <3>5. QED
      BY <3>2, <3>3, <3>4
  <2>2. writer' = "clear" \/ writer' = "idle"
    BY DEF Start
  <2>3. QED
    BY <1>1, <1>3, <2>1, <2>2 DEF LogTypeOK, LogsOK, LogSlot
<1>5. TypeOK'
  BY <1>1, <1>3, <1>4 DEF TypeOK, Message, Proc, lastproc
<1>6. QueueOK'
  <2>1. \E r, p, c \in Nat : Queue(Waiting', memalloc', load', r, p, c)
    BY <1>1, <1>2, InvParts
  <2>2. QED
    BY <2>1, QueuePrimed
<1>7. CoreInv'
  BY <1>1, <1>4, <1>5, <1>6 DEF CoreInv
<1>8. Mailbox!Next
  BY <1>1, <1>2 DEF Mailbox!Next, Mailbox!Starts
<1>9. QED
  BY <1>7, <1>8 DEF Keeps

LEMMA KillStep ==
  ASSUME CoreInv, Kill
  PROVE  Keeps
<1>1. /\ up' = FALSE /\ msgqueue' = NoMessages /\ execmsg' = 0 /\ lastmsg' = 0 /\ memalloc' = 0
      /\ execproc' = -1 /\ GlobalTimer' = 0 /\ writer' = "idle" /\ toLog' = <<>>
      /\ load' = load /\ msg' = msg /\ hung' = FALSE
      /\ logdata' = logdata /\ logpos' = logpos /\ i' = i /\ shown' = shown
      /\ unvisited' = unvisited /\ restarts' = restarts
  BY DEF Kill, visits
<1>2. TypeOK /\ LogTypeOK /\ load \in Loads /\ Waiting \in Seq(Message)
  BY InvParts DEF CoreInv, TypeOK
<1>3. RingTypes' /\ QueueOK' /\ Waiting' = <<>> /\ Len(Waiting') = 0
  BY <1>1, <1>2, EmptyWhenReset
<1>4. LogTypeOK' /\ LogsOK'
  BY <1>1, <1>2 DEF LogTypeOK, LogsOK, LogSlot
<1>5. TypeOK'
  <2>1. GlobalTimer' \in 0 .. load'.ticks
    BY <1>1, <1>2, LoadTypes
  <2>2. msgqueue' \in [Slot -> Message] /\ {execmsg', lastmsg'} \subseteq Slot
        /\ memalloc' \in 0 .. SS7BufSize - 1
    BY <1>1, EmptyQueue
  <2>3. msg' \in Message
    BY <1>1, <1>2 DEF TypeOK
  <2>4. QED
    BY <1>1, <1>2, <1>4, <2>1, <2>2, <2>3 DEF TypeOK, Slot, Message, Proc, lastproc
<1>6. CoreInv'
  BY <1>3, <1>4, <1>5 DEF CoreInv
<1>7. Mailbox!IsPrefix(Waiting', Waiting)
  <2> DEFINE q == Waiting
  <2>1. Len(q) \in Nat /\ 0 <= Len(q)
    BY <1>2
  <2>2. SubSeq(q, 1, 0) = <<>> /\ SubSeq(<<>>, 1, 0) = <<>> /\ Len(<<>>) = 0
    BY <1>2
  <2> HIDE DEF q
  <2>3. Mailbox!IsPrefix(<<>>, q)
    BY <2>1, <2>2 DEF Mailbox!IsPrefix
  <2>4. QED
    BY <1>3, <2>3 DEF q
<1>8. Mailbox!Next
  BY <1>1, <1>7 DEF Mailbox!Next, Mailbox!Loses
<1>9. QED
  BY <1>6, <1>8 DEF Keeps

LEMMA TickStep ==
  ASSUME RoomForTick, CoreInv, Tick, UNCHANGED logVars
  PROVE  Keeps
<1>1. /\ up /\ load' = load /\ execmsg' = execmsg /\ memalloc' = memalloc /\ msg' = msg /\ up' = up
      /\ hung' = hung
      /\ GlobalTimer < load.ticks /\ GlobalTimer' = GlobalTimer + 1 /\ execproc' = -1
  BY DEF Tick
<1>2. TypeOK /\ LogTypeOK /\ LogsOK /\ load \in Loads
  BY DEF CoreInv, TypeOK
<1>3. RingTypes' /\ QueueOK' /\ Waiting = <<>>
  BY TickDoes
<1>4. LogTypeOK' /\ LogsOK'
  BY <1>2, SameLog
<1>5. TypeOK'
  <2>1. GlobalTimer' \in 0 .. load'.ticks
    <3>1. GlobalTimer \in 0 .. load.ticks /\ load.ticks \in Nat
      BY <1>2, LoadTypes DEF TypeOK
    <3>2. QED
      BY <1>1, <3>1
  <2>2. msgqueue' \in [Slot -> Message] /\ {execmsg', lastmsg'} \subseteq Slot
    <3>1. Slot' = Slot /\ Message' = Message
      BY DEF Slot, Message, Proc, lastproc
    <3>2. QED
      BY <1>3, <3>1 DEF RingTypes
  <2>3. msg' \in Message /\ memalloc' \in 0 .. SS7BufSize - 1 /\ {up', hung'} \subseteq BOOLEAN
    BY <1>1, <1>2 DEF TypeOK
  <2>4. QED
    BY <1>1, <1>2, <1>4, <2>1, <2>2, <2>3 DEF TypeOK, Slot, Message, Proc, lastproc
<1>6. CoreInv'
  BY <1>1, <1>3, <1>4, <1>5 DEF CoreInv
<1>7. Waiting' \in Seq(Message)
  <2>1. (RingTypes => Waiting \in Seq(Message))'
    BY WaitingIs, PTL
  <2>2. Message' = Message
    BY DEF Message, Proc, lastproc
  <2>3. QED
    BY <1>3, <2>1, <2>2
<1>8. Mailbox!IsPrefix(Waiting, Waiting')
  <2> DEFINE q == Waiting'
  <2>1. Len(q) \in Nat /\ 0 <= Len(q)
    BY <1>7
  <2>2. SubSeq(q, 1, 0) = <<>> /\ SubSeq(<<>>, 1, 0) = <<>> /\ Len(<<>>) = 0
    BY <1>7
  <2> HIDE DEF q
  <2>3. Mailbox!IsPrefix(<<>>, q)
    BY <2>1, <2>2 DEF Mailbox!IsPrefix
  <2>4. QED
    BY <1>3, <2>3 DEF q
<1>9. Mailbox!Next
  BY <1>1, <1>8 DEF Mailbox!Next, Mailbox!Puts
<1>10. QED
  BY <1>6, <1>9 DEF Keeps

LEMMA HandleStep ==
  ASSUME RoomForTick, CoreInv, up, NEW does \in Event(msgqueue[execmsg]), Handles(does),
         writer = "idle", WillLog(does.logs),
         UNCHANGED <<logdata, logpos, writer, i, shown, visits>>
  PROVE  Keeps
<1>1. /\ load' = load /\ GlobalTimer' = GlobalTimer /\ up' = up /\ hung' = hung
      /\ logdata' = logdata /\ logpos' = logpos /\ writer' = writer /\ i' = i /\ shown' = shown
      /\ unvisited' = unvisited /\ restarts' = restarts
  BY DEF Handles, visits
<1>2. TypeOK /\ LogTypeOK /\ LogsOK /\ load \in Loads /\ Waiting \in Seq(Message)
      /\ Len(Waiting) \in Nat
  BY InvParts DEF CoreInv, TypeOK
<1>3. /\ RingTypes' /\ QueueOK' /\ memalloc' \in 0 .. SS7BufSize - 1
      /\ does.logs \in Seq(LogRecord) /\ Len(does.posts) \in Nat
      /\ Waiting # <<>> /\ Len(Waiting) >= 1
      /\ msg' = Waiting[1] /\ msg' \in Message /\ execproc' \in Proc
      /\ Becomes(Waiting, Waiting', does.posts)
  BY HandleDoes
<1>4. LogTypeOK' /\ LogsOK'
  <2>1. toLog' \in Seq(LogRecord)
    <3>1. <<>> \in Seq(LogRecord)
      OBVIOUS
    <3>2. QED
      BY <1>3, <3>1 DEF WillLog
  <2>2. QED
    BY <1>1, <1>2, <2>1 DEF LogTypeOK, LogsOK, LogSlot
<1>5. TypeOK'
  <2>1. msgqueue' \in [Slot -> Message] /\ {execmsg', lastmsg'} \subseteq Slot
    <3>1. Slot' = Slot /\ Message' = Message
      BY DEF Slot, Message, Proc, lastproc
    <3>2. QED
      BY <1>3, <3>1 DEF RingTypes
  <2>2. GlobalTimer' \in 0 .. load'.ticks /\ {up', hung'} \subseteq BOOLEAN
    BY <1>1, <1>2 DEF TypeOK
  <2>3. QED
    BY <1>1, <1>2, <1>3, <1>4, <2>1, <2>2 DEF TypeOK, Slot, Message, Proc, lastproc
<1>6. CoreInv'
  BY <1>1, <1>3, <1>4, <1>5 DEF CoreInv
<1>7. Waiting' \in Seq(Message)
  <2>1. (RingTypes => Waiting \in Seq(Message))'
    BY WaitingIs, PTL
  <2>2. Message' = Message
    BY DEF Message, Proc, lastproc
  <2>3. QED
    BY <1>3, <2>1, <2>2
<1>8. Mailbox!IsPrefix(Tail(Waiting), Waiting')
  <2> DEFINE q == Waiting
             e == Waiting'
             t == Tail(q)
  <2>1. /\ t \in Seq(Message) /\ Len(t) = Len(q) - 1 /\ \A k \in 1 .. Len(q) - 1 : t[k] = q[k + 1]
    BY <1>2, <1>3
  <2>2. /\ e \in Seq(Message) /\ Len(e) \in Nat
        /\ \A k \in 1 .. Len(q) - 1 : e[k] = q[k + 1]
    BY <1>3, <1>7 DEF Becomes
  <2>3. Len(t) <= Len(e) /\ Len(t) \in Nat
    <3>1. Len(does.posts) \in Nat /\ Len(e) = Len(q) - 1 + Len(does.posts)
      BY <1>3 DEF Becomes
    <3>2. QED
      BY <1>2, <1>3, <2>1, <3>1
  <2> HIDE DEF e, t, q
  <2>4. \A k \in 1 .. Len(t) : t[k] = e[k]
    BY <2>1, <2>2
  <2>5. SubSeq(t, 1, Len(t)) = SubSeq(e, 1, Len(t))
    BY <2>1, <2>2, <2>3, <2>4
  <2>6. Mailbox!IsPrefix(t, e)
    BY <2>3, <2>5 DEF Mailbox!IsPrefix
  <2>7. QED
    BY <2>6 DEF t, q, e
<1>9. msg' = Head(Waiting)
  BY <1>2, <1>3
<1>10. Mailbox!Next
  BY <1>1, <1>3, <1>8, <1>9 DEF Mailbox!Next, Mailbox!Takes
<1>11. QED
  BY <1>6, <1>10 DEF Keeps

\* A handler that does not return leaves the queue as it is.
LEMMA HangStep ==
  ASSUME CoreInv, LoopHangs
  PROVE  Keeps
<1>1. /\ up /\ load' = load /\ msgqueue' = msgqueue /\ execmsg' = execmsg /\ lastmsg' = lastmsg
      /\ memalloc' = memalloc /\ GlobalTimer' = GlobalTimer /\ msg' = msg /\ up' = up
      /\ execproc' = Mtp /\ hung' = TRUE
      /\ logdata' = logdata /\ logpos' = logpos /\ writer' = writer /\ i' = i /\ shown' = shown
      /\ unvisited' = unvisited /\ restarts' = restarts /\ writer = "idle"
  BY DEF LoopHangs, Hangs, ring, visits
<1>2. Waiting' = Waiting
  BY <1>1 DEF Waiting
<1>3. TypeOK /\ LogTypeOK /\ LogsOK
  BY DEF CoreInv, TypeOK
<1>4. LogTypeOK' /\ LogsOK'
  <2>1. toLog' \in Seq(LogRecord)
    <3>1. <<>> \in Seq(LogRecord) /\ <<"rx">> \in Seq(LogRecord)
      BY CoreAssumption
    <3>2. toLog' = <<>> \/ toLog' = <<"rx">>
      BY DEF LoopHangs, WillLog
    <3>3. QED
      BY <3>1, <3>2
  <2>2. QED
    BY <1>1, <1>3, <2>1 DEF LogTypeOK, LogsOK, LogSlot
<1>5. TypeOK'
  <2>1. Mtp \in Proc
    BY Procs
  <2>2. QED
    BY <1>1, <1>3, <1>4, <2>1 DEF TypeOK, Message, Proc, lastproc, Mtp
<1>6. QueueOK'
  <2>1. \E r, p, c \in Nat : Queue(Waiting', memalloc', load', r, p, c)
    BY <1>1, <1>2, InvParts
  <2>2. QED
    BY <2>1, QueuePrimed
<1>7. CoreInv'
  BY <1>1, <1>4, <1>5, <1>6 DEF CoreInv
<1>8. UNCHANGED Mailbox!vars
  BY <1>1, <1>2 DEF Mailbox!vars
<1>9. QED
  BY <1>7, <1>8 DEF Keeps

LEMMA LogOnlyStep ==
  ASSUME CoreInv, Logs \/ MlPrints, UNCHANGED dispatcherVars
  PROVE  Keeps
<1>1. TypeOK /\ LogTypeOK /\ LogsOK
  BY DEF CoreInv, TypeOK
<1>2. LogTypeOK' /\ LogsOK'
  BY <1>1, LogStep
<1>3. /\ load' = load /\ msgqueue' = msgqueue /\ execmsg' = execmsg /\ lastmsg' = lastmsg
      /\ memalloc' = memalloc /\ execproc' = execproc /\ GlobalTimer' = GlobalTimer
      /\ msg' = msg /\ up' = up /\ hung' = hung /\ Waiting' = Waiting
  BY SameQueue
<1>4. TypeOK'
  BY <1>1, <1>2, <1>3 DEF TypeOK, Message, Proc, lastproc
<1>5. QueueOK'
  <2>1. \E r, p, c \in Nat : Queue(Waiting', memalloc', load', r, p, c)
    BY <1>3, InvParts
  <2>2. QED
    BY <2>1, QueuePrimed
<1>6. CoreInv'
  BY <1>2, <1>3, <1>4, <1>5 DEF CoreInv
<1>7. UNCHANGED Mailbox!vars
  BY <1>3 DEF Mailbox!vars
<1>8. QED
  BY <1>6, <1>7 DEF Keeps

LEMMA CoreStep ==
  ASSUME RoomForTick, CoreInv, [Next]_coreVars
  PROVE  Keeps
<1>1. CASE Start
  BY <1>1, StartStep
<1>2. CASE Kill
  BY <1>2, KillStep
<1>3. CASE Loop
  <2>1. CASE Tick /\ UNCHANGED logVars
    BY <2>1, TickStep
  <2>2. ASSUME up, NEW does \in Event(msgqueue[execmsg]), Handles(does),
               WillLog(does.logs),
               UNCHANGED <<logdata, logpos, writer, i, shown, visits>>
        PROVE  Keeps
    BY <1>3, <2>2, HandleStep DEF Loop
  <2>3. QED
    BY <1>3, <2>1, <2>2 DEF Loop
<1>4. CASE Logs /\ UNCHANGED dispatcherVars
  BY <1>4, LogOnlyStep
<1>5. CASE load.logged /\ MlPrints /\ UNCHANGED dispatcherVars
  BY <1>5, LogOnlyStep
<1>6. CASE UNCHANGED coreVars
  <2>1. UNCHANGED dispatcherVars /\ UNCHANGED logVars
    BY <1>6 DEF coreVars
  <2>2. LogTypeOK' /\ LogsOK'
    BY <2>1, SameLog DEF CoreInv, TypeOK
  <2>3. /\ load' = load /\ msgqueue' = msgqueue /\ execmsg' = execmsg /\ lastmsg' = lastmsg
        /\ memalloc' = memalloc /\ execproc' = execproc /\ GlobalTimer' = GlobalTimer
        /\ msg' = msg /\ up' = up /\ hung' = hung /\ Waiting' = Waiting
    BY <2>1, SameQueue
  <2>4. TypeOK'
    BY <2>2, <2>3 DEF CoreInv, TypeOK, Message, Proc, lastproc
  <2>5. QueueOK'
    <3>1. \E r, p, c \in Nat : Queue(Waiting', memalloc', load', r, p, c)
      BY <2>3, InvParts
    <3>2. QED
      BY <3>1, QueuePrimed
  <2>6. CoreInv'
    BY <2>2, <2>3, <2>4, <2>5 DEF CoreInv
  <2>7. QED
    BY <2>3, <2>6 DEF Keeps, Mailbox!vars
<1>7. CASE LoopHangs
  BY <1>7, HangStep
<1>8. QED
  BY <1>1, <1>2, <1>3, <1>4, <1>5, <1>6, <1>7 DEF Next

LEMMA CoreInvariant ==
  ASSUME RoomForTick
  PROVE  Spec => []CoreInv
<1>1. CoreInv /\ [Next]_coreVars => CoreInv'
  BY CoreStep DEF Keeps
<1>2. QED
  BY CoreInit, <1>1, PTL DEF Spec

-----------------------------------------------------------------------------
(* The log.  ml is D slots behind *logpos; log_shmem() puts *logpos back by *)
(* LogBack, which is as if ml were LogSlots - LogBack further behind.  When *)
(* D comes to LogSlots it is 0 again, and what ml has not printed is lost.  *)

LogAt(p, d) == (p + d) % LogSlots

\* Of the next D records from a position on, the last n are written, the others blank.
LateWritten(data, from, D, n) ==
  \A d \in 0 .. D - 1 : data[LogAt(from, d)] # Blank <=> d >= D - n

LEMMA LogSizes ==
  /\ LogSlots \in Nat /\ LogSlots >= 2 /\ LogBack \in Nat /\ LogBack >= 1 /\ LogBack < LogSlots
  /\ \A p \in LogSlot : p \in Nat /\ p < LogSlots
  /\ \A d \in Nat : d < LogSlots => d \in LogSlot
BY LogAssumption DEF LogSlot

LEMMA LogRound ==
  ASSUME NEW x \in Nat, x < 2 * LogSlots
  PROVE  /\ x < LogSlots => x % LogSlots = x
         /\ x >= LogSlots => x % LogSlots = x - LogSlots
<1>1. LogSlots \in Nat /\ LogSlots >= 1
  BY LogSizes
<1>2. QED
  BY <1>1, ComesRound

LEMMA LogAtIs ==
  ASSUME NEW p \in LogSlot, NEW d \in 0 .. LogSlots
  PROVE  /\ LogAt(p, d) \in LogSlot
         /\ p + d < LogSlots => LogAt(p, d) = p + d
         /\ p + d >= LogSlots => LogAt(p, d) = p + d - LogSlots
<1>1. /\ LogSlots \in Nat /\ LogSlots >= 1 /\ p \in Nat /\ p < LogSlots
      /\ d \in Nat /\ p + d \in Nat /\ p + d < 2 * LogSlots
  BY LogSizes
<1>2. PICK x \in Nat : x = p + d /\ x < 2 * LogSlots
  BY <1>1
<1>3. /\ x < LogSlots => x % LogSlots = x
      /\ x >= LogSlots => x % LogSlots = x - LogSlots
  BY <1>2, LogRound
<1>4. LogAt(p, d) = x % LogSlots
  BY <1>2 DEF LogAt
<1>5. QED
  BY <1>1, <1>2, <1>3, <1>4 DEF LogSlot

LEMMA LogAtApart ==
  ASSUME NEW p \in LogSlot, NEW c \in LogSlot, NEW d \in LogSlot, LogAt(p, c) = LogAt(p, d)
  PROVE  c = d
<1>1. /\ p \in Nat /\ c \in Nat /\ d \in Nat /\ c < LogSlots /\ d < LogSlots /\ p < LogSlots
      /\ c \in 0 .. LogSlots /\ d \in 0 .. LogSlots /\ LogSlots \in Nat
  BY LogSizes
<1>2. /\ LogAt(p, c) = p + c \/ (LogAt(p, c) = p + c - LogSlots /\ p + c >= LogSlots)
      /\ LogAt(p, d) = p + d \/ (LogAt(p, d) = p + d - LogSlots /\ p + d >= LogSlots)
  BY <1>1, LogAtIs
<1>3. QED
  BY <1>1, <1>2

\* From the next position on.
LEMMA LogAtNext ==
  ASSUME NEW p \in LogSlot, NEW d \in 0 .. LogSlots - 1
  PROVE  /\ LogAt(LogAt(p, d), 1) = LogAt(p, d + 1)
         /\ LogAt(LogAt(p, 1), d) = LogAt(p, d + 1)
<1>1. /\ p \in Nat /\ d \in Nat /\ d < LogSlots /\ p < LogSlots /\ LogSlots \in Nat /\ LogSlots >= 2
      /\ d \in 0 .. LogSlots /\ 1 \in 0 .. LogSlots /\ d + 1 \in 0 .. LogSlots
  BY LogSizes
<1>2. PICK a \in LogSlot : a = LogAt(p, d)
  BY <1>1, LogAtIs
<1>3. PICK b \in LogSlot : b = LogAt(p, 1)
  BY <1>1, LogAtIs
<1>4. a \in Nat /\ a < LogSlots /\ b \in Nat /\ b < LogSlots
  BY LogSizes
<1>5. /\ (p + d < LogSlots /\ a = p + d) \/ (p + d >= LogSlots /\ a = p + d - LogSlots)
      /\ (p + 1 < LogSlots /\ b = p + 1) \/ (p + 1 >= LogSlots /\ b = p + 1 - LogSlots)
  BY <1>1, <1>2, <1>3, LogAtIs
<1>6. \/ p + (d + 1) < LogSlots /\ LogAt(p, d + 1) = p + (d + 1)
      \/ p + (d + 1) >= LogSlots /\ LogAt(p, d + 1) = p + (d + 1) - LogSlots
  BY <1>1, LogAtIs
<1>7. /\ (a + 1 < LogSlots /\ LogAt(a, 1) = a + 1) \/ (a + 1 >= LogSlots /\ LogAt(a, 1) = a + 1 - LogSlots)
      /\ (b + d < LogSlots /\ LogAt(b, d) = b + d) \/ (b + d >= LogSlots /\ LogAt(b, d) = b + d - LogSlots)
  BY <1>1, <1>4, LogAtIs
<1>8. LogAt(a, 1) = LogAt(p, d + 1)
  BY <1>1, <1>4, <1>5, <1>6, <1>7
<1>9. LogAt(b, d) = LogAt(p, d + 1)
  BY <1>1, <1>4, <1>5, <1>6, <1>7
<1>10. QED
  BY <1>2, <1>3, <1>8, <1>9

\* log_shmem() puts the position back.
LEMMA LogAtBack ==
  ASSUME NEW p \in LogSlot, NEW D \in 0 .. LogSlots - 1, NEW e \in 0 .. LogSlots - 1,
         e = D - LogBack \/ e = D - LogBack + LogSlots
  PROVE  (LogAt(p, D) + LogSlots - LogBack) % LogSlots = LogAt(p, e)
<1>1. /\ p \in Nat /\ D \in Nat /\ D < LogSlots /\ e \in Nat /\ e < LogSlots /\ p < LogSlots
      /\ LogSlots \in Nat /\ LogSlots >= 2 /\ LogBack \in Nat /\ LogBack >= 1 /\ LogBack < LogSlots
      /\ D \in 0 .. LogSlots /\ e \in 0 .. LogSlots
  BY LogSizes
<1>2. PICK a \in LogSlot : a = LogAt(p, D)
  BY <1>1, LogAtIs
<1>3. /\ a \in Nat /\ a < LogSlots
      /\ (p + D < LogSlots /\ a = p + D) \/ (p + D >= LogSlots /\ a = p + D - LogSlots)
  BY <1>1, <1>2, LogAtIs, LogSizes
<1>4. \/ p + e < LogSlots /\ LogAt(p, e) = p + e
      \/ p + e >= LogSlots /\ LogAt(p, e) = p + e - LogSlots
  BY <1>1, LogAtIs
<1>5. PICK x \in Nat : x = a + LogSlots - LogBack /\ x < 2 * LogSlots
  BY <1>1, <1>3
<1>6. /\ x < LogSlots => x % LogSlots = x
      /\ x >= LogSlots => x % LogSlots = x - LogSlots
  BY <1>5, LogRound
<1>7. x % LogSlots = LogAt(p, e)
  BY <1>1, <1>3, <1>4, <1>5, <1>6
<1>8. QED
  BY <1>2, <1>5, <1>7

\* A row of numbers, counted.
LEMMA RowNth ==
  ASSUME NEW a \in Nat, NEW b \in Nat, a <= b
  PROVE  /\ Cardinality(a .. b - 1) = b - a
         /\ \A k \in 1 .. b - a : Nth(a .. b - 1, k) = a + k - 1
<1>1. Cardinality(a .. b - 1) = b - a
  <2>1. a \in Int /\ b - 1 \in Int
    OBVIOUS
  <2>2. Cardinality(a .. b - 1) = IF a > b - 1 THEN 0 ELSE (b - 1) - a + 1
    BY <2>1, FS_Interval
  <2>3. QED
    BY <2>2
<1>2. ASSUME NEW k \in 1 .. b - a, NEW d \in a .. b - 1
      PROVE  Cardinality({e \in a .. b - 1 : e <= d}) = k <=> d = a + k - 1
  <2>1. {e \in a .. b - 1 : e <= d} = a .. d
    OBVIOUS
  <2>2. Cardinality(a .. d) = d - a + 1
    <3>1. a \in Int /\ d \in Int /\ ~ (a > d)
      OBVIOUS
    <3>2. QED
      BY <3>1, FS_Interval
  <2>3. d - a + 1 = k <=> d = a + k - 1
    OBVIOUS
  <2>4. QED
    BY <2>1, <2>2, <2>3, Zenon
<1>3. ASSUME NEW k \in 1 .. b - a
      PROVE  Nth(a .. b - 1, k) = a + k - 1
  <2>1. a + k - 1 \in a .. b - 1
    OBVIOUS
  <2>2. QED
    BY <1>2, <2>1 DEF Nth
<1>4. QED
  BY <1>1, <1>3

LEMMA RecordsAre ==
  ASSUME NEW p \in LogSlot, NEW D \in 0 .. LogSlots - 1, NEW n \in 0 .. D
  PROVE  \A data : LateWritten(data, p, D, n) =>
           Records(data, p, LogAt(p, D)) = [k \in 1 .. n |-> data[LogAt(p, D - n + k - 1)]]
<1> TAKE data
<1> HAVE LateWritten(data, p, D, n)
<1>1. /\ p \in Nat /\ D \in Nat /\ n \in Nat /\ n <= D /\ D < LogSlots /\ p < LogSlots
      /\ LogSlots \in Nat /\ LogSlots >= 2 /\ D \in 0 .. LogSlots
  BY LogSizes
<1>2. (LogAt(p, D) - p + LogSlots) % LogSlots = D
  <2>1. PICK a \in LogSlot : a = LogAt(p, D)
    BY <1>1, LogAtIs
  <2>2. /\ a \in Nat /\ a < LogSlots
        /\ (p + D < LogSlots /\ a = p + D) \/ (p + D >= LogSlots /\ a = p + D - LogSlots)
    BY <1>1, <2>1, LogAtIs, LogSizes
  <2>3. PICK x \in Nat : x = a - p + LogSlots /\ x < 2 * LogSlots
    BY <1>1, <2>2
  <2>4. /\ x < LogSlots => x % LogSlots = x
        /\ x >= LogSlots => x % LogSlots = x - LogSlots
    BY <2>3, LogRound
  <2>5. x % LogSlots = D
    BY <1>1, <2>2, <2>3, <2>4
  <2>6. QED
    BY <2>1, <2>3, <2>5
<1> DEFINE W == {d \in 0 .. D - 1 : data[(p + d) % LogSlots] # Blank}
           a == D - n
<1>3. W = a .. D - 1
  <2>1. \A d \in 0 .. D - 1 : d \in W <=> d >= a
    BY DEF LateWritten, LogAt
  <2>2. \A d : d \in W => d \in 0 .. D - 1
    OBVIOUS
  <2>3. \A d : d \in a .. D - 1 <=> d \in 0 .. D - 1 /\ d >= a
    BY <1>1
  <2> HIDE DEF W
  <2>4. QED
    BY <2>1, <2>2, <2>3
<1>4. a \in Nat /\ a <= D /\ D - a = n
  BY <1>1
<1>5. Records(data, p, LogAt(p, D))
        = [k \in 1 .. Cardinality(W) |-> data[(p + Nth(W, k)) % LogSlots]]
  BY <1>2 DEF Records
<1> HIDE DEF W, a
<1>6. Cardinality(W) = n /\ \A k \in 1 .. n : Nth(W, k) = a + k - 1
  <2>1. /\ Cardinality(a .. D - 1) = D - a
        /\ \A k \in 1 .. D - a : Nth(a .. D - 1, k) = a + k - 1
    BY <1>1, <1>4, RowNth
  <2>2. QED
    BY <1>3, <1>4, <2>1
<1>7. Records(data, p, LogAt(p, D)) = [k \in 1 .. n |-> data[LogAt(p, a + k - 1)]]
  BY <1>5, <1>6 DEF LogAt
<1>8. QED
  BY <1>7 DEF a

LEMMA LogAtNone ==
  ASSUME NEW p \in LogSlot
  PROVE  LogAt(p, 0) = p
<1>1. p \in Nat /\ p < LogSlots /\ p + 0 = p /\ p + 0 < LogSlots /\ 0 \in 0 .. LogSlots
  BY LogSizes
<1>2. QED
  BY <1>1, LogAtIs

\* One more record.
LEMMA RecordsGrow ==
  ASSUME NEW data \in [LogSlot -> LogRecord \cup {Blank}], NEW p \in LogSlot,
         NEW D \in 0 .. LogSlots - 2, NEW n \in 0 .. D,
         LateWritten(data, p, D, n), data[LogAt(p, D)] # Blank
  PROVE  /\ LateWritten(data, p, D + 1, n + 1)
         /\ LogQueue!IsPrefix(Records(data, p, LogAt(p, D)), Records(data, p, LogAt(p, D + 1)))
<1>1. /\ D \in Nat /\ n \in Nat /\ n <= D /\ D + 1 < LogSlots /\ LogSlots \in Nat
      /\ D \in 0 .. LogSlots - 1 /\ D + 1 \in 0 .. LogSlots - 1 /\ n + 1 \in 0 .. D + 1
  BY LogSizes
<1>2. LateWritten(data, p, D + 1, n + 1)
  <2>1. SUFFICES ASSUME NEW d \in 0 .. (D + 1) - 1
                 PROVE  data[LogAt(p, d)] # Blank <=> d >= (D + 1) - (n + 1)
    BY DEF LateWritten
  <2>2. CASE d = D
    BY <1>1, <2>2
  <2>3. CASE d # D
    <3>1. d \in 0 .. D - 1 /\ (d >= (D + 1) - (n + 1) <=> d >= D - n)
      BY <1>1, <2>3
    <3>2. QED
      BY <3>1 DEF LateWritten
  <2>4. QED
    BY <2>2, <2>3
<1> DEFINE f == [k \in 1 .. n |-> data[LogAt(p, D - n + k - 1)]]
           g == [k \in 1 .. n + 1 |-> data[LogAt(p, (D + 1) - (n + 1) + k - 1)]]
<1>3. Records(data, p, LogAt(p, D)) = f
  BY <1>1, RecordsAre
<1>4. Records(data, p, LogAt(p, D + 1)) = g
  <2>0. PICK E \in 0 .. LogSlots - 1 : E = D + 1
    BY <1>1
  <2>1. PICK m \in 0 .. E : E = D + 1 /\ m = n + 1
    BY <1>1, <2>0
  <2>2. Records(data, p, LogAt(p, E)) = [k \in 1 .. m |-> data[LogAt(p, E - m + k - 1)]]
    BY <1>2, <2>1, RecordsAre, SMTT(60)
  <2>3. QED
    BY <2>1, <2>2
<1>5. \A k \in 1 .. n + 1 : LogAt(p, (D + 1) - (n + 1) + k - 1) \in LogSlot
  <2> TAKE k \in 1 .. n + 1
  <2>1. PICK d \in 0 .. LogSlots : d = (D + 1) - (n + 1) + k - 1
    BY <1>1
  <2>2. QED
    BY <2>1, LogAtIs
<1>6. \A k \in 1 .. n : k \in 1 .. n + 1 /\ f[k] = g[k]
  <2> TAKE k \in 1 .. n
  <2>1. k \in 1 .. n + 1 /\ (D + 1) - (n + 1) + k - 1 = D - n + k - 1
    BY <1>1
  <2>2. QED
    BY <2>1
<1>7. g \in Seq(LogRecord \cup {Blank}) /\ Len(g) = n + 1
  <2>1. \A k \in 1 .. n + 1 : g[k] \in LogRecord \cup {Blank}
    BY <1>5
  <2>2. n + 1 \in Nat /\ g = [k \in 1 .. n + 1 |-> g[k]]
    BY <1>1
  <2> HIDE DEF g
  <2>3. QED
    BY <2>1, <2>2
<1>8. f \in Seq(LogRecord \cup {Blank}) /\ Len(f) = n
  <2>1. \A k \in 1 .. n : f[k] \in LogRecord \cup {Blank}
    BY <1>5, <1>6
  <2>2. QED
    BY <1>1, <2>1
<1> HIDE DEF f, g
<1>9. SubSeq(f, 1, n) = SubSeq(g, 1, n)
  BY <1>1, <1>6, <1>7, <1>8, SMTT(60)
<1>10. LogQueue!IsPrefix(f, g)
  BY <1>1, <1>7, <1>8, <1>9 DEF LogQueue!IsPrefix
<1>11. QED
  BY <1>2, <1>3, <1>4, <1>10

LEMMA SamePrefix ==
  ASSUME NEW V, NEW q \in Seq(V)
  PROVE  LogQueue!IsPrefix(q, q) /\ LogQueue!IsPrefix(<<>>, q)
<1>1. Len(q) \in Nat /\ Len(q) <= Len(q) /\ Len(<<>>) = 0
  OBVIOUS
<1>2. SubSeq(q, 1, 0) = <<>> /\ SubSeq(<<>>, 1, 0) = <<>>
  OBVIOUS
<1>3. QED
  BY <1>1, <1>2 DEF LogQueue!IsPrefix

\* ml has gone on to the next record; it was blank ...
LEMMA RecordsSkip ==
  ASSUME NEW data, NEW p \in LogSlot, NEW D \in 1 .. LogSlots - 1, NEW n \in 0 .. D,
         LateWritten(data, p, D, n), data[p] = Blank
  PROVE  /\ n \in 0 .. D - 1
         /\ LateWritten(data, LogAt(p, 1), D - 1, n)
         /\ Records(data, LogAt(p, 1), LogAt(p, D)) = Records(data, p, LogAt(p, D))
<1>1. /\ D \in Nat /\ D >= 1 /\ n \in Nat /\ n <= D /\ D < LogSlots /\ LogSlots \in Nat
      /\ D \in 0 .. LogSlots - 1 /\ D - 1 \in 0 .. LogSlots - 1 /\ 0 \in 0 .. LogSlots - 1
      /\ 1 \in 0 .. LogSlots /\ (D - 1) + 1 = D /\ 0 \in 0 .. D - 1
  BY LogSizes
<1>2. LogAt(p, 0) = p
  BY LogAtNone
<1>3. n # D
  BY <1>1, <1>2 DEF LateWritten
<1>4. n \in 0 .. D - 1
  BY <1>1, <1>3
<1>5. LogAt(p, 1) \in LogSlot /\ \A d \in 0 .. LogSlots - 1 : LogAt(LogAt(p, 1), d) = LogAt(p, d + 1)
  BY <1>1, LogAtIs, LogAtNext
<1>6. LateWritten(data, LogAt(p, 1), D - 1, n)
  <2>1. SUFFICES ASSUME NEW d \in 0 .. (D - 1) - 1
                 PROVE  data[LogAt(LogAt(p, 1), d)] # Blank <=> d >= (D - 1) - n
    BY DEF LateWritten
  <2>2. d \in 0 .. LogSlots - 1 /\ d + 1 \in 0 .. D - 1 /\ (d + 1 >= D - n <=> d >= (D - 1) - n)
    BY <1>1
  <2>3. QED
    BY <1>5, <2>2 DEF LateWritten
<1>7. LogAt(LogAt(p, 1), D - 1) = LogAt(p, D)
  BY <1>1, <1>5
<1>8. Records(data, LogAt(p, 1), LogAt(p, D))
        = [k \in 1 .. n |-> data[LogAt(LogAt(p, 1), (D - 1) - n + k - 1)]]
  BY <1>1, <1>4, <1>5, <1>6, <1>7, RecordsAre, SMTT(60)
<1>9. \A k \in 1 .. n : LogAt(LogAt(p, 1), (D - 1) - n + k - 1) = LogAt(p, D - n + k - 1)
  <2> TAKE k \in 1 .. n
  <2>1. PICK d \in 0 .. LogSlots - 1 : d = (D - 1) - n + k - 1 /\ d + 1 = D - n + k - 1
    BY <1>1, <1>4
  <2>2. QED
    BY <1>5, <2>1
<1>10. Records(data, p, LogAt(p, D)) = [k \in 1 .. n |-> data[LogAt(p, D - n + k - 1)]]
  BY <1>1, RecordsAre
<1>11. QED
  BY <1>4, <1>6, <1>8, <1>9, <1>10

LEMMA SameSeq ==
  ASSUME NEW V, NEW f \in Seq(V), NEW g \in Seq(V), Len(f) = Len(g),
         \A k \in 1 .. Len(f) : f[k] = g[k]
  PROVE  f = g
<1>1. f = [k \in 1 .. Len(f) |-> f[k]] /\ g = [k \in 1 .. Len(g) |-> g[k]]
  OBVIOUS
<1>2. QED
  BY <1>1

\* ... or the first that it had not printed.
LEMMA RecordsShrink ==
  ASSUME NEW data \in [LogSlot -> LogRecord \cup {Blank}], NEW p \in LogSlot,
         NEW D \in 1 .. LogSlots - 1, NEW n \in 0 .. D,
         LateWritten(data, p, D, n), data[p] # Blank
  PROVE  LET q == Records(data, p, LogAt(p, D))
         IN  /\ n - 1 \in 0 .. D - 1
             /\ LateWritten(data, LogAt(p, 1), D - 1, n - 1)
             /\ q # <<>>
             /\ Head(q) = data[p]
             /\ Records(data, LogAt(p, 1), LogAt(p, D)) = Tail(q)
             /\ Tail(q) \in Seq(LogRecord \cup {Blank})
<1>1. /\ D \in Nat /\ D >= 1 /\ n \in Nat /\ n <= D /\ D < LogSlots /\ LogSlots \in Nat
      /\ D \in 0 .. LogSlots - 1 /\ D - 1 \in 0 .. LogSlots - 1 /\ 0 \in 0 .. LogSlots - 1
      /\ 1 \in 0 .. LogSlots /\ (D - 1) + 1 = D /\ 0 \in 0 .. D - 1
  BY LogSizes
<1>2. LogAt(p, 0) = p
  BY LogAtNone
<1>3. n = D
  <2>1. 0 >= D - n
    BY <1>1, <1>2 DEF LateWritten
  <2>2. QED
    BY <1>1, <2>1
<1>4. n - 1 \in 0 .. D - 1 /\ n - 1 \in Nat
  BY <1>1, <1>3
<1>5. LogAt(p, 1) \in LogSlot /\ \A d \in 0 .. LogSlots - 1 : LogAt(LogAt(p, 1), d) = LogAt(p, d + 1)
  BY <1>1, LogAtIs, LogAtNext
<1>6. LateWritten(data, LogAt(p, 1), D - 1, n - 1)
  <2>1. SUFFICES ASSUME NEW d \in 0 .. (D - 1) - 1
                 PROVE  data[LogAt(LogAt(p, 1), d)] # Blank <=> d >= (D - 1) - (n - 1)
    BY DEF LateWritten
  <2>2. /\ d \in 0 .. LogSlots - 1 /\ d + 1 \in 0 .. D - 1
        /\ (d + 1 >= D - n <=> d >= (D - 1) - (n - 1))
    BY <1>1, <1>3
  <2>3. QED
    BY <1>5, <2>2 DEF LateWritten
<1>7. LogAt(LogAt(p, 1), D - 1) = LogAt(p, D)
  BY <1>1, <1>5
<1> DEFINE f == [k \in 1 .. n |-> data[LogAt(p, D - n + k - 1)]]
           g == [k \in 1 .. n - 1 |-> data[LogAt(LogAt(p, 1), (D - 1) - (n - 1) + k - 1)]]
<1>8. Records(data, LogAt(p, 1), LogAt(p, D)) = g
  BY <1>1, <1>4, <1>5, <1>6, <1>7, RecordsAre, SMTT(60)
<1>9. Records(data, p, LogAt(p, D)) = f
  BY <1>1, RecordsAre
<1>10. \A k \in 1 .. n : f[k] = data[LogAt(p, k - 1)] /\ LogAt(p, k - 1) \in LogSlot
  <2> TAKE k \in 1 .. n
  <2>1. PICK d \in 0 .. LogSlots : d = D - n + k - 1 /\ d = k - 1
    BY <1>1, <1>3
  <2>2. LogAt(p, d) \in LogSlot
    BY <2>1, LogAtIs
  <2>3. QED
    BY <2>1, <2>2
<1>11. \A k \in 1 .. n - 1 : g[k] = data[LogAt(p, k)]
  <2> TAKE k \in 1 .. n - 1
  <2>1. PICK d \in 0 .. LogSlots - 1 : d = (D - 1) - (n - 1) + k - 1 /\ d + 1 = k
    BY <1>1, <1>3
  <2>2. LogAt(LogAt(p, 1), d) = LogAt(p, k)
    BY <1>5, <2>1
  <2>3. QED
    BY <2>1, <2>2
<1>12. f \in Seq(LogRecord \cup {Blank}) /\ Len(f) = n
  <2>1. \A k \in 1 .. n : f[k] \in LogRecord \cup {Blank}
    BY <1>10
  <2>2. QED
    BY <1>1, <2>1
<1>13. DOMAIN g = 1 .. n - 1
  OBVIOUS
<1> HIDE DEF f
<1>14. f # <<>> /\ Head(f) = data[p]
  <2>1. 1 \in 1 .. n /\ f[1] = data[LogAt(p, 0)]
    BY <1>1, <1>3, <1>10
  <2>2. QED
    BY <1>2, <1>12, <2>1
<1>15. /\ Tail(f) \in Seq(LogRecord \cup {Blank}) /\ Len(Tail(f)) = n - 1
       /\ \A k \in 1 .. n - 1 : Tail(f)[k] = f[k + 1]
  BY <1>1, <1>3, <1>12, <1>14
<1>16. \A k \in 1 .. n - 1 : g[k] = Tail(f)[k]
  <2> TAKE k \in 1 .. n - 1
  <2>1. k + 1 \in 1 .. n /\ (k + 1) - 1 = k
    BY <1>1
  <2>2. f[k + 1] = data[LogAt(p, k)]
    BY <1>10, <2>1
  <2>3. QED
    BY <1>11, <1>15, <2>2
<1>17. g = Tail(f)
  <2>1. \A k \in 1 .. n - 1 : g[k] \in LogRecord \cup {Blank}
    <3> TAKE k \in 1 .. n - 1
    <3>1. k + 1 \in 1 .. n /\ (k + 1) - 1 = k
      BY <1>1
    <3>2. LogAt(p, k) \in LogSlot
      BY <1>10, <3>1
    <3>3. QED
      BY <1>11, <3>2
  <2>2. n - 1 \in Nat /\ g = [k \in 1 .. n - 1 |-> g[k]]
    BY <1>4
  <2> HIDE DEF g
  <2>3. g \in Seq(LogRecord \cup {Blank}) /\ Len(g) = n - 1
    BY <2>1, <2>2
  <2>4. QED
    BY <1>15, <1>16, <2>3, SameSeq
<1>18. QED
  BY <1>4, <1>6, <1>8, <1>9, <1>14, <1>15, <1>17

\* What is written to the slot at the end is not seen yet.
LEMMA RecordsUnseen ==
  ASSUME NEW data \in [LogSlot -> LogRecord \cup {Blank}], NEW p \in LogSlot,
         NEW D \in 0 .. LogSlots - 1, NEW n \in 0 .. D, LateWritten(data, p, D, n),
         NEW e, e = LogAt(p, D), NEW next, \A s \in LogSlot : s # e => next[s] = data[s]
  PROVE  /\ LateWritten(next, p, D, n)
         /\ Records(next, p, e) = Records(data, p, e)
<1>1. /\ D \in Nat /\ n \in Nat /\ n <= D /\ D < LogSlots /\ LogSlots \in Nat
  BY LogSizes
<1>2. ASSUME NEW d \in 0 .. D - 1 PROVE next[LogAt(p, d)] = data[LogAt(p, d)]
  <2>1. d \in LogSlot /\ D \in LogSlot /\ d # D /\ d \in 0 .. LogSlots /\ D \in 0 .. LogSlots
    BY <1>1 DEF LogSlot
  <2>2. LogAt(p, d) # e /\ LogAt(p, d) \in LogSlot
    BY <2>1, LogAtApart, LogAtIs
  <2>3. QED
    BY <2>2
<1>3. LateWritten(next, p, D, n)
  BY <1>2 DEF LateWritten
<1>4. \A k \in 1 .. n : next[LogAt(p, D - n + k - 1)] = data[LogAt(p, D - n + k - 1)]
  <2> TAKE k \in 1 .. n
  <2>1. PICK d \in 0 .. D - 1 : d = D - n + k - 1
    BY <1>1
  <2>2. QED
    BY <1>2, <2>1
<1>5. \A z : LateWritten(z, p, D, n) =>
        Records(z, p, e) = [k \in 1 .. n |-> z[LogAt(p, D - n + k - 1)]]
  BY RecordsAre, ZenonT(60)
<1>6. Records(data, p, e) = [k \in 1 .. n |-> data[LogAt(p, D - n + k - 1)]]
  BY <1>5
<1>7. Records(next, p, e) = [k \in 1 .. n |-> next[LogAt(p, D - n + k - 1)]]
  BY <1>3, <1>5
<1>8. Records(next, p, e) = Records(data, p, e)
  BY <1>4, <1>6, <1>7
<1>9. QED
  BY <1>3, <1>8

\* Nothing is read where all is blank.
LEMMA RecordsBlank ==
  ASSUME NEW data, \A s \in LogSlot : data[s] = Blank,
         NEW p \in LogSlot, NEW D \in 0 .. LogSlots - 1
  PROVE  LateWritten(data, p, D, 0) /\ Records(data, p, LogAt(p, D)) = <<>>
<1>1. D \in Nat /\ LogSlots \in Nat /\ D < LogSlots /\ 0 \in 0 .. D
  BY LogSizes
<1>2. LateWritten(data, p, D, 0)
  <2>1. SUFFICES ASSUME NEW d \in 0 .. D - 1
                 PROVE  data[LogAt(p, d)] # Blank <=> d >= D - 0
    BY DEF LateWritten
  <2>2. d \in 0 .. LogSlots /\ ~ (d >= D - 0)
    BY <1>1
  <2>3. LogAt(p, d) \in LogSlot
    BY <2>2, LogAtIs
  <2>4. QED
    BY <2>2, <2>3
<1>3. Records(data, p, LogAt(p, D)) = [k \in 1 .. 0 |-> data[LogAt(p, D - 0 + k - 1)]]
  BY <1>1, <1>2, RecordsAre
<1>4. QED
  BY <1>2, <1>3

-----------------------------------------------------------------------------
(* One step of the log. *)

\* How far ml is behind.
Behind(D, n) ==
  /\ logpos = LogAt(i, D)
  /\ LateWritten(logdata, i, D, n)
  /\ restarts = 0 => D <= unvisited
  /\ restarts = 1 /\ unvisited < LogBack => D <= unvisited + LogSlots - LogBack

\* Who may be where.
LogCalm ==
  /\ writer # "idle" \/ toLog # <<>> => up
  /\ writer = "back" \/ ~ load.logged => \A s \in LogSlot : logdata[s] = Blank
  /\ ~ load.logged => writer = "idle" /\ toLog = <<>>
  /\ writer = "text" => logdata[logpos] # Blank

LogInv == LogCalm /\ \E D \in 0 .. LogSlots - 1 : \E n \in 0 .. D : Behind(D, n)

LogKeeps == LogInv' /\ (LogQueue!Next \/ UNCHANGED LogQueue!vars)

LEMMA BehindPrimed ==
  ASSUME NEW D \in 0 .. LogSlots - 1, NEW n \in 0 .. D,
         logpos' = LogAt(i', D), LateWritten(logdata', i', D, n),
         restarts' = 0 => D <= unvisited',
         restarts' = 1 /\ unvisited' < LogBack => D <= unvisited' + LogSlots - LogBack
  PROVE  (\E D2 \in 0 .. LogSlots - 1 : \E n2 \in 0 .. D2 : Behind(D2, n2))'
BY DEF Behind, LateWritten, LogAt

\* The same after a step that counts u records and r restarts.
LEMMA BehindVisits ==
  ASSUME NEW D \in 0 .. LogSlots - 1, NEW n \in 0 .. D, i' \in LogSlot,
         logpos' = LogAt(i', D), LateWritten(logdata', i', D, n),
         NEW u \in Nat, NEW r \in Nat, Visits(u, r),
         r = 0 => D <= u,
         r = 1 /\ u < LogBack => D <= u + LogSlots - LogBack
  PROVE  (\E D2 \in 0 .. LogSlots - 1 : \E n2 \in 0 .. D2 : Behind(D2, n2))'
<1>1. LogSlots \in Nat /\ LogBack \in Nat /\ LogBack < LogSlots /\ D \in Nat /\ D < LogSlots
  BY LogSizes
<1>2. CASE i' = logpos'
  <2>1. D = 0
    <3>1. D \in LogSlot /\ 0 \in LogSlot /\ LogAt(i', D) = LogAt(i', 0)
      BY <1>1, <1>2, LogAtNone, LogSizes
    <3>2. QED
      BY <3>1, LogAtApart
  <2>2. unvisited' = 0 /\ restarts' = 0
    BY <1>2 DEF Visits
  <2>3. QED
    BY <2>1, <2>2, BehindPrimed
<1>3. CASE i' # logpos'
  <2>1. /\ u < LogSlots => unvisited' = u
        /\ ~ (u < LogSlots) => unvisited' = LogSlots
        /\ r < 2 => restarts' = r
        /\ ~ (r < 2) => restarts' = 2
    BY <1>3 DEF Visits
  <2>2. restarts' = 0 => D <= unvisited'
    BY <1>1, <2>1
  <2>3. restarts' = 1 /\ unvisited' < LogBack => D <= unvisited' + LogSlots - LogBack
    BY <1>1, <2>1
  <2>4. QED
    BY <2>2, <2>3, BehindPrimed
<1>4. QED
  BY <1>2, <1>3

\* The ring of the log is not touched, nor ml.
LEMMA LogStands ==
  ASSUME LogInv, UNCHANGED <<logdata, logpos, i, shown, visits>>
  PROVE  /\ (\E D \in 0 .. LogSlots - 1 : \E n \in 0 .. D : Behind(D, n))'
         /\ Unprinted' = Unprinted /\ shown' = shown
<1>1. /\ logdata' = logdata /\ logpos' = logpos /\ i' = i /\ shown' = shown
      /\ unvisited' = unvisited /\ restarts' = restarts
  BY DEF visits
<1>2. PICK D \in 0 .. LogSlots - 1 : \E n \in 0 .. D : Behind(D, n)
  BY DEF LogInv
<1>3. PICK n \in 0 .. D : Behind(D, n)
  BY <1>2
<1>4. /\ logpos' = LogAt(i', D) /\ LateWritten(logdata', i', D, n)
      /\ restarts' = 0 => D <= unvisited'
      /\ restarts' = 1 /\ unvisited' < LogBack => D <= unvisited' + LogSlots - LogBack
  BY <1>1, <1>3 DEF Behind
<1>5. QED
  BY <1>1, <1>4, BehindPrimed DEF Unprinted

LEMMA LogInitInv ==
  ASSUME Init
  PROVE  LogInv /\ Unprinted = <<>>
<1>1. /\ logdata = [s \in LogSlot |-> Blank] /\ logpos = 0 /\ toLog = <<>> /\ writer = "idle"
      /\ i = 1 /\ unvisited = 0 /\ restarts = 2 /\ up = FALSE
  BY DEF Init, LogInit
<1>2. LogCalm
  BY <1>1 DEF LogCalm
<1>3. \A s \in LogSlot : logdata[s] = Blank
  BY <1>1
<1>4. PICK D \in 0 .. LogSlots - 1 : D = LogSlots - 1
  BY LogSizes
<1>5. 1 \in LogSlot /\ 0 \in 0 .. D
  BY <1>4, LogSizes
<1>6. LogAt(1, D) = 0
  <2>1. D \in 0 .. LogSlots /\ 1 + D >= LogSlots /\ 1 + D - LogSlots = 0
    BY <1>4, LogSizes
  <2>2. QED
    BY <1>5, <2>1, LogAtIs
<1>7. LateWritten(logdata, i, D, 0) /\ Records(logdata, i, logpos) = <<>>
  BY <1>1, <1>3, <1>5, <1>6, RecordsBlank
<1>8. Behind(D, 0)
  BY <1>1, <1>6, <1>7 DEF Behind
<1>9. QED
  BY <1>2, <1>5, <1>7, <1>8 DEF LogInv, Unprinted

LEMMA StartLogs ==
  ASSUME CoreInv, LogInv, Start
  PROVE  LogKeeps
<1>1. /\ ~ up /\ up' /\ load' = load /\ logdata' = logdata /\ logpos' = logpos
      /\ load.logged => writer' = "clear"
      /\ ~ load.logged => writer' = "idle" /\ toLog' = <<>>
      /\ UNCHANGED <<logdata, logpos, i, shown, visits>>
  BY DEF Start, WillLog, visits
<1>2. writer = "idle" /\ load.logged \in BOOLEAN
  BY <1>1, LoadTypes DEF LogInv, LogCalm, CoreInv, TypeOK
<1>3. LogCalm'
  BY <1>1, <1>2 DEF LogInv, LogCalm, LogSlot
<1>4. /\ (\E D \in 0 .. LogSlots - 1 : \E n \in 0 .. D : Behind(D, n))'
      /\ Unprinted' = Unprinted /\ shown' = shown
  BY <1>1, LogStands
<1>5. LogInv'
  BY <1>3, <1>4 DEF LogInv
<1>6. CASE load.logged
  <2>1. ~ (up /\ writer \notin {"clear", "back"}) /\ ~ (up' /\ writer' \notin {"clear", "back"})
    BY <1>1, <1>6
  <2>2. QED
    BY <1>4, <1>5, <2>1 DEF LogKeeps, LogQueue!vars
<1>7. CASE ~ load.logged
  <2>1. Unprinted = <<>>
    <3>1. \A s \in LogSlot : logdata[s] = Blank
      BY <1>7 DEF LogInv, LogCalm
    <3>2. PICK D \in 0 .. LogSlots - 1 : logpos = LogAt(i, D)
      BY DEF LogInv, Behind
    <3>3. i \in LogSlot
      BY DEF CoreInv, TypeOK, LogTypeOK
    <3>4. QED
      BY <3>1, <3>2, <3>3, RecordsBlank DEF Unprinted
  <2>2. ~ (up /\ writer \notin {"clear", "back"}) /\ (up' /\ writer' \notin {"clear", "back"})
    BY <1>1, <1>2, <1>7
  <2>3. LogQueue!Starts
    BY <1>4, <2>1, <2>2 DEF LogQueue!Starts
  <2>4. QED
    BY <1>5, <2>3 DEF LogKeeps, LogQueue!Next
<1>8. QED
  BY <1>2, <1>6, <1>7

LEMMA UnprintedIsQueue ==
  ASSUME LogTypeOK, LogInv
  PROVE  Unprinted \in Seq(LogRecord \cup {Blank})
<1>1. PICK D \in 0 .. LogSlots - 1 : \E n \in 0 .. D : Behind(D, n)
  BY DEF LogInv
<1>2. PICK n \in 0 .. D : Behind(D, n)
  BY <1>1
<1>3. i \in LogSlot /\ logdata \in [LogSlot -> LogRecord \cup {Blank}]
  BY DEF LogTypeOK
<1>4. Unprinted = [k \in 1 .. n |-> logdata[LogAt(i, D - n + k - 1)]]
  BY <1>2, <1>3, RecordsAre DEF Behind, Unprinted
<1>5. \A k \in 1 .. n : LogAt(i, D - n + k - 1) \in LogSlot
  <2> TAKE k \in 1 .. n
  <2>1. PICK d \in 0 .. LogSlots : d = D - n + k - 1
    BY LogSizes
  <2>2. QED
    BY <1>3, <2>1, LogAtIs
<1>6. n \in Nat
  BY LogSizes
<1> DEFINE f == [k \in 1 .. n |-> logdata[LogAt(i, D - n + k - 1)]]
<1>7. f \in [1 .. n -> LogRecord \cup {Blank}]
  BY <1>3, <1>5
<1> HIDE DEF f
<1>8. f \in Seq(LogRecord \cup {Blank})
  BY <1>6, <1>7
<1>9. QED
  BY <1>4, <1>8 DEF f

LEMMA KillLogs ==
  ASSUME CoreInv, LogInv, Kill
  PROVE  LogKeeps
<1>1. /\ up' = FALSE /\ load' = load /\ logdata' = logdata /\ logpos' = logpos
      /\ writer' = "idle" /\ toLog' = <<>>
      /\ UNCHANGED <<logdata, logpos, i, shown, visits>>
  BY DEF Kill
<1>2. LogCalm'
  BY <1>1 DEF LogInv, LogCalm, LogSlot
<1>3. /\ (\E D \in 0 .. LogSlots - 1 : \E n \in 0 .. D : Behind(D, n))'
      /\ Unprinted' = Unprinted /\ shown' = shown
  BY <1>1, LogStands
<1>4. LogQueue!IsPrefix(Unprinted, Unprinted)
  BY UnprintedIsQueue, SamePrefix DEF CoreInv, TypeOK
<1>5. LogQueue!Loses
  BY <1>1, <1>3, <1>4 DEF LogQueue!Loses
<1>6. QED
  BY <1>2, <1>3, <1>5 DEF LogKeeps, LogInv, LogQueue!Next

\* The dispatcher goes on; what a handler logs is put down for log().
LEMMA LoopLogs ==
  ASSUME LogInv, load' = load, up, up' = up, writer = "idle",
         toLog' # <<>> => load.logged,
         UNCHANGED <<logdata, logpos, writer, i, shown, visits>>
  PROVE  LogKeeps
<1>1. /\ logdata' = logdata /\ logpos' = logpos /\ writer' = writer
      /\ UNCHANGED <<logdata, logpos, i, shown, visits>>
  BY DEF visits
<1>2. LogCalm'
  BY <1>1 DEF LogInv, LogCalm, LogSlot
<1>3. /\ (\E D \in 0 .. LogSlots - 1 : \E n \in 0 .. D : Behind(D, n))'
      /\ Unprinted' = Unprinted /\ shown' = shown
  BY <1>1, LogStands
<1>4. QED
  BY <1>1, <1>2, <1>3 DEF LogKeeps, LogInv, LogQueue!vars

LEMMA LogTextLogs ==
  ASSUME LogTypeOK, LogInv, load' = load, up' = up, load.logged \in BOOLEAN, LogText
  PROVE  LogKeeps
<1>1. /\ writer = "idle" /\ toLog # <<>> /\ writer' = "text" /\ logpos' = logpos /\ toLog' = toLog
      /\ i' = i /\ shown' = shown /\ unvisited' = unvisited /\ restarts' = restarts
      /\ logdata' = [logdata EXCEPT ![logpos] = Head(toLog)]
  BY DEF LogText, visits
<1>2. Head(toLog) # Blank
  <2>1. toLog \in Seq(LogRecord) /\ Blank \notin LogRecord
    BY LogAssumption DEF LogTypeOK
  <2>2. Head(toLog) \in LogRecord
    BY <1>1, <2>1
  <2>3. QED
    BY <2>1, <2>2
<1>3. logpos \in LogSlot /\ i \in LogSlot /\ logdata \in [LogSlot -> LogRecord \cup {Blank}]
  BY DEF LogTypeOK
<1>4. /\ logdata'[logpos'] # Blank
      /\ \A s \in LogSlot : s # logpos => logdata'[s] = logdata[s]
  BY <1>1, <1>2, <1>3
<1>5. up /\ load.logged
  BY <1>1 DEF LogInv, LogCalm
<1>6. LogCalm'
  BY <1>1, <1>4, <1>5 DEF LogCalm
<1>7. PICK D \in 0 .. LogSlots - 1 : \E n \in 0 .. D : Behind(D, n)
  BY DEF LogInv
<1>8. PICK n \in 0 .. D : Behind(D, n)
  BY <1>7
<1>9. /\ LateWritten(logdata', i, D, n)
      /\ Records(logdata', i, logpos) = Records(logdata, i, logpos)
  BY <1>3, <1>4, <1>8, RecordsUnseen DEF Behind
<1>10. (\E D2 \in 0 .. LogSlots - 1 : \E n2 \in 0 .. D2 : Behind(D2, n2))'
  BY <1>1, <1>8, <1>9, BehindPrimed DEF Behind
<1>11. Unprinted' = Unprinted
  BY <1>1, <1>9 DEF Unprinted
<1>12. QED
  BY <1>1, <1>6, <1>10, <1>11 DEF LogKeeps, LogInv, LogQueue!vars

LEMMA LogIndexLogs ==
  ASSUME LogTypeOK, LogInv, load' = load, up' = up, load.logged \in BOOLEAN, LogIndex
  PROVE  LogKeeps
<1>1. /\ writer = "text" /\ writer' = "idle" /\ logdata' = logdata
      /\ i' = i /\ shown' = shown /\ Visits(unvisited + 1, restarts)
      /\ logpos' = LogAt(logpos, 1)
  BY DEF LogIndex, LogAt
<1>2. up /\ load.logged /\ logdata[logpos] # Blank
  BY <1>1 DEF LogInv, LogCalm
<1>3. /\ logpos \in LogSlot /\ i \in LogSlot /\ logdata \in [LogSlot -> LogRecord \cup {Blank}]
      /\ unvisited \in Nat /\ unvisited + 1 \in Nat /\ restarts \in 0 .. 2 /\ restarts \in Nat
  BY LogSizes DEF LogTypeOK
<1>4. LogCalm'
  BY <1>1, <1>2 DEF LogCalm
<1>5. PICK D \in 0 .. LogSlots - 1 : \E n \in 0 .. D : Behind(D, n)
  BY DEF LogInv
<1>6. PICK n \in 0 .. D : Behind(D, n)
  BY <1>5
<1>7. /\ LogSlots \in Nat /\ LogSlots >= 2 /\ LogBack \in Nat /\ D \in Nat /\ D < LogSlots
      /\ LogBack < LogSlots /\ n \in Nat /\ n <= D
  BY LogSizes
<1>8. LogAt(logpos, 1) = LogAt(i, D + 1)
  BY <1>3, <1>6, LogAtNext DEF Behind
\* There is room for the record ...
<1>9. CASE D + 1 < LogSlots
  <2>1. D \in 0 .. LogSlots - 2
    BY <1>7, <1>9
  <2>2. /\ LateWritten(logdata, i, D + 1, n + 1)
        /\ LogQueue!IsPrefix(Records(logdata, i, logpos), Records(logdata, i, LogAt(i, D + 1)))
    <3>1. logpos = LogAt(i, D) /\ LateWritten(logdata, i, D, n)
      BY <1>6 DEF Behind
    <3>2. QED
      BY <1>2, <1>3, <2>1, <3>1, RecordsGrow
  <2>3. (\E D2 \in 0 .. LogSlots - 1 : \E n2 \in 0 .. D2 : Behind(D2, n2))'
    <3>1. PICK E \in 0 .. LogSlots - 1 : E = D + 1
      BY <1>7, <1>9
    <3>2. PICK m \in 0 .. E : m = n + 1
      BY <1>7, <3>1
    <3>3. i' \in LogSlot /\ logpos' = LogAt(i', E) /\ LateWritten(logdata', i', E, m)
      BY <1>1, <1>3, <1>8, <2>2, <3>1, <3>2
    <3>4. restarts = 0 => E <= unvisited + 1
      BY <1>3, <1>6, <1>7, <3>1 DEF Behind
    <3>5. restarts = 1 /\ unvisited + 1 < LogBack => E <= (unvisited + 1) + LogSlots - LogBack
      BY <1>3, <1>6, <1>7, <3>1 DEF Behind
    <3>6. QED
      BY <1>1, <1>3, <3>3, <3>4, <3>5, BehindVisits
  <2>4. LogQueue!IsPrefix(Unprinted, Unprinted')
    BY <1>1, <1>8, <2>2 DEF Unprinted
  <2>5. LogQueue!Puts
    BY <1>1, <1>2, <2>4 DEF LogQueue!Puts
  <2>6. QED
    BY <1>4, <2>3, <2>5 DEF LogKeeps, LogInv, LogQueue!Next
\* ... or log() comes round to the place of ml.
<1>10. CASE D + 1 >= LogSlots
  <2>1. D + 1 = LogSlots /\ LogSlots \in 0 .. LogSlots /\ i \in Nat
    BY <1>3, <1>7, <1>10, LogSizes
  <2>2. logpos' = i
    <3>1. LogAt(i, LogSlots) = i + LogSlots - LogSlots
      <4>1. i + LogSlots >= LogSlots
        BY <1>7, <2>1
      <4>2. QED
        BY <1>3, <2>1, <4>1, LogAtIs
    <3>2. QED
      BY <1>1, <1>7, <1>8, <2>1, <3>1
  <2>3. PICK E \in 0 .. LogSlots - 1 : E = 0
    BY <1>7
  <2>4. PICK m \in 0 .. E : m = 0
    BY <2>3
  <2>5. LogAt(i, E) = i
    BY <1>3, <2>3, LogAtNone
  <2>6. LateWritten(logdata, i, E, m)
    <3>1. 0 .. E - 1 = {}
      BY <2>3
    <3>2. QED
      BY <3>1 DEF LateWritten
  <2>7. (\E D2 \in 0 .. LogSlots - 1 : \E n2 \in 0 .. D2 : Behind(D2, n2))'
    <3>1. unvisited' = 0 /\ restarts' = 0
      BY <1>1, <2>2 DEF Visits
    <3>2. logpos' = LogAt(i', E) /\ LateWritten(logdata', i', E, m)
      BY <1>1, <2>2, <2>5, <2>6
    <3>3. QED
      BY <2>3, <3>1, <3>2, BehindPrimed
  <2>8. Unprinted' = <<>>
    <3>1. Records(logdata, i, LogAt(i, E)) = [k \in 1 .. m |-> logdata[LogAt(i, E - m + k - 1)]]
      BY <1>3, <2>6, RecordsAre, SMTT(60)
    <3>2. Records(logdata, i, i) = <<>>
      BY <2>4, <2>5, <3>1
    <3>3. QED
      BY <1>1, <2>2, <3>2 DEF Unprinted
  <2>9. Late
    BY <1>3, <1>6, <1>7, <2>1 DEF Late, Behind
  <2>10. LogQueue!Overflows
    BY <1>1, <2>8, <2>9 DEF LogQueue!Overflows
  <2>11. QED
    BY <1>4, <2>7, <2>10 DEF LogKeeps, LogInv, LogQueue!Next
<1>11. QED
  BY <1>7, <1>9, <1>10

LEMMA LogClearLogs ==
  ASSUME LogTypeOK, LogInv, load' = load, up' = up, load.logged \in BOOLEAN, LogClear
  PROVE  LogKeeps
<1>1. /\ writer = "clear" /\ writer' = "back" /\ logdata' = [s \in LogSlot |-> Blank]
      /\ logpos' = logpos /\ toLog' = toLog /\ i' = i /\ shown' = shown
      /\ unvisited' = unvisited /\ restarts' = restarts
  BY DEF LogClear, visits
<1>2. up /\ load.logged
  BY <1>1 DEF LogInv, LogCalm
<1>3. \A s \in LogSlot : logdata'[s] = Blank
  BY <1>1
<1>4. LogCalm'
  BY <1>1, <1>2, <1>3 DEF LogCalm, LogSlot
<1>5. PICK D \in 0 .. LogSlots - 1 : \E n \in 0 .. D : Behind(D, n)
  BY DEF LogInv
<1>6. i \in LogSlot /\ 0 \in 0 .. D
  BY LogSizes DEF LogTypeOK
<1>7. LateWritten(logdata', i, D, 0) /\ Records(logdata', i, LogAt(i, D)) = <<>>
  BY <1>3, <1>6, RecordsBlank
<1>8. /\ logpos = LogAt(i, D)
      /\ restarts = 0 => D <= unvisited
      /\ restarts = 1 /\ unvisited < LogBack => D <= unvisited + LogSlots - LogBack
  BY <1>5 DEF Behind
<1>9. (\E D2 \in 0 .. LogSlots - 1 : \E n2 \in 0 .. D2 : Behind(D2, n2))'
  BY <1>1, <1>2, <1>6, <1>7, <1>8, BehindPrimed
<1>10. Unprinted' = <<>>
  BY <1>1, <1>7, <1>8 DEF Unprinted
<1>11. LogQueue!IsPrefix(<<>>, Unprinted)
  BY UnprintedIsQueue, SamePrefix
<1>12. LogQueue!Loses
  BY <1>1, <1>10, <1>11 DEF LogQueue!Loses
<1>13. QED
  BY <1>4, <1>9, <1>12 DEF LogKeeps, LogInv, LogQueue!Next

LEMMA LogStepBackLogs ==
  ASSUME LogTypeOK, LogInv, load' = load, up' = up, load.logged \in BOOLEAN, LogStepBack
  PROVE  LogKeeps
<1>1. /\ writer = "back" /\ writer' = "idle" /\ logdata' = logdata /\ toLog' = toLog /\ i' = i
      /\ shown' = shown /\ Visits(unvisited, restarts + 1)
      /\ logpos' = (logpos + LogSlots - LogBack) % LogSlots
  BY DEF LogStepBack
<1>2. /\ up /\ load.logged
      /\ \A s \in LogSlot : logdata[s] = Blank
  BY <1>1 DEF LogInv, LogCalm
<1>3. LogCalm'
  BY <1>1, <1>2 DEF LogCalm, LogSlot
<1>4. PICK D \in 0 .. LogSlots - 1 : \E n \in 0 .. D : Behind(D, n)
  BY DEF LogInv
<1>5. /\ i \in LogSlot /\ unvisited \in Nat /\ D \in Nat /\ D < LogSlots
      /\ restarts \in 0 .. 2 /\ restarts + 1 \in Nat /\ logpos = LogAt(i, D)
      /\ restarts = 0 => D <= unvisited
  BY <1>4, LogSizes DEF LogTypeOK, Behind
<1>6. PICK e \in 0 .. LogSlots - 1 :
        /\ e = D - LogBack \/ e = D - LogBack + LogSlots
        /\ D <= unvisited => e <= unvisited + LogSlots - LogBack
  <2>1. CASE D >= LogBack
    <3>1. /\ D - LogBack \in 0 .. LogSlots - 1
          /\ D <= unvisited => D - LogBack <= unvisited + LogSlots - LogBack
      BY <1>5, <2>1, LogSizes
    <3>2. QED
      BY <3>1
  <2>2. CASE D < LogBack
    <3>1. /\ D - LogBack + LogSlots \in 0 .. LogSlots - 1
          /\ D <= unvisited => D - LogBack + LogSlots <= unvisited + LogSlots - LogBack
      BY <1>5, <2>2, LogSizes
    <3>2. QED
      BY <3>1
  <2>3. QED
    BY <1>5, <2>1, <2>2, LogSizes
<1>7. logpos' = LogAt(i, e)
  BY <1>1, <1>5, <1>6, LogAtBack
<1>8. LateWritten(logdata, i, e, 0) /\ Records(logdata, i, LogAt(i, e)) = <<>>
  BY <1>2, <1>5, RecordsBlank
<1>9. 0 \in 0 .. e
  OBVIOUS
<1>10. (\E D2 \in 0 .. LogSlots - 1 : \E n2 \in 0 .. D2 : Behind(D2, n2))'
  <2>1. /\ restarts + 1 = 0 => e <= unvisited
        /\ restarts + 1 = 1 /\ unvisited < LogBack => e <= unvisited + LogSlots - LogBack
    BY <1>5, <1>6
  <2>2. i' \in LogSlot /\ logpos' = LogAt(i', e) /\ LateWritten(logdata', i', e, 0)
    BY <1>1, <1>5, <1>7, <1>8
  <2>3. QED
    BY <1>1, <1>5, <1>9, <2>1, <2>2, BehindVisits
<1>11. Unprinted' = <<>>
  BY <1>1, <1>7, <1>8 DEF Unprinted
<1>12. LogQueue!Starts
  BY <1>1, <1>2, <1>11 DEF LogQueue!Starts
<1>13. QED
  BY <1>3, <1>10, <1>12 DEF LogKeeps, LogInv, LogQueue!Next

LEMMA MlPrintsLogs ==
  ASSUME LogTypeOK, LogInv, load' = load, up' = up, load.logged, MlPrints
  PROVE  LogKeeps
<1>1. /\ i # logpos /\ logdata' = logdata /\ logpos' = logpos /\ toLog' = toLog /\ writer' = writer
      /\ i' = LogAt(i, 1)
      /\ logdata[i] = Blank => shown' = shown
      /\ logdata[i] # Blank => shown' = logdata[i]
      /\ Visits(unvisited, restarts)
  BY DEF MlPrints, LogAt
<1>2. i \in LogSlot /\ logpos \in LogSlot /\ logdata \in [LogSlot -> LogRecord \cup {Blank}]
      /\ unvisited \in Nat /\ restarts \in Nat /\ i' \in LogSlot
  <2>1. i \in LogSlot /\ 1 \in 0 .. LogSlots
    BY LogSizes DEF LogTypeOK
  <2>2. LogAt(i, 1) \in LogSlot
    BY <2>1, LogAtIs
  <2>3. QED
    BY <1>1, <2>1, <2>2, LogSizes DEF LogTypeOK
<1>3. LogCalm'
  BY <1>1 DEF LogInv, LogCalm, LogSlot
<1>4. PICK D \in 0 .. LogSlots - 1 : \E n \in 0 .. D : Behind(D, n)
  BY DEF LogInv
<1>5. PICK n \in 0 .. D : Behind(D, n)
  BY <1>4
<1>6. logpos = LogAt(i, D) /\ LateWritten(logdata, i, D, n)
  BY <1>5 DEF Behind
<1>7. D \in 1 .. LogSlots - 1
  <2>1. D # 0
    BY <1>1, <1>2, <1>6, LogAtNone
  <2>2. QED
    BY <2>1, LogSizes
<1>8. /\ D \in Nat /\ LogSlots \in Nat /\ D >= 1 /\ LogBack \in Nat /\ LogBack < LogSlots
  BY <1>7, LogSizes
<1>9. PICK E \in 0 .. LogSlots - 1 : E = D - 1 /\ E + 1 = D
  BY <1>7, <1>8
<1>10. logpos' = LogAt(i', E)
  BY <1>1, <1>2, <1>6, <1>9, LogAtNext
<1>12. /\ restarts = 0 => E <= unvisited
       /\ restarts = 1 /\ unvisited < LogBack => E <= unvisited + LogSlots - LogBack
  BY <1>2, <1>5, <1>8, <1>9 DEF Behind
<1>13. CASE logdata[i] = Blank
  <2>1. /\ n \in 0 .. E
        /\ LateWritten(logdata, LogAt(i, 1), E, n)
        /\ Records(logdata, LogAt(i, 1), logpos) = Records(logdata, i, logpos)
    BY <1>2, <1>6, <1>7, <1>9, <1>13, RecordsSkip
  <2>2. LogInv'
    BY <1>1, <1>2, <1>3, <1>10, <1>12, <2>1, BehindVisits DEF LogInv
  <2>3. Unprinted' = Unprinted
    BY <1>1, <2>1 DEF Unprinted
  <2>4. QED
    BY <1>1, <1>13, <2>2, <2>3 DEF LogKeeps, LogQueue!vars
<1>14. CASE logdata[i] # Blank
  <2> DEFINE q == Records(logdata, i, logpos)
  <2>1. /\ n - 1 \in 0 .. E
        /\ LateWritten(logdata, LogAt(i, 1), E, n - 1)
        /\ q # <<>>
        /\ Head(q) = logdata[i]
        /\ Records(logdata, LogAt(i, 1), logpos) = Tail(q)
        /\ Tail(q) \in Seq(LogRecord \cup {Blank})
    BY <1>2, <1>6, <1>7, <1>9, <1>14, RecordsShrink
  <2>2. LogInv'
    BY <1>1, <1>2, <1>3, <1>10, <1>12, <2>1, BehindVisits DEF LogInv
  <2>3. Unprinted = q /\ Unprinted' = Tail(q)
    BY <1>1, <2>1 DEF Unprinted
  <2>4. LogQueue!IsPrefix(Tail(q), Tail(q))
    BY <2>1, SamePrefix
  <2> HIDE DEF q
  <2>5. LogQueue!Takes
    BY <1>1, <1>14, <2>1, <2>3, <2>4 DEF LogQueue!Takes
  <2>6. QED
    BY <2>2, <2>5 DEF LogKeeps, LogQueue!Next
<1>15. QED
  BY <1>13, <1>14

LEMMA LogSteps ==
  ASSUME RoomForTick, CoreInv, LogInv, [Next]_coreVars
  PROVE  LogKeeps
<1>1. LogTypeOK /\ LogsOK /\ load.logged \in BOOLEAN
  BY LoadTypes DEF CoreInv, TypeOK
<1>2. CASE Start
  BY <1>2, StartLogs
<1>3. CASE Kill
  BY <1>3, KillLogs
<1>4. CASE Loop
  <2>1. writer = "idle" /\ toLog = <<>>
    BY <1>4 DEF Loop
  <2>2. CASE Tick /\ UNCHANGED logVars
    <3>1. up /\ up' = up /\ load' = load /\ toLog' = toLog
          /\ UNCHANGED <<logdata, logpos, writer, i, shown, visits>>
      BY <2>2 DEF Tick, logVars
    <3>2. QED
      BY <2>1, <3>1, LoopLogs
  <2>3. ASSUME up, NEW does \in Event(msgqueue[execmsg]), Handles(does),
               WillLog(does.logs),
               UNCHANGED <<logdata, logpos, writer, i, shown, visits>>
        PROVE  LogKeeps
    <3>1. up' = up /\ load' = load /\ (toLog' # <<>> => load.logged)
      BY <2>3 DEF Handles, WillLog
    <3>2. QED
      BY <2>1, <2>3, <3>1, LoopLogs
  <2>4. QED
    BY <1>4, <2>2, <2>3 DEF Loop
<1>5. CASE Logs /\ UNCHANGED dispatcherVars
  <2>1. load' = load /\ up' = up
    BY <1>5, SameQueue
  <2>2. QED
    BY <1>1, <1>5, <2>1, LogTextLogs, LogIndexLogs, LogClearLogs, LogStepBackLogs DEF Logs
<1>6. CASE load.logged /\ MlPrints /\ UNCHANGED dispatcherVars
  <2>1. load' = load /\ up' = up
    BY <1>6, SameQueue
  <2>2. QED
    BY <1>1, <1>6, <2>1, MlPrintsLogs
<1>7. CASE UNCHANGED coreVars
  <2>1. /\ load' = load /\ up' = up
        /\ toLog' = toLog /\ writer' = writer /\ logdata' = logdata /\ logpos' = logpos
        /\ UNCHANGED <<logdata, logpos, i, shown, visits>>
    BY <1>7, SameQueue DEF coreVars, logVars, visits
  <2>2. LogCalm'
    BY <2>1 DEF LogInv, LogCalm, LogSlot
  <2>3. /\ (\E D \in 0 .. LogSlots - 1 : \E n \in 0 .. D : Behind(D, n))'
        /\ Unprinted' = Unprinted /\ shown' = shown
    BY <2>1, LogStands
  <2>4. QED
    BY <2>1, <2>2, <2>3 DEF LogKeeps, LogInv, LogQueue!vars
<1>8. CASE LoopHangs
  <2>1. /\ writer = "idle" /\ up /\ up' = up /\ load' = load /\ (toLog' # <<>> => load.logged)
        /\ UNCHANGED <<logdata, logpos, writer, i, shown, visits>>
    BY <1>8 DEF LoopHangs, Hangs, WillLog
  <2>2. QED
    BY <2>1, LoopLogs
<1>9. QED
  BY <1>2, <1>3, <1>4, <1>5, <1>6, <1>7, <1>8 DEF Next

-----------------------------------------------------------------------------
(* The theorems. *)

\* If the queue and the pool have room for what one tick brings, every
\* variable of the dispatcher and of the log keeps its type: no handler is
\* given a message that it does not know, none posts to a process that is not
\* there.
THEOREM CoreTypesCorrect ==
  ASSUME RoomForTick
  PROVE  Spec => []TypeOK
<1>1. CoreInv => TypeOK
  BY DEF CoreInv
<1>2. QED
  BY CoreInvariant, <1>1, PTL

LEMMA AgesApart ==
  ASSUME CoreInv
  PROVE  BuffersApart
<1>1. /\ load \in Loads /\ memalloc \in 0 .. SS7BufSize - 1
      /\ Waiting \in Seq(Message) /\ Len(Waiting) \in Nat
  BY InvParts
<1>2. PICK r \in Nat, p \in Nat, c \in Nat : Queue(Waiting, memalloc, load, r, p, c)
  BY InvParts
<1>3. DOMAIN Waiting = 1 .. Len(Waiting)
  BY <1>1
<1>4. ASSUME NEW k \in 1 .. Len(Waiting), Waiting[k].buf # NoBuf
      PROVE  /\ Waiting[k].buf # memalloc
             /\ \A n \in 1 .. Len(Waiting) : n # k => Waiting[n].buf # Waiting[k].buf
  <2>1. Safe(Waiting[k], memalloc, load, r, c, k)
    BY <1>2, Zenon DEF Queue
  <2>2. PICK a \in 1 .. SS7BufSize - 1 : Aged(Waiting[k].buf, memalloc, a)
    BY <1>4, <2>1 DEF Safe
  <2>3. Waiting[k].buf \in 0 .. SS7BufSize
    <3>1. Waiting[k] \in Message
      BY <1>1
    <3>2. QED
      BY <3>1 DEF Message
  <2>4. Waiting[k].buf # memalloc
    BY <1>1, <2>2, <2>3, Sizes DEF Aged
  <2>5. ASSUME NEW n \in 1 .. Len(Waiting), n # k PROVE Waiting[n].buf # Waiting[k].buf
    <3>1. Waiting[k].buf # Waiting[n].buf
      BY <1>2, <1>4, <2>5, ZenonT(60) DEF Queue
    <3>2. QED
      BY <3>1
  <2>6. QED
    BY <2>4, <2>5
<1>5. QED
  BY <1>3, <1>4 DEF BuffersApart

\* Under the same condition mem() never hands out the buffer of a message that
\* still waits in the ring, and no two waiting messages share one, although
\* buffers are never given back.
THEOREM BuffersStayApart ==
  ASSUME RoomForTick
  PROVE  Spec => []BuffersApart
<1>1. CoreInv => BuffersApart
  BY AgesApart
<1>2. QED
  BY CoreInvariant, <1>1, PTL

\* Under the same condition the ring of messages is a queue: post() never
\* comes round to a message that has not been handled, and each is handled
\* once, in the order of posting.
THEOREM CoreImplementsMailbox ==
  ASSUME RoomForTick
  PROVE  Spec => ImplementsMailbox
<1>1. Init => Mailbox!Init
  <2> SUFFICES ASSUME Init PROVE Waiting = <<>>
    BY DEF Mailbox!Init
  <2>1. CoreInv /\ ~ up
    BY CoreInit DEF Init
  <2>2. QED
    BY <2>1 DEF CoreInv
<1>2. CoreInv /\ [Next]_coreVars => [Mailbox!Next]_(Mailbox!vars)
  BY CoreStep DEF Keeps
<1>3. QED
  BY CoreInvariant, <1>1, <1>2, PTL DEF Spec, ImplementsMailbox, Mailbox!Spec

\* If the dispatcher has room for its ticks, the log is a queue between the
\* gateway and ml that loses nothing unless ml is late, that is, unless LogSlots
\* records have been logged since ml was at *logpos, or LogBack records with a
\* restart among them, or two restarts: ml prints each record of a gateway once,
\* in the order of logging, and none that log_shmem() has cleared.
THEOREM CoreImplementsLog ==
  ASSUME RoomForTick
  PROVE  Spec => ImplementsLog
<1>1. Init => LogInv
  BY LogInitInv
<1>2. CoreInv /\ LogInv /\ [Next]_coreVars => LogInv'
  BY LogSteps DEF LogKeeps
<1>3. Init => LogQueue!Init
  BY LogInitInv DEF LogQueue!Init
<1>4. CoreInv /\ LogInv /\ [Next]_coreVars => [LogQueue!Next]_(LogQueue!vars)
  BY LogSteps DEF LogKeeps
<1>5. QED
  BY CoreInvariant, <1>1, <1>2, <1>3, <1>4, PTL DEF Spec, ImplementsLog, LogQueue!Spec
=============================================================================
