------------------------ MODULE ConfigurationProofs ------------------------
(***************************************************************************)
(* Proofs about Configuration, for any timeslots and any limits.           *)
(***************************************************************************)
EXTENDS Configuration, FiniteSetTheorems, WellFoundedInduction, TLAPS

LEMMA Constants ==
  /\ IsFiniteSet(TS) /\ SecondPcm \subseteq TS
  /\ None \notin Gateway /\ None \notin TS
  /\ Overlaps \in Nat
  /\ AllowedSgws \in Nat /\ AllowedSgws >= 1
  /\ AllowedLinks \in Nat /\ LinksetMax \in Nat
BY ConfigurationAssumption

-----------------------------------------------------------------------------
(* Lists of timeslots. *)

LEMMA JoinIs ==
  ASSUME NEW S, NEW a \in Seq(S), NEW b \in Seq(S)
  PROVE  a \o b \in Seq(S) /\ Len(a \o b) = Len(a) + Len(b)
OBVIOUS

LEMMA ConcatIs ==
  ASSUME NEW S, NEW s \in Seq(S), NEW at \in 1 .. Len(s)
  PROVE  LET r == SubSeq(s, 1, at - 1) \o SubSeq(s, at + 1, Len(s))
         IN  /\ r \in Seq(S)
             /\ Len(r) = Len(s) - 1
             /\ \A i \in 1 .. Len(s) - 1 : r[i] = IF i < at THEN s[i] ELSE s[i + 1]
<1> DEFINE a == SubSeq(s, 1, at - 1)
           b == SubSeq(s, at + 1, Len(s))
<1>1. a \in Seq(S) /\ Len(a) = at - 1 /\ \A i \in 1 .. at - 1 : a[i] = s[i]
  OBVIOUS
<1>2. /\ b \in Seq(S) /\ Len(b) = Len(s) - at
      /\ \A i \in 1 .. Len(s) - at : b[i] = s[at + i]
  OBVIOUS
<1> HIDE DEF a, b
<1>3. a \o b \in Seq(S) /\ Len(a \o b) = Len(s) - 1
  <2>1. a \o b \in Seq(S) /\ Len(a \o b) = Len(a) + Len(b)
    BY <1>1, <1>2, JoinIs
  <2>2. at - 1 + (Len(s) - at) = Len(s) - 1
    OBVIOUS
  <2>3. QED
    BY <1>1, <1>2, <2>1, <2>2
<1>4. ASSUME NEW i \in 1 .. Len(s) - 1
      PROVE  (a \o b)[i] = IF i < at THEN s[i] ELSE s[i + 1]
  <2>1. CASE i < at
    BY <1>1, <1>2, <2>1
  <2>2. CASE ~ (i < at)
    <3>1. i - (at - 1) \in 1 .. Len(s) - at /\ at + (i - (at - 1)) = i + 1
      BY <2>2
    <3>2. (a \o b)[i] = b[i - (at - 1)]
      BY <1>1, <1>2, <2>2, SMTT(60)
    <3>3. QED
      BY <1>2, <2>2, <3>1, <3>2
  <2>3. QED
    BY <2>1, <2>2
<1>5. QED
  BY <1>3, <1>4 DEF a, b

\* A set of numbers that is not empty has a smallest member.
LEMMA MinIs ==
  ASSUME NEW S \in SUBSET Nat, S # {}
  PROVE  Min(S) \in S
<1> DEFINE Less == {pair \in Nat \X Nat : pair[1] < pair[2]}
<1>1. IsWellFoundedOn(Less, Nat)
  BY NatLessThanWellFounded, Zenon DEF OpToRel
<1>2. PICK x \in S : \A y \in S : ~ (<<y, x>> \in Less)
  <2> HIDE DEF Less
  <2>1. QED
    BY <1>1, WFMin
<1>3. \A y \in S : x <= y
  <2> TAKE y \in S
  <2>1. x \in Nat /\ y \in Nat /\ <<y, x>> \in Nat \X Nat
    OBVIOUS
  <2>2. ~ (y < x)
    BY <1>2, <2>1
  <2>3. QED
    BY <2>1, <2>2
<1>4. QED
  BY <1>3 DEF Min

LEMMA MinOfOne ==
  ASSUME NEW x \in Nat
  PROVE  Min({x}) = x
BY DEF Min

\* removeLink() on a list without repetitions.
LEMMA RemovesIs ==
  ASSUME NEW s \in Seq(TS), NEW e, Contains(s, e), IsInjective(s)
  PROVE  LET r == RemoveFirst(s, e)
         IN  /\ r \in Seq(TS)
             /\ Len(r) = Len(s) - 1
             /\ IsInjective(r)
             /\ \A x : Contains(r, x) <=> Contains(s, x) /\ x # e
<1> DEFINE r == RemoveFirst(s, e)
<1>1. PICK at \in 1 .. Len(s) : s[at] = e
  BY DEF Contains
<1>2. DOMAIN s = 1 .. Len(s) /\ \A a, b \in 1 .. Len(s) : s[a] = s[b] => a = b
  BY DEF IsInjective
<1>3. {i \in 1 .. Len(s) : s[i] = e} = {at}
  BY <1>1, <1>2
<1>4. r = SubSeq(s, 1, at - 1) \o SubSeq(s, at + 1, Len(s))
  <2>1. r = SubSeq(s, 1, Min({at}) - 1) \o SubSeq(s, Min({at}) + 1, Len(s))
    BY <1>1, <1>3 DEF RemoveFirst, RemoveAt, SelectInSeq
  <2>2. Min({at}) = at
    BY MinOfOne
  <2>3. QED
    BY <2>1, <2>2
<1> HIDE DEF r
<1>5. /\ r \in Seq(TS)
      /\ Len(r) = Len(s) - 1
      /\ \A i \in 1 .. Len(s) - 1 : r[i] = IF i < at THEN s[i] ELSE s[i + 1]
  BY <1>4, ConcatIs
<1>6. \A i \in 1 .. Len(s) - 1 : /\ i < at => r[i] = s[i] /\ i # at /\ i \in 1 .. Len(s)
                                 /\ i >= at => r[i] = s[i + 1] /\ i + 1 # at /\ i + 1 \in 1 .. Len(s)
  BY <1>5
<1>7. DOMAIN r = 1 .. Len(s) - 1
  BY <1>5
<1>8. IsInjective(r)
  <2> SUFFICES ASSUME NEW a \in 1 .. Len(s) - 1, NEW b \in 1 .. Len(s) - 1, r[a] = r[b]
               PROVE  a = b
    BY <1>7 DEF IsInjective
  <2>1. (a < at \/ a >= at) /\ (b < at \/ b >= at)
    OBVIOUS
  <2>2. QED
    BY <1>2, <1>6, <2>1
<1>9. ASSUME NEW x PROVE Contains(r, x) <=> Contains(s, x) /\ x # e
  <2>1. ASSUME Contains(r, x) PROVE Contains(s, x) /\ x # e
    <3>1. PICK i \in 1 .. Len(s) - 1 : r[i] = x
      BY <1>5, <2>1 DEF Contains
    <3>2. PICK p \in 1 .. Len(s) : s[p] = x /\ p # at
      BY <1>6, <3>1
    <3>3. QED
      BY <1>1, <1>2, <3>2 DEF Contains
  <2>2. ASSUME Contains(s, x), x # e PROVE Contains(r, x)
    <3>1. PICK p \in 1 .. Len(s) : s[p] = x
      BY <2>2 DEF Contains
    <3>2. CASE p < at
      <4>1. p \in 1 .. Len(s) - 1
        BY <3>2
      <4>2. QED
        BY <1>5, <1>6, <3>1, <3>2, <4>1 DEF Contains
    <3>3. CASE ~ (p < at)
      <4>1. p # at
        BY <1>1, <2>2, <3>1
      <4>2. p - 1 \in 1 .. Len(s) - 1 /\ p - 1 >= at /\ p - 1 + 1 = p
        BY <3>3, <4>1
      <4>3. QED
        BY <1>5, <1>6, <3>1, <4>2, ZenonT(60) DEF Contains
    <3>4. QED
      BY <3>2, <3>3
  <2>3. QED
    BY <2>1, <2>2
<1>10. QED
  BY <1>5, <1>8, <1>9 DEF r

\* A timeslot that is in no list yet is added to one.
LEMMA AppendsIs ==
  ASSUME NEW s \in Seq(TS), NEW e \in TS, ~ Contains(s, e), IsInjective(s)
  PROVE  LET r == Append(s, e)
         IN  /\ r \in Seq(TS)
             /\ Len(r) = Len(s) + 1
             /\ IsInjective(r)
             /\ \A x : Contains(r, x) <=> Contains(s, x) \/ x = e
<1> DEFINE r == Append(s, e)
<1>1. /\ r \in Seq(TS) /\ Len(s) \in Nat /\ Len(r) = Len(s) + 1
      /\ \A i \in 1 .. Len(s) : r[i] = s[i]
      /\ r[Len(s) + 1] = e
  OBVIOUS
<1> HIDE DEF r
<1>2. \A i \in 1 .. Len(r) : i \in 1 .. Len(s) \/ i = Len(s) + 1
  BY <1>1
<1>3. \A i \in 1 .. Len(s) : s[i] # e
  BY DEF Contains
<1>4. DOMAIN r = 1 .. Len(r) /\ DOMAIN s = 1 .. Len(s)
  BY <1>1
<1>5. IsInjective(r)
  BY <1>1, <1>2, <1>3, <1>4 DEF IsInjective
<1>6. 1 .. Len(r) = 1 .. Len(s) \cup {Len(s) + 1}
  BY <1>1
<1>7. \A x : Contains(r, x) <=> Contains(s, x) \/ x = e
  BY <1>1, <1>6 DEF Contains
<1>8. QED
  BY <1>1, <1>5, <1>7 DEF r

\* A list without repetitions has as many members as it is long.
LEMMA Counted ==
  ASSUME NEW s \in Seq(TS), IsInjective(s), NEW T, \A x : x \in T <=> Contains(s, x)
  PROVE  IsFiniteSet(T) /\ Cardinality(T) = Len(s)
<1>1. DOMAIN s = 1 .. Len(s) /\ Len(s) \in Nat
  OBVIOUS
<1>2. s \in [1 .. Len(s) -> T]
  BY <1>1 DEF Contains
<1>3. \A x \in T : \E i \in 1 .. Len(s) : s[i] = x
  BY DEF Contains
<1>4. s \in Bijection(1 .. Len(s), T)
  BY <1>1, <1>2, <1>3 DEF IsInjective, Bijection, Injection, Surjection
<1>5. IsFiniteSet(1 .. Len(s)) /\ Cardinality(1 .. Len(s)) = Len(s)
  BY <1>1, FS_Interval, SMTT(60)
<1>6. QED
  BY <1>4, <1>5, FS_Bijection DEF ExistsBijection

\* removeLink() on any list.
LEMMA RemovedIsList ==
  ASSUME NEW s \in Seq(TS), NEW e
  PROVE  RemoveFirst(s, e) \in Seq(TS)
<1> DEFINE I == {k \in 1 .. Len(s) : s[k] = e}
<1>1. CASE I = {}
  BY <1>1 DEF RemoveFirst
<1>2. CASE I # {}
  <2>1. Min(I) \in 1 .. Len(s)
    <3>1. I \subseteq Nat
      OBVIOUS
    <3>2. Min(I) \in I
      <4> HIDE DEF I
      <4>1. QED
        BY <1>2, <3>1, MinIs
    <3>3. QED
      BY <3>2
  <2>2. RemoveFirst(s, e) = SubSeq(s, 1, Min(I) - 1) \o SubSeq(s, Min(I) + 1, Len(s))
    BY <1>2 DEF RemoveFirst, RemoveAt, SelectInSeq
  <2> HIDE DEF I
  <2>3. QED
    BY <2>1, <2>2, ConcatIs
<1>3. QED
  BY <1>1, <1>2

-----------------------------------------------------------------------------
(* The types. *)

Request == [at : Phase, ts : TS \cup {None}, iter : Nat, changed : BOOLEAN]
Files   == [hdlc : SUBSET [ts : TS, id : Nat, sgw : Gateway],
            m3ua : Seq([sgw : Gateway, appid : Nat, linkid : Nat, links : Nat])]

\* A request that handles a timeslot knows which, and one that goes through n
\* gateways has its place among them, or knows that they have changed.
RequestOK(q, n) ==
  /\ q \in Request
  /\ q.at \in {"toggle", "assign", "free"} => q.ts \in TS
  /\ q.at = "m3ua" /\ ~ q.changed => q.iter <= n
  /\ q.at # "m3ua" => q.iter = 0 /\ ~ q.changed

Typed ==
  /\ TypeOK
  /\ \A r \in Requests : RequestOK(req[r], Len(sgws))

LEMMA IdleOK ==
  /\ \A n \in Nat : RequestOK(Idle, n)
  /\ Idle.at = "idle"
BY DEF RequestOK, Request, Phase, Idle

\* What becomes of a request's record.
Moved(r, phase) ==
  /\ req' \in [Requests -> Request]
  /\ req'[r].at = phase /\ req'[r].ts = req[r].ts
  /\ req'[r].iter = req[r].iter /\ req'[r].changed = req[r].changed
  /\ \A s \in Requests : s # r => req'[s] = req[s]

LEMMA GoesMoves ==
  ASSUME Typed, NEW r \in Requests, NEW phase \in Phase, Goes(r, phase)
  PROVE  Moved(r, phase) /\ overlaps' = overlaps
<1>1. req \in [Requests -> Request] /\ req[r] \in Request
  BY DEF Typed, TypeOK, Request
<1>2. req' = [req EXCEPT ![r] = [req[r] EXCEPT !.at = phase]]
  BY DEF Goes
<1>3. PICK q \in Request : q = [req[r] EXCEPT !.at = phase]
  BY <1>1 DEF Request
<1>4. /\ q.at = phase /\ q.ts = req[r].ts
      /\ q.iter = req[r].iter /\ q.changed = req[r].changed
  BY <1>1, <1>3 DEF Request
<1>5. req' = [req EXCEPT ![r] = q]
  BY <1>2, <1>3
<1>6. QED
  BY <1>1, <1>4, <1>5 DEF Moved, Goes

\* A request goes on to another phase.
LEMMA GoesTypes ==
  ASSUME Typed, NEW r \in Requests, NEW phase \in Phase, Goes(r, phase),
         Len(sgws') = Len(sgws), req[r].at # "m3ua",
         phase \in {"toggle", "assign", "free"} => req[r].ts \in TS
  PROVE  /\ req' \in [Requests -> Request]
         /\ \A s \in Requests : RequestOK(req'[s], Len(sgws'))
         /\ overlaps' \in 0 .. Overlaps
<1>1. Moved(r, phase) /\ overlaps' = overlaps
  BY GoesMoves
<1>2. ASSUME NEW s \in Requests PROVE RequestOK(req'[s], Len(sgws'))
  <2>1. RequestOK(req[s], Len(sgws)) /\ RequestOK(req[r], Len(sgws)) /\ req'[r] \in Request
    BY <1>1 DEF Typed, Moved
  <2>2. Len(sgws) \in Nat
    BY DEF Typed, TypeOK
  <2>3. CASE s = r
    BY <1>1, <2>1, <2>2, <2>3 DEF Moved, RequestOK
  <2>4. CASE s # r
    BY <1>1, <2>1, <2>4 DEF Moved
  <2>5. QED
    BY <2>3, <2>4
<1>3. QED
  BY <1>1, <1>2 DEF Moved, Typed, TypeOK

\* A request begins.
LEMMA BeginsTypes ==
  ASSUME Typed, NEW r \in Requests, NEW phase \in Phase, NEW ts \in TS \cup {None},
         Begins(r, phase, ts), sgws' = sgws, phase # "m3ua",
         phase \in {"toggle", "assign", "free"} => ts \in TS
  PROVE  /\ req' \in [Requests -> Request]
         /\ \A s \in Requests : RequestOK(req'[s], Len(sgws'))
         /\ overlaps' \in 0 .. Overlaps
         /\ req'[r].at = phase /\ req'[r].ts = ts
         /\ \A s \in Requests : s # r => req'[s] = req[s]
<1>1. req \in [Requests -> Request] /\ overlaps \in Nat
  BY Constants DEF Typed, TypeOK, Request
<1>2. PICK q : q = [Idle EXCEPT !.at = phase, !.ts = ts]
  OBVIOUS
<1>3. req' = [req EXCEPT ![r] = q]
  BY <1>2 DEF Begins
<1>4. q \in Request /\ q.at = phase /\ q.ts = ts /\ RequestOK(q, Len(sgws))
  <2>1. /\ Idle \in Request /\ Idle.iter = 0 /\ Idle.changed = FALSE
    BY DEF Idle, Request, Phase
  <2>2. /\ q \in Request /\ q.at = phase /\ q.ts = ts
        /\ q.iter = Idle.iter /\ q.changed = Idle.changed
    BY <1>2, <2>1 DEF Request
  <2>3. QED
    BY <2>1, <2>2 DEF RequestOK
<1>5. /\ req' \in [Requests -> Request] /\ req'[r] = q
      /\ \A s \in Requests : s # r => req'[s] = req[s]
  BY <1>1, <1>3, <1>4
<1>6. \A s \in Requests : RequestOK(req'[s], Len(sgws'))
  BY <1>4, <1>5 DEF Typed
<1>7. overlaps' \in 0 .. Overlaps
  BY <1>1, Constants DEF Begins
<1>8. QED
  BY <1>4, <1>5, <1>6, <1>7

\* A request ends.
LEMMA EndsTypes ==
  ASSUME Typed, NEW r \in Requests, Ends(r), Len(sgws') = Len(sgws)
  PROVE  /\ req' \in [Requests -> Request]
         /\ \A s \in Requests : RequestOK(req'[s], Len(sgws'))
         /\ overlaps' \in 0 .. Overlaps /\ overlaps' = overlaps
         /\ req'[r] = Idle
         /\ \A s \in Requests : s # r => req'[s] = req[s]
<1>1. req \in [Requests -> Request] /\ Len(sgws) \in Nat
  BY DEF Typed, TypeOK, Request
<1>2. RequestOK(Idle, Len(sgws)) /\ Idle \in Request
  BY <1>1, IdleOK DEF RequestOK
<1>3. /\ req' \in [Requests -> Request] /\ req'[r] = Idle
      /\ \A s \in Requests : s # r => req'[s] = req[s]
  BY <1>1, <1>2 DEF Ends
<1>4. \A s \in Requests : RequestOK(req'[s], Len(sgws'))
  BY <1>2, <1>3 DEF Typed
<1>5. QED
  BY <1>3, <1>4 DEF Ends, Typed, TypeOK

\* A request that was going through the gateways and finds them changed, or
\* any other, is as good as before.
LEMMA ChangedOK ==
  ASSUME NEW q, NEW n \in Nat, NEW m \in Nat, RequestOK(q, n), NEW p,
         p = IF q.at = "m3ua" THEN [q EXCEPT !.changed = TRUE] ELSE q
  PROVE  RequestOK(p, m) /\ p.at = q.at
<1>1. CASE q.at = "m3ua"
  <2>1. q \in Request /\ p = [q EXCEPT !.changed = TRUE]
    BY <1>1 DEF RequestOK
  <2>2. p \in Request /\ p.at = "m3ua" /\ p.changed = TRUE
    BY <1>1, <2>1 DEF Request
  <2>3. QED
    BY <1>1, <2>2 DEF RequestOK
<1>2. CASE q.at # "m3ua"
  BY <1>2 DEF RequestOK
<1>3. QED
  BY <1>1, <1>2

LEMMA EndsChangingTypes ==
  ASSUME Typed, NEW r \in Requests, EndsChanging(r), Len(sgws') \in Nat
  PROVE  /\ req' \in [Requests -> Request]
         /\ \A s \in Requests : RequestOK(req'[s], Len(sgws'))
         /\ overlaps' \in 0 .. Overlaps /\ overlaps' = overlaps
         /\ req'[r] = Idle
         /\ \A s \in Requests : s # r /\ req[s].at # "m3ua" => req'[s] = req[s]
<1>1. Len(sgws) \in Nat
  BY DEF Typed, TypeOK
<1>2. req' = [s \in Requests |-> IF s = r THEN Idle
                                 ELSE IF req[s].at = "m3ua" THEN [req[s] EXCEPT !.changed = TRUE]
                                 ELSE req[s]]
  BY DEF EndsChanging
<1>3. ASSUME NEW s \in Requests PROVE RequestOK(req'[s], Len(sgws'))
  <2>1. CASE s = r
    BY <1>2, <2>1, IdleOK
  <2>2. CASE s # r
    <3>1. req'[s] = IF req[s].at = "m3ua" THEN [req[s] EXCEPT !.changed = TRUE] ELSE req[s]
      BY <1>2, <2>2
    <3>2. RequestOK(req[s], Len(sgws))
      BY DEF Typed
    <3>3. QED
      BY <1>1, <3>1, <3>2, ChangedOK
  <2>3. QED
    BY <2>1, <2>2
<1>4. req' \in [Requests -> Request]
  BY <1>2, <1>3 DEF RequestOK
<1>5. QED
  BY <1>2, <1>3, <1>4 DEF EndsChanging, Typed, TypeOK

\* All but the requests.
StateTyped ==
  /\ gw \in [Gateway -> Sgw]
  /\ sgws \in Seq(Gateway)
  /\ sgw \in Gateway
  /\ sgwOf \in [TS -> Gateway \cup {None}]
  /\ linksAssigned \in Int
  /\ files \in Files

RequestsTyped ==
  /\ req \in [Requests -> Request]
  /\ \A r \in Requests : RequestOK(req[r], Len(sgws))
  /\ overlaps \in 0 .. Overlaps

LEMMA TypedIs == Typed <=> StateTyped /\ RequestsTyped
BY DEF Typed, TypeOK, StateTyped, RequestsTyped, Request, Files

\* The links of a gateway change.
LEMMA AddLinkIs ==
  ASSUME StateTyped, NEW ts \in TS, NEW links, links = Append(gw[sgw].links, ts),
         gw' = [gw EXCEPT ![sgw].links = links, ![sgw].linkSetSize = Len(links)]
  PROVE  /\ links \in Seq(TS)
         /\ gw' \in [Gateway -> Sgw]
         /\ gw'[sgw].links = links /\ gw'[sgw].linkSetSize = Len(links)
         /\ gw'[sgw].appId = gw[sgw].appId
         /\ \A g \in Gateway : g # sgw => gw'[g] = gw[g]
<1>1. gw \in [Gateway -> Sgw] /\ sgw \in Gateway /\ gw[sgw] \in Sgw
  BY DEF StateTyped
<1>2. links \in Seq(TS)
  BY <1>1 DEF Sgw
<1>3. PICK n \in Nat : n = Len(links)
  BY <1>2
<1>4. PICK p : p = [gw[sgw] EXCEPT !.links = links, !.linkSetSize = n]
  OBVIOUS
<1>5. /\ p \in Sgw /\ p.links = links /\ p.linkSetSize = n /\ p.appId = gw[sgw].appId
  BY <1>1, <1>2, <1>3, <1>4 DEF Sgw
<1>6. gw' = [gw EXCEPT ![sgw] = p]
  <2>1. gw' = [gw EXCEPT ![sgw].links = links, ![sgw].linkSetSize = n]
    BY <1>3
  <2>2. QED
    BY <1>1, <1>4, <2>1
<1>7. QED
  BY <1>1, <1>2, <1>3, <1>5, <1>6

LEMMA RemoveLinkIs ==
  ASSUME StateTyped, NEW ts, NEW links, links = RemoveFirst(gw[sgw].links, ts),
         gw' = [gw EXCEPT ![sgw] = Without(@, ts)]
  PROVE  /\ links \in Seq(TS)
         /\ gw' \in [Gateway -> Sgw]
         /\ gw'[sgw].links = links /\ gw'[sgw].linkSetSize = Len(links)
         /\ gw'[sgw].appId = gw[sgw].appId
         /\ \A g \in Gateway : g # sgw => gw'[g] = gw[g]
<1>1. gw \in [Gateway -> Sgw] /\ sgw \in Gateway /\ gw[sgw] \in Sgw
  BY DEF StateTyped
<1>2. links \in Seq(TS)
  BY <1>1, RemovedIsList DEF Sgw
<1>3. PICK n \in Nat : n = Len(links)
  BY <1>2
<1>4. PICK p : p = [gw[sgw] EXCEPT !.links = links, !.linkSetSize = n]
  OBVIOUS
<1>5. /\ p \in Sgw /\ p.links = links /\ p.linkSetSize = n /\ p.appId = gw[sgw].appId
  BY <1>1, <1>2, <1>3, <1>4 DEF Sgw
<1>6. gw' = [gw EXCEPT ![sgw] = p]
  BY <1>3, <1>4 DEF Without
<1>7. QED
  BY <1>1, <1>2, <1>3, <1>5, <1>6

LEMMA ToggleTypes ==
  ASSUME Typed, NEW r \in Requests, Toggle(r)
  PROVE  Typed'
<1>1. StateTyped /\ RequestsTyped /\ RequestOK(req[r], Len(sgws)) /\ Len(sgws) \in Nat
  BY TypedIs DEF RequestsTyped, StateTyped
<1>2. CASE ClickTimeslot(r)
  <2>1. StateTyped' /\ sgws' = sgws
    BY <1>1, <1>2 DEF ClickTimeslot, StateTyped
  <2>2. PICK ts \in TS : Begins(r, "toggle", ts)
    BY <1>2 DEF ClickTimeslot
  <2>3. "toggle" \in Phase
    BY DEF Phase
  <2>4. RequestsTyped'
    BY <2>1, <2>2, <2>3, BeginsTypes DEF RequestsTyped
  <2>5. QED
    BY <2>1, <2>4, TypedIs, PTL
<1>3. CASE ToggleStatus(r)
  <2>1. StateTyped' /\ sgws' = sgws /\ req[r].at = "toggle"
    BY <1>1, <1>3 DEF ToggleStatus, StateTyped
  <2>2. req[r].ts \in TS
    BY <1>1, <2>1 DEF RequestOK
  <2>3. "free" \in Phase /\ "assign" \in Phase
    BY DEF Phase
  <2>4. Goes(r, "free") \/ Goes(r, "assign") \/ Ends(r)
    BY <1>3 DEF ToggleStatus
  <2>5. RequestsTyped'
    BY <2>1, <2>2, <2>3, <2>4, GoesTypes, EndsTypes DEF RequestsTyped
  <2>6. QED
    BY <2>1, <2>5, TypedIs, PTL
<1>4. CASE AddLink(r)
  <2>1. sgws' = sgws /\ req[r].at = "assign" /\ UNCHANGED <<sgw, linksAssigned, files>>
    BY <1>4 DEF AddLink
  <2>2. req[r].ts \in TS
    BY <1>1, <2>1 DEF RequestOK
  <2>3. "assigned" \in Phase
    BY DEF Phase
  <2>4. CASE Len(gw[sgw].links) < LinksetMax
    <3>1. PICK links : /\ links = Append(gw[sgw].links, req[r].ts)
                       /\ gw' = [gw EXCEPT ![sgw].links = links, ![sgw].linkSetSize = Len(links)]
                       /\ sgwOf' = [sgwOf EXCEPT ![req[r].ts] = sgw]
                       /\ Goes(r, "assigned")
      BY <1>4, <2>4 DEF AddLink
    <3>2. gw' \in [Gateway -> Sgw]
      BY <1>1, <2>2, <3>1, AddLinkIs
    <3>3. StateTyped'
      BY <1>1, <2>1, <3>1, <3>2 DEF StateTyped
    <3>4. RequestsTyped'
      BY <2>1, <2>2, <2>3, <3>1, GoesTypes DEF RequestsTyped
    <3>5. QED
      BY <3>3, <3>4, TypedIs, PTL
  <2>5. CASE ~ (Len(gw[sgw].links) < LinksetMax)
    <3>1. Ends(r) /\ UNCHANGED <<gw, sgwOf>>
      BY <1>4, <2>5 DEF AddLink
    <3>2. StateTyped'
      BY <1>1, <2>1, <3>1 DEF StateTyped
    <3>3. RequestsTyped'
      BY <2>1, <3>1, EndsTypes DEF RequestsTyped
    <3>4. QED
      BY <3>2, <3>3, TypedIs, PTL
  <2>6. QED
    BY <2>4, <2>5
<1>5. CASE Assigned(r) \/ Freed(r)
  <2>1. StateTyped' /\ sgws' = sgws /\ Ends(r)
    BY <1>1, <1>5 DEF Assigned, Freed, StateTyped
  <2>2. RequestsTyped'
    BY <2>1, EndsTypes DEF RequestsTyped
  <2>3. QED
    BY <2>1, <2>2, TypedIs, PTL
<1>6. CASE RemoveLink(r)
  <2>1. /\ sgws' = sgws /\ req[r].at = "free" /\ UNCHANGED <<sgw, linksAssigned, files>>
        /\ gw' = [gw EXCEPT ![sgw] = Without(@, req[r].ts)]
        /\ sgwOf' = [sgwOf EXCEPT ![req[r].ts] = None]
        /\ Goes(r, "freed")
    BY <1>6 DEF RemoveLink
  <2>2. gw' \in [Gateway -> Sgw]
    BY <1>1, <2>1, RemoveLinkIs
  <2>3. StateTyped'
    BY <1>1, <2>1, <2>2 DEF StateTyped
  <2>4. "freed" \in Phase
    BY DEF Phase
  <2>5. RequestsTyped'
    BY <2>1, <2>4, GoesTypes DEF RequestsTyped
  <2>6. QED
    BY <2>3, <2>5, TypedIs, PTL
<1>7. QED
  BY <1>2, <1>3, <1>4, <1>5, <1>6 DEF Toggle

Listed == ToSet(sgws)

LEMMA ListedIs ==
  ASSUME StateTyped
  PROVE  /\ DOMAIN sgws = 1 .. Len(sgws) /\ Len(sgws) \in Nat
         /\ \A k \in 1 .. Len(sgws) : sgws[k] \in Gateway /\ sgws[k] \in Listed
         /\ \A g \in Listed : g \in Gateway /\ \E k \in 1 .. Len(sgws) : sgws[k] = g
BY DEF StateTyped, Listed, ToSet

\* The fields are stored; links stay.
LEMMA StoredIs ==
  ASSUME StateTyped, NEW valid,
         gw' = [g \in Gateway |-> IF g \in ToSet(sgws) THEN [gw[g] EXCEPT !.spcs = g \in valid] ELSE gw[g]]
  PROVE  /\ gw' \in [Gateway -> Sgw]
         /\ \A g \in Gateway : /\ gw'[g].links = gw[g].links
                               /\ gw'[g].linkSetSize = gw[g].linkSetSize
                               /\ gw'[g].appId = gw[g].appId
<1>1. ASSUME NEW g \in Gateway
      PROVE  /\ gw'[g] \in Sgw
             /\ gw'[g].links = gw[g].links
             /\ gw'[g].linkSetSize = gw[g].linkSetSize
             /\ gw'[g].appId = gw[g].appId
  <2>1. gw[g] \in Sgw
    BY DEF StateTyped
  <2>2. gw'[g] = [gw[g] EXCEPT !.spcs = TRUE] \/ gw'[g] = [gw[g] EXCEPT !.spcs = FALSE] \/ gw'[g] = gw[g]
    <3>1. CASE g \in valid
      <4>1. (g \in valid) = TRUE
        BY <3>1
      <4>2. QED
        BY <4>1
    <3>2. CASE g \notin valid
      <4>1. (g \in valid) = FALSE
        BY <3>2
      <4>2. QED
        BY <4>1
    <3>3. QED
      BY <3>1, <3>2
  <2>3. QED
    BY <2>1, <2>2 DEF Sgw
<1>2. gw' \in [Gateway -> Sgw]
  BY <1>1
<1>3. QED
  BY <1>1, <1>2

LEMMA NewSgwIs ==
  \A n \in Nat : /\ NewSgw(n) \in Sgw
                 /\ NewSgw(n).appId = n /\ NewSgw(n).links = <<>> /\ NewSgw(n).linkSetSize = 0
BY DEF NewSgw, Sgw

LEMMA FrontIs ==
  ASSUME NEW S, NEW s \in Seq(S), Len(s) >= 1
  PROVE  /\ Front(s) \in Seq(S) /\ Len(Front(s)) = Len(s) - 1
         /\ \A g \in 1 .. Len(s) - 1 : Front(s)[g] = s[g]
<1> DEFINE n == Len(s) - 1
<1>1. n \in Nat /\ n <= Len(s)
  OBVIOUS
<1> HIDE DEF n
<1>2. /\ SubSeq(s, 1, n) \in Seq(S)
      /\ Len(SubSeq(s, 1, n)) = n
      /\ \A g \in 1 .. n : SubSeq(s, 1, n)[g] = s[g]
  <2>1. \A g \in 1 .. n : s[g] \in S
    BY <1>1
  <2>2. Len(SubSeq(s, 1, n)) = n /\ \A g \in 1 .. n : SubSeq(s, 1, n)[g] = s[g]
    BY <1>1
  <2>3. SubSeq(s, 1, n) \in Seq(S)
    BY <1>1, <2>1
  <2>4. QED
    BY <2>2, <2>3
<1>3. QED
  BY <1>1, <1>2 DEF Front, n

\* What a gateway is after delete().
LEMMA DeletedIs ==
  ASSUME NEW g \in Sgw, NEW current \in BOOLEAN
  PROVE  /\ Deleted(g, current) \in Sgw
         /\ Deleted(g, current).links = <<>> /\ Deleted(g, current).linkSetSize = 0
<1>1. CASE current
  <2>1. <<>> \in Seq(TS)
    OBVIOUS
  <2>2. Deleted(g, current) = [g EXCEPT !.links = <<>>, !.linkSetSize = 0]
    BY <1>1 DEF Deleted
  <2>3. PICK none \in Seq(TS) : none = <<>>
    BY <2>1
  <2>7. PICK p : p = Deleted(g, current)
    OBVIOUS
  <2>4. p = [g EXCEPT !.links = none, !.linkSetSize = 0]
    BY <2>2, <2>3, <2>7
  <2>5. p \in Sgw /\ p.links = none /\ p.linkSetSize = 0
    BY <2>4 DEF Sgw
  <2>6. QED
    BY <2>3, <2>5, <2>7
<1>2. CASE ~ current
  BY <1>2, NewSgwIs DEF Deleted
<1>3. QED
  BY <1>1, <1>2

LEMMA RemoveSgwIs ==
  ASSUME StateTyped, NEW r, RemoveSgw(r), sgws # <<>>
  PROVE  /\ gw' \in [Gateway -> Sgw]
         /\ sgws' \in Seq(Gateway) /\ Len(sgws') = Len(sgws) - 1
         /\ \A k \in 1 .. Len(sgws) - 1 : sgws'[k] = sgws[k]
         /\ sgw' \in Gateway
         /\ Len(sgws) > 1 => sgw' = sgws[Len(sgws) - 1]
         /\ sgwOf' = [ts \in TS |-> IF Contains(gw[sgw].links, ts) THEN None ELSE sgwOf[ts]]
         /\ linksAssigned' = linksAssigned - Len(gw[sgw].links)
         /\ Len(gw[sgw].links) \in Nat
         /\ \A g \in Gateway : g # sgw => gw'[g] = gw[g]
         /\ files' = files /\ EndsChanging(r)
<1>1. /\ sgws' = Front(sgws)
      /\ sgw' = IF sgws' = <<>> THEN sgw ELSE Last(sgws')
      /\ gw' = [gw EXCEPT ![sgw] = Deleted(gw[sgw], sgw' = sgw)]
      /\ sgwOf' = [ts \in TS |-> IF Contains(gw[sgw].links, ts) THEN None ELSE sgwOf[ts]]
      /\ linksAssigned' = linksAssigned - Len(gw[sgw].links)
      /\ files' = files /\ EndsChanging(r)
  BY DEF RemoveSgw
<1>2. gw \in [Gateway -> Sgw] /\ sgw \in Gateway /\ gw[sgw] \in Sgw /\ sgws \in Seq(Gateway) /\ Len(sgws) >= 1
  BY DEF StateTyped
<1>3. /\ sgws' \in Seq(Gateway) /\ Len(sgws') = Len(sgws) - 1
      /\ \A k \in 1 .. Len(sgws) - 1 : sgws'[k] = sgws[k]
  BY <1>1, <1>2, FrontIs
<1>4. sgws' # <<>> => /\ Len(sgws) > 1 /\ Len(sgws') \in 1 .. Len(sgws')
                      /\ Last(sgws') = sgws[Len(sgws) - 1] /\ Last(sgws') \in Gateway
  BY <1>2, <1>3 DEF Last
<1>5. Len(sgws) > 1 => sgws' # <<>>
  BY <1>2, <1>3
<1>6. sgw' \in Gateway /\ (Len(sgws) > 1 => sgw' = sgws[Len(sgws) - 1])
  BY <1>1, <1>2, <1>4, <1>5
<1>7. Len(gw[sgw].links) \in Nat
  BY <1>2 DEF Sgw
<1>8. PICK p \in Sgw : p = Deleted(gw[sgw], sgw' = sgw)
  BY <1>2, DeletedIs
<1>9. gw' = [gw EXCEPT ![sgw] = p]
  BY <1>1, <1>8
<1>10. gw' \in [Gateway -> Sgw] /\ \A g \in Gateway : g # sgw => gw'[g] = gw[g]
  BY <1>2, <1>9
<1>11. QED
  BY <1>1, <1>3, <1>6, <1>7, <1>10

LEMMA ButtonTypes ==
  ASSUME Typed, NEW r \in Requests, Button(r)
  PROVE  Typed'
<1>1. StateTyped /\ RequestsTyped /\ RequestOK(req[r], Len(sgws)) /\ Len(sgws) \in Nat
  BY TypedIs DEF RequestsTyped, StateTyped
<1>2. CASE ClickButton(r)
  <2>1. StateTyped' /\ sgws' = sgws
    BY <1>1, <1>2 DEF ClickButton, StateTyped
  <2>2. PICK button \in {"apply", "add", "remove", "create"} : Begins(r, button, None)
    BY <1>2 DEF ClickButton
  <2>3. button \in Phase /\ button \notin {"m3ua", "toggle", "assign", "free"}
    BY DEF Phase
  <2>4. RequestsTyped'
    BY <2>1, <2>2, <2>3, BeginsTypes DEF RequestsTyped
  <2>5. QED
    BY <2>1, <2>4, TypedIs, PTL
<1>3. CASE StoreFields(r)
  <2>1. UNCHANGED <<sgws, sgw, sgwOf, linksAssigned, files>>
    BY <1>3 DEF StoreFields
  <2>2. PICK valid : gw' = [g \in Gateway |-> IF g \in ToSet(sgws) THEN [gw[g] EXCEPT !.spcs = g \in valid] ELSE gw[g]]
    BY <1>3 DEF StoreFields
  <2>3. gw' \in [Gateway -> Sgw]
    BY <1>1, <2>2, StoredIs
  <2>4. StateTyped'
    BY <1>1, <2>1, <2>3 DEF StateTyped
  <2>5. {"addSgw", "removeSgw", "hdlc"} \subseteq Phase
    BY DEF Phase
  <2>6. /\ req[r].at # "m3ua"
        /\ Ends(r) \/ \E phase \in {"addSgw", "removeSgw", "hdlc"} : Goes(r, phase)
    BY <1>3 DEF StoreFields
  <2>7. RequestsTyped'
    BY <2>1, <2>5, <2>6, GoesTypes, EndsTypes DEF RequestsTyped
  <2>8. QED
    BY <2>4, <2>7, TypedIs, PTL
<1>4. CASE AddSgw(r)
  <2>1. UNCHANGED <<sgwOf, linksAssigned, files>>
    BY <1>4 DEF AddSgw
  <2>2. CASE Ends(r) /\ UNCHANGED <<gw, sgws, sgw>>
    <3>1. StateTyped'
      BY <1>1, <2>1, <2>2 DEF StateTyped
    <3>2. RequestsTyped'
      BY <2>2, EndsTypes DEF RequestsTyped
    <3>3. QED
      BY <3>1, <3>2, TypedIs, PTL
  <2>3. CASE ~ (Ends(r) /\ UNCHANGED <<gw, sgws, sgw>>)
    <3>1. PICK g \in Gateway : /\ gw' = [gw EXCEPT ![g] = NewSgw(Len(sgws))]
                               /\ sgws' = Append(sgws, g) /\ sgw' = g
                               /\ EndsChanging(r)
      BY <1>4, <2>3 DEF AddSgw
    <3>2. StateTyped'
      BY <1>1, <2>1, <3>1, NewSgwIs DEF StateTyped
    <3>3. Len(sgws') \in Nat
      BY <3>2 DEF StateTyped
    <3>4. RequestsTyped'
      BY <3>1, <3>3, EndsChangingTypes DEF RequestsTyped
    <3>5. QED
      BY <3>2, <3>4, TypedIs, PTL
  <2>4. QED
    BY <2>2, <2>3
<1>5. CASE RemoveSgw(r)
  <2>1. CASE sgws = <<>>
    <3>1. Ends(r) /\ UNCHANGED <<gw, sgws, sgw, sgwOf, linksAssigned, files>>
      BY <1>5, <2>1 DEF RemoveSgw
    <3>2. StateTyped'
      BY <1>1, <3>1 DEF StateTyped
    <3>3. RequestsTyped'
      BY <3>1, EndsTypes DEF RequestsTyped
    <3>4. QED
      BY <3>2, <3>3, TypedIs, PTL
  <2>2. CASE sgws # <<>>
    <3>1. StateTyped' /\ EndsChanging(r)
      BY <1>1, <1>5, <2>2, RemoveSgwIs DEF StateTyped
    <3>2. Len(sgws') \in Nat
      BY <3>1 DEF StateTyped
    <3>3. RequestsTyped'
      BY <3>1, <3>2, EndsChangingTypes DEF RequestsTyped
    <3>4. QED
      BY <3>1, <3>3, TypedIs, PTL
  <2>3. QED
    BY <2>1, <2>2
<1>6. QED
  BY <1>2, <1>3, <1>4, <1>5 DEF Button

LEMMA LinkIdType ==
  ASSUME StateTyped, NEW ts \in TS
  PROVE  /\ GlobalLinkId(ts) \in Int
         /\ GlobalLinkId(ts) >= 0 => sgwOf[ts] \in Gateway
<1>1. CASE sgwOf[ts] = None
  BY <1>1 DEF GlobalLinkId
<1>2. CASE sgwOf[ts] # None
  <2> DEFINE links == gw[sgwOf[ts]].links
             at    == {k \in DOMAIN links : links[k] = ts}
  <2>1. sgwOf[ts] \in Gateway /\ links \in Seq(TS)
    BY <1>2 DEF StateTyped, Sgw
  <2>2. at \subseteq Nat
    BY <2>1
  <2>3. GlobalLinkId(ts) = -1 \/ (at # {} /\ GlobalLinkId(ts) = FirstLink + Min(at) - 1)
    BY <1>2 DEF GlobalLinkId
  <2> HIDE DEF at
  <2>4. at # {} => Min(at) \in Nat
    BY <2>2, MinIs
  <2>5. QED
    BY <2>1, <2>3, <2>4 DEF FirstLink
<1>3. QED
  BY <1>1, <1>2

LEMMA LinesType ==
  ASSUME StateTyped, NEW pcm \in SUBSET TS
  PROVE  Lines(pcm) \subseteq [ts : TS, id : Nat, sgw : Gateway]
<1>1. ASSUME NEW e \in Lines(pcm) PROVE e \in [ts : TS, id : Nat, sgw : Gateway]
  <2>1. PICK ts \in pcm : /\ GlobalLinkId(ts) >= 0
                          /\ e = [ts |-> ts, id |-> GlobalLinkId(ts), sgw |-> sgwOf[ts]]
    BY DEF Lines
  <2>2. ts \in TS /\ GlobalLinkId(ts) \in Nat /\ sgwOf[ts] \in Gateway
    BY <2>1, LinkIdType
  <2>3. QED
    BY <2>1, <2>2
<1>2. QED
  BY <1>1

LEMMA ConfType ==
  ASSUME StateTyped, NEW g \in Gateway
  PROVE  Conf(g) \in [sgw : Gateway, appid : Nat, linkid : Nat, links : Nat]
BY DEF StateTyped, Conf, FirstLink, Sgw

LEMMA AppendIsList ==
  ASSUME NEW S, NEW s \in Seq(S), NEW e \in S
  PROVE  Append(s, e) \in Seq(S)
OBVIOUS

\* The file of the next gateway is written.
WritesNext(r) ==
  /\ req[r].at = "m3ua" /\ req[r].iter # Len(sgws) /\ ~ req[r].changed
  /\ files' = [files EXCEPT !.m3ua = Append(@, Conf(sgws[req[r].iter + 1]))]
  /\ req' = [req EXCEPT ![r].iter = @ + 1]
  /\ overlaps' = overlaps

LEMMA WritesNextIs ==
  ASSUME StateTyped, RequestsTyped, NEW r \in Requests, WritesNext(r), sgws' = sgws
  PROVE  /\ req[r].iter + 1 \in 1 .. Len(sgws)
         /\ files' \in Files
         /\ files'.hdlc = files.hdlc
         /\ files'.m3ua = Append(files.m3ua, Conf(sgws[req[r].iter + 1]))
         /\ req' \in [Requests -> Request]
         /\ \A s \in Requests : RequestOK(req'[s], Len(sgws'))
         /\ req'[r].at = "m3ua" /\ req'[r].iter = req[r].iter + 1 /\ req'[r].changed = req[r].changed
         /\ \A s \in Requests : s # r => req'[s] = req[s]
         /\ overlaps' = overlaps
<1>1. RequestOK(req[r], Len(sgws)) /\ Len(sgws) \in Nat /\ req \in [Requests -> Request]
  BY DEF RequestsTyped, StateTyped
<1>2. req[r].iter + 1 \in 1 .. Len(sgws) /\ req[r].iter + 1 \in Nat
  BY <1>1 DEF WritesNext, RequestOK, Request
<1>3. PICK conf \in [sgw : Gateway, appid : Nat, linkid : Nat, links : Nat] : conf = Conf(sgws[req[r].iter + 1])
  BY <1>2, ConfType, ListedIs
<1>4. /\ files' \in Files
      /\ files'.hdlc = files.hdlc
      /\ files'.m3ua = Append(files.m3ua, conf)
  <2>1. files.m3ua \in Seq([sgw : Gateway, appid : Nat, linkid : Nat, links : Nat])
    BY DEF StateTyped, Files
  <2>2. PICK m3ua \in Seq([sgw : Gateway, appid : Nat, linkid : Nat, links : Nat]) : m3ua = Append(files.m3ua, conf)
    BY <2>1, AppendIsList
  <2>3. files' = [files EXCEPT !.m3ua = m3ua]
    BY <1>3, <2>2 DEF WritesNext
  <2>4. QED
    BY <2>2, <2>3 DEF StateTyped, Files
<1>5. PICK q : q = [req[r] EXCEPT !.iter = req[r].iter + 1]
  OBVIOUS
<1>6. /\ q \in Request /\ q.at = "m3ua" /\ q.iter = req[r].iter + 1 /\ q.changed = req[r].changed
  BY <1>1, <1>2, <1>5 DEF WritesNext, RequestOK, Request
<1>7. req' = [req EXCEPT ![r] = q]
  BY <1>5 DEF WritesNext
<1>8. RequestOK(q, Len(sgws))
  BY <1>2, <1>6 DEF RequestOK
<1>9. \A s \in Requests : RequestOK(req'[s], Len(sgws'))
  BY <1>1, <1>6, <1>7, <1>8 DEF RequestsTyped
<1>10. /\ req' \in [Requests -> Request] /\ req'[r] = q
       /\ \A s \in Requests : s # r => req'[s] = req[s]
  BY <1>1, <1>6, <1>7
<1>11. QED
  BY <1>2, <1>3, <1>4, <1>6, <1>9, <1>10 DEF WritesNext

LEMMA WritesTypes ==
  ASSUME Typed, NEW r \in Requests, Writes(r)
  PROVE  Typed'
<1>1. StateTyped /\ RequestsTyped /\ RequestOK(req[r], Len(sgws)) /\ Len(sgws) \in Nat
  BY TypedIs DEF RequestsTyped, StateTyped
<1>2. UNCHANGED <<gw, sgws, sgw, sgwOf, linksAssigned>>
  BY DEF Writes, WriteHdlc, WriteHdlc1, WriteM3ua
<1>3. /\ files.hdlc \in SUBSET [ts : TS, id : Nat, sgw : Gateway]
      /\ files.m3ua \in Seq([sgw : Gateway, appid : Nat, linkid : Nat, links : Nat])
  BY <1>1 DEF StateTyped, Files
<1>4. SecondPcm \in SUBSET TS /\ TS \ SecondPcm \in SUBSET TS
  BY Constants
<1>5. CASE WriteHdlc(r)
  <2>1. files' = [NoFiles EXCEPT !.hdlc = Lines(TS \ SecondPcm)] /\ Goes(r, "hdlc1") /\ req[r].at = "hdlc"
    BY <1>5 DEF WriteHdlc
  <2>2. files' = [hdlc |-> Lines(TS \ SecondPcm), m3ua |-> <<>>]
    BY <2>1 DEF NoFiles
  <2>3. files' \in Files
    BY <1>1, <1>4, <2>2, LinesType DEF Files
  <2>4. StateTyped'
    BY <1>1, <1>2, <2>3 DEF StateTyped
  <2>5. "hdlc1" \in Phase
    BY DEF Phase
  <2>6. RequestsTyped'
    BY <1>2, <2>1, <2>5, GoesTypes DEF RequestsTyped
  <2>7. QED
    BY <2>4, <2>6, TypedIs, PTL
<1>6. CASE WriteHdlc1(r)
  <2>1. files' = [files EXCEPT !.hdlc = @ \cup Lines(SecondPcm)] /\ Goes(r, "m3ua") /\ req[r].at = "hdlc1"
    BY <1>6 DEF WriteHdlc1
  <2>2. files' \in Files
    <3>1. PICK lines \in SUBSET [ts : TS, id : Nat, sgw : Gateway] : lines = files.hdlc \cup Lines(SecondPcm)
      BY <1>1, <1>3, <1>4, LinesType
    <3>2. files' = [files EXCEPT !.hdlc = lines]
      BY <2>1, <3>1
    <3>3. QED
      BY <1>1, <3>2 DEF StateTyped, Files
  <2>3. StateTyped'
    BY <1>1, <1>2, <2>2 DEF StateTyped
  <2>4. "m3ua" \in Phase
    BY DEF Phase
  <2>5. RequestsTyped'
    BY <1>2, <2>1, <2>4, GoesTypes DEF RequestsTyped
  <2>6. QED
    BY <2>3, <2>5, TypedIs, PTL
<1>7. CASE WriteM3ua(r)
  <2>1. CASE Ends(r) /\ UNCHANGED files
    <3>1. StateTyped'
      BY <1>1, <1>2, <2>1 DEF StateTyped
    <3>2. RequestsTyped'
      BY <1>2, <2>1, EndsTypes DEF RequestsTyped
    <3>3. QED
      BY <3>1, <3>2, TypedIs, PTL
  <2>2. CASE ~ (Ends(r) /\ UNCHANGED files)
    <3>1. WritesNext(r)
      BY <1>7, <2>2 DEF WriteM3ua, WritesNext
    <3>2. /\ files' \in Files /\ req' \in [Requests -> Request]
          /\ \A s \in Requests : RequestOK(req'[s], Len(sgws'))
          /\ overlaps' = overlaps
      BY <1>1, <1>2, <3>1, WritesNextIs
    <3>3. StateTyped'
      BY <1>1, <1>2, <3>2 DEF StateTyped
    <3>4. RequestsTyped'
      BY <1>1, <3>2 DEF RequestsTyped
    <3>5. QED
      BY <3>3, <3>4, TypedIs, PTL
  <2>3. QED
    BY <2>1, <2>2
<1>8. QED
  BY <1>5, <1>6, <1>7 DEF Writes

LEMMA Types ==
  /\ Init => Typed
  /\ Typed /\ [Next]_vars => Typed'
<1>1. NoFiles \in Files
  BY DEF NoFiles, Files
<1>2. ASSUME Init PROVE Typed
  <2>1. PICK g \in Gateway : sgws = <<g>> /\ sgw = g
    BY <1>2 DEF Init
  <2>2. StateTyped /\ Len(sgws) = 1
    BY <1>1, <1>2, <2>1, NewSgwIs DEF Init, StateTyped
  <2>3. RequestsTyped
    BY <1>2, <2>2, IdleOK, Constants DEF Init, RequestsTyped, RequestOK
  <2>4. QED
    BY <2>2, <2>3, TypedIs
<1>3. ASSUME Typed, [Next]_vars PROVE Typed'
  <2>1. StateTyped /\ RequestsTyped
    BY <1>3, TypedIs
  <2>2. CASE Edit
    <3>1. StateTyped' /\ sgws' = sgws /\ req' = req
      BY <1>1, <2>1, <2>2 DEF Edit, StateTyped
    <3>2. overlaps' \in 0 .. Overlaps
      BY <2>1, <2>2, Constants DEF Edit, RequestsTyped
    <3>3. RequestsTyped'
      BY <2>1, <3>1, <3>2 DEF RequestsTyped
    <3>4. QED
      BY <3>1, <3>3, TypedIs, PTL
  <2>3. CASE NewSession
    <3>1. PICK g \in Gateway : sgws' = <<g>> /\ sgw' = g
      BY <2>3 DEF NewSession
    <3>2. StateTyped' /\ Len(sgws') = 1
      BY <1>1, <2>3, <3>1, NewSgwIs DEF NewSession, StateTyped
    <3>3. Len(sgws) \in Nat
      BY <2>1 DEF StateTyped
    <3>4. ASSUME NEW s \in Requests PROVE RequestOK(req'[s], Len(sgws'))
      <4>1. req'[s] = IF req[s].at = "m3ua" THEN [req[s] EXCEPT !.changed = TRUE] ELSE req[s]
        BY <2>3 DEF NewSession
      <4>2. RequestOK(req[s], Len(sgws))
        BY <2>1 DEF RequestsTyped
      <4>3. QED
        BY <3>2, <3>3, <4>1, <4>2, ChangedOK
    <3>5. req' \in [Requests -> Request]
      BY <2>3, <3>4 DEF NewSession, RequestOK
    <3>6. overlaps' \in 0 .. Overlaps
      BY <2>1, <2>3, Constants DEF NewSession, RequestsTyped
    <3>7. RequestsTyped'
      BY <3>4, <3>5, <3>6 DEF RequestsTyped
    <3>8. QED
      BY <3>2, <3>7, TypedIs, PTL
  <2>4. CASE UNCHANGED vars
    <3>1. StateTyped' /\ RequestsTyped'
      BY <2>1, <2>4 DEF vars, StateTyped, RequestsTyped
    <3>2. QED
      BY <3>1, TypedIs, PTL
  <2>5. QED
    BY <1>3, <2>2, <2>3, <2>4, ToggleTypes, ButtonTypes, WritesTypes DEF Next
<1>4. QED
  BY <1>2, <1>3

-----------------------------------------------------------------------------
(* The inductive invariant.  While requests are served one at a time, the   *)
(* lists agree at every step; what the counter and the files lack is known  *)
(* from the phase of the one request that is served.                        *)

\* The timeslots that have a gateway.
Used == {ts \in TS : sgwOf[ts] # None}

SgwOK(g) ==
  /\ IsInjective(gw[g].links)
  /\ gw[g].linkSetSize = Len(gw[g].links)
  /\ Len(gw[g].links) <= LinksetMax
  /\ \A ts \in TS : Contains(gw[g].links, ts) <=> sgwOf[ts] = g

Ledger ==
  /\ IsInjective(sgws) /\ Len(sgws) \in 1 .. AllowedSgws /\ sgw = sgws[Len(sgws)]
  /\ \A k \in 1 .. Len(sgws) : gw[sgws[k]].appId = k - 1
  /\ \A g \in Listed : SgwOK(g)
  /\ \A ts \in TS : sgwOf[ts] \in Listed \cup {None}
  /\ linksAssigned <= AllowedLinks

Served ==
  files # NoFiles =>
    /\ {e.sgw : e \in files.hdlc} = {files.m3ua[k].sgw : k \in DOMAIN files.m3ua}
    /\ \A k \in DOMAIN files.m3ua :
         LET conf == files.m3ua[k]
             own  == {e \in files.hdlc : e.sgw = conf.sgw}
         IN  /\ conf.appid = k - 1
             /\ conf.links > 0
             /\ {e.id : e \in own} = conf.linkid .. conf.linkid + conf.links - 1
             /\ Cardinality(own) = conf.links

\* The counter in the phases of request r.
Counts(r) ==
  /\ req[r].at \notin {"assigned", "freed"} => linksAssigned = Cardinality(Used)
  /\ req[r].at = "assign" => linksAssigned < AllowedLinks
  /\ req[r].at = "assigned" => linksAssigned = Cardinality(Used) - 1 /\ linksAssigned < AllowedLinks
  /\ req[r].at = "freed" => linksAssigned = Cardinality(Used) + 1

Linked == \A g \in Listed : gw[g].links # <<>>

\* What request r knows from the phases before.
Knows(r) ==
  /\ req[r].at = "toggle" => ~ Locked(req[r].ts)
  /\ req[r].at = "assign" => sgwOf[req[r].ts] = None
  /\ req[r].at = "free" => sgwOf[req[r].ts] = sgw
  /\ req[r].at \in {"remove", "removeSgw"} => Len(sgws) > 1
  /\ req[r].at \in {"create", "hdlc", "hdlc1", "m3ua"} => Linked

\* The files of the first n gateways are written.
Written(n) ==
  /\ files.hdlc = Lines(TS)
  /\ Len(files.m3ua) = n /\ n <= Len(sgws)
  /\ \A k \in 1 .. n : files.m3ua[k] = Conf(sgws[k])

\* The files in the phases of request r.
Writing(r) ==
  /\ req[r].at = "hdlc1" => files.hdlc = Lines(TS \ SecondPcm) /\ files.m3ua = <<>>
  /\ req[r].at = "m3ua" => Written(req[r].iter) /\ ~ req[r].changed
  /\ req[r].at \notin {"hdlc1", "m3ua"} => Served

Alone(r) ==
  /\ \A s \in Requests : s # r => req[s] = Idle
  /\ Counts(r) /\ Knows(r) /\ Writing(r)

IInv ==
  /\ Typed
  /\ overlaps = 0 => Ledger /\ \E r \in Requests : Alone(r)

LEMMA Parts ==
  IInv => TypeOK /\ Consistent /\ LinksServed
<1> SUFFICES ASSUME IInv PROVE TypeOK /\ Consistent /\ LinksServed
  OBVIOUS
<1>1. TypeOK /\ StateTyped
  BY TypedIs DEF IInv, Typed
<1>2. ASSUME Settled PROVE Ledger /\ linksAssigned = Cardinality(Used) /\ Served
  <2>1. Ledger /\ \E r \in Requests : Alone(r)
    BY <1>2 DEF IInv, Settled
  <2>2. PICK r \in Requests : Counts(r) /\ Writing(r)
    BY <2>1 DEF Alone
  <2>3. req[r].at = "idle"
    BY <1>2, IdleOK DEF Settled, Quiet
  <2>4. QED
    BY <2>1, <2>2, <2>3 DEF Counts, Writing
<1>3. LinksServed
  BY <1>2 DEF LinksServed, Served
<1>4. Consistent
  <2> SUFFICES ASSUME Settled
               PROVE  /\ IsInjective(sgws) /\ Len(sgws) \in 1 .. AllowedSgws /\ sgw = Last(sgws)
                      /\ \A k \in DOMAIN sgws : gw[sgws[k]].appId = k - 1
                      /\ \A g \in ToSet(sgws) :
                           /\ IsInjective(gw[g].links)
                           /\ \A ts \in TS : Contains(gw[g].links, ts) <=> sgwOf[ts] = g
                           /\ gw[g].linkSetSize = Len(gw[g].links)
                           /\ Len(gw[g].links) <= LinksetMax
                      /\ \A ts \in TS : sgwOf[ts] \in ToSet(sgws) \cup {None}
                      /\ linksAssigned = Cardinality({ts \in TS : sgwOf[ts] # None})
                      /\ linksAssigned <= AllowedLinks
    BY DEF Consistent
  <2>1. Ledger /\ linksAssigned = Cardinality(Used) /\ DOMAIN sgws = 1 .. Len(sgws)
    BY <1>1, <1>2, ListedIs
  <2>2. QED
    BY <2>1 DEF Ledger, SgwOK, Listed, Used, Last
<1>5. QED
  BY <1>1, <1>3, <1>4

LEMMA UsedFinite == IsFiniteSet(Used) /\ Cardinality(Used) \in Nat
<1>1. Used \subseteq TS
  BY DEF Used
<1>2. QED
  BY <1>1, Constants, FS_Subset, FS_CardinalityType

\* The current gateway is in the list, at its end.
LEMMA CurrentIs ==
  ASSUME StateTyped, Ledger
  PROVE  sgw \in Listed /\ sgw \in Gateway /\ sgw # None /\ SgwOK(sgw)
<1>1. Len(sgws) \in 1 .. Len(sgws) /\ sgw = sgws[Len(sgws)]
  BY DEF Ledger
<1>2. QED
  BY <1>1, ListedIs, Constants DEF Ledger

LEMMA LedgerKept ==
  ASSUME Ledger, UNCHANGED <<gw, sgws, sgw, sgwOf, linksAssigned>>
  PROVE  Ledger' /\ Used' = Used /\ Listed' = Listed /\ Linked' = Linked
BY DEF Ledger, SgwOK, Used, Listed, Linked

LEMMA ServedKept ==
  ASSUME Served, files' = files
  PROVE  Served'
BY DEF Served

-----------------------------------------------------------------------------
(* The timeslots. *)

\* A timeslot that has no gateway is added to the current one.
LEMMA LinkAdded ==
  ASSUME StateTyped, Ledger, NEW ts \in TS, sgwOf[ts] = None,
         Len(gw[sgw].links) < LinksetMax,
         NEW links, links = Append(gw[sgw].links, ts),
         gw' = [gw EXCEPT ![sgw].links = links, ![sgw].linkSetSize = Len(links)],
         sgwOf' = [sgwOf EXCEPT ![ts] = sgw], UNCHANGED <<sgws, sgw, linksAssigned>>
  PROVE  Ledger' /\ Cardinality(Used') = Cardinality(Used) + 1
<1>1. sgw \in Listed /\ sgw \in Gateway /\ sgw # None /\ SgwOK(sgw)
  BY CurrentIs
<1>2. /\ gw'[sgw].links = links /\ gw'[sgw].linkSetSize = Len(links)
      /\ gw'[sgw].appId = gw[sgw].appId
      /\ \A g \in Gateway : g # sgw => gw'[g] = gw[g]
  BY AddLinkIs
<1>3. gw[sgw].links \in Seq(TS) /\ IsInjective(gw[sgw].links) /\ ~ Contains(gw[sgw].links, ts)
  BY <1>1 DEF SgwOK, StateTyped, Sgw
<1>4. /\ links \in Seq(TS) /\ Len(links) = Len(gw[sgw].links) + 1
      /\ IsInjective(links)
      /\ \A x : Contains(links, x) <=> Contains(gw[sgw].links, x) \/ x = ts
  BY <1>3, AppendsIs
<1>5. \A x \in TS : sgwOf'[x] = IF x = ts THEN sgw ELSE sgwOf[x]
  BY DEF StateTyped
<1>6. Listed' = Listed
  BY DEF Listed
<1>7. ASSUME NEW g \in Listed PROVE SgwOK(g)'
  <2>1. SgwOK(g) /\ g \in Gateway /\ g # None
    BY ListedIs, Constants DEF Ledger
  <2>2. CASE g = sgw
    <3>1. Len(links) <= LinksetMax
      BY <1>3, <1>4, Constants
    <3>2. \A x \in TS : Contains(links, x) <=> sgwOf'[x] = sgw
      BY <1>1, <1>4, <1>5 DEF SgwOK
    <3>3. QED
      BY <1>2, <1>4, <2>2, <3>1, <3>2, ZenonT(60) DEF SgwOK
  <2>3. CASE g # sgw
    <3>1. gw'[g] = gw[g]
      BY <1>2, <2>1, <2>3
    <3>2. \A x \in TS : Contains(gw[g].links, x) <=> sgwOf'[x] = g
      BY <1>5, <2>1, <2>3 DEF SgwOK
    <3>3. QED
      BY <2>1, <3>1, <3>2 DEF SgwOK
  <2>4. QED
    BY <2>2, <2>3
<1>8. Ledger'
  <2>1. \A g \in Gateway : gw'[g].appId = gw[g].appId
    BY <1>2
  <2>2. \A k \in 1 .. Len(sgws) : gw'[sgws[k]].appId = k - 1
    BY <2>1, ListedIs DEF Ledger
  <2>3. \A x \in TS : sgwOf'[x] \in Listed \cup {None}
    BY <1>1, <1>5 DEF Ledger
  <2>4. QED
    BY <1>6, <1>7, <2>2, <2>3 DEF Ledger
<1>9. Cardinality(Used') = Cardinality(Used) + 1
  <2>1. Used' = Used \cup {ts} /\ ts \notin Used
    BY <1>1, <1>5 DEF Used
  <2>2. QED
    BY <2>1, UsedFinite, FS_AddElement
<1>10. QED
  BY <1>8, <1>9

\* A timeslot of the current gateway is freed.
LEMMA LinkRemoved ==
  ASSUME StateTyped, Ledger, NEW ts \in TS, sgwOf[ts] = sgw,
         gw' = [gw EXCEPT ![sgw] = Without(@, ts)],
         sgwOf' = [sgwOf EXCEPT ![ts] = None], UNCHANGED <<sgws, sgw, linksAssigned>>
  PROVE  Ledger' /\ Cardinality(Used') = Cardinality(Used) - 1
<1>1. sgw \in Listed /\ sgw \in Gateway /\ sgw # None /\ SgwOK(sgw)
  BY CurrentIs
<1>2. PICK links : links = RemoveFirst(gw[sgw].links, ts)
  OBVIOUS
<1>3. /\ gw'[sgw].links = links /\ gw'[sgw].linkSetSize = Len(links)
      /\ gw'[sgw].appId = gw[sgw].appId
      /\ \A g \in Gateway : g # sgw => gw'[g] = gw[g]
  BY <1>2, RemoveLinkIs
<1>4. gw[sgw].links \in Seq(TS) /\ IsInjective(gw[sgw].links) /\ Contains(gw[sgw].links, ts)
  BY <1>1 DEF SgwOK, StateTyped, Sgw
<1>5. /\ links \in Seq(TS) /\ Len(links) = Len(gw[sgw].links) - 1
      /\ IsInjective(links)
      /\ \A x : Contains(links, x) <=> Contains(gw[sgw].links, x) /\ x # ts
  BY <1>2, <1>4, RemovesIs
<1>6. \A x \in TS : sgwOf'[x] = IF x = ts THEN None ELSE sgwOf[x]
  BY DEF StateTyped
<1>7. Listed' = Listed
  BY DEF Listed
<1>8. ASSUME NEW g \in Listed PROVE SgwOK(g)'
  <2>1. SgwOK(g) /\ g \in Gateway /\ g # None
    BY ListedIs, Constants DEF Ledger
  <2>2. CASE g = sgw
    <3>1. Len(links) <= LinksetMax
      BY <1>1, <1>4, <1>5, Constants DEF SgwOK
    <3>2. \A x \in TS : Contains(links, x) <=> sgwOf'[x] = sgw
      BY <1>1, <1>5, <1>6 DEF SgwOK
    <3>3. QED
      BY <1>3, <1>5, <2>2, <3>1, <3>2 DEF SgwOK
  <2>3. CASE g # sgw
    <3>1. gw'[g] = gw[g]
      BY <1>3, <2>1, <2>3
    <3>2. \A x \in TS : Contains(gw[g].links, x) <=> sgwOf'[x] = g
      BY <1>6, <2>1, <2>3 DEF SgwOK
    <3>3. QED
      BY <2>1, <3>1, <3>2 DEF SgwOK
  <2>4. QED
    BY <2>2, <2>3
<1>9. Ledger'
  <2>1. \A g \in Gateway : gw'[g].appId = gw[g].appId
    BY <1>3
  <2>2. \A k \in 1 .. Len(sgws) : gw'[sgws[k]].appId = k - 1
    BY <2>1, ListedIs DEF Ledger
  <2>3. \A x \in TS : sgwOf'[x] \in Listed \cup {None}
    BY <1>6 DEF Ledger
  <2>4. QED
    BY <1>7, <1>8, <2>2, <2>3 DEF Ledger
<1>10. Cardinality(Used') = Cardinality(Used) - 1
  <2>1. Used' = Used \ {ts} /\ ts \in Used
    BY <1>1, <1>6 DEF Used
  <2>2. QED
    BY <2>1, UsedFinite, FS_RemoveElement
<1>11. QED
  BY <1>9, <1>10

-----------------------------------------------------------------------------
(* The gateways. *)

LEMMA StoredLedger ==
  ASSUME StateTyped, Ledger, NEW valid,
         gw' = [g \in Gateway |-> IF g \in ToSet(sgws) THEN [gw[g] EXCEPT !.spcs = g \in valid] ELSE gw[g]],
         UNCHANGED <<sgws, sgw, sgwOf, linksAssigned>>
  PROVE  Ledger' /\ Used' = Used /\ (Linked => Linked')
<1>1. \A g \in Gateway : /\ gw'[g].links = gw[g].links
                         /\ gw'[g].linkSetSize = gw[g].linkSetSize
                         /\ gw'[g].appId = gw[g].appId
  BY StoredIs
<1>2. Listed' = Listed /\ Used' = Used
  BY DEF Listed, Used
<1>3. \A g \in Listed : SgwOK(g)'
  BY <1>1, ListedIs DEF Ledger, SgwOK
<1>4. \A k \in 1 .. Len(sgws) : gw'[sgws[k]].appId = k - 1
  BY <1>1, ListedIs DEF Ledger
<1>5. Linked => Linked'
  BY <1>1, <1>2, ListedIs DEF Linked
<1>6. QED
  BY <1>2, <1>3, <1>4, <1>5 DEF Ledger

LEMMA EmptyListIs ==
  /\ IsInjective(<<>>) /\ Len(<<>>) = 0 /\ 0 <= LinksetMax
  /\ \A x : ~ Contains(<<>>, x)
BY Constants DEF IsInjective, Contains

LEMMA SgwAdded ==
  ASSUME StateTyped, Ledger, Len(sgws) < AllowedSgws, NEW h \in Gateway, New(h),
         gw' = [gw EXCEPT ![h] = NewSgw(Len(sgws))], sgws' = Append(sgws, h), sgw' = h,
         UNCHANGED <<sgwOf, linksAssigned>>
  PROVE  Ledger' /\ Used' = Used
<1>1. /\ sgws \in Seq(Gateway) /\ Len(sgws) \in Nat /\ Len(sgws) >= 1
      /\ gw \in [Gateway -> Sgw]
  BY DEF StateTyped, Ledger
<1>2. /\ h \notin Listed
      /\ \A x \in TS : sgwOf[x] # h
  BY DEF New, Listed
<1>3. /\ Len(sgws') = Len(sgws) + 1 /\ DOMAIN sgws' = 1 .. Len(sgws) + 1
      /\ sgws'[Len(sgws) + 1] = h
      /\ \A k \in 1 .. Len(sgws) : sgws'[k] = sgws[k]
  BY <1>1
<1>4. \A k \in 1 .. Len(sgws) + 1 : k \in 1 .. Len(sgws) \/ k = Len(sgws) + 1
  BY <1>1
<1>5. \A k \in 1 .. Len(sgws) : sgws[k] \in Listed /\ sgws[k] \in Gateway /\ sgws[k] # h
  BY <1>2, ListedIs
<1>6. Listed' = Listed \cup {h}
  <2>1. \A k \in 1 .. Len(sgws) + 1 : sgws'[k] \in Listed \cup {h}
    BY <1>3, <1>4, <1>5
  <2>2. \A g \in Listed : \E k \in 1 .. Len(sgws) + 1 : sgws'[k] = g
    BY <1>1, <1>3, ListedIs
  <2>3. Len(sgws) + 1 \in 1 .. Len(sgws) + 1
    BY <1>1
  <2>4. Listed' = {sgws'[k] : k \in 1 .. Len(sgws) + 1}
    BY <1>3 DEF Listed, ToSet
  <2>5. QED
    BY <1>3, <2>1, <2>2, <2>3, <2>4
<1>7. IsInjective(sgws')
  <2> SUFFICES ASSUME NEW a \in 1 .. Len(sgws) + 1, NEW b \in 1 .. Len(sgws) + 1, sgws'[a] = sgws'[b]
               PROVE  a = b
    BY <1>3 DEF IsInjective
  <2>1. \A j, k \in 1 .. Len(sgws) : sgws[j] = sgws[k] => j = k
    BY ListedIs DEF Ledger, IsInjective
  <2>2. QED
    BY <1>3, <1>4, <1>5, <2>1
<1>8. gw'[h] = NewSgw(Len(sgws)) /\ \A g \in Gateway : g # h => gw'[g] = gw[g]
  BY <1>1
<1>9. SgwOK(h)'
  <2>1. gw'[h].links = <<>> /\ gw'[h].linkSetSize = 0
    BY <1>1, <1>8, NewSgwIs
  <2>2. QED
    BY <1>2, <2>1, EmptyListIs DEF SgwOK
<1>10. \A g \in Listed : SgwOK(g)'
  BY <1>2, <1>8, ListedIs DEF Ledger, SgwOK
<1>11. \A k \in 1 .. Len(sgws) + 1 : gw'[sgws'[k]].appId = k - 1
  <2>1. \A k \in 1 .. Len(sgws) : gw'[sgws'[k]].appId = k - 1
    BY <1>3, <1>5, <1>8 DEF Ledger
  <2>2. gw'[h].appId = Len(sgws)
    BY <1>1, <1>8, NewSgwIs
  <2>3. Len(sgws) + 1 - 1 = Len(sgws)
    BY <1>1
  <2>4. QED
    BY <1>3, <1>4, <2>1, <2>2, <2>3
<1>12. Len(sgws') \in 1 .. AllowedSgws
  BY <1>1, <1>3, Constants
<1>13. \A x \in TS : sgwOf'[x] \in Listed' \cup {None}
  BY <1>6 DEF Ledger
<1>14. QED
  BY <1>3, <1>6, <1>7, <1>9, <1>10, <1>11, <1>12, <1>13 DEF Ledger, Used

LEMMA SgwRemoved ==
  ASSUME StateTyped, Ledger, NEW r, RemoveSgw(r), Len(sgws) > 1, linksAssigned = Cardinality(Used)
  PROVE  Ledger' /\ linksAssigned' = Cardinality(Used')
<1> DEFINE last   == gw[sgw].links
           theirs == {ts \in TS : sgwOf[ts] = sgw}
<1>1. sgw \in Listed /\ sgw \in Gateway /\ sgw # None /\ SgwOK(sgw)
  BY CurrentIs
<1>2. /\ Len(sgws') = Len(sgws) - 1 /\ sgws' \in Seq(Gateway)
      /\ \A k \in 1 .. Len(sgws) - 1 : sgws'[k] = sgws[k]
      /\ sgw' = sgws[Len(sgws) - 1]
      /\ sgwOf' = [ts \in TS |-> IF Contains(last, ts) THEN None ELSE sgwOf[ts]]
      /\ linksAssigned' = linksAssigned - Len(last) /\ Len(last) \in Nat
      /\ \A g \in Gateway : g # sgw => gw'[g] = gw[g]
  <2>1. sgws # <<>>
    OBVIOUS
  <2>2. QED
    BY <2>1, RemoveSgwIs
<1>3. Len(sgws) \in Nat /\ Len(sgws) - 1 \in Nat /\ linksAssigned \in Int
  BY DEF StateTyped
<1>4. \A k \in 1 .. Len(sgws) - 1 : k \in 1 .. Len(sgws) /\ sgws[k] # sgw /\ sgws[k] \in Listed /\ sgws[k] \in Gateway
  <2>1. \A j, k \in 1 .. Len(sgws) : sgws[j] = sgws[k] => j = k
    BY ListedIs DEF Ledger, IsInjective
  <2>2. Len(sgws) \in 1 .. Len(sgws) /\ sgw = sgws[Len(sgws)]
    BY DEF Ledger
  <2>3. \A k \in 1 .. Len(sgws) - 1 : k \in 1 .. Len(sgws) /\ k # Len(sgws)
    BY <1>3
  <2>4. QED
    BY <2>1, <2>2, <2>3, ListedIs
<1>5. \A ts \in TS : /\ Contains(last, ts) <=> sgwOf[ts] = sgw
                     /\ sgwOf[ts] = sgw => sgwOf'[ts] = None
                     /\ sgwOf[ts] # sgw => sgwOf'[ts] = sgwOf[ts]
  BY <1>1, <1>2 DEF SgwOK
<1>6. Listed' = Listed \ {sgw}
  <2>1. DOMAIN sgws' = 1 .. Len(sgws) - 1
    BY <1>2
  <2>2. Listed' = {sgws'[k] : k \in 1 .. Len(sgws) - 1}
    BY <2>1 DEF Listed, ToSet
  <2>3. \A g \in Listed : g # sgw => \E k \in 1 .. Len(sgws) - 1 : sgws[k] = g
    <3>1. TAKE g \in Listed
    <3>2. HAVE g # sgw
    <3>3. PICK k \in 1 .. Len(sgws) : sgws[k] = g
      BY ListedIs
    <3>4. k # Len(sgws)
      BY <3>2, <3>3 DEF Ledger
    <3>5. k \in 1 .. Len(sgws) - 1
      BY <1>3, <3>4
    <3>6. QED
      BY <3>3, <3>5
  <2>4. \A k \in 1 .. Len(sgws) - 1 : sgws'[k] = sgws[k]
    BY <1>2
  <2>5. Listed' = {sgws[k] : k \in 1 .. Len(sgws) - 1}
    BY <2>2, <2>4
  <2>6. \A g \in Listed' : g \in Listed \ {sgw}
    BY <1>4, <2>5
  <2>7. \A g \in Listed \ {sgw} : g \in Listed'
    BY <2>3, <2>5
  <2>8. QED
    BY <2>6, <2>7
<1>7. ASSUME NEW g \in Listed, g # sgw PROVE SgwOK(g)'
  <2>1. SgwOK(g) /\ g \in Gateway /\ g # None
    BY ListedIs, Constants DEF Ledger
  <2>2. gw'[g] = gw[g]
    BY <1>2, <1>7, <2>1
  <2>3. \A ts \in TS : sgwOf'[ts] = g <=> sgwOf[ts] = g
    BY <1>5, <1>7, <2>1
  <2>4. QED
    BY <2>1, <2>2, <2>3 DEF SgwOK
<1>8. Ledger'
  <2>1. IsInjective(sgws')
    <3>1. DOMAIN sgws' = 1 .. Len(sgws) - 1 /\ DOMAIN sgws = 1 .. Len(sgws)
      BY <1>2, ListedIs
    <3>2. QED
      BY <1>2, <1>4, <3>1 DEF Ledger, IsInjective
  <2>2. Len(sgws') \in 1 .. AllowedSgws /\ sgw' = sgws'[Len(sgws')]
    <3>1. Len(sgws) - 1 \in 1 .. Len(sgws) - 1
      BY <1>3
    <3>2. Len(sgws') \in 1 .. AllowedSgws
      BY <1>2, <1>3, Constants DEF Ledger
    <3>3. QED
      BY <1>2, <3>1, <3>2
  <2>3. \A k \in 1 .. Len(sgws') : gw'[sgws'[k]].appId = k - 1
    <3>1. TAKE k \in 1 .. Len(sgws')
    <3>2. k \in 1 .. Len(sgws) - 1
      BY <1>2
    <3>3. sgws'[k] = sgws[k] /\ gw'[sgws[k]] = gw[sgws[k]]
      BY <1>2, <1>4, <3>2
    <3>4. gw[sgws[k]].appId = k - 1
      BY <1>4, <3>2 DEF Ledger
    <3>5. QED
      BY <3>3, <3>4
  <2>4. \A g \in Listed' : SgwOK(g)'
    BY <1>6, <1>7
  <2>5. \A ts \in TS : sgwOf'[ts] \in Listed' \cup {None}
    BY <1>5, <1>6 DEF Ledger
  <2>6. linksAssigned' <= AllowedLinks
    BY <1>2, <1>3, Constants DEF Ledger
  <2>7. QED
    BY <2>1, <2>2, <2>3, <2>4, <2>5, <2>6 DEF Ledger
<1>9. linksAssigned' = Cardinality(Used')
  <2>1. \A x : x \in theirs <=> Contains(last, x)
    <3>1. last \in Seq(TS)
      BY <1>1 DEF StateTyped, Sgw
    <3>2. \A x : Contains(last, x) => x \in TS
      BY <3>1 DEF Contains
    <3>3. QED
      BY <1>5, <3>2
  <2>2. Cardinality(theirs) = Len(last)
    <3>1. last \in Seq(TS) /\ IsInjective(last)
      BY <1>1 DEF StateTyped, Sgw, SgwOK
    <3> HIDE DEF last, theirs
    <3>2. QED
      BY <2>1, <3>1, Counted
  <2>3. Used' = Used \ theirs /\ Used \cap theirs = theirs
    BY <1>1, <1>5 DEF Used
  <2>4. Cardinality(Used \ theirs) = Cardinality(Used) - Cardinality(Used \cap theirs)
    <3> HIDE DEF theirs
    <3>1. QED
      BY UsedFinite, FS_Difference
  <2>5. QED
    BY <1>2, <2>2, <2>3, <2>4
<1>10. QED
  BY <1>8, <1>9

\* An empty card.
LEMMA EmptyLedger ==
  ASSUME StateTyped, NEW h \in Gateway, gw = [g \in Gateway |-> NewSgw(0)], sgws = <<h>>, sgw = h,
         sgwOf = [ts \in TS |-> None], linksAssigned = 0, files = NoFiles
  PROVE  Ledger /\ linksAssigned = Cardinality(Used) /\ Served
<1>1. Len(sgws) = 1 /\ DOMAIN sgws = {1} /\ sgws[1] = h /\ 1 .. Len(sgws) = {1}
  OBVIOUS
<1>2. Listed = {h}
  BY <1>1 DEF Listed, ToSet
<1>3. gw[h].links = <<>> /\ gw[h].linkSetSize = 0 /\ gw[h].appId = 0
  BY NewSgwIs
<1>4. \A ts \in TS : sgwOf[ts] = None /\ sgwOf[ts] # h
  BY Constants
<1>5. SgwOK(h)
  BY <1>3, <1>4, EmptyListIs DEF SgwOK
<1>6. Ledger
  <2>1. IsInjective(sgws)
    BY <1>1 DEF IsInjective
  <2>2. Len(sgws) \in 1 .. AllowedSgws /\ 0 <= AllowedLinks
    BY <1>1, Constants
  <2>3. \A k \in 1 .. Len(sgws) : gw[sgws[k]].appId = k - 1
    BY <1>1, <1>3
  <2>4. QED
    BY <1>1, <1>2, <1>4, <1>5, <2>1, <2>2, <2>3 DEF Ledger
<1>7. Used = {}
  BY <1>4 DEF Used
<1>8. QED
  BY <1>6, <1>7, FS_EmptySet DEF Served

-----------------------------------------------------------------------------
(* The files. *)

\* What the files say of the timeslot at place p of gateway g's list.
Entry(g, p) == [ts |-> gw[g].links[p], id |-> p - 1, sgw |-> g]

LEMMA IdIs ==
  ASSUME StateTyped, Ledger, NEW g \in Listed, NEW p \in 1 .. Len(gw[g].links)
  PROVE  /\ gw[g].links[p] \in TS
         /\ sgwOf[gw[g].links[p]] = g
         /\ GlobalLinkId(gw[g].links[p]) = p - 1
         /\ p \in Nat /\ p >= 1
<1> DEFINE links == gw[g].links
           ts    == links[p]
<1>1. links \in Seq(TS) /\ IsInjective(links) /\ DOMAIN links = 1 .. Len(links) /\ g # None
  BY ListedIs, Constants, SMTT(60) DEF Ledger, SgwOK, StateTyped, Sgw
<1>2. ts \in TS /\ Contains(links, ts)
  BY <1>1 DEF Contains
<1>3. sgwOf[ts] = g
  BY <1>2 DEF Ledger, SgwOK
<1>4. {k \in DOMAIN links : links[k] = ts} = {p}
  BY <1>1 DEF IsInjective
<1>5. p \in Nat /\ p >= 1 /\ Min({p}) = p
  <2>1. p \in Nat /\ p >= 1
    BY <1>1
  <2>2. QED
    BY <2>1, MinOfOne
<1>6. GlobalLinkId(ts) = FirstLink + Min({p}) - 1
  BY <1>1, <1>3, <1>4 DEF GlobalLinkId
<1>7. QED
  BY <1>2, <1>3, <1>5, <1>6 DEF FirstLink

\* A timeslot that is in the files is at some place of its gateway's list.
LEMMA EntryIs ==
  ASSUME StateTyped, Ledger, NEW ts \in TS, GlobalLinkId(ts) >= 0
  PROVE  /\ sgwOf[ts] \in Listed
         /\ \E p \in 1 .. Len(gw[sgwOf[ts]].links) : gw[sgwOf[ts]].links[p] = ts
<1>1. sgwOf[ts] # None
  BY DEF GlobalLinkId
<1>2. sgwOf[ts] \in Listed
  BY <1>1 DEF Ledger
<1>3. Contains(gw[sgwOf[ts]].links, ts)
  BY <1>2 DEF Ledger, SgwOK
<1>4. QED
  BY <1>2, <1>3 DEF Contains

\* When the last file is written, files and gateways fit together.
LEMMA AllWritten ==
  ASSUME StateTyped, Ledger, Linked, Written(Len(sgws))
  PROVE  Served
<1>1. /\ files.hdlc = Lines(TS)
      /\ Len(files.m3ua) = Len(sgws)
      /\ \A k \in 1 .. Len(sgws) : files.m3ua[k] = Conf(sgws[k])
      /\ DOMAIN files.m3ua = 1 .. Len(sgws)
  BY DEF Written, StateTyped, Files
<1>2. \A k \in 1 .. Len(sgws) : /\ files.m3ua[k].sgw = sgws[k] /\ files.m3ua[k].appid = k - 1
                                /\ files.m3ua[k].linkid = 0
                                /\ files.m3ua[k].links = Len(gw[sgws[k]].links)
  <2>1. TAKE k \in 1 .. Len(sgws)
  <2>2. sgws[k] \in Listed
    BY ListedIs
  <2>3. gw[sgws[k]].appId = k - 1 /\ gw[sgws[k]].linkSetSize = Len(gw[sgws[k]].links)
    BY <2>2 DEF Ledger, SgwOK
  <2>4. files.m3ua[k] = Conf(sgws[k])
    BY <1>1
  <2>5. QED
    BY <2>3, <2>4 DEF Conf, FirstLink
<1>3. ASSUME NEW g \in Listed, NEW p \in 1 .. Len(gw[g].links)
      PROVE  Entry(g, p) \in files.hdlc
  <2>1. PICK ts \in TS : ts = gw[g].links[p] /\ sgwOf[ts] = g /\ GlobalLinkId(ts) = p - 1 /\ p - 1 >= 0
    BY IdIs
  <2>2. QED
    BY <1>1, <2>1 DEF Entry, Lines
<1>4. ASSUME NEW e \in files.hdlc
      PROVE  \E g \in Listed : \E p \in 1 .. Len(gw[g].links) : e = Entry(g, p)
  <2>1. PICK ts \in TS : GlobalLinkId(ts) >= 0 /\ e = [ts |-> ts, id |-> GlobalLinkId(ts), sgw |-> sgwOf[ts]]
    BY <1>1 DEF Lines
  <2>2. PICK g \in Listed : g = sgwOf[ts]
    BY <2>1, EntryIs
  <2>3. PICK p \in 1 .. Len(gw[g].links) : gw[g].links[p] = ts
    BY <2>1, <2>2, EntryIs
  <2>4. GlobalLinkId(ts) = p - 1
    BY <2>3, IdIs
  <2>5. QED
    BY <2>1, <2>2, <2>3, <2>4 DEF Entry
<1>5. \A g, p : Entry(g, p).id = p - 1 /\ Entry(g, p).sgw = g
  BY DEF Entry
<1>6. ASSUME NEW g \in Listed
      PROVE  LET own == {e \in files.hdlc : e.sgw = g}
                 n   == Len(gw[g].links)
             IN  /\ n \in Nat /\ n > 0
                 /\ {e.id : e \in own} = 0 .. 0 + n - 1
                 /\ Cardinality(own) = n
                 /\ Entry(g, 1) \in files.hdlc
  <2> DEFINE n   == Len(gw[g].links)
             own == {e \in files.hdlc : e.sgw = g}
             at  == [p \in 1 .. n |-> Entry(g, p)]
  <2>1. n \in Nat /\ n > 0
    <3>1. gw[g].links \in Seq(TS) /\ gw[g].links # <<>>
      BY ListedIs DEF Linked, StateTyped, Sgw
    <3>2. QED
      BY <3>1
  <2>2. /\ \A p \in 1 .. n : Entry(g, p) \in own
        /\ \A e \in own : \E p \in 1 .. n : e = Entry(g, p)
    <3>1. \A p \in 1 .. n : Entry(g, p) \in own
      BY <1>3, <1>5
    <3>2. ASSUME NEW e \in own PROVE \E p \in 1 .. n : e = Entry(g, p)
      <4>1. PICK h \in Listed : \E p \in 1 .. Len(gw[h].links) : e = Entry(h, p)
        BY <1>4
      <4>2. h = g
        BY <1>5, <4>1
      <4>3. QED
        BY <4>1, <4>2
    <3>3. QED
      BY <3>1, <3>2
  <2> HIDE DEF n, own
  <2>3. {e.id : e \in own} = 0 .. 0 + n - 1
    <3>1. \A e \in own : e.id \in 0 .. n - 1
      <4>1. \A p \in 1 .. n : p - 1 \in 0 .. n - 1
        BY <2>1
      <4>2. QED
        BY <1>5, <2>2, <4>1
    <3>2. ASSUME NEW q \in 0 .. n - 1 PROVE \E e \in own : e.id = q
      <4>1. q + 1 \in 1 .. n /\ q = (q + 1) - 1
        BY <2>1
      <4>2. Entry(g, q + 1) \in own /\ Entry(g, q + 1).id = q
        BY <1>5, <2>2, <4>1
      <4>3. QED
        BY <4>2
    <3>3. 0 + n - 1 = n - 1
      BY <2>1
    <3>4. QED
      BY <3>1, <3>2, <3>3
  <2>4. Cardinality(own) = n
    <3>1. at \in [1 .. n -> own]
      BY <2>2
    <3>2. \A p, q \in 1 .. n : at[p] = at[q] => p = q
      <4> TAKE p, q \in 1 .. n
      <4>1. at[p].id = p - 1 /\ at[q].id = q - 1
        BY <1>5
      <4>2. QED
        BY <2>1, <4>1
    <3>3. \A e \in own : \E p \in 1 .. n : at[p] = e
      BY <2>2
    <3> HIDE DEF at
    <3>4. at \in Bijection(1 .. n, own)
      BY <3>1, <3>2, <3>3 DEF Bijection, Injection, Surjection, IsInjective
    <3>5. IsFiniteSet(1 .. n) /\ Cardinality(1 .. n) = n
      BY <2>1, FS_Interval
    <3>6. QED
      BY <3>4, <3>5, FS_Bijection DEF ExistsBijection
  <2>5. Entry(g, 1) \in files.hdlc
    BY <2>1, <2>2 DEF own
  <2>6. QED
    BY <2>1, <2>3, <2>4, <2>5 DEF n, own
<1>7. {e.sgw : e \in files.hdlc} = {files.m3ua[k].sgw : k \in DOMAIN files.m3ua}
  <2>1. \A e \in files.hdlc : e.sgw \in Listed
    BY <1>4, <1>5
  <2>2. \A g \in Listed : \E e \in files.hdlc : e.sgw = g
    <3> TAKE g \in Listed
    <3>1. Entry(g, 1) \in files.hdlc /\ Entry(g, 1).sgw = g
      BY <1>5, <1>6
    <3>2. QED
      BY <3>1
  <2>3. \A g \in Listed : \E k \in 1 .. Len(sgws) : files.m3ua[k].sgw = g
    BY <1>2, ListedIs
  <2>4. \A k \in 1 .. Len(sgws) : files.m3ua[k].sgw \in Listed
    BY <1>2, ListedIs
  <2>5. QED
    BY <1>1, <2>1, <2>2, <2>3, <2>4
<1>8. ASSUME NEW k \in DOMAIN files.m3ua
      PROVE  LET conf == files.m3ua[k]
                 own  == {e \in files.hdlc : e.sgw = conf.sgw}
             IN  /\ conf.appid = k - 1
                 /\ conf.links > 0
                 /\ {e.id : e \in own} = conf.linkid .. conf.linkid + conf.links - 1
                 /\ Cardinality(own) = conf.links
  <2>1. PICK g \in Listed : g = sgws[k] /\ k \in 1 .. Len(sgws)
    BY <1>1, ListedIs
  <2>2. /\ files.m3ua[k].sgw = g /\ files.m3ua[k].appid = k - 1
        /\ files.m3ua[k].linkid = 0 /\ files.m3ua[k].links = Len(gw[g].links)
    BY <1>2, <2>1
  <2>3. QED
    BY <1>6, <2>2
<1>9. QED
  BY <1>7, <1>8 DEF Served

-----------------------------------------------------------------------------
(* The steps of the one request that is served. *)

LEMMA MovesAlone ==
  ASSUME NEW r \in Requests, Alone(r), \A s \in Requests : s # r => req'[s] = req[s],
         Counts(r)', Knows(r)', Writing(r)'
  PROVE  Alone(r)'
BY DEF Alone

\* A request that has ended leaves the counter right and the files complete.
LEMMA EndsAlone ==
  ASSUME NEW r \in Requests, \A s \in Requests : req'[s] = Idle,
         linksAssigned' = Cardinality(Used'), Served'
  PROVE  Alone(r)'
BY IdleOK DEF Alone, Counts, Knows, Writing

LEMMA IdleIs ==
  ASSUME NEW r \in Requests, Alone(r), req[r].at \notin {"assigned", "freed", "hdlc1", "m3ua"}
  PROVE  linksAssigned = Cardinality(Used) /\ Served
BY DEF Alone, Counts, Writing

LEMMA BeginsAlone ==
  ASSUME Typed, Ledger, \E s \in Requests : Alone(s), Quiet, NEW r \in Requests,
         ClickTimeslot(r) \/ ClickButton(r)
  PROVE  Ledger' /\ Alone(r)'
<1>1. /\ linksAssigned = Cardinality(Used) /\ Served
      /\ \A s \in Requests : req[s] = Idle
  BY IdleOK, IdleIs DEF Quiet
<1>2. UNCHANGED <<gw, sgws, sgw, sgwOf, linksAssigned, files>>
  BY DEF ClickTimeslot, ClickButton
<1>3. Ledger' /\ Used' = Used /\ Served' /\ Linked' = Linked
  BY <1>1, <1>2, LedgerKept, ServedKept
<1>4. CASE ClickTimeslot(r)
  <2>1. PICK ts \in TS : ~ Locked(ts) /\ Begins(r, "toggle", ts)
    BY <1>4 DEF ClickTimeslot
  <2>2. "toggle" \in Phase
    BY DEF Phase
  <2>3. /\ req'[r].at = "toggle" /\ req'[r].ts = ts
        /\ \A s \in Requests : s # r => req'[s] = req[s]
    BY <1>2, <2>1, <2>2, BeginsTypes
  <2>4. Counts(r)' /\ Writing(r)'
    BY <1>1, <1>2, <1>3, <2>3 DEF Counts, Writing
  <2>5. Knows(r)'
    BY <1>2, <2>1, <2>3 DEF Knows, Locked
  <2>6. QED
    BY <1>1, <1>3, <2>3, <2>4, <2>5 DEF Alone
<1>5. CASE ClickButton(r)
  <2>1. PICK button \in {"apply", "add", "remove", "create"} : Enabled(button) /\ Begins(r, button, None)
    BY <1>5 DEF ClickButton
  <2>2. button \in Phase /\ button \notin {"m3ua", "toggle", "assign", "free"}
    BY DEF Phase
  <2>3. /\ req'[r].at = button
        /\ \A s \in Requests : s # r => req'[s] = req[s]
    BY <1>2, <2>1, <2>2, BeginsTypes
  <2>4. Counts(r)' /\ Writing(r)'
    BY <1>1, <1>2, <1>3, <2>3 DEF Counts, Writing
  <2>5. Knows(r)'
    <3>1. button = "remove" => Len(sgws) > 1
      BY <2>1 DEF Enabled
    <3>2. button = "create" => Linked
      BY <2>1 DEF Enabled, Ok, Linked, Listed
    <3>3. QED
      BY <1>2, <1>3, <2>3, <3>1, <3>2 DEF Knows
  <2>6. QED
    BY <1>1, <1>3, <2>3, <2>4, <2>5 DEF Alone
<1>6. QED
  BY <1>4, <1>5

LEMMA ToggleAlone ==
  ASSUME Typed, Ledger, NEW r \in Requests, Alone(r),
         ToggleStatus(r) \/ AddLink(r) \/ Assigned(r) \/ RemoveLink(r) \/ Freed(r)
  PROVE  Ledger' /\ Alone(r)'
<1>1. /\ StateTyped /\ RequestOK(req[r], Len(sgws)) /\ linksAssigned \in Int
      /\ \A s \in Requests : s # r => req[s] = Idle
      /\ Counts(r) /\ Knows(r) /\ Writing(r)
  BY TypedIs DEF Typed, StateTyped, Alone
<1>2. files' = files /\ UNCHANGED <<sgws, sgw>>
  BY DEF ToggleStatus, AddLink, Assigned, RemoveLink, Freed
<1>3. Served'
  BY <1>1, <1>2, ServedKept DEF Writing, ToggleStatus, AddLink, Assigned, RemoveLink, Freed
<1>4. CASE ToggleStatus(r)
  <2>1. /\ req[r].at = "toggle" /\ UNCHANGED <<gw, sgws, sgw, sgwOf, linksAssigned>>
    BY <1>4 DEF ToggleStatus
  <2>2. Ledger' /\ Used' = Used
    BY <2>1, LedgerKept
  <2>3. linksAssigned = Cardinality(Used) /\ ~ Locked(req[r].ts) /\ req[r].ts \in TS
    BY <1>1, <2>1 DEF Counts, Knows, RequestOK
  <2>4. CASE Goes(r, "free") /\ sgwOf[req[r].ts] # None
    <3>1. "free" \in Phase
      BY DEF Phase
    <3>2. /\ req'[r].at = "free" /\ req'[r].ts = req[r].ts
          /\ \A s \in Requests : s # r => req'[s] = req[s]
      BY <2>4, <3>1, GoesMoves DEF Moved
    <3>3. Counts(r)' /\ Writing(r)'
      BY <1>3, <2>1, <2>2, <2>3, <3>2 DEF Counts, Writing
    <3>4. Knows(r)'
      BY <2>1, <2>3, <2>4, <3>2 DEF Knows, Locked
    <3>5. QED
      BY <2>2, <3>2, <3>3, <3>4, MovesAlone
  <2>5. CASE Goes(r, "assign") /\ sgwOf[req[r].ts] = None /\ linksAssigned # AllowedLinks
    <3>1. "assign" \in Phase
      BY DEF Phase
    <3>2. /\ req'[r].at = "assign" /\ req'[r].ts = req[r].ts
          /\ \A s \in Requests : s # r => req'[s] = req[s]
      BY <2>5, <3>1, GoesMoves DEF Moved
    <3>3. linksAssigned < AllowedLinks
      BY <1>1, <2>5, Constants DEF Ledger
    <3>4. Counts(r)' /\ Writing(r)'
      BY <1>3, <2>1, <2>2, <2>3, <3>2, <3>3 DEF Counts, Writing
    <3>5. Knows(r)'
      BY <2>1, <2>5, <3>2 DEF Knows
    <3>6. QED
      BY <2>2, <3>2, <3>4, <3>5, MovesAlone
  <2>6. CASE Ends(r)
    <3>1. \A s \in Requests : req'[s] = Idle
      BY <1>1, <2>1, <2>6, EndsTypes
    <3>2. QED
      BY <1>3, <2>1, <2>2, <2>3, <3>1, EndsAlone
  <2>7. QED
    BY <1>4, <2>4, <2>5, <2>6 DEF ToggleStatus
<1>5. CASE AddLink(r)
  <2>1. req[r].at = "assign" /\ linksAssigned' = linksAssigned
    BY <1>5 DEF AddLink
  <2>2. /\ linksAssigned = Cardinality(Used) /\ linksAssigned < AllowedLinks
        /\ sgwOf[req[r].ts] = None /\ req[r].ts \in TS
    BY <1>1, <2>1 DEF Counts, Knows, RequestOK
  <2>3. CASE Len(gw[sgw].links) < LinksetMax
    <3>1. PICK links : /\ links = Append(gw[sgw].links, req[r].ts)
                       /\ gw' = [gw EXCEPT ![sgw].links = links, ![sgw].linkSetSize = Len(links)]
                       /\ sgwOf' = [sgwOf EXCEPT ![req[r].ts] = sgw]
                       /\ Goes(r, "assigned")
      BY <1>5, <2>3 DEF AddLink
    <3>2. Ledger' /\ Cardinality(Used') = Cardinality(Used) + 1
      BY <1>1, <1>2, <2>1, <2>2, <2>3, <3>1, LinkAdded
    <3>3. "assigned" \in Phase
      BY DEF Phase
    <3>4. /\ req'[r].at = "assigned"
          /\ \A s \in Requests : s # r => req'[s] = req[s]
      BY <3>1, <3>3, GoesMoves DEF Moved
    <3>5. Counts(r)'
      BY <1>1, <2>1, <2>2, <3>2, <3>4, UsedFinite DEF Counts
    <3>6. Knows(r)' /\ Writing(r)'
      BY <1>3, <3>4 DEF Knows, Writing
    <3>7. QED
      BY <3>2, <3>4, <3>5, <3>6, MovesAlone
  <2>4. CASE ~ (Len(gw[sgw].links) < LinksetMax)
    <3>1. Ends(r) /\ UNCHANGED <<gw, sgwOf>>
      BY <1>5, <2>4 DEF AddLink
    <3>2. Ledger' /\ Used' = Used
      BY <1>2, <2>1, <3>1, LedgerKept
    <3>3. \A s \in Requests : req'[s] = Idle
      BY <1>1, <1>2, <3>1, EndsTypes
    <3>4. QED
      BY <1>3, <2>1, <2>2, <3>2, <3>3, EndsAlone
  <2>5. QED
    BY <2>3, <2>4
<1>6. CASE Assigned(r)
  <2>1. /\ req[r].at = "assigned" /\ linksAssigned' = linksAssigned + 1 /\ Ends(r)
        /\ UNCHANGED <<gw, sgws, sgw, sgwOf>>
    BY <1>6 DEF Assigned
  <2>2. linksAssigned = Cardinality(Used) - 1 /\ linksAssigned < AllowedLinks
    BY <1>1, <2>1 DEF Counts
  <2>3. Used' = Used /\ Listed' = Listed
    BY <2>1 DEF Used, Listed
  <2>4. linksAssigned' = Cardinality(Used') /\ linksAssigned' <= AllowedLinks
    BY <1>1, <2>1, <2>2, <2>3, UsedFinite, Constants
  <2>5. Ledger'
    BY <2>1, <2>3, <2>4 DEF Ledger, SgwOK
  <2>6. \A s \in Requests : req'[s] = Idle
    BY <1>1, <2>1, EndsTypes
  <2>7. QED
    BY <1>3, <2>4, <2>5, <2>6, EndsAlone
<1>7. CASE RemoveLink(r)
  <2>1. /\ req[r].at = "free" /\ linksAssigned' = linksAssigned
        /\ gw' = [gw EXCEPT ![sgw] = Without(@, req[r].ts)]
        /\ sgwOf' = [sgwOf EXCEPT ![req[r].ts] = None]
        /\ Goes(r, "freed")
    BY <1>7 DEF RemoveLink
  <2>2. linksAssigned = Cardinality(Used) /\ sgwOf[req[r].ts] = sgw /\ req[r].ts \in TS
    BY <1>1, <2>1 DEF Counts, Knows, RequestOK
  <2>3. Ledger' /\ Cardinality(Used') = Cardinality(Used) - 1
    BY <1>1, <1>2, <2>1, <2>2, LinkRemoved
  <2>4. "freed" \in Phase
    BY DEF Phase
  <2>5. /\ req'[r].at = "freed"
        /\ \A s \in Requests : s # r => req'[s] = req[s]
    BY <2>1, <2>4, GoesMoves DEF Moved
  <2>6. Counts(r)'
    BY <2>1, <2>2, <2>3, <2>5, UsedFinite DEF Counts
  <2>7. Knows(r)' /\ Writing(r)'
    BY <1>3, <2>5 DEF Knows, Writing
  <2>8. QED
    BY <2>3, <2>5, <2>6, <2>7, MovesAlone
<1>8. CASE Freed(r)
  <2>1. /\ req[r].at = "freed" /\ linksAssigned' = linksAssigned - 1 /\ Ends(r)
        /\ UNCHANGED <<gw, sgws, sgw, sgwOf>>
    BY <1>8 DEF Freed
  <2>2. linksAssigned = Cardinality(Used) + 1
    BY <1>1, <2>1 DEF Counts
  <2>3. Used' = Used /\ Listed' = Listed
    BY <2>1 DEF Used, Listed
  <2>4. linksAssigned' = Cardinality(Used') /\ linksAssigned' <= AllowedLinks
    BY <1>1, <2>1, <2>2, <2>3, UsedFinite, Constants DEF Ledger
  <2>5. Ledger'
    BY <2>1, <2>3, <2>4 DEF Ledger, SgwOK
  <2>6. \A s \in Requests : req'[s] = Idle
    BY <1>1, <2>1, EndsTypes
  <2>7. QED
    BY <1>3, <2>4, <2>5, <2>6, EndsAlone
<1>9. QED
  BY <1>4, <1>5, <1>6, <1>7, <1>8

LEMMA ButtonAlone ==
  ASSUME Typed, Ledger, NEW r \in Requests, Alone(r), StoreFields(r) \/ AddSgw(r) \/ RemoveSgw(r)
  PROVE  Ledger' /\ Alone(r)'
<1>1. /\ StateTyped /\ RequestOK(req[r], Len(sgws)) /\ Len(sgws) \in Nat
      /\ \A s \in Requests : s # r => req[s] = Idle
      /\ Knows(r)
  BY TypedIs DEF StateTyped, Typed, Alone
<1>2. req[r].at \in {"apply", "add", "remove", "create", "addSgw", "removeSgw"} /\ files' = files
  BY DEF StoreFields, AddSgw, RemoveSgw
<1>3. linksAssigned = Cardinality(Used) /\ Served'
  BY <1>2, IdleIs, ServedKept
<1>4. CASE StoreFields(r)
  <2>1. UNCHANGED <<sgws, sgw, sgwOf, linksAssigned>>
    BY <1>4 DEF StoreFields
  <2>2. PICK valid : gw' = [g \in Gateway |-> IF g \in ToSet(sgws) THEN [gw[g] EXCEPT !.spcs = g \in valid] ELSE gw[g]]
    BY <1>4 DEF StoreFields
  <2>3. Ledger' /\ Used' = Used /\ (Linked => Linked')
    BY <1>1, <2>1, <2>2, StoredLedger
  <2>4. \/ Ends(r)
        \/ \E phase \in {"addSgw", "removeSgw", "hdlc"} :
             /\ Goes(r, phase)
             /\ phase = "removeSgw" => req[r].at = "remove"
             /\ phase = "hdlc" => req[r].at = "create"
    BY <1>4 DEF StoreFields
  <2>5. CASE Ends(r)
    <3>1. \A s \in Requests : req'[s] = Idle
      BY <1>1, <2>1, <2>5, EndsTypes
    <3>2. QED
      BY <1>3, <2>1, <2>3, <3>1, EndsAlone
  <2>6. ASSUME NEW phase \in {"addSgw", "removeSgw", "hdlc"}, Goes(r, phase),
               phase = "removeSgw" => req[r].at = "remove",
               phase = "hdlc" => req[r].at = "create"
        PROVE  Ledger' /\ Alone(r)'
    <3>1. phase \in Phase
      BY DEF Phase
    <3>2. /\ req'[r].at = phase
          /\ \A s \in Requests : s # r => req'[s] = req[s]
      BY <2>6, <3>1, GoesMoves DEF Moved
    <3>3. Counts(r)' /\ Writing(r)'
      BY <1>3, <2>1, <2>3, <3>2 DEF Counts, Writing
    <3>4. Knows(r)'
      BY <1>1, <2>1, <2>3, <2>6, <3>2 DEF Knows
    <3>5. QED
      BY <2>3, <3>2, <3>3, <3>4, MovesAlone
  <2>7. QED
    BY <2>4, <2>5, <2>6
<1>5. CASE AddSgw(r)
  <2>1. UNCHANGED <<sgwOf, linksAssigned>>
    BY <1>5 DEF AddSgw
  <2>2. CASE Ends(r) /\ UNCHANGED <<gw, sgws, sgw>>
    <3>1. Ledger' /\ Used' = Used
      BY <2>1, <2>2, LedgerKept
    <3>2. \A s \in Requests : req'[s] = Idle
      BY <1>1, <2>2, EndsTypes
    <3>3. QED
      BY <1>3, <2>1, <3>1, <3>2, EndsAlone
  <2>3. CASE ~ (Ends(r) /\ UNCHANGED <<gw, sgws, sgw>>)
    <3>1. Len(sgws) < AllowedSgws /\ EndsChanging(r)
      BY <1>5, <2>3 DEF AddSgw
    <3>2. PICK h \in Gateway : /\ New(h) /\ gw' = [gw EXCEPT ![h] = NewSgw(Len(sgws))]
                               /\ sgws' = Append(sgws, h) /\ sgw' = h
      BY <1>5, <2>3 DEF AddSgw
    <3>3. Ledger' /\ Used' = Used
      BY <1>1, <2>1, <3>1, <3>2, SgwAdded
    <3>4. Len(sgws') \in Nat
      BY <3>3 DEF Ledger
    <3>5. \A s \in Requests : req'[s] = Idle
      BY <1>1, <3>1, <3>4, EndsChangingTypes, IdleOK
    <3>6. QED
      BY <1>3, <2>1, <3>3, <3>5, EndsAlone
  <2>4. QED
    BY <2>2, <2>3
<1>6. CASE RemoveSgw(r)
  <2>1. Len(sgws) > 1 /\ sgws # <<>>
    BY <1>1, <1>6 DEF Knows, RemoveSgw
  <2>2. Ledger' /\ linksAssigned' = Cardinality(Used')
    BY <1>1, <1>3, <1>6, <2>1, SgwRemoved
  <2>3. EndsChanging(r)
    BY <1>6, <2>1 DEF RemoveSgw
  <2>4. Len(sgws') \in Nat
    BY <2>2 DEF Ledger
  <2>5. \A s \in Requests : req'[s] = Idle
    BY <1>1, <2>3, <2>4, EndsChangingTypes, IdleOK
  <2>6. QED
    BY <1>3, <2>2, <2>5, EndsAlone
<1>7. QED
  BY <1>4, <1>5, <1>6

LEMMA LinesAgain ==
  ASSUME UNCHANGED <<gw, sgws, sgw, sgwOf, linksAssigned>>
  PROVE  /\ \A pcm : Lines(pcm)' = Lines(pcm)
         /\ \A g : Conf(g)' = Conf(g)
BY DEF Lines, GlobalLinkId, Conf

LEMMA WritesAlone ==
  ASSUME Typed, Ledger, NEW r \in Requests, Alone(r), Writes(r)
  PROVE  Ledger' /\ Alone(r)'
<1>1. /\ StateTyped /\ RequestsTyped /\ RequestOK(req[r], Len(sgws)) /\ Len(sgws) \in Nat
      /\ \A s \in Requests : s # r => req[s] = Idle
      /\ Counts(r) /\ Knows(r) /\ Writing(r)
  BY TypedIs DEF StateTyped, Typed, Alone
<1>2. UNCHANGED <<gw, sgws, sgw, sgwOf, linksAssigned>>
  BY DEF Writes, WriteHdlc, WriteHdlc1, WriteM3ua
<1>3. Ledger' /\ Used' = Used /\ Linked' = Linked
  BY <1>2, LedgerKept
<1>4. req[r].at \in {"hdlc", "hdlc1", "m3ua"}
  BY DEF Writes, WriteHdlc, WriteHdlc1, WriteM3ua
<1>5. Linked /\ linksAssigned = Cardinality(Used)
  BY <1>1, <1>4 DEF Knows, Counts
<1>6. CASE WriteHdlc(r)
  <2>1. files' = [NoFiles EXCEPT !.hdlc = Lines(TS \ SecondPcm)] /\ Goes(r, "hdlc1")
    BY <1>6 DEF WriteHdlc
  <2>2. files'.hdlc = Lines(TS \ SecondPcm) /\ files'.m3ua = <<>>
    BY <2>1 DEF NoFiles
  <2>3. "hdlc1" \in Phase
    BY DEF Phase
  <2>4. /\ req'[r].at = "hdlc1"
        /\ \A s \in Requests : s # r => req'[s] = req[s]
    BY <2>1, <2>3, GoesMoves DEF Moved
  <2>5. Counts(r)' /\ Knows(r)'
    BY <1>2, <1>3, <1>5, <2>4 DEF Counts, Knows
  <2>6. Writing(r)'
    <3>1. Lines(TS \ SecondPcm)' = Lines(TS \ SecondPcm)
      BY <1>2, LinesAgain
    <3>2. files'.hdlc = Lines(TS \ SecondPcm)' /\ files'.m3ua = <<>>
      BY <2>2, <3>1
    <3>3. QED
      BY <2>4, <3>2 DEF Writing
  <2>7. QED
    BY <1>3, <2>4, <2>5, <2>6, MovesAlone
<1>7. CASE WriteHdlc1(r)
  <2>1. files' = [files EXCEPT !.hdlc = @ \cup Lines(SecondPcm)] /\ Goes(r, "m3ua") /\ req[r].at = "hdlc1"
    BY <1>7 DEF WriteHdlc1
  <2>2. files.hdlc = Lines(TS \ SecondPcm) /\ files.m3ua = <<>>
    BY <1>1, <2>1 DEF Writing
  <2>3. files'.hdlc = files.hdlc \cup Lines(SecondPcm) /\ files'.m3ua = files.m3ua
    BY <1>1, <2>1 DEF StateTyped, Files
  <2>4. Lines(TS \ SecondPcm) \cup Lines(SecondPcm) = Lines(TS)
    <3>1. TS = (TS \ SecondPcm) \cup SecondPcm
      BY Constants
    <3>2. QED
      BY <3>1 DEF Lines
  <2>5. Lines(TS)' = Lines(TS)
    BY <1>2, LinesAgain
  <2>6. "m3ua" \in Phase
    BY DEF Phase
  <2>7. /\ req'[r].at = "m3ua" /\ req'[r].iter = req[r].iter /\ req'[r].changed = req[r].changed
        /\ \A s \in Requests : s # r => req'[s] = req[s]
    BY <2>1, <2>6, GoesMoves DEF Moved
  <2>8. req[r].iter = 0 /\ ~ req[r].changed
    BY <1>1, <2>1 DEF RequestOK
  <2>9. Counts(r)' /\ Knows(r)'
    BY <1>2, <1>3, <1>5, <2>7 DEF Counts, Knows
  <2>10. Written(0)'
    <3>1. Len(files'.m3ua) = 0 /\ 0 <= Len(sgws')
      BY <1>1, <1>2, <2>2, <2>3
    <3>2. files'.hdlc = Lines(TS)'
      BY <2>2, <2>3, <2>4, <2>5, Zenon
    <3>3. \A k \in 1 .. 0 : files'.m3ua[k] = Conf(sgws[k])'
      OBVIOUS
    <3>4. QED
      BY <3>1, <3>2, <3>3 DEF Written
  <2>11. Writing(r)'
    BY <2>7, <2>8, <2>10 DEF Writing
  <2>12. QED
    BY <1>3, <2>7, <2>9, <2>11, MovesAlone
<1>8. CASE WriteM3ua(r)
  <2>1. req[r].at = "m3ua"
    BY <1>8 DEF WriteM3ua
  <2>2. Written(req[r].iter) /\ ~ req[r].changed /\ req[r].iter \in Nat
    BY <1>1, <2>1 DEF Writing, RequestOK, Request
  <2>3. CASE req[r].iter = Len(sgws)
    <3>1. Ends(r) /\ files' = files
      BY <1>8, <2>3 DEF WriteM3ua
    <3>2. Served
      BY <1>1, <1>5, <2>2, <2>3, AllWritten
    <3>3. \A s \in Requests : req'[s] = Idle
      BY <1>1, <1>2, <3>1, EndsTypes
    <3>4. Served'
      BY <3>1, <3>2, ServedKept
    <3>5. QED
      BY <1>2, <1>3, <1>5, <3>3, <3>4, EndsAlone
  <2>4. CASE req[r].iter # Len(sgws)
    <3>0. PICK n : n = req[r].iter
      OBVIOUS
    <3>1. WritesNext(r)
      BY <1>8, <2>2, <2>4 DEF WriteM3ua, WritesNext
    <3>2. /\ n + 1 \in 1 .. Len(sgws)
          /\ files'.hdlc = files.hdlc
          /\ files'.m3ua = Append(files.m3ua, Conf(sgws[n + 1]))
          /\ req'[r].at = "m3ua" /\ req'[r].iter = n + 1 /\ req'[r].changed = req[r].changed
          /\ \A s \in Requests : s # r => req'[s] = req[s]
      BY <1>1, <1>2, <3>0, <3>1, WritesNextIs
    <3>3. Counts(r)' /\ Knows(r)'
      BY <1>2, <1>3, <1>5, <3>2 DEF Counts, Knows
    <3>4. Written(n + 1)'
      <4>1. files.hdlc = Lines(TS) /\ Len(files.m3ua) = n /\ \A k \in 1 .. n : files.m3ua[k] = Conf(sgws[k])
        BY <2>2, <3>0 DEF Written
      <4>2. files.m3ua \in Seq([sgw : Gateway, appid : Nat, linkid : Nat, links : Nat])
        BY <1>1 DEF StateTyped, Files
      <4>3. /\ Len(files'.m3ua) = n + 1 /\ files'.m3ua[n + 1] = Conf(sgws[n + 1])
            /\ \A k \in 1 .. n : files'.m3ua[k] = files.m3ua[k]
        BY <2>2, <3>0, <3>2, <4>1, <4>2
      <4>4. \A k \in 1 .. n + 1 : k \in 1 .. n \/ k = n + 1
        BY <2>2, <3>0
      <4>5. \A k \in 1 .. n + 1 : files'.m3ua[k] = Conf(sgws[k])
        BY <4>1, <4>3, <4>4
      <4>6. Lines(TS)' = Lines(TS) /\ \A g : Conf(g)' = Conf(g)
        BY <1>2, LinesAgain
      <4>7. \A k \in 1 .. n + 1 : files'.m3ua[k] = Conf(sgws[k])'
        <5>1. \A k : Conf(sgws[k])' = Conf(sgws[k])
          BY <1>2 DEF Conf
        <5>2. QED
          BY <4>5, <5>1
      <4>8. n + 1 <= Len(sgws')
        BY <1>2, <3>2
      <4>9. files'.hdlc = Lines(TS)'
        BY <3>2, <4>1, <4>6, Zenon
      <4>10. QED
        BY <4>3, <4>7, <4>8, <4>9 DEF Written
    <3>5. Writing(r)'
      BY <2>2, <3>2, <3>4 DEF Writing
    <3>6. QED
      BY <1>3, <3>2, <3>3, <3>5, MovesAlone
  <2>5. QED
    BY <2>3, <2>4
<1>9. QED
  BY <1>6, <1>7, <1>8 DEF Writes


-----------------------------------------------------------------------------
(* Every step keeps the invariant. *)

\* Nothing is served, and the counter and the files are right.
LEMMA QuietIs ==
  ASSUME Typed, Quiet, \E s \in Requests : Alone(s)
  PROVE  /\ \A s \in Requests : req[s] = Idle
         /\ linksAssigned = Cardinality(Used) /\ Served
BY IdleOK, IdleIs DEF Quiet

\* A session that begins when nothing is served.
LEMMA SessionAlone ==
  ASSUME Typed, Typed', NewSession, Quiet
  PROVE  Ledger' /\ \E r \in Requests : Alone(r)'
<1>1. PICK h \in Gateway : sgws' = <<h>> /\ sgw' = h
  BY DEF NewSession
<1>2. (/\ StateTyped /\ gw = [g \in Gateway |-> NewSgw(0)] /\ sgws = <<h>> /\ sgw = h
       /\ sgwOf = [ts \in TS |-> None] /\ linksAssigned = 0 /\ files = NoFiles
       => Ledger /\ linksAssigned = Cardinality(Used) /\ Served)'
  BY EmptyLedger, PTL
<1>3. StateTyped'
  BY TypedIs, PTL
<1>4. Ledger' /\ linksAssigned' = Cardinality(Used') /\ Served'
  BY <1>1, <1>2, <1>3 DEF NewSession
<1>5. \A s \in Requests : req'[s] = Idle
  BY IdleOK DEF NewSession, Quiet
<1>6. PICK r \in Requests : TRUE
  BY ConfigurationAssumption
<1>7. QED
  BY <1>4, <1>5, <1>6, EndsAlone

LEMMA EditAlone ==
  ASSUME Typed, Ledger, \E s \in Requests : Alone(s), Edit, Quiet
  PROVE  Ledger' /\ \E r \in Requests : Alone(r)'
<1>1. /\ \A s \in Requests : req[s] = Idle
      /\ linksAssigned = Cardinality(Used)
  BY QuietIs
<1>2. Ledger' /\ Used' = Used
  BY LedgerKept DEF Edit
<1>3. Served'
  BY DEF Edit, Served
<1>4. PICK r \in Requests : TRUE
  BY ConfigurationAssumption
<1>5. (\A s \in Requests : req'[s] = Idle) /\ linksAssigned' = Cardinality(Used')
  BY <1>1, <1>2 DEF Edit
<1>6. QED
  BY <1>2, <1>3, <1>4, <1>5, EndsAlone

\* A request that begins, and leaves the number of overlaps at 0, begins alone.
LEMMA BeginsCounted ==
  ASSUME overlaps \in Nat, overlaps' = 0, NEW r \in Requests, ClickTimeslot(r) \/ ClickButton(r)
  PROVE  Quiet /\ overlaps = 0
<1>1. overlaps' = IF Quiet /\ overlaps = 0 THEN 0 ELSE overlaps + 1
  <2>1. CASE ClickTimeslot(r)
    <3>1. PICK ts \in TS : Begins(r, "toggle", ts)
      BY <2>1 DEF ClickTimeslot
    <3>2. QED
      BY <3>1 DEF Begins
  <2>2. CASE ClickButton(r)
    <3>1. PICK button \in {"apply", "add", "remove", "create"} : Begins(r, button, None)
      BY <2>2 DEF ClickButton
    <3>2. QED
      BY <3>1 DEF Begins
  <2>3. QED
    BY <2>1, <2>2
<1>2. QED
  BY <1>1

LEMMA RequestAlone ==
  ASSUME Typed, Ledger, NEW s \in Requests, Alone(s), overlaps = 0, overlaps' = 0,
         NEW r \in Requests, Toggle(r) \/ Button(r) \/ Writes(r)
  PROVE  Ledger' /\ Alone(r)'
<1>1. CASE ClickTimeslot(r) \/ ClickButton(r)
  <2>1. Quiet
    BY <1>1, BeginsCounted
  <2>2. QED
    BY <1>1, <2>1, BeginsAlone
<1>2. CASE ~ (ClickTimeslot(r) \/ ClickButton(r))
  <2>1. \/ ToggleStatus(r) \/ AddLink(r) \/ Assigned(r) \/ RemoveLink(r) \/ Freed(r)
        \/ StoreFields(r) \/ AddSgw(r) \/ RemoveSgw(r)
        \/ Writes(r)
    BY <1>2 DEF Toggle, Button
  <2>2. req[r].at # "idle"
    BY <2>1 DEF ToggleStatus, AddLink, Assigned, RemoveLink, Freed, StoreFields, AddSgw, RemoveSgw,
                Writes, WriteHdlc, WriteHdlc1, WriteM3ua
  <2>3. r = s
    BY <2>2, IdleOK DEF Alone
  <2>4. QED
    BY <2>1, <2>3, ToggleAlone, ButtonAlone, WritesAlone
<1>3. QED
  BY <1>1, <1>2

LEMMA Steps ==
  ASSUME IInv, [Next]_vars
  PROVE  IInv'
<1>1. Typed /\ Typed' /\ overlaps \in Nat
  BY Types, TypedIs, Constants DEF IInv, RequestsTyped
<1>2. ASSUME overlaps' = 0 PROVE Ledger' /\ \E r \in Requests : Alone(r)'
  <2>1. CASE NewSession
    <3>1. Quiet
      BY <1>1, <1>2, <2>1 DEF NewSession
    <3>2. QED
      BY <1>1, <2>1, <3>1, SessionAlone
  <2>2. CASE Edit
    <3>1. Quiet /\ overlaps = 0
      BY <1>1, <1>2, <2>2 DEF Edit
    <3>2. QED
      BY <1>1, <2>2, <3>1, EditAlone DEF IInv
  <2>3. ASSUME NEW r \in Requests, Toggle(r) \/ Button(r) \/ Writes(r)
        PROVE  Ledger' /\ Alone(r)'
    <3>1. overlaps = 0
      <4>1. CASE ClickTimeslot(r) \/ ClickButton(r)
        BY <1>1, <1>2, <4>1, BeginsCounted
      <4>2. CASE ~ (ClickTimeslot(r) \/ ClickButton(r))
        BY <1>2, <2>3, <4>2 DEF Toggle, ToggleStatus, AddLink, Assigned, RemoveLink, Freed,
             Button, StoreFields, AddSgw, RemoveSgw, EndsChanging,
             Writes, WriteHdlc, WriteHdlc1, WriteM3ua, Goes, Ends
      <4>3. QED
        BY <4>1, <4>2
    <3>2. PICK s \in Requests : Alone(s)
      BY <3>1 DEF IInv
    <3>3. QED
      BY <1>1, <1>2, <2>3, <3>1, <3>2, RequestAlone DEF IInv
  <2>4. CASE UNCHANGED vars
    <3>1. /\ UNCHANGED <<gw, sgws, sgw, sgwOf, linksAssigned, files, req>>
          /\ overlaps = 0
      BY <1>2, <2>4 DEF vars
    <3>2. PICK s \in Requests : Ledger /\ Alone(s)
      BY <3>1 DEF IInv
    <3>3. Ledger' /\ Used' = Used /\ Linked' = Linked
      BY <3>1, <3>2, LedgerKept
    <3>4. \A pcm : Lines(pcm)' = Lines(pcm)
      BY <3>1 DEF Lines, GlobalLinkId
    <3>5. Alone(s)'
      BY <3>1, <3>2, <3>3, <3>4, ZenonT(60) DEF Alone, Counts, Knows, Locked, Writing, Written, Conf,
         Served
    <3>6. QED
      BY <3>3, <3>5
  <2>5. QED
    BY <2>1, <2>2, <2>3, <2>4 DEF Next
<1>3. QED
  BY <1>1, <1>2 DEF IInv

\* The inductive invariant holds in every state.
THEOREM Invariant == Spec => []IInv
<1>1. Init => IInv
  <2> SUFFICES ASSUME Init PROVE IInv
    OBVIOUS
  <2>1. Typed /\ StateTyped
    BY Types, TypedIs
  <2>2. PICK h \in Gateway : sgws = <<h>> /\ sgw = h
    BY DEF Init
  <2>3. Ledger /\ linksAssigned = Cardinality(Used) /\ Served
    BY <2>1, <2>2, EmptyLedger DEF Init
  <2>4. PICK r \in Requests : TRUE
    BY ConfigurationAssumption
  <2>5. Alone(r)
    BY <2>3, IdleOK DEF Init, Alone, Counts, Knows, Writing
  <2>6. QED
    BY <2>1, <2>3, <2>5 DEF IInv
<1>2. IInv /\ [Next]_vars => IInv'
  BY Steps
<1>3. QED
  BY <1>1, <1>2, PTL DEF Spec

\* Every variable keeps its type whatever requests overlap: no request is at a
\* phase that its button does not have, or handles what is not a timeslot.
THEOREM ConfigurationTypes == Spec => []TypeOK
<1>1. IInv => TypeOK
  BY Parts
<1>2. QED
  BY <1>1, Invariant, PTL

\* Between requests, as long as none has overlapped another since a session began
\* alone, the lists of the gateways, the gateways that timeslots know and the
\* counters agree, for pages however old and in any order of requests.
THEOREM AlwaysConsistent == Spec => []Consistent
<1>1. IInv => Consistent
  BY Parts
<1>2. QED
  BY <1>1, Invariant, PTL

\* As long as no request has overlapped another since a session began alone, the
\* files that are offered between requests give each gateway links, and just the
\* keys that the gateway will attach to.
THEOREM FilesServeLinks == Spec => []LinksServed
<1>1. IInv => LinksServed
  BY Parts
<1>2. QED
  BY <1>1, Invariant, PTL
=============================================================================
