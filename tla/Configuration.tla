--------------------------- MODULE Configuration ---------------------------
(***************************************************************************)
(* The web application that assigns the timeslots of a card to gateways    *)
(* and writes the configuration files (Configuration.java, Sgw.java,       *)
(* Timeslot.java, Pcm.java).  Its state is static: all sessions share it,  *)
(* every page, however old, acts on it, and no lock guards it.  A click is *)
(* a request, which a thread of its own serves in phases: a button that is *)
(* disabled now is not heard; the fields of the form are stored; the       *)
(* action runs.  A step is one phase, or one call of the action: between   *)
(* two steps of a request, others may take theirs.                         *)
(***************************************************************************)
EXTENDS Integers, Sequences, FiniteSets, FiniteSetsExt, SequencesExt

CONSTANTS
  TS,            \* the timeslots of both PCMs but the first of each, which is locked
  SecondPcm,     \* those of the second PCM
  Gateway,       \* identities of Sgw objects
  None,          \* null
  Requests,      \* the threads that serve requests
  Overlaps,      \* bound on overlaps
  AllowedSgws,
  AllowedLinks,
  LinksetMax     \* 16 in addLink()

ASSUME ConfigurationAssumption ==
  /\ IsFiniteSet(TS)
  /\ SecondPcm \subseteq TS
  /\ Requests # {}
  /\ None \notin Gateway /\ None \notin TS
  /\ {AllowedSgws, AllowedLinks, LinksetMax} \subseteq Nat \ {0}
  /\ Overlaps \in Nat

VARIABLES
  gw,             \* the Sgw objects; opc and dpc only by whether they are valid
  sgws, sgw,      \* the gateways in order, and the current one
  sgwOf,          \* Timeslot::sgw
  linksAssigned,
  files,          \* the files that are offered for download
  req,            \* what each thread is about to do, the timeslot it is about,
                  \* its place in the gateways, and have they changed since
  overlaps        \* requests that began while another was served, and all that
                  \* followed: none when a session begins and no request is served

vars == <<gw, sgws, sgw, sgwOf, linksAssigned, files, req, overlaps>>

\* The constructor of Sgw assigns firstLink to itself.
FirstLink == 0
NewSgw(appId) == [appId |-> appId, links |-> <<>>, linkSetSize |-> 0, spcs |-> FALSE]
NoFiles == [hdlc |-> {}, m3ua |-> <<>>]

Idle == [at |-> "idle", ts |-> None, iter |-> 0, changed |-> FALSE]
Quiet == \A r \in Requests : req[r] = Idle

Begins(r, phase, ts) ==
  /\ req[r] = Idle
  /\ req' = [req EXCEPT ![r] = [Idle EXCEPT !.at = phase, !.ts = ts]]
  /\ overlaps' = IF Quiet /\ overlaps = 0 THEN 0 ELSE overlaps + 1
  /\ overlaps' <= Overlaps

Goes(r, phase) == req' = [req EXCEPT ![r].at = phase] /\ UNCHANGED overlaps
Ends(r) == req' = [req EXCEPT ![r] = Idle] /\ UNCHANGED overlaps
-----------------------------------------------------------------------------
(* A button of the PCM table: toggleStatus().                              *)

\* Mutant: every gateway's timeslots can be toggled.
LockedNever(ts) == FALSE
Locked(ts) == sgwOf[ts] \notin {None, sgw}

ClickTimeslot(r) ==
  /\ \E ts \in TS : ~ Locked(ts) /\ Begins(r, "toggle", ts)
  /\ UNCHANGED <<gw, sgws, sgw, sgwOf, linksAssigned, files>>

ToggleStatus(r) ==
  /\ req[r].at = "toggle"
  /\ IF sgwOf[req[r].ts] # None THEN Goes(r, "free")
     ELSE IF linksAssigned = AllowedLinks THEN Ends(r)
     ELSE Goes(r, "assign")
  /\ UNCHANGED <<gw, sgws, sgw, sgwOf, linksAssigned, files>>

AddLink(r) ==
  /\ req[r].at = "assign"
  /\ LET links == Append(gw[sgw].links, req[r].ts)
     IN  IF Len(gw[sgw].links) < LinksetMax
         THEN /\ gw' = [gw EXCEPT ![sgw].links = links, ![sgw].linkSetSize = Len(links)]
              /\ sgwOf' = [sgwOf EXCEPT ![req[r].ts] = sgw]
              /\ Goes(r, "assigned")
         ELSE Ends(r) /\ UNCHANGED <<gw, sgwOf>>
  /\ UNCHANGED <<sgws, sgw, linksAssigned, files>>

Assigned(r) ==
  /\ req[r].at = "assigned"
  /\ linksAssigned' = linksAssigned + 1
  /\ Ends(r)
  /\ UNCHANGED <<gw, sgws, sgw, sgwOf, files>>

\* Mutant: the size is not brought up to date.
WithoutCount(g, ts) == [g EXCEPT !.links = RemoveFirst(g.links, ts)]

\* removeLink() on a gateway.
Without(g, ts) ==
  LET links == RemoveFirst(g.links, ts)
  IN  [g EXCEPT !.links = links, !.linkSetSize = Len(links)]

RemoveLink(r) ==
  /\ req[r].at = "free"
  /\ gw' = [gw EXCEPT ![sgw] = Without(@, req[r].ts)]
  /\ sgwOf' = [sgwOf EXCEPT ![req[r].ts] = None]
  /\ Goes(r, "freed")
  /\ UNCHANGED <<sgws, sgw, linksAssigned, files>>

Freed(r) ==
  /\ req[r].at = "freed"
  /\ linksAssigned' = linksAssigned - 1
  /\ Ends(r)
  /\ UNCHANGED <<gw, sgws, sgw, sgwOf, files>>

-----------------------------------------------------------------------------
(* The buttons of the gateway table.  Each stores the SPCs of all rows.    *)

Ok(g) == gw[g].spcs /\ gw[g].links # <<>>

Enabled(button) ==
  CASE button = "apply"  -> TRUE
    [] button = "add"    -> Ok(sgw) /\ Len(sgws) < AllowedSgws
    [] button = "remove" -> Len(sgws) > 1
    [] button = "create" -> \A g \in ToSet(sgws) : Ok(g)

ClickButton(r) ==
  /\ \E button \in {"apply", "add", "remove", "create"} :
       Enabled(button) /\ Begins(r, button, None)
  /\ UNCHANGED <<gw, sgws, sgw, sgwOf, linksAssigned, files>>

StoreFields(r) ==
  /\ \E valid \in SUBSET ToSet(sgws) :
       gw' = [g \in Gateway |-> IF g \in ToSet(sgws) THEN [gw[g] EXCEPT !.spcs = g \in valid] ELSE gw[g]]
  /\ \/ req[r].at = "apply" /\ Ends(r)
     \/ req[r].at = "add" /\ Goes(r, "addSgw")
     \/ req[r].at = "remove" /\ Goes(r, "removeSgw")
     \/ req[r].at = "create" /\ Goes(r, "hdlc")
  /\ UNCHANGED <<sgws, sgw, sgwOf, linksAssigned, files>>

\* The request ends, and those that go through the gateways will find them changed.
EndsChanging(r) ==
  /\ req' = [s \in Requests |-> IF s = r THEN Idle
                                ELSE IF req[s].at = "m3ua" THEN [req[s] EXCEPT !.changed = TRUE]
                                ELSE req[s]]
  /\ UNCHANGED overlaps

\* No object that can still be reached.
New(g) == g \notin ToSet(sgws) \cup {sgw} \cup {sgwOf[ts] : ts \in TS}

AddSgw(r) ==
  /\ req[r].at = "addSgw"
  /\ \/ /\ linksAssigned # AllowedLinks /\ Ok(sgw) /\ Len(sgws) < AllowedSgws
        /\ \E g \in Gateway :
             /\ New(g)
             /\ gw' = [gw EXCEPT ![g] = NewSgw(Len(sgws))]
             /\ sgws' = Append(sgws, g)
             /\ sgw' = g
        /\ EndsChanging(r)
     \/ /\ ~ (linksAssigned # AllowedLinks /\ Ok(sgw) /\ Len(sgws) < AllowedSgws)
        /\ Ends(r)
        /\ UNCHANGED <<gw, sgws, sgw>>
  /\ UNCHANGED <<sgwOf, linksAssigned, files>>

\* delete() frees the timeslots that the gateway lists.  Of an object that is
\* in no list and not current, nothing but the identity is looked at again.
Deleted(g, current) ==
  IF current THEN [g EXCEPT !.links = <<>>, !.linkSetSize = 0] ELSE NewSgw(0)

\* The last gateway stays the current one: get(-1) throws.
RemoveSgw(r) ==
  /\ req[r].at = "removeSgw"
  /\ IF sgws = <<>>
     THEN Ends(r) /\ UNCHANGED <<gw, sgws, sgw, sgwOf, linksAssigned>>
     ELSE /\ linksAssigned' = linksAssigned - Len(gw[sgw].links)
          /\ sgwOf' = [ts \in TS |-> IF Contains(gw[sgw].links, ts) THEN None ELSE sgwOf[ts]]
          /\ sgws' = Front(sgws)
          /\ sgw' = IF sgws' = <<>> THEN sgw ELSE Last(sgws')
          /\ gw' = [gw EXCEPT ![sgw] = Deleted(@, sgw' = sgw)]
          /\ EndsChanging(r)
  /\ UNCHANGED files

-----------------------------------------------------------------------------
(* The files.                                                              *)

\* getGlobalLinkId(): -1 is no link.
GlobalLinkId(ts) ==
  IF sgwOf[ts] = None THEN -1
  ELSE LET at == {k \in DOMAIN gw[sgwOf[ts]].links : gw[sgwOf[ts]].links[k] = ts}
       IN  IF at = {} THEN -1 ELSE FirstLink + Min(at) - 1

\* Mutant: timeslots without a link are written too.
LinesAll(pcm) == {[ts |-> ts, id |-> GlobalLinkId(ts), sgw |-> sgwOf[ts]] : ts \in pcm}

\* conf() of a PCM; the gateway is not in it: history.
Lines(pcm) ==
  {[ts |-> ts, id |-> GlobalLinkId(ts), sgw |-> sgwOf[ts]] : ts \in {x \in pcm : GlobalLinkId(x) >= 0}}

\* conf() of a gateway; the gateway itself is history.
Conf(g) == [sgw |-> g, appid |-> gw[g].appId, linkid |-> FirstLink, links |-> gw[g].linkSetSize]

WriteHdlc(r) ==
  /\ req[r].at = "hdlc"
  /\ files' = [NoFiles EXCEPT !.hdlc = Lines(TS \ SecondPcm)]
  /\ Goes(r, "hdlc1")
  /\ UNCHANGED <<gw, sgws, sgw, sgwOf, linksAssigned>>

WriteHdlc1(r) ==
  /\ req[r].at = "hdlc1"
  /\ files' = [files EXCEPT !.hdlc = @ \cup Lines(SecondPcm)]
  /\ Goes(r, "m3ua")
  /\ UNCHANGED <<gw, sgws, sgw, sgwOf, linksAssigned>>

\* m3ua.conf, m3ua1.conf, ...; an iterator that finds the gateways changed throws.
WriteM3ua(r) ==
  /\ req[r].at = "m3ua"
  /\ IF req[r].iter = Len(sgws) \/ req[r].changed
     THEN Ends(r) /\ UNCHANGED files
     ELSE /\ files' = [files EXCEPT !.m3ua = Append(@, Conf(sgws[req[r].iter + 1]))]
          /\ req' = [req EXCEPT ![r].iter = @ + 1]
          /\ UNCHANGED overlaps
  /\ UNCHANGED <<gw, sgws, sgw, sgwOf, linksAssigned>>

Edit ==
  /\ files # NoFiles
  /\ files' = NoFiles
  /\ overlaps' = IF Quiet /\ overlaps = 0 THEN 0 ELSE overlaps + 1
  /\ overlaps' <= Overlaps
  /\ UNCHANGED <<gw, sgws, sgw, sgwOf, linksAssigned, req>>

-----------------------------------------------------------------------------
Init ==
  /\ gw = [g \in Gateway |-> NewSgw(0)]
  /\ \E g \in Gateway : sgws = <<g>> /\ sgw = g
  /\ sgwOf = [ts \in TS |-> None]
  /\ linksAssigned = 0
  /\ files = NoFiles
  /\ req = [r \in Requests |-> Idle]
  /\ overlaps = 0

\* Configuration() of another session, on the same static state.
NewSession ==
  /\ gw' = [g \in Gateway |-> NewSgw(0)]
  /\ \E g \in Gateway : sgws' = <<g>> /\ sgw' = g
  /\ sgwOf' = [ts \in TS |-> None]
  /\ linksAssigned' = 0
  /\ files' = NoFiles
  /\ req' = [s \in Requests |-> IF req[s].at = "m3ua" THEN [req[s] EXCEPT !.changed = TRUE] ELSE req[s]]
  /\ overlaps' = IF Quiet THEN 0 ELSE overlaps + 1
  /\ overlaps' <= Overlaps

Toggle(r) ==
  ClickTimeslot(r) \/ ToggleStatus(r) \/ AddLink(r) \/ Assigned(r) \/ RemoveLink(r) \/ Freed(r)
Button(r) == ClickButton(r) \/ StoreFields(r) \/ AddSgw(r) \/ RemoveSgw(r)
Writes(r) == WriteHdlc(r) \/ WriteHdlc1(r) \/ WriteM3ua(r)

Next ==
  \/ \E r \in Requests : Toggle(r) \/ Button(r) \/ Writes(r)
  \/ Edit
  \/ NewSession

Spec == Init /\ [][Next]_vars

-----------------------------------------------------------------------------
Sgw == [appId : Nat, links : Seq(TS), linkSetSize : Nat, spcs : BOOLEAN]
Phase == {"idle", "toggle", "assign", "assigned", "free", "freed", "apply", "add", "remove", "create",
          "addSgw", "removeSgw", "hdlc", "hdlc1", "m3ua"}

\* Every variable has its type, whatever requests overlap.
TypeOK ==
  /\ gw \in [Gateway -> Sgw]
  /\ sgws \in Seq(Gateway)
  /\ sgw \in Gateway
  /\ sgwOf \in [TS -> Gateway \cup {None}]
  /\ linksAssigned \in Int
  /\ files \in [hdlc : SUBSET [ts : TS, id : Nat, sgw : Gateway],
                m3ua : Seq([sgw : Gateway, appid : Nat, linkid : Nat, links : Nat])]
  /\ req \in [Requests -> [at : Phase, ts : TS \cup {None}, iter : Nat, changed : BOOLEAN]]
  /\ overlaps \in 0 .. Overlaps

\* No request is served, and none overlapped another since a session last began
\* with none served.
Settled == overlaps = 0 /\ Quiet

\* Between requests that were served one at a time, from pages however old, a
\* timeslot knows the gateway that lists it, no gateway lists one twice or one
\* that knows another, the counters of gateways and card agree with the lists
\* and keep their limits, and gateways are numbered in order.  A new session
\* makes it so again, whatever overlapping requests have left.
Consistent ==
  Settled =>
    /\ IsInjective(sgws) /\ Len(sgws) \in 1 .. AllowedSgws /\ sgw = Last(sgws)
    /\ \A k \in DOMAIN sgws : gw[sgws[k]].appId = k - 1
    /\ \A g \in ToSet(sgws) :
         /\ IsInjective(gw[g].links)
         /\ \A ts \in TS : Contains(gw[g].links, ts) <=> sgwOf[ts] = g
         /\ gw[g].linkSetSize = Len(gw[g].links)
         /\ Len(gw[g].links) <= LinksetMax
    /\ \A ts \in TS : sgwOf[ts] \in ToSet(sgws) \cup {None}
    /\ linksAssigned = Cardinality({ts \in TS : sgwOf[ts] # None})
    /\ linksAssigned <= AllowedLinks

\* The files that requests served one at a time have written fit together: each
\* gateway has one file, of its own name, and a link, and the keys it will
\* attach to, linkid and those that follow, are just the ids of its timeslots.
LinksServed ==
  Settled /\ files # NoFiles =>
    /\ {e.sgw : e \in files.hdlc} = {files.m3ua[k].sgw : k \in DOMAIN files.m3ua}
    /\ \A k \in DOMAIN files.m3ua :
         LET conf == files.m3ua[k]
             own  == {e \in files.hdlc : e.sgw = conf.sgw}
         IN  /\ conf.appid = k - 1
             /\ conf.links > 0
             /\ {e.id : e \in own} = conf.linkid .. conf.linkid + conf.links - 1
             /\ Cardinality(own) = conf.links

\* README.txt: several M3UA applications run in parallel, being targeted at
\* different signalling links: no two timeslots are the same link.
LinksApart == \A e, f \in files.hdlc : e.id = f.id => e = f
=============================================================================
