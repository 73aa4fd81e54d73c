----------------------------- MODULE SSHPoolProofs -----------------------------
(***************************************************************************)
(* A client that the pool hands out leads to the node, over the parameters *)
(* asked for, and the map never holds a connection the panel has closed:   *)
(* for any number of callers, nodes, parameters and connections.           *)
(***************************************************************************)
EXTENDS SSHPool, TLAPS

-----------------------------------------------------------------------------
(***************************************************************************)
(* The inductive invariant: what every connection that somebody knows is,  *)
(* and that the connections somebody will close are nobody else's.         *)
(***************************************************************************)
Leads(c, n, t) == c \in Clients /\ conn[c].node = n /\ conn[c].target = t

CallFits(g) ==
  /\ call[g].pc \in {"lookup", "probe", "dial", "dialled", "surplus", "got"} =>
       call[g].node \in Nodes /\ call[g].target \in Targets
  /\ call[g].pc = "remove" => call[g].node \in Nodes
  /\ call[g].then = "dial" /\ call[g].pc \in {"remove", "close"} =>
       call[g].target \in Targets /\ call[g].node \in Nodes
  /\ call[g].pc = "probe" =>
       /\ call[g].found # NoEntry
       /\ Leads(call[g].found.client, call[g].node, call[g].found.target)
  /\ call[g].pc # "probe" => call[g].found = NoEntry
  /\ call[g].pc \in {"surplus", "got"} =>
       Leads(call[g].client, call[g].node, call[g].target)
  /\ call[g].pc \in {"dialled", "surplus"} =>
       /\ Leads(call[g].own, call[g].node, call[g].target)
       /\ conn[call[g].own].state # "closed"
  /\ call[g].pc \notin {"dialled", "surplus"} => call[g].own = None
  /\ call[g].pc # "close" => call[g].victims = {}

EntryFits(n) ==
  entries[n] # NoEntry =>
    /\ Leads(entries[n].client, n, entries[n].target)
    /\ conn[entries[n].client].state # "closed"

\* What call g will close or store.
Held(g) == {call[g].own} \cup call[g].victims

HeldIsNotPooled ==
  \A g \in Callers, n \in Nodes : entries[n].client # None => entries[n].client \notin Held(g)

HeldOnce ==
  \A g, h \in Callers : g # h => \A c \in Held(g) \cap Held(h) : c = None

Inv ==
  /\ TypeOK
  /\ \A g \in Callers : CallFits(g)
  /\ \A n \in Nodes : EntryFits(n)
  /\ HeldIsNotPooled /\ HeldOnce

-----------------------------------------------------------------------------
LEMMA Constants ==
  /\ None \notin Nodes /\ None \notin Targets /\ None \notin Clients
  /\ NoEntry.client = None /\ NoEntry.target = None
  /\ NoEntry \notin Entry
BY NoneAssumption DEF NoneAssumption, NoEntry, Entry

LEMMA Types ==
  ASSUME TypeOK
  PROVE  /\ \A n \in Nodes : /\ entries[n] \in Entry \cup {NoEntry}
                             /\ entries[n].client \in Clients \cup {None}
                             /\ entries[n].client = None <=> entries[n] = NoEntry
                             /\ entries[n] # NoEntry => entries[n].client \in Clients
                                                        /\ entries[n].target \in Targets
         /\ \A c \in Clients : conn[c] \in Conn
         /\ \A g \in Callers : call[g] \in Call
<1>1. \A n \in Nodes : entries[n] \in Entry \cup {NoEntry}
  BY DEF TypeOK
<1>2. \A e \in Entry : e.client \in Clients /\ e.target \in Targets
  BY DEF Entry
<1> QED
  BY <1>1, <1>2, Constants DEF TypeOK

LEMMA NoCallFacts ==
  /\ NoCall \in Call /\ NoCall.pc = "idle" /\ NoCall.own = None /\ NoCall.victims = {}
  /\ NoCall.found = NoEntry /\ NoCall.then = "dropped"
BY DEF NoCall, Call, Pcs, NoEntry

\* A record that replaces the call of g.
LEMMA NewCall ==
  ASSUME TypeOK, NEW g \in Callers, NEW r \in Call, call' = [call EXCEPT ![g] = r]
  PROVE  /\ call' \in [Callers -> Call] /\ call'[g] = r
         /\ \A h \in Callers : h # g => call'[h] = call[h]
BY DEF TypeOK

\* A step of one call that closes and dials nothing, leaves the map, and takes
\* nothing new into its hands.
LEMMA QuietStep ==
  ASSUME Inv, NEW g \in Callers, NEW r \in Call, call' = [call EXCEPT ![g] = r],
         UNCHANGED <<entries, conn>>,
         {r.own} \cup r.victims \subseteq Held(g) \cup {None},
         CallFits(g)'
  PROVE  Inv'
<1> USE DEF Inv
<1>1. /\ call' \in [Callers -> Call] /\ call'[g] = r
      /\ \A h \in Callers : h # g => call'[h] = call[h]
  BY NewCall
<1>2. TypeOK'
  BY <1>1 DEF TypeOK
<1>3. \A h \in Callers : CallFits(h)'
  BY <1>1 DEF CallFits, Leads
<1>4. \A n \in Nodes : EntryFits(n)'
  BY DEF EntryFits, Leads
<1>5. \A h \in Callers : Held(h)' \subseteq Held(h) \cup {None}
  BY <1>1 DEF Held
<1>6. HeldIsNotPooled'
  BY <1>5 DEF HeldIsNotPooled
<1>7. HeldOnce'
  BY <1>5 DEF HeldOnce
<1> QED
  BY <1>2, <1>3, <1>4, <1>6, <1>7

LEMMA InitInv == Init => Inv
<1> SUFFICES ASSUME Init PROVE Inv
  OBVIOUS
<1>1. TypeOK
  BY NoCallFacts DEF Init, TypeOK, Conn
<1>2. \A g \in Callers : CallFits(g)
  BY NoCallFacts DEF Init, CallFits
<1>3. \A n \in Nodes : EntryFits(n)
  BY DEF Init, EntryFits
<1>4. HeldIsNotPooled
  BY Constants DEF Init, HeldIsNotPooled
<1>5. HeldOnce
  BY NoCallFacts DEF Init, HeldOnce, Held
<1> QED
  BY <1>1, <1>2, <1>3, <1>4, <1>5 DEF Inv

-----------------------------------------------------------------------------
(***************************************************************************)
(* Steps that leave the map and the connections alone.                     *)
(***************************************************************************)
LEMMA StartGetKeeps ==
  ASSUME Inv, NEW g \in Callers, NEW n \in Nodes, NEW t \in Targets, StartGet(g, n, t)
  PROVE  Inv'
<1> DEFINE r == [NoCall EXCEPT !.pc = "lookup", !.node = n, !.target = t]
<1>1. /\ r \in Call /\ r.pc = "lookup" /\ r.node = n /\ r.target = t /\ r.own = None
      /\ r.victims = {} /\ r.found = NoEntry /\ r.then = "dropped"
  BY NoCallFacts DEF NoCall, Call, Pcs
<1>2. call' = [call EXCEPT ![g] = r] /\ UNCHANGED <<entries, conn>>
  BY DEF StartGet
<1> HIDE DEF r
<1>3. call'[g] = r
  BY <1>1, <1>2, NewCall DEF Inv
<1>4. CallFits(g)'
  BY <1>1, <1>3 DEF CallFits
<1> QED
  BY <1>1, <1>2, <1>4, QuietStep

LEMMA StartDropKeeps ==
  ASSUME Inv, NEW g \in Callers, NEW n \in Nodes, StartDrop(g, n)
  PROVE  Inv'
<1> DEFINE r == [NoCall EXCEPT !.pc = "remove", !.node = n]
<1>1. /\ r \in Call /\ r.pc = "remove" /\ r.node = n /\ r.own = None
      /\ r.victims = {} /\ r.found = NoEntry /\ r.then = "dropped"
  BY NoCallFacts DEF NoCall, Call, Pcs
<1>2. call' = [call EXCEPT ![g] = r] /\ UNCHANGED <<entries, conn>>
  BY DEF StartDrop
<1> HIDE DEF r
<1>3. call'[g] = r
  BY <1>1, <1>2, NewCall DEF Inv
<1>4. CallFits(g)'
  BY <1>1, <1>3 DEF CallFits
<1> QED
  BY <1>1, <1>2, <1>4, QuietStep

LEMMA FinishKeeps ==
  ASSUME Inv, NEW g \in Callers, Finish(g)
  PROVE  Inv'
<1>1. call' = [call EXCEPT ![g] = NoCall] /\ UNCHANGED <<entries, conn>>
  BY DEF Finish
<1>2. call'[g] = NoCall
  BY <1>1, NoCallFacts, NewCall DEF Inv
<1>3. CallFits(g)'
  BY <1>2, NoCallFacts DEF CallFits
<1> QED
  BY <1>1, <1>3, NoCallFacts, QuietStep

LEMMA LookupKeeps ==
  ASSUME Inv, NEW g \in Callers, Lookup(g)
  PROVE  Inv'
<1> DEFINE o == call[g]
           e == entries[o.node]
           r == [o EXCEPT !.found = e, !.pc = IF e = NoEntry THEN "dial" ELSE "probe"]
<1>1. o \in Call /\ o.pc = "lookup" /\ o.node \in Nodes /\ o.target \in Targets
  BY Types DEF Inv, CallFits, Lookup
<1>2. e \in Entry \cup {NoEntry}
  BY <1>1, Types DEF Inv
<1>3. r.pc = (IF e = NoEntry THEN "dial" ELSE "probe") /\ r.found = e
  BY <1>1 DEF Call
<1>4. r.node = o.node /\ r.target = o.target /\ r.own = o.own /\ r.victims = o.victims
  BY <1>1 DEF Call
<1>5. r \in Call
  BY <1>1, <1>2 DEF Call, Pcs
<1>6. call' = [call EXCEPT ![g] = r] /\ UNCHANGED <<entries, conn>>
  BY DEF Lookup
<1>7. o.own = None /\ o.victims = {}
  BY <1>1 DEF Inv, CallFits
<1>8. e # NoEntry => Leads(e.client, o.node, e.target)
  BY <1>1 DEF Inv, EntryFits
<1>9. r.own \in Held(g) \cup {None} /\ r.victims \subseteq Held(g) \cup {None}
  BY <1>4, <1>7
<1> HIDE DEF r
<1>10. call'[g] = r
  BY <1>5, <1>6, NewCall DEF Inv
<1> HIDE DEF e, o
<1>11. CallFits(g)'
  BY <1>1, <1>3, <1>4, <1>6, <1>7, <1>8, <1>10 DEF CallFits, Leads
<1> QED
  BY <1>5, <1>6, <1>9, <1>11, QuietStep

LEMMA ProbeKeeps ==
  ASSUME Inv, NEW g \in Callers, Probe(g)
  PROVE  Inv'
<1> DEFINE o == call[g]
           hit == Reusable(o.found, o.target)
           r == IF hit THEN [o EXCEPT !.pc = "got", !.client = o.found.client,
                                      !.found = NoEntry]
                       ELSE [o EXCEPT !.pc = "remove", !.then = "dial",
                                      !.found = NoEntry]
<1>1. o \in Call /\ o.pc = "probe" /\ o.node \in Nodes /\ o.target \in Targets
  BY Types DEF Inv, CallFits, Probe
<1>2. Leads(o.found.client, o.node, o.found.target)
  BY <1>1 DEF Inv, CallFits
<1>3. hit => r.pc = "got" /\ r.client = o.found.client
  BY <1>1 DEF Call
<1>4. ~hit => r.pc = "remove" /\ r.then = "dial"
  BY <1>1 DEF Call
<1>5. /\ r.node = o.node /\ r.target = o.target /\ r.own = o.own /\ r.victims = o.victims
      /\ r.found = NoEntry
  BY <1>1 DEF Call
<1>6. r \in Call
  <2>1. o.found.client \in Clients
    BY <1>2 DEF Leads
  <2> QED
    BY <1>1, <2>1 DEF Call, Pcs
<1>7. call' = [call EXCEPT ![g] = r] /\ UNCHANGED <<entries, conn>>
  BY DEF Probe
<1>8. o.own = None /\ o.victims = {}
  BY <1>1 DEF Inv, CallFits
<1>9. hit => Leads(o.found.client, o.node, o.target)
  BY <1>2 DEF Reusable
<1>10. r.own \in Held(g) \cup {None} /\ r.victims \subseteq Held(g) \cup {None}
  BY <1>5, <1>8
<1> HIDE DEF r
<1>11. call'[g] = r
  BY <1>6, <1>7, NewCall DEF Inv
<1> HIDE DEF hit, o
<1>12. CallFits(g)'
  <2>1. CASE hit
    BY <1>1, <1>3, <1>5, <1>7, <1>8, <1>9, <1>11, <2>1 DEF CallFits, Leads
  <2>2. CASE ~hit
    BY <1>1, <1>4, <1>5, <1>7, <1>8, <1>11, <2>2 DEF CallFits, Leads
  <2> QED
    BY <2>1, <2>2
<1> QED
  BY <1>6, <1>7, <1>10, <1>12, QuietStep

LEMMA DialFailsKeeps ==
  ASSUME Inv, NEW g \in Callers, DialFails(g)
  PROVE  Inv'
<1> DEFINE o == call[g]
           r == [o EXCEPT !.pc = "failed"]
<1>1. o \in Call /\ o.pc = "dial"
  BY Types DEF Inv, DialFails
<1>2. /\ r \in Call /\ r.pc = "failed" /\ r.own = o.own /\ r.victims = o.victims
      /\ r.found = o.found
  BY <1>1 DEF Call, Pcs
<1>3. call' = [call EXCEPT ![g] = r] /\ UNCHANGED <<entries, conn>>
  BY DEF DialFails
<1>4. o.own = None /\ o.victims = {} /\ o.found = NoEntry
  BY <1>1 DEF Inv, CallFits
<1>5. r.own \in Held(g) \cup {None} /\ r.victims \subseteq Held(g) \cup {None}
  BY <1>2, <1>4
<1> HIDE DEF r
<1>6. call'[g] = r
  BY <1>2, <1>3, NewCall DEF Inv
<1> HIDE DEF o
<1>7. CallFits(g)'
  BY <1>2, <1>4, <1>6 DEF CallFits
<1> QED
  BY <1>2, <1>3, <1>5, <1>7, QuietStep

LEMMA StoreDuplicateKeeps ==
  ASSUME Inv, NEW g \in Callers, StoreDuplicate(g)
  PROVE  Inv'
<1> DEFINE o == call[g]
           e == entries[o.node]
           r == [o EXCEPT !.pc = "surplus", !.client = e.client]
<1>1. o \in Call /\ o.pc = "dialled" /\ o.node \in Nodes /\ o.target \in Targets
  BY Types DEF Inv, CallFits, StoreDuplicate
<1>2. e # NoEntry /\ e.target = o.target
  BY DEF StoreDuplicate, Duplicate
<1>3. Leads(e.client, o.node, o.target)
  BY <1>1, <1>2 DEF Inv, EntryFits
<1>4. /\ r.pc = "surplus" /\ r.client = e.client /\ r.node = o.node
      /\ r.target = o.target /\ r.own = o.own /\ r.victims = o.victims
      /\ r.found = o.found
  BY <1>1 DEF Call
<1>5. r \in Call
  <2>1. e.client \in Clients
    BY <1>3 DEF Leads
  <2> QED
    BY <1>1, <2>1 DEF Call, Pcs
<1>6. call' = [call EXCEPT ![g] = r] /\ UNCHANGED <<entries, conn>>
  BY DEF StoreDuplicate
<1>7. o.victims = {} /\ o.found = NoEntry
  BY <1>1 DEF Inv, CallFits
<1>8. Leads(o.own, o.node, o.target) /\ conn[o.own].state # "closed"
  BY <1>1 DEF Inv, CallFits
<1>9. r.own \in Held(g) \cup {None} /\ r.victims \subseteq Held(g) \cup {None}
  BY <1>4, <1>7 DEF Held
<1> HIDE DEF r
<1>10. call'[g] = r
  BY <1>5, <1>6, NewCall DEF Inv
<1> HIDE DEF e, o
<1>11. CallFits(g)'
  BY <1>1, <1>3, <1>4, <1>6, <1>7, <1>8, <1>10 DEF CallFits, Leads
<1> QED
  BY <1>5, <1>6, <1>9, <1>11, QuietStep


-----------------------------------------------------------------------------
(***************************************************************************)
(* Steps that change the map or a connection.  What the others rely on:    *)
(* where a connection they know leads, and that what they hold stays open. *)
(***************************************************************************)
SameRoute(c) == conn'[c].node = conn[c].node /\ conn'[c].target = conn[c].target

StaysOpen(c) == conn[c].state # "closed" => conn'[c].state # "closed"

LEMMA KnownClients ==
  /\ \A h \in Callers : /\ call[h].client \in Referenced /\ call[h].own \in Referenced
                        /\ call[h].found.client \in Referenced
                        /\ Held(h) \subseteq Referenced
  /\ \A n \in Nodes : entries[n].client \in Referenced
BY DEF Referenced, Held

LEMMA OthersFit ==
  ASSUME Inv, NEW g \in Callers,
         \A h \in Callers : h # g => call'[h] = call[h],
         \A c \in Clients \cap Referenced : SameRoute(c),
         \A h \in Callers : h # g => \A c \in Held(h) \cap Clients : StaysOpen(c)
  PROVE  \A h \in Callers : h # g => CallFits(h)'
<1> SUFFICES ASSUME NEW h \in Callers, h # g PROVE CallFits(h)'
  OBVIOUS
<1>1. call'[h] = call[h] /\ CallFits(h)
  BY DEF Inv
<1>2. \A n, t : Leads(call[h].client, n, t) => Leads(call[h].client, n, t)'
  BY <1>1, KnownClients DEF Leads, SameRoute
<1>3. \A n, t : Leads(call[h].own, n, t) => Leads(call[h].own, n, t)'
  BY <1>1, KnownClients DEF Leads, SameRoute
<1>4. \A n, t : Leads(call[h].found.client, n, t) => Leads(call[h].found.client, n, t)'
  BY <1>1, KnownClients DEF Leads, SameRoute
<1>5. call[h].own \in Clients /\ conn[call[h].own].state # "closed" =>
        conn'[call[h].own].state # "closed"
  BY DEF Held, StaysOpen
<1> QED
  BY <1>1, <1>2, <1>3, <1>4, <1>5 DEF CallFits, Leads

LEMMA EntriesFit ==
  ASSUME Inv, UNCHANGED entries,
         \A c \in Clients \cap Referenced : SameRoute(c),
         \A n \in Nodes : entries[n] # NoEntry => StaysOpen(entries[n].client)
  PROVE  \A n \in Nodes : EntryFits(n)'
<1> SUFFICES ASSUME NEW n \in Nodes, entries[n] # NoEntry PROVE EntryFits(n)'
  BY DEF EntryFits
<1>1. Leads(entries[n].client, n, entries[n].target) /\ conn[entries[n].client].state # "closed"
  BY DEF Inv, EntryFits
<1> QED
  BY <1>1, KnownClients DEF EntryFits, Leads, SameRoute, StaysOpen

\* Closing what only g holds: routes stay, and nobody else's connection closes.
LEMMA ClosingIsPrivate ==
  ASSUME Inv, NEW g \in Callers, NEW cs \in SUBSET (Held(g) \cap Clients), conn' = Closed(cs)
  PROVE  /\ conn' \in [Clients -> Conn]
         /\ \A c \in Clients : SameRoute(c)
         /\ \A h \in Callers : h # g => \A c \in Held(h) \cap Clients : StaysOpen(c)
         /\ \A n \in Nodes : entries[n] # NoEntry => StaysOpen(entries[n].client)
<1>1. \A c \in Clients : conn[c] \in Conn
  BY Types DEF Inv
<1>2. \A c \in Clients : conn'[c] = IF c \in cs THEN [conn[c] EXCEPT !.state = "closed"]
                                                ELSE conn[c]
  BY DEF Closed
<1>3. \A c \in Clients : [conn[c] EXCEPT !.state = "closed"] \in Conn
  BY <1>1 DEF Conn
<1>4. conn' \in [Clients -> Conn]
  <2>1. conn' = [c \in Clients |-> IF c \in cs THEN [conn[c] EXCEPT !.state = "closed"]
                                               ELSE conn[c]]
    BY DEF Closed
  <2> QED
    BY <1>1, <1>3, <2>1
<1>5. \A c \in Clients : SameRoute(c)
  BY <1>1, <1>2 DEF SameRoute, Conn
<1>6. \A c \in Clients : c \notin cs => StaysOpen(c)
  BY <1>2 DEF StaysOpen
<1>7. \A h \in Callers : h # g => \A c \in Held(h) \cap Clients : c \notin cs
  BY Constants DEF Inv, HeldOnce
<1>8. \A n \in Nodes : entries[n] # NoEntry => entries[n].client \in Clients
                                               /\ entries[n].client \notin cs
  BY Types, Constants DEF Inv, HeldIsNotPooled
<1> QED
  BY <1>4, <1>5, <1>6, <1>7, <1>8

LEMMA CloseSurplusKeeps ==
  ASSUME Inv, NEW g \in Callers, CloseSurplus(g)
  PROVE  Inv'
<1> DEFINE o == call[g]
           r == [o EXCEPT !.pc = "got", !.own = None]
<1>1. o \in Call /\ o.pc = "surplus" /\ o.node \in Nodes /\ o.target \in Targets
  BY Types DEF Inv, CallFits, CloseSurplus
<1>2. /\ r \in Call /\ r.pc = "got" /\ r.own = None /\ r.victims = o.victims
      /\ r.found = o.found /\ r.node = o.node /\ r.target = o.target /\ r.client = o.client
  BY <1>1 DEF Call, Pcs
<1>3. call' = [call EXCEPT ![g] = r] /\ entries' = entries /\ conn' = Closed({o.own})
  BY DEF CloseSurplus
<1>4. /\ o.victims = {} /\ o.found = NoEntry /\ Leads(o.client, o.node, o.target)
      /\ o.own \in Clients
  BY <1>1 DEF Inv, CallFits, Leads
<1>5. {o.own} \in SUBSET (Held(g) \cap Clients)
  BY <1>4 DEF Held
<1> HIDE DEF r
<1>6. /\ call' \in [Callers -> Call] /\ call'[g] = r
      /\ \A h \in Callers : h # g => call'[h] = call[h]
  BY <1>2, <1>3, NewCall DEF Inv
<1>7. /\ conn' \in [Clients -> Conn]
      /\ \A c \in Clients : SameRoute(c)
      /\ \A h \in Callers : h # g => \A c \in Held(h) \cap Clients : StaysOpen(c)
      /\ \A n \in Nodes : entries[n] # NoEntry => StaysOpen(entries[n].client)
  BY <1>3, <1>5, ClosingIsPrivate
<1>8. TypeOK'
  BY <1>3, <1>6, <1>7 DEF Inv, TypeOK
<1>9. \A h \in Callers : h # g => CallFits(h)'
  BY <1>6, <1>7, OthersFit
<1>10. CallFits(g)'
  BY <1>2, <1>4, <1>1, <1>6, <1>7 DEF CallFits, Leads, SameRoute
<1>11. \A n \in Nodes : EntryFits(n)'
  BY <1>3, <1>7, EntriesFit
<1>12. \A h \in Callers : Held(h)' \subseteq Held(h) \cup {None}
  BY <1>2, <1>4, <1>6 DEF Held
<1>13. HeldIsNotPooled' /\ HeldOnce'
  BY <1>3, <1>12 DEF Inv, HeldIsNotPooled, HeldOnce
<1> QED
  BY <1>8, <1>9, <1>10, <1>11, <1>13 DEF Inv

LEMMA CloseVictimsKeeps ==
  ASSUME Inv, NEW g \in Callers, CloseVictims(g)
  PROVE  Inv'
<1> DEFINE o == call[g]
           r == [o EXCEPT !.pc = o.then, !.victims = {}]
<1>1. o \in Call /\ o.pc = "close" /\ o.then \in {"dial", "dropped"}
  BY Types DEF Inv, CloseVictims, Call
<1>2. /\ r \in Call /\ r.pc = o.then /\ r.own = o.own /\ r.victims = {} /\ r.then = o.then
      /\ r.found = o.found /\ r.node = o.node /\ r.target = o.target
  BY <1>1 DEF Call, Pcs
<1>3. call' = [call EXCEPT ![g] = r] /\ entries' = entries /\ conn' = Closed(o.victims)
  BY DEF CloseVictims
<1>4. /\ o.own = None /\ o.found = NoEntry
      /\ o.then = "dial" => o.target \in Targets /\ o.node \in Nodes
  BY <1>1 DEF Inv, CallFits
<1>5. o.victims \in SUBSET (Held(g) \cap Clients)
  BY <1>1 DEF Held, Call
<1> HIDE DEF r
<1>6. /\ call' \in [Callers -> Call] /\ call'[g] = r
      /\ \A h \in Callers : h # g => call'[h] = call[h]
  BY <1>2, <1>3, NewCall DEF Inv
<1>7. /\ conn' \in [Clients -> Conn]
      /\ \A c \in Clients : SameRoute(c)
      /\ \A h \in Callers : h # g => \A c \in Held(h) \cap Clients : StaysOpen(c)
      /\ \A n \in Nodes : entries[n] # NoEntry => StaysOpen(entries[n].client)
  BY <1>3, <1>5, ClosingIsPrivate
<1>8. TypeOK'
  BY <1>3, <1>6, <1>7 DEF Inv, TypeOK
<1>9. \A h \in Callers : h # g => CallFits(h)'
  BY <1>6, <1>7, OthersFit
<1>10. CallFits(g)'
  BY <1>2, <1>4, <1>1, <1>6 DEF CallFits
<1>11. \A n \in Nodes : EntryFits(n)'
  BY <1>3, <1>7, EntriesFit
<1>12. \A h \in Callers : Held(h)' \subseteq Held(h) \cup {None}
  BY <1>2, <1>4, <1>6 DEF Held
<1>13. HeldIsNotPooled' /\ HeldOnce'
  BY <1>3, <1>12 DEF Inv, HeldIsNotPooled, HeldOnce
<1> QED
  BY <1>8, <1>9, <1>10, <1>11, <1>13 DEF Inv


LEMMA DialKeeps ==
  ASSUME Inv, NEW g \in Callers, NEW c \in Clients, Dial(g, c)
  PROVE  Inv'
<1> DEFINE o == call[g]
           r == [o EXCEPT !.pc = "dialled", !.own = c]
           k == [state |-> "open", node |-> o.node, target |-> o.target]
<1>1. o \in Call /\ o.pc = "dial" /\ o.node \in Nodes /\ o.target \in Targets
  BY Types DEF Inv, CallFits, Dial
<1>2. /\ r \in Call /\ r.pc = "dialled" /\ r.own = c /\ r.victims = o.victims
      /\ r.found = o.found /\ r.node = o.node /\ r.target = o.target
  BY <1>1 DEF Call, Pcs
<1>3. /\ call' = [call EXCEPT ![g] = r] /\ entries' = entries
      /\ conn' = [conn EXCEPT ![c] = k] /\ c \notin Referenced
  BY DEF Dial
<1>4. o.victims = {} /\ o.found = NoEntry
  BY <1>1 DEF Inv, CallFits
<1>5. k \in Conn /\ k.state = "open" /\ k.node = o.node /\ k.target = o.target
  BY <1>1 DEF Conn
<1> HIDE DEF r, k
<1>6. /\ call' \in [Callers -> Call] /\ call'[g] = r
      /\ \A h \in Callers : h # g => call'[h] = call[h]
  BY <1>2, <1>3, NewCall DEF Inv
<1>7. /\ conn' \in [Clients -> Conn] /\ conn'[c] = k
      /\ \A d \in Clients : d # c => conn'[d] = conn[d]
  BY <1>3, <1>5 DEF Inv, TypeOK
<1>8. \A d \in Clients \cap Referenced : SameRoute(d) /\ StaysOpen(d)
  BY <1>3, <1>7 DEF SameRoute, StaysOpen
<1>9. TypeOK'
  BY <1>3, <1>6, <1>7 DEF Inv, TypeOK
<1>10. \A h \in Callers : h # g => CallFits(h)'
  <2>1. \A h \in Callers : h # g => \A d \in Held(h) \cap Clients : StaysOpen(d)
    BY <1>8, KnownClients
  <2> QED
    BY <1>6, <1>8, <2>1, OthersFit
<1>11. CallFits(g)'
  BY <1>2, <1>4, <1>1, <1>5, <1>6, <1>7 DEF CallFits, Leads
<1>12. \A n \in Nodes : EntryFits(n)'
  <2>1. \A n \in Nodes : entries[n] # NoEntry => StaysOpen(entries[n].client)
    BY <1>8, KnownClients, Types DEF Inv
  <2> QED
    BY <1>3, <1>8, <2>1, EntriesFit
<1>13. \A h \in Callers : h # g => Held(h)' = Held(h) /\ c \notin Held(h)
  BY <1>3, <1>6, KnownClients DEF Held
<1>14. Held(g)' = {c}
  BY <1>2, <1>4, <1>6 DEF Held
<1>15. HeldIsNotPooled'
  <2>1. \A n \in Nodes : entries[n].client # c
    BY <1>3, KnownClients
  <2> QED
    BY <1>3, <1>13, <1>14, <2>1 DEF Inv, HeldIsNotPooled
<1>16. HeldOnce'
  BY <1>13, <1>14 DEF Inv, HeldOnce
<1> QED
  BY <1>9, <1>10, <1>11, <1>12, <1>15, <1>16 DEF Inv

LEMMA StoreNewKeeps ==
  ASSUME Inv, NEW g \in Callers, StoreNew(g)
  PROVE  Inv'
<1> DEFINE o == call[g]
           e == [client |-> o.own, target |-> o.target]
           r == [o EXCEPT !.pc = "got", !.client = o.own, !.own = None]
<1>1. o \in Call /\ o.pc = "dialled" /\ o.node \in Nodes /\ o.target \in Targets
  BY Types DEF Inv, CallFits, StoreNew
<1>2. /\ o.victims = {} /\ o.found = NoEntry /\ conn[o.own].state # "closed"
      /\ Leads(o.own, o.node, o.target) /\ o.own \in Clients
  BY <1>1 DEF Inv, CallFits, Leads
<1>3. /\ r \in Call /\ r.pc = "got" /\ r.own = None /\ r.victims = o.victims
      /\ r.found = o.found /\ r.node = o.node /\ r.target = o.target /\ r.client = o.own
  BY <1>1, <1>2 DEF Call, Pcs
<1>4. e \in Entry /\ e.client = o.own /\ e.target = o.target
  BY <1>1, <1>2 DEF Entry
<1>5. /\ call' = [call EXCEPT ![g] = r] /\ conn' = conn
      /\ entries' = [entries EXCEPT ![o.node] = e]
  BY DEF StoreNew
<1> HIDE DEF r, e
<1>6. /\ call' \in [Callers -> Call] /\ call'[g] = r
      /\ \A h \in Callers : h # g => call'[h] = call[h]
  BY <1>3, <1>5, NewCall DEF Inv
<1>7. /\ entries' \in [Nodes -> Entry \cup {NoEntry}] /\ entries'[o.node] = e
      /\ \A n \in Nodes : n # o.node => entries'[n] = entries[n]
  BY <1>1, <1>4, <1>5 DEF Inv, TypeOK
<1>8. TypeOK'
  BY <1>5, <1>6, <1>7 DEF Inv, TypeOK
<1>9. \A h \in Callers : h # g => CallFits(h)'
  BY <1>5, <1>6, OthersFit DEF SameRoute, StaysOpen
<1>10. CallFits(g)'
  BY <1>1, <1>2, <1>3, <1>5, <1>6 DEF CallFits, Leads
<1>11. \A n \in Nodes : EntryFits(n)'
  <2>1. \A n \in Nodes : n = o.node => EntryFits(n)'
    BY <1>2, <1>4, <1>5, <1>7 DEF EntryFits, Leads
  <2>2. \A n \in Nodes : n # o.node => EntryFits(n)'
    BY <1>5, <1>7 DEF Inv, EntryFits, Leads
  <2> QED
    BY <2>1, <2>2
<1>12. Held(g)' = {None}
  BY <1>2, <1>3, <1>6 DEF Held
<1>13. \A h \in Callers : h # g => Held(h)' = Held(h) /\ o.own \notin Held(h)
  <2>1. o.own \in Held(g) /\ o.own # None
    BY <1>2, Constants DEF Held
  <2> QED
    BY <1>6, <2>1 DEF Inv, HeldOnce, Held
<1>14. HeldIsNotPooled'
  BY <1>4, <1>7, <1>12, <1>13 DEF Inv, HeldIsNotPooled
<1>15. HeldOnce'
  BY <1>12, <1>13 DEF Inv, HeldOnce
<1> QED
  BY <1>8, <1>9, <1>10, <1>11, <1>14, <1>15 DEF Inv

\* g takes clients out of the map: those of the nodes it empties.
LEMMA TakingOutKeeps ==
  ASSUME Inv, NEW g \in Callers, NEW r \in Call, NEW ns \in SUBSET Nodes,
         call' = [call EXCEPT ![g] = r], conn' = conn,
         entries' = [n \in Nodes |-> IF n \in ns THEN NoEntry ELSE entries[n]],
         CallFits(g)', r.own = None,
         r.victims = {entries[n].client : n \in ns} \ {None}
  PROVE  Inv'
<1>1. /\ call' \in [Callers -> Call] /\ call'[g] = r
      /\ \A h \in Callers : h # g => call'[h] = call[h]
  BY NewCall DEF Inv
<1>2. entries' \in [Nodes -> Entry \cup {NoEntry}]
  BY Types DEF Inv
<1>3. TypeOK'
  BY <1>1, <1>2 DEF Inv, TypeOK
<1>4. \A h \in Callers : CallFits(h)'
  BY <1>1, OthersFit DEF SameRoute, StaysOpen
<1>5. \A n \in Nodes : EntryFits(n)'
  BY DEF Inv, EntryFits, Leads
<1>6. Held(g)' = {None} \cup ({entries[n].client : n \in ns} \ {None})
  BY <1>1 DEF Held
<1>7. \A h \in Callers : h # g => Held(h)' = Held(h)
  BY <1>1 DEF Held
<1>8. \A n \in ns, m \in Nodes \ ns :
        entries[m].client # None => entries[m].client # entries[n].client
  BY Types DEF Inv, EntryFits, Leads
<1>9. \A m \in Nodes : entries'[m].client # None =>
        m \notin ns /\ entries'[m].client = entries[m].client
  BY Constants
<1>10. HeldIsNotPooled'
  <2>1. ASSUME NEW m \in Nodes, entries'[m].client # None
        PROVE  entries'[m].client \notin Held(g)'
    <3>1. m \in Nodes \ ns /\ entries'[m].client = entries[m].client
      BY <2>1, <1>9
    <3>2. \A n \in ns : entries[m].client # entries[n].client
      BY <2>1, <3>1, <1>8
    <3>3. entries[m].client \notin {entries[n].client : n \in ns}
      BY <3>2
    <3> QED
      BY <2>1, <3>1, <3>3, <1>6
  <2>2. \A h \in Callers, m \in Nodes :
          h # g /\ entries'[m].client # None => entries'[m].client \notin Held(h)'
    BY <1>7, <1>9 DEF Inv, HeldIsNotPooled
  <2> QED
    BY <2>1, <2>2 DEF HeldIsNotPooled
<1>11. HeldOnce'
  <2>1. \A h \in Callers : h # g => \A c \in Held(h)' \cap Held(g)' : c = None
    BY <1>6, <1>7 DEF Inv, HeldIsNotPooled
  <2> QED
    BY <1>7, <2>1 DEF Inv, HeldOnce
<1> QED
  BY <1>3, <1>4, <1>5, <1>10, <1>11 DEF Inv

LEMMA RemoveKeeps ==
  ASSUME Inv, NEW g \in Callers, Remove(g)
  PROVE  Inv'
<1> DEFINE o == call[g]
           vs == {entries[n].client : n \in {o.node}} \ {None}
           r == [o EXCEPT !.pc = "close", !.victims = vs]
<1>1. o \in Call /\ o.pc = "remove" /\ o.node \in Nodes
  BY Types DEF Inv, CallFits, Remove
<1>2. vs \subseteq Clients /\ vs = {entries[o.node].client} \ {None}
  BY <1>1, Types DEF Inv
<1>3. /\ o.own = None /\ o.found = NoEntry
      /\ o.then = "dial" => o.target \in Targets /\ o.node \in Nodes
  BY <1>1 DEF Inv, CallFits
<1>4. call' = [call EXCEPT ![g] = r] /\ conn' = conn
  BY <1>2 DEF Remove
<1>5. entries' = [n \in Nodes |-> IF n \in {o.node} THEN NoEntry ELSE entries[n]]
  BY DEF Remove, Inv, TypeOK
<1> HIDE DEF vs
<1>6. /\ r \in Call /\ r.pc = "close" /\ r.own = o.own /\ r.victims = vs
      /\ r.found = o.found /\ r.node = o.node /\ r.target = o.target /\ r.then = o.then
  BY <1>1, <1>2 DEF Call, Pcs
<1> HIDE DEF r
<1>7. call'[g] = r
  BY <1>4, <1>6, NewCall DEF Inv
<1>8. CallFits(g)'
  BY <1>1, <1>3, <1>6, <1>7 DEF CallFits
<1> DEFINE ns == {o.node}
<1>9. ns \in SUBSET Nodes
  BY <1>1
<1>10. entries' = [n \in Nodes |-> IF n \in ns THEN NoEntry ELSE entries[n]]
  BY <1>5
<1>11. r.victims = {entries[n].client : n \in ns} \ {None}
  BY <1>6 DEF vs
<1>12. r.own = None
  BY <1>3, <1>6
<1> HIDE DEF ns, o
<1> QED
  BY <1>4, <1>6, <1>8, <1>9, <1>10, <1>11, <1>12, TakingOutKeeps

LEMMA CloseAllKeeps ==
  ASSUME Inv, NEW g \in Callers, CloseAll(g)
  PROVE  Inv'
<1> DEFINE vs == {entries[n].client : n \in Nodes} \ {None}
           r == [NoCall EXCEPT !.pc = "close", !.victims = vs]
<1>1. vs \subseteq Clients
  BY Types DEF Inv
<1>2. call' = [call EXCEPT ![g] = r] /\ conn' = conn
  BY DEF CloseAll
<1>3. entries' = [n \in Nodes |-> IF n \in Nodes THEN NoEntry ELSE entries[n]]
  BY DEF CloseAll
<1> HIDE DEF vs
<1>4. /\ r \in Call /\ r.pc = "close" /\ r.own = None /\ r.victims = vs
      /\ r.found = NoEntry /\ r.then = "dropped"
  BY <1>1, NoCallFacts DEF NoCall, Call, Pcs
<1> HIDE DEF r
<1>5. call'[g] = r
  BY <1>2, <1>4, NewCall DEF Inv
<1>6. CallFits(g)'
  BY <1>4, <1>5 DEF CallFits
<1> QED
  BY <1>2, <1>3, <1>4, <1>6, TakingOutKeeps DEF vs

LEMMA TransportFailsKeeps ==
  ASSUME Inv, NEW c \in Clients, TransportFails(c)
  PROVE  Inv'
<1>1. /\ conn' = [conn EXCEPT ![c] = [conn[c] EXCEPT !.state = "dead"]]
      /\ UNCHANGED <<entries, call>> /\ conn[c] \in Conn
  BY Types DEF TransportFails, Inv
<1>2. /\ [conn[c] EXCEPT !.state = "dead"] \in Conn
      /\ [conn[c] EXCEPT !.state = "dead"].state = "dead"
      /\ [conn[c] EXCEPT !.state = "dead"].node = conn[c].node
      /\ [conn[c] EXCEPT !.state = "dead"].target = conn[c].target
  BY <1>1 DEF Conn
<1>3. conn' \in [Clients -> Conn]
  BY <1>1, <1>2 DEF Inv, TypeOK
<1>4. \A d \in Clients : SameRoute(d) /\ StaysOpen(d)
  BY <1>1, <1>2 DEF Inv, TypeOK, SameRoute, StaysOpen
<1>5. TypeOK'
  BY <1>1, <1>3 DEF Inv, TypeOK
<1>6. \A g \in Callers : CallFits(g)'
  <2> SUFFICES ASSUME NEW g \in Callers PROVE CallFits(g)'
    OBVIOUS
  <2>1. CallFits(g) /\ call'[g] = call[g]
    BY <1>1 DEF Inv
  <2> QED
    BY <1>4, <2>1 DEF CallFits, Leads, SameRoute, StaysOpen
<1>7. \A n \in Nodes : EntryFits(n)'
  BY <1>1, <1>4, EntriesFit, Types DEF Inv
<1>8. HeldIsNotPooled' /\ HeldOnce'
  BY <1>1 DEF Inv, HeldIsNotPooled, HeldOnce, Held
<1> QED
  BY <1>5, <1>6, <1>7, <1>8 DEF Inv

-----------------------------------------------------------------------------
(***************************************************************************)
(* Every step, and the theorems.                                           *)
(***************************************************************************)
LEMMA NextKeepsInv == Inv /\ [Next]_vars => Inv'
<1> SUFFICES ASSUME Inv, [Next]_vars PROVE Inv'
  OBVIOUS
<1>1. CASE UNCHANGED vars
  BY <1>1 DEF vars, Inv, TypeOK, CallFits, EntryFits, Leads, HeldIsNotPooled, HeldOnce, Held
<1>2. ASSUME NEW g \in Callers, PoolStep(g) PROVE Inv'
  BY <1>2, LookupKeeps, ProbeKeeps, DialFailsKeeps, DialKeeps, StoreDuplicateKeeps,
     StoreNewKeeps, CloseSurplusKeeps, RemoveKeeps, CloseVictimsKeeps DEF PoolStep
<1>3. ASSUME NEW g \in Callers, Use(g) PROVE Inv'
  BY <1>3, StartGetKeeps, StartDropKeeps, CloseAllKeeps, FinishKeeps DEF Use
<1>4. ASSUME NEW c \in Clients, TransportFails(c) PROVE Inv'
  BY <1>4, TransportFailsKeeps
<1> QED
  BY <1>1, <1>2, <1>3, <1>4 DEF Next

LEMMA InvHolds == Spec => []Inv
BY InitInv, NextKeepsInv, PTL DEF Spec

\* The map, the connections and the calls keep their types.
THEOREM TypeCorrect == Spec => []TypeOK
<1>1. Inv => TypeOK
  BY DEF Inv
<1> QED
  BY <1>1, InvHolds, PTL

\* A client that get returns leads to the node, over the parameters asked for.
THEOREM ClientsLeadToTheirNode == Spec => []ClientLeadsToNode
<1>1. Inv => ClientLeadsToNode
  BY DEF Inv, CallFits, Leads, ClientLeadsToNode
<1> QED
  BY <1>1, InvHolds, PTL

\* The map holds no connection that the panel has closed.
THEOREM PoolHoldsNothingClosed == Spec => []PooledAreNotClosed
<1>1. Inv => PooledAreNotClosed
  BY DEF Inv, EntryFits, Leads, PooledAreNotClosed
<1> QED
  BY <1>1, InvHolds, PTL

-----------------------------------------------------------------------------
(***************************************************************************)
(* What each step does to the connections that are not closed.  None is    *)
(* lost sight of, unless a new one is stored over one in the map.          *)
(***************************************************************************)
\* What calls hold stays theirs, and the map keeps what it has.
LEMMA HeldIsKept ==
  ASSUME NothingLeaks,
         \A n \in Nodes : entries'[n] = entries[n],
         \A h \in Callers : call'[h].own = call[h].own /\ call'[h].victims = call[h].victims,
         \A c \in Clients : conn'[c].state # "closed" => conn[c].state # "closed"
  PROVE  NothingLeaks'
BY DEF NothingLeaks

LEMMA CallFacts ==
  ASSUME Inv, NEW g \in Callers
  PROVE  /\ call[g] \in Call
         /\ call[g].pc \notin {"dialled", "surplus"} => call[g].own = None
         /\ call[g].pc # "close" => call[g].victims = {}
         /\ call[g].pc \in {"dialled", "surplus"} =>
              call[g].own \in Clients /\ call[g].node \in Nodes
         /\ call[g].pc \in {"lookup", "probe", "dial", "dialled", "surplus", "remove"} =>
              call[g].node \in Nodes
         /\ call[g].pc = "close" /\ call[g].then = "dial" => call[g].node \in Nodes
BY Types DEF Inv, CallFits, Leads

LEMMA UseLeaksNothing ==
  ASSUME Inv, NothingLeaks, NEW g \in Callers, NEW r \in Call,
         r.own = None, r.victims = {}, call[g].pc \in {"idle", "got", "failed", "dropped"},
         call' = [call EXCEPT ![g] = r], UNCHANGED <<entries, conn>>
  PROVE  NothingLeaks'
<1>1. call[g].own = None /\ call[g].victims = {}
  BY CallFacts
<1>2. \A h \in Callers : call'[h].own = call[h].own /\ call'[h].victims = call[h].victims
  BY <1>1, NewCall DEF Inv
<1> QED
  BY <1>2, HeldIsKept

LEMMA LookingLeaksNothing ==
  ASSUME Inv, NothingLeaks, NEW g \in Callers,
         Lookup(g) \/ Probe(g) \/ DialFails(g) \/ StoreDuplicate(g)
  PROVE  NothingLeaks'
<1>1. call \in [Callers -> Call] /\ UNCHANGED <<entries, conn>>
  BY DEF Inv, TypeOK, Lookup, Probe, DialFails, StoreDuplicate
<1>2. \A h \in Callers : call'[h].own = call[h].own /\ call'[h].victims = call[h].victims
  <2>1. CASE Lookup(g)
    BY <1>1, <2>1 DEF Lookup, Call
  <2>2. CASE Probe(g)
    BY <1>1, <2>2 DEF Probe, Call
  <2>3. CASE DialFails(g)
    BY <1>1, <2>3 DEF DialFails, Call
  <2>4. CASE StoreDuplicate(g)
    BY <1>1, <2>4 DEF StoreDuplicate, Call
  <2> QED
    BY <2>1, <2>2, <2>3, <2>4
<1> QED
  BY <1>1, <1>2, HeldIsKept

\* The fields of a call that hold connections, before and after a step of g.
LEMMA HeldByOthers ==
  ASSUME Inv, NEW g \in Callers, PoolStep(g)
  PROVE  \A h \in Callers : h # g => call'[h] = call[h]
BY DEF PoolStep, Lookup, Probe, DialFails, Dial, StoreDuplicate, StoreNew, CloseSurplus,
   Remove, CloseVictims, Inv, TypeOK

LEMMA DialLeaksNothing ==
  ASSUME Inv, NothingLeaks, NEW g \in Callers, NEW d \in Clients, Dial(g, d)
  PROVE  NothingLeaks'
<1>1. \A h \in Callers : h # g => call'[h] = call[h]
  BY HeldByOthers DEF PoolStep
<1>2. call[g].own = None /\ call[g].victims = {} /\ call'[g].own = d /\ UNCHANGED entries
  BY CallFacts DEF Dial, Inv, TypeOK, Call
<1>3. \A c \in Clients : c # d => conn'[c] = conn[c]
  BY DEF Dial, Inv, TypeOK
<1> SUFFICES ASSUME NEW c \in Clients, conn'[c].state # "closed"
             PROVE  \/ \E n \in Nodes : entries'[n].client = c
                    \/ \E h \in Callers : c = call'[h].own \/ c \in call'[h].victims
  BY DEF NothingLeaks
<1>4. CASE c = d
  BY <1>2, <1>4
<1>5. CASE c # d
  BY <1>1, <1>2, <1>3, <1>5, Constants DEF NothingLeaks
<1> QED
  BY <1>4, <1>5

LEMMA StoreNewLeaksNothing ==
  ASSUME Inv, NothingLeaks, NEW g \in Callers, StoreNew(g), entries[call[g].node] = NoEntry
  PROVE  NothingLeaks'
<1> DEFINE m == call[g].node  d == call[g].own
<1>1. \A h \in Callers : h # g => call'[h] = call[h]
  BY HeldByOthers DEF PoolStep
<1>2. m \in Nodes /\ d \in Clients /\ call[g].victims = {}
  BY CallFacts DEF StoreNew
<1>3. entries'[m].client = d /\ \A n \in Nodes : n # m => entries'[n] = entries[n]
  BY <1>2 DEF StoreNew, Inv, TypeOK
<1>4. entries[m].client = None /\ UNCHANGED conn
  BY Constants DEF StoreNew
<1> HIDE DEF m, d
<1> SUFFICES ASSUME NEW c \in Clients, conn'[c].state # "closed"
             PROVE  \/ \E n \in Nodes : entries'[n].client = c
                    \/ \E h \in Callers : c = call'[h].own \/ c \in call'[h].victims
  BY DEF NothingLeaks
<1>5. CASE \E n \in Nodes : entries[n].client = c
  BY <1>3, <1>4, <1>5, Constants
<1>6. CASE \E h \in Callers : c = call[h].own \/ c \in call[h].victims
  BY <1>1, <1>2, <1>3, <1>6 DEF d
<1> QED
  BY <1>4, <1>5, <1>6 DEF NothingLeaks

LEMMA RemoveLeaksNothing ==
  ASSUME Inv, NothingLeaks, NEW g \in Callers, Remove(g)
  PROVE  NothingLeaks'
<1> DEFINE m == call[g].node
<1>1. \A h \in Callers : h # g => call'[h] = call[h]
  BY HeldByOthers DEF PoolStep
<1>2. m \in Nodes /\ call[g].own = None /\ call[g].victims = {}
  BY CallFacts DEF Remove
<1>3. /\ \A n \in Nodes : n # m => entries'[n] = entries[n]
      /\ call'[g].victims = {entries[m].client} \ {None} /\ UNCHANGED conn
  BY <1>2 DEF Remove, Inv, TypeOK, Call
<1> HIDE DEF m
<1> SUFFICES ASSUME NEW c \in Clients, conn'[c].state # "closed"
             PROVE  \/ \E n \in Nodes : entries'[n].client = c
                    \/ \E h \in Callers : c = call'[h].own \/ c \in call'[h].victims
  BY DEF NothingLeaks
<1> QED
  BY <1>1, <1>2, <1>3, Constants DEF NothingLeaks

\* What a call closes, it lets go.
LEMMA ClosingLeaksNothing ==
  ASSUME Inv, NothingLeaks, NEW g \in Callers, CloseSurplus(g) \/ CloseVictims(g)
  PROVE  NothingLeaks'
<1>1. \A h \in Callers : h # g => call'[h] = call[h]
  BY HeldByOthers DEF PoolStep
<1>2. /\ UNCHANGED entries
      /\ \A c \in Clients : conn'[c].state # "closed" =>
           conn[c].state # "closed" /\ c \notin Held(g)
  <2>1. CASE CloseSurplus(g)
    <3>1. call[g].victims = {}
      BY <2>1, CallFacts DEF CloseSurplus
    <3>2. \A c \in Clients : conn'[c] = IF c = call[g].own THEN [conn[c] EXCEPT !.state = "closed"]
                                                         ELSE conn[c]
      BY <2>1 DEF CloseSurplus, Closed
    <3>3. \A c \in Clients : [conn[c] EXCEPT !.state = "closed"].state = "closed"
      BY DEF Inv, TypeOK, Conn
    <3> QED
      BY <2>1, <3>1, <3>2, <3>3 DEF CloseSurplus, Held
  <2>2. CASE CloseVictims(g)
    <3>1. call[g].own = None
      BY <2>2, CallFacts DEF CloseVictims
    <3>2. \A c \in Clients : conn'[c] = IF c \in call[g].victims
                                          THEN [conn[c] EXCEPT !.state = "closed"] ELSE conn[c]
      BY <2>2 DEF CloseVictims, Closed
    <3>3. \A c \in Clients : [conn[c] EXCEPT !.state = "closed"].state = "closed"
      BY DEF Inv, TypeOK, Conn
    <3> QED
      BY <2>2, <3>1, <3>2, <3>3, Constants DEF CloseVictims, Held
  <2> QED
    BY <2>1, <2>2
<1> SUFFICES ASSUME NEW c \in Clients, conn'[c].state # "closed"
             PROVE  \/ \E n \in Nodes : entries'[n].client = c
                    \/ \E h \in Callers : c = call'[h].own \/ c \in call'[h].victims
  BY DEF NothingLeaks
<1> QED
  BY <1>1, <1>2 DEF NothingLeaks, Held

LEMMA FailingLeaksNothing ==
  ASSUME Inv, NothingLeaks, NEW d \in Clients, TransportFails(d)
  PROVE  NothingLeaks'
<1>1. \A c \in Clients : conn'[c].state # "closed" => conn[c].state # "closed"
  BY DEF TransportFails, Inv, TypeOK
<1> QED
  BY <1>1, HeldIsKept DEF TransportFails

=============================================================================
