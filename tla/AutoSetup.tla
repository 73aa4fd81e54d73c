------------------------------ MODULE AutoSetup -------------------------------
(***************************************************************************)
(* One-click setup of a node: choosing its protocols, giving each inbound  *)
(* a port and its credentials, writing the inbound rows one protocol at a  *)
(* time while the node is asked about ports, certificates and handshake    *)
(* targets, and publishing the result once at the end.  A protocol that    *)
(* fails undoes the whole setup in the database; a push that fails undoes  *)
(* it on the node too.  Setups of one node, and the pushes of every other  *)
(* request, run side by side with nothing but the push lock between them.  *)
(***************************************************************************)
EXTENDS Integers, Sequences, FiniteSets

CONSTANTS
  Jobs,          \* auto-setup requests, each served by its own goroutine
  Requests,      \* what operators ask for
  Domains,       \* domain names
  Direct,        \* those whose DNS records point to the node
  SNIs,          \* Reality handshake targets
  Conventional,  \* conventionalPorts, in order of preference
  RandomPorts,   \* what randomPort may return
  Foreign,       \* Foreign[l]: the ports of l taken by other programs
  MaxId,         \* bound: inbound ids that are handed out
  Tables,        \* the inbounds a node may have before the first setup
  None,          \* no domain, no target, no secret, nothing requested
  Faults         \* which faults may happen

Protocols  == {"hysteria2", "vless-reality", "vless-httpupgrade"}
DomainBound == {"hysteria2", "vless-httpupgrade"}
Network(p) == IF p = "hysteria2" THEN "udp" ELSE "tcp"
Ids        == 1..MaxId
Ports      == {Conventional[k] : k \in DOMAIN Conventional} \cup RandomPorts
HTTPS      == Conventional[1]

ASSUME ConstantsAssumption ==
  /\ Conventional \in Seq(Nat) /\ Conventional # <<>>
  /\ RandomPorts # {} /\ Ports \subseteq Nat \ {0}
  /\ Foreign \in [{"tcp", "udp"} -> SUBSET Nat]
  /\ Direct \subseteq Domains /\ None \notin Domains \cup SNIs
  /\ MaxId \in Nat
  /\ Faults \subseteq {"ssh", "probe", "target", "protocol", "store", "push",
                       "lostReply", "stop"}

VARIABLES
  rows,      \* rows[i]: row i of node_inbounds, or NoRow
  minted,    \* ids handed out so far
  domain,    \* nodes.domain
  running,   \* running[i]: row i as the node's configuration has it
  up,        \* sing-box runs and holds its ports
  job,       \* job[j]: the local state of a setup
  left,      \* history: the ids failed setups left out of step
  settled    \* history: the request of the last setup, if it succeeded alone,
             \* on a node in step

store == <<rows, minted, domain>>
vars  == <<store, running, up, job, left, settled>>

(***************************************************************************)
(* Settings of an inbound.  `domain' is the certificate's domain, or the   *)
(* server name a Reality subscription connects to (None: the node's host); *)
(* `secret' the Reality key pair and short id, the HTTPUpgrade path or the *)
(* Hysteria2 obfuscation password, named after who generated it.           *)
(***************************************************************************)
Secrets == (Jobs \X Protocols) \cup ({"issued"} \X Protocols)
Row == [proto : Protocols, port : Ports, domain : Domains \cup {None},
        sni : SNIs \cup {None}, profile : {"quic", "salamander", None},
        secret : Secrets \cup {None}]
NoRow == [proto |-> None]

\* The rows of the first inbounds of a node, and what an operator may ask for.
ASSUME InputsAssumption ==
  /\ None \notin Protocols \cup Secrets \cup {"quic", "salamander"}
  /\ \A t \in Tables :
       /\ t \in [Ids -> Row \cup {NoRow}]
       /\ \E n \in 0..MaxId : \A i \in Ids : t[i] # NoRow <=> i <= n
  /\ None \notin Requests
  /\ \A r \in Requests :
       /\ r.protocols \in Seq(Protocols)
       /\ r.domain \in Domains \cup {None} /\ r.sni \in SNIs \cup {None}
       /\ r.profile \in {"quic", "salamander", None}
       /\ r.ports \in [Protocols -> Ports \cup {0}]

(***************************************************************************)
(* The steps of a setup: read the node ("start"), connect and list its     *)
(* inbounds ("list"), for each protocol choose ("loop") and write          *)
(* ("drafted"), update the node's domain ("rename"), push; on failure undo *)
(* and, had a push been tried, push back; then one of the answers.         *)
(***************************************************************************)
Working == {"list", "loop", "drafted", "rename", "push", "undo", "pushBack"}
Undone  == {"failed", "renameFailed", "rolledBack"}
Answers == {"rejected", "ok", "undoFailed", "notRestored"} \cup Undone

NoReserved == [l \in {"tcp", "udp"} |-> {}]
NoJob == [pc |-> "start", req |-> None, was |-> None, domain |-> None,
          snap |-> [i \in Ids |-> NoRow], todo |-> <<>>, draft |-> NoRow,
          reserved |-> NoReserved, created |-> {}, updated |-> {},
          touched |-> {}, unread |-> {}, undo |-> "failed",
          hadError |-> FALSE, undoFailed |-> FALSE, alone |-> TRUE]

Active(j) == job[j].pc \in Working

\* An answer ends the goroutine: of its state only history is kept.
Answered(j, answer) ==
  [NoJob EXCEPT !.pc = answer, !.alone = job[j].alone, !.unread = job[j].unread]

Setup ==
  [pc : {"start"} \cup Working \cup Answers, req : Requests \cup {None},
   was : Domains \cup {None}, domain : Domains \cup {None},
   snap : [Ids -> Row \cup {NoRow}], todo : Seq(Protocols), draft : Row \cup {NoRow},
   reserved : [{"tcp", "udp"} -> SUBSET Ports], created : SUBSET Ids,
   updated : SUBSET Ids, touched : SUBSET Ids, unread : SUBSET Ids, undo : Undone,
   hadError : BOOLEAN, undoFailed : BOOLEAN, alone : BOOLEAN]

\* Type invariant; ids a setup knows have been handed out.
TypeOK ==
  /\ rows \in [Ids -> Row \cup {NoRow}] /\ running \in [Ids -> Row \cup {NoRow}]
  /\ minted \in 0..MaxId /\ domain \in Domains \cup {None} /\ up \in BOOLEAN
  /\ left \subseteq Ids /\ settled \in Requests \cup {None}
  /\ job \in [Jobs -> Setup]
  /\ \A j \in Jobs : /\ job[j].created \cup job[j].updated \subseteq job[j].touched
                     /\ job[j].touched \cup job[j].unread \subseteq 1..minted

-----------------------------------------------------------------------------
(***************************************************************************)
(* The node.                                                               *)
(***************************************************************************)
PortsOf(cfg, l) == {cfg[i].port : i \in {k \in Ids : /\ cfg[k] # NoRow
                                                     /\ Network(cfg[k].proto) = l}}

\* Two inbounds of one L4 network on the same port: sing-box cannot start.
Clash(cfg) ==
  \E i, k \in Ids : /\ i # k /\ cfg[i] # NoRow /\ cfg[k] # NoRow
                    /\ Network(cfg[i].proto) = Network(cfg[k].proto)
                    /\ cfg[i].port = cfg[k].port

Starts(cfg) ==
  ~Clash(cfg) /\ \A l \in {"tcp", "udp"} : PortsOf(cfg, l) \cap Foreign[l] = {}

Listening(l) == Foreign[l] \cup (IF up THEN PortsOf(running, l) ELSE {})

(***************************************************************************)
(* What a push of the node's current rows may do and report.  "sing-box    *)
(* check" does not bind ports, and systemctl reports a simple service as   *)
(* restarted before it has bound them, so a configuration that cannot      *)
(* start may count as pushed.                                              *)
(***************************************************************************)
Pushed == running' = rows /\ up' = Starts(rows)

Refused ==
  /\ "push" \in Faults \/ ~Starts(rows)
  /\ UNCHANGED running
  /\ up' \in {up, Starts(running)}

Lost == "lostReply" \in Faults /\ Pushed

-----------------------------------------------------------------------------
(***************************************************************************)
(* Starting: which protocols, and whether the request can be served.       *)
(***************************************************************************)
Suggested(mode, d) ==
  IF mode = "reality" \/ d = None THEN <<"vless-reality">>
  ELSE IF mode = "cdn" THEN <<"vless-httpupgrade", "vless-reality">>
  ELSE <<"hysteria2", "vless-reality">>

\* assessSetup: the modes that need DNS to agree.
Assessed(mode, d) ==
  /\ mode \in {"direct", "cdn"} => d # None
  /\ mode = "direct" \/ (mode = "auto" /\ d # None) => d \in Direct

ProtocolsFor(req, d) ==
  IF req.protocols # <<>> THEN req.protocols ELSE Suggested(req.mode, d)

Acceptable(req, d) ==
  /\ (req.protocols # <<>> /\ req.mode = "auto") \/ Assessed(req.mode, d)
  /\ \A k \in DOMAIN ProtocolsFor(req, d) :
       ProtocolsFor(req, d)[k] \in DomainBound => d # None
  /\ \A k, m \in DOMAIN ProtocolsFor(req, d) :
       ProtocolsFor(req, d)[k] = ProtocolsFor(req, d)[m] => k = m

\* Starting beside another setup, or being met by one, is remembered.
Start(j, req) ==
  LET d == IF req.domain = None THEN domain ELSE req.domain
      alone == \A k \in Jobs : ~Active(k)
  IN  /\ job[j].pc = "start"
      /\ job' = [k \in Jobs |->
                  IF k = j THEN
                    IF Acceptable(req, d)
                      THEN [NoJob EXCEPT !.req = req, !.was = domain, !.domain = d,
                              !.todo = ProtocolsFor(req, d), !.alone = alone,
                              !.pc = "list"]
                      ELSE Answered(j, "rejected")
                  ELSE [job[k] EXCEPT !.alone = @ /\ ~Active(k)]]
      /\ UNCHANGED <<store, running, up, left, settled>>

\* Faulty variant: a domain migration forgets the protocols it leaves behind.
MigrationAlwaysComplete(j) == TRUE

\* "domain migration must include every existing domain-bound protocol"
MigrationComplete(j) ==
  job[j].domain # job[j].was =>
    \A i \in Ids : rows[i] # NoRow /\ rows[i].proto \in DomainBound =>
      \E k \in DOMAIN job[j].todo : job[j].todo[k] = rows[i].proto

List(j) ==
  /\ job[j].pc = "list"
  /\ job' = [job EXCEPT ![j] = IF MigrationComplete(j)
                                THEN [@ EXCEPT !.pc = "loop", !.snap = rows]
                                ELSE Answered(j, "rejected")]
  /\ UNCHANGED <<store, running, up, left, settled>>

\* sshConnect or ListInbounds fails.
Unreachable(j) ==
  /\ job[j].pc = "list" /\ "ssh" \in Faults
  /\ job' = [job EXCEPT ![j] = Answered(j, "rejected")]
  /\ UNCHANGED <<store, running, up, left, settled>>

-----------------------------------------------------------------------------
(***************************************************************************)
(* Choosing the settings of one protocol.                                  *)
(***************************************************************************)
Proto(j) == Head(job[j].todo)

\* The inbound the snapshot has for protocol p: the last one listed.
ExistingIds(j, p) == {i \in Ids : job[j].snap[i] # NoRow /\ job[j].snap[i].proto = p}
Existing(j, p)    == CHOOSE i \in ExistingIds(j, p) : \A k \in ExistingIds(j, p) : k <= i
Exists(j, p)      == ExistingIds(j, p) # {}

Old(j, p) ==
  IF Exists(j, p) THEN job[j].snap[Existing(j, p)]
  ELSE [proto |-> p, port |-> 0, domain |-> None, sni |-> None,
        profile |-> None, secret |-> None]

\* Faulty variants of selectListenPort: it forgets the ports this run handed
\* out; it treats the inbound's own port as taken.
SelectedUnreserved(l, current, reserved) ==
  LET free == {k \in DOMAIN Conventional :
                 Conventional[k] \notin Listening(l) \ {current}}
  IN  IF free = {} THEN {current}
      ELSE {Conventional[CHOOSE k \in free : \A m \in free : k <= m]}

SelectedElsewhere(l, current, reserved) ==
  LET free == {k \in DOMAIN Conventional :
                 Conventional[k] \notin Listening(l) \cup reserved}
  IN  IF free = {} THEN RandomPorts
      ELSE {Conventional[CHOOSE k \in free : \A m \in free : k <= m]}

\* selectListenPort: the first conventional port that is free, the inbound's
\* own port counting as free; otherwise the current one, or a random one.
Selected(l, current, reserved) ==
  LET free == {k \in DOMAIN Conventional :
                 Conventional[k] \notin (Listening(l) \ {current}) \cup reserved}
      fallback == IF current # 0 /\ current \notin reserved THEN {current}
                                                            ELSE RandomPorts
      best == IF free = {} THEN fallback
              ELSE {Conventional[CHOOSE k \in free : \A m \in free : k <= m]}
  IN  best \cup (IF "probe" \in Faults THEN fallback ELSE {})

\* Faulty variant: HTTPUpgrade keeps its port even if it has none yet.
SelectedPortsKept(j, p) ==
  IF p = "vless-httpupgrade" THEN {Old(j, p).port}
  ELSE Selected(Network(p), Old(j, p).port, job[j].reserved[Network(p)])

SelectedPorts(j, p) ==
  IF job[j].req.ports[p] # 0 THEN {job[j].req.ports[p]}
  ELSE IF p = "vless-httpupgrade"
    THEN {IF Exists(j, p) THEN Old(j, p).port ELSE HTTPS}
  ELSE Selected(Network(p), Old(j, p).port, job[j].reserved[Network(p)])

\* chooseRealitySNI
Targets(j, stored) ==
  IF job[j].req.sni # None THEN {job[j].req.sni}
  ELSE IF stored # None /\ "target" \notin Faults THEN {stored}
  ELSE SNIs

\* Faulty variant: the secret is generated whatever is stored.
FreshSecret(j, p) == <<j, p>>

KeptOrNew(j, p) == IF Old(j, p).secret # None THEN Old(j, p).secret ELSE <<j, p>>

Drafts(j, p, port) ==
  LET old == Old(j, p)
      profile == IF job[j].req.profile # None THEN job[j].req.profile
                 ELSE IF old.profile # None THEN old.profile ELSE "quic"
      base == [old EXCEPT !.port = port, !.domain = job[j].domain]
  IN  CASE p = "hysteria2" ->
             {[base EXCEPT !.profile = profile,
                 !.secret = IF profile = "salamander" THEN KeptOrNew(j, p) ELSE @]}
        [] p = "vless-reality" ->
             {[base EXCEPT !.sni = s, !.secret = KeptOrNew(j, p),
                 !.domain = IF job[j].domain \in Direct THEN @ ELSE None] :
              s \in Targets(j, old.sni)}
        [] p = "vless-httpupgrade" -> {[base EXCEPT !.secret = KeptOrNew(j, p)]}

Done(j) == [job[j] EXCEPT !.todo = Tail(@), !.pc = "loop", !.draft = NoRow]

\* An HTTPUpgrade inbound with the right domain and port is left as it is,
\* before its port is reserved.
AlreadyConfigured(j) ==
  LET p == "vless-httpupgrade" IN
  /\ Proto(j) = p /\ Exists(j, p)
  /\ Old(j, p).domain = job[j].domain
  /\ job[j].req.ports[p] \in {0, Old(j, p).port}

SkipConfigured(j) ==
  /\ job[j].pc = "loop" /\ job[j].todo # <<>> /\ AlreadyConfigured(j)
  /\ job' = [job EXCEPT ![j] = Done(j)]
  /\ UNCHANGED <<store, running, up, left, settled>>

\* Only a selected port, and HTTPUpgrade's, is reserved.
Reserves(j, p) == p = "vless-httpupgrade" \/ job[j].req.ports[p] = 0

Draft(j) ==
  LET p == Proto(j) IN
  /\ job[j].pc = "loop" /\ job[j].todo # <<>> /\ ~AlreadyConfigured(j)
  /\ \E port \in SelectedPorts(j, p) : \E row \in Drafts(j, p, port) :
       job' = [job EXCEPT ![j].draft = row, ![j].pc = "drafted",
                 ![j].reserved[Network(p)] =
                    IF Reserves(j, p) THEN @ \cup {port} ELSE @]
  /\ UNCHANGED <<store, running, up, left, settled>>

-----------------------------------------------------------------------------
(***************************************************************************)
(* Writing it, or failing: DNS, certificate, key pair or target, or an     *)
(* insert that took no effect.                                             *)
(***************************************************************************)
ProtocolFails(j) ==
  /\ job[j].pc = "drafted"
  /\ \/ "protocol" \in Faults
     \/ Proto(j) = "hysteria2" /\ job[j].domain \notin Direct
     \/ "store" \in Faults /\ ~Exists(j, Proto(j))
  /\ job' = [job EXCEPT ![j] = [Done(j) EXCEPT !.hadError = TRUE]]
  /\ UNCHANGED <<store, running, up, left, settled>>

Ready(j) ==
  /\ job[j].pc = "drafted"
  /\ Proto(j) = "hysteria2" => job[j].domain \in Direct

\* A Reality inbound is compared by port, target and server only: a key pair
\* generated for a row that lacks one is not written for its own sake.
Unchanged(new, old) ==
  new = [old EXCEPT !.secret = IF old.proto = "vless-reality" THEN new.secret ELSE @]

SkipUnchanged(j) ==
  /\ Ready(j) /\ Exists(j, Proto(j)) /\ Unchanged(job[j].draft, Old(j, Proto(j)))
  /\ job' = [job EXCEPT ![j] = Done(j)]
  /\ UNCHANGED <<store, running, up, left, settled>>

\* A statement may fail before or after it took effect (the row is read back).
StoreFails == IF "store" \in Faults THEN BOOLEAN ELSE {FALSE}

\* The row may have been deleted by another setup's rollback meanwhile.  It is
\* listed for the rollback first, so an update that failed is undone as well.
UpdateRow(j) ==
  LET i == Existing(j, Proto(j))
      written == IF rows[i] = NoRow THEN rows ELSE [rows EXCEPT ![i] = job[j].draft]
  IN
  \E fails \in StoreFails :
  /\ Ready(j) /\ Exists(j, Proto(j)) /\ ~Unchanged(job[j].draft, Old(j, Proto(j)))
  /\ rows' \in IF fails THEN {written, rows} ELSE {written}
  /\ job' = [job EXCEPT ![j] = [Done(j) EXCEPT !.updated = @ \cup {i},
                                  !.touched = @ \cup {i},
                                  !.hadError = @ \/ fails \/ rows[i] = NoRow]]
  /\ UNCHANGED <<minted, domain, running, up, left, settled>>

CreateRow(j) ==
  LET i == minted + 1 IN
  /\ Ready(j) /\ ~Exists(j, Proto(j)) /\ minted < MaxId
  /\ rows' = [rows EXCEPT ![i] = job[j].draft] /\ minted' = i
  /\ job' = [job EXCEPT ![j] = [Done(j) EXCEPT !.created = @ \cup {i},
                                  !.touched = @ \cup {i}]]
  /\ UNCHANGED <<domain, running, up, left, settled>>

\* The row is inserted and cannot be read back: an error, and no id to undo.
CreateUnread(j) ==
  LET i == minted + 1 IN
  /\ "store" \in Faults
  /\ Ready(j) /\ ~Exists(j, Proto(j)) /\ minted < MaxId
  /\ rows' = [rows EXCEPT ![i] = job[j].draft] /\ minted' = i
  /\ job' = [job EXCEPT ![j] = [Done(j) EXCEPT !.hadError = TRUE,
                                  !.unread = @ \cup {i}]]
  /\ UNCHANGED <<domain, running, up, left, settled>>

\* All protocols are done.  On an error nothing is pushed.
LoopDone(j) ==
  /\ job[j].pc = "loop" /\ job[j].todo = <<>>
  /\ job' = [job EXCEPT ![j].pc =
               IF job[j].hadError THEN "undo"
               ELSE IF job[j].domain # job[j].was THEN "rename" ELSE "push"]
  /\ UNCHANGED <<store, running, up, left, settled>>

-----------------------------------------------------------------------------
(***************************************************************************)
(* The node's domain, the push, and the two ways back.                     *)
(***************************************************************************)
Rename(j) ==
  /\ job[j].pc = "rename"
  /\ domain' = job[j].domain
  /\ job' = [job EXCEPT ![j].pc = "push"]
  /\ UNCHANGED <<rows, minted, running, up, left, settled>>

RenameFails(j) ==
  /\ job[j].pc = "rename" /\ "store" \in Faults
  /\ domain' \in {domain, job[j].domain}
  /\ job' = [job EXCEPT ![j].pc = "undo", ![j].undo = "renameFailed"]
  /\ UNCHANGED <<rows, minted, running, up, left, settled>>

Push(j) ==
  /\ job[j].pc = "push"
  /\ \/ /\ Pushed /\ left' = {}
        /\ job' = [job EXCEPT ![j] = Answered(j, "ok")]
        /\ settled' = IF job[j].alone /\ left = {} THEN job[j].req ELSE None
     \/ /\ Refused \/ Lost
        /\ job' = [job EXCEPT ![j].pc = "undo", ![j].undo = "rolledBack"]
        /\ UNCHANGED <<left, settled>>
  /\ UNCHANGED store

\* rollbackDatabase: delete the created rows, put the others back, then the
\* domain; an error does not stop it.
Uncreate(j, i) ==
  /\ job[j].pc = "undo" /\ i \in job[j].created
  /\ \E fails \in StoreFails :
       /\ rows' = IF fails THEN rows ELSE [rows EXCEPT ![i] = NoRow]
       /\ job' = [job EXCEPT ![j].created = @ \ {i},
                             ![j].undoFailed = @ \/ fails \/ rows[i] = NoRow]
  /\ UNCHANGED <<minted, domain, running, up, left, settled>>

\* Faulty variant: only what this setup created is undone.
LeaveUpdated(j, i) ==
  /\ job[j].pc = "undo" /\ job[j].created = {} /\ i \in job[j].updated
  /\ job' = [job EXCEPT ![j].updated = @ \ {i}]
  /\ UNCHANGED <<store, running, up, left, settled>>

Restore(j, i) ==
  /\ job[j].pc = "undo" /\ job[j].created = {} /\ i \in job[j].updated
  /\ \E fails \in StoreFails :
       /\ \/ rows' = IF rows[i] = NoRow THEN rows
                     ELSE [rows EXCEPT ![i] = job[j].snap[i]]
          \/ fails /\ rows' = rows
       /\ job' = [job EXCEPT ![j].updated = @ \ {i},
                             ![j].undoFailed = @ \/ fails \/ rows[i] = NoRow]
  /\ UNCHANGED <<minted, domain, running, up, left, settled>>

\* Faulty variant: the rows are put back and the node is not told.
EndUndoWithoutPush(j) ==
  /\ job[j].pc = "undo" /\ job[j].created \cup job[j].updated = {}
  /\ domain' = job[j].was
  /\ job' = [job EXCEPT ![j] =
               Answered(j, IF job[j].undoFailed THEN "undoFailed" ELSE job[j].undo)]
  /\ left' = left \cup job[j].unread
               \cup (IF job[j].undoFailed \/ ~job[j].alone THEN job[j].touched ELSE {})
  /\ settled' = None
  /\ UNCHANGED <<rows, minted, running, up>>

\* Putting the domain back may fail like any other statement.
EndUndo(j) ==
  \E fails \in IF job[j].domain # job[j].was THEN StoreFails ELSE {FALSE} :
  LET failed == job[j].undoFailed \/ fails IN
  /\ job[j].pc = "undo" /\ job[j].created \cup job[j].updated = {}
  /\ \/ domain' = IF job[j].domain # job[j].was THEN job[j].was ELSE domain
     \/ fails /\ domain' = domain
  /\ job' = [job EXCEPT ![j] =
               IF failed THEN Answered(j, "undoFailed")
               ELSE IF job[j].undo = "rolledBack" THEN [@ EXCEPT !.pc = "pushBack"]
               ELSE Answered(j, job[j].undo)]
  /\ left' = left \cup job[j].unread
               \cup (IF failed \/ ~job[j].alone THEN job[j].touched ELSE {})
  /\ settled' = None
  /\ UNCHANGED <<rows, minted, running, up>>

PushBack(j) ==
  /\ job[j].pc = "pushBack"
  /\ \/ /\ Pushed /\ left' = {}
        /\ job' = [job EXCEPT ![j] = Answered(j, "rolledBack")]
     \/ /\ Refused \/ Lost
        /\ left' = left \cup job[j].touched
        /\ job' = [job EXCEPT ![j] = Answered(j, "notRestored")]
  /\ settled' = None
  /\ UNCHANGED store

-----------------------------------------------------------------------------
(***************************************************************************)
(* Everything else: another request pushes the node, sing-box stops.       *)
(***************************************************************************)
OtherPush ==
  /\ \/ Pushed /\ left' = {}
     \/ Refused /\ UNCHANGED left
  /\ job' = [j \in Jobs |-> [job[j] EXCEPT !.alone = @ /\ ~Active(j)]]
  /\ UNCHANGED <<store, settled>>

Stop ==
  /\ "stop" \in Faults /\ up
  /\ up' = FALSE
  /\ UNCHANGED <<store, running, job, left, settled>>

Init ==
  /\ rows \in Tables /\ running = rows /\ up = TRUE
  /\ minted = Cardinality({i \in Ids : rows[i] # NoRow})
  /\ domain \in Domains \cup {None}
  /\ job = [j \in Jobs |-> NoJob]
  /\ left = {} /\ settled = None

Step(j) ==
  \/ \E req \in Requests : Start(j, req)
  \/ List(j) \/ Unreachable(j)
  \/ SkipConfigured(j) \/ Draft(j)
  \/ ProtocolFails(j) \/ SkipUnchanged(j) \/ UpdateRow(j)
  \/ CreateRow(j) \/ CreateUnread(j) \/ LoopDone(j)
  \/ Rename(j) \/ RenameFails(j) \/ Push(j)
  \/ \E i \in Ids : Uncreate(j, i) \/ Restore(j, i)
  \/ EndUndo(j) \/ PushBack(j)

Next == (\E j \in Jobs : Step(j)) \/ OtherPush \/ Stop

Spec == Init /\ [][Next]_vars

-----------------------------------------------------------------------------
(***************************************************************************)
(* Properties.                                                             *)
(***************************************************************************)
Quiet    == \A j \in Jobs : ~Active(j)
AllAlone == \A j \in Jobs : job[j].alone
\* ... nor left anything behind that was undone in part or never read back.
Orderly  ==
  /\ AllAlone /\ left = {}
  /\ \A j \in Jobs : job[j].unread = {} /\ job[j].pc # "undoFailed"

\* Once no setup is in progress the node runs exactly the rows the database
\* has, however setups, their rollbacks and other pushes interleaved; except
\* for ids a setup gave up on (it said so, or another publication met it
\* half-way: the 422 path rolls rows back and never pushes).
NodeFollowsRows ==
  Quiet => \A i \in Ids \ left : running[i] = rows[i]

\* "Without it, a fresh CDN node would give 443 to HTTPUpgrade and then hand
\* the same 443 to Reality, and sing-box would refuse to start" (setup.go): what
\* a setup is about to push has no two inbounds on one port of an L4 network, if
\* sing-box was up to be asked for its ports.
PortsDoNotCollide ==
  Orderly /\ up /\ (\E j \in Jobs : job[j].pc = "push") => ~Clash(rows)

\* A domain migration takes every inbound that carries the domain along, and a
\* failed one brings them all back.
DomainBoundRowsFollowDomain ==
  Quiet /\ Orderly =>
    \A i \in Ids : rows[i] # NoRow /\ rows[i].proto \in DomainBound =>
      rows[i].domain = domain

\* Re-running setup on an already-correct node is a no-op: nothing is
\* rewritten, unless a random port can become a conventional one.
RerunKeepsEverything ==
  \A j \in Jobs :
    /\ job[j].pc = "drafted" /\ job[j].alone /\ up
    /\ settled = job[j].req
    => LET old == Old(j, Proto(j)) IN
       /\ Exists(j, Proto(j))
       /\ Unchanged(job[j].draft, [old EXCEPT !.port = job[j].draft.port])
       /\ old.secret # None => job[j].draft.secret = old.secret
       /\ job[j].draft.port = old.port \/ old.port \in RandomPorts

\* "Reality credentials remain stable unless the inbound is explicitly deleted":
\* no step, of a setup or of its rollback, replaces a credential the node
\* serves.  A Hysteria2 password is only kept by setups that do not overlap.
CredentialsAreStable ==
  [][\A i \in Ids \ left :
       /\ running[i] # NoRow /\ rows'[i] # NoRow
       /\ rows'[i] # rows[i] /\ running[i].secret # None
       /\ running[i].proto = "hysteria2" =>
            AllAlone /\ \A j \in Jobs : job[j].pc # "undo"
       => rows'[i].secret = running[i].secret]_vars

\* "No changes were applied", "changes rolled back": a setup that says so, and
\* that nothing overlapped, leaves the rows and the domain it found, and after
\* the second push a node that runs them.
FailedSetupLeavesNoTrace ==
  [][\A j \in Jobs :
       /\ Active(j) /\ job'[j].pc \in Undone
       /\ job[j].alone /\ job[j].unread = {}
       => /\ rows' = job[j].snap /\ domain' = job[j].was
          /\ job'[j].pc = "rolledBack" => running' = rows']_vars

=============================================================================
