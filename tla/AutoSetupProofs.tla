---------------------------- MODULE AutoSetupProofs ----------------------------
(***************************************************************************)
(* What holds of AutoSetup for any number of setups that interleave with   *)
(* one another and with other pushes, any requests, ports and domains, and *)
(* every combination of faults.                                            *)
(***************************************************************************)
EXTENDS AutoSetup, SumFacts

-----------------------------------------------------------------------------
(***************************************************************************)
(* The inductive invariant.  Ids that were never handed out are unused; a  *)
(* setup keeps book of what it has to undo; wherever the node differs from *)
(* the database, some setup in progress still has to answer for it; and a  *)
(* setup that nothing has met still knows what it found.                   *)
(***************************************************************************)
Unused ==
  \A i \in Ids : i > minted =>
    rows[i] = NoRow /\ \A j \in Jobs : job[j].snap[i] = NoRow

BookKept(s) ==
  /\ s.pc \in Working => s.req # None
  /\ s.pc = "drafted" => s.todo # <<>>
  /\ s.pc \in {"start", "list"} \cup Answers => s.touched = {}
  /\ s.pc \in {"start", "list"} => s.unread = {}
  /\ s.pc \notin {"undo", "pushBack"} => s.undo = "failed" /\ ~s.undoFailed
  /\ s.pc = "pushBack" => /\ s.undo = "rolledBack" /\ ~s.undoFailed
                          /\ s.created = {} /\ s.updated = {}

\* The ids setup s answers for.  Those it never read back it gives up when it
\* has undone the rest.
Hold(s) == IF s.pc = "pushBack" THEN s.touched ELSE s.touched \cup s.unread

Accounted ==
  \A i \in Ids \ left :
    running[i] = rows[i] \/ \E j \in Jobs : Active(j) /\ i \in Hold(job[j])

\* What setup s found is still there, in the rows rs, the node's configuration
\* rn and the node's domain d, but for what s has changed; lf: the ids given up.
Faithful(s, rs, rn, lf, d) ==
  /\ s.pc # "list" =>
       /\ \A i \in Ids : \/ rs[i] = s.snap[i] \/ s.undoFailed
                         \/ i \in s.created \cup s.updated \cup s.unread
       /\ \A i \in s.created : s.snap[i] = NoRow
       /\ s.undo # "rolledBack" => \A i \in Ids \ lf : rn[i] = s.snap[i]
  /\ d \in {s.was, s.domain}
  /\ s.pc \notin {"push", "undo"} => d = s.was

Undisturbed(j) ==
  Active(j) /\ job[j].alone =>
    /\ \A k \in Jobs : Active(k) => k = j
    /\ Faithful(job[j], rows, running, left, domain)

Inv ==
  /\ TypeOK /\ Unused /\ Accounted
  /\ \A j \in Jobs : BookKept(job[j]) /\ Undisturbed(j)

-----------------------------------------------------------------------------
LEMMA Constants ==
  /\ None \notin Protocols /\ None \notin Requests /\ None \notin SNIs
  /\ Ports \subseteq Nat \ {0} /\ RandomPorts \subseteq Ports /\ HTTPS \in Ports
  /\ \A k \in DOMAIN Conventional : Conventional[k] \in Ports
  /\ DOMAIN Conventional \subseteq Nat
  /\ NoRow \notin Row
<1>1. DOMAIN Conventional = 1..Len(Conventional) /\ Len(Conventional) \in Nat \ {0}
  BY ConstantsAssumption DEF ConstantsAssumption
<1>2. \A k \in DOMAIN Conventional : Conventional[k] \in Ports
  BY DEF Ports
<1>3. HTTPS \in Ports
  BY <1>1, <1>2 DEF HTTPS
<1>4. NoRow \notin Row
  BY InputsAssumption DEF InputsAssumption, NoRow, Row
<1>5. None \notin Protocols /\ None \notin Requests
  BY InputsAssumption DEF InputsAssumption
<1>6. None \notin SNIs /\ Ports \subseteq Nat \ {0}
  BY ConstantsAssumption DEF ConstantsAssumption
<1>7. RandomPorts \subseteq Ports
  BY DEF Ports
<1> QED
  BY <1>1, <1>2, <1>3, <1>4, <1>5, <1>6, <1>7

LEMMA NoJobFacts ==
  /\ NoJob \in Setup /\ BookKept(NoJob)
  /\ NoJob.touched = {} /\ NoJob.unread = {} /\ NoJob.created = {} /\ NoJob.updated = {}
<1>1. <<>> \in Seq(Protocols)
  OBVIOUS
<1>2. NoReserved \in [{"tcp", "udp"} -> SUBSET Ports]
  BY DEF NoReserved
<1> QED
  BY <1>1, <1>2 DEF NoJob, Setup, Working, Answers, Undone, BookKept

LEMMA AnsweredFacts ==
  ASSUME TypeOK, NEW j \in Jobs, NEW answer \in Answers
  PROVE  /\ Answered(j, answer) \in Setup /\ BookKept(Answered(j, answer))
         /\ Answered(j, answer).pc = answer /\ answer \notin Working
         /\ Answered(j, answer).created = {} /\ Answered(j, answer).updated = {}
         /\ Answered(j, answer).touched = {}
         /\ Answered(j, answer).unread = job[j].unread
         /\ Answered(j, answer).alone = job[j].alone
         /\ \A i \in Ids : Answered(j, answer).snap[i] = NoRow
<1>1. job[j] \in Setup
  BY DEF TypeOK
<1>2. job[j].alone \in BOOLEAN /\ job[j].unread \in SUBSET Ids
  BY <1>1 DEF Setup
<1>3. answer \notin Working /\ answer \notin {"start", "list", "drafted", "undo", "pushBack"}
  BY DEF Answers, Working, Undone
<1>4. /\ Answered(j, answer).pc = answer /\ Answered(j, answer).todo = <<>>
      /\ Answered(j, answer).undo = "failed" /\ Answered(j, answer).undoFailed = FALSE
      /\ Answered(j, answer).created = {} /\ Answered(j, answer).updated = {}
      /\ Answered(j, answer).touched = {}
      /\ Answered(j, answer).unread = job[j].unread
      /\ Answered(j, answer).alone = job[j].alone
      /\ Answered(j, answer).snap = [i \in Ids |-> NoRow]
  BY DEF Answered, NoJob
<1>5. Answered(j, answer) \in Setup
  BY <1>2, NoJobFacts DEF Answered, Setup
<1>6. BookKept(Answered(j, answer))
  BY <1>3, <1>4 DEF BookKept
<1> QED
  BY <1>3, <1>4, <1>5, <1>6

\* What a setup in progress knows, field by field.
LEMMA SetupFacts ==
  ASSUME TypeOK, NEW j \in Jobs
  PROVE  /\ job[j] \in Setup
         /\ job[j].req \in Requests \cup {None}
         /\ job[j].was \in Domains \cup {None} /\ job[j].domain \in Domains \cup {None}
         /\ job[j].snap \in [Ids -> Row \cup {NoRow}] /\ job[j].todo \in Seq(Protocols)
         /\ job[j].draft \in Row \cup {NoRow}
         /\ job[j].created \subseteq job[j].touched /\ job[j].updated \subseteq job[j].touched
         /\ job[j].touched \subseteq Ids /\ job[j].unread \subseteq Ids
         /\ job[j].touched \cup job[j].unread \subseteq 1..minted
         /\ job[j].undo \in Undone
         /\ job[j].undoFailed \in BOOLEAN /\ job[j].hadError \in BOOLEAN
         /\ job[j].alone \in BOOLEAN
<1>1. job[j] \in Setup /\ job[j].created \cup job[j].updated \subseteq job[j].touched
      /\ job[j].touched \cup job[j].unread \subseteq 1..minted
  BY DEF TypeOK
<1> QED
  BY <1>1 DEF Setup

LEMMA DoneFacts ==
  ASSUME TypeOK, NEW j \in Jobs, job[j].todo # <<>>
  PROVE  /\ Proto(j) \in Protocols
         /\ Tail(job[j].todo) \in Seq(Protocols)
         /\ Done(j) \in Setup
<1>1. job[j].todo \in Seq(Protocols)
  BY SetupFacts
<1>2. Head(job[j].todo) \in Protocols /\ Tail(job[j].todo) \in Seq(Protocols)
  BY <1>1
<1>3. job[j] \in Setup
  BY SetupFacts
<1>4. Done(j) \in Setup
  BY <1>2, <1>3 DEF Done, Setup, Working
<1> QED
  BY <1>2, <1>4 DEF Proto

-----------------------------------------------------------------------------
(***************************************************************************)
(* Whatever is drafted is a row: the inbound a protocol has, its port from *)
(* one of the sources of ports, its credential kept or issued.             *)
(***************************************************************************)
\* A row, or what stands for the row of a protocol that has none.
Template(p) ==
  [proto : {p}, port : Ports \cup {0}, domain : Domains \cup {None},
   sni : SNIs \cup {None}, profile : {"quic", "salamander", None},
   secret : Secrets \cup {None}]

LEMMA ExistingFacts ==
  ASSUME TypeOK, NEW j \in Jobs, NEW p, Exists(j, p)
  PROVE  /\ Existing(j, p) \in Ids
         /\ job[j].snap[Existing(j, p)] # NoRow
         /\ job[j].snap[Existing(j, p)].proto = p
<1>1. MaxId \in Nat /\ ExistingIds(j, p) \in SUBSET (1..MaxId) /\ ExistingIds(j, p) # {}
  BY ConstantsAssumption DEF ConstantsAssumption, ExistingIds, Ids, Exists
<1>2. \E i \in ExistingIds(j, p) : \A k \in ExistingIds(j, p) : k <= i
  BY <1>1, GreatestExists
<1>3. Existing(j, p) \in ExistingIds(j, p)
  BY <1>2 DEF Existing
<1> QED
  BY <1>3 DEF ExistingIds

LEMMA OldFacts ==
  ASSUME TypeOK, NEW j \in Jobs, NEW p \in Protocols
  PROVE  /\ Old(j, p) \in Template(p)
         /\ Exists(j, p) => Old(j, p).port \in Ports
         /\ Old(j, p).port # 0 => Old(j, p).port \in Ports
<1>1. CASE Exists(j, p)
  <2>1. job[j].snap[Existing(j, p)] \in Row /\ job[j].snap[Existing(j, p)].proto = p
    BY <1>1, ExistingFacts, SetupFacts
  <2>2. Old(j, p) = job[j].snap[Existing(j, p)]
    BY <1>1 DEF Old
  <2> QED
    BY <2>1, <2>2 DEF Row, Template
<1>2. CASE ~Exists(j, p)
  <2>1. Old(j, p) = [proto |-> p, port |-> 0, domain |-> None, sni |-> None,
                     profile |-> None, secret |-> None]
    BY <1>2 DEF Old
  <2> QED
    BY <1>2, <2>1 DEF Template
<1> QED
  BY <1>1, <1>2

LEMMA OldRow ==
  ASSUME TypeOK, NEW j \in Jobs, NEW p \in Protocols, Exists(j, p)
  PROVE  Old(j, p) \in Row /\ Old(j, p).proto = p
<1>1. job[j].snap[Existing(j, p)] \in Row /\ job[j].snap[Existing(j, p)].proto = p
  BY ExistingFacts, SetupFacts
<1> QED
  BY <1>1 DEF Old

\* Settings setup calls unchanged differ in the key pair of Reality at most.
LEMMA UnchangedFacts ==
  ASSUME NEW old \in Row, NEW new, Unchanged(new, old)
  PROVE  /\ new.proto = old.proto /\ new.port = old.port /\ new.domain = old.domain
         /\ new.sni = old.sni /\ new.profile = old.profile
         /\ old.proto # "vless-reality" => new = old
BY DEF Unchanged, Row

LEMMA SelectedFacts ==
  ASSUME NEW l, NEW current \in Ports \cup {0}, NEW reserved
  PROVE  Selected(l, current, reserved) \subseteq Ports
<1> DEFINE free == {k \in DOMAIN Conventional :
                      Conventional[k] \notin (Listening(l) \ {current}) \cup reserved}
           fallback == IF current # 0 /\ current \notin reserved THEN {current}
                                                                 ELSE RandomPorts
           best == IF free = {} THEN fallback
                   ELSE {Conventional[CHOOSE k \in free : \A m \in free : k <= m]}
<1>1. fallback \subseteq Ports
  BY Constants
<1>2. best \subseteq Ports
  <2>1. CASE free = {}
    BY <1>1, <2>1
  <2>2. CASE free # {}
    <3>1. free \in SUBSET Nat /\ free \subseteq DOMAIN Conventional
      BY Constants
    <3>2. \E k \in free : \A m \in free : k <= m
      BY <3>1, <2>2, LeastExists
    <3>3. (CHOOSE k \in free : \A m \in free : k <= m) \in free
      BY <3>2
    <3>4. best = {Conventional[CHOOSE k \in free : \A m \in free : k <= m]}
      BY <2>2
    <3> QED
      BY <3>1, <3>3, <3>4, Constants
  <2> QED
    BY <2>1, <2>2
<1>3. Selected(l, current, reserved)
        = best \cup (IF "probe" \in Faults THEN fallback ELSE {})
  BY DEF Selected
<1> HIDE DEF best, fallback
<1> QED
  BY <1>1, <1>2, <1>3

LEMMA SelectedPortsFacts ==
  ASSUME TypeOK, NEW j \in Jobs, job[j].req # None, NEW p \in Protocols
  PROVE  SelectedPorts(j, p) \subseteq Ports
<1>1. job[j].req \in Requests
  BY SetupFacts
<1>2. job[j].req.ports[p] \in Ports \cup {0}
  BY <1>1, InputsAssumption DEF InputsAssumption
<1>3. Old(j, p).port \in Ports \cup {0}
  BY OldFacts DEF Template
<1>4. Selected(Network(p), Old(j, p).port, job[j].reserved[Network(p)]) \subseteq Ports
  BY <1>3, SelectedFacts
<1>5. (IF Exists(j, p) THEN Old(j, p).port ELSE HTTPS) \in Ports
  BY OldFacts, Constants
<1> QED
  BY <1>2, <1>4, <1>5 DEF SelectedPorts

LEMMA DraftsAreRows ==
  ASSUME TypeOK, NEW j \in Jobs, job[j].req # None, NEW p \in Protocols,
         NEW port \in Ports
  PROVE  Drafts(j, p, port) \subseteq Row
<1> DEFINE old == Old(j, p)
           profile == IF job[j].req.profile # None THEN job[j].req.profile
                      ELSE IF old.profile # None THEN old.profile ELSE "quic"
           base == [old EXCEPT !.port = port, !.domain = job[j].domain]
<1>1. job[j].req \in Requests /\ job[j].domain \in Domains \cup {None}
  BY SetupFacts
<1>2. old \in Template(p)
  BY OldFacts
<1>3. profile \in {"quic", "salamander"}
  <2>1. job[j].req.profile \in {"quic", "salamander", None}
    BY <1>1, InputsAssumption DEF InputsAssumption
  <2>2. old.profile \in {"quic", "salamander", None}
    BY <1>2 DEF Template
  <2> QED
    BY <2>1, <2>2
<1>4. base \in Row
  BY <1>1, <1>2 DEF Template, Row
<1>5. KeptOrNew(j, p) \in Secrets
  BY <1>2 DEF Template, KeptOrNew, Secrets
<1>6. \A stored : stored \in SNIs \cup {None} => Targets(j, stored) \subseteq SNIs
  BY <1>1, InputsAssumption DEF InputsAssumption, Targets
<1>7. old.sni \in SNIs \cup {None}
  BY <1>2 DEF Template
<1>8. CASE p = "hysteria2"
  <2>1. Drafts(j, p, port) = {[base EXCEPT !.profile = profile,
                 !.secret = IF profile = "salamander" THEN KeptOrNew(j, p) ELSE @]}
    BY <1>8 DEF Drafts
  <2> HIDE DEF base, profile
  <2> QED
    BY <2>1, <1>3, <1>4, <1>5 DEF Row
<1>9. CASE p = "vless-reality"
  <2>1. Drafts(j, p, port) = {[base EXCEPT !.sni = s, !.secret = KeptOrNew(j, p),
                 !.domain = IF job[j].domain \in Direct THEN @ ELSE None] :
              s \in Targets(j, old.sni)}
    BY <1>9 DEF Drafts
  <2>2. Targets(j, old.sni) \subseteq SNIs
    BY <1>6, <1>7
  <2> HIDE DEF base, old
  <2>3. \A s \in SNIs, d \in {base.domain, None} :
          [base EXCEPT !.sni = s, !.secret = KeptOrNew(j, p), !.domain = d] \in Row
    BY <1>4, <1>5 DEF Row
  <2>4. \A s \in SNIs :
          [base EXCEPT !.sni = s, !.secret = KeptOrNew(j, p),
             !.domain = IF job[j].domain \in Direct THEN @ ELSE None] \in Row
    BY <1>4, <2>3
  <2> QED
    BY <2>1, <2>2, <2>4
<1>10. CASE p = "vless-httpupgrade"
  <2>1. Drafts(j, p, port) = {[base EXCEPT !.secret = KeptOrNew(j, p)]}
    BY <1>10 DEF Drafts
  <2> HIDE DEF base
  <2> QED
    BY <2>1, <1>4, <1>5 DEF Row
<1> QED
  BY <1>8, <1>9, <1>10 DEF Protocols

-----------------------------------------------------------------------------
(***************************************************************************)
(* Steps.  A setup in progress that moves on to s keeps the invariant if s *)
(* keeps its book, if the ids it stops answering for are in step or given  *)
(* up, and if s is faithful should nothing have met it.                    *)
(***************************************************************************)
StoreTyped(rs, m, d, rn, u, lf, st) ==
  /\ rs \in [Ids -> Row \cup {NoRow}] /\ rn \in [Ids -> Row \cup {NoRow}]
  /\ m \in minted..MaxId /\ d \in Domains \cup {None} /\ u \in BOOLEAN
  /\ lf \subseteq Ids /\ st \in Requests \cup {None}

LEMMA SetupMoves ==
  ASSUME Inv, NEW j \in Jobs, Active(j), NEW s \in Setup,
         job' = [job EXCEPT ![j] = s], s.alone = job[j].alone, BookKept(s),
         s.created \cup s.updated \subseteq s.touched,
         s.touched \cup s.unread \subseteq 1..minted',
         StoreTyped(rows', minted', domain', running', up', left', settled'),
         \A i \in Ids : i > minted' => rows'[i] = NoRow,
         \A i \in Ids : i > minted => s.snap[i] = NoRow,
         \A i \in Ids \ left' :
           \/ running'[i] = rows'[i]
           \/ s.pc \in Working /\ i \in Hold(s)
           \/ /\ i \notin left /\ i \notin Hold(job[j])
              /\ running'[i] = running[i] /\ rows'[i] = rows[i],
         s.pc \in Working /\ s.alone => Faithful(s, rows', running', left', domain')
  PROVE  Inv'
<1>1. /\ job' \in [Jobs -> Setup] /\ job'[j] = s
      /\ \A k \in Jobs : k # j => job'[k] = job[k]
  BY DEF Inv, TypeOK
<1>2. TypeOK'
  <2>1. minted \in 0..MaxId /\ MaxId \in Nat /\ minted' \in minted..MaxId
    BY ConstantsAssumption DEF Inv, TypeOK, ConstantsAssumption, StoreTyped
  <2>2. minted' \in 0..MaxId /\ 1..minted \subseteq 1..minted'
    BY <2>1
  <2>3. \A k \in Jobs : /\ job'[k].created \cup job'[k].updated \subseteq job'[k].touched
                        /\ job'[k].touched \cup job'[k].unread \subseteq 1..minted'
    BY <1>1, <2>2 DEF Inv, TypeOK
  <2> QED
    BY <1>1, <2>2, <2>3 DEF TypeOK, StoreTyped
<1>3. Unused'
  <2>1. \A i \in Ids : i > minted' => i > minted
    BY ConstantsAssumption DEF Inv, TypeOK, ConstantsAssumption, StoreTyped, Ids
  <2> QED
    BY <1>1, <2>1 DEF Inv, Unused
<1>4. Accounted'
  <2> SUFFICES ASSUME NEW i \in Ids \ left', running'[i] # rows'[i]
               PROVE  \E k \in Jobs : Active(k)' /\ i \in Hold(job'[k])
    BY DEF Accounted
  <2>1. CASE s.pc \in Working /\ i \in Hold(s)
    BY <1>1, <2>1 DEF Active
  <2>2. CASE /\ i \notin left /\ i \notin Hold(job[j])
             /\ running'[i] = running[i] /\ rows'[i] = rows[i]
    <3>1. PICK k \in Jobs : Active(k) /\ i \in Hold(job[k])
      BY <2>2 DEF Inv, Accounted
    <3> QED
      BY <1>1, <2>2, <3>1 DEF Active
  <2> QED
    BY <2>1, <2>2
<1>5. \A k \in Jobs : BookKept(job'[k])
  BY <1>1 DEF Inv
<1>6. \A k \in Jobs : Undisturbed(k)'
  <2> SUFFICES ASSUME NEW k \in Jobs, Active(k)', job'[k].alone
               PROVE  /\ \A l \in Jobs : Active(l)' => l = k
                      /\ Faithful(job'[k], rows', running', left', domain')
    BY DEF Undisturbed
  <2>1. k = j
    BY <1>1 DEF Inv, Undisturbed, Active
  <2>2. \A l \in Jobs : Active(l)' => l = k
    BY <1>1, <2>1 DEF Inv, Undisturbed, Active
  <2> QED
    BY <1>1, <2>1, <2>2 DEF Active
<1> QED
  BY <1>2, <1>3, <1>4, <1>5, <1>6 DEF Inv

\* A setup that gives up before it wrote anything.
LEMMA SetupLeaves ==
  ASSUME Inv, NEW j \in Jobs, job[j].pc = "list",
         job' = [job EXCEPT ![j] = Answered(j, "rejected")],
         UNCHANGED <<store, running, up, left, settled>>
  PROVE  Inv'
<1> DEFINE s == Answered(j, "rejected")
<1>1. TypeOK /\ Active(j) /\ Hold(job[j]) = {} /\ job[j].unread = {}
  BY DEF Inv, BookKept, Active, Working, Hold
<1>2. /\ s \in Setup /\ BookKept(s) /\ s.pc \notin Working /\ s.alone = job[j].alone
      /\ s.created = {} /\ s.updated = {} /\ s.touched = {} /\ s.unread = {}
      /\ \A i \in Ids : s.snap[i] = NoRow
  BY <1>1, AnsweredFacts DEF Answers
<1>3. StoreTyped(rows', minted', domain', running', up', left', settled')
  BY <1>1 DEF TypeOK, StoreTyped, store
<1>4. \A i \in Ids : i > minted' => rows'[i] = NoRow
  BY DEF Inv, Unused, store
<1>5. \A i \in Ids \ left' : /\ i \notin left /\ i \notin Hold(job[j])
                             /\ running'[i] = running[i] /\ rows'[i] = rows[i]
  BY <1>1 DEF store
<1> HIDE DEF s
<1>6. job' = [job EXCEPT ![j] = s]
  BY DEF s
<1> QED
  BY <1>1, <1>2, <1>3, <1>4, <1>5, <1>6, SetupMoves

\* A step that changes nothing but what a setup in progress knows.
LEMMA SetupThinks ==
  ASSUME Inv, NEW j \in Jobs, Active(j), NEW s \in Setup,
         job' = [job EXCEPT ![j] = s], s.pc \in Working,
         s.alone = job[j].alone, BookKept(s),
         s.snap \in {rows, job[j].snap},
         s.created = job[j].created, s.updated = job[j].updated,
         s.touched = job[j].touched, s.unread = job[j].unread,
         job[j].pc # "pushBack", s.pc # "pushBack",
         UNCHANGED <<store, running, up, left, settled>>,
         s.alone => Faithful(s, rows, running, left, domain)
  PROVE  Inv'
<1>1. TypeOK
  BY DEF Inv
<1>2. Hold(s) = Hold(job[j])
  BY DEF Hold
<1>3. StoreTyped(rows', minted', domain', running', up', left', settled')
  BY <1>1 DEF TypeOK, StoreTyped, store
<1>4. \A i \in Ids : /\ i > minted' => rows'[i] = NoRow
                     /\ i > minted => s.snap[i] = NoRow
  BY DEF Inv, Unused, store
<1>5. \A i \in Ids \ left' :
           \/ running'[i] = rows'[i]
           \/ s.pc \in Working /\ i \in Hold(s)
           \/ /\ i \notin left /\ i \notin Hold(job[j])
              /\ running'[i] = running[i] /\ rows'[i] = rows[i]
  BY <1>2 DEF store
<1>6. s.created \cup s.updated \subseteq s.touched
      /\ s.touched \cup s.unread \subseteq 1..minted'
  BY <1>1, SetupFacts DEF store
<1>7. s.pc \in Working /\ s.alone => Faithful(s, rows', running', left', domain')
  BY DEF store
<1> QED
  BY <1>3, <1>4, <1>5, <1>6, <1>7, SetupMoves

\* ... or goes on to its next protocol, or to what follows them.
LEMMA SetupWorks ==
  ASSUME Inv, NEW j \in Jobs, job[j].pc \in {"loop", "drafted"}, NEW s \in Setup,
         job' = [job EXCEPT ![j] = s], s.pc \in {"loop", "drafted", "undo", "rename", "push"},
         s.pc = "drafted" => s.todo # <<>>,
         s.alone = job[j].alone, s.req = job[j].req, s.snap = job[j].snap,
         s.was = job[j].was, s.domain = job[j].domain,
         s.created = job[j].created, s.updated = job[j].updated,
         s.touched = job[j].touched, s.unread = job[j].unread,
         s.undo = job[j].undo, s.undoFailed = job[j].undoFailed,
         UNCHANGED <<store, running, up, left, settled>>
  PROVE  Inv'
<1>1. Active(j) /\ BookKept(job[j]) /\ Undisturbed(j)
  BY DEF Inv, Active, Working
<1>2. s.pc \in Working /\ s.pc \notin {"start", "list", "pushBack"} \cup Answers
  BY DEF Working, Answers, Undone
<1>3. BookKept(s)
  BY <1>1, <1>2 DEF BookKept, Active
<1>4. s.alone => Faithful(s, rows, running, left, domain)
  BY <1>1 DEF Undisturbed, Faithful
<1> QED
  BY <1>1, <1>2, <1>3, <1>4, SetupThinks

LEMMA ListStep ==
  ASSUME Inv, NEW j \in Jobs, List(j)
  PROVE  Inv'
<1>1. CASE MigrationComplete(j)
  <2> DEFINE s == [job[j] EXCEPT !.pc = "loop", !.snap = rows]
  <2>1. TypeOK /\ Active(j) /\ BookKept(job[j]) /\ Undisturbed(j)
    BY DEF Inv, List, Active, Working
  <2>2. /\ job[j].touched = {} /\ job[j].unread = {} /\ job[j].created = {}
        /\ job[j].updated = {} /\ job[j].undo = "failed" /\ ~job[j].undoFailed
        /\ job[j].req # None
    BY <2>1, SetupFacts DEF BookKept, List, Active
  <2>3. job' = [job EXCEPT ![j] = s]
    BY <1>1 DEF List
  <2>4. s \in Setup
    <3>1. rows \in [Ids -> Row \cup {NoRow}] /\ job[j] \in Setup
      BY <2>1 DEF TypeOK
    <3> QED
      BY <3>1 DEF Setup, Working
  <2>5. /\ s.pc = "loop" /\ s.snap = rows /\ s.alone = job[j].alone /\ s.req = job[j].req
        /\ s.was = job[j].was /\ s.domain = job[j].domain
        /\ s.created = {} /\ s.updated = {} /\ s.touched = {} /\ s.unread = {}
        /\ s.undo = "failed" /\ ~s.undoFailed
    BY <2>1, <2>2, SetupFacts DEF Setup
  <2> HIDE DEF s
  <2>6. s.pc \in Working /\ BookKept(s)
    BY <2>2, <2>5 DEF BookKept, Working, Answers, Undone
  <2>7. ASSUME s.alone PROVE Faithful(s, rows, running, left, domain)
    <3>1. \A k \in Jobs : Active(k) => k = j
      BY <2>1, <2>5, <2>7 DEF Undisturbed
    <3>2. Hold(job[j]) = {}
      BY <2>2 DEF Hold
    <3>3. \A i \in Ids \ left : running[i] = rows[i]
      BY <3>1, <3>2 DEF Inv, Accounted
    <3>4. domain = job[j].was
      BY <2>1, <2>5, <2>7 DEF Undisturbed, Faithful, List
    <3> QED
      BY <2>5, <3>3, <3>4 DEF Faithful
  <2>8. job[j].pc = "list" /\ UNCHANGED <<store, running, up, left, settled>>
    BY DEF List
  <2> QED
    BY <2>1, <2>2, <2>3, <2>4, <2>5, <2>6, <2>7, <2>8, SetupThinks
<1>2. CASE ~MigrationComplete(j)
  BY <1>2, SetupLeaves DEF List
<1> QED
  BY <1>1, <1>2

LEMMA LoopSteps ==
  ASSUME Inv, NEW j \in Jobs, SkipConfigured(j) \/ ProtocolFails(j) \/ SkipUnchanged(j)
  PROVE  Inv'
<1>1. PICK e \in BOOLEAN : job' = [job EXCEPT ![j] = [Done(j) EXCEPT !.hadError = e]]
  <2>1. job[j] \in Setup
    BY SetupFacts DEF Inv
  <2>2. [Done(j) EXCEPT !.hadError = job[j].hadError] = Done(j) /\ job[j].hadError \in BOOLEAN
    BY <2>1 DEF Done, Setup
  <2> QED
    BY <2>2 DEF SkipConfigured, ProtocolFails, SkipUnchanged
<1> DEFINE s == [Done(j) EXCEPT !.hadError = e]
<1>2. job[j].pc \in {"loop", "drafted"} /\ job[j].todo # <<>>
  BY DEF Inv, BookKept, SkipConfigured, ProtocolFails, SkipUnchanged, Ready
<1>3. Done(j) \in Setup /\ job[j] \in Setup
  BY <1>2, DoneFacts, SetupFacts DEF Inv
<1>4. s \in Setup
  BY <1>3 DEF Setup
<1>5. /\ s.pc = "loop" /\ s.alone = job[j].alone /\ s.req = job[j].req
      /\ s.snap = job[j].snap /\ s.was = job[j].was /\ s.domain = job[j].domain
      /\ s.created = job[j].created /\ s.updated = job[j].updated
      /\ s.touched = job[j].touched /\ s.unread = job[j].unread
      /\ s.undo = job[j].undo /\ s.undoFailed = job[j].undoFailed
  BY <1>3 DEF Setup, Done
<1> HIDE DEF s
<1>6. job' = [job EXCEPT ![j] = s]
  BY <1>1 DEF s
<1>7. UNCHANGED <<store, running, up, left, settled>>
  BY DEF SkipConfigured, ProtocolFails, SkipUnchanged
<1> QED
  BY <1>2, <1>4, <1>5, <1>6, <1>7, SetupWorks

LEMMA DraftStep ==
  ASSUME Inv, NEW j \in Jobs, Draft(j)
  PROVE  Inv'
<1> DEFINE p == Proto(j)
<1>1. job[j].pc = "loop" /\ job[j].todo # <<>> /\ UNCHANGED <<store, running, up, left, settled>>
  BY DEF Draft
<1>2. TypeOK /\ p \in Protocols /\ job[j] \in Setup /\ job[j].req # None
  BY <1>1, DoneFacts, SetupFacts DEF Inv, BookKept, Working
<1>3. PICK port \in SelectedPorts(j, p) : \E row \in Drafts(j, p, port) :
        job' = [job EXCEPT ![j].draft = row, ![j].pc = "drafted",
                  ![j].reserved[Network(p)] =
                     IF Reserves(j, p) THEN @ \cup {port} ELSE @]
  BY DEF Draft
<1>3a. PICK row \in Drafts(j, p, port) :
        job' = [job EXCEPT ![j].draft = row, ![j].pc = "drafted",
                  ![j].reserved[Network(p)] =
                     IF Reserves(j, p) THEN @ \cup {port} ELSE @]
  BY <1>3
<1>4. port \in Ports /\ row \in Row
  BY <1>2, <1>3, SelectedPortsFacts, DraftsAreRows
<1> DEFINE taken == IF Reserves(j, p) THEN job[j].reserved[Network(p)] \cup {port}
                                      ELSE job[j].reserved[Network(p)]
           s == [job[j] EXCEPT !.draft = row, !.pc = "drafted",
                   !.reserved = [@ EXCEPT ![Network(p)] = taken]]
<1>5. job' = [job EXCEPT ![j] = s]
  <2>1. Network(p) \in {"tcp", "udp"}
    BY DEF Network
  <2>2. job \in [Jobs -> Setup]
    BY <1>2 DEF TypeOK
  <2> HIDE DEF p
  <2> QED
    BY <1>3a, <2>1, <2>2
<1>6. taken \in SUBSET Ports
  BY <1>2, <1>4 DEF Setup, Network
<1> HIDE DEF taken, p
<1>7. s \in Setup
  BY <1>2, <1>4, <1>6 DEF Setup, Working
<1>8. /\ s.pc = "drafted" /\ s.alone = job[j].alone /\ s.req = job[j].req
      /\ s.snap = job[j].snap /\ s.was = job[j].was /\ s.domain = job[j].domain
      /\ s.created = job[j].created /\ s.updated = job[j].updated
      /\ s.touched = job[j].touched /\ s.unread = job[j].unread
      /\ s.undo = job[j].undo /\ s.undoFailed = job[j].undoFailed
      /\ s.todo = job[j].todo
  BY <1>2 DEF Setup
<1> HIDE DEF s
<1> QED
  BY <1>1, <1>5, <1>7, <1>8, SetupWorks

LEMMA LoopDoneStep ==
  ASSUME Inv, NEW j \in Jobs, LoopDone(j)
  PROVE  Inv'
<1> DEFINE next == IF job[j].hadError THEN "undo"
                   ELSE IF job[j].domain # job[j].was THEN "rename" ELSE "push"
           s == [job[j] EXCEPT !.pc = next]
<1>1. job[j].pc = "loop" /\ UNCHANGED <<store, running, up, left, settled>>
      /\ job' = [job EXCEPT ![j].pc = next]
  BY DEF LoopDone
<1>2. job[j] \in Setup /\ job \in [Jobs -> Setup]
  BY DEF Inv, TypeOK
<1>3. next \in {"undo", "rename", "push"}
  OBVIOUS
<1> HIDE DEF next
<1>4. job' = [job EXCEPT ![j] = s]
  BY <1>1, <1>2
<1>5. s \in Setup
  BY <1>2, <1>3 DEF Setup, Working
<1>6. /\ s.pc = next /\ s.alone = job[j].alone /\ s.req = job[j].req
      /\ s.snap = job[j].snap /\ s.was = job[j].was /\ s.domain = job[j].domain
      /\ s.created = job[j].created /\ s.updated = job[j].updated
      /\ s.touched = job[j].touched /\ s.unread = job[j].unread
      /\ s.undo = job[j].undo /\ s.undoFailed = job[j].undoFailed
  BY <1>2 DEF Setup
<1> HIDE DEF s
<1> QED
  BY <1>1, <1>3, <1>4, <1>5, <1>6, SetupWorks

-----------------------------------------------------------------------------
(***************************************************************************)
(* Writing rows, and the two ways back.                                    *)
(***************************************************************************)
\* A setup that writes protocol Head(todo): row i becomes r.
LEMMA SetupWrites ==
  ASSUME Inv, NEW j \in Jobs, job[j].pc = "drafted", NEW i \in Ids,
         NEW s \in Setup, NEW r \in Row \cup {NoRow},
         job' = [job EXCEPT ![j] = s],
         s.pc = "loop", s.alone = job[j].alone, s.req = job[j].req,
         s.snap = job[j].snap, s.was = job[j].was, s.domain = job[j].domain,
         s.undo = job[j].undo, s.undoFailed = job[j].undoFailed,
         s.created \in {job[j].created, job[j].created \cup {i}},
         s.updated \in {job[j].updated, job[j].updated \cup {i}},
         s.touched \in {job[j].touched, job[j].touched \cup {i}},
         s.unread \in {job[j].unread, job[j].unread \cup {i}},
         s.created \cup s.updated \subseteq s.touched,
         i \in s.created \cup s.updated \cup s.unread,
         i \in s.created \ job[j].created => i > minted,
         rows' = [rows EXCEPT ![i] = r], i \in 1..minted', minted' \in minted..MaxId,
         UNCHANGED <<domain, running, up, left, settled>>
  PROVE  Inv'
<1>1. TypeOK /\ Active(j) /\ BookKept(job[j]) /\ Undisturbed(j) /\ Unused /\ Accounted
  BY DEF Inv, Active, Working
<1>2. BookKept(s)
  BY <1>1 DEF BookKept, Working, Answers, Undone, Active
<1>3. StoreTyped(rows', minted', domain', running', up', left', settled')
  BY <1>1 DEF TypeOK, StoreTyped
<1>4. minted \in 0..MaxId /\ MaxId \in Nat
  BY <1>1, ConstantsAssumption DEF TypeOK, ConstantsAssumption
<1>5. s.touched \cup s.unread \subseteq 1..minted'
  <2>1. job[j].touched \cup job[j].unread \subseteq 1..minted
    BY <1>1, SetupFacts
  <2>2. 1..minted \subseteq 1..minted'
    BY <1>4
  <2> QED
    BY <2>1, <2>2
<1>6. /\ rows'[i] = r
      /\ \A k \in Ids : k # i => rows'[k] = rows[k]
  BY <1>1 DEF TypeOK
<1>7. \A k \in Ids : /\ k > minted' => rows'[k] = NoRow
                     /\ k > minted => s.snap[k] = NoRow
  <2>1. \A k \in Ids : k > minted' => k # i /\ k > minted
    BY <1>4 DEF Ids
  <2> QED
    BY <1>1, <1>6, <2>1 DEF Unused
<1>8. \A k \in Ids \ left' :
         \/ running'[k] = rows'[k]
         \/ s.pc \in Working /\ k \in Hold(s)
         \/ /\ k \notin left /\ k \notin Hold(job[j])
            /\ running'[k] = running[k] /\ rows'[k] = rows[k]
  <2>1. Hold(job[j]) \cup {i} \subseteq Hold(s) /\ s.pc \in Working
    BY DEF Hold, Working
  <2> QED
    BY <1>6, <2>1
<1>9. ASSUME s.alone PROVE Faithful(s, rows', running', left', domain')
  <2>1. Faithful(job[j], rows, running, left, domain)
    BY <1>1, <1>9 DEF Undisturbed
  <2>2. \A k \in Ids : rows'[k] = s.snap[k] \/ k \in s.created \cup s.updated \cup s.unread
    BY <1>1, <1>6, <2>1 DEF Faithful, BookKept
  <2>3. ASSUME NEW k \in s.created PROVE s.snap[k] = NoRow
    <3>1. CASE k \in job[j].created
      BY <2>1, <3>1 DEF Faithful
    <3>2. CASE k \notin job[j].created
      <4>1. k = i /\ i > minted
        BY <3>2
      <4>2. i \notin job[j].created \cup job[j].updated \cup job[j].unread
        <5>1. i \notin 1..minted
          BY <1>4, <4>1 DEF Ids
        <5> QED
          BY <1>1, <5>1, SetupFacts
      <4>3. rows[i] = NoRow
        BY <1>1, <4>1 DEF Unused
      <4> QED
        BY <1>1, <2>1, <4>1, <4>2, <4>3 DEF Faithful, BookKept
    <3> QED
      BY <3>1, <3>2
  <2> QED
    BY <2>1, <2>2, <2>3 DEF Faithful
<1> QED
  BY <1>1, <1>2, <1>3, <1>5, <1>7, <1>8, <1>9, SetupMoves

\* An update writes the draft, unless it fails and is then an error.
LEMMA UpdateRowFacts ==
  ASSUME Inv, NEW j \in Jobs, UpdateRow(j)
  PROVE  LET e == Existing(j, Proto(j))
             written == IF rows[e] = NoRow THEN rows ELSE [rows EXCEPT ![e] = job[j].draft]
         IN  /\ job[j].pc = "drafted" /\ Exists(j, Proto(j)) /\ minted' = minted
             /\ rows' \in {rows, written}
             /\ ~job'[j].hadError => rows' = written /\ rows[e] # NoRow
<1> DEFINE e == Existing(j, Proto(j))
           written == IF rows[e] = NoRow THEN rows ELSE [rows EXCEPT ![e] = job[j].draft]
<1>1. PICK fails \in StoreFails :
        /\ Ready(j) /\ Exists(j, Proto(j))
        /\ rows' \in IF fails THEN {written, rows} ELSE {written}
        /\ job' = [job EXCEPT ![j] = [Done(j) EXCEPT !.updated = @ \cup {e},
                                        !.touched = @ \cup {e},
                                        !.hadError = @ \/ fails \/ rows[e] = NoRow]]
        /\ minted' = minted
  BY DEF UpdateRow
<1>2. job[j].pc = "drafted" /\ job[j].todo # <<>> /\ job \in [Jobs -> Setup]
  BY <1>1 DEF Inv, TypeOK, Ready, BookKept
<1>3. Done(j) \in Setup
  BY <1>2, DoneFacts DEF Inv
<1> HIDE DEF written, e
<1>4. job'[j].hadError = (Done(j).hadError \/ fails \/ rows[e] = NoRow)
  BY <1>1, <1>2, <1>3 DEF Setup
<1>5. ~job'[j].hadError => rows' = written /\ rows[e] # NoRow
  BY <1>1, <1>4
<1> QED
  BY <1>1, <1>2, <1>5 DEF written, e

LEMMA UpdateRowStep ==
  ASSUME Inv, NEW j \in Jobs, UpdateRow(j)
  PROVE  Inv'
<1> DEFINE i == Existing(j, Proto(j))
<1>1. PICK fails \in StoreFails :
        /\ Ready(j) /\ Exists(j, Proto(j))
        /\ rows' \in {rows, IF rows[i] = NoRow THEN rows
                             ELSE [rows EXCEPT ![i] = job[j].draft]}
        /\ job' = [job EXCEPT ![j] = [Done(j) EXCEPT !.updated = @ \cup {i},
                                        !.touched = @ \cup {i},
                                        !.hadError = @ \/ fails \/ rows[i] = NoRow]]
        /\ UNCHANGED <<minted, domain, running, up, left, settled>>
  BY DEF UpdateRow
<1>2. TypeOK /\ job[j].pc = "drafted" /\ job[j].todo # <<>> /\ i \in Ids
      /\ job[j].snap[i] # NoRow
  BY <1>1, ExistingFacts DEF Inv, Ready, BookKept
<1>3. Done(j) \in Setup /\ job[j] \in Setup
  BY <1>2, DoneFacts, SetupFacts
<1> DEFINE e == job[j].hadError \/ fails \/ rows[i] = NoRow
           s == [Done(j) EXCEPT !.updated = @ \cup {i}, !.touched = @ \cup {i},
                                !.hadError = e]
<1>4. job' = [job EXCEPT ![j] = s]
  BY <1>1, <1>3 DEF Done
<1>5. e \in BOOLEAN
  BY <1>3 DEF StoreFails, Setup
<1>6. PICK r \in Row \cup {NoRow} : rows' = [rows EXCEPT ![i] = r]
  <2>1. rows' = rows \/ rows' = [rows EXCEPT ![i] = job[j].draft]
    BY <1>1
  <2>2. rows = [rows EXCEPT ![i] = rows[i]] /\ rows[i] \in Row \cup {NoRow}
        /\ job[j].draft \in Row \cup {NoRow}
    BY <1>2, <1>3 DEF TypeOK, Setup
  <2> QED
    BY <2>1, <2>2
<1> HIDE DEF e, i
<1>7. s \in Setup
  BY <1>2, <1>3, <1>5 DEF Setup
<1>8. /\ s.pc = "loop" /\ s.alone = job[j].alone /\ s.req = job[j].req
      /\ s.snap = job[j].snap /\ s.was = job[j].was /\ s.domain = job[j].domain
      /\ s.undo = job[j].undo /\ s.undoFailed = job[j].undoFailed
      /\ s.created = job[j].created /\ s.updated = job[j].updated \cup {i}
      /\ s.touched = job[j].touched \cup {i} /\ s.unread = job[j].unread
  BY <1>3 DEF Setup, Done
<1> HIDE DEF s
<1>9. s.created \cup s.updated \subseteq s.touched
  BY <1>2, <1>8, SetupFacts
<1>10. minted' \in minted..MaxId /\ i \in 1..minted'
  <2>1. minted \in 0..MaxId /\ MaxId \in Nat /\ minted' = minted
    BY <1>1, <1>2, ConstantsAssumption DEF TypeOK, ConstantsAssumption
  <2>2. ~(i > minted)
    BY <1>2 DEF Inv, Unused
  <2> QED
    BY <1>2, <2>1, <2>2 DEF Ids
<1>11. UNCHANGED <<domain, running, up, left, settled>>
  BY <1>1
<1>12. i \in s.created \cup s.updated \cup s.unread /\ i \notin s.created \ job[j].created
  BY <1>8
<1> QED
  BY <1>2, <1>4, <1>6, <1>7, <1>8, <1>9, <1>10, <1>11, <1>12, SetupWrites

\* Both ways of inserting a row.
LEMMA CreateSteps ==
  ASSUME Inv, NEW j \in Jobs, CreateRow(j) \/ CreateUnread(j)
  PROVE  Inv'
<1> DEFINE i == minted + 1
           s1 == [Done(j) EXCEPT !.created = @ \cup {i}, !.touched = @ \cup {i}]
           s2 == [Done(j) EXCEPT !.hadError = TRUE, !.unread = @ \cup {i}]
<1>1. /\ Ready(j) /\ minted < MaxId /\ minted' = i
      /\ rows' = [rows EXCEPT ![i] = job[j].draft]
      /\ UNCHANGED <<domain, running, up, left, settled>>
  BY DEF CreateRow, CreateUnread
<1>2. TypeOK /\ job[j].pc = "drafted" /\ job[j].todo # <<>>
  BY <1>1 DEF Inv, Ready, BookKept
<1>3. Done(j) \in Setup /\ job[j] \in Setup
  BY <1>2, DoneFacts, SetupFacts
<1>4. /\ i \in Ids /\ i > minted /\ minted' \in minted..MaxId /\ i \in 1..minted'
  <2>1. minted \in 0..MaxId /\ MaxId \in Nat
    BY <1>2, ConstantsAssumption DEF TypeOK, ConstantsAssumption
  <2> QED
    BY <1>1, <2>1 DEF Ids
<1>5. job[j].draft \in Row \cup {NoRow}
  BY <1>2, SetupFacts
<1>6. /\ job[j].created \subseteq job[j].touched /\ job[j].updated \subseteq job[j].touched
  BY <1>2, SetupFacts
<1>7. CASE CreateRow(j)
  <2>1. job' = [job EXCEPT ![j] = s1]
    BY <1>7 DEF CreateRow
  <2> HIDE DEF i
  <2>2. s1 \in Setup
    BY <1>3, <1>4 DEF Setup
  <2>3. /\ s1.pc = "loop" /\ s1.alone = job[j].alone /\ s1.req = job[j].req
        /\ s1.snap = job[j].snap /\ s1.was = job[j].was /\ s1.domain = job[j].domain
        /\ s1.undo = job[j].undo /\ s1.undoFailed = job[j].undoFailed
        /\ s1.created = job[j].created \cup {i} /\ s1.updated = job[j].updated
        /\ s1.touched = job[j].touched \cup {i} /\ s1.unread = job[j].unread
    BY <1>3 DEF Setup, Done
  <2> HIDE DEF s1
  <2>4. s1.created \cup s1.updated \subseteq s1.touched
    BY <1>6, <2>3
  <2> QED
    BY <1>1, <1>2, <1>4, <1>5, <2>1, <2>2, <2>3, <2>4, SetupWrites
<1>8. CASE CreateUnread(j)
  <2>1. job' = [job EXCEPT ![j] = s2]
    BY <1>8 DEF CreateUnread
  <2> HIDE DEF i
  <2>2. s2 \in Setup
    BY <1>3, <1>4 DEF Setup
  <2>3. /\ s2.pc = "loop" /\ s2.alone = job[j].alone /\ s2.req = job[j].req
        /\ s2.snap = job[j].snap /\ s2.was = job[j].was /\ s2.domain = job[j].domain
        /\ s2.undo = job[j].undo /\ s2.undoFailed = job[j].undoFailed
        /\ s2.created = job[j].created /\ s2.updated = job[j].updated
        /\ s2.touched = job[j].touched /\ s2.unread = job[j].unread \cup {i}
    BY <1>3 DEF Setup, Done
  <2> HIDE DEF s2
  <2>4. s2.created \cup s2.updated \subseteq s2.touched
    BY <1>6, <2>3
  <2> QED
    BY <1>1, <1>2, <1>4, <1>5, <1>6, <2>1, <2>2, <2>3, <2>4, SetupWrites
<1> QED
  BY <1>7, <1>8

\* A step that leaves the rows alone, takes no id off the setup's hands, and
\* keeps what it knows of them.
LEMMA SetupContinues ==
  ASSUME Inv, NEW j \in Jobs, Active(j), NEW s \in Setup,
         job' = [job EXCEPT ![j] = s], s.pc \in {"push", "undo"}, job[j].pc # "pushBack",
         s.alone = job[j].alone, s.req = job[j].req, s.snap = job[j].snap,
         s.created = job[j].created, s.updated = job[j].updated,
         s.touched = job[j].touched, s.unread = job[j].unread,
         s.pc = "push" => s.undo = "failed" /\ ~s.undoFailed,
         UNCHANGED <<rows, minted, left, settled>>, up' \in BOOLEAN,
         running' \in {running, rows}, domain' \in Domains \cup {None},
         s.alone => Faithful(s, rows, running', left, domain')
  PROVE  Inv'
<1>1. TypeOK /\ BookKept(job[j])
  BY DEF Inv
<1>2. s.pc \in Working /\ Hold(s) = Hold(job[j])
  BY DEF Hold, Working
<1>3. BookKept(s)
  BY <1>1, <1>2 DEF BookKept, Active, Working, Answers, Undone
<1>4. StoreTyped(rows', minted', domain', running', up', left', settled')
  BY <1>1 DEF TypeOK, StoreTyped
<1>5. \A i \in Ids : /\ i > minted' => rows'[i] = NoRow
                     /\ i > minted => s.snap[i] = NoRow
  BY DEF Inv, Unused
<1>6. s.created \cup s.updated \subseteq s.touched
      /\ s.touched \cup s.unread \subseteq 1..minted'
  BY <1>1, SetupFacts
<1>7. \A i \in Ids \ left' :
           \/ running'[i] = rows'[i]
           \/ s.pc \in Working /\ i \in Hold(s)
           \/ /\ i \notin left /\ i \notin Hold(job[j])
              /\ running'[i] = running[i] /\ rows'[i] = rows[i]
  BY <1>2
<1>8. s.pc \in Working /\ s.alone => Faithful(s, rows', running', left', domain')
  OBVIOUS
<1> QED
  BY <1>3, <1>4, <1>5, <1>6, <1>7, <1>8, SetupMoves

LEMMA RenameSteps ==
  ASSUME Inv, NEW j \in Jobs, Rename(j) \/ RenameFails(j)
  PROVE  Inv'
<1>1. /\ job[j].pc = "rename" /\ domain' \in {domain, job[j].domain}
      /\ UNCHANGED <<rows, minted, running, up, left, settled>>
  BY DEF Rename, RenameFails
<1>2. TypeOK /\ BookKept(job[j]) /\ Undisturbed(j) /\ Active(j)
      /\ job \in [Jobs -> Setup] /\ job[j] \in Setup
  BY <1>1, SetupFacts DEF Inv, Active, Working, TypeOK
<1>3. PICK n \in {"push", "undo"}, u \in {"failed", "renameFailed"} :
        /\ job' = [job EXCEPT ![j] = [@ EXCEPT !.pc = n, !.undo = u]]
        /\ n = "push" => u = "failed"
  <2>1. CASE Rename(j)
    <3>1. job[j].undo = "failed"
      BY <1>1, <1>2 DEF BookKept
    <3>2. [job[j] EXCEPT !.pc = "push"] = [job[j] EXCEPT !.pc = "push", !.undo = "failed"]
      BY <1>2, <3>1 DEF Setup
    <3> QED
      BY <1>2, <2>1, <3>2 DEF Rename
  <2>2. CASE RenameFails(j)
    BY <1>2, <2>2 DEF RenameFails
  <2> QED
    BY <2>1, <2>2
<1> DEFINE s == [job[j] EXCEPT !.pc = n, !.undo = u]
<1>4. s \in Setup
  BY <1>2, <1>3 DEF Setup, Working, Undone
<1>5. /\ s.pc = n /\ s.undo = u /\ s.undoFailed = job[j].undoFailed
      /\ s.alone = job[j].alone /\ s.req = job[j].req
      /\ s.snap = job[j].snap /\ s.was = job[j].was /\ s.domain = job[j].domain
      /\ s.created = job[j].created /\ s.updated = job[j].updated
      /\ s.touched = job[j].touched /\ s.unread = job[j].unread
  BY <1>2 DEF Setup
<1>6. job' = [job EXCEPT ![j] = s]
  BY <1>3
<1> HIDE DEF s
<1>7. ~s.undoFailed
  BY <1>1, <1>2, <1>5 DEF BookKept
<1>8. s.alone => Faithful(s, rows, running', left, domain')
  BY <1>1, <1>2, <1>3, <1>5 DEF Undisturbed, Faithful, BookKept
<1>9. domain' \in Domains \cup {None} /\ up' \in BOOLEAN
  BY <1>1, <1>2, SetupFacts DEF TypeOK
<1> QED
  BY <1>1, <1>2, <1>3, <1>4, <1>5, <1>6, <1>7, <1>8, <1>9, SetupContinues

LEMMA PushFacts ==
  ASSUME TypeOK, Pushed \/ Refused \/ Lost
  PROVE  /\ running' \in {running, rows} /\ running' \in [Ids -> Row \cup {NoRow}]
         /\ up' \in BOOLEAN
<1>1. \A cfg : Starts(cfg) \in BOOLEAN
  BY DEF Starts
<1> QED
  BY <1>1 DEF Pushed, Refused, Lost, TypeOK

\* A push that succeeds, for the first time or after the rows were put back.
LEMMA SetupPublishes ==
  ASSUME Inv, NEW j \in Jobs, job[j].pc \in {"push", "pushBack"},
         NEW answer \in Answers, Pushed, left' = {},
         job' = [job EXCEPT ![j] = Answered(j, answer)],
         settled' \in Requests \cup {None}, UNCHANGED store
  PROVE  Inv'
<1> DEFINE s == Answered(j, answer)
<1>1. TypeOK /\ Active(j)
  BY DEF Inv, Active, Working
<1>2. /\ s \in Setup /\ BookKept(s) /\ s.pc \notin Working /\ s.alone = job[j].alone
      /\ s.created = {} /\ s.updated = {} /\ s.touched = {}
      /\ s.unread = job[j].unread /\ \A i \in Ids : s.snap[i] = NoRow
  BY <1>1, AnsweredFacts
<1> HIDE DEF s
<1>3. StoreTyped(rows', minted', domain', running', up', left', settled')
  BY <1>1, PushFacts DEF TypeOK, StoreTyped, store
<1>4. \A i \in Ids : i > minted' => rows'[i] = NoRow
  BY DEF Inv, Unused, store
<1>5. \A i \in Ids \ left' : running'[i] = rows'[i]
  BY DEF Pushed, store
<1>6. s.created \cup s.updated \subseteq s.touched
      /\ s.touched \cup s.unread \subseteq 1..minted'
  BY <1>1, <1>2, SetupFacts DEF store
<1>7. job' = [job EXCEPT ![j] = s]
  BY DEF s
<1> QED
  BY <1>1, <1>2, <1>3, <1>4, <1>5, <1>6, <1>7, SetupMoves

LEMMA PushStep ==
  ASSUME Inv, NEW j \in Jobs, Push(j)
  PROVE  Inv'
<1>1. job[j].pc = "push" /\ UNCHANGED store
  BY DEF Push
<1>2. TypeOK /\ BookKept(job[j]) /\ Undisturbed(j) /\ Active(j)
      /\ job \in [Jobs -> Setup] /\ job[j] \in Setup
  BY <1>1, SetupFacts DEF Inv, Active, Working, TypeOK
<1>3. CASE /\ Pushed /\ left' = {}
           /\ job' = [job EXCEPT ![j] = Answered(j, "ok")]
           /\ settled' = IF job[j].alone /\ left = {} THEN job[j].req ELSE None
  <2>1. settled' \in Requests \cup {None} /\ "ok" \in Answers
    BY <1>2, <1>3, SetupFacts DEF Answers
  <2> QED
    BY <1>1, <1>3, <2>1, SetupPublishes
<1>4. CASE /\ Refused \/ Lost
           /\ job' = [job EXCEPT ![j].pc = "undo", ![j].undo = "rolledBack"]
           /\ UNCHANGED <<left, settled>>
  <2> DEFINE s == [job[j] EXCEPT !.pc = "undo", !.undo = "rolledBack"]
  <2>1. job' = [job EXCEPT ![j] = s]
    BY <1>2, <1>4
  <2>2. s \in Setup
    BY <1>2 DEF Setup, Working, Undone
  <2>3. /\ s.pc = "undo" /\ s.undo = "rolledBack" /\ s.undoFailed = job[j].undoFailed
        /\ s.alone = job[j].alone /\ s.req = job[j].req
        /\ s.snap = job[j].snap /\ s.was = job[j].was /\ s.domain = job[j].domain
        /\ s.created = job[j].created /\ s.updated = job[j].updated
        /\ s.touched = job[j].touched /\ s.unread = job[j].unread
    BY <1>2 DEF Setup
  <2> HIDE DEF s
  <2>4. s.alone => Faithful(s, rows, running', left, domain')
    BY <1>1, <1>2, <2>3 DEF Undisturbed, Faithful, store
  <2>5. running' \in {running, rows} /\ up' \in BOOLEAN /\ domain' \in Domains \cup {None}
    BY <1>1, <1>2, <1>4, PushFacts DEF TypeOK, store
  <2> QED
    BY <1>1, <1>2, <1>4, <2>1, <2>2, <2>3, <2>4, <2>5, SetupContinues DEF store
<1> QED
  BY <1>3, <1>4 DEF Push

\* One row put back, or an attempt at it.
LEMMA SetupUndoes ==
  ASSUME Inv, NEW j \in Jobs, job[j].pc = "undo",
         NEW i \in job[j].created \cup job[j].updated, NEW s \in Setup,
         job' = [job EXCEPT ![j] = s],
         s.pc = "undo", s.undo = job[j].undo, s.alone = job[j].alone, s.req = job[j].req,
         s.snap = job[j].snap, s.was = job[j].was, s.domain = job[j].domain,
         s.created \subseteq job[j].created, s.updated \subseteq job[j].updated,
         s.touched = job[j].touched, s.unread = job[j].unread,
         \A k \in job[j].created \cup job[j].updated :
           k # i => k \in s.created \cup s.updated,
         rows' \in [Ids -> Row \cup {NoRow}],
         \A k \in Ids : k # i => rows'[k] = rows[k],
         rows'[i] \in {rows[i], NoRow, job[j].snap[i]},
         job[j].undoFailed => s.undoFailed,
         \/ s.undoFailed
         \/ i \in job[j].created /\ rows'[i] = NoRow
         \/ rows'[i] = job[j].snap[i],
         UNCHANGED <<minted, domain, running, up, left, settled>>
  PROVE  Inv'
<1>1. TypeOK /\ BookKept(job[j]) /\ Undisturbed(j) /\ Active(j) /\ Unused
      /\ job \in [Jobs -> Setup] /\ job[j] \in Setup
  BY SetupFacts DEF Inv, Active, Working, TypeOK
<1>2. i \in Ids
  BY <1>1, SetupFacts
<1>3. BookKept(s) /\ s.pc \in Working /\ Hold(s) = Hold(job[j]) /\ i \in Hold(s)
  <2>1. job[j].created \subseteq job[j].touched /\ job[j].updated \subseteq job[j].touched
    BY <1>1, SetupFacts
  <2> QED
    BY <1>1, <1>2, <2>1 DEF BookKept, Working, Answers, Undone, Hold
<1>4. s.created \cup s.updated \subseteq s.touched
      /\ s.touched \cup s.unread \subseteq 1..minted'
  BY <1>1, <1>2, SetupFacts
<1>5. StoreTyped(rows', minted', domain', running', up', left', settled')
  BY <1>1, <1>2 DEF TypeOK, StoreTyped
<1>6. \A k \in Ids : /\ k > minted' => rows'[k] = NoRow
                     /\ k > minted => s.snap[k] = NoRow
  BY <1>1, <1>2 DEF Unused
<1>7. \A k \in Ids \ left' :
         \/ running'[k] = rows'[k]
         \/ s.pc \in Working /\ k \in Hold(s)
         \/ /\ k \notin left /\ k \notin Hold(job[j])
            /\ running'[k] = running[k] /\ rows'[k] = rows[k]
  BY <1>1, <1>3
<1>8. ASSUME s.alone PROVE Faithful(s, rows', running', left', domain')
  <2>1. Faithful(job[j], rows, running, left, domain)
    BY <1>1, <1>8 DEF Undisturbed
  <2>2. \A k \in Ids : \/ rows'[k] = s.snap[k] \/ s.undoFailed
                       \/ k \in s.created \cup s.updated \cup s.unread
    BY <1>1, <2>1 DEF Faithful
  <2> QED
    BY <1>1, <2>1, <2>2 DEF Faithful
<1>9. /\ \A k \in Ids : k > minted' => rows'[k] = NoRow
      /\ \A k \in Ids : k > minted => s.snap[k] = NoRow
  BY <1>6
<1>10. s.pc \in Working /\ s.alone => Faithful(s, rows', running', left', domain')
  BY <1>8
<1> QED
  BY <1>1, <1>3, <1>4, <1>5, <1>7, <1>9, <1>10, SetupMoves

LEMMA UncreateStep ==
  ASSUME Inv, NEW j \in Jobs, NEW i \in Ids, Uncreate(j, i)
  PROVE  Inv'
<1>1. TypeOK /\ job \in [Jobs -> Setup] /\ job[j] \in Setup
  BY SetupFacts DEF Inv, TypeOK
<1>2. PICK fails \in StoreFails :
        /\ rows' = IF fails THEN rows ELSE [rows EXCEPT ![i] = NoRow]
        /\ job' = [job EXCEPT ![j].created = @ \ {i},
                              ![j].undoFailed = @ \/ fails \/ rows[i] = NoRow]
  BY DEF Uncreate
<1> DEFINE f == job[j].undoFailed \/ fails \/ rows[i] = NoRow
           s == [job[j] EXCEPT !.created = job[j].created \ {i}, !.undoFailed = f]
<1>3. f \in BOOLEAN /\ fails \in BOOLEAN
  BY <1>1 DEF StoreFails, Setup
<1>4. job' = [job EXCEPT ![j] = s]
  BY <1>1, <1>2
<1>5. job[j].snap[i] \in Row \cup {NoRow}
  BY <1>1, SetupFacts
<1>6. /\ rows' \in [Ids -> Row \cup {NoRow}]
      /\ \A k \in Ids : k # i => rows'[k] = rows[k]
      /\ rows'[i] \in {rows[i], NoRow}
      /\ f \/ rows'[i] = NoRow
  BY <1>1, <1>2, <1>3, <1>5 DEF TypeOK
<1>7. job[j].undoFailed => f
  OBVIOUS
<1> HIDE DEF f
<1>8. s \in Setup
  BY <1>1, <1>3 DEF Setup
<1>9. /\ s.pc = job[j].pc /\ s.undo = job[j].undo /\ s.undoFailed = f
      /\ s.alone = job[j].alone /\ s.req = job[j].req
      /\ s.snap = job[j].snap /\ s.was = job[j].was /\ s.domain = job[j].domain
      /\ s.created = job[j].created \ {i} /\ s.updated = job[j].updated
      /\ s.touched = job[j].touched /\ s.unread = job[j].unread
  BY <1>1 DEF Setup
<1> HIDE DEF s
<1>10. /\ job[j].pc = "undo" /\ i \in job[j].created
       /\ UNCHANGED <<minted, domain, running, up, left, settled>>
  BY DEF Uncreate
<1>11. /\ job[j].pc = "undo" /\ s.pc = "undo" /\ i \in job[j].created \cup job[j].updated
       /\ s.created \subseteq job[j].created /\ s.updated \subseteq job[j].updated
       /\ \A k \in job[j].created \cup job[j].updated :
            k # i => k \in s.created \cup s.updated
  BY <1>9, <1>10
<1>12. /\ rows'[i] \in {rows[i], NoRow, job[j].snap[i]}
       /\ job[j].undoFailed => s.undoFailed
       /\ \/ s.undoFailed
          \/ i \in job[j].created /\ rows'[i] = NoRow
          \/ rows'[i] = job[j].snap[i]
  BY <1>6, <1>7, <1>9, <1>10
<1>13. UNCHANGED <<minted, domain, running, up, left, settled>>
  BY <1>10
<1> QED
  BY <1>4, <1>6, <1>8, <1>9, <1>11, <1>12, <1>13, SetupUndoes

LEMMA RestoreStep ==
  ASSUME Inv, NEW j \in Jobs, NEW i \in Ids, Restore(j, i)
  PROVE  Inv'
<1>1. TypeOK /\ job \in [Jobs -> Setup] /\ job[j] \in Setup
  BY SetupFacts DEF Inv, TypeOK
<1>2. PICK fails \in StoreFails :
        /\ \/ rows' = IF rows[i] = NoRow THEN rows
                      ELSE [rows EXCEPT ![i] = job[j].snap[i]]
           \/ fails /\ rows' = rows
        /\ job' = [job EXCEPT ![j].updated = @ \ {i},
                              ![j].undoFailed = @ \/ fails \/ rows[i] = NoRow]
  BY DEF Restore
<1> DEFINE f == job[j].undoFailed \/ fails \/ rows[i] = NoRow
           s == [job[j] EXCEPT !.updated = job[j].updated \ {i}, !.undoFailed = f]
<1>3. f \in BOOLEAN /\ fails \in BOOLEAN
  BY <1>1 DEF StoreFails, Setup
<1>4. job' = [job EXCEPT ![j] = s]
  BY <1>1, <1>2
<1>5. job[j].snap[i] \in Row \cup {NoRow}
  BY <1>1, SetupFacts
<1>6. /\ rows' \in [Ids -> Row \cup {NoRow}]
      /\ \A k \in Ids : k # i => rows'[k] = rows[k]
      /\ rows'[i] \in {rows[i], job[j].snap[i]}
      /\ f \/ rows'[i] = job[j].snap[i]
  BY <1>1, <1>2, <1>3, <1>5 DEF TypeOK
<1>7. job[j].undoFailed => f
  OBVIOUS
<1> HIDE DEF f
<1>8. s \in Setup
  BY <1>1, <1>3 DEF Setup
<1>9. /\ s.pc = job[j].pc /\ s.undo = job[j].undo /\ s.undoFailed = f
      /\ s.alone = job[j].alone /\ s.req = job[j].req
      /\ s.snap = job[j].snap /\ s.was = job[j].was /\ s.domain = job[j].domain
      /\ s.updated = job[j].updated \ {i} /\ s.created = job[j].created
      /\ s.touched = job[j].touched /\ s.unread = job[j].unread
  BY <1>1 DEF Setup
<1> HIDE DEF s
<1>10. /\ job[j].pc = "undo" /\ i \in job[j].updated
       /\ UNCHANGED <<minted, domain, running, up, left, settled>>
  BY DEF Restore
<1>11. /\ job[j].pc = "undo" /\ s.pc = "undo" /\ i \in job[j].created \cup job[j].updated
       /\ s.created \subseteq job[j].created /\ s.updated \subseteq job[j].updated
       /\ \A k \in job[j].created \cup job[j].updated :
            k # i => k \in s.created \cup s.updated
  BY <1>9, <1>10
<1>12. /\ rows'[i] \in {rows[i], NoRow, job[j].snap[i]}
       /\ job[j].undoFailed => s.undoFailed
       /\ \/ s.undoFailed
          \/ i \in job[j].created /\ rows'[i] = NoRow
          \/ rows'[i] = job[j].snap[i]
  BY <1>6, <1>7, <1>9, <1>10
<1>13. UNCHANGED <<minted, domain, running, up, left, settled>>
  BY <1>10
<1> QED
  BY <1>4, <1>6, <1>8, <1>9, <1>11, <1>12, <1>13, SetupUndoes

\* An answer that is no success: what the setup held is in step or given up.
LEMMA SetupGivesUp ==
  ASSUME Inv, NEW j \in Jobs, job[j].pc \in {"undo", "pushBack"},
         NEW answer \in Answers, job' = [job EXCEPT ![j] = Answered(j, answer)],
         UNCHANGED <<rows, minted>>, domain' \in Domains \cup {None},
         running' \in {running, rows}, up' \in BOOLEAN, settled' = None,
         left' \subseteq Ids, left \subseteq left',
         \A i \in Hold(job[j]) : i \in left' \/ running'[i] = rows[i]
  PROVE  Inv'
<1> DEFINE s == Answered(j, answer)
<1>1. TypeOK /\ Active(j)
  BY DEF Inv, Active, Working
<1>2. /\ s \in Setup /\ BookKept(s) /\ s.pc \notin Working /\ s.alone = job[j].alone
      /\ s.created = {} /\ s.updated = {} /\ s.touched = {}
      /\ s.unread = job[j].unread /\ \A i \in Ids : s.snap[i] = NoRow
  BY <1>1, AnsweredFacts
<1> HIDE DEF s
<1>3. StoreTyped(rows', minted', domain', running', up', left', settled')
  BY <1>1 DEF TypeOK, StoreTyped
<1>4. \A i \in Ids : i > minted' => rows'[i] = NoRow
  BY DEF Inv, Unused
<1>5. \A i \in Ids \ left' :
         \/ running'[i] = rows'[i]
         \/ /\ i \notin left /\ i \notin Hold(job[j])
            /\ running'[i] = running[i] /\ rows'[i] = rows[i]
  OBVIOUS
<1>6. s.created \cup s.updated \subseteq s.touched
      /\ s.touched \cup s.unread \subseteq 1..minted'
  BY <1>1, <1>2, SetupFacts
<1>7. job' = [job EXCEPT ![j] = s]
  BY DEF s
<1> QED
  BY <1>1, <1>2, <1>3, <1>4, <1>5, <1>6, <1>7, SetupMoves

\* The end of a rollback; failed: something of it was not undone.
LEMMA EndUndoFacts ==
  ASSUME TypeOK, NEW j \in Jobs, EndUndo(j)
  PROVE  \E failed \in BOOLEAN :
           /\ job[j].pc = "undo" /\ job[j].created = {} /\ job[j].updated = {}
           /\ job[j].undoFailed => failed
           /\ domain' \in Domains \cup {None}
           /\ ~failed => domain' = IF job[j].domain # job[j].was THEN job[j].was ELSE domain
           /\ job' = [job EXCEPT ![j] =
                        IF failed THEN Answered(j, "undoFailed")
                        ELSE IF job[j].undo = "rolledBack" THEN [job[j] EXCEPT !.pc = "pushBack"]
                        ELSE Answered(j, job[j].undo)]
           /\ left' = left \cup job[j].unread
                        \cup (IF failed \/ ~job[j].alone THEN job[j].touched ELSE {})
           /\ settled' = None /\ UNCHANGED <<rows, minted, running, up>>
<1>1. PICK fails \in IF job[j].domain # job[j].was THEN StoreFails ELSE {FALSE} :
        LET failed == job[j].undoFailed \/ fails IN
        /\ job[j].pc = "undo" /\ job[j].created \cup job[j].updated = {}
        /\ \/ domain' = IF job[j].domain # job[j].was THEN job[j].was ELSE domain
           \/ fails /\ domain' = domain
        /\ job' = [job EXCEPT ![j] =
                     IF failed THEN Answered(j, "undoFailed")
                     ELSE IF job[j].undo = "rolledBack" THEN [@ EXCEPT !.pc = "pushBack"]
                     ELSE Answered(j, job[j].undo)]
        /\ left' = left \cup job[j].unread
                     \cup (IF failed \/ ~job[j].alone THEN job[j].touched ELSE {})
        /\ settled' = None
        /\ UNCHANGED <<rows, minted, running, up>>
  BY DEF EndUndo
<1>2. fails \in BOOLEAN /\ job \in [Jobs -> Setup] /\ job[j] \in Setup
  BY DEF StoreFails, TypeOK
<1> DEFINE failed == job[j].undoFailed \/ fails
<1>3. failed \in BOOLEAN
  BY <1>2 DEF Setup
<1>4. domain \in Domains \cup {None} /\ job[j].was \in Domains \cup {None}
  BY <1>2 DEF TypeOK, Setup
<1>5. domain' \in Domains \cup {None}
  BY <1>1, <1>4
<1>6. job[j].created = {} /\ job[j].updated = {}
  BY <1>1
<1>7. job' = [job EXCEPT ![j] =
                IF failed THEN Answered(j, "undoFailed")
                ELSE IF job[j].undo = "rolledBack" THEN [job[j] EXCEPT !.pc = "pushBack"]
                ELSE Answered(j, job[j].undo)]
  BY <1>1, <1>2
<1>8. ~failed => domain' = IF job[j].domain # job[j].was THEN job[j].was ELSE domain
  BY <1>1
<1>9. /\ job[j].pc = "undo" /\ settled' = None /\ UNCHANGED <<rows, minted, running, up>>
      /\ left' = left \cup job[j].unread
                   \cup (IF failed \/ ~job[j].alone THEN job[j].touched ELSE {})
      /\ job[j].undoFailed => failed
  BY <1>1
<1> HIDE DEF failed
<1> QED
  BY <1>3, <1>5, <1>6, <1>7, <1>8, <1>9

LEMMA EndUndoStep ==
  ASSUME Inv, NEW j \in Jobs, EndUndo(j)
  PROVE  Inv'
<1>1. PICK failed \in BOOLEAN :
        /\ job[j].pc = "undo" /\ job[j].created = {} /\ job[j].updated = {}
        /\ job[j].undoFailed => failed
        /\ domain' \in Domains \cup {None}
        /\ ~failed => domain' = IF job[j].domain # job[j].was THEN job[j].was ELSE domain
        /\ job' = [job EXCEPT ![j] =
                     IF failed THEN Answered(j, "undoFailed")
                     ELSE IF job[j].undo = "rolledBack" THEN [job[j] EXCEPT !.pc = "pushBack"]
                     ELSE Answered(j, job[j].undo)]
        /\ left' = left \cup job[j].unread
                     \cup (IF failed \/ ~job[j].alone THEN job[j].touched ELSE {})
        /\ settled' = None /\ UNCHANGED <<rows, minted, running, up>>
  BY EndUndoFacts DEF Inv
<1>2. TypeOK /\ BookKept(job[j]) /\ Undisturbed(j) /\ Active(j)
      /\ job \in [Jobs -> Setup] /\ job[j] \in Setup
  BY <1>1, SetupFacts DEF Inv, Active, Working, TypeOK
<1>3. /\ Hold(job[j]) = job[j].touched \cup job[j].unread
      /\ job[j].touched \subseteq Ids /\ job[j].unread \subseteq Ids
      /\ job[j].undo \in Undone /\ job[j].undoFailed \in BOOLEAN /\ job[j].alone \in BOOLEAN
  BY <1>1, <1>2, SetupFacts DEF Hold
<1>4. /\ domain' \in Domains \cup {None} /\ up' \in BOOLEAN
      /\ left' \subseteq Ids /\ left \subseteq left'
  BY <1>1, <1>2, <1>3, SetupFacts DEF TypeOK
<1>5. CASE failed
  <2>1. job' = [job EXCEPT ![j] = Answered(j, "undoFailed")] /\ "undoFailed" \in Answers
    BY <1>1, <1>5 DEF Answers
  <2>2. \A i \in Hold(job[j]) : i \in left'
    BY <1>1, <1>3, <1>5
  <2> QED
    BY <1>1, <1>4, <2>1, <2>2, SetupGivesUp
<1>6. CASE ~failed /\ job[j].undo = "rolledBack"
  <2> DEFINE s == [job[j] EXCEPT !.pc = "pushBack"]
  <2>1. job' = [job EXCEPT ![j] = s]
    BY <1>1, <1>6
  <2>2. s \in Setup
    BY <1>2 DEF Setup, Working
  <2>3. /\ s.pc = "pushBack" /\ s.undo = "rolledBack" /\ s.undoFailed = job[j].undoFailed
        /\ s.alone = job[j].alone /\ s.req = job[j].req
        /\ s.snap = job[j].snap /\ s.was = job[j].was /\ s.domain = job[j].domain
        /\ s.created = {} /\ s.updated = {}
        /\ s.touched = job[j].touched /\ s.unread = job[j].unread
    BY <1>1, <1>2, <1>6 DEF Setup
  <2> HIDE DEF s
  <2>4. BookKept(s) /\ s.pc \in Working /\ Hold(s) = job[j].touched
    BY <1>1, <1>2, <1>6, <2>3 DEF BookKept, Working, Answers, Undone, Hold, Active
  <2>5. s.created \cup s.updated \subseteq s.touched
        /\ s.touched \cup s.unread \subseteq 1..minted'
    BY <1>1, <1>2, <2>3, SetupFacts
  <2>6. StoreTyped(rows', minted', domain', running', up', left', settled')
    BY <1>1, <1>2, <1>4 DEF TypeOK, StoreTyped
  <2>7. \A i \in Ids : /\ i > minted' => rows'[i] = NoRow
                       /\ i > minted => s.snap[i] = NoRow
    BY <1>1, <2>3 DEF Inv, Unused
  <2>8. \A i \in Ids \ left' :
         \/ running'[i] = rows'[i]
         \/ s.pc \in Working /\ i \in Hold(s)
         \/ /\ i \notin left /\ i \notin Hold(job[j])
            /\ running'[i] = running[i] /\ rows'[i] = rows[i]
    BY <1>1, <1>3, <2>4
  <2>9. s.alone => Faithful(s, rows', running', left', domain')
    BY <1>1, <1>2, <1>6, <2>3 DEF Undisturbed, Faithful
  <2> QED
    BY <1>2, <2>1, <2>2, <2>3, <2>4, <2>5, <2>6, <2>7, <2>8, <2>9, SetupMoves
<1>7. CASE ~failed /\ job[j].undo # "rolledBack"
  <2>1. job' = [job EXCEPT ![j] = Answered(j, job[j].undo)] /\ job[j].undo \in Answers
    BY <1>1, <1>3, <1>7 DEF Answers
  <2>2. ASSUME NEW i \in Hold(job[j]), i \notin left' PROVE running'[i] = rows[i]
    <3>1. job[j].alone /\ i \in Ids /\ i \notin left /\ i \notin job[j].unread
      BY <1>1, <1>3, <2>2
    <3>2. Faithful(job[j], rows, running, left, domain)
      BY <1>2, <3>1 DEF Undisturbed
    <3> QED
      BY <1>1, <1>7, <3>1, <3>2 DEF Faithful
  <2> QED
    BY <1>1, <1>4, <2>1, <2>2, SetupGivesUp
<1> QED
  BY <1>5, <1>6, <1>7

LEMMA PushBackStep ==
  ASSUME Inv, NEW j \in Jobs, PushBack(j)
  PROVE  Inv'
<1>1. job[j].pc = "pushBack" /\ settled' = None /\ UNCHANGED store
  BY DEF PushBack
<1>2. TypeOK
  BY DEF Inv
<1>3. CASE /\ Pushed /\ left' = {}
           /\ job' = [job EXCEPT ![j] = Answered(j, "rolledBack")]
  BY <1>1, <1>3, SetupPublishes DEF Answers, Undone
<1>4. CASE /\ Refused \/ Lost
           /\ left' = left \cup job[j].touched
           /\ job' = [job EXCEPT ![j] = Answered(j, "notRestored")]
  <2>1. running' \in {running, rows} /\ up' \in BOOLEAN
    BY <1>2, <1>4, PushFacts
  <2>2. Hold(job[j]) = job[j].touched /\ "notRestored" \in Answers
    BY <1>1 DEF Hold, Answers
  <2>3. left' \subseteq Ids /\ left \subseteq left' /\ domain' \in Domains \cup {None}
    BY <1>1, <1>2, <1>4, SetupFacts DEF TypeOK, store
  <2> QED
    BY <1>1, <1>4, <2>1, <2>2, <2>3, SetupGivesUp DEF store
<1> QED
  BY <1>3, <1>4 DEF PushBack

-----------------------------------------------------------------------------
(***************************************************************************)
(* Steps that meet other setups: a setup starts, another request pushes.   *)
(***************************************************************************)
\* Setup k beside whatever else starts or is published.
Met(k) == [job[k] EXCEPT !.alone = @ /\ ~Active(k)]

LEMMA MetFacts ==
  ASSUME Inv, NEW k \in Jobs
  PROVE  /\ Met(k) \in Setup /\ BookKept(Met(k)) /\ Hold(Met(k)) = Hold(job[k])
         /\ Met(k).pc = job[k].pc /\ (Active(k) => ~Met(k).alone)
         /\ Met(k).created = job[k].created /\ Met(k).updated = job[k].updated
         /\ Met(k).touched = job[k].touched /\ Met(k).unread = job[k].unread
         /\ Met(k).snap = job[k].snap
<1>1. job[k] \in Setup /\ BookKept(job[k]) /\ job[k].alone \in BOOLEAN
  BY SetupFacts DEF Inv
<1>2. (job[k].alone /\ ~Active(k)) \in BOOLEAN
  OBVIOUS
<1>3. Met(k) \in Setup
  <2>1. \A b \in BOOLEAN : [job[k] EXCEPT !.alone = b] \in Setup
    BY <1>1 DEF Setup
  <2>2. Met(k) = [job[k] EXCEPT !.alone = job[k].alone /\ ~Active(k)]
    BY DEF Met
  <2> QED
    BY <1>2, <2>1, <2>2
<1>4. /\ Met(k).pc = job[k].pc /\ Met(k).alone = (job[k].alone /\ ~Active(k))
      /\ Met(k).created = job[k].created /\ Met(k).updated = job[k].updated
      /\ Met(k).touched = job[k].touched /\ Met(k).unread = job[k].unread
      /\ Met(k).snap = job[k].snap /\ Met(k).todo = job[k].todo
      /\ Met(k).undo = job[k].undo /\ Met(k).undoFailed = job[k].undoFailed
      /\ Met(k).req = job[k].req
  BY <1>1 DEF Met, Setup
<1>5. BookKept(Met(k)) /\ Hold(Met(k)) = Hold(job[k])
  BY <1>1, <1>4 DEF BookKept, Hold
<1> QED
  BY <1>3, <1>4, <1>5

\* What a setup goes through is a sequence of protocols it can serve.
LEMMA ProtocolsAreProtocols ==
  ASSUME NEW req \in Requests, NEW d
  PROVE  ProtocolsFor(req, d) \in Seq(Protocols)
<1>1. req.protocols \in Seq(Protocols)
  BY InputsAssumption DEF InputsAssumption
<1>2. \A p, q \in Protocols : <<p>> \in Seq(Protocols) /\ <<p, q>> \in Seq(Protocols)
  OBVIOUS
<1>3. {"hysteria2", "vless-reality", "vless-httpupgrade"} = Protocols
  BY DEF Protocols
<1>4. Suggested(req.mode, d) \in Seq(Protocols)
  BY <1>2, <1>3 DEF Suggested
<1> QED
  BY <1>1, <1>4 DEF ProtocolsFor

LEMMA StartStep ==
  ASSUME Inv, NEW j \in Jobs, NEW req \in Requests, Start(j, req)
  PROVE  Inv'
<1> DEFINE d == IF req.domain = None THEN domain ELSE req.domain
           alone == \A k \in Jobs : ~Active(k)
           s == IF Acceptable(req, d)
                  THEN [NoJob EXCEPT !.req = req, !.was = domain, !.domain = d,
                          !.todo = ProtocolsFor(req, d), !.alone = alone, !.pc = "list"]
                  ELSE Answered(j, "rejected")
<1>1. /\ job[j].pc = "start" /\ UNCHANGED <<store, running, up, left, settled>>
      /\ job' = [k \in Jobs |-> IF k = j THEN s ELSE Met(k)]
  BY DEF Start, Met
<1>2. TypeOK /\ BookKept(job[j]) /\ job[j].unread = {} /\ ~Active(j)
  BY <1>1 DEF Inv, BookKept, Active, Working
<1>3. /\ s \in Setup /\ BookKept(s)
      /\ s.created = {} /\ s.updated = {} /\ s.touched = {} /\ s.unread = {}
      /\ \A i \in Ids : s.snap[i] = NoRow
      /\ s.pc \in Working /\ s.alone =>
           /\ \A k \in Jobs : ~Active(k)
           /\ Faithful(s, rows, running, left, domain)
  <2>1. CASE ~Acceptable(req, d)
    BY <1>2, <2>1, AnsweredFacts DEF Answers
  <2>2. CASE Acceptable(req, d)
    <3> DEFINE t == [NoJob EXCEPT !.req = req, !.was = domain, !.domain = d,
                       !.todo = ProtocolsFor(req, d), !.alone = alone, !.pc = "list"]
    <3>1. s = t
      BY <2>2
    <3>2. domain \in Domains \cup {None} /\ d \in Domains \cup {None} /\ req # None
      BY <1>2, InputsAssumption DEF TypeOK, InputsAssumption
    <3>3. alone \in BOOLEAN /\ ProtocolsFor(req, d) \in Seq(Protocols)
      BY ProtocolsAreProtocols
    <3> HIDE DEF d, alone
    <3>4. t \in Setup
      BY <3>2, <3>3, NoJobFacts DEF Setup, Working
    <3>5. /\ t.pc = "list" /\ t.req = req /\ t.was = domain /\ t.alone = alone
          /\ t.created = {} /\ t.updated = {} /\ t.touched = {} /\ t.unread = {}
          /\ t.undo = "failed" /\ t.undoFailed = FALSE /\ t.snap = [i \in Ids |-> NoRow]
      BY DEF NoJob
    <3> HIDE DEF t, s
    <3>6. BookKept(t)
      BY <3>2, <3>5 DEF BookKept
    <3>7. Faithful(t, rows, running, left, domain)
      BY <3>5 DEF Faithful
    <3> QED
      BY <3>1, <3>4, <3>5, <3>6, <3>7 DEF alone
  <2> QED
    BY <2>1, <2>2
<1> HIDE DEF s, d, alone
<1>4. /\ job'[j] = s
      /\ \A k \in Jobs : k # j => job'[k] = Met(k)
  BY <1>1
<1>5. TypeOK'
  <2>1. \A k \in Jobs : /\ job'[k] \in Setup
                        /\ job'[k].created \cup job'[k].updated \subseteq job'[k].touched
                        /\ job'[k].touched \cup job'[k].unread \subseteq 1..minted
    BY <1>2, <1>3, <1>4, MetFacts DEF TypeOK
  <2>2. job' \in [Jobs -> Setup]
    BY <1>1, <1>4, <2>1
  <2> QED
    BY <1>1, <1>2, <2>1, <2>2 DEF TypeOK, store
<1>6. Unused'
  BY <1>1, <1>3, <1>4, MetFacts DEF Inv, Unused, store
<1>7. \A k \in Jobs : k # j => (Active(k)' <=> Active(k)) /\ Hold(job'[k]) = Hold(job[k])
  BY <1>4, MetFacts DEF Active
<1>8. Accounted'
  BY <1>1, <1>2, <1>7 DEF Inv, Accounted, store
<1>9. \A k \in Jobs : BookKept(job'[k])
  BY <1>3, <1>4, MetFacts
<1>10. \A k \in Jobs : Undisturbed(k)'
  <2> SUFFICES ASSUME NEW k \in Jobs, Active(k)', job'[k].alone
               PROVE  /\ \A l \in Jobs : Active(l)' => l = k
                      /\ Faithful(job'[k], rows', running', left', domain')
    BY DEF Undisturbed
  <2>1. k = j
    BY <1>4, <1>7, MetFacts
  <2>2. s.pc \in Working /\ s.alone
    BY <1>4, <2>1 DEF Active
  <2> QED
    BY <1>1, <1>3, <1>4, <1>7, <2>1, <2>2 DEF store
<1> QED
  BY <1>5, <1>6, <1>8, <1>9, <1>10 DEF Inv

LEMMA OtherPushStep ==
  ASSUME Inv, OtherPush
  PROVE  Inv'
<1>1. /\ \/ Pushed /\ left' = {}
         \/ Refused /\ UNCHANGED left
      /\ job' = [k \in Jobs |-> Met(k)] /\ UNCHANGED <<store, settled>>
  BY DEF OtherPush, Met
<1>2. TypeOK
  BY DEF Inv
<1>3. \A k \in Jobs : job'[k] = Met(k)
  BY <1>1
<1>4. \A k \in Jobs : (Active(k)' <=> Active(k)) /\ Hold(job'[k]) = Hold(job[k])
  BY <1>3, MetFacts DEF Active
<1>5. TypeOK'
  <2>1. \A k \in Jobs : /\ job'[k] \in Setup
                        /\ job'[k].created \cup job'[k].updated \subseteq job'[k].touched
                        /\ job'[k].touched \cup job'[k].unread \subseteq 1..minted
    BY <1>2, <1>3, MetFacts DEF TypeOK
  <2>2. job' \in [Jobs -> Setup]
    BY <1>1, <1>3, <2>1
  <2>3. running' \in [Ids -> Row \cup {NoRow}] /\ up' \in BOOLEAN
    BY <1>1, <1>2, PushFacts
  <2> QED
    BY <1>1, <1>2, <2>1, <2>2, <2>3 DEF TypeOK, store
<1>6. Unused'
  BY <1>1, <1>3, MetFacts DEF Inv, Unused, store
<1>7. Accounted'
  <2>1. CASE Pushed
    BY <1>1, <2>1 DEF Accounted, Pushed, store
  <2>2. CASE Refused /\ UNCHANGED left
    BY <1>1, <1>4, <2>2 DEF Inv, Accounted, Refused, store
  <2> QED
    BY <1>1, <2>1, <2>2
<1>8. \A k \in Jobs : BookKept(job'[k])
  BY <1>3, MetFacts
<1>9. \A k \in Jobs : Undisturbed(k)'
  BY <1>3, <1>4, MetFacts DEF Undisturbed
<1> QED
  BY <1>5, <1>6, <1>7, <1>8, <1>9 DEF Inv

LEMMA StillStep ==
  ASSUME Inv, Stop \/ UNCHANGED vars
  PROVE  Inv'
<1>1. /\ UNCHANGED <<rows, minted, domain, running, job, left, settled>>
      /\ up' \in {up, FALSE}
  BY DEF Stop, vars, store
<1> QED
  BY <1>1 DEF Inv, TypeOK, Unused, Accounted, Active, Undisturbed

LEMMA InitInv ==
  ASSUME Init
  PROVE  Inv
<1>1. PICK n \in 0..MaxId : \A i \in Ids : rows[i] # NoRow <=> i <= n
  BY InputsAssumption DEF Init, InputsAssumption
<1>2. MaxId \in Nat
  BY ConstantsAssumption DEF ConstantsAssumption
<1>3. {i \in Ids : rows[i] # NoRow} = 1..n
  BY <1>1, <1>2 DEF Ids
<1>4. Cardinality(1..n) = n
  BY <1>1, <1>2, FS_Interval
<1>5. minted = n
  BY <1>3, <1>4 DEF Init
<1>6. rows \in [Ids -> Row \cup {NoRow}]
  BY InputsAssumption DEF Init, InputsAssumption
<1>7. \A j \in Jobs : job[j] = NoJob
  BY DEF Init
<1>8. NoJob.pc = "start" /\ NoJob.snap = [i \in Ids |-> NoRow]
  BY DEF NoJob
<1>9. TypeOK
  <2>1. job \in [Jobs -> Setup]
    BY NoJobFacts DEF Init
  <2> QED
    BY <1>1, <1>5, <1>6, <1>7, <2>1, NoJobFacts DEF Init, TypeOK
<1>10. Unused
  BY <1>1, <1>2, <1>5, <1>7, <1>8 DEF Unused, Ids
<1>11. Accounted
  BY DEF Init, Accounted
<1>12. \A j \in Jobs : BookKept(job[j]) /\ Undisturbed(j)
  BY <1>7, <1>8, NoJobFacts DEF Undisturbed, Active, Working
<1> QED
  BY <1>9, <1>10, <1>11, <1>12 DEF Inv

LEMMA UnreachableStep ==
  ASSUME Inv, NEW j \in Jobs, Unreachable(j)
  PROVE  Inv'
BY SetupLeaves DEF Unreachable

LEMMA NextInv == Inv /\ [Next]_vars => Inv'
<1> SUFFICES ASSUME Inv, [Next]_vars PROVE Inv'
  OBVIOUS
<1>1. ASSUME NEW j \in Jobs, Step(j) PROVE Inv'
  <2>1. ASSUME NEW req \in Requests, Start(j, req) PROVE Inv'
    BY <2>1, StartStep
  <2>2. CASE List(j)
    BY <2>2, ListStep
  <2>3. CASE Unreachable(j)
    BY <2>3, UnreachableStep
  <2>4. CASE SkipConfigured(j) \/ ProtocolFails(j) \/ SkipUnchanged(j)
    BY <2>4, LoopSteps
  <2>5. CASE Draft(j)
    BY <2>5, DraftStep
  <2>6. CASE UpdateRow(j)
    BY <2>6, UpdateRowStep
  <2>7. CASE CreateRow(j) \/ CreateUnread(j)
    BY <2>7, CreateSteps
  <2>8. CASE LoopDone(j)
    BY <2>8, LoopDoneStep
  <2>9. CASE Rename(j) \/ RenameFails(j)
    BY <2>9, RenameSteps
  <2>10. CASE Push(j)
    BY <2>10, PushStep
  <2>11. ASSUME NEW i \in Ids, Uncreate(j, i) PROVE Inv'
    BY <2>11, UncreateStep
  <2>12. ASSUME NEW i \in Ids, Restore(j, i) PROVE Inv'
    BY <2>12, RestoreStep
  <2>13. CASE EndUndo(j)
    BY <2>13, EndUndoStep
  <2>14. CASE PushBack(j)
    BY <2>14, PushBackStep
  <2> QED
    BY <1>1, <2>1, <2>2, <2>3, <2>4, <2>5, <2>6, <2>7, <2>8, <2>9, <2>10, <2>11, <2>12,
       <2>13, <2>14 DEF Step
<1>2. CASE OtherPush
  BY <1>2, OtherPushStep
<1>3. CASE Stop \/ UNCHANGED vars
  BY <1>3, StillStep
<1> QED
  BY <1>1, <1>2, <1>3 DEF Next

THEOREM Invariance == Spec => []Inv
BY InitInv, NextInv, PTL DEF Spec

-----------------------------------------------------------------------------
(***************************************************************************)
(* The theorems.                                                           *)
(***************************************************************************)
\* Rows, credentials and ports are what the store and the node can hold, and
\* an id a setup remembers has been handed out.
THEOREM TypeCorrect == Spec => []TypeOK
<1>1. Inv => TypeOK
  BY DEF Inv
<1> QED
  BY <1>1, Invariance, PTL

\* With no setup in progress the node runs the rows of the database, but for
\* the ids setups gave up on: whatever interleaved, and whatever failed.
THEOREM RowsAreFollowed == Spec => []NodeFollowsRows
<1>1. Inv => NodeFollowsRows
  BY DEF Inv, Accounted, NodeFollowsRows, Quiet
<1> QED
  BY <1>1, Invariance, PTL

\* Of the steps a setup in progress takes, only the ends of its rollback answer
\* that its changes are undone.
LEMMA UndoneAfterUndo ==
  ASSUME TypeOK, NEW j \in Jobs, Step(j), Active(j), job'[j].pc \in Undone
  PROVE  EndUndo(j) \/ PushBack(j)
<1>1. job \in [Jobs -> Setup] /\ job[j] \in Setup
  BY DEF TypeOK
<1>2. ASSUME NEW s, s.pc \notin Undone, job' = [job EXCEPT ![j] = s] PROVE FALSE
  BY <1>1, <1>2
<1>3. ASSUME NEW req \in Requests, Start(j, req) PROVE FALSE
  BY <1>3 DEF Start, Active, Working
<1>4. CASE List(j) \/ Unreachable(j)
  <2>1. Answered(j, "rejected").pc \notin Undone
    BY AnsweredFacts DEF Answers, Undone
  <2>2. [job[j] EXCEPT !.pc = "loop", !.snap = rows].pc \notin Undone
    BY <1>1 DEF Undone, Setup
  <2> QED
    BY <1>2, <1>4, <2>1, <2>2 DEF List, Unreachable
<1>5. Done(j).pc = "loop" /\ "loop" \notin Undone
  BY <1>1 DEF Done, Undone, Setup
<1>6. CASE SkipConfigured(j) \/ ProtocolFails(j) \/ SkipUnchanged(j)
  <2>1. [Done(j) EXCEPT !.hadError = TRUE].pc = "loop"
    BY <1>1 DEF Done, Setup
  <2> QED
    BY <1>2, <1>5, <1>6, <2>1 DEF SkipConfigured, ProtocolFails, SkipUnchanged
<1>7. CASE Draft(j)
  <2>1. job'[j].pc = "drafted"
    BY <1>1, <1>7 DEF Draft, Setup
  <2> QED
    BY <2>1 DEF Undone
<1>8. CASE UpdateRow(j) \/ CreateRow(j) \/ CreateUnread(j)
  <2>1. CASE UpdateRow(j)
    <3>1. PICK e : job' = [job EXCEPT ![j] =
                              [Done(j) EXCEPT !.updated = @ \cup {Existing(j, Proto(j))},
                                 !.touched = @ \cup {Existing(j, Proto(j))},
                                 !.hadError = e]]
      BY <1>1, <2>1 DEF UpdateRow, Done
    <3>2. job'[j].pc = "loop"
      BY <1>1, <3>1 DEF Done, Setup
    <3> QED
      BY <1>5, <3>2
  <2>2. CASE CreateRow(j)
    <3>1. job'[j].pc = "loop"
      BY <1>1, <2>2 DEF CreateRow, Done, Setup
    <3> QED
      BY <1>5, <3>1
  <2>3. CASE CreateUnread(j)
    <3>1. job'[j].pc = "loop"
      BY <1>1, <2>3 DEF CreateUnread, Done, Setup
    <3> QED
      BY <1>5, <3>1
  <2> QED
    BY <1>8, <2>1, <2>2, <2>3
<1>9. CASE LoopDone(j)
  BY <1>1, <1>9 DEF LoopDone, Setup, Undone
<1>10. CASE Rename(j) \/ RenameFails(j)
  BY <1>1, <1>10 DEF Rename, RenameFails, Setup, Undone
<1>11. CASE Push(j)
  <2>1. Answered(j, "ok").pc \notin Undone
    BY AnsweredFacts DEF Answers, Undone
  <2>2. CASE job' = [job EXCEPT ![j] = Answered(j, "ok")]
    BY <1>2, <2>1, <2>2
  <2>3. CASE job' = [job EXCEPT ![j].pc = "undo", ![j].undo = "rolledBack"]
    BY <1>1, <2>3 DEF Setup, Undone
  <2> QED
    BY <1>11, <2>2, <2>3 DEF Push
<1>12. ASSUME NEW i \in Ids, Uncreate(j, i) \/ Restore(j, i) PROVE FALSE
  <2>1. job'[j].pc = "undo"
    BY <1>1, <1>12 DEF Uncreate, Restore, Setup
  <2> QED
    BY <2>1 DEF Undone
<1> QED
  BY <1>3, <1>4, <1>6, <1>7, <1>8, <1>9, <1>10, <1>11, <1>12 DEF Step

\* Only setups in progress step, but for those that start.
LEMMA SteppersAreActive ==
  ASSUME NEW k \in Jobs, Step(k)
  PROVE  Active(k) \/ \E req \in Requests : Start(k, req)
<1>1. CASE List(k) \/ Unreachable(k)
  BY <1>1 DEF List, Unreachable, Active, Working
<1>2. CASE SkipConfigured(k) \/ Draft(k) \/ ProtocolFails(k) \/ SkipUnchanged(k) \/ LoopDone(k)
  BY <1>2 DEF SkipConfigured, Draft, ProtocolFails, SkipUnchanged, LoopDone, Ready, Active,
              Working
<1>3. CASE UpdateRow(k) \/ CreateRow(k) \/ CreateUnread(k)
  BY <1>3 DEF UpdateRow, CreateRow, CreateUnread, Ready, Active, Working
<1>4. CASE Rename(k) \/ RenameFails(k) \/ Push(k)
  BY <1>4 DEF Rename, RenameFails, Push, Active, Working
<1>5. CASE (\E i \in Ids : Uncreate(k, i) \/ Restore(k, i)) \/ EndUndo(k) \/ PushBack(k)
  BY <1>5 DEF Uncreate, Restore, EndUndo, PushBack, Active, Working
<1> QED
  BY <1>1, <1>2, <1>3, <1>4, <1>5 DEF Step

\* A setup that nothing met and that reports its changes as undone leaves the
\* rows and the domain it found, and a node that runs them if it was pushed.
THEOREM FailureLeavesNoTrace == Spec => FailedSetupLeavesNoTrace
<1> DEFINE P == \A j \in Jobs :
       /\ Active(j) /\ job'[j].pc \in Undone
       /\ job[j].alone /\ job[j].unread = {}
       => /\ rows' = job[j].snap /\ domain' = job[j].was
          /\ job'[j].pc = "rolledBack" => running' = rows'
<1>1. ASSUME Inv, [Next]_vars, NEW j \in Jobs, Active(j), job'[j].pc \in Undone,
             job[j].alone, job[j].unread = {}
      PROVE  /\ rows' = job[j].snap /\ domain' = job[j].was
             /\ job'[j].pc = "rolledBack" => running' = rows'
  <2>1. TypeOK /\ BookKept(job[j]) /\ job[j].pc \notin Undone
        /\ \A k \in Jobs : Active(k) => k = j
    BY <1>1 DEF Inv, Undisturbed, Active, Working, Undone
  <2>2. Met(j).pc = job[j].pc
    BY <1>1, MetFacts
  <2>3. Step(j)
    <3>1. ASSUME NEW k \in Jobs, Step(k), k # j PROVE FALSE
      <4>1. PICK req \in Requests : Start(k, req)
        BY <2>1, <3>1, SteppersAreActive
      <4>2. job'[j] = Met(j)
        BY <3>1, <4>1 DEF Start, Met
      <4> QED
        BY <1>1, <2>1, <2>2, <4>2
    <3>2. CASE OtherPush
      <4>1. job'[j] = Met(j)
        BY <3>2 DEF OtherPush, Met
      <4> QED
        BY <1>1, <2>1, <2>2, <4>1
    <3>3. CASE Stop \/ UNCHANGED vars
      BY <1>1, <2>1, <3>3 DEF Stop, vars
    <3> QED
      BY <1>1, <3>1, <3>2, <3>3 DEF Next
  <2>4. EndUndo(j) \/ PushBack(j)
    BY <1>1, <2>1, <2>3, UndoneAfterUndo
  <2>5. Faithful(job[j], rows, running, left, domain)
    BY <1>1 DEF Inv, Undisturbed
  <2>6. rows \in [Ids -> Row \cup {NoRow}] /\ job[j].snap \in [Ids -> Row \cup {NoRow}]
        /\ job \in [Jobs -> Setup] /\ job[j] \in Setup
    BY <2>1, SetupFacts DEF TypeOK
  <2>7. CASE EndUndo(j)
    <3>1. PICK failed \in BOOLEAN :
            /\ job[j].pc = "undo" /\ job[j].created = {} /\ job[j].updated = {}
            /\ job[j].undoFailed => failed
            /\ ~failed => domain' = IF job[j].domain # job[j].was THEN job[j].was ELSE domain
            /\ job' = [job EXCEPT ![j] =
                         IF failed THEN Answered(j, "undoFailed")
                         ELSE IF job[j].undo = "rolledBack"
                           THEN [job[j] EXCEPT !.pc = "pushBack"]
                         ELSE Answered(j, job[j].undo)]
            /\ rows' = rows
      BY <2>1, <2>7, EndUndoFacts
    <3>2. ~failed /\ job'[j].pc # "rolledBack"
      <4>1. CASE failed
        <5>1. job'[j] = Answered(j, "undoFailed")
          BY <2>6, <3>1, <4>1
        <5>2. job'[j].pc = "undoFailed"
          BY <2>1, <5>1, AnsweredFacts DEF Answers
        <5> QED
          BY <1>1, <5>2 DEF Undone
      <4>2. CASE ~failed /\ job[j].undo = "rolledBack"
        <5>1. job'[j].pc = "pushBack"
          BY <2>6, <3>1, <4>2 DEF Setup
        <5> QED
          BY <1>1, <5>1 DEF Undone
      <4>3. CASE ~failed /\ job[j].undo # "rolledBack"
        <5>1. job[j].undo \in Answers /\ job'[j] = Answered(j, job[j].undo)
          BY <2>6, <3>1, <4>3 DEF Setup, Answers
        <5> QED
          BY <2>1, <4>3, <5>1, AnsweredFacts
      <4> QED
        BY <4>1, <4>2, <4>3
    <3>3. \A i \in Ids : rows[i] = job[j].snap[i]
      BY <1>1, <2>5, <3>1, <3>2 DEF Faithful
    <3>4. rows = job[j].snap
      BY <2>6, <3>3
    <3>5. domain' = job[j].was
      BY <2>5, <3>1, <3>2 DEF Faithful
    <3> QED
      BY <3>1, <3>2, <3>4, <3>5
  <2>8. CASE PushBack(j)
    <3>1. job[j].pc = "pushBack" /\ UNCHANGED store
      BY <2>8 DEF PushBack
    <3>2. \A i \in Ids : rows[i] = job[j].snap[i]
      BY <1>1, <2>1, <2>5, <3>1 DEF Faithful, BookKept
    <3>3. rows = job[j].snap
      BY <2>6, <3>2
    <3>4. domain = job[j].was
      BY <2>5, <3>1 DEF Faithful
    <3>5. Pushed
      <4>1. CASE job' = [job EXCEPT ![j] = Answered(j, "notRestored")]
        <5>1. job'[j].pc = "notRestored"
          BY <2>1, <2>6, <4>1, AnsweredFacts DEF Answers
        <5> QED
          BY <1>1, <5>1 DEF Undone
      <4> QED
        BY <2>8, <4>1 DEF PushBack
    <3> QED
      BY <3>1, <3>3, <3>4, <3>5 DEF Pushed, store
  <2> QED
    BY <2>4, <2>7, <2>8
<1>2. Inv /\ [Next]_vars => [P]_vars
  BY <1>1
<1> QED
  BY <1>2, Invariance, PTL DEF Spec, FailedSetupLeavesNoTrace

-----------------------------------------------------------------------------
(***************************************************************************)
(* What each step makes of the locals of a setup, field by field.          *)
(***************************************************************************)
\* The fields of setup j that only the choice of its protocols looks at.
SameTask(j) ==
  /\ job'[j].snap = job[j].snap /\ job'[j].was = job[j].was
  /\ job'[j].domain = job[j].domain /\ job'[j].req = job[j].req

OthersStand(j) == \A k \in Jobs : k # j => job'[k] = job[k]

LEMMA SetupOf ==
  ASSUME Inv, NEW j \in Jobs
  PROVE  job \in [Jobs -> Setup] /\ job[j] \in Setup /\ BookKept(job[j])
BY SetupFacts DEF Inv, TypeOK

LEMMA ListMoves ==
  ASSUME Inv, NEW j \in Jobs, List(j), MigrationComplete(j)
  PROVE  /\ job'[j].pc = "loop" /\ job'[j].snap = rows /\ job'[j].todo = job[j].todo
         /\ job'[j].was = job[j].was /\ job'[j].domain = job[j].domain
         /\ job'[j].req = job[j].req /\ job'[j].hadError = job[j].hadError
         /\ job'[j].reserved = job[j].reserved /\ job'[j].draft = job[j].draft
         /\ job'[j].alone = job[j].alone /\ job'[j].unread = job[j].unread
         /\ job'[j].undoFailed = job[j].undoFailed /\ OthersStand(j)
BY SetupOf DEF List, Setup, OthersStand

\* The six steps that are done with a protocol.
LEMMA LoopMoves ==
  ASSUME Inv, NEW j \in Jobs,
         \/ SkipConfigured(j) \/ ProtocolFails(j) \/ SkipUnchanged(j)
         \/ UpdateRow(j) \/ CreateRow(j) \/ CreateUnread(j)
  PROVE  /\ job[j].pc \in {"loop", "drafted"} /\ job[j].todo # <<>>
         /\ job'[j].pc = "loop" /\ job'[j].todo = Tail(job[j].todo)
         /\ SameTask(j) /\ job'[j].reserved = job[j].reserved
         /\ job'[j].alone = job[j].alone /\ job'[j].undoFailed = job[j].undoFailed
         /\ job[j].hadError => job'[j].hadError
         /\ job[j].unread \subseteq job'[j].unread
         /\ OthersStand(j) /\ UNCHANGED <<domain, running, up, left, settled>>
<1>1. job[j].pc \in {"loop", "drafted"} /\ job[j].todo # <<>>
  BY SetupOf DEF BookKept, SkipConfigured, ProtocolFails, SkipUnchanged, UpdateRow, CreateRow,
                 CreateUnread, Ready
<1>2. UNCHANGED <<domain, running, up, left, settled>>
  BY DEF SkipConfigured, ProtocolFails, SkipUnchanged, UpdateRow, CreateRow, CreateUnread, store
<1> DEFINE Ends(c, u, t, x, e) ==
             /\ job' = [job EXCEPT ![j] =
                          [Done(j) EXCEPT !.created = c, !.updated = u, !.touched = t,
                                          !.unread = x, !.hadError = e]]
             /\ job[j].hadError => e
             /\ job[j].unread \subseteq x
<1>3. \E c, u, t, x, e : Ends(c, u, t, x, e)
  <2> DEFINE s == job[j]
  <2>1. /\ Done(j).created = s.created /\ Done(j).updated = s.updated
        /\ Done(j).touched = s.touched /\ Done(j).unread = s.unread
        /\ Done(j).hadError = s.hadError
    BY SetupOf DEF Done, Setup
  <2>2. Done(j) \in Setup
    BY <1>1, DoneFacts DEF Inv
  <2> HIDE DEF s
  <2>3. CASE SkipConfigured(j) \/ SkipUnchanged(j)
    <3>1. Done(j) = [Done(j) EXCEPT !.created = s.created, !.updated = s.updated,
                       !.touched = s.touched, !.unread = s.unread, !.hadError = s.hadError]
      BY <2>1, <2>2 DEF Setup
    <3>2. job' = [job EXCEPT ![j] = Done(j)]
      BY <2>3 DEF SkipConfigured, SkipUnchanged
    <3>9. Ends(s.created, s.updated, s.touched, s.unread, s.hadError)
      BY <3>1, <3>2 DEF s
    <3> HIDE DEF Ends
    <3> QED
      BY <3>9
  <2>4. CASE ProtocolFails(j)
    <3>1. [Done(j) EXCEPT !.hadError = TRUE]
            = [Done(j) EXCEPT !.created = s.created, !.updated = s.updated,
                 !.touched = s.touched, !.unread = s.unread, !.hadError = TRUE]
      BY <2>1, <2>2 DEF Setup
    <3>2. job' = [job EXCEPT ![j] = [Done(j) EXCEPT !.hadError = TRUE]]
      BY <2>4 DEF ProtocolFails
    <3>9. Ends(s.created, s.updated, s.touched, s.unread, TRUE)
      BY <3>1, <3>2 DEF s
    <3> HIDE DEF Ends
    <3> QED
      BY <3>9
  <2>5. CASE UpdateRow(j)
    <3>1. PICK fails \in StoreFails :
            job' = [job EXCEPT ![j] =
               [Done(j) EXCEPT !.updated = @ \cup {Existing(j, Proto(j))},
                  !.touched = @ \cup {Existing(j, Proto(j))},
                  !.hadError = @ \/ fails \/ rows[Existing(j, Proto(j))] = NoRow]]
      BY <2>5 DEF UpdateRow
    <3> DEFINE i == Existing(j, Proto(j))
               e == s.hadError \/ fails \/ rows[i] = NoRow
    <3>2. job' = [job EXCEPT ![j] =
                    [Done(j) EXCEPT !.updated = s.updated \cup {i},
                       !.touched = s.touched \cup {i}, !.hadError = e]]
      BY <2>1, <3>1
    <3>3. s.hadError => e
      OBVIOUS
    <3> HIDE DEF i, e
    <3>4. [Done(j) EXCEPT !.updated = s.updated \cup {i}, !.touched = s.touched \cup {i},
                          !.hadError = e]
            = [Done(j) EXCEPT !.created = s.created, !.updated = s.updated \cup {i},
                 !.touched = s.touched \cup {i}, !.unread = s.unread, !.hadError = e]
      BY <2>1, <2>2 DEF Setup
    <3>9. Ends(s.created, s.updated \cup {i}, s.touched \cup {i}, s.unread, e)
      BY <3>2, <3>3, <3>4 DEF s
    <3> HIDE DEF Ends
    <3> QED
      BY <3>9
  <2>6. CASE CreateRow(j)
    <3>1. [Done(j) EXCEPT !.created = s.created \cup {minted + 1},
                          !.touched = s.touched \cup {minted + 1}]
            = [Done(j) EXCEPT !.created = s.created \cup {minted + 1}, !.updated = s.updated,
                 !.touched = s.touched \cup {minted + 1}, !.unread = s.unread,
                 !.hadError = s.hadError]
      BY <2>1, <2>2 DEF Setup
    <3>2. job' = [job EXCEPT ![j] =
                    [Done(j) EXCEPT !.created = s.created \cup {minted + 1},
                                    !.touched = s.touched \cup {minted + 1}]]
      BY <2>1, <2>6 DEF CreateRow
    <3>9. Ends(s.created \cup {minted + 1}, s.updated, s.touched \cup {minted + 1}, s.unread, s.hadError)
      BY <3>1, <3>2 DEF s
    <3> HIDE DEF Ends
    <3> QED
      BY <3>9
  <2>7. CASE CreateUnread(j)
    <3>1. [Done(j) EXCEPT !.hadError = TRUE, !.unread = s.unread \cup {minted + 1}]
            = [Done(j) EXCEPT !.created = s.created, !.updated = s.updated,
                 !.touched = s.touched, !.unread = s.unread \cup {minted + 1}, !.hadError = TRUE]
      BY <2>1, <2>2 DEF Setup
    <3>2. job' = [job EXCEPT ![j] =
                    [Done(j) EXCEPT !.hadError = TRUE, !.unread = s.unread \cup {minted + 1}]]
      BY <2>1, <2>7 DEF CreateUnread
    <3>9. Ends(s.created, s.updated, s.touched, s.unread \cup {minted + 1}, TRUE)
      BY <3>1, <3>2 DEF s
    <3> HIDE DEF Ends
    <3> QED
      BY <3>9
  <2> QED
    BY <2>3, <2>4, <2>5, <2>6, <2>7
<1>4. PICK c, u, t, x, e : Ends(c, u, t, x, e)
  BY <1>3
<1>5. Done(j) \in Setup /\ job[j] \in Setup /\ job \in [Jobs -> Setup]
  BY <1>1, SetupOf, DoneFacts DEF Inv
<1>6. /\ job'[j] = [Done(j) EXCEPT !.created = c, !.updated = u, !.touched = t,
                                   !.unread = x, !.hadError = e]
      /\ OthersStand(j)
  BY <1>4, <1>5 DEF OthersStand
<1>7. /\ job'[j].pc = "loop" /\ job'[j].todo = Tail(job[j].todo)
      /\ SameTask(j) /\ job'[j].reserved = job[j].reserved
      /\ job'[j].alone = job[j].alone /\ job'[j].undoFailed = job[j].undoFailed
      /\ job'[j].hadError = e /\ job'[j].unread = x
  BY <1>5, <1>6 DEF Done, Setup, SameTask
<1> QED
  BY <1>1, <1>2, <1>4, <1>6, <1>7

\* A draft: the port is one of those to choose from, and reserved if it was.
LEMMA DraftMoves ==
  ASSUME Inv, NEW j \in Jobs, Draft(j)
  PROVE  \E port \in SelectedPorts(j, Proto(j)) : \E row \in Drafts(j, Proto(j), port) :
           /\ job[j].pc = "loop" /\ job[j].todo # <<>> /\ Proto(j) \in Protocols
           /\ port \in Ports /\ row \in Row
           /\ job'[j].pc = "drafted" /\ job'[j].draft = row
           /\ SameTask(j) /\ job'[j].todo = job[j].todo
           /\ job'[j].hadError = job[j].hadError /\ job'[j].alone = job[j].alone
           /\ job'[j].unread = job[j].unread /\ job'[j].undoFailed = job[j].undoFailed
           /\ \A l \in {"tcp", "udp"} : job[j].reserved[l] \subseteq job'[j].reserved[l]
           /\ Reserves(j, Proto(j)) => port \in job'[j].reserved[Network(Proto(j))]
           /\ \A l \in {"tcp", "udp"} : \A q \in job'[j].reserved[l] :
                q \in job[j].reserved[l] \/ (l = Network(Proto(j)) /\ q = port)
           /\ OthersStand(j) /\ UNCHANGED <<store, running, up, left, settled>>
<1> DEFINE p == Proto(j)
<1>1. job[j].pc = "loop" /\ job[j].todo # <<>> /\ UNCHANGED <<store, running, up, left, settled>>
  BY DEF Draft
<1>2. TypeOK /\ p \in Protocols /\ job[j] \in Setup /\ job[j].req # None
      /\ job \in [Jobs -> Setup]
  BY <1>1, DoneFacts, SetupOf DEF Inv, BookKept, Working
<1>3. PICK port \in SelectedPorts(j, p) : \E row \in Drafts(j, p, port) :
        job' = [job EXCEPT ![j].draft = row, ![j].pc = "drafted",
                  ![j].reserved[Network(p)] =
                     IF Reserves(j, p) THEN @ \cup {port} ELSE @]
  BY DEF Draft
<1>4. PICK row \in Drafts(j, p, port) :
        job' = [job EXCEPT ![j].draft = row, ![j].pc = "drafted",
                  ![j].reserved[Network(p)] =
                     IF Reserves(j, p) THEN @ \cup {port} ELSE @]
  BY <1>3
<1>5. port \in Ports /\ row \in Row
  BY <1>2, <1>3, SelectedPortsFacts, DraftsAreRows
<1> DEFINE taken == IF Reserves(j, p) THEN job[j].reserved[Network(p)] \cup {port}
                                      ELSE job[j].reserved[Network(p)]
<1>6. Network(p) \in {"tcp", "udp"} /\ job[j].reserved \in [{"tcp", "udp"} -> SUBSET Ports]
  BY <1>2 DEF Network, Setup
<1>7. job' = [job EXCEPT ![j] = [job[j] EXCEPT !.draft = row, !.pc = "drafted",
                                   !.reserved = [@ EXCEPT ![Network(p)] = taken]]]
  <2> HIDE DEF p
  <2> QED
    BY <1>4, <1>2, <1>6
<1>8. /\ job'[j].pc = "drafted" /\ job'[j].draft = row
      /\ SameTask(j) /\ job'[j].todo = job[j].todo
      /\ job'[j].hadError = job[j].hadError /\ job'[j].alone = job[j].alone
      /\ job'[j].unread = job[j].unread /\ job'[j].undoFailed = job[j].undoFailed
      /\ job'[j].reserved = [job[j].reserved EXCEPT ![Network(p)] = taken]
      /\ OthersStand(j)
  <2> HIDE DEF p, taken
  <2> QED
    BY <1>7, <1>2 DEF Setup, SameTask, OthersStand
<1>9. /\ \A l \in {"tcp", "udp"} : job[j].reserved[l] \subseteq job'[j].reserved[l]
      /\ Reserves(j, p) => port \in job'[j].reserved[Network(p)]
      /\ \A l \in {"tcp", "udp"} : \A q \in job'[j].reserved[l] :
           q \in job[j].reserved[l] \/ (l = Network(p) /\ q = port)
  <2> HIDE DEF p
  <2> QED
    BY <1>6, <1>8
<1> QED
  BY <1>1, <1>2, <1>3, <1>4, <1>5, <1>8, <1>9

LEMMA LoopDoneMoves ==
  ASSUME Inv, NEW j \in Jobs, LoopDone(j)
  PROVE  /\ job[j].pc = "loop" /\ job[j].todo = <<>>
         /\ job'[j].pc = IF job[j].hadError THEN "undo"
                         ELSE IF job[j].domain # job[j].was THEN "rename" ELSE "push"
         /\ SameTask(j) /\ job'[j].hadError = job[j].hadError
         /\ job'[j].alone = job[j].alone /\ job'[j].unread = job[j].unread
         /\ job'[j].undoFailed = job[j].undoFailed
         /\ job'[j].todo = job[j].todo /\ job'[j].reserved = job[j].reserved
         /\ OthersStand(j) /\ UNCHANGED <<store, running, up, left, settled>>
BY SetupOf DEF LoopDone, Setup, SameTask, OthersStand

LEMMA RenameMoves ==
  ASSUME Inv, NEW j \in Jobs, Rename(j) \/ RenameFails(j)
  PROVE  /\ job[j].pc = "rename"
         /\ \/ job'[j].pc = "push" /\ domain' = job[j].domain
            \/ job'[j].pc = "undo" /\ domain' \in {domain, job[j].domain}
         /\ SameTask(j) /\ job'[j].hadError = job[j].hadError
         /\ job'[j].alone = job[j].alone /\ job'[j].unread = job[j].unread
         /\ job'[j].undoFailed = job[j].undoFailed
         /\ job'[j].todo = job[j].todo /\ job'[j].reserved = job[j].reserved
         /\ OthersStand(j) /\ UNCHANGED <<rows, minted, running, up, left, settled>>
BY SetupOf DEF Rename, RenameFails, Setup, SameTask, OthersStand

\* A push that is not answered with success.
LEMMA RefusedPushMoves ==
  ASSUME Inv, NEW j \in Jobs, Push(j), ~(Pushed /\ job' = [job EXCEPT ![j] = Answered(j, "ok")])
  PROVE  /\ job[j].pc = "push" /\ job'[j].pc = "undo"
         /\ SameTask(j) /\ job'[j].hadError = job[j].hadError
         /\ job'[j].alone = job[j].alone /\ job'[j].unread = job[j].unread
         /\ job'[j].undoFailed = job[j].undoFailed
         /\ OthersStand(j) /\ UNCHANGED <<store, left, settled>>
BY SetupOf DEF Push, Setup, SameTask, OthersStand

LEMMA UndoMoves ==
  ASSUME Inv, NEW j \in Jobs, NEW i \in Ids, Uncreate(j, i) \/ Restore(j, i)
  PROVE  /\ job[j].pc = "undo" /\ job'[j].pc = "undo"
         /\ SameTask(j) /\ job'[j].hadError = job[j].hadError
         /\ job'[j].alone = job[j].alone /\ job'[j].unread = job[j].unread
         /\ job[j].undoFailed => job'[j].undoFailed
         /\ \A k \in Ids : k # i => rows'[k] = rows[k]
         /\ rows'[i] \in {rows[i], NoRow, job[j].snap[i]}
         /\ OthersStand(j) /\ UNCHANGED <<minted, domain, running, up, left, settled>>
<1>1. job[j] \in Setup /\ job \in [Jobs -> Setup] /\ rows \in [Ids -> Row \cup {NoRow}]
  BY SetupOf DEF Inv, TypeOK
<1>2. CASE Uncreate(j, i)
  <2>1. PICK fails \in StoreFails :
        /\ rows' = IF fails THEN rows ELSE [rows EXCEPT ![i] = NoRow]
        /\ job' = [job EXCEPT ![j].created = @ \ {i},
                              ![j].undoFailed = @ \/ fails \/ rows[i] = NoRow]
    BY <1>2 DEF Uncreate
  <2> DEFINE f == job[j].undoFailed \/ fails \/ rows[i] = NoRow
  <2>2. job' = [job EXCEPT ![j] = [job[j] EXCEPT !.created = job[j].created \ {i},
                                                 !.undoFailed = f]]
    BY <1>1, <2>1
  <2>3. job[j].undoFailed => f
    OBVIOUS
  <2> HIDE DEF f
  <2>4. /\ job'[j].pc = job[j].pc /\ SameTask(j) /\ job'[j].hadError = job[j].hadError
        /\ job'[j].alone = job[j].alone /\ job'[j].unread = job[j].unread
        /\ job'[j].undoFailed = f /\ OthersStand(j)
    BY <1>1, <2>2 DEF Setup, SameTask, OthersStand
  <2>5. rows'[i] \in {rows[i], NoRow} /\ \A k \in Ids : k # i => rows'[k] = rows[k]
    BY <1>1, <2>1
  <2> QED
    BY <1>2, <2>3, <2>4, <2>5 DEF Uncreate
<1>3. CASE Restore(j, i)
  <2>1. PICK fails \in StoreFails :
        /\ \/ rows' = IF rows[i] = NoRow THEN rows
                      ELSE [rows EXCEPT ![i] = job[j].snap[i]]
           \/ fails /\ rows' = rows
        /\ job' = [job EXCEPT ![j].updated = @ \ {i},
                              ![j].undoFailed = @ \/ fails \/ rows[i] = NoRow]
    BY <1>3 DEF Restore
  <2> DEFINE f == job[j].undoFailed \/ fails \/ rows[i] = NoRow
  <2>2. job' = [job EXCEPT ![j] = [job[j] EXCEPT !.updated = job[j].updated \ {i},
                                                 !.undoFailed = f]]
    BY <1>1, <2>1
  <2>3. job[j].undoFailed => f
    OBVIOUS
  <2> HIDE DEF f
  <2>4. /\ job'[j].pc = job[j].pc /\ SameTask(j) /\ job'[j].hadError = job[j].hadError
        /\ job'[j].alone = job[j].alone /\ job'[j].unread = job[j].unread
        /\ job'[j].undoFailed = f /\ OthersStand(j)
    BY <1>1, <2>2 DEF Setup, SameTask, OthersStand
  <2>5. rows'[i] \in {rows[i], job[j].snap[i]} /\ \A k \in Ids : k # i => rows'[k] = rows[k]
    BY <1>1, <2>1
  <2> QED
    BY <1>3, <2>3, <2>4, <2>5 DEF Restore
<1> QED
  BY <1>2, <1>3

\* Whatever ends the setup leaves nothing of what it knew but its history.
LEMMA AnswerMoves ==
  ASSUME Inv, NEW j \in Jobs, NEW answer \in Answers,
         job' = [job EXCEPT ![j] = Answered(j, answer)]
  PROVE  /\ job'[j].pc = answer /\ answer \notin Working /\ answer # "start"
         /\ job'[j].snap = [i \in Ids |-> NoRow]
         /\ job'[j].alone = job[j].alone /\ job'[j].unread = job[j].unread
         /\ OthersStand(j)
<1>1. TypeOK /\ answer # "start"
  BY DEF Inv, Answers, Undone
<1>2. job'[j] = Answered(j, answer) /\ OthersStand(j)
  BY SetupOf DEF OthersStand
<1>3. Answered(j, answer).snap = [i \in Ids |-> NoRow]
  BY DEF Answered, NoJob
<1> QED
  BY <1>1, <1>2, <1>3, AnsweredFacts

\* The end of a rollback: an answer, or the push of the rows put back.
LEMMA EndUndoMoves ==
  ASSUME Inv, NEW j \in Jobs, EndUndo(j)
  PROVE  \/ /\ ~job[j].undoFailed /\ job'[j].pc = "pushBack"
            /\ domain' = IF job[j].domain # job[j].was THEN job[j].was ELSE domain
            /\ SameTask(j) /\ job'[j].alone = job[j].alone
            /\ job'[j].unread = job[j].unread /\ job'[j].undoFailed = job[j].undoFailed
            /\ OthersStand(j)
         \/ \E answer \in Answers : /\ job[j].undoFailed => answer = "undoFailed"
                                    /\ job' = [job EXCEPT ![j] = Answered(j, answer)]
                                    /\ answer # "undoFailed" =>
                                         domain' = IF job[j].domain # job[j].was
                                                     THEN job[j].was ELSE domain
<1>1. job[j] \in Setup /\ job \in [Jobs -> Setup] /\ job[j].undo \in Answers
      /\ job[j].undo # "undoFailed"
  BY SetupOf, SetupFacts DEF Inv, Answers, Undone
<1> DEFINE back == IF job[j].domain # job[j].was THEN job[j].was ELSE domain
<1>5. PICK failed \in BOOLEAN :
        /\ job[j].undoFailed => failed
        /\ ~failed => domain' = back
        /\ job' = [job EXCEPT ![j] =
                     IF failed THEN Answered(j, "undoFailed")
                     ELSE IF job[j].undo = "rolledBack" THEN [job[j] EXCEPT !.pc = "pushBack"]
                     ELSE Answered(j, job[j].undo)]
  BY EndUndoFacts DEF Inv
<1> HIDE DEF back
<1>2. CASE failed
  <2>1. job' = [job EXCEPT ![j] = Answered(j, "undoFailed")] /\ "undoFailed" \in Answers
    BY <1>2, <1>5 DEF Answers
  <2> QED
    BY <2>1
<1>3. CASE ~failed /\ job[j].undo = "rolledBack"
  <2>1. job' = [job EXCEPT ![j] = [job[j] EXCEPT !.pc = "pushBack"]]
        /\ domain' = back /\ ~job[j].undoFailed
    BY <1>3, <1>5
  <2> QED
    BY <1>1, <1>3, <2>1 DEF Setup, SameTask, OthersStand, back
<1>4. CASE ~failed /\ job[j].undo # "rolledBack"
  <2>1. job' = [job EXCEPT ![j] = Answered(j, job[j].undo)]
        /\ domain' = back /\ ~job[j].undoFailed
    BY <1>4, <1>5
  <2> QED
    BY <1>1, <1>4, <2>1 DEF back
<1> QED
  BY <1>2, <1>3, <1>4

\* A setup beside a start or a push of another request.
LEMMA MetMoves ==
  ASSUME Inv, NEW k \in Jobs
  PROVE  /\ Met(k).pc = job[k].pc /\ Met(k).snap = job[k].snap /\ Met(k).todo = job[k].todo
         /\ Met(k).draft = job[k].draft /\ Met(k).was = job[k].was
         /\ Met(k).domain = job[k].domain /\ Met(k).req = job[k].req
         /\ Met(k).hadError = job[k].hadError /\ Met(k).reserved = job[k].reserved
         /\ Met(k).unread = job[k].unread /\ Met(k).undoFailed = job[k].undoFailed
         /\ Met(k).alone <=> job[k].alone /\ ~Active(k)
<1>1. job[k] \in Setup /\ job[k].alone \in BOOLEAN
  BY SetupFacts DEF Inv
<1> QED
  BY <1>1 DEF Met, Setup

\* A request that arrives.
LEMMA StartMoves ==
  ASSUME Inv, NEW j \in Jobs, NEW req \in Requests, Start(j, req)
  PROVE  LET d == IF req.domain = None THEN domain ELSE req.domain IN
         /\ job[j].pc = "start" /\ ~Active(j)
         /\ UNCHANGED <<store, running, up, left, settled>>
         /\ \A k \in Jobs : k # j => job'[k] = Met(k)
         /\ job'[j].snap = [i \in Ids |-> NoRow] /\ job'[j].unread = {}
         /\ \/ job'[j].pc = "rejected" /\ job'[j].alone = job[j].alone
            \/ /\ Acceptable(req, d)
               /\ job'[j].pc = "list" /\ job'[j].req = req /\ job'[j].was = domain
               /\ job'[j].domain = d /\ job'[j].todo = ProtocolsFor(req, d)
               /\ job'[j].alone <=> \A k \in Jobs : ~Active(k)
               /\ ~job'[j].undoFailed /\ ~job'[j].hadError
               /\ job'[j].reserved = NoReserved
<1> DEFINE d == IF req.domain = None THEN domain ELSE req.domain
           alone == \A k \in Jobs : ~Active(k)
           t == [NoJob EXCEPT !.req = req, !.was = domain, !.domain = d,
                   !.todo = ProtocolsFor(req, d), !.alone = alone, !.pc = "list"]
<1>1. /\ job[j].pc = "start" /\ UNCHANGED <<store, running, up, left, settled>>
      /\ job' = [k \in Jobs |-> IF k = j THEN IF Acceptable(req, d) THEN t
                                              ELSE Answered(j, "rejected")
                                ELSE Met(k)]
  BY DEF Start, Met
<1>2. job[j].unread = {} /\ ~Active(j) /\ TypeOK
  BY <1>1 DEF Inv, BookKept, Active, Working
<1>3. \A k \in Jobs : k # j => job'[k] = Met(k)
  BY <1>1
<1>4. CASE Acceptable(req, d)
  <2>1. job'[j] = t
    BY <1>1, <1>4
  <2> HIDE DEF d, alone
  <2>2. /\ t.pc = "list" /\ t.req = req /\ t.was = domain /\ t.domain = d
        /\ t.todo = ProtocolsFor(req, d) /\ t.alone = alone /\ t.unread = {}
        /\ t.snap = [i \in Ids |-> NoRow] /\ t.undoFailed = FALSE /\ t.hadError = FALSE
        /\ t.reserved = NoReserved
    BY DEF NoJob
  <2> QED
    BY <1>1, <1>2, <1>3, <1>4, <2>1, <2>2 DEF d, alone
<1>5. CASE ~Acceptable(req, d)
  <2>1. job'[j] = Answered(j, "rejected") /\ "rejected" \in Answers
    BY <1>1, <1>5 DEF Answers
  <2>2. Answered(j, "rejected").snap = [i \in Ids |-> NoRow]
    BY DEF Answered, NoJob
  <2>3. /\ Answered(j, "rejected").pc = "rejected"
        /\ Answered(j, "rejected").alone = job[j].alone
        /\ Answered(j, "rejected").unread = job[j].unread
    BY <1>2, <2>1, AnsweredFacts
  <2>4. /\ job'[j].snap = [i \in Ids |-> NoRow] /\ job'[j].unread = {}
        /\ job'[j].pc = "rejected" /\ job'[j].alone = job[j].alone
    BY <1>2, <2>1, <2>2, <2>3
  <2> QED
    BY <1>1, <1>2, <1>3, <2>4
<1> QED
  BY <1>4, <1>5

-----------------------------------------------------------------------------
(***************************************************************************)
(* Credentials.  A row is known in several places: the table, the node's   *)
(* configuration, the snapshots setups work from.  All of them show the    *)
(* same inbound with the same credential, and what a setup has drafted     *)
(* continues the row of its own snapshot, if it has one.                   *)
(***************************************************************************)
Forms(i) == {rows[i], running[i]} \cup {job[j].snap[i] : j \in Jobs}

HasCredential(r) == r # NoRow /\ r.proto # "hysteria2" => r.secret # None

SameInbound(a, b) ==
  a # NoRow /\ b # NoRow =>
    a.proto = b.proto /\ (a.proto # "hysteria2" => a.secret = b.secret)

Fits(i, r) == HasCredential(r) /\ \A a \in Forms(i) : SameInbound(a, r)

DraftFits(j) ==
  job[j].pc = "drafted" =>
    LET p == Proto(j) IN
    /\ job[j].draft \in Row /\ job[j].draft.proto = p /\ HasCredential(job[j].draft)
    /\ Old(j, p).secret # None => job[j].draft.secret = Old(j, p).secret
    /\ p \in DomainBound => job[j].draft.domain = job[j].domain

CredentialInv ==
  /\ Inv
  /\ \A i \in Ids : i > minted => running[i] = NoRow
  /\ \A i \in Ids : \A r \in Forms(i) : Fits(i, r)
  /\ \A j \in Jobs : DraftFits(j)

\* The handler that adds an inbound asks for the keys of a Reality one
\* (handler/node.go), and setup generates a path for an HTTPUpgrade one.
CredentialsIssued == \A t \in Tables : \A i \in Ids : HasCredential(t[i])

LEMMA OldStays ==
  ASSUME NEW k, job'[k].snap = job[k].snap
  PROVE  /\ \A p : Old(k, p)' = Old(k, p) /\ Existing(k, p)' = Existing(k, p)
         /\ \A p : Exists(k, p)' <=> Exists(k, p)
<1>1. \A p : ExistingIds(k, p)' = ExistingIds(k, p)
  BY DEF ExistingIds
<1>2. \A p : Existing(k, p)' = Existing(k, p)
  BY <1>1 DEF Existing
<1>3. \A p : Exists(k, p)' <=> Exists(k, p)
  BY <1>1 DEF Exists
<1>4. \A p : Old(k, p)' = Old(k, p)
  BY <1>2, <1>3 DEF Old
<1> QED
  BY <1>2, <1>3, <1>4

\* A draft is for its protocol and domain, and keeps or issues a credential.
LEMMA DraftContent ==
  ASSUME TypeOK, NEW j \in Jobs, NEW p \in Protocols, NEW port \in Ports,
         NEW row \in Drafts(j, p, port)
  PROVE  /\ row.proto = p /\ row.port = port /\ HasCredential(row)
         /\ Old(j, p).secret # None => row.secret = Old(j, p).secret
         /\ p \in DomainBound => row.domain = job[j].domain
<1> DEFINE old == Old(j, p)
           profile == IF job[j].req.profile # None THEN job[j].req.profile
                      ELSE IF old.profile # None THEN old.profile ELSE "quic"
           base == [old EXCEPT !.port = port, !.domain = job[j].domain]
<1>1. old \in Template(p)
  BY OldFacts
<1>2. /\ base.proto = p /\ base.port = port /\ base.secret = old.secret
      /\ base.domain = job[j].domain
      /\ base \in [proto : {p}, port : {port}, domain : {job[j].domain},
                   sni : SNIs \cup {None}, profile : {"quic", "salamander", None},
                   secret : {old.secret}]
  BY <1>1 DEF Template
<1>3. /\ KeptOrNew(j, p) # None
      /\ old.secret # None => KeptOrNew(j, p) = old.secret
  <2>1. <<j, p>> # None
    BY InputsAssumption DEF InputsAssumption, Secrets
  <2> QED
    BY <2>1 DEF KeptOrNew
<1>4. CASE p = "hysteria2"
  <2>1. row = [base EXCEPT !.profile = profile,
                 !.secret = IF profile = "salamander" THEN KeptOrNew(j, p) ELSE @]
    BY <1>4 DEF Drafts
  <2> HIDE DEF base, profile, old
  <2> QED
    BY <1>2, <1>3, <1>4, <2>1 DEF HasCredential, old
<1>5. CASE p = "vless-reality"
  <2>1. PICK s : row = [base EXCEPT !.sni = s, !.secret = KeptOrNew(j, p),
                          !.domain = IF job[j].domain \in Direct THEN @ ELSE None]
    BY <1>5 DEF Drafts
  <2> HIDE DEF base, old
  <2> QED
    BY <1>2, <1>3, <1>5, <2>1 DEF HasCredential, DomainBound, old
<1>6. CASE p = "vless-httpupgrade"
  <2>1. row = [base EXCEPT !.secret = KeptOrNew(j, p)]
    BY <1>6 DEF Drafts
  <2> HIDE DEF base, old
  <2> QED
    BY <1>2, <1>3, <1>6, <2>1 DEF HasCredential, old
<1> QED
  BY <1>4, <1>5, <1>6 DEF Protocols

LEMMA DraftFitsOn ==
  ASSUME NEW k \in Jobs, DraftFits(k),
         job'[k].pc = "drafted" =>
           /\ job[k].pc = "drafted" /\ job'[k].snap = job[k].snap
           /\ job'[k].todo = job[k].todo /\ job'[k].draft = job[k].draft
           /\ job'[k].domain = job[k].domain
  PROVE  DraftFits(k)'
<1> SUFFICES ASSUME job'[k].pc = "drafted" PROVE DraftFits(k)'
  BY DEF DraftFits
<1>1. Proto(k)' = Proto(k) /\ Old(k, Proto(k))' = Old(k, Proto(k))
  <2>1. \A p : Old(k, p)' = Old(k, p)
    BY OldStays
  <2>2. Proto(k)' = Proto(k)
    BY DEF Proto
  <2> QED
    BY <2>1, <2>2
<1> QED
  BY <1>1 DEF DraftFits, HasCredential

\* A step whose rows fit what is known of them.
LEMMA RowsFit ==
  ASSUME CredentialInv, Inv', running' \in {running, rows}, minted' \in minted..MaxId,
         \A i \in Ids : Fits(i, rows'[i]),
         \A k \in Jobs : \A i \in Ids : job'[k].snap[i] \in Forms(i) \cup {NoRow},
         \A k \in Jobs : DraftFits(k)'
  PROVE  CredentialInv'
<1>1. ASSUME NEW i \in Ids, i > minted' PROVE running'[i] = NoRow
  <2>1. i > minted
    BY <1>1, ConstantsAssumption DEF CredentialInv, Inv, TypeOK, ConstantsAssumption, Ids
  <2> QED
    BY <2>1 DEF CredentialInv, Inv, Unused
<1>2. ASSUME NEW i \in Ids, NEW r \in Forms(i)' PROVE Fits(i, r)'
  <2>1. \A a \in Forms(i)' : a \in Forms(i) \/ a = NoRow \/ a = rows'[i]
    BY DEF Forms
  <2>2. \A a \in Forms(i)' : Fits(i, a)
    BY <2>1 DEF CredentialInv, Fits, HasCredential, SameInbound
  <2>3. ASSUME NEW a \in Forms(i)' PROVE SameInbound(a, r)
    BY <1>2, <2>1, <2>2 DEF Fits, SameInbound
  <2> QED
    BY <1>2, <2>2, <2>3 DEF Fits, HasCredential, SameInbound
<1> QED
  BY <1>1, <1>2 DEF CredentialInv

\* Steps of a setup that is not just arriving: the others stand by, and what
\* excuses it from promises is not forgotten.
LEMMA ActorMoves ==
  ASSUME Inv, NEW j \in Jobs, Step(j), \A req \in Requests : ~Start(j, req)
  PROVE  /\ OthersStand(j)
         /\ job'[j].pc = "drafted" => Draft(j)
         /\ job'[j].pc # "start"
         /\ job'[j].snap \in {job[j].snap, rows, [i \in Ids |-> NoRow]}
         /\ job'[j].alone = job[j].alone
         /\ job[j].unread \subseteq job'[j].unread
         /\ job[j].undoFailed => job'[j].undoFailed \/ job'[j].pc = "undoFailed"
         /\ running' \in {running, rows}
<1>1. BookKept(job[j]) /\ TypeOK
  BY DEF Inv
<1>2. ASSUME NEW answer \in Answers, job' = [job EXCEPT ![j] = Answered(j, answer)]
      PROVE  /\ OthersStand(j) /\ job'[j].pc = answer /\ job'[j].pc # "drafted"
             /\ job'[j].pc # "start" /\ job'[j].snap = [i \in Ids |-> NoRow]
             /\ job'[j].alone = job[j].alone /\ job'[j].unread = job[j].unread
  BY <1>2, AnswerMoves DEF Working
<1>3. CASE List(j) /\ MigrationComplete(j)
  <2>1. /\ job'[j].pc = "loop" /\ job'[j].snap = rows /\ OthersStand(j)
        /\ job'[j].alone = job[j].alone /\ job'[j].unread = job[j].unread
        /\ job'[j].undoFailed = job[j].undoFailed
    BY <1>3, ListMoves
  <2>2. running' = running
    BY <1>3 DEF List
  <2> QED
    BY <2>1, <2>2
<1>4. CASE (List(j) /\ ~MigrationComplete(j)) \/ Unreachable(j)
  <2>1. ~job[j].undoFailed /\ running' = running
    BY <1>1, <1>4 DEF BookKept, List, Unreachable
  <2>2. job' = [job EXCEPT ![j] = Answered(j, "rejected")] /\ "rejected" \in Answers
    BY <1>4 DEF List, Unreachable, Answers
  <2> QED
    BY <1>2, <2>1, <2>2
<1>5. CASE \/ SkipConfigured(j) \/ ProtocolFails(j) \/ SkipUnchanged(j)
           \/ UpdateRow(j) \/ CreateRow(j) \/ CreateUnread(j)
  BY <1>5, LoopMoves DEF SameTask
<1>6. CASE Draft(j)
  BY <1>6, DraftMoves DEF SameTask
<1>7. CASE LoopDone(j)
  BY <1>7, LoopDoneMoves DEF SameTask
<1>8. CASE Rename(j) \/ RenameFails(j)
  BY <1>8, RenameMoves DEF SameTask
<1>9. CASE Push(j)
  <2>1. running' \in {running, rows}
    BY <1>1, <1>9, PushFacts DEF Push
  <2>2. CASE job' = [job EXCEPT ![j] = Answered(j, "ok")]
    <3>1. ~job[j].undoFailed /\ "ok" \in Answers
      BY <1>1, <1>9 DEF BookKept, Push, Answers
    <3> QED
      BY <1>2, <2>1, <2>2, <3>1
  <2>3. CASE job' # [job EXCEPT ![j] = Answered(j, "ok")]
    BY <1>9, <2>1, <2>3, RefusedPushMoves DEF SameTask
  <2> QED
    BY <2>2, <2>3
<1>10. ASSUME NEW i \in Ids, Uncreate(j, i) \/ Restore(j, i)
       PROVE  /\ OthersStand(j) /\ job'[j].pc = "undo" /\ job'[j].snap = job[j].snap
              /\ job'[j].alone = job[j].alone /\ job'[j].unread = job[j].unread
              /\ job[j].undoFailed => job'[j].undoFailed
              /\ running' = running
  BY <1>10, UndoMoves DEF SameTask
<1>11. CASE EndUndo(j)
  <2>1. running' = running
    BY <1>11 DEF EndUndo
  <2>2. CASE \E answer \in Answers : /\ job[j].undoFailed => answer = "undoFailed"
                                     /\ job' = [job EXCEPT ![j] = Answered(j, answer)]
    BY <1>2, <2>1, <2>2
  <2>3. CASE ~\E answer \in Answers : /\ job[j].undoFailed => answer = "undoFailed"
                                      /\ job' = [job EXCEPT ![j] = Answered(j, answer)]
    BY <1>11, <2>1, <2>3, EndUndoMoves DEF SameTask
  <2> QED
    BY <2>2, <2>3
<1>12. CASE PushBack(j)
  <2>1. running' \in {running, rows} /\ ~job[j].undoFailed
    BY <1>1, <1>12, PushFacts DEF PushBack, BookKept
  <2>2. \E answer \in Answers : job' = [job EXCEPT ![j] = Answered(j, answer)]
    BY <1>12 DEF PushBack, Answers, Undone
  <2> QED
    BY <1>2, <2>1, <2>2
<1> QED
  BY <1>3, <1>4, <1>5, <1>6, <1>7, <1>8, <1>9, <1>10, <1>11, <1>12 DEF Step

\* Drafts fit, whatever happens.
LEMMA DraftsNext ==
  ASSUME Inv, [Next]_vars, \A k \in Jobs : DraftFits(k)
  PROVE  \A k \in Jobs : DraftFits(k)'
<1>1. TypeOK
  BY DEF Inv
<1>2. ASSUME NEW k \in Jobs, job'[k] = Met(k) PROVE DraftFits(k)'
  <2>1. /\ job'[k].pc = job[k].pc /\ job'[k].snap = job[k].snap
        /\ job'[k].todo = job[k].todo /\ job'[k].draft = job[k].draft
        /\ job'[k].domain = job[k].domain
    BY <1>2, MetMoves
  <2> QED
    BY <2>1, DraftFitsOn
<1>3. ASSUME NEW j \in Jobs, OthersStand(j), NEW k \in Jobs, k # j PROVE DraftFits(k)'
  BY <1>3, DraftFitsOn DEF OthersStand
<1>4. CASE OtherPush
  BY <1>2, <1>4 DEF OtherPush, Met
<1>5. CASE Stop \/ UNCHANGED vars
  BY <1>5, DraftFitsOn DEF Stop, vars
<1>6. ASSUME NEW j \in Jobs, NEW req \in Requests, Start(j, req)
      PROVE  \A k \in Jobs : DraftFits(k)'
  <2>1. job'[j].pc # "drafted" /\ \A k \in Jobs : k # j => job'[k] = Met(k)
    BY <1>6, StartMoves
  <2> QED
    BY <1>2, <2>1 DEF DraftFits
<1>7. ASSUME NEW j \in Jobs, Draft(j) PROVE \A k \in Jobs : DraftFits(k)'
  <2>1. PICK port \in SelectedPorts(j, Proto(j)) : \E row \in Drafts(j, Proto(j), port) :
             /\ Proto(j) \in Protocols /\ port \in Ports /\ row \in Row
             /\ job'[j].pc = "drafted" /\ job'[j].draft = row
             /\ SameTask(j) /\ job'[j].todo = job[j].todo /\ OthersStand(j)
    BY <1>7, DraftMoves
  <2>2. PICK row \in Drafts(j, Proto(j), port) :
             /\ Proto(j) \in Protocols /\ port \in Ports /\ row \in Row
             /\ job'[j].pc = "drafted" /\ job'[j].draft = row
             /\ SameTask(j) /\ job'[j].todo = job[j].todo /\ OthersStand(j)
    BY <2>1
  <2>3. Proto(j)' = Proto(j) /\ Old(j, Proto(j))' = Old(j, Proto(j))
    <3>1. Proto(j)' = Proto(j) /\ \A p : Old(j, p)' = Old(j, p)
      BY <2>2, OldStays DEF Proto, SameTask
    <3> QED
      BY <3>1
  <2>4. /\ row.proto = Proto(j) /\ HasCredential(row)
        /\ Old(j, Proto(j)).secret # None => row.secret = Old(j, Proto(j)).secret
        /\ Proto(j) \in DomainBound => row.domain = job[j].domain
    BY <1>1, <2>2, DraftContent
  <2>5. DraftFits(j)'
    BY <2>2, <2>3, <2>4 DEF DraftFits, HasCredential, SameTask
  <2> QED
    BY <1>3, <2>2, <2>5
<1>8. ASSUME NEW j \in Jobs, Step(j), ~Draft(j), \A req \in Requests : ~Start(j, req)
      PROVE  \A k \in Jobs : DraftFits(k)'
  <2>1. OthersStand(j) /\ job'[j].pc # "drafted"
    BY <1>8, ActorMoves
  <2> QED
    BY <1>3, <2>1 DEF DraftFits
<1> QED
  BY <1>4, <1>5, <1>6, <1>7, <1>8 DEF Next

\* A step that puts no row and no snapshot where it was not known.
LEMMA RowsKnown ==
  ASSUME CredentialInv, Inv', running' \in {running, rows}, minted' = minted,
         \A i \in Ids : rows'[i] \in Forms(i) \cup {NoRow},
         \A k \in Jobs : \A i \in Ids : job'[k].snap[i] \in Forms(i) \cup {NoRow},
         \A k \in Jobs : DraftFits(k)'
  PROVE  CredentialInv'
<1>1. \A i \in Ids : Fits(i, rows'[i])
  BY DEF CredentialInv, Fits, HasCredential, SameInbound
<1>2. minted' \in minted..MaxId
  BY ConstantsAssumption DEF ConstantsAssumption, CredentialInv, Inv, TypeOK
<1> QED
  BY <1>1, <1>2, RowsFit

\* The row a setup updates is the one its draft continues.
LEMMA UpdateContinues ==
  ASSUME CredentialInv, NEW j \in Jobs, job[j].pc = "drafted", Exists(j, Proto(j))
  PROVE  LET i == Existing(j, Proto(j)) IN
         /\ i \in Ids /\ job[j].snap[i] # NoRow /\ Old(j, Proto(j)) = job[j].snap[i]
         /\ Fits(i, job[j].draft)
<1> DEFINE i == Existing(j, Proto(j))
<1>1. TypeOK
  BY DEF CredentialInv, Inv
<1>2. /\ i \in Ids /\ job[j].snap[i] # NoRow /\ job[j].snap[i].proto = Proto(j)
      /\ Old(j, Proto(j)) = job[j].snap[i]
  BY <1>1, ExistingFacts DEF Old
<1>3. /\ job[j].draft.proto = Proto(j) /\ HasCredential(job[j].draft)
      /\ Old(j, Proto(j)).secret # None => job[j].draft.secret = Old(j, Proto(j)).secret
  BY DEF CredentialInv, DraftFits
<1>4. job[j].snap[i] \in Forms(i) /\ Fits(i, job[j].snap[i])
  BY <1>2 DEF Forms, CredentialInv
<1>5. \A a \in Forms(i) : SameInbound(a, job[j].draft)
  BY <1>2, <1>3, <1>4 DEF Fits, SameInbound, HasCredential
<1> QED
  BY <1>2, <1>3, <1>5 DEF Fits

LEMMA CredentialWrites ==
  ASSUME CredentialInv, Inv', NEW j \in Jobs, UpdateRow(j) \/ CreateRow(j) \/ CreateUnread(j),
         \A k \in Jobs : DraftFits(k)'
  PROVE  CredentialInv'
<1>1. Inv /\ TypeOK /\ rows \in [Ids -> Row \cup {NoRow}] /\ minted \in 0..MaxId /\ MaxId \in Nat
  BY ConstantsAssumption DEF CredentialInv, Inv, TypeOK, ConstantsAssumption
<1>2. SameTask(j) /\ OthersStand(j) /\ running' = running
  BY <1>1, LoopMoves
<1>3. job[j].pc = "drafted"
  BY DEF UpdateRow, CreateRow, CreateUnread, Ready
<1>4. \A k \in Jobs : \A i \in Ids : job'[k].snap[i] \in Forms(i) \cup {NoRow}
  BY <1>2 DEF OthersStand, SameTask, Forms
<1>5. \A i \in Ids : Fits(i, rows[i])
  BY DEF CredentialInv, Forms
<1>6. CASE UpdateRow(j)
  <2> DEFINE e == Existing(j, Proto(j))
  <2>1. /\ Exists(j, Proto(j)) /\ minted' = minted
        /\ rows' = rows \/ rows' = [rows EXCEPT ![e] = job[j].draft]
    BY <1>1, <1>6, UpdateRowFacts
  <2>2. e \in Ids /\ Fits(e, job[j].draft)
    BY <1>3, <2>1, UpdateContinues
  <2> HIDE DEF e
  <2>3. \A i \in Ids : Fits(i, rows'[i])
    BY <1>1, <1>5, <2>1, <2>2
  <2>4. minted' \in minted..MaxId
    BY <1>1, <2>1
  <2> QED
    BY <1>2, <1>4, <2>3, <2>4, RowsFit
<1>7. CASE CreateRow(j) \/ CreateUnread(j)
  <2> DEFINE e == minted + 1
  <2>1. minted' = e /\ minted < MaxId /\ rows' = [rows EXCEPT ![e] = job[j].draft]
    BY <1>7 DEF CreateRow, CreateUnread
  <2>2. e \in Ids /\ e > minted /\ minted' \in minted..MaxId
    BY <1>1, <2>1 DEF Ids
  <2> HIDE DEF e
  <2>3. \A a \in Forms(e) : a = NoRow
    BY <2>2 DEF CredentialInv, Inv, Unused, Forms
  <2>4. HasCredential(job[j].draft)
    BY <1>3 DEF CredentialInv, DraftFits
  <2>5. Fits(e, job[j].draft)
    BY <2>3, <2>4 DEF Fits, SameInbound
  <2>6. \A i \in Ids : Fits(i, rows'[i])
    BY <1>1, <1>5, <2>1, <2>2, <2>5
  <2> QED
    BY <1>2, <1>4, <2>2, <2>6, RowsFit
<1> QED
  BY <1>6, <1>7

\* Only setups that write a row, or take one back, change the table.
LEMMA SetupsWrite ==
  ASSUME [Next]_vars, rows' # rows
  PROVE  \E j \in Jobs : \/ UpdateRow(j) \/ CreateRow(j) \/ CreateUnread(j)
                         \/ \E k \in Ids : Uncreate(j, k) \/ Restore(j, k)
<1>1. ~OtherPush /\ ~Stop /\ ~UNCHANGED vars
  BY DEF OtherPush, Stop, vars, store
<1>2. \A j \in Jobs : ~(\E req \in Requests : Start(j, req)) /\ ~List(j) /\ ~Unreachable(j)
  BY DEF Start, List, Unreachable, store
<1>3. \A j \in Jobs : ~SkipConfigured(j) /\ ~Draft(j) /\ ~ProtocolFails(j) /\ ~SkipUnchanged(j)
  BY DEF SkipConfigured, Draft, ProtocolFails, SkipUnchanged, store
<1>4. \A j \in Jobs : ~LoopDone(j) /\ ~Rename(j) /\ ~RenameFails(j) /\ ~Push(j)
  BY DEF LoopDone, Rename, RenameFails, Push, store
<1>5. \A j \in Jobs : ~EndUndo(j) /\ ~PushBack(j)
  BY DEF EndUndo, PushBack, store
<1> QED
  BY <1>1, <1>2, <1>3, <1>4, <1>5 DEF Next, Step

LEMMA CredentialNext == CredentialInv /\ [Next]_vars => CredentialInv'
<1> SUFFICES ASSUME CredentialInv, [Next]_vars PROVE CredentialInv'
  OBVIOUS
<1>1. Inv /\ TypeOK /\ Inv' /\ \A k \in Jobs : DraftFits(k)'
  BY NextInv, DraftsNext DEF CredentialInv, Inv
<1>2. CASE OtherPush
  <2>1. UNCHANGED <<rows, minted>> /\ running' \in {running, rows}
        /\ \A k \in Jobs : job'[k] = Met(k)
    BY <1>1, <1>2, PushFacts DEF OtherPush, store, Met
  <2>2. /\ \A k \in Jobs : \A i \in Ids : job'[k].snap[i] \in Forms(i) \cup {NoRow}
        /\ \A i \in Ids : rows'[i] \in Forms(i) \cup {NoRow}
    BY <1>1, <2>1, MetMoves DEF Forms
  <2> QED
    BY <1>1, <2>1, <2>2, RowsKnown
<1>3. CASE Stop \/ UNCHANGED vars
  <2>1. UNCHANGED <<rows, minted, running, job>>
    BY <1>3 DEF Stop, vars, store
  <2>2. /\ \A k \in Jobs : \A i \in Ids : job'[k].snap[i] \in Forms(i) \cup {NoRow}
        /\ \A i \in Ids : rows'[i] \in Forms(i) \cup {NoRow}
    BY <2>1 DEF Forms
  <2> QED
    BY <1>1, <2>1, <2>2, RowsKnown
<1>4. ASSUME NEW j \in Jobs, NEW req \in Requests, Start(j, req) PROVE CredentialInv'
  <2>1. /\ UNCHANGED <<rows, minted, running>> /\ job'[j].snap = [i \in Ids |-> NoRow]
        /\ \A k \in Jobs : k # j => job'[k] = Met(k)
    BY <1>1, <1>4, StartMoves DEF store
  <2>2. /\ \A k \in Jobs : \A i \in Ids : job'[k].snap[i] \in Forms(i) \cup {NoRow}
        /\ \A i \in Ids : rows'[i] \in Forms(i) \cup {NoRow}
    BY <1>1, <2>1, MetMoves DEF Forms
  <2> QED
    BY <1>1, <2>1, <2>2, RowsKnown
<1>5. ASSUME NEW j \in Jobs, UpdateRow(j) \/ CreateRow(j) \/ CreateUnread(j)
      PROVE  CredentialInv'
  BY <1>1, <1>5, CredentialWrites
<1>6. ASSUME NEW j \in Jobs, Step(j), \A req \in Requests : ~Start(j, req),
             ~(UpdateRow(j) \/ CreateRow(j) \/ CreateUnread(j))
      PROVE  CredentialInv'
  <2>1. /\ OthersStand(j) /\ running' \in {running, rows}
        /\ job'[j].snap \in {job[j].snap, rows, [i \in Ids |-> NoRow]}
    BY <1>1, <1>6, ActorMoves
  <2>2. minted' = minted /\ \A i \in Ids : rows'[i] \in {rows[i], NoRow, job[j].snap[i]}
    <3>1. ASSUME NEW k \in Ids, Uncreate(j, k) \/ Restore(j, k)
          PROVE  minted' = minted /\ \A i \in Ids : rows'[i] \in {rows[i], NoRow, job[j].snap[i]}
      BY <1>1, <3>1, UndoMoves
    <3>2. CASE ~\E k \in Ids : Uncreate(j, k) \/ Restore(j, k)
      BY <1>6, <3>2 DEF Step, store, List, Unreachable, SkipConfigured, Draft, ProtocolFails,
         SkipUnchanged, LoopDone, Rename, RenameFails, Push, EndUndo, PushBack
    <3> QED
      BY <3>1, <3>2
  <2>3. /\ \A k \in Jobs : \A i \in Ids : job'[k].snap[i] \in Forms(i) \cup {NoRow}
        /\ \A i \in Ids : rows'[i] \in Forms(i) \cup {NoRow}
    BY <2>1, <2>2 DEF Forms, OthersStand
  <2> QED
    BY <1>1, <2>1, <2>2, <2>3, RowsKnown
<1> QED
  BY <1>2, <1>3, <1>4, <1>5, <1>6 DEF Next

LEMMA CredentialInit ==
  ASSUME Init, CredentialsIssued
  PROVE  CredentialInv
<1>1. Inv
  BY InitInv
<1>2. \A j \in Jobs : job[j].pc = "start" /\ \A i \in Ids : job[j].snap[i] = NoRow
  BY DEF Init, NoJob
<1>3. \A i \in Ids : \A r \in Forms(i) : r \in {rows[i], NoRow}
  BY <1>2 DEF Forms, Init
<1>4. \A i \in Ids : HasCredential(rows[i])
  BY DEF Init, CredentialsIssued
<1>5. \A i \in Ids : \A r \in Forms(i) : Fits(i, r)
  BY <1>3, <1>4 DEF Fits, HasCredential, SameInbound
<1> QED
  BY <1>1, <1>2, <1>5 DEF CredentialInv, DraftFits, Init, Inv, Unused

\* "Reality credentials remain stable unless the inbound is explicitly deleted":
\* whatever setups, rollbacks and pushes overlap, no step replaces the credential
\* of an inbound the node serves, if the inbounds it started from had theirs;
\* the password of a Hysteria2 inbound is kept by setups nothing met.
THEOREM CredentialsStay ==
  ASSUME CredentialsIssued
  PROVE  Spec => CredentialsAreStable
<1> DEFINE P == \A i \in Ids \ left :
       /\ running[i] # NoRow /\ rows'[i] # NoRow
       /\ rows'[i] # rows[i] /\ running[i].secret # None
       /\ running[i].proto = "hysteria2" =>
            AllAlone /\ \A j \in Jobs : job[j].pc # "undo"
       => rows'[i].secret = running[i].secret
<1>1. ASSUME CredentialInv, [Next]_vars, NEW i \in Ids \ left,
             running[i] # NoRow, rows'[i] # NoRow, rows'[i] # rows[i],
             running[i].secret # None,
             running[i].proto = "hysteria2" =>
               AllAlone /\ \A j \in Jobs : job[j].pc # "undo"
      PROVE  rows'[i].secret = running[i].secret
  <2>1. CredentialInv' /\ Inv /\ TypeOK
    BY <1>1, CredentialNext DEF CredentialInv, Inv
  <2>2. CASE running[i].proto # "hysteria2"
    <3>1. PICK j \in Jobs : \/ UpdateRow(j) \/ CreateRow(j) \/ CreateUnread(j)
                            \/ \E k \in Ids : Uncreate(j, k) \/ Restore(j, k)
      BY <1>1, SetupsWrite
    <3>2. running' = running
      BY <2>1, <3>1, LoopMoves, UndoMoves
    <3>3. rows'[i] \in Forms(i)' /\ running'[i] \in Forms(i)'
      BY DEF Forms
    <3>4. \A a, r \in Forms(i)' : SameInbound(a, r)
      BY <2>1 DEF CredentialInv, Fits, SameInbound
    <3>5. SameInbound(running'[i], rows'[i])
      BY <3>3, <3>4
    <3> QED
      BY <1>1, <2>2, <3>2, <3>5 DEF SameInbound
  <2>3. CASE running[i].proto = "hysteria2"
    <3>1. PICK j \in Jobs : UpdateRow(j) \/ CreateRow(j) \/ CreateUnread(j)
      <4>1. \A j \in Jobs, k \in Ids : ~Uncreate(j, k) /\ ~Restore(j, k)
        BY <1>1, <2>3 DEF Uncreate, Restore
      <4> QED
        BY <1>1, <4>1, SetupsWrite
    <3>2. job[j].pc = "drafted" /\ job[j].alone
      BY <1>1, <2>3, <3>1 DEF UpdateRow, CreateRow, CreateUnread, Ready, AllAlone
    <3>3. running[i] = job[j].snap[i]
      <4>1. Undisturbed(j) /\ BookKept(job[j]) /\ Active(j)
        BY <2>1, <3>2 DEF Inv, Active, Working
      <4> QED
        BY <1>1, <3>2, <4>1 DEF Undisturbed, Faithful, BookKept
    <3>4. CASE UpdateRow(j)
      <4> DEFINE e == Existing(j, Proto(j))
      <4>1. /\ Exists(j, Proto(j))
            /\ rows' = rows \/ rows' = [rows EXCEPT ![e] = job[j].draft]
        BY <2>1, <3>4, UpdateRowFacts
      <4>2. rows \in [Ids -> Row \cup {NoRow}]
        BY <2>1 DEF TypeOK
      <4>3. i = e /\ rows'[i] = job[j].draft
        BY <1>1, <4>1, <4>2
      <4>4. Old(j, Proto(j)) = job[j].snap[e]
        BY <1>1, <3>2, <4>1, UpdateContinues
      <4>5. DraftFits(j)
        BY <1>1 DEF CredentialInv
      <4> QED
        BY <1>1, <3>2, <3>3, <4>3, <4>4, <4>5 DEF DraftFits
    <3>5. CASE CreateRow(j) \/ CreateUnread(j)
      <4>1. rows' = [rows EXCEPT ![minted + 1] = job[j].draft]
        BY <3>5 DEF CreateRow, CreateUnread
      <4>2. rows \in [Ids -> Row \cup {NoRow}] /\ minted \in 0..MaxId
        BY <2>1 DEF TypeOK
      <4>3. i > minted
        BY <1>1, <4>1, <4>2, ConstantsAssumption DEF ConstantsAssumption
      <4> QED
        BY <1>1, <4>3 DEF CredentialInv
    <3> QED
      BY <3>1, <3>4, <3>5
  <2> QED
    BY <2>2, <2>3
<1>2. CredentialInv /\ [Next]_vars => [P]_vars
  BY <1>1
<1>3. Init => CredentialInv
  BY CredentialInit
<1> QED
  BY <1>2, <1>3, CredentialNext, PTL DEF Spec, CredentialsAreStable

-----------------------------------------------------------------------------
(***************************************************************************)
(* The node's domain.  A setup that nothing meets takes every inbound that *)
(* carries the domain along, because it has the protocols of all of them   *)
(* before it (MigrationComplete) and one inbound of each.                  *)
(***************************************************************************)
OneOfEach(rs) ==
  \A i, k \in Ids : rs[i] # NoRow /\ rs[k] # NoRow /\ rs[i].proto = rs[k].proto => i = k

CarryDomain(rs, d) ==
  \A i \in Ids : rs[i] # NoRow /\ rs[i].proto \in DomainBound => rs[i].domain = d

InOrder(rs, d) == OneOfEach(rs) /\ CarryDomain(rs, d)

ToDo(s, p)  == \E k \in DOMAIN s.todo : s.todo[k] = p
NoRepeat(s) == \A k, m \in DOMAIN s.todo : s.todo[k] = s.todo[m] => k = m

\* Half-way: inbounds that are not done are as they were, and still to do.
Moving(s, rs) ==
  /\ NoRepeat(s) /\ OneOfEach(rs)
  /\ \A i \in Ids : rs[i] # NoRow =>
       /\ s.snap[i] # NoRow => rs[i].proto = s.snap[i].proto
       /\ s.snap[i] = NoRow =>
            /\ ~ToDo(s, rs[i].proto)
            /\ \A k \in Ids : s.snap[k] # NoRow => s.snap[k].proto # rs[i].proto
       /\ ToDo(s, rs[i].proto) => rs[i] = s.snap[i]
       /\ rs[i].proto \in DomainBound => rs[i].domain = s.domain \/ ToDo(s, rs[i].proto)

\* No setup has met another or failed to undo what it did.
Tidy ==
  /\ AllAlone
  /\ \A j \in Jobs :
       job[j].unread = {} /\ ~job[j].undoFailed /\ job[j].pc # "undoFailed"

\* What setup s has to say of the rows rs and the node's domain d.
Migrates(s, rs, d) ==
  /\ s.pc = "list" => InOrder(rs, d) /\ NoRepeat(s)
  /\ s.pc # "list" => InOrder(s.snap, s.was)
  /\ s.pc \in {"loop", "drafted"} /\ ~s.hadError => Moving(s, rs)
  /\ s.pc \in {"rename", "push"} => InOrder(rs, s.domain)
  /\ s.pc = "push" => d = s.domain

DomainInv ==
  /\ Inv
  /\ \A j \in Jobs : DraftFits(j) /\ (job[j].pc = "start" => job[j].alone)
  /\ Tidy => /\ Quiet => InOrder(rows, domain)
             /\ \A j \in Jobs : Active(j) => Migrates(job[j], rows, domain)

\* A node has at most one inbound of each protocol.
OneInboundOfEach == \A t \in Tables : OneOfEach(t)

\* A setup in progress on a tidy node has it for itself.
LEMMA TidyFacts ==
  ASSUME DomainInv, Tidy, NEW j \in Jobs, Active(j)
  PROVE  /\ job[j].alone /\ \A k \in Jobs : Active(k) => k = j
         /\ Faithful(job[j], rows, running, left, domain)
         /\ Migrates(job[j], rows, domain)
         /\ job[j].unread = {} /\ ~job[j].undoFailed
BY DEF DomainInv, Tidy, AllAlone, Inv, Undisturbed

\* Once untidy, never tidy again.
LEMMA TidyStays ==
  ASSUME DomainInv, [Next]_vars, Tidy'
  PROVE  Tidy
<1>1. Inv
  BY DEF DomainInv
<1>2. ASSUME NEW k \in Jobs, job'[k] = Met(k)
      PROVE  job[k].alone /\ ~Active(k) /\ job[k].unread = {} /\ ~job[k].undoFailed
             /\ job[k].pc # "undoFailed"
  BY <1>1, <1>2, MetMoves DEF Tidy, AllAlone
<1>3. CASE OtherPush
  <2>1. \A k \in Jobs : job'[k] = Met(k)
    BY <1>3 DEF OtherPush, Met
  <2> QED
    BY <1>2, <2>1 DEF Tidy, AllAlone
<1>4. CASE Stop \/ UNCHANGED vars
  BY <1>4 DEF Stop, vars, Tidy, AllAlone
<1>5. ASSUME NEW j \in Jobs, NEW req \in Requests, Start(j, req) PROVE Tidy
  <2>1. job[j].pc = "start" /\ \A k \in Jobs : k # j => job'[k] = Met(k)
    BY <1>1, <1>5, StartMoves
  <2>2. job[j].alone /\ job[j].unread = {} /\ ~job[j].undoFailed
    BY <1>1, <2>1 DEF DomainInv, Inv, BookKept
  <2> QED
    BY <1>2, <2>1, <2>2 DEF Tidy, AllAlone
<1>6. ASSUME NEW j \in Jobs, Step(j), \A req \in Requests : ~Start(j, req) PROVE Tidy
  <2>1. /\ OthersStand(j) /\ job'[j].alone = job[j].alone
        /\ job[j].unread \subseteq job'[j].unread
        /\ job[j].undoFailed => job'[j].undoFailed \/ job'[j].pc = "undoFailed"
    BY <1>1, <1>6, ActorMoves
  <2>2. job[j].pc # "undoFailed"
    <3>1. Active(j)
      BY <1>6, SteppersAreActive
    <3> QED
      BY <3>1 DEF Active, Working
  <2>3. job[j].alone /\ job[j].unread = {} /\ ~job[j].undoFailed
    BY <2>1 DEF Tidy, AllAlone
  <2> QED
    BY <2>1, <2>2, <2>3 DEF Tidy, AllAlone, OthersStand
<1> QED
  BY <1>3, <1>4, <1>5, <1>6 DEF Next

\* The parts of DomainInv that do not speak of the domain.
LEMMA DomainKeeps ==
  ASSUME DomainInv, [Next]_vars
  PROVE  /\ Inv' /\ \A j \in Jobs : DraftFits(j)'
         /\ \A j \in Jobs : job'[j].pc = "start" => job'[j].alone
<1>1. Inv /\ Inv' /\ \A j \in Jobs : DraftFits(j)'
  BY NextInv, DraftsNext DEF DomainInv
<1>2. ASSUME NEW k \in Jobs, job'[k] = Met(k), job'[k].pc = "start" PROVE job'[k].alone
  BY <1>1, <1>2, MetMoves DEF DomainInv, Active, Working
<1>3. ASSUME OtherPush
      PROVE  \A k \in Jobs : job'[k].pc = "start" => job'[k].alone
  <2>1. \A k \in Jobs : job'[k] = Met(k)
    BY <1>3 DEF OtherPush, Met
  <2> QED
    BY <1>2, <2>1
<1>4. ASSUME Stop \/ UNCHANGED vars
      PROVE  \A k \in Jobs : job'[k].pc = "start" => job'[k].alone
  BY <1>4 DEF Stop, vars, DomainInv
<1>5. ASSUME NEW j \in Jobs, NEW req \in Requests, Start(j, req)
      PROVE  \A k \in Jobs : job'[k].pc = "start" => job'[k].alone
  <2>1. job'[j].pc # "start" /\ \A k \in Jobs : k # j => job'[k] = Met(k)
    BY <1>1, <1>5, StartMoves
  <2> QED
    BY <1>2, <2>1
<1>6. ASSUME NEW j \in Jobs, Step(j), \A req \in Requests : ~Start(j, req)
      PROVE  \A k \in Jobs : job'[k].pc = "start" => job'[k].alone
  <2>1. OthersStand(j) /\ job'[j].pc # "start"
    BY <1>1, <1>6, ActorMoves
  <2> QED
    BY <2>1 DEF OthersStand, DomainInv
<1> QED
  BY <1>1, <1>3, <1>4, <1>5, <1>6 DEF Next

\* What a step of setup j must leave behind.
Goes(j) ==
  IF job'[j].pc \in Working THEN Migrates(job'[j], rows', domain') ELSE InOrder(rows', domain')

\* A setup that goes on, and has the right things to say of the rows.
LEMMA MigrationGoesOn ==
  ASSUME DomainInv, [Next]_vars, NEW j \in Jobs, Active(j), OthersStand(j), Tidy' => Goes(j)
  PROVE  DomainInv'
<1>1. ASSUME Tidy'
      PROVE  /\ Quiet' => InOrder(rows', domain')
             /\ \A k \in Jobs : job'[k].pc \in Working => Migrates(job'[k], rows', domain')
  <2>1. Tidy
    BY <1>1, TidyStays
  <2>2. \A k \in Jobs : Active(k) => k = j
    BY <2>1, TidyFacts
  <2>3. \A k \in Jobs : job'[k].pc \in Working => k = j
    BY <2>2 DEF OthersStand, Active
  <2>4. Goes(j)
    BY <1>1
  <2>5. Quiet' => job'[j].pc \notin Working
    BY DEF Quiet, Active
  <2> QED
    BY <2>3, <2>4, <2>5 DEF Goes
<1>2. Tidy' => /\ Quiet' => InOrder(rows, domain)'
               /\ \A k \in Jobs : Active(k)' => Migrates(job[k], rows, domain)'
  <2>1. InOrder(rows', domain') <=> InOrder(rows, domain)'
    BY DEF InOrder, OneOfEach, CarryDomain
  <2>2. \A k \in Jobs : Migrates(job'[k], rows', domain') <=> Migrates(job[k], rows, domain)'
    BY DEF Migrates, Moving, NoRepeat, ToDo, InOrder, OneOfEach, CarryDomain
  <2>3. \A k \in Jobs : Active(k)' <=> job'[k].pc \in Working
    BY DEF Active
  <2> QED
    BY <1>1, <2>1, <2>2, <2>3
<1>3. Inv' /\ \A k \in Jobs : DraftFits(k)' /\ (job'[k].pc = "start" => job'[k].alone)
  BY DomainKeeps
<1> QED
  BY <1>2, <1>3 DEF DomainInv

\* A list without its head.
LEMMA TailFacts ==
  ASSUME NEW S, NEW todo \in Seq(S), todo # <<>>
  PROVE  /\ DOMAIN Tail(todo) = 1..(Len(todo) - 1) /\ DOMAIN todo = 1..Len(todo)
         /\ Len(todo) \in Nat \ {0} /\ 1 \in DOMAIN todo /\ todo[1] = Head(todo)
         /\ \A k \in DOMAIN Tail(todo) : k + 1 \in DOMAIN todo /\ Tail(todo)[k] = todo[k + 1]
         /\ \A k \in DOMAIN todo : k # 1 =>
              k - 1 \in DOMAIN Tail(todo) /\ Tail(todo)[k - 1] = todo[k]
<1>1. Len(todo) \in Nat \ {0} /\ DOMAIN todo = 1..Len(todo) /\ todo[1] = Head(todo)
  OBVIOUS
<1>2. /\ Tail(todo) \in Seq(S) /\ Len(Tail(todo)) = Len(todo) - 1
      /\ \A k \in 1..(Len(todo) - 1) : Tail(todo)[k] = todo[k + 1]
  OBVIOUS
<1>3. DOMAIN Tail(todo) = 1..(Len(todo) - 1)
  BY <1>2
<1> QED
  BY <1>1, <1>2, <1>3

\* A protocol that is done is no longer to do, and the others are.
LEMMA ToDoNext ==
  ASSUME Inv, NEW j \in Jobs, job[j].todo # <<>>, job'[j].todo = Tail(job[j].todo),
         NoRepeat(job[j])
  PROVE  /\ NoRepeat(job'[j]) /\ ToDo(job[j], Proto(j)) /\ ~ToDo(job'[j], Proto(j))
         /\ \A p : p # Proto(j) => (ToDo(job'[j], p) <=> ToDo(job[j], p))
<1>1. job[j].todo \in Seq(Protocols)
  BY SetupFacts DEF Inv
<1> DEFINE todo == job[j].todo
           rest == Tail(todo)
<1>2. /\ DOMAIN rest = 1..(Len(todo) - 1) /\ DOMAIN todo = 1..Len(todo)
      /\ Len(todo) \in Nat \ {0} /\ 1 \in DOMAIN todo /\ todo[1] = Proto(j)
      /\ \A k \in DOMAIN rest : k + 1 \in DOMAIN todo /\ rest[k] = todo[k + 1]
      /\ \A k \in DOMAIN todo : k # 1 => k - 1 \in DOMAIN rest /\ rest[k - 1] = todo[k]
  BY <1>1, TailFacts DEF Proto
<1>3. job'[j].todo = rest
  OBVIOUS
<1>4. \A k, m \in DOMAIN todo : todo[k] = todo[m] => k = m
  BY DEF NoRepeat
<1> HIDE DEF todo, rest
<1>5. \A k, m \in DOMAIN rest : rest[k] = rest[m] => k = m
  <2> SUFFICES ASSUME NEW k \in DOMAIN rest, NEW m \in DOMAIN rest, rest[k] = rest[m]
               PROVE  k = m
    OBVIOUS
  <2>1. k + 1 = m + 1
    BY <1>2, <1>4
  <2> QED
    BY <1>2, <2>1
<1>6. \A k \in DOMAIN rest : rest[k] # Proto(j)
  <2> SUFFICES ASSUME NEW k \in DOMAIN rest, rest[k] = Proto(j) PROVE FALSE
    OBVIOUS
  <2>1. k + 1 = 1
    BY <1>2, <1>4
  <2> QED
    BY <1>2, <2>1
<1>7. \A p : p # Proto(j) => ((\E k \in DOMAIN rest : rest[k] = p) <=> \E k \in DOMAIN todo : todo[k] = p)
  BY <1>2
<1> QED
  BY <1>2, <1>3, <1>5, <1>6, <1>7 DEF NoRepeat, ToDo, todo

\* A protocol is done when the rows rs left of it carry the domain.
LEMMA MovingDone ==
  ASSUME Inv, NEW j \in Jobs, Moving(job[j], rows),
         job[j].todo # <<>>, job'[j].todo = Tail(job[j].todo), SameTask(j),
         NEW rs, OneOfEach(rs),
         \A i \in Ids : rs[i] # NoRow /\ rs[i] # rows[i] =>
           /\ rs[i].proto = Proto(j)
           /\ job[j].snap[i] # NoRow => job[j].snap[i].proto = Proto(j)
           /\ job[j].snap[i] = NoRow =>
                \A k \in Ids : job[j].snap[k] # NoRow => job[j].snap[k].proto # Proto(j),
         \A i \in Ids : rs[i] # NoRow /\ rs[i].proto = Proto(j) /\ Proto(j) \in DomainBound =>
           rs[i].domain = job[j].domain
  PROVE  Moving(job'[j], rs)
<1>1. /\ NoRepeat(job'[j]) /\ ToDo(job[j], Proto(j)) /\ ~ToDo(job'[j], Proto(j))
      /\ \A p : p # Proto(j) => (ToDo(job'[j], p) <=> ToDo(job[j], p))
  BY ToDoNext DEF Moving
<1>2. job'[j].snap = job[j].snap /\ job'[j].domain = job[j].domain
  BY DEF SameTask
<1> SUFFICES ASSUME NEW i \in Ids, rs[i] # NoRow
             PROVE  /\ job[j].snap[i] # NoRow => rs[i].proto = job[j].snap[i].proto
                    /\ job[j].snap[i] = NoRow =>
                         /\ ~ToDo(job'[j], rs[i].proto)
                         /\ \A k \in Ids : job[j].snap[k] # NoRow =>
                                             job[j].snap[k].proto # rs[i].proto
                    /\ ToDo(job'[j], rs[i].proto) => rs[i] = job[j].snap[i]
                    /\ rs[i].proto \in DomainBound =>
                         rs[i].domain = job[j].domain \/ ToDo(job'[j], rs[i].proto)
  BY <1>1, <1>2 DEF Moving
<1>3. CASE rs[i] = rows[i]
  BY <1>1, <1>3 DEF Moving
<1>4. CASE rs[i] # rows[i]
  BY <1>1, <1>4
<1> QED
  BY <1>3, <1>4

\* Half-way, only the row of the snapshot can have the protocol to do next.
LEMMA MovingRows ==
  ASSUME Inv, NEW j \in Jobs, Moving(job[j], rows), job[j].todo # <<>>,
         OneOfEach(job[j].snap), NEW i \in Ids, rows[i] # NoRow, rows[i].proto = Proto(j)
  PROVE  /\ job[j].snap[i] # NoRow /\ job[j].snap[i].proto = Proto(j)
         /\ Exists(j, Proto(j)) /\ i = Existing(j, Proto(j)) /\ Old(j, Proto(j)) = job[j].snap[i]
         /\ rows[i] = job[j].snap[i]
<1>1. job[j].todo \in Seq(Protocols) /\ TypeOK
  BY SetupFacts DEF Inv
<1>2. ToDo(job[j], Proto(j))
  BY <1>1, TailFacts DEF ToDo, Proto
<1>3. job[j].snap[i] # NoRow /\ job[j].snap[i].proto = Proto(j)
  BY <1>2 DEF Moving
<1>4. Exists(j, Proto(j))
  BY <1>3 DEF Exists, ExistingIds
<1>5. i = Existing(j, Proto(j))
  BY <1>1, <1>3, <1>4, ExistingFacts DEF OneOfEach
<1> QED
  BY <1>2, <1>3, <1>4, <1>5 DEF Old, Moving

\* Protocols, one at a time: a setup that goes on keeps its way half-way.
LEMMA MigratesLoop ==
  ASSUME DomainInv, Tidy, Tidy', NEW j \in Jobs,
         \/ SkipConfigured(j) \/ ProtocolFails(j) \/ SkipUnchanged(j)
         \/ UpdateRow(j) \/ CreateRow(j) \/ CreateUnread(j)
  PROVE  Goes(j)
<1> DEFINE p == Proto(j)
           snap == job[j].snap
<1>1. Inv /\ TypeOK /\ rows \in [Ids -> Row \cup {NoRow}] /\ DraftFits(j)
      /\ snap \in [Ids -> Row \cup {NoRow}]
  BY SetupFacts DEF DomainInv, Inv, TypeOK
<1>2. /\ job[j].pc \in {"loop", "drafted"} /\ job[j].todo # <<>>
      /\ job'[j].pc = "loop" /\ job'[j].todo = Tail(job[j].todo) /\ SameTask(j)
      /\ job[j].hadError => job'[j].hadError
  BY <1>1, LoopMoves
<1>3. Migrates(job[j], rows, domain) /\ p \in Protocols
  BY <1>1, <1>2, TidyFacts, DoneFacts DEF Active, Working
<1>4. InOrder(snap, job[j].was)
  BY <1>2, <1>3 DEF Migrates
<1>5. SUFFICES ASSUME ~job'[j].hadError PROVE Moving(job'[j], rows')
  BY <1>2, <1>4 DEF Goes, Migrates, SameTask, Working
<1>6. Moving(job[j], rows) /\ OneOfEach(snap) /\ OneOfEach(rows)
  BY <1>2, <1>3, <1>4, <1>5 DEF Migrates, InOrder, Moving
<1>7. \A i \in Ids : rows[i] # NoRow /\ rows[i].proto = p =>
        /\ snap[i] # NoRow /\ Exists(j, p) /\ i = Existing(j, p) /\ Old(j, p) = snap[i]
        /\ rows[i] = snap[i]
  BY <1>1, <1>2, <1>6, MovingRows
<1>8. ASSUME rows' = rows, Exists(j, p) => (p \in DomainBound => Old(j, p).domain = job[j].domain)
      PROVE  Moving(job'[j], rows')
  <2>1. \A i \in Ids : rows[i] # NoRow /\ rows[i].proto = p /\ p \in DomainBound =>
          rows[i].domain = job[j].domain
    BY <1>7, <1>8
  <2> QED
    BY <1>1, <1>2, <1>6, <1>8, <2>1, MovingDone
<1>9. CASE SkipConfigured(j)
  <2>1. rows' = rows /\ Exists(j, p) /\ Old(j, p).domain = job[j].domain
    BY <1>9 DEF SkipConfigured, AlreadyConfigured, store
  <2> QED
    BY <1>8, <2>1
<1>10. CASE SkipUnchanged(j)
  <2>1. /\ rows' = rows /\ job[j].pc = "drafted" /\ Exists(j, p)
        /\ Unchanged(job[j].draft, Old(j, p))
    BY <1>10 DEF SkipUnchanged, Ready, store
  <2>2. Old(j, p) \in Row /\ Old(j, p).proto = p
    BY <1>1, <1>3, <2>1, OldRow
  <2>3. p \in DomainBound => Old(j, p).domain = job[j].domain
    <3>1. job[j].draft.domain = Old(j, p).domain
      BY <2>1, <2>2, UnchangedFacts
    <3> QED
      BY <1>1, <2>1, <3>1 DEF DraftFits
  <2> QED
    BY <1>8, <2>1, <2>3
<1>11. CASE ProtocolFails(j)
  <2>1. job' = [job EXCEPT ![j] = [Done(j) EXCEPT !.hadError = TRUE]]
    BY <1>11 DEF ProtocolFails
  <2>2. Done(j) \in Setup /\ job \in [Jobs -> Setup]
    BY <1>1, <1>2, DoneFacts DEF TypeOK
  <2>3. job'[j].hadError
    BY <2>1, <2>2 DEF Setup
  <2> QED
    BY <1>5, <2>3
<1>12. CASE CreateUnread(j)
  <2>1. job' = [job EXCEPT ![j] = [Done(j) EXCEPT !.hadError = TRUE,
                                     !.unread = @ \cup {minted + 1}]]
    BY <1>12 DEF CreateUnread
  <2>2. Done(j) \in Setup /\ job \in [Jobs -> Setup]
    BY <1>1, <1>2, DoneFacts DEF TypeOK
  <2>3. job'[j].hadError
    BY <2>1, <2>2 DEF Setup
  <2> QED
    BY <1>5, <2>3
<1>13. CASE UpdateRow(j)
  <2> DEFINE e == Existing(j, p)
  <2>1. /\ Exists(j, p) /\ job[j].pc = "drafted"
        /\ rows' = IF rows[e] = NoRow THEN rows ELSE [rows EXCEPT ![e] = job[j].draft]
    BY <1>1, <1>5, <1>13, UpdateRowFacts
  <2>2. e \in Ids /\ snap[e] # NoRow /\ snap[e].proto = p
    BY <1>1, <2>1, ExistingFacts
  <2>3. /\ job[j].draft \in Row /\ job[j].draft.proto = p
        /\ p \in DomainBound => job[j].draft.domain = job[j].domain
    BY <1>1, <2>1 DEF DraftFits
  <2> HIDE DEF e, p, snap
  <2>4. \A i \in Ids : rows'[i] # rows[i] =>
          i = e /\ rows'[i] = job[j].draft /\ rows[i] # NoRow
    BY <1>1, <2>1
  <2>5. rows[e] # NoRow => rows[e].proto = p
    BY <1>6, <2>2 DEF Moving, snap
  <2>6. \A i \in Ids : rows'[i] # NoRow => rows[i] # NoRow /\ rows'[i].proto = rows[i].proto
    BY <2>3, <2>4, <2>5
  <2>7. OneOfEach(rows')
    BY <1>6, <2>6 DEF OneOfEach
  <2>8. ASSUME NEW i \in Ids, rows'[i] # NoRow, rows'[i].proto = p, p \in DomainBound
        PROVE  rows'[i].domain = job[j].domain
    <3>1. rows[i] # NoRow /\ rows[i].proto = p
      BY <2>6, <2>8
    <3>2. i = e
      BY <1>7, <3>1 DEF e
    <3>3. rows'[i] = job[j].draft
      BY <1>1, <2>1, <2>2, <3>1, <3>2
    <3> QED
      BY <2>3, <2>8, <3>3
  <2>9. \A i \in Ids : rows'[i] # NoRow /\ rows'[i] # rows[i] =>
          rows'[i].proto = p /\ snap[i] # NoRow /\ snap[i].proto = p
    BY <2>2, <2>3, <2>4
  <2> QED
    BY <1>1, <1>2, <1>6, <2>7, <2>8, <2>9, MovingDone DEF p, snap
<1>14. CASE CreateRow(j)
  <2> DEFINE e == minted + 1
  <2>1. /\ ~Exists(j, p) /\ job[j].pc = "drafted" /\ minted < MaxId
        /\ rows' = [rows EXCEPT ![e] = job[j].draft]
    BY <1>14 DEF CreateRow, Ready
  <2>2. e \in Ids /\ rows[e] = NoRow /\ snap[e] = NoRow
    <3>1. minted \in Nat /\ MaxId \in Nat
      BY <1>1, ConstantsAssumption DEF TypeOK, ConstantsAssumption
    <3>2. e \in Ids /\ e > minted
      BY <2>1, <3>1 DEF Ids
    <3> QED
      BY <1>1, <3>2 DEF Inv, Unused
  <2>3. /\ job[j].draft \in Row /\ job[j].draft.proto = p
        /\ p \in DomainBound => job[j].draft.domain = job[j].domain
    BY <1>1, <2>1 DEF DraftFits
  <2>4. \A k \in Ids : snap[k] # NoRow => snap[k].proto # p
    BY <2>1 DEF Exists, ExistingIds
  <2>5. \A i \in Ids : rows[i] # NoRow => rows[i].proto # p
    BY <1>7, <2>1
  <2> HIDE DEF e, p, snap
  <2>6. \A i \in Ids : IF i = e THEN rows'[i] = job[j].draft ELSE rows'[i] = rows[i]
    BY <1>1, <2>1
  <2>7. OneOfEach(rows')
    BY <1>6, <2>3, <2>5, <2>6 DEF OneOfEach
  <2>8. \A i \in Ids : rows'[i] # NoRow /\ rows'[i].proto = p /\ p \in DomainBound =>
          rows'[i].domain = job[j].domain
    BY <2>3, <2>5, <2>6
  <2>9. \A i \in Ids : rows'[i] # NoRow /\ rows'[i] # rows[i] =>
          rows'[i].proto = p /\ snap[i] = NoRow
    BY <2>2, <2>3, <2>6
  <2> QED
    BY <1>1, <1>2, <1>6, <2>4, <2>7, <2>8, <2>9, MovingDone DEF p, snap
<1> QED
  BY <1>9, <1>10, <1>11, <1>12, <1>13, <1>14

\* Listing the inbounds, choosing settings, and the end of the list.
LEMMA MigratesOnward ==
  ASSUME DomainInv, Tidy, NEW j \in Jobs,
         List(j) \/ Unreachable(j) \/ Draft(j) \/ LoopDone(j) \/ Rename(j) \/ RenameFails(j)
  PROVE  Goes(j)
<1>1. Inv /\ TypeOK
  BY DEF DomainInv, Inv
<1>2. Active(j)
  BY DEF List, Unreachable, Draft, LoopDone, Rename, RenameFails, Active, Working
<1>3. Migrates(job[j], rows, domain) /\ Faithful(job[j], rows, running, left, domain)
  BY <1>2, TidyFacts
<1>4. CASE List(j) /\ MigrationComplete(j)
  <2>1. /\ job'[j].pc = "loop" /\ job'[j].snap = rows /\ job'[j].todo = job[j].todo
        /\ job'[j].was = job[j].was /\ job'[j].domain = job[j].domain
    BY <1>1, <1>4, ListMoves
  <2>2. job[j].pc = "list" /\ rows' = rows
    BY <1>4 DEF List, store
  <2>3. InOrder(rows, job[j].was) /\ NoRepeat(job[j])
    BY <1>3, <2>2 DEF Migrates, Faithful
  <2>4. ASSUME NEW i \in Ids, rows[i] # NoRow, rows[i].proto \in DomainBound
        PROVE  rows[i].domain = job[j].domain \/ ToDo(job[j], rows[i].proto)
    BY <1>4, <2>3, <2>4 DEF MigrationComplete, ToDo, InOrder, CarryDomain
  <2>5. Moving(job'[j], rows)
    BY <2>1, <2>3, <2>4 DEF Moving, NoRepeat, ToDo, InOrder
  <2>6. InOrder(job'[j].snap, job'[j].was)
    BY <2>1, <2>3
  <2> QED
    BY <2>1, <2>2, <2>5, <2>6 DEF Goes, Migrates, Working
<1>5. CASE (List(j) /\ ~MigrationComplete(j)) \/ Unreachable(j)
  <2>1. /\ job' = [job EXCEPT ![j] = Answered(j, "rejected")] /\ "rejected" \in Answers
        /\ job[j].pc = "list" /\ rows' = rows /\ domain' = domain
    BY <1>5 DEF List, Unreachable, Answers, store
  <2>2. job'[j].pc \notin Working
    BY <1>1, <2>1, AnswerMoves
  <2>3. InOrder(rows, domain)
    BY <1>3, <2>1 DEF Migrates
  <2> QED
    BY <2>1, <2>2, <2>3 DEF Goes
<1>6. CASE Draft(j)
  <2>1. /\ job[j].pc = "loop" /\ job'[j].pc = "drafted" /\ SameTask(j)
        /\ job'[j].todo = job[j].todo /\ job'[j].hadError = job[j].hadError
        /\ rows' = rows
    BY <1>1, <1>6, DraftMoves DEF store
  <2>2. InOrder(job'[j].snap, job'[j].was)
    BY <1>3, <2>1 DEF Migrates, SameTask
  <2>3. ~job'[j].hadError => Moving(job'[j], rows)
    BY <1>3, <2>1 DEF Migrates, Moving, NoRepeat, ToDo, SameTask
  <2> QED
    BY <2>1, <2>2, <2>3 DEF Goes, Migrates, Working
<1>7. CASE LoopDone(j)
  <2>1. /\ job[j].pc = "loop" /\ job[j].todo = <<>> /\ SameTask(j)
        /\ job'[j].pc = IF job[j].hadError THEN "undo"
                        ELSE IF job[j].domain # job[j].was THEN "rename" ELSE "push"
        /\ rows' = rows /\ domain' = domain
    BY <1>1, <1>7, LoopDoneMoves DEF store
  <2>2. InOrder(job'[j].snap, job'[j].was)
    BY <1>3, <2>1 DEF Migrates, SameTask
  <2>3. domain = job[j].was
    BY <1>3, <2>1 DEF Faithful
  <2>4. ASSUME ~job[j].hadError PROVE InOrder(rows, job[j].domain)
    <3>1. Moving(job[j], rows)
      BY <1>3, <2>1, <2>4 DEF Migrates
    <3>2. \A p : ~ToDo(job[j], p)
      BY <2>1 DEF ToDo
    <3> QED
      BY <3>1, <3>2 DEF Moving, InOrder, CarryDomain
  <2> QED
    BY <2>1, <2>2, <2>3, <2>4 DEF Goes, Migrates, SameTask, Working
<1>8. CASE Rename(j) \/ RenameFails(j)
  <2>1. /\ job[j].pc = "rename" /\ SameTask(j) /\ rows' = rows
        /\ \/ job'[j].pc = "push" /\ domain' = job[j].domain
           \/ job'[j].pc = "undo"
    BY <1>1, <1>8, RenameMoves
  <2>2. InOrder(job'[j].snap, job'[j].was) /\ InOrder(rows, job[j].domain)
    BY <1>3, <2>1 DEF Migrates, SameTask
  <2> QED
    BY <2>1, <2>2 DEF Goes, Migrates, SameTask, Working
<1> QED
  BY <1>4, <1>5, <1>6, <1>7, <1>8

\* Publishing, and the ways back.
LEMMA MigratesBack ==
  ASSUME DomainInv, Tidy, Tidy', NEW j \in Jobs,
         Push(j) \/ EndUndo(j) \/ PushBack(j) \/ \E i \in Ids : Uncreate(j, i) \/ Restore(j, i)
  PROVE  Goes(j)
<1>1. Inv /\ TypeOK /\ BookKept(job[j])
  BY DEF DomainInv, Inv
<1>2. Active(j)
  BY DEF Push, EndUndo, PushBack, Uncreate, Restore, Active, Working
<1>3. /\ Migrates(job[j], rows, domain) /\ Faithful(job[j], rows, running, left, domain)
      /\ job[j].unread = {} /\ ~job[j].undoFailed
  BY <1>2, TidyFacts
<1>4. ASSUME NEW answer \in Answers, job' = [job EXCEPT ![j] = Answered(j, answer)],
             InOrder(rows', domain')
      PROVE  Goes(j)
  <2>1. job'[j].pc \notin Working
    BY <1>1, <1>4, AnswerMoves
  <2> QED
    BY <1>4, <2>1 DEF Goes
<1>5. ASSUME job'[j].pc \in {"undo", "pushBack"}, SameTask(j), job[j].pc # "list"
      PROVE  Goes(j)
  <2>1. InOrder(job'[j].snap, job'[j].was)
    BY <1>3, <1>5 DEF Migrates, SameTask
  <2> QED
    BY <1>5, <2>1 DEF Goes, Migrates, Working
<1>6. ASSUME job[j].pc \in {"undo", "pushBack"}, job[j].created \cup job[j].updated = {},
             rows' = rows
      PROVE  InOrder(rows', job[j].was)
  <2>1. \A i \in Ids : rows[i] = job[j].snap[i]
    BY <1>3, <1>6 DEF Faithful
  <2>2. InOrder(job[j].snap, job[j].was)
    BY <1>3, <1>6 DEF Migrates
  <2> QED
    BY <1>6, <2>1, <2>2 DEF InOrder, OneOfEach, CarryDomain
<1>7. CASE Push(j)
  <2>1. job[j].pc = "push" /\ rows' = rows /\ domain' = domain
    BY <1>7 DEF Push, store
  <2>2. CASE job' = [job EXCEPT ![j] = Answered(j, "ok")]
    <3>1. InOrder(rows, domain) /\ "ok" \in Answers
      BY <1>3, <2>1 DEF Migrates, Answers
    <3> QED
      BY <1>4, <2>1, <2>2, <3>1
  <2>3. CASE job' # [job EXCEPT ![j] = Answered(j, "ok")]
    BY <1>1, <1>5, <1>7, <2>1, <2>3, RefusedPushMoves
  <2> QED
    BY <2>2, <2>3
<1>8. ASSUME NEW i \in Ids, Uncreate(j, i) \/ Restore(j, i) PROVE Goes(j)
  BY <1>1, <1>5, <1>8, UndoMoves
<1>9. CASE EndUndo(j)
  <2>1. job[j].pc = "undo" /\ job[j].created \cup job[j].updated = {} /\ rows' = rows
    BY <1>9 DEF EndUndo
  <2>4. job'[j].pc # "undoFailed"
    BY DEF Tidy
  <2>5. domain' = IF job[j].domain # job[j].was THEN job[j].was ELSE domain
    BY <1>1, <1>9, <2>4, EndUndoMoves, AnswerMoves
  <2>2. domain' = job[j].was
    BY <1>3, <2>5 DEF Faithful
  <2>3. InOrder(rows', domain')
    BY <1>6, <2>1, <2>2
  <2> QED
    BY <1>1, <1>4, <1>5, <1>9, <2>1, <2>3, EndUndoMoves
<1>10. CASE PushBack(j)
  <2>1. /\ job[j].pc = "pushBack" /\ rows' = rows /\ domain' = domain
        /\ \E answer \in Answers : job' = [job EXCEPT ![j] = Answered(j, answer)]
    BY <1>10 DEF PushBack, store, Answers, Undone
  <2>2. job[j].created \cup job[j].updated = {} /\ domain = job[j].was
    BY <1>1, <1>3, <2>1 DEF BookKept, Faithful
  <2>3. InOrder(rows', domain')
    BY <1>6, <2>1, <2>2
  <2> QED
    BY <1>4, <2>1, <2>3
<1> QED
  BY <1>7, <1>8, <1>9, <1>10

LEMMA DomainNext == DomainInv /\ [Next]_vars => DomainInv'
<1> SUFFICES ASSUME DomainInv, [Next]_vars PROVE DomainInv'
  OBVIOUS
<1>1. Inv
  BY DEF DomainInv
<1>2. Inv' /\ \A k \in Jobs : DraftFits(k)' /\ (job'[k].pc = "start" => job'[k].alone)
  BY DomainKeeps
<1>3. ASSUME NEW j \in Jobs, Step(j), \A req \in Requests : ~Start(j, req) PROVE DomainInv'
  <2>1. Active(j)
    BY <1>3, SteppersAreActive
  <2>2. OthersStand(j)
    BY <1>1, <1>3, ActorMoves
  <2>3. Tidy' => Goes(j)
    BY <1>3, TidyStays, MigratesLoop, MigratesOnward, MigratesBack DEF Step
  <2> QED
    BY <2>1, <2>2, <2>3, MigrationGoesOn
<1>4. ASSUME rows' = rows, domain' = domain,
             Tidy' => \A k \in Jobs : ~Active(k),
             Tidy' => \A k \in Jobs : job'[k].pc \in Working =>
                        job'[k].pc = "list" /\ NoRepeat(job'[k])
      PROVE  DomainInv'
  <2>1. ASSUME Tidy' PROVE InOrder(rows, domain)
    BY <1>4, <2>1, TidyStays DEF DomainInv, Quiet
  <2>2. InOrder(rows, domain)' <=> InOrder(rows, domain)
    BY <1>4 DEF InOrder, OneOfEach, CarryDomain
  <2>3. ASSUME Tidy', NEW k \in Jobs, Active(k)' PROVE Migrates(job[k], rows, domain)'
    BY <1>4, <2>1, <2>2, <2>3 DEF Active, Migrates, NoRepeat
  <2> QED
    BY <1>2, <2>1, <2>2, <2>3 DEF DomainInv
<1>5. ASSUME NEW k \in Jobs, job'[k] = Met(k), Tidy' PROVE ~Active(k) /\ job'[k].pc \notin Working
  <2>1. Met(k).alone /\ Met(k).pc = job[k].pc
    BY <1>1, <1>5, MetMoves DEF Tidy, AllAlone
  <2> QED
    BY <1>1, <1>5, <2>1, MetMoves DEF Active
<1>6. CASE OtherPush
  <2>1. /\ rows' = rows /\ domain' = domain /\ \A k \in Jobs : job'[k] = Met(k)
    BY <1>6 DEF OtherPush, Met, store
  <2> QED
    BY <1>4, <1>5, <2>1
<1>7. CASE Stop \/ UNCHANGED vars
  <2>1. UNCHANGED <<rows, domain, job>>
    BY <1>7 DEF Stop, vars, store
  <2>2. /\ Tidy' <=> Tidy
        /\ Quiet' <=> Quiet
        /\ \A k \in Jobs : Active(k)' <=> Active(k)
        /\ InOrder(rows, domain)' <=> InOrder(rows, domain)
    BY <2>1 DEF Tidy, AllAlone, Quiet, Active, InOrder, OneOfEach, CarryDomain
  <2>3. \A k \in Jobs : Migrates(job[k], rows, domain)' <=> Migrates(job[k], rows, domain)
    BY <2>1 DEF Migrates, Moving, NoRepeat, ToDo, InOrder, OneOfEach, CarryDomain
  <2> QED
    BY <1>2, <2>2, <2>3 DEF DomainInv
<1>8. ASSUME NEW j \in Jobs, NEW req \in Requests, Start(j, req) PROVE DomainInv'
  <2> DEFINE d == IF req.domain = None THEN domain ELSE req.domain
  <2>1. /\ ~Active(j) /\ rows' = rows /\ domain' = domain
        /\ \A k \in Jobs : k # j => job'[k] = Met(k)
        /\ \/ job'[j].pc = "rejected"
           \/ Acceptable(req, d) /\ job'[j].pc = "list" /\ job'[j].todo = ProtocolsFor(req, d)
    BY <1>1, <1>8, StartMoves DEF store
  <2>2. Tidy' => \A k \in Jobs : ~Active(k) /\ (k # j => job'[k].pc \notin Working)
    BY <1>5, <2>1
  <2>3. job'[j].pc \in Working => job'[j].pc = "list" /\ NoRepeat(job'[j])
    BY <2>1 DEF Working, Acceptable, NoRepeat
  <2> QED
    BY <1>4, <2>1, <2>2, <2>3
<1> QED
  BY <1>3, <1>6, <1>7, <1>8 DEF Next

LEMMA DomainInit ==
  ASSUME Init, OneInboundOfEach, DomainBoundRowsFollowDomain
  PROVE  DomainInv
<1>1. Inv
  BY InitInv
<1>2. \A j \in Jobs : job[j].pc = "start" /\ job[j].alone /\ job[j].unread = {}
  BY DEF Init, NoJob
<1>3. Quiet /\ Orderly
  BY <1>2 DEF Quiet, Orderly, Active, Working, AllAlone, Init
<1>4. InOrder(rows, domain)
  BY <1>3 DEF InOrder, CarryDomain, DomainBoundRowsFollowDomain, Init, OneInboundOfEach
<1>5. \A j \in Jobs : ~Active(j) /\ DraftFits(j)
  BY <1>2 DEF DraftFits, Active, Working
<1> QED
  BY <1>1, <1>2, <1>4, <1>5 DEF DomainInv

\* A domain migration takes every inbound that carries the domain along, and a
\* failed one brings them all back: on a node with one inbound of each protocol
\* that was in order before its first setup, setups nothing met and that left
\* nothing half undone keep it in order.  (existingProtos in handler/setup.go
\* keeps one inbound of a protocol; a second one would be left behind.)
THEOREM DomainsFollow ==
  ASSUME OneInboundOfEach
  PROVE  DomainBoundRowsFollowDomain /\ Spec => []DomainBoundRowsFollowDomain
<1>1. ASSUME DomainInv PROVE DomainBoundRowsFollowDomain
  <2> SUFFICES ASSUME Quiet, Orderly PROVE CarryDomain(rows, domain)
    BY DEF DomainBoundRowsFollowDomain, CarryDomain
  <2>1. \A j \in Jobs : ~job[j].undoFailed
    BY <1>1 DEF DomainInv, Inv, BookKept, Quiet, Active, Working
  <2>2. Tidy
    BY <2>1 DEF Tidy, Orderly
  <2> QED
    BY <1>1, <2>2 DEF DomainInv, InOrder
<1>2. DomainBoundRowsFollowDomain /\ Init => DomainInv
  BY DomainInit
<1> QED
  BY <1>1, <1>2, DomainNext, PTL DEF Spec

-----------------------------------------------------------------------------
(***************************************************************************)
(* Ports.  HTTPUpgrade keeps its port or takes the first conventional one  *)
(* and looks at nothing; it is Reality, after it in the list, that has to  *)
(* move out of the way, by what the node says of its ports and by what     *)
(* this setup has reserved.                                                *)
(***************************************************************************)
Upgrade == "vless-httpupgrade"
Reality == "vless-reality"

Of(p, r) == r # NoRow /\ r.proto = p

UpgradeFirst(todo) ==
  \A k \in DOMAIN todo : todo[k] = Upgrade => \E m \in DOMAIN todo : k < m /\ todo[m] = Reality

Apart(rs) == \A i, k \in Ids : Of(Upgrade, rs[i]) /\ Of(Reality, rs[k]) => rs[i].port # rs[k].port

\* A random port is Reality's or Hysteria2's, never HTTPUpgrade's.
NotRandom(r) == Of(Upgrade, r) => r.port \notin RandomPorts

UpgradesNotRandom ==
  /\ \A i \in Ids : NotRandom(rows[i]) /\ \A j \in Jobs : NotRandom(job[j].snap[i])
  /\ \A j \in Jobs : job[j].pc = "drafted" => NotRandom(job[j].draft)

\* Before Reality, the port of an HTTPUpgrade inbound is one the node knows of
\* or one this setup has reserved; after it, the two are apart.
Planned(s, rs) ==
  /\ s.pc \in {"list", "loop", "drafted"} => UpgradeFirst(s.todo)
  /\ s.pc \in {"loop", "drafted"} /\ ~s.hadError =>
       IF ToDo(s, Reality)
         THEN \A i \in Ids : Of(Upgrade, rs[i]) =>
                rs[i] = s.snap[i] \/ rs[i].port \in s.reserved["tcp"]
         ELSE Apart(rs)
  /\ s.pc = "drafted" /\ ~s.hadError =>
       /\ s.draft.proto = Upgrade => s.draft.port \in s.reserved["tcp"]
       /\ s.draft.proto = Reality => \A i \in Ids : Of(Upgrade, rs[i]) => rs[i].port # s.draft.port
  /\ s.pc \in {"rename", "push"} => Apart(rs)

PortInv ==
  /\ DomainInv /\ UpgradesNotRandom
  /\ up => ~Clash(running)
  /\ Tidy /\ left = {} /\ up => \A j \in Jobs : Active(j) => Planned(job[j], rows)

\* What has to hold for the ports to be kept apart: the node can run what it has
\* at first; randomPort returns neither the port of an HTTPUpgrade inbound nor the
\* first conventional one (it returns 20000-49999); and operators who ask for
\* HTTPUpgrade ask for Reality after it, and for no port of Reality's.
PortsCanBeKeptApart ==
  /\ OneInboundOfEach /\ HTTPS \notin RandomPorts
  /\ \A t \in Tables : ~Clash(t) /\ \A i \in Ids : NotRandom(t[i])
  /\ \A r \in Requests : /\ UpgradeFirst(r.protocols)
                         /\ r.ports[Reality] = 0 /\ r.ports[Upgrade] \notin RandomPorts

\* What a setup writes in one step: its draft, or what it found.
LEMMA RowsCome ==
  ASSUME Inv, NEW j \in Jobs, Step(j), \A req \in Requests : ~Start(j, req), NEW i \in Ids
  PROVE  \/ rows'[i] \in {rows[i], NoRow, job[j].snap[i]}
         \/ job[j].pc = "drafted" /\ rows'[i] = job[j].draft
<1>1. rows \in [Ids -> Row \cup {NoRow}]
  BY DEF Inv, TypeOK
<1>2. CASE UpdateRow(j)
  BY <1>1, <1>2 DEF UpdateRow, Ready
<1>3. CASE CreateRow(j) \/ CreateUnread(j)
  BY <1>1, <1>3 DEF CreateRow, CreateUnread, Ready
<1>4. ASSUME NEW k \in Ids, Uncreate(j, k) \/ Restore(j, k)
      PROVE  rows'[i] \in {rows[i], NoRow, job[j].snap[i]}
  BY <1>4, UndoMoves
<1>5. CASE /\ ~(UpdateRow(j) \/ CreateRow(j) \/ CreateUnread(j))
           /\ ~\E k \in Ids : Uncreate(j, k) \/ Restore(j, k)
  BY <1>5 DEF Step, store, List, Unreachable, SkipConfigured, Draft, ProtocolFails,
     SkipUnchanged, LoopDone, Rename, RenameFails, Push, EndUndo, PushBack
<1> QED
  BY <1>2, <1>3, <1>4, <1>5

\* HTTPUpgrade's port never comes from randomPort.
LEMMA UpgradePort ==
  ASSUME PortsCanBeKeptApart, TypeOK, UpgradesNotRandom, NEW j \in Jobs, job[j].req # None,
         NEW port \in SelectedPorts(j, Upgrade)
  PROVE  port \notin RandomPorts
<1>1. job[j].req \in Requests
  BY SetupFacts
<1>2. CASE job[j].req.ports[Upgrade] # 0
  BY <1>1, <1>2 DEF SelectedPorts, PortsCanBeKeptApart
<1>3. CASE job[j].req.ports[Upgrade] = 0 /\ Exists(j, Upgrade)
  <2>1. port = Old(j, Upgrade).port /\ Old(j, Upgrade) = job[j].snap[Existing(j, Upgrade)]
    BY <1>3 DEF SelectedPorts, Upgrade, Old
  <2>2. /\ Existing(j, Upgrade) \in Ids /\ job[j].snap[Existing(j, Upgrade)] # NoRow
        /\ job[j].snap[Existing(j, Upgrade)].proto = Upgrade
    BY <1>3, ExistingFacts
  <2> QED
    BY <2>1, <2>2 DEF UpgradesNotRandom, NotRandom, Of
<1>4. CASE job[j].req.ports[Upgrade] = 0 /\ ~Exists(j, Upgrade)
  BY <1>4 DEF SelectedPorts, Upgrade, PortsCanBeKeptApart
<1> QED
  BY <1>2, <1>3, <1>4

LEMMA UpgradesNotRandomNext ==
  ASSUME PortsCanBeKeptApart, Inv, UpgradesNotRandom, [Next]_vars,
         \A k \in Jobs : DraftFits(k)
  PROVE  UpgradesNotRandom'
<1>1. TypeOK
  BY DEF Inv
<1> DEFINE Kept(k) == /\ \A i \in Ids : NotRandom(job'[k].snap[i])
                      /\ job'[k].pc = "drafted" => NotRandom(job'[k].draft)
<1>2. ASSUME \A i \in Ids : NotRandom(rows'[i]), \A k \in Jobs : Kept(k)
      PROVE  UpgradesNotRandom'
  BY <1>2 DEF UpgradesNotRandom, NotRandom, Of
<1>3. ASSUME NEW k \in Jobs, job'[k] = Met(k) PROVE Kept(k)
  BY <1>3, MetMoves DEF UpgradesNotRandom
<1>4. ASSUME NEW k \in Jobs, job'[k] = job[k] PROVE Kept(k)
  BY <1>4 DEF UpgradesNotRandom
<1>5. \A i \in Ids : NotRandom(rows[i]) /\ NotRandom(NoRow)
  BY DEF UpgradesNotRandom, NotRandom, Of
<1>6. CASE OtherPush
  <2>1. rows' = rows /\ \A k \in Jobs : job'[k] = Met(k)
    BY <1>6 DEF OtherPush, store, Met
  <2> HIDE DEF Kept
  <2> QED
    BY <1>2, <1>3, <1>5, <2>1
<1>7. CASE Stop \/ UNCHANGED vars
  <2>1. rows' = rows /\ job' = job
    BY <1>7 DEF Stop, vars, store
  <2> HIDE DEF Kept
  <2> QED
    BY <1>2, <1>4, <1>5, <2>1
<1>8. ASSUME NEW j \in Jobs, NEW req \in Requests, Start(j, req) PROVE UpgradesNotRandom'
  <2>1. /\ rows' = rows /\ \A k \in Jobs : k # j => job'[k] = Met(k)
        /\ job'[j].snap = [i \in Ids |-> NoRow] /\ job'[j].pc # "drafted"
    BY <1>8, StartMoves DEF store
  <2>2. Kept(j)
    BY <1>5, <2>1
  <2> HIDE DEF Kept
  <2> QED
    BY <1>2, <1>3, <1>5, <2>1, <2>2
<1>9. ASSUME NEW j \in Jobs, Step(j), \A req \in Requests : ~Start(j, req)
      PROVE  UpgradesNotRandom'
  <2>1. /\ OthersStand(j)
        /\ job'[j].pc = "drafted" => Draft(j)
        /\ job'[j].snap \in {job[j].snap, rows, [i \in Ids |-> NoRow]}
    BY <1>9, ActorMoves
  <2>2. \A i \in Ids : NotRandom(rows'[i])
    <3> SUFFICES ASSUME NEW i \in Ids PROVE NotRandom(rows'[i])
      OBVIOUS
    <3>1. \/ rows'[i] \in {rows[i], NoRow, job[j].snap[i]}
          \/ job[j].pc = "drafted" /\ rows'[i] = job[j].draft
      BY <1>9, RowsCome
    <3> QED
      BY <1>5, <3>1 DEF UpgradesNotRandom
  <2>3. \A i \in Ids : NotRandom(job'[j].snap[i])
    BY <1>5, <2>1 DEF UpgradesNotRandom
  <2>4. ASSUME Draft(j) PROVE NotRandom(job'[j].draft)
    <3> DEFINE p == Proto(j)
    <3>1. PICK port \in SelectedPorts(j, p) : \E row \in Drafts(j, p, port) :
            p \in Protocols /\ port \in Ports /\ job'[j].draft = row
      BY <2>4, DraftMoves
    <3>2. PICK row \in Drafts(j, p, port) : job'[j].draft = row
      BY <3>1
    <3>3. row.proto = p /\ row.port = port
      BY <1>1, <3>1, DraftContent
    <3>4. job[j].req # None
      BY <2>4 DEF Draft, Inv, BookKept, Working
    <3>5. p = Upgrade => port \notin RandomPorts
      BY <1>1, <3>1, <3>4, UpgradePort
    <3> QED
      BY <3>2, <3>3, <3>5 DEF NotRandom, Of
  <2>5. Kept(j)
    BY <2>1, <2>3, <2>4
  <2> HIDE DEF Kept
  <2> QED
    BY <1>2, <1>4, <2>1, <2>2, <2>5 DEF OthersStand
<1> QED
  BY <1>6, <1>7, <1>8, <1>9 DEF Next

\* selectListenPort avoids what is reserved and what another inbound listens on.
LEMMA SelectedAvoids ==
  ASSUME NEW l, NEW current, NEW reserved, NEW q, q \notin RandomPorts,
         q \in reserved \/ (q \in Listening(l) /\ q # current)
  PROVE  q \notin Selected(l, current, reserved)
<1> DEFINE taken == (Listening(l) \ {current}) \cup reserved
           free == {k \in DOMAIN Conventional : Conventional[k] \notin taken}
           fallback == IF current # 0 /\ current \notin reserved THEN {current}
                                                                 ELSE RandomPorts
           best == IF free = {} THEN fallback
                   ELSE {Conventional[CHOOSE k \in free : \A m \in free : k <= m]}
<1>1. q \in taken
  OBVIOUS
<1>2. q \notin fallback
  OBVIOUS
<1>3. q \notin best
  <2>1. CASE free # {}
    <3>1. free \in SUBSET Nat
      BY Constants
    <3>2. \E k \in free : \A m \in free : k <= m
      BY <3>1, <2>1, LeastExists
    <3> DEFINE k == CHOOSE k \in free : \A m \in free : k <= m
    <3>3. k \in free
      BY <3>2
    <3>4. Conventional[k] # q
      BY <1>1, <3>3
    <3> QED
      BY <2>1, <3>4
  <2> QED
    BY <1>2, <2>1
<1>4. Selected(l, current, reserved)
        = best \cup (IF "probe" \in Faults THEN fallback ELSE {})
  BY DEF Selected
<1> HIDE DEF best, fallback
<1> QED
  BY <1>2, <1>3, <1>4

LEMMA NoClashApart ==
  ASSUME NEW cfg, ~Clash(cfg)
  PROVE  Apart(cfg)
BY DEF Clash, Apart, Of, Upgrade, Reality, Network

\* A node asked while it runs what the setup found: Reality's port is free.
LEMMA RealityAvoids ==
  ASSUME PortsCanBeKeptApart, PortInv, Tidy, left = {}, up, NEW j \in Jobs,
         job[j].pc = "loop", job[j].todo # <<>>, ~job[j].hadError, Proto(j) = Reality,
         NEW port \in SelectedPorts(j, Reality), NEW i \in Ids, Of(Upgrade, rows[i])
  PROVE  rows[i].port # port
<1> DEFINE q == rows[i].port
           old == Old(j, Reality)
           snap == job[j].snap
<1>1. /\ Inv /\ TypeOK /\ UpgradesNotRandom /\ ~Clash(running)
      /\ BookKept(job[j]) /\ Active(j)
  BY DEF PortInv, DomainInv, Inv, Active, Working
<1>2. Faithful(job[j], rows, running, left, domain) /\ Planned(job[j], rows)
  BY <1>1, TidyFacts DEF PortInv
<1>3. job[j].req \in Requests /\ job[j].todo \in Seq(Protocols)
  BY <1>1, SetupFacts DEF BookKept, Working
<1>4. port \in Selected("tcp", old.port, job[j].reserved["tcp"])
  <2>1. job[j].req.ports[Reality] = 0
    BY <1>3 DEF PortsCanBeKeptApart
  <2> QED
    BY <2>1 DEF SelectedPorts, Reality, Network
<1>5. q \notin RandomPorts /\ q # 0
  <2>1. rows[i] \in Row
    BY <1>1 DEF TypeOK, Of
  <2>2. q \in Ports
    BY <2>1 DEF Row
  <2> QED
    BY <1>1, <2>2, Constants DEF UpgradesNotRandom, NotRandom
<1>6. ToDo(job[j], Reality)
  BY <1>3, TailFacts DEF ToDo, Proto
<1>7. rows[i] = snap[i] \/ q \in job[j].reserved["tcp"]
  BY <1>2, <1>6 DEF Planned
<1>8. ASSUME rows[i] = snap[i] PROVE q \in Listening("tcp") /\ q # old.port
  <2>1. \A k \in Ids : running[k] = snap[k]
    BY <1>1, <1>2 DEF Faithful, BookKept
  <2>2. running[i] # NoRow /\ running[i].proto = Upgrade /\ running[i].port = q
    BY <1>8, <2>1 DEF Of
  <2>3. q \in Listening("tcp")
    BY <2>2 DEF Listening, PortsOf, Network, Upgrade
  <2>4. CASE Exists(j, Reality)
    <3> DEFINE e == Existing(j, Reality)
    <3>1. e \in Ids /\ snap[e] # NoRow /\ snap[e].proto = Reality /\ old = snap[e]
      BY <1>1, <2>4, ExistingFacts DEF Old
    <3>2. Apart(running)
      BY <1>1, NoClashApart
    <3>3. Of(Upgrade, running[i]) /\ Of(Reality, running[e])
      BY <2>1, <2>2, <3>1 DEF Of
    <3> QED
      BY <2>1, <2>2, <2>3, <3>1, <3>2, <3>3 DEF Apart
  <2>5. CASE ~Exists(j, Reality)
    BY <1>5, <2>3, <2>5 DEF Old
  <2> QED
    BY <2>4, <2>5
<1> HIDE DEF q, old, snap
<1>9. q \notin Selected("tcp", old.port, job[j].reserved["tcp"])
  BY <1>5, <1>7, <1>8, SelectedAvoids
<1> QED
  BY <1>4, <1>9 DEF q

\* Reality comes after HTTPUpgrade in the rest of a list, too.
LEMMA UpgradeFirstNext ==
  ASSUME Inv, NEW j \in Jobs, job[j].todo # <<>>, UpgradeFirst(job[j].todo)
  PROVE  /\ UpgradeFirst(Tail(job[j].todo))
         /\ Proto(j) = Upgrade => ToDo(job[j], Reality)
         /\ ToDo(job[j], Upgrade) => ToDo(job[j], Reality)
<1>1. job[j].todo \in Seq(Protocols)
  BY SetupFacts DEF Inv
<1> DEFINE todo == job[j].todo
           rest == Tail(todo)
<1>2. /\ DOMAIN rest = 1..(Len(todo) - 1) /\ DOMAIN todo = 1..Len(todo)
      /\ Len(todo) \in Nat \ {0} /\ 1 \in DOMAIN todo /\ todo[1] = Proto(j)
      /\ \A k \in DOMAIN rest : k + 1 \in DOMAIN todo /\ rest[k] = todo[k + 1]
      /\ \A k \in DOMAIN todo : k # 1 => k - 1 \in DOMAIN rest /\ rest[k - 1] = todo[k]
  BY <1>1, TailFacts DEF Proto
<1>3. \A k \in DOMAIN todo : todo[k] = Upgrade => \E m \in DOMAIN todo : k < m /\ todo[m] = Reality
  BY DEF UpgradeFirst
<1> HIDE DEF todo, rest
<1>4. ASSUME NEW k \in DOMAIN rest, rest[k] = Upgrade
      PROVE  \E m \in DOMAIN rest : k < m /\ rest[m] = Reality
  <2>1. PICK m \in DOMAIN todo : k + 1 < m /\ todo[m] = Reality
    BY <1>2, <1>3, <1>4
  <2>2. m # 1 /\ k < m - 1
    BY <1>2, <2>1
  <2>3. m - 1 \in DOMAIN rest /\ rest[m - 1] = Reality
    BY <1>2, <2>1, <2>2
  <2> QED
    BY <2>2, <2>3
<1>5. (\E k \in DOMAIN todo : todo[k] = Upgrade) => \E m \in DOMAIN todo : todo[m] = Reality
  BY <1>3
<1> QED
  BY <1>2, <1>4, <1>5 DEF UpgradeFirst, ToDo, todo, rest

\* What a step that is done with a protocol has made of its row.
LEMMA LoopWrites ==
  ASSUME Inv, NEW j \in Jobs,
         \/ SkipConfigured(j) \/ ProtocolFails(j) \/ SkipUnchanged(j)
         \/ UpdateRow(j) \/ CreateRow(j) \/ CreateUnread(j),
         ~job'[j].hadError
  PROVE  /\ job[j].pc = "loop" => Proto(j) = Upgrade /\ rows' = rows
         /\ job[j].pc = "drafted" =>
              /\ \A i \in Ids : rows'[i] = rows[i] \/ rows'[i] = job[j].draft
              /\ \/ rows' = rows /\ job[j].draft.port = Old(j, Proto(j)).port
                 \/ LET e == Existing(j, Proto(j)) IN
                      rows[e] # NoRow => rows'[e] = job[j].draft
                 \/ ~Exists(j, Proto(j))
<1>1. TypeOK /\ rows \in [Ids -> Row \cup {NoRow}] /\ job \in [Jobs -> Setup]
  BY DEF Inv, TypeOK
<1>2. CASE SkipConfigured(j)
  BY <1>2 DEF SkipConfigured, AlreadyConfigured, Upgrade, store
<1>3. CASE SkipUnchanged(j)
  <2>1. /\ rows' = rows /\ job[j].pc = "drafted" /\ Exists(j, Proto(j))
        /\ Unchanged(job[j].draft, Old(j, Proto(j)))
    BY <1>3 DEF SkipUnchanged, Ready, store
  <2>2. Old(j, Proto(j)) \in Row
    BY <1>1, <2>1, DoneFacts, OldRow DEF Inv, BookKept
  <2> QED
    BY <2>1, <2>2, UnchangedFacts
<1>4. CASE ProtocolFails(j) \/ CreateUnread(j)
  <2>1. Done(j) \in Setup
    BY <1>1, <1>4, DoneFacts DEF ProtocolFails, CreateUnread, Ready, Inv, BookKept
  <2>2. \/ job'[j] = [Done(j) EXCEPT !.hadError = TRUE]
        \/ job'[j] = [Done(j) EXCEPT !.hadError = TRUE,
                                    !.unread = Done(j).unread \cup {minted + 1}]
    BY <1>1, <1>4 DEF ProtocolFails, CreateUnread
  <2>3. job'[j].hadError
    BY <2>1, <2>2 DEF Setup
  <2> QED
    BY <2>3
<1>5. CASE UpdateRow(j)
  <2> DEFINE e == Existing(j, Proto(j))
  <2>1. /\ job[j].pc = "drafted" /\ Exists(j, Proto(j))
        /\ rows' = IF rows[e] = NoRow THEN rows ELSE [rows EXCEPT ![e] = job[j].draft]
    BY <1>5, UpdateRowFacts
  <2>2. e \in Ids
    BY <1>1, <2>1, ExistingFacts
  <2> HIDE DEF e
  <2>3. /\ \A i \in Ids : rows'[i] = rows[i] \/ rows'[i] = job[j].draft
        /\ rows[e] # NoRow => rows'[e] = job[j].draft
    BY <1>1, <2>1, <2>2
  <2> QED
    BY <2>1, <2>3 DEF e
<1>6. CASE CreateRow(j)
  BY <1>1, <1>6 DEF CreateRow, Ready
<1> QED
  BY <1>2, <1>3, <1>4, <1>5, <1>6

LEMMA PlannedLoop ==
  ASSUME PortInv, Tidy, Tidy', left = {}, up, NEW j \in Jobs,
         \/ SkipConfigured(j) \/ ProtocolFails(j) \/ SkipUnchanged(j)
         \/ UpdateRow(j) \/ CreateRow(j) \/ CreateUnread(j)
  PROVE  Planned(job'[j], rows')
<1> DEFINE p == Proto(j)
           s == job[j]
           t == job'[j]
           draft == job[j].draft
<1>1. Inv /\ TypeOK /\ DraftFits(j)
  BY DEF PortInv, DomainInv, Inv
<1>2. /\ s.pc \in {"loop", "drafted"} /\ s.todo # <<>>
      /\ t.pc = "loop" /\ t.todo = Tail(s.todo) /\ SameTask(j)
      /\ s.hadError => t.hadError
      /\ t.reserved = s.reserved
  BY <1>1, LoopMoves
<1>3. Migrates(s, rows, domain) /\ Planned(s, rows) /\ p \in Protocols
  BY <1>1, <1>2, TidyFacts, DoneFacts DEF Active, Working, PortInv
<1>4. UpgradeFirst(s.todo)
  BY <1>2, <1>3 DEF Planned
<1>5. /\ UpgradeFirst(t.todo)
      /\ p = Upgrade => ToDo(s, Reality)
      /\ ToDo(s, Upgrade) => ToDo(s, Reality)
  BY <1>1, <1>2, <1>4, UpgradeFirstNext
<1>6. SUFFICES ASSUME ~t.hadError
               PROVE  IF ToDo(t, Reality)
                        THEN \A i \in Ids : Of(Upgrade, rows'[i]) =>
                               rows'[i] = t.snap[i] \/ rows'[i].port \in t.reserved["tcp"]
                        ELSE Apart(rows')
  BY <1>2, <1>5 DEF Planned
<1>7. ~s.hadError /\ Moving(s, rows) /\ OneOfEach(s.snap)
  BY <1>2, <1>3, <1>6 DEF Migrates, InOrder
<1>8. /\ ToDo(s, p) /\ ~ToDo(t, p)
      /\ \A q : q # p => (ToDo(t, q) <=> ToDo(s, q))
  BY <1>1, <1>2, <1>7, ToDoNext DEF Moving
<1>9. /\ s.pc = "loop" => p = Upgrade /\ rows' = rows
      /\ s.pc = "drafted" =>
           /\ \A i \in Ids : rows'[i] = rows[i] \/ rows'[i] = draft
           /\ \/ rows' = rows /\ draft.port = Old(j, p).port
              \/ rows[Existing(j, p)] # NoRow => rows'[Existing(j, p)] = draft
              \/ ~Exists(j, p)
           /\ draft.proto = p
  BY <1>1, <1>6, LoopWrites DEF DraftFits
<1>10. \A i \in Ids : rows'[i] = rows[i] \/ (s.pc = "drafted" /\ rows'[i] = draft)
  BY <1>2, <1>9
<1>11. t.snap = s.snap
  BY <1>2 DEF SameTask
<1>12. CASE p = Upgrade
  <2>1. ToDo(s, Reality) /\ ToDo(t, Reality)
    BY <1>5, <1>8, <1>12 DEF Upgrade, Reality
  <2> SUFFICES ASSUME NEW i \in Ids, Of(Upgrade, rows'[i])
               PROVE  rows'[i] = s.snap[i] \/ rows'[i].port \in s.reserved["tcp"]
    BY <1>2, <1>11, <2>1
  <2>2. CASE rows'[i] = rows[i]
    BY <1>2, <1>3, <1>7, <2>1, <2>2 DEF Planned
  <2>3. CASE s.pc = "drafted" /\ rows'[i] = draft
    BY <1>3, <1>7, <1>9, <1>12, <2>3 DEF Planned
  <2> QED
    BY <1>10, <2>2, <2>3
<1>13. CASE p = Reality
  <2>1. ~ToDo(t, Reality) /\ s.pc = "drafted" /\ draft.proto = Reality
    BY <1>2, <1>8, <1>9, <1>13 DEF Upgrade, Reality
  <2> SUFFICES ASSUME NEW i \in Ids, NEW k \in Ids, Of(Upgrade, rows'[i]), Of(Reality, rows'[k])
               PROVE  rows'[i].port # rows'[k].port
    BY <2>1 DEF Apart
  <2>2. rows'[i] = rows[i]
    BY <1>10, <2>1 DEF Of, Upgrade, Reality
  <2>3. rows[i].port # draft.port
    BY <1>3, <1>7, <2>1, <2>2 DEF Planned
  <2>4. rows'[k].port = draft.port
    <3>1. CASE rows'[k] = rows[k]
      <4>1. /\ rows[k] # NoRow /\ Exists(j, p) /\ k = Existing(j, p)
            /\ Old(j, p) = s.snap[k] /\ rows[k] = s.snap[k]
        BY <1>1, <1>2, <1>7, <1>13, <3>1, MovingRows DEF Of
      <4> QED
        BY <1>9, <2>1, <3>1, <4>1
    <3> QED
      BY <1>10, <3>1
  <2> QED
    BY <2>2, <2>3, <2>4
<1>14. CASE p \notin {Upgrade, Reality}
  <2>1. ToDo(t, Reality) <=> ToDo(s, Reality)
    BY <1>8, <1>14
  <2>2. \A i \in Ids : Of(Upgrade, rows'[i]) \/ Of(Reality, rows'[i]) => rows'[i] = rows[i]
    BY <1>9, <1>10, <1>14 DEF Of
  <2>3. IF ToDo(s, Reality)
          THEN \A i \in Ids : Of(Upgrade, rows[i]) =>
                 rows[i] = s.snap[i] \/ rows[i].port \in s.reserved["tcp"]
          ELSE Apart(rows)
    BY <1>2, <1>3, <1>7 DEF Planned
  <2> HIDE DEF s, t
  <2>4. Apart(rows) => Apart(rows')
    BY <2>2 DEF Apart
  <2> QED
    BY <1>2, <1>11, <2>1, <2>2, <2>3, <2>4
<1> QED
  BY <1>12, <1>13, <1>14

LEMMA PlannedOnward ==
  ASSUME PortsCanBeKeptApart, PortInv, Tidy, left = {}, up, NEW j \in Jobs,
         \/ List(j) \/ Unreachable(j) \/ Draft(j) \/ LoopDone(j) \/ Rename(j) \/ RenameFails(j)
  PROVE  Active(j)' => Planned(job'[j], rows')
<1>1. Inv /\ TypeOK /\ DraftFits(j) /\ BookKept(job[j])
  BY DEF PortInv, DomainInv, Inv
<1>2. Active(j)
  BY DEF List, Unreachable, Draft, LoopDone, Rename, RenameFails, Active, Working
<1>3. Planned(job[j], rows) /\ \A k \in Jobs : Active(k) => k = j
  BY <1>2, TidyFacts DEF PortInv
<1>4. CASE List(j) /\ MigrationComplete(j)
  <2>1. /\ job'[j].pc = "loop" /\ job'[j].snap = rows /\ job'[j].todo = job[j].todo
        /\ rows' = rows /\ job[j].pc = "list"
    BY <1>1, <1>4, ListMoves DEF List, store
  <2>2. Hold(job[j]) = {}
    BY <1>1, <2>1 DEF BookKept, Hold
  <2>3. \A i \in Ids : running[i] = rows[i]
    BY <1>1, <1>3, <2>2 DEF Inv, Accounted
  <2>4. Apart(running)
    BY NoClashApart DEF PortInv
  <2>5. Apart(rows)
    BY <2>3, <2>4 DEF Apart
  <2> QED
    BY <1>3, <2>1, <2>5 DEF Planned
<1>5. CASE (List(j) /\ ~MigrationComplete(j)) \/ Unreachable(j)
  <2>1. job' = [job EXCEPT ![j] = Answered(j, "rejected")] /\ "rejected" \in Answers
    BY <1>5 DEF List, Unreachable, Answers
  <2> QED
    BY <1>1, <2>1, AnswerMoves DEF Active
<1>6. CASE Draft(j)
  <2> DEFINE p == Proto(j)
  <2>1. PICK port \in SelectedPorts(j, p) : \E row \in Drafts(j, p, port) :
          /\ job[j].pc = "loop" /\ job[j].todo # <<>> /\ p \in Protocols
          /\ port \in Ports /\ row \in Row
          /\ job'[j].pc = "drafted" /\ job'[j].draft = row
          /\ SameTask(j) /\ job'[j].todo = job[j].todo /\ job'[j].hadError = job[j].hadError
          /\ \A l \in {"tcp", "udp"} : job[j].reserved[l] \subseteq job'[j].reserved[l]
          /\ Reserves(j, p) => port \in job'[j].reserved[Network(p)]
          /\ rows' = rows
    BY <1>1, <1>6, DraftMoves DEF store
  <2>2. PICK row \in Drafts(j, p, port) : job'[j].draft = row
    BY <2>1
  <2>3. row.proto = p /\ row.port = port
    BY <1>1, <2>1, DraftContent
  <2>4. p = Upgrade => port \in job'[j].reserved["tcp"]
    BY <2>1 DEF Reserves, Upgrade, Network
  <2>5. p = Reality /\ ~job[j].hadError => \A i \in Ids : Of(Upgrade, rows[i]) => rows[i].port # port
    BY <2>1, RealityAvoids
  <2>6. \A q : ToDo(job'[j], q) <=> ToDo(job[j], q)
    BY <2>1 DEF ToDo
  <2>7. job'[j].snap = job[j].snap /\ job[j].reserved["tcp"] \subseteq job'[j].reserved["tcp"]
    BY <2>1 DEF SameTask
  <2>8. ~job[j].hadError =>
          IF ToDo(job'[j], Reality)
            THEN \A i \in Ids : Of(Upgrade, rows[i]) =>
                   rows[i] = job'[j].snap[i] \/ rows[i].port \in job'[j].reserved["tcp"]
            ELSE Apart(rows)
    BY <1>3, <2>1, <2>6, <2>7 DEF Planned
  <2> HIDE DEF p
  <2> QED
    BY <1>3, <2>1, <2>2, <2>3, <2>4, <2>5, <2>8 DEF Planned
<1>7. CASE LoopDone(j)
  <2>1. /\ job[j].pc = "loop" /\ job[j].todo = <<>> /\ rows' = rows
        /\ job'[j].pc = IF job[j].hadError THEN "undo"
                        ELSE IF job[j].domain # job[j].was THEN "rename" ELSE "push"
    BY <1>1, <1>7, LoopDoneMoves DEF store
  <2>2. ~ToDo(job[j], Reality)
    BY <2>1 DEF ToDo
  <2>3. ~job[j].hadError => Apart(rows)
    BY <1>3, <2>1, <2>2 DEF Planned
  <2> QED
    BY <2>1, <2>3 DEF Planned
<1>8. CASE Rename(j) \/ RenameFails(j)
  <2>1. job[j].pc = "rename" /\ rows' = rows /\ job'[j].pc \in {"push", "undo"}
    BY <1>1, <1>8, RenameMoves
  <2> QED
    BY <1>3, <2>1 DEF Planned
<1> QED
  BY <1>4, <1>5, <1>6, <1>7, <1>8

\* The protocols of a request: those asked for, or those suggested.
LEMMA RequestsAreOrdered ==
  ASSUME PortsCanBeKeptApart, NEW req \in Requests, NEW d
  PROVE  UpgradeFirst(ProtocolsFor(req, d))
<1>1. UpgradeFirst(req.protocols)
  BY DEF PortsCanBeKeptApart
<1>2. UpgradeFirst(<<"vless-reality">>)
  BY DEF UpgradeFirst, Upgrade
<1>3. UpgradeFirst(<<"hysteria2", "vless-reality">>)
  <2> DEFINE s == <<"hysteria2", "vless-reality">>
  <2>1. DOMAIN s = 1..2 /\ s[1] = "hysteria2" /\ s[2] = "vless-reality"
    OBVIOUS
  <2> HIDE DEF s
  <2>2. \A k \in DOMAIN s : k = 1 \/ k = 2
    BY <2>1
  <2>3. UpgradeFirst(s)
    BY <2>1, <2>2 DEF UpgradeFirst, Upgrade
  <2> QED
    BY <2>3 DEF s
<1>4. UpgradeFirst(<<"vless-httpupgrade", "vless-reality">>)
  <2> DEFINE s == <<"vless-httpupgrade", "vless-reality">>
  <2>1. DOMAIN s = 1..2 /\ s[1] = "vless-httpupgrade" /\ s[2] = "vless-reality"
    OBVIOUS
  <2> HIDE DEF s
  <2>2. \A k \in DOMAIN s : k = 1 \/ k = 2
    BY <2>1
  <2>3. 2 \in DOMAIN s /\ 1 < 2 /\ s[2] = Reality /\ s[2] # Upgrade
    BY <2>1 DEF Upgrade, Reality
  <2>4. UpgradeFirst(s)
    BY <2>2, <2>3 DEF UpgradeFirst
  <2> QED
    BY <2>4 DEF s
<1> QED
  BY <1>1, <1>2, <1>3, <1>4 DEF ProtocolsFor, Suggested

\* sing-box that runs has its ports, and only rows that do not clash let it.
LEMMA UpMeansNoClash ==
  ASSUME Inv, up => ~Clash(running), [Next]_vars
  PROVE  up' => ~Clash(running')
<1>1. CASE Pushed
  BY <1>1 DEF Pushed, Starts
<1>2. CASE Refused
  BY <1>2 DEF Refused, Starts
<1>3. CASE UNCHANGED running /\ (up' = up \/ up' = FALSE)
  BY <1>3
<1>4. ASSUME NEW j \in Jobs, Step(j)
      PROVE  Pushed \/ Refused \/ UNCHANGED <<running, up>>
  BY <1>4 DEF Step, Start, List, Unreachable, SkipConfigured, Draft, ProtocolFails, SkipUnchanged,
     UpdateRow, CreateRow, CreateUnread, LoopDone, Rename, RenameFails, Push, Uncreate, Restore,
     EndUndo, PushBack, Lost
<1>5. CASE OtherPush \/ Stop \/ UNCHANGED vars
  BY <1>1, <1>2, <1>3, <1>5 DEF OtherPush, Stop, vars
<1> QED
  BY <1>1, <1>2, <1>3, <1>4, <1>5 DEF Next

LEMMA PortNext ==
  ASSUME PortsCanBeKeptApart, PortInv, [Next]_vars
  PROVE  PortInv'
<1>1. Inv /\ DomainInv /\ \A k \in Jobs : DraftFits(k)
  BY DEF PortInv, DomainInv
<1>2. DomainInv' /\ UpgradesNotRandom'
  BY <1>1, DomainNext, UpgradesNotRandomNext DEF PortInv
<1>3. up' => ~Clash(running')
  BY <1>1, UpMeansNoClash DEF PortInv
<1>4. ASSUME Tidy', left' = {}, up', NEW k \in Jobs, Active(k)'
      PROVE  Planned(job'[k], rows')
  <2>1. Tidy
    BY <1>1, <1>4, TidyStays
  <2>2. ASSUME job'[k] = Met(k) PROVE FALSE
    <3>1. Met(k).alone /\ Met(k).pc = job[k].pc
      BY <1>1, <1>4, <2>2, MetMoves DEF Tidy, AllAlone
    <3> QED
      BY <1>1, <1>4, <2>2, <3>1, MetMoves DEF Active
  <2>3. CASE OtherPush
    BY <2>2, <2>3 DEF OtherPush, Met
  <2>4. CASE Stop \/ UNCHANGED vars
    <3>1. UNCHANGED <<rows, job, left, up>>
      BY <1>4, <2>4 DEF Stop, vars, store
    <3>2. left = {} /\ up /\ Active(k)
      BY <1>4, <3>1 DEF Active
    <3>3. Planned(job[k], rows)
      BY <2>1, <3>2 DEF PortInv
    <3> QED
      BY <3>1, <3>3
  <2>5. ASSUME NEW j \in Jobs, NEW req \in Requests, Start(j, req)
        PROVE  Planned(job'[k], rows')
    <3> DEFINE d == IF req.domain = None THEN domain ELSE req.domain
    <3>1. /\ \A m \in Jobs : m # j => job'[m] = Met(m)
          /\ \/ job'[j].pc = "rejected"
             \/ job'[j].pc = "list" /\ job'[j].todo = ProtocolsFor(req, d)
      BY <1>1, <2>5, StartMoves
    <3>2. k = j
      BY <2>2, <3>1
    <3>3. job'[k].pc = "list" /\ job'[k].todo = ProtocolsFor(req, d)
      BY <1>4, <3>1, <3>2 DEF Active, Working
    <3> HIDE DEF d
    <3> QED
      BY <3>3, RequestsAreOrdered DEF Planned
  <2>6. ASSUME NEW j \in Jobs, Step(j), \A req \in Requests : ~Start(j, req)
        PROVE  Planned(job'[k], rows')
    <3>1. Active(j) /\ OthersStand(j)
      BY <1>1, <2>6, SteppersAreActive, ActorMoves
    <3>2. k = j
      <4>1. k # j => Active(k)
        BY <1>4, <3>1 DEF OthersStand, Active
      <4> QED
        BY <1>1, <2>1, <3>1, <4>1, TidyFacts
    <3>3. CASE \/ SkipConfigured(j) \/ ProtocolFails(j) \/ SkipUnchanged(j)
               \/ UpdateRow(j) \/ CreateRow(j) \/ CreateUnread(j)
      <4>1. left = {} /\ up
        BY <1>1, <1>4, <3>3, LoopMoves
      <4> QED
        BY <1>4, <2>1, <3>2, <3>3, <4>1, PlannedLoop
    <3>4. CASE \/ List(j) \/ Unreachable(j) \/ Draft(j) \/ LoopDone(j)
               \/ Rename(j) \/ RenameFails(j)
      <4>1. left = {} /\ up
        BY <1>4, <3>4 DEF List, Unreachable, Draft, LoopDone, Rename, RenameFails
      <4> QED
        BY <1>4, <2>1, <3>2, <3>4, <4>1, PlannedOnward
    <3>5. ASSUME job'[j].pc \in {"undo", "pushBack"} \cup Answers PROVE Planned(job'[k], rows')
      BY <3>2, <3>5 DEF Planned, Answers, Undone
    <3>6. CASE \/ Push(j) \/ EndUndo(j) \/ PushBack(j)
               \/ \E i \in Ids : Uncreate(j, i) \/ Restore(j, i)
      <4>1. ASSUME NEW answer \in Answers, job' = [job EXCEPT ![j] = Answered(j, answer)]
            PROVE  job'[j].pc \in Answers
        BY <1>1, <4>1, AnswerMoves
      <4>2. CASE Push(j)
        BY <1>1, <3>5, <4>1, <4>2, RefusedPushMoves DEF Answers
      <4>3. CASE EndUndo(j)
        BY <1>1, <3>5, <4>1, <4>3, EndUndoMoves
      <4>4. CASE PushBack(j)
        BY <3>5, <4>1, <4>4 DEF PushBack, Answers, Undone
      <4>5. CASE \E i \in Ids : Uncreate(j, i) \/ Restore(j, i)
        BY <1>1, <3>5, <4>5, UndoMoves
      <4> QED
        BY <3>6, <4>2, <4>3, <4>4, <4>5
    <3> QED
      BY <2>6, <3>3, <3>4, <3>6 DEF Step
  <2> QED
    BY <2>3, <2>4, <2>5, <2>6 DEF Next
<1>5. \A k \in Jobs : Planned(job'[k], rows') <=> Planned(job[k], rows)'
  BY DEF Planned, ToDo, UpgradeFirst, Apart, Of
<1>6. Clash(running') <=> Clash(running)'
  BY DEF Clash
<1> QED
  BY <1>2, <1>3, <1>4, <1>5, <1>6 DEF PortInv

LEMMA PortInit ==
  ASSUME PortsCanBeKeptApart, Init, DomainBoundRowsFollowDomain
  PROVE  PortInv
<1>1. DomainInv
  BY DomainInit DEF PortsCanBeKeptApart
<1>2. \A j \in Jobs : job[j].pc = "start" /\ \A i \in Ids : job[j].snap[i] = NoRow
  BY DEF Init, NoJob
<1>3. UpgradesNotRandom
  BY <1>2 DEF UpgradesNotRandom, NotRandom, Of, Init, PortsCanBeKeptApart
<1>4. ~Clash(running) /\ \A j \in Jobs : ~Active(j)
  BY <1>2 DEF Init, PortsCanBeKeptApart, Active, Working
<1> QED
  BY <1>1, <1>3, <1>4 DEF PortInv

\* "Without it, a fresh CDN node would give 443 to HTTPUpgrade and then hand the
\* same 443 to Reality" (setup.go): what a setup that nothing met is about to push
\* has no two inbounds on a port, if sing-box was up to be asked for its ports and
\* HTTPUpgrade, which looks at nothing, comes before Reality, which does.  (The
\* run `ports' lists them the other way round.)
THEOREM PortsAreKeptApart ==
  ASSUME PortsCanBeKeptApart
  PROVE  DomainBoundRowsFollowDomain /\ Spec => []PortsDoNotCollide
<1>1. ASSUME PortInv PROVE PortsDoNotCollide
  <2> SUFFICES ASSUME Orderly, up, NEW j \in Jobs, job[j].pc = "push",
                      NEW i \in Ids, NEW k \in Ids, i # k, rows[i] # NoRow, rows[k] # NoRow,
                      Network(rows[i].proto) = Network(rows[k].proto)
               PROVE  rows[i].port # rows[k].port
    BY DEF PortsDoNotCollide, Clash
  <2>1. Inv /\ TypeOK /\ DomainInv /\ Active(j)
    BY <1>1 DEF PortInv, DomainInv, Inv, Active, Working
  <2>2. \A m \in Jobs : ~job[m].undoFailed
    BY <2>1 DEF Inv, Undisturbed, Orderly, AllAlone, BookKept, Active, Working
  <2>3. Tidy /\ left = {}
    BY <2>2 DEF Tidy, Orderly
  <2>4. InOrder(rows, job[j].domain) /\ Apart(rows)
    BY <1>1, <2>1, <2>3, TidyFacts DEF PortInv, Planned, Migrates
  <2>5. rows[i].proto # rows[k].proto
    BY <2>4 DEF InOrder, OneOfEach
  <2>6. rows[i].proto \in Protocols /\ rows[k].proto \in Protocols
    BY <2>1 DEF TypeOK, Row
  <2> QED
    BY <2>4, <2>5, <2>6 DEF Apart, Of, Network, Protocols, Upgrade, Reality
<1>2. DomainBoundRowsFollowDomain /\ Init => PortInv
  BY PortInit
<1>3. PortInv /\ [Next]_vars => PortInv'
  BY PortNext
<1> QED
  BY <1>1, <1>2, <1>3, PTL DEF Spec

-----------------------------------------------------------------------------
(***************************************************************************)
(* Running a setup again.  Once a setup nothing met has succeeded on a     *)
(* node in step, each of its protocols has the settings the same request   *)
(* would choose, and selectListenPort would choose its port once more:     *)
(* every port it prefers to that one is blocked, by another program or by  *)
(* an inbound of the node.                                                 *)
(***************************************************************************)
Last(rs, p, i) == Of(p, rs[i]) /\ \A k \in Ids : Of(p, rs[k]) => k <= i

Listed(s, p) ==
  LET ps == ProtocolsFor(s.req, s.domain) IN \E k \in DOMAIN ps : ps[k] = p

Blocked(rs, l) == Foreign[l] \cup PortsOf(rs, l)

Preferred(rs, l, port) ==
  \/ port \in RandomPorts
  \/ \E k \in DOMAIN Conventional :
       /\ Conventional[k] = port
       /\ \A m \in DOMAIN Conventional : m < k => Conventional[m] \in Blocked(rs, l)
  \/ \A m \in DOMAIN Conventional : Conventional[m] \in Blocked(rs, l)

\* The settings of row r are those request req asks for on domain d.
Configured(r, req, d) ==
  /\ req.ports[r.proto] \in {0, r.port}
  /\ r.proto \in DomainBound => r.domain = d
  /\ r.proto = "hysteria2" =>
       /\ r.profile # None /\ req.profile \in {None, r.profile}
       /\ r.profile = "salamander" => r.secret # None
  /\ r.proto = Reality =>
       /\ r.domain = IF d \in Direct THEN d ELSE None
       /\ r.sni # None /\ req.sni \in {None, r.sni}

Settled(rs, p, req, d) ==
  \E i \in Ids :
    /\ Last(rs, p, i) /\ Configured(rs[i], req, d)
    /\ p # Upgrade /\ req.ports[p] = 0 => Preferred(rs, Network(p), rs[i].port)

InPlace(req, rs, d) ==
  /\ req.domain \in {None, d}
  /\ LET ps == ProtocolsFor(req, d) IN \A k \in DOMAIN ps : Settled(rs, ps[k], req, d)

\* What setup s has to do is what its request lists, each once.
Task(s) ==
  /\ s.domain = IF s.req.domain = None THEN s.was ELSE s.req.domain
  /\ NoRepeat(s)
  /\ \A p \in Protocols : ToDo(s, p) => Listed(s, p)
  /\ s.pc = "list" =>
       s.reserved = NoReserved /\ \A p \in Protocols : Listed(s, p) => ToDo(s, p)
  /\ s.pc \in {"rename", "push"} => ~s.hadError /\ \A p \in Protocols : ~ToDo(s, p)

\* How far setup s has got with its rows rs: what is to do is as it was found,
\* what is done is settled, and no port has come free that Reality would prefer.
Progress(s, rs) ==
  /\ \A i \in Ids : s.snap[i] # NoRow =>
       /\ rs[i] # NoRow /\ rs[i].proto = s.snap[i].proto
       /\ rs[i].proto = Upgrade => rs[i].port = s.snap[i].port
       /\ rs[i] # s.snap[i] => ~ToDo(s, rs[i].proto)
  /\ \A i \in Ids : rs[i] # NoRow /\ s.snap[i] = NoRow => ~ToDo(s, rs[i].proto)
  /\ \A p \in Protocols : Listed(s, p) /\ ~ToDo(s, p) => Settled(rs, p, s.req, s.domain)
  /\ \A l \in {"tcp", "udp"} : \A q \in s.reserved[l] :
       \/ \E i \in Ids : /\ rs[i] # NoRow /\ ~ToDo(s, rs[i].proto)
                         /\ Network(rs[i].proto) = l /\ rs[i].port = q
       \/ s.pc = "drafted" /\ l = Network(s.draft.proto) /\ q = s.draft.port

\* Where the draft of setup s goes: over the last inbound of its protocol, or
\* after the m ids handed out.
Place(s, m, i) ==
  IF \E k \in Ids : Of(s.draft.proto, s.snap[k]) THEN Last(s.snap, s.draft.proto, i)
                                                 ELSE i = m + 1

\* Once its draft is written, its protocol is settled too.
Drafted(s, rs, m) ==
  s.pc = "drafted" => \A i \in Ids : Place(s, m, i) =>
    /\ Settled([rs EXCEPT ![i] = s.draft], s.draft.proto, s.req, s.domain)
    /\ s.draft.proto = Upgrade /\ s.snap[i] # NoRow => s.draft.port = s.snap[i].port

\* Setup s repeats the last one, and finds nothing to do; u: sing-box is up.
Repeats(s, u) ==
  /\ \A p \in Protocols :
       ToDo(s, p) /\ p # Upgrade /\ (s.pc = "drafted" => p # s.draft.proto) =>
         s.reserved[Network(p)] = {}
  /\ s.pc = "drafted" => s.draft.proto # Upgrade
  /\ s.pc = "drafted" /\ u =>
       \E i \in Ids :
         /\ Last(s.snap, s.draft.proto, i)
         /\ Unchanged(s.draft, [s.snap[i] EXCEPT !.port = s.draft.port])
         /\ s.draft.port = s.snap[i].port \/ s.snap[i].port \in RandomPorts

Works(s, rs, m, d, lf, st, u) ==
  s.pc \in {"list", "loop", "drafted", "rename", "push"} =>
    /\ Task(s)
    /\ s.pc = "push" => d = s.domain
    /\ lf = {} /\ s.pc # "list" /\ ~s.hadError => Progress(s, rs) /\ Drafted(s, rs, m)
    /\ st # None /\ s.pc # "list" => InPlace(st, s.snap, s.was)
    /\ st = s.req /\ s.pc \in {"loop", "drafted"} => Repeats(s, u)

RerunInv ==
  /\ Inv /\ \A j \in Jobs : DraftFits(j)
  /\ settled # None =>
       /\ left = {}
       /\ (\A j \in Jobs : Active(j) => job[j].pc = "list") => InPlace(settled, rows, domain)
  /\ \A j \in Jobs : Active(j) /\ job[j].alone =>
       Works(job[j], rows, minted, domain, left, settled, up)

\* What a repeated setup needs to find nothing to do: its probes of ports and
\* handshake targets are answered, and nobody moves HTTPUpgrade by hand, which
\* would free a port Reality prefers.
ProbesAreAnswered ==
  /\ {"probe", "target"} \cap Faults = {}
  /\ \A r \in Requests : r.ports[Upgrade] = 0

\* What selectListenPort returns when its probe is answered.
LEMMA SelectedForm ==
  ASSUME "probe" \notin Faults, NEW l, NEW current, NEW reserved,
         NEW port \in Selected(l, current, reserved)
  PROVE  LET taken == (Listening(l) \ {current}) \cup reserved IN
         \/ \E k \in DOMAIN Conventional :
              /\ Conventional[k] = port /\ port \notin taken
              /\ \A m \in DOMAIN Conventional : m < k => Conventional[m] \in taken
         \/ /\ \A m \in DOMAIN Conventional : Conventional[m] \in taken
            /\ IF current # 0 /\ current \notin reserved THEN port = current
                                                          ELSE port \in RandomPorts
<1> DEFINE taken == (Listening(l) \ {current}) \cup reserved
           free == {k \in DOMAIN Conventional : Conventional[k] \notin taken}
           fallback == IF current # 0 /\ current \notin reserved THEN {current}
                                                                 ELSE RandomPorts
           best == IF free = {} THEN fallback
                   ELSE {Conventional[CHOOSE k \in free : \A m \in free : k <= m]}
<1>1. Selected(l, current, reserved) = best
  BY DEF Selected
<1>2. CASE free = {}
  BY <1>1, <1>2
<1>3. CASE free # {}
  <2>1. free \in SUBSET Nat
    BY Constants
  <2>2. \E k \in free : \A m \in free : k <= m
    BY <1>3, <2>1, LeastExists
  <2> DEFINE k == CHOOSE k \in free : \A m \in free : k <= m
  <2>3. k \in free /\ \A m \in free : k <= m
    BY <2>2
  <2>4. port = Conventional[k]
    BY <1>1, <1>3
  <2> HIDE DEF k
  <2>5. \A m \in DOMAIN Conventional : m < k => Conventional[m] \in taken
    <3> SUFFICES ASSUME NEW m \in DOMAIN Conventional, m < k PROVE m \notin free
      OBVIOUS
    <3> QED
      BY <2>1, <2>3, Constants
  <2>6. port \notin taken /\ k \in DOMAIN Conventional
    BY <2>3, <2>4
  <2> HIDE DEF taken, free
  <2>7. \E n \in DOMAIN Conventional :
          /\ Conventional[n] = port /\ port \notin taken
          /\ \A m \in DOMAIN Conventional : m < n => Conventional[m] \in taken
    BY <2>4, <2>5, <2>6
  <2> QED
    BY <2>7 DEF taken
<1> QED
  BY <1>2, <1>3

\* Half-way, the inbounds of a protocol that is still to do are as found.
LEMMA UntouchedRows ==
  ASSUME NEW s, NEW rs, Progress(s, rs), NEW p, ToDo(s, p), NEW i \in Ids
  PROVE  /\ Of(p, rs[i]) <=> Of(p, s.snap[i])
         /\ Of(p, rs[i]) => rs[i] = s.snap[i]
BY DEF Progress, Of

\* The last inbound of a protocol is the one existingProtos keeps.
LEMMA LastIsExisting ==
  ASSUME TypeOK, NEW j \in Jobs, NEW p
  PROVE  /\ Exists(j, p) <=> \E k \in Ids : Of(p, job[j].snap[k])
         /\ Exists(j, p) => /\ Existing(j, p) \in Ids
                            /\ Last(job[j].snap, p, Existing(j, p))
                            /\ Old(j, p) = job[j].snap[Existing(j, p)]
         /\ \A i \in Ids : Last(job[j].snap, p, i) => i = Existing(j, p)
<1>1. ExistingIds(j, p) = {i \in Ids : Of(p, job[j].snap[i])}
  BY DEF ExistingIds, Of
<1>2. Exists(j, p) <=> \E k \in Ids : Of(p, job[j].snap[k])
  BY <1>1 DEF Exists
<1>3. Ids \in SUBSET Nat
  BY ConstantsAssumption DEF ConstantsAssumption, Ids
<1>4. ASSUME Exists(j, p)
      PROVE  Existing(j, p) \in ExistingIds(j, p)
             /\ \A k \in ExistingIds(j, p) : k <= Existing(j, p)
  <2>1. MaxId \in Nat /\ ExistingIds(j, p) \in SUBSET (1..MaxId) /\ ExistingIds(j, p) # {}
    BY <1>4, ConstantsAssumption DEF ConstantsAssumption, ExistingIds, Ids, Exists
  <2>2. \E i \in ExistingIds(j, p) : \A k \in ExistingIds(j, p) : k <= i
    BY <2>1, GreatestExists
  <2> QED
    BY <2>2 DEF Existing
<1>5. Exists(j, p) => Last(job[j].snap, p, Existing(j, p)) /\ Existing(j, p) \in Ids
  BY <1>1, <1>4 DEF Last
<1>6. Exists(j, p) => Old(j, p) = job[j].snap[Existing(j, p)]
  BY DEF Old
<1>7. ASSUME NEW i \in Ids, Last(job[j].snap, p, i) PROVE i = Existing(j, p)
  <2>1. Exists(j, p)
    BY <1>2, <1>7 DEF Last
  <2>2. i <= Existing(j, p) /\ Existing(j, p) <= i
    BY <1>1, <1>4, <1>7, <2>1 DEF Last
  <2>3. i \in Nat /\ Existing(j, p) \in Nat
    BY <1>3, <1>5, <2>1
  <2> QED
    BY <2>2, <2>3
<1> QED
  BY <1>2, <1>5, <1>6, <1>7

\* A protocol stays settled while its inbounds stay and no port of its network
\* comes free.
LEMMA SettledKeeps ==
  ASSUME NEW rs, NEW rt, NEW p, NEW req, NEW d, Settled(rs, p, req, d),
         \A i \in Ids : Of(p, rs[i]) \/ Of(p, rt[i]) => rt[i] = rs[i],
         p # Upgrade => PortsOf(rs, Network(p)) \subseteq PortsOf(rt, Network(p))
  PROVE  Settled(rt, p, req, d)
<1>1. PICK i \in Ids :
        /\ Last(rs, p, i) /\ Configured(rs[i], req, d)
        /\ p # Upgrade /\ req.ports[p] = 0 => Preferred(rs, Network(p), rs[i].port)
  BY DEF Settled
<1>2. rt[i] = rs[i] /\ Last(rt, p, i)
  BY <1>1 DEF Last
<1>3. p # Upgrade => Blocked(rs, Network(p)) \subseteq Blocked(rt, Network(p))
  BY DEF Blocked
<1>4. p # Upgrade /\ Preferred(rs, Network(p), rs[i].port)
        => Preferred(rt, Network(p), rs[i].port)
  BY <1>3 DEF Preferred
<1> QED
  BY <1>1, <1>2, <1>4 DEF Settled

\* ... and it is settled whatever the key pair of a Reality inbound.
LEMMA SettledUnchanged ==
  ASSUME rows \in [Ids -> Row \cup {NoRow}], NEW e \in Ids, NEW new \in Row,
         NEW old \in Row, Unchanged(new, old), NEW p, NEW req, NEW d,
         Settled([rows EXCEPT ![e] = new], p, req, d)
  PROVE  Settled([rows EXCEPT ![e] = old], p, req, d)
<1> DEFINE rs == [rows EXCEPT ![e] = new]
           rt == [rows EXCEPT ![e] = old]
<1>1. /\ rs[e] = new /\ rt[e] = old
      /\ \A i \in Ids : i # e => rs[i] = rt[i]
  OBVIOUS
<1>2. /\ new.proto = old.proto /\ new.port = old.port /\ new.domain = old.domain
      /\ new.sni = old.sni /\ new.profile = old.profile
      /\ old.proto # Reality => new = old
      /\ new # NoRow /\ old # NoRow
  BY UnchangedFacts, Constants DEF Reality
<1> HIDE DEF rs, rt
<1>3. ASSUME NEW i \in Ids
      PROVE  /\ Of(p, rs[i]) <=> Of(p, rt[i])
             /\ rs[i] # NoRow <=> rt[i] # NoRow
             /\ rs[i].port = rt[i].port /\ rs[i].proto = rt[i].proto
             /\ Configured(rs[i], req, d) => Configured(rt[i], req, d)
  <2>1. CASE i = e
    <3>1. Configured(new, req, d) => Configured(old, req, d)
      BY <1>2 DEF Configured, Reality, DomainBound
    <3> QED
      BY <1>1, <1>2, <2>1, <3>1 DEF Of
  <2> QED
    BY <1>1, <2>1
<1>4. \A i \in Ids : Last(rs, p, i) => Last(rt, p, i)
  BY <1>3 DEF Last
<1>5. \A l : PortsOf(rs, l) = PortsOf(rt, l)
  BY <1>3 DEF PortsOf
<1>6. \A l, port : Preferred(rs, l, port) => Preferred(rt, l, port)
  BY <1>5 DEF Preferred, Blocked
<1>7. Settled(rs, p, req, d)
  BY DEF rs
<1>8. Settled(rt, p, req, d)
  BY <1>3, <1>4, <1>6, <1>7 DEF Settled
<1> QED
  BY <1>8 DEF rt

\* A draft has the settings its request asks for.
LEMMA DraftConfigured ==
  ASSUME TypeOK, NEW j \in Jobs, job[j].req # None, NEW p \in Protocols,
         NEW port \in SelectedPorts(j, p), port \in Ports, NEW row \in Drafts(j, p, port)
  PROVE  Configured(row, job[j].req, job[j].domain)
<1> DEFINE old == Old(j, p)
           profile == IF job[j].req.profile # None THEN job[j].req.profile
                      ELSE IF old.profile # None THEN old.profile ELSE "quic"
           base == [old EXCEPT !.port = port, !.domain = job[j].domain]
<1>1. /\ row.proto = p /\ row.port = port /\ HasCredential(row)
      /\ p \in DomainBound => row.domain = job[j].domain
  BY DraftContent
<1>2. job[j].req.ports[p] \in {0, port}
  BY DEF SelectedPorts
<1>3. job[j].req \in Requests /\ old \in Template(p)
  BY SetupFacts, OldFacts
<1>4. /\ job[j].req.profile \in {"quic", "salamander", None}
      /\ job[j].req.sni \in SNIs \cup {None}
  BY <1>3, InputsAssumption DEF InputsAssumption
<1>5. None \notin {"quic", "salamander"} /\ None \notin SNIs /\ KeptOrNew(j, p) # None
  <2>1. <<j, p>> # None
    BY InputsAssumption DEF InputsAssumption, Secrets
  <2> QED
    BY <2>1, Constants, InputsAssumption DEF InputsAssumption, KeptOrNew
<1>6. /\ base.proto = p /\ base.port = port /\ base.domain = job[j].domain
      /\ base \in [proto : {p}, port : {port}, domain : {job[j].domain},
                   sni : SNIs \cup {None}, profile : {"quic", "salamander", None},
                   secret : {old.secret}]
  BY <1>3 DEF Template
<1>7. CASE p = "hysteria2"
  <2>1. row = [base EXCEPT !.profile = profile,
                 !.secret = IF profile = "salamander" THEN KeptOrNew(j, p) ELSE @]
    BY <1>7 DEF Drafts
  <2>2. profile # None /\ job[j].req.profile \in {None, profile}
    BY <1>5
  <2> HIDE DEF base, profile
  <2>3. row.profile = profile /\ (profile = "salamander" => row.secret = KeptOrNew(j, p))
    BY <1>6, <2>1
  <2> QED
    BY <1>1, <1>2, <1>5, <1>7, <2>2, <2>3 DEF Configured, Reality
<1>8. CASE p = "vless-reality"
  <2>1. PICK s \in Targets(j, old.sni) :
          row = [base EXCEPT !.sni = s, !.secret = KeptOrNew(j, p),
                   !.domain = IF job[j].domain \in Direct THEN @ ELSE None]
    BY <1>8 DEF Drafts
  <2>2. s # None /\ job[j].req.sni \in {None, s}
    BY <1>4, <1>5 DEF Targets
  <2> HIDE DEF base, old
  <2>3. /\ row.sni = s /\ row.secret = KeptOrNew(j, p)
        /\ row.domain = IF job[j].domain \in Direct THEN job[j].domain ELSE None
    BY <1>6, <2>1
  <2> QED
    BY <1>1, <1>2, <1>5, <1>8, <2>2, <2>3 DEF Configured, Reality, DomainBound
<1>9. CASE p = "vless-httpupgrade"
  BY <1>1, <1>2, <1>9 DEF Configured, Reality
<1> QED
  BY <1>7, <1>8, <1>9 DEF Protocols

\* Settings that are what the request asks for are drafted as they are.
LEMMA DraftAgain ==
  ASSUME TypeOK, "target" \notin Faults, NEW j \in Jobs, NEW p \in Protocols, p # Upgrade,
         NEW port \in Ports, NEW row \in Drafts(j, p, port), Exists(j, p),
         Configured(Old(j, p), job[j].req, job[j].domain)
  PROVE  Unchanged(row, [Old(j, p) EXCEPT !.port = port])
<1> DEFINE old == Old(j, p)
           profile == IF job[j].req.profile # None THEN job[j].req.profile
                      ELSE IF old.profile # None THEN old.profile ELSE "quic"
           base == [old EXCEPT !.port = port, !.domain = job[j].domain]
<1>1. old \in Template(p)
  BY OldFacts
<1>2. old.proto = p /\ (p \in DomainBound => old.domain = job[j].domain)
  BY <1>1 DEF Template, Configured
<1>3. CASE p = "hysteria2"
  <2>1. row = [base EXCEPT !.profile = profile,
                 !.secret = IF profile = "salamander" THEN KeptOrNew(j, p) ELSE @]
    BY <1>3 DEF Drafts
  <2>2. profile = old.profile /\ (profile = "salamander" => KeptOrNew(j, p) = old.secret)
    BY <1>2, <1>3 DEF Configured, KeptOrNew
  <2>3. old.domain = job[j].domain
    BY <1>2, <1>3 DEF DomainBound
  <2> HIDE DEF profile, old
  <2>5. row = [old EXCEPT !.port = port]
    BY <1>1, <2>1, <2>2, <2>3 DEF Template, old
  <2> QED
    BY <1>1, <1>3, <2>5 DEF Unchanged, Template, old
<1>4. CASE p = "vless-reality"
  <2>1. PICK s \in Targets(j, old.sni) :
          row = [base EXCEPT !.sni = s, !.secret = KeptOrNew(j, p),
                   !.domain = IF job[j].domain \in Direct THEN @ ELSE None]
    BY <1>4 DEF Drafts
  <2>2. /\ old.domain = IF job[j].domain \in Direct THEN job[j].domain ELSE None
        /\ old.sni # None /\ job[j].req.sni \in {None, old.sni}
    BY <1>2, <1>4 DEF Configured, Reality
  <2>3. s = old.sni
    BY <2>2 DEF Targets
  <2> HIDE DEF old
  <2>4. row = [old EXCEPT !.port = port, !.secret = KeptOrNew(j, p)]
    BY <1>1, <2>1, <2>2, <2>3 DEF Template, old
  <2> QED
    BY <1>1, <1>4, <2>4 DEF Unchanged, Template, old
<1> QED
  BY <1>3, <1>4 DEF Protocols, Upgrade

\* What a setup at its next protocol knows: it has the node for itself.
LEMMA NextProtocol ==
  ASSUME Inv, NEW j \in Jobs, job[j].pc \in {"loop", "drafted"}, job[j].todo # <<>>
  PROVE  /\ Active(j) /\ Proto(j) \in Protocols /\ ToDo(job[j], Proto(j))
         /\ job[j].req \in Requests /\ TypeOK /\ minted + 1 \in Nat
         /\ rows \in [Ids -> Row \cup {NoRow}] /\ job[j].snap \in [Ids -> Row \cup {NoRow}]
         /\ Network(Proto(j)) \in {"tcp", "udp"}
         /\ job[j].alone /\ left = {} => running = job[j].snap
         /\ job[j].alone => domain = job[j].was
         /\ \A i \in Ids : i = minted + 1 => rows[i] = NoRow /\ job[j].snap[i] = NoRow
<1>1. /\ TypeOK /\ BookKept(job[j]) /\ Undisturbed(j) /\ Unused /\ job[j] \in Setup
  BY SetupOf DEF Inv
<1>2. Active(j)
  BY DEF Active, Working
<1>3. Proto(j) \in Protocols /\ ToDo(job[j], Proto(j))
  <2>1. job[j].todo \in Seq(Protocols)
    BY <1>1 DEF Setup
  <2> QED
    BY <1>1, <2>1, DoneFacts, TailFacts DEF Proto, ToDo
<1>4. job[j].req \in Requests
  BY <1>1 DEF BookKept, Working, Setup
<1>5. /\ rows \in [Ids -> Row \cup {NoRow}] /\ running \in [Ids -> Row \cup {NoRow}]
      /\ minted \in 0..MaxId
  BY <1>1 DEF TypeOK
<1>6. job[j].snap \in [Ids -> Row \cup {NoRow}]
  BY <1>1 DEF Setup
<1>7. minted \in Nat
  BY <1>5, ConstantsAssumption DEF ConstantsAssumption
<1>8. Network(Proto(j)) \in {"tcp", "udp"}
  BY DEF Network
<1>9. ASSUME job[j].alone, left = {} PROVE running = job[j].snap
  <2>1. \A i \in Ids : running[i] = job[j].snap[i]
    BY <1>1, <1>2, <1>9 DEF Undisturbed, Faithful, BookKept
  <2> QED
    BY <1>5, <1>6, <2>1
<1>10. job[j].alone => domain = job[j].was
  BY <1>1, <1>2 DEF Undisturbed, Faithful
<1>11. ASSUME NEW i \in Ids, i = minted + 1 PROVE rows[i] = NoRow /\ job[j].snap[i] = NoRow
  <2>1. i > minted
    BY <1>7, <1>11
  <2> QED
    BY <1>1, <2>1 DEF Unused
<1> QED
  BY <1>1, <1>2, <1>3, <1>4, <1>5, <1>6, <1>7, <1>8, <1>9, <1>10, <1>11

\* A port a draft avoids is still taken when the draft has been written.
LEMMA TakenIsBlocked ==
  ASSUME Inv, NEW j \in Jobs, job[j].pc = "loop", job[j].todo # <<>>, job[j].alone,
         left = {}, Progress(job[j], rows), Proto(j) # Upgrade,
         NEW i \in Ids, NEW r,
         IF Exists(j, Proto(j)) THEN i = Existing(j, Proto(j)) ELSE i = minted + 1,
         NEW q \in (Listening(Network(Proto(j))) \ {Old(j, Proto(j)).port})
                     \cup job[j].reserved[Network(Proto(j))]
  PROVE  q \in Blocked([rows EXCEPT ![i] = r], Network(Proto(j)))
<1> DEFINE p == Proto(j)
           l == Network(p)
           rt == [rows EXCEPT ![i] = r]
           snap == job[j].snap
<1>1. /\ TypeOK /\ p \in Protocols /\ ToDo(job[j], p) /\ running = snap
      /\ rows \in [Ids -> Row \cup {NoRow}] /\ l \in {"tcp", "udp"}
      /\ \A k \in Ids : k = minted + 1 => rows[k] = NoRow /\ snap[k] = NoRow
  BY NextProtocol
<1>2. \A k \in Ids : k # i => rt[k] = rows[k]
  BY <1>1
<1>3. \A k \in Ids : k # i /\ rows[k] # NoRow /\ Network(rows[k].proto) = l
        => rows[k].port \in PortsOf(rt, l)
  <2> SUFFICES ASSUME NEW k \in Ids, k # i, rows[k] # NoRow, Network(rows[k].proto) = l
               PROVE  \E m \in Ids : rt[m] # NoRow /\ Network(rt[m].proto) = l
                                     /\ rt[m].port = rows[k].port
    BY DEF PortsOf
  <2> QED
    BY <1>2
<1>4. CASE q \in Foreign[l]
  BY <1>4 DEF Blocked
<1>5. CASE q \in PortsOf(snap, l) /\ q # Old(j, p).port
  <2>1. PICK k \in Ids : snap[k] # NoRow /\ Network(snap[k].proto) = l /\ snap[k].port = q
    BY <1>5 DEF PortsOf
  <2>2. k # i
    <3>1. Exists(j, p) => Old(j, p) = snap[Existing(j, p)]
      BY <1>1, LastIsExisting
    <3> QED
      BY <1>1, <1>5, <2>1, <3>1
  <2>3. rows[k] # NoRow /\ rows[k].proto = snap[k].proto
    BY <2>1 DEF Progress
  <2>4. rows[k].port = q
    <3>1. CASE ToDo(job[j], snap[k].proto)
      BY <2>1, <2>3, <3>1 DEF Progress
    <3>2. CASE ~ToDo(job[j], snap[k].proto)
      <4>1. snap[k].proto # p /\ snap[k].proto \in Protocols
        <5>1. snap[k] \in Row
          BY <1>1, <2>1, NextProtocol
        <5> QED
          BY <1>1, <3>2, <5>1 DEF Row
      <4>2. snap[k].proto = Upgrade
        BY <1>1, <2>1, <4>1 DEF Protocols, Network, Upgrade
      <4> QED
        BY <2>1, <2>3, <4>2 DEF Progress
    <3> QED
      BY <3>1, <3>2
  <2> QED
    BY <1>3, <2>1, <2>2, <2>3, <2>4 DEF Blocked
<1>6. CASE q \in job[j].reserved[l]
  <2>1. PICK k \in Ids : /\ rows[k] # NoRow /\ ~ToDo(job[j], rows[k].proto)
                         /\ Network(rows[k].proto) = l /\ rows[k].port = q
    BY <1>1, <1>6 DEF Progress
  <2>2. k # i
    <3>1. CASE Exists(j, p)
      <4>1. Last(snap, p, i)
        BY <1>1, <3>1, LastIsExisting
      <4>2. Of(p, rows[i])
        BY <1>1, <4>1, UntouchedRows DEF Last
      <4> QED
        BY <1>1, <2>1, <4>2 DEF Of
    <3>2. CASE ~Exists(j, p)
      BY <1>1, <2>1, <3>2
    <3> QED
      BY <3>1, <3>2
  <2> QED
    BY <1>3, <2>1, <2>2 DEF Blocked
<1>7. q \in Foreign[l] \/ (q \in PortsOf(snap, l) /\ q # Old(j, p).port) \/ q \in job[j].reserved[l]
  BY <1>1 DEF Listening
<1> QED
  BY <1>4, <1>5, <1>6, <1>7

\* Wherever a draft is written, its protocol is settled.
LEMMA DraftSettles ==
  ASSUME Inv, ProbesAreAnswered, NEW j \in Jobs, job[j].pc = "loop", job[j].todo # <<>>,
         job[j].alone, left = {}, Progress(job[j], rows),
         NEW port \in SelectedPorts(j, Proto(j)), port \in Ports,
         NEW row \in Drafts(j, Proto(j), port), row \in Row, NEW i \in Ids,
         IF Exists(j, Proto(j)) THEN i = Existing(j, Proto(j)) ELSE i = minted + 1
  PROVE  /\ Settled([rows EXCEPT ![i] = row], Proto(j), job[j].req, job[j].domain)
         /\ Proto(j) = Upgrade /\ job[j].snap[i] # NoRow => row.port = job[j].snap[i].port
<1> DEFINE p == Proto(j)
           l == Network(p)
           rt == [rows EXCEPT ![i] = row]
           snap == job[j].snap
           req == job[j].req
<1>1. /\ TypeOK /\ p \in Protocols /\ ToDo(job[j], p) /\ req \in Requests
      /\ rows \in [Ids -> Row \cup {NoRow}]
      /\ \A k \in Ids : k = minted + 1 => rows[k] = NoRow /\ snap[k] = NoRow
  BY NextProtocol
<1>2. rt[i] = row /\ \A k \in Ids : k # i => rt[k] = rows[k]
  BY <1>1
<1>3. row.proto = p /\ row.port = port /\ row # NoRow
  BY <1>1, DraftContent, Constants
<1>4. Configured(row, req, job[j].domain)
  BY <1>1, DraftConfigured, Constants
<1>5. Last(rt, p, i)
  <2>1. \A k \in Ids : Of(p, rows[k]) <=> Of(p, snap[k])
    BY <1>1, UntouchedRows
  <2>2. CASE Exists(j, p)
    <3>1. Last(snap, p, i)
      BY <1>1, <2>2, LastIsExisting
    <3>2. \A k \in Ids : Of(p, rt[k]) => k = i \/ Of(p, snap[k])
      BY <1>2, <2>1
    <3>3. i <= i
      BY ConstantsAssumption DEF ConstantsAssumption, Ids
    <3> QED
      BY <1>2, <1>3, <3>1, <3>2, <3>3 DEF Last, Of
  <2>3. CASE ~Exists(j, p)
    <3>1. \A k \in Ids : ~Of(p, rows[k])
      BY <1>1, <2>1, <2>3, LastIsExisting
    <3>2. \A k \in Ids : Of(p, rt[k]) => k = i
      BY <1>2, <3>1
    <3>3. i <= i
      BY ConstantsAssumption DEF ConstantsAssumption, Ids
    <3> QED
      BY <1>2, <1>3, <3>2, <3>3 DEF Last, Of
  <2> QED
    BY <2>2, <2>3
<1>6. ASSUME p # Upgrade, req.ports[p] = 0 PROVE Preferred(rt, l, port)
  <2> DEFINE taken == (Listening(l) \ {Old(j, p).port}) \cup job[j].reserved[l]
  <2>1. port \in Selected(l, Old(j, p).port, job[j].reserved[l])
    BY <1>6 DEF SelectedPorts, Upgrade
  <2>2. \A q \in taken : q \in Blocked(rt, l)
    BY <1>6, TakenIsBlocked
  <2>3. "probe" \notin Faults
    BY DEF ProbesAreAnswered
  <2>4. \/ \E k \in DOMAIN Conventional :
             /\ Conventional[k] = port
             /\ \A m \in DOMAIN Conventional : m < k => Conventional[m] \in taken
        \/ \A m \in DOMAIN Conventional : Conventional[m] \in taken
    BY <2>1, <2>3, SelectedForm
  <2> HIDE DEF taken, rt, l
  <2> QED
    BY <2>2, <2>4 DEF Preferred
<1>7. ASSUME p = Upgrade, snap[i] # NoRow PROVE port = snap[i].port
  <2>1. req.ports[p] = 0
    BY <1>1, <1>7 DEF ProbesAreAnswered
  <2>2. Exists(j, p)
    BY <1>1, <1>7
  <2>3. port = Old(j, p).port
    BY <1>7, <2>1, <2>2 DEF SelectedPorts, Upgrade
  <2> QED
    BY <1>1, <2>2, <2>3, LastIsExisting
<1> HIDE DEF rt, l, snap, req
<1>8. Settled(rt, p, req, job[j].domain)
  BY <1>2, <1>3, <1>4, <1>5, <1>6 DEF Settled, l
<1> QED
  BY <1>3, <1>7, <1>8 DEF rt, p, snap, req

\* Choosing settings.
LEMMA DraftProgress ==
  ASSUME Inv, ProbesAreAnswered, NEW j \in Jobs, Draft(j), job[j].alone, left = {},
         Progress(job[j], rows)
  PROVE  Progress(job'[j], rows) /\ Drafted(job'[j], rows, minted)
<1> DEFINE p == Proto(j)
           s == job[j]
           t == job'[j]
<1>1. PICK port \in SelectedPorts(j, p) : \E row \in Drafts(j, p, port) :
           /\ s.pc = "loop" /\ s.todo # <<>> /\ p \in Protocols
           /\ port \in Ports /\ row \in Row
           /\ t.pc = "drafted" /\ t.draft = row /\ SameTask(j) /\ t.todo = s.todo
           /\ \A l \in {"tcp", "udp"} : \A q \in t.reserved[l] :
                q \in s.reserved[l] \/ (l = Network(p) /\ q = port)
  BY DraftMoves
<1>2. PICK row \in Drafts(j, p, port) :
           /\ s.pc = "loop" /\ s.todo # <<>> /\ p \in Protocols
           /\ port \in Ports /\ row \in Row
           /\ t.pc = "drafted" /\ t.draft = row /\ SameTask(j) /\ t.todo = s.todo
           /\ \A l \in {"tcp", "udp"} : \A q \in t.reserved[l] :
                q \in s.reserved[l] \/ (l = Network(p) /\ q = port)
  BY <1>1
<1>3. row.proto = p /\ row.port = port /\ TypeOK
  BY <1>2, DraftContent DEF Inv
<1>4. \A q : ToDo(t, q) <=> ToDo(s, q)
  BY <1>2 DEF ToDo
<1>5. \A q : Listed(t, q) <=> Listed(s, q)
  BY <1>2 DEF Listed, SameTask
<1>6. Progress(t, rows)
  <2>1. \A l \in {"tcp", "udp"} : \A q \in t.reserved[l] :
          \/ \E i \in Ids : /\ rows[i] # NoRow /\ ~ToDo(t, rows[i].proto)
                            /\ Network(rows[i].proto) = l /\ rows[i].port = q
          \/ t.pc = "drafted" /\ l = Network(t.draft.proto) /\ q = t.draft.port
    BY <1>2, <1>3, <1>4 DEF Progress
  <2>2. t.snap = s.snap /\ t.req = s.req /\ t.domain = s.domain
    BY <1>2 DEF SameTask
  <2> HIDE DEF s, t, p
  <2> QED
    BY <1>4, <1>5, <2>1, <2>2 DEF Progress, s
<1>7. ASSUME NEW i \in Ids, Place(t, minted, i)
      PROVE  /\ Settled([rows EXCEPT ![i] = row], p, s.req, s.domain)
             /\ p = Upgrade /\ s.snap[i] # NoRow => row.port = s.snap[i].port
  <2>1. IF \E k \in Ids : Of(p, s.snap[k]) THEN Last(s.snap, p, i) ELSE i = minted + 1
    BY <1>2, <1>3, <1>7 DEF Place, SameTask
  <2>2. IF Exists(j, p) THEN i = Existing(j, p) ELSE i = minted + 1
    BY <1>3, <2>1, LastIsExisting
  <2> QED
    BY <1>2, <2>2, DraftSettles
<1>8. Drafted(t, rows, minted)
  BY <1>2, <1>3, <1>7 DEF Drafted, SameTask
<1> QED
  BY <1>6, <1>8

\* selectListenPort chooses a preferred port once more, or leaves a random one.
LEMMA SelectedAgain ==
  ASSUME "probe" \notin Faults, NEW l, NEW current, current # 0,
         Preferred(running, l, current), up, NEW port \in Selected(l, current, {})
  PROVE  port = current \/ current \in RandomPorts
<1> DEFINE taken == (Listening(l) \ {current}) \cup {}
<1>1. taken = Blocked(running, l) \ {current}
  BY DEF Listening, Blocked
<1>2. \/ \E k \in DOMAIN Conventional :
           /\ Conventional[k] = port /\ port \notin taken
           /\ \A m \in DOMAIN Conventional : m < k => Conventional[m] \in taken
      \/ /\ \A m \in DOMAIN Conventional : Conventional[m] \in taken
         /\ port = current
  BY SelectedForm
<1> HIDE DEF taken
<1>3. SUFFICES ASSUME port # current, current \notin RandomPorts PROVE FALSE
  OBVIOUS
<1>4. PICK k \in DOMAIN Conventional :
        /\ Conventional[k] = port /\ port \notin taken
        /\ \A m \in DOMAIN Conventional : m < k => Conventional[m] \in taken
  BY <1>2, <1>3
<1>5. port \notin Blocked(running, l)
  BY <1>1, <1>3, <1>4
<1>6. PICK n \in DOMAIN Conventional :
        /\ Conventional[n] = current
        /\ \A m \in DOMAIN Conventional : m < n => Conventional[m] \in Blocked(running, l)
  BY <1>3, <1>4, <1>5 DEF Preferred
<1>7. ~(k < n) /\ k # n
  BY <1>3, <1>4, <1>5, <1>6
<1>8. n < k
  BY <1>7, Constants
<1>9. current \in taken
  BY <1>4, <1>6, <1>8
<1> QED
  BY <1>1, <1>9

\* A setup that repeats the last one drafts what is there.
LEMMA DraftRepeats ==
  ASSUME Inv, ProbesAreAnswered, NEW j \in Jobs, Draft(j), job[j].alone, left = {},
         Task(job[j]), InPlace(job[j].req, job[j].snap, job[j].was), Repeats(job[j], up)
  PROVE  Repeats(job'[j], up)
<1> DEFINE p == Proto(j)
           l == Network(p)
           s == job[j]
           t == job'[j]
<1>1. PICK port \in SelectedPorts(j, p) : \E row \in Drafts(j, p, port) :
           /\ s.pc = "loop" /\ s.todo # <<>> /\ p \in Protocols
           /\ port \in Ports /\ row \in Row
           /\ t.pc = "drafted" /\ t.draft = row /\ SameTask(j) /\ t.todo = s.todo
           /\ \A n \in {"tcp", "udp"} : \A q \in t.reserved[n] :
                q \in s.reserved[n] \/ (n = Network(p) /\ q = port)
  BY DraftMoves
<1>2. PICK row \in Drafts(j, p, port) :
           /\ s.pc = "loop" /\ s.todo # <<>> /\ p \in Protocols
           /\ port \in Ports /\ row \in Row
           /\ t.pc = "drafted" /\ t.draft = row /\ SameTask(j) /\ t.todo = s.todo
           /\ \A n \in {"tcp", "udp"} : \A q \in t.reserved[n] :
                q \in s.reserved[n] \/ (n = Network(p) /\ q = port)
  BY <1>1
<1>3. /\ TypeOK /\ ToDo(s, p) /\ s.req \in Requests /\ running = s.snap
      /\ row.proto = p /\ row.port = port
  BY <1>2, DraftContent, NextProtocol
<1>4. s.domain = s.was
  BY DEF Task, InPlace
<1>5. PICK i \in Ids :
        /\ Last(s.snap, p, i) /\ Configured(s.snap[i], s.req, s.domain)
        /\ p # Upgrade /\ s.req.ports[p] = 0 => Preferred(s.snap, l, s.snap[i].port)
  <2>1. Listed(s, p)
    BY <1>2, <1>3 DEF Task
  <2>2. Settled(s.snap, p, s.req, s.domain)
    BY <1>4, <2>1 DEF Listed, InPlace
  <2> QED
    BY <2>2 DEF Settled
<1>6. /\ Exists(j, p) /\ Old(j, p) = s.snap[i] /\ Old(j, p).port \in Ports
      /\ s.snap[i].proto = p
  <2>1. Exists(j, p) /\ Old(j, p) = s.snap[i]
    BY <1>3, <1>5, LastIsExisting DEF Last
  <2> QED
    BY <1>2, <1>3, <1>5, <2>1, OldFacts DEF Last, Of
<1>7. p # Upgrade
  <2>1. SUFFICES ASSUME p = Upgrade PROVE AlreadyConfigured(j)
    BY DEF Draft
  <2> QED
    BY <1>5, <1>6, <2>1 DEF AlreadyConfigured, Configured, Upgrade, DomainBound
<1>8. Unchanged(row, [s.snap[i] EXCEPT !.port = port])
  BY <1>2, <1>3, <1>5, <1>6, <1>7, DraftAgain DEF ProbesAreAnswered
<1>9. s.reserved[l] = {}
  BY <1>2, <1>3, <1>7 DEF Repeats
<1>10. up => port = s.snap[i].port \/ s.snap[i].port \in RandomPorts
  <2>1. CASE s.req.ports[p] # 0
    BY <1>5, <1>6, <2>1 DEF Configured, SelectedPorts
  <2>2. CASE s.req.ports[p] = 0
    <3>1. port \in Selected(l, s.snap[i].port, {})
      BY <1>6, <1>7, <1>9, <2>2 DEF SelectedPorts, Upgrade
    <3>2. s.snap[i].port # 0 /\ "probe" \notin Faults
      BY <1>6, Constants DEF ProbesAreAnswered
    <3>3. Preferred(running, l, s.snap[i].port)
      BY <1>3, <1>5, <1>7, <2>2
    <3> QED
      BY <3>1, <3>2, <3>3, SelectedAgain
  <2> QED
    BY <2>1, <2>2
<1>11. ASSUME NEW q \in Protocols, ToDo(t, q), q # Upgrade, q # p
       PROVE  t.reserved[Network(q)] = {}
  <2>1. Network(q) # l /\ Network(q) \in {"tcp", "udp"}
    BY <1>2, <1>7, <1>11 DEF Protocols, Network, Upgrade
  <2>2. ToDo(s, q)
    BY <1>2, <1>11 DEF ToDo
  <2>3. s.reserved[Network(q)] = {}
    BY <1>2, <1>11, <2>2 DEF Repeats
  <2> QED
    BY <1>2, <2>1, <2>3
<1>12. t.snap = s.snap
  BY <1>2 DEF SameTask
<1> HIDE DEF s, t, p, l
<1>13. Repeats(t, up)
  BY <1>2, <1>3, <1>5, <1>7, <1>8, <1>10, <1>11, <1>12 DEF Repeats
<1> QED
  BY <1>13 DEF t

\* A protocol that has been done or skipped.
LEMMA TaskGoesOn ==
  ASSUME Inv, NEW j \in Jobs, job[j].todo # <<>>, job'[j].todo = Tail(job[j].todo),
         SameTask(j), job'[j].pc = "loop", Task(job[j])
  PROVE  /\ Task(job'[j]) /\ ~ToDo(job'[j], Proto(j))
         /\ \A p : p # Proto(j) => (ToDo(job'[j], p) <=> ToDo(job[j], p))
         /\ \A p : Listed(job'[j], p) <=> Listed(job[j], p)
<1>1. /\ NoRepeat(job'[j]) /\ ToDo(job[j], Proto(j)) /\ ~ToDo(job'[j], Proto(j))
      /\ \A p : p # Proto(j) => (ToDo(job'[j], p) <=> ToDo(job[j], p))
  BY ToDoNext DEF Task
<1>2. \A p : Listed(job'[j], p) <=> Listed(job[j], p)
  BY DEF Listed, SameTask
<1> QED
  BY <1>1, <1>2 DEF Task, SameTask

\* Rows rt in which the next protocol has been settled and nothing else moved.
LEMMA ProgressDone ==
  ASSUME Inv, NEW j \in Jobs, job[j].pc \in {"loop", "drafted"}, job[j].todo # <<>>,
         job'[j].todo = Tail(job[j].todo), SameTask(j), job'[j].pc = "loop",
         job'[j].reserved = job[j].reserved, Task(job[j]), Progress(job[j], rows),
         NEW rt, \A i \in Ids : rt[i] # rows[i] => Of(Proto(j), rt[i]),
         \A i \in Ids : Of(Proto(j), rows[i]) =>
           Of(Proto(j), rt[i]) /\ (Proto(j) = Upgrade => rt[i].port = rows[i].port),
         \A i \in Ids : rt[i] # rows[i] => rows[i] = NoRow \/ Of(Proto(j), rows[i]),
         Settled(rt, Proto(j), job[j].req, job[j].domain),
         job[j].pc = "drafted" =>
           \E i \in Ids : Of(Proto(j), rt[i]) /\ rt[i].port = job[j].draft.port
                          /\ job[j].draft.proto = Proto(j)
  PROVE  Progress(job'[j], rt)
<1> DEFINE p == Proto(j)
           s == job[j]
           t == job'[j]
<1>1. /\ ~ToDo(t, p) /\ \A q : q # p => (ToDo(t, q) <=> ToDo(s, q))
      /\ \A q : Listed(t, q) <=> Listed(s, q)
      /\ ToDo(s, p) /\ p \in Protocols
  BY TaskGoesOn, NextProtocol
<1>2. t.snap = s.snap /\ t.req = s.req /\ t.domain = s.domain /\ t.reserved = s.reserved
  BY DEF SameTask
<1>3. ASSUME NEW i \in Ids, s.snap[i] # NoRow
      PROVE  /\ rt[i] # NoRow /\ rt[i].proto = s.snap[i].proto
             /\ rt[i].proto = Upgrade => rt[i].port = s.snap[i].port
             /\ rt[i] # s.snap[i] => ~ToDo(t, rt[i].proto)
  <2>1. /\ rows[i] # NoRow /\ rows[i].proto = s.snap[i].proto
        /\ rows[i].proto = Upgrade => rows[i].port = s.snap[i].port
        /\ rows[i] # s.snap[i] => ~ToDo(s, rows[i].proto)
    BY <1>3 DEF Progress
  <2>2. CASE rt[i] = rows[i]
    BY <1>1, <2>1, <2>2
  <2>3. CASE rt[i] # rows[i]
    BY <1>1, <2>1, <2>3 DEF Of
  <2> QED
    BY <2>2, <2>3
<1>4. ASSUME NEW i \in Ids, rt[i] # NoRow, s.snap[i] = NoRow PROVE ~ToDo(t, rt[i].proto)
  BY <1>1, <1>4 DEF Progress, Of
<1>5. ASSUME NEW q \in Protocols, Listed(t, q), ~ToDo(t, q)
      PROVE  Settled(rt, q, s.req, s.domain)
  <2>1. CASE q # p
    <3>1. Settled(rows, q, s.req, s.domain)
      BY <1>1, <1>5, <2>1 DEF Progress
    <3>2. \A i \in Ids : Of(q, rows[i]) \/ Of(q, rt[i]) => rt[i] = rows[i]
      BY <2>1 DEF Of
    <3>3. ASSUME q # Upgrade PROVE PortsOf(rows, Network(q)) \subseteq PortsOf(rt, Network(q))
      <4> SUFFICES ASSUME NEW i \in Ids, rows[i] # NoRow, Network(rows[i].proto) = Network(q)
                   PROVE  rt[i] # NoRow /\ Network(rt[i].proto) = Network(q)
                          /\ rt[i].port = rows[i].port
        BY DEF PortsOf
      <4>1. CASE rt[i] = rows[i]
        BY <4>1
      <4>2. CASE rt[i] # rows[i]
        <5>1. Of(p, rows[i]) /\ Of(p, rt[i])
          BY <4>2
        <5>2. p = Upgrade
          BY <1>1, <2>1, <3>3, <5>1 DEF Of, Protocols, Network, Upgrade
        <5> QED
          BY <5>1, <5>2 DEF Of
      <4> QED
        BY <4>1, <4>2
    <3> QED
      BY <3>1, <3>2, <3>3, SettledKeeps
  <2> QED
    BY <2>1
<1>6. ASSUME NEW l \in {"tcp", "udp"}, NEW q \in s.reserved[l]
      PROVE  \E i \in Ids : /\ rt[i] # NoRow /\ ~ToDo(t, rt[i].proto)
                            /\ Network(rt[i].proto) = l /\ rt[i].port = q
  <2>1. CASE \E i \in Ids : /\ rows[i] # NoRow /\ ~ToDo(s, rows[i].proto)
                            /\ Network(rows[i].proto) = l /\ rows[i].port = q
    <3>1. PICK i \in Ids : /\ rows[i] # NoRow /\ ~ToDo(s, rows[i].proto)
                           /\ Network(rows[i].proto) = l /\ rows[i].port = q
      BY <2>1
    <3>2. rt[i] = rows[i]
      BY <1>1, <3>1 DEF Of
    <3> QED
      BY <1>1, <3>1, <3>2
  <2>2. CASE s.pc = "drafted" /\ l = Network(s.draft.proto) /\ q = s.draft.port
    BY <1>1, <2>2 DEF Of
  <2> QED
    BY <1>6, <2>1, <2>2 DEF Progress
<1> HIDE DEF s, t, p
<1>7. Progress(t, rt)
  BY <1>2, <1>3, <1>4, <1>5, <1>6 DEF Progress
<1> QED
  BY <1>7 DEF t

\* Where a setup writes its draft.
LEMMA DraftWritten ==
  ASSUME Inv, NEW j \in Jobs, DraftFits(j), Progress(job[j], rows),
         SkipUnchanged(j) \/ UpdateRow(j) \/ CreateRow(j), ~job'[j].hadError
  PROVE  \E e \in Ids : \E r \in Row :
           /\ rows' = [rows EXCEPT ![e] = r] /\ Place(job[j], minted, e)
           /\ Unchanged(job[j].draft, r)
           /\ rows[e] = NoRow \/ (Of(Proto(j), rows[e]) /\ rows[e] = job[j].snap[e])
<1> DEFINE p == Proto(j)
           e == Existing(j, p)
<1>1. job[j].pc = "drafted" /\ job[j].draft.proto = p /\ job[j].draft \in Row
  BY DEF SkipUnchanged, UpdateRow, CreateRow, Ready, DraftFits
<1>2. job[j].todo # <<>>
  BY LoopMoves
<1>3. /\ TypeOK /\ ToDo(job[j], p) /\ rows \in [Ids -> Row \cup {NoRow}]
      /\ \A i \in Ids : i = minted + 1 => rows[i] = NoRow
      /\ p \in Protocols
  BY <1>1, <1>2, NextProtocol
<1>4. ASSUME Exists(j, p)
      PROVE  /\ e \in Ids /\ Place(job[j], minted, e) /\ Of(p, rows[e])
             /\ rows[e] = job[j].snap[e] /\ Old(j, p) = job[j].snap[e]
  <2>1. e \in Ids /\ Last(job[j].snap, p, e) /\ Old(j, p) = job[j].snap[e]
    BY <1>3, <1>4, LastIsExisting
  <2>2. Of(p, job[j].snap[e])
    BY <2>1 DEF Last
  <2>3. Of(p, rows[e]) /\ rows[e] = job[j].snap[e]
    BY <1>3, <2>1, <2>2, UntouchedRows
  <2>4. Place(job[j], minted, e)
    BY <1>1, <2>1, <2>2 DEF Place
  <2> QED
    BY <2>1, <2>3, <2>4
<1>5. ASSUME ~Exists(j, p), minted < MaxId
      PROVE  minted + 1 \in Ids /\ Place(job[j], minted, minted + 1)
  <2>1. minted + 1 \in Ids
    BY <1>3, <1>5, ConstantsAssumption DEF TypeOK, ConstantsAssumption, Ids
  <2>2. ~\E k \in Ids : Of(p, job[j].snap[k])
    BY <1>3, <1>5, LastIsExisting
  <2> QED
    BY <1>1, <2>1, <2>2 DEF Place
<1>9. Unchanged(job[j].draft, job[j].draft)
  BY <1>1 DEF Unchanged, Row
<1>6. CASE SkipUnchanged(j)
  <2>1. rows' = rows /\ Exists(j, p) /\ Unchanged(job[j].draft, Old(j, p))
    BY <1>6 DEF SkipUnchanged, store
  <2>2. Old(j, p) \in Row
    BY <1>3, <2>1, OldRow
  <2>3. rows' = [rows EXCEPT ![e] = Old(j, p)]
    BY <1>3, <1>4, <2>1
  <2> QED
    BY <1>4, <2>1, <2>2, <2>3
<1>7. CASE UpdateRow(j)
  <2>1. Exists(j, p) /\ rows' = [rows EXCEPT ![e] = job[j].draft]
    BY <1>7, UpdateRowFacts
  <2> QED
    BY <1>1, <1>4, <1>9, <2>1
<1>8. CASE CreateRow(j)
  <2>1. ~Exists(j, p) /\ minted < MaxId /\ rows' = [rows EXCEPT ![minted + 1] = job[j].draft]
    BY <1>8 DEF CreateRow
  <2> QED
    BY <1>1, <1>3, <1>5, <1>9, <2>1
<1> QED
  BY <1>6, <1>7, <1>8

\* Protocols, one at a time.
LEMMA WorksLoop ==
  ASSUME Inv, NEW j \in Jobs, DraftFits(j),
         Works(job[j], rows, minted, domain, left, settled, up),
         \/ SkipConfigured(j) \/ ProtocolFails(j) \/ SkipUnchanged(j)
         \/ UpdateRow(j) \/ CreateRow(j) \/ CreateUnread(j)
  PROVE  Works(job'[j], rows', minted', domain', left', settled', up')
<1> DEFINE p == Proto(j)
           s == job[j]
           t == job'[j]
<1>1. /\ s.pc \in {"loop", "drafted"} /\ s.todo # <<>> /\ t.pc = "loop"
      /\ t.todo = Tail(s.todo) /\ SameTask(j) /\ t.reserved = s.reserved
      /\ s.hadError => t.hadError
      /\ UNCHANGED <<domain, running, up, left, settled>>
  BY LoopMoves
<1>2. /\ Task(s)
      /\ left = {} /\ ~s.hadError => Progress(s, rows) /\ Drafted(s, rows, minted)
      /\ settled # None => InPlace(settled, s.snap, s.was)
      /\ settled = s.req => Repeats(s, up)
  BY <1>1 DEF Works
<1>3. /\ Task(t) /\ ~ToDo(t, p) /\ \A q : q # p => (ToDo(t, q) <=> ToDo(s, q))
      /\ ToDo(s, p) /\ p \in Protocols /\ TypeOK /\ rows \in [Ids -> Row \cup {NoRow}]
  BY <1>1, <1>2, TaskGoesOn, NextProtocol
<1>4. t.snap = s.snap /\ t.was = s.was /\ t.req = s.req /\ t.domain = s.domain
  BY <1>1 DEF SameTask
<1>5. s.pc = "drafted" => s.draft.proto = p /\ s.draft \in Row
  BY DEF DraftFits
<1>6. ASSUME settled = s.req PROVE Repeats(t, up)
  <2>1. Repeats(s, up)
    BY <1>2, <1>6
  <2>2. \A q \in Protocols : ToDo(t, q) => ToDo(s, q) /\ q # p
    BY <1>3
  <2> QED
    BY <1>1, <1>5, <2>1, <2>2 DEF Repeats
<1>7. ASSUME left = {}, ~t.hadError PROVE Progress(t, rows')
  <2>1. Progress(s, rows) /\ Drafted(s, rows, minted)
    BY <1>1, <1>2, <1>7
  <2>2. CASE SkipConfigured(j)
    <3>1. /\ rows' = rows /\ s.pc = "loop" /\ p = Upgrade /\ Exists(j, p)
          /\ Old(j, p).domain = s.domain /\ s.req.ports[p] \in {0, Old(j, p).port}
      BY <2>2 DEF SkipConfigured, AlreadyConfigured, store, Upgrade
    <3> DEFINE e == Existing(j, p)
    <3>2. e \in Ids /\ Last(s.snap, p, e) /\ Old(j, p) = s.snap[e]
      BY <1>3, <3>1, LastIsExisting
    <3>3. \A i \in Ids : (Of(p, rows[i]) <=> Of(p, s.snap[i]))
                         /\ (Of(p, rows[i]) => rows[i] = s.snap[i])
      BY <1>3, <2>1, UntouchedRows
    <3>4. Last(rows, p, e) /\ rows[e] = s.snap[e] /\ rows[e].proto = p
      BY <3>2, <3>3 DEF Last, Of
    <3>5. Configured(rows[e], s.req, s.domain)
      BY <3>1, <3>2, <3>4 DEF Configured, Upgrade, Reality
    <3>6. Settled(rows, p, s.req, s.domain)
      BY <3>1, <3>2, <3>4, <3>5 DEF Settled
    <3> QED
      BY <1>1, <1>2, <2>1, <3>1, <3>6, ProgressDone
  <2>3. CASE SkipUnchanged(j) \/ UpdateRow(j) \/ CreateRow(j)
    <3>1. s.pc = "drafted"
      BY <2>3 DEF SkipUnchanged, UpdateRow, CreateRow, Ready
    <3>2. PICK e \in Ids : \E r \in Row :
            /\ rows' = [rows EXCEPT ![e] = r] /\ Place(s, minted, e)
            /\ Unchanged(s.draft, r)
            /\ rows[e] = NoRow \/ (Of(p, rows[e]) /\ rows[e] = s.snap[e])
      BY <1>7, <2>1, <2>3, DraftWritten
    <3>7. PICK r \in Row :
            /\ rows' = [rows EXCEPT ![e] = r] /\ Place(s, minted, e)
            /\ Unchanged(s.draft, r)
            /\ rows[e] = NoRow \/ (Of(p, rows[e]) /\ rows[e] = s.snap[e])
      BY <3>2
    <3>8. s.draft.proto = p /\ s.draft \in Row /\ r.proto = p /\ r.port = s.draft.port
      BY <1>5, <3>1, <3>7, UnchangedFacts
    <3>9. /\ Settled([rows EXCEPT ![e] = s.draft], p, s.req, s.domain)
          /\ p = Upgrade /\ s.snap[e] # NoRow => s.draft.port = s.snap[e].port
      BY <2>1, <3>1, <3>7, <3>8 DEF Drafted
    <3>3. /\ Settled(rows', p, s.req, s.domain)
          /\ p = Upgrade /\ s.snap[e] # NoRow => s.draft.port = s.snap[e].port
      BY <1>3, <3>7, <3>8, <3>9, SettledUnchanged
    <3>4. rows'[e] = r /\ \A i \in Ids : i # e => rows'[i] = rows[i]
      BY <1>3, <3>7
    <3>5. Of(p, r)
      BY <3>8, Constants DEF Of
    <3>6. /\ \A i \in Ids : rows'[i] # rows[i] => Of(p, rows'[i])
          /\ \A i \in Ids : Of(p, rows[i]) =>
               Of(p, rows'[i]) /\ (p = Upgrade => rows'[i].port = rows[i].port)
          /\ \A i \in Ids : rows'[i] # rows[i] => rows[i] = NoRow \/ Of(p, rows[i])
          /\ \E i \in Ids : Of(p, rows'[i]) /\ rows'[i].port = s.draft.port
      BY <3>3, <3>4, <3>5, <3>7, <3>8 DEF Of
    <3> QED
      BY <1>1, <1>2, <1>5, <2>1, <3>3, <3>6, ProgressDone
  <2>4. CASE ProtocolFails(j)
    <3>1. job' = [job EXCEPT ![j] = [Done(j) EXCEPT !.hadError = TRUE]]
      BY <2>4 DEF ProtocolFails
    <3>2. Done(j) \in Setup /\ job \in [Jobs -> Setup]
      BY <1>1, <1>3, DoneFacts DEF TypeOK
    <3> QED
      BY <1>7, <3>1, <3>2 DEF Setup
  <2>5. CASE CreateUnread(j)
    <3>1. job' = [job EXCEPT ![j] = [Done(j) EXCEPT !.hadError = TRUE,
                                       !.unread = @ \cup {minted + 1}]]
      BY <2>5 DEF CreateUnread
    <3>2. Done(j) \in Setup /\ job \in [Jobs -> Setup]
      BY <1>1, <1>3, DoneFacts DEF TypeOK
    <3> QED
      BY <1>7, <3>1, <3>2 DEF Setup
  <2> QED
    BY <2>2, <2>3, <2>4, <2>5
<1>8. Drafted(t, rows', minted')
  BY <1>1 DEF Drafted
<1> HIDE DEF s, t, p
<1>9. Works(t, rows', minted', domain', left', settled', up')
  BY <1>1, <1>2, <1>3, <1>4, <1>6, <1>7, <1>8 DEF Works
<1> QED
  BY <1>9 DEF t

\* Choosing settings, and the end of the list.
LEMMA WorksOnward ==
  ASSUME Inv, ProbesAreAnswered, NEW j \in Jobs, job[j].alone, settled # None => left = {},
         Works(job[j], rows, minted, domain, left, settled, up),
         Draft(j) \/ LoopDone(j) \/ Rename(j)
  PROVE  Works(job'[j], rows', minted', domain', left', settled', up')
<1> DEFINE s == job[j]
           t == job'[j]
<1>1. s.req # None /\ Active(j)
  <2>1. Active(j)
    BY DEF Draft, LoopDone, Rename, Active, Working
  <2> QED
    BY <2>1, SetupOf DEF BookKept, Active
<1>2. CASE Draft(j)
  <2>1. /\ s.pc = "loop" /\ s.todo # <<>> /\ t.pc = "drafted" /\ SameTask(j)
        /\ t.todo = s.todo /\ t.hadError = s.hadError
        /\ UNCHANGED <<rows, minted, domain, running, up, left, settled>>
    BY <1>2, DraftMoves DEF store
  <2>2. /\ Task(s) /\ (left = {} /\ ~s.hadError => Progress(s, rows))
        /\ settled # None => InPlace(settled, s.snap, s.was)
        /\ settled = s.req => Repeats(s, up)
    BY <2>1 DEF Works
  <2>3. t.snap = s.snap /\ t.was = s.was /\ t.req = s.req /\ t.domain = s.domain
    BY <2>1 DEF SameTask
  <2>4. Task(t)
    BY <2>1, <2>2, <2>3 DEF Task, NoRepeat, ToDo, Listed
  <2>5. left = {} /\ ~t.hadError => Progress(t, rows) /\ Drafted(t, rows, minted)
    BY <1>2, <2>1, <2>2, DraftProgress
  <2>6. settled = t.req => Repeats(t, up)
    BY <1>1, <1>2, <2>2, <2>3, DraftRepeats
  <2> HIDE DEF s, t
  <2>7. Works(t, rows, minted, domain, left, settled, up)
    BY <2>1, <2>2, <2>3, <2>4, <2>5, <2>6 DEF Works
  <2> QED
    BY <2>1, <2>7 DEF t
<1>3. ASSUME s.pc \in {"loop", "rename"}, \A p \in Protocols : ~ToDo(s, p), ~s.hadError,
             t.pc \in {"rename", "push"}, SameTask(j), t.hadError = s.hadError,
             t.todo = s.todo, t.reserved = s.reserved,
             UNCHANGED <<rows, minted, left, settled>>, t.pc = "push" => domain' = s.domain
      PROVE  Works(t, rows', minted', domain', left', settled', up')
  <2>1. t.snap = s.snap /\ t.was = s.was /\ t.req = s.req /\ t.domain = s.domain
    BY <1>3 DEF SameTask
  <2>2. /\ Task(s) /\ (left = {} => Progress(s, rows))
        /\ settled # None => InPlace(settled, s.snap, s.was)
    BY <1>3 DEF Works
  <2>3. \A p : ToDo(t, p) <=> ToDo(s, p)
    BY <1>3 DEF ToDo
  <2>4. \A p : Listed(t, p) <=> Listed(s, p)
    BY <2>1 DEF Listed
  <2>5. Task(t)
    BY <1>3, <2>1, <2>2, <2>3, <2>4 DEF Task, NoRepeat
  <2>6. left = {} => Progress(t, rows) /\ Drafted(t, rows, minted)
    <3> HIDE DEF s, t
    <3> QED
      BY <1>3, <2>1, <2>2, <2>3, <2>4 DEF Progress, Drafted
  <2> HIDE DEF s, t
  <2> QED
    BY <1>3, <2>1, <2>2, <2>5, <2>6 DEF Works
<1>4. CASE LoopDone(j)
  <2>1. /\ s.pc = "loop" /\ s.todo = <<>> /\ SameTask(j) /\ t.hadError = s.hadError
        /\ t.pc = IF s.hadError THEN "undo"
                  ELSE IF s.domain # s.was THEN "rename" ELSE "push"
        /\ t.todo = s.todo /\ t.reserved = s.reserved
        /\ UNCHANGED <<rows, minted, domain, running, up, left, settled>>
    BY <1>4, LoopDoneMoves DEF store
  <2>2. domain = s.was
    BY <1>1, <2>1 DEF Inv, Undisturbed, Faithful
  <2>3. \A p \in Protocols : ~ToDo(s, p)
    BY <2>1 DEF ToDo
  <2>4. CASE s.hadError
    BY <2>1, <2>4 DEF Works
  <2>5. CASE ~s.hadError
    BY <1>3, <2>1, <2>2, <2>3, <2>5
  <2> QED
    BY <2>4, <2>5
<1>5. CASE Rename(j)
  <2>1. /\ s.pc = "rename" /\ t.pc = "push" /\ domain' = s.domain
        /\ SameTask(j) /\ t.hadError = s.hadError
        /\ t.todo = s.todo /\ t.reserved = s.reserved
        /\ UNCHANGED <<rows, minted, left, settled>>
    <3>1. job'[j].pc = "push"
      BY <1>5, SetupOf DEF Rename, Setup
    <3> QED
      BY <1>5, <3>1, RenameMoves
  <2>2. ~s.hadError /\ \A p \in Protocols : ~ToDo(s, p)
    BY <2>1 DEF Works, Task
  <2> QED
    BY <1>3, <2>1, <2>2
<1> QED
  BY <1>2, <1>4, <1>5

\* Listing the inbounds.
LEMMA WorksList ==
  ASSUME Inv, NEW j \in Jobs, job[j].alone, List(j), MigrationComplete(j),
         settled # None => InPlace(settled, rows, domain),
         Works(job[j], rows, minted, domain, left, settled, up)
  PROVE  Works(job'[j], rows', minted', domain', left', settled', up')
<1> DEFINE s == job[j]
           t == job'[j]
<1>1. /\ t.pc = "loop" /\ t.snap = rows /\ t.todo = s.todo /\ t.was = s.was
      /\ t.domain = s.domain /\ t.req = s.req /\ t.reserved = s.reserved
  BY ListMoves
<1>2. s.pc = "list" /\ UNCHANGED <<rows, minted, domain, running, up, left, settled>>
  BY DEF List, store
<1>3. /\ Task(s) /\ s.reserved = NoReserved
      /\ \A p \in Protocols : Listed(s, p) => ToDo(s, p)
  BY <1>2 DEF Works, Task
<1>4. domain = s.was
  BY <1>2 DEF Inv, Undisturbed, Faithful, Active, Working
<1>5. \A p : (ToDo(t, p) <=> ToDo(s, p)) /\ (Listed(t, p) <=> Listed(s, p))
  BY <1>1 DEF ToDo, Listed
<1>6. Task(t)
  BY <1>1, <1>3, <1>5 DEF Task, NoRepeat
<1>7. \A l \in {"tcp", "udp"} : t.reserved[l] = {}
  BY <1>1, <1>3 DEF NoReserved
<1>8. Progress(t, rows) /\ Drafted(t, rows, minted)
  <2> HIDE DEF s, t
  <2> QED
    BY <1>1, <1>3, <1>5, <1>7 DEF Progress, Drafted
<1>9. Repeats(t, up)
  <2> HIDE DEF s, t
  <2> QED
    BY <1>1, <1>7 DEF Repeats, Network
<1> HIDE DEF s, t
<1>10. Works(t, rows, minted, domain, left, settled, up)
  BY <1>1, <1>4, <1>6, <1>8, <1>9 DEF Works
<1> QED
  BY <1>2, <1>10 DEF t

\* What the invariant says of the next state.
LEMMA RerunPrimed ==
  /\ \A k \in Jobs : Works(job[k], rows, minted, domain, left, settled, up)'
       <=> Works(job'[k], rows', minted', domain', left', settled', up')
  /\ InPlace(settled, rows, domain)' <=> InPlace(settled', rows', domain')
  /\ \A k \in Jobs : Active(k)' <=> job'[k].pc \in Working
<1>1. \A k \in Jobs : Works(job[k], rows, minted, domain, left, settled, up)'
        <=> Works(job'[k], rows', minted', domain', left', settled', up')
  BY DEF Works, Task, Progress, Drafted, Repeats, Unchanged, NoRepeat, ToDo, Listed,
         ProtocolsFor, Suggested, Place, InPlace, Settled, Configured, Preferred, Blocked, PortsOf, Last,
         Of, Network
<1>2. InPlace(settled, rows, domain)' <=> InPlace(settled', rows', domain')
  BY DEF InPlace, Settled, Configured, Preferred, Blocked, PortsOf, Last, Of, Network,
         ProtocolsFor, Suggested
<1>3. \A k \in Jobs : Active(k)' <=> job'[k].pc \in Working
  BY DEF Active
<1> QED
  BY <1>1, <1>2, <1>3

\* A setup in progress that takes a step.
LEMMA RerunGoesOn ==
  ASSUME RerunInv, [Next]_vars, NEW j \in Jobs, Active(j), OthersStand(j),
         job'[j].alone = job[j].alone, settled' # None => left' = {},
         settled' # None /\ (job'[j].pc \in Working => job'[j].pc = "list")
           /\ (\A k \in Jobs : k # j /\ Active(k) => job[k].pc = "list")
           => InPlace(settled', rows', domain'),
         job'[j].pc \in Working /\ job[j].alone =>
           Works(job'[j], rows', minted', domain', left', settled', up')
  PROVE  RerunInv'
<1>1. Inv /\ Inv' /\ \A k \in Jobs : DraftFits(k)'
  BY NextInv, DraftsNext DEF RerunInv
<1>2. ASSUME NEW k \in Jobs, Active(k)', job'[k].alone
      PROVE  Works(job'[k], rows', minted', domain', left', settled', up')
  <2>1. CASE k = j
    BY <1>2, <2>1, RerunPrimed
  <2>2. CASE k # j
    <3>1. job'[k] = job[k]
      BY <2>2 DEF OthersStand
    <3>2. Active(k) /\ job[k].alone
      BY <1>2, <3>1, RerunPrimed DEF Active
    <3> QED
      BY <1>1, <2>2, <3>2 DEF Inv, Undisturbed
  <2> QED
    BY <2>1, <2>2
<1>3. ASSUME settled' # None, \A k \in Jobs : Active(k)' => job'[k].pc = "list"
      PROVE  InPlace(settled', rows', domain')
  <2>1. \A k \in Jobs : k # j /\ Active(k) => job[k].pc = "list"
    BY <1>3, RerunPrimed DEF OthersStand, Active
  <2> QED
    BY <1>3, <2>1, RerunPrimed
<1> QED
  BY <1>1, <1>2, <1>3, RerunPrimed DEF RerunInv

\* A setup answered with success has everything it was asked for in place.
LEMMA PushSettles ==
  ASSUME Inv, NEW j \in Jobs, job[j].pc = "push", left = {},
         Works(job[j], rows, minted, domain, left, settled, up)
  PROVE  InPlace(job[j].req, rows, domain)
<1> DEFINE s == job[j]
<1>1. /\ Task(s) /\ domain = s.domain /\ ~s.hadError /\ Progress(s, rows)
      /\ \A p \in Protocols : ~ToDo(s, p)
  BY DEF Works, Task
<1>2. s.req \in Requests /\ s.domain \in Domains \cup {None}
  BY SetupOf DEF BookKept, Working, Setup
<1>3. ProtocolsFor(s.req, s.domain) \in Seq(Protocols)
  BY <1>2, ProtocolsAreProtocols
<1>4. \A k \in DOMAIN ProtocolsFor(s.req, s.domain) :
        Settled(rows, ProtocolsFor(s.req, s.domain)[k], s.req, s.domain)
  <2> SUFFICES ASSUME NEW k \in DOMAIN ProtocolsFor(s.req, s.domain)
               PROVE  Settled(rows, ProtocolsFor(s.req, s.domain)[k], s.req, s.domain)
    OBVIOUS
  <2> DEFINE p == ProtocolsFor(s.req, s.domain)[k]
  <2>1. p \in Protocols
    BY <1>3
  <2>2. Listed(s, p)
    BY DEF Listed
  <2> QED
    BY <1>1, <2>1, <2>2 DEF Progress
<1>5. s.req.domain \in {None, s.domain}
  BY <1>1 DEF Task
<1> QED
  BY <1>1, <1>4, <1>5 DEF InPlace

LEMMA RerunNext == ProbesAreAnswered => (RerunInv /\ [Next]_vars => RerunInv')
<1> SUFFICES ASSUME ProbesAreAnswered, RerunInv, [Next]_vars PROVE RerunInv'
  OBVIOUS
<1>1. /\ Inv /\ TypeOK /\ Inv'
      /\ settled # None => left = {}
      /\ \A k \in Jobs : DraftFits(k)'
  BY NextInv, DraftsNext DEF RerunInv, Inv
<1>2. ASSUME NEW j \in Jobs, Active(j), job[j].alone
      PROVE  Works(job[j], rows, minted, domain, left, settled, up)
  BY <1>2 DEF RerunInv
<1>3. ASSUME NEW j \in Jobs, Active(j), job[j].pc = "list", settled # None,
             \A k \in Jobs : k # j /\ Active(k) => job[k].pc = "list"
      PROVE  InPlace(settled, rows, domain)
  BY <1>3 DEF RerunInv
<1>4. ASSUME NEW j \in Jobs, Step(j), \A req \in Requests : ~Start(j, req) PROVE RerunInv'
  <2>1. Active(j) /\ OthersStand(j) /\ job'[j].alone = job[j].alone
    BY <1>1, <1>4, SteppersAreActive, ActorMoves
  <2>2. ASSUME UNCHANGED <<left, settled>>, job'[j].pc \in Working \ {"list"},
               job[j].alone => Works(job'[j], rows', minted', domain', left', settled', up')
        PROVE  RerunInv'
    BY <1>1, <2>1, <2>2, RerunGoesOn
  <2>3. ASSUME NEW answer \in Answers, job' = [job EXCEPT ![j] = Answered(j, answer)],
               settled' # None =>
                 /\ left' = {}
                 /\ (\A k \in Jobs : k # j /\ Active(k) => job[k].pc = "list")
                      => InPlace(settled', rows', domain')
        PROVE  RerunInv'
    <3>1. job'[j].pc \notin Working
      BY <1>1, <2>3, AnswerMoves
    <3> QED
      BY <1>1, <2>1, <2>3, <3>1, RerunGoesOn
  <2>4. CASE List(j) /\ MigrationComplete(j)
    <3>1. job[j].pc = "list" /\ UNCHANGED <<left, settled>>
      BY <2>4 DEF List
    <3>2. job'[j].pc = "loop"
      BY <1>1, <2>4, ListMoves
    <3>3. ASSUME job[j].alone
          PROVE  Works(job'[j], rows', minted', domain', left', settled', up')
      <4>1. \A k \in Jobs : Active(k) => k = j
        BY <1>1, <2>1, <3>3 DEF Inv, Undisturbed
      <4>2. settled # None => InPlace(settled, rows, domain)
        BY <1>3, <2>1, <3>1, <4>1
      <4> QED
        BY <1>1, <1>2, <2>1, <2>4, <3>3, <4>2, WorksList
    <3> QED
      BY <2>2, <3>1, <3>2, <3>3 DEF Working
  <2>5. CASE (List(j) /\ ~MigrationComplete(j)) \/ Unreachable(j)
    <3>1. /\ job[j].pc = "list" /\ UNCHANGED <<rows, domain, left, settled>>
          /\ job' = [job EXCEPT ![j] = Answered(j, "rejected")] /\ "rejected" \in Answers
      BY <2>5 DEF List, Unreachable, store, Answers
    <3>2. InPlace(settled, rows, domain) <=> InPlace(settled', rows', domain')
      BY <3>1
    <3> QED
      BY <1>1, <1>3, <2>1, <2>3, <3>1, <3>2
  <2>6. CASE \/ SkipConfigured(j) \/ ProtocolFails(j) \/ SkipUnchanged(j)
             \/ UpdateRow(j) \/ CreateRow(j) \/ CreateUnread(j)
    <3>1. job'[j].pc = "loop" /\ UNCHANGED <<left, settled>>
      BY <1>1, <2>6, LoopMoves
    <3>2. DraftFits(j)
      BY DEF RerunInv
    <3>3. job[j].alone => Works(job'[j], rows', minted', domain', left', settled', up')
      BY <1>1, <1>2, <2>1, <2>6, <3>2, WorksLoop
    <3> QED
      BY <2>2, <3>1, <3>3 DEF Working
  <2>7. CASE Draft(j) \/ LoopDone(j) \/ Rename(j)
    <3>1. job'[j].pc \in Working \ {"list"} /\ UNCHANGED <<left, settled>>
      BY <1>1, <2>7, DraftMoves, LoopDoneMoves, RenameMoves DEF Working
    <3>2. job[j].alone => Works(job'[j], rows', minted', domain', left', settled', up')
      BY <1>1, <1>2, <2>1, <2>7, WorksOnward
    <3> QED
      BY <2>2, <3>1, <3>2
  <2>8. CASE RenameFails(j)
    <3>1. job'[j].pc = "undo" /\ UNCHANGED <<left, settled>>
      BY <1>1, <2>8, SetupOf DEF RenameFails, Setup
    <3> QED
      BY <2>2, <3>1 DEF Working, Works
  <2>9. CASE Push(j) /\ ~(Pushed /\ job' = [job EXCEPT ![j] = Answered(j, "ok")])
    <3>1. job'[j].pc = "undo" /\ UNCHANGED <<left, settled>>
      BY <1>1, <2>9, RefusedPushMoves
    <3> QED
      BY <2>2, <3>1 DEF Working, Works
  <2>10. CASE Push(j) /\ Pushed /\ job' = [job EXCEPT ![j] = Answered(j, "ok")]
    <3>1. job[j].pc = "push" /\ UNCHANGED <<rows, domain>> /\ "ok" \in Answers
      BY <2>10 DEF Push, store, Answers
    <3>2. \/ /\ left' = {}
             /\ settled' = IF job[j].alone /\ left = {} THEN job[j].req ELSE None
          \/ job' = [job EXCEPT ![j].pc = "undo", ![j].undo = "rolledBack"]
      BY <2>10 DEF Push
    <3>3. job'[j].pc = "ok"
      BY <1>1, <2>10, <3>1, AnswerMoves
    <3>4. /\ left' = {}
          /\ settled' = IF job[j].alone /\ left = {} THEN job[j].req ELSE None
      BY <1>1, <3>2, <3>3, SetupOf DEF Setup
    <3>5. ASSUME settled' # None PROVE InPlace(settled', rows', domain')
      <4>1. job[j].alone /\ left = {} /\ settled' = job[j].req
        BY <3>4, <3>5
      <4>2. InPlace(job[j].req, rows, domain)
        BY <1>1, <1>2, <2>1, <3>1, <4>1, PushSettles
      <4> QED
        BY <3>1, <4>1, <4>2
    <3> QED
      BY <2>3, <2>10, <3>1, <3>4, <3>5
  <2>11. ASSUME NEW i \in Ids, Uncreate(j, i) \/ Restore(j, i) PROVE RerunInv'
    <3>1. job'[j].pc = "undo" /\ UNCHANGED <<left, settled>>
      BY <1>1, <2>11, UndoMoves
    <3> QED
      BY <2>2, <3>1 DEF Working, Works
  <2>12. CASE EndUndo(j)
    <3>1. settled' = None
      BY <2>12 DEF EndUndo
    <3>2. \/ job'[j].pc = "pushBack"
          \/ \E answer \in Answers : job' = [job EXCEPT ![j] = Answered(j, answer)]
      BY <1>1, <2>12, EndUndoMoves
    <3>3. CASE job'[j].pc = "pushBack"
      BY <1>1, <2>1, <3>1, <3>3, RerunGoesOn DEF Works
    <3> QED
      BY <2>3, <3>1, <3>2, <3>3
  <2>13. CASE PushBack(j)
    <3>1. settled' = None /\ \E answer \in Answers : job' = [job EXCEPT ![j] = Answered(j, answer)]
      BY <2>13 DEF PushBack, Answers, Undone
    <3> QED
      BY <2>3, <3>1
  <2> QED
    BY <1>4, <2>4, <2>5, <2>6, <2>7, <2>8, <2>9, <2>10, <2>11, <2>12, <2>13 DEF Step
<1>5. ASSUME UNCHANGED <<rows, minted, domain, settled>>, settled # None => left' = {},
             \A k \in Jobs : Active(k) => job'[k].pc = job[k].pc,
             \A k \in Jobs : job'[k].pc \in Working /\ job'[k].alone =>
               Works(job'[k], rows', minted', domain', left', settled', up')
      PROVE  RerunInv'
  <2>1. ASSUME settled' # None, \A k \in Jobs : Active(k)' => job'[k].pc = "list"
        PROVE  InPlace(settled', rows', domain')
    <3>1. \A k \in Jobs : Active(k) => job[k].pc = "list"
      BY <1>5, <2>1, RerunPrimed DEF Active
    <3>2. InPlace(settled, rows, domain)
      BY <1>5, <2>1, <3>1 DEF RerunInv
    <3> QED
      BY <1>5, <3>2
  <2> QED
    BY <1>1, <1>5, <2>1, RerunPrimed DEF RerunInv
<1>6. CASE OtherPush
  <2>1. /\ UNCHANGED <<rows, minted, domain, settled>> /\ left' \in {left, {}}
        /\ \A k \in Jobs : job'[k] = Met(k)
    BY <1>6 DEF OtherPush, Met, store
  <2>2. \A k \in Jobs : job'[k].pc = job[k].pc /\ (job'[k].alone => ~Active(k))
    BY <1>1, <2>1, MetMoves
  <2> QED
    BY <1>1, <1>5, <2>1, <2>2 DEF Active
<1>7. CASE Stop \/ UNCHANGED vars
  <2>1. /\ UNCHANGED <<rows, minted, domain, left, settled, job>>
        /\ up' => up
    BY <1>1, <1>7 DEF Stop, vars, store
  <2>2. ASSUME NEW k \in Jobs, job'[k].pc \in Working, job'[k].alone
        PROVE  Works(job'[k], rows', minted', domain', left', settled', up')
    <3>1. Works(job[k], rows, minted, domain, left, settled, up)
      BY <1>2, <2>1, <2>2 DEF Active
    <3>2. Repeats(job[k], up) => Repeats(job[k], up')
      BY <2>1 DEF Repeats
    <3> QED
      BY <2>1, <3>1, <3>2 DEF Works
  <2> QED
    BY <1>1, <1>5, <2>1, <2>2
<1>8. ASSUME NEW j \in Jobs, NEW req \in Requests, Start(j, req) PROVE RerunInv'
  <2> DEFINE d == IF req.domain = None THEN domain ELSE req.domain
             t == job'[j]
  <2>1. /\ ~Active(j) /\ UNCHANGED <<rows, minted, domain, up, left, settled>>
        /\ \A k \in Jobs : k # j => job'[k] = Met(k)
        /\ \/ t.pc = "rejected"
           \/ /\ Acceptable(req, d) /\ t.pc = "list" /\ t.req = req /\ t.was = domain
              /\ t.domain = d /\ t.todo = ProtocolsFor(req, d) /\ t.reserved = NoReserved
    BY <1>1, <1>8, StartMoves DEF store
  <2>2. \A k \in Jobs : k # j => job'[k].pc = job[k].pc /\ (job'[k].alone => ~Active(k))
    BY <1>1, <2>1, MetMoves
  <2>3. ASSUME t.pc \in Working
        PROVE  Works(t, rows', minted', domain', left', settled', up')
    <3>1. /\ Acceptable(req, d) /\ t.pc = "list" /\ t.req = req /\ t.was = domain
          /\ t.domain = d /\ t.todo = ProtocolsFor(req, d) /\ t.reserved = NoReserved
      BY <2>1, <2>3 DEF Working
    <3>2. NoRepeat(t)
      BY <3>1 DEF Acceptable, NoRepeat
    <3>3. \A p : ToDo(t, p) <=> Listed(t, p)
      BY <3>1 DEF ToDo, Listed
    <3> HIDE DEF t
    <3>4. Task(t)
      BY <3>1, <3>2, <3>3 DEF Task
    <3> QED
      BY <3>1, <3>4 DEF Works
  <2>4. \A k \in Jobs : job'[k].pc \in Working /\ job'[k].alone =>
          Works(job'[k], rows', minted', domain', left', settled', up')
    BY <2>2, <2>3 DEF Active
  <2> QED
    BY <1>1, <1>5, <2>1, <2>2, <2>4
<1> QED
  BY <1>4, <1>6, <1>7, <1>8 DEF Next

\* Re-running setup on an already-correct node is a no-op (HandleAutoSetup's
\* unchanged branch, selectListenPort and chooseRealitySNI in handler/setup.go):
\* after a setup nothing met has succeeded on a node in step, the same request
\* drafts for every protocol the inbound that is there, up to a random port.
\* The node answers the probes of ports and targets, and no request names a port
\* for HTTPUpgrade.
THEOREM RerunsKeepEverything ==
  ASSUME ProbesAreAnswered
  PROVE  Spec => []RerunKeepsEverything
<1>1. ASSUME RerunInv PROVE RerunKeepsEverything
  <2> SUFFICES ASSUME NEW j \in Jobs, job[j].pc = "drafted", job[j].alone, up,
                      settled = job[j].req
               PROVE  LET old == Old(j, Proto(j)) IN
                      /\ Exists(j, Proto(j))
                      /\ Unchanged(job[j].draft, [old EXCEPT !.port = job[j].draft.port])
                      /\ old.secret # None => job[j].draft.secret = old.secret
                      /\ job[j].draft.port = old.port \/ old.port \in RandomPorts
    BY DEF RerunKeepsEverything
  <2>1. Active(j) /\ TypeOK /\ job[j].draft.proto = Proto(j)
    BY <1>1 DEF RerunInv, Inv, DraftFits, Active, Working
  <2>2. Repeats(job[j], up)
    BY <1>1, <2>1 DEF RerunInv, Works
  <2>3. PICK i \in Ids :
          /\ Last(job[j].snap, Proto(j), i)
          /\ Unchanged(job[j].draft, [job[j].snap[i] EXCEPT !.port = job[j].draft.port])
          /\ job[j].draft.port = job[j].snap[i].port \/ job[j].snap[i].port \in RandomPorts
    BY <2>1, <2>2 DEF Repeats
  <2>4. Exists(j, Proto(j)) /\ Old(j, Proto(j)) = job[j].snap[i]
    BY <2>1, <2>3, LastIsExisting DEF Last
  <2>5. Old(j, Proto(j)).secret # None => job[j].draft.secret = Old(j, Proto(j)).secret
    BY <1>1 DEF RerunInv, DraftFits
  <2> QED
    BY <2>3, <2>4, <2>5
<1>2. Init => RerunInv
  <2> SUFFICES ASSUME Init PROVE RerunInv
    OBVIOUS
  <2>1. Inv
    BY InitInv
  <2>2. \A j \in Jobs : ~Active(j) /\ DraftFits(j)
    BY DEF Init, NoJob, DraftFits, Active, Working
  <2> QED
    BY <2>1, <2>2 DEF RerunInv, Init
<1>3. RerunInv /\ [Next]_vars => RerunInv'
  BY RerunNext
<1> QED
  BY <1>1, <1>2, <1>3, PTL DEF Spec

=============================================================================
