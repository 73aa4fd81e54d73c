------------------------------- MODULE SSHPool --------------------------------
(***************************************************************************)
(* The pool of long-lived SSH connections the traffic poller keeps, one    *)
(* per node.  Its mutex only protects the map: looking an entry up,        *)
(* probing the connection, dialling a new one, storing it and closing the  *)
(* one it replaces are separate steps, and other callers take theirs in    *)
(* between.                                                                *)
(***************************************************************************)
EXTENDS Integers, FiniteSets

CONSTANTS
  Nodes,      \* node ids
  Targets,    \* connection parameters of a node: user, host and port
  Clients,    \* SSH connections
  Callers,    \* goroutines that use the pool
  None        \* no node, no target, no connection

ASSUME NoneAssumption == None \notin Nodes \cup Targets \cup Clients

VARIABLES
  entries,    \* entries[n]: the pooled connection and what it was dialled to
  conn,       \* conn[c]: its state and where it leads
  call        \* call[g]: the pool call goroutine g is in

vars == <<entries, conn, call>>

NoEntry == [client |-> None, target |-> None]
Entry   == [client : Clients, target : Targets]

(***************************************************************************)
(* A connection is "open"; "dead" when its transport has failed but the    *)
(* panel still holds it; "closed" before it is dialled and after Close.    *)
(***************************************************************************)
Conn == [state : {"open", "dead", "closed"}, node : Nodes \cup {None},
         target : Targets \cup {None}]

(***************************************************************************)
(* Where a call is: before the lookup of get, at the probe of the entry it *)
(* found, dialling, holding a new client, left with a surplus client;      *)
(* before the removal of drop, closing what it removed; and, back with its *)
(* caller, "got" a client, "failed", or "dropped".  `then' is where a drop *)
(* leads: get goes on to dial.                                             *)
(***************************************************************************)
Pcs == {"idle", "lookup", "probe", "dial", "dialled", "surplus", "remove",
        "close", "got", "failed", "dropped"}

NoCall == [pc |-> "idle", node |-> None, target |-> None, found |-> NoEntry,
           client |-> None, own |-> None, victims |-> {}, then |-> "dropped"]

Call == [pc : Pcs, node : Nodes \cup {None}, target : Targets \cup {None},
         found : Entry \cup {NoEntry}, client : Clients \cup {None},
         own : Clients \cup {None}, victims : SUBSET Clients,
         then : {"dial", "dropped"}]

\* Type invariant: the map, the connections and the calls in progress.
TypeOK ==
  /\ entries \in [Nodes -> Entry \cup {NoEntry}]
  /\ conn \in [Clients -> Conn]
  /\ call \in [Callers -> Call]

Init ==
  /\ entries = [n \in Nodes |-> NoEntry]
  /\ conn = [c \in Clients |-> [state |-> "closed", node |-> None, target |-> None]]
  /\ call = [g \in Callers |-> NoCall]

Closed(cs) == [c \in Clients |-> IF c \in cs THEN [conn[c] EXCEPT !.state = "closed"]
                                             ELSE conn[c]]

-----------------------------------------------------------------------------
(***************************************************************************)
(* get.  The node it is given was read from the database earlier; operators *)
(* edit nodes, so two calls may ask for different parameters.              *)
(***************************************************************************)
StartGet(g, n, t) ==
  /\ call[g].pc = "idle"
  /\ call' = [call EXCEPT ![g] = [NoCall EXCEPT !.pc = "lookup", !.node = n,
                                                !.target = t]]
  /\ UNCHANGED <<entries, conn>>

Lookup(g) ==
  LET entry == entries[call[g].node] IN
  /\ call[g].pc = "lookup"
  /\ call' = [call EXCEPT ![g].found = entry,
                          ![g].pc = IF entry = NoEntry THEN "dial" ELSE "probe"]
  /\ UNCHANGED <<entries, conn>>

\* Faulty variant: an entry is reused whatever it was dialled to.
ReusableAnyway(entry, t) == conn[entry.client].state = "open"

\* sshAlive, and the fingerprint of the entry is the one asked for.
Reusable(entry, t) == entry.target = t /\ conn[entry.client].state = "open"

Probe(g) ==
  LET found == call[g].found IN
  /\ call[g].pc = "probe"
  /\ call' = IF Reusable(found, call[g].target)
               THEN [call EXCEPT ![g].pc = "got", ![g].client = found.client,
                                 ![g].found = NoEntry]
               ELSE [call EXCEPT ![g].pc = "remove", ![g].then = "dial",
                                 ![g].found = NoEntry]
  /\ UNCHANGED <<entries, conn>>

DialFails(g) ==
  /\ call[g].pc = "dial"
  /\ call' = [call EXCEPT ![g].pc = "failed"]
  /\ UNCHANGED <<entries, conn>>

\* The clients somebody may still use: pooled ones and those of a call.
Referenced ==
  {entries[n].client : n \in Nodes}
    \cup UNION {{call[g].client, call[g].own, call[g].found.client}
                  \cup call[g].victims : g \in Callers}

\* A new connection; ids of closed ones that nobody knows any more are reused.
Dial(g, c) ==
  /\ call[g].pc = "dial"
  /\ conn[c].state = "closed" /\ c \notin Referenced
  /\ conn' = [conn EXCEPT ![c] = [state |-> "open", node |-> call[g].node,
                                  target |-> call[g].target]]
  /\ call' = [call EXCEPT ![g].pc = "dialled", ![g].own = c]
  /\ UNCHANGED entries

\* Another call stored a connection to the same target meanwhile.
Duplicate(g) ==
  LET existing == entries[call[g].node]
  IN  existing # NoEntry /\ existing.target = call[g].target

StoreDuplicate(g) ==
  /\ call[g].pc = "dialled"
  /\ Duplicate(g)
  /\ call' = [call EXCEPT ![g].pc = "surplus",
                          ![g].client = entries[call[g].node].client]
  /\ UNCHANGED <<entries, conn>>

\* Whatever else the map holds for the node is overwritten.
StoreNew(g) ==
  /\ call[g].pc = "dialled"
  /\ ~Duplicate(g)
  /\ entries' = [entries EXCEPT ![call[g].node] =
                   [client |-> call[g].own, target |-> call[g].target]]
  /\ call' = [call EXCEPT ![g].pc = "got", ![g].client = call[g].own,
                          ![g].own = None]
  /\ UNCHANGED conn

\* Faulty variant: the surplus connection stays open.
KeepSurplus(g) ==
  /\ call[g].pc = "surplus"
  /\ call' = [call EXCEPT ![g].pc = "got", ![g].own = None]
  /\ UNCHANGED <<entries, conn>>

CloseSurplus(g) ==
  /\ call[g].pc = "surplus"
  /\ conn' = Closed({call[g].own})
  /\ call' = [call EXCEPT ![g].pc = "got", ![g].own = None]
  /\ UNCHANGED entries

-----------------------------------------------------------------------------
(***************************************************************************)
(* drop and Close: forget under the mutex, close outside it.               *)
(***************************************************************************)
StartDrop(g, n) ==
  /\ call[g].pc \in {"idle", "got"}
  /\ call' = [call EXCEPT ![g] = [NoCall EXCEPT !.pc = "remove", !.node = n]]
  /\ UNCHANGED <<entries, conn>>

\* Faulty variants: the entry loses its client but stays in the map; it is
\* closed but not deleted.
RemoveClientOnly(g) ==
  LET entry == entries[call[g].node] IN
  /\ call[g].pc = "remove"
  /\ entries' = [entries EXCEPT ![call[g].node].client = None]
  /\ call' = [call EXCEPT ![g].pc = "close",
                          ![g].victims = {entry.client} \ {None}]
  /\ UNCHANGED conn

RemoveNothing(g) ==
  LET entry == entries[call[g].node] IN
  /\ call[g].pc = "remove"
  /\ call' = [call EXCEPT ![g].pc = "close",
                          ![g].victims = {entry.client} \ {None}]
  /\ UNCHANGED <<entries, conn>>

\* Whatever the map holds now is dropped, were it another call's new entry.
Remove(g) ==
  LET entry == entries[call[g].node] IN
  /\ call[g].pc = "remove"
  /\ entries' = [entries EXCEPT ![call[g].node] = NoEntry]
  /\ call' = [call EXCEPT ![g].pc = "close",
                          ![g].victims = {entry.client} \ {None}]
  /\ UNCHANGED conn

CloseVictims(g) ==
  /\ call[g].pc = "close"
  /\ conn' = Closed(call[g].victims)
  /\ call' = [call EXCEPT ![g].pc = call[g].then, ![g].victims = {}]
  /\ UNCHANGED entries

\* Close takes the whole map.
CloseAll(g) ==
  /\ call[g].pc = "idle"
  /\ entries' = [n \in Nodes |-> NoEntry]
  /\ call' = [call EXCEPT ![g] =
       [NoCall EXCEPT !.pc = "close",
                      !.victims = {entries[n].client : n \in Nodes} \ {None}]]
  /\ UNCHANGED conn

\* One step of a call inside the pool.
PoolStep(g) ==
  \/ Lookup(g) \/ Probe(g)
  \/ DialFails(g) \/ \E c \in Clients : Dial(g, c)
  \/ StoreDuplicate(g) \/ StoreNew(g) \/ CloseSurplus(g)
  \/ Remove(g) \/ CloseVictims(g)

-----------------------------------------------------------------------------
(***************************************************************************)
(* The environment: callers that use the client they got for a while and   *)
(* drop the node's connection when a query fails or times out, and         *)
(* networks that fail.                                                     *)
(***************************************************************************)
Finish(g) ==
  /\ call[g].pc \in {"got", "failed", "dropped"}
  /\ call' = [call EXCEPT ![g] = NoCall]
  /\ UNCHANGED <<entries, conn>>

Use(g) ==
  \/ \E n \in Nodes, t \in Targets : StartGet(g, n, t)
  \/ \E n \in Nodes : StartDrop(g, n)
  \/ CloseAll(g)
  \/ Finish(g)

TransportFails(c) ==
  /\ conn[c].state = "open"
  /\ conn' = [conn EXCEPT ![c].state = "dead"]
  /\ UNCHANGED <<entries, call>>

Next ==
  \/ \E g \in Callers : PoolStep(g) \/ Use(g)
  \/ \E c \in Clients : TransportFails(c)

Spec == Init /\ [][Next]_vars

-----------------------------------------------------------------------------
(***************************************************************************)
(* Properties.                                                             *)
(***************************************************************************)

\* get returns a connection to the node it was asked for, dialled with the
\* parameters it was given, whichever way (entry reused, own dial, another call's
\* dial) the client came: once a cycle has read the edited node, none of its polls
\* uses a connection to the old address.  (Those of the cycle under way go on
\* with the parameters it read.)
ClientLeadsToNode ==
  \A g \in Callers :
    call[g].pc = "got" =>
      /\ conn[call[g].client].node = call[g].node
      /\ conn[call[g].client].target = call[g].target

\* The map never holds a connection the panel has closed: no other call can
\* find it and take it for the node's connection.
PooledAreNotClosed ==
  \A n \in Nodes :
    entries[n] # NoEntry => /\ conn[entries[n].client].state # "closed"
                            /\ conn[entries[n].client].node = n

\* "The pool never leaks a connection" (handler/sshpool.go): a connection that
\* is not closed is in the map, or a call holds it that will store or close it.
NothingLeaks ==
  \A c \in Clients :
    conn[c].state # "closed" =>
      \/ \E n \in Nodes : entries[n].client = c
      \/ \E g \in Callers : c = call[g].own \/ c \in call[g].victims

=============================================================================
