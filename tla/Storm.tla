------------------------------- MODULE Storm -------------------------------
(***************************************************************************)
(* The Storm transport (storm/src): the connections between the nodes, the *)
(* discovery of a new network by its host and the admission of a joining   *)
(* node, and the change of the peer tables in a member migration.          *)
(*                                                                         *)
(* A stream is dialed by one node and accepted by another; each of them    *)
(* claims it for the key of the other after the handshake, runs it in a    *)
(* task of its own, and releases the claim when the task ends.  A message  *)
(* is queued at the connection, read by the other end after two looks at   *)
(* the state, and handled in a third.  Any interleaving of these steps,    *)
(* streams in both directions at once and broken streams are allowed.      *)
(*                                                                         *)
(* Of the messages the tables of peers and the requests for them are kept; *)
(* a heartbeat is the end of a connection to an unknown key.  An address   *)
(* is known or not.  A name is resolved and reached.  No peer is banned:   *)
(* nothing in the node bans one.                                           *)
(***************************************************************************)
EXTENDS Naturals, FiniteSets, Sequences, Functions

CONSTANTS
  Node,            \* public keys
  Host,            \* the discovery host, later the peer_table_authority
  Joiner,          \* a node that joins in a migration
  Targets,         \* the sets of members a migration may stage; {} for a new
                   \* network, which the host waits for to be complete
  MaxProvisional,  \* MAX_PROVISIONAL_CONNECTIONS
  Capacity,        \* OUTBOUND_QUEUE_CAPACITY
  MaxFaults,       \* bound: broken connections, by target
  MaxRaces,        \* bound: dials while the other node dials or when the plan
                   \* is out of date, by target
  Between,         \* bound: the targets for which other steps come between a
                   \* claim and its broadcast
  None

ASSUME NodeAssumption == Host \in Node /\ Joiner \in Node \ {Host}
ASSUME TargetAssumption ==
  \A t \in Targets : t \subseteq Node /\ (t = {} \/ {Host, Joiner} \subseteq t)

ASSUME NoneAssumption == \A nodes \in SUBSET Node : nodes # None

VARIABLES
  target,  \* the members the migration leads to, {} for a new network
  local,   \* local[n]: the StormState of n
  ends,    \* ends[n][p][d]: the task of n for a stream with p that n has
           \* dialed (d = "out") or accepted (d = "in")
  inbox,   \* inbox[n][p][d]: messages p has queued and that task has not read
  up,      \* up[n]: n has not given up its start
  faults, races,
  told,    \* history: the host has queued the staged table for all who are active
  lost     \* history: a table was dropped with the stream that carried it, or
           \* the host activated one that it had told nobody

vars == <<target, local, ends, inbox, up, faults, races, told, lost>>

Dir == {"out", "in"}
Other(d) == IF d = "out" THEN "in" ELSE "out"

Task == {"idle", "shaking", "greeting", "open", "busy", "closing"}
Row == [status : {"Controlled", "Active", "Inactive"}, addr : BOOLEAN, discovery : BOOLEAN]
Rows == UNION {[D -> Row] : D \in SUBSET Node}
StormState == [peers : Rows, movers : Rows, staged : (SUBSET Node) \cup {None},
               received : BOOLEAN, conn : UNION {[D -> Dir] : D \in SUBSET Node}]

Message == [kind : {"ask", "table"}, keys : SUBSET Node]

Ask == [kind |-> "ask", keys |-> {}]
Table(rows) == [kind |-> "table", keys |-> DOMAIN rows]

TypeOK ==
  /\ target \in Targets
  /\ local \in [Node -> StormState]
  /\ ends \in [Node -> [Node -> [Dir -> Task]]]
  /\ \A n, p \in Node, d \in Dir :
       inbox[n][p][d] \in Seq(Message) /\ Len(inbox[n][p][d]) <= Capacity
  /\ up \in [Node -> BOOLEAN]
  /\ faults \in 0 .. MaxFaults[target] /\ races \in 0 .. MaxRaces[target]
  /\ told \in BOOLEAN /\ lost \in BOOLEAN

Founding == target = {}
Old == Node \ {Joiner}
Mesh == IF Founding THEN Node ELSE target
Joining(n) == IF Founding THEN n # Host ELSE n = Joiner

-----------------------------------------------------------------------------
(* Peer tables and connections of one node: s is its StormState. *)

Known(s, p) == p \in DOMAIN s.peers
Contains(s, p) == s.staged # None /\ p \in s.staged
Active(rows) == {p \in DOMAIN rows : rows[p].status = "Active"}
Addressed(rows) == \A p \in DOMAIN rows : rows[p].addr
Discovering(s) == \E p \in DOMAIN s.peers : s.peers[p].discovery

Complete(s) == s.staged # None /\ DOMAIN s.movers = s.staged

(* migration_ready, migration_table_complete *)
Ready(s, n) == Complete(s) /\ DOMAIN s.movers \subseteq Active(s.movers) \cup {n}
TableComplete(s) == Complete(s) /\ Addressed(s.movers)

AcceptsUnregistered(s, n, p) ==
  \/ Contains(s, p)
  \/ ~s.received /\ \E q \in DOMAIN s.peers \ {n} : s.peers[q].discovery

Free(s, p) == p \notin DOMAIN s.conn
Provisional(s) == DOMAIN s.conn \ DOMAIN s.peers

(* Variant for sensitivity checking: a second connection replaces the first. *)
ClaimableAgain(s, n, p) == Known(s, p) \/ AcceptsUnregistered(s, n, p)

(* claim_connection, with the errors it returns. *)
Claimable(s, n, p) ==
  /\ Free(s, p)
  /\ IF Known(s, p)
     THEN s.peers[p].status # "Active"
     ELSE AcceptsUnregistered(s, n, p) /\ Cardinality(Provisional(s)) < MaxProvisional

(* Variant for sensitivity checking: the address a peer gives is not kept. *)
ReachedNowhere(rows, p, d) ==
  IF p \in DOMAIN rows THEN [rows EXCEPT ![p].status = "Active"] ELSE rows

Reached(rows, p, d) ==
  IF p \in DOMAIN rows
  THEN [rows EXCEPT ![p].status = "Active", ![p].addr = @ \/ d = "in"]
  ELSE rows

Inserted(map, p, x) == [q \in DOMAIN map \cup {p} |-> IF q = p THEN x ELSE map[q]]

Claimed(s, p, d) ==
  [s EXCEPT
     !.conn = Inserted(@, p, d),
     !.peers = Reached(@, p, d),
     !.movers =
       IF Known(s, p) \/ (p \in DOMAIN @ /\ Contains(s, p)) THEN Reached(@, p, d)
       ELSE IF Contains(s, p)
       THEN Inserted(@, p, [status |-> "Active", addr |-> d = "in", discovery |-> FALSE])
       ELSE @]

Parted(rows, p) ==
  [q \in DOMAIN rows |->
     IF q = p /\ rows[q].status = "Active" THEN [rows[q] EXCEPT !.status = "Inactive"]
     ELSE rows[q]]

(* release_connection *)
Released(s, p) ==
  [s EXCEPT !.conn = Restrict(@, DOMAIN @ \ {p}),
            !.peers = Parted(@, p), !.movers = Parted(@, p)]

(* finish_client_discovery_if_connected *)
Finished(s, n) ==
  IF /\ s.received
     /\ ~(n \in DOMAIN s.peers /\ s.peers[n].discovery)
     /\ DOMAIN s.peers \ {n} = Active(s.peers)
  THEN [s EXCEPT !.peers = [p \in DOMAIN @ |-> [@[p] EXCEPT !.discovery = FALSE]]]
  ELSE s

(* replace_discovered_peers *)
Discovered(s, p, keys) ==
  LET conn == Restrict(s.conn, DOMAIN s.conn \cap keys)
      row(q) == IF q \in DOMAIN s.peers
                THEN [s.peers[q] EXCEPT !.addr = TRUE]
                ELSE [status |-> "Inactive", addr |-> TRUE, discovery |-> FALSE]
  IN [s EXCEPT !.conn = conn, !.received = TRUE,
        !.peers = [q \in keys |->
                     IF q \in DOMAIN conn THEN [row(q) EXCEPT !.status = "Active"] ELSE row(q)]]

(* replace_migration_peers *)
Restaged(s, n, keys) ==
  [s EXCEPT !.movers =
     [q \in keys |->
        [status |-> IF q = n THEN "Controlled"
                    ELSE IF q \in DOMAIN s.conn THEN "Active" ELSE "Inactive",
         addr |-> TRUE, discovery |-> FALSE]]]

-----------------------------------------------------------------------------
(* Sending. *)

Live(task) == task \in {"greeting", "open", "busy"}

(* The receiver of the queue is there, where tasks has the tasks of n, and *)
(* the queue is not full.                                                  *)
Reachable(tasks, s, n, p) ==
  /\ p \in DOMAIN s.conn
  /\ Live(tasks[p][s.conn[p]])
  /\ Len(inbox[p][n][Other(s.conn[p])]) < Capacity

(* broadcast_discovery_table_if_ready: the mail it queues for each peer, the *)
(* state it leaves and whether it ends without an error.                     *)
Announce(tasks, s, n) ==
  LET ready == Ready(s, n) /\ Addressed(s.movers)
      movers == IF ready THEN (Active(s.movers) \cup Active(s.peers)) \ {n} ELSE {}
      ok == Ready(s, n) => ready /\ \A p \in movers : Reachable(tasks, s, n, p)
      founded == /\ ok
                 /\ n \in DOMAIN s.peers /\ s.peers[n].discovery
                 /\ Addressed(s.peers) /\ DOMAIN s.peers \ {n} = Active(s.peers)
      peers == IF founded THEN Active(s.peers) ELSE {}
      done == \A p \in peers : Reachable(tasks, s, n, p)
  IN [ok |-> ok /\ done, told |-> ok /\ ready,
      state |-> IF founded /\ done THEN [s EXCEPT !.peers[n].discovery = FALSE] ELSE s,
      mail |-> [p \in Node |->
                  IF ~Reachable(tasks, s, n, p) THEN <<>>
                  ELSE (IF p \in movers THEN <<Table(s.movers)>> ELSE <<>>)
                       \o (IF p \in peers THEN <<Table(s.peers)>> ELSE <<>>)]]

(* What is sent to a task that has ended is dropped with the stream. *)
Gone(p, n, d) == ends[p][n][d] \in {"idle", "closing"}

Posted(boxes, s, n, mail) ==
  [p \in Node |-> [q \in Node |-> [d \in Dir |->
     IF q = n /\ mail[p] # <<>> /\ s.conn[p] = Other(d) /\ ~Gone(p, n, d)
     THEN boxes[p][q][d] \o mail[p] ELSE boxes[p][q][d]]]]

HasTable(box) == \E i \in DOMAIN box : box[i].kind = "table"
Dropped(s, n, mail) ==
  \E p \in Node : HasTable(mail[p]) /\ Gone(p, n, Other(s.conn[p]))

(* request_migration_peer_table *)
Asked(s, n) ==
  IF Ready(s, n) THEN {} ELSE {p \in Active(s.peers) \ {n} : Contains(s, p)}

-----------------------------------------------------------------------------
(* Connections. *)

Rest == <<target, up, faults, races, told, lost>>
Set(n, p, d, task) == ends' = [ends EXCEPT ![n][p][d] = task]

(* A row a connection plan dials, on one of the two kinds of reconnect ticks. *)
Planned(n, rows, p) == p \in DOMAIN rows \ {n} /\ rows[p].addr
Wanted(n, rows, p) == Planned(n, rows, p) /\ rows[p].status = "Inactive"

(* Both tables are planned for, in turn. *)
Dialed(n) == {local[n].peers} \cup (IF local[n].staged = None THEN {} ELSE {local[n].movers})

(* connect_peer: the initiator claims as soon as it has sent the last frame *)
(* of the handshake, the other node when it has read it.  The plan may have *)
(* been made when the peer was not connected yet; such a stream is refused  *)
(* by one of the two.  Streams of one direction follow each other.          *)
Dial(n, p) ==
  /\ up[n] /\ up[p]
  /\ ends[n][p]["out"] = "idle" /\ ends[p][n]["in"] = "idle"
  /\ \E rows \in Dialed(n) : Planned(n, rows, p)
  /\ IF /\ ends[n][p]["in"] = "idle" /\ ends[p][n]["out"] = "idle"
        /\ \E rows \in Dialed(n) : Wanted(n, rows, p)
     THEN UNCHANGED races ELSE races < MaxRaces[target] /\ races' = races + 1
  /\ IF Claimable(local[n], n, p)
     THEN /\ local' = [local EXCEPT ![n] = Finished(Claimed(@, p, "out"), n)]
          /\ ends' = [ends EXCEPT ![n][p]["out"] = "open", ![p][n]["in"] = "shaking"]
     ELSE Set(p, n, "in", "shaking") /\ UNCHANGED local
  /\ UNCHANGED <<target, inbox, up, told, faults, lost>>

(* handle_connection: the claim, or the end of the stream.                 *)
Accept(n, p) ==
  /\ ends[n][p]["in"] = "shaking"
  /\ IF ~Claimable(local[n], n, p)
     THEN /\ Set(n, p, "in", "idle")
          /\ inbox' = [inbox EXCEPT ![n][p]["in"] = <<>>]
          /\ lost' = (lost \/ HasTable(inbox[n][p]["in"]))
          /\ UNCHANGED local
     ELSE /\ local' = [local EXCEPT ![n] = Claimed(@, p, "in")]
          /\ Set(n, p, "in", "greeting")
          /\ UNCHANGED <<inbox, lost>>
  /\ UNCHANGED <<target, up, told, faults, races>>

(* Then the broadcast, of the state as it is by now.  An error of it ends  *)
(* the task, and nothing releases what it has claimed.                     *)
Greet(n, p) ==
  /\ ends[n][p]["in"] = "greeting"
  /\ LET s == local[n]
         a == Announce(ends[n], s, n)
     IN /\ local' = [local EXCEPT ![n] = IF a.ok THEN Finished(a.state, n) ELSE a.state]
        /\ Set(n, p, "in", IF a.ok THEN "open" ELSE "idle")
        /\ inbox' = IF a.ok THEN Posted(inbox, s, n, a.mail)
                    ELSE [Posted(inbox, s, n, a.mail) EXCEPT ![n][p]["in"] = <<>>]
        /\ lost' = (lost \/ Dropped(s, n, a.mail)
                         \/ (~a.ok /\ HasTable(inbox[n][p]["in"])))
        /\ told' = (told \/ (n = Host /\ a.told))
  /\ UNCHANGED <<target, up, faults, races>>

Holds(n, p, d) == p \in DOMAIN local[n].conn /\ local[n].conn[p] = d
Ended(n, p, d) == Gone(p, n, Other(d))

Break(n, p, d) ==
  /\ Set(n, p, d, "closing")
  /\ inbox' = [inbox EXCEPT ![n][p][d] = <<>>]
  /\ lost' = (lost \/ HasTable(inbox[n][p][d]))

(* run_connection returns: its queue was dropped, or the stream has ended. *)
Close(n, p, d) ==
  /\ ends[n][p][d] \in {"open", "busy"}
  /\ ~Holds(n, p, d) \/ Ended(n, p, d)
  /\ Break(n, p, d)
  /\ UNCHANGED <<target, local, up, told, faults, races>>

(* A timeout, an error of the stream, or an error that cannot be answered   *)
(* because the queue is full (handle_message).                              *)
Fault(n, p, d) ==
  /\ faults < MaxFaults[target]
  /\ ends[n][p][d] \in {"open", "busy"}
  /\ Break(n, p, d)
  /\ faults' = faults + 1
  /\ UNCHANGED <<target, local, up, told, races>>

Release(n, p, d) ==
  /\ ends[n][p][d] = "closing"
  /\ local' = [local EXCEPT ![n] = Released(@, p)]
  /\ Set(n, p, d, "idle")
  /\ UNCHANGED <<inbox, Rest>>

-----------------------------------------------------------------------------
(* Messages. *)

(* handle_message up to the handler: who may send what.  Everyone sends *)
(* heartbeats.                                                          *)
Receive(n, p, d) ==
  /\ ends[n][p][d] = "open"
  /\ LET s == local[n]
         staging == p \in DOMAIN s.movers /\ ~Known(s, p)
         box == inbox[n][p][d]
     IN IF \/ ~Known(s, p) /\ ~staging
           \/ staging /\ box # <<>> /\ box[1].kind = "table"
        THEN Break(n, p, d)
        ELSE box # <<>> /\ box[1].kind = "table" /\ Set(n, p, d, "busy")
             /\ UNCHANGED <<inbox, lost>>
  /\ UNCHANGED <<target, local, up, told, faults, races>>

(* peers_socket_info::handle; "panic" is its expect(). *)
TableOutcome(s, n, p, keys) ==
  IF s.staged = keys THEN IF p = Host THEN "restage" ELSE "error"
  ELSE IF ~Known(s, p) THEN "panic"
  ELSE IF s.peers[p].discovery THEN IF {n, p} \subseteq keys THEN "discover" ELSE "error"
  ELSE IF s.staged = None /\ p = Host /\ keys # DOMAIN s.peers
  THEN IF p \in keys THEN "restage" ELSE "error"
  ELSE "compare"

HandleTable(n, p, d) ==
  LET s == local[n]
      m == Head(inbox[n][p][d])
      outcome == TableOutcome(s, n, p, m.keys)
  IN /\ ends[n][p][d] = "busy"
     /\ Set(n, p, d, IF outcome = "panic" THEN "idle" ELSE "open")
     /\ local' = [local EXCEPT ![n] =
                    CASE outcome = "restage" -> Restaged(s, n, m.keys)
                      [] outcome = "discover" -> Finished(Discovered(s, p, m.keys), n)
                      [] OTHER -> s]
     /\ inbox' = [inbox EXCEPT ![n][p][d] = IF outcome = "panic" THEN <<>> ELSE Tail(@)]
     /\ lost' = (lost \/ outcome = "panic")
     /\ UNCHANGED <<target, up, told, faults, races>>

(* ask_peers_socket_info::handle: the staged table to those it is about. *)
HandleAsk(n, p, d) ==
  LET s == local[n]
      rows == IF Contains(s, p) THEN s.movers ELSE s.peers
      answers == /\ Contains(s, p) => Ready(s, n)
                 /\ Addressed(rows) /\ Reachable(ends[n], s, n, p)
      mail == [q \in Node |-> IF q = p /\ answers THEN <<Table(rows)>> ELSE <<>>]
  IN /\ ends[n][p][d] = "open" /\ inbox[n][p][d] # <<>> /\ Head(inbox[n][p][d]).kind = "ask"
     /\ Known(s, p) \/ p \in DOMAIN s.movers
     /\ inbox' = [Posted(inbox, s, n, mail) EXCEPT ![n][p][d] = Tail(@)]
     /\ lost' = (lost \/ Dropped(s, n, mail))
     /\ UNCHANGED <<target, local, ends, up, faults, races, told>>

-----------------------------------------------------------------------------
(* What the node does. *)

Emptied == [p \in Node |-> [d \in Dir |-> <<>>]]
Quit(n, boxes) ==
  /\ up' = [up EXCEPT ![n] = FALSE]
  /\ ends' = [ends EXCEPT ![n] = [p \in Node |-> [d \in Dir |-> "idle"]]]
  /\ inbox' = [boxes EXCEPT ![n] = Emptied]

(* Bound: what n has queued is read before its next tick. *)
Quiet(n) == \A p \in Node, d \in Dir : inbox[p][n][d] = <<>>

(* The ticks that call start: of initialize, which gives up on an error, and *)
(* of the main loop, which logs it.                                          *)
Start(n) ==
  /\ up[n] /\ Known(local[n], n) /\ Quiet(n)
  /\ LET a == Announce(ends[n], local[n], n)
         boxes == Posted(inbox, local[n], n, a.mail)
         fatal == ~a.ok /\ Discovering(local[n])
     IN /\ ~a.ok \/ \E p \in Node : a.mail[p] # <<>>
        /\ local' = [local EXCEPT ![n] = Finished(a.state, n)]
        /\ told' = (told \/ (n = Host /\ a.told))
        /\ lost' = (lost \/ fatal \/ Dropped(local[n], n, a.mail))
        /\ IF fatal THEN Quit(n, boxes)
           ELSE inbox' = boxes /\ UNCHANGED <<ends, up>>
  /\ UNCHANGED <<target, faults, races>>

(* The main loop of a node that was removed ends. *)
Leave(n) ==
  /\ up[n] /\ ~Known(local[n], n)
  /\ Quit(n, inbox)
  /\ UNCHANGED <<target, local, faults, races, told, lost>>

(* reconnect_disconnected_peers *)
Reconnect(n) ==
  LET s == local[n]
      asked == Asked(s, n)
      asks == [p \in Node |-> IF p \in asked /\ Reachable(ends[n], s, n, p) THEN <<Ask>> ELSE <<>>]
  IN /\ up[n] /\ Quiet(n) /\ asked # {}
     /\ inbox' = Posted(inbox, s, n, asks)
     /\ UNCHANGED <<local, ends, Rest>>

Candidates(s) ==
  [p \in (DOMAIN s.peers \cup DOMAIN s.movers) \cap target |->
     IF Known(s, p) THEN s.peers[p] ELSE s.movers[p]]

(* ensure_member_migration.  One that takes too long is cancelled and begun *)
(* again in one call.  In begin_member_migration an error of the request    *)
(* for the table ends it before the broadcast.  Later calls for the same    *)
(* members only send again what ticks send.                                 *)
Begin(n) ==
  /\ up[n] /\ ~Founding /\ n \in Old
  /\ DOMAIN local[n].peers = Old
  /\ local[n].staged = None \/ Quiet(n)
  /\ LET s == [local[n] EXCEPT !.staged = target, !.movers = Candidates(local[n])]
         asked == Asked(s, n)
         asks == [p \in Node |-> IF p \in asked /\ Reachable(ends[n], s, n, p) THEN <<Ask>> ELSE <<>>]
         a == Announce(ends[n], s, n)
         ok == \A p \in asked : Reachable(ends[n], s, n, p)
     IN /\ local' = [local EXCEPT ![n] = IF ok THEN a.state ELSE s]
        /\ inbox' = Posted(inbox, s, n, IF asked # {} THEN asks ELSE a.mail)
        /\ told' = (told \/ (n = Host /\ ok /\ a.told))
        /\ lost' = (lost \/ (asked = {} /\ Dropped(s, n, a.mail)))
  /\ UNCHANGED <<target, ends, up, faults, races>>

MayActivate(s, n) ==
  s.staged # None /\ (Ready(s, n) \/ (~Contains(s, n) /\ TableComplete(s)))

(* Variant for sensitivity checking: connections to removed members stay. *)
ActivatedInPart(s) == [s EXCEPT !.peers = s.movers, !.movers = <<>>, !.staged = None]

(* activate_member_migration *)
Activated(s) ==
  [s EXCEPT !.peers = s.movers, !.movers = <<>>, !.staged = None,
            !.conn = Restrict(@, DOMAIN @ \cap DOMAIN s.movers)]

Activate(n) ==
  /\ up[n] /\ MayActivate(local[n], n)
  /\ local' = [local EXCEPT ![n] = Activated(@)]
  /\ lost' = (lost \/ (n = Host /\ ~told))
  /\ UNCHANGED <<target, ends, inbox, up, faults, races, told>>

-----------------------------------------------------------------------------
Self(discovery) == [status |-> "Controlled", addr |-> TRUE, discovery |-> discovery]
Remote(addr, discovery) == [status |-> "Inactive", addr |-> addr, discovery |-> discovery]

(* Storm::discoverable, Storm::discovery and Storm::from_peers, listening. *)
InitialPeers(n) ==
  IF Joining(n) THEN [p \in {n, Host} |-> IF p = n THEN Self(FALSE) ELSE Remote(TRUE, TRUE)]
  ELSE IF Founding
  THEN [p \in Node |-> IF p = n THEN Self(TRUE) ELSE Remote(FALSE, FALSE)]
  ELSE [p \in Old |-> IF p = n THEN Self(FALSE) ELSE Remote(TRUE, FALSE)]

(* The members of a network that changes are connected, each to those before *)
(* it in the order of the keys.                                              *)
InitialConn(n) ==
  IF Founding \/ Joining(n) THEN <<>>
  ELSE [p \in Old \ {n} |-> IF n < p THEN "out" ELSE "in"]

Init ==
  /\ target \in Targets
  /\ local = [n \in Node |->
       LET rows == InitialPeers(n)
           conn == InitialConn(n)
       IN [peers |-> [p \in DOMAIN rows |->
                        [rows[p] EXCEPT !.status = IF p \in DOMAIN conn THEN "Active" ELSE @]],
           movers |-> <<>>, staged |-> None, received |-> FALSE, conn |-> conn]]
  /\ ends = [n \in Node |-> [p \in Node |-> [d \in Dir |->
       IF p \in DOMAIN local[n].conn /\ local[n].conn[p] = d THEN "open" ELSE "idle"]]]
  /\ inbox = [n \in Node |-> [p \in Node |-> [d \in Dir |-> <<>>]]]
  /\ up = [n \in Node |-> TRUE]
  /\ faults = 0 /\ races = 0 /\ told = FALSE /\ lost = FALSE

(* The tasks of n for its streams with p. *)
Run(n, p) ==
  \/ Accept(n, p)
  \/ \E d \in Dir : \/ Close(n, p, d) \/ Release(n, p, d)
                   \/ Receive(n, p, d) \/ HandleTable(n, p, d) \/ HandleAsk(n, p, d)

Greeting == \E n, p \in Node : ends[n][p]["in"] = "greeting"

Next ==
  \/ \E n, p \in Node : Greet(n, p)
  \/ /\ target \in Between \/ ~Greeting
     /\ \/ \E n, p \in Node : Dial(n, p) \/ Run(n, p)
        \/ \E n, p \in Node, d \in Dir : Fault(n, p, d)
        \/ \E n \in Node : Start(n) \/ Leave(n) \/ Reconnect(n) \/ Begin(n) \/ Activate(n)

Spec == Init /\ [][Next]_vars

(* Tasks run, the vote is called again at every block, and ticks come: when *)
(* what was queued is read, again and again.                                *)
Fairness ==
  /\ \A n \in Node : \A p \in Node \ {n} : WF_vars(Dial(n, p)) /\ WF_vars(Greet(n, p) \/ Run(n, p))
  /\ \A n \in Node : WF_vars(Begin(n) \/ Leave(n))
  /\ SF_vars(Start(Host))

FairSpec == Spec /\ Fairness

-----------------------------------------------------------------------------
(* Every connection a node counts on, and thus the status Active, is one   *)
(* that a task serves or is about to release (PeerStatus::Active: an       *)
(* authenticated connection to the peer is active).                        *)
ActiveIsServed ==
  \A n \in Node : up[n] =>
    \A p \in DOMAIN local[n].conn : ends[n][p][local[n].conn[p]] # "idle"

(* In both tables of a node a peer is active exactly while the node has a  *)
(* connection of it, whichever table the peer came with and whatever       *)
(* replaced it: the readiness of a migration rests on it.                  *)
StatusIsConnection ==
  \A n \in Node : \A rows \in {local[n].peers, local[n].movers} :
    \A p \in DOMAIN rows \ {n} : rows[p].status = "Active" <=> p \in DOMAIN local[n].conn

(* A task that is released gives up its own claim and never one that       *)
(* another stream of the same peer has made since (release_connection does *)
(* not look whose it is).                                                  *)
ReleasesItsOwn ==
  [][\A n, p \in Node, d \in Dir :
       ends[n][p][d] = "closing" /\ ends'[n][p][d] = "idle" /\ p \in DOMAIN local[n].conn
         => local[n].conn[p] = d]_vars

(* A node that has been given a table, as a joining node or by a migration, *)
(* has the members of the network that is formed, all of them, and keeps no *)
(* connection to anybody else.                                              *)
MembersOnly ==
  \A n \in Node :
    LET s == local[n] IN
    s.received \/ (~Joining(n) /\ DOMAIN s.peers # (IF Founding THEN Node ELSE Old))
      => DOMAIN s.peers = Mesh /\ (s.staged = None => DOMAIN s.conn \subseteq Mesh)

Joined ==
  \A n \in Mesh : Joining(n) => DOMAIN local[n].peers = Mesh /\ ~Discovering(local[n])

(* If no table is lost and no claim is left behind, every joining node     *)
(* learns the members and connects to each of them.                        *)
DiscoveryEnds == []( ~lost /\ ActiveIsServed ) => <>Joined
=============================================================================
