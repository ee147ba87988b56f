----------------------------- MODULE StormProofs -----------------------------
(***************************************************************************)
(* Theorems about the Storm transport, for every set of nodes, migration,  *)
(* capacity of the queues and number of broken streams and races.          *)
(*                                                                         *)
(* The invariant Inv relates what a node knows to what it was given, its   *)
(* tasks to the connections it counts on, and the messages on their way to *)
(* the two networks.  Each operation has a lemma that says how it changes  *)
(* the state of a node, each action one that it keeps Inv.  The last part  *)
(* adds the status of the peers to it.                                     *)
(***************************************************************************)
EXTENDS Storm, TLAPS

(***************************************************************************)
(* The inductive invariant.                                                *)
(***************************************************************************)
Staying(n) == IF Founding THEN Node ELSE Old

(* The members of the network were given to n, in the state s. *)
Given(s, n) == s.received \/ (~Joining(n) /\ DOMAIN s.peers # Staying(n))

(* What n knows: the peers it started with or those it was given, and what *)
(* the vote stages as long as it has the former.  Only a host that founds  *)
(* a network expects others to register.                                   *)
Informed(s, n) ==
  /\ DOMAIN s.peers = IF Given(s, n) THEN Mesh
                      ELSE IF Joining(n) THEN {n, Host} ELSE Staying(n)
  /\ s.staged # None =>
       s.staged = target /\ ~Founding /\ n \in Old /\ DOMAIN s.peers = Old
  /\ n \in DOMAIN s.peers /\ s.peers[n].discovery => Founding /\ n = Host
  /\ ~Founding /\ n \in Old => /\ \A p \in DOMAIN s.peers : ~s.peers[p].discovery
                               /\ \A p \in DOMAIN s.movers : ~s.movers[p].discovery
  /\ Given(s, n) => DOMAIN s.conn \subseteq Mesh

(* A task serves the claim of its peer, or a peer that was removed. *)
Owned(tasks, s, n) ==
  \A p \in Node, d \in Dir : tasks[p][d] \in {"greeting", "open", "busy", "closing"} =>
    IF p \in DOMAIN s.conn THEN s.conn[p] = d ELSE Given(s, n) /\ p \notin Mesh

(* The messages that n may be sent. *)
Letters(n) ==
  {m \in Message : IF m.kind = "table" THEN m.keys = Mesh \/ (~Founding /\ m.keys = Old)
                   ELSE ~Founding /\ n \in Old}

Types ==
  /\ target \in Targets
  /\ local \in [Node -> StormState]
  /\ ends \in [Node -> [Node -> [Dir -> Task]]]

(* What is queued are messages that its reader may be sent. *)
Boxes(boxes) ==
  /\ boxes \in [Node -> [Node -> [Dir -> Seq(Message)]]]
  /\ \A n, p \in Node, d \in Dir : boxes[n][p][d] \in Seq(Letters(n))

(* The table that a task handles is at the front of its queue. *)
Reading(tasks, boxes) ==
  \A n, p \in Node, d \in Dir :
    tasks[n][p][d] = "busy" => boxes[n][p][d] # <<>> /\ boxes[n][p][d][1].kind = "table"

Inv ==
  /\ Types
  /\ \A n \in Node : Informed(local[n], n) /\ Owned(ends[n], local[n], n)
  /\ Boxes(inbox) /\ Reading(ends, inbox)

-----------------------------------------------------------------------------
(***************************************************************************)
(* The nodes and the states of a node.                                     *)
(***************************************************************************)
LEMMA Members ==
  ASSUME target \in Targets
  PROVE  /\ target \subseteq Node /\ Mesh \subseteq Node /\ Old \subseteq Node
         /\ Host \in Node /\ Host \in Old /\ Host # Joiner
         /\ ~Founding => Mesh = target /\ Joiner \in target /\ Old # target /\ Host \in target
         /\ Founding => Mesh = Node
         /\ \A n \in Node : Staying(n) \subseteq Node
         /\ \A n \in Node : ~Founding => (Joining(n) <=> n = Joiner) /\ (n \in Old <=> n # Joiner)
         /\ \A n \in Node : ~Joining(n) => n \in Staying(n)
  BY NodeAssumption, TargetAssumption DEF Mesh, Old, Founding, Staying, Joining

LEMMA RowsAre ==
  ASSUME NEW f
  PROVE  f \in Rows <=> DOMAIN f \subseteq Node /\ f \in [DOMAIN f -> Row]
  BY DEF Rows

LEMMA StateAre ==
  ASSUME NEW s \in StormState
  PROVE  /\ DOMAIN s.peers \subseteq Node /\ s.peers \in [DOMAIN s.peers -> Row]
         /\ DOMAIN s.movers \subseteq Node /\ s.movers \in [DOMAIN s.movers -> Row]
         /\ DOMAIN s.conn \subseteq Node /\ s.conn \in [DOMAIN s.conn -> Dir]
         /\ s.staged \in (SUBSET Node) \cup {None} /\ s.received \in BOOLEAN
<1>1. /\ s.peers \in Rows /\ s.movers \in Rows
      /\ s.conn \in UNION {[D -> Dir] : D \in SUBSET Node}
      /\ s.staged \in (SUBSET Node) \cup {None} /\ s.received \in BOOLEAN
  BY DEF StormState
<1>2. DOMAIN s.conn \subseteq Node /\ s.conn \in [DOMAIN s.conn -> Dir]
  BY <1>1
<1> QED BY <1>1, <1>2, RowsAre

(* c differs from s by connections, the status of peers, peers that are    *)
(* staged and discoveries that have ended.                                 *)
Tuned(s, c) ==
  /\ c \in StormState
  /\ c.staged = s.staged /\ c.received = s.received
  /\ DOMAIN c.peers = DOMAIN s.peers
  /\ \A p \in DOMAIN s.peers : c.peers[p].discovery => s.peers[p].discovery
  /\ \A p \in DOMAIN c.movers : c.movers[p].discovery =>
                                p \in DOMAIN s.movers /\ s.movers[p].discovery

LEMMA TunedKeeps ==
  ASSUME NEW s, NEW c, NEW n \in Node, Tuned(s, c), Informed(s, n),
         Given(s, n) => DOMAIN c.conn \subseteq Mesh
  PROVE  Informed(c, n) /\ (Given(c, n) <=> Given(s, n))
<1>1. Given(c, n) <=> Given(s, n)
  BY DEF Tuned, Given
<1>2. /\ c.staged = s.staged /\ DOMAIN c.peers = DOMAIN s.peers
      /\ \A p \in DOMAIN s.peers : c.peers[p].discovery => s.peers[p].discovery
      /\ \A p \in DOMAIN c.movers : c.movers[p].discovery =>
                                    p \in DOMAIN s.movers /\ s.movers[p].discovery
  BY DEF Tuned
<1>3. ~Founding /\ n \in Old => /\ \A p \in DOMAIN c.peers : ~c.peers[p].discovery
                                /\ \A p \in DOMAIN c.movers : ~c.movers[p].discovery
  BY <1>2 DEF Informed
<1>4. n \in DOMAIN c.peers /\ c.peers[n].discovery => Founding /\ n = Host
  BY <1>2 DEF Informed
<1>5. /\ DOMAIN c.peers = IF Given(c, n) THEN Mesh
                          ELSE IF Joining(n) THEN {n, Host} ELSE Staying(n)
      /\ c.staged # None =>
           c.staged = target /\ ~Founding /\ n \in Old /\ DOMAIN c.peers = Old
  BY <1>1, <1>2 DEF Informed
<1> QED BY <1>1, <1>3, <1>4, <1>5 DEF Informed

(* Whether a node was given the members is a matter of its peers.          *)
LEMMA TunedOwns ==
  ASSUME NEW s, NEW c, NEW n \in Node, Tuned(s, c), NEW tasks,
         Owned(tasks, s, n), c.conn = s.conn
  PROVE  Owned(tasks, c, n)
  BY DEF Tuned, Owned, Given

LEMMA TunedTwice ==
  ASSUME NEW s, NEW c, NEW e, Tuned(s, c), Tuned(c, e)
  PROVE  Tuned(s, e)
  BY DEF Tuned

LEMMA TunedSelf == ASSUME NEW s \in StormState PROVE Tuned(s, s)
  BY DEF Tuned

(* A row with another status, address or no discovery is a row. *)
LEMMA ReachedIs ==
  ASSUME NEW rows \in Rows, NEW p, NEW d
  PROVE  /\ Reached(rows, p, d) \in Rows
         /\ DOMAIN Reached(rows, p, d) = DOMAIN rows
         /\ \A q \in DOMAIN rows : Reached(rows, p, d)[q].discovery = rows[q].discovery
<1> DEFINE new == Reached(rows, p, d)
<1>0. DOMAIN rows \subseteq Node /\ rows \in [DOMAIN rows -> Row]
  BY RowsAre
<1>1. CASE p \in DOMAIN rows
  <2> DEFINE r == [[rows[p] EXCEPT !.status = "Active"] EXCEPT !.addr = rows[p].addr \/ d = "in"]
  <2>1. rows[p] \in Row
    BY <1>0, <1>1
  <2>2. r \in Row /\ r.discovery = rows[p].discovery
    BY <2>1 DEF Row
  <2>3. new = [rows EXCEPT ![p] = r]
    BY <1>1, <2>1 DEF Reached
  <2> HIDE DEF r, new
  <2>4. /\ DOMAIN new = DOMAIN rows /\ new \in [DOMAIN rows -> Row]
        /\ \A q \in DOMAIN rows : new[q] = IF q = p THEN r ELSE rows[q]
    BY <1>0, <2>2, <2>3
  <2>5. new \in Rows
    BY <1>0, <2>4, RowsAre
  <2> QED BY <2>2, <2>4, <2>5 DEF new
<1>2. CASE p \notin DOMAIN rows
  BY <1>2 DEF Reached
<1> QED BY <1>1, <1>2

LEMMA PartedIs ==
  ASSUME NEW rows \in Rows, NEW p
  PROVE  /\ Parted(rows, p) \in Rows
         /\ DOMAIN Parted(rows, p) = DOMAIN rows
         /\ \A q \in DOMAIN rows : Parted(rows, p)[q].discovery = rows[q].discovery
<1> DEFINE new == Parted(rows, p)
           row(q) == IF q = p /\ rows[q].status = "Active"
                     THEN [rows[q] EXCEPT !.status = "Inactive"] ELSE rows[q]
<1>0. DOMAIN rows \subseteq Node /\ rows \in [DOMAIN rows -> Row]
  BY RowsAre
<1>1. \A q \in DOMAIN rows : row(q) \in Row /\ row(q).discovery = rows[q].discovery
  <2> TAKE q \in DOMAIN rows
  <2>1. rows[q] \in Row
    BY <1>0
  <2> QED BY <2>1 DEF Row
<1>2. new = [q \in DOMAIN rows |-> row(q)]
  BY DEF Parted
<1> HIDE DEF row, new
<1>3. DOMAIN new = DOMAIN rows /\ new \in [DOMAIN rows -> Row]
  BY <1>1, <1>2
<1>4. new \in Rows
  BY <1>0, <1>3, RowsAre
<1> QED BY <1>1, <1>2, <1>3, <1>4 DEF new

LEMMA InsertedIs ==
  ASSUME NEW map, NEW p, NEW x
  PROVE  /\ DOMAIN Inserted(map, p, x) = DOMAIN map \cup {p}
         /\ Inserted(map, p, x)[p] = x
         /\ \A q \in DOMAIN map : q # p => Inserted(map, p, x)[q] = map[q]
  BY DEF Inserted

(* claim_connection *)
LEMMA ClaimedIs ==
  ASSUME NEW s \in StormState, NEW p \in Node, NEW d \in Dir
  PROVE  /\ Tuned(s, Claimed(s, p, d))
         /\ Claimed(s, p, d).conn = Inserted(s.conn, p, d)
<1> DEFINE c == Claimed(s, p, d)
           new == [status |-> "Active", addr |-> d = "in", discovery |-> FALSE]
           movers == IF Known(s, p) \/ (p \in DOMAIN s.movers /\ Contains(s, p))
                     THEN Reached(s.movers, p, d)
                     ELSE IF Contains(s, p) THEN Inserted(s.movers, p, new) ELSE s.movers
           conn == Inserted(s.conn, p, d)
           peers == Reached(s.peers, p, d)
<1>1. c = [s EXCEPT !.conn = conn, !.peers = peers, !.movers = movers]
  BY DEF Claimed
<1>2. /\ s.peers \in Rows /\ s.movers \in Rows
      /\ s.staged \in (SUBSET Node) \cup {None} /\ s.received \in BOOLEAN
      /\ DOMAIN s.conn \subseteq Node /\ s.conn \in [DOMAIN s.conn -> Dir]
  <2>1. s.peers \in Rows /\ s.movers \in Rows
    BY DEF StormState
  <2> QED BY <2>1, StateAre
<1>3. DOMAIN conn \subseteq Node /\ conn \in [DOMAIN conn -> Dir]
  BY <1>2 DEF Inserted
<1>4. /\ peers \in Rows /\ DOMAIN peers = DOMAIN s.peers
      /\ \A q \in DOMAIN s.peers : peers[q].discovery = s.peers[q].discovery
  BY <1>2, ReachedIs
<1>5. /\ movers \in Rows
      /\ \A q \in DOMAIN movers : movers[q].discovery =>
                                  q \in DOMAIN s.movers /\ s.movers[q].discovery
  <2>0. \/ movers = Reached(s.movers, p, d) \/ movers = s.movers
       \/ movers = Inserted(s.movers, p, new)
    OBVIOUS
  <2> HIDE DEF movers
  <2>1. CASE movers = Reached(s.movers, p, d)
    BY <1>2, <2>1, ReachedIs
  <2>2. CASE movers = s.movers
    BY <1>2, <2>2
  <2>3. CASE movers = Inserted(s.movers, p, new)
    <3>1. new \in Row /\ ~new.discovery
      BY DEF Row
    <3>2. DOMAIN s.movers \subseteq Node /\ s.movers \in [DOMAIN s.movers -> Row]
      BY <1>2, RowsAre
    <3> HIDE DEF new
    <3> DEFINE m == Inserted(s.movers, p, new)
    <3>3. /\ DOMAIN m \subseteq Node /\ m \in [DOMAIN m -> Row]
          /\ \A q \in DOMAIN m : m[q] = IF q = p THEN new ELSE s.movers[q]
          /\ \A q \in DOMAIN m : q = p \/ q \in DOMAIN s.movers
      BY <3>1, <3>2 DEF Inserted
    <3>4. m \in Rows
      BY <3>3, RowsAre
    <3> HIDE DEF m
    <3> QED BY <2>3, <3>1, <3>3, <3>4 DEF m
  <2> QED BY <2>0, <2>1, <2>2, <2>3
<1> HIDE DEF movers, conn, peers
<1>6. c.conn = conn /\ c.peers = peers /\ c.movers = movers /\ c.staged = s.staged
      /\ c.received = s.received /\ c \in StormState
  <2>1. conn \in UNION {[D -> Dir] : D \in SUBSET Node}
    BY <1>3
  <2> QED BY <1>1, <1>4, <1>5, <2>1 DEF StormState
<1> HIDE DEF c
<1>7. Tuned(s, c)
  BY <1>4, <1>5, <1>6 DEF Tuned
<1> QED BY <1>6, <1>7 DEF c, conn

(* release_connection *)
LEMMA ReleasedIs ==
  ASSUME NEW s \in StormState, NEW p
  PROVE  /\ Tuned(s, Released(s, p))
         /\ Released(s, p).conn = Restrict(s.conn, DOMAIN s.conn \ {p})
<1> DEFINE c == Released(s, p)
           conn == Restrict(s.conn, DOMAIN s.conn \ {p})
           peers == Parted(s.peers, p)
           movers == Parted(s.movers, p)
<1>1. c = [s EXCEPT !.conn = conn, !.peers = peers, !.movers = movers]
  BY DEF Released
<1>2. /\ s.peers \in Rows /\ s.movers \in Rows
      /\ DOMAIN s.conn \subseteq Node /\ s.conn \in [DOMAIN s.conn -> Dir]
  <2>1. s.peers \in Rows /\ s.movers \in Rows
    BY DEF StormState
  <2> QED BY <2>1, StateAre
<1>3. DOMAIN conn \subseteq Node /\ conn \in [DOMAIN conn -> Dir]
  BY <1>2 DEF Restrict
<1>4. /\ peers \in Rows /\ DOMAIN peers = DOMAIN s.peers
      /\ \A q \in DOMAIN s.peers : peers[q].discovery = s.peers[q].discovery
      /\ movers \in Rows /\ DOMAIN movers = DOMAIN s.movers
      /\ \A q \in DOMAIN s.movers : movers[q].discovery = s.movers[q].discovery
  BY <1>2, PartedIs
<1> HIDE DEF movers, conn, peers
<1>5. conn \in UNION {[D -> Dir] : D \in SUBSET Node}
  BY <1>3
<1>6. c.conn = conn /\ c.peers = peers /\ c.movers = movers /\ c.staged = s.staged
      /\ c.received = s.received /\ c \in StormState
  BY <1>1, <1>4, <1>5 DEF StormState
<1> HIDE DEF c
<1>7. Tuned(s, c)
  BY <1>4, <1>6 DEF Tuned
<1> QED BY <1>6, <1>7 DEF c, conn

(* finish_client_discovery_if_connected *)
LEMMA FinishedIs ==
  ASSUME NEW s \in StormState, NEW n
  PROVE  Tuned(s, Finished(s, n)) /\ Finished(s, n).conn = s.conn
<1> DEFINE peers == [p \in DOMAIN s.peers |-> [s.peers[p] EXCEPT !.discovery = FALSE]]
           c == [s EXCEPT !.peers = peers]
<1>1. Finished(s, n) \in {s, c}
  BY DEF Finished
<1>2. DOMAIN s.peers \subseteq Node /\ s.peers \in [DOMAIN s.peers -> Row]
  BY StateAre
<1>3. \A p \in DOMAIN s.peers : /\ peers[p] \in Row
                                /\ ~peers[p].discovery
  <2> TAKE p \in DOMAIN s.peers
  <2>1. s.peers[p] \in Row
    BY <1>2
  <2> QED BY <2>1 DEF Row
<1>4. DOMAIN peers = DOMAIN s.peers
  OBVIOUS
<1>5. peers \in [DOMAIN s.peers -> Row]
  BY <1>3
<1> HIDE DEF peers
<1>6. peers \in Rows
  BY <1>2, <1>4, <1>5, RowsAre
<1>7. /\ c \in StormState /\ c.peers = peers /\ c.movers = s.movers /\ c.conn = s.conn
      /\ c.staged = s.staged /\ c.received = s.received
  BY <1>6 DEF StormState
<1> HIDE DEF c
<1>8. Tuned(s, c)
  BY <1>3, <1>4, <1>7 DEF Tuned
<1> QED BY <1>1, <1>7, <1>8, TunedSelf

(* replace_migration_peers *)
LEMMA RestagedIs ==
  ASSUME NEW s \in StormState, NEW n, NEW keys \in SUBSET Node
  PROVE  Tuned(s, Restaged(s, n, keys)) /\ Restaged(s, n, keys).conn = s.conn
<1> DEFINE row(q) == [status |-> IF q = n THEN "Controlled"
                                 ELSE IF q \in DOMAIN s.conn THEN "Active" ELSE "Inactive",
                      addr |-> TRUE, discovery |-> FALSE]
           movers == [q \in keys |-> row(q)]
           c == Restaged(s, n, keys)
<1>1. c = [s EXCEPT !.movers = movers]
  BY DEF Restaged
<1>2. \A q \in keys : row(q) \in Row /\ ~row(q).discovery
  BY DEF Row
<1> HIDE DEF row
<1>3. DOMAIN movers = keys /\ movers \in [keys -> Row] /\ \A q \in keys : ~movers[q].discovery
  BY <1>2
<1> HIDE DEF movers
<1>4. movers \in Rows
  BY <1>3, RowsAre
<1>5. /\ c \in StormState /\ c.peers = s.peers /\ c.movers = movers /\ c.conn = s.conn
      /\ c.staged = s.staged /\ c.received = s.received
  BY <1>1, <1>4 DEF StormState
<1> HIDE DEF c
<1> QED BY <1>3, <1>5 DEF Tuned, c

-----------------------------------------------------------------------------
(***************************************************************************)
(* Messages.                                                               *)
(***************************************************************************)
LEMMA TableIs ==
  ASSUME target \in Targets, NEW rows, DOMAIN rows = Mesh \/ (~Founding /\ DOMAIN rows = Old),
         NEW p
  PROVE  Table(rows) \in Letters(p)
<1>1. DOMAIN rows \subseteq Node
  BY Members
<1> QED BY <1>1 DEF Table, Letters, Message

LEMMA LettersAre == \A n : Letters(n) \subseteq Message
  BY DEF Letters

(* A table is sent when all members of the migration or of the network     *)
(* that is founded are in it.                                              *)
LEMMA AnnouncedIs ==
  ASSUME target \in Targets, NEW n \in Node, NEW s \in StormState, Informed(s, n), NEW tasks
  PROVE  LET a == Announce(tasks, s, n) IN
         /\ Tuned(s, a.state) /\ a.state.conn = s.conn
         /\ a.mail \in [Node -> Seq(Message)]
         /\ \A p \in Node : a.mail[p] \in Seq(Letters(p))
<1> DEFINE ready == Ready(s, n) /\ Addressed(s.movers)
           movers == IF ready THEN (Active(s.movers) \cup Active(s.peers)) \ {n} ELSE {}
           ok == Ready(s, n) => ready /\ \A p \in movers : Reachable(tasks, s, n, p)
           founded == /\ ok
                      /\ n \in DOMAIN s.peers /\ s.peers[n].discovery
                      /\ Addressed(s.peers) /\ DOMAIN s.peers \ {n} = Active(s.peers)
           peers == IF founded THEN Active(s.peers) ELSE {}
           done == \A p \in peers : Reachable(tasks, s, n, p)
           state == IF founded /\ done THEN [s EXCEPT !.peers[n].discovery = FALSE] ELSE s
           staged(p) == IF p \in movers THEN <<Table(s.movers)>> ELSE <<>>
           known(p) == IF p \in peers THEN <<Table(s.peers)>> ELSE <<>>
           mail == [p \in Node |-> IF ~Reachable(tasks, s, n, p) THEN <<>>
                                   ELSE staged(p) \o known(p)]
           a == Announce(tasks, s, n)
<1>1. a.state = state /\ a.mail = mail
  BY DEF Announce
<1>2. \A p \in movers : Table(s.movers) \in Letters(p)
  <2> SUFFICES ASSUME ready, NEW p PROVE Table(s.movers) \in Letters(p)
    OBVIOUS
  <2>1. s.staged # None /\ DOMAIN s.movers = s.staged
    BY DEF Ready, Complete
  <2>2. DOMAIN s.movers = Mesh
    BY <2>1, Members DEF Informed
  <2> QED BY <2>2, TableIs
<1>3. founded => Founding /\ n = Host /\ DOMAIN s.peers = Mesh
  <2> SUFFICES ASSUME founded PROVE Founding /\ n = Host /\ DOMAIN s.peers = Mesh
    OBVIOUS
  <2>1. Founding /\ n = Host
    BY DEF Informed
  <2> QED BY <2>1 DEF Informed, Joining, Staying, Mesh
<1>4. \A p \in peers : Table(s.peers) \in Letters(p)
  BY <1>3, TableIs
<1>5. Tuned(s, state) /\ state.conn = s.conn
  <2>1. CASE ~(founded /\ done)
    BY <2>1, TunedSelf
  <2>2. CASE founded /\ done
    <3> DEFINE r == [s.peers[n] EXCEPT !.discovery = FALSE]
               rows == [s.peers EXCEPT ![n] = r]
    <3>1. DOMAIN s.peers \subseteq Node /\ s.peers \in [DOMAIN s.peers -> Row] /\ n \in DOMAIN s.peers
      BY <2>2, StateAre
    <3>2. r \in Row /\ ~r.discovery
      <4>1. s.peers[n] \in Row
        BY <3>1
      <4> QED BY <4>1 DEF Row
    <3>3. state = [s EXCEPT !.peers = rows]
      BY <2>2 DEF StormState
    <3> HIDE DEF r
    <3>4. /\ DOMAIN rows = DOMAIN s.peers /\ rows \in [DOMAIN s.peers -> Row]
          /\ \A p \in DOMAIN s.peers : rows[p].discovery => s.peers[p].discovery
      BY <3>1, <3>2
    <3> HIDE DEF rows
    <3>5. rows \in Rows
      BY <3>1, <3>4, RowsAre
    <3> HIDE DEF state
    <3>6. /\ state \in StormState /\ state.peers = rows /\ state.movers = s.movers
          /\ state.conn = s.conn /\ state.staged = s.staged /\ state.received = s.received
      BY <3>3, <3>5 DEF StormState
    <3> QED BY <3>4, <3>6 DEF Tuned
  <2> QED BY <2>1, <2>2
<1> HIDE DEF movers, peers
<1>6. \A p \in Node : mail[p] \in Seq(Letters(p))
  <2> TAKE p \in Node
  <2>1. staged(p) \in Seq(Letters(p))
    BY <1>2
  <2>2. known(p) \in Seq(Letters(p))
    BY <1>4
  <2> HIDE DEF staged, known
  <2>3. staged(p) \o known(p) \in Seq(Letters(p)) /\ <<>> \in Seq(Letters(p))
    BY <2>1, <2>2
  <2> QED BY <2>3
<1> HIDE DEF mail, state, a
<1>7. \A p \in Node : mail[p] \in Seq(Message)
  BY <1>6, LettersAre
<1>8. mail \in [Node -> Seq(Message)]
  BY <1>7 DEF mail
<1> QED BY <1>1, <1>5, <1>6, <1>8 DEF a

LEMMA FrontIs ==
  ASSUME NEW S, NEW s \in Seq(S), NEW t \in Seq(S), s # <<>>
  PROVE  s \o t # <<>> /\ (s \o t)[1] = s[1]
<1>1. Len(s) \in Nat /\ Len(s) > 0 /\ Len(t) \in Nat
  OBVIOUS
<1>2. Len(s \o t) = Len(s) + Len(t)
  OBVIOUS
<1>3. (s \o t)[1] = s[1]
  BY <1>1
<1> QED BY <1>1, <1>2, <1>3

LEMMA PostedIs ==
  ASSUME NEW boxes, Boxes(boxes), NEW s, NEW n, NEW mail,
         \A p \in Node : mail[p] \in Seq(Letters(p))
  PROVE  /\ Boxes(Posted(boxes, s, n, mail))
         /\ \A p, q \in Node, d \in Dir : boxes[p][q][d] # <<>> =>
              /\ Posted(boxes, s, n, mail)[p][q][d] # <<>>
              /\ Posted(boxes, s, n, mail)[p][q][d][1] = boxes[p][q][d][1]
<1> DEFINE box(p, q, d) == IF q = n /\ mail[p] # <<>> /\ s.conn[p] = Other(d) /\ ~Gone(p, n, d)
                           THEN boxes[p][q][d] \o mail[p] ELSE boxes[p][q][d]
           new == Posted(boxes, s, n, mail)
<1>1. new = [p \in Node |-> [q \in Node |-> [d \in Dir |-> box(p, q, d)]]]
  BY DEF Posted
<1>2. \A p, q \in Node, d \in Dir : box(p, q, d) \in Seq(Letters(p))
  BY DEF Boxes
<1>3. \A p, q \in Node, d \in Dir : box(p, q, d) \in Seq(Message)
  BY <1>2, LettersAre
<1>6. \A p, q \in Node, d \in Dir : boxes[p][q][d] # <<>> =>
        box(p, q, d) # <<>> /\ box(p, q, d)[1] = boxes[p][q][d][1]
  <2> SUFFICES ASSUME NEW p \in Node, NEW q \in Node, NEW d \in Dir, boxes[p][q][d] # <<>>
               PROVE  box(p, q, d) # <<>> /\ box(p, q, d)[1] = boxes[p][q][d][1]
    OBVIOUS
  <2>1. boxes[p][q][d] \in Seq(Letters(p)) /\ mail[p] \in Seq(Letters(p))
    BY DEF Boxes
  <2>2. box(p, q, d) \in {boxes[p][q][d], boxes[p][q][d] \o mail[p]}
    OBVIOUS
  <2> HIDE DEF box
  <2> DEFINE b == boxes[p][q][d]
             both == b \o mail[p]
  <2>3. both # <<>> /\ both[1] = b[1]
    <3>1. b \in Seq(Letters(p)) /\ mail[p] \in Seq(Letters(p)) /\ b # <<>>
      BY <2>1
    <3> HIDE DEF b
    <3> QED BY <3>1, FrontIs
  <2> HIDE DEF both
  <2> QED BY <2>2, <2>3 DEF both
<1> HIDE DEF box, new
<1>4. new \in [Node -> [Node -> [Dir -> Seq(Message)]]]
  BY <1>1, <1>3
<1>5. \A p, q \in Node, d \in Dir : new[p][q][d] = box(p, q, d)
  BY <1>1
<1> QED BY <1>2, <1>4, <1>5, <1>6 DEF Boxes, new

(* A queue that is read, or emptied. *)
LEMMA ReadIs ==
  ASSUME NEW boxes, Boxes(boxes), NEW n \in Node, NEW p \in Node, NEW d \in Dir,
         NEW box \in Seq(Letters(n))
  PROVE  /\ Boxes([boxes EXCEPT ![n][p][d] = box])
         /\ \A m, q \in Node, e \in Dir :
              [boxes EXCEPT ![n][p][d] = box][m][q][e] =
                IF m = n /\ q = p /\ e = d THEN box ELSE boxes[m][q][e]
<1> DEFINE new == [boxes EXCEPT ![n][p][d] = box]
<1>1. box \in Seq(Message)
  BY LettersAre
<1>2. new \in [Node -> [Node -> [Dir -> Seq(Message)]]]
  BY <1>1 DEF Boxes
<1>3. \A m, q \in Node, e \in Dir :
        new[m][q][e] = IF m = n /\ q = p /\ e = d THEN box ELSE boxes[m][q][e]
  BY DEF Boxes
<1> HIDE DEF new
<1> QED BY <1>2, <1>3 DEF Boxes, new

-----------------------------------------------------------------------------
(***************************************************************************)
(* What a node knows, after each change of its state.                      *)
(***************************************************************************)

(* A connection is claimed for a member, once the members are given. *)
LEMMA ClaimableIs ==
  ASSUME target \in Targets, NEW n \in Node, NEW p \in Node, NEW s \in StormState,
         Informed(s, n), Claimable(s, n, p)
  PROVE  p \notin DOMAIN s.conn /\ (Given(s, n) => p \in Mesh)
<1>1. p \notin DOMAIN s.conn
  BY DEF Claimable, Free
<1>2. ASSUME Given(s, n), p \notin Mesh PROVE FALSE
  <2>1. DOMAIN s.peers = Mesh
    BY <1>2 DEF Informed
  <2>2. AcceptsUnregistered(s, n, p)
    BY <1>2, <2>1 DEF Claimable, Known
  <2>3. CASE s.staged # None
    BY <2>1, <2>3, Members DEF Informed
  <2>4. CASE s.staged = None
    <3>1. ~s.received /\ \E q \in DOMAIN s.peers \ {n} : s.peers[q].discovery
      BY <2>2, <2>4 DEF AcceptsUnregistered, Contains
    <3>2. ~Joining(n) /\ DOMAIN s.peers # Staying(n)
      BY <1>2, <3>1 DEF Given
    <3>3. ~Founding /\ n \in Old
      BY <2>1, <3>2, Members DEF Staying
    <3> QED BY <3>1, <3>3 DEF Informed
  <2> QED BY <2>3, <2>4
<1> QED BY <1>1, <1>2

(* Tasks that end, or go on. *)
LEMMA OwnedLess ==
  ASSUME NEW s, NEW c, NEW n \in Node, Tuned(s, c), c.conn = s.conn,
         NEW tasks, NEW new, Owned(tasks, s, n),
         \A p \in Node, d \in Dir : new[p][d] \in {"greeting", "open", "busy", "closing"} =>
                                    tasks[p][d] \in {"greeting", "open", "busy", "closing"}
  PROVE  Owned(new, c, n)
  BY DEF Tuned, Owned, Given

(* The tasks of a node but one. *)
SameBut(p, d, tasks, new) ==
  \A q \in Node, e \in Dir : q # p \/ e # d => new[q][e] = tasks[q][e]

LEMMA OwnedClaim ==
  ASSUME NEW s, NEW c, NEW n \in Node, NEW p \in Node, NEW d \in Dir, Tuned(s, c),
         c.conn = Inserted(s.conn, p, d),
         p \notin DOMAIN s.conn, Given(s, n) => p \in Mesh,
         NEW tasks, NEW new, Owned(tasks, s, n),
         SameBut(p, d, tasks, new)
  PROVE  Owned(new, c, n)
<1>1. /\ DOMAIN c.conn = DOMAIN s.conn \cup {p} /\ c.conn[p] = d
      /\ \A q \in DOMAIN s.conn : q # p => c.conn[q] = s.conn[q]
  BY DEF Inserted
<1>2. Given(c, n) <=> Given(s, n)
  BY DEF Tuned, Given
<1>3. SUFFICES ASSUME NEW q \in Node, NEW e \in Dir, new[q][e] \in {"greeting", "open", "busy", "closing"}
               PROVE  IF q \in DOMAIN c.conn THEN c.conn[q] = e ELSE Given(c, n) /\ q \notin Mesh
  BY DEF Owned
<1>4. CASE q = p /\ e = d
  BY <1>1, <1>4
<1>5. CASE ~(q = p /\ e = d)
  <2>1. IF q \in DOMAIN s.conn THEN s.conn[q] = e ELSE Given(s, n) /\ q \notin Mesh
    BY <1>3, <1>5 DEF Owned, SameBut
  <2> QED BY <1>1, <1>2, <2>1
<1> QED BY <1>4, <1>5

LEMMA OwnedRelease ==
  ASSUME NEW s, NEW c, NEW n \in Node, NEW p \in Node, NEW d \in Dir, Tuned(s, c),
         c.conn = Restrict(s.conn, DOMAIN s.conn \ {p}),
         NEW tasks, NEW new, Owned(tasks, s, n), tasks[p][d] = "closing",
         new[p][d] = "idle",
         SameBut(p, d, tasks, new)
  PROVE  Owned(new, c, n)
<1>1. /\ DOMAIN c.conn = DOMAIN s.conn \ {p}
      /\ \A q \in DOMAIN c.conn : c.conn[q] = s.conn[q]
  BY DEF Restrict
<1>2. Given(c, n) <=> Given(s, n)
  BY DEF Tuned, Given
<1>3. SUFFICES ASSUME NEW q \in Node, NEW e \in Dir, new[q][e] \in {"greeting", "open", "busy", "closing"}
               PROVE  IF q \in DOMAIN c.conn THEN c.conn[q] = e ELSE Given(c, n) /\ q \notin Mesh
  BY DEF Owned
<1>4. q # p \/ e # d
  BY <1>3
<1>5. IF q \in DOMAIN s.conn THEN s.conn[q] = e ELSE Given(s, n) /\ q \notin Mesh
  BY <1>3, <1>4 DEF Owned, SameBut
<1>6. IF p \in DOMAIN s.conn THEN s.conn[p] = d ELSE Given(s, n) /\ p \notin Mesh
  BY DEF Owned
<1> QED BY <1>1, <1>2, <1>4, <1>5, <1>6

(* Only connections to the members are left. *)
LEMMA OwnedCut ==
  ASSUME NEW s, NEW c, NEW n \in Node, Given(c, n),
         c.conn = Restrict(s.conn, DOMAIN s.conn \cap Mesh),
         NEW tasks, NEW new, Owned(tasks, s, n),
         \A p \in Node, d \in Dir : new[p][d] \in {"greeting", "open", "busy", "closing"} =>
                                    tasks[p][d] \in {"greeting", "open", "busy", "closing"}
  PROVE  Owned(new, c, n)
<1>1. /\ DOMAIN c.conn = DOMAIN s.conn \cap Mesh
      /\ \A q \in DOMAIN c.conn : c.conn[q] = s.conn[q]
  BY DEF Restrict
<1>2. SUFFICES ASSUME NEW q \in Node, NEW e \in Dir, new[q][e] \in {"greeting", "open", "busy", "closing"}
               PROVE  IF q \in DOMAIN c.conn THEN c.conn[q] = e ELSE Given(c, n) /\ q \notin Mesh
  BY DEF Owned
<1>3. IF q \in DOMAIN s.conn THEN s.conn[q] = e ELSE Given(s, n) /\ q \notin Mesh
  BY <1>2 DEF Owned
<1> QED BY <1>1, <1>3

(* replace_discovered_peers *)
LEMMA DiscoveredIs ==
  ASSUME target \in Targets, NEW n \in Node, NEW p \in Node, NEW s \in StormState,
         Informed(s, n), p \in DOMAIN s.peers, s.peers[p].discovery,
         NEW keys, keys = Mesh \/ (~Founding /\ keys = Old), {n, p} \subseteq keys,
         NEW c, c = Discovered(s, p, keys)
  PROVE  /\ c \in StormState /\ Informed(c, n) /\ Given(c, n)
         /\ c.conn = Restrict(s.conn, DOMAIN s.conn \cap Mesh)
<1> DEFINE conn == Restrict(s.conn, DOMAIN s.conn \cap keys)
           row(q) == IF q \in DOMAIN s.peers
                     THEN [s.peers[q] EXCEPT !.addr = TRUE]
                     ELSE [status |-> "Inactive", addr |-> TRUE, discovery |-> FALSE]
           fresh(q) == IF q \in DOMAIN conn THEN [row(q) EXCEPT !.status = "Active"] ELSE row(q)
           peers == [q \in keys |-> fresh(q)]
<1>1. c = [s EXCEPT !.conn = conn, !.received = TRUE, !.peers = peers]
  BY DEF Discovered
<1>2. Founding \/ n \notin Old
  BY DEF Informed
<1>3. keys = Mesh /\ s.staged = None
  BY <1>2 DEF Informed
<1>4. /\ DOMAIN s.peers \subseteq Node /\ s.peers \in [DOMAIN s.peers -> Row]
      /\ DOMAIN s.conn \subseteq Node /\ s.conn \in [DOMAIN s.conn -> Dir]
  BY StateAre
<1>5. \A q \in keys : fresh(q) \in Row /\
                      (fresh(q).discovery => q \in DOMAIN s.peers /\ s.peers[q].discovery)
  <2> TAKE q \in keys
  <2>1. row(q) \in Row /\ (row(q).discovery => q \in DOMAIN s.peers /\ s.peers[q].discovery)
    <3>1. CASE q \in DOMAIN s.peers
      <4>1. s.peers[q] \in Row
        BY <1>4, <3>1
      <4> QED BY <3>1, <4>1 DEF Row
    <3>2. CASE q \notin DOMAIN s.peers
      BY <3>2 DEF Row
    <3> QED BY <3>1, <3>2
  <2> HIDE DEF row
  <2> QED BY <2>1 DEF Row
<1>6. DOMAIN conn = DOMAIN s.conn \cap keys /\ conn \in [DOMAIN conn -> Dir]
  BY <1>4 DEF Restrict
<1> HIDE DEF fresh
<1>7. DOMAIN peers = Mesh /\ peers \in [Mesh -> Row] /\ \A q \in Mesh : peers[q] = fresh(q)
  BY <1>3, <1>5
<1> HIDE DEF peers, conn
<1>8. peers \in Rows
  BY <1>7, Members, RowsAre
<1>9. conn \in UNION {[D -> Dir] : D \in SUBSET Node}
  BY <1>4, <1>6
<1>10. /\ c \in StormState /\ c.peers = peers /\ c.movers = s.movers /\ c.conn = conn
       /\ c.staged = None /\ c.received
  BY <1>1, <1>3, <1>8, <1>9 DEF StormState
<1>11. Given(c, n)
  BY <1>10 DEF Given
<1>12. n \in DOMAIN c.peers /\ c.peers[n].discovery => Founding /\ n = Host
  BY <1>3, <1>5, <1>7, <1>10 DEF Informed
<1>13. Informed(c, n)
  BY <1>2, <1>3, <1>6, <1>7, <1>10, <1>11, <1>12 DEF Informed
<1> QED BY <1>3, <1>10, <1>11, <1>13 DEF conn

(* activate_member_migration *)
LEMMA ActivatedIs ==
  ASSUME target \in Targets, NEW n \in Node, NEW s \in StormState,
         Informed(s, n), MayActivate(s, n)
  PROVE  LET c == Activated(s) IN
         /\ c \in StormState /\ Informed(c, n) /\ Given(c, n)
         /\ c.conn = Restrict(s.conn, DOMAIN s.conn \cap Mesh)
<1> DEFINE conn == Restrict(s.conn, DOMAIN s.conn \cap DOMAIN s.movers)
           none == <<>>
           c == Activated(s)
<1>1. s.staged # None /\ DOMAIN s.movers = s.staged
  BY DEF MayActivate, Ready, TableComplete, Complete
<1>2. /\ s.staged = target /\ ~Founding /\ n \in Old /\ DOMAIN s.movers = Mesh
      /\ Mesh # Old /\ ~Joining(n) /\ Staying(n) = Old
  BY <1>1, Members DEF Informed, Staying
<1>3. none \in Rows /\ DOMAIN none = {}
  <2>1. DOMAIN none = {}
    OBVIOUS
  <2>2. none = [q \in {} |-> Host]
    BY <2>1
  <2> HIDE DEF none
  <2>3. none \in [{} -> Row]
    BY <2>2
  <2> QED BY <2>1, <2>3, RowsAre
<1>4. c = [s EXCEPT !.peers = s.movers, !.movers = none, !.staged = None, !.conn = conn]
  BY DEF Activated
<1>5. s.movers \in Rows /\ DOMAIN s.conn \subseteq Node /\ s.conn \in [DOMAIN s.conn -> Dir]
  BY StateAre, RowsAre
<1>6. DOMAIN conn = DOMAIN s.conn \cap Mesh /\ conn \in [DOMAIN conn -> Dir]
  BY <1>2, <1>5 DEF Restrict
<1> HIDE DEF conn, none
<1>7. conn \in UNION {[D -> Dir] : D \in SUBSET Node}
  BY <1>5, <1>6
<1>8. /\ c \in StormState /\ c.peers = s.movers /\ c.movers = none /\ c.conn = conn
      /\ c.staged = None /\ c.received = s.received
  BY <1>3, <1>4, <1>5, <1>7 DEF StormState
<1> HIDE DEF c
<1>9. Given(c, n)
  BY <1>2, <1>8 DEF Given
<1>10. \A p \in DOMAIN c.peers : ~c.peers[p].discovery
  BY <1>2, <1>8 DEF Informed
<1>11. Informed(c, n)
  BY <1>2, <1>3, <1>6, <1>8, <1>9, <1>10 DEF Informed
<1> QED BY <1>2, <1>8, <1>9, <1>11 DEF c, conn

(* ensure_member_migration *)
Staged(s) == [s EXCEPT !.staged = target, !.movers = Candidates(s)]

LEMMA StagedIs ==
  ASSUME target \in Targets, NEW n \in Node, NEW s \in StormState, Informed(s, n),
         ~Founding, n \in Old, DOMAIN s.peers = Old
  PROVE  LET c == Staged(s) IN
         /\ c \in StormState /\ Informed(c, n)
         /\ c.conn = s.conn /\ c.peers = s.peers /\ c.received = s.received
<1> DEFINE keys == (DOMAIN s.peers \cup DOMAIN s.movers) \cap target
           row(q) == IF Known(s, q) THEN s.peers[q] ELSE s.movers[q]
           movers == [q \in keys |-> row(q)]
           c == Staged(s)
<1>1. /\ DOMAIN s.peers \subseteq Node /\ s.peers \in [DOMAIN s.peers -> Row]
      /\ DOMAIN s.movers \subseteq Node /\ s.movers \in [DOMAIN s.movers -> Row]
  BY StateAre
<1>2. \A q \in keys : row(q) \in Row /\ ~row(q).discovery
  BY <1>1 DEF Known, Informed
<1>3. c = [s EXCEPT !.staged = target, !.movers = movers]
  BY DEF Staged, Candidates
<1>4. keys \subseteq Node
  BY <1>1
<1> HIDE DEF row, keys
<1>5. DOMAIN movers = keys /\ movers \in [keys -> Row] /\ \A q \in keys : ~movers[q].discovery
  BY <1>2
<1> HIDE DEF movers
<1>6. movers \in Rows
  BY <1>4, <1>5, RowsAre
<1>7. /\ c \in StormState /\ c.peers = s.peers /\ c.movers = movers /\ c.conn = s.conn
      /\ c.staged = target /\ c.received = s.received
  BY <1>3, <1>6, Members DEF StormState
<1> HIDE DEF c
<1>8. Given(c, n) <=> Given(s, n)
  BY <1>7 DEF Given
<1>9. \A p \in DOMAIN c.movers : ~c.movers[p].discovery
  BY <1>5, <1>7
<1>10. Informed(c, n)
  BY <1>7, <1>8, <1>9 DEF Informed
<1> QED BY <1>7, <1>10 DEF c

-----------------------------------------------------------------------------
(***************************************************************************)
(* The steps.                                                              *)
(***************************************************************************)

Tasks == [Node -> [Node -> [Dir -> Task]]]

(* A step of n that leaves its state c, in which other tasks may be told   *)
(* that a stream is there.                                                 *)
LEMMA StepKeeps ==
  ASSUME Inv, target' = target, NEW n \in Node, NEW c \in StormState, Informed(c, n),
         local' = [local EXCEPT ![n] = c],
         ends' \in Tasks,
         Owned(ends'[n], c, n),
         \A m \in Node \ {n} : Owned(ends'[m], local[m], m),
         Boxes(inbox'), Reading(ends', inbox')
  PROVE  Inv'
<1>1. /\ \A s, m : Given(s, m) <=> Given(s, m)'
      /\ \A m : Letters(m)' = Letters(m)
  BY DEF Given, Letters, Joining, Staying, Founding, Mesh
<1>2. Types'
  BY DEF Inv, Types, Tasks
<1>3. \A m \in Node : Informed(local'[m], m) /\ Owned(ends'[m], local'[m], m)
  BY DEF Inv, Types
<1>4. \A m \in Node : (Informed(local[m], m) /\ Owned(ends[m], local[m], m))'
  <2> TAKE m \in Node
  <2>1. Informed(local'[m], m) /\ Owned(ends'[m], local'[m], m)
    BY <1>3
  <2>2. Informed(local[m], m)'
    BY <2>1 DEF Informed, Given, Joining, Staying, Founding, Mesh
  <2>3. Owned(ends[m], local[m], m)'
    BY <2>1 DEF Owned, Given, Joining, Staying, Founding, Mesh
  <2> QED BY <2>2, <2>3
<1>5. Boxes(inbox)'
  BY <1>1 DEF Boxes
<1>6. Reading(ends, inbox)'
  BY DEF Reading
<1> QED BY <1>2, <1>4, <1>5, <1>6 DEF Inv

LEMMA SetIs ==
  ASSUME NEW tasks \in Tasks, NEW n \in Node, NEW p \in Node, NEW d \in Dir, NEW task \in Task
  PROVE  LET new == [tasks EXCEPT ![n][p][d] = task] IN
         /\ new \in Tasks
         /\ \A m, q \in Node, e \in Dir :
              new[m][q][e] = IF m = n /\ q = p /\ e = d THEN task ELSE tasks[m][q][e]
         /\ \A q \in Node, e \in Dir : q # p \/ e # d => new[n][q][e] = tasks[n][q][e]
         /\ \A m \in Node \ {n} : new[m] = tasks[m]
  BY DEF Tasks

(* Tasks that end, or go on. *)
LEMMA OwnedSame ==
  ASSUME NEW s, NEW n \in Node, NEW tasks, NEW new, Owned(tasks, s, n),
         \A p \in Node, d \in Dir : new[p][d] \in {"greeting", "open", "busy", "closing"} =>
                                    tasks[p][d] \in {"greeting", "open", "busy", "closing"}
  PROVE  Owned(new, s, n)
  BY DEF Owned

LEMMA SetOwned ==
  ASSUME NEW tasks \in Tasks, NEW n \in Node, NEW p \in Node, NEW d \in Dir, NEW task \in Task,
         task \in {"greeting", "open", "busy", "closing"} => tasks[n][p][d] \in {"greeting", "open", "busy", "closing"},
         NEW s, NEW m \in Node, Owned(tasks[m], s, m)
  PROVE  Owned([tasks EXCEPT ![n][p][d] = task][m], s, m)
<1> DEFINE new == [tasks EXCEPT ![n][p][d] = task]
<1>1. \A q \in Node, e \in Dir : new[m][q][e] \in {"greeting", "open", "busy", "closing"} =>
                                 tasks[m][q][e] \in {"greeting", "open", "busy", "closing"}
  <2> TAKE q \in Node, e \in Dir
  <2>1. new[m][q][e] = IF m = n /\ q = p /\ e = d THEN task ELSE tasks[m][q][e]
    BY DEF Tasks
  <2> HIDE DEF new
  <2> QED BY <2>1
<1> HIDE DEF new
<1>2. Owned(new[m], s, m)
  BY <1>1, OwnedSame
<1> QED BY <1>2 DEF new

(* The queues after a step: all that are read begin as they did.           *)
LEMMA ReadingSame ==
  ASSUME NEW tasks, NEW boxes, NEW new, NEW fresh, Reading(tasks, boxes),
         \A m, q \in Node, e \in Dir : new[m][q][e] = "busy" /\ tasks[m][q][e] = "busy"
           /\ boxes[m][q][e] # <<>> => fresh[m][q][e] # <<>>
                                     /\ fresh[m][q][e][1] = boxes[m][q][e][1],
         \A m, q \in Node, e \in Dir : new[m][q][e] = "busy" => tasks[m][q][e] = "busy"
  PROVE  Reading(new, fresh)
  BY DEF Reading

(* The queues but one begin as they did. *)
FrontBut(n, p, d, boxes, fresh) ==
  \A m, q \in Node, e \in Dir : ~(m = n /\ q = p /\ e = d) /\ boxes[m][q][e] # <<>> =>
    fresh[m][q][e] # <<>> /\ fresh[m][q][e][1] = boxes[m][q][e][1]

LEMMA SetReading ==
  ASSUME NEW tasks \in Tasks, NEW boxes, NEW fresh, Reading(tasks, boxes),
         NEW n \in Node, NEW p \in Node, NEW d \in Dir, NEW task \in Task, task # "busy",
         FrontBut(n, p, d, boxes, fresh)
  PROVE  Reading([tasks EXCEPT ![n][p][d] = task], fresh)
<1> DEFINE new == [tasks EXCEPT ![n][p][d] = task]
<1>1. \A m, q \in Node, e \in Dir :
        new[m][q][e] = IF m = n /\ q = p /\ e = d THEN task ELSE tasks[m][q][e]
  BY DEF Tasks
<1> HIDE DEF new
<1>2. \A m, q \in Node, e \in Dir : new[m][q][e] = "busy" =>
        tasks[m][q][e] = "busy" /\ ~(m = n /\ q = p /\ e = d)
  BY <1>1
<1>3. Reading(new, fresh)
  BY <1>2, ReadingSame DEF FrontBut
<1> QED BY <1>3 DEF new

(* A queue that is emptied with its stream. *)
LEMMA EmptiedIs ==
  ASSUME NEW boxes, Boxes(boxes), NEW n \in Node, NEW p \in Node, NEW d \in Dir
  PROVE  /\ Boxes([boxes EXCEPT ![n][p][d] = <<>>])
         /\ \A m, q \in Node, e \in Dir : ~(m = n /\ q = p /\ e = d) =>
              [boxes EXCEPT ![n][p][d] = <<>>][m][q][e] = boxes[m][q][e]
<1> DEFINE none == <<>>
<1>1. none \in Seq(Letters(n))
  OBVIOUS
<1> HIDE DEF none
<1>2. /\ Boxes([boxes EXCEPT ![n][p][d] = none])
      /\ \A m, q \in Node, e \in Dir :
           [boxes EXCEPT ![n][p][d] = none][m][q][e] =
             IF m = n /\ q = p /\ e = d THEN none ELSE boxes[m][q][e]
  BY <1>1, ReadIs
<1>3. \A m, q \in Node, e \in Dir : ~(m = n /\ q = p /\ e = d) =>
        [boxes EXCEPT ![n][p][d] = none][m][q][e] = boxes[m][q][e]
  BY <1>2
<1> QED BY <1>2, <1>3 DEF none

(* The members of a node are its claim's too. *)
LEMMA ClaimKeeps ==
  ASSUME target \in Targets, NEW n \in Node, NEW p \in Node, NEW d \in Dir, NEW s \in StormState,
         Informed(s, n), Claimable(s, n, p), NEW c, Tuned(s, c), c.conn = Inserted(s.conn, p, d)
  PROVE  c \in StormState /\ Informed(c, n)
<1>1. Given(s, n) => p \in Mesh
  BY ClaimableIs
<1>2. DOMAIN c.conn = DOMAIN s.conn \cup {p}
  BY DEF Inserted
<1>3. Given(s, n) => DOMAIN c.conn \subseteq Mesh
  BY <1>1, <1>2 DEF Informed
<1> QED BY <1>3, TunedKeeps DEF Tuned
LEMMA InvFacts ==
  ASSUME Inv, NEW n \in Node
  PROVE  /\ target \in Targets /\ local[n] \in StormState
         /\ local \in [Node -> StormState] /\ ends \in Tasks
         /\ Informed(local[n], n) /\ \A m \in Node : Owned(ends[m], local[m], m)
         /\ Boxes(inbox) /\ Reading(ends, inbox)
         /\ local = [local EXCEPT ![n] = local[n]]
  BY DEF Inv, Types, Tasks

LEMMA DialStep ==
  ASSUME Inv, NEW n \in Node, NEW p \in Node, Dial(n, p)
  PROVE  Inv'
<1> DEFINE s == local[n]
           shaken(tasks) == [tasks EXCEPT ![p][n]["in"] = "shaking"]
<1>0. /\ target \in Targets /\ s \in StormState /\ local \in [Node -> StormState]
      /\ ends \in Tasks /\ Informed(s, n) /\ \A m \in Node : Owned(ends[m], local[m], m)
      /\ Boxes(inbox) /\ Reading(ends, inbox)
      /\ local = [local EXCEPT ![n] = local[n]]
  BY InvFacts
<1>1. /\ target' = target /\ inbox' = inbox /\ p # n
      /\ IF Claimable(s, n, p)
         THEN /\ local' = [local EXCEPT ![n] = Finished(Claimed(s, p, "out"), n)]
              /\ ends' = [ends EXCEPT ![n][p]["out"] = "open", ![p][n]["in"] = "shaking"]
         ELSE /\ ends' = shaken(ends)
              /\ local' = local
  BY DEF Dial, Dialed, Planned, Set
<1>2. "out" \in Dir /\ "in" \in Dir /\ "open" \in Task /\ "shaking" \in Task
  BY DEF Dir, Task
<1>3. ASSUME NEW tasks \in Tasks, Reading(tasks, inbox)
      PROVE  /\ shaken(tasks) \in Tasks /\ Reading(shaken(tasks), inbox)
             /\ \A m \in Node : \A c : Owned(tasks[m], c, m) => Owned(shaken(tasks)[m], c, m)
  <2>1. Reading(shaken(tasks), inbox)
    <3>1. FrontBut(p, n, "in", inbox, inbox)
      BY DEF FrontBut
    <3> QED BY <1>2, <1>3, <3>1, SetReading
  <2>2. shaken(tasks) \in Tasks
    BY <1>2 DEF Tasks
  <2>3. ASSUME NEW m \in Node, NEW c, Owned(tasks[m], c, m)
        PROVE  Owned(shaken(tasks)[m], c, m)
    BY <1>2, <2>3, SetOwned
  <2> QED BY <2>1, <2>2, <2>3
<1>4. CASE Claimable(s, n, p)
  <2> DEFINE b == Claimed(s, p, "out")
             c == Finished(b, n)
             claimed == [ends EXCEPT ![n][p]["out"] = "open"]
  <2>1. local' = [local EXCEPT ![n] = c]
    BY <1>1, <1>4
  <2>2. ends' = shaken(claimed)
    BY <1>0, <1>1, <1>4
  <2>3. Tuned(s, b) /\ b.conn = Inserted(s.conn, p, "out")
    BY <1>0, <1>2, ClaimedIs
  <2> HIDE DEF b
  <2>4. Tuned(b, c) /\ c.conn = b.conn
    BY <2>3, FinishedIs DEF Tuned
  <2> HIDE DEF c
  <2>5. Tuned(s, c) /\ c.conn = Inserted(s.conn, p, "out")
    BY <2>3, <2>4, TunedTwice
  <2>6. Informed(c, n) /\ c \in StormState
    BY <1>0, <1>2, <1>4, <2>5, ClaimKeeps
  <2>7. claimed \in Tasks /\ Reading(claimed, inbox)
        /\ SameBut(p, "out", ends[n], claimed[n])
        /\ (\A m \in Node \ {n} : claimed[m] = ends[m])
    <3>1. FrontBut(n, p, "out", inbox, inbox)
      BY DEF FrontBut
    <3>2. Reading(claimed, inbox)
      BY <1>0, <1>2, <3>1, SetReading
    <3> QED BY <1>0, <1>2, <3>2 DEF Tasks, SameBut
  <2> HIDE DEF claimed
  <2>8. Owned(claimed[n], c, n)
    <3>1. p \notin DOMAIN s.conn /\ (Given(s, n) => p \in Mesh)
      BY <1>0, <1>4, ClaimableIs
    <3>2. Owned(ends[n], s, n)
      BY <1>0
    <3> HIDE DEF s
    <3> QED BY <1>2, <2>5, <2>7, <3>1, <3>2, OwnedClaim
  <2>9. \A m \in Node \ {n} : Owned(claimed[m], local[m], m)
    BY <1>0, <2>7
  <2>10. /\ shaken(claimed) \in Tasks /\ Reading(shaken(claimed), inbox)
         /\ Owned(shaken(claimed)[n], c, n)
         /\ \A m \in Node \ {n} : Owned(shaken(claimed)[m], local[m], m)
    BY <1>3, <2>7, <2>8, <2>9
  <2> HIDE DEF shaken
  <2>11. /\ ends' \in Tasks /\ Reading(ends', inbox') /\ Boxes(inbox')
         /\ Owned(ends'[n], c, n) /\ \A m \in Node \ {n} : Owned(ends'[m], local[m], m)
    BY <1>0, <1>1, <2>2, <2>10
  <2> QED BY <1>1, <2>1, <2>6, <2>11, StepKeeps
<1>5. CASE ~Claimable(s, n, p)
  <2>1. ends' = shaken(ends) /\ local' = [local EXCEPT ![n] = local[n]]
    BY <1>0, <1>1, <1>5
  <2>2. /\ shaken(ends) \in Tasks /\ Reading(shaken(ends), inbox)
        /\ \A m \in Node : Owned(shaken(ends)[m], local[m], m)
    BY <1>0, <1>3
  <2> HIDE DEF shaken
  <2>3. /\ ends' \in Tasks /\ Reading(ends', inbox') /\ Boxes(inbox')
        /\ \A m \in Node : Owned(ends'[m], local[m], m)
    BY <1>0, <1>1, <2>1, <2>2
  <2> QED BY <1>0, <1>1, <2>1, <2>3, StepKeeps
<1> QED BY <1>4, <1>5

(* A stream of n that ends, whose queue is dropped with it.                *)
LEMMA EndStep ==
  ASSUME Inv, NEW n \in Node, NEW p \in Node, NEW d \in Dir, NEW task \in {"idle", "closing"},
         task = "closing" => ends[n][p][d] \in {"open", "busy"},
         target' = target, local' = local, ends' = [ends EXCEPT ![n][p][d] = task],
         inbox' = [inbox EXCEPT ![n][p][d] = <<>>]
  PROVE  Inv'
<1> DEFINE after == [ends EXCEPT ![n][p][d] = task]
           mailed == [inbox EXCEPT ![n][p][d] = <<>>]
<1>0. /\ local[n] \in StormState /\ Informed(local[n], n) /\ ends \in Tasks
      /\ \A m \in Node : Owned(ends[m], local[m], m)
      /\ Boxes(inbox) /\ Reading(ends, inbox)
      /\ local = [local EXCEPT ![n] = local[n]]
  BY InvFacts
<1>1. task \in Task /\ task # "busy"
      /\ (task \in {"greeting", "open", "busy", "closing"} =>
            ends[n][p][d] \in {"greeting", "open", "busy", "closing"})
  BY DEF Task
<1>2. after \in Tasks
  BY <1>0, <1>1 DEF Tasks
<1>3. \A m \in Node : Owned(after[m], local[m], m)
  BY <1>0, <1>1, SetOwned
<1>4. /\ Boxes(mailed)
      /\ \A m, q \in Node, e \in Dir : ~(m = n /\ q = p /\ e = d) =>
           mailed[m][q][e] = inbox[m][q][e]
  <2>1. Boxes(mailed)
    BY <1>0, EmptiedIs
  <2>2. \A m, q \in Node, e \in Dir : ~(m = n /\ q = p /\ e = d) =>
          mailed[m][q][e] = inbox[m][q][e]
    BY <1>0 DEF Boxes
  <2> HIDE DEF mailed
  <2> QED BY <2>1, <2>2
<1> HIDE DEF mailed
<1>5. Reading(after, mailed)
  <2>1. FrontBut(n, p, d, inbox, mailed)
    BY <1>4 DEF FrontBut
  <2>2. ends \in Tasks /\ Reading(ends, inbox) /\ task \in Task /\ task # "busy"
    BY <1>0, <1>1
  <2> QED BY <2>1, <2>2, SetReading
<1>6. ends' = after /\ inbox' = mailed
  BY DEF mailed
<1> HIDE DEF after
<1>7. /\ ends' \in Tasks /\ Reading(ends', inbox') /\ Boxes(inbox')
      /\ \A m \in Node : Owned(ends'[m], local[m], m)
  BY <1>2, <1>3, <1>4, <1>5, <1>6
<1>8. local' = [local EXCEPT ![n] = local[n]]
  BY <1>0
<1> QED BY <1>0, <1>7, <1>8, StepKeeps

(* All queues begin as they did. *)
Fronts(boxes, fresh) ==
  \A m, q \in Node, e \in Dir : boxes[m][q][e] # <<>> =>
    fresh[m][q][e] # <<>> /\ fresh[m][q][e][1] = boxes[m][q][e][1]

LEMMA PostedKeeps ==
  ASSUME NEW boxes, Boxes(boxes), NEW s, NEW n, NEW mail,
         \A p \in Node : mail[p] \in Seq(Letters(p))
  PROVE  Boxes(Posted(boxes, s, n, mail)) /\ Fronts(boxes, Posted(boxes, s, n, mail))
  BY PostedIs DEF Fronts

LEMMA AcceptStep ==
  ASSUME Inv, NEW n \in Node, NEW p \in Node, Accept(n, p)
  PROVE  Inv'
<1> DEFINE s == local[n]
           after == [ends EXCEPT ![n][p]["in"] = "greeting"]
<1>0. /\ target \in Targets /\ s \in StormState
      /\ ends \in Tasks /\ Informed(s, n) /\ \A m \in Node : Owned(ends[m], local[m], m)
      /\ Boxes(inbox) /\ Reading(ends, inbox)
  BY InvFacts
<1>1. "in" \in Dir /\ "greeting" \in Task /\ target' = target
  BY DEF Dir, Task, Accept
<1>2. CASE ~Claimable(s, n, p)
  <2>1. /\ ends' = [ends EXCEPT ![n][p]["in"] = "idle"]
        /\ inbox' = [inbox EXCEPT ![n][p]["in"] = <<>>]
        /\ local' = local
    BY <1>2 DEF Accept, Set
  <2> QED BY <1>1, <2>1, EndStep
<1>3. CASE Claimable(s, n, p)
  <2> DEFINE c == Claimed(s, p, "in")
  <2>1. local' = [local EXCEPT ![n] = c] /\ ends' = after /\ inbox' = inbox
    BY <1>3 DEF Accept, Set
  <2>2. Tuned(s, c) /\ c.conn = Inserted(s.conn, p, "in")
    BY <1>0, <1>1, ClaimedIs
  <2>3. p \notin DOMAIN s.conn /\ (Given(s, n) => p \in Mesh)
    BY <1>0, <1>3, ClaimableIs
  <2> HIDE DEF c
  <2>4. c \in StormState /\ Informed(c, n)
    BY <1>0, <1>1, <1>3, <2>2, ClaimKeeps
  <2>5. /\ after \in Tasks /\ SameBut(p, "in", ends[n], after[n])
        /\ \A m \in Node \ {n} : after[m] = ends[m]
    BY <1>0, <1>1 DEF Tasks, SameBut
  <2>6. Reading(after, inbox)
    <3>1. FrontBut(n, p, "in", inbox, inbox)
      BY DEF FrontBut
    <3> QED BY <1>0, <1>1, <3>1, SetReading
  <2> HIDE DEF after
  <2>7. Owned(after[n], c, n)
    <3>1. Owned(ends[n], s, n)
      BY <1>0
    <3> HIDE DEF s
    <3> QED BY <1>1, <2>2, <2>3, <2>5, <3>1, OwnedClaim
  <2>8. /\ ends' \in Tasks /\ Reading(ends', inbox') /\ Boxes(inbox')
        /\ Owned(ends'[n], c, n) /\ \A m \in Node \ {n} : Owned(ends'[m], local[m], m)
    BY <1>0, <2>1, <2>5, <2>6, <2>7
  <2> QED BY <1>1, <2>1, <2>4, <2>8, StepKeeps
<1> QED BY <1>2, <1>3

LEMMA GreetStep ==
  ASSUME Inv, NEW n \in Node, NEW p \in Node, Greet(n, p)
  PROVE  Inv'
<1> DEFINE s == local[n]
           a == Announce(ends[n], s, n)
           task == IF a.ok THEN "open" ELSE "idle"
           c == IF a.ok THEN Finished(a.state, n) ELSE a.state
           mailed == Posted(inbox, s, n, a.mail)
           after == [ends EXCEPT ![n][p]["in"] = task]
           left == IF a.ok THEN mailed ELSE [mailed EXCEPT ![n][p]["in"] = <<>>]
<1>0. /\ target \in Targets /\ s \in StormState
      /\ ends \in Tasks /\ Informed(s, n) /\ \A m \in Node : Owned(ends[m], local[m], m)
      /\ Boxes(inbox) /\ Reading(ends, inbox)
  BY InvFacts
<1>1. /\ "in" \in Dir /\ "open" \in Task /\ "idle" \in Task
      /\ target' = target /\ ends[n][p]["in"] = "greeting"
  BY DEF Dir, Task, Greet
<1>2. local' = [local EXCEPT ![n] = c] /\ ends' = after /\ inbox' = left
  BY DEF Greet, Set
<1> HIDE DEF s
<1>3. /\ Tuned(s, a.state) /\ a.state.conn = s.conn
      /\ \A q \in Node : a.mail[q] \in Seq(Letters(q))
  BY <1>0, AnnouncedIs
<1>4. /\ c \in {a.state, Finished(a.state, n)}
      /\ left \in {mailed, [mailed EXCEPT ![n][p]["in"] = <<>>]}
      /\ task \in Task /\ task \in {"open", "idle"}
  BY <1>1
<1> HIDE DEF a, c, task, left
<1> DEFINE mail == a.mail
<1>5. Boxes(mailed) /\ \A m, q \in Node, e \in Dir : inbox[m][q][e] # <<>> =>
                        mailed[m][q][e] # <<>> /\ mailed[m][q][e][1] = inbox[m][q][e][1]
  <2>1. \A q \in Node : mail[q] \in Seq(Letters(q))
    BY <1>3
  <2> HIDE DEF mail
  <2>2. Boxes(Posted(inbox, s, n, mail)) /\ Fronts(inbox, Posted(inbox, s, n, mail))
    BY <1>0, <2>1, PostedKeeps
  <2> QED BY <2>2 DEF mail, Fronts
<1> HIDE DEF mailed
<1>6. a.state \in StormState
  BY <1>3 DEF Tuned
<1>7. Tuned(a.state, c) /\ c.conn = a.state.conn
  BY <1>4, <1>6, FinishedIs, TunedSelf
<1>8. Tuned(s, c) /\ c.conn = s.conn
  BY <1>3, <1>7, TunedTwice
<1>9. c \in StormState /\ Informed(c, n)
  BY <1>0, <1>8, TunedKeeps DEF Tuned, Informed
<1>10. /\ Boxes(left)
       /\ \A m, q \in Node, e \in Dir : ~(m = n /\ q = p /\ e = "in") =>
            left[m][q][e] = mailed[m][q][e]
  <2> DEFINE gone == [mailed EXCEPT ![n][p]["in"] = <<>>]
  <2>1. Boxes(gone)
    BY <1>1, <1>5, EmptiedIs
  <2>2. \A m, q \in Node, e \in Dir : ~(m = n /\ q = p /\ e = "in") =>
          gone[m][q][e] = mailed[m][q][e]
    BY <1>1, <1>5 DEF Boxes
  <2> HIDE DEF gone
  <2>3. left = mailed \/ left = gone
    BY <1>4 DEF gone
  <2> QED BY <1>5, <2>1, <2>2, <2>3
<1>11. after \in Tasks
  BY <1>0, <1>1, <1>4 DEF Tasks
<1>12. Reading(after, left)
  <2>1. FrontBut(n, p, "in", inbox, left)
    BY <1>5, <1>10 DEF FrontBut
  <2>2. "in" \in Dir /\ ends \in Tasks /\ Reading(ends, inbox) /\ task \in Task /\ task # "busy"
    BY <1>0, <1>1, <1>4
  <2> QED BY <2>1, <2>2, SetReading
<1>13. ASSUME NEW m \in Node, NEW x, Owned(ends[m], x, m) PROVE Owned(after[m], x, m)
  <2>1. task \in {"greeting", "open", "busy", "closing"} =>
          ends[n][p]["in"] \in {"greeting", "open", "busy", "closing"}
    BY <1>1
  <2> QED BY <1>0, <1>1, <1>4, <1>13, <2>1, SetOwned
<1> HIDE DEF after
<1>14. Owned(ends[n], c, n)
  <2>1. Owned(ends[n], s, n)
    BY <1>0 DEF s
  <2> QED BY <1>0, <1>8, <2>1, TunedOwns
<1>15. Owned(after[n], c, n) /\ \A m \in Node \ {n} : Owned(after[m], local[m], m)
  BY <1>0, <1>13, <1>14
<1>16. /\ ends' \in Tasks /\ Reading(ends', inbox') /\ Boxes(inbox')
       /\ Owned(ends'[n], c, n) /\ \A m \in Node \ {n} : Owned(ends'[m], local[m], m)
  BY <1>2, <1>10, <1>11, <1>12, <1>15
<1> QED BY <1>1, <1>2, <1>9, <1>16, StepKeeps

LEMMA CloseStep ==
  ASSUME Inv, NEW n \in Node, NEW p \in Node, NEW d \in Dir, Close(n, p, d) \/ Fault(n, p, d)
  PROVE  Inv'
<1>1. /\ ends[n][p][d] \in {"open", "busy"} /\ target' = target /\ local' = local
      /\ ends' = [ends EXCEPT ![n][p][d] = "closing"]
      /\ inbox' = [inbox EXCEPT ![n][p][d] = <<>>]
  BY DEF Close, Fault, Break, Set
<1> QED BY <1>1, EndStep

LEMMA ReceiveStep ==
  ASSUME Inv, NEW n \in Node, NEW p \in Node, NEW d \in Dir, Receive(n, p, d)
  PROVE  Inv'
<1> DEFINE read == [ends EXCEPT ![n][p][d] = "busy"]
<1>0. /\ local[n] \in StormState /\ Informed(local[n], n) /\ ends \in Tasks
      /\ \A m \in Node : Owned(ends[m], local[m], m)
      /\ Boxes(inbox) /\ Reading(ends, inbox)
      /\ local = [local EXCEPT ![n] = local[n]]
  BY InvFacts
<1>1. target' = target /\ local' = local /\ ends[n][p][d] = "open"
  BY DEF Receive
<1>2. CASE Break(n, p, d)
  <2>1. /\ ends' = [ends EXCEPT ![n][p][d] = "closing"]
        /\ inbox' = [inbox EXCEPT ![n][p][d] = <<>>]
    BY <1>2 DEF Break, Set
  <2> QED BY <1>1, <2>1, EndStep
<1>3. CASE ~Break(n, p, d)
  <2>1. /\ inbox[n][p][d] # <<>> /\ inbox[n][p][d][1].kind = "table"
        /\ ends' = read /\ inbox' = inbox
    BY <1>3 DEF Receive, Set
  <2>2. "busy" \in Task
    BY DEF Task
  <2>3. read \in Tasks
    BY <1>0, <2>2 DEF Tasks
  <2>4. \A m, q \in Node, e \in Dir :
          read[m][q][e] = IF m = n /\ q = p /\ e = d THEN "busy" ELSE ends[m][q][e]
    BY <1>0 DEF Tasks
  <2>5. \A m \in Node : Owned(read[m], local[m], m)
    BY <1>0, <1>1, <2>2, SetOwned
  <2> HIDE DEF read
  <2>6. Reading(read, inbox)
    BY <1>0, <2>1, <2>4 DEF Reading
  <2>7. /\ ends' \in Tasks /\ Reading(ends', inbox') /\ Boxes(inbox')
        /\ \A m \in Node : Owned(ends'[m], local[m], m)
    BY <1>0, <2>1, <2>3, <2>5, <2>6
  <2>8. local' = [local EXCEPT ![n] = local[n]]
    BY <1>0, <1>1
  <2> QED BY <1>0, <1>1, <2>7, <2>8, StepKeeps
<1> QED BY <1>2, <1>3

LEMMA ReleaseStep ==
  ASSUME Inv, NEW n \in Node, NEW p \in Node, NEW d \in Dir, Release(n, p, d)
  PROVE  Inv'
<1> DEFINE s == local[n]
           c == Released(s, p)
           after == [ends EXCEPT ![n][p][d] = "idle"]
<1>0. /\ s \in StormState /\ Informed(s, n) /\ ends \in Tasks
      /\ \A m \in Node : Owned(ends[m], local[m], m)
      /\ Boxes(inbox) /\ Reading(ends, inbox)
  BY InvFacts
<1>1. /\ target' = target /\ inbox' = inbox /\ ends[n][p][d] = "closing"
      /\ local' = [local EXCEPT ![n] = c] /\ ends' = after
  BY DEF Release, Set, Rest
<1>2. "idle" \in Task /\ Tuned(s, c) /\ c.conn = Restrict(s.conn, DOMAIN s.conn \ {p})
  BY <1>0, ReleasedIs DEF Task
<1> HIDE DEF c
<1>3. DOMAIN c.conn \subseteq DOMAIN s.conn
  BY <1>2 DEF Restrict
<1>4. c \in StormState /\ Informed(c, n)
  <2>1. Given(s, n) => DOMAIN c.conn \subseteq Mesh
    BY <1>0, <1>3 DEF Informed
  <2> QED BY <1>0, <1>2, <2>1, TunedKeeps DEF Tuned
<1>5. /\ after \in Tasks /\ after[n][p][d] = "idle" /\ SameBut(p, d, ends[n], after[n])
      /\ \A m \in Node \ {n} : after[m] = ends[m]
  BY <1>0, <1>2 DEF Tasks, SameBut
<1>6. Reading(after, inbox)
  <2>1. FrontBut(n, p, d, inbox, inbox)
    BY DEF FrontBut
  <2> QED BY <1>0, <1>2, <2>1, SetReading
<1> HIDE DEF after
<1>7. Owned(after[n], c, n)
  <2>1. Owned(ends[n], s, n)
    BY <1>0
  <2> HIDE DEF s
  <2> QED BY <1>1, <1>2, <1>5, <2>1, OwnedRelease
<1>8. /\ ends' \in Tasks /\ Reading(ends', inbox') /\ Boxes(inbox')
      /\ Owned(ends'[n], c, n) /\ \A m \in Node \ {n} : Owned(ends'[m], local[m], m)
  BY <1>0, <1>1, <1>5, <1>6, <1>7
<1> QED BY <1>1, <1>4, <1>8, StepKeeps

LEMMA ReadingFronts ==
  ASSUME NEW tasks, NEW boxes, NEW fresh, Reading(tasks, boxes), Fronts(boxes, fresh)
  PROVE  Reading(tasks, fresh)
  BY DEF Reading, Fronts

(* A node changes its state and sends messages. *)
LEMMA SendStep ==
  ASSUME Inv, target' = target, NEW n \in Node, NEW c \in StormState, Informed(c, n),
         Owned(ends[n], c, n), local' = [local EXCEPT ![n] = c], ends' = ends,
         Boxes(inbox'), Fronts(inbox, inbox')
  PROVE  Inv'
<1>1. /\ ends \in Tasks /\ \A m \in Node : Owned(ends[m], local[m], m)
      /\ Reading(ends, inbox)
  BY InvFacts
<1>2. Reading(ends', inbox')
  BY <1>1, ReadingFronts
<1>3. /\ ends' \in Tasks /\ Owned(ends'[n], c, n)
      /\ \A m \in Node \ {n} : Owned(ends'[m], local[m], m)
  BY <1>1
<1> QED BY <1>2, <1>3, StepKeeps

LEMMA QuitStep ==
  ASSUME Inv, target' = target, NEW n \in Node, NEW c \in StormState, Informed(c, n),
         local' = [local EXCEPT ![n] = c], NEW boxes, Boxes(boxes), Fronts(inbox, boxes),
         Quit(n, boxes)
  PROVE  Inv'
<1> DEFINE none == <<>>
           idle == [p \in Node |-> [d \in Dir |-> "idle"]]
           empty == [p \in Node |-> [d \in Dir |-> none]]
<1>0. /\ ends \in Tasks /\ \A m \in Node : Owned(ends[m], local[m], m)
      /\ Reading(ends, inbox)
  BY InvFacts
<1>1. ends' = [ends EXCEPT ![n] = idle] /\ inbox' = [boxes EXCEPT ![n] = empty]
  BY DEF Quit, Emptied
<1>2. "idle" \in Task /\ none \in Seq(Letters(n)) /\ none \in Seq(Message)
  BY DEF Task
<1> HIDE DEF none
<1>3. /\ ends' \in Tasks
      /\ \A m, q \in Node, e \in Dir :
           ends'[m][q][e] = IF m = n THEN "idle" ELSE ends[m][q][e]
      /\ \A m \in Node \ {n} : ends'[m] = ends[m]
  BY <1>0, <1>1, <1>2 DEF Tasks
<1>4. /\ inbox' \in [Node -> [Node -> [Dir -> Seq(Message)]]]
      /\ \A m, q \in Node, e \in Dir :
           inbox'[m][q][e] = IF m = n THEN none ELSE boxes[m][q][e]
  BY <1>1, <1>2 DEF Boxes
<1>5. Boxes(inbox')
  <2>1. \A m, q \in Node, e \in Dir : inbox'[m][q][e] \in Seq(Letters(m))
    <3> TAKE m \in Node, q \in Node, e \in Dir
    <3>1. inbox'[m][q][e] = IF m = n THEN none ELSE boxes[m][q][e]
      BY <1>4
    <3>2. boxes[m][q][e] \in Seq(Letters(m))
      BY DEF Boxes
    <3> QED BY <1>2, <3>1, <3>2
  <2> QED BY <1>4, <2>1 DEF Boxes
<1>6. \A m, q \in Node, e \in Dir : ends'[m][q][e] = "busy" =>
        ends[m][q][e] = "busy" /\ inbox'[m][q][e] = boxes[m][q][e]
  BY <1>3, <1>4
<1>7. Reading(ends', inbox')
  <2>1. Reading(ends, boxes)
    BY <1>0, ReadingFronts
  <2> QED BY <1>6, <2>1 DEF Reading
<1>8. Owned(ends'[n], c, n)
  BY <1>3 DEF Owned
<1>9. \A m \in Node \ {n} : Owned(ends'[m], local[m], m)
  BY <1>0, <1>3
<1> QED BY <1>3, <1>5, <1>7, <1>8, <1>9, StepKeeps

(* A table that is handled has the members of the old or the new network.  *)
LEMMA TableRead ==
  ASSUME Inv, NEW n \in Node, NEW p \in Node, NEW d \in Dir, ends[n][p][d] = "busy"
  PROVE  /\ inbox[n][p][d] \in Seq(Letters(n)) /\ inbox[n][p][d] # <<>>
         /\ Head(inbox[n][p][d]).keys \in SUBSET Node
         /\ \/ Head(inbox[n][p][d]).keys = Mesh
            \/ ~Founding /\ Head(inbox[n][p][d]).keys = Old
<1> DEFINE box == inbox[n][p][d]
<1>1. /\ box \in Seq(Letters(n)) /\ box # <<>> /\ Head(box).kind = "table"
  BY InvFacts DEF Boxes, Reading
<1> HIDE DEF box
<1>2. Head(box) \in Letters(n)
  BY <1>1
<1>3. /\ Head(box).keys \in SUBSET Node
      /\ Head(box).keys = Mesh \/ (~Founding /\ Head(box).keys = Old)
  BY <1>1, <1>2 DEF Letters, Message
<1> QED BY <1>1, <1>3 DEF box

(* peers_socket_info::handle *)
LEMMA TableStep ==
  ASSUME Inv, NEW n \in Node, NEW p \in Node, NEW d \in Dir, HandleTable(n, p, d)
  PROVE  Inv'
<1> DEFINE s == local[n]
           box == inbox[n][p][d]
           keys == Head(box).keys
           outcome == TableOutcome(s, n, p, keys)
           found == Discovered(s, p, keys)
           c == CASE outcome = "restage" -> Restaged(s, n, keys)
                  [] outcome = "discover" -> Finished(found, n)
                  [] OTHER -> s
           task == IF outcome = "panic" THEN "idle" ELSE "open"
           left == IF outcome = "panic" THEN <<>> ELSE Tail(box)
           after == [ends EXCEPT ![n][p][d] = task]
           read == [inbox EXCEPT ![n][p][d] = left]
<1>0. /\ target \in Targets /\ s \in StormState /\ Informed(s, n) /\ ends \in Tasks
      /\ \A m \in Node : Owned(ends[m], local[m], m)
      /\ Boxes(inbox) /\ Reading(ends, inbox)
  BY InvFacts
<1>1. /\ target' = target /\ ends[n][p][d] = "busy" /\ local' = [local EXCEPT ![n] = c]
      /\ ends' = after
  BY DEF HandleTable, Set
<1>2. inbox' = read
  <2>1. inbox' = [inbox EXCEPT ![n][p][d] = IF outcome = "panic" THEN <<>> ELSE Tail(@)]
    BY DEF HandleTable
  <2> QED BY <1>0, <2>1 DEF Boxes
<1>3. box \in Seq(Letters(n)) /\ box # <<>>
  BY <1>1, TableRead
<1>4. left \in Seq(Letters(n)) /\ task \in Task /\ task # "busy"
  <2>1. Tail(box) \in Seq(Letters(n)) /\ <<>> \in Seq(Letters(n))
    BY <1>3
  <2> QED BY <2>1 DEF Task
<1>6. keys \in SUBSET Node /\ (keys = Mesh \/ (~Founding /\ keys = Old))
  BY <1>1, TableRead
<1>7. outcome = "discover" => /\ p \in DOMAIN s.peers /\ s.peers[p].discovery
                              /\ {n, p} \subseteq keys
  <2> HIDE DEF keys
  <2> QED BY DEF TableOutcome, Known
<1> HIDE DEF keys, outcome, task, left, box
<1>8. c \in StormState /\ Informed(c, n) /\ Owned(ends[n], c, n)
  <2>0. Owned(ends[n], s, n)
    BY <1>0
  <2> HIDE DEF s, found
  <2>1. c = Restaged(s, n, keys) \/ c = s \/ (outcome = "discover" /\ c = Finished(found, n))
    OBVIOUS
  <2> HIDE DEF c
  <2>2. CASE c = Restaged(s, n, keys)
    <3>1. Tuned(s, c) /\ c.conn = s.conn
      BY <1>0, <1>6, <2>2, RestagedIs
    <3>2. c \in StormState /\ Informed(c, n)
      BY <1>0, <3>1, TunedKeeps DEF Tuned, Informed
    <3> QED BY <2>0, <3>1, <3>2, TunedOwns
  <2>3. CASE c = s
    BY <1>0, <2>0, <2>3
  <2>4. CASE outcome = "discover" /\ c = Finished(found, n)
    <3>1. /\ found \in StormState /\ Informed(found, n) /\ Given(found, n)
          /\ found.conn = Restrict(s.conn, DOMAIN s.conn \cap Mesh)
      <4>1. /\ p \in DOMAIN s.peers /\ s.peers[p].discovery /\ {n, p} \subseteq keys
            /\ keys = Mesh \/ (~Founding /\ keys = Old)
        BY <1>6, <1>7, <2>4
      <4>2. target \in Targets /\ s \in StormState /\ Informed(s, n)
        BY <1>0
      <4>3. found = Discovered(s, p, keys)
        BY DEF found
      <4>4. found \in StormState
        BY <4>1, <4>2, <4>3, DiscoveredIs
      <4>5. Informed(found, n)
        BY <4>1, <4>2, <4>3, DiscoveredIs
      <4>6. Given(found, n)
        BY <4>1, <4>2, <4>3, DiscoveredIs
      <4>7. found.conn = Restrict(s.conn, DOMAIN s.conn \cap Mesh)
        BY <4>1, <4>2, <4>3, DiscoveredIs
      <4> QED BY <4>4, <4>5, <4>6, <4>7
    <3>2. Owned(ends[n], found, n)
      BY <2>0, <3>1, OwnedCut
    <3>3. Tuned(found, c) /\ c.conn = found.conn
      BY <2>4, <3>1, FinishedIs
    <3>4. c \in StormState /\ Informed(c, n)
      BY <3>1, <3>3, TunedKeeps DEF Tuned, Informed
    <3> QED BY <3>2, <3>3, <3>4, TunedOwns
  <2> QED BY <2>1, <2>2, <2>3, <2>4
<1> HIDE DEF c
<1>9. /\ after \in Tasks /\ \A m \in Node \ {n} : after[m] = ends[m]
  BY <1>0, <1>4 DEF Tasks
<1>10. Owned(after[n], c, n)
  BY <1>0, <1>1, <1>4, <1>8, SetOwned
<1>11. \A m, q \in Node, e \in Dir :
         read[m][q][e] = IF m = n /\ q = p /\ e = d THEN left ELSE inbox[m][q][e]
  BY <1>0 DEF Boxes
<1>12. Boxes(read)
  BY <1>0, <1>4, ReadIs
<1> HIDE DEF read
<1>13. FrontBut(n, p, d, inbox, read)
  BY <1>11 DEF FrontBut
<1>14. Reading(after, read)
  BY <1>0, <1>4, <1>13, SetReading
<1> HIDE DEF after
<1>15. /\ ends' \in Tasks /\ Reading(ends', inbox') /\ Boxes(inbox')
       /\ Owned(ends'[n], c, n) /\ \A m \in Node \ {n} : Owned(ends'[m], local[m], m)
  BY <1>0, <1>1, <1>2, <1>9, <1>10, <1>12, <1>14
<1> QED BY <1>1, <1>8, <1>15, StepKeeps

(* ask_peers_socket_info::handle *)
LEMMA AskStep ==
  ASSUME Inv, NEW n \in Node, NEW p \in Node, NEW d \in Dir, HandleAsk(n, p, d)
  PROVE  Inv'
<1> DEFINE s == local[n]
           rows == IF Contains(s, p) THEN s.movers ELSE s.peers
           answers == /\ Contains(s, p) => Ready(s, n)
                      /\ Addressed(rows) /\ Reachable(ends[n], s, n, p)
           mail == [q \in Node |-> IF q = p /\ answers THEN <<Table(rows)>> ELSE <<>>]
           sent == Posted(inbox, s, n, mail)
           rest == Tail(sent[n][p][d])
           read == [sent EXCEPT ![n][p][d] = rest]
<1>0. /\ target \in Targets /\ s \in StormState /\ Informed(s, n) /\ ends \in Tasks
      /\ \A m \in Node : Owned(ends[m], local[m], m)
      /\ Boxes(inbox) /\ Reading(ends, inbox)
      /\ local = [local EXCEPT ![n] = local[n]]
  BY InvFacts
<1>1. /\ target' = target /\ local' = local /\ ends' = ends /\ ends[n][p][d] = "open"
      /\ inbox[n][p][d] # <<>> /\ Head(inbox[n][p][d]).kind = "ask"
      /\ inbox' = [sent EXCEPT ![n][p][d] = Tail(@)]
  BY DEF HandleAsk
<1>2. ~Founding /\ n \in Old
  <2>1. inbox[n][p][d] \in Seq(Letters(n))
    BY <1>0 DEF Boxes
  <2>2. Head(inbox[n][p][d]) \in Letters(n)
    <3> DEFINE box == inbox[n][p][d]
    <3>1. box \in Seq(Letters(n)) /\ box # <<>>
      BY <1>1, <2>1
    <3> HIDE DEF box
    <3>2. Head(box) \in Letters(n)
      BY <3>1
    <3> QED BY <3>2 DEF box
  <2> QED BY <1>1, <2>2 DEF Letters
<1>3. answers => DOMAIN rows = Mesh \/ (~Founding /\ DOMAIN rows = Old)
  <2>1. CASE Contains(s, p)
    <3>1. answers => DOMAIN s.movers = s.staged
      BY <2>1 DEF Ready, Complete
    <3>2. s.staged = Mesh
      BY <1>0, <1>2, <2>1, Members DEF Contains, Informed
    <3> QED BY <2>1, <3>1, <3>2
  <2>2. CASE ~Contains(s, p)
    <3>1. ~Joining(n) /\ Staying(n) = Old
      BY <1>0, <1>2, Members DEF Staying
    <3> QED BY <1>0, <1>2, <2>2, <3>1 DEF Informed
  <2> QED BY <2>1, <2>2
<1> HIDE DEF rows
<1>4. answers => Table(rows) \in Letters(p)
  BY <1>0, <1>3, TableIs
<1> HIDE DEF answers
<1>5. \A q \in Node : mail[q] \in Seq(Letters(q))
  BY <1>4
<1> HIDE DEF mail, s
<1>6. Boxes(sent) /\ Fronts(inbox, sent)
  BY <1>0, <1>5, PostedKeeps
<1> HIDE DEF sent
<1>7. rest \in Seq(Letters(n))
  <2>1. sent[n][p][d] \in Seq(Letters(n)) /\ sent[n][p][d] # <<>>
    BY <1>1, <1>6 DEF Boxes, Fronts
  <2> QED BY <2>1
<1>8. inbox' = read
  BY <1>1, <1>6 DEF Boxes
<1> HIDE DEF rest
<1>9. \A m, q \in Node, e \in Dir :
        read[m][q][e] = IF m = n /\ q = p /\ e = d THEN rest ELSE sent[m][q][e]
  BY <1>6 DEF Boxes
<1>10. Boxes(read)
  BY <1>6, <1>7, ReadIs
<1> HIDE DEF read
<1>11. Reading(ends, read)
  <2>1. Reading(ends, sent)
    BY <1>0, <1>6, ReadingFronts
  <2>2. \A m, q \in Node, e \in Dir : ends[m][q][e] = "busy" => read[m][q][e] = sent[m][q][e]
    BY <1>1, <1>9
  <2> QED BY <2>1, <2>2 DEF Reading
<1>12. /\ ends' \in Tasks /\ Reading(ends', inbox') /\ Boxes(inbox')
       /\ \A m \in Node : Owned(ends'[m], local[m], m)
  BY <1>0, <1>1, <1>8, <1>10, <1>11
<1>13. local' = [local EXCEPT ![n] = local[n]] /\ local[n] \in StormState /\ Informed(local[n], n)
  BY <1>0, <1>1 DEF s
<1> QED BY <1>1, <1>12, <1>13, StepKeeps

LEMMA LeaveStep ==
  ASSUME Inv, NEW n \in Node, Leave(n)
  PROVE  Inv'
<1>0. /\ local[n] \in StormState /\ Informed(local[n], n) /\ Boxes(inbox)
      /\ local = [local EXCEPT ![n] = local[n]]
  BY InvFacts
<1>1. target' = target /\ local' = local /\ Quit(n, inbox)
  BY DEF Leave
<1>2. Fronts(inbox, inbox)
  BY DEF Fronts
<1>3. local' = [local EXCEPT ![n] = local[n]]
  BY <1>0, <1>1
<1> QED BY <1>0, <1>1, <1>2, <1>3, QuitStep

LEMMA StartStep ==
  ASSUME Inv, NEW n \in Node, Start(n)
  PROVE  Inv'
<1> DEFINE s == local[n]
           a == Announce(ends[n], s, n)
           mail == a.mail
           boxes == Posted(inbox, s, n, mail)
           c == Finished(a.state, n)
<1>0. /\ target \in Targets /\ s \in StormState /\ Informed(s, n) /\ Owned(ends[n], s, n)
      /\ Boxes(inbox)
  BY InvFacts
<1>1. /\ target' = target /\ local' = [local EXCEPT ![n] = c]
      /\ Quit(n, boxes) \/ (inbox' = boxes /\ ends' = ends)
  BY DEF Start
<1> HIDE DEF s
<1>2. /\ Tuned(s, a.state) /\ a.state.conn = s.conn
      /\ \A p \in Node : a.mail[p] \in Seq(Letters(p))
  BY <1>0, AnnouncedIs
<1> HIDE DEF a
<1>3. Tuned(a.state, c) /\ c.conn = a.state.conn
  BY <1>2, FinishedIs DEF Tuned
<1> HIDE DEF c
<1>4. Tuned(s, c) /\ c.conn = s.conn
  BY <1>2, <1>3, TunedTwice
<1>5. c \in StormState /\ Informed(c, n)
  BY <1>0, <1>4, TunedKeeps DEF Tuned, Informed
<1>6. Owned(ends[n], c, n)
  BY <1>0, <1>4, TunedOwns
<1>7. \A p \in Node : mail[p] \in Seq(Letters(p))
  BY <1>2
<1> HIDE DEF mail
<1>8. Boxes(boxes) /\ Fronts(inbox, boxes)
  BY <1>0, <1>7, PostedKeeps
<1> HIDE DEF boxes
<1>9. CASE Quit(n, boxes)
  BY <1>1, <1>5, <1>8, <1>9, QuitStep
<1>10. CASE inbox' = boxes /\ ends' = ends
  <2>1. Boxes(inbox') /\ Fronts(inbox, inbox')
    BY <1>8, <1>10
  <2> QED BY <1>1, <1>5, <1>6, <1>10, <2>1, SendStep
<1> QED BY <1>1, <1>9, <1>10

(* Requests go to members of a network that changes.                       *)
LEMMA AsksAre ==
  ASSUME target \in Targets, NEW n \in Node, NEW s \in StormState, Informed(s, n),
         NEW p, p \in Asked(s, n)
  PROVE  <<Ask>> \in Seq(Letters(p))
<1>1. p \in DOMAIN s.peers /\ s.staged # None
  BY DEF Asked, Active, Contains
<1>2. ~Founding /\ p \in Old
  BY <1>1 DEF Informed
<1>3. Ask \in Letters(p)
  BY <1>2 DEF Letters, Message, Ask
<1> HIDE DEF Ask
<1> QED BY <1>3

LEMMA ReconnectStep ==
  ASSUME Inv, NEW n \in Node, Reconnect(n)
  PROVE  Inv'
<1> DEFINE s == local[n]
           mail == [p \in Node |-> IF p \in Asked(s, n) /\ Reachable(ends[n], s, n, p)
                                   THEN <<Ask>> ELSE <<>>]
           boxes == Posted(inbox, s, n, mail)
<1>0. /\ target \in Targets /\ s \in StormState /\ Informed(s, n) /\ Owned(ends[n], s, n)
      /\ Boxes(inbox) /\ local = [local EXCEPT ![n] = s]
  BY InvFacts
<1>1. target' = target /\ local' = local /\ ends' = ends /\ inbox' = boxes
  BY DEF Reconnect, Rest
<1> HIDE DEF s
<1>2. \A p \in Node : mail[p] \in Seq(Letters(p))
  <2> TAKE p \in Node
  <2>1. mail[p] = <<>> \/ (p \in Asked(s, n) /\ mail[p] = <<Ask>>)
    OBVIOUS
  <2>2. <<>> \in Seq(Letters(p))
    OBVIOUS
  <2>3. p \in Asked(s, n) => <<Ask>> \in Seq(Letters(p))
    BY <1>0, AsksAre
  <2> HIDE DEF mail
  <2> QED BY <2>1, <2>2, <2>3
<1> HIDE DEF mail
<1>3. Boxes(boxes) /\ Fronts(inbox, boxes)
  BY <1>0, <1>2, PostedKeeps
<1> HIDE DEF boxes
<1>4. Boxes(inbox') /\ Fronts(inbox, inbox') /\ local' = [local EXCEPT ![n] = s]
  BY <1>0, <1>1, <1>3
<1> QED BY <1>0, <1>1, <1>4, SendStep

LEMMA BeginStep ==
  ASSUME Inv, NEW n \in Node, Begin(n)
  PROVE  Inv'
<1> DEFINE s == local[n]
           b == Staged(s)
           asked == Asked(b, n)
           asks == [p \in Node |-> IF p \in asked /\ Reachable(ends[n], b, n, p)
                                   THEN <<Ask>> ELSE <<>>]
           a == Announce(ends[n], b, n)
           ok == \A p \in asked : Reachable(ends[n], b, n, p)
           mail == IF asked # {} THEN asks ELSE a.mail
           boxes == Posted(inbox, b, n, mail)
           c == IF ok THEN a.state ELSE b
<1>0. /\ target \in Targets /\ s \in StormState /\ Informed(s, n) /\ Owned(ends[n], s, n)
      /\ Boxes(inbox)
  BY InvFacts
<1>1. /\ target' = target /\ ends' = ends /\ ~Founding /\ n \in Old /\ DOMAIN s.peers = Old
      /\ local' = [local EXCEPT ![n] = c] /\ inbox' = boxes
  BY DEF Begin, Staged
<1> HIDE DEF s
<1>2. /\ b \in StormState /\ Informed(b, n)
      /\ b.conn = s.conn /\ b.peers = s.peers /\ b.received = s.received
  BY <1>0, <1>1, StagedIs
<1> HIDE DEF b
<1>3. Owned(ends[n], b, n)
  BY <1>0, <1>2 DEF Owned, Given
<1>4. /\ Tuned(b, a.state) /\ a.state.conn = b.conn
      /\ \A p \in Node : a.mail[p] \in Seq(Letters(p))
  BY <1>0, <1>2, AnnouncedIs
<1> HIDE DEF a
<1>5. c = a.state \/ c = b
  OBVIOUS
<1> HIDE DEF c
<1>6. Tuned(b, c) /\ c.conn = b.conn
  BY <1>2, <1>4, <1>5, TunedSelf
<1>7. c \in StormState /\ Informed(c, n)
  BY <1>2, <1>6, TunedKeeps DEF Tuned, Informed
<1>8. Owned(ends[n], c, n)
  BY <1>3, <1>6, TunedOwns
<1>9. \A p \in Node : mail[p] \in Seq(Letters(p))
  <2> TAKE p \in Node
  <2>1. mail = asks \/ mail = a.mail
    OBVIOUS
  <2>2. asks[p] = <<>> \/ (p \in Asked(b, n) /\ asks[p] = <<Ask>>)
    OBVIOUS
  <2>3. <<>> \in Seq(Letters(p))
    OBVIOUS
  <2>4. p \in Asked(b, n) => <<Ask>> \in Seq(Letters(p))
    BY <1>0, <1>2, AsksAre
  <2> HIDE DEF mail, asks
  <2> QED BY <1>4, <2>1, <2>2, <2>3, <2>4
<1> HIDE DEF mail
<1>10. Boxes(boxes) /\ Fronts(inbox, boxes)
  BY <1>0, <1>9, PostedKeeps
<1> HIDE DEF boxes
<1>11. Boxes(inbox') /\ Fronts(inbox, inbox')
  BY <1>1, <1>10
<1> QED BY <1>1, <1>7, <1>8, <1>11, SendStep

LEMMA ActivateStep ==
  ASSUME Inv, NEW n \in Node, Activate(n)
  PROVE  Inv'
<1> DEFINE s == local[n]
           c == Activated(s)
<1>0. /\ target \in Targets /\ s \in StormState /\ Informed(s, n) /\ Owned(ends[n], s, n)
      /\ Boxes(inbox)
  BY InvFacts
<1>1. /\ target' = target /\ ends' = ends /\ inbox' = inbox /\ MayActivate(s, n)
      /\ local' = [local EXCEPT ![n] = c]
  BY DEF Activate
<1> HIDE DEF s
<1>2. /\ c \in StormState /\ Informed(c, n) /\ Given(c, n)
      /\ c.conn = Restrict(s.conn, DOMAIN s.conn \cap Mesh)
  BY <1>0, <1>1, ActivatedIs
<1> HIDE DEF c
<1>3. Owned(ends[n], c, n)
  BY <1>0, <1>2, OwnedCut
<1>4. Boxes(inbox') /\ Fronts(inbox, inbox')
  BY <1>0, <1>1 DEF Fronts
<1> QED BY <1>1, <1>2, <1>3, <1>4, SendStep

LEMMA InitInv == Init => Inv
<1> SUFFICES ASSUME Init PROVE Inv
  OBVIOUS
<1> DEFINE rows(n) == InitialPeers(n)
           conn(n) == InitialConn(n)
           row(n, p) == [rows(n)[p] EXCEPT !.status = IF p \in DOMAIN conn(n) THEN "Active" ELSE @]
           peers(n) == [p \in DOMAIN rows(n) |-> row(n, p)]
           none == <<>>
           state(n) == [peers |-> peers(n), movers |-> none, staged |-> None,
                        received |-> FALSE, conn |-> conn(n)]
<1>1. /\ target \in Targets /\ local = [n \in Node |-> state(n)]
      /\ ends = [n \in Node |-> [p \in Node |-> [d \in Dir |->
           IF p \in DOMAIN local[n].conn /\ local[n].conn[p] = d THEN "open" ELSE "idle"]]]
      /\ inbox = [n \in Node |-> [p \in Node |-> [d \in Dir |-> none]]]
  BY DEF Init
<1>2. DOMAIN none = {} /\ none \in Rows /\ \A n : none \in Seq(Letters(n))
  <2>1. DOMAIN none = {} /\ \A n : none \in Seq(Letters(n))
    OBVIOUS
  <2>2. none = [q \in {} |-> Host]
    BY <2>1
  <2> HIDE DEF none
  <2>3. none \in [{} -> Row]
    BY <2>2
  <2> QED BY <2>1, <2>3, RowsAre
<1>3. \A n \in Node : DOMAIN conn(n) \subseteq Node /\ conn(n) \in [DOMAIN conn(n) -> Dir]
                      /\ (conn(n) = none \/ ~Founding)
  <2> TAKE n \in Node
  <2>1. CASE Founding \/ Joining(n)
    <3>1. conn(n) = none
      BY <2>1 DEF InitialConn
    <3> HIDE DEF conn
    <3>2. conn(n) = [q \in {} |-> Host]
      BY <1>2, <3>1
    <3> QED BY <1>2, <3>1, <3>2
  <2>2. CASE ~(Founding \/ Joining(n))
    <3>1. conn(n) = [p \in Old \ {n} |-> IF n < p THEN "out" ELSE "in"]
      BY <2>2 DEF InitialConn
    <3> HIDE DEF conn
    <3>2. DOMAIN conn(n) = Old \ {n} /\ \A p \in DOMAIN conn(n) : conn(n)[p] \in {"out", "in"}
      BY <3>1
    <3>3. conn(n) = [p \in DOMAIN conn(n) |-> conn(n)[p]]
      BY <3>1
    <3> QED BY <2>2, <3>2, <3>3 DEF Dir, Old
  <2> QED BY <2>1, <2>2
<1>4. \A n \in Node :
        /\ DOMAIN rows(n) = IF Joining(n) THEN {n, Host} ELSE Staying(n)
        /\ \A p \in DOMAIN rows(n) : rows(n)[p] \in Row
        /\ n \in DOMAIN rows(n) /\ rows(n)[n].discovery => Founding /\ n = Host
        /\ ~Founding /\ n \in Old => \A p \in DOMAIN rows(n) : ~rows(n)[p].discovery
  <2> TAKE n \in Node
  <2>0. /\ Self(TRUE) \in Row /\ Self(FALSE) \in Row /\ Remote(TRUE, TRUE) \in Row
        /\ Remote(FALSE, FALSE) \in Row /\ Remote(TRUE, FALSE) \in Row
        /\ ~Self(FALSE).discovery /\ ~Remote(FALSE, FALSE).discovery
        /\ ~Remote(TRUE, FALSE).discovery
    BY DEF Self, Remote, Row
  <2>1. ~Founding => (Joining(n) <=> n = Joiner) /\ (n \in Old <=> n # Joiner)
    BY <1>1, Members
  <2>2. CASE Joining(n)
    <3>1. rows(n) = [p \in {n, Host} |-> IF p = n THEN Self(FALSE) ELSE Remote(TRUE, TRUE)]
      BY <2>2 DEF InitialPeers
    <3> HIDE DEF rows
    <3> QED BY <2>0, <2>1, <2>2, <3>1
  <2>3. CASE ~Joining(n) /\ Founding
    <3>1. rows(n) = [p \in Node |-> IF p = n THEN Self(TRUE) ELSE Remote(FALSE, FALSE)]
      BY <2>3 DEF InitialPeers
    <3>2. n = Host
      BY <2>3 DEF Joining
    <3> HIDE DEF rows
    <3> QED BY <2>0, <2>3, <3>1, <3>2 DEF Staying
  <2>4. CASE ~Joining(n) /\ ~Founding
    <3>1. rows(n) = [p \in Old |-> IF p = n THEN Self(FALSE) ELSE Remote(TRUE, FALSE)]
      BY <2>4 DEF InitialPeers
    <3> HIDE DEF rows
    <3> QED BY <2>0, <2>4, <3>1 DEF Staying
  <2> QED BY <2>2, <2>3, <2>4
<1> HIDE DEF rows, conn, none
<1>5. \A n \in Node : \A p \in DOMAIN rows(n) :
        row(n, p) \in Row /\ row(n, p).discovery = rows(n)[p].discovery
  <2> TAKE n \in Node
  <2> TAKE p \in DOMAIN rows(n)
  <2>1. rows(n)[p] \in Row
    BY <1>4
  <2> QED BY <2>1 DEF Row
<1> HIDE DEF row
<1>6. \A n \in Node : /\ DOMAIN peers(n) = DOMAIN rows(n) /\ peers(n) \in [DOMAIN rows(n) -> Row]
                      /\ \A p \in DOMAIN rows(n) : peers(n)[p].discovery = rows(n)[p].discovery
  BY <1>5
<1> HIDE DEF peers
<1>7. \A n \in Node : peers(n) \in Rows
  <2> TAKE n \in Node
  <2>1. DOMAIN rows(n) \subseteq Node
    <3>1. Staying(n) \subseteq Node /\ {n, Host} \subseteq Node
      BY <1>1, Members
    <3>2. DOMAIN rows(n) = Staying(n) \/ DOMAIN rows(n) = {n, Host}
      BY <1>4
    <3> QED BY <3>1, <3>2
  <2> QED BY <1>6, <2>1, RowsAre
<1>8. \A n \in Node :
        /\ state(n) \in StormState /\ state(n).peers = peers(n) /\ state(n).movers = none
        /\ state(n).staged = None /\ ~state(n).received /\ state(n).conn = conn(n)
  <2> TAKE n \in Node
  <2>1. conn(n) \in UNION {[D -> Dir] : D \in SUBSET Node}
    BY <1>3
  <2> QED BY <1>2, <1>7, <2>1 DEF StormState
<1> HIDE DEF state
<1>9. \A n \in Node : Informed(state(n), n)
  <2> TAKE n \in Node
  <2>1. ~Given(state(n), n)
    BY <1>4, <1>6, <1>8 DEF Given
  <2>2. DOMAIN state(n).peers = IF Joining(n) THEN {n, Host} ELSE Staying(n)
    BY <1>4, <1>6, <1>8
  <2>3. n \in DOMAIN state(n).peers /\ state(n).peers[n].discovery => Founding /\ n = Host
    BY <1>4, <1>6, <1>8
  <2>4. ~Founding /\ n \in Old => /\ \A p \in DOMAIN state(n).peers : ~state(n).peers[p].discovery
                                  /\ \A p \in DOMAIN state(n).movers : ~state(n).movers[p].discovery
    <3>1. state(n).peers = peers(n) /\ DOMAIN state(n).movers = {}
      BY <1>2, <1>8
    <3>2. ~Founding /\ n \in Old => \A p \in DOMAIN peers(n) : ~peers(n)[p].discovery
      BY <1>4, <1>6
    <3> QED BY <3>1, <3>2
  <2> QED BY <1>8, <2>1, <2>2, <2>3, <2>4 DEF Informed
<1>10. local \in [Node -> StormState] /\ \A n \in Node : local[n] = state(n)
  BY <1>1, <1>8
<1>11. /\ ends \in Tasks
       /\ \A n, p \in Node, d \in Dir : ends[n][p][d] \in {"greeting", "open", "busy", "closing"} =>
            p \in DOMAIN local[n].conn /\ local[n].conn[p] = d
  <2>1. "open" \in Task /\ "idle" \in Task
    BY DEF Task
  <2>2. \A n, p \in Node, d \in Dir : ends[n][p][d] =
          IF p \in DOMAIN local[n].conn /\ local[n].conn[p] = d THEN "open" ELSE "idle"
    BY <1>1
  <2>3. ends \in Tasks
    BY <1>1, <2>1 DEF Tasks
  <2> QED BY <2>2, <2>3
<1>12. \A n \in Node : Owned(ends[n], local[n], n)
  BY <1>11 DEF Owned
<1>13. Boxes(inbox)
  <2>1. \A n, p \in Node, d \in Dir : inbox[n][p][d] = none
    BY <1>1
  <2>2. none \in Seq(Message)
    BY DEF none
  <2>3. inbox \in [Node -> [Node -> [Dir -> Seq(Message)]]]
    BY <1>1, <2>2
  <2> QED BY <1>2, <2>1, <2>3 DEF Boxes
<1>14. Reading(ends, inbox)
  <2>1. \A n, p \in Node, d \in Dir : ends[n][p][d] # "busy"
    BY <1>1
  <2> QED BY <2>1 DEF Reading
<1> QED BY <1>1, <1>9, <1>10, <1>11, <1>12, <1>13, <1>14 DEF Inv, Types, Tasks

LEMMA InvNext == Inv /\ [Next]_vars => Inv'
<1> SUFFICES ASSUME Inv, [Next]_vars PROVE Inv'
  OBVIOUS
<1>1. ASSUME NEW n \in Node, NEW p \in Node, Greet(n, p) \/ Dial(n, p) \/ Run(n, p) PROVE Inv'
  <2>1. CASE Dial(n, p)
    BY <2>1, DialStep
  <2>2. CASE Accept(n, p)
    BY <2>2, AcceptStep
  <2>4. CASE Greet(n, p)
    BY <2>4, GreetStep
  <2>3. ASSUME NEW d \in Dir, \/ Close(n, p, d) \/ Release(n, p, d)
                              \/ Receive(n, p, d) \/ HandleTable(n, p, d) \/ HandleAsk(n, p, d)
        PROVE  Inv'
    BY <2>3, CloseStep, ReleaseStep, ReceiveStep, TableStep, AskStep
  <2> QED BY <1>1, <2>1, <2>2, <2>3, <2>4 DEF Run
<1>2. ASSUME NEW n \in Node, NEW p \in Node, NEW d \in Dir, Fault(n, p, d) PROVE Inv'
  BY <1>2, CloseStep
<1>3. ASSUME NEW n \in Node, Start(n) \/ Leave(n) \/ Reconnect(n) \/ Begin(n) \/ Activate(n)
      PROVE  Inv'
  BY <1>3, StartStep, LeaveStep, ReconnectStep, BeginStep, ActivateStep
<1>4. CASE UNCHANGED vars
  <2>1. target' = target /\ local' = local /\ ends' = ends /\ inbox' = inbox
    BY <1>4 DEF vars
  <2>2. Host \in Node
    BY NodeAssumption
  <2>3. /\ local[Host] \in StormState /\ Informed(local[Host], Host)
        /\ Owned(ends[Host], local[Host], Host) /\ Boxes(inbox)
        /\ local = [local EXCEPT ![Host] = local[Host]]
    BY <2>2, InvFacts
  <2>4. local' = [local EXCEPT ![Host] = local[Host]] /\ Boxes(inbox') /\ Fronts(inbox, inbox')
    BY <2>1, <2>3 DEF Fronts
  <2> QED BY <2>1, <2>2, <2>3, <2>4, SendStep
<1> QED BY <1>1, <1>2, <1>3, <1>4 DEF Next

THEOREM Invariance == Spec => []Inv
<1>1. Init => Inv
  BY InitInv
<1>2. Inv /\ [Next]_vars => Inv'
  BY InvNext
<1> QED BY <1>1, <1>2, PTL DEF Spec

(***************************************************************************)
(* A node that has been given the members of the network, by the table of  *)
(* its host or by a migration, has all of them and nobody else, and when   *)
(* the migration is over it counts on connections to them alone.           *)
(***************************************************************************)
THEOREM MembersSafety == Spec => []MembersOnly
<1>1. Inv => MembersOnly
  <2> SUFFICES ASSUME Inv, NEW n \in Node,
                      \/ local[n].received
                      \/ ~Joining(n) /\ DOMAIN local[n].peers # (IF Founding THEN Node ELSE Old)
               PROVE  DOMAIN local[n].peers = Mesh /\ DOMAIN local[n].conn \subseteq Mesh
    BY DEF MembersOnly
  <2>1. Given(local[n], n)
    BY DEF Given, Staying
  <2>2. Informed(local[n], n)
    BY InvFacts
  <2> QED BY <2>1, <2>2 DEF Informed
<1> QED BY <1>1, Invariance, PTL

(***************************************************************************)
(* The task of a stream that has ended gives up its own claim and never    *)
(* the claim of another stream with the same peer: at most one task of the *)
(* two directions ever serves a peer that a node counts on.                *)
(***************************************************************************)
THEOREM ReleaseSafety == Spec => ReleasesItsOwn
<1> DEFINE Own == \A n, p \in Node, d \in Dir :
       ends[n][p][d] = "closing" /\ ends'[n][p][d] = "idle" /\ p \in DOMAIN local[n].conn
         => local[n].conn[p] = d
<1>1. Inv /\ [Next]_vars => [Own]_vars
  <2> SUFFICES ASSUME Inv PROVE Own
    OBVIOUS
  <2> SUFFICES ASSUME NEW n \in Node, NEW p \in Node, NEW d \in Dir,
                      ends[n][p][d] = "closing", p \in DOMAIN local[n].conn
               PROVE  local[n].conn[p] = d
    OBVIOUS
  <2>1. Owned(ends[n], local[n], n)
    BY InvFacts
  <2> QED BY <2>1 DEF Owned
<1> HIDE DEF Own
<1>2. Spec => [][Own]_vars
  BY <1>1, Invariance, PTL DEF Spec
<1> QED BY <1>2 DEF Own, ReleasesItsOwn

-----------------------------------------------------------------------------
(***************************************************************************)
(* Connections and the status of peers.                                    *)
(***************************************************************************)
Fits(rows, conn, n) ==
  \A p \in DOMAIN rows \ {n} : rows[p].status = "Active" <=> p \in DOMAIN conn

(* Until it is given the members, a joining node waits for its host, and   *)
(* stages nobody.                                                          *)
Waiting(s, n) ==
  Joining(n) /\ ~s.received =>
    Host \in DOMAIN s.peers /\ s.peers[Host].discovery /\ DOMAIN s.movers = {}

Aligned(s, n) == Fits(s.peers, s.conn, n) /\ Fits(s.movers, s.conn, n) /\ Waiting(s, n)

LEMMA ReachedFits ==
  ASSUME NEW rows \in Rows, NEW conn, NEW p, NEW d, NEW n, Fits(rows, conn, n)
  PROVE  Fits(Reached(rows, p, d), Inserted(conn, p, d), n)
<1> DEFINE new == Reached(rows, p, d)
           c == Inserted(conn, p, d)
<1>0. DOMAIN rows \subseteq Node /\ rows \in [DOMAIN rows -> Row] /\ DOMAIN c = DOMAIN conn \cup {p}
  BY RowsAre DEF Inserted
<1> HIDE DEF c
<1>1. CASE p \in DOMAIN rows
  <2> DEFINE r == [[rows[p] EXCEPT !.status = "Active"] EXCEPT !.addr = rows[p].addr \/ d = "in"]
  <2>1. rows[p] \in Row
    BY <1>0, <1>1
  <2>2. r.status = "Active"
    BY <2>1 DEF Row
  <2>3. new = [rows EXCEPT ![p] = r]
    BY <1>1, <2>1 DEF Reached
  <2> HIDE DEF r, new
  <2>4. /\ DOMAIN new = DOMAIN rows
        /\ \A q \in DOMAIN rows : new[q] = IF q = p THEN r ELSE rows[q]
    BY <1>0, <2>3
  <2>5. Fits(new, c, n)
    BY <1>0, <2>2, <2>4 DEF Fits
  <2> QED BY <2>5 DEF new, c
<1>2. CASE p \notin DOMAIN rows
  <2>1. new = rows
    BY <1>2 DEF Reached
  <2> HIDE DEF new
  <2>2. Fits(new, c, n)
    BY <1>0, <1>2, <2>1 DEF Fits
  <2> QED BY <2>2 DEF new, c
<1> QED BY <1>1, <1>2

LEMMA PartedFits ==
  ASSUME NEW rows \in Rows, NEW conn, NEW p, NEW n, Fits(rows, conn, n)
  PROVE  Fits(Parted(rows, p), Restrict(conn, DOMAIN conn \ {p}), n)
<1> DEFINE new == Parted(rows, p)
           row(q) == IF q = p /\ rows[q].status = "Active"
                     THEN [rows[q] EXCEPT !.status = "Inactive"] ELSE rows[q]
           c == Restrict(conn, DOMAIN conn \ {p})
<1>0. rows \in [DOMAIN rows -> Row] /\ DOMAIN c = DOMAIN conn \ {p}
  BY RowsAre DEF Restrict
<1>1. \A q \in DOMAIN rows :
        row(q).status = IF q = p /\ rows[q].status = "Active" THEN "Inactive" ELSE rows[q].status
  <2> TAKE q \in DOMAIN rows
  <2>1. rows[q] \in Row
    BY <1>0
  <2> QED BY <2>1 DEF Row
<1>2. new = [q \in DOMAIN rows |-> row(q)]
  BY DEF Parted
<1> HIDE DEF row, new, c
<1>3. DOMAIN new = DOMAIN rows /\ \A q \in DOMAIN rows : new[q] = row(q)
  BY <1>2
<1>4. Fits(new, c, n)
  BY <1>0, <1>1, <1>3 DEF Fits
<1> QED BY <1>4 DEF new, c

(* Rows whose status, and connections that, are the same for the members.  *)
LEMMA FitsSame ==
  ASSUME NEW rows, NEW conn, NEW n, Fits(rows, conn, n), NEW new, NEW c,
         DOMAIN new \subseteq DOMAIN rows,
         \A p \in DOMAIN new : new[p].status = rows[p].status,
         \A p \in DOMAIN new : p \in DOMAIN c <=> p \in DOMAIN conn
  PROVE  Fits(new, c, n)
  BY DEF Fits

(* claim_connection *)
LEMMA ClaimedAligned ==
  ASSUME target \in Targets, NEW n \in Node, NEW p \in Node, NEW d \in Dir, NEW s \in StormState,
         Informed(s, n), Aligned(s, n), Claimable(s, n, p)
  PROVE  Aligned(Claimed(s, p, d), n)
<1> DEFINE c == Claimed(s, p, d)
           new == [status |-> "Active", addr |-> d = "in", discovery |-> FALSE]
           movers == IF Known(s, p) \/ (p \in DOMAIN s.movers /\ Contains(s, p))
                     THEN Reached(s.movers, p, d)
                     ELSE IF Contains(s, p) THEN Inserted(s.movers, p, new) ELSE s.movers
           conn == Inserted(s.conn, p, d)
           peers == Reached(s.peers, p, d)
<1>1. c = [s EXCEPT !.conn = conn, !.peers = peers, !.movers = movers]
  BY DEF Claimed
<1>2. /\ s.peers \in Rows /\ s.movers \in Rows
      /\ Fits(s.peers, s.conn, n) /\ Fits(s.movers, s.conn, n)
  BY DEF StormState, Aligned
<1>3. Fits(peers, conn, n)
  BY <1>2, ReachedFits
<1>4. DOMAIN conn = DOMAIN s.conn \cup {p}
  BY DEF Inserted
<1>5. Fits(Reached(s.movers, p, d), conn, n)
  BY <1>2, ReachedFits
<1>6. ~Known(s, p) /\ ~Contains(s, p) => p \notin DOMAIN s.movers
  <2> SUFFICES ASSUME ~Known(s, p), ~Contains(s, p) PROVE p \notin DOMAIN s.movers
    OBVIOUS
  <2>1. ~s.received /\ \E q \in DOMAIN s.peers \ {n} : s.peers[q].discovery
    BY DEF Claimable, AcceptsUnregistered
  <2>2. CASE Joining(n)
    BY <2>1, <2>2 DEF Aligned, Waiting
  <2>3. CASE ~Joining(n) /\ Founding
    BY <2>3, Members DEF Informed, Staying, Known
  <2>4. CASE ~Joining(n) /\ ~Founding
    BY <2>1, <2>4, Members DEF Informed
  <2> QED BY <2>2, <2>3, <2>4
<1>7. Joining(n) => ~Contains(s, p)
  BY Members DEF Informed, Contains
<1>8. /\ movers = Reached(s.movers, p, d) \/ movers = s.movers \/ movers = Inserted(s.movers, p, new)
      /\ movers = s.movers \/ movers = Reached(s.movers, p, d) \/ Contains(s, p)
      /\ p \in DOMAIN s.movers => movers = Reached(s.movers, p, d)
  BY <1>6
<1>9. Joining(n) => DOMAIN movers = DOMAIN s.movers
  <2>1. DOMAIN Reached(s.movers, p, d) = DOMAIN s.movers
    BY <1>2, ReachedIs
  <2> HIDE DEF movers
  <2> QED BY <1>7, <1>8, <2>1
<1> HIDE DEF movers
<1>10. Fits(movers, conn, n)
  <2>1. CASE p \in DOMAIN s.movers
    BY <1>5, <1>8, <2>1
  <2>2. CASE p \notin DOMAIN s.movers /\ movers = s.movers
    BY <1>2, <1>4, <2>2 DEF Fits
  <2>3. CASE p \notin DOMAIN s.movers /\ movers = Inserted(s.movers, p, new)
    <3>1. new.status = "Active"
      OBVIOUS
    <3> HIDE DEF new, conn
    <3>2. /\ DOMAIN movers = DOMAIN s.movers \cup {p} /\ movers[p] = new
          /\ \A q \in DOMAIN s.movers : q # p => movers[q] = s.movers[q]
      BY <2>3 DEF Inserted
    <3> QED BY <1>2, <1>4, <2>3, <3>1, <3>2 DEF Fits
  <2>4. CASE movers = Reached(s.movers, p, d)
    BY <1>5, <2>4
  <2> QED BY <1>8, <2>1, <2>2, <2>3, <2>4
<1>11. /\ DOMAIN peers = DOMAIN s.peers
       /\ \A q \in DOMAIN s.peers : peers[q].discovery = s.peers[q].discovery
  BY <1>2, ReachedIs
<1> HIDE DEF conn, peers
<1>12. c.conn = conn /\ c.peers = peers /\ c.movers = movers /\ c.received = s.received
  BY <1>1 DEF StormState
<1> HIDE DEF c
<1>13. Waiting(c, n)
  BY <1>9, <1>11, <1>12 DEF Waiting, Aligned
<1>14. Aligned(c, n)
  BY <1>3, <1>10, <1>12, <1>13 DEF Aligned
<1> QED BY <1>14 DEF c

(* release_connection *)
LEMMA ReleasedAligned ==
  ASSUME NEW n \in Node, NEW p, NEW s \in StormState, Aligned(s, n)
  PROVE  Aligned(Released(s, p), n)
<1> DEFINE c == Released(s, p)
           conn == Restrict(s.conn, DOMAIN s.conn \ {p})
           peers == Parted(s.peers, p)
           movers == Parted(s.movers, p)
<1>1. c = [s EXCEPT !.conn = conn, !.peers = peers, !.movers = movers]
  BY DEF Released
<1>2. /\ s.peers \in Rows /\ s.movers \in Rows
      /\ Fits(s.peers, s.conn, n) /\ Fits(s.movers, s.conn, n)
  BY DEF StormState, Aligned
<1>3. Fits(peers, conn, n) /\ Fits(movers, conn, n)
  BY <1>2, PartedFits
<1>4. /\ DOMAIN peers = DOMAIN s.peers /\ DOMAIN movers = DOMAIN s.movers
      /\ \A q \in DOMAIN s.peers : peers[q].discovery = s.peers[q].discovery
  BY <1>2, PartedIs
<1> HIDE DEF conn, peers, movers
<1>5. c.conn = conn /\ c.peers = peers /\ c.movers = movers /\ c.received = s.received
  BY <1>1 DEF StormState
<1> HIDE DEF c
<1>6. Waiting(c, n)
  BY <1>4, <1>5 DEF Waiting, Aligned
<1>7. Aligned(c, n)
  BY <1>3, <1>5, <1>6 DEF Aligned
<1> QED BY <1>7 DEF c

(* finish_client_discovery_if_connected *)
LEMMA FinishedAligned ==
  ASSUME NEW n \in Node, NEW s \in StormState, Aligned(s, n)
  PROVE  Aligned(Finished(s, n), n)
<1> DEFINE row(p) == [s.peers[p] EXCEPT !.discovery = FALSE]
           peers == [p \in DOMAIN s.peers |-> row(p)]
           c == [s EXCEPT !.peers = peers]
<1>1. Finished(s, n) = s \/ (s.received /\ Finished(s, n) = c)
  BY DEF Finished
<1>2. s.peers \in [DOMAIN s.peers -> Row]
  BY StateAre
<1>3. \A p \in DOMAIN s.peers : row(p).status = s.peers[p].status
  <2> TAKE p \in DOMAIN s.peers
  <2>1. s.peers[p] \in Row
    BY <1>2
  <2> QED BY <2>1 DEF Row
<1> HIDE DEF row
<1>4. DOMAIN peers = DOMAIN s.peers /\ \A p \in DOMAIN peers : peers[p].status = s.peers[p].status
  BY <1>3
<1> HIDE DEF peers
<1>5. c.peers = peers /\ c.movers = s.movers /\ c.conn = s.conn /\ c.received = s.received
  BY DEF StormState
<1> HIDE DEF c
<1>6. Fits(c.peers, c.conn, n)
  BY <1>4, <1>5 DEF Aligned, Fits
<1>7. s.received => Aligned(c, n)
  BY <1>5, <1>6 DEF Aligned, Waiting
<1> QED BY <1>1, <1>7

(* broadcast_discovery_table_if_ready *)
LEMMA AnnouncedAligned ==
  ASSUME NEW n \in Node, NEW s \in StormState, Informed(s, n), Aligned(s, n), NEW tasks
  PROVE  Aligned(Announce(tasks, s, n).state, n)
<1> DEFINE c == [s EXCEPT !.peers[n].discovery = FALSE]
           a == Announce(tasks, s, n).state
<1>1. a = s \/ (a = c /\ n \in DOMAIN s.peers /\ s.peers[n].discovery)
  BY DEF Announce
<1>2. CASE a = s
  BY <1>2
<1>3. CASE a = c /\ n \in DOMAIN s.peers /\ s.peers[n].discovery
  <2> DEFINE r == [s.peers[n] EXCEPT !.discovery = FALSE]
             rows == [s.peers EXCEPT ![n] = r]
  <2>1. ~Joining(n)
    BY <1>3 DEF Informed, Joining
  <2>2. c = [s EXCEPT !.peers = rows]
    BY <1>3 DEF StormState
  <2>3. DOMAIN rows = DOMAIN s.peers /\ \A p \in DOMAIN rows \ {n} : rows[p] = s.peers[p]
    <3> HIDE DEF r
    <3> QED BY <1>3, StateAre
  <2> HIDE DEF rows, a
  <2>4. c.peers = rows /\ c.movers = s.movers /\ c.conn = s.conn
    BY <2>2 DEF StormState
  <2> HIDE DEF c
  <2>5. Aligned(c, n)
    BY <2>1, <2>3, <2>4 DEF Aligned, Waiting, Fits
  <2> QED BY <1>3, <2>5 DEF a
<1> QED BY <1>1, <1>2, <1>3

(* replace_migration_peers *)
LEMMA RestagedAligned ==
  ASSUME NEW n \in Node, NEW s \in StormState, NEW keys, Aligned(s, n),
         ~(Joining(n) /\ ~s.received)
  PROVE  Aligned(Restaged(s, n, keys), n)
<1> DEFINE row(q) == [status |-> IF q = n THEN "Controlled"
                                 ELSE IF q \in DOMAIN s.conn THEN "Active" ELSE "Inactive",
                      addr |-> TRUE, discovery |-> FALSE]
           movers == [q \in keys |-> row(q)]
           c == Restaged(s, n, keys)
<1>1. c = [s EXCEPT !.movers = movers]
  BY DEF Restaged
<1>2. \A q \in keys \ {n} : row(q).status = "Active" <=> q \in DOMAIN s.conn
  OBVIOUS
<1> HIDE DEF row
<1>3. DOMAIN movers = keys /\ \A q \in keys : movers[q] = row(q)
  OBVIOUS
<1> HIDE DEF movers
<1>4. c.peers = s.peers /\ c.movers = movers /\ c.conn = s.conn /\ c.received = s.received
  BY <1>1 DEF StormState
<1> HIDE DEF c
<1>5. Fits(c.movers, c.conn, n)
  BY <1>2, <1>3, <1>4 DEF Fits
<1>6. Aligned(c, n)
  BY <1>4, <1>5 DEF Aligned, Waiting
<1> QED BY <1>6 DEF c

(* replace_discovered_peers: a node that knows its peers loses no          *)
(* connection of theirs, and one that does not has staged nobody.          *)
LEMMA DiscoveredAligned ==
  ASSUME target \in Targets, NEW n \in Node, NEW p \in Node, NEW s \in StormState,
         Informed(s, n), Aligned(s, n), p \in DOMAIN s.peers, s.peers[p].discovery,
         NEW keys, keys = Mesh \/ (~Founding /\ keys = Old), {n, p} \subseteq keys,
         NEW c, c = Discovered(s, p, keys)
  PROVE  Aligned(c, n)
<1> DEFINE conn == Restrict(s.conn, DOMAIN s.conn \cap keys)
           row(q) == IF q \in DOMAIN s.peers
                     THEN [s.peers[q] EXCEPT !.addr = TRUE]
                     ELSE [status |-> "Inactive", addr |-> TRUE, discovery |-> FALSE]
           fresh(q) == IF q \in DOMAIN conn THEN [row(q) EXCEPT !.status = "Active"] ELSE row(q)
           peers == [q \in keys |-> fresh(q)]
<1>1. c = [s EXCEPT !.conn = conn, !.received = TRUE, !.peers = peers]
  BY DEF Discovered
<1>2. Founding \/ n \notin Old
  BY DEF Informed
<1>3. keys = Mesh
  BY <1>2
<1>4. s.peers \in [DOMAIN s.peers -> Row] /\ DOMAIN s.conn \subseteq Node
  BY StateAre
<1>5. DOMAIN conn = DOMAIN s.conn \cap keys
  BY DEF Restrict
<1>6. \A q \in keys \ {n} : fresh(q).status = "Active" <=> q \in DOMAIN conn
  <2> TAKE q \in keys \ {n}
  <2>1. row(q).status = "Active" => q \in DOMAIN s.conn
    <3>1. CASE q \in DOMAIN s.peers
      <4>1. s.peers[q] \in Row
        BY <1>4, <3>1
      <4>2. row(q).status = s.peers[q].status
        BY <3>1, <4>1 DEF Row
      <4> QED BY <3>1, <4>2 DEF Aligned, Fits
    <3>2. CASE q \notin DOMAIN s.peers
      BY <3>2
    <3> QED BY <3>1, <3>2
  <2>2. row(q) = [status |-> row(q).status, addr |-> row(q).addr, discovery |-> row(q).discovery]
    <3>1. CASE q \in DOMAIN s.peers
      <4>1. s.peers[q] \in Row
        BY <1>4, <3>1
      <4> QED BY <3>1, <4>1 DEF Row
    <3>2. CASE q \notin DOMAIN s.peers
      BY <3>2
    <3> QED BY <3>1, <3>2
  <2> HIDE DEF row
  <2>3. [row(q) EXCEPT !.status = "Active"].status = "Active"
    BY <2>2
  <2> HIDE DEF conn
  <2> QED BY <1>5, <2>1, <2>3
<1> HIDE DEF fresh
<1>7. DOMAIN peers = keys /\ \A q \in keys : peers[q] = fresh(q)
  OBVIOUS
<1>8. DOMAIN s.movers = {} \/ DOMAIN s.conn \subseteq keys
  <2>1. CASE Joining(n)
    BY <1>3, <2>1 DEF Aligned, Waiting, Informed, Given
  <2>2. CASE ~Joining(n)
    <3>1. Founding
      BY <1>2, <2>2 DEF Joining, Old
    <3> QED BY <1>3, <1>4, <3>1 DEF Mesh
  <2> QED BY <2>1, <2>2
<1> HIDE DEF peers, conn
<1>9. c.peers = peers /\ c.movers = s.movers /\ c.conn = conn /\ c.received
  BY <1>1 DEF StormState
<1>10. Fits(c.peers, c.conn, n)
  BY <1>6, <1>7, <1>9 DEF Fits
<1>11. Fits(c.movers, c.conn, n)
  BY <1>5, <1>8, <1>9 DEF Aligned, Fits
<1> QED BY <1>9, <1>10, <1>11 DEF Aligned, Waiting

(* activate_member_migration *)
LEMMA ActivatedAligned ==
  ASSUME target \in Targets, NEW n \in Node, NEW s \in StormState,
         Informed(s, n), Aligned(s, n), MayActivate(s, n)
  PROVE  Aligned(Activated(s), n)
<1> DEFINE conn == Restrict(s.conn, DOMAIN s.conn \cap DOMAIN s.movers)
           none == <<>>
           c == Activated(s)
<1>1. ~Joining(n)
  <2>1. s.staged # None
    BY DEF MayActivate
  <2> QED BY <2>1, Members DEF Informed
<1>2. DOMAIN none = {} /\ DOMAIN conn = DOMAIN s.conn \cap DOMAIN s.movers
  BY DEF Restrict
<1>3. c = [s EXCEPT !.peers = s.movers, !.movers = none, !.staged = None, !.conn = conn]
  BY DEF Activated
<1> HIDE DEF conn, none
<1>4. c.peers = s.movers /\ c.movers = none /\ c.conn = conn
  BY <1>3 DEF StormState
<1> HIDE DEF c
<1>5. Fits(c.peers, c.conn, n) /\ Fits(c.movers, c.conn, n)
  BY <1>2, <1>4 DEF Aligned, Fits
<1>6. Aligned(c, n)
  BY <1>1, <1>5 DEF Aligned, Waiting
<1> QED BY <1>6 DEF c

(* ensure_member_migration *)
LEMMA StagedAligned ==
  ASSUME target \in Targets, NEW n \in Node, NEW s \in StormState, Aligned(s, n),
         ~Founding, n \in Old
  PROVE  Aligned(Staged(s), n)
<1> DEFINE keys == (DOMAIN s.peers \cup DOMAIN s.movers) \cap target
           row(q) == IF Known(s, q) THEN s.peers[q] ELSE s.movers[q]
           movers == [q \in keys |-> row(q)]
           c == Staged(s)
<1>1. c = [s EXCEPT !.staged = target, !.movers = movers]
  BY DEF Staged, Candidates
<1>2. \A q \in keys \ {n} : row(q).status = "Active" <=> q \in DOMAIN s.conn
  BY DEF Aligned, Fits, Known
<1> HIDE DEF row, keys
<1>3. DOMAIN movers = keys /\ \A q \in keys : movers[q] = row(q)
  OBVIOUS
<1> HIDE DEF movers
<1>4. c.peers = s.peers /\ c.movers = movers /\ c.conn = s.conn
  BY <1>1 DEF StormState
<1> HIDE DEF c
<1>5. Fits(c.movers, c.conn, n)
  BY <1>2, <1>3, <1>4 DEF Fits
<1>6. ~Joining(n)
  BY Members
<1>7. Aligned(c, n)
  BY <1>4, <1>5, <1>6 DEF Aligned, Waiting
<1> QED BY <1>7 DEF c

AllAligned == \A n \in Node : Aligned(local[n], n)

LEMMA AlignedStep ==
  ASSUME Inv, AllAligned, target' = target, NEW n \in Node, NEW c, Aligned(c, n),
         local' = [local EXCEPT ![n] = c]
  PROVE  AllAligned'
<1>1. local \in [Node -> StormState]
  BY DEF Inv, Types
<1>2. \A m \in Node : Aligned(local'[m], m)
  BY <1>1 DEF AllAligned
<1>3. \A m \in Node : Aligned(local[m], m)'
  BY <1>2 DEF Aligned, Fits, Waiting, Joining, Founding
<1> QED BY <1>3 DEF AllAligned

LEMMA AlignedInit == Init => AllAligned
<1> SUFFICES ASSUME Init, NEW n \in Node PROVE Aligned(local[n], n)
  BY DEF AllAligned
<1> DEFINE rows == InitialPeers(n)
           conn == InitialConn(n)
           row(p) == [rows[p] EXCEPT !.status = IF p \in DOMAIN conn THEN "Active" ELSE @]
           peers == [p \in DOMAIN rows |-> row(p)]
           none == <<>>
<1>0. target \in Targets
  BY DEF Init
<1>1. /\ local[n].peers = peers /\ local[n].movers = none /\ local[n].conn = conn
      /\ DOMAIN none = {}
  BY DEF Init
<1>2. \A p \in DOMAIN rows :
        /\ rows[p] \in Row /\ (p # n => rows[p].status = "Inactive")
        /\ Joining(n) => Host \in DOMAIN rows /\ Host # n /\ rows[Host].discovery
  <2>0. /\ \A f \in BOOLEAN : Self(f) \in Row
        /\ \A f, g \in BOOLEAN : Remote(f, g) \in Row /\ Remote(f, g).status = "Inactive"
        /\ Remote(TRUE, TRUE).discovery
    BY DEF Self, Remote, Row
  <2>1. CASE Joining(n)
    <3>1. rows = [p \in {n, Host} |-> IF p = n THEN Self(FALSE) ELSE Remote(TRUE, TRUE)]
      BY <2>1 DEF InitialPeers
    <3>2. n # Host
      BY <1>0, <2>1, Members DEF Joining
    <3> HIDE DEF rows
    <3> QED BY <2>0, <3>1, <3>2
  <2>2. CASE ~Joining(n) /\ Founding
    <3>1. rows = [p \in Node |-> IF p = n THEN Self(TRUE) ELSE Remote(FALSE, FALSE)]
      BY <2>2 DEF InitialPeers
    <3> HIDE DEF rows
    <3> QED BY <2>0, <2>2, <3>1
  <2>3. CASE ~Joining(n) /\ ~Founding
    <3>1. rows = [p \in Old |-> IF p = n THEN Self(FALSE) ELSE Remote(TRUE, FALSE)]
      BY <2>3 DEF InitialPeers
    <3> HIDE DEF rows
    <3> QED BY <2>0, <2>3, <3>1
  <2> QED BY <2>1, <2>2, <2>3
<1>3. Joining(n) => Host \in DOMAIN rows
  BY DEF InitialPeers
<1> HIDE DEF rows, conn, none
<1>4. \A p \in DOMAIN rows :
        /\ row(p).status = IF p \in DOMAIN conn THEN "Active" ELSE rows[p].status
        /\ row(p).discovery = rows[p].discovery
  <2> TAKE p \in DOMAIN rows
  <2>1. rows[p] \in Row
    BY <1>2
  <2> QED BY <2>1 DEF Row
<1> HIDE DEF row
<1>5. DOMAIN peers = DOMAIN rows /\ \A p \in DOMAIN rows : peers[p] = row(p)
  OBVIOUS
<1> HIDE DEF peers
<1>6. Fits(local[n].peers, local[n].conn, n)
  BY <1>1, <1>2, <1>4, <1>5 DEF Fits
<1>7. Fits(local[n].movers, local[n].conn, n)
  BY <1>1 DEF Fits
<1>8. Waiting(local[n], n)
  BY <1>1, <1>2, <1>3, <1>4, <1>5 DEF Waiting
<1> QED BY <1>6, <1>7, <1>8 DEF Aligned

LEMMA AlignedNext == Inv /\ AllAligned /\ [Next]_vars => AllAligned'
<1> SUFFICES ASSUME Inv, AllAligned, [Next]_vars PROVE AllAligned'
  OBVIOUS
<1>0. ASSUME NEW n \in Node
      PROVE  /\ target \in Targets /\ local[n] \in StormState
             /\ Informed(local[n], n) /\ Aligned(local[n], n)
  BY InvFacts DEF AllAligned
<1>1. CASE target' = target /\ local' = local
  BY <1>1 DEF AllAligned, Aligned, Fits, Waiting, Joining, Founding
<1>2. ASSUME NEW n \in Node, NEW p \in Node, Dial(n, p) PROVE AllAligned'
  <2> DEFINE s == local[n]
             b == Claimed(s, p, "out")
             c == Finished(b, n)
  <2>1. CASE Claimable(s, n, p)
    <3>1. target' = target /\ local' = [local EXCEPT ![n] = c]
      BY <1>2, <2>1 DEF Dial
    <3>2. "out" \in Dir
      BY DEF Dir
    <3>3. b \in StormState
      BY <1>0, <3>2, ClaimedIs DEF Tuned
    <3>4. Aligned(b, n)
      BY <1>0, <2>1, <3>2, ClaimedAligned
    <3> HIDE DEF b
    <3>5. Aligned(c, n)
      BY <3>3, <3>4, FinishedAligned
    <3> HIDE DEF c
    <3> QED BY <3>1, <3>5, AlignedStep
  <2>2. CASE ~Claimable(s, n, p)
    BY <1>1, <1>2, <2>2 DEF Dial
  <2> QED BY <2>1, <2>2
<1>3. ASSUME NEW n \in Node, NEW p \in Node, Accept(n, p) PROVE AllAligned'
  <2> DEFINE s == local[n]
             c == Claimed(s, p, "in")
  <2>1. CASE Claimable(s, n, p)
    <3>1. target' = target /\ local' = [local EXCEPT ![n] = c]
      BY <1>3, <2>1 DEF Accept
    <3>2. "in" \in Dir
      BY DEF Dir
    <3>3. Aligned(c, n)
      BY <1>0, <2>1, <3>2, ClaimedAligned
    <3> HIDE DEF c
    <3> QED BY <3>1, <3>3, AlignedStep
  <2>2. CASE ~Claimable(s, n, p)
    BY <1>1, <1>3, <2>2 DEF Accept
  <2> QED BY <2>1, <2>2
<1>12. ASSUME NEW n \in Node, NEW p \in Node, Greet(n, p) PROVE AllAligned'
  <2> DEFINE a == Announce(ends[n], local[n], n)
             c == IF a.ok THEN Finished(a.state, n) ELSE a.state
  <2>1. target' = target /\ local' = [local EXCEPT ![n] = c]
    BY <1>12 DEF Greet
  <2>2. Aligned(a.state, n)
    BY <1>0, AnnouncedAligned
  <2>3. a.state \in StormState
    BY <1>0, AnnouncedIs DEF Tuned
  <2>4. c = a.state \/ c = Finished(a.state, n)
    OBVIOUS
  <2> HIDE DEF a, c
  <2>5. Aligned(c, n)
    BY <2>2, <2>3, <2>4, FinishedAligned
  <2> QED BY <2>1, <2>5, AlignedStep
<1>4. ASSUME NEW n \in Node, NEW p \in Node, NEW d \in Dir, Release(n, p, d) PROVE AllAligned'
  <2>1. target' = target /\ local' = [local EXCEPT ![n] = Released(local[n], p)]
    BY <1>4 DEF Release, Rest
  <2>2. Aligned(Released(local[n], p), n)
    BY <1>0, ReleasedAligned
  <2> QED BY <2>1, <2>2, AlignedStep
<1>5. ASSUME NEW n \in Node, NEW p \in Node, NEW d \in Dir, HandleTable(n, p, d)
      PROVE  AllAligned'
  <2> DEFINE s == local[n]
             keys == Head(inbox[n][p][d]).keys
             outcome == TableOutcome(s, n, p, keys)
             found == Discovered(s, p, keys)
             c == CASE outcome = "restage" -> Restaged(s, n, keys)
                    [] outcome = "discover" -> Finished(found, n)
                    [] OTHER -> s
  <2>1. target' = target /\ local' = [local EXCEPT ![n] = c] /\ ends[n][p][d] = "busy"
    BY <1>5 DEF HandleTable
  <2>2. keys \in SUBSET Node /\ (keys = Mesh \/ (~Founding /\ keys = Old))
    BY <2>1, TableRead
  <2>3. \/ c = Restaged(s, n, keys) /\ outcome = "restage"
        \/ c = Finished(found, n) /\ outcome = "discover"
        \/ c = s
    OBVIOUS
  <2>4. target \in Targets /\ s \in StormState /\ Informed(s, n) /\ Aligned(s, n)
    BY <1>0
  <2> HIDE DEF s, keys, c, found
  <2>5. CASE c = Restaged(s, n, keys) /\ outcome = "restage"
    <3>1. \/ s.staged = keys
          \/ p = Host /\ Known(s, p) /\ ~s.peers[p].discovery
      BY <2>5 DEF TableOutcome
    <3>2. ~(Joining(n) /\ ~s.received)
      <4>1. CASE s.staged = keys
        <5>1. s.staged # None
          BY <2>2, <4>1, NoneAssumption
        <5> QED BY <2>4, <5>1, Members DEF Informed
      <4>2. CASE p = Host /\ Known(s, p) /\ ~s.peers[p].discovery
        BY <2>4, <4>2 DEF Aligned, Waiting
      <4> QED BY <3>1, <4>1, <4>2
    <3>3. Aligned(c, n)
      BY <2>4, <2>5, <3>2, RestagedAligned
    <3> QED BY <2>1, <3>3, AlignedStep
  <2>6. CASE c = Finished(found, n) /\ outcome = "discover"
    <3>1. p \in DOMAIN s.peers /\ s.peers[p].discovery /\ {n, p} \subseteq keys
      BY <2>6 DEF TableOutcome, Known
    <3>2. found = Discovered(s, p, keys)
      BY DEF found
    <3>3. found \in StormState
      BY <2>2, <2>4, <3>1, <3>2, DiscoveredIs
    <3>4. Aligned(found, n)
      BY <2>2, <2>4, <3>1, <3>2, DiscoveredAligned
    <3>5. Aligned(c, n)
      BY <2>6, <3>3, <3>4, FinishedAligned
    <3> QED BY <2>1, <3>5, AlignedStep
  <2>7. CASE c = s
    BY <2>1, <2>4, <2>7, AlignedStep
  <2> QED BY <2>3, <2>5, <2>6, <2>7
<1>6. ASSUME NEW n \in Node, Start(n) PROVE AllAligned'
  <2> DEFINE a == Announce(ends[n], local[n], n)
             c == Finished(a.state, n)
  <2>1. target' = target /\ local' = [local EXCEPT ![n] = c]
    BY <1>6 DEF Start
  <2>2. Aligned(a.state, n)
    BY <1>0, AnnouncedAligned
  <2>3. a.state \in StormState
    BY <1>0, AnnouncedIs DEF Tuned
  <2> HIDE DEF a
  <2>4. Aligned(c, n)
    BY <2>2, <2>3, FinishedAligned
  <2> HIDE DEF c
  <2> QED BY <2>1, <2>4, AlignedStep
<1>7. ASSUME NEW n \in Node, Begin(n) PROVE AllAligned'
  <2> DEFINE s == local[n]
             b == Staged(s)
             a == Announce(ends[n], b, n)
             ok == \A p \in Asked(b, n) : Reachable(ends[n], b, n, p)
             c == IF ok THEN a.state ELSE b
  <2>1. /\ target' = target /\ local' = [local EXCEPT ![n] = c]
        /\ ~Founding /\ n \in Old /\ DOMAIN s.peers = Old
    BY <1>7 DEF Begin, Staged
  <2>2. b \in StormState /\ Informed(b, n)
    BY <1>0, <2>1, StagedIs
  <2>3. Aligned(b, n)
    BY <1>0, <2>1, StagedAligned
  <2> HIDE DEF b
  <2>4. Aligned(a.state, n)
    BY <2>2, <2>3, AnnouncedAligned
  <2>5. c = a.state \/ c = b
    OBVIOUS
  <2> HIDE DEF a, c
  <2>6. Aligned(c, n)
    BY <2>3, <2>4, <2>5
  <2> QED BY <2>1, <2>6, AlignedStep
<1>8. ASSUME NEW n \in Node, Activate(n) PROVE AllAligned'
  <2>1. /\ target' = target /\ MayActivate(local[n], n)
        /\ local' = [local EXCEPT ![n] = Activated(local[n])]
    BY <1>8 DEF Activate
  <2>2. Aligned(Activated(local[n]), n)
    BY <1>0, <2>1, ActivatedAligned
  <2> QED BY <2>1, <2>2, AlignedStep
<1>9. ASSUME NEW n \in Node, NEW p \in Node, NEW d \in Dir,
             Close(n, p, d) \/ Fault(n, p, d) \/ Receive(n, p, d) \/ HandleAsk(n, p, d)
      PROVE  AllAligned'
  <2>1. target' = target /\ local' = local
    BY <1>9 DEF Close, Fault, Receive, HandleAsk
  <2> QED BY <1>1, <2>1
<1>10. ASSUME NEW n \in Node, Leave(n) \/ Reconnect(n) PROVE AllAligned'
  <2>1. target' = target /\ local' = local
    BY <1>10 DEF Leave, Reconnect, Rest
  <2> QED BY <1>1, <2>1
<1>11. CASE UNCHANGED vars
  BY <1>1, <1>11 DEF vars
<1> QED BY <1>2, <1>3, <1>4, <1>5, <1>6, <1>7, <1>8, <1>9, <1>10, <1>11, <1>12 DEF Next, Run

(***************************************************************************)
(* In both tables of a node a peer is active exactly while the node has a  *)
(* connection of it: whichever of claims, releases, tables, discoveries    *)
(* and migrations have changed or replaced the tables, the readiness of a  *)
(* migration counts connections that are there.                            *)
(***************************************************************************)
THEOREM StatusSafety == Spec => []StatusIsConnection
<1>1. Init => Inv /\ AllAligned
  BY InitInv, AlignedInit
<1>2. Inv /\ AllAligned /\ [Next]_vars => Inv' /\ AllAligned'
  BY InvNext, AlignedNext
<1>3. AllAligned => StatusIsConnection
  BY DEF AllAligned, Aligned, Fits, StatusIsConnection
<1> QED BY <1>1, <1>2, <1>3, PTL DEF Spec
====
