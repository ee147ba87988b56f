------------------------------ MODULE Burning ------------------------------
(***************************************************************************)
(* The burning of expired vouchers (high_storm/burning.rs,                 *)
(* db/monitored_utxo.rs, high_storm/leader.rs and the burning parts of     *)
(* mod.rs, handler.rs and main.rs).                                        *)
(*                                                                         *)
(* Every node monitors the issued outputs, the items, in its index.  An    *)
(* item that nobody used in its lifetime expires.  After each block the    *)
(* main loop of a node has a number of burning rounds.  In a round it      *)
(* returns items to the queue whose burn vanished, finds burns that it was *)
(* not told of in the mempool, and, when it is the leader of the height,   *)
(* builds a burn of expired items, each paid for by its burn reserve, has  *)
(* it signed, sends it, marks the items and tells the other nodes.         *)
(*                                                                         *)
(* The items are in the chain from the beginning.  Time is not bounded: of *)
(* the height only the leader's turn is kept, of an age the blocks that    *)
(* matter.  Only the last block is ever replaced.                          *)
(***************************************************************************)
EXTENDS Naturals, FiniteSets, FiniteSetsExt, SequencesExt

CONSTANTS
  N,              \* the members, sorted by their key, are 0 .. N - 1
  Quorum,         \* signers of a branch of the Storm Tree
  Item,           \* the issued outputs
  Reserve,        \* Reserve[i]: the burn reserve of item i
  Lifetime,       \* active_blocks
  BurningBlocks,  \* BURNING_BLOCKS
  Rounds,         \* leader_rounds of a block
  MaxGroups,      \* groups of items that fit in a burn
  MaxEvents,      \* bound: items used, reserves spent by an issuance, blocks
                  \* that a message makes a node index, transactions that leave
                  \* the mempool, replaced blocks, interrupted rounds, and
                  \* blocks that come before the rounds of the last are over
  None

Node == 0 .. N - 1

ASSUME NodeAssumption == N \in Nat \ {0} /\ Quorum \in 1 .. N
ASSUME BlocksAssumption == {Lifetime, BurningBlocks, Rounds, MaxGroups} \subseteq Nat \ {0}

Coin == {Reserve[i] : i \in Item}

(* A transaction by what it spends: a burn of items with their reserves, a *)
(* use of an item by its user, an issuance that spends a reserve.          *)
Tx == [items : SUBSET Item, reserves : SUBSET Coin]

ASSUME NoneAssumption == None \notin Tx

VARIABLES
  age,       \* age[i]: blocks on top of the one that issued i, up to Lifetime
  turn,      \* the height, modulo N
  deep,      \* the transactions in the chain below the last block
  last,      \* those in the last block
  pool,      \* those in the mempool
  behind,    \* behind[n]: n has not indexed the last block
  reorged,   \* reorged[n]: n has indexed a block that was replaced
  row,       \* row[n][i] in monitored_utxos: status, status_block_height as
             \* the blocks since then, and burn_txid
  due,       \* due[n]: rounds that n has scheduled
  job,       \* job[n]: the round of n's main loop
  notices,   \* ExpiredUtxosBurned that name the last block
  lost,      \* history: reserves that a block spent, or whose spender left the
             \* mempool between the two looks of a round at it
  events     \* the events of MaxEvents so far

chainVars == <<age, turn, deep, last, lost>>
vars == <<chainVars, pool, behind, reorged, row, due, job, notices, events>>

Idle == [pc |-> "idle"]

Event == events < MaxEvents /\ events' = events + 1

-----------------------------------------------------------------------------
(* The Elements nodes. *)

Mined == deep \cup last
ItemsOf(txs) == UNION {t.items : t \in txs}
ReservesOf(txs) == UNION {t.reserves : t \in txs}

Conflict(t, u) == t.items \cap u.items # {} \/ t.reserves \cap u.reserves # {}
Accepts(t) == t \in pool \/ \A u \in pool \cup Mined : ~Conflict(t, u)

(* gettxout with the mempool. *)
LiveItem(i) == i \notin ItemsOf(pool \cup Mined)
LiveReserve(c) == c \notin ReservesOf(pool \cup Mined)

Spends(t, i) == i \in t.items

-----------------------------------------------------------------------------
(* The index of a node. *)

(* Variant for sensitivity checking: one block too early. *)
LapsedEarly(i, blocks) == blocks + 1 >= Lifetime

(* block_height + active_blocks <= height. *)
Lapsed(i, blocks) == blocks >= Lifetime

Fresh(i, blocks) == [st |-> IF Lapsed(i, blocks) THEN "expired" ELSE "active",
                     since |-> 0, by |-> None]
Gone == [st |-> "gone", since |-> 0, by |-> None]

(* apply_block_in for the block with the given transactions, at which item *)
(* i has this age. *)
Applied(r, i, txs) ==
  IF r.st = "gone" \/ i \in ItemsOf(txs) THEN Gone
  ELSE CASE r.st = "active"  -> Fresh(i, age[i])
         [] r.st = "burning" -> IF r.since + 1 >= BurningBlocks
                                THEN [st |-> "expired", since |-> 0, by |-> None]
                                ELSE [r EXCEPT !.since = @ + 1]
         [] OTHER            -> r

(* After a reorganisation the chain is indexed anew. *)
Reindexed(i) == IF i \in ItemsOf(Mined) THEN Gone ELSE Fresh(i, age[i])

CatchUp(n) ==
  /\ behind[n] \/ reorged[n]
  /\ row' = [row EXCEPT ![n] =
              [i \in Item |-> IF reorged[n] THEN Reindexed(i) ELSE Applied(row[n][i], i, last)]]
  /\ behind' = [behind EXCEPT ![n] = FALSE]
  /\ reorged' = [reorged EXCEPT ![n] = FALSE]
  /\ job' = [job EXCEPT ![n] = IF job[n].pc = "idle" THEN job[n]
                              ELSE [job[n] EXCEPT !.late = behind[n] \/ job[n].late]]

(* The main loop indexes, and schedules the rounds of the block. *)
IndexTick(n) ==
  /\ job[n] = Idle
  /\ CatchUp(n)
  /\ due' = [due EXCEPT ![n] = Rounds]
  /\ UNCHANGED <<chainVars, pool, notices, events>>

(* require_chain_tip makes the index follow a message; no round is         *)
(* scheduled then, and the tick of the main loop has no new block later.   *)
Sync(n) ==
  /\ Event
  /\ CatchUp(n)
  /\ UNCHANGED <<chainVars, pool, due, notices>>

-----------------------------------------------------------------------------
(* The statements on monitored_utxos. *)

(* mark_burning: all of the items or none. *)
Markable(n, t, items) ==
  \A i \in items : \/ row[n][i].st = "expired"
                   \/ row[n][i].st = "burning" /\ row[n][i].by = t

Burn(n, items, t, since) ==
  row' = [row EXCEPT ![n] = [i \in Item |->
            IF i \in items THEN [st |-> "burning", since |-> since, by |-> t] ELSE row[n][i]]]

Expired(n) == {i \in Item : row[n][i].st = "expired"}

-----------------------------------------------------------------------------
(* A burning round of n, burn_expired_utxos. *)

Goto(n, j) == job' = [job EXCEPT ![n] = j]
world == <<chainVars, behind, reorged, notices, events>>

Start(n) ==
  /\ job[n] = Idle /\ due[n] > 0
  /\ due' = [due EXCEPT ![n] = @ - 1]
  /\ Goto(n, [pc |-> "release", late |-> FALSE,
              own |-> IF behind[n] THEN (turn + N - 1) % N ELSE turn])
  /\ UNCHANGED <<world, pool, row>>

(* Neither in the mempool nor in the chain. *)
Vanished(t) == t \notin pool \cup Mined

(* release_vanished_burns. *)
Release(n) ==
  /\ job[n].pc = "release"
  /\ row' = [row EXCEPT ![n] = [i \in Item |->
               IF row[n][i].st = "burning" /\ Vanished(row[n][i].by)
               THEN [st |-> "expired", since |-> 0, by |-> None] ELSE row[n][i]]]
  /\ Goto(n, [job[n] EXCEPT !.pc = "reconcile"])
  /\ UNCHANGED <<world, pool, due>>

(* reconcile_mempool; then only the leader of the height goes on.          *)
ReconcileMempool(n) ==
  /\ job[n].pc = "reconcile"
  /\ row' = [row EXCEPT ![n] = [i \in Item |->
               IF i \in Expired(n) \cap ItemsOf(pool)
               THEN [st |-> "burning", since |-> 0,
                     by |-> CHOOSE t \in pool : Spends(t, i)]
               ELSE row[n][i]]]
  /\ Goto(n, IF job[n].own = n
             THEN [pc |-> "look", late |-> job[n].late] ELSE Idle)
  /\ UNCHANGED <<world, pool, due>>

(* Variant for sensitivity checking: only groups of which every item is    *)
(* there to be burned.                                                     *)
GroupsWhole(n) == {c \in Coin : \A i \in Item : Reserve[i] = c => i \in Expired(n)}

(* The candidates of a burn, as many groups as fit. *)
Groups(n) == {Reserve[i] : i \in Expired(n)}

(* prepare_round_candidate reads which reserves are missing.  Any groups   *)
(* may be taken; the code takes the oldest ones, as Rounds has it.         *)
Look(n, groups) ==
  /\ job[n].pc = "look"
  /\ groups # {}
  /\ Goto(n, [pc |-> "prepare", late |-> job[n].late, groups |-> groups,
              missing |-> {c \in groups : ~LiveReserve(c)}])
  /\ UNCHANGED <<world, pool, row, due>>

NothingExpired(n) ==
  /\ job[n].pc = "look" /\ Groups(n) = {}
  /\ Goto(n, Idle)
  /\ UNCHANGED <<world, pool, row, due>>

(* Variant for sensitivity checking: no look at the mempool. *)
HopelessAtOnce(missing) == missing

(* Then it asks whether the mempool spends them.                           *)
Hopeless(missing) == missing \ ReservesOf(pool)

(* Groups without a reserve are quarantined, those whose reserve is being  *)
(* spent are skipped, and items that are spent are left out and marked.    *)
(* Rows that no valid index has are left out: a reserve with two owners or *)
(* of another Account, and items that do not match their group, which the  *)
(* code quarantines as well.                                               *)
Prepare(n) ==
  LET j == job[n]
      quarantined == {i \in Expired(n) : Reserve[i] \in Hopeless(j.missing)}
      candidates  == {i \in Expired(n) : Reserve[i] \in j.groups \ j.missing}
      taken       == {i \in candidates : i \in ItemsOf(pool)}
      items       == {i \in candidates : LiveItem(i)} IN
  /\ j.pc = "prepare"
  /\ row' = [row EXCEPT ![n] = [i \in Item |->
               CASE i \in quarantined -> [st |-> "unburnable", since |-> 0, by |-> None]
                 [] i \in taken -> [st |-> "burning", since |-> 0,
                                    by |-> CHOOSE t \in pool : Spends(t, i)]
                 [] OTHER -> row[n][i]]]
  /\ Goto(n, IF items = {} THEN Idle
             ELSE [pc |-> "anchor", late |-> j.late,
                   tx |-> [items |-> items, reserves |-> {Reserve[i] : i \in items}]])
  /\ UNCHANGED <<world, pool, due>>

(* validate_request at n: expired items, live inputs. *)
Valid(n, t) == /\ t.items \subseteq Expired(n)
               /\ \A i \in t.items : LiveItem(i)
               /\ \A c \in t.reserves : LiveReserve(c)

(* lead_burn_round: the height has not moved since the round began. *)
Anchor(n) ==
  /\ job[n].pc = "anchor"
  /\ Goto(n, IF ~job[n].late /\ Valid(n, job[n].tx)
             THEN [pc |-> "sign", late |-> FALSE, tx |-> job[n].tx,
                   tip |-> ~behind[n] /\ ~reorged[n]]
             ELSE Idle)
  /\ UNCHANGED <<world, pool, row, due>>

(* Members whose chain and index are at the anchor check the leader and    *)
(* the request against their own rows.                                     *)
Signers(n) == {m \in Node : /\ ~behind[m] /\ ~reorged[m]
                            /\ Valid(m, job[n].tx)}

Sign(n) ==
  /\ job[n].pc = "sign" /\ job[n].tip
  /\ Cardinality(Signers(n) \cup {n}) >= Quorum
  /\ Goto(n, [job[n] EXCEPT !.pc = "send"])
  /\ UNCHANGED <<world, pool, row, due>>

(* The session ends without a signature: there is a new block, or too few  *)
(* members sign although all of them have followed the chain in its time.  *)
Unsigned(n) ==
  /\ job[n].pc = "sign"
  /\ \/ ~job[n].tip
     \/ /\ Cardinality(Signers(n) \cup {n}) < Quorum
        /\ \A m \in Node : ~behind[m] /\ ~reorged[m]
  /\ Goto(n, Idle)
  /\ UNCHANGED <<world, pool, row, due>>

Send(n) ==
  LET t == job[n].tx IN
  /\ job[n].pc = "send"
  /\ IF Accepts(t) THEN /\ pool' = pool \cup {t}
                        /\ Goto(n, [job[n] EXCEPT !.pc = "mark"])
                   ELSE /\ Goto(n, Idle)
                        /\ UNCHANGED pool
  /\ UNCHANGED <<world, row, due>>

(* The items are marked, or the round fails; then the burn is announced,   *)
(* with the anchor of the round.                                           *)
Mark(n) ==
  LET t == job[n].tx IN
  /\ job[n].pc = "mark"
  /\ IF Markable(n, t, t.items)
     THEN /\ Burn(n, t.items, t, IF job[n].late THEN 1 ELSE 0)
          /\ notices' = IF job[n].tip THEN notices \cup {t} ELSE notices
     ELSE UNCHANGED <<row, notices>>
  /\ Goto(n, Idle)
  /\ UNCHANGED <<chainVars, pool, behind, reorged, due, events>>

(* observe_broadcast, when the chain and the index of n are at the anchor. *)
Observe(n, t) ==
  /\ ~behind[n] /\ ~reorged[n]
  /\ t \in pool
  /\ Markable(n, t, t.items)
  /\ Burn(n, t.items, t, 0)
  /\ UNCHANGED <<world, pool, due, job>>

(* A round fails or the node restarts.  After a restart the first block    *)
(* that is indexed schedules rounds again.                                 *)
Interrupt(n) ==
  /\ job[n] # Idle
  /\ Event
  /\ Goto(n, Idle)
  /\ \/ UNCHANGED due
     \/ due' = [due EXCEPT ![n] = 0]
  /\ UNCHANGED <<chainVars, pool, behind, reorged, row, notices>>

Round(n) ==
  \/ Start(n) \/ Release(n) \/ ReconcileMempool(n)
  \/ \E groups \in kSubset(Min({MaxGroups, Cardinality(Groups(n))}), Groups(n)) : Look(n, groups)
  \/ NothingExpired(n) \/ Prepare(n) \/ Anchor(n) \/ Sign(n) \/ Unsigned(n)
  \/ Send(n) \/ Mark(n)

-----------------------------------------------------------------------------
(* The world outside. *)

inside == <<row, due>>

(* The anchors of the last block are no longer the tip. *)
NewTip ==
  /\ notices' = {}
  /\ job' = [n \in Node |-> IF job[n].pc \in {"sign", "send", "mark"}
                            THEN [job[n] EXCEPT !.tip = FALSE] ELSE job[n]]

(* Blocks come when every node has indexed the one before; they are a      *)
(* minute apart, so that its rounds are mostly over.                       *)
Mine(taken) ==
  /\ \A n \in Node : ~behind[n]
  /\ IF \A n \in Node : job[n] = Idle /\ due[n] = 0 THEN UNCHANGED events ELSE Event
  /\ age' = [i \in Item |-> Min({age[i] + 1, Lifetime})]
  /\ turn' = (turn + 1) % N
  /\ deep' = Mined
  /\ last' = taken
  /\ pool' = pool \ taken
  /\ lost' = lost \cup ReservesOf(taken)
  /\ behind' = [n \in Node |-> TRUE]
  /\ NewTip
  /\ UNCHANGED <<reorged, inside>>

(* The last block is replaced by an empty one. *)
Replace ==
  /\ last # {}
  /\ Event
  /\ pool' = pool \cup last
  /\ last' = {}
  /\ reorged' = [n \in Node |-> reorged[n] \/ ~behind[n]]
  /\ NewTip
  /\ UNCHANGED <<age, turn, deep, lost, behind, inside>>

(* A user spends an item, however old it is. *)
Use(i) ==
  LET t == [items |-> {i}, reserves |-> {}] IN
  /\ LiveItem(i)
  /\ Event
  /\ pool' = pool \cup {t}
  /\ UNCHANGED <<chainVars, behind, reorged, inside, job, notices>>

(* An issuance spends a reserve that was free before a block was replaced  *)
(* (module UserRequests).                                                  *)
Steal(c) ==
  LET t == [items |-> {}, reserves |-> {c}] IN
  /\ LiveReserve(c)
  /\ Event
  /\ pool' = pool \cup {t}
  /\ UNCHANGED <<chainVars, behind, reorged, inside, job, notices>>

Evict(t) ==
  /\ Event
  /\ pool' = pool \ {t}
  /\ lost' = lost \cup {c \in t.reserves : \E n \in Node : /\ job[n].pc = "prepare"
                                                        /\ c \in job[n].missing}
  /\ UNCHANGED <<age, turn, deep, last, behind, reorged, inside, job, notices>>

Environment ==
  \/ \E taken \in {{}, pool} : Mine(taken)
  \/ Replace
  \/ \E i \in Item : Use(i)
  \/ \E c \in Coin : Steal(c)
  \/ \E t \in pool : Evict(t)

Init ==
  /\ age = [i \in Item |-> 0]
  /\ turn = 0
  /\ deep = {} /\ last = {} /\ pool = {} /\ lost = {}
  /\ behind = [n \in Node |-> FALSE] /\ reorged = [n \in Node |-> FALSE]
  /\ row = [n \in Node |-> [i \in Item |-> Fresh(i, 0)]]
  /\ due = [n \in Node |-> 0]
  /\ job = [n \in Node |-> Idle]
  /\ notices = {}
  /\ events = 0

Next ==
  \/ \E n \in Node : \/ IndexTick(n) \/ Sync(n) \/ Round(n) \/ Interrupt(n)
                     \/ \E t \in notices : Observe(n, t)
  \/ Environment

Spec == Init /\ [][Next]_vars

(* Blocks are made, with what waits for them, and indexed; rounds go on.   *)
Fairness ==
  /\ SF_vars(Mine(pool))
  /\ \A n \in Node : WF_vars(IndexTick(n)) /\ WF_vars(Round(n))

FairSpec == Spec /\ Fairness

-----------------------------------------------------------------------------
RowType == [st : {"active", "expired", "burning", "unburnable", "gone"},
            since : 0 .. BurningBlocks, by : Tx \cup {None}]

TypeOK ==
  /\ age \in [Item -> 0 .. Lifetime] /\ turn \in Node
  /\ deep \cup last \cup pool \cup notices \subseteq Tx
  /\ behind \in [Node -> BOOLEAN] /\ reorged \in [Node -> BOOLEAN]
  /\ \A n \in Node, i \in Item : /\ row[n][i] \in RowType
                                 /\ row[n][i].st = "burning" <=> row[n][i].by # None
                                 /\ row[n][i].st = "burning" => Spends(row[n][i].by, i)
  /\ due \in [Node -> 0 .. Rounds]
  /\ lost \subseteq Coin

(* A burn is signed only for items whose users have had their lifetime to  *)
(* spend them, whatever the nodes' views of the chain (apply_block_in,     *)
(* validate_request, require_chain_tip).                                   *)
NoEarlyBurn ==
  \A t \in pool \cup Mined : t.reserves # {} =>
    \A i \in t.items : age[i] >= Lifetime

(* An item that a node has given up is one whose burn reserve a block did  *)
(* spend (quarantine_group: "Takes a group that can never be burned out of *)
(* the queue"), unless the spender left the mempool between the two looks  *)
(* of prepare_round_candidate at the reserve.                              *)
QuarantinedIsLost ==
  \A n \in Node, i \in Item : row[n][i].st = "unburnable" => Reserve[i] \in lost

(* Every item is used or burned in the end, unless its reserve is spent,   *)
(* although burns leave the mempool, rounds are interrupted, notices are   *)
(* lost and blocks are replaced.                                           *)
ItemsEnd == \A i \in Item : <>[](i \in ItemsOf(Mined) \/ Reserve[i] \in lost)
=============================================================================
