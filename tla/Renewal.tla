------------------------------ MODULE Renewal ------------------------------
(***************************************************************************)
(* The renewal of the Storm Eye's timelock (high_storm/renewal.rs,         *)
(* db/network_asset.rs) next to the member migration that moves the same   *)
(* outputs and to the rounds that spend them, and the Storm Eye every node *)
(* stores while it indexes the chain, rebuilds it after a reorganisation,  *)
(* confirms a renewal and finalises a migration.                           *)
(*                                                                         *)
(* All Storm Eye outputs move together, so that one output stands for them *)
(* and a transaction is the sequence of the kinds of the transactions that *)
(* have spent it, its own last: the outpoint is that sequence, and so is   *)
(* the history a signature commits to.  A block is the kind of the one     *)
(* transaction in it, if any, and its hash is the chain up to it.          *)
(* Signatures are those of a branch whose members have all validated the   *)
(* request; the Treasury always pays the fee.  The node takes seconds for  *)
(* a pass of its main loop and a block a minute, so that a pass sees one   *)
(* chain.                                                                  *)
(***************************************************************************)
EXTENDS Integers, FiniteSets, SequencesExt

CONSTANTS
  Node,
  Coordinator,    \* coordinator_public_key
  Branches,       \* the branches of the Storm Tree
  Rescue,         \* the rescue height of the issued Storm Eye
  Step,           \* RESCUE_BLOCKS
  Lead,           \* RENEWAL_LEAD_BLOCKS
  Finality,       \* finality_confirmations
  MaxHeight,      \* bound: height until which blocks are mined for nothing
  MaxLag,         \* bound: blocks that come before a node has made its pass
  MaxEvents,      \* bound: rounds, migrations, reorganisations and failed calls
  None

ASSUME HeightAssumption ==
  /\ Step \in Nat /\ Lead \in Nat /\ Rescue \in Nat /\ Step > Lead
  /\ Finality \in Nat \ {0}

VARIABLES
  chain,      \* the blocks of the best chain
  pool,       \* the transaction in the mempool, <<>> for none
  draft,      \* the renewal the coordinator has prepared and not recorded yet
  notices,    \* RenewStormUtxos messages with a final transaction
  node,       \* node[n]: what n stores
  overtaken,  \* history: n finalised a migration while a renewal was on its way
  events

vars == <<chain, pool, draft, notices, node, overtaken, events>>

Content == {"none", "round", "renew", "migrate"}
Eye == [rescue : Nat, moved : BOOLEAN]

Spends(blocks) == SelectSeq(blocks, LAMBDA b : b # "none")
Count(txs, kind) == Cardinality({i \in DOMAIN txs : txs[i] = kind})
EyeOf(txs) == [rescue |-> Rescue + Step * Count(txs, "renew"), moved |-> Count(txs, "migrate") > 0]
Renewed(eye) == [eye EXCEPT !.rescue = @ + Step]

OnChain(tx) == tx # <<>> /\ IsPrefix(tx, Spends(chain))
Before(h, blocks) == SubSeq(blocks, 1, h - 1)
HeightOf(tx) == CHOOSE h \in DOMAIN chain : chain[h] # "none" /\ Spends(SubSeq(chain, 1, h)) = tx
Final(h) == Len(chain) - h + 1 >= Finality

Accepts(tx) == OnChain(tx) \/ pool = tx \/ (pool = <<>> /\ Front(tx) = Spends(chain))
Pooled(tx) == IF Accepts(tx) /\ ~OnChain(tx) THEN tx ELSE pool

Happens == events < MaxEvents /\ events' = events + 1

NoDraft == [tx |-> <<>>, tip |-> <<>>]
NoRow == [tx |-> <<>>, next |-> None, tip |-> <<>>, included |-> FALSE]
Row(tx, eye, tip) == [tx |-> tx, next |-> Renewed(eye), tip |-> tip, included |-> FALSE]

(***************************************************************************)
(* The Storm Eye as the indexer keeps it.                                  *)
(***************************************************************************)
Transitions(s) == s.history \cup (IF s.migration = None THEN {} ELSE {s.migration})

ResetProjections(s) ==
  LET rows == Transitions(s)
      first == CHOOSE r \in rows : \A q \in rows : r.at <= q.at
  IN  [s EXCEPT !.eye = IF rows = {} THEN @ ELSE first.prev,
                !.history = {}, !.tip = <<>>, !.recovering = TRUE,
                !.pending.included = FALSE]

IndexedRenewal(eye, blocks, h) ==
  /\ blocks[h] # "none"
  /\ eye = EyeOf(Spends(Before(h, blocks)))
  /\ EyeOf(Spends(SubSeq(blocks, 1, h))) = Renewed(eye)

(* Variant for sensitivity checking: a renewal is not journaled. *)
IndexBlockSilently(s, blocks, h) ==
  LET renews == IndexedRenewal(s.eye, blocks, h)
      migrates == s.migration # None /\ s.migration.at = h
  IN  IF ~s.ok \/ (migrates /\ s.migration.prev # s.eye) THEN [s EXCEPT !.ok = FALSE]
      ELSE [s EXCEPT !.tip = SubSeq(blocks, 1, h),
                     !.eye = IF renews THEN Renewed(@)
                             ELSE IF migrates THEN s.migration.next ELSE @]

IndexBlock(s, blocks, h) ==
  LET renews == IndexedRenewal(s.eye, blocks, h)
      migrates == s.migration # None /\ s.migration.at = h
  IN  IF \/ ~s.ok
         \/ migrates /\ (renews \/ s.migration.prev # s.eye)
      THEN [s EXCEPT !.ok = FALSE]
      ELSE [s EXCEPT !.tip = SubSeq(blocks, 1, h),
                     !.eye = IF renews THEN Renewed(@)
                             ELSE IF migrates THEN s.migration.next ELSE @,
                     !.history = IF renews THEN @ \cup {[at |-> h, prev |-> s.eye]} ELSE @]

MustRebuild(s, blocks) ==
  \/ s.recovering
  \/ ~IsPrefix(s.tip, blocks)
  \/ s.migration # None /\ s.migration.next = s.eye /\ s.migration.at > Len(s.tip)

Started(s, blocks) ==
  [(IF MustRebuild(s, blocks) THEN ResetProjections(s) ELSE s) EXCEPT !.ok = TRUE]

(* What a sync may leave of s: block after block until one is refused.     *)
Synced(s, blocks) ==
  LET rest(t) == [i \in 1 .. Len(blocks) - Len(t.tip) |-> Len(t.tip) + i]
      indexed(t) == FoldLeft(LAMBDA done, h : {IndexBlock(d, blocks, h) : d \in done}, {t}, rest(t))
  IN  {[d EXCEPT !.recovering = @ /\ ~d.ok] : d \in UNION {indexed(t) : t \in {Started(s, blocks)}}}

(***************************************************************************)
(* The renewal.                                                            *)
(***************************************************************************)
RenewalDue(height, eye) == height + Lead >= eye.rescue

(* What prepare_transaction requires of the chain and of the node: the     *)
(* outputs it finds are those of the Storm Eye it stores.                  *)
Prepares(s, tx) ==
  /\ RenewalDue(Len(chain), s.eye)
  /\ s.eye = EyeOf(Spends(chain))
  /\ tx = Append(Spends(chain), "renew")

Recordable(s, row) == s.pending = NoRow \/ s.pending = row

DueStormEye(s) == s.pending = NoRow /\ RenewalDue(Len(s.tip), s.eye)

(* The signers see the pool as well: a spent output is not available.      *)
Prepare ==
  /\ draft = NoDraft /\ pool = <<>>
  /\ node[Coordinator].tip = chain /\ DueStormEye(node[Coordinator])
  /\ draft' = [tx |-> Append(Spends(chain), "renew"), tip |-> chain]
  /\ \E b \in Branches :
       /\ Coordinator \in b
       /\ node' \in [Node -> UNION {Synced(node[n], chain) : n \in Node}]
       /\ \A n \in Node : node'[n] \in IF n \in b THEN Synced(node[n], chain) ELSE {node[n]}
       /\ \A n \in b : ~node'[n].paused /\ node'[n].ok /\ Prepares(node'[n], draft'.tx)
  /\ UNCHANGED <<chain, pool, notices, overtaken, events>>

(* Recorded first, then broadcast: a rejected transaction stays recorded.  *)
(* The row promises the Storm Eye stored by then, whose rescue height must *)
(* be that of the request.                                                 *)
RecordAndBroadcast ==
  /\ draft # NoDraft
  /\ LET s == node[Coordinator]
         row == Row(draft.tx, s.eye, draft.tip)
         recorded == row.next.rescue = EyeOf(draft.tx).rescue /\ Recordable(s, row)
     IN  /\ node' = IF recorded THEN [node EXCEPT ![Coordinator].pending = row] ELSE node
         /\ pool' = IF recorded THEN Pooled(draft.tx) ELSE pool
         /\ notices' = IF recorded /\ Accepts(draft.tx) THEN notices \cup {draft} ELSE notices
  /\ draft' = NoDraft
  /\ UNCHANGED <<chain, overtaken, events>>

SigningFails ==
  /\ draft # NoDraft /\ Happens
  /\ draft' = NoDraft
  /\ UNCHANGED <<chain, pool, notices, node, overtaken>>

ObserveBroadcast(n, notice) ==
  /\ n # Coordinator /\ notice.tip = chain
  /\ ~node[n].paused /\ ~node[n].recovering
  /\ \E s \in Synced(node[n], chain) :
       LET row == Row(notice.tx, s.eye, notice.tip)
           recorded == s.ok /\ Prepares(s, notice.tx) /\ Recordable(s, row)
       IN  /\ node' = [node EXCEPT ![n] = IF recorded THEN [s EXCEPT !.pending = row] ELSE s]
           /\ pool' = IF recorded THEN Pooled(notice.tx) ELSE pool
  /\ UNCHANGED <<chain, draft, notices, overtaken, events>>

Confirmed(s) == OnChain(s.pending.tx) /\ Final(HeightOf(s.pending.tx))

(* confirm_storm_eye_renewal overwrites the stored Storm Eye, whatever it  *)
(* is by then.                                                             *)
Reconcile(s) ==
  IF s.pending = NoRow THEN s
  ELSE IF Confirmed(s) THEN [s EXCEPT !.eye = s.pending.next, !.pending = NoRow]
  ELSE [s EXCEPT !.pending.included = OnChain(s.pending.tx)]

(* Variant for sensitivity checking: an orphaned renewal is only noted. *)
NeverRebroadcasts(s) == FALSE

Rebroadcasts(s) == s.pending # NoRow /\ ~OnChain(s.pending.tx)

(* The indexing tick: sync, and after a sync without an error the          *)
(* reconciliation of the pending renewal; a failed call ends either.       *)
Pass(n) ==
  /\ n = Coordinator => draft = NoDraft
  /\ \E s \in Synced(node[n], chain) :
       \/ /\ s.ok
          /\ \E r \in {Reconcile(s)} :
               LET announced == n = Coordinator /\ r.pending # NoRow /\ Accepts(r.pending.tx)
               IN  /\ node' = [node EXCEPT ![n] = r]
                   /\ notices' = IF announced
                                 THEN notices \cup {[tx |-> r.pending.tx, tip |-> r.pending.tip]}
                                 ELSE notices
          /\ pool' = IF Rebroadcasts(s) THEN Pooled(s.pending.tx) ELSE pool
          /\ UNCHANGED events
       \/ /\ ~s.ok
          /\ node' = [node EXCEPT ![n] = s]
          /\ UNCHANGED <<pool, notices, events>>
       \/ /\ Happens
          /\ node' = [node EXCEPT ![n] = s]
          /\ UNCHANGED <<pool, notices>>
  /\ UNCHANGED <<chain, draft, overtaken>>

(* Messages make the coordinator index the chain while it signs.  At other *)
(* times that is a pass without its reconciliation.                        *)
SyncWhileSigning ==
  /\ draft # NoDraft
  /\ \E s \in Synced(node[Coordinator], chain) : node' = [node EXCEPT ![Coordinator] = s]
  /\ UNCHANGED <<chain, pool, draft, notices, overtaken, events>>

(***************************************************************************)
(* A member migration as reconcile_voting_executions follows it.           *)
(***************************************************************************)
MigrationHeight == CHOOSE h \in DOMAIN chain : chain[h] = "migrate"

Migrated(s, h) ==
  LET next == [s.eye EXCEPT !.moved = TRUE]
  IN  [s EXCEPT !.migration = [at |-> h, prev |-> s.eye, next |-> next],
                !.eye = next, !.paused = FALSE]

Overtakes(s, h) ==
  \/ s.eye # EyeOf(Spends(Before(h, chain)))
  \/ OnChain(s.pending.tx)
  \/ \E i \in h + 1 .. Len(s.tip) : s.tip[i] = "renew"

ReconcileMigration(n) ==
  /\ node[n].migration = None
  /\ n = Coordinator => draft = NoDraft
  /\ IF "migrate" \notin Range(chain)
     THEN /\ node' = [node EXCEPT ![n].paused = FALSE]
          /\ UNCHANGED overtaken
     ELSE IF ~Final(MigrationHeight)
     THEN /\ node' = [node EXCEPT ![n].paused = TRUE]
          /\ UNCHANGED overtaken
     ELSE /\ node' = [node EXCEPT ![n] = Migrated(@, MigrationHeight)]
          /\ overtaken' = [overtaken EXCEPT ![n] = Overtakes(node[n], MigrationHeight)]
  /\ UNCHANGED <<chain, pool, draft, notices, events>>

(***************************************************************************)
(* The chain: rounds and the migration are broadcast by whoever executes   *)
(* them; blocks are mined and abandoned.                                   *)
(***************************************************************************)
Broadcast(kind) ==
  /\ pool = <<>> /\ Happens
  /\ kind = "migrate" => "migrate" \notin Range(chain)
  /\ pool' = Append(Spends(chain), kind)
  /\ UNCHANGED <<chain, draft, notices, node, overtaken>>

(* Blocks come as long as something waits for them.                        *)
Awaited ==
  \/ Len(chain) < MaxHeight
  \/ \E h \in DOMAIN chain : chain[h] # "none" /\ ~Final(h)

Mine ==
  /\ \A n \in Node : Len(chain) < Len(node[n].tip) + MaxLag
  /\ \/ pool # <<>> /\ chain' = Append(chain, Last(pool)) /\ pool' = <<>>
     \/ Awaited /\ chain' = Append(chain, "none") /\ UNCHANGED pool
  /\ UNCHANGED <<draft, notices, node, overtaken, events>>

(* What an abandoned block spent may be mined again or be forgotten.  A    *)
(* block that is mined again with the same content is the same block here, *)
(* for which the code would rebuild; RebuildAgrees asks of every state     *)
(* that a rebuild changes nothing.                                         *)
Reorganise ==
  /\ Happens
  /\ \E d \in 1 .. Finality - 1 :
       /\ d <= Len(chain)
       /\ chain' = SubSeq(chain, 1, Len(chain) - d)
       /\ IF Spends(chain') = Spends(chain) THEN UNCHANGED pool
          ELSE pool' \in {<<>>, SubSeq(Spends(chain), 1, Len(Spends(chain')) + 1)}
  /\ UNCHANGED <<draft, notices, node, overtaken>>

Issued == [eye |-> EyeOf(<<>>), tip |-> <<>>, history |-> {}, pending |-> NoRow,
           migration |-> None, paused |-> FALSE, recovering |-> FALSE, ok |-> TRUE]

Init ==
  /\ chain = <<>> /\ pool = <<>> /\ draft = NoDraft /\ notices = {}
  /\ node = [n \in Node |-> Issued]
  /\ overtaken = [n \in Node |-> FALSE]
  /\ events = 0

Next ==
  \/ Prepare
  \/ RecordAndBroadcast
  \/ SigningFails
  \/ SyncWhileSigning
  \/ \E n \in Node : Pass(n) \/ ReconcileMigration(n) \/ \E r \in notices : ObserveBroadcast(n, r)
  \/ \E kind \in {"round", "migrate"} : Broadcast(kind)
  \/ Mine
  \/ Reorganise

Spec == Init /\ [][Next]_vars

Fairness ==
  /\ WF_vars(Prepare) /\ WF_vars(RecordAndBroadcast) /\ WF_vars(Mine)
  /\ \A n \in Node : WF_vars(Pass(n)) /\ WF_vars(ReconcileMigration(n))

FairSpec == Spec /\ Fairness

(* Every row a node stores is well formed, and what it has indexed is a    *)
(* sequence of blocks.                                                     *)
TypeOK ==
  /\ chain \in Seq(Content) /\ pool \in Seq(Content) /\ {draft.tx, draft.tip} \subseteq Seq(Content)
  /\ events \in 0 .. MaxEvents
  /\ \A r \in notices : r.tx \in Seq(Content) /\ r.tip \in Seq(Content)
  /\ overtaken \in [Node -> BOOLEAN]
  /\ \A n \in Node :
       /\ node[n].eye \in Eye /\ node[n].tip \in Seq(Content)
       /\ node[n].paused \in BOOLEAN /\ node[n].recovering \in BOOLEAN
       /\ node[n].pending.next \in Eye \cup {None}
       /\ \A r \in Transitions(node[n]) : r.at \in Nat /\ r.prev \in Eye

(* What the transactions of the chain have made of the Storm Eye, as far   *)
(* as s knows of the migration.                                            *)
Known(s) ==
  LET txs == Spends(chain)
  IN  IF s.migration # None \/ ~Contains(txs, "migrate") THEN txs
      ELSE SubSeq(txs, 1, SelectInSeq(txs, LAMBDA k : k = "migrate") - 1)

(* A pending row promises the Storm Eye its transaction creates.           *)
PendingIsSound(s) == s.pending = NoRow \/ s.pending.next = EyeOf(s.pending.tx)

(***************************************************************************)
(* A sync and a rebuild never fail and both end with the Storm Eye of the  *)
(* chain: what the renewals, the confirmation, the migration and the       *)
(* journal write in turn stays what a replay gives, through                *)
(* reorganisations and missed notices.  A node that finalises a migration  *)
(* while a renewal is on its way is outside: its row of the migration      *)
(* keeps a Storm Eye that no replay produces (Indexer::sync, Reconcile).   *)
(***************************************************************************)
RebuildAgrees ==
  /\ TypeOK
  /\ \A n \in Node : ~overtaken[n] =>
    /\ PendingIsSound(node[n])
    /\ \A s \in Synced(node[n], chain) \cup Synced(ResetProjections(node[n]), chain) :
         s.ok /\ s.eye = EyeOf(Known(s))

(* The transaction can confirm no more, since another one spent its input. *)
Conflicted(tx) == tx # <<>> /\ ~Accepts(tx)

(* The Storm Eye is renewed before anyone may take it, and every node that *)
(* recorded a renewal confirms it at last, unless what it recorded lost    *)
(* its input to another transaction (the row is never dropped) or the node *)
(* has overtaken a renewal (renew_storm_eye_timelock,                      *)
(* reconcile_storm_eye_renewal).                                           *)
EyeIsRenewed ==
  /\ <>[](\/ ~RenewalDue(Len(chain), EyeOf(Spends(chain)))
          \/ Conflicted(node[Coordinator].pending.tx)
          \/ \E n \in Node : overtaken[n])
  /\ <>[](\A n \in Node : \/ node[n].pending = NoRow
                          \/ Conflicted(node[n].pending.tx)
                          \/ overtaken[n])

=============================================================================
