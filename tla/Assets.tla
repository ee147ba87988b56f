------------------------------- MODULE Assets -------------------------------
(***************************************************************************)
(* The network's assets (high_storm/assets.rs, db/network_asset.rs and the *)
(* start of main.rs): the coordinator issues the Storm Eye, the Tick and   *)
(* the Oracle Verifier, each recorded before it is broadcast and active    *)
(* afterwards, and announces what is active to the members, which check it *)
(* against the chain and against their own Storm Tree.  The coordinator    *)
(* may stop between any two steps, blocks are abandoned, snapshots get     *)
(* lost, and a renewal or a migration changes the Storm Eye.               *)
(*                                                                         *)
(* The wallet holds one policy coin, which every issuance spends to get    *)
(* the next: a coin is the sequence of the transactions that led to it,    *)
(* and a transaction is the sequence that ends with its own kind.  What an *)
(* issuance contains is taken to be what prepare put there, so that of the *)
(* checks of an announcement those remain that depend on the moment.       *)
(***************************************************************************)
EXTENDS Naturals, FiniteSets, SequencesExt

CONSTANTS
  Member,      \* the members other than the coordinator
  MaxDepth,    \* bound: depth of a reorganisation
  MaxChanges,   \* bound: crashes, payments, reorganisations, lost snapshots, changes
  NoSnapshot

ASSUME ChangesAssumption == MaxDepth \in Nat /\ MaxChanges \in Nat

VARIABLES
  chain,   \* the blocks, each the sequence of the wallet's transactions in it
  pool,    \* the wallet's transactions that are not confirmed
  row,     \* row[k]: the coordinator's row of network_assets
  doing,   \* what the coordinator does next
  eye,     \* the covenant state of the coordinator's Storm Eye
  store,   \* store[m]: what the member m stores, and the root of its tree
  inbox,   \* inbox[m]: the snapshot m has not read
  occurred,
  locked   \* history: the members a change has shut out

assetsVars == <<chain, pool, row, doing, eye, store, inbox, occurred, locked>>

Kind == {"eye", "tick", "verifier"}
Order == <<"eye", "tick", "verifier">>
Steps == <<"ensure", "broadcast", "activate", "announce">>
Name == Kind \cup {"payment"}
Covenant == [root : Nat, renewals : Nat]

Row == [status : {"none", "pending", "active"}, tx : Seq(Name), created : Nat]
NoRow == [status |-> "none", tx |-> <<>>, created |-> 0]

Confirmed == FlattenSeq(chain)
Coin == Confirmed \o pool
Known(tx) == IsPrefix(tx, Coin)
HeightOf(tx) == CHOOSE h \in DOMAIN chain :
  /\ IsPrefix(tx, FlattenSeq(SubSeq(chain, 1, h)))
  /\ ~IsPrefix(tx, FlattenSeq(SubSeq(chain, 1, h - 1)))

Occurs == occurred < MaxChanges /\ occurred' = occurred + 1
Running == doing = <<Len(Order) + 1, 1>>
At(step) == ~Running /\ Steps[doing[2]] = step
Current == Order[doing[1]]

Advance == doing' = IF doing[2] = Len(Steps) THEN <<doing[1] + 1, 1>> ELSE <<doing[1], doing[2] + 1>>

(***************************************************************************)
(* The start of the coordinator.                                           *)
(***************************************************************************)
Pending(k) == [status |-> "pending", tx |-> Append(Coin, k), created |-> Len(chain)]

(* The Storm Eye commits to the root of the tree, and is not reissued.     *)
PrepareStormEye == Pending("eye")

(* The Tick and the Verifier are issued empty, with their token locked by  *)
(* the Storm Eye, which is looked for first.                               *)
PrepareReissuable(k) == Pending(k)

Prepared == IF Current = "eye" THEN PrepareStormEye ELSE PrepareReissuable(Current)

(* Variant for sensitivity checking: an issuance is prepared anew each start. *)
EnsureAnew ==
  /\ At("ensure")
  /\ row' = IF row[Current].status = "active" THEN row ELSE [row EXCEPT ![Current] = Prepared]
  /\ Advance
  /\ UNCHANGED <<chain, pool, eye, store, inbox, occurred, locked>>

(* What is pending is taken up again; what is active needs nothing.  What  *)
(* is prepared is first of any effect when it is inserted.                 *)
Ensure ==
  /\ At("ensure")
  /\ row' = IF row[Current].status = "none" THEN [row EXCEPT ![Current] = Prepared] ELSE row
  /\ Current = "eye" \/ row["eye"].status = "active"
  /\ Advance
  /\ UNCHANGED <<chain, pool, eye, store, inbox, occurred, locked>>

(* broadcast_transaction; an error ends the process, which starts again.   *)
Broadcast ==
  /\ At("broadcast")
  /\ LET tx == row[Current].tx
     IN  \/ /\ row[Current].status = "active" \/ Known(tx)
            /\ Advance /\ UNCHANGED pool
         \/ /\ row[Current].status = "pending" /\ tx = Append(Coin, Current)
            /\ pool' = Append(pool, Current)
            /\ Advance
  /\ UNCHANGED <<chain, row, eye, store, inbox, occurred, locked>>

Activate ==
  /\ At("activate")
  /\ row' = [row EXCEPT ![Current].status = "active"]
  /\ Advance
  /\ UNCHANGED <<chain, pool, eye, store, inbox, occurred, locked>>

Active == {k \in Kind : row[k].status = "active"}
Snapshot == [assets |-> [k \in Active |-> row[k].tx], eye |-> eye]

(* Every announcement is a whole snapshot, which supersedes what a member  *)
(* has not read.                                                           *)
Announce ==
  /\ At("announce")
  /\ inbox' = [m \in Member |-> Snapshot]
  /\ Advance
  /\ UNCHANGED <<chain, pool, row, eye, store, occurred, locked>>

Reannounce ==
  /\ Running
  /\ inbox' = [m \in Member |-> Snapshot]
  /\ UNCHANGED <<chain, pool, row, doing, eye, store, occurred, locked>>

(* The coordinator stops and starts again.                                 *)
Stop ==
  /\ Occurs
  /\ doing' = <<1, 1>>
  /\ UNCHANGED <<chain, pool, row, eye, store, inbox, locked>>

(***************************************************************************)
(* A member.                                                               *)
(***************************************************************************)
Holds(m, k) == store[m].asset[k] # <<>>

(* The issuance is in a block, and not below the height it was created at. *)
ConfirmedIssuance(snapshot, k) ==
  /\ IsPrefix(snapshot.assets[k], Confirmed)
  /\ row[k].created <= HeightOf(snapshot.assets[k])

(* The covenant commits to the tree of this node.                          *)
VerifiedStormEye(s, snapshot) == s.root = snapshot.eye.root

(* The Storm Eye it was issued for is stored.                              *)
VerifiedReissuable(s) == s.asset["eye"] # <<>>

Verified(s, snapshot, k) ==
  /\ ConfirmedIssuance(snapshot, k)
  /\ IF k = "eye" THEN VerifiedStormEye(s, snapshot) ELSE VerifiedReissuable(s)

Stored(s, snapshot, k) ==
  IF k = "eye" THEN [s EXCEPT !.asset[k] = snapshot.assets[k], !.eye = snapshot.eye]
  ELSE [s EXCEPT !.asset[k] = snapshot.assets[k]]

Same(s, snapshot, k) ==
  s.asset[k] = snapshot.assets[k] /\ (k = "eye" => s.eye = snapshot.eye)

(* Variant for sensitivity checking: the assets are taken in the order of the list. *)
SortedByKind == <<"verifier", "eye", "tick">>

(* The Storm Eye first, then the others by kind.                           *)
Sorted == <<"eye", "verifier", "tick">>

(* One asset of the snapshot; ok is lost with the first that is refused.   *)
Take(s, snapshot, k) ==
  IF ~s.ok \/ k \notin DOMAIN snapshot.assets THEN s
  ELSE IF s.asset[k] # <<>> THEN [s EXCEPT !.ok = Same(s, snapshot, k)]
  ELSE IF Verified(s, snapshot, k) THEN Stored(s, snapshot, k)
  ELSE [s EXCEPT !.ok = FALSE]

Taken(s, snapshot) ==
  LET first == Take(s, snapshot, Sorted[1])
      second == Take(first, snapshot, Sorted[2])
  IN  Take(second, snapshot, Sorted[3])

HandleAnnouncement(m) ==
  /\ inbox[m] # NoSnapshot
  /\ store' = [store EXCEPT ![m] = [Taken(store[m], inbox[m]) EXCEPT !.ok = TRUE]]
  /\ inbox' = [inbox EXCEPT ![m] = NoSnapshot]
  /\ UNCHANGED <<chain, pool, row, doing, eye, occurred, locked>>

LoseSnapshot(m) ==
  /\ inbox[m] # NoSnapshot /\ Occurs
  /\ inbox' = [inbox EXCEPT ![m] = NoSnapshot]
  /\ UNCHANGED <<chain, pool, row, doing, eye, store, locked>>

(***************************************************************************)
(* The Storm Eye changes: a renewal is indexed, a migration is finalised.  *)
(* A node indexes only when it stores all three assets, and finalises a    *)
(* migration only when it stores the Storm Eye it migrates.                *)
(***************************************************************************)
Complete(m) == \A k \in Kind : Holds(m, k)

Renew ==
  /\ Running /\ Occurs
  /\ eye' = [eye EXCEPT !.renewals = @ + 1]
  /\ locked' = locked \cup
       {m \in Member : ~Complete(m) /\ (Holds(m, "eye") \/ inbox[m] # NoSnapshot)}
  /\ UNCHANGED <<chain, pool, row, doing, store, inbox>>

Migrate ==
  /\ Running /\ Occurs
  /\ eye' = [eye EXCEPT !.root = @ + 1]
  /\ locked' = locked \cup {m \in Member : ~Holds(m, "eye")}
  /\ UNCHANGED <<chain, pool, row, doing, store, inbox>>

IndexRenewal(m) ==
  /\ Complete(m) /\ store[m].eye.renewals < eye.renewals
  /\ store' = [store EXCEPT ![m].eye.renewals = eye.renewals]
  /\ UNCHANGED <<chain, pool, row, doing, eye, inbox, occurred, locked>>

FinishMigration(m) ==
  /\ Holds(m, "eye") /\ store[m].root < eye.root
  /\ store' = [store EXCEPT ![m].root = eye.root, ![m].eye.root = eye.root]
  /\ UNCHANGED <<chain, pool, row, doing, eye, inbox, occurred, locked>>

(***************************************************************************)
(* The wallet and the chain.                                               *)
(***************************************************************************)
Pay ==
  /\ Occurs
  /\ pool' = Append(pool, "payment")
  /\ UNCHANGED <<chain, row, doing, eye, store, inbox, locked>>

Mine ==
  /\ pool # <<>>
  /\ chain' = Append(chain, pool) /\ pool' = <<>>
  /\ UNCHANGED <<row, doing, eye, store, inbox, occurred, locked>>

(* The wallet keeps what was abandoned and sends it again.                 *)
Reorganise ==
  /\ Occurs
  /\ \E d \in 1 .. MaxDepth :
       /\ d <= Len(chain)
       /\ chain' = SubSeq(chain, 1, Len(chain) - d)
       /\ pool' = FlattenSeq(SubSeq(chain, Len(chain) - d + 1, Len(chain))) \o pool
  /\ UNCHANGED <<row, doing, eye, store, inbox, locked>>

Genesis == [root |-> 0, renewals |-> 0]

InitAssets ==
  /\ chain = <<>> /\ pool = <<>>
  /\ row = [k \in Kind |-> NoRow] /\ doing = <<1, 1>> /\ eye = Genesis
  /\ store = [m \in Member |-> [asset |-> [k \in Kind |-> <<>>], eye |-> Genesis,
                                root |-> 0, ok |-> TRUE]]
  /\ inbox = [m \in Member |-> NoSnapshot]
  /\ occurred = 0 /\ locked = {}

NextAssets ==
  \/ Ensure \/ Broadcast \/ Activate \/ Announce \/ Reannounce \/ Stop
  \/ \E m \in Member : HandleAnnouncement(m) \/ LoseSnapshot(m) \/ IndexRenewal(m) \/ FinishMigration(m)
  \/ Renew \/ Migrate \/ Pay \/ Mine \/ Reorganise

SpecAssets == InitAssets /\ [][NextAssets]_assetsVars

FairnessAssets ==
  /\ WF_assetsVars(Ensure) /\ WF_assetsVars(Broadcast) /\ WF_assetsVars(Activate) /\ WF_assetsVars(Announce)
  /\ WF_assetsVars(Reannounce) /\ WF_assetsVars(Mine)
  /\ \A m \in Member : WF_assetsVars(HandleAnnouncement(m)) /\ WF_assetsVars(IndexRenewal(m))
                       /\ WF_assetsVars(FinishMigration(m))

FairSpecAssets == SpecAssets /\ FairnessAssets

(***************************************************************************)
(* What has to hold.                                                       *)
(***************************************************************************)

(* Every variable keeps its type: what the coordinator and the members     *)
(* store is always an asset or nothing, and what the coordinator calls     *)
(* pending or active has an issuance.                                      *)
TypeOKAssets ==
  /\ Confirmed \in Seq(Name) /\ pool \in Seq(Name)
  /\ row \in [Kind -> Row] /\ \A k \in Kind : row[k].status = "none" <=> row[k].tx = <<>>
  /\ doing \in (1 .. 4) \X (1 .. 4) /\ eye \in Covenant
  /\ \A m \in Member :
       /\ store[m] \in [asset : [Kind -> Seq(Name)], eye : Covenant, root : Nat, ok : {TRUE}]
       /\ inbox[m] = NoSnapshot \/ DOMAIN inbox[m].assets \subseteq Kind
  /\ occurred \in 0 .. MaxChanges /\ locked \subseteq Member

(* Each asset is issued once, however often the coordinator stops between  *)
(* recording, broadcasting and activating it: a pending issuance is taken  *)
(* up again, never replaced (ensure_storm_eye, ensure_reissuable_asset);   *)
(* and that issuance is what every member comes to store, however old the  *)
(* snapshot it reads (handle_announcement).                                *)
OneIssuance ==
  \A k \in Kind :
    /\ Cardinality({n \in DOMAIN Coin : Coin[n] = k}) <= 1
    /\ \A m \in Member : Holds(m, k) => store[m].asset[k] = row[k].tx

(* What stops an announcement for good: an issuance that is recorded but   *)
(* whose coin was spent before its broadcast, and one that an abandoned    *)
(* block has put below the height it was created at.                       *)
Overtaken == \E k \in Kind :
  /\ row[k].status # "none"
  /\ \/ ~Known(row[k].tx) /\ row[k].tx # Append(Coin, k)
     \/ IsPrefix(row[k].tx, Confirmed) /\ row[k].created > HeightOf(row[k].tx)

(* Every member comes to store the three assets with the Storm Eye of the  *)
(* coordinator, whatever is lost and wherever the coordinator stops: each  *)
(* pass announces the whole snapshot again.                                *)
AssetsSpread ==
  \A m \in Member :
    <>[](Overtaken \/ m \in locked \/ (Complete(m) /\ store[m].eye = eye))

=============================================================================
