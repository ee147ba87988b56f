------------------------------- MODULE Ledger -------------------------------
(***************************************************************************)
(* The Droplets ledger of one node and the chain indexer that maintains it *)
(* (high-storm/src/high_storm/indexer/mod.rs, droplets.rs, db/chain.rs and *)
(* db/droplet.rs).                                                         *)
(*                                                                         *)
(* `sync` follows the chain of an Elements node one block at a time, each  *)
(* block in a database transaction of its own.  When the chain it indexed  *)
(* is no longer the canonical one it deletes everything it derived and     *)
(* replays the chain from the start, keeping the exchange locks aside.     *)
(* Handlers and the leader's own exchange lock and unlock balances in      *)
(* between.  The chain itself is the environment: it grows, loses its last *)
(* blocks, and never takes an abandoned block back.                        *)
(***************************************************************************)
EXTENDS Integers, Sequences, FiniteSets, FiniteSetsExt

CONSTANTS
  Member,        \* members before and after the migration, ordered as keys
  OldMembers,    \* the members the network starts with
  NewMembers,    \* the members after the migration
  Self,          \* this node's own member
  Tx,            \* transactions
  NoTx,          \* the rest of a block, which touches nothing modelled
  Migration,     \* the transaction that migrates the members
  Outpoint,      \* outputs that transactions spend and create
  Value,         \* Value[o]: the LBTC in a Treasury output, 0 for others
  Ins, Outs,     \* Ins[t], Outs[t]: outpoints spent and created by t
  Marker,        \* Marker[t]: the exchange_member of t, or NoMember
  Tag,           \* Tag[t]: the deposit_member of t, or NoMember
  NoMember,
  None,          \* an absent record
  Retention,     \* CANONICAL_JOURNAL_RETENTION_BLOCKS
  Finality,      \* finality_confirmations
  MaxHeight,     \* bound: length of the chain
  MaxMined,      \* bound: blocks mined, on any branch
  MaxCrashes     \* bound: restarts

ASSUME MemberAssumption ==
  /\ Member \subseteq Nat /\ IsFiniteSet(Member)
  /\ OldMembers \subseteq Member /\ NewMembers \subseteq Member
  /\ OldMembers # {} /\ NewMembers # {}
  /\ NoMember \notin Member
ASSUME TxAssumption ==
  /\ NoTx \notin Tx
  /\ Value \in [Outpoint -> Nat]
  /\ Ins \in [Tx -> SUBSET Outpoint] /\ Outs \in [Tx -> SUBSET Outpoint]
  /\ \A t \in Tx : IsFiniteSet(Ins[t]) /\ IsFiniteSet(Outs[t])
ASSUME OutpointAssumption ==   \* an outpoint names the transaction that created it
  \A t, u \in Tx : Outs[t] \cap Outs[u] # {} => t = u
ASSUME LedgerBounds ==
  /\ Retention \in Nat \ {0} /\ Finality \in Nat \ {0}
  /\ MaxHeight \in Nat /\ MaxMined \in Nat /\ MaxCrashes \in Nat

Body == {NoTx} \cup Tx

(* A block: its hash and at most two transactions that matter here. *)
Block == [id : Nat, txs : Body \X Body]

(* A block that was indexed. *)
Mark == [height : Nat, id : Nat]

(* A locked exchange; it is final once the signed transaction replaced the *)
(* unsigned PSET in last_tx.                                               *)
Lock == [tx : Tx, final : BOOLEAN]

ASSUME NoneAssumption == None \notin Tx /\ None \notin Lock /\ None \notin Mark

VARIABLES
  chain,       \* the canonical chain, block h at index h
  mined,       \* blocks mined so far, on any branch
  journal,     \* canonical_blocks
  cursor,      \* the Droplets row of indexer_cursors
  ledger,      \* treasury_utxos and droplets
  halted,      \* droplets_halt_height, 0 when the ledger is not halted
  saved,       \* chain_recovery_droplet_locks
  recovering,  \* chain_recovery_state.recovering
  safeHalted,  \* chain_recovery_state.safe_halted
  migrations,  \* network_member_migrations
  eye,         \* the members the stored Storm Eye commits to
  suspect,     \* Indexer.recovering, the flag in memory
  sync,        \* the running sync
  exchange,    \* exchange[m]: the request that is being handled for m
  decided,     \* decided[m]: the lock recover_droplet_exchanges will release
  checked,     \* history: a sync succeeded and no block was abandoned since
  crashes

chainVars == <<chain, mined>>
dbVars == <<journal, cursor, ledger, halted, saved, recovering, safeHalted, migrations, eye>>
memVars == <<suspect, sync, exchange, decided>>
vars == <<chainVars, dbVars, memVars, checked, crashes>>

Idle == [pc |-> "idle", tip |-> 0, tipId |-> 0, next |-> 0, prev |-> 0,
         rebuild |-> FALSE, droplets |-> FALSE, eye |-> "previous", moves |-> {},
         old |-> TRUE, todo |-> {}]

SyncState ==
  [pc : {"idle", "detect", "reset", "index", "restore", "finish"},
   tip : Nat, tipId : Nat,        \* the tip to reach
   next : Nat, prev : Nat,        \* next height and the hash of its parent, 0 for any
   rebuild : BOOLEAN,             \* the sync replays the chain from the start
   droplets : BOOLEAN,            \* the ledger takes part
   eye : {"previous", "next"},    \* the Storm Eye the sync works with
   moves : SUBSET Mark,           \* the migrations it knows of
   old : BOOLEAN,                 \* active_members are the old members
   todo : SUBSET Member]          \* locks to restore

Accounts ==
  [treasury : SUBSET Outpoint, amount : [Member -> Nat], deficit : [Member -> Nat],
   lock : [Member -> Lock \cup {None}]]

TypeOK ==
  /\ chain \in Seq(Block)
  /\ mined \in Nat
  /\ journal \subseteq Mark
  /\ cursor \in Mark \cup {None}
  /\ ledger \in Accounts
  /\ halted \in Nat
  /\ saved \in [Member -> Lock \cup {None}]
  /\ recovering \in BOOLEAN /\ safeHalted \in BOOLEAN
  /\ migrations \subseteq Mark
  /\ eye \in {"previous", "next"}
  /\ suspect \in BOOLEAN
  /\ sync \in SyncState
  /\ exchange \in [Member -> [tx : Tx, stage : {"validated", "locked"}] \cup {None}]
  /\ decided \in [Member -> Tx \cup {None}]
  /\ checked \in BOOLEAN
  /\ crashes \in Nat

-----------------------------------------------------------------------------
(* The chain, as the Elements node presents it. *)

Tip == Len(chain)
HashAt(h) == IF h \in 1 .. Len(chain) THEN chain[h].id ELSE 0
OnChain(mark) == HashAt(mark.height) = mark.id

Carried(b) == {b.txs[1], b.txs[2]} \ {NoTx}
Confirmed == UNION {Carried(chain[h]) : h \in DOMAIN chain}
Spent == UNION {Ins[t] : t \in Confirmed}

(* A transaction can still be confirmed: it is not, and its inputs are     *)
(* unspent outputs of confirmed transactions or predate the network.       *)
Fresh(t) == t \notin Confirmed /\ Ins[t] \cap Spent = {}
Funded(t, others) == \A o \in Ins[t] : \A u \in Tx : o \in Outs[u] => u \in Confirmed \cup others

Mine(first, second) ==
  /\ Len(chain) < MaxHeight
  /\ mined < MaxMined
  /\ first # NoTx => Fresh(first) /\ Funded(first, {})
  /\ second # NoTx => /\ first # NoTx /\ second # first
                      /\ Fresh(second) /\ Funded(second, {first})
                      /\ Ins[first] \cap Ins[second] = {}
  /\ mined' = mined + 1
  /\ chain' = Append(chain, [id |-> mined', txs |-> <<first, second>>])
  /\ UNCHANGED <<dbVars, memVars, checked, crashes>>

(* A reorganisation takes the last block away; others take its place. *)
Abandon ==
  /\ Len(chain) > 0
  /\ mined < MaxMined
  /\ chain' = SubSeq(chain, 1, Len(chain) - 1)
  /\ checked' = FALSE
  /\ UNCHANGED <<mined, dbVars, memVars, crashes>>

-----------------------------------------------------------------------------
(* Accounting of one transaction. *)

Total(outs) == MapThenSumSet(LAMBDA o : Value[o], outs)

Larger(a, b) == IF a > b THEN a - b ELSE 0

(* Variant for sensitivity checking: the deficit goes, the balance gets it all. *)
CreditedInFull(acc, share) ==
  [acc EXCEPT !.amount = [m \in Member |-> acc.amount[m] + share[m]],
              !.deficit = [m \in Member |-> Larger(acc.deficit[m], share[m])]]

(* CREDIT_SQL: a credit repays the deficit first. *)
Credited(acc, share) ==
  [acc EXCEPT !.amount = [m \in Member |-> acc.amount[m] + Larger(share[m], acc.deficit[m])],
              !.deficit = [m \in Member |-> Larger(acc.deficit[m], share[m])]]

(* credit_deposit: all to the tagged member, or equal shares of which the  *)
(* first members get the remainder.                                        *)
Shares(members, tag, value) ==
  [m \in Member |->
     IF tag \in members THEN (IF m = tag THEN value ELSE 0)
     ELSE IF m \notin members THEN 0
     ELSE value \div Cardinality(members)
          + (IF Cardinality({k \in members : k < m}) < value % Cardinality(members)
               THEN 1 ELSE 0)]

(* What a transaction takes from the Treasury and gives to it. *)
Taken(acc, t) == Total(Ins[t] \cap acc.treasury)
Given(t) == Total({o \in Outs[t] : Value[o] > 0})

(* The Treasury outputs before and after. *)
Moved(acc, t) ==
  [acc EXCEPT !.treasury = (@ \ Ins[t]) \cup {o \in Outs[t] : Value[o] > 0}]

(* A spend is charged to its member and settles the member's lock. *)
Charged(acc, m, cost) ==
  [acc EXCEPT !.amount[m] = Larger(@, cost),
              !.deficit[m] = @ + Larger(cost, acc.amount[m]),
              !.lock[m] = None]

(* apply_block_in for one transaction: it is accounted, or it is invalid.  *)
Accountable(acc, t, members) ==
  \/ t = NoTx
  \/ Taken(acc, t) = 0
  \/ Marker[t] \in members /\ Given(t) <= Taken(acc, t)

ApplyTx(acc, t, members) ==
  IF t = NoTx THEN acc
  ELSE IF Taken(acc, t) = 0 THEN Credited(Moved(acc, t), Shares(members, Tag[t], Given(t)))
  ELSE Charged(Moved(acc, t), Marker[t], Taken(acc, t) - Given(t))

(* apply_block_in under its savepoint. *)
BlockAccountable(acc, b, members) ==
  /\ Accountable(acc, b.txs[1], members)
  /\ Accountable(ApplyTx(acc, b.txs[1], members), b.txs[2], members)

ApplyBlock(acc, b, members) ==
  ApplyTx(ApplyTx(acc, b.txs[1], members), b.txs[2], members)

EmptyAccounts ==
  [treasury |-> {}, amount |-> [m \in Member |-> 0], deficit |-> [m \in Member |-> 0],
   lock |-> [m \in Member |-> None]]

-----------------------------------------------------------------------------
(* Exchange locks. *)

(* validate_layout: Treasury inputs less Treasury outputs. *)
Cost(t) == Total({o \in Ins[t] : Value[o] > 0}) - Given(t)

(* Variant for sensitivity checking: the check of validate_transaction is trusted. *)
CanLockValidated(acc, m, t) ==
  acc.lock[m] \in {None, [tx |-> t, final |-> FALSE]}

(* DropletStore::lock_exchange: the balance covers it and nothing else is  *)
(* locked.                                                                 *)
CanLock(acc, m, t) ==
  /\ acc.amount[m] >= Cost(t)
  /\ acc.lock[m] \in {None, [tx |-> t, final |-> FALSE]}

Locked(acc, m, l) == [acc EXCEPT !.lock[m] = l]

(* The indexed tip. *)
IndexedTip == IF journal = {} THEN 0 ELSE Max({k.height : k \in journal})

(* exchange_droplets for the node's own request, and the ExchangeRewards   *)
(* handler for another leader's: refused while the node rebuilds its       *)
(* state, while the ledger is halted and beyond the balance.  A signer     *)
(* also requires that it has indexed the current block.  The transactions  *)
(* that created the inputs are fetched; whether the inputs are still       *)
(* unspent, or the exchange itself confirmed by now, is not asked.         *)
ValidateExchange(m, t) ==
  /\ exchange[m] = None
  /\ ~suspect
  /\ Marker[t] = m /\ Cost(t) > 0
  /\ halted = 0
  /\ ledger.amount[m] >= Cost(t)
  /\ m # Self => /\ IndexedTip = Tip
                 /\ \E k \in journal : k.height = Tip /\ OnChain(k)
  /\ exchange' = [exchange EXCEPT ![m] = [tx |-> t, stage |-> "validated"]]
  /\ UNCHANGED <<chainVars, dbVars, suspect, sync, decided, checked, crashes>>

LockExchange(m) ==
  /\ exchange[m] # None
  /\ exchange[m].stage = "validated"
  /\ LET t == exchange[m].tx IN
     IF CanLock(ledger, m, t)
       THEN /\ ledger' = Locked(ledger, m, [tx |-> t, final |-> FALSE])
            /\ exchange' = [exchange EXCEPT ![m].stage = "locked"]
       ELSE /\ exchange' = [exchange EXCEPT ![m] = None]
            /\ UNCHANGED ledger
  /\ UNCHANGED <<chainVars, journal, cursor, halted, saved, recovering, safeHalted,
                 migrations, eye, suspect, sync, decided, checked, crashes>>

(* Signing succeeds.  update_locked_transaction stores the signed          *)
(* transaction if the lock is still there; the node only broadcasts then.  *)
(* A signer learns it from the announcement, or not at all, and an error   *)
(* on the way leaves the lock as it is.                                    *)
FinalizeExchange(m) ==
  /\ exchange[m] # None
  /\ exchange[m].stage = "locked"
  /\ LET t == exchange[m].tx IN
     \/ /\ ledger.lock[m] = [tx |-> t, final |-> FALSE]
        /\ ledger' = Locked(ledger, m, [tx |-> t, final |-> TRUE])
     \/ UNCHANGED ledger
  /\ exchange' = [exchange EXCEPT ![m] = None]
  /\ UNCHANGED <<chainVars, journal, cursor, halted, saved, recovering, safeHalted,
                 migrations, eye, suspect, sync, decided, checked, crashes>>

(* Signing fails: the member is unlocked, whatever it is locked for. *)
FailExchange(m) ==
  /\ exchange[m] # None
  /\ exchange[m].stage = "locked"
  /\ ledger' = Locked(ledger, m, None)
  /\ exchange' = [exchange EXCEPT ![m] = None]
  /\ UNCHANGED <<chainVars, journal, cursor, halted, saved, recovering, safeHalted,
                 migrations, eye, suspect, sync, decided, checked, crashes>>

(* exchange_chain_state: `gettxout` finds no output for some input, which  *)
(* was spent or is not confirmed, and then neither the mempool nor the     *)
(* chain knows the transaction.                                            *)
Conflicted(t) ==
  /\ t \notin Confirmed
  /\ Ins[t] \cap Spent # {} \/ ~Funded(t, {})

(* recover_droplet_exchanges, after a sync: a conflicted lock is to be     *)
(* released.                                                               *)
DecideRelease(m) ==
  /\ ~suspect
  /\ decided[m] = None
  /\ ledger.lock[m] # None
  /\ Conflicted(ledger.lock[m].tx)
  /\ decided' = [decided EXCEPT ![m] = ledger.lock[m].tx]
  /\ UNCHANGED <<chainVars, dbVars, suspect, sync, exchange, checked, crashes>>

ReleaseLock(m) ==
  /\ decided[m] # None
  /\ decided' = [decided EXCEPT ![m] = None]
  /\ ledger' = Locked(ledger, m, None)
  /\ UNCHANGED <<chainVars, journal, cursor, halted, saved, recovering, safeHalted,
                 migrations, eye, suspect, sync, exchange, checked, crashes>>

-----------------------------------------------------------------------------
(* sync *)

SyncBegin ==
  /\ sync.pc = "idle"
  /\ sync' = [Idle EXCEPT !.pc = "detect", !.tip = Tip, !.tipId = HashAt(Tip),
                          !.eye = eye]
  /\ UNCHANGED <<chainVars, dbVars, suspect, exchange, decided, checked, crashes>>

SyncFailed == sync' = Idle

(* A persisted safety halt, or a finalized migration above the tip. *)
Refused == safeHalted \/ \E k \in migrations : k.height > sync.tip

(* An RPC call fails: the chain became shorter than the tip it reported. *)
Unreadable(marks) == \E k \in marks : k.height \in Len(chain) + 1 .. sync.tip

Displaced == ~Unreadable(migrations) /\ \E k \in migrations : ~OnChain(k)

JournalTip == {k \in journal : k.height = IndexedTip}
Cursors == JournalTip \cup ({cursor} \ {None})

Mismatch(marks) == \E k \in marks : k.height > sync.tip \/ ~OnChain(k)

(* member_migration_requires_replay *)
MigrationAhead ==
  \E k \in migrations :
    /\ sync.eye = "next"
    /\ \/ IndexedTip < k.height
       \/ halted = 0 /\ (cursor # None => cursor.height < k.height)

MustRebuild ==
  \/ recovering
  \/ journal = {} /\ cursor # None
  \/ Mismatch(Cursors)
  \/ MigrationAhead

(* The checks pass and the blocks can be compared. *)
Comparable == ~Refused /\ ~Displaced /\ ~Unreadable(migrations \cup Cursors)

DetectRefused ==
  /\ sync.pc = "detect"
  /\ Refused
  /\ suspect' = TRUE
  /\ SyncFailed
  /\ UNCHANGED <<chainVars, dbVars, exchange, decided, checked, crashes>>

DetectUnreadable ==
  /\ sync.pc = "detect"
  /\ ~Refused /\ ~Displaced
  /\ Unreadable(migrations \cup Cursors)
  /\ SyncFailed
  /\ UNCHANGED <<chainVars, dbVars, suspect, exchange, decided, checked, crashes>>

(* safe_halt: a finalized migration is no longer canonical. *)
DetectDisplaced ==
  /\ sync.pc = "detect"
  /\ ~Refused /\ Displaced
  /\ safeHalted' = TRUE
  /\ recovering' = TRUE
  /\ suspect' = TRUE
  /\ SyncFailed
  /\ UNCHANGED <<chainVars, journal, cursor, ledger, halted, saved, migrations, eye,
                 exchange, decided, checked, crashes>>

(* set_recovering *)
DetectRebuild ==
  /\ sync.pc = "detect"
  /\ Comparable /\ MustRebuild
  /\ recovering' = TRUE
  /\ suspect' = TRUE
  /\ sync' = [sync EXCEPT !.pc = "reset", !.moves = migrations]
  /\ UNCHANGED <<chainVars, journal, cursor, ledger, halted, saved, safeHalted,
                 migrations, eye, exchange, decided, checked, crashes>>

(* The members active before height h. *)
OldAt(h) == \A k \in migrations : k.height >= h

DetectResume ==
  /\ sync.pc = "detect"
  /\ Comparable /\ ~MustRebuild
  /\ sync' = [sync EXCEPT
       !.pc = "index",
       !.next = IndexedTip + 1,
       !.prev = IF journal = {} THEN 0 ELSE (CHOOSE k \in JournalTip : TRUE).id,
       !.droplets = halted = 0,
       !.moves = migrations,
       !.old = OldAt(IndexedTip + 1)]
  /\ UNCHANGED <<chainVars, dbVars, suspect, exchange, decided, checked, crashes>>

(* Variant for sensitivity checking: locks already set aside are replaced. *)
SetAsideAgain == ledger.lock

(* reset_projections: the locks are set aside, unless an interrupted       *)
(* recovery did it before, and everything derived from the chain goes.     *)
SetAside ==
  [m \in Member |-> IF saved[m] = None THEN ledger.lock[m] ELSE saved[m]]

ResetProjections ==
  /\ sync.pc = "reset"
  /\ saved' = SetAside
  /\ journal' = {}
  /\ cursor' = None
  /\ ledger' = EmptyAccounts
  /\ halted' = 0
  /\ eye' = "previous"
  /\ sync' = [sync EXCEPT !.pc = "index", !.eye = "previous", !.next = 1, !.prev = 0, !.rebuild = TRUE,
                          !.droplets = TRUE, !.old = TRUE,
                          !.todo = {m \in Member : saved'[m] # None}]
  /\ UNCHANGED <<chainVars, recovering, safeHalted, migrations, suspect, exchange,
                 decided, checked, crashes>>

Indexing == sync.pc = "index" /\ sync.next <= sync.tip

Here == chain[sync.next]
MigratesHere == \E k \in sync.moves : k.height = sync.next

(* Variant for sensitivity checking: the members change with their block. *)
ActiveMembersEarly == IF sync.old /\ ~MigratesHere THEN OldMembers ELSE NewMembers

ActiveMembers == IF sync.old THEN OldMembers ELSE NewMembers

ParentHash(h) == IF h > 1 THEN chain[h - 1].id ELSE 0

Readable ==
  /\ sync.next <= Len(chain)
  /\ sync.prev # 0 => sync.prev = ParentHash(sync.next)
  /\ MigratesHere => sync.eye = "previous" /\ eye = "previous"

(* The next block cannot be read, does not extend the last one, or its     *)
(* migration does not start from the replayed Storm Eye.                   *)
IndexFails ==
  /\ Indexing
  /\ ~Readable
  /\ SyncFailed
  /\ UNCHANGED <<chainVars, dbVars, suspect, exchange, decided, checked, crashes>>

(* One block in one transaction: the ledger under a savepoint, the cursor, *)
(* the migrated Storm Eye and the journal.                                 *)
IndexBlock ==
  LET here == [height |-> sync.next, id |-> Here.id]
      accounts == sync.droplets /\ BlockAccountable(ledger, Here, ActiveMembers)
  IN
  /\ Indexing
  /\ Readable
  /\ journal' = {k \in journal : k.height + Retention > sync.next} \cup {here}
  /\ ledger' = IF accounts THEN ApplyBlock(ledger, Here, ActiveMembers) ELSE ledger
  /\ cursor' = IF accounts THEN here ELSE cursor
  /\ halted' = IF sync.droplets /\ ~accounts THEN sync.next ELSE halted
  /\ eye' = IF MigratesHere THEN "next" ELSE eye
  /\ sync' = [sync EXCEPT !.next = @ + 1, !.prev = Here.id, !.droplets = accounts,
                          !.eye = IF MigratesHere THEN "next" ELSE @,
                          !.old = @ /\ ~MigratesHere]
  /\ UNCHANGED <<chainVars, saved, recovering, safeHalted, migrations, suspect, exchange,
                 decided, checked, crashes>>

(* Variant for sensitivity checking: only the height of the tip is checked. *)
TipIsReached == Len(chain) >= sync.tip

(* The tip the sync set out for is checked again. *)
TipIsCanonical == Len(chain) >= sync.tip /\ HashAt(sync.tip) = sync.tipId

Indexed == sync.pc = "index" /\ sync.next > sync.tip

FinishFails ==
  /\ Indexed
  /\ ~TipIsCanonical
  /\ SyncFailed
  /\ UNCHANGED <<chainVars, dbVars, suspect, exchange, decided, checked, crashes>>

FinishSync ==
  /\ Indexed
  /\ TipIsCanonical
  /\ checked' = TRUE
  /\ IF sync.rebuild
       THEN /\ sync' = [sync EXCEPT !.pc = "restore"]
            /\ UNCHANGED suspect
       ELSE /\ sync' = Idle
            /\ suspect' = FALSE
  /\ UNCHANGED <<chainVars, dbVars, exchange, decided, crashes>>

(* The locks are restored one by one, ordered by key, where the replayed   *)
(* balance allows.                                                         *)
RestoreLock ==
  /\ sync.pc = "restore"
  /\ \E m \in sync.todo :
     /\ \A k \in sync.todo : m <= k
     /\ ledger' = IF /\ ledger.amount[m] >= Cost(saved[m].tx)
                     /\ ledger.lock[m] \in {None, saved[m]}
                    THEN Locked(ledger, m, saved[m])
                    ELSE ledger
     /\ sync' = [sync EXCEPT !.todo = @ \ {m}]
  /\ UNCHANGED <<chainVars, journal, cursor, halted, saved, recovering, safeHalted,
                 migrations, eye, suspect, exchange, decided, checked, crashes>>

(* Variant for sensitivity checking: the persisted flag stays. *)
FinishRecoveryInMemory ==
  /\ sync.pc = "restore"
  /\ sync.todo = {}
  /\ saved' = [m \in Member |-> None]
  /\ suspect' = FALSE
  /\ sync' = Idle
  /\ UNCHANGED <<chainVars, journal, cursor, ledger, halted, recovering, safeHalted,
                 migrations, eye, exchange, decided, checked, crashes>>

FinishRecovery ==
  /\ sync.pc = "restore"
  /\ sync.todo = {}
  /\ saved' = [m \in Member |-> None]
  /\ recovering' = FALSE
  /\ suspect' = FALSE
  /\ sync' = Idle
  /\ UNCHANGED <<chainVars, journal, cursor, ledger, halted, safeHalted, migrations, eye,
                 exchange, decided, checked, crashes>>

-----------------------------------------------------------------------------
(* apply_member_migration, once the execution is final: the migration is   *)
(* recorded and the Storm Eye replaced at once.                            *)
FinalizeMigration ==
  /\ migrations = {}
  /\ \E h \in DOMAIN chain :
       /\ Migration \in Carried(chain[h])
       /\ Len(chain) - h + 1 >= Finality
       /\ migrations' = {[height |-> h, id |-> chain[h].id]}
  /\ eye' = "next"
  /\ UNCHANGED <<chainVars, journal, cursor, ledger, halted, saved, recovering, safeHalted,
                 memVars, checked, crashes>>

(* The node restarts: the database stays. *)
Crash ==
  /\ crashes < MaxCrashes
  /\ crashes' = crashes + 1
  /\ suspect' = TRUE
  /\ sync' = Idle
  /\ exchange' = [m \in Member |-> None]
  /\ decided' = [m \in Member |-> None]
  /\ UNCHANGED <<chainVars, dbVars, checked>>

Init ==
  /\ chain = <<>>
  /\ mined = 0
  /\ journal = {}
  /\ cursor = None
  /\ ledger = EmptyAccounts
  /\ halted = 0
  /\ saved = [m \in Member |-> None]
  /\ recovering = FALSE
  /\ safeHalted = FALSE
  /\ migrations = {}
  /\ eye = "previous"
  /\ suspect = TRUE
  /\ sync = Idle
  /\ exchange = [m \in Member |-> None]
  /\ decided = [m \in Member |-> None]
  /\ checked = FALSE
  /\ crashes = 0

SyncStep ==
  \/ SyncBegin
  \/ DetectRefused \/ DetectUnreadable \/ DetectDisplaced \/ DetectRebuild \/ DetectResume
  \/ ResetProjections
  \/ IndexFails \/ IndexBlock
  \/ FinishFails \/ FinishSync
  \/ RestoreLock \/ FinishRecovery

ExchangeStep(m) ==
  \/ \E t \in Tx : ValidateExchange(m, t)
  \/ LockExchange(m) \/ FinalizeExchange(m) \/ FailExchange(m)
  \/ DecideRelease(m) \/ ReleaseLock(m)

Environment ==
  \/ \E first, second \in Body : Mine(first, second)
  \/ Abandon

Next ==
  \/ SyncStep
  \/ \E m \in Member : ExchangeStep(m)
  \/ FinalizeMigration
  \/ Crash
  \/ Environment

Spec == Init /\ [][Next]_vars

(* The main loop calls sync again and again. *)
FairSpec == Spec /\ WF_vars(SyncStep)

-----------------------------------------------------------------------------
(* Every satoshi of the Treasury is owed to somebody: balances less        *)
(* deficits are the Treasury outputs, through overdrafts, deposits that do *)
(* not divide evenly, rebuilds, halts and restarts (apply_block_in).       *)
LedgerBalanced ==
  MapThenSumSet(LAMBDA m : ledger.amount[m], Member)
    = Total(ledger.treasury) + MapThenSumSet(LAMBDA m : ledger.deficit[m], Member)

(* A locked exchange is covered by the balance it is locked against,       *)
(* whatever else was indexed, rebuilt or restored since (lock_exchange).   *)
LocksAreCovered ==
  \A m \in Member : ledger.lock[m] # None => ledger.amount[m] >= Cost(ledger.lock[m].tx)

(* After a sync that succeeded, and as long as no block was abandoned,     *)
(* everything the node indexed is canonical, and so are the migrations it  *)
(* finalized up to there (sync, require_parent_hash,                       *)
(* target_tip_is_canonical).                                               *)
IndexIsCanonical ==
  checked => /\ \A k \in journal : OnChain(k)
             /\ cursor # None => OnChain(cursor)
             /\ \A k \in migrations : k.height <= IndexedTip => OnChain(k)

(* The accounts after replaying every indexed block from nothing, with the *)
(* old members up to block last and the new ones after it.                 *)
Replayed(last) ==
  LET members(h) == IF h <= last THEN OldMembers ELSE NewMembers
      upTo[h \in 0 .. MaxHeight] ==
        IF h = 0 THEN EmptyAccounts ELSE ApplyBlock(upTo[h - 1], chain[h], members(h))
  IN upTo[IndexedTip]

(* The ledger is what one replay of the canonical chain computes, although *)
(* it was built by interrupted syncs, crashes and rebuilds: no block is    *)
(* counted twice or left out, and the members change once, not before the  *)
(* block of their migration (sync).                                        *)
LedgerIsReplay ==
  checked /\ halted = 0 /\ journal # {} =>
    \E last \in 0 .. IndexedTip :
      /\ migrations = {} => last = IndexedTip
      /\ \A k \in migrations : last >= k.height \/ IndexedTip < k.height
      /\ [ledger EXCEPT !.lock = EmptyAccounts.lock]
           = [Replayed(last) EXCEPT !.lock = EmptyAccounts.lock]

HeldTxs(m) ==
  {l.tx : l \in {ledger.lock[m], saved[m]} \ {None}}

(* The steps that may end a lock: signing fails, it is released, a block   *)
(* spends for its member, or a rebuild that tried to restore it ends.  A   *)
(* member that was locked again during a rebuild has two locks, of which   *)
(* the next rebuild keeps one.                                             *)
Released(m) ==
  \/ Cardinality(HeldTxs(m)) > 1
  \/ exchange[m] # None /\ exchange'[m] = None
  \/ decided[m] # None /\ decided'[m] = None
  \/ \E k \in journal' \ journal : \E t \in Carried(chain[k.height]) : Marker[t] = m
  \/ recovering /\ ~recovering' /\ m \notin sync.todo

(* A rebuild forgets no lock, even when it is interrupted by a restart or  *)
(* by another reorganisation and starts over (reset_projections).          *)
LocksSurviveRebuild ==
  [][\A m \in Member : HeldTxs(m) \ HeldTxs(m)' # {} => Released(m)]_vars

(* A node that has indexed past a migration it finalized, and sees nothing *)
(* to rebuild, holds the migrated Storm Eye (apply_member_migration,       *)
(* reset_projections).                                                     *)
EyeIsCurrent ==
  sync.pc = "idle" /\ ~recovering =>
    \A k \in migrations : IndexedTip >= k.height => eye = "next"

(* The node has indexed the tip, or a finalized migration is gone. *)
Synced ==
  \/ ~suspect /\ ~recovering /\ IndexedTip = Tip
  \/ \E k \in migrations : ~OnChain(k)

(* Synchronisation comes to an end when the chain comes to rest: no loop of *)
(* rebuilds, interrupted recoveries and failed syncs goes on forever (sync). *)
SyncSettles == <>[]Synced

(* The exchange whose lock a node still holds is not one that it has       *)
(* indexed: indexing a transaction releases its lock (apply_block_in).     *)
LocksAreUnsettled ==
  sync.pc = "idle" /\ checked /\ halted = 0 =>
    \A m \in Member : ledger.lock[m] # None =>
      ~\E k \in journal : ledger.lock[m].tx \in Carried(chain[k.height])

(* An exchange is given up only because another confirmed transaction      *)
(* spends one of its inputs (exchange_chain_state, exchange_recovery).     *)
GivesUpConflicted ==
  [][\A m \in Member : decided[m] = None /\ decided'[m] # None =>
       Ins[decided'[m]] \cap Spent # {}]_vars

=============================================================================
