# TLA+ specification of the price oracle

The repository is a federated price oracle on Liquid.  A fixed set of member
nodes jointly controls a few covenant outputs (the *Storm Eye*), from which every
transaction of the network is authorised by a MuSig2 signature of one *branch*
of members.  Users deposit fees, the network issues price vouchers to them, burns
the vouchers when they expire, shares its income among the members as *Droplets*,
and votes on changes of its own membership.

This directory models the parts of the node that have state, concurrency and
failures of their own: TLA+ modules, TLC configurations that check them on small
instances, and TLAPS proofs for every instance.

## 1. Inventory

### The node and its tasks

`high-storm/src/main.rs` runs one loop that selects among periodic tasks:
reconnect peers, index new blocks (every 10 s; then renewals and the leader's
Droplets exchange), issuance rounds, burning rounds, `reconcile_requests`
(expired votes, vote synchronisation, executions, user requests) and price
attestations.  Message handlers run concurrently with it, one message at a time
per connection.  Handlers and tasks share a database and a few locks; most
multi-step operations hold no lock across their awaits, and every step that
waits for the Elements node or for a peer can interleave with all others.

| Component | State | Operations | Interacts with |
|---|---|---|---|
| signing sessions (`signing.rs`) | session table: nonces, partial signatures, secret nonces, waiting attempt | `sign_per_branch`, handlers of requests, nonces, partial signatures, expiry | transport; every producer of transactions |
| Storm Tree (`storm-tree`) | set of branches and their aggregate keys, sparse Merkle tree | construction, proofs | signing, contracts |
| Storm transport (`storm`) | peer tables, connections and their queues, staged members, replay cache | connect, accept, send, release, peer discovery, staging and activation of members | everything that sends |
| chain indexer (`indexer`, `db/chain.rs`) | canonical journal, cursors, recovery state, saved locks, finalized migrations | `sync`, rebuild, replay of migrations, recovery of locks | Elements node, ledger, vouchers, network state |
| Droplets ledger (`db/droplet.rs`, `droplets.rs`) | Treasury outputs, balances, deficits, exchange locks | credit, charge, lock, unlock, exchange | indexer, signing, voting executions |
| voting (`voting.rs`, `db/voting.rs`) | votes, approvals | create, approve, synchronise, expire | transport |
| voting execution (`voting_execution.rs`, `mod.rs`, `handler.rs`) | execution columns of a vote, Droplets lock, spending pause | execute, sign, observe, reconcile, retry | signing, ledger, indexer |
| vouchers (`burning.rs`, `db/monitored_utxo.rs`) | monitored outputs: active, expired, burning, unburnable | index, expire, burn, revert, quarantine | indexer, signing, leader rotation |
| user requests (`user_requests.rs`, `issuance.rs`, `db/user_request.rs`) | requests: pending, processing, included, executed, failed; held fee outputs | accept, issue, observe, reconcile | user API, signing, prices |
| renewal and assets (`renewal.rs`, `assets.rs`) | renewals in progress, stored Storm Eye, network assets | renew timelocked outputs, announce assets | signing, indexer |
| prices (`prices.rs`, `price-feed`) | source records, attestations | poll, reduce, attest, store, check a rate | sources, issuance |
| operator API (`external_api/operators`) | challenges, sessions, used nonces | authenticate, authorise commands | voting, Droplets |

### What is hard

* Signing is a distributed session keyed by a message hash, raced over two
  branches, retried, timed out and cancelled at any await; a secret nonce must
  never sign twice.
* The index is a projection of a chain that reorganises while it is read, in one
  database transaction per block; a rebuild deletes it while locks must survive.
* Handlers check a balance, a vote or an output in one transaction and act on it
  in another.
* Executions, issuances and burns are recorded, sent and confirmed in steps that
  any failure may separate, by several nodes that follow the chain at their own
  pace; what they depend on may be evicted, replaced or spent meanwhile.
* Three pieces of code lay a transaction out, check it and read it back.
* Member migrations change the set of members under all of this.

`PROJECT.json` lists the hazards at their lines, with the properties that would
catch each of them, or why there is none.

## 2. Modules

| Module | Models | Instances | Proofs |
|---|---|---|---|
| `Signing` | signing sessions of all nodes, with the transport as ordered queues | `MCSigning`, `MCSigningFaults` | `SigningProofs` |
| `Ledger` | indexer, ledger, exchange locks and migrations of one node, with the chain as environment | `MCLedger` | `LedgerProofs` |
| `Voting` | votes of all nodes: proposals, approvals, synchronization, expiry | `MCVoting` | `AgreementProofs` |
| `VotingExecution` | executions of approved votes by all nodes, to their last confirmation | `MCVotingExecution` | `VotingExecutionProofs` |
| `VoteOutcome` | what an execution promises, implemented by `VotingExecution` | | |
| `UserRequests` | the coordinator's requests, fee outputs and issuance rounds | `MCUserRequests` | `UserRequestsProofs` |
| `Burning` | monitored outputs and burning rounds of all nodes | `MCBurning` | `BurningProofs` |
| `Layout` | layout, validation and reading of issuances and burns, as operators | | `AgreementProofs` |
| `Rounds` | what a round takes, signs, indexes and burns, by `Layout` | `MCRounds` | `AgreementProofs` |
| `Storm` | connections, discovery, admission and member migration of the transport | `MCStorm` | `StormProofs` |
| `Renewal` | renewals of the Storm Eye and the Storm Eye each node stores | `MCRenewal` | |
| `Assets` | the issuance of the network's assets and their announcement | `MCAssets` | `NetworkProofs` |
| `Prices` | polling, attestation and exchange of prices | `MCPrices` | `NetworkProofs` |

`Rounds` composes with `Layout` by EXTENDS, `VotingExecution` with `VoteOutcome` by a
refinement mapping.  The others meet in what they take for granted: a signature
that `Signing` delivers is one step (`Sign`) of the producers of transactions; the
`Execute` action of `Voting` is the row statements that `VotingExecution` orders; the
rounds of `UserRequests` and `Burning` take any part of their queue that fits, and
`Rounds` says which.

### Signing

One state for all nodes: `sessions` (a set of session records, `node` and `h`
being the key), `tasks` (the attempts a call spawned), `net` (one FIFO queue per
ordered pair), `sending` (messages whose sender released the state lock before
it sent), and the history variables `drawn`, `signed` and `results`.

* Cryptography is symbolic.  A nonce is the next number of its signer; a partial
  signature is the record of what enters its equation; verification compares that
  record with the session.
* A session's hash is the content and the branch, as in `SigningRequest`, so that
  a retry meets the sessions of the first try.
* `Launch` merges the two lock sections of `select_branch` and `start_session`
  for one branch; nothing of the caller runs between them but expiry, which both
  perform.
* The order of branches is the order of aggregate keys, which says nothing about
  their members: any candidate may come first.
* Every request kind is the same to the session; what the handler validates
  before it is `Refuse`, which any node in `Refusing` may take.
* Time is `Tick`: sessions and attempts age up to `Timeout`.

### Ledger

One node.  `chain` is the environment: `Mine` appends a block of at most two
relevant transactions, `Abandon` removes the last block.  Abandoned blocks never
come back (block ids are not reused).  The database is `journal`, `cursor`,
`ledger`, `halted`, `saved`, `recovering`, `safeHalted`, `migrations`, `eye`; the
process memory is `suspect`, `sync`, `exchange`, `decided`.

* `sync` is a sequence of actions with one action per database transaction:
  `SyncBegin` reads the tip, `Detect*` compares it with what is indexed,
  `ResetProjections`, one `IndexBlock` per block, `FinishSync`, one `RestoreLock`
  per saved lock, `FinishRecovery`.  A crash or another task may come between
  any two of them.
* `ValidateExchange`, `LockExchange`, `FinalizeExchange` and `FailExchange` are
  the life of an exchange on the leader and on a signer.  A signer's validation only fetches
  the transaction: that the member can pay and its inputs are new is found out by the lock,
  in whatever has become of the ledger by then.  `DecideRelease` and
  `ReleaseLock` are the two ends of `recover_droplet_exchanges`, which asks the
  Elements node in between.
* The table of locks set aside by a rebuild has one row per member and keeps the
  older one.  A member that is locked again before an interrupted rebuild ends has
  two locks, of which the next rebuild drops the newer; `LocksSurviveRebuild`
  allows that loss and no other.
* Amounts are natural numbers.  A Treasury output has a positive `Value`.
* `FinalizeMigration` merges the checks of `reconcile_voting_executions` and the
  database transaction of `apply_member_migration`; there is one migration.
* Left out here: vouchers and renewals in the same blocks, the queue of exchange
  requests, the cursor of issued outputs (which moves with the journal).

### Voting

`votes[n]` is the `voting_requests` table of node `n` with its approvals, `height[n]`
the height the node has published (not the height of the chain, `tip`), `net` the
messages on their way.  `proposed` and `approvers` record what operators did.

* A vote is its signed message: the request, the proposer and the height it names.
  A signature is the fact that its operator gave it.
* The operations on a table (`DeleteExpired`, `Insert`, `Admit`,
  `AcceptApprovals`, `AcceptSynchronized`) are functions of the table, as the
  statements of `db/voting.rs` are; an action is one section under the
  `operations` lock.  A handler reads the height once, in the same step.
* `create` and `handle_request` delete what has expired even when they then refuse.
* A message is lost when it is sent (`Send`) or by a restart of its receiver, and
  messages overtake each other.  An answer to a synchronization is one message per
  vote; the code handles them one after the other and goes on after an error.
* `Execute` is the four statements the execution uses on a row; the order in which
  an executor uses them is left open here.
* Left out: the staging of members when a membership vote is approved, messages in
  the older formats without a proposer, execution notices.

### VotingExecution and VoteOutcome

`row[n][v]` are the execution columns of a vote at a node, `tasks[n]` the operations
that run there: the attempt of the operator (`own`), the handler of a signing
request (`peer`), the handler of a notice (`notice`).  Each statement on the row or
on the lock of the proposer's Droplets is a step: a stale attempt is given up by `Cancel`
and `Unlock`, one begins by `Start` and `Lock`, and `Revert` takes the start back when the
Droplets are locked already.  A task remembers what it read when it began.

`pass[n][v]` is the periodic comparison of a vote with the chain: `Look` asks the node once
and sets or lifts the pause of spending; `MarkOrphaned`, `MarkIncluded` and `Confirm` write
the row by an answer that may be out of date; `Interrupt` is an error or a restart in between,
after which a node may be paused for a reason its row does not have (`"stopped"`).  `Retry`
is the second attempt of a vote whose transaction can no longer confirm.

* `Mine`, `Reorganise` and `OtherSpend` are the chain; all nodes see the same one.
  What is deeper than `Finality` is not replaced (`settled`).
* The transaction is what it spends; the check of a signer is whether it spends
  what the vote asks for and what is unspent.
* `VoteOutcome` has two variables: what is decided for each vote, and what each node
  has learned.  `Decided` and `Learned` map the final blocks and the confirmed rows
  to them.

### UserRequests

The coordinator and its chain.  `status`, `coin`, `held` and `result` are the rows of
`network_user_requests` and of the fee outputs held for them; `loop` is what the main
loop does, one database statement or one answer of the Elements node at a time:
`Prepare` (selects what fits and its fee outputs), `Anchor`, `Sign`, `Refuse`,
`Send`, `MarkProcessing`, `Include` and `Execute` (two statements, of which the second
may find the first one undone), `Resend` and the rest of the reconciliation.
`Index` is one block that the coordinator indexes; after a replaced block `Reset` deletes its
projections and `Reindex` brings them back up to the last block but one, and until `Index`
has added that one (`recovering`) no round is prepared and reserves are unknown.
The API inserts a request in two steps (`CheckFee`, `Insert`) beside the loop.
`Interrupt` ends any of it; `Evict` and `Replace` are the mempool and the chain.

### Burning

`row[n]` is `monitored_utxos` at node `n`, `job[n]` its burning round with what it
has read so far: release, reconcile, look (at the reserves), prepare, anchor, sign,
send, mark.  `Observe` is the handler of a notice.  `Use` is an item's user,
`Steal` an issuance that spends a reserve.

* `Look` takes any groups; the code takes the oldest ones that fit, which is what the search
  of `Rounds` has in detail.
* Of the groups that a round gives up, those whose reserve is missing are modelled.  Left out
  are a reserve with two owners, a reserve of another Account and items that do not match
  their group: rows that the index does not write.

### Layout and Rounds

`Layout` has the operators that lay an issuance out, check it, read it into the rows
of the index, and the same for a burn; `Rounds` walks one queue through them and lets
the transaction be laid out otherwise in one place.

* The cap on the items of a burn (`MAX_TICKS_PER_BURN`, which skips a group that exceeds it) and
  the refusal of a lone group above the standard weight of a transaction are left out: what is
  checked and proved of burns is of queues that stay below both.
* Inputs other than tokens are not varied in their issuance fields, and the order of
  the groups of a burn is that of one issuance.
* `QueueAssumption` says that what is queued asks for something and pays its least fee:
  `validate_request` refuses the rest (`minimum_fee_value`).
* `ReserveAssumption` says that a group that burns alone can pay for it, which holds
  of the configured fees.
* `TimeAssumption`: clocks count seconds since 1970 and a member accepts a tick that is two
  minutes off, so that no accepted tick is worth nothing.
* `Checked` is whether the build traps an arithmetic overflow (`pc = "trapped"`); the
  release build does not.

### Storm

`local[n]` is the `StormState`, `ends[n][p][d]` the task of `n` for a stream with `p`
in direction `d`, `inbox` the queue of a connection.  The scenario is `target`: `{}` for
a new network around its host, or the members a migration leads to.

* The node that accepts a stream claims it (`Accept`), broadcasts what it has to tell in the
  state it finds then (`Greet`) and runs it.  `Receive` is the checks before a handler,
  `HandleTable` and `HandleAsk` the handlers, `Close` and `Release` the end of a task.
* `Dial` is a plan, the handshake and the claim at once, of a plan that may be out of date:
  a stream is also dialed to a peer that has connected meanwhile (`MaxRaces`).
* Errors that are sent back take no place in a queue.  One that cannot be queued ends the
  connection, which is a `Fault`.
* Left out: the handshake, the rate limit and the replay window.

### Renewal and Assets

In `Renewal` a transaction is the sequence of the kinds of the transactions that have
spent the Storm Eye, so that an outpoint, a txid and a history are the same thing;
`node[n]` is what `n` stores: the Storm Eye, the pending renewal, the history of
renewals, the migration and the indexed tip.  `Synced` is a sync from any of these,
`ResetProjections` a rebuild.  While the coordinator waits for signatures, messages make
it index the chain (`SyncWhileSigning`); what it then records is checked against the rescue
height and dated by the tip it began with.

* A block is its content: a block that is mined again as it was is no reorganisation here,
  and the code would rebuild.  `RebuildAgrees` compares with a rebuild from every state.

`Assets` is the start of the coordinator, three issuances with a record, a broadcast
and an activation each, and the announcement, verified by a member in the order in
which its table lists the assets.  An asset is prepared and inserted in one step: nothing
sees it in between, and a restart prepares it anew.

### Prices

`source` is the record of a source with its failures, `batch` what was sent and not
stored, `net` the messages, `held` the attestations each node stores.  `last` and
`missed` are history: what a node signed last, and who may not have it.  One source
per feed, as configured in `sources/mod.rs`.  The attestations of a round are stored one
by one, by the node itself (`Store`) and by each member (`HandleAttestation`), and either
may stop in between.

* A poll is one step: each source has a task of its own, so that nobody else touches its
  record while it answers, and a restart in between is a poll that was not made.
* `PeersFollow` excepts what was missed, until a later stamp reaches everybody: a lost message, a
  message refused because the stamp of a changed value ran ahead, and the round of a node
  that could not reach a peer or stopped before it had stored what it sent.

## 3. Runs

| Run | Instance | Shows |
|---|---|---|
| `signing_retry` | 3 nodes; two calls of the same content over one link, at once or one after the other; or one call racing two branches, one signer with another rate | `NonceUsedOnce`, `VerifiedIsCurrent`, `ResultsAreSigned`, `NoOrphanSessions`, `DeliveredIsReturned` |
| `signing_faults` | 3 nodes, refusals, a lost link, a restart | `CallsEnd` |
| `ledger` | uneven and tagged deposits, an exchange that may overdraw, a migration; 3 blocks mined, 1 restart | `LedgerBalanced`, `LocksAreCovered`, `LedgerIsReplay`, `IndexIsCanonical`, `LocksSurviveRebuild`, `SyncSettles` |
| `voting` | 2 members that propose rival votes on one request, a limit of one active vote each, a term of 2 blocks; or one vote and a restart | `ApprovedByQuorum`, `OneLiveVote`, `ProposerQuota`, `RunsItsTerm`, `LoneApprovalSpreads` |
| `execution_notices` | 2 members, one membership change, 2 blocks, another transaction that takes the Treasury output | `ExecutedByApproval`, `PausedForMigration`, `RecordedIsKept`, `ImplementsOutcome` |
| `requests_fees` | 3 requests for 2 wallet outputs and one burn reserve, one of them priced; one fault | `FeesAreHeld`, `ReservesAreKept`, `RequestsSettle` |
| `burning_rounds` | 2 nodes, 3 items of 2 reserves, any two events | `NoEarlyBurn`, `QuarantinedIsLost`, `ItemsEnd` |
| `rounds_signed` | 8 queues from one verifier to a batch too large for a lane | `RoundIsLargest`, `SigningIsExact`, `BurnsAreFair`, `ItemsBurn` |
| `storm_mesh` | 3 nodes that found a network with one broken stream and one dial that is overtaken by another, or a migration of one member | `MembersOnly`, `ReleasesItsOwn`, `DiscoveryEnds` |
| `renewal` | coordinator and another node, a rescue height of 3 and a lead of 2, any two events | `RebuildAgrees`, `EyeIsRenewed` |
| `assets` | coordinator and a member, reorganisations of 2 blocks, any two events | `OneIssuance`, `AssetsSpread` |
| `prices` | an attester whose clock runs ahead and a peer, 3 polls in 3 seconds, any one fault | `PeersFollow`, `AvailableIsServed` |

Deadlock is not checked: the bounds on blocks, calls, faults and restarts, and in
`Rounds`, `Assets` and `Storm` the end of the scenario, let every behaviour come to
rest.  The rest is not assumed to be a good one: the liveness properties say what is
reached.

**Bounds.**  Two calls are what a retry and a duplicate need; a `Timeout` of one
tick lets expiry fall between any two steps.  Three mined blocks, of which some are
abandoned, cover a reorganisation below, at and above the indexed tip;
`Retention = 2` makes the journal forget blocks; `Finality = 2` leaves one block
between the inclusion of a transaction and its finality.  Deposits of 7 over two
members do not divide evenly.  Votes last two blocks, and the chain starts at a height
where a vote dated 0 has timed out, as it has on Liquid.  `MaxInFlight` bounds how many
messages are on their way at once, not how many are sent: a message that would not fit
is one that was lost.  `MaxTasks = 3` operations and passes at once are the executor that
waits for signatures, which `MaxRunning = 2` does not count, and two of a peer's request, a
notice and a pass.  The last block of a behaviour of `VotingExecution` is not followed by new
attempts.  `Between` lets other steps come between a claim of `Storm` and its broadcast when a
network is founded; in a migration the two are one step.  Three issuances are what one
request, its reserve and the reserve's next use need.  Items live two blocks and a burn reverts after two, so that
each may happen on either side of a replaced block.  The weights of `Rounds` are small
multiples chosen such that both limits of the search, the weight and the number of
items, bind in some queue.  An event or fault is counted by the guards of the actions
that need one (`Happens`, `Event`, `faults`): two cover every pair of the things that
can go wrong, in either order.  That two of two members are a quorum is a small case;
the proofs have all of them.

**Fairness.**  `Signing!FairSpec` assumes that time passes and that the runtime polls
the futures of a call; nothing is assumed of peers, of deliveries or of reconnections.
`Ledger!FairSpec` assumes that the main loop calls `sync` again and that a running
`sync` goes on, which its 10 s tick gives; nothing is assumed of the chain.
`MCVoting` takes from `Voting!Fairness` what one node needs to learn from the other:
every node indexes (a periodic task), asks again, what is on its way arrives, and a
question asked again and again is answered in full at some time (strong fairness of
`AskHeard`), which is what reconnecting every 3 s gives; every direct message may be
lost.  Nothing is assumed of operators, who may approve again forever.
`UserRequests!FairSpec` and `Burning!FairSpec` assume that the main loop returns to each of
its tasks, that the coordinator's index catches up, and that a transaction that stays in
the mempool is mined; strong fairness is used where the loop does one thing at a time or
a block may come first, so that a task is not enabled all the time but again and again.
`Rounds!Spec` assumes that a round goes on.  `Storm!FairSpec` assumes that a node dials the
peers it knows (every 3 s), that a task that runs goes on, and that the host announces its
table at one of its ticks (strong fairness of `Start(Host)`, which waits until what it has
queued is read).  `Renewal!FairSpec`, `Assets!FairSpec` and `Prices!FairSpec` assume the
periodic passes of each node, blocks, and the handling of what has arrived.

**What does not hold.**  Some properties one would like are stated in the modules beside
those that are checked, because the code does not have them.  Each is defined with the
comment that says what it means, and TLC finds a counterexample when it is added to a
cfg:

* `NoncesReachSessions` (`Signing`, four nodes): nonces that arrive before the request
  are dropped and never sent again, so that a branch of three or more signers can stall
  until its sessions expire.
* `LocksAreUnsettled` (`Ledger`): a lock may be taken, or restored by a rebuild, for an
  exchange the node has already indexed, and then nothing releases it.
* `GivesUpConflicted` (`Ledger`): an input whose creating transaction was reorganised away
  counts as spent, and the lock of an exchange that can still confirm is released.
* `EyeIsCurrent` (`Ledger`): a migration finalised between the detection of a
  reorganisation and the reset of the projections leaves the node with the Storm Eye of
  the old members.
* `ApprovedIsKept` (`Voting`): an approval completed between a restart and the first
  indexing pass is dated 0, and the approved vote is deleted right after.
* `OneExecution` (`VotingExecution`): an execution that is recorded and not sent is known
  to one node alone; the vote may be executed with another transaction.  What is
  *confirmed* is one (`ImplementsOutcome`).
* `FinalIsExecuted`, `FailedIsNotIssued` (`UserRequests`): after an issuance was evicted, the
  error of sending it again ends the pass over all requests; and a request may be failed
  whose issuance is still mined.
* `ActiveIsServed` (`Storm`): a claim whose first broadcast fails is never released, and
  the peer is locked out.
* `RoundIsLargest` with `Checked = TRUE` (`Rounds`): the bounds of the search cross and their
  difference traps; the release build wraps, and finds the largest prefix all the same.
* The exceptions in `QuarantinedIsLost`, `RebuildAgrees`, `EyeIsRenewed`, `AssetsSpread` and
  `AvailableIsServed` are races of the same kind, named at each property.

## 4. Proofs

The theorems hold for every value of the constants that meets the named `ASSUME`s.  The
bounds (`MaxMined`, `MaxEvents`, ...) are constants too: a theorem covers any number of
faults, blocks and messages.

**`SigningProofs`** (any network, calls, rates, faults)

* `TypeCorrect`, action by action.
* `NonceSafety`: `NonceUsedOnce` is not inductive.  `NonceInv` adds that a *live* secret nonce
  was never used, belongs to one session only, and was drawn before; `start_session` keeps
  it because a drawn nonce is new, and `accept_nonces` because it takes the secret out.
* `VerificationSafety`: `VerifiedInv` adds that a session has verified flags only once
  all its nonces are there; a step then leaves what entered the equation, or the flags go.
* `ResultSafety`: `ShareInv` says that every partial signature in a session, on its way or
  about to be sent was made by its signer; a session completes only with one verified
  share of each signer, all of the same aggregate nonce.
* `SessionsEnd`, `ResultsReturn`: `SessionsInv` has one session per hash at a node
  (`KeyedInv`), a waiting attempt with the same nonces behind every session of a call
  (`WaitInv`), and an attempt that keeps the result until the call returns it
  (`ReturnInv`).  That one call cannot join the session of another rests on `NoncesInv`: what
  a peer knows of a nonce is never ahead of what was drawn, and nobody knows the nonces of an
  attempt that has sent nothing.
* `QuorumsIntersect`: any two subsets of threshold size share more than a third.

**`LedgerProofs`** (any chain, transactions, restarts)

* `TypeCorrect` and `LockSafety` from `Inv`: the journal has a highest block and a running sync
  is above it; a credit only raises balances, a charge settles the lock of its member, a
  lock is taken or restored only against the balance of that moment.
* `IndexSafety` from `CanonInv`: when an indexed block is on the chain, so are all that were
  indexed below it, the cursor and the finalized migrations (`Linked`); a running sync goes
  for a tip that descends from what is indexed (`Aimed`).
* `LocksSurvive`, an action property, from `RebuildInv`: from the detection to the last
  restored lock a rebuild is persisted, so that a restart resumes it instead of forgetting
  the saved locks.
* `BalanceSafety` from `BalanceInv`: balances less deficits are the Treasury.  Lemmas
  about `Sum` say what one changed element, a disjoint union and an even division with its
  remainder do to a sum over a finite set.
* `ReplaySafety` from `ReplayInv`: the ledger is one replay of the journal's chain with at
  most one switch of members; the replay is a recursive function on heights, and the
  lemmas say that it depends only on the blocks below.

**`AgreementProofs`, votes** (any network, term, limit, faults)

* `TypeCorrect`, `ApprovalSafety` from `Inv`: every approval in a table or on its way was given,
  a row is approved only with enough of them, and only an approved row is executed.  One
  lemma per operation of a table shows that every table it leaves is backed by what the
  operators gave (`Given`).
* `LiveVoteSafety`, `QuotaSafety` from `FitInv`: each table has at most its quota, no two live votes
  on one request, and dates that no restart has set back, through the three paths by which
  a vote is stored.
* `TermSafety`: an action property; heights of rows that are not executed are at least
  those the votes name, unless the node has restarted.

**`AgreementProofs`, rounds** (any queue, weights, fees, limits, clocks, and number of
transactions laid out otherwise)

* `RoundsAreLargest`: `RoundIsLargest` is about what was chosen and says nothing of a search that
  goes on.  `RoundsInv` says what is behind each bound: the part of the queue below `lo` fits
  and is `best`, and every part longer than `hi` weighs too much or has too many items.  That rests on weights and counts that only grow with the
  part (`PrefixGrows`).  For burns the parts are groups by the rank of their reserves, and
  a lemma counts the ranks in a finite set.  It assumes `~Checked`: a build that traps an
  overflow stops there instead.
* `BurnsShareFairly`: `BurnsInv` adds the types of a transaction in whatever place it was
  changed, and that the leader's burn was valid when it was signed.  The fee that is missing from
  what the accounts get back is the sum of shares that `FeeShare` makes differ by one.
* `SigningSafety`: that members sign what is laid out for them, and that nothing they sign,
  however it was laid out, stops the index or is read differently.  `SignedInv` says that what
  is queued pays for its items, that the best part fits, and that the clock of some member
  accepted what was signed.  `ExactInv` adds that the bounds of both searches hold at
  all times, that the rows in the index are in order and not more than one issuance has, that
  what a leader chose is a part of them that pays for its burn, and that the transaction is
  the coordinator's own until it is laid out otherwise.
* `IssuanceIsValid`, `BurnIsValid`: what the coordinator and a leader lay out passes every check of a
  member, the order of inputs and outputs, tokens, reserves, the sums of every asset, fees.
  `Layout` writes the builder, the check and the reader as three sets of operators, as the
  code does, and these theorems are where they meet.

**`VotingExecutionProofs`** (any network, votes, depth, interleaving)

* `TypeCorrect`, `ApprovalOfExecution`, `ExecutedOnce`, `RecordKept`, `PauseSafety` from one `Inv`:
  what a mempool or the chain has taken was approved by the signers of a branch and no two
  such transactions belong to one vote; each row and each running operation is consistent
  with that, and with what is settled.  `PassOK` says what a comparison with the chain still
  knows when it acts: the vote is recorded and not confirmed, and what it found final is.
* `Refinement`: `Spec => ImplementsOutcome`.  The initial state decides nothing; a step that
  settles a block decides what it holds, a step that confirms a row learns what is decided,
  and every other step leaves both; that what is decided is never decided otherwise is
  `ExecutedOnce` with the bound on reorganisations.

**`UserRequestsProofs`** (any requests, outputs, weights, finality, faults)

* `FeesSafety`, `ReserveSafety`, `ExecutedSafety` from one `Inv`: rows and their order, the chain
  without double spends, reserves that are offered only when the index has seen their
  items go (`freed`), and what the loop carries from one await to the next (`LoopInv`: a
  request about to be executed has a final issuance).  The central
  step is that an issuance anchored at the tip cannot spend a reserve that a stale index
  took for free.

**`BurningProofs`** (any network, items, reserves, lifetime)

* `TypeCorrect`, `EarlyBurnSafety`, `QuarantineSafety` from `Inv`: a row that is expired or
  burning, a round that has chosen its items and a burn that is sent are of items that are
  old enough on the chain, although a node may lag or have indexed a replaced block; a row
  that was given up, and a reserve a round misses, is of a lost or pending spend.

**`NetworkProofs`, prices** (any nodes, prices, validity, clocks within the tolerance)

* `PeersSafety`, `StampsAreUnique` from `Inv`: the last attestation of a feed is stored, on its
  way to, or missed by each member; what else is on its way has an older stamp; and a
  stamp that a peer would refuse is never made, since honest clocks differ by no more than
  `MaxSkew` (`ClockAssumption`).

**`NetworkProofs`, assets** (any members, restarts, payments, reorganisations of any depth)

* `AssetsTypeCorrect`, and `IssuanceSafety` from `AssetsInv`: an asset is recorded before it is sent, what
  is on the chain, in the mempool or on its way to a member is what was recorded, and a
  member that stores an asset stores that.  The chain is a sequence of blocks of any length,
  so the proof needs that flattening may be cut anywhere (`FlatSplit`).

**`StormProofs`** (any nodes, migration, capacity, broken streams and races)

* `MembersSafety`, `ReleaseSafety` from `Inv`.  `Informed`: a node knows the peers it started with,
  and stages a migration only then, or the members it was given; it counts on no connection
  to anybody else once it was.  That needs what is on the way: every table names all members
  of the old or of the new network (`Letters`), and one that a task handles is still at the
  front of its queue (`Reading`).  `Owned`: a task that runs or ends serves the claim of its
  peer in its own direction, or the peer was removed; so the task that releases finds its
  own claim or none, and a claim finds no older task of the peer.  One lemma per operation
  says what it changes in the state of a node (`Tuned`), and one per action that it keeps `Inv`.
* `StatusSafety`: the status of the peers in both tables is that of the connections
  (`StatusIsConnection`), on which the readiness of a migration rests.  A table that is
  replaced while peers are staged could break it; `Waiting` says that a joining node has
  staged nobody before it is given the members, and afterwards loses no connection.

What is computed from data of any size (sums, replays, selections from a sequence, the scan
of the queue) is written as a recursive function or a fold and reasoned about by the least
counterexample (`HasLeast`, or a smallest set), since the prover cannot instantiate a schema
of induction.

**Assumptions.**  Finite sets of members and of the inputs and outputs of a transaction;
an outpoint names its transaction (`OutpointAssumption`); `NULL` is no value of a column and
no set of nodes (`NoneAssumption`); at least three members where quorums intersect (the
network requires it); finality of more than one block for requests; no price of zero
(`PriceSource` refuses it); a migration keeps the host, which is the authority for its peer
table, and adds the joining node (`TargetAssumption`); bounds are natural numbers.  TLC
evaluates all of them in the runs.

**Only model-checked.**  The liveness properties `CallsEnd`, `SyncSettles`, `LoneApprovalSpreads`,
`RequestsSettle`, `ItemsEnd`, `ItemsBurn`, `DiscoveryEnds`, `EyeIsRenewed`, `AssetsSpread` and
`AvailableIsServed`, which are out of the prover's reach, and `RebuildAgrees`, which is not an
invariant for all constants: it rests on how far a node lags and on how many calls fail
(`Reconcile` stores the Storm Eye whatever the node has become since it asked for it), so it holds
for the bounded faults of its run and a proof would have to count them.  `StatusIsConnection`
has a theorem and no run.

## 5. Not modelled

The operator API (challenges, sessions, used nonces): its commands are actions that may
happen at any time.  Covenants and the sparse Merkle tree, which the chain enforces;
encodings, the HTTP servers, metrics, configuration, the command line, the web clients and
the database migrations.

What is left of the plan: the safety of the stored Storm Eye (`RebuildAgrees`) as a theorem, with the
bound on a node's lag that it needs, and the authentication of operators.
