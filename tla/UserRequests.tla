---------------------------- MODULE UserRequests ----------------------------
(***************************************************************************)
(* User requests at the coordinator and the transactions that issue for    *)
(* them (high_storm/user_requests.rs, db/user_request.rs,                  *)
(* external_api/users.rs and fee_utxo.rs, with the parts of mod.rs and     *)
(* main.rs that drive them).                                               *)
(*                                                                         *)
(* A user names an Account output that pays for the request.  The          *)
(* coordinator holds that output for the request, issues for the requests  *)
(* at the head of its queue in one transaction, which peers sign, and      *)
(* follows the transaction until it is final.  The transaction leaves a    *)
(* new Account output per request, the burn reserve: it pays for burning   *)
(* what was issued and must not be spent before that is gone.  A           *)
(* transaction spends and renews a Storm Eye and the reissuance token.     *)
(*                                                                         *)
(* The main loop of the coordinator does one thing at a time; the API, the *)
(* messages that make its index follow the chain, and the Elements node    *)
(* run beside it.  Time is not bounded: blocks are counted by the          *)
(* confirmations that matter, up to Finality.  Blocks deeper than the last *)
(* one are not replaced.                                                   *)
(***************************************************************************)
EXTENDS Naturals, Sequences, FiniteSets, FiniteSetsExt, SequencesExt

CONSTANTS
  Request,     \* the batches of users, numbered by their hash
  Wallet,      \* Account outputs that no issuance made
  Choice,      \* Choice[r]: wallet outputs and requests, whose burn reserve
               \* the user of r may offer for the fee
  Feed,        \* Feed[r]: the price feed that r names, or None
  Size,        \* Size[r]: the weight of r in a transaction
  Eye,         \* the Storm Eyes of the coordinator's lanes
  MaxWeight,   \* max_transaction_weight of a round
  MaxWait,     \* MAX_UNPRICED_REQUEST_BLOCKS
  Finality,    \* finality_confirmations
  MaxTxs,      \* bound: issuances sent
  MaxBehind,   \* bound: blocks mined and not indexed
  MaxFaults,   \* bound: evictions, replaced blocks and interrupted operations
  None

ASSUME RequestAssumption ==
  /\ Request \subseteq Nat \ {0}
  /\ \A r \in Request : Choice[r] \subseteq Wallet \cup Request
ASSUME FinalityAssumption == Finality \in Nat \ {0, 1}
ASSUME BoundAssumption == MaxTxs \in Nat

TxId == 1 .. MaxTxs

(* An Account output: of a wallet, or the burn reserve of a request in an  *)
(* issuance. *)
Coin == [tx : {0}, of : Wallet] \cup [tx : TxId, of : Request]

VARIABLES
  status,    \* status[r] in network_user_requests
  order,     \* the rows, by block_height and request_hash
  age,       \* age[r]: indexed blocks since r was inserted
  coin,      \* coin[r]: the fee UTXO that r names
  held,      \* network_user_request_fee_utxos: the requests with a row
  result,    \* result[r]: the issuance recorded for r, or 0
  checked,   \* requests whose fee was found good, before they are inserted
  seen,      \* the burn reserves in monitored_utxos
  behind,    \* blocks that the coordinator has not indexed
  reorged,   \* it has indexed a block that was replaced
  recovering, \* it rebuilds its index
  loop,      \* what the main loop is doing
  txs,       \* the issuances sent so far
  pool,      \* those in the mempool
  depth,     \* depth[i]: the confirmations of issuance i, up to Finality
  spent,     \* requests whose issued outputs the chain has spent
  last,      \* those spent in the last block
  freed,     \* history: burn reserves whose issued outputs the chain spent
  faults     \* faults so far

rows == <<status, order, age, coin, held, result>>
index == <<seen, behind, reorged, recovering>>
chain == <<txs, pool, depth, spent, last, freed>>
vars == <<rows, checked, index, loop, chain, faults>>

Idle == [pc |-> "idle"]
Open == {"pending", "processing", "included"}

(* The elements of s that are in S. *)
Among(s, S) ==
  LET f[n \in 0 .. Len(s)] == IF n = 0 THEN <<>>
                              ELSE IF s[n] \in S THEN Append(f[n - 1], s[n]) ELSE f[n - 1]
  IN  f[Len(s)]

Rows(states) == Among(order, {r \in Request : status[r] \in states})

-----------------------------------------------------------------------------
(* The Elements node. *)

InChain == {i \in TxId : depth[i] > 0}
Live == pool \cup InChain
Has(i, r) == r \in Range(txs[i].reqs)
Fees(t) == {coin[r] : r \in Range(t.reqs)}
Parents(t) == ({t.token, t.base} \cup {c.tx : c \in Fees(t)}) \ {0}
Conflict(t, u) == \/ t.token = u.token
                  \/ t.eye = u.eye /\ t.base = u.base
                  \/ Fees(t) \cap Fees(u) # {}

(* sendrawtransaction of a transaction that the node does not have. *)
Accepts(t) == /\ Parents(t) \subseteq Live
              /\ \A i \in Live : ~Conflict(t, txs[i])

(* gettxout of an Account output, with the mempool. *)
Exists(c) == c.tx = 0 \/ c.tx \in InChain
Unspent(c, by) == \A i \in by : c \notin Fees(txs[i])
Confirmed(c) == Exists(c) /\ Unspent(c, Live)

(* What the last of the transactions S left behind, 0 when S is empty. *)
LastOf(S, link(_)) == CHOOSE i \in S \cup {0} : \A j \in S : link(j) # i

(* scan_contract_utxos: a Storm Eye as the chain has it, and whether the   *)
(* mempool spends it. *)
EyeBase(e) == LastOf({i \in InChain : txs[i].eye = e}, LAMBDA i : txs[i].base)
EyeIsFree(e) == \A i \in pool : txs[i].eye # e

(* find_token_utxo follows the token through the mempool. *)
Token == LastOf(Live, LAMBDA i : txs[i].token)

(* Variant for sensitivity checking: only for final issuances. *)
ReservedWhenFinal ==
  {[tx |-> i, of |-> r] : i \in {j \in InChain : depth[j] = Finality}, r \in Request}
  \cap {c \in Coin : c.tx \in InChain /\ Has(c.tx, c.of) /\ c.of \notin spent}

(* The burn reserves of the issued outputs in the chain, which the indexer *)
(* keeps in monitored_utxos until they are spent.                          *)
Reserved ==
  {c \in Coin : c.tx \in InChain /\ Has(c.tx, c.of) /\ c.of \notin spent}

-----------------------------------------------------------------------------
(* The user API. *)

Offers(r) == {c \in Coin : c.of \in Choice[r] /\ (c.tx # 0 => c.tx \in InChain /\ Has(c.tx, c.of))}

(* create_request, FeeUtxoValidator::validate. *)
CheckFee(r, c) ==
  /\ status[r] = "absent" /\ r \notin checked
  /\ c \notin seen
  /\ Confirmed(c)
  /\ checked' = checked \cup {r}
  /\ coin' = [coin EXCEPT ![r] = c]
  /\ UNCHANGED <<status, order, age, held, result, index, loop, chain, faults>>

(* Variant for sensitivity checking: whoever else names the output. *)
Insertable(r) == status[r] = "absent"

(* The primary keys: the request hash and the fee UTXO. *)
NoConflict(r) == /\ status[r] = "absent"
                 /\ \A q \in held : coin[q] # coin[r]

(* By block_height, that is the indexed height, then by hash. *)
Place(r) ==
  LET earlier == {q \in Request : age[q] > 0 \/ q < r}
  IN  Append(Among(order, earlier), r) \o Among(order, Request \ earlier)

(* insert_pending, in one transaction. *)
Insert(r) ==
  /\ r \in checked
  /\ checked' = checked \ {r}
  /\ IF NoConflict(r)
     THEN /\ status' = [status EXCEPT ![r] = "pending"]
          /\ order' = Place(r)
          /\ held' = held \cup {r}
          /\ UNCHANGED coin
     ELSE /\ coin' = [coin EXCEPT ![r] = None]
          /\ UNCHANGED <<status, order, held>>
  /\ UNCHANGED <<age, result, index, loop, chain, faults>>

-----------------------------------------------------------------------------
(* The queue. *)

(* mark_failed, which releases the fee UTXO. *)
Fail(S) ==
  /\ status' = [r \in Request |-> IF r \in S THEN "failed" ELSE status[r]]
  /\ held' = held \ S

(* The rate that the round has or would get with r: another feed, or a     *)
(* feed without a value, keeps r waiting.                                  *)
Priceable(r, rate, priced) ==
  Feed[r] # None => IF rate = None THEN Feed[r] \in priced ELSE Feed[r] = rate

WaitedTooLong(r) == Feed[r] # None /\ age[r] > MaxWait

(* Not reserved, confirmed and unspent, of the right asset and owner. *)
Payable(r) == coin[r] \notin seen /\ Confirmed(coin[r])

(* One row of the scan, whose result so far is s. *)
Consider(s, r, priced) ==
  IF WaitedTooLong(r) THEN [s EXCEPT !.failed = @ \cup {r}]
  ELSE IF ~Priceable(r, s.rate, priced) THEN s
  ELSE IF ~Payable(r) THEN [s EXCEPT !.failed = @ \cup {r}]
  ELSE [taken |-> Append(s.taken, r), failed |-> s.failed,
        rate |-> IF Feed[r] = None THEN s.rate ELSE Feed[r]]

Scan(priced) ==
  LET queue == Rows({"pending"})
      scan[n \in 0 .. Len(queue)] == IF n = 0 THEN [taken |-> <<>>, failed |-> {}, rate |-> None]
                                     ELSE Consider(scan[n - 1], queue[n], priced)
  IN  scan[Len(queue)]

Weight(s) == FoldLeft(LAMBDA w, r : w + Size[r], 0, s)

(* The longest prefix that fits; the search for it is in module Rounds. *)
Fitting(taken) ==
  LET fits == {n \in 0 .. Len(taken) : n = 0 \/ Weight(SubSeq(taken, 1, n)) <= MaxWeight}
  IN SubSeq(taken, 1, Max(fits))

(* prepare_round on one of the coordinator's lanes.  Requests that cannot  *)
(* be issued fail, the first one also when it is too heavy by itself.      *)
Prepare(e, priced) ==
  LET scan  == Scan(priced)
      reqs  == Fitting(scan.taken)
      heavy == IF scan.taken # <<>> /\ reqs = <<>> THEN {Head(scan.taken)} ELSE {} IN
  /\ loop = Idle /\ ~recovering
  /\ Rows({"pending"}) # <<>>
  /\ EyeIsFree(e)
  /\ Fail(scan.failed \cup heavy)
  /\ loop' = IF reqs = <<>> THEN Idle
             ELSE [pc |-> "anchor",
                   tx |-> [reqs |-> reqs, eye |-> e, base |-> EyeBase(e), token |-> Token]]
  /\ UNCHANGED <<order, age, coin, result, checked, index, chain, faults>>

(* require_unreserved_anchored_fee_utxos against the index of a node. *)
Anchored(t, reserved) ==
  \A c \in Fees(t) : c \notin reserved /\ Exists(c) /\ Unspent(c, InChain)

(* The tip of the index is that of the chain. *)
Current == behind = 0 /\ ~reorged /\ ~recovering

(* The round takes the indexed tip for its anchor and validates the        *)
(* request as a signer would; peers whose chain has another tip refuse it. *)
Anchor ==
  /\ loop.pc = "anchor"
  /\ loop' = IF Anchored(loop.tx, seen)
             THEN [pc |-> "sign", tx |-> loop.tx, tip |-> Current]
             ELSE Idle
  /\ UNCHANGED <<rows, checked, index, chain, faults>>

(* The peers, which index the anchor first, sign; or they refuse.  Then    *)
(* the coordinator checks the signatures and the witnesses.                *)
Sign ==
  /\ loop.pc = "sign" /\ loop.tip
  /\ loop' = IF Anchored(loop.tx, Reserved) THEN [pc |-> "send", tx |-> loop.tx] ELSE Idle
  /\ UNCHANGED <<rows, checked, index, chain, faults>>

(* The peers do not sign at another tip, or refuse the rate. *)
Refuse ==
  /\ loop.pc = "sign" /\ (~loop.tip \/ \E r \in Range(loop.tx.reqs) : Feed[r] # None)
  /\ loop' = Idle
  /\ UNCHANGED <<rows, checked, index, chain, faults>>

(* finalize_and_broadcast up to sendrawtransaction. *)
Send ==
  LET id == Len(txs) + 1 IN
  /\ loop.pc = "send" /\ id <= MaxTxs
  /\ IF Accepts(loop.tx)
     THEN /\ txs' = Append(txs, loop.tx)
          /\ pool' = pool \cup {id}
          /\ loop' = [pc |-> "mark", todo |-> loop.tx.reqs, id |-> id]
     ELSE /\ loop' = Idle
          /\ UNCHANGED <<txs, pool>>
  /\ UNCHANGED <<rows, checked, index, depth, spent, last, freed, faults>>

(* mark_processing, one request after the other. *)
MarkProcessing ==
  LET r == Head(loop.todo) IN
  /\ loop.pc = "mark"
  /\ status' = [status EXCEPT ![r] = "processing"]
  /\ result' = [result EXCEPT ![r] = loop.id]
  /\ loop' = IF Len(loop.todo) = 1 THEN Idle ELSE [loop EXCEPT !.todo = Tail(@)]
  /\ UNCHANGED <<order, age, coin, held, checked, index, chain, faults>>

-----------------------------------------------------------------------------
(* reconcile_confirmations, one request after the other. *)

(* Variant for sensitivity checking: not those that wait for a block. *)
IncludedOnly == {"included"}

(* list_processing. *)
Followed == {"processing", "included"}

StartReconcile ==
  /\ loop = Idle
  /\ Rows(Followed) # <<>>
  /\ loop' = [pc |-> "reconcile", todo |-> Rows(Followed)]
  /\ UNCHANGED <<rows, checked, index, chain, faults>>

Rest == IF Len(loop.todo) = 1 THEN Idle ELSE [pc |-> "reconcile", todo |-> Tail(loop.todo)]

(* mark_orphaned. *)
Orphan(r) == status' = [status EXCEPT ![r] = "processing"]

(* The node does not know the transaction: it is sent again, and the pass  *)
(* ends when that fails.                                                   *)
Resend ==
  LET r == Head(loop.todo)
      i == result[r] IN
  /\ loop.pc = "reconcile" /\ i \notin Live
  /\ Orphan(r)
  /\ IF Accepts(txs[i]) THEN pool' = pool \cup {i} /\ loop' = Rest
                        ELSE loop' = Idle /\ UNCHANGED pool
  /\ UNCHANGED <<order, age, coin, held, result, checked, index,
                 txs, depth, spent, last, freed, faults>>

AwaitBlock ==
  LET r == Head(loop.todo) IN
  /\ loop.pc = "reconcile" /\ result[r] \in pool
  /\ Orphan(r)
  /\ loop' = Rest
  /\ UNCHANGED <<order, age, coin, held, result, checked, index, chain, faults>>

(* Variant for sensitivity checking: one confirmation too few. *)
FinalEarly(i) == depth[i] + 1 >= Finality

IsFinal(i) == depth[i] >= Finality

(* mark_included.  What has confirmations enough is marked again. *)
Include ==
  LET r == Head(loop.todo)
      i == result[r] IN
  /\ loop.pc = "reconcile" /\ i \in InChain
  /\ status' = [status EXCEPT ![r] = "included"]
  /\ loop' = IF IsFinal(i) THEN [pc |-> "execute", todo |-> loop.todo] ELSE Rest
  /\ UNCHANGED <<order, age, coin, held, result, checked, index, chain, faults>>

(* mark_executed, which releases the fee UTXO, unless the index has taken  *)
(* back the inclusion meanwhile.                                           *)
Execute ==
  LET r == Head(loop.todo)
      S == IF status[r] = "included" THEN {r} ELSE {} IN
  /\ loop.pc = "execute"
  /\ status' = [q \in Request |-> IF q \in S THEN "executed" ELSE status[q]]
  /\ held' = held \ S
  /\ loop' = Rest
  /\ UNCHANGED <<order, age, coin, result, checked, index, chain, faults>>

Reconcile == StartReconcile \/ Resend \/ AwaitBlock \/ Include \/ Execute

(* An operation of the main loop fails, or the coordinator restarts. *)
Interrupt ==
  /\ loop # Idle
  /\ faults < MaxFaults
  /\ faults' = faults + 1
  /\ loop' = Idle
  /\ UNCHANGED <<rows, checked, index, chain>>

-----------------------------------------------------------------------------
(* The index, and the chain. *)

(* sync, in the main loop or for a message.  After a reorganisation, or    *)
(* when the last attempt failed, it forgets what it has indexed and which  *)
(* requests were included (reset_projections).                             *)
Reset ==
  /\ reorged \/ recovering
  /\ recovering' = TRUE /\ reorged' = FALSE
  /\ seen' = {}
  /\ status' = [r \in Request |-> IF status[r] = "included" THEN "processing" ELSE status[r]]
  /\ UNCHANGED <<order, age, coin, held, result, checked, behind, loop, chain, faults>>

(* The reserves in the blocks below the last one. *)
Older == {c \in Coin : /\ c.tx \in InChain /\ depth[c.tx] > 1 /\ Has(c.tx, c.of)
                       /\ c.of \notin spent \ last}

(* Then it indexes one block after the other again: all but the last one,  *)
(* while rounds that had begun, the reconciliation and users go on.        *)
Reindex ==
  /\ recovering /\ seen # Older
  /\ seen' = Older
  /\ UNCHANGED <<rows, checked, behind, reorged, recovering, loop, chain, faults>>

(* The last of the blocks that the coordinator has not indexed. *)
Index ==
  /\ ~reorged /\ (behind > 0 \/ recovering)
  /\ seen' = Reserved
  /\ behind' = 0 /\ recovering' = FALSE
  /\ age' = [r \in Request |-> IF status[r] = "absent" THEN 0
                               ELSE Min({age[r] + behind, MaxWait + 1})]
  /\ UNCHANGED <<status, order, coin, held, result, reorged, checked, loop, chain, faults>>

Sync == Reset \/ Reindex \/ Index

NewTip == loop' = IF loop.pc = "sign" THEN [loop EXCEPT !.tip = FALSE] ELSE loop

(* A block takes the mempool, or nothing of it; users or the network spend *)
(* what was issued for the requests gone.                                  *)
Mine(taken, gone) ==
  /\ behind < MaxBehind
  /\ behind' = behind + 1
  /\ depth' = [i \in TxId |-> IF i \in taken THEN 1
                              ELSE IF depth[i] = 0 THEN 0 ELSE Min({depth[i] + 1, Finality})]
  /\ pool' = pool \ taken
  /\ spent' = spent \cup gone
  /\ last' = gone
  /\ freed' = freed \cup {c \in Reserved : c.of \in gone}
  /\ NewTip
  /\ UNCHANGED <<rows, checked, seen, reorged, recovering, txs, faults>>

(* The last block is replaced by an empty one. *)
Replace ==
  LET lost == {i \in InChain : depth[i] = 1} IN
  /\ faults < MaxFaults /\ lost \cup last # {}
  /\ faults' = faults + 1
  /\ depth' = [i \in TxId |-> IF i \in lost THEN 0 ELSE depth[i]]
  /\ pool' = pool \cup lost
  /\ spent' = spent \ last /\ last' = {}
  /\ reorged' = (reorged \/ Current)
  /\ NewTip
  /\ UNCHANGED <<rows, checked, seen, behind, recovering, txs, freed>>

(* The mempool without i and what depends on it. *)
Without(i) ==
  UNION {S \in SUBSET (pool \ {i}) : \A j \in S : Parents(txs[j]) \subseteq S \cup InChain}

Evict(i) ==
  /\ faults < MaxFaults
  /\ faults' = faults + 1
  /\ pool' = Without(i)
  /\ UNCHANGED <<rows, checked, index, loop, txs, depth, spent, last, freed>>

-----------------------------------------------------------------------------
Init ==
  /\ status = [r \in Request |-> "absent"]
  /\ order = <<>>
  /\ age = [r \in Request |-> 0]
  /\ coin = [r \in Request |-> None]
  /\ held = {} /\ checked = {}
  /\ result = [r \in Request |-> 0]
  /\ seen = {} /\ behind = 0 /\ reorged = FALSE /\ recovering = FALSE
  /\ loop = Idle
  /\ txs = <<>> /\ pool = {}
  /\ depth = [i \in TxId |-> 0]
  /\ spent = {} /\ last = {} /\ freed = {}
  /\ faults = 0

Issue == Anchor \/ Sign \/ Refuse \/ Send \/ MarkProcessing

API(r) == Insert(r) \/ \E c \in Offers(r) : CheckFee(r, c)

Priced == SUBSET ({Feed[r] : r \in Request} \ {None})
Round == \E e \in Eye, priced \in Priced : Prepare(e, priced)

Spendable == {c.of : c \in {d \in Reserved : depth[d.tx] > 0}}

Next ==
  \/ \E r \in Request : API(r)
  \/ Round
  \/ Issue
  \/ Reconcile
  \/ Interrupt
  \/ Sync
  \/ \E taken \in {{}, pool} : \E gone \in {{}} \cup {{r} : r \in Spendable} : Mine(taken, gone)
  \/ Replace
  \/ \E i \in pool : Evict(i)

Spec == Init /\ [][Next]_vars

(* The ticks of the main loop are served in turn, rounds are scheduled     *)
(* when a block has been indexed, a round that has started goes on, and    *)
(* blocks are made with what waits for them.  A block comes a minute after *)
(* the other, and rounds are short against that.                           *)
Fairness ==
  /\ SF_vars(StartReconcile)
  /\ SF_vars(Current /\ Round) /\ SF_vars(Current /\ Anchor) /\ SF_vars(Sign)
  /\ SF_vars(Current /\ Refuse)
  /\ WF_vars(Issue \/ Resend \/ AwaitBlock \/ Include \/ Execute)
  /\ WF_vars(Reset /\ reorged) /\ WF_vars(Index)
  /\ SF_vars(Mine(pool, {}))

FairSpec == Spec /\ Fairness

-----------------------------------------------------------------------------
TypeOK ==
  /\ status \in [Request -> Open \cup {"absent", "executed", "failed"}]
  /\ Range(order) = {r \in Request : status[r] # "absent"} /\ IsInjective(order)
  /\ age \in [Request -> 0 .. MaxWait + 1]
  /\ coin \in [Request -> Coin \cup {None}]
  /\ held \subseteq Request /\ checked \subseteq Request
  /\ \A r \in Request : /\ result[r] \in 0 .. Len(txs)
                        /\ status[r] \in {"absent", "pending"} => result[r] = 0
  /\ seen \subseteq Coin /\ freed \subseteq Coin
  /\ behind \in 0 .. MaxBehind /\ {reorged, recovering} \subseteq BOOLEAN
  /\ loop.pc \in {"idle", "anchor", "sign", "send", "mark", "reconcile", "execute"}
  /\ Len(txs) <= MaxTxs
  /\ pool \subseteq DOMAIN txs
  /\ depth \in [TxId -> 0 .. Finality]
  /\ last \subseteq spent /\ spent \subseteq Request
  /\ faults \in 0 .. MaxFaults

(* As long as a request is open, and no longer, its fee UTXO is held for   *)
(* it, and for no other request (insert_pending, mark_failed,              *)
(* mark_executed).  The API looks at the fee before it inserts, and other  *)
(* requests are inserted in between.                                       *)
FeesAreHeld ==
  /\ held = {r \in Request : status[r] \in Open}
  /\ \A r, q \in held : r # q => coin[r] # coin[q]

(* An executed request is in a block that cannot be replaced any more,     *)
(* with the issuance that its user was told of (reconcile_confirmations).  *)
ExecutedIsFinal ==
  \A r \in Request : status[r] = "executed" =>
    /\ result[r] \in InChain /\ depth[result[r]] = Finality
    /\ Has(result[r], r)

(* A burn reserve pays for another issuance only after the outputs it is   *)
(* for have been spent, be it in a block that is replaced later            *)
(* (require_unreserved_anchored_fee_utxos, is_reserved_for_burning).       *)
ReservesAreKept ==
  \A i \in Live : \A c \in Fees(txs[i]) : c.tx = 0 \/ c \in freed

(* Without faults, every request that names no feed is executed or failed  *)
(* in the end (the queue, the rounds and the reconciliation together).     *)
RequestsSettle ==
  \/ <>(faults > 0)
  \/ \A r \in Request : Feed[r] = None =>
       (status[r] = "pending" ~> status[r] \in {"executed", "failed"})

(* A request that has failed was not issued. *)
FailedIsNotIssued ==
  \A i \in InChain : \A r \in Range(txs[i].reqs) : status[r] # "failed"

(* A request whose issuance is final becomes executed. *)
FinalIsExecuted ==
  \A r \in Request :
    (result[r] # 0 /\ result[r] \in InChain /\ depth[result[r]] = Finality)
      ~> status[r] = "executed"
=============================================================================
