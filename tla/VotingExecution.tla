-------------------------- MODULE VotingExecution --------------------------
(***************************************************************************)
(* The execution of approved votes (high_storm/voting_execution.rs, the    *)
(* execution part of high_storm/mod.rs and of handler.rs, and the columns  *)
(* of voting_requests behind it, db/voting.rs).                            *)
(*                                                                         *)
(* A member prepares the transaction of an approved vote, marks the vote   *)
(* as started, has the transaction signed by its peers, records it, sends  *)
(* it and announces it.  A peer that signs marks the vote as well, a peer  *)
(* that is told of the final transaction records it.  Every ten seconds a  *)
(* node compares what it recorded with the chain.                          *)
(*                                                                         *)
(* The statements of one node are the steps: the attempt of the operator,  *)
(* the handlers of messages and the reconciliation run at the same time    *)
(* and meet in the row of the vote and in the lock on its proposer's       *)
(* Droplets.  The nodes agree on the chain, which is indexed at once, and  *)
(* on the mempool; what a node has recorded and not sent is known to it    *)
(* alone.  The outputs of an executed vote are not voted on again.         *)
(***************************************************************************)
EXTENDS Naturals, Sequences, FiniteSets, FiniteSetsExt

CONSTANTS
  Node,        \* the members
  Threshold,   \* signers of a branch of the Storm Tree
  Vote,        \* the votes, numbered in the order of the table
  Kind,        \* Kind[v]: "reshape", a merge or a split, or "members"
  Subject,     \* Subject[v]: the Storm Eyes that v reshapes
  Proposer,    \* Proposer[v]: the member that made v and pays for it
  Eye,         \* the Storm Eye outputs
  Coin,        \* the Treasury outputs, numbered in the order of the index
  Finality,    \* finality_confirmations
  MaxMined,    \* bound: blocks mined in a behaviour
  Taken,       \* bound: Treasury outputs that other transactions spend
  MaxTasks,    \* bound: operations and passes under way at the same time
  MaxRunning,  \* bound: those that do not wait for signatures
  None         \* a column that is NULL

ASSUME VoteAssumption ==
  /\ Vote = 1 .. Cardinality(Vote)
  /\ \A v \in Vote : /\ Kind[v] \in {"reshape", "members"}
                     /\ Subject[v] \subseteq Eye
                     /\ Proposer[v] \in Node
ASSUME NodeAssumption == IsFiniteSet(Node) /\ Threshold \in Nat
ASSUME CoinAssumption == Coin \subseteq Nat \ {0}
ASSUME FinalityAssumption == Finality \in Nat \ {0}

(* An unsigned transaction, by what it spends: the Storm Eyes and the      *)
(* Treasury output that pays the fee.  Vote 0: an exchange of Droplets.    *)
Tx == [vote : Vote \cup {0}, eyes : SUBSET Eye, fee : Coin]

(* A finalized ExecuteVotingRequest: its executor and its chain anchor. *)
Final == [tx : Tx, by : Node, tip : Nat]

(* The columns execution_started, _transaction, _request with _txid,       *)
(* _included_block_hash and _confirmed of a vote.                          *)
Row == [started : BOOLEAN, tx : Tx \cup {None}, sent : Final \cup {None},
        included : BOOLEAN, confirmed : BOOLEAN]

ASSUME NoneAssumption == None \notin Tx \cup Final

(* A block, with its identity and its transactions. *)
Block == [id : Nat, txs : SUBSET Tx]

(* An operation of a node on its row: the attempt of its operator, the     *)
(* handler of a peer's signing request, or of a notice; the statement that *)
(* comes next, and who has signed so far.  "restart" and "relock" are      *)
(* "start" and "lock" of an operation that read its own transaction in the *)
(* row, and of one that did not change the row; "give up" is "unlock"      *)
(* after a failure.                                                        *)
Task == [kind : {"own", "peer", "notice"}, request : Final,
         pc : {"cancel", "unlock", "give up", "start", "restart", "lock", "relock",
               "revert", "signing", "record", "send"},
         signers : SUBSET Node]

(* How far the running pass of the reconciliation is with a vote: idle, or *)
(* by what it found on the chain; "stopped": it ended between the pause    *)
(* and the row of a vote.                                                  *)
Progress == {"idle", "nothing", "block", "final", "confirm", "stopped"}

VARIABLES
  chain,     \* the blocks, with an identity and the transactions they hold
  mined,     \* blocks mined so far
  settled,   \* the height up to which blocks can no longer be replaced
  pool,      \* the mempool of the Elements nodes
  approved,  \* approved[n]: the votes that n holds for approved
  row,       \* row[n][v]
  lock,      \* lock[n][p]: what p's Droplets are locked for, droplets.last_tx
  tasks,     \* tasks[n]: the operations that are running
  paused,    \* paused[n]: migration_paused
  pass       \* pass[n][v]: the reconciliation of v at n

chainVars == <<chain, mined, settled>>
vars == <<chain, mined, settled, pool, approved, row, lock, tasks,
          paused, pass>>

EmptyRow == [started |-> FALSE, tx |-> None, sent |-> None, included |-> FALSE,
             confirmed |-> FALSE]

-----------------------------------------------------------------------------
(* The chain and the mempools. *)

TxsOf(blocks) == UNION {blocks[i].txs : i \in DOMAIN blocks}
Conflict(t, u) == t # u /\ (t.eyes \cap u.eyes # {} \/ t.fee = u.fee)
EyesOf(txs) == UNION {t.eyes : t \in txs}
FeesOf(txs) == {t.fee : t \in txs}

TipId(blocks) == IF blocks = <<>> THEN 0 ELSE blocks[Len(blocks)].id
Canonical(id) == id = 0 \/ \E i \in DOMAIN chain : chain[i].id = id

(* transaction_confirmation: the height of the block of t. *)
Heights(t) == {i \in DOMAIN chain : t \in chain[i].txs}
Confirmed(t) == Heights(t) # {}
Confirmations(t) == Len(chain) + 1 - Min(Heights(t))

(* sendrawtransaction, and the second look at the mempool and the chain. *)
Accepts(t) == \/ t \in pool \cup TxsOf(chain)
              \/ \A u \in pool \cup TxsOf(chain) : ~Conflict(t, u)
Accept(t) == IF t \in TxsOf(chain) THEN pool ELSE pool \cup {t}

LiveEyes == Eye \ EyesOf(TxsOf(chain) \cup pool)
LiveCoins == Coin \ FeesOf(TxsOf(chain) \cup pool)
IndexedCoins == Coin \ FeesOf(TxsOf(chain))

(* scan_storm_eye_utxos: what the chain holds, none of it spent in the     *)
(* mempool; otherwise the scan fails.                                      *)
Unspent == Eye \ EyesOf(TxsOf(chain))
ScanWorks == Unspent \subseteq LiveEyes

-----------------------------------------------------------------------------
(* The transaction of a vote. *)

(* operation_utxos: the Storm Eyes to spend, all live at n. *)
Operands(v) == IF Kind[v] = "members" THEN Unspent ELSE Subject[v]

(* prepare_transaction: the Storm Eyes and the first Treasury output that  *)
(* is indexed and live; no transaction when one of them is missing.        *)
Prepared(v) ==
  LET coins == IndexedCoins \cap LiveCoins
      eyes  == Operands(v) IN
  IF coins = {} \/ eyes = {} \/ ~(eyes \subseteq LiveEyes) THEN {}
  ELSE {[vote |-> v, eyes |-> eyes, fee |-> Min(coins)]}

(* validate_layout of a signing request: the inputs are the approved ones, *)
(* live and indexed.                                                       *)
Valid(t) ==
  /\ t.eyes = Operands(t.vote) /\ t.eyes # {} /\ t.eyes \subseteq LiveEyes
  /\ t.fee \in IndexedCoins \cap LiveCoins

(* validate_layout of a notice: the inputs may be spent, and not indexed   *)
(* when the transaction is confirmed.                                      *)
ValidFinal(t) ==
  /\ IF Kind[t.vote] = "members"
     THEN ScanWorks /\ (Unspent # {} => t.eyes = Unspent)
     ELSE t.eyes = Subject[t.vote]
  /\ t.fee \in IndexedCoins \/ Confirmed(t)

-----------------------------------------------------------------------------
(* The statements on the row of a vote and on the lock of its proposer. *)

(* require_retryable. *)
Retryable(n, v) == /\ ~row[n][v].confirmed
                   /\ row[n][v].sent = None
                   /\ v \in approved[n]

(* require_approved_or_executing. *)
Finalizable(n, t) == /\ Retryable(n, t.vote)
                     /\ row[n][t.vote].started => row[n][t.vote].tx = t

(* The first statement of begin and of observe_broadcast: an execution of  *)
(* another transaction is cancelled.                                       *)
FirstStep(n, t, otherwise) ==
  IF row[n][t.vote].started /\ row[n][t.vote].tx # t THEN "cancel"
  ELSE IF otherwise = "start" /\ row[n][t.vote].tx = t THEN "restart"
  ELSE otherwise

(* A pass is with one vote at a time. *)
Idle(n) == \A v \in Vote : pass[n][v] \in {"idle", "stopped"}

(* The bounds on what happens at the same time. *)
Passing == Cardinality({n \in Node : ~Idle(n)})
Waiting == MapThenSumSet(LAMBDA n : Cardinality({k \in tasks[n] : k.pc = "signing"}), Node)
Running == MapThenSumSet(LAMBDA n : Cardinality({k \in tasks[n] : k.pc # "signing"}), Node)
Busy == Running + Passing >= MaxRunning \/ Waiting + Running + Passing >= MaxTasks
Attempting(n, v) == \E k \in tasks[n] : k.kind = "own" /\ k.request.tx.vote = v

Spawn(n, kind, request, first) ==
  tasks' = [tasks EXCEPT ![n] = @ \cup
    {[kind |-> kind, request |-> request,
      pc |-> FirstStep(n, request.tx, first), signers |-> {request.by}]}]

Goto(n, k, pc) == tasks' = [tasks EXCEPT ![n] = (@ \ {k}) \cup {[k EXCEPT !.pc = pc]}]
Finish(n, k) == tasks' = [tasks EXCEPT ![n] = @ \ {k}]

SetRow(n, v, r) == row' = [row EXCEPT ![n][v] = r]

(* execute_voting_request_inner up to the reads of begin.  (Bound: none    *)
(* after the last block, which could not be included any more.)            *)
Attempt(n, v) ==
  /\ ~Attempting(n, v)
  /\ ~Busy /\ mined < MaxMined
  /\ Retryable(n, v)
  /\ \E t \in Prepared(v) :
       Spawn(n, "own", [tx |-> t, by |-> n, tip |-> TipId(chain)], "start")

(* The operator of n asks for the execution. *)
Execute(n, v) == /\ ~paused[n]
                 /\ Attempt(n, v)
                 /\ UNCHANGED <<chainVars, pool, approved, row, lock,
                                paused, pass>>

(* The handler of a signing request of m, whose chain must be n's. *)
HandleRequest(n, m, k) ==
  /\ k.kind = "own" /\ k.pc = "signing"
  /\ n # m /\ n \notin k.signers /\ ~paused[n] /\ ~Busy
  /\ k.request.tip = TipId(chain)
  /\ Retryable(n, k.request.tx.vote)
  /\ Valid(k.request.tx)
  /\ Spawn(n, "peer", k.request, "start")
  /\ UNCHANGED <<chainVars, pool, approved, row, lock, paused, pass>>

(* What n may be told, whenever and as often: a node announces what it has *)
(* recorded, and answers questions about missing executions with it.       *)
Told(n) == {row[m][v].sent : m \in Node \ {n}, v \in Vote} \ {None}

(* The handler of a notice, whose anchor must be canonical.  A request     *)
(* that n has recorded is sent again, any other is refused then.           *)
HandleNotice(n, f) ==
  /\ ~paused[n] /\ ~row[n][f.tx.vote].confirmed
  /\ Canonical(f.tip)
  /\ \/ /\ row[n][f.tx.vote].sent = f
        /\ Accepts(f.tx)
        /\ pool' = Accept(f.tx)
        /\ UNCHANGED tasks
     \/ /\ Retryable(n, f.tx.vote) /\ ~Busy
        /\ ValidFinal(f.tx)
        /\ Spawn(n, "notice", f, "record")
        /\ UNCHANGED pool
  /\ UNCHANGED <<chainVars, approved, row, lock, paused, pass>>

-----------------------------------------------------------------------------
(* The steps of an operation k of n, in their order. *)

rest == <<chainVars, pool, approved, paused, pass>>

(* cancel_execution: no change to a row with a transaction id. *)
Cancelled(r) == IF r.sent = None THEN [r EXCEPT !.started = FALSE, !.tx = None] ELSE r

(* cancel_execution of cancel, whose error is returned after the unlock. *)
Cancel(n, k) ==
  LET v == k.request.tx.vote IN
  /\ k.pc = "cancel"
  /\ SetRow(n, v, Cancelled(row[n][v]))
  /\ Goto(n, k, IF row[n][v].sent # None THEN "give up" ELSE "unlock")
  /\ UNCHANGED <<lock, rest>>

(* unlock_exchange of cancel: the lock goes, whatever it was for. *)
Unlock(n, k) ==
  /\ k.pc \in {"unlock", "give up"}
  /\ lock' = [lock EXCEPT ![n][Proposer[k.request.tx.vote]] = None]
  /\ IF k.pc = "give up" THEN Finish(n, k)
     ELSE Goto(n, k, IF k.kind = "notice" THEN "record" ELSE "start")
  /\ UNCHANGED <<row, rest>>

(* A peer signs, if the executor still waits for it. *)
Sign(n, k) ==
  tasks' = [m \in Node |->
    IF m = n THEN tasks[m] \ {k}
    ELSE {IF j.kind = "own" /\ j.pc = "signing" /\ j.request = k.request
          THEN [j EXCEPT !.signers = @ \cup {n}] ELSE j : j \in tasks[m]}]

(* start_execution changes a row that no other operation has started. *)
Startable(n, t) == /\ t.vote \in approved[n]
                   /\ ~row[n][t.vote].started
                   /\ row[n][t.vote].sent = None

(* lock_exchange, for the same transaction as often as it likes. *)
Lockable(n, t) == lock[n][Proposer[t.vote]] \in {None, t}

(* start_execution; a row with the same transaction may stay as it is. *)
Start(n, k) ==
  LET t == k.request.tx IN
  /\ k.pc \in {"start", "restart"}
  /\ IF Startable(n, t)
     THEN /\ SetRow(n, t.vote, [row[n][t.vote] EXCEPT !.started = TRUE, !.tx = t])
          /\ Goto(n, k, "lock")
     ELSE /\ IF k.pc = "restart" THEN Goto(n, k, "relock") ELSE Finish(n, k)
          /\ UNCHANGED row
  /\ UNCHANGED <<lock, rest>>

(* lock_exchange.  Then the executor waits for its peers, and a peer       *)
(* signs; without the lock what the operation started is cancelled.        *)
Lock(n, k) ==
  LET t == k.request.tx IN
  /\ k.pc \in {"lock", "relock"}
  /\ IF Lockable(n, t)
     THEN /\ lock' = [lock EXCEPT ![n][Proposer[t.vote]] = t]
          /\ IF k.kind = "own" THEN Goto(n, k, "signing") ELSE Sign(n, k)
     ELSE /\ IF k.pc = "lock" THEN Goto(n, k, "revert") ELSE Finish(n, k)
          /\ UNCHANGED lock
  /\ UNCHANGED <<row, rest>>

(* cancel_execution after lock_exchange failed: whoever holds the row by   *)
(* now loses it.                                                           *)
Revert(n, k) ==
  LET v == k.request.tx.vote IN
  /\ k.pc = "revert"
  /\ SetRow(n, v, Cancelled(row[n][v]))
  /\ Finish(n, k)
  /\ UNCHANGED <<lock, rest>>

(* Variant for sensitivity checking: one signer too few. *)
EnoughButOne(k) == Cardinality(k.signers) + 1 >= Threshold

Enough(k) == Cardinality(k.signers) >= Threshold

(* The signatures are complete: prepare_finalization builds the            *)
(* transaction once more and finalize puts the witnesses in.               *)
Finalize(n, k) ==
  /\ k.pc = "signing"
  /\ Enough(k)
  /\ IF Finalizable(n, k.request.tx) /\ k.request.tx \in Prepared(k.request.tx.vote)
     THEN Goto(n, k, "record") ELSE Finish(n, k)
  /\ UNCHANGED <<row, lock, rest>>

(* An operation ends before its time: the signing session times out, the   *)
(* Elements node or the database fails, or the node restarts.  The         *)
(* database stays as it is.                                                *)
Abort(n, k) ==
  /\ Finish(n, k)
  /\ UNCHANGED <<row, lock, rest>>

(* Variant for sensitivity checking: a recorded transaction is replaced. *)
RecordableAgain(r, t) == ~r.confirmed

Recordable(r, t) == /\ ~r.confirmed
                    /\ r.tx \in {None, t}
                    /\ r.sent = None \/ r.sent.tx = t

RecordBroadcast(n, k) ==
  LET t == k.request.tx
      r == row[n][t.vote] IN
  /\ k.pc = "record"
  /\ IF t.vote \in approved[n] /\ Recordable(r, t)
     THEN /\ SetRow(n, t.vote, [r EXCEPT !.started = TRUE, !.tx = t, !.sent = k.request])
          /\ Goto(n, k, "send")
     ELSE Finish(n, k) /\ UNCHANGED row
  /\ UNCHANGED <<lock, rest>>

(* broadcast; what could be sent is announced. *)
Broadcast(n, k) ==
  /\ k.pc = "send"
  /\ Finish(n, k)
  /\ pool' = IF Accepts(k.request.tx) THEN Accept(k.request.tx) ELSE pool
  /\ UNCHANGED <<chainVars, approved, row, lock, paused, pass>>

Statement(n, k) ==
  \/ Cancel(n, k) \/ Unlock(n, k) \/ Start(n, k) \/ Lock(n, k) \/ Revert(n, k)
  \/ Finalize(n, k) \/ RecordBroadcast(n, k) \/ Broadcast(n, k) \/ Abort(n, k)

-----------------------------------------------------------------------------
(* reconcile_voting_executions, one vote at a time. *)

others == <<chainVars, approved, lock, tasks>>

Pending(n, v) == row[n][v].sent # None /\ ~row[n][v].confirmed

(* A pass ends at the first vote whose transaction cannot be sent. *)
Reached(n, v) ==
  \A u \in Vote : u < v /\ Pending(n, u) => Accepts(row[n][u].sent.tx)

(* Variant for sensitivity checking: the flag is only ever set. *)
PauseOnly(n, v, on) ==
  paused' = IF Kind[v] = "members" THEN [paused EXCEPT ![n] = @ \/ on] ELSE paused

Pause(n, v, on) == paused' = IF Kind[v] = "members" THEN [paused EXCEPT ![n] = on] ELSE paused

(* Variant for sensitivity checking: one confirmation too few. *)
FinalEarly(t) == Confirmations(t) + 1 >= Finality

IsFinal(t) == Confirmations(t) >= Finality

Found(t) == IF ~Confirmed(t) THEN "nothing" ELSE IF IsFinal(t) THEN "final" ELSE "block"

(* transaction_confirmation, and the pause that follows from it. *)
Look(n, v) ==
  LET t == row[n][v].sent.tx IN
  /\ Idle(n) /\ ~Busy
  /\ Pending(n, v) /\ Reached(n, v)
  /\ Pause(n, v, Confirmed(t))
  /\ pass' = [pass EXCEPT ![n][v] = Found(t)]
  /\ UNCHANGED <<others, row, pool>>

(* mark_orphaned; the transaction is sent and announced again. *)
MarkOrphaned(n, v) ==
  LET t == row[n][v].sent.tx IN
  /\ pass[n][v] = "nothing"
  /\ SetRow(n, v, [row[n][v] EXCEPT !.included = FALSE])
  /\ pool' = IF Accepts(t) THEN Accept(t) ELSE pool
  /\ pass' = [pass EXCEPT ![n][v] = "idle"]
  /\ UNCHANGED <<others, paused>>

(* mark_included; announced again until it is final. *)
MarkIncluded(n, v) ==
  /\ pass[n][v] \in {"block", "final"}
  /\ SetRow(n, v, [row[n][v] EXCEPT !.included = TRUE])
  /\ pass' = [pass EXCEPT ![n][v] = IF @ = "final" THEN "confirm" ELSE "idle"]
  /\ UNCHANGED <<others, pool, paused>>

(* confirm, or activate_member_migration, which ends the pause; the block  *)
(* it compares again is too deep to be another one.                        *)
Confirm(n, v) ==
  /\ pass[n][v] = "confirm"
  /\ SetRow(n, v, [row[n][v] EXCEPT !.confirmed = TRUE, !.started = FALSE])
  /\ Pause(n, v, FALSE)
  /\ pass' = [pass EXCEPT ![n][v] = "idle"]
  /\ UNCHANGED <<others, pool>>

(* The pass fails or the node restarts between two statements.  Stopped    *)
(* after the pause, it leaves a paused node whose row does not say why.    *)
Interrupt(n, v) ==
  /\ pass[n][v] \notin {"idle", "stopped"}
  /\ pass' = [pass EXCEPT ![n][v] = IF @ \in {"block", "final"} /\ ~row[n][v].included
                                       THEN "stopped" ELSE "idle"]
  /\ UNCHANGED <<others, row, pool, paused>>

(* At the end of a pass the proposer tries its unfinished votes again. *)
Retry(n, v) ==
  /\ Idle(n)
  /\ Reached(n, Cardinality(Vote) + 1)
  /\ row[n][v].started /\ row[n][v].sent = None /\ Proposer[v] = n
  /\ Attempt(n, v)
  /\ UNCHANGED <<chainVars, pool, approved, row, lock, paused, pass>>

Reconcile(n, v) ==
  \/ Look(n, v) \/ MarkOrphaned(n, v) \/ MarkIncluded(n, v) \/ Confirm(n, v)
  \/ Interrupt(n, v) \/ Retry(n, v)

-----------------------------------------------------------------------------
(* The rest of the world. *)

memory == <<row, tasks, paused, pass>>

(* A lock whose transaction conflicts with a block is released after the   *)
(* next indexing pass (module Ledger).                                     *)
ReleaseLock(n, p) ==
  /\ lock[n][p] # None
  /\ \E u \in TxsOf(chain) : Conflict(lock[n][p], u)
  /\ lock' = [lock EXCEPT ![n][p] = None]
  /\ UNCHANGED <<chainVars, pool, approved, memory>>

(* An exchange of Droplets spends a Treasury output. *)
OtherSpend(c) ==
  LET t == [vote |-> 0, eyes |-> {}, fee |-> c] IN
  /\ c \in Taken
  /\ Accepts(t) /\ t \notin pool \cup TxsOf(chain)
  /\ pool' = Accept(t)
  /\ UNCHANGED <<chainVars, approved, lock, memory>>

(* What was settled stays so: blocks deeper than Finality are not replaced. *)
Settle(blocks) ==
  settled' = Max({settled, IF Len(blocks) >= Finality THEN Len(blocks) + 1 - Finality ELSE 0})

(* A block with the waiting transactions.       Indexing it unlocks the *)
(* Droplets of the member that a Treasury spend names.                     *)
Mine ==
  /\ mined < MaxMined
  /\ mined' = mined + 1
  /\ chain' = Append(chain, [id |-> mined + 1, txs |-> pool])
  /\ Settle(chain')
  /\ pool' = {}
  /\ lock' = [n \in Node |-> [p \in Node |->
                IF \E t \in pool : t.vote # 0 /\ Proposer[t.vote] = p THEN None
                ELSE lock[n][p]]]
  /\ UNCHANGED <<approved, memory>>

(* The last block is abandoned; its transactions wait again. *)
Reorganise ==
  /\ Len(chain) > settled
  /\ chain' = SubSeq(chain, 1, Len(chain) - 1)
  /\ pool' = pool \cup chain[Len(chain)].txs
  /\ UNCHANGED <<mined, settled, approved, lock, memory>>

Init ==
  /\ chain = <<>> /\ mined = 0 /\ settled = 0
  /\ pool = {}
  /\ approved \in [Node -> SUBSET Vote]
  /\ row = [n \in Node |-> [v \in Vote |-> EmptyRow]]
  /\ lock = [n \in Node |-> [p \in Node |-> None]]
  /\ tasks = [n \in Node |-> {}]
  /\ paused = [n \in Node |-> FALSE]
  /\ pass = [n \in Node |-> [v \in Vote |-> "idle"]]

Handle(n) ==
  \/ \E m \in Node : \E k \in tasks[m] : HandleRequest(n, m, k)
  \/ \E f \in Told(n) : HandleNotice(n, f)
  \/ \E k \in tasks[n] : Statement(n, k)

Environment ==
  \/ \E n, p \in Node : ReleaseLock(n, p)
  \/ \E c \in Coin : OtherSpend(c)
  \/ Mine
  \/ Reorganise

Next ==
  \/ \E n \in Node : Handle(n) \/ \E v \in Vote : Execute(n, v) \/ Reconcile(n, v)
  \/ Environment

Spec == Init /\ [][Next]_vars

-----------------------------------------------------------------------------
TypeOK ==
  /\ chain \in Seq(Block)
  /\ mined \in Nat
  /\ settled \in 0 .. Len(chain)
  /\ pool \subseteq Tx
  /\ approved \in [Node -> SUBSET Vote]
  /\ row \in [Node -> [Vote -> Row]]
  /\ \A n \in Node, v \in Vote :
       /\ row[n][v].started => row[n][v].tx # None
       /\ row[n][v].sent # None => row[n][v].tx = row[n][v].sent.tx
  /\ lock \in [Node -> [Node -> Tx \cup {None}]]
  /\ tasks \in [Node -> SUBSET Task]
  /\ paused \in [Node -> BOOLEAN]
  /\ pass \in [Node -> [Vote -> Progress]]

(* A transaction of a vote reaches a mempool or the chain only when the    *)
(* signers of a branch hold the vote for approved, each by its own count   *)
(* (require_retryable of the executor and of every signer).                *)
ExecutedByApproval ==
  \A t \in TxsOf(chain) \cup pool :
    t.vote # 0 => Cardinality({n \in Node : t.vote \in approved[n]}) >= Threshold

(* A node has its spending paused only while it has a membership change    *)
(* recorded in a block and not final, or its last look at that change      *)
(* found it in a block and was not written down; a pause that outlives the *)
(* change would stop the node for good (set_spending_paused,               *)
(* mark_included, activate_member_migration).                              *)
PausedForMigration ==
  \A n \in Node : paused[n] =>
    \E v \in Vote : /\ Kind[v] = "members" /\ Pending(n, v)
                    /\ row[n][v].included \/ pass[n][v] \in {"block", "final", "stopped"}

(* The transaction a node has recorded for a vote is never exchanged for   *)
(* another, whichever operations and notices come in between               *)
(* (record_broadcast, cancel_execution).                                   *)
RecordedIsKept ==
  [][\A n \in Node, v \in Vote : row[n][v].sent # None =>
       row'[n][v].sent # None /\ row'[n][v].sent.tx = row[n][v].sent.tx]_vars

(* The final execution of v on the chain. *)
Settled(v) ==
  LET txs == {t \in TxsOf(SubSeq(chain, 1, settled)) : t.vote = v} IN
  IF txs = {} THEN None ELSE CHOOSE t \in txs : TRUE

Decided == [v \in Vote |-> Settled(v)]

(* The transaction that n has confirmed v by. *)
Learned == [n \in Node |-> [v \in Vote |->
              IF row[n][v].confirmed THEN row[n][v].sent.tx ELSE None]]

(* The executions implement the abstract specification: the network        *)
(* decides for one transaction of a vote, and what a node has confirmed is *)
(* that transaction.                                                       *)
Outcome == INSTANCE VoteOutcome WITH
  Choice <- Tx,
  decided <- Decided,
  learned <- Learned

ImplementsOutcome == Outcome!Spec

(* No vote has two executions that nodes have recorded.  *)
OneExecution ==
  \A n, m \in Node, v \in Vote :
    row[n][v].sent # None /\ row[m][v].sent # None => row[n][v].sent.tx = row[m][v].sent.tx
=============================================================================
