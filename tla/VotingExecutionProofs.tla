------------------------ MODULE VotingExecutionProofs ------------------------
(***************************************************************************)
(* Proofs about VotingExecution.  A transaction that a mempool takes was   *)
(* approved by the signers of a branch, no vote has two transactions       *)
(* there, and so the executions implement VoteOutcome.                     *)
(***************************************************************************)
EXTENDS VotingExecution, FiniteSetTheorems, WellFoundedInduction, TLAPS

(* The transactions that a mempool or the chain has taken. *)
Seen == TxsOf(chain) \cup pool

(* The transactions in blocks that are no longer replaced. *)
SettledTxs == TxsOf(SubSeq(chain, 1, settled))

(* The signers of a branch hold v for approved, with A[n] the votes that n *)
(* does.                                                                   *)
Backed(v, A) == Cardinality({n \in Node : v \in A[n]}) >= Threshold

(* The Storm Eyes that t spends are those its vote asks for: with what was *)
(* taken (S), a membership change leaves no Storm Eye unspent.             *)
Sound(t, S) ==
  /\ t.vote \in Vote
  /\ t.eyes # {}
  /\ IF Kind[t.vote] = "members" THEN Eye \subseteq t.eyes \cup EyesOf(S)
     ELSE t.eyes = Subject[t.vote]

(* What was taken is sound and approved, does not conflict, and has one    *)
(* membership change at most.                                              *)
IsChange(t) == t.vote # 0 /\ Kind[t.vote] = "members"

SeenOK(S, A) ==
  /\ \A t \in S : t.vote # 0 => Sound(t, S) /\ Backed(t.vote, A)
  /\ \A t, u \in S : ~Conflict(t, u)
  /\ \A t, u \in S : IsChange(t) /\ IsChange(u) => t = u

(* What a row has recorded is sound and approved, and settled (F) when the *)
(* row is confirmed.                                                       *)
RowOK(v, r, S, F, A) ==
  /\ r.sent # None => r.sent.tx.vote = v /\ Sound(r.sent.tx, S) /\ Backed(v, A)
  /\ r.confirmed => r.sent # None /\ r.sent.tx \in F

(* An operation has a sound transaction of a vote that its node holds for  *)
(* approved, as every signer does; it records only what enough of them     *)
(* signed.                                                                 *)
TaskOK(n, k, S, A) ==
  /\ Sound(k.request.tx, S)
  /\ k.request.tx.vote \in A[n]
  /\ k.kind = "own" => \A m \in k.signers : k.request.tx.vote \in A[m]
  /\ k.pc = "signing" => k.kind = "own"
  /\ k.kind = "notice" \/ k.pc \in {"record", "send"} => Backed(k.request.tx.vote, A)

(* A pass is with a vote whose transaction is recorded and not confirmed,  *)
(* and confirms what is settled (F).                                       *)
PassOK(r, p, F) ==
  p # "idle" => /\ r.sent # None /\ ~r.confirmed
                /\ p \in {"final", "confirm"} => r.sent.tx \in F

(* The inductive invariant. *)
Inv ==
  /\ TypeOK
  /\ Len(chain) + 1 <= settled + Finality
  /\ SeenOK(Seen, approved)
  /\ \A n \in Node, v \in Vote : RowOK(v, row[n][v], Seen, SettledTxs, approved)
  /\ \A n \in Node : \A k \in tasks[n] : TaskOK(n, k, Seen, approved)
  /\ \A n \in Node, v \in Vote : PassOK(row[n][v], pass[n][v], SettledTxs)

-----------------------------------------------------------------------------
(* Sets, blocks and transactions. *)

(* The smallest of some natural numbers. *)
LEMMA NatHasMin ==
  ASSUME NEW S \in SUBSET Nat, S # {}
  PROVE  Min(S) \in S /\ \A m \in S : Min(S) <= m
<1>1. PICK n \in S : \A m \in S : <<m, n>> \notin OpToRel(<, Nat)
  BY WFMin, NatLessThanWellFounded, Zenon
<1>2. \A m \in S : n <= m
  <2> TAKE m \in S
  <2>1. ~(m < n)
    BY <1>1, Zenon DEF OpToRel
  <2> QED BY <2>1
<1> QED BY <1>2 DEF Min

(* Votes are numbered from 1. *)
LEMMA VoteNotZero == 0 \notin Vote
<1>1. 0 \notin 1 .. Cardinality(Vote)
  OBVIOUS
<1> QED BY <1>1, VoteAssumption, Zenon

(* Sequences: their elements, a prefix, an element more. *)
LEMMA SeqFacts ==
  ASSUME NEW S, NEW c \in Seq(S)
  PROVE  /\ Len(c) \in Nat /\ DOMAIN c = 1 .. Len(c)
         /\ \A i \in 1 .. Len(c) : c[i] \in S
         /\ \A h \in 0 .. Len(c) :
              /\ SubSeq(c, 1, h) \in Seq(S)
              /\ Len(SubSeq(c, 1, h)) = h
              /\ \A i \in 1 .. h : SubSeq(c, 1, h)[i] = c[i]
         /\ \A b \in S :
              /\ Append(c, b) \in Seq(S)
              /\ Len(Append(c, b)) = Len(c) + 1
              /\ \A i \in 1 .. Len(c) : Append(c, b)[i] = c[i]
              /\ Append(c, b)[Len(c) + 1] = b
  OBVIOUS

(* The transactions of blocks (TxsOf). *)
LEMMA TxsOfBlocks ==
  ASSUME NEW c \in Seq(Block)
  PROVE  /\ TxsOf(c) \subseteq Tx
         /\ \A t : t \in TxsOf(c) <=> \E i \in 1 .. Len(c) : t \in c[i].txs
<1>1. DOMAIN c = 1 .. Len(c) /\ \A i \in 1 .. Len(c) : c[i] \in Block
  BY SeqFacts
<1>2. \A i \in 1 .. Len(c) : c[i].txs \subseteq Tx
  BY <1>1 DEF Block
<1> QED BY <1>1, <1>2 DEF TxsOf

(* A prefix of the chain holds some of its transactions. *)
LEMMA TxsOfPrefix ==
  ASSUME NEW c \in Seq(Block), NEW h \in 0 .. Len(c)
  PROVE  /\ SubSeq(c, 1, h) \in Seq(Block)
         /\ \A t : t \in TxsOf(SubSeq(c, 1, h)) <=> \E i \in 1 .. h : t \in c[i].txs
<1> DEFINE d == SubSeq(c, 1, h)
<1>1. /\ d \in Seq(Block) /\ Len(d) = h
      /\ \A i \in 1 .. h : d[i] = c[i]
  BY SeqFacts
<1> HIDE DEF d
<1>2. \A t : t \in TxsOf(d) <=> \E i \in 1 .. h : t \in d[i].txs
  BY <1>1, TxsOfBlocks
<1>3. \A t : t \in TxsOf(d) <=> \E i \in 1 .. h : t \in c[i].txs
  BY <1>1, <1>2
<1> QED BY <1>1, <1>3 DEF d

(* A new block adds its transactions (Mine). *)
LEMMA TxsOfAppend ==
  ASSUME NEW c \in Seq(Block), NEW b \in Block
  PROVE  TxsOf(Append(c, b)) = TxsOf(c) \cup b.txs
<1> DEFINE d == Append(c, b)
<1>1. /\ d \in Seq(Block) /\ Len(d) = Len(c) + 1
      /\ \A i \in 1 .. Len(c) : d[i] = c[i]
      /\ d[Len(c) + 1] = b
      /\ Len(c) \in Nat
  BY SeqFacts
<1> HIDE DEF d
<1>2. \A t : t \in TxsOf(d) <=> \E i \in 1 .. Len(c) + 1 : t \in d[i].txs
  BY <1>1, TxsOfBlocks
<1>3. \A t : t \in TxsOf(c) <=> \E i \in 1 .. Len(c) : t \in c[i].txs
  BY TxsOfBlocks
<1>4. \A t : t \in TxsOf(d) <=> t \in TxsOf(c) \/ t \in b.txs
  BY <1>1, <1>2, <1>3
<1> QED BY <1>4 DEF d

-----------------------------------------------------------------------------
(* Types. *)

(* A prepared transaction spends what its vote asks for, and a coin. *)
LEMMA PreparedType ==
  ASSUME NEW v \in Vote, NEW t \in Prepared(v)
  PROVE  /\ t \in Tx /\ t.vote = v
         /\ t.eyes = Operands(v) /\ t.eyes # {}
<1> DEFINE coins == IndexedCoins \cap LiveCoins
<1>1. coins # {} /\ Operands(v) # {} /\ t = [vote |-> v, eyes |-> Operands(v), fee |-> Min(coins)]
  BY DEF Prepared
<1>2. coins \subseteq Coin
  BY DEF IndexedCoins
<1>3. coins \subseteq Nat
  BY <1>2, CoinAssumption
<1> HIDE DEF coins
<1>4. Min(coins) \in Coin
  BY <1>1, <1>2, <1>3, NatHasMin
<1>5. Operands(v) \subseteq Eye
  BY VoteAssumption DEF Operands, Unspent
<1> QED BY <1>1, <1>4, <1>5 DEF Tx

LEMMA TipIdType ==
  ASSUME TypeOK PROVE TipId(chain) \in Nat
<1>1. chain \in Seq(Block)
  BY DEF TypeOK
<1>2. CASE chain = <<>>
  BY <1>2 DEF TipId
<1>3. CASE chain # <<>>
  <2>1. Len(chain) \in 1 .. Len(chain)
    BY <1>1, <1>3
  <2>2. chain[Len(chain)] \in Block
    BY <1>1, <2>1, SeqFacts
  <2> QED BY <2>2, <1>3 DEF TipId, Block
<1> QED BY <1>2, <1>3

(* The statements on a row keep its type. *)
RowTyped(r) ==
  /\ r \in Row
  /\ r.started => r.tx # None
  /\ r.sent # None => r.tx = r.sent.tx

LEMMA SetRowType ==
  ASSUME TypeOK, NEW n \in Node, NEW v \in Vote, NEW r, RowTyped(r), SetRow(n, v, r)
  PROVE  /\ row' \in [Node -> [Vote -> Row]]
         /\ \A m \in Node, u \in Vote : RowTyped(row'[m][u])
<1>1. /\ row \in [Node -> [Vote -> Row]]
      /\ \A m \in Node, u \in Vote : RowTyped(row[m][u])
  BY DEF TypeOK, RowTyped
<1>2. \A m \in Node, u \in Vote :
        row'[m][u] = IF m = n /\ u = v THEN r ELSE row[m][u]
  BY <1>1 DEF SetRow
<1>3. row' \in [Node -> [Vote -> Row]]
  BY <1>1 DEF SetRow, RowTyped
<1> QED BY <1>1, <1>2, <1>3

LEMMA SpawnType ==
  ASSUME TypeOK, NEW n \in Node, NEW kind \in {"own", "peer", "notice"},
         NEW request \in Final, NEW first \in {"start", "record"},
         Spawn(n, kind, request, first)
  PROVE  tasks' \in [Node -> SUBSET Task]
<1> DEFINE k == [kind |-> kind, request |-> request,
                 pc |-> FirstStep(n, request.tx, first), signers |-> {request.by}]
<1>1. FirstStep(n, request.tx, first) \in {"cancel", "start", "restart", "record"}
  BY DEF FirstStep
<1>2. request.by \in Node
  BY DEF Final
<1>3. k \in Task
  BY <1>1, <1>2 DEF Task
<1>4. tasks' = [tasks EXCEPT ![n] = @ \cup {k}]
  BY DEF Spawn
<1> HIDE DEF k
<1> QED BY <1>3, <1>4 DEF TypeOK

LEMMA GotoType ==
  ASSUME TypeOK, NEW n \in Node, NEW k \in tasks[n],
         NEW pc \in {"unlock", "give up", "start", "lock", "relock", "revert", "signing",
                     "record", "send"},
         Goto(n, k, pc)
  PROVE  tasks' \in [Node -> SUBSET Task]
<1>1. k \in Task
  BY DEF TypeOK
<1>2. [k EXCEPT !.pc = pc] \in Task
  BY <1>1 DEF Task
<1> QED BY <1>2 DEF Goto, TypeOK

LEMMA FinishType ==
  ASSUME TypeOK, NEW n \in Node, NEW k, Finish(n, k)
  PROVE  tasks' \in [Node -> SUBSET Task]
  BY DEF Finish, TypeOK

LEMMA SignType ==
  ASSUME TypeOK, NEW n \in Node, NEW k, Sign(n, k)
  PROVE  tasks' \in [Node -> SUBSET Task]
<1>1. \A m \in Node : \A j \in tasks[m] : j \in Task
  BY DEF TypeOK
<1>2. \A j \in Task : [j EXCEPT !.signers = @ \cup {n}] \in Task
  BY DEF Task
<1>3. \A m \in Node : tasks'[m] \subseteq Task
  BY <1>1, <1>2 DEF Sign
<1> QED BY <1>3 DEF Sign

(* What a request that is signed or told says has its type. *)
LEMMA RequestTypes ==
  ASSUME TypeOK, NEW n \in Node
  PROVE  /\ \A k \in tasks[n] : k \in Task /\ k.request \in Final /\ k.request.tx \in Tx
         /\ \A f \in Told(n) : f \in Final /\ f.tx \in Tx
<1>1. \A f \in Final : f.tx \in Tx
  BY DEF Final
<1>2. \A k \in tasks[n] : k \in Task
  BY DEF TypeOK
<1>3. \A k \in Task : k.request \in Final
  BY DEF Task
<1>4. \A m \in Node, v \in Vote : row[m][v].sent \in Final \cup {None}
  BY DEF TypeOK, Row
<1>5. Told(n) \subseteq Final
  BY <1>4 DEF Told
<1> QED BY <1>1, <1>2, <1>3, <1>5

(* The first steps of operations (Execute, HandleRequest, HandleNotice).   *)
LEMMA AttemptType ==
  ASSUME TypeOK, NEW n \in Node, NEW v \in Vote, Attempt(n, v)
  PROVE  tasks' \in [Node -> SUBSET Task]
<1>1. PICK t \in Prepared(v) : Spawn(n, "own", [tx |-> t, by |-> n, tip |-> TipId(chain)], "start")
  BY DEF Attempt
<1>2. [tx |-> t, by |-> n, tip |-> TipId(chain)] \in Final
  BY PreparedType, TipIdType DEF Final
<1> QED BY <1>1, <1>2, SpawnType

LEMMA StatementType ==
  ASSUME TypeOK, NEW n \in Node, NEW k \in tasks[n], k.request.tx.vote \in Vote, Statement(n, k)
  PROVE  TypeOK'
<1> DEFINE t == k.request.tx
           v == t.vote
<1>1. k \in Task /\ k.request \in Final /\ t \in Tx /\ v \in Vote
  BY RequestTypes
<1>2. RowTyped(row[n][v]) /\ Proposer[v] \in Node
  BY <1>1, VoteAssumption DEF TypeOK, RowTyped
<1>3. CASE Cancel(n, k) \/ Revert(n, k)
  <2>1. RowTyped(Cancelled(row[n][v]))
    BY <1>2 DEF RowTyped, Cancelled, Row
  <2>2. SetRow(n, v, Cancelled(row[n][v]))
    BY <1>3 DEF Cancel, Revert
  <2>3. /\ row' \in [Node -> [Vote -> Row]]
        /\ \A m \in Node, u \in Vote : RowTyped(row'[m][u])
    BY <2>1, <2>2, <1>1, SetRowType
  <2>4. tasks' \in [Node -> SUBSET Task]
    <3>1. Finish(n, k) \/ Goto(n, k, "give up") \/ Goto(n, k, "unlock")
      BY <1>3 DEF Cancel, Revert
    <3> QED BY <3>1, GotoType, FinishType
  <2> QED BY <1>3, <2>3, <2>4 DEF Cancel, Revert, rest, chainVars, TypeOK, RowTyped
<1>8. CASE Unlock(n, k)
  <2>1. tasks' \in [Node -> SUBSET Task]
    <3>1. Finish(n, k) \/ Goto(n, k, "record") \/ Goto(n, k, "start")
      BY <1>8 DEF Unlock
    <3> QED BY <3>1, GotoType, FinishType
  <2>2. lock' \in [Node -> [Node -> Tx \cup {None}]]
    BY <1>8, <1>2 DEF Unlock, TypeOK
  <2> QED BY <1>8, <2>1, <2>2 DEF Unlock, rest, chainVars, TypeOK
<1>4. CASE Start(n, k)
  <2> DEFINE r == [row[n][v] EXCEPT !.started = TRUE, !.tx = t]
  <2>1. (SetRow(n, v, r) /\ Startable(n, t)) \/ UNCHANGED row
    BY <1>4 DEF Start
  <2>2. RowTyped(r) \/ ~Startable(n, t)
    BY <1>1, <1>2, NoneAssumption DEF RowTyped, Row, Startable
  <2> HIDE DEF r
  <2>3. /\ row' \in [Node -> [Vote -> Row]]
        /\ \A m \in Node, u \in Vote : RowTyped(row'[m][u])
    <3>1. CASE UNCHANGED row
      BY <3>1 DEF TypeOK, RowTyped
    <3> QED BY <2>1, <2>2, <3>1, <1>1, SetRowType
  <2>4. tasks' \in [Node -> SUBSET Task]
    <3>1. Goto(n, k, "lock") \/ Goto(n, k, "relock") \/ Finish(n, k)
      BY <1>4 DEF Start
    <3> QED BY <3>1, GotoType, FinishType
  <2> QED BY <1>4, <2>3, <2>4 DEF Start, rest, chainVars, TypeOK, RowTyped
<1>9. CASE Lock(n, k)
  <2>1. tasks' \in [Node -> SUBSET Task]
    <3>1. Goto(n, k, "signing") \/ Sign(n, k) \/ Goto(n, k, "revert") \/ Finish(n, k)
      BY <1>9 DEF Lock
    <3> QED BY <3>1, GotoType, SignType, FinishType
  <2>2. lock' \in [Node -> [Node -> Tx \cup {None}]]
    <3>1. lock' = [lock EXCEPT ![n][Proposer[v]] = t] \/ UNCHANGED lock
      BY <1>9 DEF Lock
    <3> HIDE DEF t
    <3>2. CASE lock' = [lock EXCEPT ![n][Proposer[v]] = t]
      BY <3>2, <1>1, <1>2 DEF TypeOK
    <3>3. CASE UNCHANGED lock
      BY <3>3, <1>1 DEF TypeOK
    <3> QED BY <3>1, <3>2, <3>3
  <2> QED BY <1>9, <2>1, <2>2 DEF Lock, rest, chainVars, TypeOK
<1>5. CASE Finalize(n, k) \/ Abort(n, k)
  <2>1. Goto(n, k, "record") \/ Finish(n, k)
    BY <1>5 DEF Finalize, Abort
  <2>2. tasks' \in [Node -> SUBSET Task]
    BY <2>1, GotoType, FinishType
  <2>3. UNCHANGED <<row, lock, rest>>
    BY <1>5 DEF Finalize, Abort
  <2> QED BY <2>2, <2>3 DEF rest, chainVars, TypeOK
<1>6. CASE RecordBroadcast(n, k)
  <2> DEFINE r == [row[n][v] EXCEPT !.started = TRUE, !.tx = t, !.sent = k.request]
  <2>1. RowTyped(r)
    BY <1>1, <1>2, NoneAssumption DEF RowTyped, Row
  <2>2. SetRow(n, v, r) \/ UNCHANGED row
    BY <1>6 DEF RecordBroadcast
  <2> HIDE DEF r
  <2>3. /\ row' \in [Node -> [Vote -> Row]]
        /\ \A m \in Node, u \in Vote : RowTyped(row'[m][u])
    <3>1. CASE SetRow(n, v, r)
      BY <3>1, <2>1, <1>1, SetRowType
    <3>2. CASE UNCHANGED row
      BY <3>2 DEF TypeOK, RowTyped
    <3> QED BY <2>2, <3>1, <3>2
  <2>4. Goto(n, k, "send") \/ Finish(n, k)
    BY <1>6 DEF RecordBroadcast
  <2>5. tasks' \in [Node -> SUBSET Task]
    BY <2>4, GotoType, FinishType
  <2> QED BY <1>6, <2>3, <2>5 DEF RecordBroadcast, rest, chainVars, TypeOK, RowTyped
<1>7. CASE Broadcast(n, k)
  <2>1. tasks' \in [Node -> SUBSET Task]
    BY <1>7, FinishType DEF Broadcast
  <2>2. pool' \subseteq Tx
    BY <1>7, <1>1 DEF Broadcast, Accept, TypeOK
  <2> QED BY <1>7, <2>1, <2>2 DEF Broadcast, chainVars, TypeOK
<1> QED BY <1>3, <1>4, <1>5, <1>6, <1>7, <1>8, <1>9 DEF Statement

-----------------------------------------------------------------------------
(* What was taken only grows, and stays sound. *)

LEMMA SoundGrows ==
  ASSUME NEW S, NEW T, S \subseteq T, NEW t, Sound(t, S)
  PROVE  Sound(t, T)
<1>1. EyesOf(S) \subseteq EyesOf(T)
  BY DEF EyesOf
<1> QED BY <1>1 DEF Sound

LEMMA RowGrows ==
  ASSUME NEW S, NEW T, S \subseteq T, NEW F, NEW G, F \subseteq G, NEW A,
         NEW v, NEW r, RowOK(v, r, S, F, A)
  PROVE  RowOK(v, r, T, G, A)
  BY SoundGrows DEF RowOK

LEMMA TaskGrows ==
  ASSUME NEW S, NEW T, S \subseteq T, NEW A, NEW n, NEW k, TaskOK(n, k, S, A)
  PROVE  TaskOK(n, k, T, A)
  BY SoundGrows DEF TaskOK

(* A transaction that the mempool accepts conflicts with nothing that it   *)
(* took, and a second membership change would (Accepts).                   *)
LEMMA SeenGrows ==
  ASSUME NEW S \in SUBSET Tx, NEW A, SeenOK(S, A), NEW t \in Tx,
         t.vote # 0 => Sound(t, S) /\ Backed(t.vote, A),
         t \in S \/ \A u \in S : ~Conflict(t, u)
  PROVE  SeenOK(S \cup {t}, A)
<1> DEFINE T == S \cup {t}
<1>1. CASE t \in S
  <2>1. S \cup {t} = S
    BY <1>1
  <2> QED BY <2>1
<1>2. CASE t \notin S
  <2>1. \A u \in T : u.vote # 0 => Sound(u, T) /\ Backed(u.vote, A)
    <3>1. \A u \in T : u.vote # 0 => Sound(u, S) /\ Backed(u.vote, A)
      BY DEF SeenOK
    <3> QED BY <3>1, SoundGrows
  <2>2. \A u \in S : ~Conflict(t, u) /\ ~Conflict(u, t)
    BY <1>2 DEF Conflict
  <2>3. \A u, w \in T : ~Conflict(u, w)
    <3>1. ~Conflict(t, t)
      BY DEF Conflict
    <3> QED BY <2>2, <3>1 DEF SeenOK
  <2>4. ASSUME NEW u \in S, IsChange(t), IsChange(u)
        PROVE  FALSE
    <3>1. Eye \subseteq u.eyes \cup EyesOf(S)
      BY <2>4 DEF IsChange, SeenOK, Sound
    <3>2. t.eyes # {} /\ t.eyes \subseteq Eye
      BY <2>4 DEF IsChange, Sound, Tx
    <3>3. PICK e \in t.eyes : TRUE
      BY <3>2
    <3>4. PICK w \in S : e \in w.eyes
      BY <3>1, <3>2, <3>3 DEF EyesOf
    <3>5. Conflict(t, w)
      BY <1>2, <3>3, <3>4 DEF Conflict
    <3> QED BY <2>2, <3>5
  <2>5. \A u, w \in T : IsChange(u) /\ IsChange(w) => u = w
    BY <2>4 DEF SeenOK
  <2> QED BY <2>1, <2>3, <2>5 DEF SeenOK
<1> QED BY <1>1, <1>2

(* No vote has two transactions among them.  *)
LEMMA OneOfVote ==
  ASSUME NEW S, NEW A, SeenOK(S, A), NEW t \in S, NEW u \in S, t.vote # 0, t.vote = u.vote
  PROVE  t = u
<1>1. CASE IsChange(t)
  BY <1>1 DEF IsChange, SeenOK
<1>2. CASE ~IsChange(t)
  <2>1. t.eyes # {} /\ t.eyes = u.eyes
    BY <1>2 DEF IsChange, SeenOK, Sound
  <2>2. ~Conflict(t, u)
    BY DEF SeenOK
  <2> QED BY <2>1, <2>2 DEF Conflict
<1> QED BY <1>1, <1>2

LEMMA SeenTyped == ASSUME TypeOK PROVE Seen \subseteq Tx
  BY TxsOfBlocks DEF TypeOK, Seen

(* The steps that leave the chain alone and may send a transaction. *)
LEMMA PoolStep ==
  ASSUME Inv, UNCHANGED chainVars,
         \/ pool' = pool
         \/ \E t \in Tx : /\ Accepts(t) /\ pool' = Accept(t)
                          /\ t.vote # 0 => Sound(t, Seen) /\ Backed(t.vote, approved)
  PROVE  /\ Seen \subseteq Seen' /\ SeenOK(Seen', approved)
         /\ SettledTxs \subseteq SettledTxs'
         /\ Len(chain') + 1 <= settled' + Finality
<1>1. SettledTxs \subseteq SettledTxs' /\ Len(chain') + 1 <= settled' + Finality
  BY DEF SettledTxs, chainVars, Inv
<1>2. CASE pool' = pool
  BY <1>1, <1>2 DEF Seen, chainVars, Inv
<1>3. ASSUME NEW t \in Tx, Accepts(t), pool' = Accept(t),
             t.vote # 0 => Sound(t, Seen) /\ Backed(t.vote, approved)
      PROVE  Seen \subseteq Seen' /\ SeenOK(Seen', approved)
  <2>1. Seen' = Seen \cup {t}
    BY <1>3 DEF Seen, Accept, chainVars
  <2>2. t \in Seen \/ \A u \in Seen : ~Conflict(t, u)
    BY <1>3 DEF Accepts, Seen
  <2>3. SeenOK(Seen \cup {t}, approved)
    BY <1>3, <2>2, SeenGrows, SeenTyped DEF Inv
  <2> QED BY <2>1, <2>3
<1> QED BY <1>1, <1>2, <1>3

(* What a step has to show. *)
LEMMA Assemble ==
  ASSUME Inv, TypeOK', UNCHANGED approved,
         Seen \subseteq Seen', SeenOK(Seen', approved), SettledTxs \subseteq SettledTxs',
         Len(chain') + 1 <= settled' + Finality,
         \A n \in Node, v \in Vote :
           row'[n][v] = row[n][v] \/ RowOK(v, row'[n][v], Seen, SettledTxs, approved),
         \A n \in Node : \A k \in tasks'[n] :
           k \in tasks[n] \/ TaskOK(n, k, Seen, approved),
         \/ UNCHANGED <<row, pass>>
         \/ \A n \in Node, v \in Vote : PassOK(row'[n][v], pass'[n][v], SettledTxs)
  PROVE  Inv'
<1>1. \A n \in Node, v \in Vote : RowOK(v, row'[n][v], Seen', SettledTxs', approved')
  <2>1. \A n \in Node, v \in Vote : RowOK(v, row'[n][v], Seen, SettledTxs, approved)
    BY DEF Inv
  <2> QED BY <2>1, RowGrows
<1>2. \A n \in Node : \A k \in tasks'[n] : TaskOK(n, k, Seen', approved')
  <2>1. \A n \in Node : \A k \in tasks'[n] : TaskOK(n, k, Seen, approved)
    BY DEF Inv
  <2> QED BY <2>1, TaskGrows
<1>3. \A n \in Node, v \in Vote : PassOK(row'[n][v], pass'[n][v], SettledTxs')
  <2>1. \A n \in Node, v \in Vote : PassOK(row'[n][v], pass'[n][v], SettledTxs)
    BY DEF Inv
  <2> QED BY <2>1 DEF PassOK
<1> QED BY <1>1, <1>2, <1>3 DEF Inv

-----------------------------------------------------------------------------
(* The operations of a node. *)

(* The tasks that a step adds or changes. *)
TasksKept == \A n \in Node : \A k \in tasks'[n] :
               k \in tasks[n] \/ TaskOK(n, k, Seen, approved)

LEMMA SpawnKeeps ==
  ASSUME TypeOK, NEW n \in Node, NEW kind \in {"own", "peer", "notice"},
         NEW request, NEW first \in {"start", "record"},
         Sound(request.tx, Seen), request.tx.vote \in approved[n],
         kind = "own" => request.by = n,
         kind = "notice" \/ first = "record" => Backed(request.tx.vote, approved),
         Spawn(n, kind, request, first)
  PROVE  TasksKept
<1> DEFINE k == [kind |-> kind, request |-> request,
                 pc |-> FirstStep(n, request.tx, first), signers |-> {request.by}]
<1>1. FirstStep(n, request.tx, first) \in {"cancel", "restart", first}
  BY DEF FirstStep
<1>2. TaskOK(n, k, Seen, approved)
  BY <1>1 DEF TaskOK
<1>3. tasks' = [tasks EXCEPT ![n] = @ \cup {k}]
  BY DEF Spawn
<1> HIDE DEF k
<1> QED BY <1>2, <1>3 DEF TypeOK, TasksKept

LEMMA GotoKeeps ==
  ASSUME TypeOK, NEW n \in Node, NEW k \in tasks[n], TaskOK(n, k, Seen, approved),
         NEW pc \in {"unlock", "give up", "start", "lock", "relock", "revert", "signing",
                     "record", "send"},
         pc = "signing" => k.kind = "own",
         pc \in {"record", "send"} => Backed(k.request.tx.vote, approved),
         Goto(n, k, pc)
  PROVE  TasksKept
<1>1. k \in Task
  BY DEF TypeOK
<1>2. TaskOK(n, [k EXCEPT !.pc = pc], Seen, approved)
  BY <1>1 DEF TaskOK, Task
<1> QED BY <1>2 DEF Goto, TypeOK, TasksKept

LEMMA FinishKeeps ==
  ASSUME TypeOK, NEW n \in Node, NEW k, Finish(n, k)
  PROVE  TasksKept
  BY DEF Finish, TypeOK, TasksKept

LEMMA SignKeeps ==
  ASSUME Inv, NEW n \in Node, NEW k, k.request.tx.vote \in approved[n], Sign(n, k)
  PROVE  TasksKept
<1> SUFFICES ASSUME NEW m \in Node, NEW j \in tasks'[m], j \notin tasks[m]
             PROVE  TaskOK(m, j, Seen, approved)
  BY DEF TasksKept
<1>1. PICK i \in tasks[m] : i.kind = "own" /\ i.request = k.request /\ j = [i EXCEPT !.signers = @ \cup {n}]
  <2>1. m # n
    BY DEF Sign
  <2>2. tasks'[m] = {IF i.kind = "own" /\ i.pc = "signing" /\ i.request = k.request
                     THEN [i EXCEPT !.signers = @ \cup {n}] ELSE i : i \in tasks[m]}
    BY <2>1 DEF Sign
  <2> QED BY <2>2
<1>2. i \in Task /\ TaskOK(m, i, Seen, approved)
  BY DEF Inv, TypeOK
<1>3. /\ j.kind = i.kind /\ j.request = i.request /\ j.pc = i.pc
      /\ j.signers = i.signers \cup {n}
  BY <1>1, <1>2 DEF Task
<1> QED BY <1>1, <1>2, <1>3 DEF TaskOK

(* A vote is signed by members that hold it for approved (Finalize). *)
LEMMA EnoughIsBacked ==
  ASSUME Inv, NEW n \in Node, NEW k \in tasks[n], k.kind = "own", Enough(k)
  PROVE  Backed(k.request.tx.vote, approved)
<1> DEFINE holders == {m \in Node : k.request.tx.vote \in approved[m]}
<1>1. k \in Task /\ TaskOK(n, k, Seen, approved)
  BY DEF Inv, TypeOK
<1>2. k.signers \subseteq holders
  BY <1>1 DEF TaskOK, Task
<1>3. IsFiniteSet(holders)
  BY NodeAssumption, FS_Subset
<1>4. IsFiniteSet(k.signers) /\ Cardinality(k.signers) <= Cardinality(holders)
  BY <1>2, <1>3, FS_Subset
<1>5. Cardinality(k.signers) \in Nat /\ Cardinality(holders) \in Nat
  BY <1>3, <1>4, FS_CardinalityType
<1>6. Cardinality(k.signers) >= Threshold
  BY DEF Enough
<1>7. Cardinality(holders) >= Threshold
  BY <1>4, <1>5, <1>6, NodeAssumption
<1> QED BY <1>7 DEF Backed

(* The rows that a step changes. *)
RowsKept == \A n \in Node, v \in Vote :
              \/ row'[n][v] = row[n][v]
              \/ RowOK(v, row'[n][v], Seen, SettledTxs, approved)

LEMMA SetRowKeeps ==
  ASSUME TypeOK, NEW n \in Node, NEW v \in Vote, NEW r,
         RowOK(v, r, Seen, SettledTxs, approved), SetRow(n, v, r)
  PROVE  RowsKept
  BY DEF SetRow, TypeOK, RowsKept

(* The rows a statement leaves: a recorded transaction stays, as does      *)
(* whether it is included and confirmed.                                   *)
LEMMA StatementRows ==
  ASSUME Inv, NEW n \in Node, NEW k \in tasks[n], Statement(n, k),
         NEW m \in Node, NEW u \in Vote
  PROVE  /\ row'[m][u].included = row[m][u].included
         /\ row'[m][u].confirmed = row[m][u].confirmed
         /\ row[m][u].sent # None => /\ row'[m][u].sent # None
                                     /\ row'[m][u].sent.tx = row[m][u].sent.tx
<1> DEFINE t == k.request.tx
           v == t.vote
<1>1. TypeOK /\ k.request # None /\ v \in Vote
  BY RequestTypes, NoneAssumption DEF Inv, TaskOK, Sound
<1>2. row[n][v] \in Row
  BY <1>1 DEF TypeOK
<1>3. \A r : SetRow(n, v, r) => row'[m][u] = IF m = n /\ u = v THEN r ELSE row[m][u]
  BY <1>1 DEF SetRow, TypeOK
<1>4. CASE Cancel(n, k) \/ Revert(n, k)
  <2> DEFINE r == Cancelled(row[n][v])
  <2>1. /\ r.included = row[n][v].included /\ r.confirmed = row[n][v].confirmed
        /\ r.sent = row[n][v].sent
    BY <1>2 DEF Cancelled, Row
  <2>2. SetRow(n, v, r)
    BY <1>4 DEF Cancel, Revert
  <2> HIDE DEF r
  <2> QED BY <1>3, <2>1, <2>2
<1>5. CASE Start(n, k)
  <2> DEFINE r == [row[n][v] EXCEPT !.started = TRUE, !.tx = t]
  <2>1. SetRow(n, v, r) \/ UNCHANGED row
    BY <1>5 DEF Start
  <2>2. /\ r.included = row[n][v].included /\ r.confirmed = row[n][v].confirmed
        /\ r.sent = row[n][v].sent
    BY <1>2 DEF Row
  <2> HIDE DEF r
  <2> QED BY <1>3, <2>1, <2>2
<1>6. CASE RecordBroadcast(n, k)
  <2> DEFINE r == [row[n][v] EXCEPT !.started = TRUE, !.tx = t, !.sent = k.request]
  <2>1. (SetRow(n, v, r) /\ Recordable(row[n][v], t)) \/ UNCHANGED row
    BY <1>6 DEF RecordBroadcast
  <2>2. r.sent = k.request /\ r.included = row[n][v].included /\ r.confirmed = row[n][v].confirmed
    BY <1>1, <1>2 DEF Row
  <2> HIDE DEF r
  <2> QED BY <1>1, <1>3, <2>1, <2>2 DEF Recordable
<1>7. CASE Unlock(n, k) \/ Lock(n, k) \/ Finalize(n, k) \/ Abort(n, k) \/ Broadcast(n, k)
  BY <1>7 DEF Unlock, Lock, Finalize, Abort, Broadcast
<1> QED BY <1>4, <1>5, <1>6, <1>7 DEF Statement

(* A statement sends only what it recorded, and records only what is       *)
(* approved.                                                               *)
LEMMA StatementKeeps ==
  ASSUME Inv, NEW n \in Node, NEW k \in tasks[n], Statement(n, k)
  PROVE  Inv'
<1> DEFINE t == k.request.tx
           v == t.vote
<1>1. TypeOK /\ TaskOK(n, k, Seen, approved) /\ v \in Vote
  BY DEF Inv, TaskOK, Sound
<1>2. RowOK(v, row[n][v], Seen, SettledTxs, approved) /\ row[n][v] \in Row
  BY <1>1 DEF Inv, TypeOK
<1>3. k \in Task /\ k.request \in Final /\ t \in Tx
  BY <1>1, RequestTypes
<1>4. TypeOK'
  BY <1>1, StatementType
<1>5. UNCHANGED <<approved, chainVars>> /\ (pool' = pool \/ Broadcast(n, k))
  BY DEF Statement, Cancel, Unlock, Start, Lock, Revert, Finalize, Abort, RecordBroadcast,
         Broadcast, rest
<1>6. /\ Seen \subseteq Seen' /\ SeenOK(Seen', approved)
      /\ SettledTxs \subseteq SettledTxs'
      /\ Len(chain') + 1 <= settled' + Finality
  <2>1. CASE Broadcast(n, k)
    <3>1. Sound(t, Seen) /\ Backed(t.vote, approved)
      BY <1>1, <2>1 DEF TaskOK, Broadcast
    <3>2. pool' = pool \/ (Accepts(t) /\ pool' = Accept(t))
      BY <2>1 DEF Broadcast
    <3> QED BY <1>3, <1>5, <3>1, <3>2, PoolStep
  <2> QED BY <1>5, <2>1, PoolStep
<1>7. RowsKept
  <2>1. CASE Cancel(n, k) \/ Revert(n, k)
    <3>1. RowOK(v, Cancelled(row[n][v]), Seen, SettledTxs, approved)
      BY <1>2 DEF RowOK, Cancelled, Row
    <3>2. SetRow(n, v, Cancelled(row[n][v]))
      BY <2>1 DEF Cancel, Revert
    <3> QED BY <1>1, <3>1, <3>2, SetRowKeeps
  <2>2. CASE Start(n, k)
    <3> DEFINE r == [row[n][v] EXCEPT !.started = TRUE, !.tx = t]
    <3>1. (SetRow(n, v, r) /\ Startable(n, t)) \/ UNCHANGED row
      BY <2>2 DEF Start
    <3>2. Startable(n, t) => RowOK(v, r, Seen, SettledTxs, approved)
      BY <1>2 DEF RowOK, Startable, Row
    <3> HIDE DEF r
    <3> QED BY <1>1, <3>1, <3>2, SetRowKeeps DEF RowsKept
  <2>3. CASE RecordBroadcast(n, k)
    <3> DEFINE r == [row[n][v] EXCEPT !.started = TRUE, !.tx = t, !.sent = k.request]
    <3>1. (SetRow(n, v, r) /\ Recordable(row[n][v], t)) \/ UNCHANGED row
      BY <2>3 DEF RecordBroadcast
    <3>2. Backed(v, approved)
      BY <1>1, <2>3 DEF RecordBroadcast, TaskOK
    <3>3. Recordable(row[n][v], t) => RowOK(v, r, Seen, SettledTxs, approved)
      BY <1>1, <1>2, <3>2 DEF RowOK, TaskOK, Recordable, Row
    <3> HIDE DEF r
    <3> QED BY <1>1, <3>1, <3>3, SetRowKeeps DEF RowsKept
  <2>4. CASE Unlock(n, k) \/ Lock(n, k) \/ Finalize(n, k) \/ Abort(n, k) \/ Broadcast(n, k)
    BY <2>4 DEF Unlock, Lock, Finalize, Abort, Broadcast, RowsKept
  <2> QED BY <2>1, <2>2, <2>3, <2>4 DEF Statement
<1>8. TasksKept
  <2>1. CASE Cancel(n, k) \/ Revert(n, k)
    <3>1. Finish(n, k) \/ Goto(n, k, "give up") \/ Goto(n, k, "unlock")
      BY <2>1 DEF Cancel, Revert
    <3> QED BY <1>1, <3>1, GotoKeeps, FinishKeeps
  <2>6. CASE Unlock(n, k)
    <3>1. \/ Finish(n, k)
          \/ k.kind = "notice" /\ Goto(n, k, "record")
          \/ Goto(n, k, "start")
      BY <2>6 DEF Unlock
    <3>2. k.kind = "notice" => Backed(v, approved)
      BY <1>1 DEF TaskOK
    <3> QED BY <1>1, <3>1, <3>2, GotoKeeps, FinishKeeps
  <2>2. CASE Start(n, k)
    <3>1. Finish(n, k) \/ Goto(n, k, "lock") \/ Goto(n, k, "relock")
      BY <2>2 DEF Start
    <3> QED BY <1>1, <3>1, GotoKeeps, FinishKeeps
  <2>7. CASE Lock(n, k)
    <3>1. \/ Finish(n, k) \/ Goto(n, k, "revert") \/ Sign(n, k)
          \/ k.kind = "own" /\ Goto(n, k, "signing")
      BY <2>7 DEF Lock
    <3>2. v \in approved[n]
      BY <1>1 DEF TaskOK
    <3> QED BY <1>1, <3>1, <3>2, GotoKeeps, FinishKeeps, SignKeeps
  <2>3. CASE Finalize(n, k)
    <3>1. k.kind = "own"
      BY <1>1, <2>3 DEF Finalize, TaskOK
    <3>2. Backed(v, approved)
      BY <3>1, <2>3, EnoughIsBacked DEF Finalize
    <3>3. Finish(n, k) \/ Goto(n, k, "record")
      BY <2>3 DEF Finalize
    <3> QED BY <1>1, <3>2, <3>3, GotoKeeps, FinishKeeps
  <2>4. CASE RecordBroadcast(n, k)
    <3>1. Backed(v, approved)
      BY <1>1, <2>4 DEF RecordBroadcast, TaskOK
    <3>2. Finish(n, k) \/ Goto(n, k, "send")
      BY <2>4 DEF RecordBroadcast
    <3> QED BY <1>1, <3>1, <3>2, GotoKeeps, FinishKeeps
  <2>5. CASE Abort(n, k) \/ Broadcast(n, k)
    BY <1>1, <2>5, FinishKeeps DEF Abort, Broadcast
  <2> QED BY <2>1, <2>2, <2>3, <2>4, <2>5, <2>6, <2>7 DEF Statement
<1>9. \A m \in Node, u \in Vote : PassOK(row'[m][u], pass'[m][u], SettledTxs)
  <2>1. UNCHANGED pass
    BY DEF Statement, Cancel, Unlock, Start, Lock, Revert, Finalize, Abort, RecordBroadcast,
           Broadcast, rest
  <2> QED BY <2>1, StatementRows DEF Inv, PassOK
<1> QED BY <1>4, <1>5, <1>6, <1>7, <1>8, <1>9, Assemble DEF RowsKept, TasksKept

(* An attempt of an operator or of the reconciliation. *)
LEMMA PreparedSound ==
  ASSUME NEW v \in Vote, NEW t \in Prepared(v)
  PROVE  Sound(t, Seen) /\ t.vote = v
<1>1. t.vote = v /\ t.eyes = Operands(v) /\ t.eyes # {}
  BY PreparedType
<1>2. CASE Kind[v] = "members"
  <2>1. t.eyes = Eye \ EyesOf(TxsOf(chain))
    BY <1>1, <1>2 DEF Operands, Unspent
  <2>2. EyesOf(TxsOf(chain)) \subseteq EyesOf(Seen)
    BY DEF EyesOf, Seen
  <2>3. Eye \subseteq t.eyes \cup EyesOf(Seen)
    BY <2>1, <2>2
  <2> QED BY <1>1, <1>2, <2>3 DEF Sound
<1>3. CASE Kind[v] # "members"
  BY <1>1, <1>3 DEF Operands, Sound
<1> QED BY <1>1, <1>2, <1>3

LEMMA AttemptKeeps ==
  ASSUME Inv, NEW n \in Node, NEW v \in Vote, Attempt(n, v),
         UNCHANGED <<chainVars, pool, approved, row, lock, paused, pass>>
  PROVE  Inv'
<1>1. PICK t \in Prepared(v) : Spawn(n, "own", [tx |-> t, by |-> n, tip |-> TipId(chain)], "start")
  BY DEF Attempt
<1>2. v \in approved[n]
  BY DEF Attempt, Retryable
<1>3. Sound(t, Seen) /\ t.vote = v
  BY PreparedSound
<1>4. TasksKept
  <2> DEFINE request == [tx |-> t, by |-> n, tip |-> TipId(chain)]
  <2>1. request.tx = t /\ request.by = n /\ Spawn(n, "own", request, "start")
    BY <1>1
  <2> HIDE DEF request
  <2> QED BY <1>2, <1>3, <2>1, SpawnKeeps DEF Inv
<1>5. TypeOK'
  <2>1. tasks' \in [Node -> SUBSET Task]
    BY AttemptType DEF Inv
  <2> QED BY <2>1 DEF Inv, TypeOK, chainVars
<1>6. /\ Seen \subseteq Seen' /\ SeenOK(Seen', approved)
      /\ SettledTxs \subseteq SettledTxs'
      /\ Len(chain') + 1 <= settled' + Finality
  BY PoolStep
<1> QED BY <1>4, <1>5, <1>6, Assemble DEF TasksKept

(* A peer takes up a request that it holds for approved as well. *)
LEMMA RequestKeeps ==
  ASSUME Inv, NEW n \in Node, NEW m \in Node, NEW k \in tasks[m], HandleRequest(n, m, k)
  PROVE  Inv'
<1>1. TaskOK(m, k, Seen, approved) /\ k.request \in Final
  BY RequestTypes DEF Inv
<1>2. k.request.tx.vote \in approved[n] /\ Spawn(n, "peer", k.request, "start")
  BY DEF HandleRequest, Retryable
<1>3. TasksKept
  BY <1>1, <1>2, SpawnKeeps DEF TaskOK, Inv
<1>4. TypeOK'
  <2>1. tasks' \in [Node -> SUBSET Task]
    BY <1>1, <1>2, SpawnType DEF Inv
  <2> QED BY <2>1 DEF HandleRequest, Inv, TypeOK, chainVars
<1>5. /\ Seen \subseteq Seen' /\ SeenOK(Seen', approved)
      /\ SettledTxs \subseteq SettledTxs'
      /\ Len(chain') + 1 <= settled' + Finality
  BY PoolStep DEF HandleRequest
<1> QED BY <1>3, <1>4, <1>5, Assemble DEF TasksKept, HandleRequest

(* A node is told what another has recorded. *)
LEMMA NoticeKeeps ==
  ASSUME Inv, NEW n \in Node, NEW f \in Told(n), HandleNotice(n, f)
  PROVE  Inv'
<1>1. f \in Final /\ f.tx \in Tx
  BY RequestTypes DEF Inv
<1>2. Sound(f.tx, Seen) /\ Backed(f.tx.vote, approved)
  <2>1. PICK m \in Node, v \in Vote : row[m][v].sent = f /\ f # None
    BY DEF Told
  <2>2. RowOK(v, row[m][v], Seen, SettledTxs, approved)
    BY DEF Inv
  <2> QED BY <2>1, <2>2 DEF RowOK
<1>3. UNCHANGED <<chainVars, approved, row, lock, paused, pass>>
  BY DEF HandleNotice
<1>4. \/ Accepts(f.tx) /\ pool' = Accept(f.tx) /\ UNCHANGED tasks
      \/ pool' = pool /\ f.tx.vote \in approved[n] /\ Spawn(n, "notice", f, "record")
  BY DEF HandleNotice, Retryable
<1>5. TasksKept
  BY <1>2, <1>4, SpawnKeeps DEF TasksKept, Inv
<1>6. TypeOK'
  <2>1. tasks' \in [Node -> SUBSET Task]
    BY <1>1, <1>4, SpawnType DEF Inv, TypeOK
  <2>2. pool' \subseteq Tx
    BY <1>1, <1>4 DEF Accept, Inv, TypeOK
  <2> QED BY <1>3, <2>1, <2>2 DEF Inv, TypeOK, chainVars
<1>7. /\ Seen \subseteq Seen' /\ SeenOK(Seen', approved)
      /\ SettledTxs \subseteq SettledTxs'
      /\ Len(chain') + 1 <= settled' + Finality
  BY <1>1, <1>2, <1>3, <1>4, PoolStep
<1> QED BY <1>3, <1>5, <1>6, <1>7, Assemble DEF TasksKept

-----------------------------------------------------------------------------
(* Reconciliation, and the chain. *)

(* What a node holds for final is in a block that is no longer replaced. *)
LEMMA FinalIsSettled ==
  ASSUME Inv, NEW t, Confirmed(t), IsFinal(t)
  PROVE  t \in SettledTxs
<1>1. /\ chain \in Seq(Block) /\ settled \in 0 .. Len(chain)
      /\ Len(chain) + 1 <= settled + Finality
  BY DEF Inv, TypeOK
<1>2. DOMAIN chain = 1 .. Len(chain) /\ Len(chain) \in Nat
  BY <1>1, SeqFacts
<1>3. Heights(t) \subseteq 1 .. Len(chain) /\ Heights(t) # {}
  BY <1>2 DEF Heights, Confirmed
<1>4. Min(Heights(t)) \in Heights(t)
  <2>1. Heights(t) \subseteq Nat
    BY <1>3
  <2> QED BY <1>3, <2>1, NatHasMin
<1> DEFINE h == Min(Heights(t))
<1>5. h \in 1 .. Len(chain) /\ t \in chain[h].txs
  BY <1>3, <1>4 DEF Heights
<1>6. Len(chain) + 1 - h >= Finality
  BY DEF IsFinal, Confirmations
<1> HIDE DEF h
<1>7. h \in 1 .. settled
  BY <1>1, <1>2, <1>5, <1>6, FinalityAssumption
<1> QED BY <1>1, <1>5, <1>7, TxsOfPrefix DEF SettledTxs

(* The statements of a pass. *)
PassStep(n, v) ==
  Look(n, v) \/ MarkOrphaned(n, v) \/ MarkIncluded(n, v) \/ Confirm(n, v) \/ Interrupt(n, v)

(* The row they leave. *)
LEMMA PassRow ==
  ASSUME Inv, NEW n \in Node, NEW v \in Vote, PassStep(n, v)
  PROVE  \E r : /\ SetRow(n, v, r) /\ RowTyped(r)
                /\ RowOK(v, r, Seen, SettledTxs, approved)
                /\ r.sent = row[n][v].sent
                /\ ~Confirm(n, v) => r.confirmed = row[n][v].confirmed
                /\ PassOK(r, pass'[n][v], SettledTxs)
<1> DEFINE t == row[n][v].sent.tx
<1>1. /\ row \in [Node -> [Vote -> Row]] /\ pass \in [Node -> [Vote -> Progress]]
      /\ row[n][v] \in Row /\ RowTyped(row[n][v])
      /\ RowOK(v, row[n][v], Seen, SettledTxs, approved)
      /\ PassOK(row[n][v], pass[n][v], SettledTxs)
  BY DEF Inv, TypeOK, RowTyped
<1>2. row = [row EXCEPT ![n][v] = row[n][v]]
  BY <1>1
<1>3. CASE Look(n, v)
  <2>1. pass'[n][v] = Found(t) /\ row[n][v].sent # None /\ ~row[n][v].confirmed
    BY <1>1, <1>3 DEF Look, Pending
  <2>2. Found(t) = "final" => t \in SettledTxs
    BY FinalIsSettled DEF Found
  <2>3. Found(t) # "confirm"
    BY DEF Found
  <2>4. SetRow(n, v, row[n][v])
    BY <1>2, <1>3 DEF Look, SetRow
  <2> QED BY <1>1, <2>1, <2>2, <2>3, <2>4 DEF PassOK
<1>4. CASE MarkOrphaned(n, v)
  <2> DEFINE r == [row[n][v] EXCEPT !.included = FALSE]
  <2>1. SetRow(n, v, r) /\ pass'[n][v] = "idle"
    BY <1>1, <1>4 DEF MarkOrphaned
  <2>2. /\ RowTyped(r) /\ RowOK(v, r, Seen, SettledTxs, approved)
        /\ r.sent = row[n][v].sent /\ r.confirmed = row[n][v].confirmed
    BY <1>1 DEF RowTyped, RowOK, Row
  <2> QED BY <2>1, <2>2 DEF PassOK
<1>5. CASE MarkIncluded(n, v)
  <2> DEFINE r == [row[n][v] EXCEPT !.included = TRUE]
  <2>1. SetRow(n, v, r) /\ pass'[n][v] = IF pass[n][v] = "final" THEN "confirm" ELSE "idle"
    BY <1>1, <1>5 DEF MarkIncluded
  <2>2. /\ RowTyped(r) /\ RowOK(v, r, Seen, SettledTxs, approved)
        /\ r.sent = row[n][v].sent /\ r.confirmed = row[n][v].confirmed
    BY <1>1 DEF RowTyped, RowOK, Row
  <2> HIDE DEF r
  <2> QED BY <1>1, <2>1, <2>2 DEF PassOK
<1>6. CASE Confirm(n, v)
  <2> DEFINE r == [row[n][v] EXCEPT !.confirmed = TRUE, !.started = FALSE]
  <2>1. SetRow(n, v, r) /\ pass'[n][v] = "idle" /\ pass[n][v] = "confirm"
    BY <1>1, <1>6 DEF Confirm
  <2>2. row[n][v].sent # None /\ t \in SettledTxs
    BY <1>1, <2>1 DEF PassOK
  <2>3. /\ RowTyped(r) /\ RowOK(v, r, Seen, SettledTxs, approved)
        /\ r.sent = row[n][v].sent
    BY <1>1, <2>2 DEF RowTyped, RowOK, Row
  <2> QED BY <1>6, <2>1, <2>3 DEF PassOK
<1>7. CASE Interrupt(n, v)
  <2>1. pass'[n][v] \in {"stopped", "idle"} /\ pass[n][v] # "idle"
    BY <1>1, <1>7 DEF Interrupt
  <2>2. SetRow(n, v, row[n][v])
    BY <1>2, <1>7 DEF Interrupt, SetRow
  <2> QED BY <1>1, <2>1, <2>2 DEF PassOK
<1> QED BY <1>3, <1>4, <1>5, <1>6, <1>7 DEF PassStep

(* They leave the other votes and nodes alone. *)
LEMMA PassOthers ==
  ASSUME TypeOK, NEW n \in Node, NEW v \in Vote, PassStep(n, v)
  PROVE  /\ UNCHANGED others
         /\ pass' \in [Node -> [Vote -> Progress]]
         /\ \A m \in Node, u \in Vote : (m # n \/ u # v) => pass'[m][u] = pass[m][u]
         /\ paused' \in [Node -> BOOLEAN]
         /\ \A m \in Node : (m # n \/ Kind[v] # "members") => paused'[m] = paused[m]
<1>1. UNCHANGED others
  BY DEF PassStep, Look, MarkOrphaned, MarkIncluded, Confirm, Interrupt
<1>2. \E p \in Progress : pass' = [pass EXCEPT ![n][v] = p]
  BY DEF PassStep, Look, MarkOrphaned, MarkIncluded, Confirm, Interrupt, Found, Progress, TypeOK
<1>3. UNCHANGED paused \/ \E on \in BOOLEAN : Pause(n, v, on)
  BY DEF PassStep, Look, MarkOrphaned, MarkIncluded, Confirm, Interrupt, Confirmed
<1>4. /\ pass' \in [Node -> [Vote -> Progress]]
      /\ \A m \in Node, u \in Vote : (m # n \/ u # v) => pass'[m][u] = pass[m][u]
  BY <1>2 DEF TypeOK
<1>5. /\ paused' \in [Node -> BOOLEAN]
      /\ \A m \in Node : (m # n \/ Kind[v] # "members") => paused'[m] = paused[m]
  BY <1>3 DEF Pause, TypeOK
<1> QED BY <1>1, <1>4, <1>5

LEMMA ReconcileKeeps ==
  ASSUME Inv, NEW n \in Node, NEW v \in Vote, PassStep(n, v)
  PROVE  Inv'
<1> DEFINE t == row[n][v].sent.tx
<1>1. TypeOK
  BY DEF Inv
<1>2. PICK r : /\ SetRow(n, v, r) /\ RowTyped(r)
               /\ RowOK(v, r, Seen, SettledTxs, approved)
               /\ PassOK(r, pass'[n][v], SettledTxs)
  BY PassRow
<1>3. /\ UNCHANGED others
      /\ pass' \in [Node -> [Vote -> Progress]]
      /\ \A m \in Node, u \in Vote : (m # n \/ u # v) => pass'[m][u] = pass[m][u]
      /\ paused' \in [Node -> BOOLEAN]
  BY <1>1, PassOthers
<1>4. RowsKept
  BY <1>1, <1>2, SetRowKeeps
<1>5. \A m \in Node, u \in Vote : PassOK(row'[m][u], pass'[m][u], SettledTxs)
  <2>1. \A m \in Node, u \in Vote : row'[m][u] = IF m = n /\ u = v THEN r ELSE row[m][u]
    BY <1>1, <1>2 DEF SetRow, TypeOK
  <2>2. \A m \in Node, u \in Vote : PassOK(row[m][u], pass[m][u], SettledTxs)
    BY DEF Inv
  <2> QED BY <1>2, <1>3, <2>1, <2>2
<1>6. \/ pass[n][v] = "nothing" /\ Accepts(t) /\ pool' = Accept(t)
      \/ pool' = pool
  BY DEF PassStep, Look, MarkOrphaned, MarkIncluded, Confirm, Interrupt
<1>7. pass[n][v] = "nothing" => t \in Tx /\ Sound(t, Seen) /\ Backed(t.vote, approved)
  <2>1. /\ row[n][v] \in Row /\ RowOK(v, row[n][v], Seen, SettledTxs, approved)
        /\ PassOK(row[n][v], pass[n][v], SettledTxs)
    BY <1>1 DEF Inv, TypeOK
  <2> QED BY <2>1 DEF PassOK, RowOK, Row, Final
<1>8. TypeOK'
  <2>1. /\ row' \in [Node -> [Vote -> Row]]
        /\ \A m \in Node, u \in Vote : RowTyped(row'[m][u])
    BY <1>1, <1>2, SetRowType
  <2>2. pool' \subseteq Tx
    BY <1>1, <1>6, <1>7 DEF Accept, TypeOK
  <2> QED BY <1>1, <1>3, <2>1, <2>2 DEF others, chainVars, TypeOK, RowTyped
<1>9. /\ Seen \subseteq Seen' /\ SeenOK(Seen', approved)
      /\ SettledTxs \subseteq SettledTxs'
      /\ Len(chain') + 1 <= settled' + Finality
  BY <1>3, <1>6, <1>7, PoolStep DEF others
<1> QED BY <1>3, <1>4, <1>5, <1>8, <1>9, Assemble DEF others, RowsKept

LEMMA MaxOfTwo ==
  ASSUME NEW a \in Nat, NEW b \in Nat
  PROVE  Max({a, b}) \in {a, b} /\ Max({a, b}) >= a /\ Max({a, b}) >= b
<1>1. \E x \in {a, b} : \A y \in {a, b} : x >= y
  OBVIOUS
<1> QED BY <1>1 DEF Max

(* A block takes over the mempool, and what is deep enough is settled. *)
LEMMA MineKeeps ==
  ASSUME Inv, Mine
  PROVE  Inv' /\ SettledTxs \subseteq SettledTxs'
<1> DEFINE b == [id |-> mined + 1, txs |-> pool]
           s == IF Len(chain') >= Finality THEN Len(chain') + 1 - Finality ELSE 0
<1>1. /\ chain \in Seq(Block) /\ b \in Block /\ settled \in 0 .. Len(chain)
      /\ mined \in Nat /\ Len(chain) + 1 <= settled + Finality
  BY DEF Inv, TypeOK, Block
<1>2. chain' = Append(chain, b) /\ settled' = Max({settled, s}) /\ pool' = {}
  BY DEF Mine, Settle
<1>3. /\ chain' \in Seq(Block) /\ Len(chain') = Len(chain) + 1 /\ Len(chain) \in Nat
      /\ \A i \in 1 .. Len(chain) : chain'[i] = chain[i]
  BY <1>1, <1>2, SeqFacts
<1>4. s \in Nat /\ s <= Len(chain')
  BY <1>3, FinalityAssumption
<1>5. settled' \in {settled, s} /\ settled' >= settled /\ settled' >= s
  <2> HIDE DEF s
  <2> QED BY <1>1, <1>2, <1>4, MaxOfTwo
<1>6. settled' \in 0 .. Len(chain') /\ Len(chain') + 1 <= settled' + Finality
  BY <1>1, <1>3, <1>4, <1>5, FinalityAssumption
<1>7. Seen' = Seen
  <2>1. TxsOf(chain') = TxsOf(chain) \cup b.txs
    BY <1>1, <1>2, TxsOfAppend
  <2> QED BY <1>2, <2>1 DEF Seen
<1>8. SettledTxs \subseteq SettledTxs'
  <2>1. \A t : t \in SettledTxs => \E i \in 1 .. settled : t \in chain[i].txs
    BY <1>1, TxsOfPrefix DEF SettledTxs
  <2>2. \A t : (\E i \in 1 .. settled' : t \in chain'[i].txs) => t \in SettledTxs'
    BY <1>3, <1>6, TxsOfPrefix DEF SettledTxs
  <2>3. \A i \in 1 .. settled : i \in 1 .. settled' /\ chain'[i] = chain[i]
    BY <1>1, <1>3, <1>5, <1>6
  <2> QED BY <2>1, <2>2, <2>3
<1>9. TypeOK'
  <2>1. lock' \in [Node -> [Node -> Tx \cup {None}]]
    <3>1. \A n, p \in Node : lock[n][p] \in Tx \cup {None}
      BY DEF Inv, TypeOK
    <3> QED BY <3>1 DEF Mine
  <2>2. mined' \in Nat /\ UNCHANGED <<approved, row, tasks, paused, pass>>
    BY <1>1 DEF Mine, memory
  <2> QED BY <1>2, <1>3, <1>6, <2>1, <2>2 DEF Inv, TypeOK
<1> QED BY <1>6, <1>7, <1>8, <1>9, Assemble DEF Mine, memory, Inv

(* The last block goes, unless it is settled, and its transactions wait    *)
(* again.                                                                  *)
LEMMA ReorganiseKeeps ==
  ASSUME Inv, Reorganise
  PROVE  Inv' /\ SettledTxs \subseteq SettledTxs'
<1> DEFINE h == Len(chain) - 1
<1>1. /\ chain \in Seq(Block) /\ settled \in 0 .. Len(chain) /\ Len(chain) \in Nat
      /\ Len(chain) + 1 <= settled + Finality /\ Len(chain) > settled
      /\ pool \subseteq Tx
  BY SeqFacts DEF Inv, TypeOK, Reorganise
<1>2. /\ chain' = SubSeq(chain, 1, h) /\ settled' = settled
      /\ pool' = pool \cup chain[Len(chain)].txs
  BY DEF Reorganise
<1>3. h \in 0 .. Len(chain) /\ settled \in 0 .. h
  BY <1>1
<1> HIDE DEF h
<1>4. /\ chain' \in Seq(Block) /\ Len(chain') = h
      /\ \A i \in 1 .. h : chain'[i] = chain[i]
  BY <1>1, <1>2, <1>3, SeqFacts
<1>5. Len(chain) \in 1 .. Len(chain) /\ chain[Len(chain)].txs \subseteq Tx
  <2>1. Len(chain) \in 1 .. Len(chain)
    BY <1>1
  <2>2. chain[Len(chain)] \in Block
    BY <1>1, <2>1, SeqFacts
  <2> QED BY <2>1, <2>2 DEF Block
<1>6. Seen' = Seen
  <2>1. \A t : t \in TxsOf(chain) <=> \E i \in 1 .. Len(chain) : t \in chain[i].txs
    BY <1>1, TxsOfBlocks
  <2>2. \A t : t \in TxsOf(chain') <=> \E i \in 1 .. h : t \in chain[i].txs
    BY <1>1, <1>2, <1>3, TxsOfPrefix
  <2>3. \A i : i \in 1 .. Len(chain) <=> i \in 1 .. h \/ i = Len(chain)
    BY <1>1 DEF h
  <2>4. \A t : t \in TxsOf(chain') \cup pool' <=> t \in TxsOf(chain) \cup pool
    BY <1>2, <1>5, <2>1, <2>2, <2>3
  <2> QED BY <2>4 DEF Seen
<1>7. SettledTxs \subseteq SettledTxs'
  <2>1. \A t : t \in SettledTxs => \E i \in 1 .. settled : t \in chain[i].txs
    BY <1>1, TxsOfPrefix DEF SettledTxs
  <2>2. \A t : (\E i \in 1 .. settled : t \in chain'[i].txs) => t \in SettledTxs'
    BY <1>2, <1>3, <1>4, TxsOfPrefix DEF SettledTxs
  <2>3. \A i \in 1 .. settled : chain'[i] = chain[i]
    BY <1>3, <1>4
  <2> QED BY <2>1, <2>2, <2>3
<1>8. Len(chain') + 1 <= settled' + Finality
  BY <1>1, <1>2, <1>4, FinalityAssumption DEF h
<1>9. TypeOK'
  BY <1>1, <1>2, <1>3, <1>4, <1>5 DEF Reorganise, memory, Inv, TypeOK
<1> QED BY <1>6, <1>7, <1>8, <1>9, Assemble DEF Reorganise, memory, Inv

(* What else happens to the locks and in the mempool. *)
LEMMA WorldKeeps ==
  ASSUME Inv, Environment
  PROVE  Inv'
<1>1. ASSUME NEW n \in Node, NEW p \in Node, ReleaseLock(n, p)
      PROVE  Inv'
  <2>1. TypeOK'
    BY <1>1 DEF ReleaseLock, memory, chainVars, Inv, TypeOK
  <2>2. /\ Seen \subseteq Seen' /\ SeenOK(Seen', approved)
        /\ SettledTxs \subseteq SettledTxs'
        /\ Len(chain') + 1 <= settled' + Finality
    BY <1>1, PoolStep DEF ReleaseLock
  <2> QED BY <1>1, <2>1, <2>2, Assemble DEF ReleaseLock, memory
<1>2. ASSUME NEW c \in Coin, OtherSpend(c)
      PROVE  Inv'
  <2> DEFINE t == [vote |-> 0, eyes |-> {}, fee |-> c]
  <2>1. t \in Tx /\ t.vote = 0
    BY DEF Tx
  <2>2. Accepts(t) /\ pool' = Accept(t) /\ UNCHANGED <<chainVars, approved, lock, memory>>
    BY <1>2 DEF OtherSpend
  <2> HIDE DEF t
  <2>3. TypeOK'
    BY <2>1, <2>2 DEF memory, chainVars, Accept, Inv, TypeOK
  <2>4. /\ Seen \subseteq Seen' /\ SeenOK(Seen', approved)
        /\ SettledTxs \subseteq SettledTxs'
        /\ Len(chain') + 1 <= settled' + Finality
    BY <2>1, <2>2, PoolStep
  <2> QED BY <2>2, <2>3, <2>4, Assemble DEF memory
<1> QED BY <1>1, <1>2, MineKeeps, ReorganiseKeeps DEF Environment

-----------------------------------------------------------------------------
(* The invariant. *)

LEMMA InitInv == Init => Inv
<1> SUFFICES ASSUME Init PROVE Inv
  OBVIOUS
<1>1. chain = <<>> /\ chain \in Seq(Block) /\ Len(chain) = 0 /\ settled = 0 /\ pool = {}
  BY DEF Init
<1>2. EmptyRow \in Row /\ EmptyRow.sent = None /\ ~EmptyRow.confirmed /\ ~EmptyRow.started
  BY DEF EmptyRow, Row
<1>3. \A n \in Node, v \in Vote : row[n][v] = EmptyRow
  BY DEF Init
<1>4. TypeOK
  BY <1>1, <1>2, <1>3 DEF Init, TypeOK, Progress
<1>5. Seen = {}
  <2>1. TxsOf(chain) = {}
    BY <1>1 DEF TxsOf
  <2> QED BY <1>1, <2>1 DEF Seen
<1>6. SeenOK(Seen, approved)
  BY <1>5 DEF SeenOK
<1>7. \A n \in Node, v \in Vote : RowOK(v, row[n][v], Seen, SettledTxs, approved)
  BY <1>2, <1>3 DEF RowOK
<1>8. \A n \in Node : \A k \in tasks[n] : TaskOK(n, k, Seen, approved)
  BY DEF Init
<1>9. \A n \in Node, v \in Vote : PassOK(row[n][v], pass[n][v], SettledTxs)
  BY DEF Init, PassOK
<1> QED BY <1>1, <1>4, <1>6, <1>7, <1>8, <1>9, FinalityAssumption DEF Inv

LEMMA StepInv == Inv /\ [Next]_vars => Inv'
<1> SUFFICES ASSUME Inv, [Next]_vars PROVE Inv'
  OBVIOUS
<1>1. ASSUME NEW n \in Node, Handle(n)
      PROVE  Inv'
  BY <1>1, RequestKeeps, NoticeKeeps, StatementKeeps DEF Handle
<1>2. ASSUME NEW n \in Node, NEW v \in Vote, Execute(n, v) \/ Reconcile(n, v)
      PROVE  Inv'
  <2>1. CASE Execute(n, v)
    BY <2>1, AttemptKeeps DEF Execute
  <2>2. CASE Retry(n, v)
    BY <2>2, AttemptKeeps DEF Retry
  <2> QED BY <1>2, <2>1, <2>2, ReconcileKeeps DEF Reconcile, PassStep
<1>3. CASE UNCHANGED vars
  BY <1>3 DEF vars, chainVars, Inv, TypeOK, Seen, SettledTxs
<1> QED BY <1>1, <1>2, <1>3, WorldKeeps DEF Next

(* The inductive invariant holds. *)
THEOREM Invariance == Spec => []Inv
  BY InitInv, StepInv, PTL DEF Spec

(* Every variable keeps its type. *)
THEOREM TypeCorrect == Spec => []TypeOK
<1>1. Inv => TypeOK
  BY DEF Inv
<1> QED BY <1>1, Invariance, PTL

(* ExecutedByApproval: what a mempool or the chain takes for a vote was    *)
(* signed by the members of a branch that hold the vote for approved.      *)
THEOREM ApprovalOfExecution == Spec => []ExecutedByApproval
<1>1. Inv => ExecutedByApproval
  BY DEF Inv, SeenOK, Seen, Backed, ExecutedByApproval
<1> QED BY <1>1, Invariance, PTL

(* No vote is executed twice: of the transactions that a mempool or the    *)
(* chain has taken at any time, no two belong to one vote, also after      *)
(* reorganisations, retries with other inputs and cancelled attempts       *)
(* (operation_utxos, sendrawtransaction).                                  *)
OneTransaction == \A t, u \in Seen : t.vote # 0 /\ t.vote = u.vote => t = u

THEOREM ExecutedOnce == Spec => []OneTransaction
<1>1. Inv => OneTransaction
  BY OneOfVote DEF Inv, OneTransaction
<1> QED BY <1>1, Invariance, PTL

-----------------------------------------------------------------------------
(* What is recorded, and the pause. *)

(* The other steps leave the rows and the pause alone. *)
LEMMA OtherRows ==
  ASSUME Next
  PROVE  \/ \E n \in Node : \E k \in tasks[n] : Statement(n, k)
         \/ \E n \in Node, v \in Vote : PassStep(n, v)
         \/ UNCHANGED <<row, paused, pass>>
<1>1. ASSUME NEW n \in Node, Handle(n)
      PROVE  (\E k \in tasks[n] : Statement(n, k)) \/ UNCHANGED <<row, paused, pass>>
  BY <1>1 DEF Handle, HandleRequest, HandleNotice
<1>2. ASSUME NEW n \in Node, NEW v \in Vote, Execute(n, v) \/ Reconcile(n, v)
      PROVE  PassStep(n, v) \/ UNCHANGED <<row, paused, pass>>
  BY <1>2 DEF Execute, Reconcile, Retry, PassStep
<1>3. Environment => UNCHANGED <<row, paused, pass>>
  BY DEF Environment, ReleaseLock, OtherSpend, Mine, Reorganise, memory
<1> QED BY <1>1, <1>2, <1>3 DEF Next

(* RecordedIsKept: what a node has recorded is never exchanged. *)
THEOREM RecordKept == Spec => RecordedIsKept
<1>1. ASSUME Inv, [Next]_vars, NEW m \in Node, NEW u \in Vote, row[m][u].sent # None
      PROVE  row'[m][u].sent # None /\ row'[m][u].sent.tx = row[m][u].sent.tx
  <2>1. CASE \E n \in Node : \E k \in tasks[n] : Statement(n, k)
    BY <1>1, <2>1, StatementRows
  <2>2. ASSUME NEW n \in Node, NEW v \in Vote, PassStep(n, v)
        PROVE  row'[m][u].sent = row[m][u].sent
    <3>1. PICK r : SetRow(n, v, r) /\ r.sent = row[n][v].sent
      BY <1>1, <2>2, PassRow
    <3> QED BY <1>1, <3>1 DEF SetRow, Inv, TypeOK
  <2>3. CASE UNCHANGED row
    BY <1>1, <2>3
  <2> QED BY <1>1, <2>1, <2>2, <2>3, OtherRows DEF vars
<1>2. Inv /\ [Next]_vars => [\A n \in Node, v \in Vote : row[n][v].sent # None =>
        row'[n][v].sent # None /\ row'[n][v].sent.tx = row[n][v].sent.tx]_vars
  BY <1>1
<1> QED BY <1>2, Invariance, PTL DEF Spec, RecordedIsKept

(* A pass that found nothing on the chain has ended the pause. *)
Unpaused ==
  \A n \in Node, v \in Vote :
    Kind[v] = "members" /\ pass[n][v] = "nothing" => ~paused[n]

(* What keeps a node paused. *)
Reason(k, r, p) == /\ k = "members" /\ r.sent # None /\ ~r.confirmed
                   /\ r.included \/ p \in {"block", "final", "stopped"}

(* A statement of a pass keeps the reason, or ends the pause. *)
LEMMA PassPauses ==
  ASSUME Inv, Unpaused, NEW n \in Node, NEW v \in Vote, PassStep(n, v),
         Kind[v] = "members", paused'[n],
         \A u \in Vote : Reason(Kind[u], row[n][u], pass[n][u]) =>
           u = v \/ Reason(Kind[u], row'[n][u], pass'[n][u]),
         paused[n] => \E u \in Vote : Reason(Kind[u], row[n][u], pass[n][u])
  PROVE  \E u \in Vote : Reason(Kind[u], row'[n][u], pass'[n][u])
<1>1. /\ row \in [Node -> [Vote -> Row]] /\ pass \in [Node -> [Vote -> Progress]]
      /\ paused \in [Node -> BOOLEAN] /\ row[n][v] \in Row
  BY DEF Inv, TypeOK
<1>2. CASE Look(n, v)
  <2> DEFINE t == row[n][v].sent.tx
  <2>1. paused' = [paused EXCEPT ![n] = Confirmed(t)]
    BY <1>2 DEF Look, Pause
  <2>2. Confirmed(t)
    BY <1>1, <2>1
  <2>3. pass'[n][v] = Found(t) /\ row' = row /\ Pending(n, v)
    BY <1>1, <1>2 DEF Look
  <2>4. Found(t) \in {"block", "final"}
    BY <2>2 DEF Found
  <2> QED BY <2>3, <2>4 DEF Reason, Pending
<1>3. CASE MarkOrphaned(n, v)
  BY <1>3 DEF MarkOrphaned, Unpaused
<1>4. CASE MarkIncluded(n, v)
  <2> DEFINE r == [row[n][v] EXCEPT !.included = TRUE]
  <2>1. row' = [row EXCEPT ![n][v] = r] /\ pass[n][v] # "idle"
    BY <1>4 DEF MarkIncluded, SetRow
  <2>2. r.included /\ r.sent = row[n][v].sent /\ r.confirmed = row[n][v].confirmed
    BY <1>1 DEF Row
  <2>3. row[n][v].sent # None /\ ~row[n][v].confirmed
    BY <2>1 DEF Inv, PassOK
  <2> HIDE DEF r
  <2>4. row'[n][v] = r
    BY <1>1, <2>1
  <2> QED BY <2>2, <2>3, <2>4 DEF Reason
<1>5. CASE Confirm(n, v)
  BY <1>1, <1>5 DEF Confirm, Pause
<1>6. CASE Interrupt(n, v)
  <2>1. /\ row' = row /\ paused' = paused
        /\ pass'[n][v] = IF pass[n][v] \in {"block", "final"} /\ ~row[n][v].included
                         THEN "stopped" ELSE "idle"
        /\ pass[n][v] # "stopped"
    BY <1>1, <1>6 DEF Interrupt
  <2>2. PICK u \in Vote : Reason(Kind[u], row[n][u], pass[n][u])
    BY <2>1
  <2>3. CASE u = v
    BY <2>1, <2>2, <2>3 DEF Reason
  <2> QED BY <2>2, <2>3
<1> QED BY <1>2, <1>3, <1>4, <1>5, <1>6 DEF PassStep

(* PausedForMigration: a pause does not outlive the membership change.     *)
THEOREM PauseSafety == Spec => []PausedForMigration
<1> DEFINE Paused == \A n \in Node :
      paused[n] => \E v \in Vote : Reason(Kind[v], row[n][v], pass[n][v])
<1>1. Init => Paused /\ Unpaused
  BY DEF Init, Unpaused
<1>2. Inv /\ Paused /\ Unpaused /\ [Next]_vars => Paused' /\ Unpaused'
  <2> SUFFICES ASSUME Inv, Paused, Unpaused, [Next]_vars
               PROVE  Paused' /\ Unpaused'
    OBVIOUS
  <2>1. /\ paused \in [Node -> BOOLEAN] /\ pass \in [Node -> [Vote -> Progress]]
        /\ row \in [Node -> [Vote -> Row]] /\ TypeOK
    BY DEF Inv, TypeOK
  <2>2. ASSUME NEW n \in Node, NEW k \in tasks[n], Statement(n, k)
        PROVE  Paused' /\ Unpaused'
    <3>1. UNCHANGED <<paused, pass>>
      BY <2>2 DEF Statement, Cancel, Unlock, Start, Lock, Revert, Finalize, Abort,
                  RecordBroadcast, Broadcast, rest
    <3>2. \A m \in Node, u \in Vote :
            Reason(Kind[u], row[m][u], pass[m][u]) => Reason(Kind[u], row'[m][u], pass[m][u])
      BY <2>2, StatementRows DEF Reason
    <3> QED BY <3>1, <3>2 DEF Unpaused
  <2>3. ASSUME NEW n \in Node, NEW v \in Vote, PassStep(n, v)
        PROVE  Paused' /\ Unpaused'
    <3>1. PICK r : SetRow(n, v, r)
      BY <2>3, PassRow
    <3>2. \A m \in Node, u \in Vote : (m # n \/ u # v) => row'[m][u] = row[m][u]
      BY <2>1, <3>1 DEF SetRow
    <3>3. /\ \A m \in Node, u \in Vote : (m # n \/ u # v) => pass'[m][u] = pass[m][u]
          /\ \A m \in Node : (m # n \/ Kind[v] # "members") => paused'[m] = paused[m]
      BY <2>1, <2>3, PassOthers
    <3>4. \A m \in Node, u \in Vote :
            (m # n \/ u # v) /\ Reason(Kind[u], row[m][u], pass[m][u])
              => Reason(Kind[u], row'[m][u], pass'[m][u])
      BY <3>2, <3>3
    <3>5. ASSUME NEW m \in Node, paused'[m]
          PROVE  \E u \in Vote : Reason(Kind[u], row'[m][u], pass'[m][u])
      <4>1. CASE m = n /\ Kind[v] = "members"
        BY <2>3, <3>4, <3>5, <4>1, PassPauses
      <4>2. CASE ~(m = n /\ Kind[v] = "members")
        <5>1. PICK u \in Vote : Reason(Kind[u], row[m][u], pass[m][u])
          BY <3>3, <3>5, <4>2
        <5>2. m # n \/ u # v
          BY <4>2, <5>1 DEF Reason
        <5> QED BY <3>4, <5>1, <5>2
      <4> QED BY <4>1, <4>2
    <3>6. Unpaused'
      <4> SUFFICES ASSUME NEW m \in Node, NEW u \in Vote, Kind[u] = "members",
                          pass'[m][u] = "nothing", paused'[m]
                   PROVE  FALSE
        BY DEF Unpaused
      <4>1. CASE m = n /\ u = v
        <5>1. Look(n, v)
          <6>1. pass'[n][v] = "nothing"
            BY <4>1
          <6>2. MarkOrphaned(n, v) \/ Confirm(n, v) => pass' = [pass EXCEPT ![n][v] = "idle"]
            BY DEF MarkOrphaned, Confirm
          <6>5. MarkOrphaned(n, v) \/ Confirm(n, v) => pass'[n][v] = "idle"
            BY <2>1, <6>2
          <6>3. MarkIncluded(n, v) => pass'[n][v] \in {"confirm", "idle"}
            BY <2>1 DEF MarkIncluded
          <6>4. Interrupt(n, v) => pass'[n][v] \in {"stopped", "idle"}
            BY <2>1 DEF Interrupt
          <6> QED BY <2>3, <6>1, <6>3, <6>4, <6>5 DEF PassStep
        <5>2. ~Confirmed(row[n][v].sent.tx)
          BY <2>1, <4>1, <5>1 DEF Look, Found
        <5> QED BY <2>1, <4>1, <5>1, <5>2 DEF Look, Pause
      <4>2. CASE ~(m = n /\ u = v)
        <5>1. pass[m][u] = "nothing" /\ ~paused[m]
          BY <3>3, <4>2 DEF Unpaused
        <5>2. m = n /\ ~Look(n, v)
          BY <3>3, <5>1 DEF Look, Idle
        <5> QED BY <2>1, <2>3, <5>1, <5>2
                DEF PassStep, MarkOrphaned, MarkIncluded, Confirm, Interrupt, Pause
      <4> QED BY <4>1, <4>2
    <3> QED BY <3>5, <3>6
  <2>4. CASE UNCHANGED <<row, paused, pass>>
    BY <2>4 DEF Unpaused
  <2> QED BY <2>2, <2>3, <2>4, OtherRows DEF vars
<1>3. Paused => PausedForMigration
  BY DEF PausedForMigration, Pending, Reason
<1> HIDE DEF Paused
<1> QED BY <1>1, <1>2, <1>3, Invariance, PTL DEF Spec

-----------------------------------------------------------------------------
(* The executions implement VoteOutcome. *)

(* What is settled stays so. *)
LEMMA SettledGrows ==
  ASSUME Inv, [Next]_vars
  PROVE  SettledTxs \subseteq SettledTxs'
<1>1. ASSUME NEW n \in Node, Handle(n)
      PROVE  UNCHANGED chainVars
  BY <1>1 DEF Handle, HandleRequest, HandleNotice, Statement, Cancel, Unlock, Start, Lock,
              Revert, Finalize, Abort, RecordBroadcast, Broadcast, rest
<1>2. ASSUME NEW n \in Node, NEW v \in Vote, Execute(n, v) \/ Reconcile(n, v)
      PROVE  UNCHANGED chainVars
  BY <1>2 DEF Execute, Reconcile, Look, MarkOrphaned, MarkIncluded, Confirm, Interrupt,
              Retry, others
<1>3. Environment => UNCHANGED chainVars \/ Mine \/ Reorganise
  BY DEF Environment, ReleaseLock, OtherSpend
<1>4. UNCHANGED chainVars => SettledTxs' = SettledTxs
  BY DEF chainVars, SettledTxs
<1>5. UNCHANGED vars => UNCHANGED chainVars
  BY DEF vars, chainVars
<1> QED BY <1>1, <1>2, <1>3, <1>4, <1>5, MineKeeps, ReorganiseKeeps DEF Next

(* What is settled was taken. *)
LEMMA SettledInSeen ==
  ASSUME TypeOK PROVE SettledTxs \subseteq Seen
<1>1. chain \in Seq(Block) /\ settled \in 0 .. Len(chain)
  BY DEF TypeOK
<1>2. \A t \in SettledTxs : \E i \in 1 .. settled : t \in chain[i].txs
  BY <1>1, TxsOfPrefix DEF SettledTxs
<1>3. \A i \in 1 .. settled : i \in 1 .. Len(chain)
  BY <1>1
<1> QED BY <1>1, <1>2, <1>3, TxsOfBlocks DEF Seen

(* The settled execution of a vote is the one transaction of it there. *)
LEMMA SettledIsOne ==
  ASSUME Inv, NEW v \in Vote
  PROVE  /\ Settled(v) # None => Settled(v) \in SettledTxs /\ Settled(v).vote = v
         /\ \A t \in SettledTxs : t.vote = v => Settled(v) = t
<1> DEFINE txs == {t \in SettledTxs : t.vote = v}
<1>1. SettledTxs \subseteq Seen /\ SettledTxs \subseteq Tx
  BY SettledInSeen, SeenTyped DEF Inv
<1>2. Settled(v) = IF txs = {} THEN None ELSE CHOOSE t \in txs : TRUE
  BY DEF Settled, SettledTxs
<1>3. txs # {} => (CHOOSE t \in txs : TRUE) \in txs
  OBVIOUS
<1>4. \A t \in txs : t \in Tx /\ t # None
  BY <1>1, NoneAssumption
<1>5. \A t, u \in txs : t = u
  <2>1. v # 0
    BY VoteNotZero
  <2> QED BY <1>1, <2>1, OneOfVote DEF Inv
<1> HIDE DEF txs
<1>6. /\ Settled(v) # None => Settled(v) \in txs
      /\ \A t \in txs : Settled(v) = t
  BY <1>2, <1>3, <1>4, <1>5
<1> QED BY <1>6 DEF txs

(* What the refinement knows of a state. *)
SettledFact ==
  /\ Seen \subseteq Tx /\ SettledTxs \subseteq Seen
  /\ \A v \in Vote :
       /\ Settled(v) # None => Settled(v) \in SettledTxs /\ Settled(v).vote = v
       /\ \A t \in SettledTxs : t.vote = v => Settled(v) = t

LEMMA SettledFacts == Inv => SettledFact
<1>1. Inv => Seen \subseteq Tx /\ SettledTxs \subseteq Seen
  BY SeenTyped, SettledInSeen DEF Inv
<1> QED BY <1>1, SettledIsOne DEF SettledFact

(* When no row changes what it confirms, the chain decides. *)
LEMMA Decides ==
  ASSUME SettledFact, SettledFact', SettledTxs \subseteq SettledTxs', Learned' = Learned
  PROVE  Outcome!Decide
<1>1. ASSUME NEW v \in Vote
      PROVE  /\ Settled(v)' \in Tx \cup {None}
             /\ Settled(v) # None => Settled(v)' = Settled(v)
  BY DEF SettledFact
<1>2. Decided' \in [Vote -> Tx \cup {None}]
  BY <1>1 DEF Decided
<1>3. \A v \in Vote : Decided[v] # None => Decided'[v] = Decided[v]
  BY <1>1 DEF Decided
<1> QED BY <1>2, <1>3 DEF Outcome!Decide

(* A node learns what is decided when it confirms a vote. *)
LEMMA Learns ==
  ASSUME Inv, SettledFact, NEW n \in Node, NEW v \in Vote, Confirm(n, v)
  PROVE  Outcome!Learn(n, v)
<1> DEFINE t == row[n][v].sent.tx
           r == [row[n][v] EXCEPT !.confirmed = TRUE, !.started = FALSE]
<1>1. /\ row[n][v].sent # None /\ ~row[n][v].confirmed /\ t \in SettledTxs
      /\ RowOK(v, row[n][v], Seen, SettledTxs, approved) /\ t \in Tx
  BY DEF Confirm, PassOK, Inv, TypeOK, Row, Final
<1>2. UNCHANGED Decided
  <2>1. UNCHANGED chainVars
    BY DEF Confirm, others
  <2> QED BY <2>1 DEF chainVars, Decided, Settled
<1>3. /\ row \in [Node -> [Vote -> Row]] /\ row' = [row EXCEPT ![n][v] = r]
      /\ r.sent = row[n][v].sent /\ r.confirmed
  BY DEF Inv, TypeOK, Confirm, SetRow, Row
<1>4. Settled(v) = t
  <2>1. t.vote = v
    BY <1>1 DEF RowOK
  <2> QED BY <1>1, <2>1 DEF SettledFact
<1>5. Learned[n][v] = None /\ Decided[v] = t /\ t # None
  BY <1>1, <1>4, NoneAssumption DEF Learned, Decided
<1>6. Learned' = [Learned EXCEPT ![n][v] = Decided[v]]
  <2> HIDE DEF t, r
  <2>1. \A m \in Node, u \in Vote :
          row'[m][u] = IF m = n /\ u = v THEN r ELSE row[m][u]
    BY <1>3
  <2>2. \A m \in Node, u \in Vote :
          Learned'[m][u] = IF m = n /\ u = v THEN t ELSE Learned[m][u]
    BY <1>3, <2>1 DEF Learned, t
  <2>3. /\ Learned = [m \in Node |-> [u \in Vote |-> Learned[m][u]]]
        /\ Learned' = [m \in Node |-> [u \in Vote |-> Learned'[m][u]]]
    BY DEF Learned
  <2> HIDE DEF Learned
  <2> QED BY <1>5, <2>2, <2>3
<1> QED BY <1>2, <1>5, <1>6 DEF Outcome!Learn

LEMMA StepRefines ==
  ASSUME Inv, SettledFact, SettledFact', [Next]_vars
  PROVE  [Outcome!Next]_(Outcome!vars)
<1>1. Learned' = Learned => Outcome!Decide
  BY SettledGrows, Decides
<1>2. ASSUME NEW n \in Node, NEW v \in Vote, Confirm(n, v)
      PROVE  Outcome!Next
  BY <1>2, Learns DEF Outcome!Next
<1>3. ASSUME NEW n \in Node, NEW v \in Vote, PassStep(n, v), ~Confirm(n, v)
      PROVE  Learned' = Learned
  <2>1. PICK r : /\ SetRow(n, v, r) /\ r.sent = row[n][v].sent
                 /\ r.confirmed = row[n][v].confirmed
    BY <1>3, PassRow
  <2>2. \A m \in Node, u \in Vote : /\ row'[m][u].sent = row[m][u].sent
                                    /\ row'[m][u].confirmed = row[m][u].confirmed
    BY <2>1 DEF SetRow, Inv, TypeOK
  <2> QED BY <2>2 DEF Learned
<1>4. ASSUME NEW n \in Node, NEW k \in tasks[n], Statement(n, k)
      PROVE  Learned' = Learned
  <2>1. \A m \in Node, u \in Vote :
          /\ row'[m][u].confirmed = row[m][u].confirmed
          /\ row[m][u].sent # None => row'[m][u].sent.tx = row[m][u].sent.tx
    BY <1>4, StatementRows
  <2>2. \A m \in Node, u \in Vote : row[m][u].confirmed => row[m][u].sent # None
    BY DEF Inv, RowOK
  <2> QED BY <2>1, <2>2 DEF Learned
<1>5. UNCHANGED row => Learned' = Learned
  BY DEF Learned
<1>6. Learned' = Learned \/ Outcome!Next
  BY <1>2, <1>3, <1>4, <1>5, OtherRows DEF vars
<1> QED BY <1>1, <1>6 DEF Outcome!Next, Outcome!vars

(* ImplementsOutcome: the network decides one transaction of a vote, and   *)
(* every node that confirms the vote confirms that one.                    *)
THEOREM Refinement == Spec => ImplementsOutcome
<1>1. Init => Outcome!Init
  <2> SUFFICES ASSUME Init PROVE Outcome!Init
    OBVIOUS
  <2>1. SettledTxs = {}
    <3>1. chain = <<>> /\ settled = 0 /\ chain \in Seq(Block) /\ settled \in 0 .. Len(chain)
      BY DEF Init
    <3>2. \A t \in SettledTxs : \E i \in 1 .. settled : t \in chain[i].txs
      BY <3>1, TxsOfPrefix DEF SettledTxs
    <3>3. \A i \in 1 .. settled : FALSE
      BY <3>1
    <3> QED BY <3>2, <3>3
  <2>2. \A v \in Vote : Settled(v) = None
    BY <2>1 DEF Settled, SettledTxs
  <2>3. \A n \in Node, v \in Vote : ~row[n][v].confirmed
    BY DEF Init, EmptyRow
  <2> QED BY <2>2, <2>3 DEF Outcome!Init, Decided, Learned
<1>2. Inv /\ SettledFact /\ SettledFact' /\ [Next]_vars => [Outcome!Next]_(Outcome!vars)
  BY StepRefines
<1>3. Spec => []SettledFact
  BY SettledFacts, Invariance, PTL
<1> QED BY <1>1, <1>2, <1>3, Invariance, PTL DEF Spec, ImplementsOutcome, Outcome!Spec

=============================================================================
