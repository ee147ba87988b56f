--------------------------- MODULE BurningProofs ---------------------------
(***************************************************************************)
(* Theorems about the burning of expired vouchers, for every network, set  *)
(* of items and reserves, lifetime and number of events.                   *)
(***************************************************************************)
EXTENDS Burning, TLAPS

LEMMA Positive ==
  /\ N \in Nat /\ N > 0 /\ Lifetime \in Nat /\ Lifetime > 0
  /\ BurningBlocks \in Nat /\ BurningBlocks > 0 /\ Rounds \in Nat /\ Rounds > 0
  BY NodeAssumption, BlocksAssumption

(* The smaller of two numbers. *)
LEMMA MinOfTwo ==
  ASSUME NEW a \in Nat, NEW b \in Nat
  PROVE  Min({a, b}) = IF a <= b THEN a ELSE b
<1>1. \E x \in {a, b} : \A y \in {a, b} : x <= y
  OBVIOUS
<1>2. Min({a, b}) \in {a, b} /\ \A y \in {a, b} : Min({a, b}) <= y
  BY <1>1 DEF Min
<1> DEFINE m == Min({a, b})
<1> HIDE DEF m
<1>3. m \in {a, b} /\ m <= a /\ m <= b
  BY <1>2 DEF m
<1> QED BY <1>3 DEF m

(* The rounds of a main loop, by what they know. *)
Begun == [pc : {"release", "reconcile"}, late : BOOLEAN, own : Node]
Looking == [pc : {"look"}, late : BOOLEAN]
Preparing == [pc : {"prepare"}, late : BOOLEAN, groups : SUBSET Coin, missing : SUBSET Coin]
Anchoring == [pc : {"anchor"}, late : BOOLEAN, tx : Tx]
Signing == [pc : {"sign", "send", "mark"}, late : BOOLEAN, tx : Tx, tip : BOOLEAN]
Jobs == {Idle} \cup Begun \cup Looking \cup Preparing \cup Anchoring \cup Signing

Old(i) == age[i] >= Lifetime

(* What is true of a row of item i: an expired or burning item is as old   *)
(* as its lifetime, and one that was given up has lost its reserve.        *)
RowOK(i, r) ==
  /\ r \in RowType
  /\ r.st = "burning" <=> r.by # None
  /\ r.st = "burning" => Spends(r.by, i)
  /\ r.st \in {"expired", "burning"} => Old(i)
  /\ r.st = "unburnable" => Reserve[i] \in lost

(* What is true of a round: what it is about to burn is old, and what it   *)
(* misses is lost or about to be spent.                                    *)
JobOK(j) ==
  /\ j \in Jobs
  /\ j.pc \in {"anchor", "sign", "send", "mark"} => \A i \in j.tx.items : Old(i)
  /\ j.pc = "prepare" => j.missing \subseteq ReservesOf(pool) \cup lost

(* A burn burns old items. *)
TxOK(t) == t \in Tx /\ (t.reserves # {} => \A i \in t.items : Old(i))

Plain ==
  /\ age \in [Item -> 0 .. Lifetime] /\ turn \in Node
  /\ notices \subseteq Tx
  /\ behind \in [Node -> BOOLEAN] /\ reorged \in [Node -> BOOLEAN]
  /\ due \in [Node -> 0 .. Rounds]
  /\ lost \subseteq Coin

Rows == row \in [Node -> [Item -> RowType]] /\ \A n \in Node, i \in Item : RowOK(i, row[n][i])
Works == job \in [Node -> Jobs] /\ \A n \in Node : JobOK(job[n])
Txs == \A t \in deep \cup last \cup pool : TxOK(t)
MinedIsLost == ReservesOf(Mined) \subseteq lost

Inv == Plain /\ Rows /\ Works /\ Txs /\ MinedIsLost

(* The kind of a round is told by its step. *)
LEMMA JobKinds ==
  ASSUME NEW j \in Jobs
  PROVE  /\ j.pc = "idle" => j = Idle
         /\ j.pc \in {"release", "reconcile"} => j \in Begun
         /\ j.pc = "look" => j \in Looking
         /\ j.pc = "prepare" => j \in Preparing
         /\ j.pc = "anchor" => j \in Anchoring
         /\ j.pc \in {"sign", "send", "mark"} => j \in Signing
  BY DEF Jobs, Idle, Begun, Looking, Preparing, Anchoring, Signing

LEMMA IdleOK == JobOK(Idle)
  BY DEF JobOK, Jobs, Idle

(* A step of one node that changes its row and its round only. *)
LEMMA NodeStep ==
  ASSUME Inv, NEW n \in Node, NEW f, NEW j,
         UNCHANGED <<chainVars, pool>>,
         f \in [Item -> RowType], \A i \in Item : RowOK(i, f[i]), JobOK(j),
         row' = row \/ row' = [row EXCEPT ![n] = f],
         job' = job \/ job' = [job EXCEPT ![n] = j],
         notices' \subseteq Tx,
         behind' \in [Node -> BOOLEAN], reorged' \in [Node -> BOOLEAN],
         due' \in [Node -> 0 .. Rounds]
  PROVE  Inv'
<1>1. UNCHANGED <<age, turn, deep, last, lost, pool>>
  BY DEF chainVars
<1>2. \A i, r : RowOK(i, r)' <=> RowOK(i, r)
  BY <1>1 DEF RowOK, Old
<1>3. \A k : JobOK(k)' <=> JobOK(k)
  BY <1>1 DEF JobOK, Old
<1>4. \A t : TxOK(t)' <=> TxOK(t)
  BY <1>1 DEF TxOK, Old
<1>5. Plain'
  BY <1>1 DEF Inv, Plain
<1>6. Rows'
  <2>1. row' \in [Node -> [Item -> RowType]]
    BY DEF Inv, Rows
  <2>2. \A m \in Node, i \in Item : RowOK(i, row'[m][i])
    BY DEF Inv, Rows
  <2> QED BY <1>2, <2>1, <2>2 DEF Rows
<1>7. Works'
  <2>1. job' \in [Node -> Jobs] /\ \A m \in Node : JobOK(job'[m])
    BY DEF Inv, Works, JobOK
  <2> QED BY <1>3, <2>1 DEF Works
<1>8. Txs' /\ MinedIsLost'
  BY <1>1, <1>4 DEF Inv, Txs, MinedIsLost, Mined
<1> QED BY <1>5, <1>6, <1>7, <1>8 DEF Inv

(* Rows that the statements on monitored_utxos write. *)
LEMMA RowsWritten ==
  ASSUME Plain, NEW i \in Item
  PROVE  /\ RowOK(i, Fresh(i, age[i])) /\ RowOK(i, Gone)
         /\ Old(i) => RowOK(i, [st |-> "expired", since |-> 0, by |-> None])
         /\ Reserve[i] \in lost => RowOK(i, [st |-> "unburnable", since |-> 0, by |-> None])
         /\ \A t \in Tx, k \in 0 .. 1 :
              Spends(t, i) /\ Old(i) => RowOK(i, [st |-> "burning", since |-> k, by |-> t])
<1>1. age[i] \in Nat /\ 0 \in 0 .. BurningBlocks /\ 1 \in 0 .. BurningBlocks
  BY Positive DEF Plain
<1>2. RowOK(i, Fresh(i, age[i]))
  BY <1>1, Positive DEF RowOK, RowType, Fresh, Lapsed, Old
<1>3. RowOK(i, Gone)
  BY <1>1 DEF RowOK, RowType, Gone
<1>4. Old(i) => RowOK(i, [st |-> "expired", since |-> 0, by |-> None])
  BY <1>1 DEF RowOK, RowType
<1>5. Reserve[i] \in lost => RowOK(i, [st |-> "unburnable", since |-> 0, by |-> None])
  BY <1>1 DEF RowOK, RowType
<1>6. ASSUME NEW t \in Tx, NEW k \in 0 .. 1, Spends(t, i), Old(i)
      PROVE  RowOK(i, [st |-> "burning", since |-> k, by |-> t])
  BY <1>1, <1>6, Positive, NoneAssumption DEF RowOK, RowType
<1> QED BY <1>2, <1>3, <1>4, <1>5, <1>6

(* What a block makes of a row. *)
LEMMA AppliedOK ==
  ASSUME Plain, NEW i \in Item, NEW r, RowOK(i, r), NEW txs
  PROVE  RowOK(i, Applied(r, i, txs))
<1>1. CASE r.st = "gone" \/ i \in ItemsOf(txs)
  BY <1>1, RowsWritten DEF Applied
<1>2. CASE ~(r.st = "gone" \/ i \in ItemsOf(txs)) /\ r.st = "active"
  BY <1>2, RowsWritten DEF Applied
<1>3. CASE ~(r.st = "gone" \/ i \in ItemsOf(txs)) /\ r.st = "burning"
  <2>1. CASE r.since + 1 >= BurningBlocks
    <3>1. Applied(r, i, txs) = [st |-> "expired", since |-> 0, by |-> None]
      BY <1>3, <2>1 DEF Applied
    <3> QED BY <1>3, <3>1, RowsWritten DEF RowOK
  <2>2. CASE ~(r.since + 1 >= BurningBlocks)
    <3>1. Applied(r, i, txs) = [r EXCEPT !.since = r.since + 1]
      BY <1>3, <2>2 DEF Applied, RowOK, RowType
    <3>2. r.since + 1 \in 0 .. BurningBlocks
      BY <2>2, Positive DEF RowOK, RowType
    <3> QED BY <1>3, <3>1, <3>2 DEF RowOK, RowType
  <2> QED BY <2>1, <2>2
<1>4. CASE ~(r.st = "gone" \/ i \in ItemsOf(txs)) /\ r.st \notin {"active", "burning"}
  BY <1>4 DEF Applied
<1> QED BY <1>1, <1>2, <1>3, <1>4

(* Following the chain. *)
LEMMA CatchUpInv ==
  ASSUME Inv, NEW n \in Node, CatchUp(n),
         UNCHANGED <<chainVars, pool, notices>>, due' \in [Node -> 0 .. Rounds]
  PROVE  Inv'
<1> DEFINE f == [i \in Item |-> IF reorged[n] THEN Reindexed(i) ELSE Applied(row[n][i], i, last)]
           j == IF job[n].pc = "idle" THEN job[n]
                ELSE [job[n] EXCEPT !.late = behind[n] \/ job[n].late]
<1>1. \A i \in Item : RowOK(i, f[i])
  BY RowsWritten, AppliedOK DEF Inv, Rows, Reindexed
<1>2. f \in [Item -> RowType]
  <2>1. \A i \in Item : f[i] \in RowType
    BY <1>1 DEF RowOK
  <2>2. f = [i \in Item |-> f[i]]
    OBVIOUS
  <2> HIDE DEF f
  <2> QED BY <2>1, <2>2
<1>3. JobOK(j)
  <2>1. JobOK(job[n]) /\ job[n] \in Jobs
    BY DEF Inv, Works
  <2>2. behind[n] \in BOOLEAN
    BY DEF Inv, Plain
  <2> DEFINE late == behind[n] \/ job[n].late
             k == [job[n] EXCEPT !.late = late]
  <2>3. late \in BOOLEAN
    OBVIOUS
  <2> HIDE DEF late
  <2>4. CASE job[n].pc = "idle"
    BY <2>1, <2>4
  <2>5. CASE job[n] \in Begun
    BY <2>1, <2>3, <2>5 DEF JobOK, Jobs, Begun
  <2>6. CASE job[n] \in Looking
    BY <2>1, <2>3, <2>6 DEF JobOK, Jobs, Looking
  <2>7. CASE job[n] \in Preparing
    BY <2>1, <2>3, <2>7 DEF JobOK, Jobs, Preparing
  <2>8. CASE job[n] \in Anchoring
    BY <2>1, <2>3, <2>8 DEF JobOK, Jobs, Anchoring
  <2>9. CASE job[n] \in Signing
    BY <2>1, <2>3, <2>9 DEF JobOK, Jobs, Signing
  <2> QED BY <2>1, <2>4, <2>5, <2>6, <2>7, <2>8, <2>9 DEF Jobs, Idle
<1>4. row' = [row EXCEPT ![n] = f]
  BY Zenon DEF CatchUp
<1>5. job' = [job EXCEPT ![n] = j]
  BY Zenon DEF CatchUp
<1>6. behind' \in [Node -> BOOLEAN] /\ reorged' \in [Node -> BOOLEAN] /\ notices' \subseteq Tx
  BY DEF CatchUp, Inv, Plain
<1> HIDE DEF f, j
<1> QED BY <1>1, <1>2, <1>3, <1>4, <1>5, <1>6, NodeStep

(* A step of a round, whose row and round are as they should be. *)
LEMMA RoundStep ==
  ASSUME Inv, NEW n \in Node, NEW f, NEW j,
         UNCHANGED <<world, pool>>,
         \A i \in Item : RowOK(i, f[i]), f = [i \in Item |-> f[i]], JobOK(j),
         row' = row \/ row' = [row EXCEPT ![n] = f], Goto(n, j),
         due' = due \/ (due' = [due EXCEPT ![n] = due[n] - 1] /\ due[n] > 0)
  PROVE  Inv'
<1>1. f \in [Item -> RowType]
  <2>1. \A i \in Item : f[i] \in RowType
    BY DEF RowOK
  <2> QED BY <2>1
<1>2. UNCHANGED <<chainVars, behind, reorged, notices>>
  BY DEF world
<1>3. notices' \subseteq Tx /\ behind' \in [Node -> BOOLEAN] /\ reorged' \in [Node -> BOOLEAN]
  BY <1>2 DEF Inv, Plain
<1>4. due' \in [Node -> 0 .. Rounds]
  BY Positive DEF Inv, Plain
<1> QED BY <1>1, <1>2, <1>3, <1>4, NodeStep DEF Goto

(* What a node has. *)
LEMMA Known ==
  ASSUME Inv, NEW n \in Node
  PROVE  /\ job[n] \in Jobs /\ JobOK(job[n])
         /\ row[n] = [i \in Item |-> row[n][i]]
         /\ \A i \in Item : RowOK(i, row[n][i]) /\ row[n][i] \in RowType
         /\ due[n] \in Nat
<1>1. JobOK(job[n]) /\ job[n] \in Jobs
  BY DEF Inv, Works, JobOK
<1>2. row[n] \in [Item -> RowType] /\ \A i \in Item : RowOK(i, row[n][i])
  BY DEF Inv, Rows
<1>3. due[n] \in Nat
  BY Positive DEF Inv, Plain
<1> QED BY <1>1, <1>2, <1>3

LEMMA Plain0 == Inv => Plain
  BY DEF Inv

(* A step of a round that leaves the rows alone. *)
LEMMA Quiet ==
  ASSUME Inv, NEW n \in Node, NEW j, UNCHANGED <<world, pool, row, due>>, JobOK(j), Goto(n, j)
  PROVE  Inv'
<1> DEFINE f == row[n]
<1>1. /\ \A i \in Item : RowOK(i, f[i])
      /\ f = [i \in Item |-> f[i]]
  BY Known
<1>2. row' = row /\ due' = due /\ UNCHANGED <<world, pool>>
  OBVIOUS
<1> HIDE DEF f
<1> QED BY <1>1, <1>2, RoundStep

LEMMA StartInv == ASSUME Inv, NEW n \in Node, Start(n) PROVE Inv'
<1> DEFINE own == IF behind[n] THEN (turn + N - 1) % N ELSE turn
           j == [pc |-> "release", late |-> FALSE, own |-> own]
           f == row[n]
<1>1. own \in Node
  <2>1. turn \in Node
    BY DEF Inv, Plain
  <2> QED BY <2>1, Positive DEF Node
<1>2. JobOK(j)
  <2> HIDE DEF own
  <2> QED BY <1>1 DEF JobOK, Jobs, Begun
<1>3. /\ \A i \in Item : RowOK(i, f[i])
      /\ f = [i \in Item |-> f[i]]
  BY Known
<1>4. /\ Goto(n, j) /\ UNCHANGED <<world, pool>> /\ row' = row
      /\ due' = [due EXCEPT ![n] = due[n] - 1] /\ due[n] > 0
  BY DEF Start
<1> HIDE DEF f, j
<1>5. /\ row' = row \/ row' = [row EXCEPT ![n] = f]
      /\ due' = due \/ (due' = [due EXCEPT ![n] = due[n] - 1] /\ due[n] > 0)
  BY <1>4
<1> QED BY <1>2, <1>3, <1>4, <1>5, RoundStep

LEMMA ReleaseInv == ASSUME Inv, NEW n \in Node, Release(n) PROVE Inv'
<1> DEFINE f == [i \in Item |->
                  IF row[n][i].st = "burning" /\ Vanished(row[n][i].by)
                  THEN [st |-> "expired", since |-> 0, by |-> None] ELSE row[n][i]]
           j == [job[n] EXCEPT !.pc = "reconcile"]
<1>1. \A i \in Item : RowOK(i, f[i])
  <2> SUFFICES ASSUME NEW i \in Item PROVE RowOK(i, f[i])
    OBVIOUS
  <2>1. CASE row[n][i].st = "burning" /\ Vanished(row[n][i].by)
    <3>1. Old(i)
      BY <2>1, Known DEF RowOK
    <3> QED BY <2>1, <3>1, RowsWritten, Plain0
  <2>2. CASE ~(row[n][i].st = "burning" /\ Vanished(row[n][i].by))
    BY <2>2, Known
  <2> QED BY <2>1, <2>2
<1>2. JobOK(j)
  <2>1. job[n] \in Begun
    BY Known, JobKinds DEF Release
  <2> QED BY <2>1 DEF JobOK, Jobs, Begun
<1>3. f = [i \in Item |-> f[i]]
  OBVIOUS
<1>4. /\ Goto(n, j) /\ UNCHANGED <<world, pool>> /\ row' = [row EXCEPT ![n] = f]
      /\ due' = due
  BY DEF Release
<1> HIDE DEF f, j
<1>5. /\ row' = row \/ row' = [row EXCEPT ![n] = f]
      /\ due' = due \/ (due' = [due EXCEPT ![n] = due[n] - 1] /\ due[n] > 0)
  BY <1>4
<1> QED BY <1>1, <1>2, <1>3, <1>4, <1>5, RoundStep

(* An item that the mempool burns or uses, as the node notes it. *)
LEMMA PoolRow ==
  ASSUME Inv, NEW i \in ItemsOf(pool), i \in Item, Old(i)
  PROVE  RowOK(i, [st |-> "burning", since |-> 0, by |-> CHOOSE t \in pool : Spends(t, i)])
<1> DEFINE u == CHOOSE t \in pool : Spends(t, i)
<1>1. \E t \in pool : Spends(t, i)
  BY DEF ItemsOf, Spends
<1>2. u \in pool /\ Spends(u, i)
  BY <1>1
<1>3. u \in Tx
  BY <1>2 DEF Inv, Txs, TxOK
<1>4. 0 \in 0 .. 1
  OBVIOUS
<1> HIDE DEF u
<1>5. RowOK(i, [st |-> "burning", since |-> 0, by |-> u])
  BY <1>2, <1>3, <1>4, RowsWritten, Plain0
<1> QED BY <1>5 DEF u

LEMMA ReconcileInv == ASSUME Inv, NEW n \in Node, ReconcileMempool(n) PROVE Inv'
<1> DEFINE f == [i \in Item |->
               IF i \in Expired(n) \cap ItemsOf(pool)
               THEN [st |-> "burning", since |-> 0,
                     by |-> CHOOSE t \in pool : Spends(t, i)]
               ELSE row[n][i]]
           j == IF job[n].own = n
                THEN [pc |-> "look", late |-> job[n].late] ELSE Idle
<1>1. \A i \in Item : RowOK(i, f[i])
  <2> SUFFICES ASSUME NEW i \in Item PROVE RowOK(i, f[i])
    OBVIOUS
  <2>1. CASE i \in Expired(n) \cap ItemsOf(pool)
    <3>1. Old(i)
      BY <2>1, Known DEF RowOK, Expired
    <3> QED BY <2>1, <3>1, PoolRow
  <2>2. CASE ~(i \in Expired(n) \cap ItemsOf(pool))
    BY <2>2, Known
  <2> QED BY <2>1, <2>2
<1>2. JobOK(j)
  <2>1. job[n] \in Begun
    BY Known, JobKinds DEF ReconcileMempool
  <2>2. job[n].late \in BOOLEAN
    BY <2>1 DEF Begun
  <2> DEFINE late == job[n].late
             k == [pc |-> "look", late |-> late]
  <2>3. JobOK(k)
    <3> HIDE DEF late
    <3>1. late \in BOOLEAN
      BY <2>2 DEF late
    <3> QED BY <3>1 DEF JobOK, Jobs, Looking
  <2> QED BY <2>3, IdleOK
<1>3. f = [i \in Item |-> f[i]]
  OBVIOUS
<1>4. /\ Goto(n, j) /\ UNCHANGED <<world, pool>> /\ row' = [row EXCEPT ![n] = f]
      /\ due' = due
  BY DEF ReconcileMempool
<1> HIDE DEF f, j
<1>5. /\ row' = row \/ row' = [row EXCEPT ![n] = f]
      /\ due' = due \/ (due' = [due EXCEPT ![n] = due[n] - 1] /\ due[n] > 0)
  BY <1>4
<1> QED BY <1>1, <1>2, <1>3, <1>4, <1>5, RoundStep

LEMMA LookInv ==
  ASSUME Inv, NEW n \in Node, NEW groups, groups \subseteq Groups(n), Look(n, groups)
  PROVE  Inv'
<1> DEFINE late == job[n].late
           missing == {c \in groups : ~LiveReserve(c)}
           j == [pc |-> "prepare", late |-> late, groups |-> groups, missing |-> missing]
<1>1. late \in BOOLEAN
  BY Known, JobKinds DEF Look, Looking
<1>2. groups \subseteq Coin /\ missing \subseteq Coin
  BY DEF Groups, Expired, Coin
<1>3. missing \subseteq ReservesOf(pool) \cup lost
  BY DEF Inv, MinedIsLost, LiveReserve, ReservesOf
<1>4. Goto(n, j) /\ UNCHANGED <<world, pool, row, due>>
  BY DEF Look
<1>5. JobOK(j)
  <2> HIDE DEF late, missing
  <2> QED BY <1>1, <1>2, <1>3 DEF JobOK, Jobs, Preparing
<1> HIDE DEF j
<1> QED BY <1>4, <1>5, Quiet

LEMMA NothingExpiredInv == ASSUME Inv, NEW n \in Node, NothingExpired(n) PROVE Inv'
  BY Quiet, IdleOK DEF NothingExpired

LEMMA PrepareInv == ASSUME Inv, NEW n \in Node, Prepare(n) PROVE Inv'
<1> DEFINE w == job[n]
           late == w.late
           quarantined == {i \in Expired(n) : Reserve[i] \in Hopeless(w.missing)}
           candidates == {i \in Expired(n) : Reserve[i] \in w.groups \ w.missing}
           taken == {i \in candidates : i \in ItemsOf(pool)}
           items == {i \in candidates : LiveItem(i)}
           reserves == {Reserve[i] : i \in items}
           tx == [items |-> items, reserves |-> reserves]
           f == [i \in Item |->
               CASE i \in quarantined -> [st |-> "unburnable", since |-> 0, by |-> None]
                 [] i \in taken -> [st |-> "burning", since |-> 0,
                                    by |-> CHOOSE t \in pool : Spends(t, i)]
                 [] OTHER -> row[n][i]]
           j == IF items = {} THEN Idle ELSE [pc |-> "anchor", late |-> late, tx |-> tx]
<1>1. w \in Preparing
  BY Known, JobKinds DEF Prepare
<1>2. w.missing \subseteq ReservesOf(pool) \cup lost
  <2>1. JobOK(w) /\ w.pc = "prepare"
    BY Known DEF Prepare
  <2> QED BY <2>1 DEF JobOK
<1>3. \A i \in Expired(n) : i \in Item /\ Old(i)
  BY Known DEF RowOK, Expired
<1>4. \A i \in Item : RowOK(i, f[i])
  <2> SUFFICES ASSUME NEW i \in Item PROVE RowOK(i, f[i])
    OBVIOUS
  <2>1. CASE i \in quarantined
    <3>1. Reserve[i] \in lost
      BY <2>1, <1>2 DEF Hopeless
    <3>2. f[i] = [st |-> "unburnable", since |-> 0, by |-> None]
      <4>1. i \notin taken
        BY <2>1 DEF Hopeless
      <4> HIDE DEF quarantined, taken
      <4> QED BY <2>1, <4>1
    <3> QED BY <3>1, <3>2, RowsWritten, Plain0
  <2>2. CASE i \notin quarantined /\ i \in taken
    <3>1. Old(i) /\ i \in ItemsOf(pool)
      BY <2>2, <1>3
    <3>2. f[i] = [st |-> "burning", since |-> 0, by |-> CHOOSE t \in pool : Spends(t, i)]
      BY <2>2
    <3> QED BY <3>1, <3>2, PoolRow
  <2>3. CASE i \notin quarantined /\ i \notin taken
    <3>1. f[i] = row[n][i]
      BY <2>3
    <3> QED BY <3>1, Known
  <2> QED BY <2>1, <2>2, <2>3
<1>5. JobOK(j)
  <2>1. late \in BOOLEAN
    BY <1>1 DEF Preparing
  <2>2. items \subseteq Item /\ \A i \in items : Old(i)
    BY <1>3
  <2>3. reserves \subseteq Coin
    BY <2>2 DEF Coin
  <2> DEFINE k == [pc |-> "anchor", late |-> late, tx |-> tx]
  <2>4. JobOK(k)
    <3>1. tx \in Tx /\ tx.items = items
      <4> HIDE DEF items, reserves
      <4> QED BY <2>2, <2>3 DEF Tx
    <3> HIDE DEF late, tx
    <3>2. k \in Anchoring
      BY <2>1, <3>1 DEF Anchoring
    <3>3. k.pc = "anchor" /\ k.tx = tx
      OBVIOUS
    <3> HIDE DEF k
    <3> QED BY <2>2, <3>1, <3>2, <3>3 DEF JobOK, Jobs
  <2> QED BY <2>4, IdleOK
<1>6. f = [i \in Item |-> f[i]]
  OBVIOUS
<1>7. /\ Goto(n, j) /\ UNCHANGED <<world, pool>> /\ row' = [row EXCEPT ![n] = f]
      /\ due' = due
  BY Zenon DEF Prepare
<1> HIDE DEF f, j
<1>8. /\ row' = row \/ row' = [row EXCEPT ![n] = f]
      /\ due' = due \/ (due' = [due EXCEPT ![n] = due[n] - 1] /\ due[n] > 0)
  BY <1>7
<1> QED BY <1>4, <1>5, <1>6, <1>7, <1>8, RoundStep

(* A round that waits for, has or sends a signed burn. *)
LEMMA SigningOK ==
  ASSUME NEW tx \in Tx, \A i \in tx.items : Old(i), NEW late \in BOOLEAN, NEW tip \in BOOLEAN,
         NEW pc \in {"sign", "send", "mark"}
  PROVE  JobOK([pc |-> pc, late |-> late, tx |-> tx, tip |-> tip])
<1> DEFINE k == [pc |-> pc, late |-> late, tx |-> tx, tip |-> tip]
<1>1. k \in Signing
  BY DEF Signing
<1>2. k.pc = pc /\ k.tx = tx
  OBVIOUS
<1> HIDE DEF k
<1>3. JobOK(k)
  BY <1>1, <1>2 DEF JobOK, Jobs
<1> QED BY <1>3 DEF k

LEMMA AnchorInv == ASSUME Inv, NEW n \in Node, Anchor(n) PROVE Inv'
<1> DEFINE tip == ~behind[n] /\ ~reorged[n]
           tx == job[n].tx
           k == [pc |-> "sign", late |-> FALSE, tx |-> tx, tip |-> tip]
           j == IF ~job[n].late /\ Valid(n, tx) THEN k ELSE Idle
<1>1. job[n] \in Anchoring /\ JobOK(job[n]) /\ job[n].pc = "anchor"
  BY Known, JobKinds DEF Anchor
<1>2. tx \in Tx /\ \A i \in tx.items : Old(i)
  BY <1>1 DEF Anchoring, JobOK
<1>3. JobOK(k)
  <2>1. tip \in BOOLEAN
    OBVIOUS
  <2> HIDE DEF tip, tx
  <2> QED BY <1>2, <2>1, SigningOK
<1>4. JobOK(j)
  <2> HIDE DEF k
  <2> QED BY <1>3, IdleOK
<1>5. Goto(n, j) /\ UNCHANGED <<world, pool, row, due>>
  BY Zenon DEF Anchor
<1> HIDE DEF j
<1> QED BY <1>4, <1>5, Quiet

(* The rounds with a request that is being signed. *)
LEMMA SigningJob ==
  ASSUME Inv, NEW n \in Node, job[n].pc \in {"sign", "send", "mark"}
  PROVE  /\ job[n] \in Signing
         /\ job[n].tx \in Tx /\ \A i \in job[n].tx.items : Old(i)
         /\ JobOK([job[n] EXCEPT !.pc = "send"]) /\ JobOK([job[n] EXCEPT !.pc = "mark"])
         /\ JobOK([job[n] EXCEPT !.tip = FALSE])
<1>1. job[n] \in Signing /\ JobOK(job[n])
  BY Known, JobKinds
<1>2. job[n].tx \in Tx /\ \A i \in job[n].tx.items : Old(i)
  BY <1>1 DEF JobOK, Signing
<1> DEFINE w == job[n]
<1> HIDE DEF w
<1>3. w \in Signing /\ JobOK(w)
  BY <1>1 DEF w
<1>4. JobOK([w EXCEPT !.pc = "send"]) /\ JobOK([w EXCEPT !.pc = "mark"])
  BY <1>3 DEF Signing, JobOK, Jobs
<1>5. JobOK([w EXCEPT !.tip = FALSE])
  BY <1>3 DEF Signing, JobOK, Jobs
<1> QED BY <1>1, <1>2, <1>4, <1>5 DEF w

LEMMA SignInv == ASSUME Inv, NEW n \in Node, Sign(n) PROVE Inv'
<1> DEFINE j == [job[n] EXCEPT !.pc = "send"]
<1>1. JobOK(j)
  BY SigningJob DEF Sign
<1>2. Goto(n, j) /\ UNCHANGED <<world, pool, row, due>>
  BY DEF Sign
<1> HIDE DEF j
<1> QED BY <1>1, <1>2, Quiet

LEMMA UnsignedInv == ASSUME Inv, NEW n \in Node, Unsigned(n) PROVE Inv'
  BY Quiet, IdleOK DEF Unsigned

(* A transaction that enters the mempool. *)
LEMMA PoolGrows ==
  ASSUME Inv, NEW t, TxOK(t), pool' = pool \cup {t},
         UNCHANGED <<chainVars, row, due, behind, reorged, notices>>,
         job' \in [Node -> Jobs], \A m \in Node : JobOK(job'[m])
  PROVE  Inv'
<1>1. UNCHANGED <<age, turn, deep, last, lost>>
  BY DEF chainVars
<1>2. \A i, r : RowOK(i, r)' <=> RowOK(i, r)
  BY <1>1 DEF RowOK, Old
<1>3. \A u : TxOK(u)' <=> TxOK(u)
  BY <1>1 DEF TxOK, Old
<1>4. \A k : JobOK(k) => JobOK(k)'
  BY <1>1 DEF JobOK, Old, ReservesOf
<1>5. Plain'
  BY <1>1 DEF Inv, Plain
<1>6. Rows'
  BY <1>2 DEF Inv, Rows
<1>7. Works'
  BY <1>4 DEF Works
<1>8. Txs'
  BY <1>1, <1>3 DEF Inv, Txs
<1>9. MinedIsLost'
  BY <1>1 DEF Inv, MinedIsLost, Mined
<1> QED BY <1>5, <1>6, <1>7, <1>8, <1>9 DEF Inv

LEMMA SendInv == ASSUME Inv, NEW n \in Node, Send(n) PROVE Inv'
<1> DEFINE t == job[n].tx
           w == [job[n] EXCEPT !.pc = "mark"]
<1>1. t \in Tx /\ (\A i \in t.items : Old(i)) /\ JobOK(w)
  BY SigningJob DEF Send
<1>2. CASE Accepts(t)
  <2>1. Goto(n, w) /\ pool' = pool \cup {t}
    BY <1>2, Zenon DEF Send
  <2>2. UNCHANGED <<chainVars, row, due, behind, reorged, notices>>
    BY DEF Send, world
  <2>3. TxOK(t)
    BY <1>1 DEF TxOK
  <2> HIDE DEF t, w
  <2>4. job' \in [Node -> Jobs] /\ \A m \in Node : JobOK(job'[m])
    BY <1>1, <2>1 DEF Goto, Inv, Works, JobOK
  <2> QED BY <2>1, <2>2, <2>3, <2>4, PoolGrows
<1>3. CASE ~Accepts(t)
  <2>1. Goto(n, Idle) /\ pool' = pool /\ UNCHANGED <<world, row, due>>
    BY <1>3, Zenon DEF Send
  <2> QED BY <2>1, Quiet, IdleOK
<1> QED BY <1>2, <1>3

(* The rows that mark_burning writes. *)
LEMMA MarkedOK ==
  ASSUME Inv, NEW n \in Node, NEW t \in Tx, Markable(n, t, t.items), NEW since \in 0 .. 1,
         NEW i \in Item
  PROVE  RowOK(i, IF i \in t.items THEN [st |-> "burning", since |-> since, by |-> t]
                  ELSE row[n][i])
<1>1. CASE i \in t.items
  <2>1. Old(i)
    BY <1>1, Known DEF Markable, RowOK
  <2> QED BY <1>1, <2>1, RowsWritten, Plain0 DEF Spends
<1>2. CASE i \notin t.items
  BY <1>2, Known
<1> QED BY <1>1, <1>2

LEMMA MarkInv == ASSUME Inv, NEW n \in Node, Mark(n) PROVE Inv'
<1> DEFINE t == job[n].tx
           since == IF job[n].late THEN 1 ELSE 0
           f == [i \in Item |->
                  IF i \in t.items THEN [st |-> "burning", since |-> since, by |-> t]
                  ELSE row[n][i]]
<1>1. t \in Tx
  BY SigningJob DEF Mark
<1>2. UNCHANGED <<chainVars, pool, behind, reorged, due>> /\ job' = [job EXCEPT ![n] = Idle]
  BY DEF Mark, Goto
<1>3. behind' \in [Node -> BOOLEAN] /\ reorged' \in [Node -> BOOLEAN] /\ due' \in [Node -> 0 .. Rounds]
  BY <1>2 DEF Inv, Plain
<1>4. notices \subseteq Tx
  BY DEF Inv, Plain
<1>5. CASE Markable(n, t, t.items)
  <2>1. since \in 0 .. 1
    OBVIOUS
  <2>2. \A i \in Item : RowOK(i, f[i])
    <3> HIDE DEF since, t
    <3> QED BY <1>1, <1>5, <2>1, MarkedOK
  <2>3. row' = [row EXCEPT ![n] = f]
    BY <1>5, Zenon DEF Mark, Burn
  <2>4. notices' \subseteq Tx
    BY <1>1, <1>4, <1>5 DEF Mark
  <2>5. f \in [Item -> RowType]
    <3>1. \A i \in Item : f[i] \in RowType
      BY <2>2 DEF RowOK
    <3>2. f = [i \in Item |-> f[i]]
      OBVIOUS
    <3> HIDE DEF f
    <3> QED BY <3>1, <3>2
  <2> HIDE DEF f
  <2>6. (row' = row \/ row' = [row EXCEPT ![n] = f]) /\ (job' = job \/ job' = [job EXCEPT ![n] = Idle])
    BY <1>2, <2>3
  <2> QED BY <1>2, <1>3, <2>2, <2>4, <2>5, <2>6, IdleOK, NodeStep
<1>6. CASE ~Markable(n, t, t.items)
  <2> DEFINE g == row[n]
  <2>1. row' = row /\ notices' = notices
    BY <1>6 DEF Mark
  <2>2. g \in [Item -> RowType] /\ \A i \in Item : RowOK(i, g[i])
    BY Known DEF Inv, Rows
  <2>3. (row' = row \/ row' = [row EXCEPT ![n] = g]) /\ (job' = job \/ job' = [job EXCEPT ![n] = Idle])
    BY <1>2, <2>1
  <2> HIDE DEF g
  <2> QED BY <1>2, <1>3, <1>4, <2>1, <2>2, <2>3, IdleOK, NodeStep
<1> QED BY <1>5, <1>6

LEMMA ObserveInv == ASSUME Inv, NEW n \in Node, NEW t \in notices, Observe(n, t) PROVE Inv'
<1> DEFINE f == [i \in Item |->
                  IF i \in t.items THEN [st |-> "burning", since |-> 0, by |-> t]
                  ELSE row[n][i]]
           j == job[n]
<1>1. t \in Tx
  BY DEF Inv, Plain
<1>2. \A i \in Item : RowOK(i, f[i])
  <2>1. Markable(n, t, t.items) /\ 0 \in 0 .. 1
    BY DEF Observe
  <2> QED BY <1>1, <2>1, MarkedOK
<1>3. f \in [Item -> RowType]
  <2>1. \A i \in Item : f[i] \in RowType
    BY <1>2 DEF RowOK
  <2>2. f = [i \in Item |-> f[i]]
    OBVIOUS
  <2> HIDE DEF f
  <2> QED BY <2>1, <2>2
<1>4. JobOK(j)
  BY Known
<1>5. row' = [row EXCEPT ![n] = f]
  BY Zenon DEF Observe, Burn
<1>6. UNCHANGED <<chainVars, pool, behind, reorged, due, notices, job>>
  BY DEF Observe, world
<1>7. /\ behind' \in [Node -> BOOLEAN] /\ reorged' \in [Node -> BOOLEAN]
      /\ due' \in [Node -> 0 .. Rounds] /\ notices' \subseteq Tx
  BY <1>6 DEF Inv, Plain
<1> HIDE DEF f, j
<1>8. /\ UNCHANGED <<chainVars, pool>>
      /\ (row' = row \/ row' = [row EXCEPT ![n] = f]) /\ (job' = job \/ job' = [job EXCEPT ![n] = j])
  BY <1>5, <1>6
<1> QED BY <1>2, <1>3, <1>4, <1>7, <1>8, NodeStep

LEMMA InterruptInv == ASSUME Inv, NEW n \in Node, Interrupt(n) PROVE Inv'
<1> DEFINE f == row[n]
<1>1. f \in [Item -> RowType] /\ \A i \in Item : RowOK(i, f[i])
  BY Known DEF Inv, Rows
<1>2. UNCHANGED <<chainVars, pool, behind, reorged, row, notices>>
  BY DEF Interrupt
<1>3. /\ behind' \in [Node -> BOOLEAN] /\ reorged' \in [Node -> BOOLEAN]
      /\ notices' \subseteq Tx
  BY <1>2 DEF Inv, Plain
<1>4. due' \in [Node -> 0 .. Rounds]
  BY Positive DEF Interrupt, Inv, Plain
<1> HIDE DEF f
<1>5. /\ UNCHANGED <<chainVars, pool>>
      /\ (row' = row \/ row' = [row EXCEPT ![n] = f]) /\ (job' = job \/ job' = [job EXCEPT ![n] = Idle])
  BY <1>2 DEF Interrupt, Goto
<1> QED BY <1>1, <1>3, <1>4, <1>5, IdleOK, NodeStep

-----------------------------------------------------------------------------
(* The world outside. *)

LEMMA Ages ==
  ASSUME Inv, NEW i \in Item
  PROVE  /\ age[i] \in 0 .. Lifetime
         /\ Min({age[i] + 1, Lifetime}) \in 0 .. Lifetime
         /\ Old(i) => Min({age[i] + 1, Lifetime}) >= Lifetime
<1>1. age[i] \in 0 .. Lifetime /\ age[i] + 1 \in Nat
  BY Positive DEF Inv, Plain
<1>2. Min({age[i] + 1, Lifetime}) = IF age[i] + 1 <= Lifetime THEN age[i] + 1 ELSE Lifetime
  BY <1>1, MinOfTwo, Positive
<1> QED BY <1>1, <1>2, Positive DEF Old

(* What a new tip makes of the rounds. *)
LEMMA NewTipOK ==
  ASSUME Inv, NewTip
  PROVE  job' \in [Node -> Jobs] /\ \A m \in Node : JobOK(job'[m])
<1>1. ASSUME NEW m \in Node PROVE JobOK(job'[m]) /\ job'[m] \in Jobs
  <2>1. CASE job[m].pc \in {"sign", "send", "mark"}
    <3>1. job'[m] = [job[m] EXCEPT !.tip = FALSE]
      BY <2>1, Zenon DEF NewTip
    <3> QED BY <2>1, <3>1, SigningJob DEF JobOK
  <2>2. CASE job[m].pc \notin {"sign", "send", "mark"}
    <3>1. job'[m] = job[m]
      BY <2>2, Zenon DEF NewTip
    <3> QED BY <3>1, Known
  <2> QED BY <2>1, <2>2
<1>2. job' = [n \in Node |-> job'[n]]
  <2> DEFINE g == [n \in Node |-> IF job[n].pc \in {"sign", "send", "mark"}
                                  THEN [job[n] EXCEPT !.tip = FALSE] ELSE job[n]]
  <2>1. job' = g
    BY Zenon DEF NewTip
  <2>2. g = [n \in Node |-> g[n]]
    OBVIOUS
  <2> HIDE DEF g
  <2> QED BY <2>1, <2>2
<1> QED BY <1>1, <1>2

(* The environment keeps the invariant when ages grow, reserves that leave *)
(* the mempool are lost, and no transaction comes from nowhere.            *)
LEMMA Outside ==
  ASSUME Inv, UNCHANGED row,
         age' \in [Item -> 0 .. Lifetime],
         \A i \in Item : Old(i) => age'[i] >= Lifetime,
         lost \subseteq lost', lost' \subseteq Coin,
         deep' \cup last' \cup pool' \subseteq deep \cup last \cup pool,
         ReservesOf(deep' \cup last') \subseteq lost',
         \A m \in Node : job[m].pc = "prepare" =>
           job[m].missing \cap ReservesOf(pool) \subseteq ReservesOf(pool') \cup lost',
         job' \in [Node -> Jobs], \A m \in Node : JobOK(job'[m]),
         \A m \in Node : job'[m].pc = "prepare" => job'[m] = job[m],
         turn' \in Node, notices' \subseteq Tx, due' \in [Node -> 0 .. Rounds],
         behind' \in [Node -> BOOLEAN], reorged' \in [Node -> BOOLEAN]
  PROVE  Inv'
<1>1. \A i \in Item : Old(i) => Old(i)'
  BY DEF Old
<1>2. Plain'
  BY DEF Plain
<1>3. Rows'
  <2>1. \A i \in Item : \A r : RowOK(i, r) => RowOK(i, r)'
    BY <1>1 DEF RowOK
  <2> QED BY <2>1 DEF Inv, Rows
<1>4. Works'
  <2>1. ASSUME NEW k \in Jobs, JobOK(k),
               k.pc = "prepare" => k.missing \subseteq ReservesOf(pool') \cup lost'
        PROVE  JobOK(k)'
    <3>1. k.pc \in {"anchor", "sign", "send", "mark"} => k.tx \in Tx
      BY JobKinds DEF Anchoring, Signing
    <3>2. k.pc \in {"anchor", "sign", "send", "mark"} => \A i \in k.tx.items : i \in Item /\ Old(i)
      BY <2>1, <3>1 DEF JobOK, Tx
    <3>3. k.pc \in {"anchor", "sign", "send", "mark"} => \A i \in k.tx.items : Old(i)'
      BY <1>1, <3>2
    <3>4. (ReservesOf(pool) \cup lost)' = ReservesOf(pool') \cup lost'
      BY DEF ReservesOf
    <3> QED BY <2>1, <3>3, <3>4 DEF JobOK
  <2>2. \A m \in Node : job'[m].pc = "prepare" =>
          job'[m].missing \subseteq ReservesOf(pool') \cup lost'
    <3> SUFFICES ASSUME NEW m \in Node, job'[m].pc = "prepare"
                 PROVE  job'[m].missing \subseteq ReservesOf(pool') \cup lost'
      OBVIOUS
    <3>1. job'[m] = job[m] /\ job[m].pc = "prepare" /\ JobOK(job[m])
      BY Known
    <3> QED BY <3>1 DEF JobOK
  <2> QED BY <2>1, <2>2 DEF Works
<1>5. Txs'
  <2>1. \A t : TxOK(t) => TxOK(t)'
    BY <1>1 DEF TxOK, Tx
  <2> QED BY <2>1 DEF Inv, Txs
<1>6. MinedIsLost'
  BY DEF MinedIsLost, Mined, ReservesOf
<1> QED BY <1>2, <1>3, <1>4, <1>5, <1>6 DEF Inv

LEMMA TipsOnly ==
  ASSUME Inv, NewTip
  PROVE  \A m \in Node : job'[m].pc = "prepare" => job'[m] = job[m]
<1> SUFFICES ASSUME NEW m \in Node, job'[m].pc = "prepare" PROVE job'[m] = job[m]
  OBVIOUS
<1>1. CASE job[m].pc \in {"sign", "send", "mark"}
  <2>1. job'[m] = [job[m] EXCEPT !.tip = FALSE]
    BY <1>1, Zenon DEF NewTip
  <2>2. job[m] \in Signing
    BY <1>1, SigningJob
  <2>3. job'[m].pc = job[m].pc
    BY <2>1, <2>2 DEF Signing
  <2> QED BY <1>1, <2>3
<1>2. CASE job[m].pc \notin {"sign", "send", "mark"}
  BY <1>2, Zenon DEF NewTip
<1> QED BY <1>1, <1>2

LEMMA MineInv == ASSUME Inv, NEW taken \in {{}, pool}, Mine(taken) PROVE Inv'
<1>1. taken \subseteq pool
  OBVIOUS
<1>2. ReservesOf(taken) \subseteq Coin
  BY <1>1 DEF Inv, Txs, TxOK, Tx, ReservesOf
<1>3. /\ age' = [i \in Item |-> Min({age[i] + 1, Lifetime})]
      /\ turn' = (turn + 1) % N /\ deep' = deep \cup last /\ last' = taken
      /\ pool' = pool \ taken /\ lost' = lost \cup ReservesOf(taken)
      /\ behind' = [n \in Node |-> TRUE] /\ reorged' = reorged /\ row' = row /\ due' = due
      /\ NewTip /\ notices' = {}
  BY DEF Mine, Mined, inside, NewTip
<1>4. age' \in [Item -> 0 .. Lifetime] /\ \A i \in Item : Old(i) => age'[i] >= Lifetime
  BY <1>3, Ages
<1>5. lost \subseteq lost' /\ lost' \subseteq Coin
  BY <1>2, <1>3 DEF Inv, Plain
<1>6. deep' \cup last' \cup pool' \subseteq deep \cup last \cup pool
  BY <1>1, <1>3
<1>7. ReservesOf(deep' \cup last') \subseteq lost'
  BY <1>3 DEF Inv, MinedIsLost, Mined, ReservesOf
<1>8. \A m \in Node : job[m].pc = "prepare" =>
        job[m].missing \cap ReservesOf(pool) \subseteq ReservesOf(pool') \cup lost'
  <2>1. ReservesOf(pool) \subseteq ReservesOf(pool') \cup lost'
    BY <1>3 DEF ReservesOf
  <2> QED BY <2>1
<1>9. job' \in [Node -> Jobs] /\ \A m \in Node : JobOK(job'[m])
  BY <1>3, NewTipOK
<1>10. \A m \in Node : job'[m].pc = "prepare" => job'[m] = job[m]
  BY <1>3, TipsOnly
<1>11. turn' \in Node
  BY <1>3, Positive DEF Inv, Plain, Node
<1>12. /\ notices' \subseteq Tx /\ due' \in [Node -> 0 .. Rounds]
       /\ behind' \in [Node -> BOOLEAN] /\ reorged' \in [Node -> BOOLEAN] /\ row' = row
  BY <1>3 DEF Inv, Plain
<1> QED BY <1>4, <1>5, <1>6, <1>7, <1>8, <1>9, <1>10, <1>11, <1>12, Outside

LEMMA ReplaceInv == ASSUME Inv, Replace PROVE Inv'
<1>1. /\ age' = age /\ turn' = turn /\ deep' = deep /\ last' = {}
      /\ pool' = pool \cup last /\ lost' = lost
      /\ behind' = behind /\ reorged' = [n \in Node |-> reorged[n] \/ ~behind[n]]
      /\ row' = row /\ due' = due /\ NewTip /\ notices' = {}
  BY DEF Replace, inside, NewTip
<1>2. age' \in [Item -> 0 .. Lifetime] /\ \A i \in Item : Old(i) => age'[i] >= Lifetime
  BY <1>1 DEF Inv, Plain, Old
<1>3. lost \subseteq lost' /\ lost' \subseteq Coin
  BY <1>1 DEF Inv, Plain
<1>4. deep' \cup last' \cup pool' \subseteq deep \cup last \cup pool
  BY <1>1
<1>5. ReservesOf(deep' \cup last') \subseteq lost'
  BY <1>1 DEF Inv, MinedIsLost, Mined, ReservesOf
<1>6. \A m \in Node : job[m].pc = "prepare" =>
        job[m].missing \cap ReservesOf(pool) \subseteq ReservesOf(pool') \cup lost'
  <2>1. ReservesOf(pool) \subseteq ReservesOf(pool') \cup lost'
    BY <1>1 DEF ReservesOf
  <2> QED BY <2>1
<1>7. job' \in [Node -> Jobs] /\ \A m \in Node : JobOK(job'[m])
  BY <1>1, NewTipOK
<1>8. \A m \in Node : job'[m].pc = "prepare" => job'[m] = job[m]
  BY <1>1, TipsOnly
<1>9. behind' \in [Node -> BOOLEAN] /\ reorged' \in [Node -> BOOLEAN]
  <2>1. \A n \in Node : behind[n] \in BOOLEAN /\ reorged[n] \in BOOLEAN
    BY DEF Inv, Plain
  <2>2. behind' \in [Node -> BOOLEAN]
    BY <1>1 DEF Inv, Plain
  <2>3. \A n \in Node : (reorged[n] \/ ~behind[n]) \in BOOLEAN
    OBVIOUS
  <2>4. reorged' \in [Node -> BOOLEAN]
    BY <1>1, <2>3, Zenon
  <2> QED BY <2>2, <2>4
<1>10. /\ notices' \subseteq Tx /\ due' \in [Node -> 0 .. Rounds] /\ turn' \in Node /\ row' = row
  BY <1>1 DEF Inv, Plain
<1> QED BY <1>2, <1>3, <1>4, <1>5, <1>6, <1>7, <1>8, <1>9, <1>10, Outside

LEMMA UseInv == ASSUME Inv, NEW i \in Item, Use(i) PROVE Inv'
<1> DEFINE t == [items |-> {i}, reserves |-> {}]
<1>1. TxOK(t)
  BY DEF TxOK, Tx
<1>2. pool' = pool \cup {t} /\ UNCHANGED <<chainVars, row, due, behind, reorged, notices>> /\ job' = job
  BY DEF Use, inside
<1>3. job' \in [Node -> Jobs] /\ \A m \in Node : JobOK(job'[m])
  BY <1>2 DEF Inv, Works
<1> HIDE DEF t
<1> QED BY <1>1, <1>2, <1>3, PoolGrows

LEMMA StealInv == ASSUME Inv, NEW c \in Coin, Steal(c) PROVE Inv'
<1> DEFINE t == [items |-> {}, reserves |-> {c}]
<1>1. TxOK(t)
  BY DEF TxOK, Tx
<1>2. pool' = pool \cup {t} /\ UNCHANGED <<chainVars, row, due, behind, reorged, notices>> /\ job' = job
  BY DEF Steal, inside
<1>3. job' \in [Node -> Jobs] /\ \A m \in Node : JobOK(job'[m])
  BY <1>2 DEF Inv, Works
<1> HIDE DEF t
<1> QED BY <1>1, <1>2, <1>3, PoolGrows

LEMMA EvictInv == ASSUME Inv, NEW t \in pool, Evict(t) PROVE Inv'
<1>1. /\ age' = age /\ turn' = turn /\ deep' = deep /\ last' = last
      /\ pool' = pool \ {t}
      /\ behind' = behind /\ reorged' = reorged
      /\ row' = row /\ due' = due /\ job' = job /\ notices' = notices
  BY DEF Evict, inside
<1>2. lost' = lost \cup {c \in t.reserves : \E n \in Node : /\ job[n].pc = "prepare"
                                                           /\ c \in job[n].missing}
  BY DEF Evict
<1>3. age' \in [Item -> 0 .. Lifetime] /\ \A i \in Item : Old(i) => age'[i] >= Lifetime
  BY <1>1 DEF Inv, Plain, Old
<1>4. lost \subseteq lost' /\ lost' \subseteq Coin
  <2>1. t.reserves \subseteq Coin
    BY DEF Inv, Txs, TxOK, Tx
  <2> QED BY <1>2, <2>1 DEF Inv, Plain
<1>5. deep' \cup last' \cup pool' \subseteq deep \cup last \cup pool
  BY <1>1
<1>6. ReservesOf(deep' \cup last') \subseteq lost'
  BY <1>1, <1>4 DEF Inv, MinedIsLost, Mined, ReservesOf
<1>7. \A m \in Node : job[m].pc = "prepare" =>
        job[m].missing \cap ReservesOf(pool) \subseteq ReservesOf(pool') \cup lost'
  <2> SUFFICES ASSUME NEW m \in Node, job[m].pc = "prepare",
                      NEW c \in job[m].missing, c \in ReservesOf(pool), c \notin ReservesOf(pool')
               PROVE  c \in lost'
    OBVIOUS
  <2>1. c \in t.reserves
    BY <1>1 DEF ReservesOf
  <2> QED BY <1>2, <2>1
<1>8. job' \in [Node -> Jobs] /\ \A m \in Node : JobOK(job'[m])
  BY <1>1 DEF Inv, Works
<1>9. \A m \in Node : job'[m].pc = "prepare" => job'[m] = job[m]
  BY <1>1
<1>10. /\ notices' \subseteq Tx /\ due' \in [Node -> 0 .. Rounds] /\ turn' \in Node /\ row' = row
       /\ behind' \in [Node -> BOOLEAN] /\ reorged' \in [Node -> BOOLEAN]
  BY <1>1 DEF Inv, Plain
<1> QED BY <1>3, <1>4, <1>5, <1>6, <1>7, <1>8, <1>9, <1>10, Outside

-----------------------------------------------------------------------------

LEMMA InitInv == Init => Inv
<1> SUFFICES ASSUME Init PROVE Inv
  OBVIOUS
<1>1. /\ age = [i \in Item |-> 0] /\ turn = 0
      /\ deep = {} /\ last = {} /\ pool = {} /\ lost = {}
      /\ behind = [n \in Node |-> FALSE] /\ reorged = [n \in Node |-> FALSE]
      /\ row = [n \in Node |-> [i \in Item |-> Fresh(i, 0)]]
      /\ due = [n \in Node |-> 0] /\ job = [n \in Node |-> Idle] /\ notices = {}
  BY DEF Init
<1>2. Plain
  BY <1>1, Positive DEF Plain, Node
<1>3. \A i \in Item : Fresh(i, 0) = Fresh(i, age[i])
  BY <1>1
<1>4. \A i \in Item : RowOK(i, Fresh(i, 0)) /\ Fresh(i, 0) \in RowType
  BY <1>2, <1>3, RowsWritten DEF RowOK
<1>5. Rows
  <2> DEFINE g == [i \in Item |-> Fresh(i, 0)]
  <2>1. g \in [Item -> RowType] /\ \A i \in Item : RowOK(i, g[i])
    BY <1>4
  <2>2. row = [n \in Node |-> g]
    BY <1>1
  <2> HIDE DEF g
  <2> QED BY <2>1, <2>2 DEF Rows
<1>6. Works
  BY <1>1, IdleOK DEF Works, JobOK
<1>7. Txs /\ MinedIsLost
  BY <1>1 DEF Txs, MinedIsLost, Mined, ReservesOf
<1> QED BY <1>2, <1>5, <1>6, <1>7 DEF Inv

LEMMA RoundInv == ASSUME Inv, NEW n \in Node, Round(n) PROVE Inv'
<1>1. ASSUME NEW groups \in kSubset(Min({MaxGroups, Cardinality(Groups(n))}), Groups(n)),
             Look(n, groups)
      PROVE  Inv'
  <2>1. groups \subseteq Groups(n)
    BY DEF kSubset
  <2> QED BY <1>1, <2>1, LookInv
<1> QED BY <1>1, StartInv, ReleaseInv, ReconcileInv, NothingExpiredInv, PrepareInv, AnchorInv,
           SignInv, UnsignedInv, SendInv, MarkInv DEF Round

LEMMA StepInv == Inv /\ [Next]_vars => Inv'
<1> SUFFICES ASSUME Inv, [Next]_vars PROVE Inv'
  OBVIOUS
<1>1. ASSUME NEW n \in Node, IndexTick(n) PROVE Inv'
  <2>1. CatchUp(n) /\ UNCHANGED <<chainVars, pool, notices>>
    BY <1>1 DEF IndexTick
  <2>2. due' \in [Node -> 0 .. Rounds]
    BY <1>1, Positive DEF IndexTick, Inv, Plain
  <2> QED BY <2>1, <2>2, CatchUpInv
<1>2. ASSUME NEW n \in Node, Sync(n) PROVE Inv'
  <2>1. CatchUp(n) /\ UNCHANGED <<chainVars, pool, notices, due>>
    BY <1>2 DEF Sync
  <2>2. due' \in [Node -> 0 .. Rounds]
    BY <2>1 DEF Inv, Plain
  <2> QED BY <2>1, <2>2, CatchUpInv
<1>3. CASE Environment
  BY <1>3, MineInv, ReplaceInv, UseInv, StealInv, EvictInv DEF Environment
<1>4. CASE UNCHANGED vars
  <2>1. UNCHANGED <<age, turn, deep, last, lost, pool, behind, reorged, row, due, job, notices>>
    BY <1>4 DEF vars, chainVars
  <2>2. Plain' /\ Rows' /\ MinedIsLost'
    BY <2>1 DEF Inv, Plain, Rows, RowOK, Old, MinedIsLost, Mined
  <2>3. Works' /\ Txs'
    BY <2>1 DEF Inv, Works, JobOK, Txs, TxOK, Old
  <2> QED BY <2>2, <2>3 DEF Inv
<1> QED BY <1>1, <1>2, <1>3, <1>4, RoundInv, InterruptInv, ObserveInv DEF Next

LEMMA SpecInv == Spec => []Inv
  BY InitInv, StepInv, PTL DEF Spec

LEMMA InvSays == Inv => TypeOK /\ NoEarlyBurn /\ QuarantinedIsLost
<1> SUFFICES ASSUME Inv PROVE TypeOK /\ NoEarlyBurn /\ QuarantinedIsLost
  OBVIOUS
<1>1. TypeOK
  BY DEF TypeOK, Inv, Plain, Rows, RowOK, Txs, TxOK
<1>2. NoEarlyBurn
  BY DEF NoEarlyBurn, Inv, Txs, TxOK, Old, Mined
<1>3. QuarantinedIsLost
  BY Known DEF QuarantinedIsLost, RowOK
<1> QED BY <1>1, <1>2, <1>3

(* The rows of a node, its rounds and the transactions are of their types, *)
(* and a row has a burn that spends its item just when it is burning       *)
(* (db/monitored_utxo.rs).                                                 *)
THEOREM TypeCorrect == Spec => []TypeOK
  BY SpecInv, InvSays, PTL

(* A burn spends only items whose lifetime is over, whatever the nodes     *)
(* have indexed when it is built, checked and signed (apply_block_in,      *)
(* validate_request, require_chain_tip).                                   *)
THEOREM EarlyBurnSafety == Spec => []NoEarlyBurn
  BY SpecInv, InvSays, PTL

(* An item that a node gave up has lost its burn reserve to a block, or to *)
(* a spender that left the mempool while the round looked at it            *)
(* (prepare_round_candidate, quarantine_group).                            *)
THEOREM QuarantineSafety == Spec => []QuarantinedIsLost
  BY SpecInv, InvSays, PTL
=============================================================================
